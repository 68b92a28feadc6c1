----------------------------- MODULE LiveConfig -----------------------------
(***************************************************************************)
(* server.yml and its three copies: the file, the AppConfig all of the      *)
(* server shares (config/config.go), and the settings the I2P manager was   *)
(* last given.  An administrator's UpdateSettings changes the shared copy,  *)
(* saves all of it and applies its own (handler/admin_i2p.go); the watcher  *)
(* (service/config_watcher.go) loads the file again half a second after its *)
(* last change, and the callback in main.go takes over and applies what it  *)
(* read.  Many handlers call LoadConfig too, for the title or a path, and   *)
(* that alone may write the file.  None of this is serialised but           *)
(* UpdateConfig itself.                                                     *)
(*                                                                          *)
(* Of the settings, sec stands for the sections that can change while the   *)
(* server runs, key for security.encryption_key, which is generated when a  *)
(* load finds none, and port for whether the file's listen port is valid.   *)
(* An assignment of sec is one step.                                        *)
(***************************************************************************)
EXTENDS Naturals, FiniteSets

CONSTANTS
    Settings,     \* values of the sections
    Default,      \* the one LoadConfig starts from
    Corrected,    \* what NormalizeI2PConfig and validateConfig make of each value
    Accepted,     \* the values ValidateI2PConfig lets an administrator save
    Updates,      \* UpdateSettings requests that may be in flight at once
    Reloads,      \* reloads that may be in flight at once
    Readers,      \* other requests inside LoadConfig at once
    MaxSaves,     \* bound: settings saved by administrators
    MaxEdits,     \* bound: edits of the file by hand
    MaxFailures,  \* bound: file operations that fail, and restarts
    MaxKeys       \* bound: keys ever generated

ASSUME ConfigAssumption ==
    /\ Default \in Settings /\ Accepted \subseteq Settings
    /\ Corrected \in [Settings -> Settings] /\ Corrected[Default] = Default
    /\ \A s \in Settings : Corrected[Corrected[s]] = Corrected[s]
    /\ Updates \cap Reloads = {} /\ Readers \cap (Updates \cup Reloads) = {}
    /\ {MaxSaves, MaxEdits, MaxFailures, MaxKeys} \subseteq Nat

VARIABLES
    file,     \* what server.yml holds
    shared,   \* the AppConfig behind GetGlobalConfig
    given,    \* the settings of the manager's last UpdateConfig
    debounce, \* whether the watcher's timer is running
    task,     \* task[t]: what request or reload t does next
    keys,     \* how many keys were generated
    count,    \* saves, edits and failures so far, for the bounds
    notes     \* history: the circumstances that occurred

configVars == <<file, shared, given, debounce, task, keys, count, notes>>

Loads == Reloads \cup Readers
Tasks == Updates \cup Loads
NoKey == 0

(* The file may also be empty, hold text that is no YAML document, or be    *)
(* gone; then sec is what it last held.                                     *)
Contents == [sec : Settings, key : 0..keys]
Unread(text) == [sec |-> Default, key |-> NoKey, port |-> "valid", text |-> text]
Empty == Unread("empty")
Garbled == Unread("garbled")
Text(c) == [sec |-> c.sec, key |-> c.key, port |-> "valid", text |-> "yaml"]
Missing == file.text = "missing"

NoTask == [pc |-> "idle", next |-> Default, data |-> [sec |-> Default, key |-> NoKey],
           old |-> FALSE]

(* The shape of the copies and of a task.                                   *)
ConfigTypeOK ==
    /\ file \in [sec : Settings, key : 0..keys, port : {"valid", "invalid"},
                 text : {"yaml", "empty", "garbled", "missing"}]
    /\ shared \in Contents /\ given \in Settings
    /\ debounce \in BOOLEAN /\ keys \in Nat
    /\ task \in [Tasks -> [pc : {"idle", "load", "open", "write", "key", "assign", "apply"},
                           next : Settings, data : Contents, old : BOOLEAN]]
    /\ notes \subseteq {"failure", "overtaken", "removed"}

ConfigInit ==
    /\ keys = 1
    /\ \E s \in Settings : /\ file = Text([sec |-> s, key |-> 1])
                            /\ shared = [sec |-> Corrected[s], key |-> 1]
    /\ given = shared.sec
    /\ debounce = FALSE
    /\ task = [t \in Tasks |-> NoTask]
    /\ count = [saves |-> 0, edits |-> 0, failures |-> 0]
    /\ notes = {}

-----------------------------------------------------------------------------
TaskAt(t, pc) == task[t].pc = pc
TaskGoto(t, pc) == task' = [task EXCEPT ![t].pc = pc]
Tally(what) == count' = [count EXCEPT ![what] = @ + 1]
Remark(what, holds) == notes' = notes \cup (IF holds THEN {what} ELSE {})

ChangedUnlessReloading(c) ==   \* mutant: a running reload hides the change
    /\ file' = c
    /\ debounce' = (debounce \/ \A r \in Reloads : TaskAt(r, "idle"))

(* A change of the file (re)starts the timer.                               *)
Changed(c) == file' = c /\ debounce' = TRUE

(* Task t, under way since before the latest reload began, does something   *)
(* that neither this reload nor another will do again at one of the stages. *)
Overtakes(t, stages) ==
    /\ task[t].old /\ ~debounce
    /\ \A r \in Reloads : task[r].pc \in stages => task[r].old

(* UpdateSettings: decodeI2PConfig, then UpdateI2PConfig assigns what       *)
(* ValidateI2PConfig accepts.                                               *)
UpdateI2PConfig(u, s) ==
    /\ TaskAt(u, "idle") /\ count.saves < MaxSaves
    /\ shared' = [shared EXCEPT !.sec = s]
    /\ task' = [task EXCEPT ![u] = [NoTask EXCEPT !.pc = "open", !.next = s]]
    /\ Tally("saves")
    /\ UNCHANGED <<file, given, debounce, keys, notes>>

(* SaveConfig: a request marshals all of the shared copy, a load what it    *)
(* read; os.WriteFile empties the file ...                                  *)
EmptyFile(t) ==
    /\ TaskAt(t, "open")
    /\ Changed(Empty)
    /\ task' = [task EXCEPT ![t].pc = "write", ![t].data = IF t \in Updates THEN shared ELSE @]
    /\ UNCHANGED <<shared, given, keys, count, notes>>

(* ... and writes.  Of two that write the same file at once the second      *)
(* covers as much of the first as it is long.                               *)
FillFile(t) ==
    /\ TaskAt(t, "write")
    /\ \E c \in {Text(task[t].data)} \cup (IF file = Empty THEN {} ELSE {Garbled}) :
          Changed(c)
    /\ TaskGoto(t, IF t \in Updates THEN "apply" ELSE "key")
    /\ UNCHANGED <<shared, given, keys, count, notes>>

(* A failed save ends the request; a load goes on with what it has.         *)
SaveFails(t) ==
    /\ task[t].pc \in {"open", "write"} /\ count.failures < MaxFailures
    /\ IF t \in Updates THEN task' = [task EXCEPT ![t] = NoTask] ELSE TaskGoto(t, "key")
    /\ Tally("failures") /\ Remark("failure", TRUE)
    /\ UNCHANGED <<file, shared, given, debounce, keys>>

-----------------------------------------------------------------------------
(* The timer's function runs on a goroutine of its own.                     *)
TimerFires(r) ==
    /\ debounce /\ TaskAt(r, "idle")
    /\ debounce' = FALSE
    /\ task' = [t \in Tasks |-> IF t = r THEN [NoTask EXCEPT !.pc = "load"]
                                         ELSE [task[t] EXCEPT !.old = @ \/ ~TaskAt(t, "idle")]]
    /\ UNCHANGED <<file, shared, given, keys, count, notes>>

(* LoadConfig falls back to the defaults when the document does not parse,  *)
(* and an empty one parses.  Invalid values are replaced in memory; only a  *)
(* replaced port makes it save at once.  Without a file it writes one with  *)
(* the defaults and a new key.                                              *)
LoadConfig(t) ==
    /\ TaskAt(t, IF t \in Reloads THEN "load" ELSE "idle")
    /\ IF Missing
       THEN /\ keys < MaxKeys
            /\ keys' = keys + 1
            /\ task' = [task EXCEPT ![t].pc = "open",
                                    ![t].data = [sec |-> Default, key |-> keys + 1]]
       ELSE /\ task' = [task EXCEPT ![t].pc = IF file.port = "invalid" THEN "open" ELSE "key",
                                    ![t].data = [sec |-> Corrected[file.sec], key |-> file.key]]
            /\ UNCHANGED keys
    /\ UNCHANGED <<file, shared, given, debounce, count, notes>>

(* Then it generates a key and saves, if it has read none, and returns.     *)
EnsureKey(t) ==
    /\ TaskAt(t, "key")
    /\ IF task[t].data.key = NoKey
       THEN /\ keys < MaxKeys
            /\ keys' = keys + 1
            /\ task' = [task EXCEPT ![t].pc = "open",
                                    ![t].data = [sec |-> task[t].data.sec, key |-> keys + 1]]
       ELSE /\ IF t \in Reloads THEN TaskGoto(t, "assign") ELSE task' = [task EXCEPT ![t] = NoTask]
            /\ UNCHANGED keys
    /\ UNCHANGED <<file, shared, given, debounce, count, notes>>

LoadFails(r) ==
    /\ TaskAt(r, "load") /\ count.failures < MaxFailures
    /\ task' = [task EXCEPT ![r] = NoTask]
    /\ Tally("failures") /\ Remark("failure", TRUE)
    /\ UNCHANGED <<file, shared, given, debounce, keys>>

(* The reload callback takes over the sections, not the key.                *)
ReloadAssigns(r) ==
    /\ TaskAt(r, "assign")
    /\ shared' = [shared EXCEPT !.sec = task[r].data.sec]
    /\ TaskGoto(r, "apply")
    /\ Remark("overtaken", Overtakes(r, {"load", "open", "write", "key", "assign"}))
    /\ UNCHANGED <<file, given, debounce, keys, count>>

(* UpdateConfig: a request passes its own settings, the callback a pointer  *)
(* into the shared copy.                                                    *)
UpdateConfig(t) ==
    /\ TaskAt(t, "apply")
    /\ given' = IF t \in Updates THEN task[t].next ELSE shared.sec
    /\ task' = [task EXCEPT ![t] = NoTask]
    /\ Remark("overtaken", Overtakes(t, {"load", "open", "write", "key", "assign", "apply"}))
    /\ UNCHANGED <<file, shared, debounce, keys, count>>

-----------------------------------------------------------------------------
(* Somebody edits the file, and may leave it invalid or unreadable.         *)
EditFile(s, p) ==
    /\ file.text = "yaml" /\ count.edits < MaxEdits
    /\ Changed([file EXCEPT !.sec = s, !.port = p])
    /\ Tally("edits")
    /\ UNCHANGED <<shared, given, task, keys, notes>>

EditBadly ==
    /\ count.edits < MaxEdits
    /\ Changed(Garbled)
    /\ Tally("edits")
    /\ UNCHANGED <<shared, given, task, keys, notes>>

(* Somebody deletes it, not amid a save.  The watcher ignores that event.   *)
RemoveFile ==
    /\ count.edits < MaxEdits
    /\ \A t \in Tasks : ~TaskAt(t, "write")
    /\ file' = [file EXCEPT !.text = "missing"]
    /\ Tally("edits") /\ Remark("removed", TRUE)
    /\ UNCHANGED <<shared, given, debounce, task, keys>>

(* The process ends at any moment and is started again: it holds c and      *)
(* StartI2PManager applies it.                                              *)
Restart(c) ==
    /\ count.failures < MaxFailures
    /\ shared' = c /\ given' = c.sec
    /\ debounce' = FALSE
    /\ task' = [t \in Tasks |-> NoTask]
    /\ Tally("failures")

(* LoadConfig with nobody else there; its save may fail or break off.       *)
Boot ==
    LET new == Missing \/ file.key = NoKey
        cfg == [sec |-> IF Missing THEN Default ELSE Corrected[file.sec],
                key |-> IF new THEN keys + 1 ELSE file.key]
    IN  /\ new => keys < MaxKeys
        /\ keys' = IF new THEN keys + 1 ELSE keys
        /\ Restart(cfg)
        /\ IF new \/ file.port = "invalid"
           THEN \/ file' = Text(cfg) /\ UNCHANGED notes
                \/ file' \in {file, Empty} /\ Remark("failure", TRUE)
           ELSE UNCHANGED <<file, notes>>

(* The file cannot be read: the server starts with the defaults and no key. *)
BootUnread ==
    /\ ~Missing
    /\ Restart([sec |-> Default, key |-> NoKey])
    /\ Remark("failure", TRUE)
    /\ UNCHANGED <<file, keys>>

UpdateStep(u) == EmptyFile(u) \/ FillFile(u) \/ SaveFails(u) \/ UpdateConfig(u)

LoadConfigStep(t) == LoadConfig(t) \/ EmptyFile(t) \/ FillFile(t) \/ SaveFails(t) \/ EnsureKey(t)

ConfigNext ==
    \/ \E u \in Updates : UpdateStep(u) \/ \E s \in Accepted : UpdateI2PConfig(u, s)
    \/ \E t \in Loads : LoadConfigStep(t)
    \/ \E r \in Reloads : TimerFires(r) \/ LoadFails(r) \/ ReloadAssigns(r) \/ UpdateConfig(r)
    \/ \E s \in Settings, p \in {"valid", "invalid"} : EditFile(s, p)
    \/ EditBadly
    \/ RemoveFile
    \/ Boot
    \/ BootUnread

ConfigSpec == ConfigInit /\ [][ConfigNext]_configVars

-----------------------------------------------------------------------------
(* When no request or reload is under way and the timer is not running, the *)
(* shared copy is what LoadConfig makes of the file (or of what it last     *)
(* held, if somebody deleted it), and the manager has it, whatever was      *)
(* saved, edited, corrected and reloaded at the same time (the watcher logs *)
(* "Configuration reloaded successfully").  Left out are a file operation   *)
(* that failed, and a task from before the latest reload that assigned or   *)
(* applied after it.                                                        *)
RestsOnFile ==
    ~debounce /\ (\A t \in Tasks : TaskAt(t, "idle")) /\ notes \cap {"overtaken", "failure"} = {}
       => shared.sec = Corrected[file.sec] /\ given = shared.sec

(* What LoadConfig's comment asks of the encryption key: "a key generated   *)
(* ONCE and persisted immediately", never replaced by a later load, as long *)
(* as nobody deletes the file.                                              *)
KeyGeneratedOnce == "removed" \notin notes => shared.key \in {NoKey, 1}
=============================================================================
