------------------------------ MODULE Backup ------------------------------
(***************************************************************************)
(* The backup directory: archives written, verified and pruned by up to     *)
(* four writers at once (backup/backup.go, retention.go), and a restore     *)
(* that reads one of them (backup/restore.go).                              *)
(*                                                                          *)
(* "daily" is CreateSystemBackup: a full archive named after the day, then  *)
(* the daily incremental.  "hourly" is BackupHourlyTask.  "admin" and "cli" *)
(* make archives named after the second.  Nothing locks the directory: each *)
(* writer lists it after its own verification and deletes what the tiers of *)
(* its retention policy do not keep.                                        *)
(*                                                                          *)
(* Time is counted in instants, Hours of them to a day.  Instants are fine  *)
(* enough that no two manual archives share one.                            *)
(* Every archive has size 1, and one installation either encrypts or not.   *)
(***************************************************************************)
EXTENDS Integers, FiniteSets

CONSTANTS
    Hours,       \* instants per day
    Sundays, Firsts, NewYears,   \* days on which the tiers' archives are made
    Retention,   \* the configured RetentionConfig
    DefaultCap,  \* the size cap DefaultRetention resolves to
    Existing,    \* the archives earlier runs left, all of them complete
    Members,     \* the files inside an archive
    MaxClock,    \* bound: the clock stops here
    MaxStarts,   \* bound: backups started, or deleted on request
    MaxRestores, \* bound: restores started
    MaxFaults    \* bound: crashes and failing file operations

ASSUME BackupAssumption ==
    /\ Hours \in Nat \ {0}
    /\ Sundays \subseteq Nat /\ Firsts \subseteq Nat /\ NewYears \subseteq Firsts
    /\ Retention \in [daily : Int, weekly : Int, monthly : Int, yearly : Int, cap : Nat]
    /\ DefaultCap \in Nat
    /\ Existing \subseteq [kind : {"dated", "daily", "hourly"}, at : Nat]
    /\ IsFiniteSet(Existing) /\ \A f \in Existing : f.kind # "dated" => f.at = 0
    /\ {MaxClock, MaxStarts, MaxRestores, MaxFaults} \subseteq Nat

VARIABLES
    clock,
    files,      \* names in the backup directory
    good,       \* those whose content is a complete archive
    mtime,      \* of the two incrementals
    writer,     \* what each writer is doing
    restore,    \* what the restore is doing
    live,       \* live[m]: the restore that wrote configuration or database file m
    used,       \* starts, restores and faults so far, for the bounds
    ghost       \* history variables used only by properties

vars == <<clock, files, good, mtime, writer, restore, live, used, ghost>>

Server  == {"daily", "hourly", "admin"}   \* writers inside the server process
Writers == Server \cup {"cli"}
Incrementals == {"daily", "hourly"}

Dated(at) == [kind |-> "dated", at |-> at]
Incremental(k) == [kind |-> k, at |-> 0]
Names == [kind : {"dated"} \cup Incrementals, at : Nat]
IsDated(f) == f.kind = "dated"
DatedIn(S) == {f \in S : IsDated(f)}

Day(t) == t \div Hours
Midnight(t) == Day(t) * Hours

Never == [k \in Incrementals |-> 0]
Idle == [pc |-> "idle", name |-> Incremental("hourly"), kept |-> {}, doomed |-> {},
         times |-> Never]
Partial == -1     \* a live file whose copy broke off
Labels == {"idle", "build", "write", "verify", "list", "prune", "cap"}

TypeOK ==
    /\ clock \in Nat
    /\ files \subseteq Names /\ good \subseteq files
    /\ mtime \in [Incrementals -> Nat]
    /\ writer \in [Writers -> [pc : Labels, name : Names,
                               kept : SUBSET Names, doomed : SUBSET Names,
                               times : [Incrementals -> Nat]]]
    /\ restore \in [pc : {"idle", "read", "extract"}, name : Names, todo : SUBSET Members,
                    torn : BOOLEAN, outcome : {"none", "ok", "failed"}]
    /\ live \in [Members -> Nat \cup {Partial}]
    /\ used \in [starts : Nat, restores : Nat, faults : Nat]

-----------------------------------------------------------------------------
NormalizeTiersOnly(r) ==   \* mutant: max_backups below 1 is taken as it is
    [r EXCEPT !.weekly = IF @ < 0 THEN 0 ELSE @, !.monthly = IF @ < 0 THEN 0 ELSE @,
              !.yearly = IF @ < 0 THEN 0 ELSE @]

(* RetentionConfig.Normalize.                                               *)
Normalize(r) ==
    LET atLeast(n, least) == IF n < least THEN least ELSE n
    IN  [r EXCEPT !.daily = atLeast(@, 1), !.weekly = atLeast(@, 0),
                  !.monthly = atLeast(@, 0), !.yearly = atLeast(@, 0)]

DefaultRetention ==
    [daily |-> 1, weekly |-> 0, monthly |-> 0, yearly |-> 0, cap |-> DefaultCap]

(* The scheduler and the admin panel read the settings; the command line    *)
(* passes no policy and gets the default.                                   *)
PolicyOf(w) == Normalize(IF w = "cli" THEN DefaultRetention ELSE Retention)

NewestOrMore(list, n) ==   \* mutant: off by one
    {f \in list : Cardinality({g \in list : g.at > f.at}) <= n}

(* keepNewest over a list sorted by listRetainedBackups.  The sort compares *)
(* dates only and keeps the order of names (up to 12 archives), in which    *)
(* the full archive of a day comes before the manual ones.                  *)
Newest(list, n) == {f \in list : Cardinality({g \in list : g.at > f.at}) < n}

(* The tiers of applyRetention.                                             *)
On(days, list) == {f \in list : Day(f.at) \in days}
Keep(list, r) ==
    Newest(On(NewYears, list), r.yearly) \cup Newest(On(Firsts, list), r.monthly)
        \cup Newest(On(Sundays, list), r.weekly) \cup Newest(list, r.daily)

(* The order of the size-cap pass, given the modification times listed: the *)
(* date of a dated archive is midnight, that of an incremental its time;    *)
(* ties keep the order of listing, dated ones first, then daily and hourly. *)
Date(f, times) == IF IsDated(f) THEN Midnight(f.at) ELSE times[f.kind]
Older(f, g, times) ==
    \/ Date(f, times) < Date(g, times)
    \/ /\ Date(f, times) = Date(g, times)
       /\ IF IsDated(f) THEN IsDated(g) => f.at < g.at
                        ELSE f.kind = "daily" /\ g.kind = "hourly"

Excess(list, cap, times) ==
    IF cap = 0 THEN {}
    ELSE {f \in list :
             Cardinality({g \in list : Older(g, f, times)}) < Cardinality(list) - cap}

NextDoomed(w) ==
    LET S == writer[w].doomed
    IN  CHOOSE f \in S : \A g \in S \ {f} : Older(f, g, writer[w].times)

Limit(r) == r.daily + r.weekly + r.monthly + r.yearly

-----------------------------------------------------------------------------
Init ==
    /\ clock = 0
    /\ files = Existing /\ good = Existing
    /\ mtime = Never
    /\ writer = [w \in Writers |-> Idle]
    /\ restore = [pc |-> "idle", name |-> Incremental("hourly"), todo |-> {},
                  torn |-> FALSE, outcome |-> "none"]
    /\ live = [m \in Members |-> 0]
    /\ used = [starts |-> 0, restores |-> 0, faults |-> 0]
    /\ ghost = [verified |-> DatedIn(Existing) # {}, incidents |-> {}, lister |-> "none", tidy |-> "none",
                tornLive |-> FALSE]

Tick ==
    /\ clock < MaxClock
    /\ clock' = clock + 1
    /\ UNCHANGED <<files, good, mtime, writer, restore, live, used, ghost>>

Fault ==
    /\ used.faults < MaxFaults
    /\ used' = [used EXCEPT !.faults = @ + 1]

At(w, pc) == writer[w].pc = pc
Goto(w, pc) == writer' = [writer EXCEPT ![w].pc = pc]
Return(w) == writer' = [writer EXCEPT ![w] = Idle]

(* An archive some writer has not finished verifying.                       *)
Unverified(f) ==
    f \notin good \/ \E w \in Writers : writer[w].pc \in {"write", "verify"} /\ writer[w].name = f

-----------------------------------------------------------------------------
(* CreateBackupArchive.                                                     *)
Target(w) ==
    CASE w = "daily"  -> Dated(Midnight(clock))
      [] w = "hourly" -> Incremental("hourly")
      [] OTHER        -> Dated(clock)

Start(w) ==
    /\ At(w, "idle")
    /\ used.starts < MaxStarts
    /\ w \in {"admin", "cli"} =>   \* a name of its own
          /\ clock # Midnight(clock)
          /\ Dated(clock) \notin files
          /\ \A v \in Writers : writer[v].name # Dated(clock)
    /\ used' = [used EXCEPT !.starts = @ + 1]
    /\ writer' = [writer EXCEPT ![w] = [Idle EXCEPT !.pc = "build", !.name = Target(w)]]
    /\ UNCHANGED <<clock, files, good, mtime, restore, live, ghost>>

(* Collecting, archiving or encrypting fails before anything is written.    *)
BuildFails(w) ==
    /\ At(w, "build") /\ Fault
    /\ Return(w)
    /\ UNCHANGED <<clock, files, good, mtime, restore, live, ghost>>

(* os.WriteFile truncates the file it opens.                                *)
OpenFile(w) ==
    /\ At(w, "build")
    /\ LET f == writer[w].name IN
       /\ files' = files \cup {f}
       /\ good' = good \ {f}
       /\ ghost' = [ghost EXCEPT !.lister = "none", !.tidy = "none",
                       !.incidents = IF f \in DatedIn(good) THEN @ \cup {"rewritten"} ELSE @]
    /\ Goto(w, "write")
    /\ UNCHANGED <<clock, mtime, restore, live, used>>

(* A file deleted meanwhile by a sweep is written without a name.           *)
WriteFile(w) ==
    /\ At(w, "write")
    /\ LET f == writer[w].name IN
       /\ good' = IF f \in files THEN good \cup {f} ELSE good
       /\ mtime' = IF IsDated(f) THEN mtime ELSE [mtime EXCEPT ![f.kind] = clock]
    /\ Goto(w, "verify")
    /\ UNCHANGED <<clock, files, restore, live, used, ghost>>

(* The write fails halfway: an error, and the partial file stays.           *)
WriteFails(w) ==
    /\ At(w, "write") /\ Fault
    /\ Return(w)
    /\ UNCHANGED <<clock, files, good, mtime, restore, live, ghost>>

VerifyPasses(w) ==
    /\ At(w, "verify") /\ writer[w].name \in good
    /\ Goto(w, "list")
    /\ ghost' = [ghost EXCEPT !.verified = @ \/ IsDated(writer[w].name)]
    /\ UNCHANGED <<clock, files, good, mtime, restore, live, used>>

(* The archive is missing, or a check fails: it is removed.                 *)
VerifyFails(w) ==
    /\ At(w, "verify")
    /\ IF writer[w].name \in good THEN Fault ELSE UNCHANGED used
    /\ files' = files \ {writer[w].name}
    /\ good' = good \ {writer[w].name}
    /\ Return(w)
    /\ UNCHANGED <<clock, mtime, restore, live, ghost>>

-----------------------------------------------------------------------------
(* applyRetention: the list is taken once; what the tiers leave is deleted  *)
(* oldest first, then the size cap takes the oldest of the rest.            *)
ListRetained(w) ==
    /\ At(w, "list")
    /\ LET list == DatedIn(files)
           kept == Keep(list, PolicyOf(w))
       IN  /\ writer' = [writer EXCEPT ![w].pc = "prune", ![w].kept = kept,
                                       ![w].doomed = list \ kept]
           /\ ghost' = [ghost EXCEPT !.lister = w,
                           !.incidents = IF \E f \in kept : Unverified(f)
                                         THEN @ \cup {"countedUnverified"} ELSE @]
    /\ UNCHANGED <<clock, files, good, mtime, restore, live, used>>

Sweeping(w) == writer[w].pc \in {"prune", "cap"}

Remove(w) ==
    /\ Sweeping(w) /\ writer[w].doomed # {}
    /\ LET f == NextDoomed(w) IN
       /\ f \in files
       /\ files' = files \ {f} /\ good' = good \ {f}
       /\ writer' = [writer EXCEPT ![w].doomed = @ \ {f}]
    /\ UNCHANGED <<clock, mtime, restore, live, used, ghost>>

(* The scheduled run goes on with the daily incremental, others are done.   *)
NextArchive(w) ==
    writer' = [writer EXCEPT ![w] =
                  IF w = "daily" /\ IsDated(@.name)
                  THEN [Idle EXCEPT !.pc = "build", !.name = Incremental("daily")]
                  ELSE Idle]

(* A file that is gone, or cannot be deleted, ends the sweep: logged only.  *)
RemoveFails(w) ==
    /\ Sweeping(w) /\ writer[w].doomed # {}
    /\ IF NextDoomed(w) \in files THEN Fault ELSE UNCHANGED used
    /\ NextArchive(w)
    /\ UNCHANGED <<clock, files, good, mtime, restore, live, ghost>>

ListIncrementals(w) ==
    /\ At(w, "prune") /\ writer[w].doomed = {}
    /\ LET remaining == writer[w].kept \cup {f \in files : ~IsDated(f)}
       IN  writer' = [writer EXCEPT ![w].pc = "cap", ![w].kept = {}, ![w].times = mtime,
                          ![w].doomed = Excess(remaining, PolicyOf(w).cap, mtime)]
    /\ UNCHANGED <<clock, files, good, mtime, restore, live, used, ghost>>

SweepDone(w) ==
    /\ At(w, "cap") /\ writer[w].doomed = {}
    /\ NextArchive(w)
    /\ ghost' = [ghost EXCEPT !.tidy = IF ghost.lister = w THEN w ELSE @]
    /\ UNCHANGED <<clock, files, good, mtime, restore, live, used>>

-----------------------------------------------------------------------------
(* Restore: verify, read again, look for the manifest, and only then write  *)
(* the members one by one.  The manifest is the last member, so a partial   *)
(* archive has none.                                                        *)
RestoreVerify(f) ==
    /\ restore.pc = "idle" /\ used.restores < MaxRestores
    /\ f \in files /\ f \in good
    /\ used' = [used EXCEPT !.restores = @ + 1]
    /\ restore' = [restore EXCEPT !.pc = "read", !.name = f, !.outcome = "none"]
    /\ UNCHANGED <<clock, files, good, mtime, writer, live, ghost>>

RestoreFails == restore' = [restore EXCEPT !.pc = "idle", !.todo = {}, !.outcome = "failed"]

ReadWithoutManifest ==   \* mutant: extractManifest is not called
    /\ restore.pc = "read"
    /\ IF restore.name \in files
       THEN restore' = [restore EXCEPT !.pc = "extract", !.todo = Members,
                                       !.torn = restore.name \notin good]
       ELSE RestoreFails
    /\ UNCHANGED <<clock, files, good, mtime, writer, live, used, ghost>>

RestoreRead ==
    /\ restore.pc = "read"
    /\ IF restore.name \in good
       THEN restore' = [restore EXCEPT !.pc = "extract", !.todo = Members, !.torn = FALSE]
       ELSE RestoreFails
    /\ UNCHANGED <<clock, files, good, mtime, writer, live, used, ghost>>

ExtractMember(m) ==
    /\ restore.pc = "extract" /\ m \in restore.todo
    /\ live' = [live EXCEPT ![m] = used.restores]
    /\ restore' = [restore EXCEPT !.todo = @ \ {m}]
    /\ ghost' = [ghost EXCEPT !.tornLive = @ \/ restore.torn]
    /\ UNCHANGED <<clock, files, good, mtime, writer, used>>

(* os.Create truncates the live file before the copy that fails.            *)
ExtractFails(m) ==
    /\ restore.pc = "extract" /\ m \in restore.todo /\ Fault
    /\ live' \in {live, [live EXCEPT ![m] = Partial]}
    /\ RestoreFails
    /\ UNCHANGED <<clock, files, good, mtime, writer, ghost>>

(* The setup token is saved last; a failure is reported although every      *)
(* member is in place.                                                      *)
SaveSetupToken ==
    /\ restore.pc = "extract" /\ restore.todo = {}
    /\ \/ restore' = [restore EXCEPT !.pc = "idle", !.outcome = "ok"] /\ UNCHANGED used
       \/ RestoreFails /\ Fault
    /\ UNCHANGED <<clock, files, good, mtime, writer, live, ghost>>

-----------------------------------------------------------------------------
(* The server process dies with its writers and the restore it serves; the  *)
(* command line is interrupted.                                             *)
Crash(dead) ==
    /\ Fault
    /\ writer' = [w \in Writers |-> IF w \in dead THEN Idle ELSE writer[w]]
    /\ IF restore.pc # "idle" /\ dead = Server THEN RestoreFails ELSE UNCHANGED restore
    /\ UNCHANGED <<clock, files, good, mtime, live, ghost>>

(* The administrator deletes an archive.                                    *)
DeleteBackup(f) ==
    /\ used.starts < MaxStarts
    /\ used' = [used EXCEPT !.starts = @ + 1]
    /\ files' = files \ {f} /\ good' = good \ {f}
    /\ ghost' = [ghost EXCEPT !.incidents = IF IsDated(f) THEN @ \cup {"deleted"} ELSE @]
    /\ UNCHANGED <<clock, mtime, writer, restore, live>>

CreateBackupArchive(w) ==
    \/ Start(w) \/ BuildFails(w) \/ OpenFile(w) \/ WriteFile(w) \/ WriteFails(w)
    \/ VerifyPasses(w) \/ VerifyFails(w)

ApplyRetention(w) ==
    \/ ListRetained(w) \/ Remove(w) \/ RemoveFails(w) \/ ListIncrementals(w) \/ SweepDone(w)

Restore ==
    \/ \E f \in files : RestoreVerify(f)
    \/ RestoreRead
    \/ \E m \in Members : ExtractMember(m) \/ ExtractFails(m)
    \/ SaveSetupToken

Next ==
    \/ Tick
    \/ \E w \in Writers : CreateBackupArchive(w) \/ ApplyRetention(w)
    \/ Restore
    \/ \E f \in files : DeleteBackup(f)
    \/ \E dead \in {Server, {"cli"}} : Crash(dead)

Spec == Init /\ [][Next]_vars

-----------------------------------------------------------------------------
RoomUnder(cap) == cap = 0 \/ cap > Cardinality(Incrementals)
CapsLeaveRoom == RoomUnder(Retention.cap) /\ RoomUnder(DefaultCap)

(* Once a dated archive has passed verification there is one in the         *)
(* directory at every moment, whatever crashes, fails or is swept by        *)
(* several writers at once (applyRetention: "Only delete old backups if new *)
(* backup passes ALL verification checks"), as long as no sweep counted an  *)
(* archive that was not verified, no dated archive was rewritten in place   *)
(* or deleted by the administrator, and the size caps leave room for one    *)
(* archive beside the incrementals, which every run rewrites in place.      *)
GoodBackupRemains ==
    ghost.verified /\ ghost.incidents = {} /\ CapsLeaveRoom => DatedIn(good) # {}

(* After a sweep that ran to its end on the latest listing, the directory   *)
(* holds no more dated archives than the tiers add up to, and no more files *)
(* than the cap allows, until the next archive is opened.                   *)
LimitsHold ==
    ghost.tidy # "none" =>
        LET r == PolicyOf(ghost.tidy)
        IN  /\ Cardinality(DatedIn(files)) <= Limit(r)
            /\ r.cap > 0 => Cardinality(files) <= r.cap

(* A restore that reports success has replaced every file, and no byte of a *)
(* partial archive ever reaches the configuration or the databases, although *)
(* the archive may be rewritten or deleted between the verification and the *)
(* second read (Restore: "Only proceed with restore if ALL verification     *)
(* checks pass").                                                           *)
Mixed == \E m \in Members : live[m] # used.restores

RestoreFaithful ==
    /\ ~ghost.tornLive
    /\ restore.pc = "idle" /\ restore.outcome = "ok" => ~Mixed
=============================================================================
