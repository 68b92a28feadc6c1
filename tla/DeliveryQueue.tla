--------------------------- MODULE DeliveryQueue ---------------------------
(***************************************************************************)
(* The notification queue (server/service/delivery_system.go) and the state *)
(* of the channel it sends through (server/service/channel_manager.go).     *)
(*                                                                          *)
(* ProcessQueue selects the due rows of notification_queue and starts one   *)
(* goroutine per row with a copy of it.  Nothing claims a row: it leaves    *)
(* the selectable states only when its goroutine writes "sending".  The     *)
(* scheduler runs ProcessQueue every two minutes on every node, TriggerTask *)
(* and a slow run add more, so a second ProcessQueue may come at any time.  *)
(*                                                                          *)
(* Messages are numbered in the order the SELECT returns them (priority     *)
(* first, then age).  incidents is a history variable.                      *)
(***************************************************************************)
EXTENDS Integers, FiniteSets, Functions

CONSTANTS
    Msgs,          \* notifications, numbered in selection order
    batchSize,     \* LIMIT of ProcessQueue's SELECT
    maxRetries,    \* notification_queue.max_retries
    Exponential,   \* retry_backoff = "exponential" (else linear)
    MaxDelay,      \* cap of the backoff
    LinearStep,    \* delay per attempt of the linear backoff
    FailLimit,     \* failures in a row that put a channel in state failed
    MaxWorkers,    \* bound: goroutines inside processNotification
    MaxRequeues,   \* bound: rows requeued by RequeueDeadLetters
    MaxFaults,     \* bound: crashes and failed database writes
    MaxAdmin       \* bound: EnableChannel, DisableChannel and TestChannel calls

ASSUME DeliveryAssumption ==
    /\ Msgs \subseteq Nat /\ IsFiniteSet(Msgs)
    /\ {batchSize, FailLimit} \subseteq Nat \ {0}
    /\ {maxRetries, MaxDelay, LinearStep} \subseteq Nat
    /\ {MaxWorkers, MaxRequeues, MaxFaults, MaxAdmin} \subseteq Nat
    /\ Exponential \in BOOLEAN

VARIABLES
    queue,      \* notification_queue: state, retry_count, time left until next_retry_at
    workers,    \* goroutines inside processNotification, each with its copy of retry_count
    channel,    \* server_notification_channels: enabled, state, failure_count
    testing,    \* TestChannel has marked the channel and waits for channel.Test
    switchedOff,\* history: the last administrator call was DisableChannel
    sent,       \* how often the recipient got each message
    attempts,   \* how often delivery of each message was attempted
    used,       \* faults, requeues and admin calls so far, for the bounds
    incidents   \* history: "doublePick", "markLost", "writeLost", "crash", "testRace"

vars == <<queue, workers, channel, testing, switchedOff, sent, attempts, used, incidents>>

admin == <<testing, switchedOff>>

Absent == [state |-> "absent", retries |-> 0, wait |-> 0]
States == {"absent", "created", "queued", "sending", "delivered", "failed", "dead_letter"}

Slots == 1..MaxWorkers
Idle == [pc |-> "idle", msg |-> 0, retries |-> 0]
Busy == {w \in Slots : workers[w] # Idle}
Holders(m) == {w \in Busy : workers[w].msg = m}

TypeOK ==
    /\ queue \in [Msgs -> [state : States, retries : Nat, wait : 0..MaxDelay]]
    /\ workers \in [Slots -> {Idle} \cup [pc : {"mark", "send", "success", "failure"},
                                         msg : Msgs, retries : Nat]]
    /\ channel \in [enabled : BOOLEAN, failures : 0..FailLimit,
                    state : {"enabled", "disabled", "testing", "failed"}]
    /\ testing \in BOOLEAN /\ switchedOff \in BOOLEAN
    /\ sent \in [Msgs -> Nat] /\ attempts \in [Msgs -> Nat]
    /\ used \in [faults : Nat, requeues : Nat, admin : Nat]
    /\ incidents \subseteq {"doublePick", "markLost", "writeLost", "crash", "testRace"}

Init ==
    /\ queue = [m \in Msgs |-> Absent]
    /\ workers = [w \in Slots |-> Idle]
    /\ channel = [enabled |-> TRUE, state |-> "enabled", failures |-> 0]
    /\ testing = FALSE /\ switchedOff = FALSE
    /\ sent = [m \in Msgs |-> 0]
    /\ attempts = [m \in Msgs |-> 0]
    /\ used = [faults |-> 0, requeues |-> 0, admin |-> 0]
    /\ incidents = {}

(* Time passes: every next_retry_at that lies ahead comes one unit closer.  *)
Tick ==
    /\ \E m \in Msgs : queue[m].wait > 0
    /\ queue' = [m \in Msgs |-> [queue[m] EXCEPT !.wait = IF @ = 0 THEN 0 ELSE @ - 1]]
    /\ UNCHANGED <<workers, channel, admin, sent, attempts, used, incidents>>

Fault(kind) ==
    /\ used.faults < MaxFaults
    /\ used' = [used EXCEPT !.faults = @ + 1]
    /\ incidents' = incidents \cup {kind}

-----------------------------------------------------------------------------
Enqueue(m) ==
    /\ queue[m] = Absent /\ sent[m] = 0
    /\ queue' = [queue EXCEPT ![m].state = "created"]
    /\ UNCHANGED <<workers, channel, admin, sent, attempts, used, incidents>>

PendingOrSending ==   \* mutant: rows being sent are selected as well
    {m \in Msgs : queue[m].state \in {"created", "queued", "failed", "sending"} /\ queue[m].wait = 0}

(* The rows ProcessQueue selects: due and in a pending state, in order, at  *)
(* most batchSize of them.                                                  *)
Pending == {m \in Msgs : /\ queue[m].state \in {"created", "queued", "failed"}
                         /\ queue[m].wait = 0}

Selected ==
    {m \in Pending : Cardinality({k \in Pending : k < m}) < batchSize}

ProcessQueue ==
    /\ Selected # {}
    /\ Injection(Selected, Slots \ Busy) # {}       \* a slot for each goroutine
    /\ LET slot == CHOOSE s \in Injection(Selected, Slots \ Busy) : TRUE
       IN  workers' = [w \in Slots |->
               IF \E m \in Selected : slot[m] = w
               THEN LET m == CHOOSE m \in Selected : slot[m] = w
                    IN  [pc |-> "mark", msg |-> m, retries |-> queue[m].retries]
               ELSE workers[w]]
    /\ incidents' = IF \E m \in Selected : Holders(m) # {}
                    THEN incidents \cup {"doublePick"} ELSE incidents
    /\ UNCHANGED <<queue, channel, admin, sent, attempts, used>>

-----------------------------------------------------------------------------
(* processNotification.                                                     *)
At(w, pc) == workers[w].pc = pc
Goto(w, pc) == workers' = [workers EXCEPT ![w].pc = pc]
Finish(w) == workers' = [workers EXCEPT ![w] = Idle]

(* updateState(sending); its error is ignored and sending goes on.          *)
MarkSending(w) ==
    /\ At(w, "mark")
    /\ Goto(w, "send")
    /\ \/ /\ queue' = [queue EXCEPT ![workers[w].msg].state =
                          IF @ = "absent" THEN @ ELSE "sending"]
          /\ UNCHANGED <<used, incidents>>
       \/ Fault("markLost") /\ UNCHANGED queue
    /\ UNCHANGED <<channel, admin, sent, attempts>>

(* The channel or the recipient is missing, or channel.Send fails.          *)
SendFails(w) ==
    /\ At(w, "send")
    /\ Goto(w, "failure")
    /\ attempts' = [attempts EXCEPT ![workers[w].msg] = @ + 1]
    /\ UNCHANGED <<queue, channel, admin, sent, used, incidents>>

SendSucceeds(w) ==
    /\ At(w, "send")
    /\ Goto(w, "success")
    /\ sent' = [sent EXCEPT ![workers[w].msg] = @ + 1]
    /\ attempts' = [attempts EXCEPT ![workers[w].msg] = @ + 1]
    /\ UNCHANGED <<queue, channel, admin, used, incidents>>

RecordSuccessEnables ==   \* mutant: a delivery re-enables the channel, as a test does
    channel' = [enabled |-> TRUE, state |-> "enabled", failures |-> 0]

(* RecordSuccess, RecordFailure: one UPDATE each.                           *)
RecordSuccess == channel' = [channel EXCEPT !.failures = 0]

(* failure_count matters up to FailLimit only.                              *)
OneMore(n) == IF n < FailLimit THEN n + 1 ELSE n

RecordFailure ==
    channel' = [channel EXCEPT !.failures = OneMore(@),
                               !.state = IF channel.failures + 1 >= FailLimit
                                         THEN "failed" ELSE @]

(* Overwrite the row of w's message; a row that was deleted stays deleted.  *)
Write(m, state, retries, wait) ==
    queue' = IF queue[m] = Absent THEN queue
             ELSE [queue EXCEPT ![m] = [state |-> state, retries |-> retries, wait |-> wait]]

HandleSuccessNoState(w) ==   \* mutant: the row is not set to delivered
    /\ At(w, "success")
    /\ Finish(w)
    /\ RecordSuccess
    /\ UNCHANGED <<queue, used, incidents, admin, sent, attempts>>

HandleSuccess(w) ==
    /\ At(w, "success")
    /\ Finish(w)
    /\ LET m == workers[w].msg IN
       \/ /\ Write(m, "delivered", queue[m].retries, queue[m].wait)
          /\ RecordSuccess
          /\ UNCHANGED <<used, incidents>>
       \/ Fault("writeLost") /\ UNCHANGED <<queue, channel>>
    /\ UNCHANGED <<admin, sent, attempts>>

(* calculateNextRetry is called with the count already incremented.         *)
Delay(n) ==
    LET d == IF Exponential THEN 2^n ELSE n * LinearStep
    IN  IF d > MaxDelay THEN MaxDelay ELSE d

HandleFailureLate(w) ==   \* mutant: > for >=, one attempt too many
    /\ At(w, "failure")
    /\ Finish(w)
    /\ RecordFailure
    /\ LET m == workers[w].msg
           n == workers[w].retries + 1
       IN  IF n > maxRetries
           THEN Write(m, "dead_letter", n, queue[m].wait)
           ELSE Write(m, "failed", n, Delay(n))
    /\ UNCHANGED <<used, incidents, admin, sent, attempts>>

HandleFailureUnwritten(w) ==   \* mutant: only the dead-letter branch writes the row
    /\ At(w, "failure")
    /\ Finish(w)
    /\ RecordFailure
    /\ LET n == workers[w].retries + 1
       IN  IF n >= maxRetries
           THEN Write(workers[w].msg, "dead_letter", n, 0)
           ELSE UNCHANGED queue
    /\ UNCHANGED <<used, incidents, admin, sent, attempts>>

HandleFailure(w) ==
    /\ At(w, "failure")
    /\ Finish(w)
    /\ RecordFailure
    /\ LET m == workers[w].msg
           n == workers[w].retries + 1
       IN  \/ /\ IF n >= maxRetries
                 THEN Write(m, "dead_letter", n, queue[m].wait)
                 ELSE Write(m, "failed", n, Delay(n))
              /\ UNCHANGED <<used, incidents>>
           \/ Fault("writeLost") /\ UNCHANGED queue
    /\ UNCHANGED <<admin, sent, attempts>>

-----------------------------------------------------------------------------
(* CleanupOld removes delivered rows, RequeueDeadLetters revives dead ones. *)
CleanupOld(m) ==
    /\ queue[m].state = "delivered"
    /\ queue' = [queue EXCEPT ![m] = Absent]
    /\ UNCHANGED <<workers, channel, admin, sent, attempts, used, incidents>>

RequeueDeadLetters(m) ==
    /\ queue[m].state = "dead_letter"
    /\ used.requeues < MaxRequeues
    /\ used' = [used EXCEPT !.requeues = @ + 1]
    /\ queue' = [queue EXCEPT ![m] = [state |-> "queued", retries |-> 0, wait |-> 0]]
    /\ UNCHANGED <<workers, channel, admin, sent, attempts, incidents>>

(* The process dies and comes back: the rows stay, the goroutines do not.   *)
Crash ==
    /\ Fault("crash")
    /\ workers' = [w \in Slots |-> Idle]
    /\ testing' = FALSE
    /\ UNCHANGED <<switchedOff, queue, channel, sent, attempts>>

-----------------------------------------------------------------------------
(* The administrator's operations on the channel.                           *)
Admin ==
    /\ used.admin < MaxAdmin
    /\ used' = [used EXCEPT !.admin = @ + 1]
    /\ UNCHANGED <<queue, workers, sent, attempts>>

EnableChannel ==
    /\ Admin
    /\ channel' = [channel EXCEPT !.enabled = TRUE, !.state = "enabled"]
    /\ switchedOff' = FALSE
    /\ UNCHANGED <<testing, incidents>>

DisableChannel ==
    /\ Admin
    /\ channel' = [channel EXCEPT !.enabled = FALSE, !.state = "disabled"]
    /\ switchedOff' = TRUE
    /\ incidents' = IF testing THEN incidents \cup {"testRace"} ELSE incidents
    /\ UNCHANGED testing

(* TestChannel writes "testing", waits for the test message, then writes    *)
(* the verdict over whatever the row holds by then.                         *)
TestBegins ==
    /\ ~testing
    /\ Admin
    /\ testing' = TRUE
    /\ channel' = [channel EXCEPT !.state = "testing"]
    /\ switchedOff' = FALSE
    /\ UNCHANGED incidents

TestEnds(ok) ==
    /\ testing
    /\ testing' = FALSE
    /\ channel' = IF ok THEN [enabled |-> TRUE, state |-> "enabled", failures |-> 0]
                  ELSE [channel EXCEPT !.state = "failed", !.failures = OneMore(@)]
    /\ UNCHANGED <<queue, workers, switchedOff, sent, attempts, used, incidents>>

Worker(w) ==
    \/ MarkSending(w)
    \/ SendFails(w)
    \/ SendSucceeds(w)
    \/ HandleSuccess(w)
    \/ HandleFailure(w)

Next ==
    \/ Tick
    \/ \E m \in Msgs : Enqueue(m) \/ CleanupOld(m) \/ RequeueDeadLetters(m)
    \/ ProcessQueue
    \/ \E w \in Slots : Worker(w)
    \/ Crash
    \/ EnableChannel
    \/ DisableChannel
    \/ TestBegins
    \/ \E ok \in BOOLEAN : TestEnds(ok)

Spec == Init /\ [][Next]_vars

(* The scheduler keeps calling ProcessQueue, time passes, and a goroutine   *)
(* goes on whenever it does not wait for the mail server: the statements it *)
(* runs have a time limit.  channel.Send has none (smtp.SendMail sets no    *)
(* deadline), so nothing makes SendFails or SendSucceeds happen.            *)
Fairness ==
    /\ WF_vars(Tick)
    /\ WF_vars(ProcessQueue)
    /\ \A w \in Slots : WF_vars(MarkSending(w) \/ HandleSuccess(w) \/ HandleFailure(w))

FairSpec == Spec /\ Fairness

-----------------------------------------------------------------------------
(* A recipient never gets a notification twice, even across crashes and     *)
(* lost result writes, unless a row was picked while a goroutine still had  *)
(* it or the "sending" mark was lost: the mark is the only claim there is.  *)
SentOnce ==
    incidents \cap {"doublePick", "markLost"} = {} => \A m \in Msgs : sent[m] <= 1

(* Under the same condition a message is attempted at most max_retries      *)
(* times (once if that is zero), plus as often again for every requeue.     *)
AttemptLimit == IF maxRetries = 0 THEN 1 ELSE maxRetries

AttemptsBounded ==
    incidents \cap {"doublePick", "markLost"} = {} =>
        \A m \in Msgs : attempts[m] <= AttemptLimit * (1 + used.requeues)

(* A row in state "sending" has a goroutine behind it, as long as no crash  *)
(* and no lost write has happened: nothing else would ever select it again. *)
SendingIsOwned ==
    incidents \cap {"crash", "markLost", "writeLost"} = {} =>
        \A m \in Msgs : queue[m].state = "sending" => Holders(m) # {}

(* A channel the administrator switched off stays out of                    *)
(* ListEnabledChannels whatever deliveries finish afterwards, until it is   *)
(* enabled or tested again; only a test under way at that moment undoes it. *)
Listed == channel.enabled /\ channel.state = "enabled"

DisabledStaysOff == (switchedOff /\ "testRace" \notin incidents) => ~Listed

(* Every notification is in the end delivered or dead-lettered, however     *)
(* often it fails or is picked, unless a crash or a lost write strands it   *)
(* or a mail server that never answers holds it: its row then stays in      *)
(* "sending" with a goroutine inside channel.Send for ever.  (The model can *)
(* also run out of slots, when every one of them holds such a goroutine.)   *)
Settled(m) == queue[m].state \in {"delivered", "dead_letter"} \/ sent[m] > 0

Stranded == incidents \cap {"crash", "writeLost"} # {}

HeldBy(m, w) == queue[m].state = "sending" /\ At(w, "send") /\ workers[w].msg = m

NoSlotLeft == \A w \in Slots : At(w, "send")

EventuallySettled ==
    \A m \in Msgs : [](queue[m].state = "created" =>
                          <>(\/ Settled(m) \/ Stranded
                             \/ \E w \in Slots : []HeldBy(m, w)
                             \/ []NoSlotLeft))
=============================================================================
