------------------------------ MODULE Failover ------------------------------
(***************************************************************************)
(* FailoverManager (database/failover.go): after the first failed statement *)
(* the manager is read-only, writes are queued in memory, and a monitor     *)
(* goroutine is meant to replay them once the primary database answers.     *)
(*                                                                          *)
(* readOnly and writeQueue are read and written under the mutex, but a call *)
(* of Exec holds it only for single steps: it decides on a value of         *)
(* readOnly that may be stale when it queues.  Each write is one call of    *)
(* Exec on a goroutine of its own.  The ticker is a nil pointer at first    *)
(* and again after a recovery; the monitor evaluates which channel to wait  *)
(* on once per round of its select.                                         *)
(***************************************************************************)
EXTENDS Integers, Sequences

CONSTANTS
    Writes,       \* calls of Exec
    MaxOutages,   \* bound: how often the primary goes down
    MaxErrors,    \* bound: statements that fail although the primary is up
    MayClose      \* whether Close is called

ASSUME FailoverAssumption ==
    {MaxOutages, MaxErrors} \subseteq Nat /\ MayClose \in BOOLEAN

VARIABLES
    primary,     \* the primary database: "up" or "down"
    readOnly,
    retryTicker, \* whether fm.retryTicker is non-nil
    writeQueue,
    exec,        \* where each call of Exec is
    query,       \* where a call of Query is
    monitor,     \* where monitorPrimaryDB is
    batch,       \* the monitor's copy of the queue
    applied,     \* how often each write took effect
    spent,       \* outages and errors so far, for the bounds
    incidents    \* history: "ackLost"

failoverVars == <<primary, readOnly, retryTicker, writeQueue, exec, query, monitor, batch,
          applied, spent, incidents>>

In(s) == {s[i] : i \in DOMAIN s}

FailoverTypeOK ==
    /\ primary \in {"up", "down"}
    /\ readOnly \in BOOLEAN /\ retryTicker \in BOOLEAN
    /\ writeQueue \in Seq(Writes) /\ batch \in Seq(Writes)
    /\ exec \in [Writes -> {"new", "exec", "failed", "queue", "queued", "done"}]
    /\ query \in {"idle", "query", "failed"}
    /\ monitor \in {"select", "never", "waiting", "test", "replay", "leave", "closed"}
    /\ applied \in [Writes -> Nat]
    /\ spent \in [outages : Nat, errors : Nat]
    /\ incidents \subseteq {"ackLost"}

FailoverInit ==
    /\ primary = "up"
    /\ readOnly = FALSE /\ retryTicker = FALSE
    /\ writeQueue = <<>> /\ batch = <<>>
    /\ exec = [w \in Writes |-> "new"]
    /\ query = "idle"
    /\ monitor = "select"       \* the goroutine has been started, not yet run
    /\ applied = [w \in Writes |-> 0]
    /\ spent = [outages |-> 0, errors |-> 0]
    /\ incidents = {}

state == <<readOnly, retryTicker, writeQueue>>

PrimaryFails ==
    /\ primary = "up" /\ spent.outages < MaxOutages
    /\ primary' = "down"
    /\ spent' = [spent EXCEPT !.outages = @ + 1]
    /\ UNCHANGED <<state, exec, query, monitor, batch, applied, incidents>>

PrimaryRecovers ==
    /\ primary = "down"
    /\ primary' = "up"
    /\ UNCHANGED <<state, exec, query, monitor, batch, applied, spent, incidents>>

(* A statement fails because the primary is down, or for a reason of its    *)
(* own (a constraint, a timeout): the manager does not tell these apart.    *)
StatementFails ==
    \/ primary = "down" /\ UNCHANGED spent
    \/ primary = "up" /\ spent.errors < MaxErrors
       /\ spent' = [spent EXCEPT !.errors = @ + 1]

-----------------------------------------------------------------------------
HandlePrimaryFailure ==
    /\ readOnly' = TRUE
    /\ retryTicker' = (retryTicker \/ ~readOnly)

Queue(w) == writeQueue' = Append(writeQueue, w)

(* Exec reads readOnly under the lock ...                                   *)
ExecChecks(w) ==
    /\ exec[w] = "new"
    /\ exec' = [exec EXCEPT ![w] = IF readOnly THEN "queue" ELSE "exec"]
    /\ UNCHANGED <<primary, state, query, monitor, batch, applied, spent, incidents>>

(* ... and runs the statement without it.                                   *)
ExecSucceeds(w) ==
    /\ exec[w] = "exec" /\ primary = "up"
    /\ exec' = [exec EXCEPT ![w] = "done"]
    /\ applied' = [applied EXCEPT ![w] = @ + 1]
    /\ UNCHANGED <<primary, state, query, monitor, batch, spent, incidents>>

(* A statement that timed out may have taken effect all the same.           *)
ExecFails(w) ==
    /\ exec[w] = "exec"
    /\ StatementFails
    /\ exec' = [exec EXCEPT ![w] = "failed"]
    /\ \/ UNCHANGED <<applied, incidents>>
       \/ /\ applied' = [applied EXCEPT ![w] = @ + 1]
          /\ incidents' = incidents \cup {"ackLost"}
    /\ UNCHANGED <<primary, state, query, monitor, batch>>

ExecReportsFailure(w) ==
    /\ exec[w] = "failed"
    /\ exec' = [exec EXCEPT ![w] = "queue"]
    /\ HandlePrimaryFailure
    /\ UNCHANGED <<primary, writeQueue, query, monitor, batch, applied, spent, incidents>>

(* queueWrite, perhaps after the replay has taken its copy.                 *)
ExecQueues(w) ==
    /\ exec[w] = "queue"
    /\ exec' = [exec EXCEPT ![w] = "queued"]
    /\ Queue(w)
    /\ UNCHANGED <<primary, readOnly, retryTicker, query, monitor, batch, applied, spent,
                   incidents>>

(* Query falls back to the cache; a failure switches the mode as well.      *)
QueryBegins ==
    /\ query = "idle" /\ ~readOnly
    /\ query' = "query"
    /\ UNCHANGED <<primary, state, exec, monitor, batch, applied, spent, incidents>>

QueryEnds ==
    /\ query = "query"
    /\ \/ query' = "idle" /\ primary = "up" /\ UNCHANGED spent
       \/ query' = "failed" /\ StatementFails
    /\ UNCHANGED <<primary, state, exec, monitor, batch, applied, incidents>>

QueryReportsFailure ==
    /\ query = "failed"
    /\ query' = "idle"
    /\ HandlePrimaryFailure
    /\ UNCHANGED <<primary, writeQueue, exec, monitor, batch, applied, spent, incidents>>

-----------------------------------------------------------------------------
(* monitorPrimaryDB: the channel to wait on is chosen when select begins;   *)
(* without a ticker it is one that never receives.                          *)
MonitorSelects ==
    /\ monitor = "select"
    /\ monitor' = IF retryTicker THEN "waiting" ELSE "never"
    /\ UNCHANGED <<primary, state, exec, query, batch, applied, spent, incidents>>

TickerFires ==
    /\ monitor = "waiting"
    /\ monitor' = IF readOnly THEN "test" ELSE "select"
    /\ UNCHANGED <<primary, state, exec, query, batch, applied, spent, incidents>>

ReplaysWithoutClearing ==   \* mutant: the queue is copied and not emptied
    /\ monitor = "test"
    /\ primary = "up"
    /\ monitor' = "replay"
    /\ batch' = writeQueue
    /\ UNCHANGED <<primary, state, exec, query, applied, spent, incidents>>

(* attemptRecovery: ping and test query; then replayWrites copies the queue *)
(* and empties it in one critical section.                                  *)
TestsPrimary ==
    /\ monitor = "test"
    /\ \/ /\ primary = "up"
          /\ monitor' = "replay"
          /\ batch' = writeQueue
          /\ writeQueue' = <<>>
          /\ UNCHANGED spent
       \/ /\ StatementFails
          /\ monitor' = "select"
          /\ UNCHANGED <<batch, writeQueue>>
    /\ UNCHANGED <<primary, readOnly, retryTicker, exec, query, applied, incidents>>

Replays ==
    /\ monitor = "replay" /\ batch # <<>> /\ primary = "up"
    /\ batch' = Tail(batch)
    /\ applied' = [applied EXCEPT ![Head(batch)] = @ + 1]
    /\ UNCHANGED <<primary, state, exec, query, monitor, spent, incidents>>

ReplayFails ==
    /\ monitor = "replay" /\ batch # <<>>
    /\ StatementFails
    /\ batch' = Tail(batch)
    /\ Queue(Head(batch))
    /\ \/ UNCHANGED <<applied, incidents>>
       \/ /\ incidents' = incidents \cup {"ackLost"}
          /\ applied' = [applied EXCEPT ![Head(batch)] = @ + 1]
    /\ UNCHANGED <<primary, readOnly, retryTicker, exec, query, monitor>>

ReplayEndsClearing ==   \* mutant: the queue is emptied after the replay
    /\ monitor = "replay" /\ batch = <<>>
    /\ monitor' = "leave"
    /\ writeQueue' = <<>>
    /\ UNCHANGED <<primary, readOnly, retryTicker, exec, query, batch, applied, spent, incidents>>

ReplayEnds ==
    /\ monitor = "replay" /\ batch = <<>>
    /\ monitor' = "leave"
    /\ UNCHANGED <<primary, state, exec, query, batch, applied, spent, incidents>>

(* The mode ends whatever the replay left in the queue.                     *)
LeavesReadOnly ==
    /\ monitor = "leave"
    /\ monitor' = "select"
    /\ readOnly' = FALSE /\ retryTicker' = FALSE
    /\ UNCHANGED <<primary, writeQueue, exec, query, batch, applied, spent, incidents>>

Close ==
    /\ MayClose /\ monitor \in {"never", "waiting"}
    /\ monitor' = "closed"
    /\ UNCHANGED <<primary, state, exec, query, batch, applied, spent, incidents>>

ExecStep(w) ==
    \/ ExecChecks(w)
    \/ ExecSucceeds(w)
    \/ ExecFails(w)
    \/ ExecReportsFailure(w)
    \/ ExecQueues(w)

QueryStep == QueryBegins \/ QueryEnds \/ QueryReportsFailure

MonitorStep ==
    \/ MonitorSelects
    \/ TickerFires
    \/ TestsPrimary
    \/ Replays
    \/ ReplayFails
    \/ ReplayEnds
    \/ LeavesReadOnly

FailoverNext ==
    \/ PrimaryFails
    \/ PrimaryRecovers
    \/ \E w \in Writes : ExecStep(w)
    \/ QueryStep
    \/ MonitorStep
    \/ Close

FailoverSpec == FailoverInit /\ [][FailoverNext]_failoverVars

(* Goroutines run, the ticker fires, and an outage ends.                    *)
FairSpec ==
    /\ FailoverSpec
    /\ WF_failoverVars(PrimaryRecovers)
    /\ WF_failoverVars(MonitorStep)
    /\ \A w \in Writes : WF_failoverVars(ExecStep(w))

-----------------------------------------------------------------------------
(* A write whose caller was told "write queued for retry" is not forgotten: *)
(* it waits in the queue or in the monitor's copy, or it took effect,       *)
(* however failures, replays and other calls interleave.                    *)
NothingLost ==
    \A w \in Writes : exec[w] = "queued" => w \in In(writeQueue) \cup In(batch) \/ applied[w] > 0

(* No write takes effect twice, across failures, replays and re-queueing,   *)
(* unless a statement reported as failed had taken effect.                  *)
AppliedOnce == "ackLost" \notin incidents => \A w \in Writes : applied[w] <= 1

(* What handlePrimaryFailure logs: "All writes will be queued and retried   *)
(* when database recovers".                                                 *)
QueuedWritesRetried == \A w \in Writes : exec[w] = "queued" ~> applied[w] > 0
=============================================================================
