--------------------------- MODULE StorageProofs ---------------------------
(***************************************************************************)
(* Proofs about Failover, LiveConfig and Backup, one after the other: no    *)
(* theorem is about two of them.                                            *)
(***************************************************************************)
EXTENDS Failover, LiveConfig, Backup, FiniteSetTheorems, TLAPS

(***************************************************************************)
(* Failover, for every set of writes and every number of outages and        *)
(* errors. A write that was accepted is in one place at a time: with the    *)
(* call that executes it, in the queue, in the copy that is replayed, or    *)
(* done.                                                                    *)
(***************************************************************************)
(* The type invariant apart from the two flags, which are proved on their   *)
(* own.                                                                     *)
QueueTypes ==
    /\ primary \in {"up", "down"}
    /\ writeQueue \in Seq(Writes) /\ batch \in Seq(Writes)
    /\ exec \in [Writes -> {"new", "exec", "failed", "queue", "queued", "done"}]
    /\ query \in {"idle", "query", "failed"}
    /\ monitor \in {"select", "never", "waiting", "test", "replay", "leave", "closed"}
    /\ applied \in [Writes -> Nat]
    /\ spent \in [outages : Nat, errors : Nat]
    /\ incidents \subseteq {"ackLost"}

Flags == readOnly \in BOOLEAN /\ retryTicker \in BOOLEAN

Distinct(s) == \A i, j \in DOMAIN s : s[i] = s[j] => i = j

(* The monitor's copy of the queue is empty whenever no replay is under way.*)
CopyIsReplayed == monitor # "replay" => batch = <<>>

(* A write is queued by its own call only, and once.                        *)
QueuedByCall == \A w \in In(writeQueue) \cup In(batch) : exec[w] = "queued"
QueuedOnce == /\ Distinct(writeQueue) /\ Distinct(batch)
              /\ In(writeQueue) \cap In(batch) = {}

(* What is still to be done has not taken effect yet.                       *)
Unapplied ==
    "ackLost" \notin incidents =>
        /\ \A w \in Writes : exec[w] \in {"new", "exec", "failed", "queue"} => applied[w] = 0
        /\ \A w \in In(writeQueue) \cup In(batch) : applied[w] = 0

WritesKept ==
    /\ CopyIsReplayed /\ QueuedByCall /\ QueuedOnce /\ Unapplied
    /\ NothingLost /\ AppliedOnce

FailoverInv == QueueTypes /\ WritesKept

-----------------------------------------------------------------------------
(* What queueWrite and the replay do to a queue.                            *)
LEMMA AppendAdds ==
    ASSUME NEW S, NEW s \in Seq(S), NEW x \in S
    PROVE  /\ Append(s, x) \in Seq(S)
           /\ In(Append(s, x)) = In(s) \cup {x}
           /\ Distinct(s) /\ x \notin In(s) => Distinct(Append(s, x))
  <1>1. /\ Append(s, x) \in Seq(S) /\ DOMAIN Append(s, x) = 1..Len(s) + 1
        /\ DOMAIN s = 1..Len(s) /\ Len(s) \in Nat
        /\ \A i \in 1..Len(s) : Append(s, x)[i] = s[i]
        /\ Append(s, x)[Len(s) + 1] = x
    OBVIOUS
  <1>2. In(Append(s, x)) \subseteq In(s) \cup {x}
    BY <1>1 DEF In
  <1>3. In(s) \cup {x} \subseteq In(Append(s, x))
    BY <1>1 DEF In
  <1>4. ASSUME Distinct(s), x \notin In(s) PROVE Distinct(Append(s, x))
    BY <1>1, <1>4 DEF Distinct, In
  <1> QED
    BY <1>1, <1>2, <1>3, <1>4

(* What taking the first entry does to the queue (replayWrites walks its    *)
(* copy from the front): that entry leaves it and, if no entry is there     *)
(* twice, is not in the rest.                                               *)
LEMMA TailDrops ==
    ASSUME NEW S, NEW s \in Seq(S), s # <<>>
    PROVE  /\ Head(s) \in S /\ Tail(s) \in Seq(S)
           /\ In(s) = {Head(s)} \cup In(Tail(s))
           /\ Distinct(s) => Head(s) \notin In(Tail(s)) /\ Distinct(Tail(s))
  <1>1. /\ Head(s) \in S /\ Tail(s) \in Seq(S) /\ Head(s) = s[1]
        /\ DOMAIN s = 1..Len(s) /\ Len(s) \in Nat \ {0}
        /\ DOMAIN Tail(s) = 1..Len(s) - 1
        /\ \A i \in 1..Len(s) - 1 : Tail(s)[i] = s[i + 1]
    OBVIOUS
  <1>2. In(s) \subseteq {Head(s)} \cup In(Tail(s))
    <2> SUFFICES ASSUME NEW i \in 1..Len(s), i # 1 PROVE s[i] \in In(Tail(s))
      BY <1>1 DEF In
    <2>1. i - 1 \in 1..Len(s) - 1 /\ Tail(s)[i - 1] = s[i]
      BY <1>1
    <2> QED
      BY <1>1, <2>1 DEF In
  <1>3. {Head(s)} \cup In(Tail(s)) \subseteq In(s)
    BY <1>1 DEF In
  <1>4. ASSUME Distinct(s) PROVE Head(s) \notin In(Tail(s)) /\ Distinct(Tail(s))
    BY <1>1, <1>4 DEF Distinct, In
  <1> QED
    BY <1>1, <1>2, <1>3, <1>4

(* An emptied queue (replayWrites takes the copy)   holds nothing, and     *)
(* nothing twice.                                                           *)
LEMMA EmptyQueue == In(<<>>) = {} /\ Distinct(<<>>)
  BY DEF In, Distinct

(* A failed statement only counts itself.                                   *)
LEMMA FailureCounted ==
    ASSUME QueueTypes, StatementFails PROVE spent' \in [outages : Nat, errors : Nat]
  BY DEF QueueTypes, StatementFails

-----------------------------------------------------------------------------
(* The invariant holds when the manager starts: nothing executed, nothing   *)
(* queued.                                                                  *)
LEMMA FailoverInvInit == FailoverInit => FailoverInv
  <1> SUFFICES ASSUME FailoverInit PROVE FailoverInv
    OBVIOUS
  <1>1. QueueTypes
    BY DEF FailoverInit, QueueTypes
  <1>2. In(writeQueue) = {} /\ In(batch) = {} /\ QueuedOnce
    BY EmptyQueue DEF FailoverInit, QueuedOnce
  <1> QED
    BY <1>1, <1>2 DEF FailoverInit, FailoverInv, WritesKept, CopyIsReplayed, QueuedByCall,
                      Unapplied, NothingLost, AppliedOnce

(* Every call of Exec and Query, every step of the monitor and every outage *)
(* keeps the queue, its copy and the counters well typed.                   *)
LEMMA QueueTypesStep == QueueTypes /\ [FailoverNext]_failoverVars => QueueTypes'
  <1> SUFFICES ASSUME QueueTypes, [FailoverNext]_failoverVars PROVE QueueTypes'
    OBVIOUS
  <1>0. /\ applied \in [Writes -> Nat] /\ writeQueue \in Seq(Writes) /\ batch \in Seq(Writes)
        /\ incidents \subseteq {"ackLost"} /\ <<>> \in Seq(Writes)
    BY DEF QueueTypes
  <1>1. CASE PrimaryFails
    <2>1. spent' \in [outages : Nat, errors : Nat]
      BY <1>1 DEF PrimaryFails, QueueTypes
    <2> QED
      BY <1>1, <2>1 DEF PrimaryFails, QueueTypes, state
  <1>2. CASE PrimaryRecovers
    BY <1>2 DEF PrimaryRecovers, QueueTypes, state
  <1>3. ASSUME NEW w \in Writes, ExecStep(w) PROVE QueueTypes'
    <2>1. CASE ExecChecks(w)
      BY <2>1 DEF ExecChecks, QueueTypes, state
    <2>2. CASE ExecSucceeds(w)
      BY <2>2 DEF ExecSucceeds, QueueTypes, state
    <2>3. CASE ExecFails(w)
      <3>1. spent' \in [outages : Nat, errors : Nat]
        BY <2>3, FailureCounted DEF ExecFails
      <3>2. applied' \in [Writes -> Nat]
        BY <1>0, <2>3 DEF ExecFails
      <3>3. incidents' \subseteq {"ackLost"}
        BY <1>0, <2>3 DEF ExecFails
      <3> QED
        BY <2>3, <3>1, <3>2, <3>3 DEF ExecFails, QueueTypes, state
    <2>4. CASE ExecReportsFailure(w)
      BY <2>4 DEF ExecReportsFailure, QueueTypes
    <2>5. CASE ExecQueues(w)
      BY <2>5, AppendAdds DEF ExecQueues, Queue, QueueTypes
    <2> QED
      BY <1>3, <2>1, <2>2, <2>3, <2>4, <2>5 DEF ExecStep
  <1>4. CASE QueryStep
    BY <1>4, FailureCounted
       DEF QueryStep, QueryBegins, QueryEnds, QueryReportsFailure, QueueTypes, state
  <1>5. CASE MonitorStep
    <2>1. CASE MonitorSelects \/ TickerFires \/ ReplayEnds \/ LeavesReadOnly
      BY <2>1 DEF MonitorSelects, TickerFires, ReplayEnds, LeavesReadOnly, QueueTypes, state
    <2>2. CASE TestsPrimary
      <3>1. spent' \in [outages : Nat, errors : Nat]
        BY <2>2, FailureCounted DEF TestsPrimary, QueueTypes
      <3>2. writeQueue' \in Seq(Writes) /\ batch' \in Seq(Writes)
        BY <1>0, <2>2 DEF TestsPrimary
      <3> QED
        BY <2>2, <3>1, <3>2 DEF TestsPrimary, QueueTypes
    <2>3. CASE Replays
      <3>1. Head(batch) \in Writes /\ Tail(batch) \in Seq(Writes)
        BY <2>3, TailDrops DEF Replays, QueueTypes
      <3>2. applied' \in [Writes -> Nat]
        BY <2>3, <3>1 DEF Replays, QueueTypes
      <3> QED
        BY <2>3, <3>1, <3>2 DEF Replays, QueueTypes, state
    <2>4. CASE ReplayFails
      <3>1. Head(batch) \in Writes /\ Tail(batch) \in Seq(Writes)
        BY <2>4, TailDrops DEF ReplayFails, QueueTypes
      <3>2. writeQueue' \in Seq(Writes) /\ batch' \in Seq(Writes)
        BY <2>4, <3>1, AppendAdds DEF ReplayFails, Queue, QueueTypes
      <3>3. spent' \in [outages : Nat, errors : Nat]
        BY <2>4, FailureCounted DEF ReplayFails
      <3>4. applied' \in [Writes -> Nat]
        <4>1. applied' = applied \/ applied' = [applied EXCEPT ![Head(batch)] = @ + 1]
          BY <2>4 DEF ReplayFails
        <4> QED
          BY <1>0, <3>1, <4>1
      <3>5. incidents' \subseteq {"ackLost"}
        BY <1>0, <2>4 DEF ReplayFails
      <3> QED
        BY <2>4, <3>2, <3>3, <3>4, <3>5 DEF ReplayFails, QueueTypes
    <2> QED
      BY <1>5, <2>1, <2>2, <2>3, <2>4 DEF MonitorStep
  <1>6. CASE Close
    BY <1>6 DEF Close, QueueTypes, state
  <1>7. CASE UNCHANGED failoverVars
    BY <1>7 DEF failoverVars, QueueTypes
  <1> QED
    BY <1>1, <1>2, <1>3, <1>4, <1>5, <1>6, <1>7 DEF FailoverNext

(* The two flags of the manager stay Booleans: handlePrimaryFailure and     *)
(* attemptRecovery are the only writers.                                    *)
LEMMA FlagsStep == Flags /\ [FailoverNext]_failoverVars => Flags'
  BY Zenon DEF Flags, FailoverNext, failoverVars, state, PrimaryFails, PrimaryRecovers, ExecStep,
         ExecChecks, ExecSucceeds, ExecFails, ExecReportsFailure, ExecQueues,
         HandlePrimaryFailure, QueryStep, QueryBegins, QueryEnds, QueryReportsFailure,
         MonitorStep, MonitorSelects, TickerFires, TestsPrimary, Replays, ReplayFails,
         ReplayEnds, LeavesReadOnly, Close

-----------------------------------------------------------------------------
(* Each step of Exec, queueWrite and replayWrites keeps every accepted      *)
(* write in exactly one place, and unapplied until it is executed.          *)
LEMMA WritesKeptStep == FailoverInv /\ [FailoverNext]_failoverVars => WritesKept'
  <1> SUFFICES ASSUME FailoverInv, [FailoverNext]_failoverVars PROVE WritesKept'
    OBVIOUS
  <1>0. /\ CopyIsReplayed /\ QueuedByCall /\ QueuedOnce /\ Unapplied
        /\ NothingLost /\ AppliedOnce
        /\ exec \in [Writes -> {"new", "exec", "failed", "queue", "queued", "done"}]
        /\ applied \in [Writes -> Nat]
    BY DEF FailoverInv, WritesKept, QueueTypes
  <1>s. writeQueue \in Seq(Writes) /\ batch \in Seq(Writes)
    BY DEF FailoverInv, QueueTypes
  <1>q. In(writeQueue) \subseteq Writes /\ In(batch) \subseteq Writes
    BY <1>s DEF In
  <1> USE DEF CopyIsReplayed, QueuedByCall, QueuedOnce, Unapplied, NothingLost, AppliedOnce
  <1>1. CASE UNCHANGED <<writeQueue, batch, exec, applied, incidents, monitor>>
    BY <1>0, <1>1 DEF WritesKept
  <1>2. CASE /\ UNCHANGED <<writeQueue, batch, exec, applied, incidents>>
             /\ monitor # "replay" \/ batch = <<>>
    BY <1>0, <1>2 DEF WritesKept
  <1>3. ASSUME NEW w \in Writes, ExecStep(w) PROVE WritesKept'
    <2>1. CASE ExecChecks(w) \/ ExecReportsFailure(w)
      <3>1. /\ UNCHANGED <<writeQueue, batch, applied, incidents, monitor>>
            /\ exec[w] \in {"new", "failed"}
            /\ exec' = [exec EXCEPT ![w] = "exec"] \/ exec' = [exec EXCEPT ![w] = "queue"]
        BY <2>1 DEF ExecChecks, ExecReportsFailure, state
      <3> QED
        BY <1>0, <1>q, <3>1 DEF WritesKept
    <2>2. CASE ExecSucceeds(w)
      BY <1>0, <1>q, <2>2 DEF ExecSucceeds, state, WritesKept
    <2>3. CASE ExecFails(w)
      <3>1. /\ UNCHANGED <<writeQueue, batch, monitor>>
            /\ exec[w] = "exec" /\ exec' = [exec EXCEPT ![w] = "failed"]
            /\ \/ UNCHANGED <<applied, incidents>>
               \/ applied' = [applied EXCEPT ![w] = @ + 1] /\ "ackLost" \in incidents'
        BY <2>3 DEF ExecFails, state
      <3> QED
        BY <1>0, <1>q, <3>1 DEF WritesKept
    <2>4. CASE ExecQueues(w)
      <3>1. /\ UNCHANGED <<batch, applied, incidents, monitor>>
            /\ exec[w] = "queue" /\ exec' = [exec EXCEPT ![w] = "queued"]
            /\ writeQueue' = Append(writeQueue, w)
        BY <2>4 DEF ExecQueues, Queue
      <3>2. /\ In(writeQueue') = In(writeQueue) \cup {w} /\ w \notin In(writeQueue) \cup In(batch)
            /\ Distinct(writeQueue')
        BY <1>0, <1>s, <3>1, AppendAdds
      <3> QED
        BY <1>0, <1>q, <3>1, <3>2 DEF WritesKept
    <2> QED
      BY <1>3, <2>1, <2>2, <2>3, <2>4 DEF ExecStep
  <1>4. CASE TestsPrimary
    <2>1. CASE monitor' = "replay"
      <3>1. /\ UNCHANGED <<exec, applied, incidents>> /\ batch = <<>>
            /\ writeQueue' = <<>> /\ batch' = writeQueue
        BY <1>0, <1>4, <2>1 DEF TestsPrimary
      <3>2. /\ In(writeQueue') = {} /\ In(batch') = In(writeQueue) /\ In(batch) = {}
            /\ Distinct(writeQueue') /\ Distinct(batch')
        BY <1>0, <2>1, <3>1, EmptyQueue
      <3> QED
        BY <1>0, <1>q, <2>1, <3>1, <3>2 DEF WritesKept
    <2> QED
      BY <1>2, <1>4, <2>1 DEF TestsPrimary
  <1>5. CASE Replays \/ ReplayFails
    <2> DEFINE w == Head(batch)
    <2>0. /\ batch # <<>> /\ batch' = Tail(batch) /\ UNCHANGED <<exec, monitor>>
          /\ monitor = "replay"
      BY <1>5 DEF Replays, ReplayFails
    <2>1. /\ w \in Writes /\ In(batch) = {w} \cup In(batch') /\ w \notin In(batch')
          /\ Distinct(batch') /\ In(batch') \subseteq In(batch)
      BY <1>0, <1>s, <2>0, TailDrops
    <2>2. exec[w] = "queued" /\ w \notin In(writeQueue)
      BY <1>0, <2>1
    <2> HIDE DEF w
    <2>3. CASE Replays
      <3>1. /\ UNCHANGED <<writeQueue, incidents>>
            /\ applied' = [applied EXCEPT ![w] = @ + 1]
        BY <2>3 DEF Replays, state, w
      <3> QED
        BY <1>0, <1>q, <2>0, <2>1, <2>2, <3>1 DEF WritesKept
    <2>4. CASE ReplayFails
      <3>1. /\ writeQueue' = Append(writeQueue, w)
            /\ \/ UNCHANGED <<applied, incidents>>
               \/ applied' = [applied EXCEPT ![w] = @ + 1] /\ "ackLost" \in incidents'
        BY <2>4 DEF ReplayFails, Queue, w
      <3>2. In(writeQueue') = In(writeQueue) \cup {w} /\ Distinct(writeQueue')
        BY <1>0, <1>s, <2>1, <2>2, <3>1, AppendAdds
      <3> QED
        BY <1>0, <1>q, <2>0, <2>1, <2>2, <3>1, <3>2 DEF WritesKept
    <2> QED
      BY <1>5, <2>3, <2>4
  <1>6. CASE PrimaryFails \/ PrimaryRecovers \/ QueryStep \/ UNCHANGED failoverVars
    BY <1>1, <1>6 DEF PrimaryFails, PrimaryRecovers, QueryStep, QueryBegins, QueryEnds,
                      QueryReportsFailure, failoverVars, state
  <1>7. CASE MonitorSelects \/ TickerFires \/ ReplayEnds \/ LeavesReadOnly \/ Close
    BY <1>2, <1>7 DEF MonitorSelects, TickerFires, ReplayEnds, LeavesReadOnly, Close, state
  <1> QED
    BY <1>3, <1>4, <1>5, <1>6, <1>7 DEF FailoverNext, MonitorStep

(* The invariant of the queue holds in every reachable state, for every set *)
(* of writes and every bound of outages and errors.                         *)
THEOREM FailoverInductive == FailoverSpec => []FailoverInv
  <1>1. FailoverInv /\ [FailoverNext]_failoverVars => FailoverInv'
    BY QueueTypesStep, WritesKeptStep DEF FailoverInv
  <1> QED
    BY <1>1, FailoverInvInit, PTL DEF FailoverSpec

(* The type invariant of the failover manager.                              *)
THEOREM FailoverTypeCorrect == FailoverSpec => []FailoverTypeOK
  <1>1. FailoverInit => Flags
    BY DEF FailoverInit, Flags
  <1>2. FailoverInv /\ Flags => FailoverTypeOK
    BY DEF FailoverInv, QueueTypes, Flags, FailoverTypeOK
  <1> QED
    BY <1>1, <1>2, FlagsStep, FailoverInductive, PTL DEF FailoverSpec

(* A write whose caller was told "write queued for retry" waits in the      *)
(* queue or in the copy being replayed, or took effect, however outages,    *)
(* replays and other calls interleave.                                      *)
THEOREM QueuedWritesKept == FailoverSpec => []NothingLost
  BY FailoverInductive, PTL DEF FailoverInv, WritesKept

(* The replay executes no write a second time unless the database lost an   *)
(* acknowledgement.                                                         *)
THEOREM WritesAppliedOnce == FailoverSpec => []AppliedOnce
  BY FailoverInductive, PTL DEF FailoverInv, WritesKept

-----------------------------------------------------------------------------
(***************************************************************************)
(* LiveConfig, for any number of overlapping reloads and settings requests. *)
(* As long as nobody is about to write the file and the timer is not        *)
(* running, what the latest reload has still to do is all by which copy and *)
(* manager differ from the file.                                            *)
(***************************************************************************)
(* A task, and the shared copy, by their fields.                            *)
Task(pc, next, data, old) == [pc |-> pc, next |-> next, data |-> data, old |-> old]
IsTask(v) == v = Task(v.pc, v.next, v.data, v.old)

(* Every copy holds settings there are.                                     *)
TaskKnown(v) == IsTask(v) /\ v.data.sec \in Settings
SharedKnown == shared = [sec |-> shared.sec, key |-> shared.key] /\ shared.sec \in Settings
FileKnown == "sec" \in DOMAIN file /\ file.sec \in Settings

ConfigShape ==
    /\ DOMAIN task = Tasks /\ task = [t \in Tasks |-> task[t]]
    /\ \A t \in Tasks : TaskKnown(task[t])
    /\ SharedKnown /\ FileKnown

(* The Boolean parts of the state, as predicates.                           *)
Stale(v) == v.old
TimerRuns == debounce

(* A reload from after the last firing of the timer, at one of the stages.  *)
Newer(t, stages) == task[t].pc \in stages /\ ~Stale(task[t])

(* What a reload has before it when nobody saves: everything but the load,  *)
(* the assignment, the manager.                                             *)
HasRead == {"key", "assign"}
ToAssign == {"load"} \cup HasRead
ToApply == {"apply"} \cup ToAssign

(* Nothing is about to change the file, or to have it read again.           *)
Calm ==
    /\ notes \cap {"overtaken", "failure"} = {}
    /\ ~TimerRuns
    /\ \A t \in Tasks : task[t].pc \notin {"open", "write"}

(* Then every request is from before the latest reload, and what that       *)
(* reload has not done yet is all that is missing.                          *)
Settled ==
    Calm =>
       /\ \A u \in Updates : task[u].pc # "idle" => Stale(task[u])
       /\ (\A r \in Reloads : ~Newer(r, ToAssign)) => shared.sec = Corrected[file.sec]
       /\ (\A r \in Reloads : ~Newer(r, ToApply)) => given = Corrected[file.sec]
       /\ \A r \in Reloads : Newer(r, HasRead) => task[r].data.sec = Corrected[file.sec]

ConfigInv == ConfigShape /\ Settled
-----------------------------------------------------------------------------
(* The fields of a task that is written out.                                *)
LEMMA TaskFields ==
    ASSUME NEW pc, NEW next, NEW data, NEW old, NEW v, v = Task(pc, next, data, old)
    PROVE  IsTask(v) /\ v.pc = pc /\ v.next = next /\ v.data = data /\ v.old = old
  BY DEF Task, IsTask

(* A slot without a reload or a request is a record of the same fields.     *)
LEMMA IdleTask ==
    \E d, x : NoTask = Task("idle", Default, d, x) /\ d.sec \in Settings /\ ~x
  <1>. DEFINE e == [sec |-> Default, key |-> NoKey]
  <1>1. NoTask = Task("idle", Default, e, FALSE)
    BY Zenon DEF NoTask, Task
  <1>2. e.sec \in Settings
    BY ConfigAssumption DEF ConfigAssumption
  <1>. HIDE DEF e
  <1>. QED  BY <1>1, <1>2, Zenon

(* What a step does to the tasks other than t: nothing.                     *)
OnlyTask(t) == /\ DOMAIN task' = Tasks /\ task' = [d \in Tasks |-> task'[d]]
               /\ \A d \in Tasks \ {t} : task'[d] = task[d]

(* What a goroutine does to its own task leaves the others alone.           *)
LEMMA TaskReplaced ==
    ASSUME ConfigShape, NEW t \in Tasks, NEW v, task' = [task EXCEPT ![t] = v]
    PROVE  OnlyTask(t) /\ task'[t] = v
  BY DEF ConfigShape, OnlyTask

(* A task at its next statement.                                            *)
LEMMA PcSet ==
    ASSUME NEW v, IsTask(v), NEW pc
    PROVE  [v EXCEPT !.pc = pc] = Task(pc, v.next, v.data, v.old)
  BY DEF IsTask, Task

(* A task with the settings it has read.                                    *)
LEMMA DataSet ==
    ASSUME NEW v, IsTask(v), NEW data
    PROVE  [v EXCEPT !.data = data] = Task(v.pc, v.next, data, v.old)
  BY DEF IsTask, Task

(* A task with the settings it is to write.                                 *)
LEMMA NextSet ==
    ASSUME NEW v, IsTask(v), NEW next
    PROVE  [v EXCEPT !.next = next] = Task(v.pc, next, v.data, v.old)
  BY DEF IsTask, Task

(* A task that a firing of the timer has made out of date.                  *)
LEMMA OldSet ==
    ASSUME NEW v, IsTask(v), NEW old
    PROVE  [v EXCEPT !.old = old] = Task(v.pc, v.next, v.data, old)
  BY DEF IsTask, Task

(* Going on to the next statement.                                          *)
LEMMA TaskMoves ==
    ASSUME ConfigShape, NEW t \in Tasks, NEW pc, TaskGoto(t, pc)
    PROVE  /\ OnlyTask(t) /\ TaskKnown(task'[t]) /\ task'[t].pc = pc
           /\ task'[t].data = task[t].data /\ (Stale(task'[t]) <=> Stale(task[t]))
  <1>. DEFINE v == [task[t] EXCEPT !.pc = pc]
  <1>1. TaskKnown(task[t])
    BY DEF ConfigShape
  <1>2. v = Task(pc, task[t].next, task[t].data, task[t].old)
    BY <1>1, PcSet, Zenon DEF TaskKnown
  <1>3. task' = [task EXCEPT ![t] = v]
    BY DEF TaskGoto
  <1>. HIDE DEF v
  <1>4. OnlyTask(t) /\ task'[t] = v
    BY <1>3, TaskReplaced
  <1>5. IsTask(v) /\ v.pc = pc /\ v.data = task[t].data /\ v.old = task[t].old
    BY <1>2, TaskFields
  <1>6. Stale(v) <=> Stale(task[t])
    BY <1>5, Zenon DEF Stale
  <1>. QED  BY <1>1, <1>4, <1>5, <1>6 DEF TaskKnown

(* The same for a goroutine that takes what it has read along.              *)
LEMMA TaskMovesWith ==
    ASSUME ConfigShape, NEW t \in Tasks, NEW pc, NEW data, data.sec \in Settings,
           task' = [task EXCEPT ![t].pc = pc, ![t].data = data]
    PROVE  /\ OnlyTask(t) /\ TaskKnown(task'[t]) /\ task'[t].pc = pc
           /\ task'[t].data = data /\ (Stale(task'[t]) <=> Stale(task[t]))
  <1>. DEFINE a == [task[t] EXCEPT !.pc = pc]
              v == [a EXCEPT !.data = data]
  <1>1. IsTask(task[t])
    BY DEF ConfigShape, TaskKnown
  <1>2. a = Task(pc, task[t].next, task[t].data, task[t].old)
    BY <1>1, PcSet, Zenon
  <1>3. task' = [task EXCEPT ![t] = v]
    BY DEF ConfigShape
  <1>. HIDE DEF a
  <1>4. IsTask(a) /\ a.pc = pc /\ a.next = task[t].next /\ a.old = task[t].old
    BY <1>2, TaskFields
  <1>5. v = Task(a.pc, a.next, data, a.old)
    BY <1>4, DataSet, Zenon
  <1>. HIDE DEF v
  <1>6. OnlyTask(t) /\ task'[t] = v
    BY <1>3, TaskReplaced
  <1>7. IsTask(v) /\ v.pc = pc /\ v.data = data /\ v.old = task[t].old
    BY <1>4, <1>5, TaskFields
  <1>8. Stale(v) <=> Stale(task[t])
    BY <1>7, Zenon DEF Stale
  <1>. QED  BY <1>6, <1>7, <1>8 DEF TaskKnown

(* What the end of a goroutine leaves alone.                                *)
LEMMA TaskEnds ==
    ASSUME ConfigShape, NEW t \in Tasks, task' = [task EXCEPT ![t] = NoTask]
    PROVE  OnlyTask(t) /\ TaskKnown(task'[t]) /\ task'[t].pc = "idle"
  <1>1. PICK d, x : NoTask = Task("idle", Default, d, x) /\ d.sec \in Settings
    BY IdleTask
  <1>2. IsTask(NoTask) /\ NoTask.pc = "idle" /\ NoTask.data = d
    BY <1>1, TaskFields
  <1>. QED  BY <1>1, <1>2, TaskReplaced DEF TaskKnown

(* A step of one goroutine keeps the records.                               *)
LEMMA ShapeKept ==
    ASSUME ConfigShape, NEW t \in Tasks, OnlyTask(t), TaskKnown(task'[t]), SharedKnown', FileKnown'
    PROVE  ConfigShape'
  BY DEF ConfigShape, OnlyTask

(* What is read, saved and corrected are settings.                          *)
LEMMA Corrects ==
    ASSUME NEW s \in Settings
    PROVE  Corrected[s] \in Settings /\ Corrected[Corrected[s]] = Corrected[s]
  BY ConfigAssumption DEF ConfigAssumption

(* What os.WriteFile leaves in the file is a known text.                    *)
LEMMA TextKnown ==
    ASSUME NEW c, c = Empty \/ c = Garbled \/ (\E d : c = Text(d) /\ d.sec \in Settings)
    PROVE  "sec" \in DOMAIN c /\ c.sec \in Settings
  BY ConfigAssumption DEF ConfigAssumption, Empty, Garbled, Unread, Text

(* A change of the file is followed by a reload, and a failure is noted.    *)
LEMMA ChangeIsNoticed ==
    /\ \A c : Changed(c) => ~Calm'
    /\ Remark("failure", TRUE) => ~Calm'
  <1>1. ASSUME NEW c, Changed(c) PROVE TimerRuns'
    BY <1>1, Zenon DEF Changed, TimerRuns
  <1>2. ASSUME Remark("failure", TRUE) PROVE "failure" \in notes'
    BY <1>2 DEF Remark
  <1>. QED  BY <1>1, <1>2 DEF Calm

(* A request or a load that saves.                                          *)
LEMMA SavesStep ==
    ASSUME ConfigInv, NEW t \in Tasks, EmptyFile(t) \/ FillFile(t) \/ SaveFails(t)
    PROVE  ConfigInv'
  <1>0. ConfigShape /\ UNCHANGED shared
    BY DEF ConfigInv, EmptyFile, FillFile, SaveFails
  <1>1. SharedKnown' /\ shared.sec \in Settings /\ task[t].data.sec \in Settings /\ FileKnown
    BY <1>0 DEF ConfigShape, SharedKnown, TaskKnown
  <1>2. ~Calm'
    BY ChangeIsNoticed DEF EmptyFile, FillFile, SaveFails
  <1>3. CASE EmptyFile(t)
    <2>1. PICK data : /\ data.sec \in Settings
                      /\ task' = [task EXCEPT ![t].pc = "write", ![t].data = data]
      <3>1. CASE t \in Updates
        <4>1. task' = [task EXCEPT ![t].pc = "write", ![t].data = shared]
          BY <1>3, <3>1, Zenon DEF EmptyFile
        <4>. QED  BY <1>1, <4>1
      <3>2. CASE t \notin Updates
        <4>1. PICK x : x = task[t].data
          OBVIOUS
        <4>2. task' = [task EXCEPT ![t].pc = "write", ![t].data = x]
          <5>1. task' = [task EXCEPT ![t].pc = "write", ![t].data = @]
            BY <1>3, <3>2 DEF EmptyFile
          <5>2. DOMAIN task = Tasks /\ IsTask(task[t])
            BY <1>0 DEF ConfigShape, TaskKnown
          <5>. QED  BY <4>1, <5>1, <5>2 DEF IsTask, Task
        <4>. QED  BY <1>1, <4>1, <4>2
      <3>. QED  BY <3>1, <3>2
    <2>2. FileKnown'
      BY <1>3, TextKnown DEF EmptyFile, Changed, FileKnown
    <2>. QED  BY <1>0, <1>1, <1>2, <2>1, <2>2, TaskMovesWith, ShapeKept DEF ConfigInv, Settled
  <1>4. CASE FillFile(t)
    <2>1. PICK pc : TaskGoto(t, pc)
      BY <1>4 DEF FillFile
    <2>2. PICK c : (c = Text(task[t].data) \/ c = Garbled) /\ file' = c
      BY <1>4 DEF FillFile, Changed
    <2>3. FileKnown'
      BY <1>1, <2>2, TextKnown DEF FileKnown
    <2>. QED  BY <1>0, <1>1, <1>2, <2>1, <2>3, TaskMoves, ShapeKept DEF ConfigInv, Settled
  <1>5. CASE SaveFails(t)
    <2>1. TaskGoto(t, "key") \/ task' = [task EXCEPT ![t] = NoTask]
      BY <1>5 DEF SaveFails
    <2>2. FileKnown'
      BY <1>1, <1>5 DEF SaveFails, FileKnown
    <2>. QED  BY <1>0, <1>1, <1>2, <2>1, <2>2, TaskMoves, TaskEnds, ShapeKept DEF ConfigInv, Settled
  <1>. QED  BY <1>3, <1>4, <1>5

(* A request that assigns is about to save.                                 *)
LEMMA UpdateStarts ==
    ASSUME ConfigInv, NEW u \in Updates, NEW s \in Settings, UpdateI2PConfig(u, s)
    PROVE  ConfigInv'
  <1>0. ConfigShape /\ u \in Tasks
    BY DEF ConfigInv, Tasks
  <1>1. PICK d, x : NoTask = Task("idle", Default, d, x) /\ d.sec \in Settings
    BY IdleTask
  <1>. DEFINE a == [NoTask EXCEPT !.pc = "open"]
              v == [a EXCEPT !.next = s]
  <1>2. IsTask(NoTask) /\ NoTask.data = d
    BY <1>1, TaskFields
  <1>3. a = Task("open", NoTask.next, NoTask.data, NoTask.old)
    BY <1>2, PcSet, Zenon
  <1>4. task' = [task EXCEPT ![u] = v]
    BY Zenon DEF UpdateI2PConfig
  <1>. HIDE DEF a
  <1>5. IsTask(a) /\ a.pc = "open" /\ a.data = d
    BY <1>2, <1>3, TaskFields
  <1>6. v = Task(a.pc, s, a.data, a.old)
    BY <1>5, NextSet, Zenon
  <1>. HIDE DEF v
  <1>7. TaskKnown(v) /\ v.pc = "open"
    BY <1>1, <1>5, <1>6, TaskFields DEF TaskKnown
  <1>8. OnlyTask(u) /\ task'[u] = v
    BY <1>0, <1>4, TaskReplaced
  <1>9. SharedKnown' /\ FileKnown'
    BY <1>0 DEF UpdateI2PConfig, ConfigShape, SharedKnown, FileKnown
  <1>10. ConfigShape'
    BY <1>0, <1>7, <1>8, <1>9, ShapeKept
  <1>11. ~Calm'
    BY <1>0, <1>7, <1>8 DEF Calm
  <1>. QED  BY <1>10, <1>11 DEF ConfigInv, Settled

(* The timer fires: whatever else is under way is from before this reload.  *)
LEMMA TimerStep ==
    ASSUME ConfigInv, NEW r \in Reloads, TimerFires(r)
    PROVE  ConfigInv'
  <1>0. ConfigShape /\ r \in Tasks /\ r \notin Updates /\ UNCHANGED <<file, shared, given>>
    BY ConfigAssumption DEF ConfigInv, Tasks, Loads, TimerFires, ConfigAssumption
  <1>1. PICK d, x : NoTask = Task("idle", Default, d, x) /\ d.sec \in Settings /\ ~x
    BY IdleTask
  <1>. DEFINE a == [NoTask EXCEPT !.pc = "load"]
              b(t) == [task[t] EXCEPT !.old = @ \/ ~TaskAt(t, "idle")]
  <1>2. task' = [t \in Tasks |-> IF t = r THEN a ELSE b(t)]
    BY Zenon DEF TimerFires
  <1>3. IsTask(NoTask) /\ NoTask.old = x /\ NoTask.data = d
    BY <1>1, TaskFields
  <1>4. a = Task("load", NoTask.next, NoTask.data, NoTask.old)
    BY <1>3, PcSet, Zenon
  <1>5. ASSUME NEW t \in Tasks
        PROVE  TaskKnown(b(t)) /\ b(t).pc = task[t].pc /\ (task[t].pc # "idle" => Stale(b(t)))
    <2>1. PICK y : b(t) = [task[t] EXCEPT !.old = y] /\ (task[t].pc # "idle" => y)
      BY Zenon DEF TaskAt
    <2>2. IsTask(task[t]) /\ task[t].data.sec \in Settings
      BY <1>0 DEF ConfigShape, TaskKnown
    <2>. HIDE DEF b
    <2>3. b(t) = Task(task[t].pc, task[t].next, task[t].data, y)
      BY <2>1, <2>2, OldSet, Zenon
    <2>4. IsTask(b(t)) /\ b(t).pc = task[t].pc /\ b(t).old = y /\ b(t).data = task[t].data
      BY <2>3, TaskFields
    <2>5. task[t].pc # "idle" => Stale(b(t))
      BY <2>1, <2>4, Zenon DEF Stale
    <2>. QED  BY <2>2, <2>4, <2>5 DEF TaskKnown
  <1>. HIDE DEF a, b
  <1>6. TaskKnown(a) /\ a.pc = "load" /\ a.old = x
    BY <1>1, <1>3, <1>4, TaskFields DEF TaskKnown
  <1>7. ~Stale(a)
    BY <1>1, <1>6, Zenon DEF Stale
  <1>8. task'[r] = a /\ \A t \in Tasks \ {r} : task'[t] = b(t)
    BY <1>0, <1>2
  <1>9. ConfigShape'
    <2>1. DOMAIN task' = Tasks /\ task' = [t \in Tasks |-> task'[t]]
      BY <1>2
    <2>2. \A t \in Tasks : TaskKnown(task'[t])
      BY <1>5, <1>6, <1>8
    <2>3. SharedKnown' /\ FileKnown'
      BY <1>0 DEF ConfigShape, SharedKnown, FileKnown
    <2>. QED  BY <2>1, <2>2, <2>3 DEF ConfigShape
  <1>10. Settled'
    <2>1. Newer(r, ToAssign)' /\ Newer(r, ToApply)'
      BY <1>6, <1>7, <1>8 DEF Newer, ToAssign, ToApply
    <2>2. \A t \in Tasks \ {r} : task'[t].pc # "idle" => Stale(task'[t])
      BY <1>5, <1>8
    <2>3. \A t \in Reloads : ~Newer(t, HasRead)'
      BY <1>0, <1>6, <1>8, <2>2 DEF Newer, HasRead, Tasks, Loads
    <2>4. \A u \in Updates : task'[u].pc # "idle" => Stale(task'[u])
      BY <1>0, <2>2 DEF Tasks
    <2>. QED  BY <2>1, <2>3, <2>4 DEF Settled
  <1>. QED  BY <1>9, <1>10 DEF ConfigInv

(* A step inside LoadConfig that goes on from one stage to another without  *)
(* a save in view, with what the file says in hand.                         *)
LEMMA LoadGoesOn ==
    ASSUME ConfigInv, NEW t \in Loads, OnlyTask(t), UNCHANGED <<file, shared, given, notes>>,
           TimerRuns' <=> TimerRuns,
           task[t].pc \notin {"open", "write", "apply"},
           t \in Reloads => /\ task[t].pc \in ToAssign /\ task'[t].pc \in HasRead
                            /\ Stale(task'[t]) <=> Stale(task[t])
                            /\ \/ task'[t].data.sec = Corrected[file.sec]
                               \/ task[t].pc \in HasRead /\ task'[t].data = task[t].data
    PROVE  Settled'
  <1>0. Settled /\ t \in Tasks /\ t \notin Updates
    BY ConfigAssumption DEF ConfigInv, Tasks, Loads, ConfigAssumption
  <1>1. Calm' => Calm
    BY <1>0 DEF Calm, OnlyTask
  <1>2. \A r \in Reloads : /\ Newer(r, ToAssign) => Newer(r, ToAssign)'
                           /\ Newer(r, ToApply) => Newer(r, ToApply)'
    BY DEF Newer, OnlyTask, Tasks, Loads, ToAssign, ToApply
  <1>3. \A r \in Reloads : Newer(r, HasRead)' =>
                               \/ task'[r].data.sec = Corrected[file.sec]
                               \/ Newer(r, HasRead) /\ task'[r].data = task[r].data
    BY DEF Newer, OnlyTask, Tasks, Loads
  <1>4. \A u \in Updates : task'[u] = task[u]
    BY <1>0 DEF OnlyTask, Tasks
  <1>. SUFFICES ASSUME Calm' PROVE Settled'
    BY DEF Settled
  <1>5. (\A r \in Reloads : ~Newer(r, ToAssign)') => shared'.sec = Corrected[file'.sec]
    BY <1>0, <1>1, <1>2 DEF Settled
  <1>6. (\A r \in Reloads : ~Newer(r, ToApply)') => given' = Corrected[file'.sec]
    BY <1>0, <1>1, <1>2 DEF Settled
  <1>7. \A r \in Reloads : Newer(r, HasRead)' => task'[r].data.sec = Corrected[file'.sec]
    BY <1>0, <1>1, <1>3 DEF Settled
  <1>8. \A u \in Updates : task'[u].pc # "idle" => Stale(task'[u])
    BY <1>0, <1>1, <1>4 DEF Settled
  <1>. QED  BY <1>5, <1>6, <1>7, <1>8 DEF Settled

(* A load keeps what it made of the file, or is about to save.              *)
LEMMA LoadStep ==
    ASSUME ConfigInv, NEW t \in Loads, LoadConfig(t)
    PROVE  ConfigInv'
  <1>0. ConfigShape /\ t \in Tasks /\ UNCHANGED <<file, shared, given, notes>>
    BY DEF ConfigInv, Tasks, LoadConfig
  <1>1. SharedKnown' /\ FileKnown' /\ file.sec \in Settings
    BY <1>0 DEF ConfigShape, SharedKnown, FileKnown
  <1>2. CASE Missing
    <2>. DEFINE data == [sec |-> Default, key |-> keys + 1]
    <2>1. task' = [task EXCEPT ![t].pc = "open", ![t].data = data]
      BY <1>2, Zenon DEF LoadConfig
    <2>2. data.sec \in Settings
      BY ConfigAssumption DEF ConfigAssumption
    <2>. HIDE DEF data
    <2>3. OnlyTask(t) /\ TaskKnown(task'[t]) /\ task'[t].pc = "open"
      BY <1>0, <2>1, <2>2, TaskMovesWith
    <2>4. ~Calm'
      BY <1>0, <2>3 DEF Calm
    <2>. QED  BY <1>0, <1>1, <2>3, <2>4, ShapeKept DEF ConfigInv, Settled
  <1>3. CASE ~Missing
    <2>. DEFINE data == [sec |-> Corrected[file.sec], key |-> file.key]
                pc == IF file.port = "invalid" THEN "open" ELSE "key"
    <2>1. task' = [task EXCEPT ![t].pc = pc, ![t].data = data]
      BY <1>3, Zenon DEF LoadConfig
    <2>2. data.sec = Corrected[file.sec] /\ data.sec \in Settings
      BY <1>1, Corrects
    <2>3. pc = "open" \/ pc = "key"
      OBVIOUS
    <2>. HIDE DEF data, pc
    <2>4. /\ OnlyTask(t) /\ TaskKnown(task'[t]) /\ task'[t].pc = pc /\ task'[t].data = data
          /\ (Stale(task'[t]) <=> Stale(task[t]))
      BY <1>0, <2>1, <2>2, TaskMovesWith
    <2>5. ConfigShape'
      BY <1>0, <1>1, <2>4, ShapeKept
    <2>6. CASE pc = "open"
      <3>1. ~Calm'
        BY <1>0, <2>4, <2>6 DEF Calm
      <3>. QED  BY <2>5, <3>1 DEF ConfigInv, Settled
    <2>7. CASE pc = "key"
      <3>1. TimerRuns' <=> TimerRuns
        BY Zenon DEF LoadConfig, TimerRuns
      <3>2. /\ task[t].pc \notin {"open", "write", "apply"}
            /\ t \in Reloads => task[t].pc \in ToAssign
        BY DEF LoadConfig, TaskAt, ToAssign
      <3>3. Settled'
        BY <1>0, <2>2, <2>4, <2>7, <3>1, <3>2, LoadGoesOn DEF HasRead
      <3>. QED  BY <2>5, <3>3 DEF ConfigInv
    <2>. QED  BY <2>3, <2>6, <2>7
  <1>. QED  BY <1>2, <1>3

(* The key: generated, and about to be saved, or read with the rest.        *)
LEMMA KeyStep ==
    ASSUME ConfigInv, NEW t \in Loads, EnsureKey(t)
    PROVE  ConfigInv'
  <1>0. /\ ConfigShape /\ t \in Tasks /\ UNCHANGED <<file, shared, given, notes>>
        /\ task[t].pc = "key"
    BY DEF ConfigInv, Tasks, EnsureKey, TaskAt
  <1>1. SharedKnown' /\ FileKnown' /\ task[t].data.sec \in Settings
    BY <1>0 DEF ConfigShape, SharedKnown, FileKnown, TaskKnown
  <1>2. CASE task[t].data.key = NoKey
    <2>. DEFINE data == [sec |-> task[t].data.sec, key |-> keys + 1]
    <2>1. task' = [task EXCEPT ![t].pc = "open", ![t].data = data]
      BY <1>2, Zenon DEF EnsureKey
    <2>2. data.sec \in Settings
      BY <1>1
    <2>. HIDE DEF data
    <2>3. OnlyTask(t) /\ TaskKnown(task'[t]) /\ task'[t].pc = "open"
      BY <1>0, <2>1, <2>2, TaskMovesWith
    <2>4. ~Calm'
      BY <1>0, <2>3 DEF Calm
    <2>. QED  BY <1>0, <1>1, <2>3, <2>4, ShapeKept DEF ConfigInv, Settled
  <1>3. CASE task[t].data.key # NoKey
    <2>1. TimerRuns' <=> TimerRuns
      BY Zenon DEF EnsureKey, TimerRuns
    <2>2. /\ OnlyTask(t) /\ TaskKnown(task'[t])
          /\ t \in Reloads => /\ task'[t].pc = "assign" /\ task'[t].data = task[t].data
                              /\ (Stale(task'[t]) <=> Stale(task[t]))
      <3>1. CASE t \in Reloads
        BY <1>0, <1>3, <3>1, TaskMoves DEF EnsureKey
      <3>2. CASE t \notin Reloads
        BY <1>0, <1>3, <3>2, TaskEnds DEF EnsureKey
      <3>. QED  BY <3>1, <3>2
    <2>3. ConfigShape'
      BY <1>0, <1>1, <2>2, ShapeKept
    <2>4. Settled'
      BY <1>0, <2>1, <2>2, LoadGoesOn DEF HasRead, ToAssign
    <2>. QED  BY <2>3, <2>4 DEF ConfigInv
  <1>. QED  BY <1>2, <1>3

(* A reload that cannot read the file is noted.                             *)
LEMMA LoadFailsStep ==
    ASSUME ConfigInv, NEW r \in Reloads, LoadFails(r)
    PROVE  ConfigInv'
  <1>0. ConfigShape /\ r \in Tasks /\ UNCHANGED <<file, shared>>
    BY DEF ConfigInv, Tasks, Loads, LoadFails
  <1>1. SharedKnown' /\ FileKnown'
    BY <1>0 DEF ConfigShape, SharedKnown, FileKnown
  <1>2. ~Calm'
    BY ChangeIsNoticed DEF LoadFails
  <1>3. ConfigShape'
    BY <1>0, <1>1, TaskEnds, ShapeKept DEF LoadFails
  <1>. QED  BY <1>2, <1>3 DEF ConfigInv, Settled

(* The stages that a reload has not passed yet, where one is newer.         *)
LEMMA NotOvertaken ==
    ASSUME NEW t, NEW stages, Remark("overtaken", Overtakes(t, stages)), Calm', notes \subseteq notes',
           ~TimerRuns, Stale(task[t])
    PROVE  \E r \in Reloads : Newer(r, stages)
  <1>1. ~Overtakes(t, stages)
    BY DEF Remark, Calm
  <1>2. PICK r \in Reloads : task[r].pc \in stages /\ ~task[r].old
    BY <1>1, Zenon DEF Overtakes, Stale, TimerRuns
  <1>. QED  BY <1>2, Zenon DEF Newer, Stale

(* The callback takes over what it read, and it is the file's or an older   *)
(* one that a newer reload will replace.                                    *)
LEMMA AssignStep ==
    ASSUME ConfigInv, NEW r \in Reloads, ReloadAssigns(r)
    PROVE  ConfigInv'
  <1>0. ConfigShape /\ Settled /\ r \in Tasks /\ r \notin Updates
    BY ConfigAssumption DEF ConfigInv, Tasks, Loads, ConfigAssumption
  <1>1. /\ OnlyTask(r) /\ TaskKnown(task'[r]) /\ task'[r].pc = "apply"
        /\ (Stale(task'[r]) <=> Stale(task[r]))
    BY <1>0, TaskMoves DEF ReloadAssigns
  <1>2. SharedKnown' /\ FileKnown' /\ shared'.sec = task[r].data.sec
    BY <1>0 DEF ReloadAssigns, ConfigShape, SharedKnown, FileKnown, TaskKnown
  <1>3. ConfigShape'
    BY <1>0, <1>1, <1>2, ShapeKept
  <1>4. task[r].pc = "assign" /\ UNCHANGED <<file, given>> /\ notes \subseteq notes'
    BY DEF ReloadAssigns, TaskAt, Remark
  <1>5. TimerRuns' <=> TimerRuns
    BY Zenon DEF ReloadAssigns, TimerRuns
  <1>6. Calm' => Calm
    BY <1>1, <1>4, <1>5 DEF Calm, OnlyTask
  <1>7. \A u \in Updates : task'[u] = task[u]
    BY <1>0, <1>1 DEF OnlyTask, Tasks
  <1>. SUFFICES ASSUME Calm' PROVE Settled'
    BY <1>3 DEF ConfigInv, Settled
  <1>8. \A t \in Reloads : Newer(t, HasRead)' => Newer(t, HasRead) /\ task'[t] = task[t]
    BY <1>1, <1>4 DEF Newer, HasRead, OnlyTask, Tasks, Loads
  <1>9. CASE Stale(task[r])
    <2>1. \E t \in Reloads : Newer(t, {"load", "open", "write", "key", "assign"})
      BY <1>4, <1>6, <1>9, NotOvertaken DEF ReloadAssigns, Calm
    <2>2. PICK t \in Reloads : Newer(t, ToAssign)
      BY <1>6, <2>1 DEF Calm, Newer, Tasks, Loads, ToAssign, HasRead
    <2>3. t # r
      BY <1>9, <2>2 DEF Newer
    <2>4. Newer(t, ToAssign)' /\ Newer(t, ToApply)'
      BY <1>1, <2>2, <2>3 DEF Newer, OnlyTask, Tasks, Loads, ToApply
    <2>. QED  BY <1>0, <1>4, <1>6, <1>7, <1>8, <2>4 DEF Settled
  <1>10. CASE ~Stale(task[r])
    <2>1. shared'.sec = Corrected[file'.sec]
      BY <1>0, <1>2, <1>4, <1>6, <1>10 DEF Settled, Newer, HasRead
    <2>2. Newer(r, ToApply)'
      BY <1>1, <1>10 DEF Newer, ToApply
    <2>. QED  BY <1>0, <1>4, <1>6, <1>7, <1>8, <2>1, <2>2 DEF Settled
  <1>. QED  BY <1>9, <1>10

(* UpdateConfig applies the file's settings, or older ones that a newer     *)
(* reload will replace.                                                     *)
LEMMA ApplyStep ==
    ASSUME ConfigInv, NEW t \in Updates \cup Reloads, UpdateConfig(t)
    PROVE  ConfigInv'
  <1>0. /\ ConfigShape /\ Settled /\ t \in Tasks /\ Reloads \subseteq Tasks
        /\ Updates \subseteq Tasks /\ Updates \cap Reloads = {}
    BY ConfigAssumption DEF ConfigInv, Tasks, Loads, ConfigAssumption
  <1>1. OnlyTask(t) /\ TaskKnown(task'[t]) /\ task'[t].pc = "idle"
    BY <1>0, TaskEnds DEF UpdateConfig
  <1>2. /\ UNCHANGED <<file, shared>> /\ notes \subseteq notes' /\ task[t].pc = "apply"
        /\ t \notin Updates => given' = shared.sec
    BY DEF UpdateConfig, Remark, TaskAt
  <1>3. ConfigShape'
    <2>1. SharedKnown' /\ FileKnown'
      BY <1>0, <1>2 DEF ConfigShape, SharedKnown, FileKnown
    <2>. QED  BY <1>0, <1>1, <2>1, ShapeKept
  <1>4. TimerRuns' <=> TimerRuns
    BY Zenon DEF UpdateConfig, TimerRuns
  <1>5. Calm' => Calm
    BY <1>1, <1>2, <1>4 DEF Calm, OnlyTask
  <1>. SUFFICES ASSUME Calm' PROVE Settled'
    BY <1>3 DEF ConfigInv, Settled
  <1>6. \A u \in Updates : task'[u].pc # "idle" => Stale(task'[u])
    BY <1>0, <1>1, <1>5 DEF OnlyTask, Settled
  <1>7. \A r \in Reloads : /\ Newer(r, HasRead)' => Newer(r, HasRead) /\ task'[r] = task[r]
                           /\ Newer(r, ToAssign) => Newer(r, ToAssign)'
                           /\ r # t /\ Newer(r, ToApply) => Newer(r, ToApply)'
    BY <1>0, <1>1, <1>2 DEF Newer, OnlyTask, HasRead, ToAssign, ToApply
  <1>10. (\A r \in Reloads : ~Newer(r, ToAssign)') => shared'.sec = Corrected[file'.sec]
    BY <1>0, <1>2, <1>5, <1>7 DEF Settled
  <1>11. \A r \in Reloads : Newer(r, HasRead)' => task'[r].data.sec = Corrected[file'.sec]
    BY <1>0, <1>2, <1>5, <1>7 DEF Settled
  <1>8. CASE Stale(task[t])
    <2>1. \E r \in Reloads : Newer(r, {"load", "open", "write", "key", "assign", "apply"})
      BY <1>2, <1>5, <1>8, NotOvertaken DEF UpdateConfig, Calm
    <2>2. PICK r \in Reloads : Newer(r, ToApply)
      BY <1>0, <1>5, <2>1 DEF Calm, Newer, ToApply, ToAssign, HasRead
    <2>3. r # t
      BY <1>8, <2>2 DEF Newer
    <2>4. Newer(r, ToApply)'
      BY <1>7, <2>2, <2>3
    <2>. QED  BY <1>6, <1>10, <1>11, <2>4 DEF Settled
  <1>9. CASE ~Stale(task[t])
    <2>1. t \in Reloads /\ given' = shared.sec
      BY <1>0, <1>2, <1>5, <1>9 DEF Settled
    <2>2. ASSUME \A r \in Reloads : ~Newer(r, ToApply)' PROVE given' = Corrected[file'.sec]
      <3>1. \A r \in Reloads : ~Newer(r, ToAssign)'
        BY <2>2 DEF Newer, ToApply
      <3>. QED  BY <1>2, <1>10, <2>1, <3>1
    <2>. QED  BY <1>6, <1>10, <1>11, <2>2 DEF Settled
  <1>. QED  BY <1>8, <1>9

(* Nothing is under way when the server starts.                             *)
LEMMA AllIdle ==
    ASSUME NEW v, v = [t \in Tasks |-> NoTask]
    PROVE  /\ DOMAIN v = Tasks /\ v = [t \in Tasks |-> v[t]]
           /\ \A t \in Tasks : TaskKnown(v[t]) /\ v[t].pc = "idle"
  <1>1. PICK d, x : NoTask = Task("idle", Default, d, x) /\ d.sec \in Settings
    BY IdleTask
  <1>2. TaskKnown(NoTask) /\ NoTask.pc = "idle"
    BY <1>1, TaskFields DEF TaskKnown
  <1>. QED  BY <1>2

(* The invariant holds before the server starts.                            *)
LEMMA ConfigStart == ConfigInit => ConfigInv
  <1>. SUFFICES ASSUME ConfigInit PROVE ConfigInv
    OBVIOUS
  <1>1. /\ DOMAIN task = Tasks /\ task = [t \in Tasks |-> task[t]]
        /\ \A t \in Tasks : TaskKnown(task[t]) /\ task[t].pc = "idle"
    BY AllIdle DEF ConfigInit
  <1>2. PICK s \in Settings : /\ file = Text([sec |-> s, key |-> 1])
                              /\ shared = [sec |-> Corrected[s], key |-> 1]
    BY DEF ConfigInit
  <1>3. /\ FileKnown /\ SharedKnown
        /\ file.sec = s /\ shared.sec = Corrected[s]
    BY <1>2, Corrects DEF FileKnown, SharedKnown, Text
  <1>4. given = shared.sec
    BY DEF ConfigInit
  <1>5. Settled
    BY <1>1, <1>3, <1>4 DEF Settled, Newer, Tasks, Loads, HasRead
  <1>. QED  BY <1>1, <1>3, <1>5 DEF ConfigInv, ConfigShape

(* What the process holds after a restart.                                  *)
LEMMA RestartStep ==
    ASSUME ConfigInv, NEW c, c = [sec |-> c.sec, key |-> c.key], c.sec \in Settings, Restart(c),
           FileKnown', ~Calm' \/ c.sec = Corrected[file'.sec]
    PROVE  ConfigInv'
  <1>1. /\ DOMAIN task' = Tasks /\ task' = [t \in Tasks |-> task'[t]]
        /\ \A t \in Tasks : TaskKnown(task'[t]) /\ task'[t].pc = "idle"
    BY AllIdle DEF Restart
  <1>2. SharedKnown' /\ shared'.sec = c.sec /\ given' = c.sec
    BY DEF Restart, SharedKnown
  <1>3. Settled'
    BY <1>1, <1>2 DEF Settled, Newer, Tasks, Loads, HasRead
  <1>. QED  BY <1>1, <1>2, <1>3 DEF ConfigInv, ConfigShape

(* A restart: LoadConfig reads the file, corrects it, saves where it has    *)
(* to, and the services get what it returns.                                *)
LEMMA BootStep ==
    ASSUME ConfigInv, Boot \/ BootUnread
    PROVE  ConfigInv'
  <1>0. FileKnown /\ Default \in Settings /\ Corrected[Default] = Default
    BY ConfigAssumption DEF ConfigInv, ConfigShape, ConfigAssumption
  <1>1. CASE BootUnread
    <2>. DEFINE c == [sec |-> Default, key |-> NoKey]
    <2>1. Restart(c) /\ ~Calm' /\ FileKnown'
      BY <1>0, <1>1, ChangeIsNoticed DEF BootUnread, FileKnown
    <2>2. c = [sec |-> c.sec, key |-> c.key] /\ c.sec \in Settings
      BY <1>0
    <2>. HIDE DEF c
    <2>. QED  BY <2>1, <2>2, RestartStep
  <1>2. CASE Boot
    <2>1. PICK sec, key, c : /\ sec = (IF Missing THEN Default ELSE Corrected[file.sec])
                             /\ c = [sec |-> sec, key |-> key]
                             /\ Restart(c)
                             /\ \/ file' = Text(c)
                                \/ file' \in {file, Empty} /\ Remark("failure", TRUE)
                                \/ ~Missing /\ file' = file
      <3>1. PICK new, sec : /\ new = (Missing \/ file.key = NoKey)
                            /\ sec = (IF Missing THEN Default ELSE Corrected[file.sec])
        OBVIOUS
      <3>2. PICK key : key = (IF new THEN keys + 1 ELSE file.key)
        OBVIOUS
      <3>3. PICK c : c = [sec |-> sec, key |-> key]
        OBVIOUS
      <3>4. /\ Restart(c)
            /\ IF new \/ file.port = "invalid"
               THEN \/ file' = Text(c) /\ UNCHANGED notes
                    \/ file' \in {file, Empty} /\ Remark("failure", TRUE)
               ELSE UNCHANGED <<file, notes>>
        BY <1>2, <3>1, <3>2, <3>3, Zenon DEF Boot
      <3>5. ~new => ~Missing
        BY <3>1
      <3>. QED  BY <3>1, <3>3, <3>4, <3>5
    <2>2. /\ sec \in Settings /\ Corrected[sec] = sec
          /\ ~Missing => sec = Corrected[file.sec]
      BY <1>0, <2>1, Corrects DEF FileKnown
    <2>3. c = [sec |-> c.sec, key |-> c.key] /\ c.sec = sec
      BY <2>1
    <2>4. CASE file' = Text(c)
      <3>1. FileKnown' /\ file'.sec = sec
        BY <2>2, <2>3, <2>4 DEF Text, FileKnown
      <3>. QED  BY <2>1, <2>2, <2>3, <3>1, RestartStep
    <2>5. CASE file' \in {file, Empty} /\ Remark("failure", TRUE)
      <3>1. FileKnown' /\ ~Calm'
        BY <1>0, <2>5, TextKnown, ChangeIsNoticed DEF FileKnown
      <3>. QED  BY <2>1, <2>2, <2>3, <3>1, RestartStep
    <2>6. CASE ~Missing /\ file' = file
      <3>1. FileKnown' /\ sec = Corrected[file'.sec]
        BY <1>0, <2>2, <2>6 DEF FileKnown
      <3>. QED  BY <2>1, <2>2, <2>3, <3>1, RestartStep
    <2>. QED  BY <2>1, <2>4, <2>5, <2>6
  <1>. QED  BY <1>1, <1>2

(* An edit of the operator starts the watcher's timer.                      *)
LEMMA EditStep ==
    ASSUME ConfigInv, EditBadly \/ \E s \in Settings, p \in {"valid", "invalid"} : EditFile(s, p)
    PROVE  ConfigInv'
  <1>1. ~Calm'
    BY ChangeIsNoticed DEF EditBadly, EditFile
  <1>2. FileKnown /\ UNCHANGED <<shared, task>>
    BY DEF ConfigInv, ConfigShape, EditBadly, EditFile
  <1>3. FileKnown'
    <2>1. CASE EditBadly
      BY <2>1, TextKnown DEF EditBadly, Changed, FileKnown
    <2>2. ASSUME NEW s \in Settings, NEW p \in {"valid", "invalid"}, EditFile(s, p) PROVE FileKnown'
      BY <1>2, <2>2 DEF EditFile, Changed, FileKnown
    <2>. QED  BY <2>1, <2>2
  <1>4. ConfigShape'
    BY <1>2, <1>3 DEF ConfigInv, ConfigShape, SharedKnown
  <1>. QED  BY <1>1, <1>4 DEF ConfigInv, Settled

(* The invariant speaks of these only.                                      *)
LEMMA ConfigSame ==
    ASSUME ConfigInv, UNCHANGED <<shared, given, task>>, FileKnown', file'.sec = file.sec,
           Calm' => Calm
    PROVE  ConfigInv'
  BY DEF ConfigInv, ConfigShape, SharedKnown, Settled, Newer

(* Deleting the file goes unnoticed and changes nothing else.               *)
LEMMA DeleteStep ==
    ASSUME ConfigInv, RemoveFile
    PROVE  ConfigInv'
  <1>1. FileKnown' /\ file'.sec = file.sec
    BY DEF ConfigInv, ConfigShape, FileKnown, RemoveFile
  <1>2. TimerRuns' <=> TimerRuns
    BY Zenon DEF RemoveFile, TimerRuns
  <1>3. notes \subseteq notes' /\ UNCHANGED <<shared, given, task>>
    BY DEF RemoveFile, Remark
  <1>4. Calm' => Calm
    BY <1>2, <1>3 DEF Calm
  <1>. QED  BY <1>1, <1>3, <1>4, ConfigSame

(* The invariant of server.yml and its copies holds in every reachable      *)
(* state, for any number of overlapping reloads, settings requests and      *)
(* other callers of LoadConfig, and whatever values it corrects.            *)
THEOREM ConfigInductive == ConfigSpec => []ConfigInv
  <1>1. ConfigInv /\ [ConfigNext]_configVars => ConfigInv'
    <2>. SUFFICES ASSUME ConfigInv, [ConfigNext]_configVars PROVE ConfigInv'
      OBVIOUS
    <2>1. CASE UNCHANGED configVars
      <3>1. UNCHANGED <<file, shared, given, task, notes>>
        BY <2>1 DEF configVars
      <3>2. TimerRuns' <=> TimerRuns
        BY <2>1, Zenon DEF configVars, TimerRuns
      <3>3. FileKnown' /\ file'.sec = file.sec /\ (Calm' => Calm)
        BY <3>1, <3>2 DEF ConfigInv, ConfigShape, FileKnown, Calm
      <3>. QED  BY <3>1, <3>3, ConfigSame
    <2>2. CASE ConfigNext
      <3>1. /\ Updates \subseteq Tasks /\ Loads \subseteq Tasks /\ Reloads \subseteq Tasks
            /\ Accepted \subseteq Settings
        BY ConfigAssumption DEF Tasks, Loads, ConfigAssumption
      <3>2. ASSUME NEW u \in Updates, UpdateStep(u) \/ \E s \in Accepted : UpdateI2PConfig(u, s)
            PROVE  ConfigInv'
        BY <3>1, <3>2, SavesStep, UpdateStarts, ApplyStep DEF UpdateStep
      <3>3. ASSUME NEW t \in Loads, LoadConfigStep(t) PROVE ConfigInv'
        BY <3>1, <3>3, SavesStep, LoadStep, KeyStep DEF LoadConfigStep
      <3>4. ASSUME NEW r \in Reloads,
                   TimerFires(r) \/ LoadFails(r) \/ ReloadAssigns(r) \/ UpdateConfig(r)
            PROVE  ConfigInv'
        BY <3>1, <3>4, TimerStep, LoadFailsStep, AssignStep, ApplyStep
      <3>. QED  BY <2>2, <3>2, <3>3, <3>4, BootStep, EditStep, DeleteStep DEF ConfigNext
    <2>. QED  BY <2>1, <2>2
  <1>. QED  BY <1>1, ConfigStart, PTL DEF ConfigSpec

(* When everything is done, the settings that the server holds and those it *)
(* handed to the services are what LoadConfig makes of the file, unless a   *)
(* reload was overtaken by an older one or failed (ConfigWatcher.reload).   *)
THEOREM ConfigRestsOnFile == ConfigSpec => []RestsOnFile
  <1>1. ConfigInv => RestsOnFile
    <2>. SUFFICES ASSUME Settled, ~debounce, \A t \in Tasks : TaskAt(t, "idle"),
                         notes \cap {"overtaken", "failure"} = {}
                  PROVE  shared.sec = Corrected[file.sec] /\ given = shared.sec
      BY Zenon DEF ConfigInv, RestsOnFile
    <2>1. ~TimerRuns
      BY Zenon DEF TimerRuns
    <2>2. Calm
      BY <2>1 DEF Calm, TaskAt
    <2>. QED  BY <2>2 DEF Settled, Newer, TaskAt, Tasks, Loads, ToAssign, ToApply, HasRead
  <1>. QED  BY <1>1, ConfigInductive, PTL

-----------------------------------------------------------------------------
(***************************************************************************)
(* Backup, for every retention policy, every set of earlier archives, every *)
(* length of a day and all bounds. At every moment some archive is safe:    *)
(* complete, out of the hands of its writer, and later than all that any    *)
(* sweep has on its list; and what the latest sweep has not deleted yet is  *)
(* all that exceeds the limits.                                             *)
(***************************************************************************)
(* What comes before f in a strict total order R of S.                      *)
Before(S, R, f) == {g \in S : <<g, f>> \in R}
Ordered(S, R) ==
    /\ \A f \in S : <<f, f>> \notin R
    /\ \A f, g, h \in S : <<f, g>> \in R /\ <<g, h>> \in R => <<f, h>> \in R
    /\ \A f, g \in S : f # g => <<f, g>> \in R \/ <<g, f>> \in R

(* Less comes before an element than before a later one.                    *)
LEMMA BeforeGrows ==
    ASSUME NEW S, NEW R, Ordered(S, R), NEW f \in S, NEW g \in S, <<f, g>> \in R
    PROVE  /\ Before(S, R, f) \subseteq Before(S, R, g)
           /\ f \in Before(S, R, g) /\ f \notin Before(S, R, f)
  BY DEF Ordered, Before

(* So later elements have larger ranks,                                     *)
LEMMA RankGrows ==
    ASSUME NEW S, NEW R, IsFiniteSet(S), Ordered(S, R), NEW f \in S, NEW g \in S, <<f, g>> \in R
    PROVE  Cardinality(Before(S, R, f)) < Cardinality(Before(S, R, g))
  <1>. DEFINE A == Before(S, R, f)
              B == Before(S, R, g)
  <1>1. A \subseteq B /\ A # B
    BY BeforeGrows
  <1>2. B \subseteq S
    BY DEF Before
  <1>. HIDE DEF A, B
  <1>3. IsFiniteSet(B)
    BY <1>2, FS_Subset
  <1>4. IsFiniteSet(A) /\ Cardinality(A) <= Cardinality(B) /\ Cardinality(A) # Cardinality(B)
    BY <1>1, <1>3, FS_Subset
  <1>5. Cardinality(A) \in Nat /\ Cardinality(B) \in Nat
    BY <1>3, <1>4, FS_CardinalityType
  <1>6. Cardinality(A) < Cardinality(B)
    BY <1>4, <1>5
  <1>. QED  BY <1>6 DEF A, B

(* every rank is smaller than the size of the set,                          *)
LEMMA RankRange ==
    ASSUME NEW S, NEW R, IsFiniteSet(S), Ordered(S, R), NEW f \in S
    PROVE  /\ Cardinality(Before(S, R, f)) \in Nat /\ Cardinality(S) \in Nat
           /\ Cardinality(Before(S, R, f)) < Cardinality(S)
  <1>. DEFINE A == Before(S, R, f)
  <1>1. A \subseteq S /\ A # S
    BY DEF Before, Ordered
  <1>. HIDE DEF A
  <1>2. IsFiniteSet(A) /\ Cardinality(A) <= Cardinality(S) /\ Cardinality(A) # Cardinality(S)
    BY <1>1, FS_Subset
  <1>3. Cardinality(A) \in Nat /\ Cardinality(S) \in Nat
    BY <1>2, FS_CardinalityType
  <1>4. Cardinality(A) < Cardinality(S)
    BY <1>2, <1>3
  <1>. QED  BY <1>3, <1>4 DEF A

(* there are no more elements than ranks,                                   *)
LEMMA FewRanks ==
    ASSUME NEW S, NEW R, IsFiniteSet(S), Ordered(S, R), NEW T \in SUBSET S,
           NEW a \in Int, NEW b \in Int, b >= a - 1,
           \A f \in T : Cardinality(Before(S, R, f)) \in a..b
    PROVE  IsFiniteSet(T) /\ Cardinality(T) <= b - a + 1
  <1>. DEFINE rank == [f \in T |-> Cardinality(Before(S, R, f))]
  <1>1. \A f, g \in T : f # g => Cardinality(Before(S, R, f)) # Cardinality(Before(S, R, g))
    <2>. SUFFICES ASSUME NEW f \in T, NEW g \in T, f # g
                  PROVE  Cardinality(Before(S, R, f)) # Cardinality(Before(S, R, g))
      OBVIOUS
    <2>1. <<f, g>> \in R \/ <<g, f>> \in R
      BY DEF Ordered
    <2>2. Cardinality(Before(S, R, f)) \in Nat /\ Cardinality(Before(S, R, g)) \in Nat
      BY RankRange
    <2>. QED  BY <2>1, <2>2, RankGrows
  <1>2. rank \in Injection(T, a..b)
    BY <1>1 DEF Injection, IsInjective
  <1>. HIDE DEF rank
  <1>3. IsFiniteSet(a..b) /\ Cardinality(a..b) = b - a + 1
    BY FS_Interval
  <1>4. IsFiniteSet(T) /\ Cardinality(T) <= Cardinality(a..b)
    BY <1>2, <1>3, FS_Injection
  <1>. QED  BY <1>3, <1>4

(* and every finite set that is not empty has a first element.              *)
LEMMA First ==
    ASSUME NEW S, NEW R, IsFiniteSet(S), Ordered(S, R), S # {}
    PROVE  \E f \in S : \A g \in S \ {f} : <<f, g>> \in R
  <1>. DEFINE T == {Before(S, R, f) : f \in S}
  <1>1. T # {} /\ T \subseteq SUBSET S
    BY DEF Before
  <1>2. T \subseteq FiniteSubsetsOf(S)
    BY <1>1, FS_FiniteSubsetsOfFinite
  <1>3. IsWellFoundedOn(StrictSubsetOrdering(S), FiniteSubsetsOf(S))
    BY FS_StrictSubsetOrderingWellFounded
  <1>. HIDE DEF T
  <1>4. PICK x \in T : \A y \in T : ~(<<y, x>> \in StrictSubsetOrdering(S))
    BY <1>1, <1>2, <1>3, WFMin
  <1>5. PICK f \in S : x = Before(S, R, f)
    BY DEF T
  <1>6. \A g \in S : <<g, f>> \notin R
    <2>. SUFFICES ASSUME NEW g \in S, <<g, f>> \in R PROVE FALSE
      OBVIOUS
    <2>1. Before(S, R, g) \subseteq x /\ Before(S, R, g) # x
      BY <1>5, BeforeGrows
    <2>2. Before(S, R, g) \in T
      BY DEF T
    <2>3. <<Before(S, R, g), x>> \in StrictSubsetOrdering(S)
      BY <1>1, <2>1, <2>2 DEF StrictSubsetOrdering
    <2>. QED  BY <1>4, <2>2, <2>3
  <1>. QED  BY <1>6 DEF Ordered

-----------------------------------------------------------------------------
(* Midnights.                                                               *)
LEMMA DayStarts ==
    ASSUME NEW t \in Nat
    PROVE  Day(t) \in Nat /\ Midnight(t) \in Nat /\ Day(Midnight(t)) = Day(t)
  <1>1. Hours \in Nat \ {0}
    BY BackupAssumption DEF BackupAssumption
  <1>2. Day(t) \in Nat
    BY <1>1 DEF Day
  <1>3. ASSUME NEW k \in Nat PROVE k * Hours \in Nat /\ (k * Hours) \div Hours = k
    BY <1>1
  <1>. QED  BY <1>2, <1>3 DEF Midnight, Day

(* A later instant is on the same day or a later one.                       *)
LEMMA LaterDay ==
    ASSUME NEW s \in Nat, NEW t \in Nat, s <= t
    PROVE  Midnight(s) <= Midnight(t)
  <1>1. Hours \in Nat \ {0}
    BY BackupAssumption DEF BackupAssumption
  <1>2. ASSUME NEW r \in Nat
        PROVE  r \div Hours \in Nat /\ (r \div Hours) * Hours <= r /\ r < (r \div Hours) * Hours + Hours
    BY <1>1
  <1>3. ASSUME NEW a \in Int, NEW b \in Int, a < b PROVE a * Hours + Hours <= b * Hours
    BY <1>1, <1>3
  <1>4. ASSUME NEW a \in Int, NEW b \in Int, a <= b PROVE a * Hours <= b * Hours
    BY <1>1, <1>4
  <1>5. Day(s) <= Day(t)
    <2>. DEFINE x == s \div Hours
                y == t \div Hours
    <2>1. x \in Int /\ y \in Int /\ x * Hours <= s /\ t < y * Hours + Hours
      BY <1>2
    <2>. HIDE DEF x, y
    <2>2. PICK p \in Int, q \in Int : p = x * Hours /\ q = y * Hours
      BY <1>1, <2>1
    <2>3. y < x => q + Hours <= p
      BY <1>3, <2>1, <2>2
    <2>4. x <= y
      BY <1>1, <2>1, <2>2, <2>3
    <2>. QED  BY <2>4 DEF x, y, Day
  <1>6. Day(s) \in Int /\ Day(t) \in Int
    BY DayStarts
  <1>. QED  BY <1>4, <1>5, <1>6 DEF Midnight

-----------------------------------------------------------------------------
(* The names an archive can have.                                           *)
Proper == {f \in Names : IsDated(f) \/ f.at = 0}
Policies == [daily : Int, weekly : Int, monthly : Int, yearly : Int, cap : Nat]
Times == [Incrementals -> Nat]

(* A name is its kind and its date.                                         *)
LEMMA NamesAre ==
    /\ \A f \in Names : f = [kind |-> f.kind, at |-> f.at] /\ f.at \in Nat
                       /\ f.kind \in {"dated", "daily", "hourly"}
    /\ \A f, g \in Names : f.kind = g.kind /\ f.at = g.at => f = g
  BY DEF Names, Incrementals

(* RetentionConfig.Normalize keeps at least one daily archive and leaves    *)
(* the cap alone.                                                           *)
LEMMA NormalPolicy ==
    ASSUME NEW r \in Policies
    PROVE  LET p == Normalize(r)
           IN  /\ p.daily \in Nat /\ p.daily >= 1 /\ p.weekly \in Nat /\ p.monthly \in Nat
               /\ p.yearly \in Nat /\ p.cap = r.cap
  BY DEF Normalize, Policies

(* The policy of each writer, whatever the settings say.                    *)
LEMMA PolicyIs ==
    ASSUME NEW w \in Writers
    PROVE  LET p == PolicyOf(w)
           IN  /\ p.daily \in Nat /\ p.daily >= 1 /\ p.weekly \in Nat /\ p.monthly \in Nat
               /\ p.yearly \in Nat /\ p.cap \in Nat /\ p.cap \in {Retention.cap, DefaultCap}
  <1>1. DefaultRetention \in Policies /\ Retention \in Policies /\ DefaultRetention.cap = DefaultCap
    BY BackupAssumption DEF BackupAssumption, DefaultRetention, Policies
  <1>2. Retention.cap \in Nat /\ DefaultCap \in Nat
    BY BackupAssumption DEF BackupAssumption
  <1>. QED  BY <1>1, <1>2, NormalPolicy DEF PolicyOf

(* The dated archives in the order of their dates, latest first.            *)
ByDate(S) == {p \in S \X S : p[1].at > p[2].at}
(* No two dated archives have the same date, so the dates order them.       *)
LEMMA DatesOrder ==
    ASSUME NEW S \in SUBSET DatedIn(Names)
    PROVE  /\ Ordered(S, ByDate(S))
           /\ \A f \in S : Before(S, ByDate(S), f) = {g \in S : g.at > f.at}
  <1>1. \A f \in S : f.at \in Nat
    BY NamesAre DEF DatedIn
  <1>2. \A f, g \in S : f.at = g.at => f = g
    BY NamesAre DEF DatedIn, IsDated
  <1>3. \A f, g \in S : <<f, g>> \in ByDate(S) <=> f.at > g.at
    BY DEF ByDate
  <1>. QED  BY <1>1, <1>2, <1>3 DEF Ordered, Before

(* keepNewest keeps at most n ...                                           *)
LEMMA NewestFew ==
    ASSUME NEW S \in SUBSET DatedIn(Names), IsFiniteSet(S), NEW n \in Nat
    PROVE  /\ Newest(S, n) \subseteq S /\ IsFiniteSet(Newest(S, n))
           /\ Cardinality(Newest(S, n)) <= n /\ Cardinality(Newest(S, n)) \in Nat
  <1>. DEFINE T == Newest(S, n)
              R == ByDate(S)
  <1>1. Ordered(S, R) /\ \A f \in S : Before(S, R, f) = {g \in S : g.at > f.at}
    BY DatesOrder
  <1>2. T \subseteq S
    BY DEF Newest
  <1>3. \A f \in T : Cardinality(Before(S, R, f)) < n
    BY <1>1 DEF Newest
  <1>. HIDE DEF T, R
  <1>4. \A f \in T : Cardinality(Before(S, R, f)) \in 0..n - 1
    BY <1>1, <1>2, <1>3, RankRange
  <1>5. IsFiniteSet(T) /\ Cardinality(T) <= (n - 1) - 0 + 1
    BY <1>1, <1>2, <1>4, FewRanks
  <1>6. Cardinality(T) \in Nat
    BY <1>5, FS_CardinalityType
  <1>7. Cardinality(T) <= n
    BY <1>5, <1>6
  <1>. QED  BY <1>2, <1>5, <1>6, <1>7 DEF T

(* ... among them the latest.                                               *)
LEMMA NewestKept ==
    ASSUME NEW S \in SUBSET DatedIn(Names), IsFiniteSet(S), S # {}, NEW n \in Nat, n >= 1
    PROVE  \E f \in Newest(S, n) : \A g \in S \ {f} : g.at < f.at
  <1>. DEFINE R == ByDate(S)
  <1>1. Ordered(S, R) /\ \A f \in S : Before(S, R, f) = {g \in S : g.at > f.at}
    BY DatesOrder
  <1>2. PICK f \in S : \A g \in S \ {f} : <<f, g>> \in R
    BY <1>1, First
  <1>3. \A g \in S \ {f} : f.at > g.at
    BY <1>2 DEF ByDate
  <1>4. \A g \in S : g.at \in Nat
    BY NamesAre DEF DatedIn
  <1>5. {g \in S : g.at > f.at} = {}
    BY <1>3, <1>4
  <1>6. Cardinality({}) = 0
    BY FS_EmptySet
  <1>7. f \in Newest(S, n)
    BY <1>5, <1>6 DEF Newest
  <1>. QED  BY <1>3, <1>4, <1>7

(* Two tiers keep at most what each keeps.                                  *)
LEMMA UnionBound ==
    ASSUME NEW S, NEW T, NEW m \in Nat, NEW n \in Nat, IsFiniteSet(S), IsFiniteSet(T),
           Cardinality(S) <= m, Cardinality(T) <= n
    PROVE  IsFiniteSet(S \cup T) /\ Cardinality(S \cup T) <= m + n
  <1>1. /\ IsFiniteSet(S \cup T)
        /\ Cardinality(S \cup T) = Cardinality(S) + Cardinality(T) - Cardinality(S \cap T)
    BY FS_Union
  <1>2. IsFiniteSet(S \cap T)
    BY FS_Intersection
  <1>3. Cardinality(S) \in Nat /\ Cardinality(T) \in Nat /\ Cardinality(S \cap T) \in Nat
    BY <1>2, FS_CardinalityType
  <1>. QED  BY <1>1, <1>3

(* The tiers keep no more than they add up to, and the latest.              *)
LEMMA KeepIs ==
    ASSUME NEW S \in SUBSET DatedIn(Names), IsFiniteSet(S), NEW w \in Writers
    PROVE  /\ Keep(S, PolicyOf(w)) \subseteq S
           /\ IsFiniteSet(Keep(S, PolicyOf(w)))
           /\ Cardinality(Keep(S, PolicyOf(w))) <= Limit(PolicyOf(w))
           /\ S # {} => \E f \in Keep(S, PolicyOf(w)) : \A g \in S \ {f} : g.at < f.at
  <1>. DEFINE p == PolicyOf(w)
  <1>1. p.daily \in Nat /\ p.daily >= 1 /\ p.weekly \in Nat /\ p.monthly \in Nat /\ p.yearly \in Nat
    BY PolicyIs
  <1>. HIDE DEF p
  <1>2. ASSUME NEW days
        PROVE  On(days, S) \subseteq S /\ On(days, S) \in SUBSET DatedIn(Names) /\ IsFiniteSet(On(days, S))
    <2>1. On(days, S) \subseteq S
      BY DEF On
    <2>2. IsFiniteSet(On(days, S))
      BY <2>1, FS_Subset
    <2>. QED  BY <2>1, <2>2
  <1>3. ASSUME NEW days, NEW n \in Nat
        PROVE  /\ Newest(On(days, S), n) \subseteq S /\ IsFiniteSet(Newest(On(days, S), n))
               /\ Cardinality(Newest(On(days, S), n)) <= n
    <2>. DEFINE U == On(days, S)
    <2>1. U \subseteq S /\ U \in SUBSET DatedIn(Names) /\ IsFiniteSet(U)
      BY <1>2
    <2>. HIDE DEF U
    <2>2. Newest(U, n) \subseteq U /\ IsFiniteSet(Newest(U, n)) /\ Cardinality(Newest(U, n)) <= n
      BY <2>1, NewestFew
    <2>3. Newest(U, n) \subseteq S
      BY <2>1, <2>2
    <2>. QED  BY <2>2, <2>3 DEF U
  <1>. DEFINE A == Newest(On(NewYears, S), p.yearly)
              B == Newest(On(Firsts, S), p.monthly)
              C == Newest(On(Sundays, S), p.weekly)
              D == Newest(S, p.daily)
  <1>4. /\ A \subseteq S /\ IsFiniteSet(A) /\ Cardinality(A) <= p.yearly
        /\ B \subseteq S /\ IsFiniteSet(B) /\ Cardinality(B) <= p.monthly
        /\ C \subseteq S /\ IsFiniteSet(C) /\ Cardinality(C) <= p.weekly
    BY <1>1, <1>3
  <1>5. D \subseteq S /\ IsFiniteSet(D) /\ Cardinality(D) <= p.daily
    BY <1>1, NewestFew
  <1>6. S # {} => \E f \in D : \A g \in S \ {f} : g.at < f.at
    BY <1>1, NewestKept
  <1>7. Keep(S, p) = A \cup B \cup C \cup D
    BY DEF Keep
  <1>. HIDE DEF A, B, C, D
  <1>e. PICK AB, ABC : AB = A \cup B /\ ABC = AB \cup C
    OBVIOUS
  <1>f. PICK m \in Nat, n \in Nat : m = p.yearly + p.monthly /\ n = m + p.weekly
    BY <1>1
  <1>8. IsFiniteSet(AB) /\ Cardinality(AB) <= m
    BY <1>1, <1>4, <1>e, <1>f, UnionBound
  <1>9. IsFiniteSet(ABC) /\ Cardinality(ABC) <= n
    BY <1>1, <1>4, <1>e, <1>f, <1>8, UnionBound
  <1>10. /\ IsFiniteSet(ABC \cup D) /\ Cardinality(ABC \cup D) <= n + p.daily
         /\ ABC \cup D = A \cup B \cup C \cup D /\ n + p.daily = p.yearly + p.monthly + p.weekly + p.daily
    BY <1>1, <1>5, <1>e, <1>f, <1>9, UnionBound
  <1>11. p.yearly + p.monthly + p.weekly + p.daily = Limit(p)
    BY <1>1 DEF Limit
  <1>12. Keep(S, p) \subseteq S
    BY <1>4, <1>5, <1>7
  <1>13. S # {} => \E f \in Keep(S, p) : \A g \in S \ {f} : g.at < f.at
    BY <1>6, <1>7
  <1>. QED  BY <1>7, <1>10, <1>11, <1>12, <1>13 DEF p

-----------------------------------------------------------------------------
(* The order of the size-cap pass is a strict total order.                  *)
LEMMA DateIs ==
    ASSUME NEW times \in Times, NEW f \in Names
    PROVE  Date(f, times) \in Nat
  <1>1. f.at \in Nat /\ f.kind \in {"dated", "daily", "hourly"}
    BY NamesAre
  <1>2. IsDated(f) => Midnight(f.at) \in Nat
    BY <1>1, DayStarts
  <1>3. ~IsDated(f) => times[f.kind] \in Nat
    BY <1>1 DEF Times, Incrementals, IsDated
  <1>. QED  BY <1>2, <1>3 DEF Date

ByAge(S, times) == {p \in S \X S : Older(p[1], p[2], times)}
(* No two archives are equally old for the size-cap pass.                   *)
LEMMA AgesOrder ==
    ASSUME NEW times \in Times, NEW S \in SUBSET Proper
    PROVE  /\ Ordered(S, ByAge(S, times))
           /\ \A f, g \in S : <<f, g>> \in ByAge(S, times) <=> Older(f, g, times)
           /\ \A f \in S : Before(S, ByAge(S, times), f) = {g \in S : Older(g, f, times)}
  <1>1. \A f, g \in S : <<f, g>> \in ByAge(S, times) <=> Older(f, g, times)
    BY DEF ByAge
  <1>2. \A f \in S : /\ Date(f, times) \in Nat /\ f.at \in Nat
                     /\ f.kind \in {"dated", "daily", "hourly"} /\ f \in Names
                     /\ (IsDated(f) \/ f.at = 0)
    BY DateIs, NamesAre DEF Proper
  <1>3. \A f \in S : ~Older(f, f, times)
    BY <1>2 DEF Older, IsDated
  <1>4. ASSUME NEW f \in S, NEW g \in S, NEW h \in S, Older(f, g, times), Older(g, h, times)
        PROVE  Older(f, h, times)
    BY <1>2, <1>4 DEF Older, IsDated
  <1>5. ASSUME NEW f \in S, NEW g \in S, f # g
        PROVE  Older(f, g, times) \/ Older(g, f, times)
    <2>1. f.kind # g.kind \/ f.at # g.at
      BY <1>2, <1>5, NamesAre
    <2>. QED  BY <1>2, <2>1 DEF Older, IsDated
  <1>6. Ordered(S, ByAge(S, times))
    BY <1>1, <1>3, <1>4, <1>5 DEF Ordered
  <1>. QED  BY <1>1, <1>6 DEF Before

(* There is an archive to delete next as long as one is to be deleted.      *)
LEMMA OldestIs ==
    ASSUME NEW times \in Times, NEW S \in SUBSET Proper, IsFiniteSet(S), S # {}
    PROVE  \E f \in S : \A g \in S \ {f} : Older(f, g, times)
  <1>1. Ordered(S, ByAge(S, times)) /\ \A f, g \in S : <<f, g>> \in ByAge(S, times) <=> Older(f, g, times)
    BY AgesOrder
  <1>2. PICK f \in S : \A g \in S \ {f} : <<f, g>> \in ByAge(S, times)
    BY <1>1, First
  <1>. QED  BY <1>1, <1>2

(* What the cap pass leaves fits under the cap ...                          *)
LEMMA ExcessFew ==
    ASSUME NEW times \in Times, NEW S \in SUBSET Proper, IsFiniteSet(S), NEW cap \in Nat, cap > 0
    PROVE  /\ IsFiniteSet(S \ Excess(S, cap, times))
           /\ Cardinality(S \ Excess(S, cap, times)) <= cap
  <1>. DEFINE T == S \ Excess(S, cap, times)
              R == ByAge(S, times)
  <1>1. Ordered(S, R) /\ \A f \in S : Before(S, R, f) = {g \in S : Older(g, f, times)}
    BY AgesOrder
  <1>2. Cardinality(S) \in Nat
    BY FS_CardinalityType
  <1>3. T \subseteq S /\ \A f \in T : ~(Cardinality(Before(S, R, f)) < Cardinality(S) - cap)
    BY <1>1 DEF Excess
  <1>. HIDE DEF T, R
  <1>4. \A f \in S : Cardinality(Before(S, R, f)) \in Nat /\ Cardinality(Before(S, R, f)) < Cardinality(S)
    BY <1>1, RankRange
  <1>5. \A f \in T : Cardinality(Before(S, R, f)) \in (Cardinality(S) - cap)..(Cardinality(S) - 1)
    BY <1>2, <1>3, <1>4
  <1>6. PICK a \in Int, b \in Int : a = Cardinality(S) - cap /\ b = Cardinality(S) - 1
    BY <1>2
  <1>7. IsFiniteSet(T) /\ Cardinality(T) <= b - a + 1
    <2>1. \A f \in T : Cardinality(Before(S, R, f)) \in a..b
      BY <1>5, <1>6
    <2>2. b >= a - 1
      BY <1>2, <1>6
    <2>. QED  BY <1>1, <1>3, <1>6, <2>1, <2>2, FewRanks
  <1>8. Cardinality(T) \in Nat
    BY <1>7, FS_CardinalityType
  <1>9. Cardinality(T) <= cap
    BY <1>2, <1>6, <1>7, <1>8
  <1>. QED  BY <1>7, <1>9 DEF T

(* ... and, if the cap has room for it beside the incrementals, the latest  *)
(* dated archive is left.                                                   *)
LEMMA ExcessSpares ==
    ASSUME NEW times \in Times, NEW S \in SUBSET Proper, IsFiniteSet(S), NEW cap \in Nat,
           cap = 0 \/ cap > 2, NEW f \in S, IsDated(f), \A g \in DatedIn(S) \ {f} : g.at < f.at
    PROVE  f \notin Excess(S, cap, times)
  <1>. SUFFICES ASSUME cap > 2 PROVE f \notin Excess(S, cap, times)
    BY DEF Excess
  <1>. DEFINE B == {g \in S : Older(g, f, times)}
              rest == S \ B
              three == {f, Incremental("daily"), Incremental("hourly")}
  <1>1. \A g \in DatedIn(S) \ {f} : Older(g, f, times)
    <2>. SUFFICES ASSUME NEW g \in S, IsDated(g), g # f PROVE Older(g, f, times)
      BY DEF DatedIn
    <2>1. g.at \in Nat /\ f.at \in Nat /\ g.at < f.at /\ g \in Names /\ f \in Names
      BY NamesAre DEF DatedIn, Proper
    <2>2. Midnight(g.at) <= Midnight(f.at) /\ Midnight(g.at) \in Nat /\ Midnight(f.at) \in Nat
      BY <2>1, LaterDay, DayStarts
    <2>. QED  BY <2>1, <2>2 DEF Older, Date
  <1>2. rest \subseteq three
    <2>. SUFFICES ASSUME NEW g \in S, ~Older(g, f, times), g # f
                  PROVE  g \in {Incremental("daily"), Incremental("hourly")}
      OBVIOUS
    <2>1. ~IsDated(g) /\ g \in Names /\ g.at = 0
      BY <1>1 DEF DatedIn, Proper
    <2>. QED  BY <2>1, NamesAre DEF IsDated, Incremental
  <1>3. IsFiniteSet(three) /\ Cardinality(three) <= 3
    <2>1. IsFiniteSet({f}) /\ Cardinality({f}) = 1
      BY FS_Singleton, Zenon
    <2>2. /\ IsFiniteSet({f} \cup {Incremental("daily")})
          /\ Cardinality({f} \cup {Incremental("daily")}) <= 2
      <3>1. PICK d, U : d = Incremental("daily") /\ U = {f}
        OBVIOUS
      <3>2. IsFiniteSet(U) /\ Cardinality(U) = 1
        BY <2>1, <3>1
      <3>3. IsFiniteSet(U \cup {d}) /\ Cardinality(U \cup {d}) <= 2
        <4>1. /\ IsFiniteSet(U \cup {d})
              /\ Cardinality(U \cup {d}) = IF d \in U THEN Cardinality(U) ELSE Cardinality(U) + 1
          BY <3>2, FS_AddElement
        <4>. QED  BY <3>2, <4>1
      <3>. QED  BY <3>1, <3>3
    <2>3. PICK T : T = {f} \cup {Incremental("daily")}
      OBVIOUS
    <2>4. Cardinality(T) \in Nat /\ IsFiniteSet(T) /\ Cardinality(T) <= 2
      BY <2>2, <2>3, FS_CardinalityType
    <2>5. IsFiniteSet(T \cup {Incremental("hourly")}) /\ Cardinality(T \cup {Incremental("hourly")}) <= 3
      BY <2>4, FS_AddElement
    <2>6. three = T \cup {Incremental("hourly")}
      BY <2>3
    <2>. QED  BY <2>5, <2>6
  <1>4. B \subseteq S /\ rest \subseteq S /\ S = B \cup rest /\ B \cap rest = {}
    OBVIOUS
  <1>. HIDE DEF B, rest, three
  <1>5. IsFiniteSet(B) /\ IsFiniteSet(rest)
    BY <1>4, FS_Subset
  <1>6. Cardinality(rest) <= Cardinality(three)
    BY <1>2, <1>3, FS_Subset
  <1>7. Cardinality(S) = Cardinality(B) + Cardinality(rest) - Cardinality({})
    BY <1>4, <1>5, FS_Union
  <1>8. /\ Cardinality(B) \in Nat /\ Cardinality(rest) \in Nat /\ Cardinality(three) \in Nat
        /\ Cardinality(S) \in Nat /\ Cardinality({}) = 0
    BY <1>3, <1>5, FS_CardinalityType, FS_EmptySet
  <1>9. ~(Cardinality(B) < Cardinality(S) - cap)
    BY <1>3, <1>6, <1>7, <1>8
  <1>. QED  BY <1>9 DEF Excess, B

-----------------------------------------------------------------------------
(* The invariant.  Types first, the Boolean parts of the state apart.       *)
Ghost(v, i, l, t, n) == [verified |-> v, incidents |-> i, lister |-> l, tidy |-> t, tornLive |-> n]
GhostShape ==
    /\ ghost = Ghost(ghost.verified, ghost.incidents, ghost.lister, ghost.tidy, ghost.tornLive)
    /\ ghost.lister \in Writers \cup {"none"} /\ ghost.tidy \in Writers \cup {"none"}
VerifiedOnce == ghost.verified

WriterStates == [pc : Labels, name : Proper, kept : SUBSET DatedIn(Names), doomed : SUBSET Proper,
                 times : Times]
BackupTypes ==
    /\ clock \in Nat /\ mtime \in Times
    /\ files \subseteq Proper /\ IsFiniteSet(files) /\ good \subseteq files
    /\ writer \in [Writers -> WriterStates]
    /\ \A w \in Writers : IsFiniteSet(writer[w].kept) /\ IsFiniteSet(writer[w].doomed)

(* No two writers make the same dated archive: the daily one is named after *)
(* midnight, the manual ones after another instant.                         *)
OwnNames ==
    /\ \A w \in Writers : IsDated(writer[w].name) =>
          /\ w = "daily" => writer[w].name.at = Midnight(writer[w].name.at)
          /\ w # "daily" => writer[w].name.at # Midnight(writer[w].name.at)
    /\ \A v, w \in Writers : IsDated(writer[w].name) /\ writer[v].name = writer[w].name => v = w

(* An archive that no writer may still find broken, and that is later than  *)
(* all that any sweep is going to delete or may choose from.                *)
Safe(f) ==
    \A w \in Writers :
       /\ writer[w].pc \in {"write", "verify"} => writer[w].name # f
       /\ \A g \in writer[w].kept : g.at <= f.at
       /\ \A g \in DatedIn(writer[w].doomed) : g.at < f.at
SweepsDated == \E w \in Writers : writer[w].kept # {} \/ DatedIn(writer[w].doomed) # {}
Spared ==
    ghost.incidents = {} /\ CapsLeaveRoom /\ (VerifiedOnce \/ SweepsDated) =>
       \E f \in DatedIn(good) : Safe(f)

(* The sweep of the latest listing: what it has not deleted yet is all that *)
(* is too much.                                                             *)
Tidying ==
    \A w \in Writers : ghost.lister = w =>
       /\ writer[w].pc = "prune" => /\ DatedIn(files) \ writer[w].doomed \subseteq writer[w].kept
                                    /\ Cardinality(writer[w].kept) <= Limit(PolicyOf(w))
       /\ writer[w].pc = "cap" =>
             /\ Cardinality(DatedIn(files)) <= Limit(PolicyOf(w))
             /\ PolicyOf(w).cap > 0 => Cardinality(files \ writer[w].doomed) <= PolicyOf(w).cap

SweepInv == GhostShape /\ BackupTypes /\ OwnNames /\ Spared /\ Tidying /\ LimitsHold

(* The restore: no torn archive, and the members written so far.            *)
Torn == restore.torn
TornLive == ghost.tornLive
Restoring(pc, name, todo, torn, outcome) ==
    [pc |-> pc, name |-> name, todo |-> todo, torn |-> torn, outcome |-> outcome]
RestoreShape ==
    restore = Restoring(restore.pc, restore.name, restore.todo, restore.torn, restore.outcome)
Untorn == ~Torn /\ ~TornLive
Written ==
    /\ DOMAIN live = Members
    /\ used = [starts |-> used.starts, restores |-> used.restores, faults |-> used.faults]
    /\ restore.pc = "extract" => \A m \in Members \ restore.todo : live[m] = used.restores
    /\ restore.pc = "idle" /\ restore.outcome = "ok" => \A m \in Members : live[m] = used.restores
RestoreInv == RestoreShape /\ Untorn /\ Written

-----------------------------------------------------------------------------
(* What a step makes of the writer that takes it.                           *)
Becomes(w, pc, name, kept, doomed, times) ==
    writer' = [writer EXCEPT ![w] = [pc |-> pc, name |-> name, kept |-> kept, doomed |-> doomed,
                                     times |-> times]]

(* What a writer has in hand.                                               *)
LEMMA WriterIs ==
    ASSUME BackupTypes, NEW w \in Writers
    PROVE  /\ writer[w] = [pc |-> writer[w].pc, name |-> writer[w].name, kept |-> writer[w].kept,
                           doomed |-> writer[w].doomed, times |-> writer[w].times]
           /\ writer[w].pc \in Labels /\ writer[w].name \in Proper
           /\ writer[w].kept \in SUBSET DatedIn(Names) /\ IsFiniteSet(writer[w].kept)
           /\ writer[w].doomed \in SUBSET Proper /\ IsFiniteSet(writer[w].doomed)
           /\ writer[w].times \in Times
  <1>1. writer[w] \in WriterStates
    BY DEF BackupTypes
  <1>2. \A x \in WriterStates :
           /\ x = [pc |-> x.pc, name |-> x.name, kept |-> x.kept, doomed |-> x.doomed, times |-> x.times]
           /\ x.pc \in Labels /\ x.name \in Proper /\ x.kept \in SUBSET DatedIn(Names)
           /\ x.doomed \in SUBSET Proper /\ x.times \in Times
    BY DEF WriterStates
  <1>3. IsFiniteSet(writer[w].kept) /\ IsFiniteSet(writer[w].doomed)
    BY DEF BackupTypes
  <1>. QED  BY <1>1, <1>2, <1>3

(* What a step makes of its writer is well typed, and the other writers are *)
(* left alone.                                                              *)
LEMMA WriterBecomes ==
    ASSUME BackupTypes, NEW w \in Writers, NEW pc \in Labels, NEW name \in Proper,
           NEW kept \in SUBSET DatedIn(Names), IsFiniteSet(kept),
           NEW doomed \in SUBSET Proper, IsFiniteSet(doomed), NEW times \in Times,
           Becomes(w, pc, name, kept, doomed, times)
    PROVE  /\ writer' \in [Writers -> WriterStates]
           /\ \A v \in Writers : IsFiniteSet(writer'[v].kept) /\ IsFiniteSet(writer'[v].doomed)
           /\ writer'[w].pc = pc /\ writer'[w].name = name /\ writer'[w].kept = kept
           /\ writer'[w].doomed = doomed /\ writer'[w].times = times
           /\ \A v \in Writers \ {w} : writer'[v] = writer[v]
  <1>. DEFINE x == [pc |-> pc, name |-> name, kept |-> kept, doomed |-> doomed, times |-> times]
  <1>1. /\ x \in WriterStates /\ x.pc = pc /\ x.name = name /\ x.kept = kept /\ x.doomed = doomed
        /\ x.times = times
    BY DEF WriterStates
  <1>2. writer' = [writer EXCEPT ![w] = x]
    BY DEF Becomes
  <1>. HIDE DEF x
  <1>3. writer \in [Writers -> WriterStates]
    BY DEF BackupTypes
  <1>4. /\ writer' \in [Writers -> WriterStates] /\ writer'[w] = x
        /\ \A v \in Writers \ {w} : writer'[v] = writer[v]
    BY <1>1, <1>2, <1>3
  <1>5. \A v \in Writers : IsFiniteSet(writer'[v].kept) /\ IsFiniteSet(writer'[v].doomed)
    BY <1>1, <1>4 DEF BackupTypes
  <1>. QED  BY <1>1, <1>4, <1>5

(* The values of an idle writer.                                            *)
LEMMA IdleIs ==
    /\ Incremental("hourly") \in Proper /\ Incremental("daily") \in Proper /\ Never \in Times
    /\ ~IsDated(Incremental("hourly")) /\ ~IsDated(Incremental("daily"))
    /\ {"idle", "build", "write", "verify", "list", "prune", "cap"} \subseteq Labels
    /\ {} \in SUBSET DatedIn(Names) /\ {} \in SUBSET Proper /\ IsFiniteSet({})
    /\ "daily" \in Writers /\ "none" \notin Writers
  <1>1. IsFiniteSet({})
    BY FS_EmptySet
  <1>. QED  BY <1>1 DEF Incremental, Proper, Names, IsDated, Never, Times, Incrementals, Labels, Writers,
               Server

(* A writer that starts an archive holds no listing.                        *)
LEMMA BuildingIs ==
    ASSUME NEW f
    PROVE  [Idle EXCEPT !.pc = "build", !.name = f]
              = [pc |-> "build", name |-> f, kept |-> {}, doomed |-> {}, times |-> Never]
  <1>1. Idle = [pc |-> "idle", name |-> Incremental("hourly"), kept |-> {}, doomed |-> {}, times |-> Never]
    BY DEF Idle
  <1>2. PICK x, n : x = Idle /\ n = Never
    OBVIOUS
  <1>3. PICK h : x = [pc |-> "idle", name |-> h, kept |-> {}, doomed |-> {}, times |-> n]
    BY <1>1, <1>2
  <1>. DEFINE a == [x EXCEPT !.pc = "build"]
              b == [a EXCEPT !.name = f]
  <1>4. a = [pc |-> "build", name |-> h, kept |-> {}, doomed |-> {}, times |-> n]
    BY <1>3
  <1>5. [x EXCEPT !.pc = "build", !.name = f] = b
    OBVIOUS
  <1>. HIDE DEF a
  <1>6. b = [pc |-> "build", name |-> f, kept |-> {}, doomed |-> {}, times |-> n]
    BY <1>4
  <1>. QED  BY <1>2, <1>5, <1>6

(* A writer that returns is idle.                                           *)
LEMMA Returns ==
    ASSUME NEW w \in Writers, Return(w)
    PROVE  Becomes(w, "idle", Incremental("hourly"), {}, {}, Never)
  BY DEF Return, Becomes, Idle

(* A writer that goes on to its next statement keeps what it has in hand.   *)
LEMMA GoesTo ==
    ASSUME BackupTypes, NEW w \in Writers, NEW pc, Goto(w, pc)
    PROVE  Becomes(w, pc, writer[w].name, writer[w].kept, writer[w].doomed, writer[w].times)
  <1>. DEFINE x == writer[w]
  <1>1. x = [pc |-> x.pc, name |-> x.name, kept |-> x.kept, doomed |-> x.doomed, times |-> x.times]
    BY WriterIs
  <1>2. writer' = [writer EXCEPT ![w] = [x EXCEPT !.pc = pc]]
    BY DEF Goto
  <1>. HIDE DEF x
  <1>3. [x EXCEPT !.pc = pc]
           = [pc |-> pc, name |-> x.name, kept |-> x.kept, doomed |-> x.doomed, times |-> x.times]
    BY <1>1
  <1>4. writer' = [writer EXCEPT ![w] = [pc |-> pc, name |-> x.name, kept |-> x.kept,
                                         doomed |-> x.doomed, times |-> x.times]]
    BY <1>2, <1>3
  <1>. QED  BY <1>4 DEF x, Becomes

(* A writer whose sweep is over is idle, or goes on to the daily            *)
(* incremental.                                                             *)
LEMMA GoesOn ==
    ASSUME NEW w \in Writers, BackupTypes, NextArchive(w)
    PROVE  \/ Becomes(w, "idle", Incremental("hourly"), {}, {}, Never)
           \/ Becomes(w, "build", Incremental("daily"), {}, {}, Never)
  <1>0. PICK f : f = Incremental("daily")
    OBVIOUS
  <1>. DEFINE b == [Idle EXCEPT !.pc = "build", !.name = f]
  <1>1. b = [pc |-> "build", name |-> f, kept |-> {}, doomed |-> {}, times |-> Never]
    BY BuildingIs, Zenon
  <1>. DEFINE c == IF w = "daily" /\ IsDated(writer[w].name) THEN b ELSE Idle
  <1>2. writer' = [writer EXCEPT ![w] = c] /\ (c = Idle \/ c = b)
    BY <1>0 DEF NextArchive
  <1>. HIDE DEF b, c
  <1>. QED  BY <1>0, <1>1, <1>2 DEF Becomes, Idle

(* What listRetainedBackups gives its writer.                               *)
LEMMA Lists ==
    ASSUME BackupTypes, NEW w \in Writers, NEW pc, NEW k, NEW d,
           writer' = [writer EXCEPT ![w].pc = pc, ![w].kept = k, ![w].doomed = d]
    PROVE  Becomes(w, pc, writer[w].name, k, d, writer[w].times)
  <1>1. PICK x, n, o, e, t : x = writer[w] /\ n = writer[w].name /\ o = writer[w].kept
                             /\ e = writer[w].doomed /\ t = writer[w].times
    OBVIOUS
  <1>2. x = [pc |-> x.pc, name |-> n, kept |-> o, doomed |-> e, times |-> t]
    BY <1>1, WriterIs
  <1>. DEFINE a == [x EXCEPT !.pc = pc]
              b == [a EXCEPT !.kept = k]
              c == [b EXCEPT !.doomed = d]
  <1>3. writer' = [writer EXCEPT ![w] = c]
    BY <1>1 DEF BackupTypes
  <1>4. a = [pc |-> pc, name |-> n, kept |-> o, doomed |-> e, times |-> t]
    BY <1>2
  <1>. HIDE DEF a
  <1>5. b = [pc |-> pc, name |-> n, kept |-> k, doomed |-> e, times |-> t]
    BY <1>4
  <1>. HIDE DEF b
  <1>6. c = [pc |-> pc, name |-> n, kept |-> k, doomed |-> d, times |-> t]
    BY <1>5
  <1>. HIDE DEF c
  <1>. QED  BY <1>1, <1>3, <1>6 DEF Becomes

(* What the listing of the incrementals gives its writer.                   *)
LEMMA ListsTimes ==
    ASSUME BackupTypes, NEW w \in Writers, NEW pc, NEW k, NEW d, NEW m,
           writer' = [writer EXCEPT ![w].pc = pc, ![w].kept = k, ![w].times = m, ![w].doomed = d]
    PROVE  Becomes(w, pc, writer[w].name, k, d, m)
  <1>1. PICK x, n, o, e, t : x = writer[w] /\ n = writer[w].name /\ o = writer[w].kept
                             /\ e = writer[w].doomed /\ t = writer[w].times
    OBVIOUS
  <1>2. x = [pc |-> x.pc, name |-> n, kept |-> o, doomed |-> e, times |-> t]
    BY <1>1, WriterIs
  <1>. DEFINE a == [x EXCEPT !.pc = pc]
              b == [a EXCEPT !.kept = k]
              c == [b EXCEPT !.times = m]
              f == [c EXCEPT !.doomed = d]
  <1>3. writer' = [writer EXCEPT ![w] = f]
    BY <1>1 DEF BackupTypes
  <1>4. a = [pc |-> pc, name |-> n, kept |-> o, doomed |-> e, times |-> t]
    BY <1>2
  <1>. HIDE DEF a
  <1>5. b = [pc |-> pc, name |-> n, kept |-> k, doomed |-> e, times |-> t]
    BY <1>4
  <1>. HIDE DEF b
  <1>6. c = [pc |-> pc, name |-> n, kept |-> k, doomed |-> e, times |-> m]
    BY <1>5
  <1>. HIDE DEF c
  <1>7. f = [pc |-> pc, name |-> n, kept |-> k, doomed |-> d, times |-> m]
    BY <1>6
  <1>. HIDE DEF f
  <1>. QED  BY <1>1, <1>3, <1>7 DEF Becomes

(* The archive a sweep deletes next is one of those it has to delete.       *)
LEMMA NextIsDoomed ==
    ASSUME BackupTypes, NEW w \in Writers, writer[w].doomed # {}
    PROVE  NextDoomed(w) \in writer[w].doomed
  <1>1. PICK S, t : S = writer[w].doomed /\ t = writer[w].times
    OBVIOUS
  <1>2. S \in SUBSET Proper /\ IsFiniteSet(S) /\ S # {} /\ t \in Times
    BY <1>1, WriterIs
  <1>3. \E f \in S : \A g \in S \ {f} : Older(f, g, t)
    BY <1>2, OldestIs
  <1>4. NextDoomed(w) = CHOOSE f \in S : \A g \in S \ {f} : Older(f, g, t)
    BY <1>1 DEF NextDoomed
  <1>. QED  BY <1>1, <1>3, <1>4

(* os.Remove takes the next archive of the list, and nothing else.          *)
LEMMA Removes ==
    ASSUME BackupTypes, NEW w \in Writers, Remove(w)
    PROVE  /\ NextDoomed(w) \in writer[w].doomed /\ NextDoomed(w) \in files
           /\ files' = files \ {NextDoomed(w)} /\ good' = good \ {NextDoomed(w)}
           /\ Becomes(w, writer[w].pc, writer[w].name, writer[w].kept,
                      writer[w].doomed \ {NextDoomed(w)}, writer[w].times)
  <1>1. NextDoomed(w) \in writer[w].doomed
    BY NextIsDoomed DEF Remove
  <1>2. PICK f, x, n, o, e, t : f = NextDoomed(w) /\ x = writer[w] /\ n = writer[w].name
                             /\ o = writer[w].kept /\ e = writer[w].doomed /\ t = writer[w].times
    OBVIOUS
  <1>3. x = [pc |-> x.pc, name |-> n, kept |-> o, doomed |-> e, times |-> t]
    BY <1>2, WriterIs
  <1>. DEFINE a == [x EXCEPT !.doomed = @ \ {f}]
  <1>4. writer' = [writer EXCEPT ![w] = a]
    BY <1>2 DEF Remove
  <1>5. a = [pc |-> x.pc, name |-> n, kept |-> o, doomed |-> e \ {f}, times |-> t]
    BY <1>3
  <1>. HIDE DEF a
  <1>6. Becomes(w, writer[w].pc, writer[w].name, writer[w].kept, writer[w].doomed \ {NextDoomed(w)},
                writer[w].times)
    BY <1>2, <1>4, <1>5 DEF Becomes
  <1>. QED  BY <1>1, <1>6 DEF Remove

-----------------------------------------------------------------------------
(* What the history variables record.                                       *)
LEMMA GhostFields ==
    ASSUME NEW v, NEW i, NEW l, NEW t, NEW n, NEW g, g = Ghost(v, i, l, t, n)
    PROVE  g.verified = v /\ g.incidents = i /\ g.lister = l /\ g.tidy = t /\ g.tornLive = n
  BY DEF Ghost

(* Opening a dated archive that was complete counts as rewriting it, and no *)
(* listing is the latest any more.                                          *)
LEMMA OpenGhost ==
    ASSUME GhostShape, NEW w \in Writers, OpenFile(w)
    PROVE  /\ GhostShape' /\ ghost'.lister = "none" /\ ghost'.tidy = "none"
           /\ ghost'.verified = ghost.verified /\ ghost'.tornLive = ghost.tornLive
           /\ ghost'.incidents = {} => ghost.incidents = {} /\ writer[w].name \notin DatedIn(good)
  <1>1. PICK g, v, i, l, t, n : g = ghost /\ v = ghost.verified /\ i = ghost.incidents
                                /\ l = ghost.lister /\ t = ghost.tidy /\ n = ghost.tornLive
    OBVIOUS
  <1>2. g = Ghost(v, i, l, t, n)
    BY <1>1, Zenon DEF GhostShape
  <1>3. PICK j : /\ j = IF writer[w].name \in DatedIn(good)
                        THEN ghost.incidents \cup {"rewritten"} ELSE ghost.incidents
                 /\ ghost' = [g EXCEPT !.lister = "none", !.tidy = "none", !.incidents = j]
    BY <1>1, Zenon DEF OpenFile
  <1>. DEFINE a == [g EXCEPT !.lister = "none"]
              b == [a EXCEPT !.tidy = "none"]
              c == [b EXCEPT !.incidents = j]
  <1>4. a = Ghost(v, i, "none", t, n)
    BY <1>2 DEF Ghost
  <1>5. ghost' = c
    BY <1>3
  <1>. HIDE DEF a
  <1>6. b = Ghost(v, i, "none", "none", n)
    BY <1>4 DEF Ghost
  <1>. HIDE DEF b
  <1>7. c = Ghost(v, j, "none", "none", n)
    BY <1>6 DEF Ghost
  <1>. HIDE DEF c
  <1>8. /\ ghost'.verified = v /\ ghost'.incidents = j /\ ghost'.lister = "none"
        /\ ghost'.tidy = "none" /\ ghost'.tornLive = n
    BY <1>5, <1>7, GhostFields
  <1>9. GhostShape'
    BY <1>5, <1>7, <1>8, Zenon DEF GhostShape
  <1>10. j = {} => ghost.incidents = {} /\ writer[w].name \notin DatedIn(good)
    BY <1>3
  <1>. QED  BY <1>1, <1>8, <1>9, <1>10, Zenon

(* A dated archive that passes VerifyBackup is remembered.                  *)
LEMMA VerifyGhost ==
    ASSUME GhostShape, NEW w \in Writers, VerifyPasses(w)
    PROVE  /\ GhostShape' /\ ghost'.lister = ghost.lister /\ ghost'.tidy = ghost.tidy
           /\ VerifiedOnce' <=> VerifiedOnce \/ IsDated(writer[w].name)
           /\ ghost'.incidents = ghost.incidents /\ ghost'.tornLive = ghost.tornLive
  <1>1. PICK g, v, i, l, t, n : g = ghost /\ v = ghost.verified /\ i = ghost.incidents
                                /\ l = ghost.lister /\ t = ghost.tidy /\ n = ghost.tornLive
    OBVIOUS
  <1>2. g = Ghost(v, i, l, t, n)
    BY <1>1, Zenon DEF GhostShape
  <1>3. PICK j : /\ j = (ghost.verified \/ IsDated(writer[w].name))
                 /\ ghost' = [g EXCEPT !.verified = j]
    BY <1>1, Zenon DEF VerifyPasses
  <1>4. ghost' = Ghost(j, i, l, t, n)
    BY <1>2, <1>3 DEF Ghost
  <1>5. /\ ghost'.verified = j /\ ghost'.incidents = i /\ ghost'.lister = l
        /\ ghost'.tidy = t /\ ghost'.tornLive = n
    BY <1>4, GhostFields
  <1>6. GhostShape'
    BY <1>1, <1>4, <1>5, Zenon DEF GhostShape
  <1>7. VerifiedOnce' <=> VerifiedOnce \/ IsDated(writer[w].name)
    BY <1>3, <1>5, Zenon DEF VerifiedOnce
  <1>. QED  BY <1>1, <1>5, <1>6, <1>7, Zenon

(* A listing is the latest; if it counts an archive that is not verified,   *)
(* that is remembered.                                                      *)
LEMMA ListGhost ==
    ASSUME GhostShape, NEW w \in Writers, ListRetained(w)
    PROVE  /\ GhostShape' /\ ghost'.lister = w /\ ghost'.tidy = ghost.tidy
           /\ ghost'.verified = ghost.verified /\ ghost'.tornLive = ghost.tornLive
           /\ ghost'.incidents = {} =>
                 /\ ghost.incidents = {}
                 /\ \A f \in Keep(DatedIn(files), PolicyOf(w)) : ~Unverified(f)
  <1>1. PICK g, v, i, l, t, n : g = ghost /\ v = ghost.verified /\ i = ghost.incidents
                                /\ l = ghost.lister /\ t = ghost.tidy /\ n = ghost.tornLive
    OBVIOUS
  <1>2. g = Ghost(v, i, l, t, n)
    BY <1>1, Zenon DEF GhostShape
  <1>3. PICK j : /\ j = IF \E f \in Keep(DatedIn(files), PolicyOf(w)) : Unverified(f)
                        THEN ghost.incidents \cup {"countedUnverified"} ELSE ghost.incidents
                 /\ ghost' = [g EXCEPT !.lister = w, !.incidents = j]
    BY <1>1, Zenon DEF ListRetained
  <1>. DEFINE a == [g EXCEPT !.lister = w]
              b == [a EXCEPT !.incidents = j]
  <1>4. a = Ghost(v, i, w, t, n)
    BY <1>2 DEF Ghost
  <1>5. ghost' = b
    BY <1>3
  <1>. HIDE DEF a
  <1>6. b = Ghost(v, j, w, t, n)
    BY <1>4 DEF Ghost
  <1>. HIDE DEF b
  <1>7. /\ ghost'.verified = v /\ ghost'.incidents = j /\ ghost'.lister = w
        /\ ghost'.tidy = t /\ ghost'.tornLive = n
    BY <1>5, <1>6, GhostFields
  <1>8. GhostShape'
    BY <1>1, <1>5, <1>6, <1>7, Zenon DEF GhostShape
  <1>9. j = {} => ghost.incidents = {} /\ \A f \in Keep(DatedIn(files), PolicyOf(w)) : ~Unverified(f)
    <2>1. CASE \E f \in Keep(DatedIn(files), PolicyOf(w)) : Unverified(f)
      <3>1. j = ghost.incidents \cup {"countedUnverified"}
        BY <1>3, <2>1, Zenon
      <3>. QED  BY <3>1
    <2>2. CASE ~\E f \in Keep(DatedIn(files), PolicyOf(w)) : Unverified(f)
      <3>1. j = ghost.incidents
        BY <1>3, <2>2, Zenon
      <3>. QED  BY <2>2, <3>1, Zenon
    <2>. QED  BY <2>1, <2>2
  <1>. QED  BY <1>1, <1>7, <1>8, <1>9, Zenon

(* The end of the sweep of the latest listing is remembered.                *)
LEMMA DoneGhost ==
    ASSUME GhostShape, NEW w \in Writers, SweepDone(w)
    PROVE  /\ GhostShape' /\ ghost'.lister = ghost.lister
           /\ ghost'.verified = ghost.verified /\ ghost'.tornLive = ghost.tornLive
           /\ ghost'.incidents = ghost.incidents
           /\ ghost'.tidy = IF ghost.lister = w THEN w ELSE ghost.tidy
  <1>1. PICK g, v, i, l, t, n : g = ghost /\ v = ghost.verified /\ i = ghost.incidents
                                /\ l = ghost.lister /\ t = ghost.tidy /\ n = ghost.tornLive
    OBVIOUS
  <1>2. g = Ghost(v, i, l, t, n)
    BY <1>1, Zenon DEF GhostShape
  <1>3. PICK j : /\ j = IF ghost.lister = w THEN w ELSE ghost.tidy
                 /\ ghost' = [g EXCEPT !.tidy = j]
    BY <1>1, Zenon DEF SweepDone
  <1>4. ghost' = Ghost(v, i, l, j, n)
    BY <1>2, <1>3 DEF Ghost
  <1>5. /\ ghost'.verified = v /\ ghost'.incidents = i /\ ghost'.lister = l
        /\ ghost'.tidy = j /\ ghost'.tornLive = n
    BY <1>4, GhostFields
  <1>6. ghost.tidy \in Writers \cup {"none"} /\ ghost.lister \in Writers \cup {"none"}
    BY DEF GhostShape
  <1>7. j \in Writers \cup {"none"}
    BY <1>3, <1>6
  <1>8. GhostShape'
    BY <1>1, <1>4, <1>5, <1>6, <1>7, Zenon DEF GhostShape
  <1>. QED  BY <1>1, <1>3, <1>5, <1>8, Zenon

(* So is the deletion of a dated archive by the administrator.              *)
LEMMA DeleteGhost ==
    ASSUME GhostShape, NEW f, DeleteBackup(f)
    PROVE  /\ GhostShape' /\ ghost'.lister = ghost.lister /\ ghost'.tidy = ghost.tidy
           /\ ghost'.verified = ghost.verified /\ ghost'.tornLive = ghost.tornLive
           /\ ghost'.incidents = {} => ghost.incidents = {} /\ ~IsDated(f)
  <1>1. PICK g, v, i, l, t, n : g = ghost /\ v = ghost.verified /\ i = ghost.incidents
                                /\ l = ghost.lister /\ t = ghost.tidy /\ n = ghost.tornLive
    OBVIOUS
  <1>2. g = Ghost(v, i, l, t, n)
    BY <1>1, Zenon DEF GhostShape
  <1>3. PICK j : /\ j = IF IsDated(f) THEN ghost.incidents \cup {"deleted"} ELSE ghost.incidents
                 /\ ghost' = [g EXCEPT !.incidents = j]
    BY <1>1, Zenon DEF DeleteBackup
  <1>4. ghost' = Ghost(v, j, l, t, n)
    BY <1>2, <1>3 DEF Ghost
  <1>5. /\ ghost'.verified = v /\ ghost'.incidents = j /\ ghost'.lister = l
        /\ ghost'.tidy = t /\ ghost'.tornLive = n
    BY <1>4, GhostFields
  <1>6. GhostShape'
    BY <1>1, <1>4, <1>5, Zenon DEF GhostShape
  <1>7. j = {} => ghost.incidents = {} /\ ~IsDated(f)
    BY <1>3 DEF IsDated
  <1>. QED  BY <1>1, <1>5, <1>6, <1>7, Zenon

(* So is a member written from a partial archive.                           *)
LEMMA ExtractGhost ==
    ASSUME GhostShape, NEW m, ExtractMember(m)
    PROVE  /\ GhostShape' /\ ghost'.lister = ghost.lister /\ ghost'.tidy = ghost.tidy
           /\ ghost'.verified = ghost.verified /\ ghost'.incidents = ghost.incidents
           /\ TornLive' <=> TornLive \/ Torn
  <1>1. PICK g, v, i, l, t, n : g = ghost /\ v = ghost.verified /\ i = ghost.incidents
                                /\ l = ghost.lister /\ t = ghost.tidy /\ n = ghost.tornLive
    OBVIOUS
  <1>2. g = Ghost(v, i, l, t, n)
    BY <1>1, Zenon DEF GhostShape
  <1>3. PICK j : /\ j = (ghost.tornLive \/ restore.torn)
                 /\ ghost' = [g EXCEPT !.tornLive = j]
    BY <1>1, Zenon DEF ExtractMember
  <1>4. ghost' = Ghost(v, i, l, t, j)
    BY <1>2, <1>3 DEF Ghost
  <1>5. /\ ghost'.verified = v /\ ghost'.incidents = i /\ ghost'.lister = l
        /\ ghost'.tidy = t /\ ghost'.tornLive = j
    BY <1>4, GhostFields
  <1>6. GhostShape'
    BY <1>1, <1>4, <1>5, Zenon DEF GhostShape
  <1>7. TornLive' <=> TornLive \/ Torn
    BY <1>3, <1>5, Zenon DEF TornLive, Torn
  <1>. QED  BY <1>1, <1>5, <1>6, <1>7, Zenon

-----------------------------------------------------------------------------
(* A step that deletes no safe archive, adds nothing to what is doomed or   *)
(* kept and verifies nothing keeps one safe.                                *)
LEMMA SparedStays ==
    ASSUME Spared, ghost'.incidents = {} => ghost.incidents = {},
           VerifiedOnce' => VerifiedOnce,
           \A v \in Writers :
              /\ writer'[v].kept \subseteq writer[v].kept
              /\ DatedIn(writer'[v].doomed) \subseteq DatedIn(writer[v].doomed)
              /\ writer'[v].pc \in {"write", "verify"} =>
                    \/ writer[v].pc \in {"write", "verify"} /\ writer[v].name = writer'[v].name
                    \/ writer'[v].name \notin DatedIn(good) \/ ghost'.incidents # {},
           ghost'.incidents = {} => \A f \in DatedIn(good) : Safe(f) => f \in good'
    PROVE  Spared'
  <1>. SUFFICES ASSUME ghost'.incidents = {}, CapsLeaveRoom, VerifiedOnce' \/ SweepsDated'
                PROVE  \E f \in DatedIn(good') : Safe(f)'
    BY DEF Spared, CapsLeaveRoom, RoomUnder, DatedIn, Safe
  <1>1. VerifiedOnce \/ SweepsDated
    <2>1. SweepsDated' => SweepsDated
      BY DEF SweepsDated
    <2>. QED  BY <2>1, Zenon
  <1>2. PICK f \in DatedIn(good) : Safe(f)
    BY <1>1, Zenon DEF Spared
  <1>3. f \in DatedIn(good')
    BY <1>2 DEF DatedIn
  <1>4. Safe(f)'
    <2>. SUFFICES ASSUME NEW w \in Writers
                  PROVE  /\ writer'[w].pc \in {"write", "verify"} => writer'[w].name # f
                         /\ \A g \in writer'[w].kept : g.at <= f.at
                         /\ \A g \in DatedIn(writer'[w].doomed) : g.at < f.at
      BY DEF Safe, DatedIn
    <2>1. writer'[w].pc \in {"write", "verify"} => writer'[w].name # f
      BY <1>2 DEF Safe
    <2>. QED  BY <1>2, <2>1 DEF Safe
  <1>. QED  BY <1>3, <1>4

(* Deleting files keeps the sweep under way on course ...                   *)
LEMMA TidyingStays ==
    ASSUME BackupTypes, Tidying, files' \subseteq files, ghost'.lister \in {ghost.lister, "none"},
           \A v \in Writers : ghost.lister = v /\ writer'[v].pc \in {"prune", "cap"} =>
              /\ writer'[v].pc = writer[v].pc /\ writer'[v].kept = writer[v].kept
              /\ files' \ writer'[v].doomed \subseteq files \ writer[v].doomed
    PROVE  Tidying'
  <1>. SUFFICES ASSUME NEW w \in Writers, ghost'.lister = w, writer'[w].pc \in {"prune", "cap"}
                PROVE  /\ writer'[w].pc = "prune" =>
                             /\ DatedIn(files') \ writer'[w].doomed \subseteq writer'[w].kept
                             /\ Cardinality(writer'[w].kept) <= Limit(PolicyOf(w))
                       /\ writer'[w].pc = "cap" =>
                             /\ Cardinality(DatedIn(files')) <= Limit(PolicyOf(w))
                             /\ PolicyOf(w).cap > 0 => Cardinality(files' \ writer'[w].doomed) <= PolicyOf(w).cap
    BY DEF Tidying, DatedIn
  <1>1. ghost.lister = w
    BY IdleIs
  <1>2. /\ writer'[w].pc = writer[w].pc /\ writer'[w].kept = writer[w].kept
        /\ files' \ writer'[w].doomed \subseteq files \ writer[w].doomed
    BY <1>1
  <1>3. CASE writer[w].pc = "prune"
    <2>1. DatedIn(files) \ writer[w].doomed \subseteq writer[w].kept /\ Cardinality(writer[w].kept) <= Limit(PolicyOf(w))
      BY <1>1, <1>3 DEF Tidying
    <2>2. DatedIn(files') \ writer'[w].doomed \subseteq writer'[w].kept
      BY <1>2, <2>1 DEF DatedIn
    <2>. QED  BY <1>2, <1>3, <2>1, <2>2
  <1>4. CASE writer[w].pc = "cap"
    <2>1. /\ Cardinality(DatedIn(files)) <= Limit(PolicyOf(w))
          /\ PolicyOf(w).cap > 0 => Cardinality(files \ writer[w].doomed) <= PolicyOf(w).cap
      BY <1>1, <1>4 DEF Tidying
    <2>2. PICK A, B, C, D, L : /\ A = DatedIn(files) /\ B = DatedIn(files') /\ C = files \ writer[w].doomed
                               /\ D = files' \ writer'[w].doomed /\ L = Limit(PolicyOf(w))
      OBVIOUS
    <2>3. A \subseteq files /\ C \subseteq files /\ B \subseteq A /\ D \subseteq C /\ IsFiniteSet(files)
      BY <1>2, <2>2 DEF BackupTypes, DatedIn
    <2>4. IsFiniteSet(A) /\ IsFiniteSet(C)
      BY <2>3, FS_Subset
    <2>5. /\ IsFiniteSet(B) /\ IsFiniteSet(D)
          /\ Cardinality(B) <= Cardinality(A) /\ Cardinality(D) <= Cardinality(C)
      BY <2>3, <2>4, FS_Subset
    <2>6. {Cardinality(A), Cardinality(B), Cardinality(C), Cardinality(D)} \subseteq Nat
      BY <2>4, <2>5, FS_CardinalityType
    <2>7. PolicyOf(w).cap \in Nat
      BY PolicyIs
    <2>8. L \in Nat
      BY <2>2, PolicyIs DEF Limit
    <2>9. Cardinality(B) <= L
      BY <2>1, <2>2, <2>5, <2>6, <2>8
    <2>10. PolicyOf(w).cap > 0 => Cardinality(D) <= PolicyOf(w).cap
      BY <2>1, <2>2, <2>5, <2>6, <2>7
    <2>. QED  BY <1>2, <1>4, <2>2, <2>9, <2>10
  <1>. QED  BY <1>2, <1>3, <1>4

(* ... and the directory within its limits.                                 *)
LEMMA LimitsStay ==
    ASSUME BackupTypes, GhostShape, LimitsHold, files' \subseteq files, ghost'.tidy \in {ghost.tidy, "none"}
    PROVE  LimitsHold'
  <1>. SUFFICES ASSUME ghost'.tidy # "none"
                PROVE  /\ Cardinality(DatedIn(files')) <= Limit(PolicyOf(ghost'.tidy))
                       /\ PolicyOf(ghost'.tidy).cap > 0 => Cardinality(files') <= PolicyOf(ghost'.tidy).cap
    BY DEF LimitsHold, DatedIn
  <1>1. PICK w \in Writers : w = ghost.tidy /\ ghost'.tidy = w
    BY DEF GhostShape
  <1>2. /\ Cardinality(DatedIn(files)) <= Limit(PolicyOf(w))
        /\ PolicyOf(w).cap > 0 => Cardinality(files) <= PolicyOf(w).cap
    BY <1>1, IdleIs DEF LimitsHold
  <1>3. PICK A, B, L : A = DatedIn(files) /\ B = DatedIn(files') /\ L = Limit(PolicyOf(w))
    OBVIOUS
  <1>4. A \subseteq files /\ B \subseteq A /\ IsFiniteSet(files)
    BY <1>3 DEF BackupTypes, DatedIn
  <1>5. IsFiniteSet(A) /\ IsFiniteSet(files') /\ Cardinality(files') <= Cardinality(files)
    BY <1>4, FS_Subset
  <1>6. IsFiniteSet(B) /\ Cardinality(B) <= Cardinality(A)
    BY <1>4, <1>5, FS_Subset
  <1>7. {Cardinality(A), Cardinality(B), Cardinality(files), Cardinality(files')} \subseteq Nat
    BY <1>4, <1>5, <1>6, FS_CardinalityType
  <1>8. PolicyOf(w).cap \in Nat /\ L \in Nat
    BY <1>3, PolicyIs DEF Limit
  <1>9. Cardinality(B) <= L
    BY <1>2, <1>3, <1>6, <1>7, <1>8
  <1>10. PolicyOf(w).cap > 0 => Cardinality(files') <= PolicyOf(w).cap
    BY <1>2, <1>5, <1>7, <1>8
  <1>. QED  BY <1>1, <1>3, <1>9, <1>10

(* As long as nobody starts an archive, no two writers make the same.       *)
LEMMA NamesStay ==
    ASSUME OwnNames, \A v \in Writers : writer'[v].name = writer[v].name \/ ~IsDated(writer'[v].name)
    PROVE  OwnNames'
  BY DEF OwnNames, IsDated

-----------------------------------------------------------------------------
(* A step of one writer that makes no file and takes no listing keeps the   *)
(* invariant.                                                               *)
LEMMA Settles ==
    ASSUME SweepInv, NEW w \in Writers, NEW pc \in Labels, NEW name \in Proper,
           NEW kept \in SUBSET DatedIn(Names), IsFiniteSet(kept),
           NEW doomed \in SUBSET Proper, IsFiniteSet(doomed), NEW times \in Times,
           Becomes(w, pc, name, kept, doomed, times),
           clock' \in Nat, mtime' \in Times, files' \subseteq files, good' \subseteq files',
           GhostShape', ghost'.lister = ghost.lister, ghost'.tidy = ghost.tidy,
           ghost'.incidents = ghost.incidents, VerifiedOnce' => VerifiedOnce,
           kept \subseteq writer[w].kept, DatedIn(doomed) \subseteq DatedIn(writer[w].doomed),
           name = writer[w].name \/ ~IsDated(name),
           pc \in {"write", "verify"} => writer[w].pc \in {"write", "verify"} /\ writer[w].name = name,
           pc \in {"prune", "cap"} => /\ pc = writer[w].pc /\ kept = writer[w].kept
                                      /\ files' \ doomed \subseteq files \ writer[w].doomed,
           \A f \in DatedIn(good) : Safe(f) => f \in good'
    PROVE  SweepInv'
  <1>0. BackupTypes /\ GhostShape /\ OwnNames /\ Spared /\ Tidying /\ LimitsHold
    BY DEF SweepInv
  <1>1. /\ writer' \in [Writers -> WriterStates]
        /\ \A v \in Writers : IsFiniteSet(writer'[v].kept) /\ IsFiniteSet(writer'[v].doomed)
        /\ writer'[w].pc = pc /\ writer'[w].name = name /\ writer'[w].kept = kept
        /\ writer'[w].doomed = doomed /\ \A v \in Writers \ {w} : writer'[v] = writer[v]
    BY <1>0, WriterBecomes
  <1>2. BackupTypes'
    <2>1. IsFiniteSet(files) /\ files \subseteq Proper
      BY <1>0 DEF BackupTypes
    <2>2. IsFiniteSet(files')
      BY <2>1, FS_Subset
    <2>. QED  BY <1>1, <2>1, <2>2 DEF BackupTypes
  <1>3. OwnNames'
    BY <1>0, <1>1, NamesStay
  <1>4. Spared'
    <2>1. ASSUME NEW v \in Writers
          PROVE  /\ writer'[v].kept \subseteq writer[v].kept
                 /\ DatedIn(writer'[v].doomed) \subseteq DatedIn(writer[v].doomed)
                 /\ writer'[v].pc \in {"write", "verify"} =>
                       writer[v].pc \in {"write", "verify"} /\ writer[v].name = writer'[v].name
      BY <1>1
    <2>. QED  BY <1>0, <2>1, SparedStays
  <1>5. Tidying'
    <2>1. ASSUME NEW v \in Writers, writer'[v].pc \in {"prune", "cap"}
          PROVE  /\ writer'[v].pc = writer[v].pc /\ writer'[v].kept = writer[v].kept
                 /\ files' \ writer'[v].doomed \subseteq files \ writer[v].doomed
      BY <1>1, <2>1
    <2>. QED  BY <1>0, <2>1, TidyingStays
  <1>6. LimitsHold'
    BY <1>0, LimitsStay
  <1>. QED  BY <1>2, <1>3, <1>4, <1>5, <1>6 DEF SweepInv

(* A step that the history does not record.                                 *)
LEMMA GhostSame ==
    ASSUME GhostShape, UNCHANGED ghost
    PROVE  /\ GhostShape' /\ ghost'.lister = ghost.lister /\ ghost'.tidy = ghost.tidy
           /\ ghost'.incidents = ghost.incidents
           /\ VerifiedOnce' => VerifiedOnce
  <1>1. GhostShape'
    BY Zenon DEF GhostShape
  <1>2. VerifiedOnce' => VerifiedOnce
    BY Zenon DEF VerifiedOnce
  <1>. QED  BY <1>1, <1>2, Zenon

(* A writer gives up, or goes on to the daily incremental.                  *)
LEMMA LeavesStep ==
    ASSUME SweepInv, NEW w \in Writers,
           \/ Becomes(w, "idle", Incremental("hourly"), {}, {}, Never)
           \/ Becomes(w, "build", Incremental("daily"), {}, {}, Never),
           clock' = clock, mtime' = mtime, files' \subseteq files, good' \subseteq files', UNCHANGED ghost,
           \A f \in DatedIn(good) : Safe(f) => f \in good'
    PROVE  SweepInv'
  <1>1. PICK pc \in {"idle", "build"}, name \in {Incremental("hourly"), Incremental("daily")} :
           Becomes(w, pc, name, {}, {}, Never)
    OBVIOUS
  <1>2. clock' \in Nat /\ mtime' \in Times
    BY DEF SweepInv, BackupTypes
  <1>3. /\ GhostShape' /\ ghost'.lister = ghost.lister /\ ghost'.tidy = ghost.tidy
        /\ ghost'.incidents = ghost.incidents
        /\ VerifiedOnce' => VerifiedOnce
    BY GhostSame DEF SweepInv
  <1>4. name \in Proper /\ ~IsDated(name) /\ pc \in Labels /\ pc \notin {"write", "verify", "prune", "cap"}
    BY <1>1, IdleIs
  <1>5. DatedIn({}) \subseteq DatedIn(writer[w].doomed) /\ {} \subseteq writer[w].kept
    BY DEF DatedIn
  <1>. QED  BY <1>1, <1>2, <1>3, <1>4, <1>5, IdleIs, Settles

(* An archive that cannot be built, written or verified, and a file that    *)
(* cannot be deleted, end the run of their writer; what VerifyBackup        *)
(* removes is not safe yet, since its own writer was still verifying it.    *)
LEMMA GivesUpStep ==
    ASSUME SweepInv, NEW w \in Writers, BuildFails(w) \/ WriteFails(w) \/ VerifyFails(w) \/ RemoveFails(w)
    PROVE  SweepInv'
  <1>0. BackupTypes /\ good \subseteq files
    BY DEF SweepInv, BackupTypes
  <1>1. CASE BuildFails(w) \/ WriteFails(w)
    <2>1. Return(w) /\ UNCHANGED <<clock, mtime, files, good, ghost>>
      BY <1>1 DEF BuildFails, WriteFails
    <2>2. good' \subseteq files' /\ files' \subseteq files /\ \A f \in DatedIn(good) : Safe(f) => f \in good'
      BY <1>0, <2>1 DEF DatedIn
    <2>. QED  BY <2>1, <2>2, Returns, LeavesStep
  <1>2. CASE VerifyFails(w)
    <2>1. /\ Return(w) /\ UNCHANGED <<clock, mtime, ghost>> /\ files' = files \ {writer[w].name}
          /\ good' = good \ {writer[w].name} /\ writer[w].pc = "verify"
      BY <1>2 DEF VerifyFails, At
    <2>2. good' \subseteq files' /\ files' \subseteq files
      BY <1>0, <2>1
    <2>3. \A f \in DatedIn(good) : Safe(f) => f \in good'
      BY <2>1 DEF DatedIn, Safe
    <2>. QED  BY <2>1, <2>2, <2>3, Returns, LeavesStep
  <1>3. CASE RemoveFails(w)
    <2>1. NextArchive(w) /\ UNCHANGED <<clock, mtime, files, good, ghost>>
      BY <1>3 DEF RemoveFails
    <2>2. good' \subseteq files' /\ files' \subseteq files /\ \A f \in DatedIn(good) : Safe(f) => f \in good'
      BY <1>0, <2>1 DEF DatedIn
    <2>3. \/ Becomes(w, "idle", Incremental("hourly"), {}, {}, Never)
          \/ Becomes(w, "build", Incremental("daily"), {}, {}, Never)
      BY <1>0, <2>1, GoesOn
    <2>. QED  BY <2>1, <2>2, <2>3, LeavesStep
  <1>. QED  BY <1>1, <1>2, <1>3

(* Completing the archive adds a complete one and deletes nothing.          *)
LEMMA WriteFileStep ==
    ASSUME SweepInv, NEW w \in Writers, WriteFile(w)
    PROVE  SweepInv'
  <1>0. BackupTypes /\ good \subseteq files /\ clock \in Nat /\ mtime \in Times
    BY DEF SweepInv, BackupTypes
  <1>1. /\ Goto(w, "verify") /\ UNCHANGED <<clock, files, ghost>> /\ writer[w].pc = "write"
        /\ good' = IF writer[w].name \in files THEN good \cup {writer[w].name} ELSE good
        /\ mtime' = IF IsDated(writer[w].name) THEN mtime ELSE [mtime EXCEPT ![writer[w].name.kind] = clock]
    BY DEF WriteFile, At
  <1>2. good' \subseteq files' /\ files' \subseteq files /\ \A f \in DatedIn(good) : Safe(f) => f \in good'
    BY <1>0, <1>1 DEF DatedIn
  <1>3. mtime' \in Times
    <2>1. writer[w].name \in Names
      BY <1>0, WriterIs DEF Proper
    <2>2. writer[w].name.kind \in {"dated", "daily", "hourly"}
      BY <2>1, NamesAre
    <2>. QED  BY <1>0, <1>1, <2>2 DEF Times, Incrementals
  <1>4. Becomes(w, "verify", writer[w].name, writer[w].kept, writer[w].doomed, writer[w].times)
    BY <1>0, <1>1, GoesTo
  <1>5. /\ GhostShape' /\ ghost'.lister = ghost.lister /\ ghost'.tidy = ghost.tidy
        /\ ghost'.incidents = ghost.incidents
        /\ VerifiedOnce' => VerifiedOnce
    BY <1>1, GhostSame DEF SweepInv
  <1>6. PICK n, k, d, t : n = writer[w].name /\ k = writer[w].kept /\ d = writer[w].doomed /\ t = writer[w].times
    OBVIOUS
  <1>7. /\ n \in Proper /\ k \in SUBSET DatedIn(Names) /\ IsFiniteSet(k)
        /\ d \in SUBSET Proper /\ IsFiniteSet(d) /\ t \in Times
    BY <1>0, <1>6, WriterIs
  <1>8. Becomes(w, "verify", n, k, d, t) /\ clock' \in Nat /\ "verify" \in Labels
    BY <1>0, <1>1, <1>4, <1>6, IdleIs
  <1>9. PICK p : p = "verify"
    OBVIOUS
  <1>10. Becomes(w, p, n, k, d, t) /\ clock' \in Nat /\ p \in Labels
    BY <1>8, <1>9
  <1>11. /\ k \subseteq writer[w].kept /\ DatedIn(d) \subseteq DatedIn(writer[w].doomed)
         /\ n = writer[w].name \/ ~IsDated(n)
         /\ p \in {"write", "verify"} => writer[w].pc \in {"write", "verify"} /\ writer[w].name = n
         /\ p \in {"prune", "cap"} => /\ p = writer[w].pc /\ k = writer[w].kept
                                      /\ files' \ d \subseteq files \ writer[w].doomed
    BY <1>1, <1>6, <1>9
  <1>. QED  BY <1>2, <1>3, <1>5, <1>7, <1>10, <1>11, Settles

(* A deletion of applyRetention takes an archive that is older than the     *)
(* safe one, and one that was too much.                                     *)
LEMMA RemoveStep ==
    ASSUME SweepInv, NEW w \in Writers, Remove(w)
    PROVE  SweepInv'
  <1>0. BackupTypes /\ good \subseteq files /\ clock \in Nat /\ mtime \in Times
    BY DEF SweepInv, BackupTypes
  <1>1. PICK f, n, k, d, t, p :
           /\ f = NextDoomed(w) /\ n = writer[w].name /\ k = writer[w].kept /\ d = writer[w].doomed \ {f}
           /\ t = writer[w].times /\ p = writer[w].pc
    OBVIOUS
  <1>2. /\ f \in writer[w].doomed /\ f \in files /\ files' = files \ {f} /\ good' = good \ {f}
        /\ Becomes(w, p, n, k, d, t)
    BY <1>0, <1>1, Removes
  <1>3. UNCHANGED <<clock, mtime, ghost>> /\ p \in {"prune", "cap"}
    BY <1>1 DEF Remove, Sweeping
  <1>4. /\ n \in Proper /\ k \in SUBSET DatedIn(Names) /\ IsFiniteSet(k)
        /\ d \in SUBSET Proper /\ IsFiniteSet(d) /\ t \in Times /\ p \in Labels
    <2>1. /\ n \in Proper /\ k \in SUBSET DatedIn(Names) /\ IsFiniteSet(k)
          /\ writer[w].doomed \in SUBSET Proper /\ IsFiniteSet(writer[w].doomed) /\ t \in Times /\ p \in Labels
      BY <1>0, <1>1, WriterIs
    <2>2. d \subseteq writer[w].doomed
      BY <1>1
    <2>. QED  BY <2>1, <2>2, FS_Subset
  <1>5. /\ GhostShape' /\ ghost'.lister = ghost.lister /\ ghost'.tidy = ghost.tidy
        /\ ghost'.incidents = ghost.incidents
        /\ VerifiedOnce' => VerifiedOnce
    BY <1>3, GhostSame DEF SweepInv
  <1>6. good' \subseteq files' /\ files' \subseteq files /\ clock' \in Nat /\ mtime' \in Times
    BY <1>0, <1>2, <1>3
  <1>7. \A h \in DatedIn(good) : Safe(h) => h \in good'
    <2>. SUFFICES ASSUME NEW h \in DatedIn(good), Safe(h) PROVE h # f
      BY <1>2 DEF DatedIn
    <2>1. IsDated(h) /\ h.at \in Nat
      BY <1>0, NamesAre DEF DatedIn, BackupTypes, Proper
    <2>2. IsDated(f) => f.at < h.at
      BY <1>2 DEF Safe, DatedIn
    <2>. QED  BY <2>1, <2>2
  <1>8. files' \ d \subseteq files \ writer[w].doomed
    BY <1>1, <1>2
  <1>9. DatedIn(d) \subseteq DatedIn(writer[w].doomed) /\ k \subseteq writer[w].kept
    BY <1>1 DEF DatedIn
  <1>10. /\ n = writer[w].name \/ ~IsDated(n)
         /\ p \in {"write", "verify"} => writer[w].pc \in {"write", "verify"} /\ writer[w].name = n
         /\ p \in {"prune", "cap"} => /\ p = writer[w].pc /\ k = writer[w].kept
                                      /\ files' \ d \subseteq files \ writer[w].doomed
    BY <1>1, <1>3, <1>8
  <1>. QED  BY <1>2, <1>4, <1>5, <1>6, <1>7, <1>9, <1>10, Settles

(* CreateBackupArchive starts: a name of its own.                           *)
LEMMA TargetIs ==
    ASSUME SweepInv, NEW w \in Writers, Start(w)
    PROVE  /\ Target(w) \in Proper /\ Becomes(w, "build", Target(w), {}, {}, Never)
           /\ IsDated(Target(w)) =>
                 /\ w = "daily" => Target(w).at = Midnight(Target(w).at)
                 /\ w # "daily" => /\ Target(w).at # Midnight(Target(w).at)
                                   /\ \A v \in Writers : writer[v].name # Target(w)
  <1>1. clock \in Nat
    BY DEF SweepInv, BackupTypes
  <1>2. Midnight(clock) \in Nat /\ Midnight(Midnight(clock)) = Midnight(clock)
    BY <1>1, DayStarts DEF Midnight
  <1>3. Becomes(w, "build", Target(w), {}, {}, Never)
    <2>1. PICK f : f = Target(w)
      OBVIOUS
    <2>2. writer' = [writer EXCEPT ![w] = [Idle EXCEPT !.pc = "build", !.name = f]]
      BY <2>1, Zenon DEF Start
    <2>3. [Idle EXCEPT !.pc = "build", !.name = f]
             = [pc |-> "build", name |-> f, kept |-> {}, doomed |-> {}, times |-> Never]
      BY BuildingIs, Zenon
    <2>4. PICK x : x = [Idle EXCEPT !.pc = "build", !.name = f]
      OBVIOUS
    <2>. QED  BY <2>1, <2>2, <2>3, <2>4, Zenon DEF Becomes
  <1>4. \A t \in Nat : Dated(t) \in Proper /\ Dated(t).at = t
    BY DEF Dated, Proper, Names, IsDated
  <1>5. CASE w = "daily"
    <2>1. Target(w) = Dated(Midnight(clock))
      BY <1>5 DEF Target
    <2>. QED  BY <1>2, <1>3, <1>4, <1>5, <2>1
  <1>6. CASE w = "hourly"
    <2>1. Target(w) = Incremental("hourly")
      BY <1>6 DEF Target
    <2>. QED  BY <1>3, <2>1, IdleIs
  <1>7. CASE w \in {"admin", "cli"}
    <2>1. Target(w) = Dated(clock) /\ w # "daily"
      BY <1>7 DEF Target
    <2>2. clock # Midnight(clock) /\ \A v \in Writers : writer[v].name # Dated(clock)
      BY <1>7 DEF Start
    <2>. QED  BY <1>1, <1>3, <1>4, <2>1, <2>2
  <1>. QED  BY <1>5, <1>6, <1>7 DEF Writers, Server

(* CreateBackupArchive starts under a name that no other writer uses.       *)
LEMMA StartStep ==
    ASSUME SweepInv, NEW w \in Writers, Start(w)
    PROVE  SweepInv'
  <1>0. /\ BackupTypes /\ OwnNames /\ Spared /\ Tidying /\ LimitsHold /\ GhostShape
        /\ UNCHANGED <<clock, files, good, mtime, ghost>>
    BY DEF SweepInv, Start
  <1>1. PICK n : n = Target(w)
    OBVIOUS
  <1>2. n \in Proper /\ Becomes(w, "build", n, {}, {}, Never)
    BY <1>1, TargetIs
  <1>3. IsDated(n) =>
           /\ w = "daily" => n.at = Midnight(n.at)
           /\ w # "daily" => n.at # Midnight(n.at) /\ \A v \in Writers : writer[v].name # n
    BY <1>1, TargetIs
  <1>4. /\ writer' \in [Writers -> WriterStates]
        /\ \A v \in Writers : IsFiniteSet(writer'[v].kept) /\ IsFiniteSet(writer'[v].doomed)
        /\ writer'[w].pc = "build" /\ writer'[w].name = n /\ writer'[w].kept = {}
        /\ writer'[w].doomed = {} /\ \A v \in Writers \ {w} : writer'[v] = writer[v]
    BY <1>0, <1>2, IdleIs, WriterBecomes
  <1>5. BackupTypes'
    BY <1>0, <1>4 DEF BackupTypes
  <1>6. OwnNames'
    <2>1. ASSUME NEW u \in Writers, IsDated(writer'[u].name)
          PROVE  /\ u = "daily" => writer'[u].name.at = Midnight(writer'[u].name.at)
                 /\ u # "daily" => writer'[u].name.at # Midnight(writer'[u].name.at)
      BY <1>0, <1>3, <1>4, <2>1 DEF OwnNames
    <2>2. ASSUME NEW v \in Writers, IsDated(n), writer[v].name = n, v # w PROVE FALSE
      <3>1. w = "daily"
        BY <1>3, <2>2
      <3>2. n.at = Midnight(n.at)
        BY <1>3, <2>2, <3>1
      <3>3. n.at # Midnight(n.at)
        BY <1>0, <2>2, <3>1 DEF OwnNames
      <3>. QED  BY <3>2, <3>3
    <2>3. ASSUME NEW v \in Writers, NEW u \in Writers, IsDated(writer'[u].name), writer'[v].name = writer'[u].name
          PROVE  v = u
      BY <1>0, <1>4, <2>2, <2>3 DEF OwnNames
    <2>. QED  BY <2>1, <2>3 DEF OwnNames, IsDated, Midnight, Day
  <1>7. /\ GhostShape' /\ ghost'.lister = ghost.lister /\ ghost'.tidy = ghost.tidy
        /\ ghost'.incidents = ghost.incidents
        /\ VerifiedOnce' => VerifiedOnce
    BY <1>0, GhostSame
  <1>8. Spared'
    <2>1. ASSUME NEW v \in Writers
          PROVE  /\ writer'[v].kept \subseteq writer[v].kept
                 /\ DatedIn(writer'[v].doomed) \subseteq DatedIn(writer[v].doomed)
                 /\ writer'[v].pc \in {"write", "verify"} =>
                       writer[v].pc \in {"write", "verify"} /\ writer[v].name = writer'[v].name
      BY <1>4 DEF DatedIn
    <2>2. \A f \in DatedIn(good) : Safe(f) => f \in good'
      BY <1>0 DEF DatedIn
    <2>. QED  BY <1>0, <1>7, <2>1, <2>2, SparedStays
  <1>9. Tidying'
    <2>1. ASSUME NEW v \in Writers, writer'[v].pc \in {"prune", "cap"}
          PROVE  /\ writer'[v].pc = writer[v].pc /\ writer'[v].kept = writer[v].kept
                 /\ files' \ writer'[v].doomed \subseteq files \ writer[v].doomed
      BY <1>0, <1>4, <2>1
    <2>2. files' \subseteq files
      BY <1>0
    <2>. QED  BY <1>0, <1>7, <2>1, <2>2, TidyingStays
  <1>10. LimitsHold'
    <2>1. files' \subseteq files
      BY <1>0
    <2>. QED  BY <1>0, <1>7, <2>1, LimitsStay
  <1>. QED  BY <1>5, <1>6, <1>7, <1>8, <1>9, <1>10 DEF SweepInv

(* os.WriteFile opens the archive: the listing of any sweep is out of date. *)
LEMMA OpenStep ==
    ASSUME SweepInv, NEW w \in Writers, OpenFile(w)
    PROVE  SweepInv'
  <1>0. BackupTypes /\ OwnNames /\ Spared /\ GhostShape
    BY DEF SweepInv
  <1>1. PICK n, k, d, t : n = writer[w].name /\ k = writer[w].kept /\ d = writer[w].doomed /\ t = writer[w].times
    OBVIOUS
  <1>2. /\ n \in Proper /\ k \in SUBSET DatedIn(Names) /\ IsFiniteSet(k)
        /\ d \in SUBSET Proper /\ IsFiniteSet(d) /\ t \in Times
    BY <1>0, <1>1, WriterIs
  <1>3. Goto(w, "write") /\ UNCHANGED <<clock, mtime>> /\ files' = files \cup {n} /\ good' = good \ {n}
    BY <1>1 DEF OpenFile
  <1>4. Becomes(w, "write", n, k, d, t)
    BY <1>0, <1>1, <1>3, GoesTo
  <1>5. /\ writer' \in [Writers -> WriterStates]
        /\ \A v \in Writers : IsFiniteSet(writer'[v].kept) /\ IsFiniteSet(writer'[v].doomed)
        /\ writer'[w].pc = "write" /\ writer'[w].name = n /\ writer'[w].kept = k
        /\ writer'[w].doomed = d /\ \A v \in Writers \ {w} : writer'[v] = writer[v]
    BY <1>0, <1>2, <1>4, IdleIs, WriterBecomes
  <1>6. /\ GhostShape' /\ ghost'.lister = "none" /\ ghost'.tidy = "none" /\ ghost'.verified = ghost.verified
        /\ ghost'.incidents = {} => ghost.incidents = {} /\ n \notin DatedIn(good)
    BY <1>0, <1>1, OpenGhost
  <1>7. BackupTypes'
    <2>1. clock' \in Nat /\ mtime' \in Times /\ files \subseteq Proper /\ IsFiniteSet(files) /\ good \subseteq files
      BY <1>0, <1>3 DEF BackupTypes
    <2>2. IsFiniteSet(files \cup {n})
      BY <2>1, FS_AddElement
    <2>3. files' \subseteq Proper /\ IsFiniteSet(files') /\ good' \subseteq files'
      BY <1>2, <1>3, <2>1, <2>2
    <2>. QED  BY <1>5, <2>1, <2>3 DEF BackupTypes
  <1>8. OwnNames'
    <2>1. \A v \in Writers : writer'[v].name = writer[v].name \/ ~IsDated(writer'[v].name)
      BY <1>1, <1>5
    <2>. QED  BY <1>0, <2>1, NamesStay
  <1>9. Spared'
    <2>1. ASSUME NEW v \in Writers
          PROVE  /\ writer'[v].kept \subseteq writer[v].kept
                 /\ DatedIn(writer'[v].doomed) \subseteq DatedIn(writer[v].doomed)
                 /\ writer'[v].pc \in {"write", "verify"} =>
                       \/ writer[v].pc \in {"write", "verify"} /\ writer[v].name = writer'[v].name
                       \/ writer'[v].name \notin DatedIn(good) \/ ghost'.incidents # {}
      BY <1>1, <1>5, <1>6
    <2>2. ghost'.incidents = {} => \A f \in DatedIn(good) : Safe(f) => f \in good'
      BY <1>3, <1>6 DEF DatedIn
    <2>3. VerifiedOnce' => VerifiedOnce
      BY <1>6, Zenon DEF VerifiedOnce
    <2>. QED  BY <1>0, <1>6, <2>1, <2>2, <2>3, SparedStays
  <1>10. Tidying'
    BY <1>6, IdleIs DEF Tidying
  <1>11. LimitsHold'
    BY <1>6 DEF LimitsHold
  <1>. QED  BY <1>6, <1>7, <1>8, <1>9, <1>10, <1>11 DEF SweepInv

(* An archive that passes verification is safe when it is the first.        *)
LEMMA VerifyStep ==
    ASSUME SweepInv, NEW w \in Writers, VerifyPasses(w)
    PROVE  SweepInv'
  <1>0. BackupTypes /\ OwnNames /\ Spared /\ Tidying /\ LimitsHold /\ GhostShape
    BY DEF SweepInv
  <1>1. PICK n, k, d, t : n = writer[w].name /\ k = writer[w].kept /\ d = writer[w].doomed /\ t = writer[w].times
    OBVIOUS
  <1>2. /\ n \in Proper /\ k \in SUBSET DatedIn(Names) /\ IsFiniteSet(k)
        /\ d \in SUBSET Proper /\ IsFiniteSet(d) /\ t \in Times
    BY <1>0, <1>1, WriterIs
  <1>3. /\ Goto(w, "list") /\ UNCHANGED <<clock, files, good, mtime>> /\ n \in good /\ writer[w].pc = "verify"
    BY <1>1 DEF VerifyPasses, At
  <1>4. Becomes(w, "list", n, k, d, t)
    BY <1>0, <1>1, <1>3, GoesTo
  <1>5. /\ writer' \in [Writers -> WriterStates]
        /\ \A v \in Writers : IsFiniteSet(writer'[v].kept) /\ IsFiniteSet(writer'[v].doomed)
        /\ writer'[w].pc = "list" /\ writer'[w].name = n /\ writer'[w].kept = k
        /\ writer'[w].doomed = d /\ \A v \in Writers \ {w} : writer'[v] = writer[v]
    BY <1>0, <1>2, <1>4, IdleIs, WriterBecomes
  <1>6. /\ GhostShape' /\ ghost'.lister = ghost.lister /\ ghost'.tidy = ghost.tidy
        /\ VerifiedOnce' <=> VerifiedOnce \/ IsDated(n)
        /\ ghost'.incidents = ghost.incidents
    BY <1>0, <1>1, VerifyGhost
  <1>7. BackupTypes'
    BY <1>0, <1>3, <1>5 DEF BackupTypes
  <1>8. OwnNames'
    <2>1. \A v \in Writers : writer'[v].name = writer[v].name \/ ~IsDated(writer'[v].name)
      BY <1>1, <1>5
    <2>. QED  BY <1>0, <2>1, NamesStay
  <1>9. Spared'
    <2>1. ASSUME NEW v \in Writers
          PROVE  /\ writer'[v].kept = writer[v].kept /\ writer'[v].doomed = writer[v].doomed
                 /\ writer'[v].name = writer[v].name
                 /\ writer'[v].pc \in {"write", "verify"} =>
                       writer[v].pc \in {"write", "verify"} /\ writer[v].name = writer'[v].name
      BY <1>1, <1>5
    <2>2. \A f \in DatedIn(good) : Safe(f) => f \in good'
      BY <1>3 DEF DatedIn
    <2>3. CASE VerifiedOnce \/ ~IsDated(n)
      <3>1. VerifiedOnce' => VerifiedOnce
        BY <1>6, <2>3, Zenon
      <3>. QED  BY <1>0, <1>6, <2>1, <2>2, <3>1, SparedStays
    <2>4. CASE IsDated(n) /\ ~SweepsDated
      <3>1. n \in DatedIn(good')
        BY <1>3, <2>4 DEF DatedIn
      <3>2. \A v \in Writers : writer'[v].kept = {} /\ DatedIn(writer'[v].doomed) = {}
        BY <2>1, <2>4 DEF SweepsDated
      <3>3. ASSUME NEW v \in Writers, writer'[v].pc \in {"write", "verify"} PROVE writer'[v].name # n
        BY <1>0, <1>1, <1>5, <2>1, <2>4, <3>3 DEF OwnNames
      <3>4. Safe(n)'
        BY <3>2, <3>3 DEF Safe, DatedIn
      <3>5. \E f \in DatedIn(good') : Safe(f)'
        BY <3>1, <3>4
      <3>. QED  BY <3>5 DEF Spared, DatedIn
    <2>5. CASE SweepsDated
      <3>. SUFFICES ASSUME ghost'.incidents = {}, CapsLeaveRoom PROVE \E f \in DatedIn(good') : Safe(f)'
        BY DEF Spared, CapsLeaveRoom, RoomUnder, DatedIn, Safe
      <3>1. PICK f \in DatedIn(good) : Safe(f)
        BY <1>0, <1>6, <2>5, Zenon DEF Spared
      <3>2. Safe(f)'
        BY <2>1, <3>1 DEF Safe, DatedIn
      <3>3. f \in DatedIn(good')
        BY <1>3, <3>1 DEF DatedIn
      <3>. QED  BY <3>2, <3>3
    <2>. QED  BY <2>3, <2>4, <2>5, Zenon
  <1>10. files' \subseteq files
    BY <1>3
  <1>11. Tidying'
    <2>1. ASSUME NEW v \in Writers, writer'[v].pc \in {"prune", "cap"}
          PROVE  /\ writer'[v].pc = writer[v].pc /\ writer'[v].kept = writer[v].kept
                 /\ files' \ writer'[v].doomed \subseteq files \ writer[v].doomed
      BY <1>3, <1>5, <2>1
    <2>. QED  BY <1>0, <1>6, <1>10, <2>1, TidyingStays
  <1>12. LimitsHold'
    BY <1>0, <1>6, <1>10, LimitsStay
  <1>. QED  BY <1>6, <1>7, <1>8, <1>9, <1>11, <1>12 DEF SweepInv

(* The end of a sweep: what it listed last is within the limits.            *)
LEMMA DoneStep ==
    ASSUME SweepInv, NEW w \in Writers, SweepDone(w)
    PROVE  SweepInv'
  <1>0. BackupTypes /\ OwnNames /\ Spared /\ Tidying /\ LimitsHold /\ GhostShape
    BY DEF SweepInv
  <1>1. /\ NextArchive(w) /\ UNCHANGED <<clock, files, good, mtime>> /\ writer[w].pc = "cap"
        /\ writer[w].doomed = {}
    BY DEF SweepDone, At
  <1>2. \/ Becomes(w, "idle", Incremental("hourly"), {}, {}, Never)
        \/ Becomes(w, "build", Incremental("daily"), {}, {}, Never)
    BY <1>0, <1>1, GoesOn
  <1>3. PICK p \in {"idle", "build"}, n \in {Incremental("hourly"), Incremental("daily")} :
           Becomes(w, p, n, {}, {}, Never)
    BY <1>2
  <1>4. p \in Labels /\ n \in Proper /\ ~IsDated(n)
    BY <1>3, IdleIs
  <1>5. /\ writer' \in [Writers -> WriterStates]
        /\ \A v \in Writers : IsFiniteSet(writer'[v].kept) /\ IsFiniteSet(writer'[v].doomed)
        /\ writer'[w].pc = p /\ writer'[w].name = n /\ writer'[w].kept = {}
        /\ writer'[w].doomed = {} /\ \A v \in Writers \ {w} : writer'[v] = writer[v]
    BY <1>0, <1>3, <1>4, IdleIs, WriterBecomes
  <1>6. /\ GhostShape' /\ ghost'.lister = ghost.lister /\ ghost'.incidents = ghost.incidents
        /\ ghost'.verified = ghost.verified /\ ghost'.tidy = IF ghost.lister = w THEN w ELSE ghost.tidy
    BY <1>0, DoneGhost
  <1>7. BackupTypes'
    BY <1>0, <1>1, <1>5 DEF BackupTypes
  <1>8. OwnNames'
    <2>1. \A v \in Writers : writer'[v].name = writer[v].name \/ ~IsDated(writer'[v].name)
      BY <1>4, <1>5
    <2>. QED  BY <1>0, <2>1, NamesStay
  <1>9. Spared'
    <2>1. ASSUME NEW v \in Writers
          PROVE  /\ writer'[v].kept \subseteq writer[v].kept
                 /\ DatedIn(writer'[v].doomed) \subseteq DatedIn(writer[v].doomed)
                 /\ writer'[v].pc \in {"write", "verify"} =>
                       writer[v].pc \in {"write", "verify"} /\ writer[v].name = writer'[v].name
      BY <1>3, <1>5 DEF DatedIn
    <2>2. \A f \in DatedIn(good) : Safe(f) => f \in good'
      BY <1>1 DEF DatedIn
    <2>3. VerifiedOnce' => VerifiedOnce
      BY <1>6, Zenon DEF VerifiedOnce
    <2>. QED  BY <1>0, <1>6, <2>1, <2>2, <2>3, SparedStays
  <1>10. files' \subseteq files
    BY <1>1
  <1>11. Tidying'
    <2>1. ASSUME NEW v \in Writers, writer'[v].pc \in {"prune", "cap"}
          PROVE  /\ writer'[v].pc = writer[v].pc /\ writer'[v].kept = writer[v].kept
                 /\ files' \ writer'[v].doomed \subseteq files \ writer[v].doomed
      BY <1>1, <1>3, <1>5, <2>1
    <2>. QED  BY <1>0, <1>6, <1>10, <2>1, TidyingStays
  <1>12. LimitsHold'
    <2>1. CASE ghost.lister = w
      <3>1. /\ Cardinality(DatedIn(files)) <= Limit(PolicyOf(w))
            /\ PolicyOf(w).cap > 0 => Cardinality(files \ writer[w].doomed) <= PolicyOf(w).cap
        BY <1>0, <1>1, <2>1 DEF Tidying
      <3>2. files \ writer[w].doomed = files
        BY <1>1
      <3>3. ghost'.tidy = w
        BY <1>6, <2>1
      <3>. QED  BY <1>1, <3>1, <3>2, <3>3 DEF LimitsHold, DatedIn
    <2>2. CASE ghost.lister # w
      <3>1. ghost'.tidy = ghost.tidy
        BY <1>6, <2>2
      <3>. QED  BY <1>0, <1>10, <3>1, LimitsStay
    <2>. QED  BY <2>1, <2>2
  <1>. QED  BY <1>6, <1>7, <1>8, <1>9, <1>11, <1>12 DEF SweepInv

(* listRetainedBackups: the latest of the archives listed is kept, and is   *)
(* later than all that another sweep goes on to delete.                     *)
LEMMA ListStep ==
    ASSUME SweepInv, NEW w \in Writers, ListRetained(w)
    PROVE  SweepInv'
  <1>0. BackupTypes /\ OwnNames /\ Spared /\ Tidying /\ LimitsHold /\ GhostShape
    BY DEF SweepInv
  <1>1. PICK list, k, d, n, t : /\ list = DatedIn(files) /\ k = Keep(DatedIn(files), PolicyOf(w))
                                /\ d = list \ k /\ n = writer[w].name /\ t = writer[w].times
    OBVIOUS
  <1>2. list \in SUBSET DatedIn(Names) /\ list \subseteq files /\ list \subseteq Proper /\ IsFiniteSet(list)
    <2>1. list \subseteq files /\ files \subseteq Proper /\ IsFiniteSet(files)
      BY <1>0, <1>1 DEF BackupTypes, DatedIn
    <2>2. list \in SUBSET DatedIn(Names)
      BY <1>1, <2>1 DEF DatedIn, Proper
    <2>. QED  BY <2>1, <2>2, FS_Subset
  <1>3. /\ k \subseteq list /\ IsFiniteSet(k) /\ Cardinality(k) <= Limit(PolicyOf(w))
        /\ list # {} => \E f \in k : \A g \in list \ {f} : g.at < f.at
    BY <1>1, <1>2, KeepIs
  <1>4. /\ n \in Proper /\ k \in SUBSET DatedIn(Names) /\ d \in SUBSET Proper /\ IsFiniteSet(d) /\ t \in Times
    <2>1. d \subseteq list
      BY <1>1
    <2>2. n \in Proper /\ t \in Times
      BY <1>0, <1>1, WriterIs
    <2>. QED  BY <1>2, <1>3, <2>1, <2>2, FS_Subset
  <1>5. UNCHANGED <<clock, files, good, mtime>> /\ Becomes(w, "prune", n, k, d, t)
    <2>1. writer' = [writer EXCEPT ![w].pc = "prune", ![w].kept = k, ![w].doomed = d]
      BY <1>1, Zenon DEF ListRetained
    <2>2. Becomes(w, "prune", writer[w].name, k, d, writer[w].times)
      BY <1>0, <2>1, Lists, Zenon
    <2>3. UNCHANGED <<clock, files, good, mtime>>
      BY DEF ListRetained
    <2>. QED  BY <1>1, <2>2, <2>3
  <1>6. /\ writer' \in [Writers -> WriterStates]
        /\ \A v \in Writers : IsFiniteSet(writer'[v].kept) /\ IsFiniteSet(writer'[v].doomed)
        /\ writer'[w].pc = "prune" /\ writer'[w].name = n /\ writer'[w].kept = k
        /\ writer'[w].doomed = d /\ \A v \in Writers \ {w} : writer'[v] = writer[v]
    BY <1>0, <1>3, <1>4, <1>5, IdleIs, WriterBecomes
  <1>7. /\ GhostShape' /\ ghost'.lister = w /\ ghost'.tidy = ghost.tidy /\ ghost'.verified = ghost.verified
        /\ ghost'.incidents = {} => ghost.incidents = {} /\ \A f \in k : ~Unverified(f)
    BY <1>0, <1>1, ListGhost
  <1>8. BackupTypes'
    BY <1>0, <1>5, <1>6 DEF BackupTypes
  <1>9. OwnNames'
    <2>1. \A v \in Writers : writer'[v].name = writer[v].name \/ ~IsDated(writer'[v].name)
      BY <1>1, <1>6
    <2>. QED  BY <1>0, <2>1, NamesStay
  <1>10. VerifiedOnce' => VerifiedOnce
    BY <1>7, Zenon DEF VerifiedOnce
  <1>11. Spared'
    <2>1. CASE list = {}
      <3>1. k = {} /\ d = {}
        BY <1>1, <1>3, <2>1
      <3>2. ASSUME NEW v \in Writers
            PROVE  /\ writer'[v].kept \subseteq writer[v].kept
                   /\ DatedIn(writer'[v].doomed) \subseteq DatedIn(writer[v].doomed)
                   /\ writer'[v].pc \in {"write", "verify"} =>
                         writer[v].pc \in {"write", "verify"} /\ writer[v].name = writer'[v].name
        BY <1>6, <3>1 DEF DatedIn
      <3>3. \A f \in DatedIn(good) : Safe(f) => f \in good'
        BY <1>5 DEF DatedIn
      <3>. QED  BY <1>0, <1>7, <1>10, <3>2, <3>3, SparedStays
    <2>2. CASE list # {}
      <3>. SUFFICES ASSUME ghost'.incidents = {}, CapsLeaveRoom PROVE \E f \in DatedIn(good') : Safe(f)'
        BY DEF Spared, CapsLeaveRoom, RoomUnder, DatedIn, Safe
      <3>1. PICK f \in k : \A g \in list \ {f} : g.at < f.at
        BY <1>3, <2>2
      <3>2. f \in good /\ \A v \in Writers : writer[v].pc \in {"write", "verify"} => writer[v].name # f
        BY <1>7, <3>1 DEF Unverified
      <3>3. f \in DatedIn(good')
        BY <1>3, <1>1, <1>5, <3>1, <3>2 DEF DatedIn
      <3>4. \A g \in list : g.at \in Nat
        BY <1>2, NamesAre DEF DatedIn
      <3>5. ASSUME NEW v \in Writers, v # w
            PROVE  /\ \A g \in writer[v].kept : g.at <= f.at
                   /\ \A g \in DatedIn(writer[v].doomed) : g.at < f.at
        <4>. SUFFICES ASSUME SweepsDated
                      PROVE  /\ \A g \in writer[v].kept : g.at <= f.at
                             /\ \A g \in DatedIn(writer[v].doomed) : g.at < f.at
          BY DEF SweepsDated
        <4>1. PICK h \in DatedIn(good) : Safe(h)
          BY <1>0, <1>7, Zenon DEF Spared
        <4>2. h \in list
          BY <1>0, <1>1 DEF DatedIn, BackupTypes
        <4>3. h.at <= f.at /\ h.at \in Nat /\ f.at \in Nat
          BY <1>3, <3>1, <3>4, <4>2
        <4>4. \A g \in writer[v].kept \cup writer[v].doomed : g.at \in Nat
          <5>1. writer[v].kept \subseteq Names /\ writer[v].doomed \subseteq Names
            BY <1>0, WriterIs DEF DatedIn, Proper
          <5>. QED  BY <5>1, NamesAre
        <4>5. \A g \in writer[v].kept : g.at <= h.at
          BY <4>1 DEF Safe
        <4>6. \A g \in DatedIn(writer[v].doomed) : g.at < h.at
          BY <4>1 DEF Safe
        <4>7. \A g \in DatedIn(writer[v].doomed) : g \in writer[v].doomed
          BY DEF DatedIn
        <4>. QED  BY <4>3, <4>4, <4>5, <4>6, <4>7
      <3>6. /\ \A g \in k : g.at <= f.at
            /\ \A g \in DatedIn(d) : g.at < f.at
        <4>1. \A g \in list : g.at <= f.at
          BY <1>3, <3>1, <3>4
        <4>2. DatedIn(d) \subseteq list \ {f}
          BY <1>1, <3>1 DEF DatedIn
        <4>. QED  BY <1>3, <3>1, <4>1, <4>2
      <3>7. ASSUME NEW v \in Writers
            PROVE  /\ writer'[v].pc \in {"write", "verify"} => writer'[v].name # f
                   /\ \A g \in writer'[v].kept : g.at <= f.at
                   /\ \A g \in DatedIn(writer'[v].doomed) : g.at < f.at
        BY <1>6, <3>2, <3>5, <3>6
      <3>8. Safe(f)'
        BY <3>7 DEF Safe, DatedIn
      <3>. QED  BY <3>3, <3>8
    <2>. QED  BY <2>1, <2>2
  <1>12. Tidying'
    <2>1. DatedIn(files') \ writer'[w].doomed \subseteq writer'[w].kept
      BY <1>1, <1>5, <1>6
    <2>2. Cardinality(writer'[w].kept) <= Limit(PolicyOf(w))
      BY <1>3, <1>6
    <2>. QED  BY <1>6, <1>7, <2>1, <2>2 DEF Tidying, DatedIn
  <1>13. LimitsHold'
    <2>1. files' \subseteq files
      BY <1>5
    <2>. QED  BY <1>0, <1>7, <2>1, LimitsStay
  <1>. QED  BY <1>7, <1>8, <1>9, <1>11, <1>12, <1>13 DEF SweepInv

(* Of some dated archives one is the latest.                                *)
LEMMA LatestIs ==
    ASSUME NEW S \in SUBSET DatedIn(Names), IsFiniteSet(S), S # {}
    PROVE  \E f \in S : \A g \in S \ {f} : g.at < f.at
  <1>1. PICK one \in Nat : one = 1
    OBVIOUS
  <1>2. PICK f \in Newest(S, one) : \A g \in S \ {f} : g.at < f.at
    BY <1>1, NewestKept
  <1>. QED  BY <1>2 DEF Newest

(* The size-cap pass: the latest archive kept is spared, and what is left   *)
(* fits under the cap.                                                      *)
LEMMA CapStep ==
    ASSUME SweepInv, NEW w \in Writers, ListIncrementals(w)
    PROVE  SweepInv'
  <1>0. BackupTypes /\ OwnNames /\ Spared /\ Tidying /\ LimitsHold /\ GhostShape
    BY DEF SweepInv
  <1>1. PICK k, R, cap, d, n :
           /\ k = writer[w].kept /\ R = writer[w].kept \cup {f \in files : ~IsDated(f)}
           /\ cap = PolicyOf(w).cap /\ d = Excess(R, cap, mtime) /\ n = writer[w].name
    OBVIOUS
  <1>2. k \in SUBSET DatedIn(Names) /\ IsFiniteSet(k) /\ n \in Proper
    BY <1>0, <1>1, WriterIs
  <1>3. /\ files \subseteq Proper /\ IsFiniteSet(files) /\ mtime \in Times
    BY <1>0 DEF BackupTypes
  <1>4. R \in SUBSET Proper /\ IsFiniteSet(R) /\ DatedIn(R) = k
    <2>1. PICK I : I = {f \in files : ~IsDated(f)}
      OBVIOUS
    <2>2. I \subseteq files
      BY <2>1
    <2>3. IsFiniteSet(I)
      BY <1>3, <2>2, FS_Subset
    <2>4. IsFiniteSet(k \cup I)
      BY <1>2, <2>3, FS_Union
    <2>5. R = k \cup I
      BY <1>1, <2>1
    <2>6. R \in SUBSET Proper
      BY <1>2, <1>3, <2>2, <2>5 DEF DatedIn, Proper
    <2>7. DatedIn(R) = k
      BY <1>2, <2>1, <2>5 DEF DatedIn
    <2>. QED  BY <2>4, <2>5, <2>6, <2>7
  <1>5. cap \in Nat /\ cap \in {Retention.cap, DefaultCap}
    BY <1>1, PolicyIs
  <1>6. d \subseteq R /\ d \in SUBSET Proper /\ IsFiniteSet(d)
    <2>1. d \subseteq R
      BY <1>1 DEF Excess
    <2>. QED  BY <1>4, <2>1, FS_Subset
  <1>7. /\ UNCHANGED <<clock, files, good, mtime, ghost>> /\ writer[w].pc = "prune" /\ writer[w].doomed = {}
    BY DEF ListIncrementals, At
  <1>8. Becomes(w, "cap", n, {}, d, mtime)
    <2>1. writer' = [writer EXCEPT ![w].pc = "cap", ![w].kept = {}, ![w].times = mtime, ![w].doomed = d]
      BY <1>1, Zenon DEF ListIncrementals
    <2>2. Becomes(w, "cap", writer[w].name, {}, d, mtime)
      BY <1>0, <2>1, ListsTimes, Zenon
    <2>. QED  BY <1>1, <2>2
  <1>9. /\ writer' \in [Writers -> WriterStates]
        /\ \A v \in Writers : IsFiniteSet(writer'[v].kept) /\ IsFiniteSet(writer'[v].doomed)
        /\ writer'[w].pc = "cap" /\ writer'[w].name = n /\ writer'[w].kept = {}
        /\ writer'[w].doomed = d /\ \A v \in Writers \ {w} : writer'[v] = writer[v]
    BY <1>0, <1>2, <1>3, <1>6, <1>8, IdleIs, WriterBecomes
  <1>10. /\ GhostShape' /\ ghost'.lister = ghost.lister /\ ghost'.tidy = ghost.tidy
         /\ ghost'.incidents = ghost.incidents
         /\ VerifiedOnce' => VerifiedOnce
    BY <1>0, <1>7, GhostSame
  <1>11. BackupTypes'
    BY <1>0, <1>7, <1>9 DEF BackupTypes
  <1>12. OwnNames'
    <2>1. \A v \in Writers : writer'[v].name = writer[v].name \/ ~IsDated(writer'[v].name)
      BY <1>1, <1>9
    <2>. QED  BY <1>0, <2>1, NamesStay
  <1>13. Spared'
    <2>. SUFFICES ASSUME ghost'.incidents = {}, CapsLeaveRoom, VerifiedOnce' \/ SweepsDated'
                  PROVE  \E f \in DatedIn(good') : Safe(f)'
      BY DEF Spared, CapsLeaveRoom, RoomUnder, DatedIn, Safe
    <2>1. DatedIn(d) \subseteq k
      BY <1>4, <1>6 DEF DatedIn
    <2>2. VerifiedOnce \/ SweepsDated
      <3>1. SweepsDated' => SweepsDated
        BY <1>1, <1>9, <2>1 DEF SweepsDated, DatedIn
      <3>. QED  BY <1>10, <3>1, Zenon
    <2>3. PICK h \in DatedIn(good) : Safe(h)
      BY <1>0, <1>10, <2>2, Zenon DEF Spared
    <2>4. \A g \in k : g.at <= h.at
      BY <1>1, <2>3 DEF Safe
    <2>5. h.at \in Nat /\ \A g \in k : g.at \in Nat
      <3>1. h \in Names
        BY <1>0 DEF BackupTypes, DatedIn, Proper
      <3>. QED  BY <1>2, <3>1, NamesAre DEF DatedIn
    <2>6. \A g \in DatedIn(d) : g.at < h.at
      <3>1. CASE k = {}
        BY <2>1, <3>1
      <3>2. CASE k # {}
        <4>1. PICK f \in k : \A g \in k \ {f} : g.at < f.at
          BY <1>2, <3>2, LatestIs
        <4>2. cap = 0 \/ cap > 2
          <5>1. Cardinality(Incrementals) = 2
            <6>1. IsFiniteSet({"daily"}) /\ Cardinality({"daily"}) = 1
              BY FS_Singleton, Zenon
            <6>2. PICK U, x : U = {"daily"} /\ x = "hourly"
              OBVIOUS
            <6>3. x \notin U /\ IsFiniteSet(U) /\ Cardinality(U) = 1
              BY <6>1, <6>2
            <6>4. Cardinality(U \cup {x}) = Cardinality(U) + 1
              BY <6>3, FS_AddElement
            <6>5. Incrementals = U \cup {x}
              BY <6>2 DEF Incrementals
            <6>. QED  BY <6>3, <6>4, <6>5
          <5>. QED  BY <1>5, <5>1 DEF CapsLeaveRoom, RoomUnder
        <4>3. f \in R /\ IsDated(f) /\ \A g \in DatedIn(R) \ {f} : g.at < f.at
          BY <1>4, <4>1 DEF DatedIn
        <4>4. f \notin d
          BY <1>1, <1>3, <1>4, <1>5, <4>2, <4>3, ExcessSpares
        <4>5. \A g \in DatedIn(d) : g \in k \ {f}
          BY <2>1, <4>4 DEF DatedIn
        <4>. QED  BY <2>4, <2>5, <4>1, <4>5
      <3>. QED  BY <3>1, <3>2
    <2>7. ASSUME NEW v \in Writers
          PROVE  /\ writer'[v].pc \in {"write", "verify"} => writer'[v].name # h
                 /\ \A g \in writer'[v].kept : g.at <= h.at
                 /\ \A g \in DatedIn(writer'[v].doomed) : g.at < h.at
      <3>1. CASE v = w
        BY <1>9, <2>6, <3>1
      <3>2. CASE v # w
        BY <1>9, <2>3, <3>2 DEF Safe
      <3>. QED  BY <3>1, <3>2
    <2>8. Safe(h)'
      BY <2>7 DEF Safe, DatedIn
    <2>9. h \in DatedIn(good')
      BY <1>7, <2>3 DEF DatedIn
    <2>. QED  BY <2>8, <2>9
  <1>14. Tidying'
    <2>. SUFFICES ASSUME NEW v \in Writers, ghost.lister = v
                  PROVE  /\ writer'[v].pc = "prune" =>
                               /\ DatedIn(files) \ writer'[v].doomed \subseteq writer'[v].kept
                               /\ Cardinality(writer'[v].kept) <= Limit(PolicyOf(v))
                         /\ writer'[v].pc = "cap" =>
                               /\ Cardinality(DatedIn(files)) <= Limit(PolicyOf(v))
                               /\ PolicyOf(v).cap > 0 => Cardinality(files \ writer'[v].doomed) <= PolicyOf(v).cap
      BY <1>7, <1>10 DEF Tidying, DatedIn
    <2>1. CASE v # w
      BY <1>0, <1>9, <2>1 DEF Tidying
    <2>2. CASE v = w
      <3>1. DatedIn(files) \subseteq k /\ Cardinality(k) <= Limit(PolicyOf(w))
        <4>1. DatedIn(files) \ writer[w].doomed \subseteq k /\ Cardinality(k) <= Limit(PolicyOf(w))
          BY <1>0, <1>1, <1>7, <2>2 DEF Tidying
        <4>. QED  BY <1>7, <4>1
      <3>2. PICK A, L : A = DatedIn(files) /\ L = Limit(PolicyOf(w))
        OBVIOUS
      <3>3. IsFiniteSet(A) /\ Cardinality(A) <= Cardinality(k)
        BY <1>2, <3>1, <3>2, FS_Subset
      <3>4. Cardinality(A) \in Nat /\ Cardinality(k) \in Nat
        BY <1>2, <3>3, FS_CardinalityType
      <3>5. L \in Nat
        BY <3>2, PolicyIs DEF Limit
      <3>6. Cardinality(A) <= L
        BY <3>1, <3>2, <3>3, <3>4, <3>5
      <3>7. cap > 0 => Cardinality(files \ d) <= cap
        <4>. SUFFICES ASSUME cap > 0 PROVE Cardinality(files \ d) <= cap
          OBVIOUS
        <4>1. IsFiniteSet(R \ d) /\ Cardinality(R \ d) <= cap
          BY <1>1, <1>3, <1>4, <1>5, ExcessFew
        <4>2. files \ d \subseteq R \ d
          BY <1>1, <3>1 DEF DatedIn
        <4>3. PICK B, C : B = files \ d /\ C = R \ d
          OBVIOUS
        <4>4. IsFiniteSet(B) /\ Cardinality(B) <= Cardinality(C)
          BY <4>1, <4>2, <4>3, FS_Subset
        <4>5. Cardinality(B) \in Nat /\ Cardinality(C) \in Nat
          BY <4>1, <4>3, <4>4, FS_CardinalityType
        <4>. QED  BY <1>5, <4>1, <4>3, <4>4, <4>5
      <3>. QED  BY <1>1, <1>9, <2>2, <3>2, <3>6, <3>7
    <2>. QED  BY <2>1, <2>2
  <1>15. LimitsHold'
    <2>1. files' \subseteq files
      BY <1>7
    <2>. QED  BY <1>0, <1>10, <2>1, LimitsStay
  <1>. QED  BY <1>10, <1>11, <1>12, <1>13, <1>14, <1>15 DEF SweepInv

-----------------------------------------------------------------------------
(* The clock, a restore, a crash and the administrator's deletion touch no  *)
(* writer, or end it.                                                       *)
LEMMA Elsewhere ==
    ASSUME SweepInv, clock' \in Nat, mtime' = mtime, files' \subseteq files, good' \subseteq files',
           writer' \in [Writers -> WriterStates],
           \A v \in Writers : writer'[v] = writer[v] \/ writer'[v] = Idle,
           GhostShape', ghost'.lister = ghost.lister, ghost'.tidy = ghost.tidy,
           ghost'.incidents = {} => ghost.incidents = {}, VerifiedOnce' => VerifiedOnce,
           ghost'.incidents = {} => \A f \in DatedIn(good) : Safe(f) => f \in good'
    PROVE  SweepInv'
  <1>0. BackupTypes /\ GhostShape /\ OwnNames /\ Spared /\ Tidying /\ LimitsHold
    BY DEF SweepInv
  <1>1. /\ Idle.pc = "idle" /\ Idle.name = Incremental("hourly") /\ Idle.kept = {} /\ Idle.doomed = {}
    BY DEF Idle
  <1>2. BackupTypes'
    <2>1. IsFiniteSet(files) /\ files \subseteq Proper /\ mtime \in Times
      BY <1>0 DEF BackupTypes
    <2>2. IsFiniteSet(files')
      BY <2>1, FS_Subset
    <2>3. ASSUME NEW v \in Writers PROVE IsFiniteSet(writer'[v].kept) /\ IsFiniteSet(writer'[v].doomed)
      <3>1. IsFiniteSet(writer[v].kept) /\ IsFiniteSet(writer[v].doomed)
        BY <1>0 DEF BackupTypes
      <3>. QED  BY <1>1, <3>1, IdleIs
    <2>. QED  BY <2>1, <2>2, <2>3 DEF BackupTypes
  <1>3. OwnNames'
    <2>1. \A v \in Writers : writer'[v].name = writer[v].name \/ ~IsDated(writer'[v].name)
      BY <1>1, IdleIs
    <2>. QED  BY <1>0, <2>1, NamesStay
  <1>4. Spared'
    <2>1. ASSUME NEW v \in Writers
          PROVE  /\ writer'[v].kept \subseteq writer[v].kept
                 /\ DatedIn(writer'[v].doomed) \subseteq DatedIn(writer[v].doomed)
                 /\ writer'[v].pc \in {"write", "verify"} =>
                       writer[v].pc \in {"write", "verify"} /\ writer[v].name = writer'[v].name
      BY <1>1 DEF DatedIn
    <2>. QED  BY <1>0, <2>1, SparedStays
  <1>5. Tidying'
    <2>1. ASSUME NEW v \in Writers, writer'[v].pc \in {"prune", "cap"}
          PROVE  /\ writer'[v].pc = writer[v].pc /\ writer'[v].kept = writer[v].kept
                 /\ files' \ writer'[v].doomed \subseteq files \ writer[v].doomed
      BY <1>1, <2>1
    <2>. QED  BY <1>0, <2>1, TidyingStays
  <1>6. LimitsHold'
    BY <1>0, LimitsStay
  <1>. QED  BY <1>2, <1>3, <1>4, <1>5, <1>6 DEF SweepInv

(* The clock, the restore, a crash and DeleteBackup keep the invariant:     *)
(* what the administrator deletes is excused.                               *)
LEMMA ElsewhereStep ==
    ASSUME SweepInv,
           Tick \/ Restore \/ (\E f \in files : DeleteBackup(f)) \/ \E dead \in {Server, {"cli"}} : Crash(dead)
    PROVE  SweepInv'
  <1>0. /\ BackupTypes /\ GhostShape /\ clock \in Nat /\ good \subseteq files
        /\ writer \in [Writers -> WriterStates]
    BY DEF SweepInv, BackupTypes
  <1>1. \A f \in DatedIn(good) : f \in good
    BY DEF DatedIn
  <1>2. CASE Tick
    <2>1. UNCHANGED <<files, good, mtime, writer, ghost>> /\ clock' \in Nat
      BY <1>0, <1>2 DEF Tick
    <2>2. good' \subseteq files' /\ files' \subseteq files
      BY <1>0, <2>1
    <2>. QED  BY <1>0, <1>1, <2>1, <2>2, GhostSame, Elsewhere
  <1>3. CASE Restore
    <2>0. /\ (\E f : RestoreVerify(f)) \/ RestoreRead \/ (\E m : ExtractFails(m)) \/ SaveSetupToken
                => UNCHANGED <<clock, files, good, mtime, writer, ghost>>
          /\ (\E m : ExtractMember(m)) => UNCHANGED <<clock, files, good, mtime, writer>>
      BY Zenon DEF RestoreVerify, RestoreRead, ExtractMember, ExtractFails, SaveSetupToken
    <2>1. /\ UNCHANGED <<clock, files, good, mtime, writer>>
          /\ UNCHANGED ghost \/ \E m \in Members : ExtractMember(m)
      BY <1>3, <2>0, Zenon DEF Restore
    <2>2. /\ GhostShape' /\ ghost'.lister = ghost.lister /\ ghost'.tidy = ghost.tidy
          /\ ghost'.incidents = ghost.incidents
          /\ VerifiedOnce' => VerifiedOnce
      <3>1. CASE UNCHANGED ghost
        BY <1>0, <3>1, GhostSame
      <3>2. ASSUME NEW m \in Members, ExtractMember(m)
            PROVE  /\ GhostShape' /\ ghost'.lister = ghost.lister /\ ghost'.tidy = ghost.tidy
                   /\ ghost'.incidents = ghost.incidents /\ ghost'.verified = ghost.verified
        BY <1>0, <3>2, ExtractGhost
      <3>3. ghost'.verified = ghost.verified => (VerifiedOnce' => VerifiedOnce)
        BY Zenon DEF VerifiedOnce
      <3>. QED  BY <2>1, <3>1, <3>2, <3>3, Zenon
    <2>3. good' \subseteq files' /\ files' \subseteq files /\ clock' \in Nat
      BY <1>0, <2>1
    <2>. QED  BY <1>0, <1>1, <2>1, <2>2, <2>3, Elsewhere
  <1>4. ASSUME NEW f \in files, DeleteBackup(f) PROVE SweepInv'
    <2>1. /\ UNCHANGED <<clock, mtime, writer>> /\ files' = files \ {f} /\ good' = good \ {f}
      BY <1>4 DEF DeleteBackup
    <2>2. /\ GhostShape' /\ ghost'.lister = ghost.lister /\ ghost'.tidy = ghost.tidy
          /\ ghost'.incidents = {} => ghost.incidents = {} /\ ~IsDated(f)
          /\ ghost'.verified = ghost.verified
      BY <1>0, <1>4, DeleteGhost
    <2>3. VerifiedOnce' => VerifiedOnce
      BY <2>2, Zenon DEF VerifiedOnce
    <2>4. ghost'.incidents = {} => \A g \in DatedIn(good) : Safe(g) => g \in good'
      BY <2>1, <2>2 DEF DatedIn
    <2>5. good' \subseteq files' /\ files' \subseteq files /\ clock' \in Nat
      BY <1>0, <2>1
    <2>. QED  BY <1>0, <2>1, <2>2, <2>3, <2>4, <2>5, Elsewhere
  <1>5. ASSUME NEW dead, Crash(dead) PROVE SweepInv'
    <2>1. /\ UNCHANGED <<clock, files, good, mtime, ghost>>
          /\ writer' = [w \in Writers |-> IF w \in dead THEN Idle ELSE writer[w]]
      BY <1>5 DEF Crash
    <2>2. Idle \in WriterStates
      BY IdleIs DEF Idle, WriterStates
    <2>3. writer' \in [Writers -> WriterStates] /\ \A v \in Writers : writer'[v] = writer[v] \/ writer'[v] = Idle
      BY <1>0, <2>1, <2>2
    <2>4. good' \subseteq files' /\ files' \subseteq files /\ clock' \in Nat
      BY <1>0, <2>1
    <2>. QED  BY <1>0, <1>1, <2>1, <2>3, <2>4, GhostSame, Elsewhere
  <1>. QED  BY <1>2, <1>3, <1>4, <1>5

(* The earlier archives are complete, no sweep is under way.                *)
LEMMA SweepStart ==
    ASSUME Init
    PROVE  SweepInv
  <1>1. PICK v, n : ghost = Ghost(v, {}, "none", "none", n) /\ v = (DatedIn(Existing) # {}) /\ n = FALSE
    BY Zenon DEF Init, Ghost
  <1>2. ghost.verified = v /\ ghost.incidents = {} /\ ghost.lister = "none" /\ ghost.tidy = "none" /\ ghost.tornLive = n
    BY <1>1, GhostFields
  <1>3. GhostShape
    BY <1>1, <1>2, Zenon DEF GhostShape
  <1>4. /\ clock = 0 /\ files = Existing /\ good = Existing /\ mtime = Never
        /\ writer = [w \in Writers |-> Idle]
    BY DEF Init
  <1>5. /\ Idle.pc = "idle" /\ Idle.name = Incremental("hourly") /\ Idle.kept = {} /\ Idle.doomed = {}
        /\ Idle \in WriterStates
    BY IdleIs DEF Idle, WriterStates
  <1>6. \A w \in Writers : writer[w] = Idle
    BY <1>4
  <1>7. BackupTypes
    <2>1. files \subseteq Proper /\ IsFiniteSet(files)
      BY <1>4, BackupAssumption DEF BackupAssumption, Proper, Names, IsDated, Incrementals
    <2>2. writer \in [Writers -> WriterStates]
      BY <1>4, <1>5
    <2>. QED  BY <1>4, <1>5, <1>6, <2>1, <2>2, IdleIs DEF BackupTypes
  <1>8. OwnNames
    BY <1>5, <1>6, IdleIs DEF OwnNames
  <1>9. Spared
    <2>1. ~SweepsDated
      BY <1>5, <1>6 DEF SweepsDated, DatedIn
    <2>2. VerifiedOnce => DatedIn(good) # {}
      BY <1>1, <1>2, <1>4, Zenon DEF VerifiedOnce
    <2>3. \A f : Safe(f)
      BY <1>5, <1>6 DEF Safe, DatedIn
    <2>. QED  BY <2>1, <2>2, <2>3, Zenon DEF Spared
  <1>10. Tidying /\ LimitsHold
    BY <1>2, IdleIs DEF Tidying, LimitsHold
  <1>. QED  BY <1>3, <1>7, <1>8, <1>9, <1>10 DEF SweepInv

(* Every step of the writers and of their surroundings keeps the invariant. *)
LEMMA SweepStep ==
    ASSUME SweepInv, Next
    PROVE  SweepInv'
  <1>1. ASSUME NEW w \in Writers, CreateBackupArchive(w) PROVE SweepInv'
    BY <1>1, StartStep, GivesUpStep, OpenStep, WriteFileStep, VerifyStep DEF CreateBackupArchive
  <1>2. ASSUME NEW w \in Writers, ApplyRetention(w) PROVE SweepInv'
    BY <1>2, ListStep, RemoveStep, GivesUpStep, CapStep, DoneStep DEF ApplyRetention
  <1>. QED  BY <1>1, <1>2, ElsewhereStep DEF Next

-----------------------------------------------------------------------------
(* The restore.                                                             *)
LEMMA RestoreFields ==
    ASSUME NEW p, NEW n, NEW s, NEW t, NEW o, NEW r, r = Restoring(p, n, s, t, o)
    PROVE  r.pc = p /\ r.name = n /\ r.todo = s /\ r.torn = t /\ r.outcome = o
  BY DEF Restoring

(* A restore that fails is over, and says so.                               *)
LEMMA RestoreEnds ==
    ASSUME RestoreShape, RestoreFails
    PROVE  RestoreShape' /\ restore'.pc = "idle" /\ restore'.outcome = "failed" /\ (Torn' <=> Torn)
  <1>1. PICK r, p, n, s, t, o : r = restore /\ p = restore.pc /\ n = restore.name /\ s = restore.todo
                                /\ t = restore.torn /\ o = restore.outcome
    OBVIOUS
  <1>2. r = Restoring(p, n, s, t, o)
    BY <1>1, Zenon DEF RestoreShape
  <1>. DEFINE a == [r EXCEPT !.pc = "idle"]
              b == [a EXCEPT !.todo = {}]
              c == [b EXCEPT !.outcome = "failed"]
  <1>3. restore' = c
    BY <1>1 DEF RestoreFails
  <1>4. a = Restoring("idle", n, s, t, o)
    BY <1>2 DEF Restoring
  <1>. HIDE DEF a
  <1>5. b = Restoring("idle", n, {}, t, o)
    BY <1>4 DEF Restoring
  <1>. HIDE DEF b
  <1>6. c = Restoring("idle", n, {}, t, "failed")
    BY <1>5 DEF Restoring
  <1>. HIDE DEF c
  <1>7. /\ restore'.pc = "idle" /\ restore'.name = n /\ restore'.todo = {} /\ restore'.torn = t
        /\ restore'.outcome = "failed"
    BY <1>3, <1>6, RestoreFields
  <1>8. RestoreShape'
    BY <1>3, <1>6, <1>7, Zenon DEF RestoreShape
  <1>9. Torn' <=> Torn
    BY <1>1, <1>7, Zenon DEF Torn
  <1>. QED  BY <1>7, <1>8, <1>9

(* A restore whose archive passed verification reads it again.              *)
LEMMA ReadStarts ==
    ASSUME RestoreShape, NEW f, RestoreVerify(f)
    PROVE  RestoreShape' /\ restore'.pc = "read" /\ (Torn' <=> Torn)
  <1>1. PICK r, p, n, s, t, o : r = restore /\ p = restore.pc /\ n = restore.name /\ s = restore.todo
                                /\ t = restore.torn /\ o = restore.outcome
    OBVIOUS
  <1>2. r = Restoring(p, n, s, t, o)
    BY <1>1, Zenon DEF RestoreShape
  <1>. DEFINE a == [r EXCEPT !.pc = "read"]
              b == [a EXCEPT !.name = f]
              c == [b EXCEPT !.outcome = "none"]
  <1>3. restore' = c
    BY <1>1 DEF RestoreVerify
  <1>4. a = Restoring("read", n, s, t, o)
    BY <1>2 DEF Restoring
  <1>. HIDE DEF a
  <1>5. b = Restoring("read", f, s, t, o)
    BY <1>4 DEF Restoring
  <1>. HIDE DEF b
  <1>6. c = Restoring("read", f, s, t, "none")
    BY <1>5 DEF Restoring
  <1>. HIDE DEF c
  <1>7. /\ restore'.pc = "read" /\ restore'.name = f /\ restore'.todo = s /\ restore'.torn = t
        /\ restore'.outcome = "none"
    BY <1>3, <1>6, RestoreFields
  <1>8. RestoreShape'
    BY <1>3, <1>6, <1>7, Zenon DEF RestoreShape
  <1>9. Torn' <=> Torn
    BY <1>1, <1>7, Zenon DEF Torn
  <1>. QED  BY <1>7, <1>8, <1>9

(* A restore that found the manifest has every member still to write, and   *)
(* read a complete archive.                                                 *)
LEMMA ExtractStarts ==
    ASSUME RestoreShape, RestoreRead, restore.name \in good
    PROVE  RestoreShape' /\ restore'.pc = "extract" /\ restore'.todo = Members /\ ~Torn'
  <1>1. PICK r, p, n, s, t, o : r = restore /\ p = restore.pc /\ n = restore.name /\ s = restore.todo
                                /\ t = restore.torn /\ o = restore.outcome
    OBVIOUS
  <1>2. r = Restoring(p, n, s, t, o)
    BY <1>1, Zenon DEF RestoreShape
  <1>0. PICK x : x = FALSE
    BY Zenon
  <1>. DEFINE a == [r EXCEPT !.pc = "extract"]
              b == [a EXCEPT !.todo = Members]
              c == [b EXCEPT !.torn = x]
  <1>3. restore' = c
    <2>1. restore' = [restore EXCEPT !.pc = "extract", !.todo = Members, !.torn = x]
      BY <1>0, Zenon DEF RestoreRead
    <2>. QED  BY <1>1, <2>1
  <1>4. a = Restoring("extract", n, s, t, o)
    BY <1>2 DEF Restoring
  <1>. HIDE DEF a
  <1>5. b = Restoring("extract", n, Members, t, o)
    BY <1>4 DEF Restoring
  <1>. HIDE DEF b
  <1>6. c = Restoring("extract", n, Members, x, o)
    BY <1>5 DEF Restoring
  <1>. HIDE DEF c
  <1>7. /\ restore'.pc = "extract" /\ restore'.name = n /\ restore'.todo = Members /\ restore'.torn = x
        /\ restore'.outcome = o
    BY <1>3, <1>6, RestoreFields
  <1>8. RestoreShape'
    BY <1>3, <1>6, <1>7, Zenon DEF RestoreShape
  <1>9. ~Torn'
    BY <1>0, <1>7, Zenon DEF Torn
  <1>. QED  BY <1>7, <1>8, <1>9

(* Writing a member takes it off the list.                                  *)
LEMMA MemberWritten ==
    ASSUME RestoreShape, NEW m, ExtractMember(m)
    PROVE  /\ RestoreShape' /\ restore'.pc = "extract" /\ restore'.todo = restore.todo \ {m}
           /\ Torn' <=> Torn
  <1>1. PICK r, p, n, s, t, o : r = restore /\ p = restore.pc /\ n = restore.name /\ s = restore.todo
                                /\ t = restore.torn /\ o = restore.outcome
    OBVIOUS
  <1>2. r = Restoring(p, n, s, t, o)
    BY <1>1, Zenon DEF RestoreShape
  <1>. DEFINE a == [r EXCEPT !.todo = s \ {m}]
  <1>3. restore' = [restore EXCEPT !.todo = @ \ {m}] /\ p = "extract"
    BY <1>1, Zenon DEF ExtractMember
  <1>4. restore' = a
    BY <1>1, <1>3
  <1>5. a = Restoring(p, n, s \ {m}, t, o)
    BY <1>2 DEF Restoring
  <1>. HIDE DEF a
  <1>6. PICK z : z = s \ {m}
    OBVIOUS
  <1>7. restore' = Restoring(p, n, z, t, o)
    BY <1>4, <1>5, <1>6
  <1>8. /\ restore'.pc = p /\ restore'.name = n /\ restore'.todo = z /\ restore'.torn = t /\ restore'.outcome = o
    BY <1>7, RestoreFields
  <1>9. RestoreShape'
    BY <1>7, <1>8, Zenon DEF RestoreShape
  <1>10. Torn' <=> Torn
    BY <1>1, <1>8, Zenon DEF Torn
  <1>. QED  BY <1>1, <1>3, <1>6, <1>8, <1>9, <1>10, Zenon

(* After the last member the setup token is saved, or the restore fails.    *)
LEMMA RestoreSucceeds ==
    ASSUME RestoreShape, SaveSetupToken
    PROVE  \/ /\ RestoreShape' /\ restore'.pc = "idle" /\ (Torn' <=> Torn) /\ UNCHANGED used
           \/ RestoreFails /\ Fault
  <1>1. PICK r, p, n, s, t, o : r = restore /\ p = restore.pc /\ n = restore.name /\ s = restore.todo
                                /\ t = restore.torn /\ o = restore.outcome
    OBVIOUS
  <1>2. r = Restoring(p, n, s, t, o)
    BY <1>1, Zenon DEF RestoreShape
  <1>. DEFINE a == [r EXCEPT !.pc = "idle"]
              b == [a EXCEPT !.outcome = "ok"]
  <1>3. a = Restoring("idle", n, s, t, o)
    BY <1>2 DEF Restoring
  <1>4. [r EXCEPT !.pc = "idle", !.outcome = "ok"] = b
    OBVIOUS
  <1>. HIDE DEF a
  <1>5. b = Restoring("idle", n, s, t, "ok")
    BY <1>3 DEF Restoring
  <1>. HIDE DEF b
  <1>6. b.pc = "idle" /\ b.name = n /\ b.todo = s /\ b.torn = t /\ b.outcome = "ok"
    BY <1>5, RestoreFields
  <1>7. (restore' = b /\ UNCHANGED used) \/ (RestoreFails /\ Fault)
    BY <1>1, <1>4, Zenon DEF SaveSetupToken
  <1>. SUFFICES ASSUME restore' = b PROVE RestoreShape' /\ restore'.pc = "idle" /\ (Torn' <=> Torn)
    BY <1>7, Zenon
  <1>8. RestoreShape'
    BY <1>5, <1>6, Zenon DEF RestoreShape
  <1>9. Torn' <=> Torn
    BY <1>1, <1>6, Zenon DEF Torn
  <1>. QED  BY <1>6, <1>8, <1>9, Zenon

(* A step that leaves the restore alone.                                    *)
LEMMA RestoreKept ==
    ASSUME RestoreInv, UNCHANGED <<restore, live>>, TornLive' <=> TornLive,
           used' = [starts |-> used'.starts, restores |-> used'.restores, faults |-> used'.faults],
           used'.restores = used.restores
    PROVE  RestoreInv'
  <1>1. RestoreShape'
    BY Zenon DEF RestoreInv, RestoreShape
  <1>2. Untorn'
    BY Zenon DEF RestoreInv, Untorn, Torn
  <1>3. Written'
    BY DEF RestoreInv, Written
  <1>. QED  BY <1>1, <1>2, <1>3 DEF RestoreInv

(* What the other actions do to the counters and to the history of the      *)
(* restore.                                                                 *)
LEMMA OthersLeaveRestore ==
    ASSUME SweepInv, RestoreInv, NEW w \in Writers, CreateBackupArchive(w) \/ ApplyRetention(w)
    PROVE  RestoreInv'
  <1>0. GhostShape /\ Written
    BY DEF SweepInv, RestoreInv
  <1>1. /\ UNCHANGED <<restore, live>>
        /\ UNCHANGED used \/ Fault \/ used' = [used EXCEPT !.starts = @ + 1]
    BY Zenon DEF CreateBackupArchive, ApplyRetention, Start, BuildFails, OpenFile, WriteFile, WriteFails,
       VerifyPasses, VerifyFails, ListRetained, Remove, RemoveFails, ListIncrementals, SweepDone
  <1>2. \/ OpenFile(w) \/ VerifyPasses(w) \/ ListRetained(w) \/ SweepDone(w)
        \/ UNCHANGED ghost
    BY Zenon DEF CreateBackupArchive, ApplyRetention, Start, BuildFails, WriteFile, WriteFails, VerifyFails,
       Remove, RemoveFails, ListIncrementals
  <1>3. ghost'.tornLive = ghost.tornLive
    BY <1>0, <1>2, OpenGhost, VerifyGhost, ListGhost, DoneGhost, Zenon
  <1>4. TornLive' <=> TornLive
    BY <1>3, Zenon DEF TornLive
  <1>5. PICK a, b, c : used = [starts |-> a, restores |-> b, faults |-> c]
    BY <1>0 DEF Written
  <1>6. /\ used' = [starts |-> used'.starts, restores |-> used'.restores, faults |-> used'.faults]
        /\ used'.restores = used.restores
    <2>1. Fault => used' = [used EXCEPT !.faults = @ + 1]
      BY DEF Fault
    <2>. QED  BY <1>1, <1>5, <2>1
  <1>. QED  BY <1>1, <1>4, <1>6, RestoreKept

(* Each step of Restore keeps track of what is written; the archive may be  *)
(* rewritten or deleted meanwhile.                                          *)
LEMMA RestoreStep ==
    ASSUME SweepInv, RestoreInv, Next
    PROVE  RestoreInv'
  <1>0. GhostShape /\ RestoreShape /\ Untorn /\ Written
    BY DEF SweepInv, RestoreInv
  <1>1. PICK a, b, c : used = [starts |-> a, restores |-> b, faults |-> c]
    BY <1>0 DEF Written
  <1>f. UNCHANGED used \/ Fault \/ used' = [used EXCEPT !.starts = @ + 1] =>
           /\ used' = [starts |-> used'.starts, restores |-> used'.restores, faults |-> used'.faults]
           /\ used'.restores = used.restores
    <2>1. Fault => used' = [used EXCEPT !.faults = @ + 1]
      BY DEF Fault
    <2>. QED  BY <1>1, <2>1
  <1>g. UNCHANGED ghost => (TornLive' <=> TornLive)
    BY Zenon DEF TornLive
  <1>e. ASSUME RestoreFails, UNCHANGED ghost, Fault \/ UNCHANGED used, DOMAIN live' = Members
        PROVE  RestoreInv'
    <2>1. RestoreShape' /\ restore'.pc = "idle" /\ restore'.outcome = "failed" /\ (Torn' <=> Torn)
      BY <1>0, <1>e, RestoreEnds
    <2>2. Untorn'
      BY <1>0, <1>e, <1>g, <2>1, Zenon DEF Untorn
    <2>3. Written'
      BY <1>e, <1>f, <2>1 DEF Written
    <2>. QED  BY <2>1, <2>2, <2>3 DEF RestoreInv
  <1>2. CASE Tick
    BY <1>2, <1>f, <1>g, RestoreKept DEF Tick
  <1>3. ASSUME NEW f \in files, DeleteBackup(f) PROVE RestoreInv'
    <2>1. UNCHANGED <<restore, live>> /\ used' = [used EXCEPT !.starts = @ + 1]
      BY <1>3, Zenon DEF DeleteBackup
    <2>2. ghost'.tornLive = ghost.tornLive
      BY <1>0, <1>3, DeleteGhost
    <2>3. TornLive' <=> TornLive
      BY <2>2, Zenon DEF TornLive
    <2>. QED  BY <1>f, <2>1, <2>3, RestoreKept
  <1>4. ASSUME NEW dead, Crash(dead) PROVE RestoreInv'
    <2>1. /\ UNCHANGED <<live, ghost>> /\ Fault
          /\ RestoreFails \/ UNCHANGED restore
      BY <1>4 DEF Crash
    <2>2. CASE UNCHANGED restore
      BY <1>f, <1>g, <2>1, <2>2, RestoreKept
    <2>3. CASE RestoreFails
      BY <1>0, <1>e, <2>1, <2>3 DEF Written
    <2>. QED  BY <2>1, <2>2, <2>3
  <1>5. ASSUME NEW f \in files, RestoreVerify(f) PROVE RestoreInv'
    <2>1. UNCHANGED <<live, ghost>> /\ used' = [used EXCEPT !.restores = @ + 1]
      BY <1>5, Zenon DEF RestoreVerify
    <2>2. RestoreShape' /\ restore'.pc = "read" /\ (Torn' <=> Torn)
      BY <1>0, <1>5, ReadStarts
    <2>3. Untorn'
      BY <1>0, <1>g, <2>1, <2>2, Zenon DEF Untorn
    <2>4. used' = [starts |-> used'.starts, restores |-> used'.restores, faults |-> used'.faults]
      BY <1>1, <2>1
    <2>5. Written'
      BY <1>0, <2>1, <2>2, <2>4 DEF Written
    <2>. QED  BY <2>2, <2>3, <2>5 DEF RestoreInv
  <1>6. CASE RestoreRead
    <2>1. UNCHANGED <<live, used, ghost>> /\ (restore.name \in good \/ RestoreFails)
      BY <1>6, Zenon DEF RestoreRead
    <2>2. CASE RestoreFails
      BY <1>0, <1>e, <2>1, <2>2 DEF Written
    <2>3. CASE restore.name \in good
      <3>1. RestoreShape' /\ restore'.pc = "extract" /\ restore'.todo = Members /\ ~Torn'
        BY <1>0, <1>6, <2>3, ExtractStarts
      <3>2. Untorn'
        BY <1>0, <1>g, <2>1, <3>1, Zenon DEF Untorn
      <3>3. Written'
        BY <1>0, <2>1, <3>1 DEF Written
      <3>. QED  BY <3>1, <3>2, <3>3 DEF RestoreInv
    <2>. QED  BY <2>1, <2>2, <2>3
  <1>7. ASSUME NEW m \in Members, ExtractMember(m) PROVE RestoreInv'
    <2>1. UNCHANGED used /\ live' = [live EXCEPT ![m] = used.restores] /\ restore.pc = "extract"
      BY <1>7, Zenon DEF ExtractMember
    <2>2. /\ RestoreShape' /\ restore'.pc = "extract" /\ restore'.todo = restore.todo \ {m}
          /\ Torn' <=> Torn
      BY <1>0, <1>7, MemberWritten
    <2>3. TornLive' <=> TornLive \/ Torn
      BY <1>0, <1>7, ExtractGhost
    <2>4. Untorn'
      BY <1>0, <2>2, <2>3, Zenon DEF Untorn
    <2>5. Written'
      BY <1>0, <2>1, <2>2 DEF Written
    <2>. QED  BY <2>2, <2>4, <2>5 DEF RestoreInv
  <1>8. ASSUME NEW m \in Members, ExtractFails(m) PROVE RestoreInv'
    <2>1. RestoreFails /\ UNCHANGED ghost /\ Fault /\ live' \in {live, [live EXCEPT ![m] = Partial]}
      BY <1>8, Zenon DEF ExtractFails
    <2>2. DOMAIN live' = Members
      BY <1>0, <2>1 DEF Written
    <2>. QED  BY <1>e, <2>1, <2>2
  <1>9. CASE SaveSetupToken
    <2>1. /\ UNCHANGED <<live, ghost>> /\ restore.pc = "extract" /\ restore.todo = {}
      BY <1>9, Zenon DEF SaveSetupToken
    <2>2. CASE RestoreFails /\ Fault
      BY <1>0, <1>e, <2>1, <2>2 DEF Written
    <2>3. CASE RestoreShape' /\ restore'.pc = "idle" /\ (Torn' <=> Torn) /\ UNCHANGED used
      <3>1. Untorn'
        BY <1>0, <1>g, <2>1, <2>3, Zenon DEF Untorn
      <3>2. Written'
        BY <1>0, <2>1, <2>3 DEF Written
      <3>. QED  BY <2>3, <3>1, <3>2 DEF RestoreInv
    <2>. QED  BY <1>0, <1>9, <2>2, <2>3, RestoreSucceeds, Zenon
  <1>. QED  BY <1>2, <1>3, <1>4, <1>5, <1>6, <1>7, <1>8, <1>9, OthersLeaveRestore, Zenon DEF Next, Restore

(* No restore has started.                                                  *)
LEMMA RestoreStart ==
    ASSUME Init
    PROVE  RestoreInv
  <1>1. PICK n, x : /\ restore = Restoring("idle", n, {}, x, "none") /\ x = FALSE
    BY Zenon DEF Init, Restoring
  <1>2. restore.pc = "idle" /\ restore.name = n /\ restore.todo = {} /\ restore.torn = x /\ restore.outcome = "none"
    BY <1>1, RestoreFields
  <1>3. RestoreShape
    BY <1>1, <1>2, Zenon DEF RestoreShape
  <1>4. PICK v, i, l, t, y : ghost = Ghost(v, i, l, t, y) /\ y = FALSE
    BY Zenon DEF Init, Ghost
  <1>5. ghost.tornLive = y
    BY <1>4, GhostFields
  <1>6. Untorn
    BY <1>1, <1>2, <1>4, <1>5, Zenon DEF Untorn, Torn, TornLive
  <1>7. live = [m \in Members |-> 0] /\ used = [starts |-> 0, restores |-> 0, faults |-> 0]
    BY DEF Init
  <1>8. Written
    BY <1>2, <1>7 DEF Written
  <1>. QED  BY <1>3, <1>6, <1>8 DEF RestoreInv

-----------------------------------------------------------------------------
(* The invariants of the backup directory and of the restore hold in every  *)
(* reachable state, for every retention policy, every set of earlier        *)
(* archives, any length of the day and any bound.                           *)
THEOREM BackupInductive == Spec => [](SweepInv /\ RestoreInv)
  <1>1. Init => SweepInv /\ RestoreInv
    BY SweepStart, RestoreStart
  <1>2. SweepInv /\ RestoreInv /\ [Next]_vars => (SweepInv /\ RestoreInv)'
    <2>. SUFFICES ASSUME SweepInv, RestoreInv, [Next]_vars PROVE SweepInv' /\ RestoreInv'
      OBVIOUS
    <2>1. CASE Next
      BY <2>1, SweepStep, RestoreStep
    <2>2. CASE UNCHANGED vars
      <3>0. UNCHANGED <<clock, files, good, mtime, writer, restore, live, used, ghost>>
        BY <2>2 DEF vars
      <3>1. BackupTypes /\ GhostShape
        BY DEF SweepInv
      <3>2. SweepInv'
        <4>1. /\ clock' \in Nat /\ mtime' = mtime /\ files' \subseteq files /\ good' \subseteq files'
              /\ writer' \in [Writers -> WriterStates] /\ \A v \in Writers : writer'[v] = writer[v]
              /\ \A f \in DatedIn(good) : f \in good'
          BY <3>0, <3>1 DEF BackupTypes, DatedIn
        <4>2. UNCHANGED ghost
          BY <3>0
        <4>. QED  BY <3>1, <4>1, <4>2, GhostSame, Elsewhere
      <3>3. TornLive' <=> TornLive
        BY <3>0, Zenon DEF TornLive
      <3>4. RestoreInv'
        BY <3>0, <3>3, RestoreKept DEF RestoreInv, Written
      <3>. QED  BY <3>2, <3>4
    <2>. QED  BY <2>1, <2>2
  <1>. QED  BY <1>1, <1>2, PTL DEF Spec

(* Once a dated archive has passed verification there is one in the         *)
(* directory at every moment, whatever crashes, fails or is swept by        *)
(* several writers at once, with the exceptions GoodBackupRemains names     *)
(* (applyRetention).                                                        *)
THEOREM BackupRemains == Spec => []GoodBackupRemains
  <1>1. SweepInv => GoodBackupRemains
    <2>. SUFFICES ASSUME SweepInv, VerifiedOnce, ghost.incidents = {}, CapsLeaveRoom PROVE DatedIn(good) # {}
      BY Zenon DEF GoodBackupRemains, VerifiedOnce
    <2>1. Spared
      BY DEF SweepInv
    <2>. QED  BY <2>1, Zenon DEF Spared
  <1>. QED  BY <1>1, BackupInductive, PTL

(* A sweep that ran to its end on the latest listing leaves no more         *)
(* archives than the tiers add up to and no more files than the cap allows  *)
(* (RetentionConfig).                                                       *)
THEOREM SweepsReachLimits == Spec => []LimitsHold
  <1>1. SweepInv => LimitsHold
    BY DEF SweepInv
  <1>. QED  BY <1>1, BackupInductive, PTL

(* A restore that reports success has replaced every file, and no byte of a *)
(* partial archive reaches the configuration or the databases (Restore).    *)
THEOREM RestoresWhole == Spec => []RestoreFaithful
  <1>1. RestoreInv => RestoreFaithful
    <2>. SUFFICES ASSUME RestoreInv PROVE RestoreFaithful
      OBVIOUS
    <2>1. ~ghost.tornLive
      BY Zenon DEF RestoreInv, Untorn, TornLive
    <2>2. restore.pc = "idle" /\ restore.outcome = "ok" => ~Mixed
      BY DEF RestoreInv, Written, Mixed
    <2>. QED  BY <2>1, <2>2, Zenon DEF RestoreFaithful
  <1>. QED  BY <1>1, BackupInductive, PTL
=============================================================================
