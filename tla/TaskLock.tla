------------------------------ MODULE TaskLock ------------------------------
(***************************************************************************)
(* The cluster-wide lock of one global task (scheduler/scheduler.go:        *)
(* acquireTaskLock, releaseTaskLock, releaseNodeLocks and the part of       *)
(* executeTask that brackets a run with them).                              *)
(*                                                                          *)
(* The lock is one row of server_scheduler_state: locked_by and locked_at.  *)
(* It is a lease: a holder that is not the caller is taken over once its    *)
(* locked_at is older than LockTimeout.  Acquiring is a SELECT followed by  *)
(* a conditional UPDATE (or INSERT), so other nodes act in between; nothing *)
(* renews the lease while the task function runs.                           *)
(*                                                                          *)
(* A run is one goroutine inside executeTask.  home[r] is its node; a node  *)
(* may have several (ticker, catch-up, TriggerTask).  The history variable  *)
(* incidents remembers which unusual circumstances have occurred, so that   *)
(* an invariant can say exactly which of them it tolerates.                 *)
(***************************************************************************)
EXTENDS Integers

CONSTANTS
    Nodes,        \* node identities (host names: a restarted node keeps its own)
    NoNode,       \* locked_by IS NULL
    NoRow,        \* the task has no row yet
    Runs,         \* goroutine slots that may be inside executeTask
    home,         \* home[r]: the node run r executes on
    LockTimeout,  \* lease length, in clock units
    MaxClock,     \* bound: the clock stops here
    LastFault     \* bound: crashes and database errors happen no later than this

ASSUME LockAssumption ==
    /\ NoNode \notin Nodes
    /\ NoRow \notin Nodes \cup {NoNode}
    /\ home \in [Runs -> Nodes]
    /\ LockTimeout \in Nat \ {0}
    /\ MaxClock \in Nat
    /\ LastFault \in Nat

VARIABLES
    clock,      \* wall clock shared by all nodes
    row,        \* the task's row: locked_by and locked_at
    proc,       \* the node's process: scheduling, scheduler stopped, or down
    pc,         \* where each run is inside executeTask
    nowText,    \* the instant each run captured on entry to acquireTaskLock
    seen,       \* the locked_by value each run's SELECT returned
    incidents   \* history: which of Incidents have happened

vars == <<clock, row, proc, pc, nowText, seen, incidents>>

Incidents == {"overlap", "overrun", "crash", "dbError", "earlyRelease"}

PCs == {"idle", "select", "insert", "cas", "confirm", "running"}

(* Releasing writes NULL to both columns; locked_at NULL is shown as 0.    *)
Absent   == [by |-> NoRow, at |-> 0]
Unlocked == [by |-> NoNode, at |-> 0]
Held(n, t) == [by |-> n, at |-> t]

TypeOK ==
    /\ clock \in Nat
    /\ row \in [by : Nodes \cup {NoNode, NoRow}, at : Nat]
    /\ proc \in [Nodes -> {"up", "stopped", "down"}]
    /\ pc \in [Runs -> PCs]
    /\ nowText \in [Runs -> Nat]
    /\ seen \in [Runs -> Nodes \cup {NoNode}]
    /\ incidents \subseteq Incidents

Init ==
    /\ clock = 0
    /\ row \in {Absent, Unlocked}      \* AddTask's insert may have failed
    /\ proc = [n \in Nodes |-> "up"]
    /\ pc = [r \in Runs |-> "idle"]
    /\ nowText = [r \in Runs |-> 0]
    /\ seen = [r \in Runs |-> NoNode]
    /\ incidents = {}

Goto(r, l) == pc' = [pc EXCEPT ![r] = l] /\ UNCHANGED <<nowText, seen>>

(* The goroutine returns from executeTask; its locals are gone.             *)
Return(r) ==
    /\ pc' = [pc EXCEPT ![r] = "idle"]
    /\ nowText' = [nowText EXCEPT ![r] = 0]
    /\ seen' = [seen EXCEPT ![r] = NoNode]

FaultsAllowed == clock <= LastFault

-----------------------------------------------------------------------------
(* Time, in whole seconds.  A run still inside executeTask LockTimeout      *)
(* after the second it will write, or has written, to locked_at overruns.   *)
Tick ==
    /\ clock < MaxClock
    /\ clock' = clock + 1
    /\ incidents' = IF \E r \in Runs : /\ pc[r] # "idle"
                                       /\ clock + 1 - nowText[r] >= LockTimeout
                    THEN incidents \cup {"overrun"}
                    ELSE incidents
    /\ UNCHANGED <<row, proc, pc, nowText, seen>>

(* executeTask calls acquireTaskLock, which captures the current instant.   *)
(* Once the scheduler is stopped no run is dispatched, but TriggerTask is   *)
(* served until the HTTP server shuts down as well.                         *)
Begin(r) ==
    /\ pc[r] = "idle"
    /\ proc[home[r]] # "down"
    /\ pc' = [pc EXCEPT ![r] = "select"]
    /\ nowText' = [nowText EXCEPT ![r] = clock]
    /\ incidents' = IF \E s \in Runs \ {r} : home[s] = home[r] /\ pc[s] # "idle"
                    THEN incidents \cup {"overlap"}
                    ELSE incidents
    /\ UNCHANGED <<clock, row, proc, seen>>

StaleEarly(r) == row.at <= nowText[r] - LockTimeout + 1   \* mutant: a second early
NeverStale(r) == FALSE                                    \* mutant: no lease

(* Somebody else's lock may be taken only when it is older than the lease.  *)
(* locked_at is text in whole seconds while lockExpiry keeps its fraction,  *)
(* so a lock taken LockTimeout seconds ago already counts as older, unless  *)
(* the fraction is zero.                                                    *)
Stale(r) == row.at <= nowText[r] - LockTimeout

Foreign(r) == row.by \notin {NoNode, home[r]}

Refused(r) == Foreign(r) /\ row.at >= nowText[r] - LockTimeout

Takeable(r) == Foreign(r) => Stale(r)

(* SELECT locked_by, locked_at, and the decision made on what it returned.  *)
Select(r) ==
    /\ pc[r] = "select"
    /\ \/ row.by = NoRow /\ Goto(r, "insert")
       \/ row.by # NoRow /\ Refused(r) /\ Return(r)
       \/ /\ row.by # NoRow /\ Takeable(r)
          /\ pc' = [pc EXCEPT ![r] = "cas"]
          /\ seen' = [seen EXCEPT ![r] = row.by]
          /\ UNCHANGED nowText
    /\ UNCHANGED <<clock, row, proc, incidents>>

(* INSERT ... ON CONFLICT(task_id) DO NOTHING.                              *)
Insert(r) ==
    /\ pc[r] = "insert"
    /\ IF row.by = NoRow
       THEN Goto(r, "running") /\ row' = Held(home[r], nowText[r])
       ELSE Return(r) /\ UNCHANGED row
    /\ UNCHANGED <<clock, proc, incidents>>

UnconditionalUpdate(r) == TRUE   \* mutant: no WHERE on the holder observed

(* UPDATE ... WHERE locked_by = <the holder observed> (or IS NULL).         *)
CasMatches(r) == row.by = seen[r]

Cas(r) ==
    /\ pc[r] = "cas"
    /\ CasMatches(r)
    /\ Goto(r, "running")
    /\ row' = Held(home[r], nowText[r])
    /\ UNCHANGED <<clock, proc, incidents>>

(* Zero affected rows: the WHERE clause did not match, or the driver does   *)
(* not count an update that rewrites identical values.                      *)
CasNoRows(r) ==
    /\ pc[r] = "cas"
    /\ CasMatches(r) => row = Held(home[r], nowText[r])
    /\ Goto(r, "confirm")
    /\ UNCHANGED <<clock, row, proc, incidents>>

ConfirmLocked(r) ==   \* mutant: any holder confirms
    /\ pc[r] = "confirm"
    /\ IF row.by \in Nodes THEN Goto(r, "running") ELSE Return(r)
    /\ UNCHANGED <<clock, row, proc, incidents>>

(* SELECT locked_by again to tell the two apart.                            *)
Confirm(r) ==
    /\ pc[r] = "confirm"
    /\ IF row.by = home[r] THEN Goto(r, "running") ELSE Return(r)
    /\ UNCHANGED <<clock, row, proc, incidents>>

(* A statement of acquireTaskLock returns an error and it returns false.    *)
(* An UPDATE or INSERT that ran into its context deadline may have been     *)
(* applied by the server all the same.                                      *)
AcquireError(r) ==
    /\ pc[r] \in {"select", "insert", "cas", "confirm"}
    /\ FaultsAllowed
    /\ Return(r)
    /\ \/ UNCHANGED row
       \/ /\ \/ pc[r] = "insert" /\ row.by = NoRow
             \/ pc[r] = "cas" /\ CasMatches(r)
          /\ row' = Held(home[r], nowText[r])
    /\ incidents' = incidents \cup {"dbError"}
    /\ UNCHANGED <<clock, proc>>

NotCleared(n) == row   \* mutant: the lock is not released

(* The task function and its bookkeeping are over; the deferred             *)
(* releaseTaskLock clears the row WHERE locked_by = this node.              *)
Cleared(n) == IF row.by = n THEN Unlocked ELSE row

Release(r) ==
    /\ pc[r] = "running"
    /\ Return(r)
    /\ row' = Cleared(home[r])
    /\ UNCHANGED <<clock, proc, incidents>>

ReleaseError(r) ==
    /\ pc[r] = "running"
    /\ FaultsAllowed
    /\ Return(r)
    /\ incidents' = incidents \cup {"dbError"}
    /\ UNCHANGED <<clock, row, proc>>

(* StopScheduler ends with releaseNodeLocks.  The drain may have timed out, *)
(* and it never waits for runs started by TriggerTask, so runs of this node *)
(* may still be executing.                                                  *)
Active(n) == {r \in Runs : home[r] = n /\ pc[r] # "idle"}

ReleaseNodeLocks(n) ==
    /\ proc[n] = "up"
    /\ proc' = [proc EXCEPT ![n] = "stopped"]
    /\ row' = Cleared(n)
    /\ incidents' = IF Active(n) # {} THEN incidents \cup {"earlyRelease"} ELSE incidents
    /\ UNCHANGED <<clock, pc, nowText, seen>>

(* The process ends, orderly or not, taking its goroutines with it and      *)
(* leaving the row as it is.  It is a crash if a run was still executing.   *)
Exit(n) ==
    /\ proc[n] # "down"
    /\ FaultsAllowed
    /\ proc' = [proc EXCEPT ![n] = "down"]
    /\ pc' = [r \in Runs |-> IF home[r] = n THEN "idle" ELSE pc[r]]
    /\ nowText' = [r \in Runs |-> IF home[r] = n THEN 0 ELSE nowText[r]]
    /\ seen' = [r \in Runs |-> IF home[r] = n THEN NoNode ELSE seen[r]]
    /\ incidents' = IF Active(n) # {} THEN incidents \cup {"crash"} ELSE incidents
    /\ UNCHANGED <<clock, row>>

(* The process starts again under the same host name: same node identity.   *)
Restart(n) ==
    /\ proc[n] = "down"
    /\ proc' = [proc EXCEPT ![n] = "up"]
    /\ UNCHANGED <<clock, row, pc, nowText, seen, incidents>>

RunStep(r) ==
    \/ Select(r)
    \/ Insert(r)
    \/ Cas(r)
    \/ CasNoRows(r)
    \/ Confirm(r)
    \/ AcquireError(r)
    \/ Release(r)
    \/ ReleaseError(r)

NodeStep(n) ==
    \/ ReleaseNodeLocks(n)
    \/ Exit(n)
    \/ Restart(n)

Next ==
    \/ Tick
    \/ \E r \in Runs : Begin(r) \/ RunStep(r)
    \/ \E n \in Nodes : NodeStep(n)

Spec == Init /\ [][Next]_vars

(* The ticker keeps dispatching, goroutines keep running, time passes.      *)
(* Nothing obliges a node to crash, to stop or to come back.                *)
FairSpec ==
    /\ Spec
    /\ WF_vars(Tick)
    /\ \A r \in Runs : /\ WF_vars(RunStep(r))
                       /\ WF_vars(proc[home[r]] = "up" /\ Begin(r))

-----------------------------------------------------------------------------
Running == {r \in Runs : pc[r] = "running"}

RunningNodes == {home[r] : r \in Running}

(* The inductive invariant behind the properties below.  Its parts: the     *)
(* lock was written by a run that is still executing; a live run's captured *)
(* instant is within the lease; a run about to UPDATE observed no foreign   *)
(* holder; runs of a node do not overlap; a run that executes holds.        *)
HeldByWriter ==
    (incidents \cap {"crash", "dbError"} = {} /\ row.by \in Nodes) =>
        \E r \in Running : row = Held(home[r], nowText[r])

WithinLease ==
    "overrun" \notin incidents =>
        \A r \in Runs : pc[r] # "idle" => clock < nowText[r] + LockTimeout

NoForeignSeen ==
    incidents \cap {"crash", "dbError", "overrun"} = {} =>
        \A r \in Runs : pc[r] = "cas" => seen[r] \in {NoNode, home[r]}

OneRunPerNode ==
    "overlap" \notin incidents =>
        \A r, s \in Runs :
            (pc[r] # "idle" /\ pc[s] # "idle" /\ home[r] = home[s]) => r = s

RunnerHolds ==
    incidents = {} => \A r \in Running : row = Held(home[r], nowText[r])

CapturedInPast == \A r \in Runs : nowText[r] <= clock

IInv ==
    /\ TypeOK
    /\ CapturedInPast
    /\ HeldByWriter
    /\ WithinLease
    /\ NoForeignSeen
    /\ OneRunPerNode
    /\ RunnerHolds

(* As long as runs of one node do not overlap, finish within LockTimeout    *)
(* and no crash, database error or early release has happened, two nodes    *)
(* never run the task at once (isGlobalTask: "only run on one node").       *)
MutualExclusion ==
    incidents = {} => \A r, s \in Running : home[r] = home[s]

(* The same as a specification: until an incident happens, TaskLock is an   *)
(* implementation of a task that one node enters and leaves at a time.      *)
Exclusive == INSTANCE ExclusiveTask
                WITH executing <- RunningNodes, broken <- incidents # {}

ImplementsExclusiveTask == Exclusive!Spec

(* A held lock belongs to a node that is really running the task: whatever  *)
(* overlaps and however long runs take, only a crash or a database error    *)
(* can leave the row locked with nobody behind it (defer releaseTaskLock).  *)
NoOrphanLock ==
    (incidents \cap {"crash", "dbError"} = {} /\ row.by \in Nodes)
        => row.by \in RunningNodes

(* A step never hands the lock straight from one node to another unless the *)
(* lock had been held for longer than LockTimeout or some node has crashed, *)
(* overrun or failed: without those, the only transfers go through NULL.    *)
NoSilentTakeover ==
    [][(incidents \cap {"crash", "overrun", "dbError"} = {} /\ row.by \in Nodes)
        => row'.by \in {row.by, NoNode}]_vars

(* A lock left behind by a dead node, or by a statement that failed, does   *)
(* not stay: while some node's scheduler runs it is taken over or released.  *)
Orphaned(n) == row.by = n /\ n \notin RunningNodes

OrphanRecovered ==
    \A n \in Nodes : Orphaned(n) ~> (~Orphaned(n) \/ \A m \in Nodes : proc[m] # "up")

(* What AI.md promises of global tasks, for runs that all finish within     *)
(* their lease on nodes that neither crash nor fail: one node at a time.    *)
OneNodeOnly ==
    incidents \subseteq {"overlap"} => \A r, s \in Running : home[r] = home[s]
=============================================================================
