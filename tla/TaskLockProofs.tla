--------------------------- MODULE TaskLockProofs ---------------------------
(***************************************************************************)
(* Proofs about TaskLock, for every set of nodes, any number of concurrent  *)
(* runs per node and every lease length.                                    *)
(***************************************************************************)
EXTENDS TaskLock, TLAPS

USE LockAssumption DEF LockAssumption

(* The initial state is well typed: AddTask has inserted the row or failed to.*)
LEMMA TypeInit == Init => TypeOK
  BY DEF Init, TypeOK, Absent, Unlocked, PCs

(* Every step of acquireTaskLock, of a release and of a node keeps the types.*)
LEMMA TypeStep == TypeOK /\ [Next]_vars => TypeOK'
  <2> SUFFICES ASSUME TypeOK, [Next]_vars PROVE TypeOK'
    OBVIOUS
  <2> USE DEF TypeOK, PCs, Incidents
  <2>1. CASE Tick
    BY <2>1 DEF Tick
  <2>2. ASSUME NEW r \in Runs, Begin(r) PROVE TypeOK'
    BY <2>2 DEF Begin
  <2>3. ASSUME NEW r \in Runs, RunStep(r) PROVE TypeOK'
    <3>1. CASE Select(r)
      BY <3>1 DEF Select, Goto, Return
    <3>2. CASE Insert(r)
      BY <3>2 DEF Insert, Goto, Return, Held
    <3>3. CASE Cas(r)
      BY <3>3 DEF Cas, Goto, Held
    <3>4. CASE CasNoRows(r)
      BY <3>4 DEF CasNoRows, Goto
    <3>5. CASE Confirm(r)
      BY <3>5 DEF Confirm, Goto, Return
    <3>6. CASE AcquireError(r)
      BY <3>6 DEF AcquireError, Return, Held
    <3>7. CASE Release(r)
      BY <3>7 DEF Release, Return, Cleared, Unlocked
    <3>8. CASE ReleaseError(r)
      BY <3>8 DEF ReleaseError, Return
    <3> QED
      BY <2>3, <3>1, <3>2, <3>3, <3>4, <3>5, <3>6, <3>7, <3>8 DEF RunStep
  <2>4. ASSUME NEW n \in Nodes, NodeStep(n) PROVE TypeOK'
    <3>1. CASE ReleaseNodeLocks(n)
      BY <3>1 DEF ReleaseNodeLocks, Cleared, Unlocked
    <3>2. CASE Exit(n)
      BY <3>2 DEF Exit
    <3>3. CASE Restart(n)
      BY <3>3 DEF Restart
    <3> QED
      BY <2>4, <3>1, <3>2, <3>3 DEF NodeStep
  <2>5. CASE UNCHANGED vars
    BY <2>5 DEF vars
  <2> QED
    BY <2>1, <2>2, <2>3, <2>4, <2>5 DEF Next

(* Every variable keeps its type.                                           *)
THEOREM TypeCorrect == Spec => []TypeOK
  BY TypeInit, TypeStep, PTL DEF Spec

-----------------------------------------------------------------------------
(* No run is inside executeTask at first, so IInv holds.                    *)
LEMMA InvInit == Init => IInv
  <1> SUFFICES ASSUME Init PROVE IInv
    OBVIOUS
  <1>1. TypeOK
    BY TypeInit
  <1> QED
    BY <1>1 DEF Init, IInv, CapturedInPast, HeldByWriter, WithinLease, NoForeignSeen,
                OneRunPerNode, RunnerHolds, Running, Absent, Unlocked

(* Incidents only accumulate, so a part of IInv that excludes some of them  *)
(* holds vacuously after them.                                              *)
LEMMA IncidentsGrow == ASSUME [Next]_vars PROVE incidents \subseteq incidents'
  BY DEF Next, vars, Tick, Begin, RunStep, NodeStep, Select, Insert, Cas, CasNoRows,
         Confirm, AcquireError, Release, ReleaseError, ReleaseNodeLocks, Exit, Restart

(* acquireTaskLock reads the clock on entry: the instant a run captured never*)
(* lies ahead of the clock.                                                 *)
LEMMA CapturedStep == IInv /\ [Next]_vars => CapturedInPast'
  <1> SUFFICES ASSUME IInv, [Next]_vars PROVE CapturedInPast'
    OBVIOUS
  <1> USE DEF IInv, TypeOK, CapturedInPast
  <1>1. CASE Tick
    BY <1>1 DEF Tick
  <1>2. ASSUME NEW r \in Runs, Begin(r) PROVE CapturedInPast'
    BY <1>2 DEF Begin
  <1>3. ASSUME NEW r \in Runs, RunStep(r) PROVE CapturedInPast'
    BY <1>3 DEF RunStep, Select, Insert, Cas, CasNoRows, Confirm, AcquireError,
                Release, ReleaseError, Goto, Return
  <1>4. ASSUME NEW n \in Nodes, NodeStep(n) PROVE CapturedInPast'
    BY <1>4 DEF NodeStep, ReleaseNodeLocks, Exit, Restart
  <1>5. CASE UNCHANGED vars
    BY <1>5 DEF vars
  <1> QED
    BY <1>1, <1>2, <1>3, <1>4, <1>5 DEF Next

(* Without a crash or a database error, a row that names a node was written *)
(* by a run of that node which is still executing: defer releaseTaskLock    *)
(* clears it before the run is over.                                        *)
LEMMA WriterStep == IInv /\ [Next]_vars => HeldByWriter'
  <1> SUFFICES ASSUME IInv, [Next]_vars,
                      incidents' \cap {"crash", "dbError"} = {},
                      row'.by \in Nodes
               PROVE  \E r \in Runs : /\ pc'[r] = "running"
                                       /\ row' = Held(home[r], nowText'[r])
    BY DEF HeldByWriter, Running
  <1>0. incidents \cap {"crash", "dbError"} = {}
    BY IncidentsGrow
  <1> USE <1>0 DEF IInv, TypeOK
  <1>1. row.by \in Nodes => \E r \in Runs : /\ pc[r] = "running"
                                            /\ row = Held(home[r], nowText[r])
    BY DEF HeldByWriter, Running
  <1>2. CASE Tick
    BY <1>1, <1>2 DEF Tick
  <1>3. ASSUME NEW s \in Runs, Begin(s)
        PROVE  \E r \in Runs : pc'[r] = "running" /\ row' = Held(home[r], nowText'[r])
    BY <1>1, <1>3 DEF Begin
  <1>4. ASSUME NEW s \in Runs, RunStep(s)
        PROVE  \E r \in Runs : pc'[r] = "running" /\ row' = Held(home[r], nowText'[r])
    <2>1. CASE Select(s)
      BY <1>1, <2>1 DEF Select, Goto, Return
    <2>2. CASE Insert(s)
      BY <1>1, <2>2 DEF Insert, Goto, Return
    <2>3. CASE Cas(s)
      BY <2>3 DEF Cas, Goto
    <2>4. CASE CasNoRows(s)
      BY <1>1, <2>4 DEF CasNoRows, Goto
    <2>5. CASE Confirm(s)
      BY <1>1, <2>5 DEF Confirm, Goto, Return
    <2>6. CASE AcquireError(s) \/ ReleaseError(s)
      BY <2>6 DEF AcquireError, ReleaseError
    <2>7. CASE Release(s)
      <3>1. row.by # home[s] /\ row' = row
        BY <2>7 DEF Release, Cleared, Unlocked
      <3>2. PICK r \in Runs : pc[r] = "running" /\ row = Held(home[r], nowText[r])
        BY <1>1, <3>1
      <3>3. r # s
        BY <3>1, <3>2 DEF Held
      <3> QED
        BY <2>7, <3>1, <3>2, <3>3 DEF Release, Return
    <2> QED
      BY <1>4, <2>1, <2>2, <2>3, <2>4, <2>5, <2>6, <2>7 DEF RunStep
  <1>5. ASSUME NEW n \in Nodes, NodeStep(n)
        PROVE  \E r \in Runs : pc'[r] = "running" /\ row' = Held(home[r], nowText'[r])
    <2>1. CASE ReleaseNodeLocks(n)
      BY <1>1, <2>1 DEF ReleaseNodeLocks, Cleared, Unlocked
    <2>2. CASE Exit(n)
      <3>1. \A r \in Runs : home[r] = n => pc[r] = "idle"
        BY <2>2 DEF Exit, Active
      <3>2. PICK r \in Runs : pc[r] = "running" /\ row = Held(home[r], nowText[r])
        BY <1>1, <2>2 DEF Exit
      <3> QED
        BY <2>2, <3>1, <3>2 DEF Exit
    <2>3. CASE Restart(n)
      BY <1>1, <2>3 DEF Restart
    <2> QED
      BY <1>5, <2>1, <2>2, <2>3 DEF NodeStep
  <1>6. CASE UNCHANGED vars
    BY <1>1, <1>6 DEF vars
  <1> QED
    BY <1>2, <1>3, <1>4, <1>5, <1>6 DEF Next

(* Until some run overruns, every run inside executeTask is within LockTimeout*)
(* of the instant it captured.                                              *)
LEMMA LeaseStep == IInv /\ [Next]_vars => WithinLease'
  <1> SUFFICES ASSUME IInv, [Next]_vars, "overrun" \notin incidents',
                      NEW r \in Runs, pc'[r] # "idle"
               PROVE  clock' < nowText'[r] + LockTimeout
    BY DEF WithinLease
  <1>0. "overrun" \notin incidents
    BY IncidentsGrow
  <1> USE <1>0 DEF IInv, TypeOK, WithinLease
  <1>1. CASE Tick
    BY <1>1 DEF Tick
  <1>2. ASSUME NEW s \in Runs, Begin(s) PROVE clock' < nowText'[r] + LockTimeout
    BY <1>2 DEF Begin
  <1>3. ASSUME NEW s \in Runs, RunStep(s) PROVE clock' < nowText'[r] + LockTimeout
    BY <1>3 DEF RunStep, Select, Insert, Cas, CasNoRows, Confirm, AcquireError,
                Release, ReleaseError, Goto, Return
  <1>4. ASSUME NEW n \in Nodes, NodeStep(n) PROVE clock' < nowText'[r] + LockTimeout
    BY <1>4 DEF NodeStep, ReleaseNodeLocks, Exit, Restart
  <1>5. CASE UNCHANGED vars
    BY <1>5 DEF vars
  <1> QED
    BY <1>1, <1>2, <1>3, <1>4, <1>5 DEF Next

(* What another node's lock looks like to a run that reads it: its writer   *)
(* is still executing, within the lease, so it cannot be older than that.   *)
LEMMA ForeignLockIsFresh ==
  ASSUME IInv, incidents \cap {"crash", "dbError", "overrun"} = {},
         NEW r \in Runs, row.by \in Nodes
  PROVE  ~Stale(r)
  <1>1. PICK w \in Runs : pc[w] = "running" /\ row = Held(home[w], nowText[w])
    BY DEF IInv, HeldByWriter, Running
  <1>2. clock < nowText[w] + LockTimeout
    BY <1>1 DEF IInv, WithinLease
  <1>3. nowText[r] <= clock
    BY DEF IInv, CapturedInPast
  <1>4. row.at = nowText[w]
    BY <1>1 DEF Held
  <1> QED
    BY <1>2, <1>3, <1>4 DEF Stale, IInv, TypeOK

(* A run that goes on to its UPDATE has seen NULL or its own node in locked_by,*)
(* because another node's lock would still have been fresh.                 *)
LEMMA ForeignStep == IInv /\ [Next]_vars => NoForeignSeen'
  <1> SUFFICES ASSUME IInv, [Next]_vars,
                      incidents' \cap {"crash", "dbError", "overrun"} = {},
                      NEW r \in Runs, pc'[r] = "cas"
               PROVE  seen'[r] \in {NoNode, home[r]}
    BY DEF NoForeignSeen
  <1>0. incidents \cap {"crash", "dbError", "overrun"} = {}
    BY IncidentsGrow
  <1> USE <1>0 DEF IInv, TypeOK, NoForeignSeen
  <1>1. CASE Tick
    BY <1>1 DEF Tick
  <1>2. ASSUME NEW s \in Runs, Begin(s) PROVE seen'[r] \in {NoNode, home[r]}
    BY <1>2 DEF Begin
  <1>3. ASSUME NEW s \in Runs, RunStep(s) PROVE seen'[r] \in {NoNode, home[r]}
    <2>1. CASE Select(s)
      <3>1. CASE r = s
        <4>1. row.by # NoRow /\ Takeable(r) /\ seen'[r] = row.by
          BY <2>1, <3>1 DEF Select, Goto, Return
        <4> QED
          BY <4>1, ForeignLockIsFresh DEF Takeable, Foreign
      <3> QED
        BY <2>1, <3>1 DEF Select, Goto, Return
    <2>2. CASE ~Select(s)
      BY <1>3, <2>2 DEF RunStep, Insert, Cas, CasNoRows, Confirm, AcquireError,
                        Release, ReleaseError, Goto, Return
    <2> QED
      BY <2>1, <2>2
  <1>4. ASSUME NEW n \in Nodes, NodeStep(n) PROVE seen'[r] \in {NoNode, home[r]}
    BY <1>4 DEF NodeStep, ReleaseNodeLocks, Exit, Restart
  <1>5. CASE UNCHANGED vars
    BY <1>5 DEF vars
  <1> QED
    BY <1>1, <1>2, <1>3, <1>4, <1>5 DEF Next

(* Until runs of one node overlap, a node has one run inside executeTask.   *)
LEMMA OverlapStep == IInv /\ [Next]_vars => OneRunPerNode'
  <1> SUFFICES ASSUME IInv, [Next]_vars, "overlap" \notin incidents',
                      NEW r \in Runs, NEW s \in Runs,
                      pc'[r] # "idle", pc'[s] # "idle", home[r] = home[s]
               PROVE  r = s
    BY DEF OneRunPerNode
  <1>0. "overlap" \notin incidents
    BY IncidentsGrow
  <1> USE <1>0 DEF IInv, TypeOK, OneRunPerNode
  <1>1. CASE Tick
    BY <1>1 DEF Tick
  <1>2. ASSUME NEW t \in Runs, Begin(t) PROVE r = s
    BY <1>2 DEF Begin
  <1>3. ASSUME NEW t \in Runs, RunStep(t) PROVE r = s
    BY <1>3 DEF RunStep, Select, Insert, Cas, CasNoRows, Confirm, AcquireError,
                Release, ReleaseError, Goto, Return
  <1>4. ASSUME NEW n \in Nodes, NodeStep(n) PROVE r = s
    BY <1>4 DEF NodeStep, ReleaseNodeLocks, Exit, Restart
  <1>5. CASE UNCHANGED vars
    BY <1>5 DEF vars
  <1> QED
    BY <1>1, <1>2, <1>3, <1>4, <1>5 DEF Next

(* Without an incident, a run that executes the task function is the one the*)
(* row names, with the instant it captured.                                 *)
LEMMA RunnerStep == IInv /\ [Next]_vars => RunnerHolds'
  <1> SUFFICES ASSUME IInv, [Next]_vars, incidents' = {},
                      NEW r \in Runs, pc'[r] = "running"
               PROVE  row' = Held(home[r], nowText'[r])
    BY DEF RunnerHolds, Running
  <1>0. incidents = {}
    BY IncidentsGrow
  <1>a. pc[r] = "running" => row = Held(home[r], nowText[r])
    BY <1>0 DEF IInv, RunnerHolds, Running
  <1>b. ASSUME row.by \in Nodes
        PROVE  \E w \in Runs : pc[w] = "running" /\ row = Held(home[w], nowText[w])
    BY <1>0, <1>b DEF IInv, HeldByWriter, Running
  <1> USE <1>0 DEF IInv, TypeOK
  <1>1. CASE Tick
    BY <1>1, <1>a DEF Tick
  <1>2. ASSUME NEW s \in Runs, Begin(s) PROVE row' = Held(home[r], nowText'[r])
    BY <1>2, <1>a DEF Begin
  <1>3. ASSUME NEW s \in Runs, RunStep(s) PROVE row' = Held(home[r], nowText'[r])
    <2>0. ASSUME row.by \in {NoNode, NoRow} PROVE pc[r] # "running"
      BY <1>a, <2>0 DEF Held
    <2>00. ASSUME row.by = home[s] PROVE pc[s] = "running"
      <3>1. PICK w \in Runs : pc[w] = "running" /\ row = Held(home[w], nowText[w])
        BY <1>b, <2>00
      <3>2. home[w] = home[s]
        BY <2>00, <3>1 DEF Held
      <3>3. pc[s] # "idle"
        BY <1>3 DEF RunStep, Select, Insert, Cas, CasNoRows, Confirm, AcquireError,
                    Release, ReleaseError
      <3> QED
        BY <3>1, <3>2, <3>3 DEF OneRunPerNode
    <2>1. CASE Select(s)
      BY <1>a, <2>1 DEF Select, Goto, Return
    <2>2. CASE Insert(s)
      BY <1>a, <2>0, <2>2 DEF Insert, Goto, Return
    <2>3. CASE Cas(s)
      <3>1. seen[s] \in {NoNode, home[s]}
        BY <2>3 DEF Cas, NoForeignSeen
      <3>2. row.by = NoNode
        BY <2>00, <2>3, <3>1 DEF Cas, CasMatches
      <3> QED
        BY <2>0, <2>3, <3>2 DEF Cas, Goto
    <2>4. CASE CasNoRows(s)
      BY <1>a, <2>4 DEF CasNoRows, Goto
    <2>5. CASE Confirm(s)
      BY <1>a, <2>00, <2>5 DEF Confirm, Goto, Return
    <2>6. CASE AcquireError(s) \/ ReleaseError(s)
      BY <2>6 DEF AcquireError, ReleaseError
    <2>7. CASE Release(s)
      <3>1. r # s /\ pc[r] = "running" /\ nowText'[r] = nowText[r]
        BY <2>7 DEF Release, Return
      <3>2. row = Held(home[r], nowText[r])
        BY <1>a, <3>1
      <3>3. home[r] # home[s]
        BY <2>7, <3>1 DEF Release, OneRunPerNode
      <3>4. row.by # home[s]
        BY <3>2, <3>3 DEF Held
      <3> QED
        BY <2>7, <3>1, <3>2, <3>4 DEF Release, Cleared
    <2> QED
      BY <1>3, <2>1, <2>2, <2>3, <2>4, <2>5, <2>6, <2>7 DEF RunStep
  <1>4. ASSUME NEW n \in Nodes, NodeStep(n) PROVE row' = Held(home[r], nowText'[r])
    <2>1. CASE ReleaseNodeLocks(n)
      <3>1. home[r] # n
        BY <2>1 DEF ReleaseNodeLocks, Active
      <3> QED
        BY <1>a, <2>1, <3>1 DEF ReleaseNodeLocks, Cleared, Held
    <2>2. CASE Exit(n)
      BY <1>a, <2>2 DEF Exit
    <2>3. CASE Restart(n)
      BY <1>a, <2>3 DEF Restart
    <2> QED
      BY <1>4, <2>1, <2>2, <2>3 DEF NodeStep
  <1>5. CASE UNCHANGED vars
    BY <1>a, <1>5 DEF vars
  <1> QED
    BY <1>1, <1>2, <1>3, <1>4, <1>5 DEF Next

(* IInv is an invariant: established by Init and kept by every step.        *)
THEOREM Inductive == Spec => []IInv
  <1>1. IInv /\ [Next]_vars => IInv'
    BY TypeStep, CapturedStep, WriterStep, LeaseStep, ForeignStep, OverlapStep, RunnerStep
       DEF IInv
  <1> QED
    BY InvInit, <1>1, PTL DEF Spec

-----------------------------------------------------------------------------
(* Without an incident two nodes never execute the global task at once.     *)
THEOREM LockExcludes == Spec => []MutualExclusion
  <1>1. IInv => MutualExclusion
    BY DEF IInv, RunnerHolds, MutualExclusion, Running, Held
  <1> QED
    BY Inductive, <1>1, PTL

(* Only a crash or a database error can leave the row locked by a node that *)
(* is not executing the task.                                               *)
THEOREM LockNotLeaked == Spec => []NoOrphanLock
  <1>1. IInv => NoOrphanLock
    BY DEF IInv, HeldByWriter, NoOrphanLock, RunningNodes, Held
  <1> QED
    BY Inductive, <1>1, PTL

(* No step hands the lock from one node directly to another unless a crash, *)
(* an overrun or a database error has happened.                             *)
THEOREM LockNotStolen == Spec => NoSilentTakeover
  <1> DEFINE Kept == (incidents \cap {"crash", "overrun", "dbError"} = {} /\ row.by \in Nodes)
                       => row'.by \in {row.by, NoNode}
  <1>1. IInv /\ [Next]_vars => Kept
    <2> SUFFICES ASSUME IInv, [Next]_vars, row.by \in Nodes,
                        incidents \cap {"crash", "overrun", "dbError"} = {}
                 PROVE  row'.by \in {row.by, NoNode}
      OBVIOUS
    <2> USE DEF IInv, TypeOK
    <2>1. CASE Tick
      BY <2>1 DEF Tick
    <2>2. ASSUME NEW r \in Runs, Begin(r) \/ RunStep(r) PROVE row'.by \in {row.by, NoNode}
      <3>1. CASE Cas(r) \/ AcquireError(r)
        <4>1. CASE row' = row
          BY <4>1
        <4>2. CASE row' # row
          <5>1. row' = Held(home[r], nowText[r]) /\ pc[r] = "cas" /\ row.by = seen[r]
            BY <3>1, <4>2 DEF Cas, AcquireError, CasMatches
          <5>2. seen[r] \in {NoNode, home[r]}
            BY <5>1 DEF NoForeignSeen
          <5> QED
            BY <5>1, <5>2 DEF Held
        <4> QED
          BY <4>1, <4>2
      <3>2. CASE ~(Cas(r) \/ AcquireError(r))
        BY <2>2, <3>2 DEF RunStep, Begin, Select, Insert, CasNoRows, Confirm, Release,
                          ReleaseError, Cleared, Unlocked
      <3> QED
        BY <3>1, <3>2
    <2>3. ASSUME NEW n \in Nodes, NodeStep(n) PROVE row'.by \in {row.by, NoNode}
      BY <2>3 DEF NodeStep, ReleaseNodeLocks, Exit, Restart, Cleared, Unlocked
    <2>4. CASE UNCHANGED vars
      BY <2>4 DEF vars
    <2> QED
      BY <2>1, <2>2, <2>3, <2>4 DEF Next
  <1>2. IInv /\ [Next]_vars => [Kept]_vars
    BY <1>1
  <1> QED
    BY Inductive, <1>2, PTL DEF Spec, NoSilentTakeover

-----------------------------------------------------------------------------
(* The set of executing nodes, seen from one of them.                       *)
LEMMA OnlyRunner ==
  ASSUME IInv, incidents = {}, NEW r \in Runs, pc[r] = "running"
  PROVE  RunningNodes = {home[r]}
  BY DEF IInv, RunnerHolds, RunningNodes, Running, Held

(* While the row names no node, no node executes the task.                  *)
LEMMA NoRunnerUnlessHeld ==
  ASSUME IInv, incidents = {}, row.by \notin Nodes
  PROVE  RunningNodes = {}
  BY DEF IInv, RunnerHolds, RunningNodes, Running, Held

(* A run begins executing: the set was empty and now holds its node.        *)
LEMMA EnterMapsToStart ==
  ASSUME IInv, IInv', incidents = {}, incidents' = {}, NEW r \in Runs,
         row.by \notin Nodes, pc'[r] = "running"
  PROVE  Exclusive!Start(home[r])
  <1>1. RunningNodes = {}
    BY NoRunnerUnlessHeld
  <1>2. RunningNodes' = {home[r]}
    BY DEF IInv, RunnerHolds, RunningNodes, Running, Held
  <1> QED
    BY <1>1, <1>2 DEF Exclusive!Start

(* TaskLock implements ExclusiveTask: every step is a Start, a Finish, a    *)
(* Break or leaves the executing set alone.                                 *)
THEOREM LockRefines == Spec => ImplementsExclusiveTask
  <1>1. Init => Exclusive!Init
    BY DEF Init, Exclusive!Init, RunningNodes, Running
  <1>2. IInv /\ IInv' /\ [Next]_vars => [Exclusive!Next]_Exclusive!vars
    <2> SUFFICES ASSUME IInv, IInv', [Next]_vars
                 PROVE  Exclusive!Next \/ UNCHANGED <<RunningNodes, incidents # {}>>
      BY DEF Exclusive!vars
    <2>1. CASE incidents' # {}
      <3>1. RunningNodes' \in SUBSET Nodes
        BY DEF RunningNodes, Running
      <3> QED
        BY <2>1, <3>1 DEF Exclusive!Next, Exclusive!Break
    <2>2. CASE incidents' = {}
      <3>0. incidents = {}
        BY <2>2, IncidentsGrow
      <3> USE <2>2, <3>0
      <3> DEFINE Same == UNCHANGED <<RunningNodes, incidents # {}>>
      <3>a. ASSUME \A r \in Runs : pc[r] = "running" <=> pc'[r] = "running" PROVE Same
        BY <3>a DEF RunningNodes, Running
      <3>1. CASE Tick
        BY <3>1, <3>a DEF Tick
      <3>2. ASSUME NEW r \in Runs, Begin(r) PROVE Same
        BY <3>2, <3>a DEF Begin, IInv, TypeOK
      <3>3. ASSUME NEW r \in Runs, RunStep(r) PROVE Exclusive!Next \/ Same
        <4>0. ASSUME row.by = home[r] PROVE pc[r] = "running"
          <5>1. PICK w \in Runs : pc[w] = "running" /\ row = Held(home[w], nowText[w])
            BY <4>0 DEF IInv, HeldByWriter, Running
          <5>2. pc[r] # "idle"
            BY <3>3 DEF RunStep, Select, Insert, Cas, CasNoRows, Confirm, AcquireError,
                        Release, ReleaseError
          <5> QED
            BY <4>0, <5>1, <5>2 DEF IInv, OneRunPerNode, Held
        <4>1. CASE Select(r)
          BY <3>a, <4>1 DEF Select, Goto, Return, IInv, TypeOK
        <4>2. CASE Insert(r)
          <5>1. CASE row.by = NoRow
            BY <4>2, <5>1, EnterMapsToStart DEF Insert, Goto, Exclusive!Next, IInv, TypeOK
          <5>2. CASE row.by # NoRow
            BY <3>a, <4>2, <5>2 DEF Insert, Return, IInv, TypeOK
          <5> QED
            BY <5>1, <5>2
        <4>3. CASE Cas(r)
          <5>1. row.by = NoNode
            BY <4>0, <4>3 DEF Cas, CasMatches, IInv, NoForeignSeen
          <5> QED
            BY <4>3, <5>1, EnterMapsToStart DEF Cas, Goto, Exclusive!Next, IInv, TypeOK
        <4>4. CASE CasNoRows(r)
          BY <3>a, <4>4 DEF CasNoRows, Goto, IInv, TypeOK
        <4>5. CASE Confirm(r)
          BY <3>a, <4>0, <4>5 DEF Confirm, Return, IInv, TypeOK
        <4>6. CASE AcquireError(r) \/ ReleaseError(r)
          BY <4>6 DEF AcquireError, ReleaseError
        <4>7. CASE Release(r)
          <5>1. RunningNodes = {home[r]}
            BY <4>7, OnlyRunner DEF Release
          <5>2. \A s \in Runs : pc[s] = "running" => s = r
            BY <4>7, <5>1 DEF Release, RunningNodes, Running, IInv, OneRunPerNode
          <5>3. RunningNodes' = {}
            BY <4>7, <5>2 DEF Release, Return, RunningNodes, Running, IInv, TypeOK
          <5> QED
            BY <5>1, <5>3 DEF Exclusive!Next, Exclusive!Finish
        <4> QED
          BY <3>3, <4>1, <4>2, <4>3, <4>4, <4>5, <4>6, <4>7 DEF RunStep
      <3>4. ASSUME NEW n \in Nodes, NodeStep(n) PROVE Same
        <4>1. CASE Exit(n)
          <5>1. Active(n) = {}
            BY <4>1 DEF Exit
          <5> QED
            BY <3>a, <4>1, <5>1 DEF Exit, Active, IInv, TypeOK
        <4>2. CASE ReleaseNodeLocks(n) \/ Restart(n)
          BY <3>a, <4>2 DEF ReleaseNodeLocks, Restart
        <4> QED
          BY <3>4, <4>1, <4>2 DEF NodeStep
      <3>5. CASE UNCHANGED vars
        BY <3>5, <3>a DEF vars
      <3> QED
        BY <3>1, <3>2, <3>3, <3>4, <3>5 DEF Next
    <2> QED
      BY <2>1, <2>2
  <1> QED
    BY Inductive, <1>1, <1>2, PTL DEF Spec, ImplementsExclusiveTask, Exclusive!Spec
=============================================================================
