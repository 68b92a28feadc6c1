-------------------------- MODULE SchedulerProofs --------------------------
(***************************************************************************)
(* Proofs about Scheduler, for every set of tasks, schedules and retry      *)
(* delays, any number of goroutines and every bound.                        *)
(***************************************************************************)
EXTENDS Scheduler, FiniteSetTheorems, WellFoundedInduction, TLAPS

(* Induction over the numbers, for a set of them.                           *)
LEMMA SetInduction ==
    ASSUME NEW S, 0 \in S, \A n \in Nat : n \in S => n + 1 \in S
    PROVE  Nat \subseteq S
  <1> DEFINE T == Nat \ S
  <1> SUFFICES ASSUME T # {} PROVE FALSE
    OBVIOUS
  <1>1. IsWellFoundedOn(OpToRel(<, Nat), Nat)
    BY NatLessThanWellFounded
  <1>2. PICK x \in T : \A y \in T : ~(<<y, x>> \in OpToRel(<, Nat))
    BY <1>1, WFMin
  <1>3. x # 0 /\ x - 1 \in Nat
    OBVIOUS
  <1>4. <<x - 1, x>> \in OpToRel(<, Nat)
    BY <1>3 DEF OpToRel
  <1>5. x - 1 \in S
    BY <1>2, <1>3, <1>4
  <1> QED
    BY <1>3, <1>5

-----------------------------------------------------------------------------
(* What division by a positive number returns.                              *)
LEMMA Quotient ==
    ASSUME NEW r \in Int, NEW p \in Nat \ {0}
    PROVE  r \div p \in Int /\ (r \div p) * p <= r /\ r < (r \div p) * p + p
  <1>1. r \div p \in Int
    OBVIOUS
  <1>2. (r \div p) * p <= r
    OBVIOUS
  <1>3. r < (r \div p) * p + p
    OBVIOUS
  <1> QED
    BY <1>1, <1>2, <1>3

(* Multiples of a number keep the order of their factors.                   *)
LEMMA Multiples ==
    ASSUME NEW i \in Int, NEW j \in Int, NEW p \in Nat \ {0}
    PROVE  (i < j => i * p + p <= j * p) /\ (i <= j => i * p <= j * p)
  <1>1. ASSUME i < j PROVE i * p + p <= j * p
    BY <1>1
  <1>2. ASSUME i <= j PROVE i * p <= j * p
    BY <1>2
  <1> QED
    BY <1>1, <1>2

(* Schedule.Next returns a later instant, and not an earlier one for a      *)
(* later reference.                                                         *)
LEMMA NextIsLater ==
    ASSUME NEW t \in Tasks, NEW now \in Int
    PROVE  NextAfter(t, now) \in Int /\ NextAfter(t, now) > now
  <1>1. Period[t] \in Nat \ {0}
    BY SchedulerAssumption DEF SchedulerAssumption
  <1>2. PICK p \in Nat \ {0} : p = Period[t]
    BY <1>1
  <1>3. now \div p \in Int /\ now < (now \div p) * p + p
    BY Quotient
  <1>4. (now \div p + 1) * p \in Int /\ (now \div p + 1) * p = (now \div p) * p + p
    BY <1>2, <1>3
  <1> QED
    BY <1>2, <1>3, <1>4 DEF NextAfter

(* Schedule.Next returns no earlier instant for a later reference.          *)
LEMMA NextGrows ==
    ASSUME NEW t \in Tasks, NEW a \in Int, NEW b \in Int, a <= b
    PROVE  NextAfter(t, a) <= NextAfter(t, b)
  <1>1. Period[t] \in Nat \ {0}
    BY SchedulerAssumption DEF SchedulerAssumption
  <1>2. PICK p \in Nat \ {0} : p = Period[t]
    BY <1>1
  <1>3. a \div p \in Int /\ (a \div p) * p <= a /\ b \div p \in Int /\ b < (b \div p) * p + p
    BY Quotient
  <1>4. PICK x \in Int : x = a \div p
    BY <1>3
  <1>5. PICK y \in Int : y = b \div p
    BY <1>3
  <1>8. PICK u \in Int : u = x * p
    BY <1>2
  <1>9. PICK v \in Int : v = y * p
    BY <1>2
  <1>10. u <= a /\ b < v + p
    BY <1>3, <1>4, <1>5, <1>8, <1>9
  <1>11. x <= y
    <2>1. y < x => v + p <= u
      BY <1>8, <1>9, Multiples
    <2> QED
      BY <1>2, <1>10, <2>1
  <1>12. (x + 1) * p <= (y + 1) * p
    BY <1>11, Multiples
  <1> QED
    BY <1>2, <1>4, <1>5, <1>12 DEF NextAfter

(* The walk of latestOccurrenceBefore: the recursion has a solution, which  *)
(* starts at the far edge of the window and steps while it stays in it.     *)
Onward(t, now, x) == IF NextAfter(t, x) > now THEN x ELSE NextAfter(t, x)
Walk(t, now, f, n) ==
    f = [i \in 0..n |-> IF i = 0 THEN now - catchUpWindow ELSE Onward(t, now, f[i - 1])]

(* The walk ends where latestOccurrenceBefore does.                         *)
LEMMA WalkExists ==
    ASSUME NEW t \in Tasks, NEW now \in Nat
    PROVE  \E f : /\ LatestOccurrenceBefore(t, now) = f[maxCatchUpScan]
                  /\ f[0] = now - catchUpWindow
                  /\ \A n \in Nat : n < maxCatchUpScan => f[n + 1] = Onward(t, now, f[n])
  <1>1. maxCatchUpScan \in Nat
    BY SchedulerAssumption DEF SchedulerAssumption
  <1> DEFINE S == {n \in Nat : \E f : Walk(t, now, f, n)}
  <1>3. 0 \in S
    <2>1. Walk(t, now, [i \in 0..0 |-> now - catchUpWindow], 0)
      BY DEF Walk
    <2> QED
      BY <2>1
  <1>4. ASSUME NEW n \in Nat, n \in S PROVE n + 1 \in S
    <2>1. PICK f : Walk(t, now, f, n)
      BY <1>4
    <2> DEFINE g == [i \in 0..n + 1 |-> IF i = n + 1 THEN Onward(t, now, f[n]) ELSE f[i]]
    <2>2. ASSUME NEW i \in 0..n + 1
          PROVE  g[i] = IF i = 0 THEN now - catchUpWindow ELSE Onward(t, now, g[i - 1])
      <3>1. CASE i = n + 1
        BY <3>1
      <3>2. CASE i = 0
        BY <2>1, <3>2 DEF Walk
      <3>3. CASE i \in 1..n
        <4>1. g[i] = f[i] /\ g[i - 1] = f[i - 1] /\ i \in 0..n /\ i # 0
          BY <3>3
        <4> HIDE DEF g
        <4>2. f[i] = Onward(t, now, f[i - 1])
          BY <2>1, <4>1 DEF Walk
        <4> QED
          BY <4>1, <4>2
      <3> QED
        BY <3>1, <3>2, <3>3
    <2>3. g = [i \in 0..n + 1 |-> g[i]]
      OBVIOUS
    <2> HIDE DEF g
    <2>4. Walk(t, now, g, n + 1)
      BY <2>2, <2>3 DEF Walk
    <2> QED
      BY <2>4
  <1>5. maxCatchUpScan \in S
    <2> HIDE DEF S
    <2> QED
      BY <1>1, <1>3, <1>4, SetInduction
  <1> DEFINE cursor == CHOOSE f : Walk(t, now, f, maxCatchUpScan)
  <1>6. Walk(t, now, cursor, maxCatchUpScan)
    BY <1>5
  <1>7. LatestOccurrenceBefore(t, now) = cursor[maxCatchUpScan]
    BY DEF LatestOccurrenceBefore, Walk, Onward
  <1> HIDE DEF cursor
  <1>8. cursor[0] = now - catchUpWindow
    BY <1>1, <1>6 DEF Walk
  <1>9. ASSUME NEW n \in Nat, n < maxCatchUpScan PROVE cursor[n + 1] = Onward(t, now, cursor[n])
    <2>1. n + 1 \in 0..maxCatchUpScan /\ n + 1 # 0 /\ (n + 1) - 1 = n
      BY <1>1, <1>9
    <2> QED
      BY <1>6, <2>1 DEF Walk
  <1> QED
    BY <1>7, <1>8, <1>9

(* latestOccurrenceBefore never returns an instant after now.               *)
LEMMA WalkStays ==
    ASSUME NEW t \in Tasks, NEW now \in Nat
    PROVE  LatestOccurrenceBefore(t, now) \in Int /\ LatestOccurrenceBefore(t, now) <= now
  <1>1. catchUpWindow \in Nat /\ maxCatchUpScan \in Nat
    BY SchedulerAssumption DEF SchedulerAssumption
  <1>2. PICK f : /\ LatestOccurrenceBefore(t, now) = f[maxCatchUpScan]
                 /\ f[0] = now - catchUpWindow
                 /\ \A n \in Nat : n < maxCatchUpScan => f[n + 1] = Onward(t, now, f[n])
    BY WalkExists
  <1> DEFINE R == {n \in Nat : n <= maxCatchUpScan => f[n] \in Int /\ f[n] <= now}
  <1>3. 0 \in R
    BY <1>1, <1>2
  <1>4. ASSUME NEW n \in Nat, n \in R PROVE n + 1 \in R
    <2> SUFFICES ASSUME n + 1 <= maxCatchUpScan PROVE f[n + 1] \in Int /\ f[n + 1] <= now
      OBVIOUS
    <2>1. f[n] \in Int /\ f[n] <= now /\ f[n + 1] = Onward(t, now, f[n])
      BY <1>1, <1>2, <1>4
    <2> QED
      BY <2>1, NextIsLater DEF Onward
  <1>5. maxCatchUpScan \in R
    <2> HIDE DEF R
    <2> QED
      BY <1>1, <1>3, <1>4, SetInduction
  <1> QED
    BY <1>1, <1>2, <1>5

(* The instants at which a schedule fires one period after the other: any   *)
(* reference time for an interval, the multiples of the period for cron.    *)
Fires(t, o) == t \in Every \/ \E k \in Int : o = k * Period[t]

(* Schedule.Next returns an instant at which the schedule fires.            *)
LEMMA NextFires ==
    ASSUME NEW t \in Tasks, NEW now \in Int
    PROVE  Fires(t, NextAfter(t, now))
  <1>1. Period[t] \in Nat \ {0}
    BY SchedulerAssumption DEF SchedulerAssumption
  <1>2. now \div Period[t] + 1 \in Int
    BY <1>1, Quotient
  <1> QED
    BY <1>2 DEF Fires, NextAfter

(* From one instant at which it fires, a schedule goes on by its period.    *)
LEMMA FiresRegularly ==
    ASSUME NEW t \in Tasks, NEW o \in Int, Fires(t, o)
    PROVE  NextAfter(t, o) = o + Period[t]
  <1>1. PICK p \in Nat \ {0} : p = Period[t]
    BY SchedulerAssumption DEF SchedulerAssumption
  <1>2. CASE t \in Every
    BY <1>2 DEF NextAfter
  <1>3. CASE t \notin Every
    <2>1. PICK k \in Int : o = k * p
      BY <1>1, <1>3 DEF Fires
    <2>2. PICK x \in Int : x = o \div p
      BY Quotient
    <2>3. x * p <= o /\ o < x * p + p
      BY <2>2, Quotient
    <2>4. PICK u \in Int : u = x * p
      BY <1>1
    <2>5. k < x => o + p <= u
      BY <2>1, <2>4, Multiples
    <2>6. x < k => u + p <= o
      BY <2>1, <2>4, Multiples
    <2>7. x = k
      BY <2>3, <2>4, <2>5, <2>6
    <2>8. (x + 1) * p = o + p
      BY <2>1, <2>7
    <2> QED
      BY <1>1, <1>3, <2>2, <2>8 DEF NextAfter
  <1> QED
    BY <1>2, <1>3

(* latestOccurrenceBefore "returns the most recent time sched fired at or   *)
(* before now, searching back at most window", if maxCatchUpScan steps      *)
(* cover the window: the occurrence it returns is one of the schedule's,    *)
(* inside the window, and the next one is in the future.  If it returns     *)
(* none, the schedule did not fire in the window.                           *)
THEOREM LatestIsFound ==
    ASSUME NEW t \in Tasks, NEW now \in Nat,
           maxCatchUpScan # 0, catchUpWindow <= (maxCatchUpScan - 1) * Period[t]
    PROVE  /\ LatestOccurrenceBefore(t, now) <= now
           /\ NextAfter(t, LatestOccurrenceBefore(t, now)) > now
           /\ HasOccurrence(t, now) =>
                 /\ LatestOccurrenceBefore(t, now) > now - catchUpWindow
                 /\ Fires(t, LatestOccurrenceBefore(t, now))
  <1>1. catchUpWindow \in Nat /\ maxCatchUpScan \in Nat
    BY SchedulerAssumption DEF SchedulerAssumption
  <1>2. PICK p \in Nat \ {0} : p = Period[t]
    BY SchedulerAssumption DEF SchedulerAssumption
  <1>3. PICK first \in Int : first = now - catchUpWindow
    BY <1>1
  <1>4. PICK f : /\ LatestOccurrenceBefore(t, now) = f[maxCatchUpScan]
                 /\ f[0] = first
                 /\ \A n \in Nat : n < maxCatchUpScan => f[n + 1] = Onward(t, now, f[n])
    BY <1>3, WalkExists
  <1> DEFINE Over(x) == NextAfter(t, x) > now
             Good(n) == /\ f[n + 1] \in Int
                        /\ f[n + 1] = first \/ (f[n + 1] > first /\ Fires(t, f[n + 1]))
                        /\ Over(f[n + 1]) \/ (f[n + 1] >= first + 1 + n * p /\ Fires(t, f[n + 1]))
             R == {n \in Nat : n + 1 <= maxCatchUpScan => Good(n)}
  <1>5. 0 \in R
    <2> SUFFICES ASSUME 1 <= maxCatchUpScan PROVE Good(0)
      OBVIOUS
    <2>1. f[1] = Onward(t, now, first)
      <3>1. 0 < maxCatchUpScan /\ 0 + 1 = 1
        BY <1>1
      <3> QED
        BY <1>4, <3>1
    <2>2. PICK x \in Int : x = NextAfter(t, first) /\ x > first /\ Fires(t, x)
      BY NextIsLater, NextFires
    <2>3. f[1] = IF x > now THEN first ELSE x
      BY <2>1, <2>2 DEF Onward
    <2>4. 0 * p = 0 /\ 0 + 1 = 1
      BY <1>2
    <2> QED
      BY <2>2, <2>3, <2>4
  <1>6. ASSUME NEW n \in Nat, n \in R PROVE n + 1 \in R
    <2> SUFFICES ASSUME (n + 1) + 1 <= maxCatchUpScan PROVE Good(n + 1)
      OBVIOUS
    <2>0. n + 1 < maxCatchUpScan /\ n + 1 <= maxCatchUpScan /\ n + 1 \in Nat
      BY <1>1
    <2>1. PICK x \in Int : x = f[n + 1]
      BY <1>6, <2>0
    <2>2. /\ x = first \/ (x > first /\ Fires(t, x))
          /\ Over(x) \/ (x >= first + 1 + n * p /\ Fires(t, x))
      BY <1>6, <2>0, <2>1
    <2>3. f[(n + 1) + 1] = Onward(t, now, x)
      BY <1>4, <2>0, <2>1
    <2>4. CASE Over(x)
      <3>1. f[(n + 1) + 1] = x
        BY <2>3, <2>4 DEF Onward
      <3> QED
        BY <2>2, <2>4, <3>1
    <2>5. CASE ~Over(x)
      <3>1. NextAfter(t, x) = x + p /\ x >= first + 1 + n * p
        BY <1>2, <2>2, <2>5, FiresRegularly
      <3>2. f[(n + 1) + 1] = x + p /\ Fires(t, x + p)
        BY <2>3, <2>5, <3>1, NextFires DEF Onward
      <3>3. (n + 1) * p = n * p + p /\ n * p \in Nat
        BY <1>2
      <3>4. x + p >= first + 1 + (n + 1) * p /\ x + p > first /\ x + p \in Int
        BY <1>2, <3>1, <3>3
      <3> HIDE DEF Over
      <3> QED
        BY <3>2, <3>4
    <2> QED
      BY <2>4, <2>5
  <1>7. PICK m \in Nat : m + 1 = maxCatchUpScan /\ m = maxCatchUpScan - 1
    BY <1>1
  <1>8. m \in R
    <2> HIDE DEF R
    <2> QED
      BY <1>5, <1>6, SetInduction
  <1>9. Good(m) /\ f[m + 1] = LatestOccurrenceBefore(t, now)
    BY <1>4, <1>7, <1>8
  <1>10. PICK o \in Int : o = LatestOccurrenceBefore(t, now) /\ o <= now
    BY WalkStays
  <1>11. Over(o)
    <2>1. catchUpWindow <= m * p /\ m * p \in Nat
      BY <1>2, <1>7
    <2> QED
      BY <1>1, <1>3, <1>9, <1>10, <2>1
  <1>12. o = first \/ (o > first /\ Fires(t, o))
    BY <1>9, <1>10
  <1> HIDE DEF Good, R
  <1> QED
    BY <1>3, <1>10, <1>11, <1>12 DEF HasOccurrence

-----------------------------------------------------------------------------
(* The goroutines inside executeTask.                                       *)
Occs == Nat \cup {NoOccurrence}

(* What the type of a goroutine's record gives.                             *)
LEMMA RunState ==
    ASSUME TypeOK, NEW g \in Slots
    PROVE  /\ runs[g].pc \in PCs \cup {"idle"}
           /\ runs[g].pc = "idle" <=> runs[g] = Idle
           /\ runs[g].pc # "idle" =>
                 /\ runs[g] \in RunStates
                 /\ runs[g].task \in Tasks /\ runs[g].kind \in Kinds /\ runs[g].occ \in Occs
                 /\ runs[g].start \in Nat /\ runs[g].status \in Statuses
  BY DEF TypeOK, PCs, Statuses, Occs, RunStates, Idle

(* What a step of one goroutine leaves alone.                               *)
Only(g) == \A h \in Slots \ {g} : runs'[h] = runs[h]
Moves(g, pc, start, status) ==
    /\ runs' \in [Slots -> {Idle} \cup RunStates] /\ Only(g)
    /\ runs'[g].pc = pc /\ runs'[g].start = start /\ runs'[g].status = status
    /\ runs'[g].task = runs[g].task /\ runs'[g].kind = runs[g].kind /\ runs'[g].occ = runs[g].occ

(* A goroutine that goes on keeps its task, kind and occurrence, and no     *)
(* other one changes.                                                       *)
LEMMA RunMoves ==
    ASSUME TypeOK, NEW g \in Slots, runs[g].pc # "idle",
           NEW pc \in PCs, NEW start \in Nat, NEW status \in Statuses,
           runs' = [runs EXCEPT ![g] = [pc |-> pc, task |-> runs[g].task, kind |-> runs[g].kind,
                                        occ |-> runs[g].occ, start |-> start, status |-> status]]
    PROVE  Moves(g, pc, start, status)
  <1>1. PICK r \in RunStates :
           r = [pc |-> pc, task |-> runs[g].task, kind |-> runs[g].kind,
                occ |-> runs[g].occ, start |-> start, status |-> status]
    BY RunState DEF RunStates, Occs
  <1>2. runs \in [Slots -> {Idle} \cup RunStates]
    BY DEF TypeOK
  <1>3. runs' = [runs EXCEPT ![g] = r]
    BY <1>1
  <1>4. runs' \in [Slots -> {Idle} \cup RunStates] /\ Only(g) /\ runs'[g] = r
    BY <1>2, <1>3 DEF Only
  <1>5. /\ r.pc = pc /\ r.start = start /\ r.status = status
        /\ r.task = runs[g].task /\ r.kind = runs[g].kind /\ r.occ = runs[g].occ
    BY <1>1
  <1> QED
    BY <1>4, <1>5 DEF Moves

(* So does one that only goes to the next stage of executeTask,             *)
LEMMA StepMoves ==
    ASSUME TypeOK, NEW g \in Slots, runs[g].pc # "idle", NEW pc \in PCs, Step(g, pc)
    PROVE  Moves(g, pc, runs[g].start, runs[g].status)
  <1>1. runs[g] \in RunStates
    BY RunState
  <1>2. [runs[g] EXCEPT !.pc = pc] =
           [pc |-> pc, task |-> runs[g].task, kind |-> runs[g].kind,
            occ |-> runs[g].occ, start |-> runs[g].start, status |-> runs[g].status]
    BY <1>1 DEF RunStates
  <1>3. runs' = [runs EXCEPT ![g] = [runs[g] EXCEPT !.pc = pc]]
    BY DEF Step
  <1> QED
    BY <1>2, <1>3, RunMoves, RunState

(* one that starts the task function, which notes the time,                 *)
LEMMA AcquireMoves ==
    ASSUME TypeOK, NEW g \in Slots, AcquireTaskLock(g)
    PROVE  Moves(g, "running", clock, runs[g].status)
  <1>1. runs[g] \in RunStates /\ runs[g].pc # "idle" /\ runs[g].status \in Statuses
    BY RunState DEF AcquireTaskLock
  <1> DEFINE a == [runs[g] EXCEPT !.pc = "running"]
             b == [a EXCEPT !.start = clock]
  <1>3. runs' = [runs EXCEPT ![g] = b]
    BY DEF AcquireTaskLock
  <1>5. a = [pc |-> "running", task |-> runs[g].task, kind |-> runs[g].kind,
             occ |-> runs[g].occ, start |-> runs[g].start, status |-> runs[g].status]
    BY <1>1 DEF RunStates
  <1> HIDE DEF a
  <1>2. b = [pc |-> "running", task |-> runs[g].task, kind |-> runs[g].kind,
             occ |-> runs[g].occ, start |-> clock, status |-> runs[g].status]
    BY <1>5
  <1> HIDE DEF b
  <1>4. "running" \in PCs /\ clock \in Nat
    BY DEF PCs, TypeOK, ProcessTypes
  <1> QED
    BY <1>1, <1>2, <1>3, <1>4, RunMoves

(* and one whose task function returned, which notes the status.            *)
LEMMA ReturnMoves ==
    ASSUME TypeOK, NEW g \in Slots, NEW status \in {"success", "failed"}, RunTaskFn(g, status)
    PROVE  Moves(g, "persist", runs[g].start, status)
  <1>1. runs[g] \in RunStates /\ runs[g].pc # "idle" /\ runs[g].start \in Nat
    BY RunState DEF RunTaskFn
  <1> DEFINE a == [runs[g] EXCEPT !.pc = "persist"]
             b == [a EXCEPT !.status = status]
  <1>3. runs' = [runs EXCEPT ![g] = b]
    BY DEF RunTaskFn
  <1>5. a = [pc |-> "persist", task |-> runs[g].task, kind |-> runs[g].kind,
             occ |-> runs[g].occ, start |-> runs[g].start, status |-> runs[g].status]
    BY <1>1 DEF RunStates
  <1> HIDE DEF a
  <1>2. b = [pc |-> "persist", task |-> runs[g].task, kind |-> runs[g].kind,
             occ |-> runs[g].occ, start |-> runs[g].start, status |-> status]
    BY <1>5
  <1> HIDE DEF b
  <1>4. "persist" \in PCs /\ status \in Statuses
    BY DEF PCs, Statuses
  <1> QED
    BY <1>1, <1>2, <1>3, <1>4, RunMoves

(* A goroutine that ends returns its slot.                                  *)
LEMMA DoneMoves ==
    ASSUME TypeOK, NEW g \in Slots, Done(g)
    PROVE  runs' \in [Slots -> {Idle} \cup RunStates] /\ Only(g) /\ runs'[g].pc = "idle"
  BY DEF TypeOK, Done, Only, Idle

(* The goroutines that Dispatch starts, one for each run, in free slots.    *)
LEMMA NewRun ==
    ASSUME NEW t \in Tasks, NEW kind \in Kinds, NEW occ \in Occs
    PROVE  /\ Run(t, kind, occ) \in RunStates
           /\ Run(t, kind, occ).pc = "begin" /\ Run(t, kind, occ).task = t
           /\ Run(t, kind, occ).kind = kind /\ Run(t, kind, occ).occ = occ
  BY DEF Run, RunStates, PCs, Statuses, Occs

(* Dispatch puts each new run in a slot of its own and changes no run in    *)
(* flight.                                                                  *)
LEMMA Starts ==
    ASSUME TypeOK, NEW new, new \subseteq RunStates, Dispatch(new)
    PROVE  /\ runs' \in [Slots -> {Idle} \cup RunStates]
           /\ \A g \in Slots : \/ runs'[g] = runs[g]
                               \/ runs[g].pc = "idle" /\ runs'[g] \in new
           /\ \A g, h \in Slots :
                 /\ runs[g].pc = "idle" /\ runs[h].pc = "idle"
                 /\ runs'[g] \in new /\ runs'[g] = runs'[h]
                 => g = h
  <1> DEFINE slot == CHOOSE s \in Injection(new, FreeSlots) : TRUE
  <1>1. slot \in [new -> FreeSlots] /\ \A r, q \in new : slot[r] = slot[q] => r = q
    <2>1. slot \in Injection(new, FreeSlots)
      BY DEF Dispatch
    <2> QED
      BY <2>1 DEF Injection, IsInjective
  <1>2. runs' = [g \in Slots |-> IF \E r \in new : slot[r] = g
                                THEN CHOOSE r \in new : slot[r] = g ELSE runs[g]]
    BY DEF Dispatch
  <1> HIDE DEF slot
  <1>3. ASSUME NEW g \in Slots
        PROVE  \/ runs'[g] = runs[g] /\ runs[g] \in {Idle} \cup RunStates
                  /\ \A r \in new : slot[r] # g
               \/ runs[g].pc = "idle" /\ runs'[g] \in new /\ slot[runs'[g]] = g
    <2>1. CASE \E r \in new : slot[r] = g
      <3>1. runs'[g] \in new /\ slot[runs'[g]] = g
        BY <1>2, <2>1
      <3>2. g \in FreeSlots
        BY <1>1, <2>1
      <3> QED
        BY <3>1, <3>2 DEF FreeSlots, InFlight
    <2>2. CASE ~\E r \in new : slot[r] = g
      <3>1. runs[g] \in {Idle} \cup RunStates
        BY DEF TypeOK
      <3> QED
        BY <1>2, <2>2, <3>1
    <2> QED
      BY <2>1, <2>2
  <1>4. \A r \in new : r # Idle /\ r.pc # "idle"
    BY DEF RunStates, PCs, Idle
  <1>5. runs' \in [Slots -> {Idle} \cup RunStates]
    BY <1>2, <1>3
  <1>6. ASSUME NEW g \in Slots, NEW h \in Slots, runs[g].pc = "idle", runs[h].pc = "idle",
               runs'[g] \in new, runs'[g] = runs'[h]
        PROVE  g = h
    <2>1. slot[runs'[g]] = g
      BY <1>3, <1>4, <1>6
    <2>2. slot[runs'[h]] = h
      BY <1>3, <1>4, <1>6
    <2> QED
      BY <1>6, <2>1, <2>2
  <1> QED
    BY <1>3, <1>5, <1>6

-----------------------------------------------------------------------------
(* What runMissedTasks selects.                                             *)
Entries == [task : Tasks, due : Nat]

(* runMissedTasks queues each task once, for an occurrence that has passed  *)
(* and is later than the last run in the history.                           *)
LEMMA CatchUpQueue ==
    ASSUME TypeOK, StartScheduler
    PROVE  /\ catchup' \in Seq(Entries)
           /\ \A i \in DOMAIN catchup' : /\ catchup'[i].due <= clock
                                         /\ history[catchup'[i].task] < catchup'[i].due
           /\ \A i, j \in DOMAIN catchup' : catchup'[i].task = catchup'[j].task => i = j
  <1>1. IsFiniteSet(Tasks)
    BY SchedulerAssumption DEF SchedulerAssumption
  <1>2. Missed \subseteq Tasks
    BY DEF Missed, TypeOK, ProcessTypes
  <1>3. PICK n \in Nat : n = Cardinality(Missed)
    BY <1>1, <1>2, FS_Subset, FS_CardinalityType
  <1>4. PICK q : /\ q \in SetToSeqs(Missed)
                 /\ catchup' = [i \in DOMAIN q |->
                                  [task |-> q[i], due |-> LatestOccurrenceBefore(q[i], clock)]]
    BY DEF StartScheduler
  <1>5. /\ q \in [1..n -> Missed]
        /\ \A i, j \in 1..n : i # j => q[i] # q[j]
    BY <1>3, <1>4 DEF SetToSeqs
  <1>6. ASSUME NEW t \in Missed
        PROVE  /\ LatestOccurrenceBefore(t, clock) \in Nat
               /\ LatestOccurrenceBefore(t, clock) <= clock
               /\ history[t] < LatestOccurrenceBefore(t, clock)
    <2>1. clock \in Nat /\ history[t] \in Nat \cup {NeverRun} /\ t \in Tasks
      BY <1>2 DEF TypeOK, ProcessTypes
    <2>2. PICK o \in Int : o = LatestOccurrenceBefore(t, clock) /\ o <= clock
      BY <2>1, WalkStays
    <2>3. history[t] # NeverRun /\ history[t] < o
      BY <2>2 DEF Missed
    <2> QED
      BY <2>1, <2>2, <2>3
  <1>7. ASSUME NEW i \in 1..n
        PROVE  /\ catchup'[i] = [task |-> q[i], due |-> LatestOccurrenceBefore(q[i], clock)]
               /\ catchup'[i] \in Entries
               /\ catchup'[i].task = q[i] /\ catchup'[i].due <= clock
               /\ history[catchup'[i].task] < catchup'[i].due
    <2>1. q[i] \in Missed
      BY <1>5
    <2>2. PICK t \in Missed : t = q[i]
      BY <2>1
    <2>3. PICK o \in Nat : o = LatestOccurrenceBefore(t, clock)
      BY <1>6
    <2>4. catchup'[i] = [task |-> t, due |-> o]
      BY <1>4, <1>5, <2>2, <2>3
    <2> QED
      BY <1>2, <1>6, <2>2, <2>3, <2>4 DEF Entries
  <1>8. catchup' = [i \in 1..n |-> catchup'[i]]
    BY <1>4, <1>5
  <1>9. catchup' \in [1..n -> Entries]
    BY <1>7, <1>8
  <1>10. DOMAIN catchup' = 1..n
    BY <1>9
  <1>11. catchup' \in Seq(Entries)
    BY <1>9
  <1> QED
    BY <1>5, <1>7, <1>10, <1>11

(* A retry is due at a later time.                                          *)
LEMMA RetryTime ==
    ASSUME TypeOK, NEW t \in Tasks, retryCount[t] < Len(retryDelays)
    PROVE  clock + retryDelays[retryCount[t] + 1] \in Nat
  <1>1. retryDelays \in Seq(Nat \ {0})
    BY SchedulerAssumption DEF SchedulerAssumption
  <1>2. clock \in Nat /\ retryCount[t] \in 0..Len(retryDelays)
    BY DEF TypeOK, ProcessTypes
  <1>3. retryCount[t] + 1 \in 1..Len(retryDelays)
    BY <1>1, <1>2
  <1> QED
    BY <1>1, <1>2, <1>3

(* What applyRetryPolicy does: it resets the counter, or counts the failure *)
(* and may bring the next run forward.                                      *)
LEMMA PolicyDoes ==
    ASSUME TypeOK, NEW t \in Tasks, NEW status, ApplyRetryPolicy(t, status)
    PROVE  /\ retryCount' \in [Tasks -> 0..Len(retryDelays)] /\ nextRun' \in [Tasks -> Nat]
           /\ \A u \in Tasks \ {t} : retryCount'[u] = retryCount[u]
           /\ \A u \in Tasks \ {t} : nextRun'[u] = nextRun[u]
           /\ nextRun'[t] <= nextRun[t]
           /\ \/ retryCount'[t] = 0 /\ UNCHANGED <<nextRun, retryDue>>
              \/ retryCount'[t] = retryCount[t] + 1 /\ UNCHANGED <<nextRun, retryDue>>
              \/ retryCount'[t] = retryCount[t] + 1 /\ retryDue' = retryDue \cup {t}
  <1>1. /\ retryCount \in [Tasks -> 0..Len(retryDelays)] /\ nextRun \in [Tasks -> Nat]
        /\ Len(retryDelays) \in Nat
    BY SchedulerAssumption DEF TypeOK, ProcessTypes, SchedulerAssumption
  <1>2. CASE status = "success" \/ retryCount[t] >= Len(retryDelays)
    <2>1. retryCount' = [retryCount EXCEPT ![t] = 0] /\ UNCHANGED <<nextRun, retryDue>>
      BY <1>2 DEF ApplyRetryPolicy
    <2> QED
      BY <1>1, <2>1
  <1>3. CASE ~(status = "success" \/ retryCount[t] >= Len(retryDelays))
    <2>1. retryCount[t] < Len(retryDelays)
      BY <1>1, <1>3
    <2>2. PICK at \in Nat : at = clock + retryDelays[retryCount[t] + 1]
      BY <2>1, RetryTime
    <2>3. /\ retryCount' = [retryCount EXCEPT ![t] = @ + 1]
          /\ \/ /\ at < nextRun[t] /\ nextRun' = [nextRun EXCEPT ![t] = at]
                /\ retryDue' = retryDue \cup {t}
             \/ UNCHANGED <<nextRun, retryDue>>
      BY <1>3, <2>2 DEF ApplyRetryPolicy
    <2> QED
      BY <1>1, <2>1, <2>2, <2>3
  <1> QED
    BY <1>2, <1>3

-----------------------------------------------------------------------------
(* The actions that start goroutines, with what they start.                 *)
TickOcc(t) == IF t \in retryDue THEN NoOccurrence ELSE nextRun[t]
Ticks == {Run(t, "tick", TickOcc(t)) : t \in Due}

(* runDueTasks starts one run for each due task.                            *)
LEMMA TicksAre ==
    ASSUME TypeOK
    PROVE  /\ Due \subseteq Tasks /\ Ticks \subseteq RunStates
           /\ \A r \in Ticks : /\ r.pc = "begin" /\ r.kind = "tick" /\ r.task \in Due
                               /\ r.occ = TickOcc(r.task)
           /\ \A r, q \in Ticks : r.task = q.task => r = q
  <1>1. Due \subseteq Tasks
    BY DEF Due, TypeOK, ProcessTypes
  <1>2. ASSUME NEW t \in Due PROVE TickOcc(t) \in Occs
    BY <1>1 DEF TickOcc, Occs, TypeOK, ProcessTypes
  <1>3. ASSUME NEW t \in Due
        PROVE  /\ Run(t, "tick", TickOcc(t)) \in RunStates
               /\ Run(t, "tick", TickOcc(t)).pc = "begin"
               /\ Run(t, "tick", TickOcc(t)).kind = "tick"
               /\ Run(t, "tick", TickOcc(t)).task = t
               /\ Run(t, "tick", TickOcc(t)).occ = TickOcc(t)
    <2>1. PICK o \in Occs : o = TickOcc(t)
      BY <1>2
    <2>2. "tick" \in Kinds
      BY DEF Kinds
    <2> QED
      BY <1>1, <2>1, <2>2, NewRun
  <1>4. \A r \in Ticks : \E t \in Due : r = Run(t, "tick", TickOcc(t))
    BY DEF Ticks
  <1> QED
    BY <1>1, <1>3, <1>4

(* TriggerTask starts a run that is no occurrence.                          *)
LEMMA TriggerIs ==
    ASSUME NEW t \in Tasks
    PROVE  LET r == Run(t, "trigger", NoOccurrence)
           IN  /\ r \in RunStates /\ r.pc = "begin" /\ r.kind = "trigger"
               /\ r.task = t /\ r.occ = NoOccurrence
  <1>1. "trigger" \in Kinds /\ NoOccurrence \in Occs
    BY DEF Kinds, Occs
  <1> QED
    BY <1>1, NewRun

(* The first entry of the catch-up queue, and the rest of it.               *)
LEMMA HeadIs ==
    ASSUME TypeOK, catchup # <<>>
    PROVE  /\ Head(catchup) = catchup[1] /\ Head(catchup).task \in Tasks /\ Head(catchup).due \in Nat
           /\ Tail(catchup) \in Seq(Entries) /\ 1 \in DOMAIN catchup
           /\ \A i \in DOMAIN Tail(catchup) : /\ i + 1 \in DOMAIN catchup
                                              /\ Tail(catchup)[i] = catchup[i + 1]
  <1>1. catchup \in Seq(Entries)
    BY DEF TypeOK, ProcessTypes, Entries
  <1>2. Head(catchup) \in Entries
    BY <1>1
  <1> QED
    BY <1>1, <1>2 DEF Entries

(* The catch-up goroutine runs the first entry.                             *)
LEMMA MissedIs ==
    ASSUME TypeOK, catchup # <<>>
    PROVE  LET r == Run(Head(catchup).task, "catchup", Head(catchup).due)
           IN  /\ r \in RunStates /\ r.pc = "begin" /\ r.kind = "catchup"
               /\ r.task = Head(catchup).task /\ r.occ = Head(catchup).due
  <1>1. PICK t \in Tasks : t = Head(catchup).task
    BY HeadIs
  <1>2. PICK o \in Occs : o = Head(catchup).due
    BY HeadIs DEF Occs
  <1>3. "catchup" \in Kinds
    BY DEF Kinds
  <1> QED
    BY <1>1, <1>2, <1>3, NewRun

(* Each start of goroutines is a Dispatch of such a set.                    *)
LEMMA Dispatches ==
    /\ RunDueTasks => Dispatch(Ticks)
    /\ \A t \in Tasks : TriggerTask(t) => Dispatch({Run(t, "trigger", NoOccurrence)})
    /\ CatchUpNext => Dispatch({Run(Head(catchup).task, "catchup", Head(catchup).due)})
  BY DEF RunDueTasks, TriggerTask, CatchUpNext, Ticks, TickOcc

(* Counting a call.                                                         *)
LEMMA BudgetCounts ==
    ASSUME TypeOK, NEW k \in {"triggers", "toggles", "exits"},
           budget' = [budget EXCEPT ![k] = @ + 1]
    PROVE  budget' \in Budgets
  <1>0. budget \in Budgets
    BY DEF TypeOK, ProcessTypes
  <1>1. CASE k = "triggers"
    BY <1>0, <1>1 DEF Budgets
  <1>2. CASE k = "toggles"
    BY <1>0, <1>2 DEF Budgets
  <1>3. CASE k = "exits"
    BY <1>0, <1>3 DEF Budgets
  <1> QED
    BY <1>1, <1>2, <1>3

(* A statement that fails counts against the bound and nothing else.        *)
LEMMA FaultCounts ==
    ASSUME TypeOK, Fault \/ UNCHANGED budget
    PROVE  budget' \in Budgets /\ budget'.triggers = budget.triggers
  <1>1. CASE Fault
    <2>1. budget \in Budgets /\ budget' = [budget EXCEPT !.faults = @ + 1]
      BY <1>1 DEF Fault, TypeOK, ProcessTypes
    <2> QED
      BY <2>1 DEF Budgets
  <1>2. CASE UNCHANGED budget
    BY <1>2 DEF TypeOK, ProcessTypes
  <1> QED
    BY <1>1, <1>2

(* AddTask computes an instant for every task.                              *)
LEMMA FirstRunsAre ==
    ASSUME NEW now \in Nat
    PROVE  FirstRuns(now) \in [Tasks -> Nat]
  <1>1. ASSUME NEW t \in Tasks PROVE NextAfter(t, now) \in Nat
    BY NextIsLater
  <1> QED
    BY <1>1 DEF FirstRuns

(* The types hold when the process has registered its tasks.                *)
LEMMA TypesInit == Init => TypeOK
  <1> SUFFICES ASSUME Init PROVE TypeOK
    OBVIOUS
  <1>1. nextRun \in [Tasks -> Nat]
    BY FirstRunsAre DEF Init
  <1>2. Len(retryDelays) \in Nat
    BY SchedulerAssumption DEF SchedulerAssumption
  <1>3. ProcessTypes
    BY <1>1, <1>2 DEF Init, ProcessTypes, Statuses, Budgets
  <1>4. NoteTypes
    BY DEF Init, NoteTypes
  <1> QED
    BY <1>3, <1>4 DEF Init, TypeOK

(* The goroutines keep their types.                                         *)
LEMMA RunTypesStep ==
    ASSUME TypeOK, [Next]_vars
    PROVE  runs' \in [Slots -> {Idle} \cup RunStates]
  <1>1. CASE RunDueTasks
    BY <1>1, TicksAre, Dispatches, Starts
  <1>2. ASSUME NEW t \in Tasks, TriggerTask(t) PROVE runs' \in [Slots -> {Idle} \cup RunStates]
    <2>1. PICK r \in RunStates : r = Run(t, "trigger", NoOccurrence)
      BY TriggerIs
    <2>2. Dispatch({r}) /\ {r} \subseteq RunStates
      BY <1>2, <2>1, Dispatches
    <2> QED
      BY <2>2, Starts
  <1>3. CASE CatchUpNext
    <2>1. PICK r \in RunStates : r = Run(Head(catchup).task, "catchup", Head(catchup).due)
      BY <1>3, MissedIs DEF CatchUpNext
    <2>2. Dispatch({r}) /\ {r} \subseteq RunStates
      BY <1>3, <2>1, Dispatches
    <2> QED
      BY <2>2, Starts
  <1>4. ASSUME NEW g \in Slots, Execute(g) PROVE runs' \in [Slots -> {Idle} \cup RunStates]
    <2>1. CASE CheckEnabled(g)
      <3>1. runs[g].pc # "idle" /\ (Step(g, "acquire") \/ Done(g)) /\ "acquire" \in PCs
        BY <2>1 DEF CheckEnabled, PCs
      <3> QED
        BY <3>1, StepMoves, DoneMoves DEF Moves
    <2>2. CASE AcquireTaskLock(g)
      BY <2>2, AcquireMoves DEF Moves
    <2>3. CASE LockRefused(g)
      BY <2>3, DoneMoves DEF LockRefused
    <2>4. CASE PersistTaskState(g)
      <3>1. runs[g].pc # "idle" /\ Step(g, "record") /\ "record" \in PCs
        BY <2>4 DEF PersistTaskState, PCs
      <3> QED
        BY <3>1, StepMoves DEF Moves
    <2>5. CASE RecordTaskRun(g)
      BY <2>5, DoneMoves DEF RecordTaskRun
    <2> QED
      BY <1>4, <2>1, <2>2, <2>3, <2>4, <2>5 DEF Execute
  <1>5. ASSUME NEW g \in Slots, NEW status \in {"success", "failed"}, RunTaskFn(g, status)
        PROVE  runs' \in [Slots -> {Idle} \cup RunStates]
    BY <1>5, ReturnMoves DEF Moves
  <1>6. CASE Exit
    BY <1>6 DEF Exit
  <1>7. CASE \/ Tick \/ StartScheduler \/ StopScheduler \/ LoopExits \/ Drained
             \/ DrainTimesOut \/ MarkTasksInterrupted
             \/ Restart \/ (\E t \in Tasks, on \in BOOLEAN : SetEnabled(t, on)) \/ UNCHANGED vars
    <2>1. UNCHANGED runs
      BY <1>7 DEF Tick, StartScheduler, StopScheduler, LoopExits, Drained, DrainTimesOut,
          MarkTasksInterrupted, MarkInterrupted, MarkingDone, Restart,
                  SetEnabled, vars
    <2> QED
      BY <2>1 DEF TypeOK
  <1> QED
    BY <1>1, <1>2, <1>3, <1>4, <1>5, <1>6, <1>7 DEF Next

(* What Dispatch notes.                                                     *)
LEMMA DispatchNotes ==
    ASSUME TypeOK, NEW new, new \subseteq RunStates, Dispatch(new)
    PROVE  /\ overlapped \subseteq overlapped' /\ overlapped' \subseteq Tasks
           /\ \A r \in new : RunsOf(r.task) # {} => r.task \in overlapped'
           /\ crossed \subseteq crossed' /\ crossed' \subseteq Tasks
           /\ \A r \in new : r.kind = "catchup" /\ Retrying(r.task) => r.task \in crossed'
           /\ retryDue' \subseteq retryDue
           /\ \A t \in retryDue : t \in TasksOf(new, "tick") <=> t \notin retryDue'
           /\ retries' \in [Tasks -> Nat]
           /\ \A t \in Tasks : t \notin TasksOf(new, "tick") => retries'[t] = retries[t]
           /\ \A t \in TasksOf(new, "tick") :
                 retries'[t] = IF t \in retryDue THEN retries[t] + 1 ELSE 0
           /\ incidents \subseteq incidents' /\ incidents' \subseteq incidents \cup {"twice"}
           /\ (\A r \in new : ~Again(r)) => incidents' = incidents
           /\ upAt' = upAt /\ recorded' = recorded
  <1>1. \A r \in new : r.task \in Tasks
    BY DEF RunStates
  <1>2. \A k : TasksOf(new, k) \subseteq Tasks
    BY <1>1 DEF TasksOf
  <1>3. NoteTypes
    BY DEF TypeOK
  <1>4. /\ overlapped' = overlapped \cup {r.task : r \in {q \in new : RunsOf(q.task) # {}}}
        /\ crossed' = crossed \cup {t \in TasksOf(new, "catchup") : Retrying(t)}
        /\ retryDue' = retryDue \ TasksOf(new, "tick")
        /\ retries' = [t \in Tasks |-> IF t \notin TasksOf(new, "tick") THEN retries[t]
                                       ELSE IF t \in retryDue THEN retries[t] + 1 ELSE 0]
        /\ incidents' = incidents \cup {x \in {"twice"} : \E r \in new : Again(r)}
        /\ upAt' = upAt /\ recorded' = recorded
    BY DEF Dispatch
  <1>5. /\ overlapped \subseteq overlapped' /\ overlapped' \subseteq Tasks
        /\ \A r \in new : RunsOf(r.task) # {} => r.task \in overlapped'
    BY <1>1, <1>3, <1>4 DEF NoteTypes
  <1>6. /\ crossed \subseteq crossed' /\ crossed' \subseteq Tasks
        /\ \A r \in new : r.kind = "catchup" /\ Retrying(r.task) => r.task \in crossed'
    <2>1. \A r \in new : r.kind = "catchup" => r.task \in TasksOf(new, "catchup")
      BY DEF TasksOf
    <2> QED
      BY <1>2, <1>3, <1>4, <2>1 DEF NoteTypes
  <1>7. /\ retryDue' \subseteq retryDue
        /\ \A t \in retryDue : t \in TasksOf(new, "tick") <=> t \notin retryDue'
    BY <1>4
  <1>8. /\ retries' \in [Tasks -> Nat]
        /\ \A t \in Tasks : t \notin TasksOf(new, "tick") => retries'[t] = retries[t]
        /\ \A t \in TasksOf(new, "tick") :
                 retries'[t] = IF t \in retryDue THEN retries[t] + 1 ELSE 0
    <2>1. retries \in [Tasks -> Nat]
      BY <1>3 DEF NoteTypes
    <2> QED
      BY <1>2, <1>4, <2>1
  <1>9. /\ incidents \subseteq incidents' /\ incidents' \subseteq incidents \cup {"twice"}
        /\ (\A r \in new : ~Again(r)) => incidents' = incidents
    BY <1>4
  <1> QED
    BY <1>4, <1>5, <1>6, <1>7, <1>8, <1>9

(* Dispatch keeps the types of the history variables.                       *)
LEMMA DispatchTypes ==
    ASSUME TypeOK, NEW new, new \subseteq RunStates, Dispatch(new)
    PROVE  NoteTypes'
  <1>1. NoteTypes
    BY DEF TypeOK
  <1> QED
    BY <1>1, DispatchNotes DEF NoteTypes, Dispatch

(* The steps that start goroutines.                                         *)
Starting(new) == /\ new \subseteq RunStates /\ Dispatch(new)
                 /\ \A r \in new : r.pc = "begin"
                 /\ \A r, q \in new : r.task = q.task => r = q

(* runDueTasks, TriggerTask and the catch-up start goroutines this way.     *)
LEMMA StartingSteps ==
    ASSUME TypeOK
    PROVE  /\ RunDueTasks => Starting(Ticks)
           /\ \A t \in Tasks : TriggerTask(t) => Starting({Run(t, "trigger", NoOccurrence)})
           /\ CatchUpNext => Starting({Run(Head(catchup).task, "catchup", Head(catchup).due)})
  <1>1. ASSUME RunDueTasks PROVE Starting(Ticks)
    BY <1>1, TicksAre, Dispatches DEF Starting
  <1>2. ASSUME NEW t \in Tasks, TriggerTask(t) PROVE Starting({Run(t, "trigger", NoOccurrence)})
    <2>1. PICK r \in RunStates : r = Run(t, "trigger", NoOccurrence) /\ r.pc = "begin"
      BY TriggerIs
    <2>2. Dispatch({r})
      BY <1>2, <2>1, Dispatches
    <2> QED
      BY <2>1, <2>2 DEF Starting
  <1>3. ASSUME CatchUpNext
        PROVE  Starting({Run(Head(catchup).task, "catchup", Head(catchup).due)})
    <2>1. PICK r \in RunStates :
             r = Run(Head(catchup).task, "catchup", Head(catchup).due) /\ r.pc = "begin"
      BY <1>3, MissedIs DEF CatchUpNext
    <2>2. Dispatch({r})
      BY <1>3, <2>1, Dispatches
    <2> QED
      BY <2>1, <2>2 DEF Starting
  <1> QED
    BY <1>1, <1>2, <1>3

(* The history variables keep their types.                                  *)
LEMMA NoteTypesStep ==
    ASSUME TypeOK, [Next]_vars
    PROVE  NoteTypes'
  <1>0. NoteTypes /\ clock \in Nat
    BY DEF TypeOK, ProcessTypes
  <1>1. CASE RunDueTasks
    BY <1>1, StartingSteps, DispatchTypes DEF Starting
  <1>2. ASSUME NEW t \in Tasks, TriggerTask(t) PROVE NoteTypes'
    <2>1. PICK new : Starting(new)
      BY <1>2, StartingSteps
    <2> QED
      BY <2>1, DispatchTypes DEF Starting
  <1>3. CASE CatchUpNext
    <2>1. PICK new : Starting(new)
      BY <1>3, StartingSteps
    <2> QED
      BY <2>1, DispatchTypes DEF Starting
  <1>4. ASSUME NEW g \in Slots, Execute(g) PROVE NoteTypes'
    <2>1. CASE RecordTaskRun(g)
      <3>1. runs[g].task \in Tasks /\ runs[g].occ \in Occs
        BY <2>1, RunState DEF RecordTaskRun
      <3>2. PICK t \in Tasks, o \in Occs : t = runs[g].task /\ o = runs[g].occ
        BY <3>1
      <3>3. recorded' \in {recorded, recorded \cup ({<<t, o>>} \ {<<t, NoOccurrence>>})}
        BY <2>1, <3>2 DEF RecordTaskRun
      <3>4. recorded' \subseteq Tasks \X Nat
        BY <1>0, <3>2, <3>3 DEF NoteTypes, Occs
      <3> QED
        BY <1>0, <2>1, <3>4 DEF RecordTaskRun, NoteTypes
    <2>2. CASE CheckEnabled(g) \/ AcquireTaskLock(g) \/ LockRefused(g)
      BY <1>0, <2>2 DEF CheckEnabled, AcquireTaskLock, LockRefused, notes, counts, NoteTypes
    <2>3. CASE PersistTaskState(g)
      <3>1. UNCHANGED counts /\ interrupted' \subseteq interrupted
        BY <2>3 DEF PersistTaskState
      <3> QED
        BY <1>0, <3>1 DEF counts, NoteTypes
    <2> QED
      BY <1>4, <2>1, <2>2, <2>3 DEF Execute
  <1>5. ASSUME NEW g \in Slots, NEW status \in {"success", "failed"}, RunTaskFn(g, status)
        PROVE  NoteTypes'
    <2>1. PICK t \in Tasks : t = runs[g].task
      BY <1>5, RunState DEF RunTaskFn
    <2>2. retryDue' \subseteq Tasks
      <3>1. ApplyRetryPolicy(t, status)
        BY <1>5, <2>1 DEF RunTaskFn
      <3>2. retryDue' = retryDue \/ retryDue' = retryDue \cup {t}
        BY <3>1, PolicyDoes
      <3> QED
        BY <1>0, <3>2 DEF NoteTypes
    <2> QED
      BY <1>0, <1>5, <2>2 DEF RunTaskFn, NoteTypes
  <1>6. CASE Exit
    BY <1>0, <1>6 DEF Exit, NoteTypes
  <1>7. CASE StartScheduler \/ Drained \/ Restart
    BY <1>0, <1>7 DEF StartScheduler, Drained, Restart, NoteTypes
  <1>9. CASE DrainTimesOut \/ MarkTasksInterrupted
    <2>1. UNCHANGED counts /\ interrupted' \subseteq interrupted \cup Tasks
      BY <1>9 DEF DrainTimesOut, MarkTasksInterrupted, MarkInterrupted, MarkingDone, notes
    <2> QED
      BY <1>0, <2>1 DEF counts, NoteTypes
  <1>8. CASE \/ Tick \/ StopScheduler \/ LoopExits
             \/ (\E t \in Tasks, on \in BOOLEAN : SetEnabled(t, on)) \/ UNCHANGED vars
    <2>1. UNCHANGED notes
      BY <1>8 DEF Tick, StopScheduler, LoopExits, SetEnabled, vars
    <2> QED
      BY <1>0, <2>1 DEF notes, counts, NoteTypes
  <1> QED
    BY <1>1, <1>2, <1>3, <1>4, <1>5, <1>6, <1>7, <1>8, <1>9 DEF Next

(* The process's own state and the stored rows keep their types.            *)
LEMMA ProcessTypesStep ==
    ASSUME TypeOK, [Next]_vars
    PROVE  ProcessTypes'
  <1> USE DEF drain
  <1>0. ProcessTypes /\ clock \in Nat /\ clock + 1 \in Nat
    BY DEF TypeOK, ProcessTypes
  <1>1. CASE RunDueTasks
    <2>1. ASSUME NEW t \in Tasks PROVE NextAfter(t, clock) \in Nat
      BY <1>0, NextIsLater
    <2>2. nextRun' \in [Tasks -> Nat]
      BY <1>0, <1>1, <2>1 DEF RunDueTasks, ProcessTypes
    <2> QED
      BY <1>0, <1>1, <2>2 DEF RunDueTasks, ProcessTypes, stored
  <1>2. ASSUME NEW t \in Tasks, TriggerTask(t) PROVE ProcessTypes'
    <2>1. budget' \in Budgets
      BY <1>2, BudgetCounts DEF TriggerTask
    <2> QED
      BY <1>0, <1>2, <2>1 DEF TriggerTask, ProcessTypes, stored, task
  <1>3. ASSUME NEW t \in Tasks, NEW on \in BOOLEAN, SetEnabled(t, on) PROVE ProcessTypes'
    <2>1. budget' \in Budgets
      BY <1>3, BudgetCounts DEF SetEnabled
    <2>2. enabled' = enabled \cup {t} \/ enabled' = enabled \ {t}
      BY <1>3 DEF SetEnabled
    <2> QED
      BY <1>0, <1>3, <2>1, <2>2 DEF SetEnabled, ProcessTypes, stored
  <1>4. ASSUME NEW g \in Slots, Execute(g) PROVE ProcessTypes'
    <2>1. CASE CheckEnabled(g) \/ LockRefused(g)
      BY <1>0, <2>1 DEF CheckEnabled, LockRefused, ProcessTypes, stored, task
    <2>2. CASE AcquireTaskLock(g)
      <3>1. runs[g].task \in Tasks
        BY <2>2, RunState DEF AcquireTaskLock
      <3> QED
        BY <1>0, <2>2, <3>1 DEF AcquireTaskLock, ProcessTypes, stored, task
    <2>3. CASE PersistTaskState(g)
      <3>1. PICK t \in Tasks, s \in Statuses : t = runs[g].task /\ s = runs[g].status
        BY <2>3, RunState DEF PersistTaskState
      <3>2. row' = [row EXCEPT ![t] = s] \/ row' = row
        BY <2>3, <3>1 DEF PersistTaskState
      <3>3. row' \in [Tasks -> Statuses \cup {"interrupted"}]
        BY <1>0, <3>2 DEF ProcessTypes
      <3>4. budget' \in Budgets
        BY <2>3, FaultCounts DEF PersistTaskState
      <3> QED
        BY <1>0, <2>3, <3>3, <3>4 DEF PersistTaskState, ProcessTypes, task
    <2>4. CASE RecordTaskRun(g)
      <3>1. PICK t \in Tasks, s \in Nat : t = runs[g].task /\ s = runs[g].start
        BY <2>4, RunState DEF RecordTaskRun
      <3>2. /\ history' = [history EXCEPT ![t] = IF s > @ THEN s ELSE @] \/ history' = history
            /\ active' = active \ {t}
        BY <2>4, <3>1 DEF RecordTaskRun
      <3>3. history' \in [Tasks -> Nat \cup {NeverRun}]
        BY <1>0, <3>2 DEF ProcessTypes
      <3>4. budget' \in Budgets
        BY <2>4, FaultCounts DEF RecordTaskRun
      <3> QED
        BY <1>0, <2>4, <3>2, <3>3, <3>4 DEF RecordTaskRun, ProcessTypes, task
    <2> QED
      BY <1>4, <2>1, <2>2, <2>3, <2>4 DEF Execute
  <1>5. ASSUME NEW g \in Slots, NEW status \in {"success", "failed"}, RunTaskFn(g, status)
        PROVE  ProcessTypes'
    <2>1. PICK t \in Tasks : t = runs[g].task
      BY <1>5, RunState DEF RunTaskFn
    <2>2. ApplyRetryPolicy(t, status)
      BY <1>5, <2>1 DEF RunTaskFn
    <2>3. retryCount' \in [Tasks -> 0..Len(retryDelays)] /\ nextRun' \in [Tasks -> Nat]
      BY <2>2, PolicyDoes
    <2> QED
      BY <1>0, <1>5, <2>3 DEF RunTaskFn, ProcessTypes, stored
  <1>6. CASE StartScheduler
    <2>1. catchup' \in Seq([task : Tasks, due : Nat])
      BY <1>6, CatchUpQueue DEF Entries
    <2> QED
      BY <1>0, <1>6, <2>1 DEF StartScheduler, ProcessTypes, stored, task
  <1>7. CASE CatchUpNext
    <2>1. catchup' \in Seq([task : Tasks, due : Nat])
      BY <1>7, HeadIs DEF Entries, CatchUpNext
    <2> QED
      BY <1>0, <1>7, <2>1 DEF CatchUpNext, ProcessTypes, stored, task
  <1>8. CASE Tick
    BY <1>0, <1>8 DEF Tick, ProcessTypes, stored, task
  <1>9. CASE StopScheduler \/ LoopExits \/ Drained
    BY <1>0, <1>9 DEF StopScheduler, LoopExits, Drained, ProcessTypes, stored, task
  <1>10. CASE DrainTimesOut
    BY <1>0, <1>10 DEF DrainTimesOut, ProcessTypes, stored, task
  <1>15. CASE MarkTasksInterrupted
    <2>1. CASE MarkingDone
      BY <1>0, <2>1 DEF MarkingDone, ProcessTypes, stored, task
    <2>2. ASSUME NEW t \in Tasks, MarkInterrupted(t) PROVE ProcessTypes'
      <3>1. row' = [row EXCEPT ![t] = "interrupted"] \/ row' = row
        BY <2>2 DEF MarkInterrupted
      <3>2. row' \in [Tasks -> Statuses \cup {"interrupted"}]
        BY <1>0, <3>1 DEF ProcessTypes
      <3>3. budget' \in Budgets
        BY <2>2, FaultCounts DEF MarkInterrupted
      <3> QED
        BY <1>0, <2>2, <3>2, <3>3 DEF MarkInterrupted, ProcessTypes, task
    <2> QED
      BY <1>15, <2>1, <2>2 DEF MarkTasksInterrupted
  <1>11. Len(retryDelays) \in Nat
    BY SchedulerAssumption DEF SchedulerAssumption
  <1>12. CASE Exit
    <2>1. budget' \in Budgets
      BY <1>12, BudgetCounts DEF Exit
    <2>2. nextRun' \in [Tasks -> Nat] /\ retryCount' \in [Tasks -> 0..Len(retryDelays)]
      BY <1>11, <1>12 DEF Exit
    <2>3. catchup' \in Seq([task : Tasks, due : Nat])
      BY <1>12 DEF Exit
    <2> QED
      BY <1>0, <1>12, <2>1, <2>2, <2>3 DEF Exit, ProcessTypes, stored
  <1>13. CASE Restart
    <2>1. nextRun' \in [Tasks -> Nat] /\ retryCount' \in [Tasks -> 0..Len(retryDelays)]
      BY <1>0, <1>11, <1>13, FirstRunsAre DEF Restart
    <2> QED
      BY <1>0, <1>13, <2>1 DEF Restart, ProcessTypes, stored
  <1>14. CASE UNCHANGED vars
    BY <1>0, <1>14 DEF vars, ProcessTypes, stored, task
  <1> QED
    BY <1>1, <1>2, <1>3, <1>4, <1>5, <1>6, <1>7, <1>8, <1>9, <1>10, <1>12, <1>13, <1>14,
       <1>15 DEF Next

(* No step breaks a type.                                                   *)
LEMMA TypesStep == TypeOK /\ [Next]_vars => TypeOK'
  <1> SUFFICES ASSUME TypeOK, [Next]_vars PROVE TypeOK'
    OBVIOUS
  <1>1. runs' \in [Slots -> {Idle} \cup RunStates] /\ ProcessTypes' /\ NoteTypes'
    BY RunTypesStep, ProcessTypesStep, NoteTypesStep
  <1> QED
    BY <1>1 DEF TypeOK

(* Every variable of the scheduler keeps its type: in particular no retry   *)
(* counter passes the number of delays and no index leaves retryDelays.     *)
THEOREM SchedulerTypeCorrect == Spec => []TypeOK
  BY TypesInit, TypesStep, PTL DEF Spec

-----------------------------------------------------------------------------
(* No step makes a task late.                                               *)
LEMMA NeverLateStep == TypeOK /\ NeverLate /\ [Next]_vars => NeverLate'
  <1> SUFFICES ASSUME TypeOK, NeverLate, [Next]_vars, NEW t \in Tasks
               PROVE  nextRun'[t] <= NextAfter(t, clock')
    BY DEF NeverLate
  <1>1. clock \in Nat /\ nextRun \in [Tasks -> Nat] /\ nextRun[t] \in Nat
    BY DEF TypeOK, ProcessTypes
  <1>2. nextRun[t] <= NextAfter(t, clock)
    BY DEF NeverLate
  <1>3. PICK n \in Int : n = NextAfter(t, clock) /\ n > clock
    BY <1>1, NextIsLater
  <1>4. CASE Tick
    <2>1. clock' = clock + 1 /\ nextRun' = nextRun
      BY <1>4 DEF Tick, task
    <2>2. PICK m \in Int : m = NextAfter(t, clock + 1)
      BY <1>1, NextIsLater
    <2>3. n <= m
      BY <1>1, <1>3, <2>2, NextGrows
    <2> QED
      BY <1>1, <1>2, <1>3, <2>1, <2>2, <2>3
  <1>5. CASE RunDueTasks
    <2>1. clock' = clock /\ (nextRun'[t] = NextAfter(t, clock) \/ nextRun'[t] = nextRun[t])
      BY <1>5 DEF RunDueTasks
    <2> QED
      BY <1>2, <1>3, <2>1
  <1>6. ASSUME NEW g \in Slots, NEW status \in {"success", "failed"}, RunTaskFn(g, status)
        PROVE  nextRun'[t] <= NextAfter(t, clock')
    <2>1. PICK u \in Tasks : u = runs[g].task
      BY <1>6, RunState DEF RunTaskFn
    <2>2. ApplyRetryPolicy(u, status) /\ clock' = clock
      BY <1>6, <2>1 DEF RunTaskFn
    <2>3. nextRun' \in [Tasks -> Nat] /\ nextRun'[t] <= nextRun[t]
      <3>1. /\ nextRun' \in [Tasks -> Nat] /\ nextRun'[u] <= nextRun[u]
            /\ \A v \in Tasks \ {u} : nextRun'[v] = nextRun[v]
        BY <2>2, PolicyDoes
      <3> QED
        BY <1>1, <3>1
    <2> QED
      BY <1>1, <1>2, <1>3, <2>2, <2>3
  <1>7. CASE Exit
    <2>1. nextRun'[t] = 0 /\ clock' = clock
      BY <1>7 DEF Exit
    <2> QED
      BY <1>1, <1>3, <2>1
  <1>8. CASE Restart
    <2>1. nextRun'[t] = NextAfter(t, clock) /\ clock' = clock
      BY <1>8 DEF Restart, FirstRuns
    <2> QED
      BY <1>3, <2>1
  <1>9. CASE \/ \E u \in Tasks : TriggerTask(u)
             \/ \E u \in Tasks, on \in BOOLEAN : SetEnabled(u, on)
             \/ \E g \in Slots : Execute(g)
             \/ StartScheduler \/ CatchUpNext \/ StopScheduler \/ LoopExits
             \/ Drained \/ DrainTimesOut \/ MarkTasksInterrupted \/ UNCHANGED vars
    <2>1. nextRun' = nextRun /\ clock' = clock
      BY <1>9 DEF TriggerTask, SetEnabled, Execute, CheckEnabled, AcquireTaskLock, LockRefused,
                  PersistTaskState, RecordTaskRun, StartScheduler, CatchUpNext, StopScheduler,
                  LoopExits, Drained, DrainTimesOut, MarkTasksInterrupted, MarkInterrupted,
                  MarkingDone, vars, task
    <2> QED
      BY <1>2, <2>1
  <1> QED
    BY <1>4, <1>5, <1>6, <1>7, <1>8, <1>9 DEF Next

(* applyRetryPolicy never pushes a run later than the schedule itself would *)
(* have placed it, whatever fails, is triggered, toggled or restarted.      *)
THEOREM NeverPostponed == Spec => []NeverLate
  <1>1. Init => NeverLate
    <2> SUFFICES ASSUME Init, NEW t \in Tasks PROVE nextRun[t] <= NextAfter(t, clock)
      BY DEF NeverLate
    <2>1. NextAfter(t, 0) \in Int
      BY NextIsLater
    <2> QED
      BY <2>1 DEF Init, FirstRuns
  <1> QED
    BY <1>1, NeverLateStep, SchedulerTypeCorrect, PTL DEF Spec

-----------------------------------------------------------------------------
(* What any step of executeTask does to the goroutines: one of them ends or *)
(* goes on, with the same task, kind and occurrence.                        *)
Works(g) == Execute(g) \/ \E status \in {"success", "failed"} : RunTaskFn(g, status)

(* Every step of executeTask is of this form.                               *)
LEMMA GoroutineSteps ==
    ASSUME TypeOK, NEW g \in Slots, Works(g)
    PROVE  /\ runs[g].pc # "idle" /\ Only(g)
           /\ \/ runs'[g].pc = "idle"
              \/ /\ runs'[g].task = runs[g].task /\ runs'[g].kind = runs[g].kind
                 /\ runs'[g].occ = runs[g].occ
  <1>1. CASE CheckEnabled(g)
    <2>1. runs[g].pc # "idle" /\ (Step(g, "acquire") \/ Done(g)) /\ "acquire" \in PCs
      BY <1>1 DEF CheckEnabled, PCs
    <2> QED
      BY <2>1, StepMoves, DoneMoves DEF Moves
  <1>2. CASE AcquireTaskLock(g)
    BY <1>2, AcquireMoves DEF Moves, AcquireTaskLock
  <1>3. CASE LockRefused(g)
    BY <1>3, DoneMoves DEF LockRefused
  <1>4. CASE PersistTaskState(g)
    <2>1. runs[g].pc # "idle" /\ Step(g, "record") /\ "record" \in PCs
      BY <1>4 DEF PersistTaskState, PCs
    <2> QED
      BY <2>1, StepMoves DEF Moves
  <1>5. CASE RecordTaskRun(g)
    BY <1>5, DoneMoves DEF RecordTaskRun
  <1>6. ASSUME NEW status \in {"success", "failed"}, RunTaskFn(g, status)
        PROVE  runs[g].pc # "idle" /\ Moves(g, "persist", runs[g].start, status)
    BY <1>6, ReturnMoves DEF RunTaskFn
  <1> QED
    BY <1>1, <1>2, <1>3, <1>4, <1>5, <1>6 DEF Works, Execute, Moves

-----------------------------------------------------------------------------
(* After a drain that completed, the process stays stopped and what drained *)
(* stays so: no ticker runs, no catch-up is queued, only triggered runs     *)
(* remain or appear.                                                        *)
Drain == "drained" \in incidents => phase = "stopped" /\ InFlightZero

(* No step undoes a completed drain but the end of the process.             *)
LEMMA DrainStep == TypeOK /\ Drain /\ [Next]_vars => Drain'
  <1> SUFFICES ASSUME TypeOK, Drain, [Next]_vars, "drained" \in incidents'
               PROVE  phase' = "stopped" /\ InFlightZero'
    BY DEF Drain
  <1>1. CASE Drained
    BY <1>1 DEF Drained, InFlightZero, InFlight
  <1>2. CASE Exit
    BY <1>2 DEF Exit
  <1>3. CASE \/ Tick \/ StopScheduler \/ LoopExits \/ DrainTimesOut
             \/ MarkTasksInterrupted \/ Restart \/ UNCHANGED vars
             \/ \E t \in Tasks, on \in BOOLEAN : SetEnabled(t, on)
    <2>1. UNCHANGED <<runs, catchup, incidents>>
      BY <1>3 DEF Tick, StopScheduler, LoopExits, DrainTimesOut, MarkTasksInterrupted,
          MarkInterrupted, MarkingDone, Restart, SetEnabled, vars, notes, counts
    <2>2. phase = "stopped" /\ InFlightZero
      BY <2>1 DEF Drain
    <2>3. phase' = "stopped"
      BY <1>3, <2>2 DEF Tick, StopScheduler, LoopExits, DrainTimesOut, MarkTasksInterrupted,
          MarkInterrupted, MarkingDone, Restart, SetEnabled, vars
    <2> QED
      BY <2>1, <2>2, <2>3 DEF InFlightZero, InFlight
  <1>4. CASE StartScheduler
    <2>1. "drained" \in incidents
      BY <1>4 DEF StartScheduler
    <2> QED
      BY <1>4, <2>1 DEF StartScheduler, Drain
  <1>5. CASE RunDueTasks
    <2>1. "drained" \in incidents
      BY <1>5, StartingSteps, DispatchNotes DEF Starting
    <2> QED
      BY <1>5, <2>1 DEF RunDueTasks, Drain
  <1>6. CASE CatchUpNext
    <2>0. PICK new : Starting(new)
      BY <1>6, StartingSteps
    <2>1. "drained" \in incidents
      BY <2>0, DispatchNotes DEF Starting
    <2> QED
      BY <1>6, <2>1 DEF CatchUpNext, Drain, InFlightZero
  <1>7. ASSUME NEW t \in Tasks, TriggerTask(t) PROVE phase' = "stopped" /\ InFlightZero'
    <2>1. PICK r \in RunStates :
             /\ r = Run(t, "trigger", NoOccurrence) /\ r.kind = "trigger"
      BY TriggerIs
    <2>2. Starting({r})
      BY <1>7, <2>1, StartingSteps
    <2>3. "drained" \in incidents
      BY <2>2, DispatchNotes DEF Starting
    <2>4. \A g \in Slots : runs'[g] = runs[g] \/ runs'[g] = r
      BY <2>2, Starts DEF Starting
    <2>5. phase' = "stopped" /\ InFlightZero /\ catchup' = catchup
      BY <1>7, <2>3 DEF TriggerTask, Drain
    <2> QED
      BY <2>1, <2>4, <2>5 DEF InFlightZero, InFlight
  <1>8. ASSUME NEW g \in Slots, Works(g) PROVE phase' = "stopped" /\ InFlightZero'
    <2>1. UNCHANGED <<phase, catchup, incidents>>
      BY <1>8 DEF Works, Execute, CheckEnabled, AcquireTaskLock, LockRefused, PersistTaskState,
                  RecordTaskRun, RunTaskFn, notes, counts
    <2>2. \A h \in Slots : runs'[h].pc # "idle" =>
             runs[h].pc # "idle" /\ runs'[h].kind = runs[h].kind
      BY <1>8, GoroutineSteps DEF Only
    <2> QED
      BY <2>1, <2>2 DEF Drain, InFlightZero, InFlight
  <1> QED
    BY <1>1, <1>2, <1>3, <1>4, <1>5, <1>6, <1>7, <1>8 DEF Next, Works

(* When StopScheduler returns after its drain, every run that the ticker or *)
(* the catch-up started has finished, and none will start in this process.  *)
THEOREM DrainIsComplete == Spec => []DrainWaits
  <1>1. Init => Drain
    BY DEF Init, Drain
  <1>2. Drain => DrainWaits
    BY DEF Drain, DrainWaits
  <1> QED
    BY <1>1, <1>2, DrainStep, SchedulerTypeCorrect, PTL DEF Spec

-----------------------------------------------------------------------------
(* A task of which no two runs were ever in flight together has one run in  *)
(* flight at most, and s.active names it from markActive until it is        *)
(* recorded.                                                                *)
Marked == {"running", "persist", "record"}

OneRun ==
    \A g, h \in InFlight :
       runs[g].task = runs[h].task /\ runs[g].task \notin overlapped => g = h
ActiveNamed ==
    \A g \in InFlight :
       runs[g].pc \in Marked /\ runs[g].task \notin overlapped => runs[g].task \in active

(* The runs in flight after goroutines were started.                        *)
LEMMA Started ==
    ASSUME TypeOK, NEW new, Starting(new)
    PROVE  /\ \A g \in InFlight' : \/ g \in InFlight /\ runs'[g] = runs[g]
                                   \/ /\ g \notin InFlight /\ runs'[g] \in new
                                      /\ runs'[g].pc = "begin"
           /\ \A g, h \in InFlight' :
                 g \notin InFlight /\ h \notin InFlight /\ runs'[g].task = runs'[h].task => g = h
           /\ \A g \in InFlight : g \in InFlight' /\ runs'[g] = runs[g]
  <1>1. new \subseteq RunStates /\ Dispatch(new)
    BY DEF Starting
  <1>2. /\ \A g \in Slots : \/ runs'[g] = runs[g]
                            \/ runs[g].pc = "idle" /\ runs'[g] \in new
        /\ \A g, h \in Slots :
              /\ runs[g].pc = "idle" /\ runs[h].pc = "idle"
              /\ runs'[g] \in new /\ runs'[g] = runs'[h]
              => g = h
    BY <1>1, Starts
  <1>3. \A g \in InFlight' : \/ g \in InFlight /\ runs'[g] = runs[g]
                             \/ /\ g \notin InFlight /\ runs'[g] \in new
                                /\ runs'[g].pc = "begin"
    BY <1>2 DEF InFlight, Starting
  <1>4. ASSUME NEW g \in InFlight', NEW h \in InFlight',
               g \notin InFlight, h \notin InFlight, runs'[g].task = runs'[h].task
        PROVE  g = h
    <2>1. runs'[g] \in new /\ runs'[h] \in new /\ runs'[g] = runs'[h]
      BY <1>3, <1>4 DEF Starting
    <2>2. g \in Slots /\ h \in Slots /\ runs[g].pc = "idle" /\ runs[h].pc = "idle"
      BY <1>4 DEF InFlight
    <2> QED
      BY <1>2, <2>1, <2>2
  <1>5. \A g \in InFlight : g \in InFlight' /\ runs'[g] = runs[g]
    BY <1>2 DEF InFlight
  <1> QED
    BY <1>3, <1>4, <1>5

(* A started run of a task that had one in flight marks it overlapped.      *)
LEMMA OverlapIsNoted ==
    ASSUME TypeOK, NEW new, Starting(new), NEW g \in InFlight', g \notin InFlight,
           NEW h \in InFlight, runs[h].task = runs'[g].task
    PROVE  runs'[g].task \in overlapped'
  <1>1. runs'[g] \in new
    BY Started
  <1>2. PICK r \in new : r = runs'[g]
    BY <1>1
  <1>3. h \in RunsOf(r.task)
    BY <1>2 DEF RunsOf
  <1>4. new \subseteq RunStates /\ Dispatch(new)
    BY DEF Starting
  <1> QED
    BY <1>2, <1>3, <1>4, DispatchNotes

(* The other steps change no goroutine but by ending all of them.           *)
LEMMA NoGoroutine ==
    ASSUME [Next]_vars, ~RunDueTasks, ~CatchUpNext, \A t \in Tasks : ~TriggerTask(t),
           \A g \in Slots : ~Works(g)
    PROVE  /\ overlapped' = overlapped /\ crossed' = crossed
           /\ (runs' = runs /\ active' = active) \/ InFlight' = {}
  <1>1. CASE Exit
    BY <1>1 DEF Exit, InFlight, Idle
  <1>2. CASE \/ Tick \/ StartScheduler \/ StopScheduler \/ LoopExits \/ Drained
             \/ DrainTimesOut \/ MarkTasksInterrupted
             \/ Restart \/ (\E t \in Tasks, on \in BOOLEAN : SetEnabled(t, on)) \/ UNCHANGED vars
    BY <1>2 DEF Tick, StartScheduler, StopScheduler, LoopExits, Drained, DrainTimesOut,
        MarkTasksInterrupted, MarkInterrupted, MarkingDone, Restart,
                SetEnabled, vars, notes, counts
  <1> QED
    BY <1>1, <1>2 DEF Next, Works

(* No step starts a second run of a task without noting the overlap.        *)
LEMMA OneRunStep == TypeOK /\ OneRun /\ [Next]_vars => OneRun'
  <1> SUFFICES ASSUME TypeOK, OneRun, [Next]_vars PROVE OneRun'
    OBVIOUS
  <1>1. ASSUME NEW new, Starting(new) PROVE OneRun'
    <2> SUFFICES ASSUME NEW g \in InFlight', NEW h \in InFlight',
                        runs'[g].task = runs'[h].task, runs'[g].task \notin overlapped'
                 PROVE  g = h
      BY DEF OneRun
    <2>1. overlapped \subseteq overlapped'
      BY <1>1, DispatchNotes DEF Starting
    <2>2. CASE g \in InFlight /\ h \in InFlight
      <3>1. runs'[g] = runs[g] /\ runs'[h] = runs[h]
        BY <1>1, <2>2, Started
      <3> QED
        BY <2>1, <2>2, <3>1 DEF OneRun
    <2>3. CASE g \notin InFlight /\ h \notin InFlight
      BY <1>1, <2>3, Started
    <2>4. CASE g \notin InFlight /\ h \in InFlight
      <3>1. runs'[h] = runs[h]
        BY <1>1, <2>4, Started
      <3> QED
        BY <1>1, <2>4, <3>1, OverlapIsNoted
    <2>5. CASE g \in InFlight /\ h \notin InFlight
      <3>1. runs'[g] = runs[g]
        BY <1>1, <2>5, Started
      <3> QED
        BY <1>1, <2>5, <3>1, OverlapIsNoted
    <2> QED
      BY <2>2, <2>3, <2>4, <2>5
  <1>2. ASSUME NEW g \in Slots, Works(g) PROVE OneRun'
    <2>1. UNCHANGED overlapped
      BY <1>2 DEF Works, Execute, CheckEnabled, AcquireTaskLock, LockRefused, PersistTaskState,
                  RecordTaskRun, RunTaskFn, notes, counts
    <2>2. \A h \in InFlight' : h \in InFlight /\ runs'[h].task = runs[h].task
      BY <1>2, GoroutineSteps DEF Only, InFlight
    <2> QED
      BY <2>1, <2>2 DEF OneRun
  <1>3. CASE /\ ~RunDueTasks /\ ~CatchUpNext /\ \A t \in Tasks : ~TriggerTask(t)
             /\ \A g \in Slots : ~Works(g)
    <2>1. overlapped' = overlapped /\ (runs' = runs \/ InFlight' = {})
      BY <1>3, NoGoroutine
    <2> QED
      BY <2>1 DEF OneRun, InFlight
  <1> QED
    BY <1>1, <1>2, <1>3, StartingSteps

(* No step removes from s.active the name of a task still executing.        *)
LEMMA ActiveNamedStep == TypeOK /\ OneRun /\ ActiveNamed /\ [Next]_vars => ActiveNamed'
  <1> SUFFICES ASSUME TypeOK, OneRun, ActiveNamed, [Next]_vars PROVE ActiveNamed'
    OBVIOUS
  <1>1. ASSUME NEW new, Starting(new), active' = active PROVE ActiveNamed'
    <2>1. overlapped \subseteq overlapped'
      BY <1>1, DispatchNotes DEF Starting
    <2>2. \A g \in InFlight' : (g \in InFlight /\ runs'[g] = runs[g]) \/ runs'[g].pc = "begin"
      BY <1>1, Started
    <2> QED
      BY <1>1, <2>1, <2>2 DEF ActiveNamed, Marked
  <1>2. ASSUME NEW g \in Slots, Works(g) PROVE ActiveNamed'
    <2>1. UNCHANGED overlapped
      BY <1>2 DEF Works, Execute, CheckEnabled, AcquireTaskLock, LockRefused, PersistTaskState,
                  RecordTaskRun, RunTaskFn, notes, counts
    <2>2. /\ g \in InFlight /\ (g \in InFlight' => runs'[g].task = runs[g].task)
          /\ \A h \in InFlight' \ {g} : h \in InFlight /\ runs'[h] = runs[h]
      BY <1>2, GoroutineSteps DEF Only, InFlight
    <2>3. CASE RecordTaskRun(g)
      <3>1. g \notin InFlight' /\ active' = active \ {runs[g].task}
        BY <2>3, DoneMoves DEF RecordTaskRun, InFlight
      <3> QED
        BY <2>1, <2>2, <3>1 DEF ActiveNamed, OneRun
    <2>4. CASE AcquireTaskLock(g)
      <3>1. active' = active \cup {runs[g].task}
        BY <2>4 DEF AcquireTaskLock
      <3> QED
        BY <2>1, <2>2, <3>1 DEF ActiveNamed
    <2>5. CASE CheckEnabled(g) \/ LockRefused(g)
      <3>1. active' = active
        BY <2>5 DEF CheckEnabled, LockRefused
      <3>2. runs'[g].pc \notin Marked
        <4>1. CASE CheckEnabled(g)
          <5>1. runs[g].pc # "idle" /\ (Step(g, "acquire") \/ Done(g)) /\ "acquire" \in PCs
            BY <4>1 DEF CheckEnabled, PCs
          <5>2. runs'[g].pc = "acquire" \/ runs'[g].pc = "idle"
            BY <5>1, StepMoves, DoneMoves DEF Moves
          <5> QED
            BY <5>2 DEF Marked
        <4>2. CASE LockRefused(g)
          BY <4>2, DoneMoves DEF LockRefused, Marked
        <4> QED
          BY <2>5, <4>1, <4>2
      <3> QED
        BY <2>1, <2>2, <3>1, <3>2 DEF ActiveNamed
    <2>6. CASE PersistTaskState(g) \/ \E status \in {"success", "failed"} : RunTaskFn(g, status)
      <3>1. active' = active /\ runs[g].pc \in Marked
        BY <2>6 DEF PersistTaskState, RunTaskFn, Marked
      <3> QED
        BY <2>1, <2>2, <3>1 DEF ActiveNamed
    <2> QED
      BY <1>2, <2>3, <2>4, <2>5, <2>6 DEF Works, Execute
  <1>3. CASE /\ ~RunDueTasks /\ ~CatchUpNext /\ \A t \in Tasks : ~TriggerTask(t)
             /\ \A g \in Slots : ~Works(g)
    <2>1. overlapped' = overlapped /\ ((runs' = runs /\ active' = active) \/ InFlight' = {})
      BY <1>3, NoGoroutine
    <2> QED
      BY <2>1 DEF ActiveNamed, InFlight
  <1>4. RunDueTasks \/ CatchUpNext \/ (\E t \in Tasks : TriggerTask(t)) => active' = active
    BY DEF RunDueTasks, CatchUpNext, TriggerTask
  <1> QED
    BY <1>1, <1>2, <1>3, <1>4, StartingSteps

(* Both hold always.                                                        *)
LEMMA NamesInvariant == Spec => [](OneRun /\ ActiveNamed)
  <1>1. Init => OneRun /\ ActiveNamed
    BY DEF Init, OneRun, ActiveNamed, InFlight, Idle
  <1> QED
    BY <1>1, OneRunStep, ActiveNamedStep, SchedulerTypeCorrect, PTL DEF Spec

(* Names are left to mark only while the shutdown marks.                    *)
Marking == toMark # {} => phase = "marking"

(* The marking ends with the last name, or with the process.                *)
LEMMA MarkingStep == Marking /\ [Next]_vars => Marking'
  <1> SUFFICES ASSUME Marking, [Next]_vars, toMark' # {} PROVE phase' = "marking"
    BY DEF Marking
  <1>1. CASE DrainTimesOut \/ Exit \/ MarkTasksInterrupted
    BY <1>1 DEF DrainTimesOut, Exit, MarkTasksInterrupted, MarkInterrupted, MarkingDone, drain
  <1>2. CASE \/ RunDueTasks \/ CatchUpNext \/ (\E t \in Tasks : TriggerTask(t)) \/ Tick
             \/ (\E t \in Tasks, on \in BOOLEAN : SetEnabled(t, on))
             \/ (\E g \in Slots : Works(g)) \/ UNCHANGED vars
    <2>1. UNCHANGED <<toMark, phase>>
      BY <1>2 DEF RunDueTasks, CatchUpNext, TriggerTask, Tick, SetEnabled, Works, Execute,
                  CheckEnabled, AcquireTaskLock, LockRefused, PersistTaskState, RecordTaskRun,
                  RunTaskFn, vars, drain
    <2> QED
      BY <2>1 DEF Marking
  <1>3. CASE StartScheduler \/ StopScheduler \/ LoopExits \/ Drained \/ Restart
    <2>1. UNCHANGED toMark /\ phase # "marking"
      BY <1>3 DEF StartScheduler, StopScheduler, LoopExits, Drained, Restart, drain
    <2> QED
      BY <2>1 DEF Marking
  <1> QED
    BY <1>1, <1>2, <1>3 DEF Next, Works

(* No step takes the mark from a task that a shutdown gave up waiting for,  *)
(* and a name that has yet to be marked is among the names still to come.   *)
LEMMA MarkedStep ==
    TypeOK /\ ActiveNamed /\ Marking /\ InterruptedMarked /\ [Next]_vars => InterruptedMarked'
  <1> SUFFICES ASSUME TypeOK, ActiveNamed, Marking, InterruptedMarked, [Next]_vars,
                      NEW t \in interrupted', t \notin overlapped', t \notin toMark'
               PROVE  row'[t] = "interrupted"
    BY DEF InterruptedMarked
  <1>0. row \in [Tasks -> Statuses \cup {"interrupted"}] /\ interrupted \subseteq Tasks
    BY DEF TypeOK, ProcessTypes, NoteTypes
  <1>1. t \in interrupted /\ t \notin overlapped /\ t \notin toMark => row[t] = "interrupted"
    BY DEF InterruptedMarked
  <1>2. ASSUME NEW new, Starting(new), UNCHANGED <<toMark, row>> PROVE row'[t] = "interrupted"
    <2>1. overlapped \subseteq overlapped' /\ interrupted' = interrupted
      BY <1>2, DispatchNotes DEF Starting, Dispatch
    <2> QED
      BY <1>1, <1>2, <2>1
  <1>3. RunDueTasks \/ CatchUpNext \/ (\E u \in Tasks : TriggerTask(u)) => UNCHANGED <<toMark, row>>
    BY DEF RunDueTasks, CatchUpNext, TriggerTask, drain, stored
  <1>4. ASSUME NEW g \in Slots, PersistTaskState(g) PROVE row'[t] = "interrupted"
    <2>1. UNCHANGED <<overlapped, toMark>>
      BY <1>4 DEF PersistTaskState, drain, counts
    <2>2. PICK u \in Tasks : u = runs[g].task
      BY <1>4, RunState DEF PersistTaskState
    <2>3. \/ row' = [row EXCEPT ![u] = runs[g].status] /\ interrupted' = interrupted \ {u}
          \/ UNCHANGED <<row, interrupted>>
      BY <1>4, <2>2 DEF PersistTaskState
    <2> QED
      BY <1>0, <1>1, <2>1, <2>3
  <1>5. CASE DrainTimesOut
    <2>1. UNCHANGED <<overlapped, row>> /\ toMark' = active
      BY <1>5 DEF DrainTimesOut, stored, counts
    <2>2. CASE t \in Tasks /\ Executing(t)
      <3>1. t \in active
        BY <2>1, <2>2 DEF Executing, RunsOf, ActiveNamed, Marked
      <3> QED
        BY <2>1, <3>1
    <2>3. CASE t \in interrupted
      <3>1. t \notin toMark
        BY <1>5 DEF DrainTimesOut, Marking
      <3> QED
        BY <1>1, <2>1, <2>3, <3>1
    <2> QED
      BY <1>5, <2>2, <2>3 DEF DrainTimesOut
  <1>6. ASSUME NEW u \in Tasks, MarkInterrupted(u) PROVE row'[t] = "interrupted"
    <2>1. UNCHANGED overlapped /\ toMark' = toMark \ {u}
      BY <1>6 DEF MarkInterrupted, counts
    <2>2. \/ row' = [row EXCEPT ![u] = "interrupted"] /\ UNCHANGED interrupted
          \/ interrupted' = interrupted \ {u} /\ UNCHANGED row
      BY <1>6 DEF MarkInterrupted
    <2> QED
      BY <1>0, <1>1, <2>1, <2>2
  <1>7. CASE Exit
    BY <1>1, <1>7 DEF Exit, stored
  <1>8. CASE \/ Tick \/ StartScheduler \/ StopScheduler \/ LoopExits \/ Drained \/ MarkingDone
             \/ Restart \/ (\E u \in Tasks, on \in BOOLEAN : SetEnabled(u, on)) \/ UNCHANGED vars
    <2>1. UNCHANGED <<interrupted, overlapped, toMark, row>>
      BY <1>8 DEF Tick, StartScheduler, StopScheduler, LoopExits, Drained, MarkingDone, Restart,
                  SetEnabled, vars, drain, stored, notes, counts
    <2> QED
      BY <1>1, <2>1
  <1>9. ASSUME NEW g \in Slots, Works(g), ~PersistTaskState(g) PROVE row'[t] = "interrupted"
    <2>1. UNCHANGED <<interrupted, overlapped, toMark, row>>
      BY <1>9 DEF Works, Execute, CheckEnabled, AcquireTaskLock, LockRefused, RecordTaskRun,
                  RunTaskFn, drain, stored, notes, counts
    <2> QED
      BY <1>1, <2>1
  <1> QED
    BY <1>2, <1>3, <1>4, <1>5, <1>6, <1>7, <1>8, <1>9, StartingSteps
       DEF Next, Works, MarkTasksInterrupted

(* A task executing when a shutdown gave up waiting is marked interrupted   *)
(* as soon as markTasksInterrupted has come to its name, unless its UPDATE  *)
(* failed or its runs overlapped, and stays marked across restarts until a  *)
(* run of it writes its own status.                                         *)
THEOREM InterruptionIsRecorded == Spec => []InterruptedMarked
  <1>1. Init => InterruptedMarked /\ Marking
    BY DEF Init, InterruptedMarked, Marking
  <1> QED
    BY <1>1, MarkedStep, MarkingStep, NamesInvariant, SchedulerTypeCorrect, PTL DEF Spec

-----------------------------------------------------------------------------
(* Between two processes nothing runs and no retry is pending.              *)
Blank ==
    phase = "down" => /\ InFlight = {} /\ catchup = <<>> /\ retryDue = {}
                      /\ \A t \in Tasks : retries[t] = 0

(* Only the end of the process enters this state, and nothing starts in it. *)
LEMMA BlankStep == TypeOK /\ Blank /\ [Next]_vars => Blank'
  <1> SUFFICES ASSUME TypeOK, Blank, [Next]_vars, phase' = "down"
               PROVE  /\ InFlight' = {} /\ catchup' = <<>> /\ retryDue' = {}
                      /\ \A t \in Tasks : retries'[t] = 0
    BY DEF Blank
  <1>1. CASE Exit
    BY <1>1 DEF Exit, InFlight, Idle
  <1>2. CASE ~Exit
    <2>1. phase = "down"
      BY <1>2 DEF Next, Tick, RunDueTasks, TriggerTask, SetEnabled, Execute,
              CheckEnabled, AcquireTaskLock, LockRefused, PersistTaskState, RecordTaskRun, Drained,
              RunTaskFn, StartScheduler, CatchUpNext, StopScheduler, LoopExits, DrainTimesOut,
              MarkTasksInterrupted, MarkInterrupted, MarkingDone,
              Restart, vars
    <2>2. \A g \in Slots : ~Works(g)
      BY <2>1, GoroutineSteps DEF Blank, InFlight
    <2>3. Tick \/ UNCHANGED vars
      BY <1>2, <2>1, <2>2 DEF Works, Blank, Next, RunDueTasks, TriggerTask, SetEnabled, Drained,
              StartScheduler, CatchUpNext, StopScheduler, LoopExits, DrainTimesOut,
              MarkTasksInterrupted, MarkInterrupted, MarkingDone, Restart
    <2>4. UNCHANGED <<runs, catchup, retryDue, retries>>
      BY <2>3 DEF Tick, vars, notes, counts
    <2> QED
      BY <2>1, <2>4 DEF Blank, InFlight
  <1> QED
    BY <1>1, <1>2

(* The number of retries is tied to the counter of applyRetryPolicy: a      *)
(* retry is pending only if the counter is ahead of the retries made, and a *)
(* run that has not returned yet has the counter at the retries made.       *)
Early == {"begin", "acquire", "running"}

WithinBudget(t) ==
    /\ retries[t] <= Len(retryDelays)
    /\ t \in retryDue => retries[t] < retryCount[t]
    /\ \A g \in InFlight : runs[g].task = t /\ runs[g].pc \in Early =>
                              t \notin retryDue /\ retries[t] <= retryCount[t]
Budgeted ==
    budget.triggers = 0 => \A t \in Tasks \ (overlapped \cup crossed) : WithinBudget(t)

(* No step lets the retries overtake the counter.                           *)
LEMMA BudgetedStep == TypeOK /\ OneRun /\ Blank /\ Budgeted /\ [Next]_vars => Budgeted'
  <1> SUFFICES ASSUME TypeOK, OneRun, Blank, Budgeted, [Next]_vars, budget'.triggers = 0,
                      NEW t \in Tasks, t \notin overlapped', t \notin crossed'
               PROVE  WithinBudget(t)'
    BY DEF Budgeted
  <1>0. /\ retries[t] \in Nat /\ retryCount[t] \in 0..Len(retryDelays) /\ Len(retryDelays) \in Nat
        /\ budget \in Budgets
    BY SchedulerAssumption DEF TypeOK, ProcessTypes, NoteTypes, SchedulerAssumption
  <1>1. ASSUME budget.triggers = 0, t \notin overlapped, t \notin crossed PROVE WithinBudget(t)
    BY <1>1 DEF Budgeted
  <1>2. CASE RunDueTasks
    <2>1. Starting(Ticks)
      BY <1>2, StartingSteps
    <2>2. Ticks \subseteq RunStates /\ Dispatch(Ticks)
      BY <2>1 DEF Starting
    <2>3. WithinBudget(t)
      <3>1. budget' = budget /\ overlapped \subseteq overlapped' /\ crossed \subseteq crossed'
        BY <1>2, <2>2, DispatchNotes DEF RunDueTasks
      <3> QED
        BY <1>1, <3>1
    <2>4. retryCount' = retryCount
      BY <1>2 DEF RunDueTasks
    <2>5. CASE t \in Due
      <3>1. t \in TasksOf(Ticks, "tick")
        <4>1. PICK r \in Ticks : r = Run(t, "tick", TickOcc(t)) /\ r.task \in Due /\ r.kind = "tick"
          BY <2>5, TicksAre DEF Ticks
        <4>2. r.task = t
          BY <4>1 DEF Run
        <4> QED
          BY <4>1, <4>2 DEF TasksOf
      <3>2. /\ retries'[t] = (IF t \in retryDue THEN retries[t] + 1 ELSE 0)
            /\ t \notin retryDue'
        BY <2>2, <3>1, DispatchNotes
      <3>3. retries'[t] <= retryCount[t]
        BY <1>0, <2>3, <3>2 DEF WithinBudget
      <3> QED
        BY <1>0, <2>4, <3>2, <3>3 DEF WithinBudget
    <2>6. CASE t \notin Due
      <3>1. t \notin TasksOf(Ticks, "tick")
        BY <2>6, TicksAre DEF TasksOf
      <3>2. retries'[t] = retries[t] /\ (t \in retryDue' <=> t \in retryDue)
        BY <2>2, <3>1, DispatchNotes
      <3>3. \A g \in InFlight' : runs'[g].task = t => g \in InFlight /\ runs'[g] = runs[g]
        BY <2>1, <2>6, Started, TicksAre
      <3> QED
        BY <2>3, <2>4, <3>2, <3>3 DEF WithinBudget
    <2> QED
      BY <2>5, <2>6
  <1>3. CASE CatchUpNext
    <2>0. PICK r \in RunStates : /\ r = Run(Head(catchup).task, "catchup", Head(catchup).due)
                                 /\ r.kind = "catchup"
      BY <1>3, MissedIs DEF CatchUpNext
    <2>1. Starting({r})
      BY <1>3, <2>0, StartingSteps
    <2>2. {r} \subseteq RunStates /\ Dispatch({r})
      BY <2>1 DEF Starting
    <2>3. WithinBudget(t)
      <3>1. budget' = budget /\ overlapped \subseteq overlapped' /\ crossed \subseteq crossed'
        BY <1>3, <2>2, DispatchNotes DEF CatchUpNext
      <3> QED
        BY <1>1, <3>1
    <2>4. retryCount' = retryCount
      BY <1>3 DEF CatchUpNext, task
    <2>5. retries'[t] = retries[t] /\ (t \in retryDue' <=> t \in retryDue)
      <3>1. t \notin TasksOf({r}, "tick")
        BY <2>0 DEF TasksOf
      <3> QED
        BY <2>2, <3>1, DispatchNotes
    <2>6. CASE t = r.task
      <3>1. ~Retrying(t)
        BY <2>0, <2>2, <2>6, DispatchNotes
      <3>2. t \notin retryDue /\ retries[t] = 0
        BY <1>0, <3>1 DEF Retrying
      <3> QED
        BY <1>0, <2>4, <2>5, <3>2 DEF WithinBudget
    <2>7. CASE t # r.task
      <3>3. \A g \in InFlight' : runs'[g].task = t => g \in InFlight /\ runs'[g] = runs[g]
        BY <2>1, <2>7, Started
      <3> QED
        BY <2>3, <2>4, <2>5, <3>3 DEF WithinBudget
    <2> QED
      BY <2>6, <2>7
  <1>4. ASSUME NEW u \in Tasks, TriggerTask(u) PROVE FALSE
    <2>1. budget' = [budget EXCEPT !.triggers = @ + 1]
      BY <1>4 DEF TriggerTask
    <2> QED
      BY <1>0, <2>1 DEF Budgets
  <1>5. ASSUME NEW g \in Slots, NEW status \in {"success", "failed"}, RunTaskFn(g, status)
        PROVE  WithinBudget(t)'
    <2>1. PICK u \in Tasks : u = runs[g].task
      BY <1>5, RunState DEF RunTaskFn
    <2>2. ApplyRetryPolicy(u, status) /\ UNCHANGED <<budget, overlapped, crossed, retries>>
      BY <1>5, <2>1 DEF RunTaskFn
    <2>3. WithinBudget(t)
      BY <1>1, <2>2
    <2>4. /\ runs[g].pc = "running" /\ g \in InFlight /\ runs'[g].pc = "persist"
          /\ \A h \in InFlight' \ {g} : h \in InFlight /\ runs'[h] = runs[h]
      BY <1>5, ReturnMoves DEF RunTaskFn, Moves, Only, InFlight
    <2>5. /\ \A v \in Tasks \ {u} : retryCount'[v] = retryCount[v]
          /\ \/ retryCount'[u] = 0 /\ retryDue' = retryDue
             \/ retryCount'[u] = retryCount[u] + 1 /\ retryDue' = retryDue
             \/ retryCount'[u] = retryCount[u] + 1 /\ retryDue' = retryDue \cup {u}
      BY <2>2, PolicyDoes
    <2>6. CASE t = u
      <3>1. t \notin retryDue /\ retries[t] <= retryCount[t]
        BY <2>1, <2>3, <2>4, <2>6 DEF WithinBudget, Early
      <3>2. \A h \in InFlight' : runs'[h].task = t => runs'[h].pc \notin Early
        <4> SUFFICES ASSUME NEW h \in InFlight', runs'[h].task = t, h # g PROVE FALSE
          BY <2>4 DEF Early
        <4>1. h \in InFlight /\ runs[h].task = t
          BY <2>4
        <4> QED
          BY <2>1, <2>2, <2>4, <2>6, <4>1 DEF OneRun
      <3> QED
        BY <1>0, <2>2, <2>3, <2>5, <2>6, <3>1, <3>2 DEF WithinBudget
    <2>7. CASE t # u
      <3>1. retryCount'[t] = retryCount[t] /\ (t \in retryDue' <=> t \in retryDue)
        BY <2>5, <2>7
      <3>2. \A h \in InFlight' : runs'[h].task = t /\ runs'[h].pc \in Early =>
                                    h \in InFlight /\ runs'[h] = runs[h]
        BY <2>4 DEF Early
      <3> QED
        BY <2>2, <2>3, <3>1, <3>2 DEF WithinBudget
    <2> QED
      BY <2>6, <2>7
  <1>6. ASSUME NEW g \in Slots, Execute(g) PROVE WithinBudget(t)'
    <2>0. budget.triggers = 0
      BY <1>6, FaultCounts DEF Execute, CheckEnabled, AcquireTaskLock, LockRefused,
                               PersistTaskState, RecordTaskRun
    <2>1. UNCHANGED <<overlapped, crossed, retries, retryDue, retryCount>>
      BY <1>6 DEF Execute, CheckEnabled, AcquireTaskLock, LockRefused, PersistTaskState,
                  RecordTaskRun, notes, counts, task
    <2>2. WithinBudget(t)
      BY <1>1, <2>0, <2>1
    <2>3. /\ g \in InFlight /\ (g \in InFlight' => runs'[g].task = runs[g].task)
          /\ \A h \in InFlight' \ {g} : h \in InFlight /\ runs'[h] = runs[h]
      BY <1>6, GoroutineSteps DEF Works, Only, InFlight
    <2>4. runs'[g].pc \in Early => runs[g].pc \in Early
      <3>1. CASE CheckEnabled(g) \/ AcquireTaskLock(g) \/ LockRefused(g)
        BY <3>1 DEF CheckEnabled, AcquireTaskLock, LockRefused, Early
      <3>2. CASE PersistTaskState(g)
        <4>1. runs[g].pc # "idle" /\ Step(g, "record") /\ "record" \in PCs
          BY <3>2 DEF PersistTaskState, PCs
        <4> QED
          BY <4>1, StepMoves DEF Moves, Early
      <3>3. CASE RecordTaskRun(g)
        BY <3>3, DoneMoves DEF RecordTaskRun, Early
      <3> QED
        BY <1>6, <3>1, <3>2, <3>3 DEF Execute
    <2> QED
      BY <2>1, <2>2, <2>3, <2>4 DEF WithinBudget
  <1>7. CASE Exit
    <2>1. retryDue' = {} /\ retries'[t] = 0 /\ InFlight' = {}
      BY <1>7 DEF Exit, InFlight, Idle
    <2> QED
      BY <1>0, <2>1 DEF WithinBudget
  <1>8. CASE Restart
    <2>1. InFlight' = {} /\ retryDue' = {} /\ retries'[t] = 0
      BY <1>8 DEF Restart, Blank, InFlight
    <2> QED
      BY <1>0, <2>1 DEF WithinBudget
  <1>9. ASSUME NEW u \in Tasks, NEW on \in BOOLEAN, SetEnabled(u, on) PROVE WithinBudget(t)'
    <2>1. UNCHANGED <<overlapped, crossed, retries, retryDue, retryCount, runs>>
          /\ budget' = [budget EXCEPT !.toggles = @ + 1]
      BY <1>9 DEF SetEnabled, notes, counts
    <2>2. budget.triggers = 0
      BY <1>0, <2>1 DEF Budgets
    <2> QED
      BY <1>1, <2>1, <2>2 DEF WithinBudget, InFlight
  <1>10. CASE \/ Tick \/ StartScheduler \/ StopScheduler \/ LoopExits \/ Drained
              \/ DrainTimesOut \/ MarkTasksInterrupted
              \/ UNCHANGED vars
    <2>1. UNCHANGED <<overlapped, crossed, retries, retryDue, retryCount, runs>>
      BY <1>10 DEF Tick, StartScheduler, StopScheduler, LoopExits, Drained, DrainTimesOut,
                   MarkTasksInterrupted, MarkInterrupted, MarkingDone, vars, notes, counts, task
    <2>2. budget.triggers = 0
      BY <1>10, FaultCounts DEF Tick, StartScheduler, StopScheduler, LoopExits, Drained,
                   DrainTimesOut, MarkTasksInterrupted, MarkInterrupted, MarkingDone, vars
    <2> QED
      BY <1>1, <2>1, <2>2 DEF WithinBudget, InFlight
  <1> QED
    BY <1>2, <1>3, <1>4, <1>5, <1>6, <1>7, <1>8, <1>9, <1>10 DEF Next

(* A task that is not triggered by hand, whose runs never overlapped and    *)
(* whose catch-up run crossed no retry sequence, is retried at most         *)
(* len(retryDelays) times between two scheduled occurrences.                *)
THEOREM RetriesAreBounded == Spec => []RetryBudget
  <1>1. Init => Budgeted /\ Blank
    <2>1. Len(retryDelays) \in Nat
      BY SchedulerAssumption DEF SchedulerAssumption
    <2> QED
      BY <2>1 DEF Init, Budgeted, WithinBudget, Blank, InFlight, Idle
  <1>2. Budgeted => RetryBudget
    BY DEF Budgeted, WithinBudget, RetryBudget
  <1> QED
    BY <1>1, <1>2, BlankStep, BudgetedStep, NamesInvariant, SchedulerTypeCorrect, PTL DEF Spec

-----------------------------------------------------------------------------
(* Occurrences of a schedule that were taken: by a run in flight or by one  *)
(* in the history.  Only the ticker and the catch-up take a new one.        *)
Took(t, o) == <<t, o>> \in Occurrences

(* The two ways in which an occurrence is taken.                            *)
LEMMA TakenAre ==
    ASSUME TypeOK, NEW t \in Tasks, NEW o \in Occs
    PROVE  Took(t, o) <=> \/ \E g \in InFlight : runs[g].task = t /\ runs[g].occ = o
                          \/ <<t, o>> \in recorded
  BY DEF Took, Occurrences

(* What a step may add to the occurrences taken.                            *)
LEMMA NewlyTaken ==
    ASSUME TypeOK, [Next]_vars, NEW t \in Tasks, NEW o \in Occs, Took(t, o)'
    PROVE  \/ Took(t, o)
           \/ o = NoOccurrence
           \/ RunDueTasks /\ t \in Due /\ t \notin retryDue /\ o = nextRun[t]
           \/ CatchUpNext /\ t = Head(catchup).task /\ o = Head(catchup).due
  <1>1. (\E g \in InFlight' : runs'[g].task = t /\ runs'[g].occ = o) \/ <<t, o>> \in recorded'
    BY DEF Took, Occurrences
  <1>2. ASSUME NEW new, Starting(new)
        PROVE  Took(t, o) \/ \E r \in new : r.task = t /\ r.occ = o
    <2>1. recorded' = recorded
      BY <1>2, DispatchNotes DEF Starting
    <2>2. \A g \in InFlight' : (g \in InFlight /\ runs'[g] = runs[g]) \/ runs'[g] \in new
      BY <1>2, Started
    <2> QED
      BY <1>1, <2>1, <2>2, TakenAre
  <1>3. CASE RunDueTasks
    <2>1. Took(t, o) \/ \E r \in Ticks : r.task = t /\ r.occ = o
      BY <1>2, <1>3, StartingSteps
    <2>2. \A r \in Ticks : r.task \in Due /\ r.occ = TickOcc(r.task)
      BY TicksAre
    <2> QED
      BY <1>3, <2>1, <2>2 DEF TickOcc
  <1>4. ASSUME NEW u \in Tasks, TriggerTask(u) PROVE Took(t, o) \/ o = NoOccurrence
    <2>1. PICK r \in RunStates : r = Run(u, "trigger", NoOccurrence) /\ r.occ = NoOccurrence
      BY TriggerIs
    <2>2. Starting({r})
      BY <1>4, <2>1, StartingSteps
    <2> QED
      BY <1>2, <2>1, <2>2
  <1>5. CASE CatchUpNext
    <2>1. PICK r \in RunStates : /\ r = Run(Head(catchup).task, "catchup", Head(catchup).due)
                                 /\ r.task = Head(catchup).task /\ r.occ = Head(catchup).due
      BY <1>5, MissedIs DEF CatchUpNext
    <2>2. Starting({r})
      BY <1>5, <2>1, StartingSteps
    <2> QED
      BY <1>2, <1>5, <2>1, <2>2
  <1>6. ASSUME NEW g \in Slots, Works(g) PROVE Took(t, o)
    <2>1. /\ g \in InFlight
          /\ g \in InFlight' => runs'[g].task = runs[g].task /\ runs'[g].occ = runs[g].occ
          /\ \A h \in InFlight' \ {g} : h \in InFlight /\ runs'[h] = runs[h]
      BY <1>6, GoroutineSteps DEF Only, InFlight
    <2>2. CASE RecordTaskRun(g)
      <3>1. recorded' \in {recorded, recorded \cup
               ({<<runs[g].task, runs[g].occ>>} \ {<<runs[g].task, NoOccurrence>>})}
        BY <2>2 DEF RecordTaskRun
      <3>2. <<t, o>> \in recorded' => <<t, o>> \in recorded \/ (t = runs[g].task /\ o = runs[g].occ)
        BY <3>1
      <3> QED
        BY <1>1, <2>1, <3>2, TakenAre
    <2>3. CASE ~RecordTaskRun(g)
      <3>1. recorded' = recorded
        BY <1>6, <2>3 DEF Works, Execute, CheckEnabled, AcquireTaskLock, LockRefused,
                          PersistTaskState, RunTaskFn, notes, counts
      <3> QED
        BY <1>1, <2>1, <3>1, TakenAre
    <2> QED
      BY <2>2, <2>3
  <1>7. CASE /\ ~RunDueTasks /\ ~CatchUpNext /\ \A u \in Tasks : ~TriggerTask(u)
             /\ \A g \in Slots : ~Works(g)
    <2>1. runs' = runs \/ InFlight' = {}
      BY <1>7, NoGoroutine
    <2>2. recorded' = recorded
      BY <1>7 DEF Next, Works, Tick, StartScheduler, StopScheduler, LoopExits, Drained,
                  DrainTimesOut, MarkTasksInterrupted, MarkInterrupted, MarkingDone, Exit,
                  Restart, SetEnabled, vars, notes, counts
    <2> QED
      BY <1>1, <2>1, <2>2, TakenAre DEF InFlight
  <1> QED
    BY <1>3, <1>4, <1>5, <1>6, <1>7

-----------------------------------------------------------------------------
(* Why no occurrence is taken twice when StartScheduler follows             *)
(* registration at once:                                                    *)
(* what was taken, and the registration, are in the past;                   *)
Past == /\ upAt <= clock
        /\ \A t \in Tasks, o \in Occs : Took(t, o) => o <= clock
(* a cron task's next run is later than both, unless it is a retry;         *)
NextIsNew ==
    phase # "down" =>
       \A t \in Tasks \ (Every \cup retryDue) :
          nextRun[t] > upAt /\ \A o \in Occs : Took(t, o) => o < nextRun[t]
(* a run starts no earlier than its occurrence, so that the history's start *)
(* time covers the occurrences recorded;                                    *)
StartsAfter == \A g \in InFlight : runs[g].pc \in Marked => runs[g].occ <= runs[g].start
InHistory == \A t \in Tasks, o \in Nat : <<t, o>> \in recorded => o <= history[t]
(* until StartScheduler only triggered runs are in flight;                  *)
NotYet ==
    phase \in {"registered", "down"} =>
       catchup = <<>> /\ \A g \in InFlight : runs[g].occ = NoOccurrence
(* and what the catch-up still has to run is older than the registration    *)
(* and was not taken.                                                       *)
QueueIsNew ==
    /\ \A i \in DOMAIN catchup :
          /\ catchup[i].due <= upAt
          /\ \A t \in Tasks \ Every, o \in Occs :
                catchup[i].task = t /\ catchup[i].due = o => ~Took(t, o)
    /\ \A i, j \in DOMAIN catchup : catchup[i].task = catchup[j].task => i = j

Timely == Past /\ NextIsNew /\ StartsAfter /\ InHistory /\ NotYet /\ QueueIsNew

Punctual == "lateStart" \notin incidents => Timely /\ "twice" \notin incidents

(* Time does not go back, and registration happens now.                     *)
LEMMA Clocks ==
    ASSUME TypeOK, [Next]_vars
    PROVE  /\ clock \in Nat /\ clock' \in Nat /\ clock <= clock' /\ (Tick \/ clock' = clock)
           /\ upAt \in Nat /\ upAt' \in Nat
           /\ upAt' = upAt \/ (Restart /\ upAt' = clock)
  <1>1. clock \in Nat /\ upAt \in Nat
    BY DEF TypeOK, ProcessTypes, NoteTypes
  <1>2. Tick \/ clock' = clock
    BY DEF Next, RunDueTasks, TriggerTask, SetEnabled, Execute, CheckEnabled, AcquireTaskLock,
           LockRefused, PersistTaskState, RecordTaskRun, RunTaskFn, StartScheduler, CatchUpNext,
           StopScheduler, LoopExits, Drained, DrainTimesOut, MarkTasksInterrupted,
           MarkInterrupted, MarkingDone, Exit, Restart, vars
  <1>3. Restart \/ upAt' = upAt
    BY DEF Next, Tick, RunDueTasks, TriggerTask, SetEnabled, Execute, CheckEnabled,
           AcquireTaskLock, LockRefused, PersistTaskState, RecordTaskRun, RunTaskFn,
           StartScheduler, CatchUpNext, StopScheduler, LoopExits, Drained, DrainTimesOut,
           MarkTasksInterrupted, MarkInterrupted, MarkingDone, Exit,
           Dispatch, vars, notes, counts
  <1> QED
    BY <1>1, <1>2, <1>3 DEF Tick, Restart

(* No step takes an occurrence of the future.                               *)
LEMMA PastStep ==
    ASSUME TypeOK, Past, QueueIsNew, [Next]_vars
    PROVE  Past'
  <1>1. upAt' <= clock'
    BY Clocks DEF Past
  <1>2. ASSUME NEW t \in Tasks, NEW o \in Occs, Took(t, o)' PROVE o <= clock'
    <2>1. o \in Int /\ clock \in Nat /\ clock' \in Nat /\ clock <= clock'
      BY Clocks DEF Occs, NoOccurrence
    <2>2. CASE Took(t, o)
      BY <2>1, <2>2 DEF Past
    <2>3. CASE o = NoOccurrence
      BY <2>1, <2>3 DEF NoOccurrence
    <2>4. CASE t \in Due /\ o = nextRun[t]
      BY <2>1, <2>4 DEF Due
    <2>5. CASE CatchUpNext /\ o = Head(catchup).due
      <3>1. o = catchup[1].due /\ 1 \in DOMAIN catchup
        BY <2>5, HeadIs DEF CatchUpNext
      <3>2. o <= upAt /\ upAt <= clock /\ upAt \in Nat
        BY <3>1, Clocks DEF QueueIsNew, Past
      <3> QED
        BY <2>1, <3>2
    <2> QED
      BY <1>2, <2>2, <2>3, <2>4, <2>5, NewlyTaken
  <1> QED
    BY <1>1, <1>2 DEF Past

(* No step leaves a cron task due for an occurrence already taken.          *)
LEMMA NextIsNewStep ==
    ASSUME TypeOK, Past, NextIsNew, QueueIsNew, NotYet, [Next]_vars
    PROVE  NextIsNew'
  <1> SUFFICES ASSUME phase' # "down", NEW t \in Tasks, t \notin Every, t \notin retryDue'
               PROVE  nextRun'[t] > upAt' /\ \A o \in Occs : Took(t, o)' => o < nextRun'[t]
    BY DEF NextIsNew
  <1>9. Past'
    BY PastStep
  <1>0. /\ clock \in Nat /\ nextRun[t] \in Nat /\ upAt \in Nat /\ Past'
        /\ \A o \in Occs : o \in Int
    BY <1>9 DEF TypeOK, ProcessTypes, NoteTypes, Occs, NoOccurrence
  <1>1. PICK n \in Int : n = NextAfter(t, clock) /\ n > clock
    BY <1>0, NextIsLater
  <1>2. CASE Restart
    <2>1. nextRun'[t] = n /\ upAt' = clock /\ clock' = clock
      BY <1>1, <1>2 DEF Restart, FirstRuns
    <2> QED
      BY <1>0, <1>1, <2>1 DEF Past
  <1>3. CASE RunDueTasks /\ t \in Due
    <2>1. nextRun'[t] = n /\ clock' = clock /\ upAt' = upAt
      BY <1>1, <1>3, Clocks DEF RunDueTasks, Restart
    <2> QED
      BY <1>0, <1>1, <2>1 DEF Past
  <1>4. CASE ~Restart /\ ~(RunDueTasks /\ t \in Due)
    <2>1. upAt' = upAt /\ phase # "down"
      <3>1. phase # "down"
        BY <1>4 DEF Next, Tick, RunDueTasks, TriggerTask, SetEnabled, Execute, CheckEnabled,
              AcquireTaskLock, LockRefused, PersistTaskState, RecordTaskRun, RunTaskFn,
              StartScheduler, CatchUpNext, StopScheduler, LoopExits, Drained, DrainTimesOut,
              MarkTasksInterrupted, MarkInterrupted, MarkingDone, Exit,
              vars
      <3> QED
        BY <1>4, <3>1, Clocks
    <2>2. nextRun'[t] = nextRun[t] /\ t \notin retryDue
      <3>1. CASE RunDueTasks
        <4>1. nextRun'[t] = nextRun[t]
          BY <1>4, <3>1 DEF RunDueTasks
        <4>2. Ticks \subseteq RunStates /\ Dispatch(Ticks)
          BY <3>1, StartingSteps DEF Starting
        <4>3. t \notin TasksOf(Ticks, "tick")
          BY <1>4, <3>1, TicksAre DEF TasksOf
        <4> QED
          BY <4>1, <4>2, <4>3, DispatchNotes
      <3>2. CASE CatchUpNext
        <4>1. PICK r \in RunStates : /\ r = Run(Head(catchup).task, "catchup", Head(catchup).due)
                                     /\ r.kind = "catchup"
          BY <3>2, MissedIs DEF CatchUpNext
        <4>2. {r} \subseteq RunStates /\ Dispatch({r})
          BY <3>2, <4>1, StartingSteps DEF Starting
        <4>3. t \notin TasksOf({r}, "tick")
          BY <4>1 DEF TasksOf
        <4> QED
          BY <3>2, <4>2, <4>3, DispatchNotes DEF CatchUpNext, task
      <3>3. ASSUME NEW u \in Tasks,
      TriggerTask(u) PROVE nextRun'[t] = nextRun[t] /\ t \notin retryDue
        <4>1. PICK r \in RunStates : /\ r = Run(u, "trigger", NoOccurrence)
                                     /\ r.kind = "trigger"
          BY TriggerIs
        <4>2. {r} \subseteq RunStates /\ Dispatch({r})
          BY <3>3, <4>1, StartingSteps DEF Starting
        <4>3. t \notin TasksOf({r}, "tick")
          BY <4>1 DEF TasksOf
        <4> QED
          BY <3>3, <4>2, <4>3, DispatchNotes DEF TriggerTask, task
      <3>4. ASSUME NEW g \in Slots, NEW status \in {"success", "failed"}, RunTaskFn(g, status)
            PROVE  nextRun'[t] = nextRun[t] /\ t \notin retryDue
        <4>1. PICK u \in Tasks : u = runs[g].task
          BY <3>4, RunState DEF RunTaskFn
        <4>2. ApplyRetryPolicy(u, status)
          BY <3>4, <4>1 DEF RunTaskFn
        <4>3. /\ \A v \in Tasks \ {u} : nextRun'[v] = nextRun[v]
              /\ UNCHANGED <<nextRun, retryDue>> \/ retryDue' = retryDue \cup {u}
          BY <4>2, PolicyDoes
        <4> QED
          BY <4>3
      <3>5. CASE \/ \E g \in Slots : Execute(g)
                 \/ \E u \in Tasks, on \in BOOLEAN : SetEnabled(u, on)
                 \/ Tick \/ StartScheduler \/ StopScheduler \/ LoopExits \/ Drained
                 \/ DrainTimesOut \/ MarkTasksInterrupted \/ UNCHANGED vars
        BY <3>5 DEF Execute, CheckEnabled, AcquireTaskLock, LockRefused, PersistTaskState,
              RecordTaskRun, SetEnabled, Tick, StartScheduler, StopScheduler, LoopExits, Drained,
              DrainTimesOut, MarkTasksInterrupted, MarkInterrupted, MarkingDone, vars, notes,
              counts, task
      <3>6. ~Exit
        BY DEF Exit
      <3> QED
        BY <1>4, <3>1, <3>2, <3>3, <3>4, <3>5, <3>6 DEF Next
    <2>3. nextRun[t] > upAt /\ \A o \in Occs : Took(t, o) => o < nextRun[t]
      BY <2>1, <2>2 DEF NextIsNew
    <2>4. ASSUME NEW o \in Occs, Took(t, o)' PROVE o < nextRun[t]
      <3>1. CASE o = NoOccurrence
        BY <1>0, <3>1 DEF NoOccurrence
      <3>2. CASE CatchUpNext /\ o = Head(catchup).due
        <4>1. o = catchup[1].due /\ 1 \in DOMAIN catchup
          BY <3>2, HeadIs DEF CatchUpNext
        <4>2. o <= upAt
          BY <4>1 DEF QueueIsNew
        <4> QED
          BY <1>0, <2>3, <4>2
      <3> QED
        BY <1>4, <2>3, <2>4, <3>1, <3>2, NewlyTaken
    <2> QED
      BY <2>1, <2>2, <2>3, <2>4
  <1> QED
    BY <1>2, <1>3, <1>4

(* No step starts a run before its occurrence.                              *)
LEMMA StartsAfterStep ==
    ASSUME TypeOK, Past, StartsAfter, [Next]_vars
    PROVE  StartsAfter'
  <1>1. ASSUME NEW new, Starting(new) PROVE StartsAfter'
    <2>1. \A g \in InFlight' : (g \in InFlight /\ runs'[g] = runs[g]) \/ runs'[g].pc = "begin"
      BY <1>1, Started
    <2> QED
      BY <2>1 DEF StartsAfter, Marked
  <1>2. ASSUME NEW g \in Slots, Works(g) PROVE StartsAfter'
    <2>1. \A h \in InFlight' \ {g} : h \in InFlight /\ runs'[h] = runs[h]
      BY <1>2, GoroutineSteps DEF Only, InFlight
    <2>2. g \in InFlight' /\ runs'[g].pc \in Marked => runs'[g].occ <= runs'[g].start
      <3>1. CASE AcquireTaskLock(g)
        <4>1. runs'[g].start = clock /\ runs'[g].occ = runs[g].occ /\ g \in InFlight
          BY <3>1, AcquireMoves DEF Moves, AcquireTaskLock, InFlight
        <4>2. runs[g].task \in Tasks /\ runs[g].occ \in Occs
          BY <4>1, RunState DEF InFlight
        <4>3. PICK t \in Tasks, o \in Occs : t = runs[g].task /\ o = runs[g].occ
          BY <4>2
        <4>4. Took(t, o)
          BY <4>1, <4>3, TakenAre
        <4> QED
          BY <4>1, <4>3, <4>4 DEF Past
      <3>2. CASE CheckEnabled(g)
        <4>1. runs[g].pc # "idle" /\ (Step(g, "acquire") \/ Done(g)) /\ "acquire" \in PCs
          BY <3>2 DEF CheckEnabled, PCs
        <4>2. runs'[g].pc = "acquire" \/ runs'[g].pc = "idle"
          BY <4>1, StepMoves, DoneMoves DEF Moves
        <4> QED
          BY <4>2 DEF Marked
      <3>3. CASE LockRefused(g) \/ RecordTaskRun(g)
        BY <3>3, DoneMoves DEF LockRefused, RecordTaskRun, Marked
      <3>4. CASE PersistTaskState(g)
        <4>1. runs[g].pc = "persist" /\ Step(g, "record") /\ "record" \in PCs
          BY <3>4 DEF PersistTaskState, PCs
        <4>2. runs'[g].start = runs[g].start /\ runs'[g].occ = runs[g].occ
          BY <4>1, StepMoves DEF Moves
        <4> QED
          BY <4>1, <4>2 DEF StartsAfter, Marked, InFlight
      <3>5. ASSUME NEW status \in {"success", "failed"}, RunTaskFn(g, status)
            PROVE  runs'[g].occ <= runs'[g].start
        <4>1. /\ runs'[g].start = runs[g].start /\ runs'[g].occ = runs[g].occ
              /\ runs[g].pc = "running"
          BY <3>5, ReturnMoves DEF Moves, RunTaskFn
        <4> QED
          BY <4>1 DEF StartsAfter, Marked, InFlight
      <3> QED
        BY <1>2, <3>1, <3>2, <3>3, <3>4, <3>5 DEF Works, Execute
    <2> QED
      BY <2>1, <2>2 DEF StartsAfter
  <1>3. CASE /\ ~RunDueTasks /\ ~CatchUpNext /\ \A u \in Tasks : ~TriggerTask(u)
             /\ \A g \in Slots : ~Works(g)
    <2>1. runs' = runs \/ InFlight' = {}
      BY <1>3, NoGoroutine
    <2> QED
      BY <2>1 DEF StartsAfter, InFlight
  <1> QED
    BY <1>1, <1>2, <1>3, StartingSteps

(* No step records an occurrence that the history does not cover.           *)
LEMMA InHistoryStep ==
    ASSUME TypeOK, StartsAfter, InHistory, [Next]_vars
    PROVE  InHistory'
  <1>1. ASSUME NEW g \in Slots, RecordTaskRun(g) PROVE InHistory'
    <2>1. g \in InFlight /\ runs[g].pc = "record"
      BY <1>1 DEF RecordTaskRun, InFlight
    <2>2. PICK u \in Tasks, w \in Occs, s \in Nat :
             u = runs[g].task /\ w = runs[g].occ /\ s = runs[g].start
      BY <2>1, RunState DEF InFlight
    <2>3. w <= s
      BY <2>1, <2>2 DEF StartsAfter, Marked
    <2>7. CASE UNCHANGED <<history, recorded>>
      BY <2>7 DEF InHistory
    <2> SUFFICES ASSUME ~UNCHANGED <<history, recorded>> PROVE InHistory'
      BY <2>7
    <2>4. /\ history' = [history EXCEPT ![u] = IF s > @ THEN s ELSE @]
          /\ recorded' = recorded \cup ({<<u, w>>} \ {<<u, NoOccurrence>>})
      BY <1>1, <2>2 DEF RecordTaskRun
    <2>5. history \in [Tasks -> Int]
      BY DEF TypeOK, ProcessTypes, NeverRun
    <2>6. ASSUME NEW t \in Tasks, NEW o \in Nat, <<t, o>> \in recorded' PROVE o <= history'[t]
      <3>0. PICK x \in Int : x = history[t]
        BY <2>5
      <3>1. history'[t] = IF t = u /\ s > x THEN s ELSE x
        BY <2>4, <2>5, <3>0
      <3>2. CASE <<t, o>> \in recorded
        <4>1. o <= x
          BY <3>0, <3>2 DEF InHistory
        <4> QED
          BY <3>1, <4>1
      <3>3. CASE t = u /\ o = w
        BY <2>3, <3>1, <3>3
      <3> QED
        BY <2>4, <2>6, <3>2, <3>3
    <2> QED
      BY <2>6 DEF InHistory
  <1>2. ASSUME NEW new, Starting(new), history' = history PROVE InHistory'
    <2>1. recorded' = recorded
      BY <1>2, DispatchNotes DEF Starting
    <2> QED
      BY <1>2, <2>1 DEF InHistory
  <1>3. RunDueTasks \/ CatchUpNext \/ (\E u \in Tasks : TriggerTask(u)) => history' = history
    BY DEF RunDueTasks, CatchUpNext, TriggerTask, stored
  <1>4. CASE /\ ~RunDueTasks /\ ~CatchUpNext /\ \A u \in Tasks : ~TriggerTask(u)
             /\ \A g \in Slots : ~RecordTaskRun(g)
    <2>1. recorded' = recorded /\ history' = history
      BY <1>4 DEF Next, Execute, CheckEnabled, AcquireTaskLock, LockRefused, PersistTaskState,
                  RunTaskFn, Tick, StartScheduler, StopScheduler, LoopExits, Drained,
                  DrainTimesOut, MarkTasksInterrupted, MarkInterrupted, MarkingDone, Exit,
                  Restart, SetEnabled, vars, notes, counts, stored
    <2> QED
      BY <2>1 DEF InHistory
  <1> QED
    BY <1>1, <1>2, <1>3, <1>4, StartingSteps

(* No step takes an occurrence before StartScheduler.                       *)
LEMMA NotYetStep ==
    ASSUME TypeOK, NotYet, [Next]_vars
    PROVE  NotYet'
  <1> SUFFICES ASSUME phase' \in {"registered", "down"}
               PROVE  catchup' = <<>> /\ \A g \in InFlight' : runs'[g].occ = NoOccurrence
    BY DEF NotYet
  <1>1. CASE Exit
    BY <1>1 DEF Exit, InFlight, Idle
  <1>2. CASE ~Exit
    <2>1. phase \in {"registered", "down"}
      BY <1>2 DEF Next, Tick, RunDueTasks, TriggerTask, SetEnabled, Execute, CheckEnabled,
            AcquireTaskLock, LockRefused, PersistTaskState, RecordTaskRun, RunTaskFn,
            StartScheduler, CatchUpNext, StopScheduler, LoopExits, Drained, DrainTimesOut,
            MarkTasksInterrupted, MarkInterrupted, MarkingDone,
            Restart, vars
    <2>2. catchup = <<>> /\ \A g \in InFlight : runs[g].occ = NoOccurrence
      BY <2>1 DEF NotYet
    <2>3. ~RunDueTasks /\ ~CatchUpNext /\ ~StartScheduler
      BY <2>1, <2>2 DEF RunDueTasks, CatchUpNext, StartScheduler
    <2>4. catchup' = catchup
      BY <1>2, <2>3 DEF Next, Tick, TriggerTask, SetEnabled, Execute, CheckEnabled,
            AcquireTaskLock, LockRefused, PersistTaskState, RecordTaskRun, RunTaskFn,
            StopScheduler, LoopExits, Drained, DrainTimesOut, MarkTasksInterrupted,
            MarkInterrupted, MarkingDone, Restart, vars
    <2>5. ASSUME NEW u \in Tasks, TriggerTask(u), NEW g \in InFlight'
          PROVE  runs'[g].occ = NoOccurrence
      <3>1. PICK r \in RunStates : r = Run(u, "trigger", NoOccurrence) /\ r.occ = NoOccurrence
        BY TriggerIs
      <3>2. Starting({r})
        BY <2>5, <3>1, StartingSteps
      <3>3. (g \in InFlight /\ runs'[g] = runs[g]) \/ runs'[g] \in {r}
        BY <3>2, Started
      <3> QED
        BY <2>2, <3>1, <3>3
    <2>6. ASSUME NEW h \in Slots, Works(h), NEW g \in InFlight'
          PROVE  runs'[g].occ = NoOccurrence
      BY <2>2, <2>6, GoroutineSteps DEF Only, InFlight
    <2>7. CASE (\A u \in Tasks : ~TriggerTask(u)) /\ \A g \in Slots : ~Works(g)
      <3>1. runs' = runs \/ InFlight' = {}
        BY <2>3, <2>7, NoGoroutine
      <3> QED
        BY <2>2, <2>4, <3>1 DEF InFlight
    <2> QED
      BY <2>2, <2>4, <2>5, <2>6, <2>7
  <1> QED
    BY <1>1, <1>2

(* No step queues an occurrence already taken, nor takes one that is        *)
(* queued.                                                                  *)
LEMMA QueueIsNewStep ==
    ASSUME TypeOK, Timely, [Next]_vars, "lateStart" \notin incidents'
    PROVE  QueueIsNew'
  <1> USE DEF Timely
  <1>1. CASE StartScheduler
    <2>1. clock <= upAt /\ upAt' = upAt /\ clock \in Nat /\ upAt \in Nat
      BY <1>1 DEF StartScheduler, TypeOK, ProcessTypes, NoteTypes
    <2>2. /\ catchup' \in Seq(Entries)
          /\ \A i \in DOMAIN catchup' : /\ catchup'[i].due <= clock
                                        /\ history[catchup'[i].task] < catchup'[i].due
          /\ \A i, j \in DOMAIN catchup' : catchup'[i].task = catchup'[j].task => i = j
      BY <1>1, CatchUpQueue
    <2>3. ASSUME NEW i \in DOMAIN catchup'
          PROVE  /\ catchup'[i].due <= upAt'
                 /\ \A t \in Tasks, o \in Occs :
                       catchup'[i].task = t /\ catchup'[i].due = o => ~Took(t, o)'
      <3>0. catchup'[i] \in Entries
        BY <2>2
      <3>1. catchup'[i].due \in Nat
        BY <3>0 DEF Entries
      <3> SUFFICES ASSUME NEW t \in Tasks, NEW o \in Nat,
                          t = catchup'[i].task, o = catchup'[i].due
                   PROVE  ~Took(t, o)'
        BY <2>1, <2>2, <3>1
      <3>3. o <= clock /\ history[t] < o /\ history[t] \in Int
        BY <2>2 DEF TypeOK, ProcessTypes, NeverRun
      <3>4. <<t, o>> \notin recorded
        BY <3>3 DEF InHistory
      <3>5. \A g \in InFlight : runs[g].occ # o
        BY <1>1 DEF NotYet, StartScheduler, NoOccurrence
      <3>6. ~Took(t, o)
        BY <3>4, <3>5, TakenAre DEF Occs
      <3>7. Took(t, o)' => Took(t, o)
        BY <1>1 DEF StartScheduler, Took, Occurrences, InFlight
      <3> QED
        BY <3>6, <3>7
    <2> QED
      BY <2>2, <2>3 DEF QueueIsNew
  <1>2. CASE Exit
    BY <1>2 DEF Exit, QueueIsNew
  <1>3. CASE Restart
    BY <1>3 DEF Restart, NotYet, QueueIsNew
  <1>4. CASE CatchUpNext
    <2>0. upAt' = upAt
      BY <1>4, Clocks DEF CatchUpNext, Restart
    <2>1. /\ catchup' = Tail(catchup) /\ 1 \in DOMAIN catchup /\ Head(catchup) = catchup[1]
          /\ \A i \in DOMAIN Tail(catchup) : /\ i + 1 \in DOMAIN catchup
                                             /\ Tail(catchup)[i] = catchup[i + 1]
      BY <1>4, HeadIs DEF CatchUpNext
    <2>2. catchup' \in Seq(Entries) /\ catchup \in Seq(Entries)
      BY <2>1, HeadIs, <1>4 DEF CatchUpNext, TypeOK, ProcessTypes, Entries
    <2>3. \A i \in DOMAIN catchup' : /\ i \in Nat /\ i >= 1 /\ i + 1 \in DOMAIN catchup
                                     /\ catchup'[i] = catchup[i + 1]
      BY <2>1, <2>2
    <2>4. ASSUME NEW i \in DOMAIN catchup', NEW t \in Tasks \ Every, NEW o \in Occs,
                 catchup'[i].task = t, catchup'[i].due = o
          PROVE  ~Took(t, o)'
      <3>2. ~Took(t, o)
        BY <2>3, <2>4 DEF QueueIsNew
      <3>3. t # Head(catchup).task
        BY <2>1, <2>3, <2>4 DEF QueueIsNew
      <3>1. catchup'[i] \in Entries
        BY <2>2
      <3>4. o # NoOccurrence
        BY <2>4, <3>1 DEF Entries, NoOccurrence
      <3>5. ~RunDueTasks
        BY <2>1, <2>2, <1>4 DEF RunDueTasks, CatchUpNext
      <3> QED
        BY <3>2, <3>3, <3>4, <3>5, NewlyTaken
    <2>5. \A i \in DOMAIN catchup' : catchup'[i].due <= upAt'
      BY <2>0, <2>3 DEF QueueIsNew
    <2>6. \A i, j \in DOMAIN catchup' : catchup'[i].task = catchup'[j].task => i = j
      BY <2>3 DEF QueueIsNew
    <2> QED
      BY <2>4, <2>5, <2>6 DEF QueueIsNew
  <1>5. CASE ~StartScheduler /\ ~Exit /\ ~Restart /\ ~CatchUpNext
    <2>1. catchup' = catchup /\ upAt' = upAt
      <3>1. catchup' = catchup
        BY <1>5 DEF Next, Tick, RunDueTasks, TriggerTask, SetEnabled, Execute, CheckEnabled,
              AcquireTaskLock, LockRefused, PersistTaskState, RecordTaskRun, RunTaskFn,
              StopScheduler, LoopExits, Drained, DrainTimesOut, MarkTasksInterrupted,
              MarkInterrupted, MarkingDone, vars
      <3> QED
        BY <1>5, <3>1, Clocks
    <2>2. ASSUME NEW i \in DOMAIN catchup, NEW t \in Tasks \ Every, NEW o \in Occs,
                 catchup[i].task = t, catchup[i].due = o
          PROVE  ~Took(t, o)'
      <3>2. ~Took(t, o) /\ o <= upAt
        BY <2>2 DEF QueueIsNew
      <3>3. o # NoOccurrence /\ o \in Nat
        <4>1. catchup \in Seq(Entries)
          BY DEF TypeOK, ProcessTypes, Entries
        <4>2. catchup[i] \in Entries
          BY <4>1
        <4> QED
          BY <2>2, <4>2 DEF Entries, NoOccurrence
      <3>4. ~(RunDueTasks /\ t \notin retryDue /\ o = nextRun[t])
        <4> SUFFICES ASSUME RunDueTasks, t \notin retryDue, o = nextRun[t] PROVE FALSE
          OBVIOUS
        <4>1. nextRun[t] > upAt /\ upAt \in Nat
          BY DEF NextIsNew, RunDueTasks, TypeOK, NoteTypes
        <4> QED
          BY <3>2, <3>3, <4>1
      <3> QED
        BY <1>5, <3>2, <3>3, <3>4, NewlyTaken
    <2> QED
      BY <2>1, <2>2 DEF QueueIsNew
  <1> QED
    BY <1>1, <1>2, <1>3, <1>4, <1>5

(* What the steps that start no goroutine note.                             *)
LEMMA OtherIncidents ==
    ASSUME [Next]_vars, ~RunDueTasks, ~CatchUpNext, \A t \in Tasks : ~TriggerTask(t)
    PROVE  /\ "twice" \in incidents' => "twice" \in incidents
           /\ "lateStart" \in incidents => "lateStart" \in incidents'
  <1>1. CASE StartScheduler \/ Drained \/ Exit
    BY <1>1 DEF StartScheduler, Drained, Exit
  <1>2. CASE ~StartScheduler /\ ~Drained /\ ~Exit
    <2>1. incidents' = incidents
      BY <1>2 DEF Next, Execute, CheckEnabled, AcquireTaskLock, LockRefused, PersistTaskState,
                  RecordTaskRun, RunTaskFn, Tick, StopScheduler, LoopExits, DrainTimesOut,
                  MarkTasksInterrupted, MarkInterrupted, MarkingDone,
                  Restart, SetEnabled, vars, notes, counts
    <2> QED
      BY <2>1
  <1> QED
    BY <1>1, <1>2

(* Neither the ticker nor the catch-up takes an occurrence again.           *)
LEMMA NotAgain ==
    ASSUME TypeOK, Timely, [Next]_vars, "twice" \notin incidents
    PROVE  "twice" \notin incidents'
  <1> USE DEF Timely
  <1>1. ASSUME NEW new, Starting(new), \A r \in new : ~Again(r) PROVE "twice" \notin incidents'
    BY <1>1, DispatchNotes DEF Starting
  <1>2. CASE RunDueTasks
    <2>1. ASSUME NEW r \in Ticks, Again(r) PROVE FALSE
      <3>1. PICK t \in Tasks, o \in Occs : t = r.task /\ o = r.occ
        BY TicksAre DEF RunStates, Occs
      <3>2. t \notin Every /\ o # NoOccurrence /\ Took(t, o)
        BY <2>1, <3>1 DEF Again, Took
      <3>3. o = TickOcc(t)
        BY <3>1, TicksAre
      <3>4. t \notin retryDue /\ o = nextRun[t]
        BY <3>2, <3>3 DEF TickOcc
      <3>5. o < nextRun[t] /\ nextRun[t] \in Nat
        BY <1>2, <3>2, <3>4 DEF NextIsNew, RunDueTasks, TypeOK, ProcessTypes
      <3> QED
        BY <3>4, <3>5
    <2> QED
      BY <1>1, <1>2, <2>1, StartingSteps
  <1>3. ASSUME NEW t \in Tasks, TriggerTask(t) PROVE "twice" \notin incidents'
    <2>1. PICK r \in RunStates : r = Run(t, "trigger", NoOccurrence) /\ r.occ = NoOccurrence
      BY TriggerIs
    <2>2. Starting({r}) /\ ~Again(r)
      BY <1>3, <2>1, StartingSteps DEF Again
    <2> QED
      BY <1>1, <2>2
  <1>4. CASE CatchUpNext
    <2>1. PICK r \in RunStates : /\ r = Run(Head(catchup).task, "catchup", Head(catchup).due)
                                 /\ r.task = Head(catchup).task /\ r.occ = Head(catchup).due
      BY <1>4, MissedIs DEF CatchUpNext
    <2>2. Head(catchup) = catchup[1] /\ 1 \in DOMAIN catchup
      BY <1>4, HeadIs DEF CatchUpNext
    <2>3. ~Again(r)
      <3>1. PICK t \in Tasks, o \in Occs : t = r.task /\ o = r.occ
        BY DEF RunStates, Occs
      <3>2. t \notin Every => ~Took(t, o)
        BY <2>1, <2>2, <3>1 DEF QueueIsNew
      <3> QED
        BY <3>1, <3>2 DEF Again, Took
    <2>4. Starting({r})
      BY <1>4, <2>1, StartingSteps
    <2> QED
      BY <1>1, <2>3, <2>4
  <1>5. CASE ~RunDueTasks /\ ~CatchUpNext /\ \A t \in Tasks : ~TriggerTask(t)
    BY <1>5, OtherIncidents
  <1> QED
    BY <1>2, <1>3, <1>4, <1>5

(* A late StartScheduler is never forgotten.                                *)
LEMMA LateIsNoted ==
    ASSUME TypeOK, [Next]_vars, "lateStart" \notin incidents'
    PROVE  "lateStart" \notin incidents
  <1>1. ASSUME NEW new, Starting(new) PROVE incidents \subseteq incidents'
    BY <1>1, DispatchNotes DEF Starting
  <1>2. CASE ~RunDueTasks /\ ~CatchUpNext /\ \A t \in Tasks : ~TriggerTask(t)
    BY <1>2, OtherIncidents
  <1> QED
    BY <1>1, <1>2, StartingSteps

(* No step breaks any of these.                                             *)
LEMMA PunctualStep == TypeOK /\ Punctual /\ [Next]_vars => Punctual'
  <1> SUFFICES ASSUME TypeOK, Punctual, [Next]_vars, "lateStart" \notin incidents'
               PROVE  Timely' /\ "twice" \notin incidents'
    BY DEF Punctual
  <1>1. Timely /\ "twice" \notin incidents
    BY LateIsNoted DEF Punctual
  <1>2. Past' /\ NextIsNew' /\ StartsAfter'
    BY <1>1, PastStep, NextIsNewStep, StartsAfterStep DEF Timely
  <1>3. InHistory' /\ NotYet' /\ QueueIsNew'
    BY <1>1, InHistoryStep, NotYetStep, QueueIsNewStep DEF Timely
  <1> QED
    BY <1>1, <1>2, <1>3, NotAgain DEF Timely

(* No occurrence of a cron schedule is executed again once its run is in    *)
(* the history, nor while it is in flight, across crashes, restarts,        *)
(* retries and catch-up, if StartScheduler follows registration at once.    *)
THEOREM OccurrencesRunOnce == Spec => []OccurrenceOnce
  <1>1. Init => Punctual
    <2> SUFFICES ASSUME Init PROVE Timely /\ "twice" \notin incidents
      BY DEF Punctual
    <2>1. InFlight = {} /\ Occurrences = {} /\ recorded = {} /\ catchup = <<>>
      BY DEF Init, InFlight, Idle, Occurrences
    <2>2. \A t \in Tasks : nextRun[t] > 0
      BY NextIsLater DEF Init, FirstRuns
    <2>3. Past /\ NextIsNew
      BY <2>1, <2>2 DEF Init, Past, NextIsNew, Took
    <2>4. StartsAfter /\ InHistory /\ NotYet /\ QueueIsNew
      BY <2>1 DEF StartsAfter, InHistory, NotYet, QueueIsNew
    <2> QED
      BY <2>3, <2>4 DEF Init, Timely
  <1>2. Punctual => OccurrenceOnce
    BY DEF Punctual, OccurrenceOnce
  <1> QED
    BY <1>1, <1>2, PunctualStep, SchedulerTypeCorrect, PTL DEF Spec
=============================================================================
