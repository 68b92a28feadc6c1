----------------------------- MODULE Scheduler -----------------------------
(***************************************************************************)
(* One node's task scheduler (scheduler/scheduler.go, task_history.go): the *)
(* ticker loop, the goroutines it starts, the retry policy, start-up        *)
(* catch-up, shutdown with its drain, and the rows that survive a restart.  *)
(*                                                                          *)
(* A run is a goroutine inside executeTask.  It is dispatched by the ticker *)
(* ("tick"), by runMissedTasks ("catchup") or by TriggerTask ("trigger").   *)
(* The cluster lock is TaskLock's subject; here acquireTaskLock simply      *)
(* succeeds or, for a global task, may fail.                                *)
(***************************************************************************)
EXTENDS Integers, Sequences, FiniteSets, SequencesExt, Functions

CONSTANTS
    Tasks,
    Global,         \* the tasks for which acquireTaskLock may fail
    Every,          \* the tasks with an "@every" schedule; the others are cron
    Period,         \* Period[t]: interval, or distance between cron occurrences
    retryDelays,    \* delays before the first, second, ... retry
    catchUpWindow,  \* how far back start-up looks for missed occurrences
    maxCatchUpScan, \* bound of the walk in latestOccurrenceBefore
    DrainTimeout,   \* how long StopScheduler waits for in-flight runs
    MaxRuns,        \* bound: goroutines inside executeTask at once
    MaxClock,       \* bound: the clock stops here, except for a drain in progress
    MaxTriggers,    \* bound: calls of TriggerTask
    MaxToggles,     \* bound: calls of EnableTask and DisableTask
    MaxExits,       \* bound: how often the process ends
    MaxFaults       \* bound: statements on the scheduler's tables that fail

ASSUME SchedulerAssumption ==
    /\ IsFiniteSet(Tasks) /\ Global \subseteq Tasks /\ Every \subseteq Tasks
    /\ Period \in [Tasks -> Nat \ {0}]
    /\ retryDelays \in Seq(Nat \ {0})
    /\ {catchUpWindow, maxCatchUpScan, DrainTimeout, MaxRuns, MaxClock} \subseteq Nat
    /\ {MaxTriggers, MaxToggles, MaxExits, MaxFaults} \subseteq Nat

VARIABLES
    clock,
    phase,       \* of the process: registered, running, stopping, draining, marking,
                 \* stopped, down
    enabled,     \* the tasks whose task.enabled is set
    nextRun,     \* task.nextRun
    retryCount,  \* task.retryCount
    runs,        \* the goroutines inside executeTask
    active,      \* s.active: names of tasks executing
    catchup,     \* what the catch-up goroutine still has to run
    drainFrom,   \* when the drain began
    toMark,      \* the names markTasksInterrupted has not come to yet
    row,         \* server_scheduler_state.last_status
    history,     \* server_scheduler_history: the newest start time recorded
    budget,      \* calls made so far, for the bounds
    (* History variables, used only by properties: *)
    overlapped,  \* tasks of which two runs were in flight at once
    crossed,     \* tasks whose catch-up run came between a failure and its last retry
    retryDue,    \* tasks whose nextRun is the time of a retry
    retries,     \* retries since the last occurrence
    upAt,        \* when the tasks were registered
    recorded,    \* occurrences whose run is in the history
    incidents,   \* twice, lateStart, drained: see the properties
    interrupted  \* tasks a shutdown gave up waiting for: see InterruptedMarked

task   == <<enabled, nextRun, retryCount>>
drain  == <<drainFrom, toMark>>
stored == <<row, history>>
counts == <<overlapped, crossed, retryDue, retries, upAt, recorded, incidents>>
notes  == <<counts, interrupted>>

vars == <<clock, phase, task, runs, active, catchup, drain, stored, budget, notes>>

Slots == 1..MaxRuns
Kinds == {"tick", "catchup", "trigger"}
NeverRun == -1       \* no row in server_scheduler_history
NoOccurrence == -1   \* a retry or a manual run: not an occurrence of the schedule

Idle == [pc |-> "idle"]
Run(t, kind, occ) == [pc |-> "begin", task |-> t, kind |-> kind, occ |-> occ,
                      start |-> 0, status |-> "none"]
InFlight == {g \in Slots : runs[g].pc # "idle"}
FreeSlots == Slots \ InFlight
RunsOf(t) == {g \in InFlight : runs[g].task = t}
Executing(t) == \E g \in RunsOf(t) : runs[g].pc \in {"running", "persist", "record"}

PCs == {"begin", "acquire", "running", "persist", "record"}
Statuses == {"none", "success", "failed"}
RunStates == [pc : PCs, task : Tasks, kind : Kinds, occ : Nat \cup {NoOccurrence},
              start : Nat, status : Statuses]

Budgets == [triggers : Nat, toggles : Nat, exits : Nat, faults : Nat]

ProcessTypes ==
    /\ clock \in Nat /\ drainFrom \in Nat
    /\ phase \in {"registered", "running", "stopping", "draining", "marking",
                 "stopped", "down"}
    /\ enabled \subseteq Tasks /\ active \subseteq Tasks /\ toMark \subseteq Tasks
    /\ nextRun \in [Tasks -> Nat]
    /\ retryCount \in [Tasks -> 0..Len(retryDelays)]
    /\ catchup \in Seq([task : Tasks, due : Nat])
    /\ row \in [Tasks -> Statuses \cup {"interrupted"}]
    /\ history \in [Tasks -> Nat \cup {NeverRun}]
    /\ budget \in Budgets
NoteTypes ==
    /\ overlapped \subseteq Tasks /\ crossed \subseteq Tasks /\ retryDue \subseteq Tasks
    /\ retries \in [Tasks -> Nat] /\ upAt \in Nat
    /\ recorded \subseteq Tasks \X Nat
    /\ incidents \subseteq {"twice", "lateStart", "drained"}
    /\ interrupted \subseteq Tasks

TypeOK ==
    /\ runs \in [Slots -> {Idle} \cup RunStates]
    /\ ProcessTypes
    /\ NoteTypes

-----------------------------------------------------------------------------
(* Schedule.Next: an interval counts from the reference time, a cron        *)
(* expression fires at fixed instants, strictly after it.                   *)
NextAfter(t, now) ==
    IF t \in Every THEN now + Period[t] ELSE (now \div Period[t] + 1) * Period[t]

(* latestOccurrenceBefore: step forward from the far edge of the window.    *)
LatestOccurrenceBefore(t, now) ==
    LET cursor[i \in 0..maxCatchUpScan] ==
            IF i = 0 THEN now - catchUpWindow
            ELSE LET next == NextAfter(t, cursor[i - 1])
                 IN  IF next > now THEN cursor[i - 1] ELSE next
    IN  cursor[maxCatchUpScan]

HasOccurrence(t, now) == LatestOccurrenceBefore(t, now) # now - catchUpWindow

(* AddTask computes the first run when the task is registered; enabled,     *)
(* nextRun and retryCount live in memory only.                              *)
FirstRuns(now) == [t \in Tasks |-> NextAfter(t, now)]

Init ==
    /\ clock = 0
    /\ phase = "registered"
    /\ enabled = Tasks
    /\ nextRun = FirstRuns(0)
    /\ retryCount = [t \in Tasks |-> 0]
    /\ runs = [g \in Slots |-> Idle]
    /\ active = {}
    /\ catchup = <<>>
    /\ drainFrom = 0 /\ toMark = {}
    /\ row = [t \in Tasks |-> "none"]
    /\ history = [t \in Tasks |-> NeverRun]
    /\ budget = [triggers |-> 0, toggles |-> 0, exits |-> 0, faults |-> 0]
    /\ overlapped = {} /\ crossed = {} /\ retryDue = {}
    /\ retries = [t \in Tasks |-> 0]
    /\ upAt = 0 /\ recorded = {} /\ incidents = {} /\ interrupted = {}

Tick ==
    /\ clock < MaxClock \/ (phase = "draining" /\ clock < drainFrom + DrainTimeout)
    /\ clock' = clock + 1
    /\ UNCHANGED <<phase, task, runs, active, catchup, drain, stored, budget, notes>>

-----------------------------------------------------------------------------
(* Start a goroutine for each run of a set, in free slots, and note what    *)
(* the properties want to know about it.                                    *)
Occurrences == {<<runs[g].task, runs[g].occ>> : g \in InFlight} \cup recorded

Again(r) == r.task \notin Every /\ r.occ # NoOccurrence /\ <<r.task, r.occ>> \in Occurrences
Retrying(t) == t \in retryDue \/ retries[t] > 0

TasksOf(new, kind) == {r.task : r \in {q \in new : q.kind = kind}}

Dispatch(new) ==
    LET slot == CHOOSE s \in Injection(new, FreeSlots) : TRUE
        ticked == TasksOf(new, "tick")
    IN  /\ Injection(new, FreeSlots) # {}          \* a slot for each goroutine
        /\ runs' = [g \in Slots |-> IF \E r \in new : slot[r] = g
                                    THEN CHOOSE r \in new : slot[r] = g
                                    ELSE runs[g]]
        /\ overlapped' = overlapped \cup {r.task : r \in {q \in new : RunsOf(q.task) # {}}}
        /\ crossed' = crossed \cup {t \in TasksOf(new, "catchup") : Retrying(t)}
        /\ retryDue' = retryDue \ ticked
        /\ retries' = [t \in Tasks |-> IF t \notin ticked THEN retries[t]
                                       ELSE IF t \in retryDue THEN retries[t] + 1 ELSE 0]
        /\ incidents' = incidents \cup {x \in {"twice"} : \E r \in new : Again(r)}
        /\ UNCHANGED <<upAt, recorded, interrupted>>

(* runDueTasks: every enabled task whose nextRun has passed is moved to its *)
(* next occurrence and gets a goroutine counted in inFlight.                *)
Due == {t \in enabled : clock >= nextRun[t]}

RunDueTasks ==
    /\ phase \in {"running", "stopping"}   \* select may still pick the ticker
    /\ Due # {}
    /\ nextRun' = [t \in Tasks |-> IF t \in Due THEN NextAfter(t, clock) ELSE nextRun[t]]
    /\ Dispatch({Run(t, "tick", IF t \in retryDue THEN NoOccurrence ELSE nextRun[t]) : t \in Due})
    /\ UNCHANGED <<clock, phase, enabled, retryCount, active, catchup, drain,
                   stored, budget>>

(* TriggerTask: a goroutine that inFlight does not count.                   *)
TriggerTask(t) ==
    /\ phase # "down"
    /\ budget.triggers < MaxTriggers
    /\ budget' = [budget EXCEPT !.triggers = @ + 1]
    /\ Dispatch({Run(t, "trigger", NoOccurrence)})
    /\ UNCHANGED <<clock, phase, task, active, catchup, drain, stored>>

(* EnableTask, DisableTask.                                                 *)
SetEnabled(t, on) ==
    /\ phase # "down"
    /\ budget.toggles < MaxToggles
    /\ budget' = [budget EXCEPT !.toggles = @ + 1]
    /\ enabled' = IF on THEN enabled \cup {t} ELSE enabled \ {t}
    /\ UNCHANGED <<clock, phase, nextRun, retryCount, runs, active, catchup, drain,
                   stored, notes>>

-----------------------------------------------------------------------------
(* executeTask.  A finished run returns its slot.                           *)
Step(g, pc) == runs' = [runs EXCEPT ![g] = [@ EXCEPT !.pc = pc]]
Done(g) == runs' = [runs EXCEPT ![g] = Idle]

(* A statement that fails.                                                  *)
Fault ==
    /\ budget.faults < MaxFaults
    /\ budget' = [budget EXCEPT !.faults = @ + 1]

CheckEnabled(g) ==
    /\ runs[g].pc = "begin"
    /\ IF runs[g].task \in enabled THEN Step(g, "acquire") ELSE Done(g)
    /\ UNCHANGED <<clock, phase, task, active, catchup, drain, stored, budget, notes>>

AcquireWithoutMark(g) ==   \* mutant: no markActive(name, true)
    /\ runs[g].pc = "acquire"
    /\ runs' = [runs EXCEPT ![g] = [@ EXCEPT !.pc = "running", !.start = clock]]
    /\ UNCHANGED <<clock, phase, task, active, catchup, drain, stored, budget, notes>>

(* acquireTaskLock succeeded: markActive, and the task function starts.     *)
AcquireTaskLock(g) ==
    /\ runs[g].pc = "acquire"
    /\ runs' = [runs EXCEPT ![g] = [@ EXCEPT !.pc = "running", !.start = clock]]
    /\ active' = active \cup {runs[g].task}
    /\ UNCHANGED <<clock, phase, task, catchup, drain, stored, budget, notes>>

LockRefused(g) ==
    /\ runs[g].pc = "acquire"
    /\ runs[g].task \in Global
    /\ Done(g)
    /\ UNCHANGED <<clock, phase, task, active, catchup, drain, stored, budget, notes>>

RetryForever(t, status) ==   \* mutant: the last delay is used again and again
    LET n == IF retryCount[t] < Len(retryDelays) THEN retryCount[t] + 1 ELSE Len(retryDelays)
        retryAt == clock + retryDelays[n]
    IN  IF status = "success"
        THEN retryCount' = [retryCount EXCEPT ![t] = 0] /\ UNCHANGED <<nextRun, retryDue>>
        ELSE /\ retryCount' = [retryCount EXCEPT ![t] = @ + 1]
             /\ nextRun' = [nextRun EXCEPT ![t] = IF retryAt < @ THEN retryAt ELSE @]
             /\ retryDue' = IF retryAt < nextRun[t] THEN retryDue \cup {t} ELSE retryDue

RetryPostpones(t, status) ==   \* mutant: the retry replaces an earlier scheduled run
    LET exhausted == retryCount[t] >= Len(retryDelays)
    IN  IF status = "success" \/ exhausted
        THEN retryCount' = [retryCount EXCEPT ![t] = 0] /\ UNCHANGED <<nextRun, retryDue>>
        ELSE /\ retryCount' = [retryCount EXCEPT ![t] = @ + 1]
             /\ nextRun' = [nextRun EXCEPT ![t] = clock + retryDelays[retryCount[t] + 1]]
             /\ retryDue' = retryDue \cup {t}

(* applyRetryPolicy: never later than the schedule itself would run it.     *)
ApplyRetryPolicy(t, status) ==
    LET exhausted == retryCount[t] >= Len(retryDelays)
        retryAt == clock + retryDelays[retryCount[t] + 1]
    IN  IF status = "success" \/ exhausted
        THEN /\ retryCount' = [retryCount EXCEPT ![t] = 0]
             /\ UNCHANGED <<nextRun, retryDue>>
        ELSE /\ retryCount' = [retryCount EXCEPT ![t] = @ + 1]
             /\ IF retryAt < nextRun[t]
                THEN /\ nextRun' = [nextRun EXCEPT ![t] = retryAt]
                     /\ retryDue' = retryDue \cup {t}
                ELSE UNCHANGED <<nextRun, retryDue>>

(* The task function returns (a panic is an error) and the policy applies.  *)
RunTaskFn(g, status) ==
    /\ runs[g].pc = "running"
    /\ runs' = [runs EXCEPT ![g] = [@ EXCEPT !.pc = "persist", !.status = status]]
    /\ ApplyRetryPolicy(runs[g].task, status)
    /\ UNCHANGED <<clock, phase, enabled, active, catchup, drain, stored, budget,
                   overlapped, crossed, retries, upAt, recorded, incidents, interrupted>>

(* persistTaskState: an UPDATE that fails is logged.                        *)
PersistTaskState(g) ==
    /\ runs[g].pc = "persist"
    /\ Step(g, "record")
    /\ \/ /\ row' = [row EXCEPT ![runs[g].task] = runs[g].status]
          /\ interrupted' = interrupted \ {runs[g].task}
          /\ UNCHANGED budget
       \/ Fault /\ UNCHANGED <<row, interrupted>>
    /\ UNCHANGED <<clock, phase, task, active, catchup, drain, history, counts>>

(* RecordTaskRun, whose error executeTask drops, then the deferred          *)
(* markActive(false) and lock release.                                      *)
RecordTaskRun(g) ==
    /\ runs[g].pc = "record"
    /\ Done(g)
    /\ active' = active \ {runs[g].task}
    /\ LET r == runs[g] IN
       \/ /\ history' = [history EXCEPT ![r.task] = IF r.start > @ THEN r.start ELSE @]
          /\ recorded' = recorded \cup ({<<r.task, r.occ>>} \ {<<r.task, NoOccurrence>>})
          /\ UNCHANGED budget
       \/ Fault /\ UNCHANGED <<history, recorded>>
    /\ UNCHANGED <<clock, phase, task, catchup, drain, row,
                   overlapped, crossed, retryDue, retries, upAt, incidents, interrupted>>

-----------------------------------------------------------------------------
MissedOrDone ==   \* mutant: <= for <
    {t \in enabled : /\ catchUpWindow > 0 /\ HasOccurrence(t, clock)
                     /\ history[t] # NeverRun
                     /\ history[t] <= LatestOccurrenceBefore(t, clock)}

(* StartScheduler: runMissedTasks decides what to replay, oldest first, and *)
(* the loop goroutine starts.                                               *)
Missed ==
    {t \in enabled : /\ catchUpWindow > 0 /\ HasOccurrence(t, clock)
                     /\ history[t] # NeverRun
                     /\ history[t] < LatestOccurrenceBefore(t, clock)}

StartScheduler ==
    /\ phase = "registered"
    /\ phase' = "running"
    /\ \E q \in SetToSeqs(Missed) :
          LET due(i) == LatestOccurrenceBefore(q[i], clock)
          IN  /\ \A i, j \in DOMAIN q : i < j => due(i) <= due(j)
              /\ catchup' = [i \in DOMAIN q |-> [task |-> q[i], due |-> due(i)]]
    /\ incidents' = incidents \cup {x \in {"lateStart"} : clock > upAt}
    /\ UNCHANGED <<clock, task, runs, active, drain, stored, budget,
                   overlapped, crossed, retryDue, retries, upAt, recorded, interrupted>>

(* The catch-up goroutine runs its queue one task after the other.          *)
CatchUpNext ==
    /\ catchup # <<>>
    /\ \A g \in InFlight : runs[g].kind # "catchup"
    /\ Dispatch({Run(Head(catchup).task, "catchup", Head(catchup).due)})
    /\ catchup' = Tail(catchup)
    /\ UNCHANGED <<clock, phase, task, active, drain, stored, budget>>

(* StopScheduler: close stopCh, wait for the loop, drain, release.          *)
StopScheduler ==
    /\ phase = "running"
    /\ phase' = "stopping"
    /\ UNCHANGED <<clock, task, runs, active, catchup, drain, stored, budget, notes>>

LoopExits ==
    /\ phase = "stopping"
    /\ phase' = "draining"
    /\ drainFrom' = clock
    /\ UNCHANGED <<clock, task, runs, active, catchup, toMark, stored, budget, notes>>

InFlightZero == catchup = <<>> /\ \A g \in InFlight : runs[g].kind = "trigger"

DrainedOfTicks ==   \* mutant: catch-up runs are not counted in inFlight
    /\ phase = "draining"
    /\ \A g \in InFlight : runs[g].kind # "tick"
    /\ phase' = "stopped"
    /\ incidents' = incidents \cup {"drained"}
    /\ UNCHANGED <<clock, task, runs, active, catchup, drain, stored, budget,
                   overlapped, crossed, retryDue, retries, upAt, recorded, interrupted>>

Drained ==
    /\ phase = "draining"
    /\ InFlightZero
    /\ phase' = "stopped"
    /\ incidents' = incidents \cup {"drained"}
    /\ UNCHANGED <<clock, task, runs, active, catchup, drain, stored, budget,
                   overlapped, crossed, retryDue, retries, upAt, recorded, interrupted>>

WaitWithoutTimeout ==   \* mutant: no timeout branch
    /\ phase = "draining" /\ InFlightZero
    /\ phase' = "stopped"
    /\ UNCHANGED <<clock, task, runs, active, catchup, drain, stored, budget, notes>>

(* The wait times out.  activeTaskNames copies the names in s.active, and   *)
(* from here on the runs go on beside StopScheduler.                        *)
DrainTimesOut ==
    /\ phase = "draining"
    /\ clock >= drainFrom + DrainTimeout
    /\ phase' = "marking"
    /\ toMark' = active
    /\ interrupted' = interrupted \cup {t \in Tasks : Executing(t)}
    /\ UNCHANGED <<clock, task, runs, active, catchup, drainFrom, stored, budget, counts>>

(* markTasksInterrupted: one UPDATE for each name, an error is logged.      *)
MarkInterrupted(t) ==
    /\ phase = "marking" /\ t \in toMark
    /\ toMark' = toMark \ {t}
    /\ \/ row' = [row EXCEPT ![t] = "interrupted"] /\ UNCHANGED <<interrupted, budget>>
       \/ Fault /\ interrupted' = interrupted \ {t} /\ UNCHANGED row
    /\ UNCHANGED <<clock, phase, task, runs, active, catchup, drainFrom, history, counts>>

(* releaseNodeLocks, and StopScheduler returns.                             *)
MarkingDone ==
    /\ phase = "marking" /\ toMark = {}
    /\ phase' = "stopped"
    /\ UNCHANGED <<clock, task, runs, active, catchup, drain, stored, budget, notes>>

MarkTasksInterrupted == MarkingDone \/ \E t \in Tasks : MarkInterrupted(t)

(* The process ends, after StopScheduler or by a crash at any moment.       *)
Exit ==
    /\ phase # "down"
    /\ budget.exits < MaxExits
    /\ budget' = [budget EXCEPT !.exits = @ + 1]
    /\ phase' = "down"
    /\ runs' = [g \in Slots |-> Idle]
    /\ active' = {} /\ catchup' = <<>>
    /\ enabled' = {}
    /\ nextRun' = [t \in Tasks |-> 0]
    /\ retryCount' = [t \in Tasks |-> 0]
    /\ drainFrom' = 0 /\ toMark' = {}
    /\ retryDue' = {} /\ retries' = [t \in Tasks |-> 0]
    /\ incidents' = incidents \ {"drained"}
    /\ interrupted' = interrupted \ toMark
    /\ UNCHANGED <<clock, stored, overlapped, crossed, upAt, recorded>>

(* A new process registers its tasks from scratch.                          *)
Restart ==
    /\ phase = "down"
    /\ phase' = "registered"
    /\ enabled' = Tasks
    /\ nextRun' = FirstRuns(clock)
    /\ retryCount' = [t \in Tasks |-> 0]
    /\ upAt' = clock
    /\ UNCHANGED <<clock, runs, active, catchup, drain, stored, budget,
                   overlapped, crossed, retryDue, retries, recorded, incidents, interrupted>>

Execute(g) ==
    \/ CheckEnabled(g)
    \/ AcquireTaskLock(g)
    \/ LockRefused(g)
    \/ PersistTaskState(g)
    \/ RecordTaskRun(g)

Next ==
    \/ Tick
    \/ RunDueTasks
    \/ \E t \in Tasks : TriggerTask(t)
    \/ \E t \in Tasks, on \in BOOLEAN : SetEnabled(t, on)
    \/ \E g \in Slots : Execute(g)
    \/ \E g \in Slots, status \in {"success", "failed"} : RunTaskFn(g, status)
    \/ StartScheduler
    \/ CatchUpNext
    \/ StopScheduler
    \/ LoopExits
    \/ Drained
    \/ DrainTimesOut
    \/ MarkTasksInterrupted
    \/ Exit
    \/ Restart

Spec == Init /\ [][Next]_vars

(* The loop goroutine, the drain's select and the clock make progress, and  *)
(* the UPDATEs of the shutdown return.  No fairness for RunTaskFn: a task   *)
(* function may never return.                                               *)
FairSpec ==
    /\ Spec
    /\ WF_vars(Tick)
    /\ WF_vars(LoopExits)
    /\ WF_vars(Drained \/ DrainTimesOut)
    /\ WF_vars(MarkTasksInterrupted)

-----------------------------------------------------------------------------
(* Whatever fails, is retried, triggered or toggled, a task is never due    *)
(* later than its own schedule says (applyRetryPolicy: "Never push a run    *)
(* later than its own schedule would have placed it").                      *)
NeverLate == \A t \in Tasks : nextRun[t] <= NextAfter(t, clock)

(* Once StopScheduler has drained, no run the ticker or the catch-up        *)
(* started is executing, and none will start.                               *)
DrainWaits == "drained" \in incidents => InFlightZero

(* A task that is not triggered by hand and whose runs never overlap is     *)
(* retried at most len(retryDelays) times between scheduled occurrences,    *)
(* unless its catch-up run, which counts as an attempt and may reset the    *)
(* counter, came while the ticker was retrying it.                          *)
RetryBudget ==
    budget.triggers = 0 =>
       \A t \in Tasks \ (overlapped \cup crossed) : retries[t] <= Len(retryDelays)

(* A task that was executing when a shutdown gave up waiting has the status *)
(* "interrupted" as soon as markTasksInterrupted has come to its name, and  *)
(* keeps it across restarts until a run of the task writes its own status   *)
(* ("so their state reflects the interruption ... instead of reporting a    *)
(* stale success").  Left out are a task whose own UPDATE failed or came    *)
(* too late, after the process had ended, and one whose runs overlapped,    *)
(* since the first of these to finish takes the name out of s.active.       *)
InterruptedMarked ==
    \A t \in interrupted \ (overlapped \cup toMark) : row[t] = "interrupted"

(* An occurrence of a cron schedule is not executed again after its run has *)
(* been recorded, nor while that run is in flight, across crashes, restarts *)
(* and catch-up, provided StartScheduler follows registration at once.      *)
OccurrenceOnce == "lateStart" \notin incidents => "twice" \notin incidents

(* StopScheduler always returns, even if a task function never does.        *)
StopTerminates == phase = "stopping" ~> phase \in {"stopped", "down"}

-----------------------------------------------------------------------------
(* What the comment at StopScheduler says of every execution: it "drains    *)
(* in-flight task executions", so that none is left once the drain is over. *)
StoppedMeansIdle == "drained" \in incidents => InFlight = {}
=============================================================================
