------------------------- MODULE NotificationProofs -------------------------
(***************************************************************************)
(* Proofs about WeatherAlerts, DeliveryQueue and WebSocketHub, one after    *)
(* the other: no theorem is about two of them.                              *)
(***************************************************************************)
EXTENDS DeliveryQueue, WeatherAlerts, WebSocketHub, TLAPS

(***************************************************************************)
(* WeatherAlerts, for any number of overlapping checks and any window.      *)
(***************************************************************************)
Hours == 0..MaxHours

(* A check has an alert in hand only while it sends or records it, and two  *)
(* checks have the same one only if it is excused.                          *)
InHand == \A c \in Checks : check[c].pc \in {"idle", "next"} => check[c].now = {}
OneSender == \A c, d \in Checks : c # d => check[c].now \cap check[d].now \subseteq excused

(* What was queued has been recorded since, or is about to be.              *)
QueuedInPast == \A a \in Alerts, h \in Hours : <<a, h>> \in queuedAt => h <= hour
Remembered ==
    \A a \in Alerts \ excused, h \in Hours : <<a, h>> \in queuedAt =>
       \/ \E g \in Hours : <<a, g>> \in sentAt /\ h <= g
       \/ \E c \in Checks : check[c].pc = "record" /\ a \in check[c].now

(* An alert about to be sent was not queued within the window.              *)
SenderIsDue ==
    \A c \in Checks : check[c].pc = "send" =>
       \A a \in check[c].now \ excused, h \in Hours :
          <<a, h>> \in queuedAt => h + alertDedupWindow <= hour

AlertsInv ==
    /\ AlertsTypeOK /\ InHand /\ OneSender /\ QueuedInPast /\ Remembered /\ SenderIsDue
    /\ AlertNotRepeated

-----------------------------------------------------------------------------
(* What a step does to the check it belongs to.                             *)
Becomes(c, pc, left, now) ==
    check' = [check EXCEPT ![c] = [pc |-> pc, left |-> left, now |-> now]]

(* What the query of hasRecentAlert returns: a record within the window of  *)
(* alertDedupWindow hours.                                                  *)
LEMMA RecentMeans ==
    ASSUME AlertsAssumption, NEW times \in SUBSET (Alerts \X Hours), NEW a \in Alerts,
           hour \in Hours
    PROVE  (\E at \in Recent(times) : at[1] = a) <=>
              \E h \in Hours : <<a, h>> \in times /\ h + alertDedupWindow > hour
  <1>1. ASSUME NEW at \in Recent(times), at[1] = a
        PROVE  at[2] \in Hours /\ <<a, at[2]>> \in times /\ at[2] + alertDedupWindow > hour
    <2>1. at \in Alerts \X Hours /\ at \in times /\ at[2] + alertDedupWindow > hour
      BY <1>1 DEF Recent
    <2> QED
      BY <1>1, <2>1
  <1>2. ASSUME NEW h \in Hours, <<a, h>> \in times, h + alertDedupWindow > hour
        PROVE  <<a, h>> \in Recent(times) /\ <<a, h>>[1] = a
    BY <1>2 DEF Recent
  <1> QED
    BY <1>1, <1>2

(* What each statement of checkWeatherAlerts makes of the check that runs   *)
(* it.                                                                      *)
LEMMA StepShapes ==
    ASSUME AlertsTypeOK, NEW c \in Checks
    PROVE  /\ \A detected \in SUBSET Alerts :
                 CheckWeatherAlerts(c, detected) => Becomes(c, "next", detected, {})
           /\ \A pc \in {"record"} : Proceed(c, pc) => Becomes(c, pc, check[c].left, check[c].now)
           /\ LoopOn(c) => Becomes(c, "next", check[c].left, {})
           /\ CheckEnds(c) => Becomes(c, "idle", {}, {})
           /\ \A a \in Alerts : HasRecentAlert(c, a) =>
                 \/ Becomes(c, "next", check[c].left \ {a}, check[c].now)
                 \/ Becomes(c, "send", check[c].left \ {a}, {a})
  BY DEF AlertsTypeOK, Becomes, CheckWeatherAlerts, Proceed, LoopOn, CheckEnds, HasRecentAlert,
         NoCheck

(* So only that check changes.                                              *)
LEMMA OthersStay ==
    ASSUME AlertsTypeOK, NEW c \in Checks, NEW pc, NEW left, NEW now, Becomes(c, pc, left, now)
    PROVE  /\ check'[c].pc = pc /\ check'[c].now = now
           /\ \A d \in Checks \ {c} : check'[d] = check[d]
  BY DEF AlertsTypeOK, Becomes

(* Every step of a check, of the clock and of the clean-up keeps the types. *)
LEMMA AlertsTypeStep == AlertsAssumption /\ AlertsTypeOK /\ [AlertsNext]_alertsVars => AlertsTypeOK'
  <1> SUFFICES ASSUME AlertsAssumption, AlertsTypeOK, [AlertsNext]_alertsVars PROVE AlertsTypeOK'
    OBVIOUS
  <1>1. CASE AnHourPasses
    BY <1>1 DEF AnHourPasses, AlertsTypeOK, AlertsAssumption
  <1>2. ASSUME NEW c \in Checks, NEW detected \in SUBSET Alerts, CheckWeatherAlerts(c, detected)
        PROVE  AlertsTypeOK'
    <2>1. check' \in [Checks -> [pc : {"idle", "next", "send", "record"},
                                  left : SUBSET Alerts, now : SUBSET Alerts]]
      <3>1. Becomes(c, "next", detected, {})
        BY <1>2, StepShapes
      <3> QED
        BY <3>1 DEF Becomes, AlertsTypeOK
    <2> QED
      BY <1>2, <2>1 DEF CheckWeatherAlerts, AlertsTypeOK
  <1>3. ASSUME NEW c \in Checks, NEW a \in Alerts, HasRecentAlert(c, a) PROVE AlertsTypeOK'
    <2>1. check' \in [Checks -> [pc : {"idle", "next", "send", "record"},
                                  left : SUBSET Alerts, now : SUBSET Alerts]]
      <3>1. \/ Becomes(c, "next", check[c].left \ {a}, check[c].now)
            \/ Becomes(c, "send", check[c].left \ {a}, {a})
        BY <1>3, StepShapes
      <3>2. check[c].left \in SUBSET Alerts /\ check[c].now \in SUBSET Alerts
        BY DEF AlertsTypeOK
      <3> QED
        BY <3>1, <3>2 DEF Becomes, AlertsTypeOK
    <2>2. excused' \subseteq Alerts
      BY <1>3 DEF HasRecentAlert, AlertsTypeOK
    <2> QED
      BY <1>3, <2>1, <2>2 DEF HasRecentAlert, AlertsTypeOK
  <1>4. ASSUME NEW c \in Checks,
               Enqueued(c) \/ NothingEnqueued(c) \/ ChannelsUnread(c) \/ RecordAlertSent(c)
        PROVE  AlertsTypeOK'
    <2>0. check[c].now \in SUBSET Alerts /\ check[c].left \in SUBSET Alerts
      BY DEF AlertsTypeOK
    <2>1. check' \in [Checks -> [pc : {"idle", "next", "send", "record"},
                                  left : SUBSET Alerts, now : SUBSET Alerts]]
      <3>1. \/ Becomes(c, "record", check[c].left, check[c].now)
            \/ Becomes(c, "next", check[c].left, {})
        BY <1>4, StepShapes DEF Enqueued, NothingEnqueued, ChannelsUnread, RecordAlertSent
      <3> QED
        BY <2>0, <3>1 DEF Becomes, AlertsTypeOK
    <2>2. check[c].now \X {hour} \subseteq Alerts \X (0..MaxHours)
      BY <2>0 DEF AlertsTypeOK
    <2>3. /\ sentAt' \subseteq Alerts \X (0..MaxHours)
          /\ queuedAt' \subseteq Alerts \X (0..MaxHours)
      BY <1>4, <2>2
         DEF Enqueued, NothingEnqueued, ChannelsUnread, RecordAlertSent, AlertsTypeOK
    <2>4. excused' \subseteq Alerts /\ repeated' \subseteq Alerts
      BY <1>4, <2>0
         DEF Enqueued, NothingEnqueued, ChannelsUnread, RecordAlertSent, AlertsTypeOK
    <2> QED
      BY <1>4, <2>1, <2>3, <2>4
         DEF Enqueued, NothingEnqueued, ChannelsUnread, RecordAlertSent, AlertsTypeOK
  <1>5. ASSUME NEW c \in Checks, CheckEnds(c) PROVE AlertsTypeOK'
    <2>1. Becomes(c, "idle", {}, {})
      BY <1>5, StepShapes
    <2>2. check' \in [Checks -> [pc : {"idle", "next", "send", "record"},
                                  left : SUBSET Alerts, now : SUBSET Alerts]]
      BY <2>1 DEF Becomes, AlertsTypeOK
    <2> QED
      BY <1>5, <2>2 DEF CheckEnds, AlertsTypeOK
  <1>6. CASE AlertsCrash
    <2>1. check' \in [Checks -> [pc : {"idle", "next", "send", "record"},
                                  left : SUBSET Alerts, now : SUBSET Alerts]]
      BY <1>6 DEF AlertsCrash, NoCheck
    <2>2. excused' \subseteq Alerts
      BY <1>6 DEF AlertsCrash, AlertsTypeOK
    <2> QED
      BY <1>6, <2>1, <2>2 DEF AlertsCrash, AlertsTypeOK
  <1>7. CASE UNCHANGED alertsVars
    BY <1>7 DEF alertsVars, AlertsTypeOK
  <1> QED
    BY <1>1, <1>2, <1>3, <1>4, <1>5, <1>6, <1>7 DEF AlertsNext

(* The invariant holds before the first check.                              *)
LEMMA AlertsInvInit == AlertsAssumption /\ AlertsInit => AlertsInv
  BY DEF AlertsAssumption, AlertsInit, AlertsInv, AlertsTypeOK, InHand, OneSender, QueuedInPast,
         Remembered, SenderIsDue, AlertNotRepeated, NoCheck, Hours

(* Each statement of checkWeatherAlerts keeps the invariant: hasRecentAlert *)
(* establishes that the alert is due, queueing it hands the evidence to the *)
(* check, recording it to the table.                                        *)
LEMMA AlertsInvStep == AlertsAssumption /\ AlertsInv /\ [AlertsNext]_alertsVars => AlertsInv'
  <1> SUFFICES ASSUME AlertsAssumption, AlertsInv, [AlertsNext]_alertsVars PROVE AlertsInv'
    OBVIOUS
  <1>t. AlertsTypeOK /\ AlertsTypeOK'
    BY AlertsTypeStep DEF AlertsInv
  <1>0. /\ InHand /\ OneSender /\ QueuedInPast /\ Remembered /\ SenderIsDue /\ AlertNotRepeated
        /\ hour \in Hours /\ \A c \in Checks : check[c].now \subseteq Alerts
        /\ alertDedupWindow \in Nat /\ Hours \subseteq Nat
        /\ excused \subseteq Alerts
        /\ sentAt \subseteq Alerts \X Hours /\ queuedAt \subseteq Alerts \X Hours
    BY <1>t DEF AlertsInv, AlertsTypeOK, Hours, AlertsAssumption
  <1> USE DEF InHand, OneSender, QueuedInPast, Remembered, SenderIsDue, AlertNotRepeated
  <1>1. CASE AnHourPasses
    BY <1>t, <1>0, <1>1 DEF AnHourPasses, AlertsInv
  <1>2. ASSUME NEW c \in Checks,
               \/ \E detected \in SUBSET Alerts : CheckWeatherAlerts(c, detected)
               \/ CheckEnds(c) \/ ChannelsUnread(c)
        PROVE  AlertsInv'
    <2>1. /\ UNCHANGED <<hour, sentAt, queuedAt, repeated, excused>>
          /\ check[c].pc # "record"
          /\ \E pc \in {"idle", "next"}, left \in SUBSET Alerts : Becomes(c, pc, left, {})
      BY <1>t, <1>2, StepShapes DEF CheckWeatherAlerts, CheckEnds, ChannelsUnread, AlertsTypeOK
    <2>2. /\ check'[c].pc \in {"idle", "next"} /\ check'[c].now = {}
          /\ \A d \in Checks \ {c} : check'[d] = check[d]
      BY <1>t, <2>1, OthersStay
    <2> QED
      BY <1>t, <1>0, <2>1, <2>2 DEF AlertsInv
  <1>3. ASSUME NEW c \in Checks, NEW a \in Alerts, HasRecentAlert(c, a) PROVE AlertsInv'
    <2>0. UNCHANGED <<hour, sentAt, queuedAt, repeated>> /\ check[c].pc = "next"
      BY <1>3 DEF HasRecentAlert
    <2>1. excused \subseteq excused'
      BY <1>3 DEF HasRecentAlert
    <2>2. check[c].now = {}
      BY <1>0, <2>0
    <2>3. CASE Becomes(c, "next", check[c].left \ {a}, check[c].now)
      <3>1. /\ check'[c].pc = "next" /\ check'[c].now = {}
            /\ \A d \in Checks \ {c} : check'[d] = check[d]
        BY <1>t, <2>2, <2>3, OthersStay
      <3> QED
        BY <1>t, <1>0, <2>0, <2>1, <3>1 DEF AlertsInv
    <2>4. CASE Becomes(c, "send", check[c].left \ {a}, {a})
      <3>1. /\ check'[c].pc = "send" /\ check'[c].now = {a}
            /\ \A d \in Checks \ {c} : check'[d] = check[d]
        BY <1>t, <2>4, OthersStay
      <3>2. a \in excused' \/ (a \notin Overlaps(c) /\ ~\E at \in Recent(sentAt) : at[1] = a)
        BY <1>t, <1>3, <3>1 DEF HasRecentAlert, AlertsTypeOK
      <3>3. ASSUME NEW d \in Checks \ {c}, a \in check[d].now PROVE a \in Overlaps(c)
        BY <1>t, <1>0, <3>3 DEF Overlaps, AlertsTypeOK
      <3>4. OneSender'
        BY <1>0, <2>1, <3>1, <3>2, <3>3
      <3>5. ASSUME a \notin excused', NEW h \in Hours, <<a, h>> \in queuedAt
            PROVE  h + alertDedupWindow <= hour
        <4>1. PICK g \in Hours : <<a, g>> \in sentAt /\ h <= g
          BY <1>0, <2>0, <2>1, <3>2, <3>3, <3>5
        <4>2. ~(g + alertDedupWindow > hour)
          BY <1>0, <3>2, <3>5, <4>1, RecentMeans
        <4>3. h \in Nat /\ g \in Nat /\ hour \in Nat /\ alertDedupWindow \in Nat
          BY <1>t DEF AlertsTypeOK, Hours
        <4> QED
          BY <4>1, <4>2, <4>3
      <3>6. SenderIsDue'
        BY <1>0, <2>0, <2>1, <3>1, <3>5
      <3> QED
        BY <1>t, <1>0, <2>0, <2>1, <3>1, <3>4, <3>6 DEF AlertsInv
    <2> QED
      BY <1>t, <1>3, <2>3, <2>4, StepShapes
  <1>4. ASSUME NEW c \in Checks, Enqueued(c) \/ NothingEnqueued(c) PROVE AlertsInv'
    <2>1. /\ UNCHANGED <<hour, sentAt, excused>> /\ check[c].pc = "send"
          /\ Becomes(c, "record", check[c].left, check[c].now)
      BY <1>t, <1>4, StepShapes DEF Enqueued, NothingEnqueued
    <2>2. /\ check'[c].pc = "record" /\ check'[c].now = check[c].now
          /\ \A d \in Checks \ {c} : check'[d] = check[d]
      BY <1>t, <2>1, OthersStay
    <2>3. CASE NothingEnqueued(c)
      BY <1>t, <1>0, <2>1, <2>2, <2>3 DEF NothingEnqueued, AlertsInv
    <2>4. CASE Enqueued(c)
      <3>1. \A a \in Alerts, h \in Hours : <<a, h>> \in queuedAt' =>
               <<a, h>> \in queuedAt \/ (a \in check[c].now /\ h = hour)
        BY <2>4 DEF Enqueued
      <3>2. AlertNotRepeated'
        <4> SUFFICES ASSUME NEW a \in check[c].now \ excused
                     PROVE  ~\E at \in Recent(queuedAt) : at[1] = a
          BY <1>0, <2>1, <2>4 DEF Enqueued
        <4>1. a \in Alerts /\ \A h \in Hours : <<a, h>> \in queuedAt => h + alertDedupWindow <= hour
          BY <1>0, <2>1
        <4>2. \A h \in Hours : <<a, h>> \in queuedAt => ~(h + alertDedupWindow > hour)
          BY <1>0, <4>1
        <4>3. queuedAt \in SUBSET (Alerts \X Hours)
          BY <1>0
        <4> QED
          BY <1>0, <4>1, <4>2, <4>3, RecentMeans
      <3>3. SenderIsDue'
        BY <1>0, <2>1, <2>2, <3>1
      <3>4. QueuedInPast' /\ Remembered'
        BY <1>0, <2>1, <2>2, <3>1
      <3> QED
        BY <1>t, <1>0, <2>1, <2>2, <3>2, <3>3, <3>4 DEF AlertsInv
    <2> QED
      BY <1>4, <2>3, <2>4
  <1>5. ASSUME NEW c \in Checks, RecordAlertSent(c) PROVE AlertsInv'
    <2>1. /\ UNCHANGED <<hour, queuedAt, repeated>> /\ check[c].pc = "record"
          /\ Becomes(c, "next", check[c].left, {})
          /\ excused \subseteq excused' /\ sentAt \subseteq sentAt'
      BY <1>t, <1>5, StepShapes DEF RecordAlertSent
    <2>2. /\ check'[c].pc = "next" /\ check'[c].now = {}
          /\ \A d \in Checks \ {c} : check'[d] = check[d]
      BY <1>t, <2>1, OthersStay
    <2>3. \A a \in check[c].now : a \in excused' \/ <<a, hour>> \in sentAt'
      BY <1>5 DEF RecordAlertSent
    <2>4. Remembered'
      BY <1>0, <2>1, <2>2, <2>3
    <2> QED
      BY <1>t, <1>0, <2>1, <2>2, <2>4 DEF AlertsInv
  <1>6. CASE AlertsCrash
    <2>1. /\ UNCHANGED <<hour, sentAt, queuedAt, repeated>> /\ excused \subseteq excused'
          /\ \A c \in Checks : check'[c] = NoCheck /\ check[c].now \subseteq excused'
      BY <1>6 DEF AlertsCrash
    <2>2. \A c \in Checks : check'[c].pc = "idle" /\ check'[c].now = {}
      BY <2>1 DEF NoCheck
    <2> QED
      BY <1>t, <1>0, <2>1, <2>2 DEF AlertsInv
  <1>7. CASE UNCHANGED alertsVars
    BY <1>t, <1>0, <1>7 DEF alertsVars, AlertsInv
  <1> QED
    BY <1>1, <1>2, <1>3, <1>4, <1>5, <1>6, <1>7 DEF AlertsNext

(* The invariant of the alert check holds in every reachable state, for any *)
(* number of overlapping checks and any window.                             *)
THEOREM AlertsInductive == AlertsSpec => []AlertsInv
  BY AlertsAssumption, AlertsInvInit, AlertsInvStep, PTL DEF AlertsSpec

(* No alert is queued again within alertDedupWindow, except where a second  *)
(* check asked between the Enqueue and the record of the first or the       *)
(* record could not be read or written (hasRecentAlert).                    *)
THEOREM AlertsNotRepeated == AlertsSpec => []AlertNotRepeated
  BY AlertsInductive, PTL DEF AlertsInv

-----------------------------------------------------------------------------
(***************************************************************************)
(* DeliveryQueue, for every set of messages, any number of goroutines and   *)
(* any retry limit.                                                         *)
(***************************************************************************)
(* Without these, no message is in two hands.                               *)
Claimed == incidents \cap {"doublePick", "markLost"} = {}
SelectableStates == {"created", "queued", "failed"}

OneHolder ==
    \A v, w \in Slots :
       workers[v].pc # "idle" /\ workers[w].pc # "idle" /\ workers[v].msg = workers[w].msg
          => v = w

(* The row of a message in hand is in the state that its goroutine left it  *)
(* in, and the copy of the row is current.                                  *)
RowOfHolder ==
    \A w \in Slots : workers[w].pc # "idle" =>
       LET row == queue[workers[w].msg] IN
       /\ row.retries = workers[w].retries
       /\ row.state \in IF workers[w].pc = "mark" THEN SelectableStates ELSE {"sending"}

(* A message that arrived is never selected again.                          *)
SentIsOver ==
    /\ \A m \in Msgs : sent[m] <= 1
    /\ \A m \in Msgs : sent[m] > 0 => queue[m].state \in {"absent", "sending", "delivered"}
    /\ \A m \in Msgs : queue[m].state = "delivered" => sent[m] > 0
    /\ \A w \in Slots : /\ workers[w].pc \in {"mark", "send", "failure"} => sent[workers[w].msg] = 0
                        /\ workers[w].pc = "success" => sent[workers[w].msg] > 0

(* Attempts since the last requeue are what the row counts.                 *)
Earlier == AttemptLimit * used.requeues
Ahead(m) ==
    /\ attempts[m] <= Earlier + AttemptLimit
    /\ queue[m].state \in SelectableStates =>
          attempts[m] <= Earlier + queue[m].retries /\ queue[m].retries < AttemptLimit
    /\ queue[m].state = "sending" =>
          attempts[m] <= Earlier + queue[m].retries + 1 /\ queue[m].retries < AttemptLimit
AttemptsCounted ==
    /\ \A m \in Msgs : Ahead(m)
    /\ \A m \in Msgs : queue[m].state = "absent" /\ sent[m] = 0 => attempts[m] = 0
    /\ \A w \in Slots : workers[w].pc = "send" =>
          attempts[workers[w].msg] <= Earlier + workers[w].retries

ClaimInv == Claimed => OneHolder /\ RowOfHolder /\ SentIsOver /\ AttemptsCounted

(* The part of the type invariant that the proofs need: next_retry_at is    *)
(* left out, for it comes from an exponential.                              *)
IsRow(r) ==
    /\ r = [state |-> r.state, retries |-> r.retries, wait |-> r.wait]
    /\ r.state \in States /\ r.retries \in Nat

PCs == {"mark", "send", "success", "failure"}
WorkerStates == {Idle} \cup [pc : PCs, msg : Msgs, retries : Nat]

DeliveryTypes ==
    /\ DOMAIN queue = Msgs /\ queue = [m \in Msgs |-> queue[m]] /\ \A m \in Msgs : IsRow(queue[m])
    /\ workers \in [Slots -> WorkerStates]
    /\ sent \in [Msgs -> Nat] /\ attempts \in [Msgs -> Nat]
    /\ used \in [faults : Nat, requeues : Nat, admin : Nat]

DInv == DeliveryTypes /\ ClaimInv

-----------------------------------------------------------------------------
(* Where a worker stands after a step.                                      *)
OnlyWorker(w) == \A v \in Slots \ {w} : workers'[v] = workers[v]

(* A delivery goroutine is idle, or has a message and the retry count it    *)
(* read.                                                                    *)
LEMMA WorkerState ==
    ASSUME DeliveryTypes, NEW w \in Slots
    PROVE  /\ workers[w].pc \in PCs \cup {"idle"}
           /\ workers[w].pc = "idle" <=> workers[w] = Idle
           /\ workers[w].pc # "idle" => /\ workers[w] \in [pc : PCs, msg : Msgs, retries : Nat]
                                        /\ workers[w].msg \in Msgs /\ workers[w].retries \in Nat
  BY DEF DeliveryTypes, WorkerStates, PCs, Idle

(* What a goroutine's move to its next statement leaves alone.              *)
LEMMA WorkerMoves ==
    ASSUME DeliveryTypes, NEW w \in Slots, workers[w].pc # "idle", NEW pc \in PCs, Goto(w, pc)
    PROVE  /\ workers' \in [Slots -> WorkerStates] /\ OnlyWorker(w)
           /\ workers'[w].pc = pc /\ workers'[w].msg = workers[w].msg
           /\ workers'[w].retries = workers[w].retries
  <1>1. workers[w] \in [pc : PCs, msg : Msgs, retries : Nat]
    BY WorkerState
  <1>2. workers' = [workers EXCEPT ![w] = [workers[w] EXCEPT !.pc = pc]]
    BY DEF Goto
  <1>3. [workers[w] EXCEPT !.pc = pc] = [pc |-> pc, msg |-> workers[w].msg,
                                         retries |-> workers[w].retries]
    BY <1>1
  <1>4. [workers[w] EXCEPT !.pc = pc] \in WorkerStates
    BY <1>1, <1>3 DEF WorkerStates
  <1> QED
    BY <1>2, <1>3, <1>4 DEF DeliveryTypes, OnlyWorker

(* What the end of a goroutine leaves alone.                                *)
LEMMA WorkerFinishes ==
    ASSUME DeliveryTypes, NEW w \in Slots, Finish(w)
    PROVE  workers' \in [Slots -> WorkerStates] /\ OnlyWorker(w) /\ workers'[w].pc = "idle"
  BY DEF DeliveryTypes, Finish, OnlyWorker, Idle, WorkerStates

(* What a step does to the table.                                           *)
OnlyRow(m) == /\ DOMAIN queue' = Msgs /\ queue' = [k \in Msgs |-> queue'[k]]
              /\ \A k \in Msgs \ {m} : queue'[k] = queue[k]

(* An UPDATE of one row of notification_queue leaves the others alone.      *)
LEMMA RowReplaced ==
    ASSUME DeliveryTypes, NEW m \in Msgs, NEW row, queue' = [queue EXCEPT ![m] = row]
    PROVE  OnlyRow(m) /\ queue'[m] = row
  BY DEF DeliveryTypes, OnlyRow

(* An UPDATE of the state leaves the retry count of the row alone.          *)
LEMMA RowState ==
    ASSUME DeliveryTypes, NEW m \in Msgs, NEW st \in States,
           queue' = [queue EXCEPT ![m] = [queue[m] EXCEPT !.state = st]]
    PROVE  OnlyRow(m) /\ IsRow(queue'[m]) /\ queue'[m].state = st
           /\ queue'[m].retries = queue[m].retries
  <1>1. IsRow(queue[m])
    BY DEF DeliveryTypes
  <1>2. [queue[m] EXCEPT !.state = st] = [state |-> st, retries |-> queue[m].retries,
                                          wait |-> queue[m].wait]
    BY <1>1 DEF IsRow
  <1>3. OnlyRow(m) /\ queue'[m] = [queue[m] EXCEPT !.state = st]
    BY RowReplaced
  <1>4. queue'[m] = [state |-> st, retries |-> queue[m].retries, wait |-> queue[m].wait]
    BY <1>2, <1>3
  <1>5. queue[m].retries \in Nat
    BY <1>1 DEF IsRow
  <1> QED
    BY <1>3, <1>4, <1>5 DEF IsRow

(* An UPDATE by id of state, retry count and next attempt touches nothing   *)
(* when the row has been deleted.                                           *)
LEMMA RowWritten ==
    ASSUME DeliveryTypes, NEW m \in Msgs, NEW st \in States, NEW n \in Nat, NEW t,
           Write(m, st, n, t)
    PROVE  \/ queue[m] = Absent /\ queue' = queue
           \/ /\ OnlyRow(m) /\ IsRow(queue'[m])
              /\ queue'[m].state = st /\ queue'[m].retries = n
  BY RowReplaced DEF Write, IsRow

(* ProcessQueue starts one goroutine for each row it selected and leaves    *)
(* the running ones alone.                                                  *)
LEMMA Picks ==
    ASSUME DeliveryTypes, ProcessQueue
    PROVE  \E slot \in [Selected -> Slots \ Busy] :
              \A v \in Slots :
                 \/ workers'[v] = workers[v]
                 \/ /\ v \notin Busy
                    /\ \E m \in Selected :
                          /\ slot[m] = v
                          /\ workers'[v] = [pc |-> "mark", msg |-> m, retries |-> queue[m].retries]
  <1> DEFINE slot == CHOOSE s \in Injection(Selected, Slots \ Busy) : TRUE
  <1>1. slot \in [Selected -> Slots \ Busy]
    <2>1. slot \in Injection(Selected, Slots \ Busy)
      BY DEF ProcessQueue
    <2> QED
      BY <2>1 DEF Injection
  <1>2. ASSUME NEW v \in Slots
        PROVE  \/ workers'[v] = workers[v]
               \/ /\ v \notin Busy
                  /\ \E m \in Selected :
                        /\ slot[m] = v
                        /\ workers'[v] = [pc |-> "mark", msg |-> m, retries |-> queue[m].retries]
    <2>1. workers'[v] = IF \E m \in Selected : slot[m] = v
                        THEN LET m == CHOOSE m \in Selected : slot[m] = v
                             IN  [pc |-> "mark", msg |-> m, retries |-> queue[m].retries]
                        ELSE workers[v]
      BY DEF ProcessQueue
    <2> HIDE DEF slot
    <2>2. ASSUME NEW k \in Selected, slot[k] = v
          PROVE  /\ v \notin Busy
                 /\ \E m \in Selected :
                        /\ slot[m] = v
                        /\ workers'[v] = [pc |-> "mark", msg |-> m, retries |-> queue[m].retries]
      <3> DEFINE m == CHOOSE m \in Selected : slot[m] = v
      <3>1. m \in Selected /\ slot[m] = v
        BY <2>2
      <3> QED
        BY <1>1, <2>1, <2>2, <3>1
    <2> QED
      BY <2>1, <2>2
  <1> QED
    BY <1>1, <1>2

(* Counting a fault, a requeue or an administrator's action keeps the       *)
(* counters natural numbers.                                                *)
LEMMA Requeued ==
    ASSUME DeliveryTypes, NEW k \in {"faults", "requeues", "admin"},
           used' = [used EXCEPT ![k] = @ + 1]
    PROVE  used' \in [faults : Nat, requeues : Nat, admin : Nat]
  BY DEF DeliveryTypes

(* Every statement of a delivery, every pass of ProcessQueue, every action  *)
(* of an administrator and every fault keeps the rows, goroutines and       *)
(* counters well typed.                                                     *)
LEMMA DeliveryTypesStep == DeliveryTypes /\ [Next]_vars => DeliveryTypes'
  <1> SUFFICES ASSUME DeliveryTypes, [Next]_vars PROVE DeliveryTypes'
    OBVIOUS
  <1> DEFINE RowsOK == /\ DOMAIN queue = Msgs /\ queue = [m \in Msgs |-> queue[m]]
                       /\ \A m \in Msgs : IsRow(queue[m])
             UsedOK == used \in [faults : Nat, requeues : Nat, admin : Nat]
             CountsOK == sent \in [Msgs -> Nat] /\ attempts \in [Msgs -> Nat]
             WorkersOK == workers \in [Slots -> WorkerStates]
  <1>0. RowsOK /\ UsedOK /\ CountsOK /\ WorkersOK
    BY DEF DeliveryTypes
  <1>d. RowsOK' /\ UsedOK' /\ CountsOK' /\ WorkersOK' => DeliveryTypes'
    BY DEF DeliveryTypes
  <1>r. \A m \in Msgs : OnlyRow(m) /\ IsRow(queue'[m]) => RowsOK'
    BY <1>0 DEF OnlyRow
  <1>f. \A kind : Fault(kind) => UsedOK'
    BY Requeued DEF Fault
  <1>q. queue' = queue => RowsOK'
    BY <1>0
  <1>u. UNCHANGED used => UsedOK'
    BY <1>0
  <1>c. UNCHANGED <<sent, attempts>> => CountsOK'
    BY <1>0
  <1>w. UNCHANGED workers => WorkersOK'
    BY <1>0
  <1>m. \A w \in Slots : workers[w].pc \in PCs => workers[w].msg \in Msgs /\ workers[w].retries \in Nat
    BY WorkerState DEF PCs
  <1> HIDE DEF RowsOK, UsedOK, CountsOK, WorkersOK
  <1>1. CASE Tick
    <2>1. RowsOK'
      <3>1. ASSUME NEW m \in Msgs PROVE IsRow(queue'[m])
        <4>1. IsRow(queue[m])
          BY DEF DeliveryTypes
        <4>2. queue'[m] = [queue[m] EXCEPT !.wait = IF @ = 0 THEN 0 ELSE @ - 1]
          BY <1>1 DEF Tick
        <4> QED
          BY <4>1, <4>2 DEF IsRow
      <3>2. queue' = [m \in Msgs |-> queue'[m]] /\ DOMAIN queue' = Msgs
        BY <1>1 DEF Tick
      <3> QED
        BY <3>1, <3>2 DEF RowsOK
    <2> QED
      BY <1>1, <2>1, <1>d, <1>u, <1>c, <1>w DEF Tick
  <1>2. ASSUME NEW m \in Msgs, Enqueue(m) PROVE DeliveryTypes'
    <2>1. queue' = [queue EXCEPT ![m] = [queue[m] EXCEPT !.state = "created"]]
      BY <1>2 DEF Enqueue
    <2>2. RowsOK'
      BY <2>1, <1>r, RowState DEF States
    <2> QED
      BY <1>2, <2>2, <1>d, <1>u, <1>c, <1>w DEF Enqueue
  <1>3. ASSUME NEW m \in Msgs, CleanupOld(m) PROVE DeliveryTypes'
    <2>1. OnlyRow(m) /\ queue'[m] = Absent
      BY <1>3, RowReplaced DEF CleanupOld
    <2>2. RowsOK'
      BY <2>1, <1>r DEF IsRow, Absent, States
    <2> QED
      BY <1>3, <2>2, <1>d, <1>u, <1>c, <1>w DEF CleanupOld
  <1>4. ASSUME NEW m \in Msgs, RequeueDeadLetters(m) PROVE DeliveryTypes'
    <2>1. OnlyRow(m) /\ queue'[m] = [state |-> "queued", retries |-> 0, wait |-> 0]
      BY <1>4, RowReplaced DEF RequeueDeadLetters
    <2>2. RowsOK'
      BY <2>1, <1>r DEF IsRow, States
    <2>3. UsedOK'
      BY <1>4, Requeued DEF RequeueDeadLetters, UsedOK
    <2> QED
      BY <1>4, <2>2, <2>3, <1>d, <1>c, <1>w DEF RequeueDeadLetters
  <1>5. CASE ProcessQueue
    <2>1. WorkersOK'
      <3>1. workers' = [w \in Slots |-> workers'[w]]
        BY <1>5 DEF ProcessQueue
      <3>2. ASSUME NEW v \in Slots PROVE workers'[v] \in WorkerStates
        <4>1. \/ workers'[v] = workers[v]
              \/ \E m \in Selected :
                    workers'[v] = [pc |-> "mark", msg |-> m, retries |-> queue[m].retries]
          BY <1>5, Picks
        <4>2. \A m \in Selected : m \in Msgs /\ queue[m].retries \in Nat
          BY DEF Selected, Pending, DeliveryTypes, IsRow
        <4>3. workers[v] \in WorkerStates
          BY DEF DeliveryTypes
        <4>4. \A m \in Msgs, n \in Nat :
                 [pc |-> "mark", msg |-> m, retries |-> n] \in WorkerStates
          BY DEF WorkerStates, PCs
        <4> QED
          BY <4>1, <4>2, <4>3, <4>4
      <3> QED
        BY <3>1, <3>2 DEF WorkersOK
    <2> QED
      BY <1>5, <2>1, <1>d, <1>q, <1>u, <1>c DEF ProcessQueue
  <1>6. ASSUME NEW w \in Slots, Worker(w) PROVE DeliveryTypes'
    <2>1. CASE MarkSending(w)
      <3>1. workers[w].msg \in Msgs /\ workers[w].pc # "idle"
        BY <1>m, <2>1 DEF MarkSending, At, PCs
      <3>2. RowsOK' /\ UsedOK'
        <4>1. CASE Fault("markLost") /\ queue' = queue
          BY <4>1, <1>q, <1>f
        <4>2. CASE UNCHANGED used /\
                   queue' = [queue EXCEPT ![workers[w].msg].state =
                                IF @ = "absent" THEN @ ELSE "sending"]
          <5> DEFINE m == workers[w].msg
                     st == IF queue[m].state = "absent" THEN queue[m].state ELSE "sending"
          <5>1. queue' = [queue EXCEPT ![m] = [queue[m] EXCEPT !.state = st]]
            BY <4>2
          <5>2. st \in States
            BY DEF States
          <5> HIDE DEF m, st
          <5>3. m \in Msgs
            BY <3>1 DEF m
          <5> QED
            BY <4>2, <5>1, <5>2, <5>3, <1>r, <1>u, RowState
        <4> QED
          BY <2>1, <4>1, <4>2 DEF MarkSending
      <3>3. WorkersOK'
        BY <2>1, <3>1, WorkerMoves DEF MarkSending, WorkersOK, PCs
      <3> QED
        BY <2>1, <3>2, <3>3, <1>d, <1>c DEF MarkSending
    <2>2. CASE SendFails(w) \/ SendSucceeds(w)
      <3>1. workers[w].msg \in Msgs /\ workers[w].pc # "idle"
        BY <1>m, <2>2 DEF SendFails, SendSucceeds, At, PCs
      <3>2. WorkersOK'
        BY <2>2, <3>1, WorkerMoves DEF SendFails, SendSucceeds, WorkersOK, PCs
      <3>3. CountsOK'
        BY <1>0, <2>2, <3>1 DEF SendFails, SendSucceeds, CountsOK
      <3> QED
        BY <2>2, <3>2, <3>3, <1>d, <1>q, <1>u DEF SendFails, SendSucceeds
    <2>3. CASE HandleSuccess(w) \/ HandleFailure(w)
      <3>1. workers[w].msg \in Msgs /\ workers[w].retries \in Nat
        BY <1>m, <2>3 DEF HandleSuccess, HandleFailure, At, PCs
      <3>2. WorkersOK'
        BY <2>3, WorkerFinishes DEF HandleSuccess, HandleFailure, WorkersOK
      <3>3. UsedOK'
        BY <2>3, <1>f, <1>u DEF HandleSuccess, HandleFailure
      <3>4. RowsOK'
        <4>1. \/ queue' = queue
              \/ \E st \in States, n \in Nat : \E t : Write(workers[w].msg, st, n, t)
          <5>1. queue[workers[w].msg].retries \in Nat
            BY <3>1 DEF DeliveryTypes, IsRow
          <5>2. {"delivered", "dead_letter", "failed"} \subseteq States
            BY DEF States
          <5>3. CASE HandleSuccess(w)
            BY <3>1, <5>1, <5>2, <5>3 DEF HandleSuccess
          <5>4. CASE HandleFailure(w)
            BY <3>1, <5>2, <5>4 DEF HandleFailure
          <5> QED
            BY <2>3, <5>3, <5>4
        <4> QED
          BY <3>1, <4>1, <1>q, <1>r, RowWritten
      <3> QED
        BY <2>3, <3>2, <3>3, <3>4, <1>d, <1>c DEF HandleSuccess, HandleFailure
    <2> QED
      BY <1>6, <2>1, <2>2, <2>3 DEF Worker
  <1>7. CASE Crash
    <2>1. WorkersOK'
      BY <1>7 DEF Crash, WorkersOK, WorkerStates
    <2> QED
      BY <1>7, <2>1, <1>d, <1>f, <1>q, <1>c DEF Crash
  <1>8. CASE EnableChannel \/ DisableChannel \/ TestBegins
    <2>1. UsedOK'
      BY <1>8, Requeued DEF EnableChannel, DisableChannel, TestBegins, Admin, UsedOK
    <2> QED
      BY <1>8, <2>1, <1>d, <1>q, <1>w, <1>c DEF EnableChannel, DisableChannel, TestBegins, Admin
  <1>9. CASE (\E ok \in BOOLEAN : TestEnds(ok)) \/ UNCHANGED vars
    BY <1>9, <1>d, <1>q, <1>w, <1>c, <1>u DEF TestEnds, vars
  <1> QED
    BY <1>1, <1>2, <1>3, <1>4, <1>5, <1>6, <1>7, <1>8, <1>9 DEF Next

-----------------------------------------------------------------------------
(* The attempts that earlier requeues account for change with a requeue     *)
(* only.                                                                    *)
LEMMA EarlierStays ==
    ASSUME used'.requeues = used.requeues PROVE Earlier' = Earlier
  BY DEF Earlier

(* A message gets at least one attempt: handleFailure compares after        *)
(* counting.                                                                *)
LEMMA LimitPositive == AttemptLimit \in Nat \ {0}
  BY DeliveryAssumption DEF DeliveryAssumption, AttemptLimit

(* What earlier requeues account for is a number.                           *)
LEMMA EarlierNat == ASSUME DeliveryTypes PROVE Earlier \in Nat
  <1>1. used.requeues \in Nat /\ AttemptLimit \in Nat
    BY LimitPositive DEF DeliveryTypes
  <1> QED
    BY <1>1 DEF Earlier

(* A fault is not a requeue.                                                *)
LEMMA FaultKeepsRequeues ==
    ASSUME DeliveryTypes, NEW kind, Fault(kind) PROVE used'.requeues = used.requeues
  BY DEF DeliveryTypes, Fault

(* As long as no message was picked twice and no mark was lost, each step   *)
(* keeps one goroutine per message, its row in the state the goroutine left *)
(* it in, and the attempts counted by the row.                              *)
LEMMA ClaimStep ==
    ASSUME DInv, DeliveryTypes', [Next]_vars, Claimed, Claimed'
    PROVE  OneHolder' /\ RowOfHolder' /\ SentIsOver' /\ AttemptsCounted'
  <1> DEFINE Goal == OneHolder' /\ RowOfHolder' /\ SentIsOver' /\ AttemptsCounted'
  <1>0. DeliveryTypes /\ OneHolder /\ RowOfHolder /\ SentIsOver /\ AttemptsCounted
    BY DEF DInv, ClaimInv
  <1>t. /\ \A m \in Msgs : /\ queue[m].retries \in Nat /\ queue[m].state \in States
                           /\ sent[m] \in Nat /\ attempts[m] \in Nat
        /\ Earlier \in Nat /\ AttemptLimit \in Nat \ {0}
        /\ \A w \in Slots : /\ workers[w].pc \in PCs \cup {"idle"}
                            /\ workers[w].pc # "idle" => workers[w].msg \in Msgs
    BY <1>0, EarlierNat, LimitPositive, WorkerState DEF DeliveryTypes, IsRow
  <1> USE DEF SelectableStates, PCs
  <1>1. CASE UNCHANGED <<queue, workers, sent, attempts>> /\ used'.requeues = used.requeues
    <2>1. Earlier' = Earlier
      BY <1>1, EarlierStays
    <2> QED
      BY <1>0, <1>1, <2>1 DEF OneHolder, RowOfHolder, SentIsOver, AttemptsCounted, Ahead
  <1>2. CASE Tick
    <2>1. /\ UNCHANGED <<workers, sent, attempts>> /\ Earlier' = Earlier
      BY <1>2, EarlierStays DEF Tick
    <2>2. ASSUME NEW m \in Msgs
          PROVE  queue'[m].state = queue[m].state /\ queue'[m].retries = queue[m].retries
      <3>1. IsRow(queue[m])
        BY <1>0 DEF DeliveryTypes
      <3>2. queue'[m] = [queue[m] EXCEPT !.wait = IF @ = 0 THEN 0 ELSE @ - 1]
        BY <1>2 DEF Tick
      <3> QED
        BY <3>1, <3>2 DEF IsRow
    <2> QED
      BY <1>0, <1>t, <2>1, <2>2 DEF OneHolder, RowOfHolder, SentIsOver, AttemptsCounted, Ahead
  <1>3. ASSUME NEW m \in Msgs, Enqueue(m) PROVE Goal
    <2>1. queue' = [queue EXCEPT ![m] = [queue[m] EXCEPT !.state = "created"]]
      BY <1>3 DEF Enqueue
    <2>2. /\ \A k \in Msgs \ {m} : queue'[k] = queue[k]
          /\ queue'[m].state = "created" /\ queue'[m].retries = queue[m].retries
      BY <1>0, <2>1, RowState DEF OnlyRow, States
    <2>3. /\ UNCHANGED <<workers, sent, attempts>> /\ Earlier' = Earlier
          /\ queue[m].state = "absent" /\ queue[m].retries = 0 /\ sent[m] = 0
      BY <1>3, EarlierStays DEF Enqueue, Absent
    <2>4. \A w \in Slots : workers[w].pc # "idle" => workers[w].msg # m
      BY <1>0, <1>t, <2>3 DEF RowOfHolder
    <2> QED
      BY <1>0, <1>t, <2>2, <2>3, <2>4
         DEF OneHolder, RowOfHolder, SentIsOver, AttemptsCounted, Ahead
  <1>4. ASSUME NEW m \in Msgs, CleanupOld(m) PROVE Goal
    <2>1. /\ \A k \in Msgs \ {m} : queue'[k] = queue[k]
          /\ queue'[m].state = "absent"
      BY <1>0, <1>4, RowReplaced DEF CleanupOld, OnlyRow, Absent
    <2>2. /\ UNCHANGED <<workers, sent, attempts>> /\ Earlier' = Earlier
          /\ queue[m].state = "delivered" /\ sent[m] > 0
      BY <1>0, <1>4, EarlierStays DEF CleanupOld, SentIsOver
    <2>3. \A w \in Slots : workers[w].pc # "idle" => workers[w].msg # m
      BY <1>0, <1>t, <2>2 DEF RowOfHolder
    <2> QED
      BY <1>0, <1>t, <2>1, <2>2, <2>3
         DEF OneHolder, RowOfHolder, SentIsOver, AttemptsCounted, Ahead
  <1>5. ASSUME NEW m \in Msgs, RequeueDeadLetters(m) PROVE Goal
    <2>1. /\ \A k \in Msgs \ {m} : queue'[k] = queue[k]
          /\ queue'[m].state = "queued" /\ queue'[m].retries = 0
      BY <1>0, <1>5, RowReplaced DEF RequeueDeadLetters, OnlyRow
    <2>2. UNCHANGED <<workers, sent, attempts>> /\ queue[m].state = "dead_letter"
      BY <1>5 DEF RequeueDeadLetters
    <2>3. Earlier' = Earlier + AttemptLimit
      <3>1. used.requeues \in Nat /\ used'.requeues = used.requeues + 1
        BY <1>0, <1>5 DEF RequeueDeadLetters, DeliveryTypes
      <3> QED
        BY <1>t, <3>1 DEF Earlier
    <2>4. \A w \in Slots : workers[w].pc # "idle" => workers[w].msg # m
      BY <1>0, <1>t, <2>2 DEF RowOfHolder
    <2>5. OneHolder' /\ RowOfHolder' /\ SentIsOver'
      BY <1>0, <1>t, <2>1, <2>2, <2>4 DEF OneHolder, RowOfHolder, SentIsOver
    <2>6. AttemptsCounted'
      <3>1. ASSUME NEW k \in Msgs PROVE Ahead(k)'
        <4>1. Ahead(k) /\ attempts[k] \in Nat /\ queue[k].retries \in Nat
          BY <1>0, <1>t DEF AttemptsCounted
        <4> QED
          BY <1>t, <2>1, <2>2, <2>3, <4>1 DEF Ahead
      <3>2. ASSUME NEW w \in Slots, workers[w].pc = "send"
            PROVE  attempts[workers[w].msg] <= Earlier' + workers[w].retries
        <4>1. workers[w].msg \in Msgs /\ workers[w].retries \in Nat
          BY <1>0, <3>2, WorkerState
        <4> QED
          BY <1>0, <1>t, <2>3, <3>2, <4>1 DEF AttemptsCounted
      <3> QED
        BY <1>0, <2>1, <2>2, <3>1, <3>2 DEF AttemptsCounted
    <2> QED
      BY <2>5, <2>6
  <1>6. CASE ProcessQueue
    <2>1. UNCHANGED <<queue, sent, attempts>> /\ Earlier' = Earlier
      BY <1>6, EarlierStays DEF ProcessQueue
    <2>2. \A m \in Selected : Holders(m) = {} /\ m \in Msgs /\ queue[m].state \in SelectableStates
      BY <1>6 DEF ProcessQueue, Claimed, Selected, Pending
    <2>3. \A m \in Selected, w \in Slots : workers[w].pc # "idle" => workers[w].msg # m
      BY <1>0, <2>2, WorkerState DEF Holders, Busy
    <2>4. PICK slot \in [Selected -> Slots \ Busy] :
              \A v \in Slots :
                 \/ workers'[v] = workers[v]
                 \/ /\ v \notin Busy
                    /\ \E m \in Selected :
                          /\ slot[m] = v
                          /\ workers'[v] = [pc |-> "mark", msg |-> m, retries |-> queue[m].retries]
      BY <1>0, <1>6, Picks
    <2>5. \A v \in Slots :
             \/ workers'[v] = workers[v]
             \/ \E m \in Selected :
                   /\ slot[m] = v /\ workers'[v].pc = "mark"
                   /\ workers'[v].msg = m /\ workers'[v].retries = queue[m].retries
      <3> SUFFICES ASSUME NEW v \in Slots, workers'[v] # workers[v]
                   PROVE  \E m \in Selected :
                             /\ slot[m] = v /\ workers'[v].pc = "mark"
                             /\ workers'[v].msg = m /\ workers'[v].retries = queue[m].retries
        OBVIOUS
      <3>1. PICK m \in Selected :
               /\ slot[m] = v
               /\ workers'[v] = [pc |-> "mark", msg |-> m, retries |-> queue[m].retries]
        BY <2>4
      <3> QED
        BY <3>1
    <2>6. OneHolder'
      BY <1>0, <2>3, <2>5 DEF OneHolder
    <2>7. RowOfHolder'
      BY <1>0, <2>1, <2>2, <2>5 DEF RowOfHolder
    <2>8. SentIsOver'
      BY <1>0, <1>t, <2>1, <2>2, <2>5 DEF SentIsOver
    <2>9. AttemptsCounted'
      BY <1>0, <2>1, <2>5 DEF AttemptsCounted, Ahead
    <2> QED
      BY <2>6, <2>7, <2>8, <2>9
  <1>7. ASSUME NEW w \in Slots, Worker(w) PROVE Goal
    <2> DEFINE m == workers[w].msg
    <2>0. workers[w].pc # "idle"
      BY <1>7 DEF Worker, MarkSending, SendFails, SendSucceeds, HandleSuccess, HandleFailure, At
    <2>1. m \in Msgs /\ \A v \in Slots \ {w} : workers[v].pc # "idle" => workers[v].msg # m
      BY <1>0, <1>t, <2>0 DEF OneHolder
    <2> HIDE DEF m
    <2>2. CASE MarkSending(w)
      <3>1. ~Fault("markLost")
        BY DEF Claimed, Fault
      <3>2. UNCHANGED <<sent, attempts>> /\ Earlier' = Earlier /\ workers[w].pc = "mark"
        BY <2>2, <3>1, EarlierStays DEF MarkSending, At
      <3>3. queue[m].state \in SelectableStates /\ queue[m].retries = workers[w].retries
        BY <1>0, <3>2 DEF RowOfHolder, m
      <3>4. queue' = [queue EXCEPT ![m] = [queue[m] EXCEPT !.state = "sending"]]
        BY <2>2, <3>1, <3>3 DEF MarkSending, m
      <3>5. /\ \A k \in Msgs \ {m} : queue'[k] = queue[k]
            /\ queue'[m].state = "sending" /\ queue'[m].retries = queue[m].retries
        BY <1>0, <2>1, <3>4, RowState DEF OnlyRow, States
      <3>6. /\ \A v \in Slots \ {w} : workers'[v] = workers[v]
            /\ workers'[w].pc = "send" /\ workers'[w].msg = m
            /\ workers'[w].retries = workers[w].retries
        BY <1>0, <2>0, <2>2, WorkerMoves DEF MarkSending, OnlyWorker, m
      <3>7. OneHolder' /\ RowOfHolder'
        BY <1>0, <1>t, <2>1, <3>2, <3>3, <3>5, <3>6 DEF OneHolder, RowOfHolder, m
      <3>8. SentIsOver'
        BY <1>0, <1>t, <2>1, <3>2, <3>3, <3>5, <3>6 DEF SentIsOver, m
      <3>9. AttemptsCounted'
        BY <1>0, <1>t, <2>1, <3>2, <3>3, <3>5, <3>6 DEF AttemptsCounted, Ahead, m
      <3> QED
        BY <3>7, <3>8, <3>9
    <2>3. CASE SendFails(w) \/ SendSucceeds(w)
      <3>1. /\ UNCHANGED queue /\ Earlier' = Earlier /\ workers[w].pc = "send"
            /\ attempts' = [attempts EXCEPT ![m] = @ + 1]
            /\ \E pc \in {"success", "failure"} :
                  /\ Goto(w, pc)
                  /\ pc = "failure" => sent' = sent
                  /\ pc = "success" => sent' = [sent EXCEPT ![m] = @ + 1]
        BY <2>3, EarlierStays DEF SendFails, SendSucceeds, At, m
      <3>2. /\ \A v \in Slots \ {w} : workers'[v] = workers[v]
            /\ workers'[w].pc \in {"success", "failure"} /\ workers'[w].msg = m
            /\ workers'[w].retries = workers[w].retries
            /\ workers'[w].pc = "failure" => sent' = sent
            /\ workers'[w].pc = "success" => sent' = [sent EXCEPT ![m] = @ + 1]
        BY <1>0, <2>0, <3>1, WorkerMoves DEF OnlyWorker, m
      <3>3. queue[m].state = "sending" /\ queue[m].retries = workers[w].retries /\ sent[m] = 0
        BY <1>0, <3>1 DEF RowOfHolder, SentIsOver, m
      <3>4. /\ \A k \in Msgs \ {m} : attempts'[k] = attempts[k] /\ sent'[k] = sent[k]
            /\ attempts'[m] = attempts[m] + 1
            /\ workers'[w].pc = "failure" => sent'[m] = 0
            /\ workers'[w].pc = "success" => sent'[m] = 1
            /\ sent'[m] \in {0, 1}
        BY <1>0, <2>1, <3>1, <3>2, <3>3 DEF DeliveryTypes
      <3>5. attempts[m] <= Earlier + workers[w].retries
        BY <1>0, <3>1 DEF AttemptsCounted, m
      <3>6. OneHolder' /\ RowOfHolder'
        BY <1>0, <1>t, <2>1, <3>1, <3>2, <3>3 DEF OneHolder, RowOfHolder, m
      <3>7. SentIsOver'
        BY <1>0, <1>t, <2>1, <3>1, <3>2, <3>3, <3>4 DEF SentIsOver, m
      <3>8. AttemptsCounted'
        <4>1. queue[m].retries < AttemptLimit
          BY <1>0, <1>t, <2>1, <3>3 DEF AttemptsCounted, Ahead
        <4>2. ASSUME NEW k \in Msgs, k = m PROVE Ahead(k)'
          BY <1>t, <2>1, <3>1, <3>3, <3>4, <3>5, <4>1, <4>2 DEF Ahead
        <4>3. ASSUME NEW k \in Msgs \ {m} PROVE Ahead(k)'
          BY <1>0, <3>1, <3>4 DEF Ahead, AttemptsCounted
        <4> QED
          BY <1>0, <1>t, <2>1, <3>1, <3>2, <3>3, <3>4, <4>2, <4>3 DEF AttemptsCounted
      <3> QED
        BY <3>6, <3>7, <3>8
    <2>4. CASE HandleSuccess(w) \/ HandleFailure(w)
      <3>1. /\ UNCHANGED <<sent, attempts>> /\ Earlier' = Earlier
            /\ workers[w].pc \in {"success", "failure"}
        BY <1>0, <2>4, EarlierStays, FaultKeepsRequeues DEF HandleSuccess, HandleFailure, At
      <3>2. /\ \A v \in Slots \ {w} : workers'[v] = workers[v]
            /\ workers'[w].pc = "idle"
        BY <1>0, <2>4, WorkerFinishes DEF HandleSuccess, HandleFailure, OnlyWorker
      <3>3. /\ queue[m].state = "sending" /\ queue[m].retries = workers[w].retries
            /\ workers[w].pc = "success" => sent[m] > 0
            /\ workers[w].pc = "failure" => sent[m] = 0
        BY <1>0, <3>1 DEF RowOfHolder, SentIsOver, m
      <3>4. /\ queue[m].retries < AttemptLimit
            /\ attempts[m] <= Earlier + queue[m].retries + 1
        BY <1>0, <1>t, <2>1, <3>3 DEF AttemptsCounted, Ahead
      <3>5. \/ queue' = queue
            \/ /\ workers[w].pc = "success"
               /\ \E t : Write(m, "delivered", queue[m].retries, t)
            \/ /\ workers[w].pc = "failure"
               /\ \E t : \/ Write(m, "dead_letter", workers[w].retries + 1, t)
                         \/ /\ Write(m, "failed", workers[w].retries + 1, t)
                            /\ ~(workers[w].retries + 1 >= maxRetries)
        BY <2>4 DEF HandleSuccess, HandleFailure, At, m
      <3>6. queue[m] # Absent
        BY <3>3 DEF Absent
      <3>7. \/ queue' = queue
            \/ /\ \A k \in Msgs \ {m} : queue'[k] = queue[k]
               /\ \/ workers[w].pc = "success" /\ queue'[m].state = "delivered"
                  \/ workers[w].pc = "failure" /\ queue'[m].state = "dead_letter"
                  \/ /\ workers[w].pc = "failure" /\ queue'[m].state = "failed"
                     /\ queue'[m].retries = queue[m].retries + 1
                     /\ ~(queue[m].retries + 1 >= maxRetries)
        <4>1. workers[w].retries + 1 \in Nat /\ queue[m].retries \in Nat
          BY <1>t, <2>1, <3>3
        <4>2. {"delivered", "dead_letter", "failed"} \subseteq States
          BY DEF States
        <4> QED
          BY <1>0, <2>1, <3>3, <3>5, <3>6, <4>1, <4>2, RowWritten DEF OnlyRow
      <3>8. OneHolder' /\ RowOfHolder'
        BY <1>0, <1>t, <2>1, <3>2, <3>7 DEF OneHolder, RowOfHolder
      <3>9. SentIsOver'
        BY <1>0, <1>t, <2>1, <3>1, <3>2, <3>3, <3>7 DEF SentIsOver
      <3>10. AttemptsCounted'
        <4>0. \A n \in Nat : ~(n + 1 >= maxRetries) => n + 1 < AttemptLimit
          <5>1. maxRetries \in Nat
            BY DeliveryAssumption DEF DeliveryAssumption
          <5> QED
            BY <5>1 DEF AttemptLimit
        <4>1. ASSUME NEW k \in Msgs, k = m PROVE Ahead(k)'
          <5>1. CASE queue' = queue
            BY <1>0, <3>1, <5>1 DEF Ahead, AttemptsCounted
          <5>2. CASE queue'[k].state \in {"delivered", "dead_letter"}
            BY <1>0, <3>1, <5>2 DEF Ahead, AttemptsCounted
          <5>3. CASE /\ queue'[k].state = "failed" /\ queue'[k].retries = queue[k].retries + 1
                     /\ ~(queue[k].retries + 1 >= maxRetries)
            BY <1>t, <3>1, <3>4, <4>0, <4>1, <5>3 DEF Ahead
          <5> QED
            BY <3>7, <4>1, <5>1, <5>2, <5>3
        <4>2. ASSUME NEW k \in Msgs \ {m} PROVE Ahead(k)'
          BY <1>0, <3>1, <3>7 DEF Ahead, AttemptsCounted
        <4>3. \A k \in Msgs : queue'[k].state = "absent" => queue[k].state = "absent"
          BY <2>1, <3>3, <3>7
        <4>4. \A v \in Slots : workers'[v].pc = "send" => workers'[v] = workers[v]
          BY <3>2
        <4> QED
          BY <1>0, <3>1, <4>1, <4>2, <4>3, <4>4 DEF AttemptsCounted
      <3> QED
        BY <3>8, <3>9, <3>10
    <2> QED
      BY <1>7, <2>2, <2>3, <2>4 DEF Worker
  <1>8. CASE Crash
    <2>1. /\ UNCHANGED <<queue, sent, attempts>> /\ Earlier' = Earlier
          /\ \A w \in Slots : workers'[w].pc = "idle"
      BY <1>0, <1>8, EarlierStays, FaultKeepsRequeues DEF Crash, Idle
    <2> QED
      BY <1>0, <1>t, <2>1 DEF OneHolder, RowOfHolder, SentIsOver, AttemptsCounted, Ahead
  <1>9. CASE EnableChannel \/ DisableChannel \/ TestBegins
    <2>1. used'.requeues = used.requeues
      BY <1>0, <1>9 DEF EnableChannel, DisableChannel, TestBegins, Admin, DeliveryTypes
    <2> QED
      BY <1>1, <1>9, <2>1 DEF EnableChannel, DisableChannel, TestBegins, Admin
  <1>10. CASE (\E ok \in BOOLEAN : TestEnds(ok)) \/ UNCHANGED vars
    BY <1>1, <1>10 DEF TestEnds, vars
  <1> QED
    BY <1>2, <1>3, <1>4, <1>5, <1>6, <1>7, <1>8, <1>9, <1>10 DEF Next

(* A double pick and a lost mark are never forgotten.                       *)
LEMMA IncidentsGrow == [Next]_vars => incidents \subseteq incidents'
  BY DEF Next, vars, Tick, Enqueue, CleanupOld, RequeueDeadLetters, ProcessQueue, Worker,
         MarkSending, SendFails, SendSucceeds, HandleSuccess, HandleFailure, Crash, Fault,
         EnableChannel, DisableChannel, TestBegins, TestEnds

(* The invariant holds with an empty queue.                                 *)
LEMMA DeliveryInit == Init => DInv
  <1> SUFFICES ASSUME Init PROVE DInv
    OBVIOUS
  <1>1. DeliveryTypes
    <2>1. /\ DOMAIN queue = Msgs /\ queue = [m \in Msgs |-> queue[m]]
          /\ \A m \in Msgs : IsRow(queue[m])
      BY DEF Init, IsRow, Absent, States
    <2>2. workers \in [Slots -> WorkerStates]
      BY DEF Init, WorkerStates
    <2>3. sent \in [Msgs -> Nat] /\ attempts \in [Msgs -> Nat]
      BY DEF Init
    <2>4. used \in [faults : Nat, requeues : Nat, admin : Nat]
      BY DEF Init
    <2> QED
      BY <2>1, <2>2, <2>3, <2>4 DEF DeliveryTypes
  <1>2. /\ \A w \in Slots : workers[w].pc = "idle"
        /\ \A m \in Msgs : queue[m].state = "absent" /\ sent[m] = 0 /\ attempts[m] = 0
    BY DEF Init, Idle, Absent
  <1>3. Earlier \in Nat /\ AttemptLimit \in Nat
    BY <1>1, EarlierNat, LimitPositive
  <1>4. OneHolder /\ RowOfHolder /\ SentIsOver /\ AttemptsCounted
    BY <1>2, <1>3 DEF OneHolder, RowOfHolder, SentIsOver, AttemptsCounted, Ahead,
                      SelectableStates
  <1> QED
    BY <1>1, <1>4 DEF DInv, ClaimInv

(* The invariant of the delivery queue holds in every reachable state, for  *)
(* every set of messages, any number of goroutines and any retry limit.     *)
THEOREM DeliveryInductive == Spec => []DInv
  <1>1. DInv /\ [Next]_vars => DInv'
    <2> SUFFICES ASSUME DInv, [Next]_vars PROVE DInv'
      OBVIOUS
    <2>1. DeliveryTypes'
      BY DeliveryTypesStep DEF DInv
    <2>2. Claimed' => Claimed
      BY IncidentsGrow DEF Claimed
    <2>3. Claimed' => OneHolder' /\ RowOfHolder' /\ SentIsOver' /\ AttemptsCounted'
      BY <2>1, <2>2, ClaimStep
    <2> QED
      BY <2>1, <2>3 DEF DInv, ClaimInv
  <1> QED
    BY DeliveryInit, <1>1, PTL DEF Spec

(* A message arrives at most once unless ProcessQueue picked a row that was *)
(* already in hand or the mark 'sending' was lost: the mark that            *)
(* processNotification writes is what keeps a second pass from picking the  *)
(* row.                                                                     *)
THEOREM DeliveredAtMostOnce == Spec => []SentOnce
  <1>1. DInv => SentOnce
    BY DEF DInv, ClaimInv, Claimed, SentIsOver, SentOnce
  <1> QED
    BY <1>1, DeliveryInductive, PTL

(* A message is attempted no more often than handleFailure allows, times    *)
(* the administrator's requeues, under the same conditions.                 *)
THEOREM AttemptsWithinLimit == Spec => []AttemptsBounded
  <1>1. DInv => AttemptsBounded
    <2> SUFFICES ASSUME DInv, Claimed, NEW m \in Msgs
                 PROVE  attempts[m] <= AttemptLimit * (1 + used.requeues)
      BY DEF AttemptsBounded, Claimed
    <2>1. attempts[m] <= Earlier + AttemptLimit
      BY DEF DInv, ClaimInv, AttemptsCounted, Ahead
    <2>2. used.requeues \in Nat /\ AttemptLimit \in Nat
      BY LimitPositive DEF DInv, DeliveryTypes
    <2>3. AttemptLimit * (1 + used.requeues) = Earlier + AttemptLimit
      BY <2>2 DEF Earlier
    <2> QED
      BY <2>1, <2>3
  <1> QED
    BY <1>1, DeliveryInductive, PTL

-----------------------------------------------------------------------------
(* While the channel is off and was not being tested when it was switched   *)
(* off, nobody is about to write a test verdict over it.                    *)
Off == (switchedOff /\ "testRace" \notin incidents) => ~testing /\ channel.enabled # TRUE
ChannelShape == channel = [enabled |-> channel.enabled, state |-> channel.state,
                           failures |-> channel.failures]

(* A channel the administrator switched off stays out of                    *)
(* ListEnabledChannels whatever deliveries finish afterwards, unless a test *)
(* was under way at that moment.                                            *)
THEOREM OffIsOff == Spec => []DisabledStaysOff
  <1>1. Init => Off /\ ChannelShape
    BY DEF Init, Off, ChannelShape
  <1>2. Off /\ ChannelShape /\ [Next]_vars => Off' /\ ChannelShape'
    <2> SUFFICES ASSUME Off, ChannelShape, [Next]_vars PROVE Off' /\ ChannelShape'
      OBVIOUS
    <2>1. CASE UNCHANGED <<channel, testing, switchedOff>> /\ incidents \subseteq incidents'
      BY <2>1 DEF Off, ChannelShape
    <2>2. ASSUME NEW w \in Slots, HandleSuccess(w) \/ HandleFailure(w)
          PROVE  Off' /\ ChannelShape'
      <3>1. UNCHANGED <<testing, switchedOff>> /\ incidents \subseteq incidents'
        BY <2>2, IncidentsGrow DEF HandleSuccess, HandleFailure, admin
      <3>2. channel' = channel \/ RecordSuccess \/ RecordFailure
        BY <2>2 DEF HandleSuccess, HandleFailure
      <3>3. ChannelShape' /\ channel'.enabled = channel.enabled
        BY <3>2 DEF RecordSuccess, RecordFailure, ChannelShape
      <3> QED
        BY <3>1, <3>3 DEF Off
    <2>3. CASE EnableChannel
      <3>1. channel' = [channel EXCEPT !.enabled = TRUE, !.state = "enabled"]
        BY <2>3 DEF EnableChannel
      <3>2. ChannelShape'
        BY <3>1 DEF ChannelShape
      <3>3. switchedOff' = FALSE
        BY <2>3 DEF EnableChannel
      <3> QED
        BY <3>2, <3>3 DEF Off
    <2>4. CASE DisableChannel
      <3>1. channel' = [channel EXCEPT !.enabled = FALSE, !.state = "disabled"]
        BY <2>4 DEF DisableChannel
      <3>2. ChannelShape' /\ channel'.enabled = FALSE
        BY <3>1 DEF ChannelShape
      <3>3. testing' = testing /\ (testing => "testRace" \in incidents')
        BY <2>4 DEF DisableChannel
      <3> QED
        BY <3>2, <3>3, Zenon DEF Off
    <2>5. CASE TestBegins
      <3>1. channel' = [channel EXCEPT !.state = "testing"]
        BY <2>5 DEF TestBegins
      <3>2. ChannelShape'
        BY <3>1 DEF ChannelShape
      <3>3. switchedOff' = FALSE
        BY <2>5 DEF TestBegins
      <3> QED
        BY <3>2, <3>3 DEF Off
    <2>6. ASSUME NEW ok \in BOOLEAN, TestEnds(ok) PROVE Off' /\ ChannelShape'
      <3>1. testing /\ UNCHANGED <<switchedOff, incidents>>
        BY <2>6 DEF TestEnds
      <3>2. ~(switchedOff /\ "testRace" \notin incidents)
        BY <3>1 DEF Off
      <3>3. \/ channel' = [enabled |-> TRUE, state |-> "enabled", failures |-> 0]
            \/ channel' = [channel EXCEPT !.state = "failed", !.failures = OneMore(@)]
        BY <2>6 DEF TestEnds
      <3>4. ChannelShape'
        BY <3>3 DEF ChannelShape
      <3> QED
        BY <3>1, <3>2, <3>4 DEF Off
    <2>7. CASE Crash
      <3>1. UNCHANGED <<channel, switchedOff>> /\ testing' = FALSE
        BY <2>7 DEF Crash
      <3> QED
        BY <3>1, IncidentsGrow DEF Off, ChannelShape
    <2>8. CASE \/ Tick \/ ProcessQueue \/ UNCHANGED vars
               \/ \E m \in Msgs : Enqueue(m) \/ CleanupOld(m) \/ RequeueDeadLetters(m)
               \/ \E w \in Slots : MarkSending(w) \/ SendFails(w) \/ SendSucceeds(w)
      BY <2>1, <2>8, IncidentsGrow
         DEF Tick, ProcessQueue, vars, Enqueue, CleanupOld, RequeueDeadLetters,
             MarkSending, SendFails, SendSucceeds, admin
    <2> QED
      BY <2>2, <2>3, <2>4, <2>5, <2>6, <2>7, <2>8 DEF Next, Worker
  <1>3. Off => DisabledStaysOff
    BY DEF Off, DisabledStaysOff, Listed
  <1> QED
    BY <1>1, <1>2, <1>3, PTL DEF Spec

-----------------------------------------------------------------------------
Calm == incidents \cap {"crash", "markLost", "writeLost"} = {}
InHandOf(w, m) == workers[w].pc # "idle" /\ workers[w].msg = m
Owned == Calm => \A m \in Msgs : queue[m].state = "sending" => \E w \in Slots : InHandOf(w, m)

(* Each step keeps a goroutine behind every row in state 'sending'.         *)
LEMMA OwnedStep == DeliveryTypes /\ Owned /\ [Next]_vars => Owned'
  <1> SUFFICES ASSUME DeliveryTypes, Owned, [Next]_vars, Calm',
                      NEW m \in Msgs, queue'[m].state = "sending"
               PROVE  \E w \in Slots : InHandOf(w, m)'
    BY DEF Owned
  <1>0. Calm
    BY IncidentsGrow DEF Calm
  <1>1. queue[m].state = "sending" => \E w \in Slots : InHandOf(w, m)
    BY <1>0 DEF Owned
  <1>2. CASE /\ queue[m].state = "sending"
             /\ \A w \in Slots : workers[w].pc # "idle" => workers'[w] = workers[w]
    BY <1>1, <1>2 DEF InHandOf
  <1>3. CASE UNCHANGED <<queue, workers>>
    BY <1>1, <1>3 DEF InHandOf
  <1>4. CASE Tick
    <2>1. IsRow(queue[m])
      BY DEF DeliveryTypes
    <2>2. queue'[m] = [queue[m] EXCEPT !.wait = IF @ = 0 THEN 0 ELSE @ - 1]
      BY <1>4 DEF Tick
    <2>3. queue[m].state = "sending"
      BY <2>1, <2>2 DEF IsRow
    <2> QED
      BY <1>2, <1>4, <2>3 DEF Tick
  <1>5. ASSUME NEW k \in Msgs, Enqueue(k) \/ CleanupOld(k) \/ RequeueDeadLetters(k)
        PROVE  \E w \in Slots : InHandOf(w, m)'
    <2>1. CASE Enqueue(k)
      <3>1. queue' = [queue EXCEPT ![k] = [queue[k] EXCEPT !.state = "created"]]
        BY <2>1 DEF Enqueue
      <3>2. OnlyRow(k) /\ queue'[k].state = "created"
        BY <3>1, RowState DEF States
      <3> QED
        BY <1>2, <2>1, <3>2 DEF OnlyRow, Enqueue
    <2>2. CASE CleanupOld(k)
      <3>1. OnlyRow(k) /\ queue'[k] = Absent
        BY <2>2, RowReplaced DEF CleanupOld
      <3> QED
        BY <1>2, <2>2, <3>1 DEF OnlyRow, CleanupOld, Absent
    <2>3. CASE RequeueDeadLetters(k)
      <3>1. OnlyRow(k) /\ queue'[k] = [state |-> "queued", retries |-> 0, wait |-> 0]
        BY <2>3, RowReplaced DEF RequeueDeadLetters
      <3> QED
        BY <1>2, <2>3, <3>1 DEF OnlyRow, RequeueDeadLetters
    <2> QED
      BY <1>5, <2>1, <2>2, <2>3
  <1>6. CASE ProcessQueue
    <2>1. \A w \in Busy : workers'[w] = workers[w]
      BY <1>6, Picks DEF Busy
    <2>2. \A w \in Slots : workers[w].pc # "idle" => w \in Busy
      BY WorkerState DEF Busy
    <2> QED
      BY <1>2, <1>6, <2>1, <2>2 DEF ProcessQueue
  <1>7. ASSUME NEW w \in Slots, Worker(w) PROVE \E v \in Slots : InHandOf(v, m)'
    <2>0. workers[w].pc \in PCs /\ workers[w].pc # "idle"
      BY <1>7 DEF Worker, MarkSending, SendFails, SendSucceeds, HandleSuccess, HandleFailure,
                  At, PCs
    <2>1. CASE MarkSending(w) \/ SendFails(w) \/ SendSucceeds(w)
      <3>1. \E pc \in PCs : Goto(w, pc)
        BY <2>1 DEF MarkSending, SendFails, SendSucceeds, PCs
      <3>2. /\ \A v \in Slots \ {w} : workers'[v] = workers[v]
            /\ workers'[w].pc # "idle" /\ workers'[w].msg = workers[w].msg
        BY <2>0, <3>1, WorkerMoves DEF OnlyWorker, PCs
      <3>3. queue[m].state # "sending" => workers[w].msg = m
        <4>1. CASE MarkSending(w)
          <5>1. \/ queue' = queue
                \/ queue' = [queue EXCEPT ![workers[w].msg].state =
                                 IF @ = "absent" THEN @ ELSE "sending"]
            BY <4>1 DEF MarkSending
          <5>2. workers[w].msg # m => queue'[m] = queue[m]
            BY <5>1 DEF DeliveryTypes
          <5> QED
            BY <5>2
        <4>2. CASE SendFails(w) \/ SendSucceeds(w)
          BY <4>2 DEF SendFails, SendSucceeds
        <4> QED
          BY <2>1, <4>1, <4>2
      <3> QED
        BY <1>1, <2>0, <3>2, <3>3 DEF InHandOf
    <2>2. CASE HandleSuccess(w) \/ HandleFailure(w)
      <3>1. \A v \in Slots \ {w} : workers'[v] = workers[v]
        BY <2>2, WorkerFinishes DEF HandleSuccess, HandleFailure, OnlyWorker
      <3>2. ~Fault("writeLost")
        BY DEF Calm, Fault
      <3>3. workers[w].msg \in Msgs /\ workers[w].retries + 1 \in Nat
            /\ queue[workers[w].msg].retries \in Nat
        BY <2>0, WorkerState DEF DeliveryTypes, IsRow
      <3>4. \E st \in {"delivered", "dead_letter", "failed"}, n \in Nat : \E t :
               Write(workers[w].msg, st, n, t)
        <4>1. CASE HandleSuccess(w)
          BY <4>1, <3>2, <3>3 DEF HandleSuccess
        <4>2. CASE HandleFailure(w)
          BY <4>2, <3>2, <3>3 DEF HandleFailure
        <4> QED
          BY <2>2, <4>1, <4>2
      <3>5. PICK st \in {"delivered", "dead_letter", "failed"}, n \in Nat : \E t :
               Write(workers[w].msg, st, n, t)
        BY <3>4
      <3>6. \/ queue[workers[w].msg] = Absent /\ queue' = queue
            \/ OnlyRow(workers[w].msg) /\ queue'[workers[w].msg].state = st
        BY <3>3, <3>5, RowWritten DEF States
      <3>7. workers[w].msg # m /\ queue[m].state = "sending"
        BY <3>3, <3>6 DEF OnlyRow, Absent
      <3> QED
        BY <1>1, <3>1, <3>7 DEF InHandOf
    <2> QED
      BY <1>7, <2>1, <2>2 DEF Worker
  <1>8. CASE Crash
    BY <1>8 DEF Crash, Fault, Calm
  <1>9. CASE \/ EnableChannel \/ DisableChannel \/ TestBegins
             \/ (\E ok \in BOOLEAN : TestEnds(ok)) \/ UNCHANGED vars
    BY <1>3, <1>9 DEF EnableChannel, DisableChannel, TestBegins, TestEnds, Admin, vars
  <1> QED
    BY <1>4, <1>5, <1>6, <1>7, <1>8, <1>9 DEF Next

(* A row in state 'sending' is in the hands of a goroutine, as long as the  *)
(* process has not died and no statement of it was lost: nothing else would *)
(* ever select such a row again.                                            *)
THEOREM SendingHasGoroutine == Spec => []SendingIsOwned
  <1>1. Init => Owned
    BY DEF Init, Owned, Absent
  <1>2. DeliveryTypes /\ Owned => SendingIsOwned
    BY WorkerState DEF Owned, Calm, InHandOf, SendingIsOwned, Holders, Busy
  <1>3. DInv => DeliveryTypes
    BY DEF DInv
  <1> QED
    BY <1>1, <1>2, <1>3, OwnedStep, DeliveryInductive, PTL DEF Spec

-----------------------------------------------------------------------------
(***************************************************************************)
(* WebSocketHub, for every set of connections, IDs and broadcasters and     *)
(* every capacity of the channels.                                          *)
(***************************************************************************)
Distinct(ch) == \A i, j \in DOMAIN ch : ch[i] = ch[j] => i = j

HubTypes ==
    /\ clients \in [Ids -> Clients \cup {None}]
    /\ register \in Seq(Clients) /\ unregister \in Seq(Clients)
    /\ closed \subseteq Clients
    /\ reader \in [Clients -> {"none", "reading", "leaving", "done"}]

(* An entry of the map is the client's own, and hub and broadcasters hold   *)
(* clients they found there.                                                *)
OwnEntry == \A id \in Ids : clients[id] # None => idOf[clients[id]] = id
HubHolds ==
    /\ hub.pc \in {"select", "send", "blocked", "panicked"}
    /\ hub.todo \subseteq Clients
    /\ hub.pc = "blocked" => hub.cur \in Clients
    /\ hub.pc \in {"send", "blocked"} => \A c \in hub.todo : Registered(c)
SendersHold ==
    /\ DOMAIN sender = Senders
    /\ \A s \in Senders : /\ sender[s] = [pc |-> sender[s].pc, cur |-> sender[s].cur]
                          /\ sender[s].pc # "idle" => sender[s].cur \in Clients

(* A connection registers once.                                             *)
Fresh == \A c \in Clients : reader[c] = "none" => ~Alive(c) /\ c \notin closed
Once == Distinct(register) /\ \A c \in Queued(register) : ~Registered(c)

HubShape == HubTypes /\ OwnEntry /\ HubHolds /\ SendersHold /\ Fresh /\ Once

(* What a read pump that is over leaves behind.                             *)
DoneLeaves ==
    "inverted" \notin hubIncidents =>
       \A c \in Clients : (Registered(c) \/ c \in Queued(register)) /\ reader[c] = "done"
                              => c \in Queued(unregister)

(* Without twins, connections with the same ID are never known at once.     *)
TwinsApart ==
    "twin" \notin hubIncidents =>
       \A c, d \in Clients : Alive(c) /\ Alive(d) /\ idOf[c] = idOf[d] => c = d

(* Without an overflow, only read pumps unregister.                         *)
PumpsUnregister ==
    "overflow" \notin hubIncidents =>
       /\ \A c \in Queued(unregister) : reader[c] = "done"
       /\ hub.pc # "blocked" /\ \A s \in Senders : sender[s].pc # "blocked"

(* What closing a Send channel leaves behind: without twins ...             *)
ClosedIsGone ==
    "twin" \notin hubIncidents =>
       /\ \A c \in closed : ~Registered(c) /\ c \notin Queued(register)
       /\ hub.pc # "panicked"

(* ... and with twins, where every connection is unregistered once.         *)
ClosedIsOver ==
    hubIncidents \cap {"overflow", "swept", "inverted"} = {} =>
       /\ Distinct(unregister)
       /\ \A c \in closed : /\ ~Registered(c) /\ reader[c] = "done"
                            /\ c \notin Queued(register) \cup Queued(unregister)
       /\ hub.pc # "panicked"

HubInv == /\ HubShape /\ DoneLeaves /\ TwinsApart /\ PumpsUnregister
          /\ ConnectedIsListed /\ ClosedIsGone /\ ClosedIsOver
-----------------------------------------------------------------------------
(* Sending to a channel: the connection is queued behind the others, and is *)
(* there once if it was not there before.                                   *)
LEMMA Appends ==
    ASSUME NEW S, NEW q \in Seq(S), NEW c \in S
    PROVE  /\ Append(q, c) \in Seq(S) /\ Queued(Append(q, c)) = Queued(q) \cup {c}
           /\ Distinct(q) /\ c \notin Queued(q) => Distinct(Append(q, c))
  <1>1. /\ Append(q, c) \in Seq(S) /\ DOMAIN q = 1..Len(q) /\ Len(q) \in Nat
        /\ DOMAIN Append(q, c) = 1..Len(q) + 1
        /\ \A i \in 1..Len(q) : Append(q, c)[i] = q[i]
        /\ Append(q, c)[Len(q) + 1] = c
    OBVIOUS
  <1>2. Queued(Append(q, c)) = Queued(q) \cup {c}
    BY <1>1 DEF Queued
  <1>3. Distinct(q) /\ c \notin Queued(q) => Distinct(Append(q, c))
    BY <1>1 DEF Distinct, Queued
  <1>. QED  BY <1>1, <1>2, <1>3

(* Receiving from a channel takes the first connection and leaves the       *)
(* others.                                                                  *)
LEMMA TakesFirst ==
    ASSUME NEW S, NEW q \in Seq(S), q # <<>>
    PROVE  /\ Head(q) \in S /\ Tail(q) \in Seq(S)
           /\ Queued(q) = {Head(q)} \cup Queued(Tail(q))
           /\ Distinct(q) => Distinct(Tail(q)) /\ Head(q) \notin Queued(Tail(q))
  <1>1. /\ Head(q) \in S /\ Tail(q) \in Seq(S) /\ Head(q) = q[1]
        /\ DOMAIN q = 1..Len(q) /\ Len(q) \in Nat \ {0}
        /\ DOMAIN Tail(q) = 1..Len(q) - 1
        /\ \A i \in 1..Len(q) - 1 : Tail(q)[i] = q[i + 1]
    OBVIOUS
  <1>2. Queued(q) \subseteq {Head(q)} \cup Queued(Tail(q))
    <2>. SUFFICES ASSUME NEW i \in 1..Len(q), i # 1  PROVE q[i] \in Queued(Tail(q))
      BY <1>1 DEF Queued
    <2>1. i - 1 \in 1..Len(q) - 1 /\ Tail(q)[i - 1] = q[i]
      BY <1>1
    <2>. QED  BY <1>1, <2>1 DEF Queued
  <1>3. {Head(q)} \cup Queued(Tail(q)) \subseteq Queued(q)
    BY <1>1 DEF Queued
  <1>4. Distinct(q) => Distinct(Tail(q)) /\ Head(q) \notin Queued(Tail(q))
    BY <1>1 DEF Distinct, Queued
  <1>. QED  BY <1>1, <1>2, <1>3, <1>4

(* A channel holds what was sent to it.                                     *)
LEMMA QueuedIn ==
    ASSUME NEW S, NEW q \in Seq(S)
    PROVE  Queued(q) \subseteq S
  BY DEF Queued

(* Every connection has an ID that may be a key of the map.                 *)
LEMMA KeysAre == \A c \in Clients : idOf[c] \in Ids
  BY DEF Ids

(* Who could still be known to the hub or to a goroutine.                   *)
LEMMA AliveStays ==
    ASSUME HubTypes, OwnEntry, HubHolds, SendersHold, [HubNext]_hubVars, NEW c \in Clients, Alive(c)'
    PROVE  Alive(c) \/ HandleWebSocketConnection(c)
  <1>0. idOf[c] \in Ids /\ None \notin Clients
    BY KeysAre, HubAssumption DEF HubAssumption
  <1>1. ASSUME NEW d \in Clients, HandleWebSocketConnection(d)
        PROVE  Alive(c) \/ HandleWebSocketConnection(c)
    <2>. SUFFICES ASSUME d # c PROVE Alive(c)
      BY <1>1
    <2>1. Queued(register') = Queued(register) \cup {d}
      BY <1>1, Appends DEF HandleWebSocketConnection, HubTypes
    <2>. QED  BY <1>1, <2>1 DEF HandleWebSocketConnection, Alive, Registered, HubTypes
  <1>2. ASSUME NEW d \in Clients, ReadFails(d) PROVE Alive(c)
    BY <1>2 DEF ReadFails, Alive, Registered, HubTypes, channels
  <1>3. ASSUME NEW d \in Clients, ReadPumpEnds(d) PROVE Alive(c)
    <2>1. Queued(unregister') = Queued(unregister) \cup {d}
      BY <1>3, Appends DEF ReadPumpEnds, HubTypes
    <2>. QED  BY <1>3, <2>1 DEF ReadPumpEnds, Alive, Registered, HubTypes
  <1>4. ASSUME NEW d \in Clients, WritePumpSends(d) \/ WritePumpEnds(d) PROVE Alive(c)
    BY <1>4 DEF WritePumpSends, WritePumpEnds, Alive, Registered, channels, pumps
  <1>5. CASE HubRegisters
    <2>1. Head(register) \in Clients /\ Queued(register) = {Head(register)} \cup Queued(register')
      BY <1>5, TakesFirst DEF HubRegisters, HubTypes
    <2>2. Registered(c)' => Registered(c) \/ c = Head(register)
      BY <1>0, <1>5, <2>1 DEF HubRegisters, Registered, HubTypes
    <2>. QED  BY <1>5, <2>1, <2>2 DEF HubRegisters, Alive, pumps
  <1>6. CASE HubUnregisters
    <2>1. Head(unregister) \in Clients /\ Queued(unregister) = {Head(unregister)} \cup Queued(unregister')
      BY <1>6, TakesFirst DEF HubUnregisters, HubTypes
    <2>2. Registered(c)' => Registered(c)
      BY <1>0, <1>6, <2>1 DEF HubUnregisters, Registered, HubTypes
    <2>3. hub'.todo \cup {hub'.cur} \subseteq hub.todo \cup {hub.cur, None}
      BY <1>6 DEF HubUnregisters, Close, Selecting, HubAt
    <2>. QED  BY <1>0, <1>6, <2>1, <2>2, <2>3 DEF HubUnregisters, Alive, pumps
  <1>7. CASE HubPings
    BY <1>0, <1>7 DEF HubPings, Alive, Registered, pumps, channels, HubAt
  <1>8. ASSUME NEW d \in Clients, HubSends(d) PROVE Alive(c)
    <2>1. hub'.todo \cup {hub'.cur} \subseteq hub.todo \cup {hub.cur, None}
      BY <1>8 DEF HubSends, Selecting, HubAt
    <2>. QED  BY <1>0, <1>8, <2>1 DEF HubSends, Alive, Registered, pumps, channels
  <1>9. CASE HubUnregisterClient
    <2>1. Queued(unregister') = Queued(unregister) \cup {hub.cur}
      BY <1>9, Appends DEF HubUnregisterClient, HubTypes, HubHolds
    <2>2. hub'.todo \cup {hub'.cur} \subseteq hub.todo \cup {hub.cur, None}
      BY <1>9 DEF HubUnregisterClient, Selecting, HubAt
    <2>. QED  BY <1>0, <1>9, <2>1, <2>2 DEF HubUnregisterClient, Alive, Registered
  <1>10. ASSUME NEW stale \in SUBSET Clients, CleanupStale(stale) PROVE Alive(c)
    <2>1. hub'.todo \cup {hub'.cur} \subseteq hub.todo \cup {hub.cur, None}
      BY <1>10 DEF CleanupStale, Close, Selecting, HubAt
    <2>2. Registered(c)' => Registered(c)
      BY <1>0, <1>10 DEF CleanupStale, Registered, HubTypes
    <2>. QED  BY <1>0, <1>10, <2>1, <2>2 DEF CleanupStale, Alive, channels
  <1>11. ASSUME NEW s \in Senders, NEW id \in Ids, LookUp(s, id) PROVE Alive(c)
    BY <1>0, <1>11 DEF LookUp, Alive, Registered, channels, pumps, SendersHold, OwnEntry
  <1>12. ASSUME NEW s \in Senders, SenderSends(s) PROVE Alive(c)
    <2>1. \A r \in Senders : sender'[r].cur \in {sender[r].cur, None}
      BY <1>12 DEF SenderSends, SendersHold, Quiet
    <2>. QED  BY <1>0, <1>12, <2>1 DEF SenderSends, Alive, Registered, channels, pumps
  <1>13. ASSUME NEW s \in Senders, SenderUnregisters(s) PROVE Alive(c)
    <2>1. \A r \in Senders : sender'[r].cur \in {sender[r].cur, None}
      BY <1>13 DEF SenderUnregisters, SendersHold, Quiet
    <2>2. Queued(unregister') = Queued(unregister) \cup {sender[s].cur}
      BY <1>13, Appends DEF SenderUnregisters, HubTypes, SendersHold
    <2>. QED  BY <1>0, <1>13, <2>1, <2>2 DEF SenderUnregisters, Alive, Registered
  <1>14. CASE UNCHANGED hubVars
    BY <1>14 DEF hubVars, Alive, Registered
  <1>. QED
    BY <1>1, <1>2, <1>3, <1>4, <1>5, <1>6, <1>7, <1>8, <1>9, <1>10, <1>11, <1>12, <1>13, <1>14
    DEF HubNext, HubStep, SenderStep

(* Every step of Run, of a pump and of a broadcaster keeps the map, the     *)
(* channels and the pumps well typed, and files each client under its own   *)
(* ID.                                                                      *)
LEMMA HubTypesStep ==
    ASSUME HubTypes, OwnEntry, HubHolds, SendersHold, [HubNext]_hubVars
    PROVE  HubTypes' /\ OwnEntry'
  <1>0. None \notin Clients /\ \A c \in Clients : idOf[c] \in Ids
    BY KeysAre, HubAssumption DEF HubAssumption
  <1>1. ASSUME NEW c \in Clients, HandleWebSocketConnection(c) PROVE HubTypes' /\ OwnEntry'
    BY <1>1, Appends DEF HandleWebSocketConnection, HubTypes, OwnEntry, sends
  <1>2. ASSUME NEW c \in Clients, ReadFails(c) PROVE HubTypes' /\ OwnEntry'
    BY <1>2 DEF ReadFails, HubTypes, OwnEntry, sends, channels
  <1>3. ASSUME NEW c \in Clients, ReadPumpEnds(c) PROVE HubTypes' /\ OwnEntry'
    BY <1>3, Appends DEF ReadPumpEnds, HubTypes, OwnEntry, sends
  <1>4. ASSUME NEW c \in Clients, WritePumpSends(c) \/ WritePumpEnds(c) PROVE HubTypes' /\ OwnEntry'
    BY <1>4 DEF WritePumpSends, WritePumpEnds, HubTypes, OwnEntry, sends, channels, pumps
  <1>5. CASE HubRegisters
    <2>1. Head(register) \in Clients /\ register' \in Seq(Clients)
      BY <1>5, TakesFirst DEF HubRegisters, HubTypes
    <2>. QED  BY <1>0, <1>5, <2>1 DEF HubRegisters, HubTypes, OwnEntry, sends, pumps
  <1>6. CASE HubUnregisters
    <2>1. Head(unregister) \in Clients /\ unregister' \in Seq(Clients)
      BY <1>6, TakesFirst DEF HubUnregisters, HubTypes
    <2>. QED  BY <1>0, <1>6, <2>1 DEF HubUnregisters, HubTypes, OwnEntry, Close, pumps
  <1>7. CASE HubPings
    BY <1>7 DEF HubPings, HubTypes, OwnEntry, sends, pumps, channels
  <1>8. ASSUME NEW c \in Clients, HubSends(c) PROVE HubTypes' /\ OwnEntry'
    BY <1>8 DEF HubSends, HubTypes, OwnEntry, pumps, channels
  <1>9. CASE HubUnregisterClient
    BY <1>9, Appends DEF HubUnregisterClient, HubTypes, OwnEntry, HubHolds, sends
  <1>10. ASSUME NEW stale \in SUBSET Clients, CleanupStale(stale) PROVE HubTypes' /\ OwnEntry'
    BY <1>10 DEF CleanupStale, Close, HubTypes, OwnEntry, channels
  <1>11. ASSUME NEW s \in Senders, NEW id \in Ids, LookUp(s, id) PROVE HubTypes' /\ OwnEntry'
    BY <1>11 DEF LookUp, HubTypes, OwnEntry, sends, pumps, channels
  <1>12. ASSUME NEW s \in Senders, SenderSends(s) PROVE HubTypes' /\ OwnEntry'
    BY <1>12 DEF SenderSends, HubTypes, OwnEntry, pumps, channels
  <1>13. ASSUME NEW s \in Senders, SenderUnregisters(s) PROVE HubTypes' /\ OwnEntry'
    BY <1>13, Appends DEF SenderUnregisters, HubTypes, OwnEntry, SendersHold, sends
  <1>14. CASE UNCHANGED hubVars
    BY <1>14 DEF hubVars, HubTypes, OwnEntry
  <1>. QED
    BY <1>1, <1>2, <1>3, <1>4, <1>5, <1>6, <1>7, <1>8, <1>9, <1>10, <1>11, <1>12, <1>13, <1>14
    DEF HubNext, HubStep, SenderStep

(* The hub and the broadcasters go on holding clients that they found in    *)
(* the map: unregisterClient and cleanup run on the hub's own goroutine,    *)
(* between two of its sends.                                                *)
LEMMA HoldersStep ==
    ASSUME HubTypes, OwnEntry, HubHolds, SendersHold, [HubNext]_hubVars
    PROVE  HubHolds' /\ SendersHold'
  <1>0. None \notin Clients /\ \A c \in Clients : idOf[c] \in Ids
    BY KeysAre, HubAssumption DEF HubAssumption
  <1>1. ASSUME UNCHANGED <<clients, hub, sender>> PROVE HubHolds' /\ SendersHold'
    BY <1>1 DEF HubHolds, SendersHold, Registered
  <1>2. ASSUME NEW c \in Clients,
               HandleWebSocketConnection(c) \/ ReadFails(c) \/ ReadPumpEnds(c)
                  \/ WritePumpSends(c) \/ WritePumpEnds(c)
        PROVE  UNCHANGED <<clients, hub, sender>>
    BY <1>2 DEF HandleWebSocketConnection, ReadFails, ReadPumpEnds, WritePumpSends, WritePumpEnds
  <1>3. ASSUME UNCHANGED sender PROVE SendersHold'
    BY <1>3 DEF SendersHold
  <1>4. ASSUME UNCHANGED <<clients, hub>> PROVE HubHolds'
    BY <1>4 DEF HubHolds, Registered
  <1>5. CASE HubRegisters
    BY <1>3, <1>5 DEF HubRegisters, HubHolds
  <1>6. CASE HubUnregisters
    <2>1. hub'.pc \in {"select", "panicked"} /\ hub'.todo \subseteq Clients
      BY <1>6 DEF HubUnregisters, Close, Selecting, HubAt, HubHolds
    <2>. QED  BY <1>3, <1>6, <2>1 DEF HubUnregisters, HubHolds
  <1>7. CASE HubPings
    <2>1. hub'.pc = "send" /\ hub'.todo = {c \in Clients : Registered(c)}
      BY <1>7 DEF HubPings, HubAt
    <2>. QED  BY <1>3, <1>7, <2>1 DEF HubPings, HubHolds, Registered
  <1>8. ASSUME NEW c \in Clients, HubSends(c) PROVE HubHolds' /\ SendersHold'
    <2>1. /\ hub'.pc \in {"select", "send", "blocked", "panicked"} /\ hub'.todo \subseteq hub.todo
          /\ hub'.pc = "blocked" => hub'.cur = c
      BY <1>8 DEF HubSends, Selecting, HubAt
    <2>. QED  BY <1>3, <1>8, <2>1 DEF HubSends, HubHolds, Registered
  <1>9. CASE HubUnregisterClient
    <2>1. hub'.pc \in {"select", "send"} /\ hub'.todo \subseteq hub.todo
      BY <1>9 DEF HubUnregisterClient, Selecting, HubAt
    <2>. QED  BY <1>3, <1>9, <2>1 DEF HubUnregisterClient, HubHolds, Registered
  <1>10. ASSUME NEW stale \in SUBSET Clients, CleanupStale(stale) PROVE HubHolds' /\ SendersHold'
    <2>1. hub'.pc \in {"select", "panicked"} /\ hub'.todo \subseteq Clients
      BY <1>10 DEF CleanupStale, Close, Selecting, HubAt
    <2>. QED  BY <1>3, <1>10, <2>1 DEF CleanupStale, HubHolds
  <1>11. ASSUME NEW s \in Senders, NEW id \in Ids, LookUp(s, id) PROVE HubHolds' /\ SendersHold'
    BY <1>4, <1>11 DEF LookUp, SendersHold, HubTypes
  <1>12. ASSUME NEW s \in Senders, SenderSends(s) PROVE HubHolds' /\ SendersHold'
    BY <1>4, <1>12 DEF SenderSends, SendersHold, Quiet
  <1>13. ASSUME NEW s \in Senders, SenderUnregisters(s) PROVE HubHolds' /\ SendersHold'
    BY <1>4, <1>13 DEF SenderUnregisters, SendersHold, Quiet
  <1>14. CASE UNCHANGED hubVars
    BY <1>1, <1>14 DEF hubVars
  <1>. QED
    BY <1>1, <1>2, <1>5, <1>6, <1>7, <1>8, <1>9, <1>10, <1>11, <1>12, <1>13, <1>14
    DEF HubNext, HubStep, SenderStep

(* What a property excuses stays excused.                                   *)
LEMMA HubIncidentsGrow == [HubNext]_hubVars => hubIncidents \subseteq hubIncidents'
  BY DEF HubNext, HubStep, SenderStep, hubVars, HandleWebSocketConnection, ReadFails, ReadPumpEnds,
         WritePumpSends, WritePumpEnds, HubRegisters, HubUnregisters, HubPings, HubSends,
         HubUnregisterClient, CleanupStale, LookUp, SenderSends, SenderUnregisters, Note

(* The steps that touch neither the map nor the channels nor a read pump.   *)
Elsewhere ==
    \/ \E c \in Clients : WritePumpSends(c) \/ WritePumpEnds(c) \/ HubSends(c)
    \/ HubPings
    \/ \E s \in Senders : (\E id \in Ids : LookUp(s, id)) \/ SenderSends(s)
    \/ UNCHANGED hubVars

(* The steps that neither register, unregister nor close a connection.      *)
LEMMA ElsewhereStays == Elsewhere => UNCHANGED <<clients, register, unregister, closed, reader>>
  BY DEF Elsewhere, WritePumpSends, WritePumpEnds, HubSends, HubPings, LookUp, SenderSends,
         hubVars, channels, sends, pumps

(* The steps that do.                                                       *)
LEMMA HubCases ==
    ASSUME [HubNext]_hubVars
    PROVE  \/ \E c \in Clients : HandleWebSocketConnection(c) \/ ReadFails(c) \/ ReadPumpEnds(c)
           \/ HubRegisters \/ HubUnregisters \/ HubUnregisterClient
           \/ \E stale \in SUBSET Clients : CleanupStale(stale)
           \/ \E s \in Senders : SenderUnregisters(s)
           \/ Elsewhere
  BY DEF HubNext, HubStep, SenderStep, Elsewhere

(* HandleWebSocketConnection sends a connection to the register channel     *)
(* once, and nothing was closed before.                                     *)
LEMMA HubOnceStep ==
    ASSUME HubShape, [HubNext]_hubVars
    PROVE  Fresh' /\ Once'
  <1>0. /\ HubTypes /\ OwnEntry /\ HubHolds /\ SendersHold /\ Fresh /\ Once
        /\ None \notin Clients /\ \A c \in Clients : idOf[c] \in Ids
    BY KeysAre, HubAssumption DEF HubAssumption, HubShape
  <1>1. ASSUME NEW c \in Clients, c \in closed' PROVE c \in closed \/ Alive(c)
    <2>1. CASE HubUnregisters
      <3>1. Head(unregister) \in Queued(unregister)
        BY <1>0, <2>1, TakesFirst DEF HubUnregisters, HubTypes
      <3>. QED  BY <1>1, <2>1, <3>1 DEF HubUnregisters, Close, Alive
    <2>2. CASE \E stale \in SUBSET Clients : CleanupStale(stale)
      BY <1>1, <2>2 DEF CleanupStale, Close, Alive
    <2>3. CASE Elsewhere
      BY <1>1, <2>3, ElsewhereStays
    <2>4. CASE \/ \E d \in Clients : HandleWebSocketConnection(d) \/ ReadFails(d) \/ ReadPumpEnds(d)
               \/ HubRegisters \/ HubUnregisterClient
               \/ \E s \in Senders : SenderUnregisters(s)
      BY <1>1, <2>4 DEF HandleWebSocketConnection, ReadFails, ReadPumpEnds, HubRegisters,
                        HubUnregisterClient, SenderUnregisters, sends
    <2>. QED  BY <2>1, <2>2, <2>3, <2>4, HubCases
  <1>2. ASSUME NEW c \in Clients, reader'[c] = "none"
        PROVE  reader[c] = "none" /\ ~HandleWebSocketConnection(c)
    <2>1. ~HandleWebSocketConnection(c)
      BY <1>0, <1>2 DEF HandleWebSocketConnection, HubTypes
    <2>2. CASE \E d \in Clients : HandleWebSocketConnection(d) \/ ReadFails(d) \/ ReadPumpEnds(d)
      BY <1>0, <1>2, <2>2 DEF HandleWebSocketConnection, ReadFails, ReadPumpEnds, HubTypes
    <2>3. CASE \/ HubRegisters \/ HubUnregisters \/ HubUnregisterClient
               \/ \E stale \in SUBSET Clients : CleanupStale(stale)
               \/ \E s \in Senders : SenderUnregisters(s)
      BY <1>2, <2>1, <2>3 DEF HubRegisters, HubUnregisters, HubUnregisterClient, CleanupStale,
                        SenderUnregisters, pumps
    <2>4. CASE Elsewhere
      BY <1>2, <2>1, <2>4, ElsewhereStays
    <2>5. reader[c] = "none"
      BY <2>2, <2>3, <2>4, <1>2, HubCases
    <2>. QED  BY <2>1, <2>5
  <1>3. Fresh'
    <2>. SUFFICES ASSUME NEW c \in Clients, reader'[c] = "none" PROVE ~Alive(c)' /\ c \notin closed'
      BY DEF Fresh
    <2>. QED  BY <1>0, <1>1, <1>2, AliveStays DEF Fresh
  <1>4. Once'
    <2>1. ASSUME UNCHANGED register, \A c \in Clients : Registered(c)' => Registered(c) PROVE Once'
      <3>1. Queued(register) \subseteq Clients
        BY <1>0, QueuedIn DEF HubTypes
      <3>. QED  BY <1>0, <2>1, <3>1 DEF Once, Registered
    <2>2. ASSUME NEW c \in Clients, HandleWebSocketConnection(c) PROVE Once'
      <3>1. c \notin Queued(register) /\ ~Registered(c)
        BY <1>0, <2>2 DEF HandleWebSocketConnection, Fresh, Alive
      <3>2. Distinct(register') /\ Queued(register') = Queued(register) \cup {c}
        BY <1>0, <2>2, <3>1, Appends DEF HandleWebSocketConnection, HubTypes, Once
      <3>. QED  BY <1>0, <2>2, <3>1, <3>2 DEF HandleWebSocketConnection, Once, Registered
    <2>3. CASE HubRegisters
      <3>1. /\ Head(register) \in Clients /\ Distinct(register') /\ Head(register) \notin Queued(register')
            /\ Queued(register) = {Head(register)} \cup Queued(register')
        BY <1>0, <2>3, TakesFirst DEF HubRegisters, HubTypes, Once
      <3>2. Queued(register) \subseteq Clients
        BY <1>0, QueuedIn DEF HubTypes
      <3>3. ASSUME NEW c \in Queued(register') PROVE ~Registered(c)'
        <4>1. c # Head(register) /\ ~Registered(c) /\ idOf[c] \in Ids
          BY <1>0, <3>1, <3>2, <3>3 DEF Once
        <4>. QED  BY <1>0, <2>3, <3>1, <4>1 DEF HubRegisters, Registered, HubTypes
      <3>. QED  BY <3>1, <3>3 DEF Once
    <2>4. CASE HubUnregisters
      <3>1. Head(unregister) \in Clients
        BY <1>0, <2>4, TakesFirst DEF HubUnregisters, HubTypes
      <3>. QED  BY <1>0, <2>1, <2>4, <3>1 DEF HubUnregisters, Registered, HubTypes
    <2>5. ASSUME NEW stale \in SUBSET Clients, CleanupStale(stale) PROVE Once'
      BY <1>0, <2>1, <2>5 DEF CleanupStale, Registered, HubTypes, channels
    <2>6. CASE \/ \E c \in Clients : ReadFails(c) \/ ReadPumpEnds(c)
               \/ HubUnregisterClient \/ \E s \in Senders : SenderUnregisters(s)
      BY <2>1, <2>6 DEF ReadFails, ReadPumpEnds, HubUnregisterClient, SenderUnregisters, Registered, channels
    <2>7. CASE Elsewhere
      BY <2>1, <2>7, ElsewhereStays DEF Registered
    <2>. QED  BY <2>2, <2>3, <2>4, <2>5, <2>6, <2>7, HubCases
  <1>. QED  BY <1>3, <1>4

(* Without a second connection under an ID that is still known, no two      *)
(* connections share one.                                                   *)
LEMMA TwinsStep ==
    ASSUME HubShape, TwinsApart, [HubNext]_hubVars
    PROVE  TwinsApart'
  <1>. SUFFICES ASSUME "twin" \notin hubIncidents', NEW c \in Clients, NEW d \in Clients,
                       Alive(c)', Alive(d)', idOf[c] = idOf[d], c # d
                PROVE  FALSE
    BY DEF TwinsApart
  <1>1. ~(Alive(c) /\ Alive(d))
    BY HubIncidentsGrow DEF TwinsApart
  <1>2. /\ Alive(c) \/ HandleWebSocketConnection(c)
        /\ Alive(d) \/ HandleWebSocketConnection(d)
    BY AliveStays DEF HubShape
  <1>3. ASSUME HandleWebSocketConnection(c) PROVE ~Alive(d) /\ ~HandleWebSocketConnection(d)
    <2>1. ~Alive(d)
      BY <1>3 DEF HandleWebSocketConnection, Note
    <2>2. ~HandleWebSocketConnection(d)
      BY <1>3 DEF HandleWebSocketConnection, HubShape, HubTypes
    <2>. QED  BY <2>1, <2>2
  <1>4. ASSUME HandleWebSocketConnection(d) PROVE ~Alive(c)
    BY <1>4 DEF HandleWebSocketConnection, Note
  <1>. QED  BY <1>1, <1>2, <1>3, <1>4

(* A read pump sends its connection to the unregister channel before it is  *)
(* over, and the entry waits for that; select may take the two channels in  *)
(* the other order, which is the inversion.                                 *)
LEMMA DoneStep ==
    ASSUME HubShape, DoneLeaves, [HubNext]_hubVars
    PROVE  DoneLeaves'
  <1>. SUFFICES ASSUME "inverted" \notin hubIncidents', NEW c \in Clients, reader'[c] = "done",
                       Registered(c)' \/ c \in Queued(register')
                PROVE  c \in Queued(unregister')
    BY DEF DoneLeaves
  <1>0. /\ HubTypes /\ HubHolds /\ SendersHold /\ idOf[c] \in Ids /\ None \notin Clients
        /\ (Registered(c) \/ c \in Queued(register)) /\ reader[c] = "done" => c \in Queued(unregister)
    BY KeysAre, HubIncidentsGrow, HubAssumption DEF HubAssumption, HubShape, DoneLeaves
  <1>1. ASSUME NEW d \in Clients, HandleWebSocketConnection(d) PROVE c \in Queued(unregister')
    <2>1. Queued(register') = Queued(register) \cup {d}
      BY <1>0, <1>1, Appends DEF HandleWebSocketConnection, HubTypes
    <2>. QED  BY <1>0, <1>1, <2>1 DEF HandleWebSocketConnection, HubTypes, Registered
  <1>2. ASSUME NEW d \in Clients, ReadFails(d) PROVE c \in Queued(unregister')
    BY <1>0, <1>2 DEF ReadFails, HubTypes, Registered, channels
  <1>3. ASSUME NEW d \in Clients, ReadPumpEnds(d) PROVE c \in Queued(unregister')
    <2>1. Queued(unregister') = Queued(unregister) \cup {d}
      BY <1>0, <1>3, Appends DEF ReadPumpEnds, HubTypes
    <2>. QED  BY <1>0, <1>3, <2>1 DEF ReadPumpEnds, HubTypes, Registered
  <1>4. CASE HubRegisters
    <2>1. Head(register) \in Clients /\ Queued(register) = {Head(register)} \cup Queued(register')
      BY <1>0, <1>4, TakesFirst DEF HubRegisters, HubTypes
    <2>2. Registered(c)' => Registered(c) \/ c = Head(register)
      BY <1>0, <1>4, <2>1 DEF HubRegisters, Registered, HubTypes
    <2>. QED  BY <1>0, <1>4, <2>1, <2>2 DEF HubRegisters, pumps
  <1>5. CASE HubUnregisters
    <2>1. /\ Head(unregister) \in Clients
          /\ Queued(unregister) = {Head(unregister)} \cup Queued(unregister')
      BY <1>0, <1>5, TakesFirst DEF HubUnregisters, HubTypes
    <2>2. Registered(c)' => Registered(c) /\ c # Head(unregister)
      BY <1>0, <1>5, <2>1 DEF HubUnregisters, Registered, HubTypes
    <2>3. c \in Queued(register') => c # Head(unregister)
      BY <1>5 DEF HubUnregisters, Note
    <2>. QED  BY <1>0, <1>5, <2>1, <2>2, <2>3 DEF HubUnregisters, pumps
  <1>6. CASE HubUnregisterClient
    <2>1. Queued(unregister') = Queued(unregister) \cup {hub.cur}
      BY <1>0, <1>6, Appends DEF HubUnregisterClient, HubTypes, HubHolds
    <2>. QED  BY <1>0, <1>6, <2>1 DEF HubUnregisterClient, Registered
  <1>7. ASSUME NEW stale \in SUBSET Clients, CleanupStale(stale) PROVE c \in Queued(unregister')
    <2>1. Registered(c)' => Registered(c)
      BY <1>0, <1>7 DEF CleanupStale, Registered, HubTypes
    <2>. QED  BY <1>0, <1>7, <2>1 DEF CleanupStale, channels
  <1>8. ASSUME NEW s \in Senders, SenderUnregisters(s) PROVE c \in Queued(unregister')
    <2>1. Queued(unregister') = Queued(unregister) \cup {sender[s].cur}
      BY <1>0, <1>8, Appends DEF SenderUnregisters, HubTypes, SendersHold
    <2>. QED  BY <1>0, <1>8, <2>1 DEF SenderUnregisters, Registered
  <1>9. CASE Elsewhere
    BY <1>0, <1>9, ElsewhereStays DEF Registered
  <1>. QED  BY <1>1, <1>2, <1>3, <1>4, <1>5, <1>6, <1>7, <1>8, <1>9, HubCases

(* As long as no send found a full buffer, only read pumps send to the      *)
(* unregister channel.                                                      *)
LEMMA PumpsStep ==
    ASSUME HubShape, PumpsUnregister, [HubNext]_hubVars
    PROVE  PumpsUnregister'
  <1>. SUFFICES ASSUME "overflow" \notin hubIncidents' PROVE PumpsUnregister'
    BY DEF PumpsUnregister
  <1>0. /\ HubTypes /\ HubHolds /\ SendersHold /\ Queued(unregister) \subseteq Clients
        /\ \A c \in Queued(unregister) : reader[c] = "done"
        /\ hub.pc # "blocked" /\ \A s \in Senders : sender[s].pc # "blocked"
    BY HubIncidentsGrow, QueuedIn DEF HubShape, PumpsUnregister, HubTypes
  <1>1. ASSUME NEW c \in Clients, HandleWebSocketConnection(c) PROVE PumpsUnregister'
    BY <1>0, <1>1 DEF HandleWebSocketConnection, HubTypes, PumpsUnregister
  <1>2. ASSUME NEW c \in Clients, ReadFails(c) PROVE PumpsUnregister'
    BY <1>0, <1>2 DEF ReadFails, HubTypes, PumpsUnregister, channels
  <1>3. ASSUME NEW c \in Clients, ReadPumpEnds(c) PROVE PumpsUnregister'
    <2>1. Queued(unregister') = Queued(unregister) \cup {c}
      BY <1>0, <1>3, Appends DEF ReadPumpEnds, HubTypes
    <2>. QED  BY <1>0, <1>3, <2>1 DEF ReadPumpEnds, HubTypes, PumpsUnregister
  <1>4. CASE HubRegisters
    BY <1>0, <1>4 DEF HubRegisters, PumpsUnregister, pumps
  <1>5. CASE HubUnregisters
    <2>1. Queued(unregister') \subseteq Queued(unregister)
      BY <1>0, <1>5, TakesFirst DEF HubUnregisters, HubTypes
    <2>2. hub'.pc # "blocked"
      BY <1>0, <1>5 DEF HubUnregisters, Close, Selecting, HubAt
    <2>. QED  BY <1>0, <1>5, <2>1, <2>2 DEF HubUnregisters, PumpsUnregister, pumps
  <1>6. CASE HubUnregisterClient
    BY <1>0, <1>6 DEF HubUnregisterClient
  <1>7. ASSUME NEW stale \in SUBSET Clients, CleanupStale(stale) PROVE PumpsUnregister'
    <2>1. hub'.pc # "blocked"
      BY <1>7 DEF CleanupStale, Close, Selecting, HubAt
    <2>. QED  BY <1>0, <1>7, <2>1 DEF CleanupStale, PumpsUnregister, channels
  <1>8. ASSUME NEW s \in Senders, SenderUnregisters(s) PROVE PumpsUnregister'
    BY <1>0, <1>8 DEF SenderUnregisters
  <1>9. CASE Elsewhere
    <2>1. UNCHANGED <<unregister, reader>>
      BY <1>9, ElsewhereStays
    <2>2. hub'.pc # "blocked"
      BY <1>0, <1>9 DEF Elsewhere, WritePumpSends, WritePumpEnds, HubSends, HubPings, LookUp,
                        SenderSends, hubVars, Selecting, HubAt
    <2>3. \A s \in Senders : sender'[s].pc # "blocked"
      <3>1. ASSUME NEW s \in Senders, SenderSends(s) PROVE sender' = [sender EXCEPT ![s] = Quiet]
        BY <3>1 DEF SenderSends
      <3>2. ASSUME NEW s \in Senders, NEW id \in Ids, LookUp(s, id)
            PROVE  sender' = [sender EXCEPT ![s] = [pc |-> "send", cur |-> clients[id]]]
        BY <3>2 DEF LookUp
      <3>3. ASSUME ~\E s \in Senders : SenderSends(s) \/ \E id \in Ids : LookUp(s, id)
            PROVE  UNCHANGED sender
        BY <1>9, <3>3 DEF Elsewhere, WritePumpSends, WritePumpEnds, HubSends, HubPings, hubVars
      <3>. QED  BY <1>0, <3>1, <3>2, <3>3 DEF SendersHold, Quiet
    <2>. QED  BY <1>0, <2>1, <2>2, <2>3 DEF PumpsUnregister
  <1>. QED  BY <1>1, <1>2, <1>3, <1>4, <1>5, <1>6, <1>7, <1>8, <1>9, HubCases

(* A connection whose read pump runs stays in the map, or on its way there: *)
(* an entry goes when the hub unregisters it or sweeps it as stale, both    *)
(* after its pump, or files a twin over it.                                 *)
LEMMA ListedStep ==
    ASSUME HubShape, TwinsApart, PumpsUnregister, ConnectedIsListed, [HubNext]_hubVars
    PROVE  ConnectedIsListed'
  <1>. SUFFICES ASSUME hubIncidents' \cap {"twin", "overflow"} = {}, NEW c \in Clients,
                       reader'[c] = "reading", c \notin Queued(register')
                PROVE  Registered(c)'
    BY DEF ConnectedIsListed
  <1>0. /\ HubTypes /\ OwnEntry /\ HubHolds /\ SendersHold /\ Once
        /\ idOf[c] \in Ids /\ None \notin Clients
        /\ reader[c] = "reading" /\ c \notin Queued(register) => Registered(c)
        /\ \A d \in Queued(unregister) : reader[d] = "done"
        /\ hub.pc # "blocked" /\ \A s \in Senders : sender[s].pc # "blocked"
    BY KeysAre, HubIncidentsGrow, HubAssumption
    DEF HubAssumption, HubShape, ConnectedIsListed, PumpsUnregister
  <1>t. \A d \in Clients : Alive(c) /\ Alive(d) /\ idOf[c] = idOf[d] => c = d
    BY HubIncidentsGrow DEF TwinsApart
  <1>1. ASSUME NEW d \in Clients, HandleWebSocketConnection(d) PROVE Registered(c)'
    <2>1. Queued(register') = Queued(register) \cup {d}
      BY <1>0, <1>1, Appends DEF HandleWebSocketConnection, HubTypes
    <2>. QED  BY <1>0, <1>1, <2>1 DEF HandleWebSocketConnection, HubTypes, Registered
  <1>2. ASSUME NEW d \in Clients, ReadFails(d) PROVE Registered(c)'
    BY <1>0, <1>2 DEF ReadFails, HubTypes, Registered, channels
  <1>3. ASSUME NEW d \in Clients, ReadPumpEnds(d) PROVE Registered(c)'
    BY <1>0, <1>3 DEF ReadPumpEnds, HubTypes, Registered
  <1>4. CASE HubRegisters
    <2>1. Head(register) \in Clients /\ Queued(register) = {Head(register)} \cup Queued(register')
      BY <1>0, <1>4, TakesFirst DEF HubRegisters, HubTypes
    <2>2. CASE c = Head(register)
      BY <1>0, <1>4, <2>2 DEF HubRegisters, Registered, HubTypes
    <2>3. CASE c # Head(register)
      <3>1. reader[c] = "reading" /\ Registered(c)
        BY <1>0, <1>4, <2>1, <2>3 DEF HubRegisters, pumps
      <3>2. idOf[Head(register)] # idOf[c]
        BY <1>t, <2>1, <2>3, <3>1 DEF Alive
      <3>. QED  BY <1>0, <1>4, <3>1, <3>2 DEF HubRegisters, Registered, HubTypes
    <2>. QED  BY <2>2, <2>3
  <1>5. CASE HubUnregisters
    <2>1. Head(unregister) \in Clients /\ Head(unregister) \in Queued(unregister)
      BY <1>0, <1>5, TakesFirst DEF HubUnregisters, HubTypes
    <2>2. reader[c] = "reading" /\ Registered(c) /\ reader[Head(unregister)] = "done"
      BY <1>0, <1>5, <2>1 DEF HubUnregisters, pumps
    <2>3. idOf[Head(unregister)] # idOf[c]
      BY <1>t, <2>1, <2>2 DEF Alive
    <2>. QED  BY <1>0, <1>5, <2>2, <2>3 DEF HubUnregisters, Registered, HubTypes
  <1>6. CASE HubUnregisterClient
    BY <1>0, <1>6 DEF HubUnregisterClient
  <1>7. ASSUME NEW stale \in SUBSET Clients, CleanupStale(stale) PROVE Registered(c)'
    <2>1. reader[c] = "reading" /\ Registered(c) /\ c \notin stale
      BY <1>0, <1>7 DEF CleanupStale, channels
    <2>. QED  BY <1>0, <1>7, <2>1 DEF CleanupStale, Registered, HubTypes
  <1>8. ASSUME NEW s \in Senders, SenderUnregisters(s) PROVE Registered(c)'
    BY <1>0, <1>8 DEF SenderUnregisters
  <1>9. CASE Elsewhere
    BY <1>0, <1>9, ElsewhereStays DEF Registered
  <1>. QED  BY <1>1, <1>2, <1>3, <1>4, <1>5, <1>6, <1>7, <1>8, <1>9, HubCases

(* Without twins, unregisterClient and cleanup close the Send channel of    *)
(* the one entry they take out of the map, so that it is never closed again *)
(* nor sent to.                                                             *)
LEMMA GoneStep ==
    ASSUME HubShape, TwinsApart, ClosedIsGone, [HubNext]_hubVars
    PROVE  ClosedIsGone'
  <1>. SUFFICES ASSUME "twin" \notin hubIncidents' PROVE ClosedIsGone'
    BY DEF ClosedIsGone
  <1>0. /\ HubTypes /\ OwnEntry /\ HubHolds /\ SendersHold /\ Once /\ Fresh
        /\ None \notin Clients /\ \A c \in Clients : idOf[c] \in Ids
        /\ \A c \in closed : ~Registered(c) /\ c \notin Queued(register)
        /\ hub.pc # "panicked" /\ closed \subseteq Clients
    BY KeysAre, HubIncidentsGrow, HubAssumption
    DEF HubAssumption, HubShape, ClosedIsGone, HubTypes
  <1>t. \A c, d \in Clients : Alive(c) /\ Alive(d) /\ idOf[c] = idOf[d] => c = d
    BY HubIncidentsGrow DEF TwinsApart
  <1>1. ASSUME NEW d \in Clients, HandleWebSocketConnection(d) PROVE ClosedIsGone'
    <2>1. Queued(register') = Queued(register) \cup {d} /\ d \notin closed
      BY <1>0, <1>1, Appends DEF HandleWebSocketConnection, HubTypes, Fresh
    <2>. QED  BY <1>0, <1>1, <2>1 DEF HandleWebSocketConnection, Registered, ClosedIsGone, sends
  <1>4. CASE HubRegisters
    <2>1. Head(register) \in Clients /\ Queued(register) = {Head(register)} \cup Queued(register')
      BY <1>0, <1>4, TakesFirst DEF HubRegisters, HubTypes
    <2>2. ASSUME NEW c \in closed PROVE ~Registered(c)' /\ c \notin Queued(register')
      <3>1. c # Head(register) /\ ~Registered(c) /\ c \in Clients
        BY <1>0, <2>1
      <3>. QED  BY <1>0, <1>4, <2>1, <3>1 DEF HubRegisters, Registered, HubTypes
    <2>. QED  BY <1>0, <1>4, <2>2 DEF HubRegisters, ClosedIsGone, sends
  <1>5. CASE HubUnregisters
    <2>. DEFINE c == Head(unregister)
    <2>1. c \in Clients /\ c \in Queued(unregister) /\ Alive(c)
      BY <1>0, <1>5, TakesFirst DEF HubUnregisters, HubTypes, Alive
    <2>2. CASE clients[idOf[c]] # None
      <3>1. clients[idOf[c]] \in Clients /\ idOf[clients[idOf[c]]] = idOf[c]
        BY <1>0, <2>1, <2>2 DEF HubTypes, OwnEntry
      <3>2. Registered(clients[idOf[c]])
        BY <3>1 DEF Registered
      <3>3. Registered(c)
        BY <1>t, <2>1, <3>1, <3>2 DEF Alive
      <3>4. c \notin closed /\ c \notin Queued(register)
        BY <1>0, <3>3 DEF Once
      <3>5. closed' = closed \cup {c} /\ hub'.pc = "select"
        BY <1>5, <2>2, <3>4 DEF HubUnregisters, Close, Selecting, HubAt
      <3>6. clients' = [clients EXCEPT ![idOf[c]] = None] /\ UNCHANGED register
        BY <1>5, <2>2 DEF HubUnregisters
      <3>. HIDE DEF c
      <3>7. ASSUME NEW d \in closed' PROVE ~Registered(d)' /\ d \notin Queued(register)
        <4>1. d \in Clients /\ d \notin Queued(register) /\ (d = c \/ ~Registered(d))
          BY <1>0, <2>1, <3>4, <3>5, <3>7
        <4>. QED  BY <1>0, <2>1, <3>6, <4>1 DEF Registered, HubTypes
      <3>. QED  BY <3>5, <3>6, <3>7 DEF ClosedIsGone
    <2>3. CASE clients[idOf[c]] = None
      BY <1>0, <1>5, <2>3 DEF HubUnregisters, ClosedIsGone, Registered
    <2>. QED  BY <2>2, <2>3
  <1>6. CASE HubUnregisterClient
    <2>1. hub'.pc # "panicked"
      BY <1>6 DEF HubUnregisterClient, Selecting, HubAt
    <2>. QED  BY <1>0, <1>6, <2>1 DEF HubUnregisterClient, Registered, ClosedIsGone, sends
  <1>7. ASSUME NEW stale \in SUBSET Clients, CleanupStale(stale) PROVE ClosedIsGone'
    <2>1. \A c \in stale : Registered(c) /\ c \notin closed /\ c \notin Queued(register)
      BY <1>0, <1>7 DEF CleanupStale, Once
    <2>2. closed' = closed \cup stale /\ hub'.pc = "select"
      BY <1>7, <2>1 DEF CleanupStale, Close, Selecting, HubAt
    <2>3. ASSUME NEW d \in closed' PROVE ~Registered(d)' /\ d \notin Queued(register)
      <3>1. d \in Clients /\ d \notin Queued(register) /\ (d \in stale \/ ~Registered(d))
        BY <1>0, <2>1, <2>2, <2>3
      <3>. QED  BY <1>0, <1>7, <3>1 DEF CleanupStale, Registered, HubTypes
    <2>. QED  BY <1>7, <2>2, <2>3 DEF CleanupStale, ClosedIsGone, channels
  <1>8. CASE \/ \E c \in Clients : ReadFails(c) \/ ReadPumpEnds(c)
             \/ \E s \in Senders : SenderUnregisters(s)
    BY <1>0, <1>8 DEF ReadFails, ReadPumpEnds, SenderUnregisters, Registered, ClosedIsGone, sends, channels
  <1>9. CASE Elsewhere
    <2>1. UNCHANGED <<clients, register, closed>>
      BY <1>9, ElsewhereStays
    <2>2. ASSUME NEW c \in Clients, HubSends(c) PROVE hub'.pc # "panicked"
      <3>1. c \notin closed
        BY <1>0, <2>2 DEF HubSends, HubHolds
      <3>. QED  BY <2>2, <3>1 DEF HubSends, Selecting, HubAt
    <2>3. hub'.pc # "panicked"
      BY <1>0, <1>9, <2>2 DEF Elsewhere, WritePumpSends, WritePumpEnds, HubPings, LookUp,
                        SenderSends, hubVars, HubAt
    <2>. QED  BY <1>0, <2>1, <2>3 DEF ClosedIsGone, Registered
  <1>. QED  BY <1>1, <1>4, <1>5, <1>6, <1>7, <1>8, <1>9, HubCases

(* With twins, as long as only read pumps unregister, each connection is    *)
(* closed at most once, after its pump is over and when it is no longer in  *)
(* the map.                                                                 *)
LEMMA OverStep ==
    ASSUME HubShape, PumpsUnregister, ClosedIsOver, [HubNext]_hubVars
    PROVE  ClosedIsOver'
  <1>. SUFFICES ASSUME hubIncidents' \cap {"overflow", "swept", "inverted"} = {} PROVE ClosedIsOver'
    BY DEF ClosedIsOver
  <1>0. /\ HubTypes /\ OwnEntry /\ HubHolds /\ SendersHold /\ Once /\ Fresh
        /\ None \notin Clients /\ \A c \in Clients : idOf[c] \in Ids
        /\ hub.pc # "panicked" /\ closed \subseteq Clients
        /\ \A d \in Queued(unregister) : reader[d] = "done"
        /\ hub.pc # "blocked" /\ \A s \in Senders : sender[s].pc # "blocked"
        /\ Distinct(unregister)
    BY KeysAre, HubIncidentsGrow, HubAssumption
    DEF HubAssumption, HubShape, ClosedIsOver, HubTypes, PumpsUnregister
  <1>c. \A c \in closed : /\ ~Registered(c) /\ reader[c] = "done"
                          /\ c \notin Queued(register) /\ c \notin Queued(unregister)
    BY HubIncidentsGrow DEF ClosedIsOver
  <1>1. ASSUME NEW d \in Clients, HandleWebSocketConnection(d) PROVE ClosedIsOver'
    <2>1. Queued(register') = Queued(register) \cup {d} /\ d \notin closed
      BY <1>0, <1>1, Appends DEF HandleWebSocketConnection, HubTypes, Fresh
    <2>. QED  BY <1>0, <1>c, <1>1, <2>1
              DEF HandleWebSocketConnection, Registered, ClosedIsOver, sends, HubTypes
  <1>2. ASSUME NEW d \in Clients, ReadFails(d) PROVE ClosedIsOver'
    BY <1>0, <1>c, <1>2 DEF ReadFails, Registered, ClosedIsOver, sends, HubTypes, channels
  <1>3. ASSUME NEW d \in Clients, ReadPumpEnds(d) PROVE ClosedIsOver'
    <2>1. d \notin Queued(unregister) /\ d \notin closed
      BY <1>0, <1>c, <1>3 DEF ReadPumpEnds
    <2>2. Queued(unregister') = Queued(unregister) \cup {d} /\ Distinct(unregister')
      BY <1>0, <1>3, <2>1, Appends DEF ReadPumpEnds, HubTypes
    <2>. QED  BY <1>0, <1>c, <1>3, <2>1, <2>2
              DEF ReadPumpEnds, Registered, ClosedIsOver, sends, HubTypes
  <1>4. CASE HubRegisters
    <2>1. Head(register) \in Clients /\ Queued(register) = {Head(register)} \cup Queued(register')
      BY <1>0, <1>4, TakesFirst DEF HubRegisters, HubTypes
    <2>2. ASSUME NEW c \in closed PROVE ~Registered(c)' /\ c \notin Queued(register')
      <3>1. c # Head(register) /\ ~Registered(c) /\ c \in Clients
        BY <1>0, <1>c, <2>1
      <3>. QED  BY <1>0, <1>c, <1>4, <2>1, <3>1 DEF HubRegisters, Registered, HubTypes
    <2>. QED  BY <1>0, <1>c, <1>4, <2>2 DEF HubRegisters, ClosedIsOver, sends, pumps
  <1>5. CASE HubUnregisters
    <2>. DEFINE c == Head(unregister)
    <2>1. /\ c \in Clients /\ c \in Queued(unregister) /\ c \notin Queued(unregister')
          /\ Queued(unregister') \subseteq Queued(unregister) /\ Distinct(unregister')
      BY <1>0, <1>5, TakesFirst DEF HubUnregisters, HubTypes
    <2>2. c \notin closed /\ reader[c] = "done" /\ c \notin Queued(register)
      BY <1>0, <1>c, <1>5, <2>1 DEF HubUnregisters, Note
    <2>3. UNCHANGED <<register, reader>>
      BY <1>5 DEF HubUnregisters, pumps
    <2>4. CASE clients[idOf[c]] # None
      <3>1. /\ closed' = closed \cup {c} /\ hub'.pc = "select"
            /\ clients' = [clients EXCEPT ![idOf[c]] = None]
        BY <1>5, <2>2, <2>4 DEF HubUnregisters, Close, Selecting, HubAt
      <3>. HIDE DEF c
      <3>2. ASSUME NEW d \in closed' PROVE ~Registered(d)'
        <4>1. d \in Clients /\ (d = c \/ ~Registered(d))
          BY <1>0, <1>c, <2>1, <3>1, <3>2
        <4>. QED  BY <1>0, <2>1, <3>1, <4>1 DEF Registered, HubTypes
      <3>. QED  BY <1>c, <2>1, <2>2, <2>3, <3>1, <3>2 DEF ClosedIsOver
    <2>5. CASE clients[idOf[c]] = None
      <3>1. UNCHANGED <<closed, hub, clients>>
        BY <1>5, <2>5 DEF HubUnregisters
      <3>. QED  BY <1>0, <1>c, <2>1, <2>3, <3>1 DEF ClosedIsOver, Registered
    <2>. QED  BY <2>4, <2>5
  <1>6. CASE HubUnregisterClient \/ \E s \in Senders : SenderUnregisters(s)
    BY <1>0, <1>6 DEF HubUnregisterClient, SenderUnregisters
  <1>7. ASSUME NEW stale \in SUBSET Clients, CleanupStale(stale) PROVE ClosedIsOver'
    BY <1>7 DEF CleanupStale
  <1>9. CASE Elsewhere
    <2>1. UNCHANGED <<clients, register, unregister, closed, reader>>
      BY <1>9, ElsewhereStays
    <2>2. ASSUME NEW c \in Clients, HubSends(c) PROVE hub'.pc # "panicked"
      <3>1. c \notin closed
        BY <1>0, <1>c, <2>2 DEF HubSends, HubHolds
      <3>. QED  BY <2>2, <3>1 DEF HubSends, Selecting, HubAt
    <2>3. hub'.pc # "panicked"
      BY <1>0, <1>9, <2>2 DEF Elsewhere, WritePumpSends, WritePumpEnds, HubPings, LookUp,
                        SenderSends, hubVars, HubAt
    <2>. QED  BY <1>0, <1>c, <2>1, <2>3 DEF ClosedIsOver, Registered
  <1>. QED  BY <1>1, <1>2, <1>3, <1>4, <1>5, <1>6, <1>7, <1>9, HubCases

(* The invariant holds with an empty hub.                                   *)
LEMMA HubStart == HubInit => HubInv
  <1>. SUFFICES ASSUME HubInit PROVE HubInv
    OBVIOUS
  <1>0. /\ None \notin Clients /\ \A c \in Clients : idOf[c] \in Ids
        /\ Queued(register) = {} /\ Queued(unregister) = {} /\ Distinct(register) /\ Distinct(unregister)
    BY KeysAre, HubAssumption DEF HubAssumption, HubInit, Queued, Distinct
  <1>1. \A c \in Clients : ~Registered(c) /\ ~Alive(c)
    BY <1>0 DEF HubInit, Registered, Alive, Quiet, Selecting, HubAt
  <1>2. HubTypes /\ OwnEntry /\ HubHolds /\ SendersHold
    BY <1>0 DEF HubInit, HubTypes, OwnEntry, HubHolds, SendersHold, Quiet, Selecting, HubAt
  <1>3. Fresh /\ Once
    BY <1>0, <1>1 DEF HubInit, Fresh, Once
  <1>4. DoneLeaves /\ TwinsApart /\ ConnectedIsListed
    BY <1>0, <1>1 DEF HubInit, DoneLeaves, TwinsApart, ConnectedIsListed
  <1>5. PumpsUnregister /\ ClosedIsGone /\ ClosedIsOver
    BY <1>0 DEF HubInit, PumpsUnregister, ClosedIsGone, ClosedIsOver, Quiet, Selecting, HubAt
  <1>. QED  BY <1>2, <1>3, <1>4, <1>5 DEF HubInv, HubShape

(* The invariant of the hub holds in every reachable state, for every set   *)
(* of connections, IDs and broadcasters and every capacity of the channels. *)
THEOREM HubInductive == HubSpec => []HubInv
  <1>1. HubInv /\ [HubNext]_hubVars => HubInv'
    BY HubTypesStep, HoldersStep, HubOnceStep, DoneStep, TwinsStep, PumpsStep, ListedStep, GoneStep,
       OverStep
    DEF HubInv, HubShape
  <1>. QED  BY <1>1, HubStart, PTL DEF HubSpec

(* Run never sends to a closed channel nor closes one twice, unless two     *)
(* connections of the same ID met and, besides, a connection was            *)
(* unregistered by somebody other than its own read pump or out of order.   *)
THEOREM HubPanicsWithTwinsOnly == HubSpec => []PanicNeedsTwins
  <1>1. HubInv => PanicNeedsTwins
    BY DEF HubInv, ClosedIsGone, ClosedIsOver, PanicNeedsTwins
  <1>. QED  BY <1>1, HubInductive, PTL

(* A connection whose read pump runs is in the map of clients or on its way *)
(* there, so that what is sent to its user reaches it, apart from the       *)
(* incidents ConnectedIsListed names.                                       *)
THEOREM ConnectedAreListed == HubSpec => []ConnectedIsListed
  <1>1. HubInv => ConnectedIsListed
    BY DEF HubInv
  <1>. QED  BY <1>1, HubInductive, PTL

(* An entry of the map whose read pump is over is about to be unregistered: *)
(* no entry stays behind, unless the hub took the two channels in the wrong *)
(* order.                                                                   *)
THEOREM ListedAreAlive == HubSpec => []ListedIsAlive
  <1>1. HubInv => ListedIsAlive
    BY DEF HubInv, DoneLeaves, ListedIsAlive
  <1>. QED  BY <1>1, HubInductive, PTL
=============================================================================
