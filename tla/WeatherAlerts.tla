---------------------------- MODULE WeatherAlerts ----------------------------
(***************************************************************************)
(* The weather-alert check of server/service/weather_notifications.go: the  *)
(* task detects severe weather at the saved locations and queues an alert   *)
(* unless the same one was sent within the last six hours.                  *)
(*                                                                          *)
(* An alert is a user, a location and an alert type.  The scheduler starts  *)
(* a check every five minutes without waiting for the last one, and         *)
(* TriggerTask starts more, so two checks may overlap.                      *)
(***************************************************************************)
EXTENDS Naturals, FiniteSets

CONSTANTS
    Alerts,            \* what detectSevereWeather can report
    Checks,            \* CheckWeatherAlerts calls that may be in flight at once
    alertDedupWindow,  \* how long an alert suppresses the next one
    MaxHours           \* bound of the clock

ASSUME AlertsAssumption ==
    {alertDedupWindow, MaxHours} \subseteq Nat \ {0}

VARIABLES
    hour,       \* the clock
    sentAt,     \* user_weather_alert_history: alert, sent_at
    check,      \* check[c]: what CheckWeatherAlerts call c does next
    queuedAt,   \* history: alert and time of every call that reached Enqueue
    repeated,   \* history: alerts queued twice within the window
    excused     \* history: alerts that overlapped, or whose record is missing

alertsVars == <<hour, sentAt, check, queuedAt, repeated, excused>>

NoCheck == [pc |-> "idle", left |-> {}, now |-> {}]

(* The shape of a check and of the two tables.                              *)
AlertsTypeOK ==
    /\ hour \in 0..MaxHours
    /\ sentAt \subseteq Alerts \X (0..MaxHours)
    /\ queuedAt \subseteq Alerts \X (0..MaxHours)
    /\ repeated \subseteq Alerts /\ excused \subseteq Alerts
    /\ check \in [Checks -> [pc : {"idle", "next", "send", "record"},
                             left : SUBSET Alerts, now : SUBSET Alerts]]

AlertsInit ==
    /\ hour = 0
    /\ sentAt = {} /\ queuedAt = {}
    /\ check = [c \in Checks |-> NoCheck]
    /\ repeated = {} /\ excused = {}

AnHourPasses ==
    /\ hour < MaxHours
    /\ hour' = hour + 1
    /\ UNCHANGED <<sentAt, check, queuedAt, repeated, excused>>

-----------------------------------------------------------------------------
(* now holds the alert the loop is at.                                      *)
Proceed(c, pc) == check' = [check EXCEPT ![c].pc = pc]
LoopOn(c) == check' = [check EXCEPT ![c].pc = "next", ![c].now = {}]
Overlaps(c) ==
    UNION {check[d].now : d \in {d \in Checks \ {c} : check[d].pc \in {"send", "record"}}}

(* The times, among these, that suppress an alert now.                      *)
Recent(times) == {at \in times : at[2] + alertDedupWindow > hour}

(* CheckWeatherAlerts: the cursor over the locations is opened, and the     *)
(* weather there calls for these alerts.                                    *)
CheckWeatherAlerts(c, detected) ==
    /\ check[c].pc = "idle" /\ detected # {}
    /\ check' = [check EXCEPT ![c] = [NoCheck EXCEPT !.pc = "next", !.left = detected]]
    /\ UNCHANGED <<hour, sentAt, queuedAt, repeated, excused>>

(* hasRecentAlert: a SELECT that fails counts as no recent alert.           *)
HasRecentAlert(c, a) ==
    /\ check[c].pc = "next" /\ a \in check[c].left
    /\ LET send == [check[c] EXCEPT !.pc = "send", !.left = @ \ {a}, !.now = {a}]
           skip == [check[c] EXCEPT !.left = @ \ {a}]
           known == \E at \in Recent(sentAt) : at[1] = a
       IN  \/ /\ check' = [check EXCEPT ![c] = IF known THEN skip ELSE send]
              /\ excused' = excused \cup ({a} \cap Overlaps(c))
           \/ /\ check' = [check EXCEPT ![c] = send]
              /\ excused' = excused \cup {a}
    /\ UNCHANGED <<hour, sentAt, queuedAt, repeated>>

(* sendWeatherAlert: Enqueue for every channel the user has enabled.  It    *)
(* reports success even when there is none or every Enqueue failed.         *)
Enqueued(c) ==
    /\ check[c].pc = "send"
    /\ Proceed(c, "record")
    /\ queuedAt' = queuedAt \cup (check[c].now \X {hour})
    /\ repeated' = repeated \cup {a \in check[c].now : \E at \in Recent(queuedAt) : at[1] = a}
    /\ UNCHANGED <<hour, sentAt, excused>>

NothingEnqueued(c) ==
    /\ check[c].pc = "send"
    /\ Proceed(c, "record")
    /\ UNCHANGED <<hour, sentAt, queuedAt, repeated, excused>>

(* The SELECT of the user's channels fails: nothing is sent or recorded.    *)
ChannelsUnread(c) ==
    /\ check[c].pc = "send"
    /\ LoopOn(c)
    /\ UNCHANGED <<hour, sentAt, queuedAt, repeated, excused>>

NeverRecorded(c) ==   \* mutant: the alert is not recorded
    /\ check[c].pc = "record"
    /\ LoopOn(c)
    /\ UNCHANGED <<hour, sentAt, queuedAt, repeated, excused>>

(* recordAlertSent ignores the error of its INSERT.                         *)
RecordAlertSent(c) ==
    /\ check[c].pc = "record"
    /\ LoopOn(c)
    /\ \/ sentAt' = sentAt \cup (check[c].now \X {hour}) /\ UNCHANGED excused
       \/ excused' = excused \cup check[c].now /\ UNCHANGED sentAt
    /\ UNCHANGED <<hour, queuedAt, repeated>>

(* The loop is through, or the cursor's timeout ends it early: rows.Next    *)
(* returns false either way and the task reports success.                   *)
CheckEnds(c) ==
    /\ check[c].pc = "next"
    /\ check' = [check EXCEPT ![c] = NoCheck]
    /\ UNCHANGED <<hour, sentAt, queuedAt, repeated, excused>>

(* The process dies; what was queued and not recorded stays unrecorded.     *)
AlertsCrash ==
    /\ \E c \in Checks : check[c] # NoCheck
    /\ check' = [c \in Checks |-> NoCheck]
    /\ excused' = excused \cup UNION {check[c].now : c \in Checks}
    /\ UNCHANGED <<hour, sentAt, queuedAt, repeated>>

AlertsNext ==
    \/ AnHourPasses
    \/ \E c \in Checks :
          \/ \E detected \in SUBSET Alerts : CheckWeatherAlerts(c, detected)
          \/ \E a \in Alerts : HasRecentAlert(c, a)
          \/ Enqueued(c) \/ NothingEnqueued(c) \/ ChannelsUnread(c)
          \/ RecordAlertSent(c) \/ CheckEnds(c)
    \/ AlertsCrash

AlertsSpec == AlertsInit /\ [][AlertsNext]_alertsVars

-----------------------------------------------------------------------------
(* A user is not sent the same alert again within alertDedupWindow, however *)
(* many checks run, unless a second check asked between the Enqueue and the *)
(* record of the first, or the record could not be read or written          *)
(* (CheckWeatherAlerts: "Check if we've already sent this alert recently"). *)
AlertNotRepeated == repeated \subseteq excused
=============================================================================
