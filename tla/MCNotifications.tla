-------------------------- MODULE MCNotifications --------------------------
(***************************************************************************)
(* An instance of DeliveryQueue, WeatherAlerts and WebSocketHub for TLC.    *)
(* The alert check is done with a notification once Enqueue has returned,   *)
(* and the hub serves in-app notifications, which do not pass through the   *)
(* queue: the three share no state, and nothing is lost by letting one move *)
(* only while the others have not.                                          *)
(***************************************************************************)
EXTENDS DeliveryQueue, WeatherAlerts, WebSocketHub

CONSTANTS heat, first, second, a1, a2

OneMsg == {1}
OneAlert == {heat}
TwoChecks == {first, second}
TwoClients == {a1, a2}
OneUser == [c \in {a1, a2} |-> "user-1"]
OneSender == {1}

NotificationsInit == Init /\ AlertsInit /\ HubInit

NotificationsNext ==
    \/ AlertsInit /\ HubInit /\ Next /\ UNCHANGED <<alertsVars, hubVars>>
    \/ Init /\ HubInit /\ AlertsNext /\ UNCHANGED <<vars, hubVars>>
    \/ Init /\ AlertsInit /\ HubNext /\ UNCHANGED <<vars, alertsVars>>

(* The fairness of DeliveryQueue and of WebSocketHub.  No action that is    *)
(* treated fairly is enabled where its component has not moved.             *)
NotificationsSpec ==
    /\ NotificationsInit
    /\ [][NotificationsNext]_<<vars, alertsVars, hubVars>>
    /\ Fairness
    /\ HubFairness
=============================================================================
