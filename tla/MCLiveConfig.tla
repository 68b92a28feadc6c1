---------------------------- MODULE MCLiveConfig ----------------------------
(* An instance of LiveConfig for TLC: one reload and no other request.      *)
EXTENDS LiveConfig

CONSTANTS u1, l1

OneUpdate == {u1}
OneReload == {l1}
Nobody == {}

BlankIsOff == [s \in Settings |-> IF s = "blank" THEN "off" ELSE s]

(* The server runs with settings that are not the defaults.                 *)
OnInit == ConfigInit /\ file.sec = "on"
OnSpec == OnInit /\ [][ConfigNext]_configVars
=============================================================================
