----------------------------- MODULE MCStorage -----------------------------
(***************************************************************************)
(* An instance for TLC of the three components that keep data safe: the     *)
(* write queue of Failover, the backup directory of Backup (two days, the   *)
(* second of them a Sunday) and server.yml in LiveConfig (with a value,     *)
(* "blank" for an empty SAM address, that an administrator may save and     *)
(* LoadConfig replaces).  They share no state the models tell apart, so     *)
(* nothing is lost by letting only one of them move: every state of each is *)
(* reached.                                                                 *)
(***************************************************************************)
EXTENDS Failover, Backup, LiveConfig, TLC

CONSTANTS w1, w2, w3, u1, l1, l2, q1

ThreeWrites == {w1, w2, w3}
TwoMembers == {"server.yml", "server.db"}
SecondDay == {1}
NoDays == {}
Yesterday == {Dated(0), Incremental("daily"), Incremental("hourly")}

(* max_backups 0 is normalised to 1.                                        *)
WeeklyPolicy == [daily |-> 0, weekly |-> 1, monthly |-> 0, yearly |-> 0, cap |-> 3]

OneUpdate == {u1}
TwoReloads == {l1, l2}
OneReader == {q1}
BlankIsOff == [s \in Settings |-> IF s = "blank" THEN "off" ELSE s]

Symmetry == Permutations(TwoReloads)

VARIABLE mover   \* the component that moves

StorageInit ==
    /\ FailoverInit /\ Init /\ ConfigInit
    /\ file.sec = "on"   \* not the defaults
    /\ mover \in {"failover", "backup", "config"}

StorageNext ==
    /\ UNCHANGED mover
    /\ \/ mover = "failover" /\ FailoverNext /\ UNCHANGED <<vars, configVars>>
       \/ mover = "backup" /\ Next /\ UNCHANGED <<failoverVars, configVars>>
       \/ mover = "config" /\ ConfigNext /\ UNCHANGED <<failoverVars, vars>>

StorageSpec == StorageInit /\ [][StorageNext]_<<mover, failoverVars, vars, configVars>>
=============================================================================
