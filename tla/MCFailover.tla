----------------------------- MODULE MCFailover -----------------------------
(* An instance of Failover for TLC: a single write.                         *)
EXTENDS Failover

CONSTANT w1

OneWrite == {w1}
=============================================================================
