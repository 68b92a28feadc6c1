------------------------- MODULE MCClusterElection -------------------------
(* Instances of ClusterElection for TLC.                                    *)
EXTENDS ClusterElection

TwoNodes == {1, 2}
=============================================================================
