---------------------------- MODULE MCScheduler ----------------------------
(* Instances of Scheduler for TLC.                                          *)
EXTENDS Scheduler

CONSTANTS t1, t2

OneTask  == {t1}
TwoTasks == {t1, t2}
None == {}

(* Two cron tasks whose occurrences differ; one task of period 2.           *)
Periods  == (t1 :> 2) @@ (t2 :> 3)
Period2  == [t \in {t1} |-> 2]

OneRetry   == <<1>>
LongRetry  == <<2>>
=============================================================================
