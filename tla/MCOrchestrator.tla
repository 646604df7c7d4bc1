--------------------------- MODULE MCOrchestrator ---------------------------
(***************************************************************************)
(* Instances of Orchestrator for TLC.  Time is counted in lease units: the *)
(* default lease is one unit, the cap two; a request of 5 exercises the    *)
(* cap, 0 the default and -1 a lease that is over when it is granted.      *)
(***************************************************************************)
EXTENDS Orchestrator

CONSTANTS t1, t2

OneTask == {t1}
TwoTasks == {t1, t2}

LongTimes == 0..2

LongRequests == {0, 5}
ShortRequests == {-1, 0}
=============================================================================
