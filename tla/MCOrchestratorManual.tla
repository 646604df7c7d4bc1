------------------------ MODULE MCOrchestratorManual ------------------------
(***************************************************************************)
(* Instance of OrchestratorManual for TLC, with the time unit of           *)
(* MCOrchestrator: a default lease lasts one unit, the cap is two.         *)
(***************************************************************************)
EXTENDS OrchestratorManual

CONSTANTS t1, t2

OneTask == {t1}

LongTimes == 0..2

FewRequests == {0}
=============================================================================
