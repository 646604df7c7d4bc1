-------------------------- MODULE OrchestratorManual --------------------------
(***************************************************************************)
(* Orchestrator with people at the same tasks: the task form lets a user   *)
(* write orchestration_state, active_run_id and next_check_at directly.    *)
(* Such a write goes through none of the commands: no lease, no version,   *)
(* no event.  state_version is shown, but is read-only.                    *)
(***************************************************************************)
EXTENDS Orchestrator

\* Whatever run the user names, if any: the field is plain text.
ManualEdit(t, state, active, next) ==
  /\ Exists(t)
  /\ task' = [task EXCEPT ![t].state = state, ![t].active = active, ![t].nextCheck = next]
  /\ UNCHANGED <<run, lastRun, journal, ticks>>

MNext ==
  \/ Next
  \/ \E t \in Tasks, state \in States \ {"absent"}, active \in 0..MaxRuns,
        next \in Times \cup {Unset} : ManualEdit(t, state, active, next)

MSpec == Init /\ [][MNext]_vars
=============================================================================
