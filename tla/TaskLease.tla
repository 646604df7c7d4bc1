------------------------------ MODULE TaskLease ------------------------------
(***************************************************************************)
(* What the orchestrator promises to the runtimes that compete for tasks,  *)
(* with no clock, state machine or journal: a task is granted to one holder*)
(* at a time, grants are numbered in the order they are made, and only the *)
(* present holder of a task, or the watchdog taking the task from it,      *)
(* writes to the task in a holder's name.                                  *)
(***************************************************************************)
EXTENDS Naturals

CONSTANT Tasks

VARIABLES
  holds,    \* the pairs <<t, g>>: grant g holds task t
  grants,   \* grants made so far
  writer    \* writer[t]: the grant that last wrote to t, 0 if none did

vars == <<holds, grants, writer>>

Init ==
  /\ holds = {}
  /\ grants = 0
  /\ writer = [t \in Tasks |-> 0]

HoldersOf(t) == {p \in holds : p[1] = t}

\* A grant takes the place of whatever held the task.
Grant(t) ==
  /\ grants' = grants + 1
  /\ holds' = (holds \ HoldersOf(t)) \cup {<<t, grants'>>}
  /\ writer' = [writer EXCEPT ![t] = grants']

Write(t, g) ==
  /\ <<t, g>> \in holds
  /\ writer' = [writer EXCEPT ![t] = g]
  /\ UNCHANGED <<holds, grants>>

Return(t, g) ==
  /\ <<t, g>> \in holds
  /\ holds' = holds \ {<<t, g>>}
  /\ writer' = [writer EXCEPT ![t] = g]
  /\ UNCHANGED grants

\* The watchdog takes some tasks away, in its holders' names.
Revoke(lost) ==
  /\ lost # {}
  /\ holds' = holds \ lost
  /\ writer' = [t \in Tasks |-> IF \E p \in lost : p[1] = t
                                THEN (CHOOSE p \in lost : p[1] = t)[2]
                                ELSE writer[t]]
  /\ UNCHANGED grants

Next ==
  \/ \E t \in Tasks : Grant(t)
  \/ \E p \in holds : Write(p[1], p[2]) \/ Return(p[1], p[2])
  \/ \E lost \in SUBSET holds : Revoke(lost)

Spec == Init /\ [][Next]_vars
=============================================================================
