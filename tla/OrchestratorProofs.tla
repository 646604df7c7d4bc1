-------------------------- MODULE OrchestratorProofs --------------------------
(***************************************************************************)
(* Theorems about Orchestrator, for every set of tasks, every clock and    *)
(* every lease policy, with and without people writing to the same tasks.  *)
(* The argument rests on Owned: ids are born in order, and the run table   *)
(* names one owner of a task at most.  It reads neither active_run_id nor  *)
(* the state, so it is inductive even when users write them by hand.       *)
(* Without users the two say what the run table says, and Ownership is an  *)
(* inductive strengthening of OwnershipAgrees.                             *)
(***************************************************************************)
EXTENDS OrchestratorManual, SequenceTheorems, TLAPS

\* Ids up to lastRun, and no others, have been given out.
Allocated == \A r \in RunIds : run[r].outcome = "unborn" <=> r > lastRun

\* A run in execution is on a task that exists, and no other run is.
OneOwner ==
  /\ \A r \in RunIds : Running(r) => run[r].task \in Tasks /\ Exists(run[r].task)
  /\ ExclusiveOwner

\* A run in execution is its task's active_run_id, and the other way round.
OwnersAgree ==
  /\ \A r \in RunIds : Running(r) =>
       /\ run[r].task \in Tasks
       /\ task[run[r].task].active = r
  /\ \A t \in Tasks : task[t].active # NoRun =>
       /\ Running(task[t].active)
       /\ run[task[t].active].task = t
       /\ Exists(t)

HeldAgree == \A t \in Tasks : task[t].state \in Held <=> task[t].active # NoRun

Owned == TypeOK /\ Allocated /\ OneOwner

\* What the task says of its owner is what the run table says.
FieldsAgree == OwnersAgree /\ HeldAgree

Ownership == Owned /\ FieldsAgree

-----------------------------------------------------------------------------
(* Type correctness                                                        *)

\* A lease granted for any request is an integer length of at most MaxLease.
LEMMA LeaseLengthBound ==
  ASSUME NEW q \in LeaseRequests
  PROVE  LeaseLength(q) \in Int /\ LeaseLength(q) <= MaxLease
BY ConstantsAssumption DEF LeaseLength

\* Clock readings that a call can present are integers among Times.
LEMMA NowsAreTimes ==
  ASSUME TypeOK, NEW now \in Nows
  PROVE  now \in Times /\ now \in Int
BY ConstantsAssumption DEF Nows, TypeOK

\* An appended event keeps a journal a journal.
LEMMA AppendTyped ==
  ASSUME NEW j \in Seq(EventRecords), NEW e \in EventRecords
  PROVE  Append(j, e) \in Seq(EventRecords)
BY AppendProperties

\* An event appended to a journal keeps its type.
LEMMA EmitTyped ==
  ASSUME TypeOK, NEW t \in Tasks, NEW type \in EventTypes, NEW r \in 0..MaxRuns,
         task'[t].version \in Nat, Emit(t, type, r)
  PROVE  journal' \in [Tasks -> Seq(EventRecords)]
<1>1. Event(type, r, task'[t].version) \in EventRecords
  BY DEF Event, EventRecords
<1>2. Append(journal[t], Event(type, r, task'[t].version)) \in Seq(EventRecords)
  BY <1>1, AppendTyped DEF TypeOK
<1> QED BY <1>2 DEF Emit, TypeOK

\* Two events in one command.
LEMMA TwoEventsTyped ==
  ASSUME TypeOK, NEW t \in Tasks, NEW e1 \in EventRecords, NEW e2 \in EventRecords
  PROVE  Append(Append(journal[t], e1), e2) \in Seq(EventRecords)
<1>1. Append(journal[t], e1) \in Seq(EventRecords)
  BY AppendTyped DEF TypeOK
<1> QED BY <1>1, AppendTyped

\* Versions that a command may write.
LEMMA NextVersions ==
  ASSUME TypeOK, NEW t \in Tasks
  PROVE  /\ task[t] \in TaskRecords
         /\ task[t].version + 1 \in Nat /\ task[t].version + 2 \in Nat
BY DEF TypeOK, TaskRecords

\* Transition writes a task record and a journal.
LEMMA TransitionTyped ==
  ASSUME TypeOK, NEW t \in Tasks, NEW state \in States, NEW type \in EventTypes,
         NEW r \in 0..MaxRuns, Transition(t, state, type, r)
  PROVE  /\ task' \in [Tasks -> TaskRecords]
         /\ journal' \in [Tasks -> Seq(EventRecords)]
<1>1. task' \in [Tasks -> TaskRecords]
  BY DEF Transition, TypeOK, TaskRecords
<1>2. task'[t].version \in Nat
  BY <1>1 DEF TaskRecords
<1>3. journal' \in [Tasks -> Seq(EventRecords)]
  BY <1>2, EmitTyped DEF Transition
<1> QED BY <1>1, <1>3

\* The absence of a run is in the range of the run ids.
LEMMA NoRunTyped == NoRun \in 0..MaxRuns /\ MaxRuns \in Nat
BY ConstantsAssumption DEF NoRun

\* A freed task record is a task record.
LEMMA FreedTyped ==
  ASSUME NEW tk \in TaskRecords, NEW state \in States
  PROVE  Freed(tk, state) \in TaskRecords
<1>1. tk.version + 1 \in Nat
  BY DEF TaskRecords
<1> QED BY <1>1, NoRunTyped DEF Freed, TaskRecords

\* A run that ends keeps its type.
LEMMA EndRunTyped ==
  ASSUME TypeOK, NEW t \in Tasks, NEW r \in RunIds, NEW outcome \in Outcomes,
         NEW state \in States, NEW type \in EventTypes,
         EndRun(t, r, outcome, state, type)
  PROVE  /\ task' \in [Tasks -> TaskRecords]
         /\ run' \in [RunIds -> RunRecords]
         /\ journal' \in [Tasks -> Seq(EventRecords)]
<1>1. task' \in [Tasks -> TaskRecords]
  BY FreedTyped DEF EndRun, TypeOK
<1>2. run' \in [RunIds -> RunRecords]
  BY DEF EndRun, TypeOK, RunRecords
<1>3. task'[t].version \in Nat /\ r \in 0..MaxRuns
  BY <1>1, ConstantsAssumption DEF TaskRecords, RunIds
<1>4. journal' \in [Tasks -> Seq(EventRecords)]
  BY <1>3, EmitTyped DEF EndRun
<1> QED BY <1>1, <1>2, <1>4

\* A run created by a claim is a run record.
LEMMA NewRunTyped ==
  ASSUME NEW t \in Tasks, NEW now \in Int, NEW q \in LeaseRequests
  PROVE  NewRun(t, now, q) \in RunRecords
BY LeaseLengthBound DEF NewRun, RunRecords, Outcomes

\* Every command preserves the types of the tables it writes.
LEMMA TypeInductive == TypeOK /\ [Next]_vars => TypeOK'
<1> SUFFICES ASSUME TypeOK, [Next]_vars PROVE TypeOK'
  OBVIOUS
<1>0. NoRun \in 0..MaxRuns /\ MaxRuns \in Nat
  BY NoRunTyped
<1>1. ASSUME NEW now \in Times \ ticks, RegisterTick(now) PROVE TypeOK'
  BY <1>1 DEF RegisterTick, TypeOK
<1>2. ASSUME NEW t \in Tasks, FreeCommand(t) PROVE TypeOK'
  <2>1. CASE MarkManaged(t)
    BY <1>0, <2>1, TransitionTyped DEF MarkManaged, TypeOK, States, EventTypes
  <2>2. CASE Unblock(t)
    BY <1>0, <2>2, TransitionTyped DEF Unblock, TypeOK, States, EventTypes
  <2>3. CASE ProposeTask(t)
    <3>1. task' \in [Tasks -> TaskRecords] /\ task'[t].version \in Nat
      BY <1>0, <2>3 DEF ProposeTask, TypeOK, TaskRecords, NewTask, States
    <3>2. journal' \in [Tasks -> Seq(EventRecords)]
      BY <1>0, <2>3, <3>1, EmitTyped DEF ProposeTask, EventTypes
    <3> QED BY <2>3, <3>1, <3>2 DEF ProposeTask, TypeOK
  <2>4. CASE RecordConfirmation(t) \/ RecordEvidenceReference(t) \/ ResolveGap(t)
    <3>1. UNCHANGED <<task, run, lastRun, ticks>> /\ task'[t].version \in Nat
      BY <2>4 DEF RecordConfirmation, RecordEvidenceReference, ResolveGap, Note, TypeOK, TaskRecords
    <3>2. \E type \in EventTypes : Note(t, type)
      BY <2>4 DEF RecordConfirmation, RecordEvidenceReference, ResolveGap, EventTypes
    <3>3. PICK type \in EventTypes, seen \in 1..task[t].version :
            journal' = [journal EXCEPT ![t] = Append(@, Event(type, NoRun, seen))]
      BY <3>2 DEF Note
    <3>4. Event(type, NoRun, seen) \in EventRecords
      BY <1>0, <3>1, <3>3 DEF Event, EventRecords
    <3>5. Append(journal[t], Event(type, NoRun, seen)) \in Seq(EventRecords)
      BY <3>4, AppendTyped DEF TypeOK
    <3>6. journal' \in [Tasks -> Seq(EventRecords)]
      BY <3>3, <3>5 DEF TypeOK
    <3> QED BY <3>1, <3>6 DEF TypeOK
  <2>5. CASE RequestOutcomeVerification(t)
    <3>1. task' \in [Tasks -> TaskRecords] /\ task'[t].version \in Nat
      BY <2>5 DEF RequestOutcomeVerification, TypeOK, TaskRecords
    <3>2. journal' \in [Tasks -> Seq(EventRecords)]
      BY <1>0, <2>5, <3>1, EmitTyped DEF RequestOutcomeVerification, EventTypes
    <3> QED BY <2>5, <3>1, <3>2 DEF RequestOutcomeVerification, TypeOK
  <2> QED BY <1>2, <2>1, <2>2, <2>3, <2>4, <2>5 DEF FreeCommand
<1>3. ASSUME NEW t \in Tasks, Claim(t) PROVE TypeOK'
  <2> PICK now \in Times, q \in LeaseRequests :
         \/ ClaimFree(t, now, q)
         \/ \E old \in RunIds : ClaimOverExpired(t, old, now, q)
    BY <1>3 DEF Claim
  <2>1. NewRun(t, now, q) \in RunRecords
    BY NewRunTyped, ConstantsAssumption
  <2>2. CASE ClaimFree(t, now, q)
    <3>1. lastRun' \in RunIds /\ lastRun' \in 0..MaxRuns /\ lastRun' \in Nat
      BY <1>0, <2>2 DEF ClaimFree, TypeOK, RunIds
    <3>2. task' \in [Tasks -> TaskRecords] /\ task'[t].version \in Nat
      <4>1. "claimed" \in States
        BY DEF States
      <4> QED BY <2>2, <3>1, <4>1, NextVersions DEF ClaimFree, TypeOK, TaskRecords
    <3>3. run' \in [RunIds -> RunRecords]
      BY <2>1, <2>2, <3>1 DEF ClaimFree, TypeOK
    <3>4. journal' \in [Tasks -> Seq(EventRecords)]
      BY <2>2, <3>1, <3>2, EmitTyped DEF ClaimFree, EventTypes
    <3> QED BY <2>2, <3>1, <3>2, <3>3, <3>4 DEF ClaimFree, TypeOK
  <2>3. CASE \E old \in RunIds : ClaimOverExpired(t, old, now, q)
    <3> PICK old \in RunIds : ClaimOverExpired(t, old, now, q)
      BY <2>3
    <3>1. /\ lastRun' \in RunIds /\ lastRun' \in 0..MaxRuns /\ lastRun' \in Nat
          /\ old \in 0..MaxRuns
      BY <1>0 DEF ClaimOverExpired, TypeOK, RunIds
    <3>2. task' \in [Tasks -> TaskRecords]
      BY <3>1 DEF ClaimOverExpired, TypeOK, TaskRecords, States
    <3>3. run' \in [RunIds -> RunRecords]
      <4> DEFINE failed == [run EXCEPT ![old].outcome = "failed"]
      <4>1. failed \in [RunIds -> RunRecords]
        BY DEF TypeOK, RunRecords, Outcomes
      <4>2. run' = [failed EXCEPT ![lastRun'] = NewRun(t, now, q)]
        BY DEF ClaimOverExpired
      <4> QED BY <2>1, <3>1, <4>1, <4>2
    <3>4. journal' \in [Tasks -> Seq(EventRecords)]
      <4>1. task[t].version + 1 \in Nat /\ task[t].version + 2 \in Nat
        BY DEF TypeOK, TaskRecords
      <4> DEFINE both == Append(Append(journal[t],
                             Event("task.lease_expired", old, task[t].version + 1)),
                             Event("task.claimed", lastRun', task[t].version + 2))
      <4>2. /\ Event("task.lease_expired", old, task[t].version + 1) \in EventRecords
            /\ Event("task.claimed", lastRun', task[t].version + 2) \in EventRecords
        BY <3>1, <4>1 DEF Event, EventRecords, EventTypes
      <4>3. both \in Seq(EventRecords)
        BY <4>2, TwoEventsTyped
      <4>4. journal' = [journal EXCEPT ![t] = both]
        BY DEF ClaimOverExpired
      <4> QED BY <4>3, <4>4 DEF TypeOK
    <3> QED BY <3>1, <3>2, <3>3, <3>4 DEF ClaimOverExpired, TypeOK
  <2> QED BY <2>2, <2>3
<1>4. ASSUME NEW t \in Tasks, NEW r \in RunIds, NEW now \in Nows, LeaseCommand(t, r, now)
      PROVE TypeOK'
  <2>0. r \in 0..MaxRuns /\ now \in Times /\ now \in Int
    BY NowsAreTimes DEF RunIds
  <2>1. ASSUME NEW q \in LeaseRequests, Heartbeat(t, r, now, q) PROVE TypeOK'
    <3>1. now + LeaseLength(q) \in Int
      BY <2>0, LeaseLengthBound
    <3> QED BY <2>1, <3>1 DEF Heartbeat, TypeOK, RunRecords
  <2>2. CASE RecordProgress(t, r, now)
    BY <2>0, <2>2, TransitionTyped DEF RecordProgress, TypeOK, States, EventTypes
  <2>3. CASE RecordWaitingResponse(t, r, now)
    BY <2>0, <2>3, TransitionTyped DEF RecordWaitingResponse, TypeOK, States, EventTypes
  <2>4. CASE RequestApproval(t, r, now)
    <3>1. task' \in [Tasks -> TaskRecords]
      <4>1. "waiting_approval" \in States
        BY DEF States
      <4> QED BY <2>4, <4>1, NextVersions DEF RequestApproval, TypeOK, TaskRecords
    <3>2. task[t].version + 1 \in Nat
      BY DEF TypeOK, TaskRecords
    <3> DEFINE both == Append(Append(journal[t],
                 Event("task.approval_requested", r, task[t].version + 1)),
                 Event("task.approval_details", r, task[t].version + 1))
    <3>3. /\ Event("task.approval_requested", r, task[t].version + 1) \in EventRecords
          /\ Event("task.approval_details", r, task[t].version + 1) \in EventRecords
      BY <2>0, <3>2 DEF Event, EventRecords, EventTypes
    <3>5. both \in Seq(EventRecords)
      BY <3>3, TwoEventsTyped
    <3>4. journal' = [journal EXCEPT ![t] = both]
      BY <2>4 DEF RequestApproval
    <3> QED BY <2>4, <3>1, <3>4, <3>5 DEF RequestApproval, TypeOK
  <2>5. ASSUME NEW type \in EventTypes, Annotate(t, r, now, type) PROVE TypeOK'
    <3>1. task' \in [Tasks -> TaskRecords] /\ task'[t].version \in Nat
      BY <2>5, NextVersions DEF Annotate, TypeOK, TaskRecords
    <3>2. journal' \in [Tasks -> Seq(EventRecords)]
      BY <2>0, <2>5, <3>1, EmitTyped DEF Annotate, EventTypes
    <3> QED BY <2>5, <3>1, <3>2 DEF Annotate, TypeOK
  <2>6. ASSUME NEW next \in Times, ScheduleNextCheck(t, r, now, next) PROVE TypeOK'
    <3>1. Freed(task[t], "scheduled") \in TaskRecords
      BY FreedTyped DEF TypeOK, States
    <3>2. [Freed(task[t], "scheduled") EXCEPT !.nextCheck = next] \in TaskRecords
      BY <3>1 DEF TaskRecords
    <3>3. task' \in [Tasks -> TaskRecords] /\ task'[t].version \in Nat
      BY <2>6, <3>2 DEF ScheduleNextCheck, TypeOK, TaskRecords
    <3>4. journal' \in [Tasks -> Seq(EventRecords)]
      BY <2>0, <2>6, <3>3, EmitTyped DEF ScheduleNextCheck, EventTypes
    <3>5. run' \in [RunIds -> RunRecords]
      BY <2>6 DEF ScheduleNextCheck, TypeOK, RunRecords, Outcomes
    <3> QED BY <2>6, <3>3, <3>4, <3>5 DEF ScheduleNextCheck, TypeOK
  <2>7. CASE BlockTask(t, r, now)
    BY <2>7, EndRunTyped DEF BlockTask, TypeOK, States, Outcomes, EventTypes
  <2>8. CASE ReleaseTask(t, r, now)
    BY <2>8, EndRunTyped DEF ReleaseTask, TypeOK, States, Outcomes, EventTypes
  <2>9. ASSUME NEW outcome \in RunOutcomes, NEW withEvidence \in BOOLEAN,
               CompleteRun(t, r, now, outcome, withEvidence)
        PROVE TypeOK'
    <3>1. /\ FinalState[outcome] \in States /\ outcome \in Outcomes
          /\ CompletionEvent[outcome] \in EventTypes
      BY DEF RunOutcomes, FinalState, CompletionEvent, States, Outcomes, EventTypes
    <3>2. Freed(task[t], FinalState[outcome]) \in TaskRecords
      BY <3>1, FreedTyped DEF TypeOK
    <3>3. task' \in [Tasks -> TaskRecords]
      BY <2>9, <3>2 DEF CompleteRun, TypeOK
    <3>4. run' \in [RunIds -> RunRecords]
      BY <2>9, <3>1 DEF CompleteRun, TypeOK, RunRecords
    <3>5. task[t].version + 1 \in Nat
      BY DEF TypeOK, TaskRecords
    <3> DEFINE closed == Append(journal[t],
                 Event(CompletionEvent[outcome], r, task[t].version + 1))
               cited == Append(closed,
                 Event("task.evidence_reference", r, task[t].version + 1))
    <3>6. /\ Event(CompletionEvent[outcome], r, task[t].version + 1) \in EventRecords
          /\ Event("task.evidence_reference", r, task[t].version + 1) \in EventRecords
      BY <2>0, <3>1, <3>5 DEF Event, EventRecords, EventTypes
    <3>7. closed \in Seq(EventRecords) /\ cited \in Seq(EventRecords)
      BY <3>6, AppendTyped, TwoEventsTyped DEF TypeOK
    <3>8. journal' = [journal EXCEPT ![t] = IF withEvidence THEN cited ELSE closed]
      BY <2>9 DEF CompleteRun
    <3>9. journal' \in [Tasks -> Seq(EventRecords)]
      BY <3>7, <3>8 DEF TypeOK
    <3> QED BY <2>9, <3>3, <3>4, <3>9 DEF CompleteRun, TypeOK
  <2> QED BY <1>4, <2>1, <2>2, <2>3, <2>4, <2>5, <2>6, <2>7, <2>8, <2>9
          DEF LeaseCommand, RecordEscalation, RecordFollowup, EventTypes
<1>5. ASSUME NEW now \in Times, ReclaimExpired(now) PROVE TypeOK'
  <2>1. run' \in [RunIds -> RunRecords]
    BY <1>5 DEF ReclaimExpired, TypeOK, RunRecords, Outcomes
  <2>2. task' \in [Tasks -> TaskRecords]
    BY <1>5, FreedTyped DEF ReclaimExpired, TypeOK, States
  <2>3. ASSUME NEW t \in Tasks, ExpiredOn(t, now) # {}
        PROVE Append(journal[t], Event("task.lease_expired",
                CHOOSE r \in ExpiredOn(t, now) : TRUE, task[t].version + 1))
              \in Seq(EventRecords)
    <3>1. (CHOOSE r \in ExpiredOn(t, now) : TRUE) \in 0..MaxRuns
      BY <2>3 DEF ExpiredOn, RunIds
    <3>2. task[t].version + 1 \in Nat
      BY DEF TypeOK, TaskRecords
    <3>3. Event("task.lease_expired",
                CHOOSE r \in ExpiredOn(t, now) : TRUE, task[t].version + 1) \in EventRecords
      BY <3>1, <3>2 DEF Event, EventRecords, EventTypes
    <3> QED BY <3>3, AppendTyped DEF TypeOK
  <2>4. journal' \in [Tasks -> Seq(EventRecords)]
    BY <1>5, <2>3 DEF ReclaimExpired, TypeOK
  <2> QED BY <1>5, <2>1, <2>2, <2>4 DEF ReclaimExpired, TypeOK
<1>6. CASE UNCHANGED vars
  BY <1>6 DEF TypeOK, vars
<1> QED BY <1>1, <1>2, <1>3, <1>4, <1>5, <1>6 DEF Next

\* What is written by hand is a value of its field.
LEMMA TypeInductiveManual == TypeOK /\ [MNext]_vars => TypeOK'
<1> SUFFICES ASSUME TypeOK, MNext, ~Next PROVE TypeOK'
  BY TypeInductive
<1>1. PICK t \in Tasks, state \in States \ {"absent"}, active \in 0..MaxRuns,
           next \in Times \cup {Unset} : ManualEdit(t, state, active, next)
  BY DEF MNext
<1>2. task' \in [Tasks -> TaskRecords]
  BY <1>1 DEF ManualEdit, TypeOK, TaskRecords
<1> QED BY <1>1, <1>2 DEF ManualEdit, TypeOK

\* The commands alone are a case of commands and edits, so what holds with the
\* edits holds without them.
LEMMA CommandsAlone == Spec => MSpec
<1>1. [Next]_vars => [MNext]_vars
  BY DEF MNext
<1> QED BY <1>1, PTL DEF Spec, MSpec

\* The tables start typed.
LEMMA TypeInit == Init => TypeOK
<1> SUFFICES ASSUME Init PROVE TypeOK
  OBVIOUS
<1>1. task \in [Tasks -> TaskRecords]
  BY ConstantsAssumption DEF Init, NewTask, TaskRecords, States, NoRun
<1>2. run \in [RunIds -> RunRecords]
  BY DEF Init, UnbornRun, RunRecords, Outcomes
<1>3. journal \in [Tasks -> Seq(EventRecords)]
  BY DEF Init
<1> QED BY <1>1, <1>2, <1>3, ConstantsAssumption DEF Init, TypeOK

\* The tables keep their types in every behaviour.
THEOREM TypeCorrect == Spec => []TypeOK
BY TypeInit, TypeInductive, PTL DEF Spec

\* So they do when users write states, runs and dates by hand.
THEOREM TypeCorrectManual == MSpec => []TypeOK
BY TypeInit, TypeInductiveManual, PTL DEF MSpec

-----------------------------------------------------------------------------
(* Exclusive ownership                                                     *)

\* What a step keeps, whatever its tasks say: ids and the one owner, and what
\* the tasks say of him if it was so before.
Keeps == Allocated' /\ OneOwner' /\ (FieldsAgree => FieldsAgree')

\* A step that neither starts nor ends a run keeps the three records in step.
LEMMA NeutralStep ==
  ASSUME Owned, lastRun' = lastRun,
         \A r \in RunIds : /\ run'[r].outcome = run[r].outcome
                           /\ run'[r].task = run[r].task,
         \A t \in Tasks :
           /\ Exists(t) => Exists(t)'
           /\ FieldsAgree => /\ task'[t].active = task[t].active
                             /\ task'[t].state \in Held <=> task[t].state \in Held
  PROVE  Keeps
<1>0. \A r \in RunIds : Running(r)' <=> Running(r)
  BY DEF Running
<1>1. Allocated'
  BY DEF Allocated, Owned
<1>2. OneOwner'
  BY <1>0 DEF Owned, OneOwner, ExclusiveOwner
<1>3. ASSUME FieldsAgree PROVE FieldsAgree'
  <2>1. \A t \in Tasks : task[t].active # NoRun => task[t].active \in RunIds
    BY NoRunTyped DEF Owned, TypeOK, TaskRecords, NoRun, RunIds
  <2>2. OwnersAgree'
    BY <1>0, <1>3, <2>1 DEF FieldsAgree, OwnersAgree, Running
  <2>3. HeldAgree'
    BY <1>3 DEF FieldsAgree, HeldAgree
  <2> QED BY <2>2, <2>3 DEF FieldsAgree
<1> QED BY <1>1, <1>2, <1>3 DEF Keeps

\* The run whose lease a command presents owns the task.
LEMMA LeaseOwnsTask ==
  ASSUME Owned, NEW t \in Tasks, NEW r \in RunIds, NEW now \in Nows,
         HoldsLease(t, r, now)
  PROVE  /\ Running(r) /\ run[r].task = t /\ Exists(t)
         /\ FieldsAgree => task[t].active = r /\ task[t].state \in Held
BY NoRunTyped
DEF FieldsAgree, HeldAgree, HoldsLease, LeaseValid, Owned, OneOwner, OwnersAgree, RunIds, NoRun

\* A command that ends the caller's run frees its task and touches no other.
LEMMA EndStep ==
  ASSUME Owned, NEW t \in Tasks, NEW r \in RunIds, Running(r), run[r].task = t,
         lastRun' = lastRun,
         run'[r].outcome \notin {"running", "unborn"},
         \A q \in RunIds \ {r} : run'[q] = run[q],
         task'[t].active = NoRun, task'[t].state \notin Held,
         \A u \in Tasks \ {t} : task'[u] = task[u]
  PROVE  Keeps
<1>1. Allocated'
  BY DEF Allocated, Owned, Running
<1>2. \A q \in RunIds : Running(q)' =>
         q # r /\ Running(q) /\ run'[q].task = run[q].task /\ run[q].task # t
  BY DEF Running, Owned, OneOwner, ExclusiveOwner
<1>3. OneOwner'
  BY <1>2 DEF Owned, OneOwner, ExclusiveOwner, Exists
<1>4. ASSUME FieldsAgree PROVE FieldsAgree'
  <2>1. \A u \in Tasks : task[u].active # NoRun => task[u].active \in RunIds
    BY NoRunTyped DEF Owned, TypeOK, TaskRecords, NoRun, RunIds
  <2>2. \A u \in Tasks \ {t} : task[u].active # r
    BY <1>4 DEF FieldsAgree, OwnersAgree, RunIds, NoRun
  <2>3. OwnersAgree'
    BY <1>2, <1>4, <2>1, <2>2 DEF FieldsAgree, OwnersAgree, Running, Exists
  <2>4. HeldAgree'
    BY <1>4 DEF FieldsAgree, HeldAgree
  <2> QED BY <2>3, <2>4 DEF FieldsAgree
<1> QED BY <1>1, <1>3, <1>4 DEF Keeps

\* A claim gives the task to a run with a fresh id; the run it replaces, if
\* there is one, is the task's own.
LEMMA GrantStep ==
  ASSUME Owned, NEW t \in Tasks, NEW old \in 0..MaxRuns,
         lastRun' = lastRun + 1, lastRun' \in RunIds,
         RunsOn(t) \subseteq {old}, old \in RunIds => old \in RunsOn(t),
         \A q \in RunIds \ {old, lastRun'} : run'[q] = run[q],
         old \in RunIds => run'[old].outcome = "failed",
         run'[lastRun'].outcome = "running", run'[lastRun'].task = t,
         task'[t].active = lastRun', task'[t].state \in Held,
         \A u \in Tasks \ {t} : task'[u] = task[u]
  PROVE  Keeps
<1>0. lastRun \in 0..MaxRuns /\ RunIds = 1..MaxRuns /\ MaxRuns \in Nat
  BY NoRunTyped DEF Owned, TypeOK, RunIds
<1>1. ~Running(lastRun') /\ lastRun' # old /\ lastRun' # NoRun
  BY <1>0 DEF Owned, Allocated, RunsOn, Running, NoRun
<1>2. Allocated'
  BY <1>0, <1>1 DEF Owned, Allocated, RunsOn, Running
<1>3. \A q \in RunIds \ {lastRun'} : Running(q)' =>
         q # old /\ Running(q) /\ run'[q].task = run[q].task /\ run[q].task # t
  BY DEF Running, RunsOn
<1>4. OneOwner'
  <2>1. ASSUME NEW q \in RunIds, Running(q)'
        PROVE  run'[q].task \in Tasks /\ Exists(run[q].task)'
    <3>1. CASE q = lastRun'
      BY <3>1 DEF Exists, Held
    <3>2. CASE q # lastRun'
      BY <1>3, <2>1, <3>2 DEF Owned, OneOwner, Exists
    <3> QED BY <3>1, <3>2
  <2>2. ExclusiveOwner'
    BY <1>3 DEF Owned, OneOwner, ExclusiveOwner
  <2> QED BY <2>1, <2>2 DEF OneOwner
<1>5. ASSUME FieldsAgree PROVE FieldsAgree'
  <2>1. \A u \in Tasks : task[u].active # NoRun => task[u].active \in RunIds
    BY <1>0 DEF Owned, TypeOK, TaskRecords, NoRun
  <2>2. \A u \in Tasks \ {t} : task[u].active \notin {old, lastRun'} \/ task[u].active = NoRun
    BY <1>0, <1>1, <1>5, <2>1 DEF FieldsAgree, OwnersAgree, RunsOn
  <2>3. \A q \in RunIds : Running(q)' =>
           run'[q].task \in Tasks /\ task'[run'[q].task].active = q
    BY <1>3, <1>5 DEF FieldsAgree, OwnersAgree
  <2>4. ASSUME NEW u \in Tasks, task'[u].active # NoRun
        PROVE  Running(task[u].active)' /\ run'[task'[u].active].task = u /\ Exists(u)'
    <3>1. CASE u = t
      BY <1>1, <3>1 DEF Running, Exists, Held
    <3>2. CASE u # t
      <4> DEFINE a == task[u].active
      <4>1. task'[u].active = a /\ a # NoRun /\ a \in RunIds \ {old, lastRun'}
        BY <2>1, <2>2, <2>4, <3>2
      <4>2. run'[a] = run[a] /\ Running(a) /\ run[a].task = u /\ Exists(u)
        BY <1>5, <4>1 DEF FieldsAgree, OwnersAgree
      <4> QED BY <3>2, <4>1, <4>2 DEF Running, Exists
    <3> QED BY <3>1, <3>2
  <2>5. HeldAgree'
    BY <1>1, <1>5 DEF FieldsAgree, HeldAgree
  <2>6. OwnersAgree'
    BY <2>3, <2>4 DEF OwnersAgree
  <2> QED BY <2>5, <2>6 DEF FieldsAgree
<1> QED BY <1>2, <1>4, <1>5 DEF Keeps

\* Leases, journal entries and versions never touch ownership; claims, ends of
\* runs and the watchdog move its three records together.
LEMMA OwnedStep == Owned /\ Next => Keeps
<1> SUFFICES ASSUME Owned, Next PROVE Keeps
  OBVIOUS
<1>0. TypeOK
  BY DEF Owned
<1>1. ASSUME NEW now \in Times \ ticks, RegisterTick(now)
      PROVE Keeps
  BY <1>1, NeutralStep DEF RegisterTick, Exists
<1>2. ASSUME NEW t \in Tasks, FreeCommand(t)
      PROVE Keeps
  <2>1. UNCHANGED <<run, lastRun>>
    BY <1>2 DEF FreeCommand, MarkManaged, ProposeTask, RecordConfirmation,
                RecordEvidenceReference, ResolveGap, Note, RequestOutcomeVerification, Unblock
  <2>2. \A u \in Tasks \ {t} : task'[u] = task[u]
    BY <1>0, <1>2 DEF FreeCommand, MarkManaged, ProposeTask, RecordConfirmation, TypeOK,
                RecordEvidenceReference, ResolveGap, Note, RequestOutcomeVerification, Unblock, Transition
  <2>3. /\ Exists(t) => Exists(t)'
        /\ FieldsAgree => /\ task'[t].active = task[t].active
                          /\ task'[t].state \in Held <=> task[t].state \in Held
    <3>1. CASE MarkManaged(t) \/ Unblock(t)
      BY <1>0, <3>1 DEF MarkManaged, Unblock, Transition, Held, TypeOK, TaskRecords, Exists
    <3>2. CASE ProposeTask(t)
      <4>1. task[t].state = "absent" /\ task'[t] = NewTask("ready")
        BY <1>0, <3>2 DEF ProposeTask, Exists, TypeOK
      <4>2. FieldsAgree => task[t].active = NoRun
        BY <4>1 DEF FieldsAgree, OwnersAgree, Exists
      <4> QED BY <4>1, <4>2 DEF NewTask, Held, Exists
    <3>3. CASE RequestOutcomeVerification(t)
      BY <1>0, <3>3 DEF RequestOutcomeVerification, TypeOK, TaskRecords, Exists
    <3>4. CASE RecordConfirmation(t) \/ RecordEvidenceReference(t) \/ ResolveGap(t)
      BY <3>4 DEF RecordConfirmation, RecordEvidenceReference, ResolveGap, Note, Exists
    <3> QED BY <1>2, <3>1, <3>2, <3>3, <3>4 DEF FreeCommand
  <2>4. \A u \in Tasks \ {t} : Exists(u) => Exists(u)'
    BY <2>2 DEF Exists
  <2> QED BY <2>1, <2>2, <2>3, <2>4, NeutralStep
<1>3. ASSUME NEW t \in Tasks, Claim(t)
      PROVE Keeps
  <2> PICK now \in Times, q \in LeaseRequests :
         \/ ClaimFree(t, now, q)
         \/ \E old \in RunIds : ClaimOverExpired(t, old, now, q)
    BY <1>3 DEF Claim
  <2>1. lastRun' = lastRun + 1 /\ lastRun' \in RunIds
    BY <1>0, NoRunTyped DEF ClaimFree, ClaimOverExpired, TypeOK, RunIds
  <2>2. task'[t].active = lastRun' /\ task'[t].state \in Held
    BY <1>0 DEF ClaimFree, ClaimOverExpired, TypeOK, TaskRecords, Held
  <2>3. \A u \in Tasks \ {t} : task'[u] = task[u]
    BY <1>0 DEF ClaimFree, ClaimOverExpired, TypeOK
  <2>4. run'[lastRun'].outcome = "running" /\ run'[lastRun'].task = t
    BY <1>0, <2>1 DEF ClaimFree, ClaimOverExpired, NewRun, TypeOK
  <2>5. CASE ClaimFree(t, now, q)
    <3>1. RunsOn(t) = {} /\ \A r \in RunIds \ {lastRun'} : run'[r] = run[r]
      BY <1>0, <2>5 DEF ClaimFree, TypeOK
    <3>2. NoRun \in 0..MaxRuns /\ NoRun \notin RunIds
      BY NoRunTyped DEF NoRun, RunIds
    <3> QED BY <2>1, <2>2, <2>3, <2>4, <3>1, <3>2, GrantStep
  <2>6. ASSUME NEW old \in RunIds, ClaimOverExpired(t, old, now, q)
        PROVE Keeps
    <3>1. old \in RunsOn(t) /\ old \in 0..MaxRuns /\ old # lastRun'
      BY <2>1, <2>6, <1>0, NoRunTyped
      DEF ClaimOverExpired, RunIds, RunsOn, Running, Owned, Allocated, TypeOK
    <3>2. ASSUME NEW p \in RunsOn(t) PROVE p = old
      <4>1. p \in RunIds /\ Running(p) /\ run[p].task = t
        BY DEF RunsOn
      <4>2. Running(old) /\ run[old].task = t
        BY <3>1 DEF RunsOn
      <4> QED BY <4>1, <4>2 DEF Owned, OneOwner, ExclusiveOwner
    <3>3. /\ \A r \in RunIds \ {old, lastRun'} : run'[r] = run[r]
          /\ run'[old].outcome = "failed"
      BY <1>0, <2>1, <2>6, <3>1 DEF ClaimOverExpired, TypeOK, RunRecords
    <3> QED BY <2>1, <2>2, <2>3, <2>4, <3>1, <3>2, <3>3, GrantStep
  <2> QED BY <2>5, <2>6
<1>4. ASSUME NEW t \in Tasks, NEW r \in RunIds, NEW now \in Nows, LeaseCommand(t, r, now)
      PROVE Keeps
  <2>1. HoldsLease(t, r, now) /\ lastRun' = lastRun
    BY <1>4 DEF LeaseCommand, Heartbeat, RecordProgress, RecordWaitingResponse,
                RequestApproval, RecordEscalation, RecordFollowup, Annotate,
                ScheduleNextCheck, BlockTask, ReleaseTask, CompleteRun
  <2>2. /\ Running(r) /\ run[r].task = t /\ Exists(t)
        /\ FieldsAgree => task[t].state \in Held
    BY <2>1, LeaseOwnsTask
  <2>3. ASSUME NEW q \in LeaseRequests, Heartbeat(t, r, now, q)
        PROVE Keeps
    BY <1>0, <2>1, <2>2, <2>3, NeutralStep DEF Heartbeat, TypeOK, RunRecords, Exists
  <2>4. ASSUME task'[t].state \in Held \/ task'[t].state = task[t].state,
               task'[t].active = task[t].active,
               \A u \in Tasks \ {t} : task'[u] = task[u], run' = run
        PROVE Keeps
    BY <2>1, <2>2, <2>4, NeutralStep DEF Exists, Held
  <2>5. CASE \/ RecordProgress(t, r, now) \/ RecordWaitingResponse(t, r, now)
             \/ RequestApproval(t, r, now)
    BY <1>0, <2>4, <2>5 DEF RecordProgress, RecordWaitingResponse, RequestApproval,
                            Transition, TypeOK, TaskRecords, Held
  <2>6. CASE RecordEscalation(t, r, now) \/ RecordFollowup(t, r, now)
    BY <1>0, <2>2, <2>4, <2>6 DEF RecordEscalation, RecordFollowup, Annotate,
                                  TypeOK, TaskRecords
  <2>7. ASSUME NEW state \in States \ Held, NEW outcome \in Outcomes \ {"running", "unborn"},
               task'[t].state = state, task'[t].active = NoRun,
               \A u \in Tasks \ {t} : task'[u] = task[u],
               run' = [run EXCEPT ![r].outcome = outcome]
        PROVE Keeps
    <3>1. run'[r].outcome = outcome /\ \A q \in RunIds \ {r} : run'[q] = run[q]
      BY <1>0, <2>7 DEF TypeOK, RunRecords
    <3> QED BY <2>1, <2>2, <2>7, <3>1, EndStep
  <2>8. ASSUME NEW next \in Times, ScheduleNextCheck(t, r, now, next)
        PROVE Keeps
    BY <1>0, <2>7, <2>8
    DEF ScheduleNextCheck, Freed, TypeOK, TaskRecords, States, Held, Outcomes
  <2>9. CASE BlockTask(t, r, now) \/ ReleaseTask(t, r, now)
    <3>1. PICK state \in {"blocked", "ready"} :
            /\ task' = [task EXCEPT ![t] = Freed(@, state)]
            /\ run' = [run EXCEPT ![r].outcome = "released"]
      BY <2>9 DEF BlockTask, ReleaseTask, EndRun
    <3>2. state \in States \ Held /\ "released" \in Outcomes \ {"running", "unborn"}
      BY DEF States, Held, Outcomes
    <3> QED BY <1>0, <2>7, <3>1, <3>2 DEF Freed, TypeOK, TaskRecords
  <2>10. ASSUME NEW outcome \in RunOutcomes, NEW withEvidence \in BOOLEAN,
                CompleteRun(t, r, now, outcome, withEvidence)
         PROVE Keeps
    <3>1. FinalState[outcome] \in States \ Held /\ outcome \in Outcomes \ {"running", "unborn"}
      BY DEF RunOutcomes, FinalState, States, Held, Outcomes
    <3>2. task' = [task EXCEPT ![t] = Freed(@, FinalState[outcome])]
          /\ run' = [run EXCEPT ![r].outcome = outcome]
      BY <2>10 DEF CompleteRun
    <3> QED BY <1>0, <2>7, <3>1, <3>2 DEF Freed, TypeOK, TaskRecords
  <2> QED BY <1>4, <2>3, <2>5, <2>6, <2>8, <2>9, <2>10 DEF LeaseCommand
<1>5. ASSUME NEW now \in Times, ReclaimExpired(now)
      PROVE Keeps
  <2>1. lastRun' = lastRun
    BY <1>5 DEF ReclaimExpired
  <2>2. \A r \in RunIds :
          run'[r] = IF Expired(r, now) THEN [run[r] EXCEPT !.outcome = "failed"] ELSE run[r]
    BY <1>5 DEF ReclaimExpired
  <2>3. \A t \in Tasks :
          task'[t] = IF ExpiredOn(t, now) = {} THEN task[t] ELSE Freed(task[t], "ready")
    BY <1>5 DEF ReclaimExpired
  <2>4. \A r \in RunIds : /\ run'[r].task = run[r].task
                          /\ Running(r)' <=> Running(r) /\ ~Expired(r, now)
    BY <1>0, <2>2 DEF Running, Expired, TypeOK, RunRecords
  <2>5. Allocated'
    BY <1>0, <2>1, <2>2 DEF Owned, Allocated, Expired, Running, TypeOK, RunRecords
  <2>6. ASSUME NEW t \in Tasks
        PROVE  task'[t] = task[t] \/ (task'[t].active = NoRun /\ task'[t].state = "ready")
    <3>1. task[t] \in TaskRecords
      BY <1>0 DEF TypeOK
    <3>2. Freed(task[t], "ready").active = NoRun /\ Freed(task[t], "ready").state = "ready"
      BY <3>1 DEF Freed, TaskRecords
    <3> QED BY <2>3, <3>2
  <2>7. OneOwner'
    <3>1. \A t \in Tasks : Exists(t) => Exists(t)'
      BY <2>6 DEF Exists
    <3> QED BY <2>4, <3>1 DEF Owned, OneOwner, ExclusiveOwner
  <2>8. ASSUME FieldsAgree PROVE FieldsAgree'
    <3>1. \A t \in Tasks : task[t].active # NoRun => task[t].active \in RunIds
      BY <1>0, NoRunTyped DEF TypeOK, TaskRecords, RunIds, NoRun
    <3>2. ASSUME NEW t \in Tasks
          PROVE ExpiredOn(t, now) = IF task[t].active # NoRun /\ Expired(task[t].active, now)
                                    THEN {task[t].active} ELSE {}
      BY <2>8, <3>1, NoRunTyped DEF ExpiredOn, Expired, FieldsAgree, OwnersAgree, RunIds, NoRun
    <3>3. ASSUME NEW t \in Tasks, ExpiredOn(t, now) # {}
          PROVE  task'[t].active = NoRun /\ task'[t].state = "ready"
      <4>1. task[t] \in TaskRecords /\ task'[t] = Freed(task[t], "ready")
        BY <1>0, <2>3, <3>3 DEF TypeOK
      <4> QED BY <4>1 DEF Freed, TaskRecords
    <3>4. \A r \in RunIds : Running(r)' => /\ run'[r].task \in Tasks
                                          /\ task'[run'[r].task].active = r
      BY <2>3, <2>4, <2>8, <3>2 DEF FieldsAgree, OwnersAgree
    <3>5. HeldAgree'
      BY <2>6, <2>8 DEF FieldsAgree, HeldAgree, Held
    <3>6. ASSUME NEW t \in Tasks, task'[t].active # NoRun
          PROVE Running(task[t].active)' /\ run'[task'[t].active].task = t /\ Exists(t)'
      <4> DEFINE a == task[t].active
      <4>1. ExpiredOn(t, now) = {} /\ task'[t] = task[t]
        BY <2>3, <3>3, <3>6
      <4>2. a # NoRun /\ a \in RunIds
        BY <3>1, <3>6, <4>1
      <4>3. Running(a) /\ run[a].task = t /\ ~Expired(a, now) /\ Exists(t)
        BY <2>8, <3>2, <4>1, <4>2 DEF FieldsAgree, OwnersAgree
      <4>4. run'[a] = run[a]
        BY <2>2, <4>2, <4>3
      <4> QED BY <4>1, <4>2, <4>3, <4>4 DEF Running, Exists
    <3>7. OwnersAgree'
      BY <3>4, <3>6 DEF OwnersAgree
    <3> QED BY <3>5, <3>7 DEF FieldsAgree
  <2> QED BY <2>5, <2>7, <2>8 DEF Keeps
<1> QED BY <1>1, <1>2, <1>3, <1>4, <1>5 DEF Next

\* A user who writes the fields of a task writes no run, and leaves the task.
LEMMA ManualEditOwned ==
  ASSUME Owned, NEW t \in Tasks, NEW state \in States \ {"absent"},
         NEW active \in 0..MaxRuns, NEW next \in Times \cup {Unset},
         ManualEdit(t, state, active, next)
  PROVE  Allocated' /\ OneOwner'
<1>1. /\ \A u \in Tasks : Exists(u) => Exists(u)'
      /\ run' = run /\ lastRun' = lastRun
  BY DEF ManualEdit, Owned, TypeOK, TaskRecords, Exists
<1>2. \A r \in RunIds : Running(r)' <=> Running(r)
  BY <1>1 DEF Running
<1>3. Allocated'
  BY <1>1 DEF Owned, Allocated
<1>4. OneOwner'
  BY <1>1, <1>2 DEF Owned, OneOwner, ExclusiveOwner
<1> QED BY <1>3, <1>4

\* A step that changes nothing keeps what holds.
LEMMA StutterKeeps ==
  ASSUME Owned, UNCHANGED vars
  PROVE  Keeps
BY NeutralStep DEF vars, Exists

\* A task has one owner at most through every step, manual edits included.
LEMMA OwnedInductive == Owned /\ [MNext]_vars => Owned'
<1> SUFFICES ASSUME Owned, [MNext]_vars PROVE Owned'
  OBVIOUS
<1>1. TypeOK'
  BY TypeInductiveManual DEF Owned
<1>2. CASE UNCHANGED vars
  BY <1>1, <1>2, StutterKeeps DEF Keeps, Owned
<1>3. CASE Next
  BY <1>1, <1>3, OwnedStep DEF Keeps, Owned
<1>4. CASE \E t \in Tasks, state \in States \ {"absent"}, active \in 0..MaxRuns,
              next \in Times \cup {Unset} : ManualEdit(t, state, active, next)
  BY <1>1, <1>4, ManualEditOwned DEF Owned
<1> QED BY <1>2, <1>3, <1>4 DEF MNext

\* Runs, owners and states agree through every step of the commands.
LEMMA OwnershipInductive == Ownership /\ [Next]_vars => Ownership'
<1> SUFFICES ASSUME Ownership, [Next]_vars PROVE Ownership'
  OBVIOUS
<1>1. Owned' /\ Keeps
  BY OwnedStep, StutterKeeps, OwnedInductive DEF Ownership, MNext
<1> QED BY <1>1 DEF Ownership, Keeps

\* Nothing runs at first.
LEMMA OwnershipInit == Init => Ownership /\ Owned
<1> SUFFICES ASSUME Init PROVE Ownership /\ Owned
  OBVIOUS
<1>1. TypeOK
  BY TypeInit
<1>2. \A r \in RunIds : run[r].outcome = "unborn" /\ r > lastRun
  BY NoRunTyped DEF Init, UnbornRun, RunIds
<1>3. Allocated
  BY <1>2 DEF Allocated
<1>4. \A t \in Tasks : task[t].active = NoRun /\ task[t].state \notin Held
  BY DEF Init, NewTask, Held
<1>5. OneOwner /\ FieldsAgree
  BY <1>2, <1>4 DEF OneOwner, ExclusiveOwner, FieldsAgree, OwnersAgree, HeldAgree, Running
<1> QED BY <1>1, <1>3, <1>5 DEF Ownership, Owned

\* Run table, active_run_id and orchestration state agree in every reachable
\* state, for any number of tasks, runs and claimants.
THEOREM OwnershipCorrect == Spec => []OwnershipAgrees
<1>1. Ownership => OwnershipAgrees
  BY DEF Ownership, FieldsAgree, OwnersAgree, HeldAgree, OwnershipAgrees
<1> QED BY <1>1, OwnershipInit, OwnershipInductive, PTL DEF Spec

\* Nobody who writes a state or an active run by hand gives a task a second
\* run: a claim looks for runs, and believes neither field.
THEOREM ExclusiveOwnerManual == MSpec => []ExclusiveOwner
<1>1. Owned => ExclusiveOwner
  BY DEF Owned, OneOwner
<1> QED BY <1>1, OwnershipInit, OwnedInductive, PTL DEF MSpec

\* Nor does any order of claims, expiries and watchdog calls.
THEOREM ExclusiveOwnerCorrect == Spec => []ExclusiveOwner
BY ExclusiveOwnerManual, CommandsAlone, PTL

-----------------------------------------------------------------------------
(* What no step may do                                                     *)

\* A step never writes a run that has ended: a lease command needs a running
\* run, a claim writes a fresh id and a running one, the watchdog running ones.
LEMMA EndedStep ==
  ASSUME Owned, Next, NEW r \in RunIds, Ended(r)
  PROVE  run'[r] = run[r]
<1>0. TypeOK /\ ~Running(r) /\ r # lastRun + 1
  BY NoRunTyped DEF Owned, Ended, Running, Allocated, TypeOK, RunIds
<1>1. CASE \E now \in Times \ ticks : RegisterTick(now)
  BY <1>1 DEF RegisterTick
<1>2. ASSUME NEW t \in Tasks, FreeCommand(t) PROVE run'[r] = run[r]
  BY <1>2 DEF FreeCommand, MarkManaged, ProposeTask, RecordConfirmation,
              RecordEvidenceReference, ResolveGap, Note, RequestOutcomeVerification, Unblock
<1>3. ASSUME NEW t \in Tasks, Claim(t) PROVE run'[r] = run[r]
  BY <1>0, <1>3 DEF Claim, ClaimFree, ClaimOverExpired, RunsOn, TypeOK
<1>4. ASSUME NEW t \in Tasks, NEW s \in RunIds, NEW now \in Nows, LeaseCommand(t, s, now)
      PROVE run'[r] = run[r]
  <2>1. s # r
    BY <1>0, <1>4 DEF LeaseCommand, Heartbeat, RecordProgress, RecordWaitingResponse,
                RequestApproval, RecordEscalation, RecordFollowup, Annotate, HoldsLease,
                LeaseValid, ScheduleNextCheck, BlockTask, ReleaseTask, CompleteRun
  <2> QED BY <1>0, <1>4, <2>1
      DEF LeaseCommand, Heartbeat, RecordProgress, RecordWaitingResponse,
          RequestApproval, RecordEscalation, RecordFollowup, Annotate,
          ScheduleNextCheck, BlockTask, ReleaseTask, EndRun, CompleteRun, TypeOK
<1>5. CASE \E now \in Times : ReclaimExpired(now)
  BY <1>0, <1>5 DEF ReclaimExpired, Expired
<1> QED BY <1>1, <1>2, <1>3, <1>4, <1>5 DEF Next

\* No edit of a task by hand brings an ended run back.
THEOREM EndedRunsFrozenManual == MSpec => EndedRunsFrozen
<1>1. Owned /\ [MNext]_vars => [\A r \in RunIds : Ended(r) => run'[r] = run[r]]_vars
  BY EndedStep DEF MNext, ManualEdit
<1> QED BY <1>1, OwnershipInit, OwnedInductive, PTL DEF MSpec, EndedRunsFrozen

\* Late heartbeats, late results and repeated watchdog calls leave an ended
\* run as it ended.
THEOREM EndedRunsFrozenCorrect == Spec => EndedRunsFrozen
BY EndedRunsFrozenManual, CommandsAlone, PTL

\* A task in a terminal state has no running run, so no lease opens it, it is
\* not due, and the watchdog finds nothing of it to collect.
LEMMA TerminalStep ==
  ASSUME Ownership, Next, NEW t \in Tasks, task[t].state \in Terminal
  PROVE  task'[t].state = task[t].state
<1>0. TypeOK
  BY DEF Ownership, Owned
<1>1. task[t].state \notin Held /\ task[t].active = NoRun
  BY DEF Ownership, FieldsAgree, HeldAgree, Held, Terminal
<1>2. \A r \in RunIds : Running(r) => run[r].task # t
  BY <1>1, NoRunTyped DEF Ownership, FieldsAgree, OwnersAgree, RunIds, NoRun
<1>3. CASE \E now \in Times \ ticks : RegisterTick(now)
  BY <1>3 DEF RegisterTick
<1>4. ASSUME NEW u \in Tasks, FreeCommand(u) PROVE task'[t].state = task[t].state
  <2>1. CASE MarkManaged(u) \/ Unblock(u)
    BY <1>0, <2>1 DEF MarkManaged, Unblock, Transition, Terminal, TypeOK
  <2>2. CASE ProposeTask(u)
    BY <1>0, <2>2 DEF ProposeTask, Exists, Terminal, TypeOK
  <2>3. CASE RequestOutcomeVerification(u)
    BY <1>0, <2>3 DEF RequestOutcomeVerification, TypeOK, TaskRecords
  <2>4. CASE RecordConfirmation(u) \/ RecordEvidenceReference(u) \/ ResolveGap(u)
    BY <2>4 DEF RecordConfirmation, RecordEvidenceReference, ResolveGap, Note
  <2> QED BY <1>4, <2>1, <2>2, <2>3, <2>4 DEF FreeCommand
<1>5. ASSUME NEW u \in Tasks, Claim(u) PROVE task'[t].state = task[t].state
  <2> PICK now \in Times, q \in LeaseRequests :
         \/ ClaimFree(u, now, q)
         \/ \E old \in RunIds : ClaimOverExpired(u, old, now, q)
    BY <1>5 DEF Claim
  <2>1. u # t
    BY <1>2 DEF ClaimFree, ClaimOverExpired, Due, Terminal, RunsOn
  <2> QED BY <1>0, <2>1 DEF ClaimFree, ClaimOverExpired, TypeOK
<1>6. ASSUME NEW u \in Tasks, NEW r \in RunIds, NEW now \in Nows, LeaseCommand(u, r, now)
      PROVE task'[t].state = task[t].state
  <2>1. HoldsLease(u, r, now)
    BY <1>6 DEF LeaseCommand, Heartbeat, RecordProgress, RecordWaitingResponse,
                RequestApproval, RecordEscalation, RecordFollowup, Annotate,
                ScheduleNextCheck, BlockTask, ReleaseTask, CompleteRun
  <2>2. u # t
    BY <1>2, <2>1 DEF HoldsLease, LeaseValid
  <2> QED BY <1>0, <1>6, <2>2
      DEF LeaseCommand, Heartbeat, RecordProgress, RecordWaitingResponse, Transition,
          RequestApproval, RecordEscalation, RecordFollowup, Annotate,
          ScheduleNextCheck, BlockTask, ReleaseTask, EndRun, CompleteRun, TypeOK
<1>7. CASE \E now \in Times : ReclaimExpired(now)
  BY <1>2, <1>7 DEF ReclaimExpired, ExpiredOn, Expired
<1> QED BY <1>3, <1>4, <1>5, <1>6, <1>7 DEF Next

\* No sequence of commands reopens a completed, failed or reviewed task.
THEOREM TerminalIsFinalCorrect == Spec => TerminalIsFinal
<1>1. Ownership /\ [Next]_vars =>
        [\A t \in Tasks :
           task[t].state \in Terminal /\ task'[t].state # task[t].state
             => task[t].state = "review" /\ task'[t].state = "completed"]_vars
  BY TerminalStep
<1> QED BY <1>1, OwnershipInit, OwnershipInductive, PTL DEF Spec, TerminalIsFinal
=============================================================================
