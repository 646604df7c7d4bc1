---------------------- MODULE OrchestratorJournalProofs ----------------------
(***************************************************************************)
(* Theorems about the leases and the journal of Orchestrator: the bound on *)
(* a lease, the sleep of a scheduled task, the fence in the journal, what  *)
(* the journal tells of a task, and the refinement of TaskLease.  They     *)
(* rest on Owned: who may write to the journal of a task in a run's name   *)
(* is its one running run.                                                 *)
(***************************************************************************)
EXTENDS OrchestratorProofs, WellFoundedInduction

-----------------------------------------------------------------------------
(* The bound on a lease                                                    *)

\* A tick that was registered stays registered.
LEMMA TicksStay == [MNext]_vars => ticks \subseteq ticks'
<1> SUFFICES ASSUME [MNext]_vars PROVE ticks \subseteq ticks'
  OBVIOUS
<1>1. CASE \E now \in Times \ ticks : RegisterTick(now)
  BY <1>1 DEF RegisterTick
<1>2. CASE \E t \in Tasks : FreeCommand(t)
  BY <1>2 DEF FreeCommand, MarkManaged, ProposeTask, RecordConfirmation,
     RecordEvidenceReference, ResolveGap, Note, RequestOutcomeVerification, Unblock
<1>3. CASE \E t \in Tasks : Claim(t)
  BY <1>3 DEF Claim, ClaimFree, ClaimOverExpired
<1>4. CASE \E t \in Tasks, r \in RunIds, now \in Nows : LeaseCommand(t, r, now)
  BY <1>4 DEF LeaseCommand, Heartbeat, RecordProgress,
     RecordWaitingResponse, RequestApproval, RecordEscalation, RecordFollowup, Annotate,
     ScheduleNextCheck, BlockTask, ReleaseTask, CompleteRun
<1>5. CASE \E now \in Times : ReclaimExpired(now)
  BY <1>5 DEF ReclaimExpired
<1>6. QED
  BY <1>1, <1>2, <1>3, <1>4, <1>5 DEF MNext, ManualEdit, Next, vars

\* Only a claim and a heartbeat set the end of a lease, both counting from a
\* reading of the clock, and readings stay valid once registered.
LEMMA HorizonStep == TypeOK /\ LeaseHorizon /\ [MNext]_vars => LeaseHorizon'
<1> SUFFICES ASSUME TypeOK, LeaseHorizon, [MNext]_vars, NEW r \in RunIds, Running(r)'
             PROVE  \E now \in Nows' : run'[r].expires <= now + MaxLease
  BY DEF LeaseHorizon
<1>0. Nows \subseteq Nows'
  BY TicksStay DEF Nows
<1>1. ASSUME Running(r), run'[r].expires = run[r].expires
      PROVE  \E now \in Nows' : run'[r].expires <= now + MaxLease
  BY <1>0, <1>1 DEF LeaseHorizon
<1>2. ASSUME NEW now \in Nows, NEW q \in LeaseRequests,
             run'[r].expires = now + LeaseLength(q)
      PROVE  \E n \in Nows' : run'[r].expires <= n + MaxLease
  <2>1. now \in Int /\ LeaseLength(q) \in Int /\ LeaseLength(q) <= MaxLease /\ MaxLease \in Int
    BY NowsAreTimes, LeaseLengthBound, ConstantsAssumption
  <2>2. now + LeaseLength(q) <= now + MaxLease
    BY <2>1
  <2>3. QED
    BY <1>0, <1>2, <2>2
<1>3. CASE UNCHANGED run
  BY <1>1, <1>3 DEF Running
<1>4. ASSUME NEW t \in Tasks, Claim(t)
      PROVE  \E now \in Nows' : run'[r].expires <= now + MaxLease
  <2> PICK now \in Times, q \in LeaseRequests :
         \/ ClaimFree(t, now, q)
         \/ \E old \in RunIds : ClaimOverExpired(t, old, now, q)
    BY <1>4 DEF Claim
  <2>1. now \in Nows /\ lastRun' = lastRun + 1
    BY DEF ClaimFree, ClaimOverExpired
  <2>2. CASE r = lastRun'
    <3>1. run'[r] = NewRun(t, now, q)
      BY <2>2 DEF ClaimFree, ClaimOverExpired, TypeOK
    <3>2. QED
      BY <1>2, <2>1, <3>1 DEF NewRun
  <2>3. CASE r # lastRun'
    <3>1. CASE run'[r] = run[r]
      BY <1>1, <3>1 DEF Running
    <3>2. ASSUME NEW old \in RunIds, ClaimOverExpired(t, old, now, q), r = old
          PROVE  FALSE
      <4>1. run'[r] = [run[r] EXCEPT !.outcome = "failed"]
        BY <2>3, <3>2 DEF ClaimOverExpired, TypeOK
      <4>2. QED
        BY <4>1 DEF Running, TypeOK, RunRecords
    <3>3. QED
      BY <2>3, <3>1, <3>2 DEF ClaimFree, ClaimOverExpired, TypeOK
  <2>4. QED
    BY <2>2, <2>3
<1>5. ASSUME NEW t \in Tasks, NEW s \in RunIds, NEW now \in Nows, LeaseCommand(t, s, now)
      PROVE  \E n \in Nows' : run'[r].expires <= n + MaxLease
  <2>1. ASSUME NEW q \in LeaseRequests, Heartbeat(t, s, now, q)
        PROVE  \E n \in Nows' : run'[r].expires <= n + MaxLease
    <3>1. CASE r = s
      BY <1>2, <2>1, <3>1 DEF Heartbeat, TypeOK, RunRecords
    <3>2. CASE r # s
      BY <1>1, <2>1, <3>2 DEF Heartbeat, TypeOK, Running
    <3>3. QED
      BY <3>1, <3>2
  <2>2. CASE \/ RecordProgress(t, s, now) \/ RecordWaitingResponse(t, s, now)
             \/ RequestApproval(t, s, now) \/ RecordEscalation(t, s, now)
             \/ RecordFollowup(t, s, now)
    BY <1>3, <2>2 DEF RecordProgress, RecordWaitingResponse, RequestApproval,
                      RecordEscalation, RecordFollowup, Annotate
  <2>3. ASSUME NEW outcome \in Outcomes \ {"running"}, run' = [run EXCEPT ![s].outcome = outcome]
        PROVE  \E n \in Nows' : run'[r].expires <= n + MaxLease
    <3>1. r # s /\ run'[r] = run[r]
      BY <2>3 DEF TypeOK, RunRecords, Running
    <3>2. QED
      BY <1>1, <3>1 DEF Running
  <2>4. CASE \/ \E next \in Times : ScheduleNextCheck(t, s, now, next)
             \/ BlockTask(t, s, now) \/ ReleaseTask(t, s, now)
    BY <2>3, <2>4 DEF ScheduleNextCheck, BlockTask, ReleaseTask, EndRun, Outcomes
  <2>5. CASE \E outcome \in RunOutcomes, withEvidence \in BOOLEAN :
               CompleteRun(t, s, now, outcome, withEvidence)
    <3>1. RunOutcomes \subseteq Outcomes \ {"running"}
      BY DEF RunOutcomes, Outcomes
    <3>2. QED
      BY <2>3, <2>5, <3>1 DEF CompleteRun
  <2>6. QED
    BY <1>5, <2>1, <2>2, <2>4, <2>5 DEF LeaseCommand
<1>6. CASE \E now \in Times : ReclaimExpired(now)
  <2>1. run'[r].expires = run[r].expires /\ run'[r].outcome \in {run[r].outcome, "failed"}
    BY <1>6 DEF ReclaimExpired, TypeOK, RunRecords
  <2>2. QED
    BY <1>1, <2>1 DEF Running
<1>7. CASE \/ \E now \in Times \ ticks : RegisterTick(now)
           \/ \E t \in Tasks : FreeCommand(t)
  BY <1>3, <1>7 DEF RegisterTick, FreeCommand, MarkManaged, ProposeTask, RecordConfirmation,
                    RecordEvidenceReference, ResolveGap, Note, RequestOutcomeVerification, Unblock
<1>8. QED
  BY <1>3, <1>4, <1>5, <1>6, <1>7 DEF MNext, ManualEdit, Next, vars

\* A running lease ends at most MaxLease after a registered reading of the
\* clock, whatever lease_seconds or extend_seconds its holder asks for and
\* however often it renews, and whatever is written to its task by hand.
THEOREM LeaseHorizonManual == MSpec => []LeaseHorizon
<1>1. Init => LeaseHorizon
  BY DEF Init, LeaseHorizon, Running, UnbornRun
<1>2. QED
  BY <1>1, HorizonStep, TypeInit, TypeInductiveManual, PTL DEF MSpec

\* In particular when nobody writes by hand.
THEOREM LeaseHorizonCorrect == Spec => []LeaseHorizon
  BY LeaseHorizonManual, CommandsAlone, PTL

-----------------------------------------------------------------------------
(* The sleep of a scheduled task                                           *)

\* A scheduled task has a next check.
Booked == \A t \in Tasks : task[t].state = "scheduled" => task[t].nextCheck \in Times

\* Who does not hold a lease on a task leaves its record alone, unless the
\* command is a free one or a claim.
LEMMA LeaseCommandElsewhere ==
  ASSUME TypeOK, NEW t \in Tasks, NEW u \in Tasks \ {t}, NEW r \in RunIds, NEW now \in Nows,
         LeaseCommand(u, r, now)
  PROVE  task'[t] = task[t]
  BY DEF LeaseCommand, Heartbeat, RecordProgress, RecordWaitingResponse, Transition,
         RequestApproval, RecordEscalation, RecordFollowup, Annotate,
         ScheduleNextCheck, BlockTask, ReleaseTask, EndRun, CompleteRun, TypeOK

\* What a command under a lease leaves scheduled, it booked.
LEMMA LeaseCommandBooks ==
  ASSUME Ownership, NEW t \in Tasks, NEW r \in RunIds, NEW now \in Nows,
         LeaseCommand(t, r, now), task'[t].state = "scheduled"
  PROVE  task'[t].nextCheck \in Times
<1>0. task[t] \in TaskRecords /\ task \in [Tasks -> TaskRecords]
  BY DEF Ownership, Owned, TypeOK
<1>1. HoldsLease(t, r, now)
  BY DEF LeaseCommand, Heartbeat, RecordProgress, RecordWaitingResponse,
         RequestApproval, RecordEscalation, RecordFollowup, Annotate,
         ScheduleNextCheck, BlockTask, ReleaseTask, CompleteRun
<1>2. task[t].state # "scheduled"
  BY <1>1, LeaseOwnsTask DEF Ownership, Held
<1>3. CASE \E next \in Times : ScheduleNextCheck(t, r, now, next)
  BY <1>0, <1>3 DEF ScheduleNextCheck, Freed, TaskRecords
<1>4. CASE \/ \E q \in LeaseRequests : Heartbeat(t, r, now, q)
           \/ RecordEscalation(t, r, now) \/ RecordFollowup(t, r, now)
  BY <1>0, <1>2, <1>4 DEF Heartbeat, RecordEscalation, RecordFollowup, Annotate, TaskRecords
<1>5. CASE \/ RecordProgress(t, r, now) \/ RecordWaitingResponse(t, r, now)
           \/ RequestApproval(t, r, now)
  BY <1>0, <1>5 DEF RecordProgress, RecordWaitingResponse, RequestApproval, Transition, TaskRecords
<1>6. CASE BlockTask(t, r, now) \/ ReleaseTask(t, r, now)
  <2>1. PICK state \in {"blocked", "ready"} : task' = [task EXCEPT ![t] = Freed(@, state)]
    BY <1>6 DEF BlockTask, ReleaseTask, EndRun
  <2>2. task'[t].state = state
    BY <1>0, <2>1 DEF Freed, TaskRecords
  <2>3. QED
    BY <2>2
<1>7. ASSUME NEW outcome \in RunOutcomes, NEW withEvidence \in BOOLEAN,
             CompleteRun(t, r, now, outcome, withEvidence)
      PROVE  FALSE
  <2>1. task'[t].state = FinalState[outcome]
    BY <1>0, <1>7 DEF CompleteRun, Freed, TaskRecords
  <2>2. QED
    BY <2>1 DEF RunOutcomes, FinalState
<1>8. QED
  BY <1>3, <1>4, <1>5, <1>6, <1>7 DEF LeaseCommand

\* Every step that schedules a task books its next check.
LEMMA BookedStep == Ownership /\ Booked /\ [Next]_vars => Booked'
<1> SUFFICES ASSUME Ownership, Booked, [Next]_vars, NEW t \in Tasks, task'[t].state = "scheduled"
             PROVE  task'[t].nextCheck \in Times
  BY DEF Booked
<1>0. TypeOK /\ task[t] \in TaskRecords /\ task \in [Tasks -> TaskRecords]
  BY DEF Ownership, Owned, TypeOK
<1>1. CASE task'[t] = task[t]
  BY <1>1 DEF Booked
<1>2. ASSUME NEW u \in Tasks, FreeCommand(u) PROVE task'[t].nextCheck \in Times
  <2>1. CASE MarkManaged(u) \/ Unblock(u)
    BY <1>0, <1>1, <2>1 DEF MarkManaged, Unblock, Transition, TaskRecords
  <2>2. CASE ProposeTask(u)
    BY <1>0, <1>1, <2>2 DEF ProposeTask, NewTask
  <2>3. CASE RequestOutcomeVerification(u)
    <3>1. CASE u = t
      BY <1>0, <2>3, <3>1 DEF RequestOutcomeVerification, Booked, TaskRecords
    <3>2. CASE u # t
      BY <1>0, <1>1, <2>3, <3>2 DEF RequestOutcomeVerification
    <3>3. QED
      BY <3>1, <3>2
  <2>4. CASE RecordConfirmation(u) \/ RecordEvidenceReference(u) \/ ResolveGap(u)
    BY <1>1, <2>4 DEF RecordConfirmation, RecordEvidenceReference, ResolveGap, Note
  <2>5. QED
    BY <1>2, <2>1, <2>2, <2>3, <2>4 DEF FreeCommand
<1>3. ASSUME NEW u \in Tasks, Claim(u) PROVE task'[t].nextCheck \in Times
  BY <1>0, <1>1, <1>3 DEF Claim, ClaimFree, ClaimOverExpired, TaskRecords
<1>4. ASSUME NEW u \in Tasks, NEW r \in RunIds, NEW now \in Nows, LeaseCommand(u, r, now)
      PROVE  task'[t].nextCheck \in Times
  BY <1>0, <1>1, <1>4, LeaseCommandBooks, LeaseCommandElsewhere
<1>5. CASE \E now \in Times : ReclaimExpired(now)
  <2>1. task'[t] \in {task[t], Freed(task[t], "ready")}
    BY <1>5 DEF ReclaimExpired
  <2>2. Freed(task[t], "ready").state = "ready"
    BY <1>0 DEF Freed, TaskRecords
  <2>3. QED
    BY <1>1, <2>1, <2>2
<1>6. CASE \/ \E now \in Times \ ticks : RegisterTick(now)
           \/ UNCHANGED vars
  BY <1>1, <1>6 DEF RegisterTick, vars
<1>7. QED
  BY <1>2, <1>3, <1>4, <1>5, <1>6 DEF Next

\* Nobody holds a scheduled task, so only a claim can wake it, and a claim
\* compares its clock reading with the next check.
LEMMA WakeStep ==
  ASSUME Ownership, Booked, Next, NEW t \in Tasks,
         task[t].state = "scheduled", task'[t].state # "scheduled"
  PROVE  \E now \in Nows : task[t].nextCheck <= now
<1>0. TypeOK /\ task \in [Tasks -> TaskRecords]
  BY DEF Ownership, Owned, TypeOK
<1>1. task[t].active = NoRun /\ \A r \in RunIds : Running(r) => run[r].task # t
  BY NoRunTyped DEF Ownership, FieldsAgree, OwnersAgree, HeldAgree, Held, RunIds, NoRun
<1>2. ASSUME NEW u \in Tasks, FreeCommand(u) PROVE FALSE
  <2>1. CASE MarkManaged(u) \/ Unblock(u)
    BY <1>0, <2>1 DEF MarkManaged, Unblock, Transition
  <2>2. CASE ProposeTask(u)
    BY <1>0, <2>2 DEF ProposeTask, Exists
  <2>3. CASE RequestOutcomeVerification(u)
    BY <1>0, <2>3 DEF RequestOutcomeVerification, TaskRecords
  <2>4. CASE RecordConfirmation(u) \/ RecordEvidenceReference(u) \/ ResolveGap(u)
    BY <2>4 DEF RecordConfirmation, RecordEvidenceReference, ResolveGap, Note
  <2>5. QED
    BY <1>2, <2>1, <2>2, <2>3, <2>4 DEF FreeCommand
<1>3. ASSUME NEW u \in Tasks, Claim(u) PROVE \E now \in Nows : task[t].nextCheck <= now
  <2> PICK now \in Times, q \in LeaseRequests :
         \/ ClaimFree(u, now, q)
         \/ \E old \in RunIds : ClaimOverExpired(u, old, now, q)
    BY <1>3 DEF Claim
  <2>1. u = t /\ now \in Nows
    BY <1>0 DEF ClaimFree, ClaimOverExpired
  <2>2. Due(t, now)
    BY <1>1, <2>1 DEF ClaimFree, ClaimOverExpired, RunsOn
  <2>3. task[t].nextCheck # Unset
    BY ConstantsAssumption DEF Booked
  <2>4. QED
    BY <2>1, <2>2, <2>3 DEF Due
<1>4. ASSUME NEW u \in Tasks, NEW r \in RunIds, NEW now \in Nows, LeaseCommand(u, r, now)
      PROVE  FALSE
  <2>1. HoldsLease(u, r, now)
    BY <1>4 DEF LeaseCommand, Heartbeat, RecordProgress, RecordWaitingResponse,
                RequestApproval, RecordEscalation, RecordFollowup, Annotate,
                ScheduleNextCheck, BlockTask, ReleaseTask, CompleteRun
  <2>2. u # t
    BY <1>1, <2>1 DEF HoldsLease, LeaseValid
  <2>3. QED
    BY <1>0, <1>4, <2>2, LeaseCommandElsewhere
<1>5. CASE \E now \in Times : ReclaimExpired(now)
  BY <1>1, <1>5 DEF ReclaimExpired, ExpiredOn, Expired
<1>6. CASE \E now \in Times \ ticks : RegisterTick(now)
  BY <1>6 DEF RegisterTick
<1>7. QED
  BY <1>2, <1>3, <1>4, <1>5, <1>6 DEF Next

\* A scheduled task sleeps until the trusted clock reached its next check,
\* whoever calls claim_task and whatever expires meanwhile.
THEOREM NoEarlyWakeCorrect == Spec => NoEarlyWake
<1>1. Init => Booked
  BY DEF Init, NewTask, Booked
<1>2. Ownership /\ Booked /\ [Next]_vars =>
        [\A t \in Tasks :
           task[t].state = "scheduled" /\ task'[t].state # "scheduled"
             => \E now \in Nows : task[t].nextCheck <= now]_vars
  BY WakeStep
<1>3. QED
  BY <1>1, <1>2, BookedStep, OwnershipInit, OwnershipInductive, PTL DEF Spec, NoEarlyWake

-----------------------------------------------------------------------------
(* What a step writes to the journal, and in whose name                    *)

\* The journal of t gets an event of the run last, after one of the run first
\* perhaps; the other journals get nothing.
Emits(t, first, last) ==
  \E d, e \in EventRecords :
    /\ d.run = first /\ e.run = last
    /\ journal' \in {[journal EXCEPT ![t] = Append(@, e)],
                     [journal EXCEPT ![t] = Append(Append(@, d), e)]}

SameHolders ==
  /\ lastRun' = lastRun
  /\ \A r \in RunIds : run'[r].task = run[r].task /\ run'[r].outcome = run[r].outcome

Holder(t, r) == Running(r) /\ run[r].task = t

\* The steps, as far as holders and the journal are concerned; the watchdog's
\* step is the fifth.
Quiet == SameHolders /\ (journal' = journal \/ \E t \in Tasks : Emits(t, NoRun, NoRun))

Works(t, r) == Holder(t, r) /\ SameHolders /\ Emits(t, r, r)

Ends(t, r) ==
  /\ Holder(t, r) /\ Emits(t, r, r)
  /\ lastRun' = lastRun
  /\ run'[r].outcome # "running"
  /\ \A q \in RunIds \ {r} : run'[q] = run[q]

Grants(t, old) ==
  /\ lastRun' = lastRun + 1 /\ lastRun' \in RunIds
  /\ RunsOn(t) \subseteq {old}
  /\ old # NoRun => old \in RunIds /\ Holder(t, old) /\ run'[old].outcome = "failed"
  /\ \A q \in RunIds \ {old, lastRun'} : run'[q] = run[q]
  /\ run'[lastRun'].outcome = "running" /\ run'[lastRun'].task = t
  /\ Emits(t, old, lastRun')

\* An emitted event: its journal gets one event more.
LEMMA OneEvent ==
  ASSUME TypeOK, NEW t \in Tasks, NEW type \in EventTypes, NEW r \in 0..MaxRuns,
         NEW first \in 0..MaxRuns, task'[t].version \in Nat, Emit(t, type, r)
  PROVE  Emits(t, first, r)
<1> DEFINE e == Event(type, r, task'[t].version)
           d == Event(type, first, task'[t].version)
<1>1. d \in EventRecords /\ e \in EventRecords /\ d.run = first /\ e.run = r
  BY DEF Event, EventRecords
<1>2. QED
  BY <1>1 DEF Emit, Emits

\* A claim over an expired lease: its journal gets two events more.
LEMMA TwoEvents ==
  ASSUME NEW t \in Tasks, NEW d \in EventRecords, NEW e \in EventRecords,
         journal' = [journal EXCEPT ![t] = Append(Append(@, d), e)]
  PROVE  Emits(t, d.run, e.run)
  BY DEF Emits

\* Free commands write no run's name into the journal and touch no lease.
LEMMA FreeCommandQuiet ==
  ASSUME Owned, NEW t \in Tasks, FreeCommand(t)
  PROVE  Quiet
<1>0. TypeOK /\ task[t] \in TaskRecords /\ task \in [Tasks -> TaskRecords] /\ NoRun \in 0..MaxRuns
  BY NoRunTyped DEF Owned, TypeOK
<1>1. CASE MarkManaged(t) \/ Unblock(t)
  <2>1. task'[t].version \in Nat
    BY <1>0, <1>1 DEF MarkManaged, Unblock, Transition, TaskRecords
  <2>2. \E type \in {"task.ready", "task.released"} : Emit(t, type, NoRun)
    BY <1>1 DEF MarkManaged, Unblock, Transition
  <2>3. {"task.ready", "task.released"} \subseteq EventTypes
    BY DEF EventTypes
  <2>4. Emits(t, NoRun, NoRun)
    BY <1>0, <2>1, <2>2, <2>3, OneEvent
  <2>5. QED
    BY <1>1, <2>4 DEF MarkManaged, Unblock, Quiet, SameHolders
<1>2. CASE ProposeTask(t)
  <2>1. task'[t].version \in Nat
    BY <1>0, <1>2 DEF ProposeTask, NewTask
  <2>2. Emits(t, NoRun, NoRun)
    BY <1>0, <1>2, <2>1, OneEvent DEF ProposeTask, EventTypes
  <2>3. QED
    BY <1>2, <2>2 DEF ProposeTask, Quiet, SameHolders
<1>3. CASE RequestOutcomeVerification(t)
  <2>1. task'[t].version \in Nat
    BY <1>0, <1>3 DEF RequestOutcomeVerification, TaskRecords
  <2>2. Emits(t, NoRun, NoRun)
    BY <1>0, <1>3, <2>1, OneEvent DEF RequestOutcomeVerification, EventTypes
  <2>3. QED
    BY <1>3, <2>2 DEF RequestOutcomeVerification, Quiet, SameHolders
<1>4. CASE RecordConfirmation(t) \/ RecordEvidenceReference(t) \/ ResolveGap(t)
  <2>1. PICK type \in EventTypes : Note(t, type)
    BY <1>4 DEF RecordConfirmation, RecordEvidenceReference, ResolveGap, EventTypes
  <2>2. PICK seen \in 1..task[t].version :
          journal' = [journal EXCEPT ![t] = Append(@, Event(type, NoRun, seen))]
    BY <2>1 DEF Note
  <2>3. /\ Event(type, NoRun, seen) \in EventRecords
        /\ Event(type, NoRun, seen).run = NoRun
    BY <1>0, <2>2 DEF Event, EventRecords, TaskRecords
  <2>4. Emits(t, NoRun, NoRun)
    BY <2>2, <2>3 DEF Emits
  <2>5. QED
    BY <2>1, <2>4 DEF Note, Quiet, SameHolders
<1>5. QED
  BY <1>1, <1>2, <1>3, <1>4 DEF FreeCommand

\* A claim grants the task to a new run, in the place of an expired one if there was one.
LEMMA ClaimGrants ==
  ASSUME Owned, NEW t \in Tasks, Claim(t)
  PROVE  \E old \in 0..MaxRuns : Grants(t, old)
<1>0. TypeOK /\ task[t] \in TaskRecords /\ task \in [Tasks -> TaskRecords]
  BY DEF Owned, TypeOK
<1> PICK now \in Times, q \in LeaseRequests :
       \/ ClaimFree(t, now, q)
       \/ \E old \in RunIds : ClaimOverExpired(t, old, now, q)
  BY DEF Claim
<1>1. /\ lastRun' = lastRun + 1 /\ lastRun' \in RunIds /\ lastRun' \in 0..MaxRuns
      /\ lastRun' # NoRun
  BY <1>0, NoRunTyped DEF ClaimFree, ClaimOverExpired, TypeOK, RunIds, NoRun
<1>2. task'[t].version \in Nat
  BY <1>0, <1>1 DEF ClaimFree, ClaimOverExpired, TaskRecords
<1>3. run'[lastRun'].outcome = "running" /\ run'[lastRun'].task = t
  BY <1>0, <1>1 DEF ClaimFree, ClaimOverExpired, NewRun, TypeOK
<1>4. CASE ClaimFree(t, now, q)
  <2>1. RunsOn(t) = {} /\ \A r \in RunIds \ {lastRun'} : run'[r] = run[r]
    BY <1>0, <1>4 DEF ClaimFree, TypeOK
  <2>2. Emits(t, NoRun, lastRun')
    BY <1>0, <1>1, <1>2, <1>4, NoRunTyped, OneEvent DEF ClaimFree, EventTypes
  <2>3. Grants(t, NoRun)
    BY <1>1, <1>3, <2>1, <2>2 DEF Grants
  <2>4. QED
    BY <2>3, NoRunTyped
<1>5. ASSUME NEW old \in RunIds, ClaimOverExpired(t, old, now, q)
      PROVE  \E o \in 0..MaxRuns : Grants(t, o)
  <2>1. old \in RunsOn(t) /\ old \in 0..MaxRuns /\ old # lastRun'
    BY <1>0, <1>1, <1>5, NoRunTyped
    DEF ClaimOverExpired, RunIds, RunsOn, Running, Owned, Allocated, TypeOK
  <2>2. Holder(t, old) /\ RunsOn(t) \subseteq {old}
    <3>1. \A p \in RunsOn(t) : p \in RunIds /\ Running(p) /\ run[p].task = t
      BY DEF RunsOn
    <3>2. QED
      BY <2>1, <3>1 DEF Holder, Owned, OneOwner, ExclusiveOwner
  <2>3. /\ \A r \in RunIds \ {old, lastRun'} : run'[r] = run[r]
        /\ run'[old].outcome = "failed"
    BY <1>0, <1>1, <1>5, <2>1 DEF ClaimOverExpired, TypeOK, RunRecords
  <2> DEFINE d == Event("task.lease_expired", old, task[t].version + 1)
             e == Event("task.claimed", lastRun', task[t].version + 2)
  <2>4. d \in EventRecords /\ e \in EventRecords /\ d.run = old /\ e.run = lastRun'
    BY <1>1, <2>1, <1>0, NextVersions DEF Event, EventRecords, EventTypes
  <2>5. journal' = [journal EXCEPT ![t] = Append(Append(@, d), e)]
    BY <1>5 DEF ClaimOverExpired
  <2>6. Emits(t, old, lastRun')
    BY <2>4, <2>5, TwoEvents
  <2>7. Grants(t, old)
    BY <1>1, <1>3, <2>2, <2>3, <2>6 DEF Grants
  <2>8. QED
    BY <2>1, <2>7
<1>6. QED
  BY <1>4, <1>5

\* A command under a lease leaves all quiet, works or ends its run.
LEMMA LeaseCommandKinds ==
  ASSUME Owned, NEW t \in Tasks, NEW r \in RunIds, NEW now \in Nows, LeaseCommand(t, r, now)
  PROVE  Quiet \/ Works(t, r) \/ Ends(t, r)
<1>0. /\ TypeOK /\ task[t] \in TaskRecords /\ task \in [Tasks -> TaskRecords]
      /\ r \in 0..MaxRuns /\ run \in [RunIds -> RunRecords]
  BY NoRunTyped DEF Owned, TypeOK, RunIds
<1>1. HoldsLease(t, r, now) /\ lastRun' = lastRun
  BY DEF LeaseCommand, Heartbeat, RecordProgress, RecordWaitingResponse,
         RequestApproval, RecordEscalation, RecordFollowup, Annotate,
         ScheduleNextCheck, BlockTask, ReleaseTask, CompleteRun
<1>2. Holder(t, r)
  BY <1>1, LeaseOwnsTask DEF Holder
<1>3. task[t].version + 1 \in Nat
  BY <1>0, NextVersions
<1>4. CASE \E q \in LeaseRequests : Heartbeat(t, r, now, q)
  BY <1>0, <1>4 DEF Heartbeat, Quiet, SameHolders, RunRecords
<1>5. ASSUME NEW state \in States, NEW type \in EventTypes, Transition(t, state, type, r), run' = run
      PROVE  Works(t, r)
  <2>1. task'[t].version \in Nat
    BY <1>0, <1>5 DEF Transition, TaskRecords
  <2>2. Emits(t, r, r)
    BY <1>0, <1>5, <2>1, OneEvent DEF Transition
  <2>3. QED
    BY <1>1, <1>2, <1>5, <2>2 DEF Works, SameHolders
<1>6. CASE RecordProgress(t, r, now) \/ RecordWaitingResponse(t, r, now)
  BY <1>5, <1>6 DEF RecordProgress, RecordWaitingResponse, States, EventTypes
<1>7. CASE RequestApproval(t, r, now)
  <2> DEFINE d == Event("task.approval_requested", r, task[t].version + 1)
             e == Event("task.approval_details", r, task[t].version + 1)
  <2>1. d \in EventRecords /\ e \in EventRecords /\ d.run = r /\ e.run = r
    BY <1>0, <1>3 DEF Event, EventRecords, EventTypes
  <2>2. journal' = [journal EXCEPT ![t] = Append(Append(@, d), e)]
    BY <1>7 DEF RequestApproval
  <2>3. Emits(t, r, r)
    BY <2>1, <2>2, TwoEvents
  <2>4. QED
    BY <1>1, <1>2, <1>7, <2>3 DEF RequestApproval, Works, SameHolders
<1>8. CASE RecordEscalation(t, r, now) \/ RecordFollowup(t, r, now)
  <2>1. PICK type \in EventTypes : Annotate(t, r, now, type)
    BY <1>8 DEF RecordEscalation, RecordFollowup, EventTypes
  <2>2. task'[t].version \in Nat
    BY <1>0, <2>1 DEF Annotate, TaskRecords
  <2>3. Emits(t, r, r)
    BY <1>0, <2>1, <2>2, OneEvent DEF Annotate
  <2>4. QED
    BY <1>1, <1>2, <2>1, <2>3 DEF Annotate, Works, SameHolders
<1>9. ASSUME NEW outcome \in Outcomes \ {"running"}, run' = [run EXCEPT ![r].outcome = outcome],
             Emits(t, r, r)
      PROVE  Ends(t, r)
  <2>1. run'[r].outcome = outcome /\ \A q \in RunIds \ {r} : run'[q] = run[q]
    BY <1>0, <1>9 DEF RunRecords
  <2>2. QED
    BY <1>1, <1>2, <1>9, <2>1 DEF Ends
<1>10. ASSUME NEW next \in Times, ScheduleNextCheck(t, r, now, next)
       PROVE  Ends(t, r)
  <2>1. task'[t].version \in Nat
    BY <1>0, <1>3, <1>10 DEF ScheduleNextCheck, Freed, TaskRecords
  <2>2. Emits(t, r, r)
    BY <1>0, <1>10, <2>1, OneEvent DEF ScheduleNextCheck, EventTypes
  <2>3. QED
    BY <1>9, <1>10, <2>2 DEF ScheduleNextCheck, Outcomes
<1>11. CASE BlockTask(t, r, now) \/ ReleaseTask(t, r, now)
  <2>1. PICK state \in {"blocked", "ready"}, type \in {"task.blocked", "task.released"} :
          EndRun(t, r, "released", state, type)
    BY <1>11 DEF BlockTask, ReleaseTask
  <2>2. task'[t].version \in Nat
    BY <1>0, <1>3, <2>1 DEF EndRun, Freed, TaskRecords
  <2>3. type \in EventTypes /\ "released" \in Outcomes \ {"running"}
    BY DEF EventTypes, Outcomes
  <2>4. Emits(t, r, r)
    BY <1>0, <2>1, <2>2, <2>3, OneEvent DEF EndRun
  <2>5. QED
    BY <1>9, <2>1, <2>3, <2>4 DEF EndRun
<1>12. ASSUME NEW outcome \in RunOutcomes, NEW withEvidence \in BOOLEAN,
              CompleteRun(t, r, now, outcome, withEvidence)
       PROVE  Ends(t, r)
  <2>1. outcome \in Outcomes \ {"running"} /\ CompletionEvent[outcome] \in EventTypes
    BY DEF RunOutcomes, Outcomes, CompletionEvent, EventTypes
  <2> DEFINE d == Event(CompletionEvent[outcome], r, task[t].version + 1)
             e == Event("task.evidence_reference", r, task[t].version + 1)
  <2>2. d \in EventRecords /\ e \in EventRecords /\ d.run = r /\ e.run = r
    BY <1>0, <1>3, <2>1 DEF Event, EventRecords, EventTypes
  <2>3. journal' \in {[journal EXCEPT ![t] = Append(@, d)],
                      [journal EXCEPT ![t] = Append(Append(@, d), e)]}
    BY <1>12 DEF CompleteRun
  <2>4. Emits(t, r, r)
    BY <2>2, <2>3 DEF Emits
  <2>5. QED
    BY <1>9, <1>12, <2>1, <2>4 DEF CompleteRun
<1>13. QED
  BY <1>4, <1>6, <1>7, <1>8, <1>10, <1>11, <1>12 DEF LeaseCommand

\* Every step is of one of the five kinds.
LEMMA StepKinds ==
  ASSUME Owned, [MNext]_vars
  PROVE  \/ Quiet
         \/ \E t \in Tasks, r \in RunIds : Works(t, r) \/ Ends(t, r)
         \/ \E t \in Tasks, old \in 0..MaxRuns : Grants(t, old)
         \/ \E now \in Times : ReclaimExpired(now)
<1>1. CASE \E now \in Times \ ticks : RegisterTick(now)
  BY <1>1 DEF RegisterTick, Quiet, SameHolders
<1>2. CASE UNCHANGED vars
  BY <1>2 DEF vars, Quiet, SameHolders
<1>3. CASE \E t \in Tasks, state \in States \ {"absent"}, active \in 0..MaxRuns,
              next \in Times \cup {Unset} : ManualEdit(t, state, active, next)
  BY <1>3 DEF ManualEdit, Quiet, SameHolders
<1>4. QED
  BY <1>1, <1>2, <1>3, FreeCommandQuiet, ClaimGrants, LeaseCommandKinds DEF MNext, Next

-----------------------------------------------------------------------------
(* The fence                                                               *)

\* No run in a journal has an id above b, and ids never go down.
Fenced(j, b) ==
  /\ \A i \in DOMAIN j : j[i].run <= b
  /\ \A i, k \in DOMAIN j :
       i <= k /\ j[i].run # NoRun /\ j[k].run # NoRun => j[i].run <= j[k].run

\* The highest id that may be in the journal of a task: its holder's, if it
\* has one.
CeilingOf(holders, last) == IF holders = {} THEN last ELSE CHOOSE r \in holders : TRUE

Ceiling(t) == CeilingOf(RunsOn(t), lastRun)

FenceInv == \A t \in Tasks : Fenced(journal[t], Ceiling(t))

\* The run an event names is one of the table or none.
LEMMA RunsTyped ==
  ASSUME NEW j \in Seq(EventRecords), NEW i \in DOMAIN j
  PROVE  j[i].run \in 0..MaxRuns
<1>1. j[i] \in EventRecords
  OBVIOUS
<1>2. QED
  BY <1>1 DEF EventRecords

\* An event of the run with the highest fence, or of none, keeps the fences in order.
LEMMA FencedAppend ==
  ASSUME NEW j \in Seq(EventRecords), NEW e \in EventRecords,
         NEW b \in 0..MaxRuns, NEW c \in 0..MaxRuns, b <= c,
         Fenced(j, b), e.run \in {NoRun, c}
  PROVE  Fenced(Append(j, e), c)
<1> DEFINE a == Append(j, e)
<1>1. /\ Len(j) \in Nat /\ DOMAIN j = 1..Len(j) /\ DOMAIN a = 1..(Len(j) + 1)
      /\ \A i \in DOMAIN j : a[i] = j[i]
      /\ a[Len(j) + 1] = e
  OBVIOUS
<1>2. \A i \in DOMAIN j : j[i].run \in 0..MaxRuns
  BY RunsTyped
<1>3. MaxRuns \in Nat /\ NoRun = 0
  BY NoRunTyped DEF NoRun
<1>4. \A i \in DOMAIN j : j[i].run <= c
  BY <1>2, <1>3 DEF Fenced
<1>5. \A i \in DOMAIN a : a[i].run <= c
  BY <1>1, <1>3, <1>4
<1>6. ASSUME NEW i \in DOMAIN a, NEW k \in DOMAIN a, i <= k, a[i].run # NoRun, a[k].run # NoRun
      PROVE  a[i].run <= a[k].run
  <2>1. CASE k \in DOMAIN j
    <3>1. i \in DOMAIN j
      BY <1>1, <1>6, <2>1
    <3>2. QED
      BY <1>1, <1>6, <2>1, <3>1 DEF Fenced
  <2>2. CASE k = Len(j) + 1
    <3>1. a[k].run = c
      BY <1>1, <1>6, <2>2
    <3>2. QED
      BY <1>5, <3>1
  <2>3. QED
    BY <1>1, <2>1, <2>2
<1>7. QED
  BY <1>5, <1>6 DEF Fenced

\* A grant with a higher fence keeps the fences of the journal in order.
LEMMA FencedHigher ==
  ASSUME NEW j \in Seq(EventRecords), NEW b \in 0..MaxRuns, NEW c \in 0..MaxRuns, b <= c, Fenced(j, b)
  PROVE  Fenced(j, c)
<1>1. \A i \in DOMAIN j : j[i].run \in 0..MaxRuns
  BY RunsTyped
<1>2. \A i \in DOMAIN j : j[i].run <= c
  BY <1>1, NoRunTyped DEF Fenced
<1>3. QED
  BY <1>2 DEF Fenced

\* Events of the holder, then of a later run, keep the fence.
LEMMA FencedEmits ==
  ASSUME TypeOK, NEW t \in Tasks, NEW b \in 0..MaxRuns, NEW c \in 0..MaxRuns, b <= c,
         Fenced(journal[t], b),
         NEW first \in {NoRun, b}, NEW last \in {NoRun, c}, Emits(t, first, last)
  PROVE  /\ Fenced(journal'[t], c)
         /\ \A u \in Tasks \ {t} : journal'[u] = journal[u]
<1> PICK d \in EventRecords, e \in EventRecords :
       /\ d.run = first /\ e.run = last
       /\ journal' \in {[journal EXCEPT ![t] = Append(@, e)],
                        [journal EXCEPT ![t] = Append(Append(@, d), e)]}
  BY DEF Emits
<1>0. journal[t] \in Seq(EventRecords) /\ b <= b
  BY NoRunTyped DEF TypeOK
<1>1. Fenced(Append(journal[t], d), b) /\ Append(journal[t], d) \in Seq(EventRecords)
  BY <1>0, FencedAppend, AppendTyped
<1>2. Fenced(Append(Append(journal[t], d), e), c) /\ Fenced(Append(journal[t], e), c)
  BY <1>0, <1>1, FencedAppend
<1>3. journal'[t] \in {Append(journal[t], e), Append(Append(journal[t], d), e)}
  BY DEF TypeOK
<1>4. QED
  BY <1>2, <1>3 DEF TypeOK

\* The ceiling is an id of a run, or none.
LEMMA CeilingTyped ==
  ASSUME NEW holders \in SUBSET RunIds, NEW last \in 0..MaxRuns
  PROVE  CeilingOf(holders, last) \in 0..MaxRuns
<1>1. holders # {} => (CHOOSE r \in holders : TRUE) \in holders
  OBVIOUS
<1>2. RunIds \subseteq 0..MaxRuns
  BY NoRunTyped DEF RunIds
<1>3. QED
  BY <1>1, <1>2 DEF CeilingOf

\* The holder of a task is its only running run, and its ceiling.
LEMMA HolderIsCeiling ==
  ASSUME Owned, NEW t \in Tasks, NEW r \in RunIds, Holder(t, r)
  PROVE  RunsOn(t) = {r} /\ Ceiling(t) = r
<1>1. \A q \in RunsOn(t) : q \in RunIds /\ Running(q) /\ run[q].task = t
  BY DEF RunsOn
<1>2. r \in RunsOn(t)
  BY DEF RunsOn, Holder
<1>3. RunsOn(t) = {r}
  BY <1>1, <1>2 DEF Holder, Owned, OneOwner, ExclusiveOwner
<1>4. QED
  BY <1>3 DEF Ceiling, CeilingOf

\* No event names a run with an id that was not given out.
LEMMA CeilingBound ==
  ASSUME Owned, NEW t \in Tasks
  PROVE  Ceiling(t) \in 0..MaxRuns /\ Ceiling(t) <= lastRun
<1>1. lastRun \in 0..MaxRuns /\ MaxRuns \in Nat /\ RunsOn(t) \in SUBSET RunIds
  BY NoRunTyped DEF Owned, TypeOK, RunsOn
<1>2. Ceiling(t) \in 0..MaxRuns
  BY <1>1, CeilingTyped DEF Ceiling
<1>3. CASE RunsOn(t) = {}
  BY <1>1, <1>2, <1>3 DEF Ceiling, CeilingOf
<1>4. ASSUME NEW r \in RunsOn(t) PROVE Ceiling(t) <= lastRun
  <2>1. r \in RunIds /\ Holder(t, r) /\ ~(r > lastRun)
    BY DEF RunsOn, Holder, Owned, Allocated, Running
  <2>2. Ceiling(t) = r
    BY <2>1, HolderIsCeiling
  <2>3. QED
    BY <1>1, <1>2, <2>1, <2>2
<1>5. QED
  BY <1>2, <1>3, <1>4

\* The order of the fences is inductive together with their ceiling.
LEMMA FenceStep == Owned /\ FenceInv /\ [MNext]_vars => FenceInv'
<1> SUFFICES ASSUME Owned, FenceInv, [MNext]_vars, NEW u \in Tasks
             PROVE  Fenced(journal'[u], Ceiling(u)')
  BY DEF FenceInv
<1>0. /\ TypeOK /\ Owned' /\ journal[u] \in Seq(EventRecords)
      /\ Ceiling(u) \in 0..MaxRuns /\ Ceiling(u) <= lastRun /\ Fenced(journal[u], Ceiling(u))
      /\ lastRun \in 0..MaxRuns /\ MaxRuns \in Nat
  BY OwnedInductive, CeilingBound, NoRunTyped DEF Owned, TypeOK, FenceInv
<1>1. lastRun' \in 0..MaxRuns /\ NoRun \in 0..MaxRuns /\ Ceiling(u)' \in 0..MaxRuns
  <2>1. lastRun' \in 0..MaxRuns /\ NoRun \in 0..MaxRuns
    BY <1>0, NoRunTyped DEF Owned, TypeOK
  <2>2. RunsOn(u)' \in SUBSET RunIds
    BY DEF RunsOn
  <2>3. QED
    BY <2>1, <2>2, CeilingTyped DEF Ceiling
<1>2. ASSUME journal'[u] = journal[u], Ceiling(u)' = Ceiling(u) \/ Ceiling(u)' >= lastRun
      PROVE  Fenced(journal'[u], Ceiling(u)')
  BY <1>0, <1>1, <1>2, FencedHigher
<1>3. ASSUME SameHolders PROVE Ceiling(u)' = Ceiling(u)
  <2>1. RunsOn(u)' = RunsOn(u)
    BY <1>3 DEF SameHolders, RunsOn, Running
  <2>2. QED
    BY <1>3, <2>1 DEF SameHolders, Ceiling
<1>4. CASE Quiet
  <2>1. Ceiling(u)' = Ceiling(u)
    BY <1>3, <1>4 DEF Quiet
  <2>2. CASE journal' = journal
    BY <1>2, <2>1, <2>2
  <2>3. ASSUME NEW t \in Tasks, Emits(t, NoRun, NoRun) PROVE Fenced(journal'[u], Ceiling(u)')
    <3>1. CASE t = u
      BY <1>0, <2>1, <2>3, <3>1, FencedEmits
    <3>2. CASE t # u
      BY <1>0, <1>2, <2>1, <2>3, <3>2 DEF Emits, TypeOK
    <3>3. QED
      BY <3>1, <3>2
  <2>4. QED
    BY <1>4, <2>2, <2>3 DEF Quiet
<1>5. ASSUME NEW t \in Tasks, NEW r \in RunIds, Works(t, r)
      PROVE  Fenced(journal'[u], Ceiling(u)')
  <2>1. Ceiling(u)' = Ceiling(u) /\ Emits(t, r, r)
    BY <1>3, <1>5 DEF Works
  <2>2. CASE t = u
    <3>1. Ceiling(u) = r
      BY <1>5, <2>2, HolderIsCeiling DEF Works
    <3>2. QED
      BY <1>0, <2>1, <2>2, <3>1, FencedEmits
  <2>3. CASE t # u
    BY <1>0, <1>2, <2>1, <2>3 DEF Emits, TypeOK
  <2>4. QED
    BY <2>2, <2>3
<1>6. ASSUME NEW t \in Tasks, NEW r \in RunIds, Ends(t, r)
      PROVE  Fenced(journal'[u], Ceiling(u)')
  <2>1. Emits(t, r, r) /\ lastRun' = lastRun /\ Holder(t, r)
    BY <1>6 DEF Ends
  <2>2. \A q \in RunIds : /\ Running(q)' <=> Running(q) /\ q # r
                          /\ Running(q)' => run'[q].task = run[q].task
    BY <1>6 DEF Ends, Running
  <2>3. CASE t = u
    <3>1. Ceiling(u) = r /\ RunsOn(u) = {r}
      BY <2>1, <2>3, HolderIsCeiling
    <3>2. RunsOn(u)' = {}
      BY <2>2, <3>1 DEF RunsOn
    <3>3. Ceiling(u)' = lastRun
      BY <2>1, <3>2 DEF Ceiling, CeilingOf
    <3>4. Fenced(journal'[u], r)
      BY <1>0, <2>1, <2>3, <3>1, FencedEmits
    <3>5. journal'[u] \in Seq(EventRecords)
      BY <1>0 DEF Owned, TypeOK
    <3>6. QED
      BY <1>0, <3>1, <3>3, <3>4, <3>5, FencedHigher
  <2>4. CASE t # u
    <3>1. journal'[u] = journal[u]
      BY <1>0, <2>1, <2>4 DEF Emits, TypeOK
    <3>2. RunsOn(u)' = RunsOn(u)
      BY <2>1, <2>2, <2>4 DEF RunsOn, Holder
    <3>3. QED
      BY <1>2, <2>1, <3>1, <3>2 DEF Ceiling
  <2>5. QED
    BY <2>3, <2>4
<1>7. ASSUME NEW t \in Tasks, NEW old \in 0..MaxRuns, Grants(t, old)
      PROVE  Fenced(journal'[u], Ceiling(u)')
  <2> PICK new : new = lastRun'
    OBVIOUS
  <2>1. /\ Emits(t, old, new) /\ new = lastRun + 1 /\ new \in RunIds
        /\ Running(new)' /\ run'[new].task = t
    BY <1>7 DEF Grants, Running
  <2>2. ~Running(new) /\ new > lastRun
    BY <1>0, <2>1 DEF Owned, Allocated, Running
  <2>3. old # NoRun => old \in RunIds /\ Holder(t, old) /\ ~Running(old)'
    BY <1>7 DEF Grants, Running
  <2>4. \A q \in RunIds \ {new} : /\ Running(q)' <=> Running(q) /\ q # old
                                  /\ Running(q)' => run'[q].task = run[q].task
    <3>1. \A q \in RunIds \ {new, old} : run'[q] = run[q]
      BY <1>7 DEF Grants
    <3>2. old \in RunIds => old # NoRun
      BY DEF RunIds, NoRun
    <3>3. QED
      BY <2>3, <3>1, <3>2 DEF Running
  <2>5. CASE t = u
    <3>1. old \in {NoRun, Ceiling(u)}
      BY <2>3, <2>5, HolderIsCeiling
    <3>2. RunsOn(u) \subseteq {old}
      BY <1>7, <2>5 DEF Grants
    <3>3. RunsOn(u)' = {new}
      BY <2>1, <2>4, <2>5, <3>2 DEF RunsOn
    <3>4. Ceiling(u)' = new
      BY <3>3 DEF Ceiling, CeilingOf
    <3>5. Ceiling(u) <= new
      BY <1>0, <2>1
    <3>6. QED
      BY <1>0, <1>1, <2>1, <2>5, <3>1, <3>4, <3>5, FencedEmits
  <2>6. CASE t # u
    <3>1. journal'[u] = journal[u]
      BY <1>0, <2>1, <2>6 DEF Emits, TypeOK
    <3>2. RunsOn(u)' = RunsOn(u)
      BY <2>1, <2>2, <2>3, <2>4, <2>6 DEF RunsOn, Holder, RunIds, NoRun
    <3>3. Ceiling(u)' = Ceiling(u) \/ Ceiling(u)' >= lastRun
      BY <1>0, <2>1, <3>2 DEF Ceiling, CeilingOf
    <3>4. QED
      BY <1>2, <3>1, <3>3
  <2>7. QED
    BY <2>5, <2>6
<1>8. ASSUME NEW now \in Times, ReclaimExpired(now)
      PROVE  Fenced(journal'[u], Ceiling(u)')
  <2>0. /\ lastRun' = lastRun
        /\ \A q \in RunIds : /\ run'[q].task = run[q].task
                             /\ Running(q)' <=> Running(q) /\ ~Expired(q, now)
    BY <1>0, <1>8 DEF ReclaimExpired, Running, Expired, TypeOK, RunRecords
  <2>1. CASE ExpiredOn(u, now) = {}
    <3>1. journal'[u] = journal[u]
      BY <1>8, <2>1 DEF ReclaimExpired
    <3>2. \A q \in RunIds : run[q].task = u => ~Expired(q, now)
      BY <2>1 DEF ExpiredOn
    <3>3. RunsOn(u)' = RunsOn(u)
      BY <2>0, <3>2 DEF RunsOn
    <3>4. QED
      BY <1>2, <2>0, <3>1, <3>3 DEF Ceiling
  <2>2. CASE ExpiredOn(u, now) # {}
    <3> DEFINE r == CHOOSE q \in ExpiredOn(u, now) : TRUE
               e == Event("task.lease_expired", r, task[u].version + 1)
    <3>0. r \in ExpiredOn(u, now)
      BY <2>2
    <3>1. journal'[u] = Append(journal[u], e)
      BY <1>8, <2>2 DEF ReclaimExpired
    <3> HIDE DEF r
    <3>2. r \in RunIds /\ Holder(u, r) /\ Expired(r, now)
      BY <3>0 DEF ExpiredOn, Expired, Holder
    <3>3. r \in 0..MaxRuns
      BY <3>2, NoRunTyped DEF RunIds
    <3>4. e \in EventRecords /\ e.run = r
      BY <1>0, <3>3, NextVersions DEF Event, EventRecords, EventTypes
    <3>5. Ceiling(u) = r /\ RunsOn(u) = {r}
      BY <3>2, HolderIsCeiling
    <3>6. RunsOn(u)' = {}
      <4>1. \A q \in RunIds : run[q].task = u /\ Running(q) => q = r
        BY <3>5 DEF RunsOn
      <4>2. \A q \in RunIds : run'[q].task = u => ~Running(q)'
        BY <2>0, <3>2, <4>1
      <4>3. QED
        BY <4>2 DEF RunsOn
    <3>7. Ceiling(u)' = lastRun
      BY <2>0, <3>6 DEF Ceiling, CeilingOf
    <3> HIDE DEF e
    <3>8. Fenced(Append(journal[u], e), r)
      <4>1. r <= r
        BY <3>3, NoRunTyped
      <4>2. QED
        BY <1>0, <3>3, <3>4, <3>5, <4>1, FencedAppend
    <3>9. Append(journal[u], e) \in Seq(EventRecords)
      BY <1>0, <3>4, AppendTyped
    <3>10. QED
      BY <1>0, <3>1, <3>3, <3>5, <3>7, <3>8, <3>9, FencedHigher
  <2>3. QED
    BY <2>1, <2>2
<1>9. QED
  BY <1>4, <1>5, <1>6, <1>7, <1>8, StepKinds

\* A result or a heartbeat that arrives after its run was replaced changes
\* nothing: once a change by a run is in the journal of a task, no change by an
\* earlier run follows it, even if the task was edited by hand meanwhile.
THEOREM FencedJournalManual == MSpec => []FencedJournal
<1>1. Init => FenceInv
  BY DEF Init, FenceInv, Fenced
<1>2. FenceInv => FencedJournal
  BY DEF FenceInv, Fenced, FencedJournal, Moves
<1>3. QED
  BY <1>1, <1>2, FenceStep, OwnershipInit, OwnedInductive, PTL DEF MSpec

\* In particular when nobody writes by hand.
THEOREM FencedJournalCorrect == Spec => []FencedJournal
  BY FencedJournalManual, CommandsAlone, PTL

-----------------------------------------------------------------------------
(* What the journal tells of a task                                        *)

\* A task that does not exist yet has no journal and its first version.
Unwritten(j, tk) == tk.state = "absent" => j = <<>> /\ tk.version = 1

VersionsInv ==
  VersionsAnnounced /\ \A t \in Tasks : Unwritten(journal[t], task[t])

StatesInv == \A t \in Tasks : ExplainsState(journal[t], task[t].state)

\* What one event may say of the change from tk to the record new: a move
\* announces the next version and, if it is a transition, the new state; a note
\* cites a version that was announced; the first event announces a birth.
Tells(j, tk, e, new) ==
  /\ new.state # "absent"
  /\ \/ /\ e.type \notin Notes
        /\ e.version = tk.version + 1 /\ new.version = tk.version + 1
        /\ \/ <<e.type, new.state>> \in Explains
           \/ e.type \notin TransitionTypes /\ new.state = tk.state
     \/ /\ e.type \in Notes
        /\ e.version \in 1..tk.version
        /\ new.version = tk.version /\ new.state = tk.state
     \/ /\ e.type \notin Notes
        /\ j = <<>> /\ e.version = 1 /\ tk.version = 1 /\ new.version = 1
        /\ <<e.type, new.state>> \in Explains

\* Journal and task after one told change.
Told(j, tk, j2, new) ==
  \E e \in EventRecords : j2 = Append(j, e) /\ Tells(j, tk, e, new)

\* A transition names its type among the transition types, and no note is one.
LEMMA TransitionNames ==
  /\ \A p \in Explains : p[1] \in TransitionTypes /\ p[1] \notin Notes
  /\ \A type, state : <<type, state>> \in Explains => type \in TransitionTypes
  BY DEF Explains, TransitionTypes, Notes

\* Positions in a journal with one more event.
LEMMA AppendedPositions ==
  ASSUME NEW j \in Seq(EventRecords), NEW e \in EventRecords
  PROVE  LET a == Append(j, e)
         IN  /\ Len(j) \in Nat /\ DOMAIN j = 1..Len(j) /\ DOMAIN a = 1..(Len(j) + 1)
             /\ \A i \in DOMAIN j : a[i] = j[i]
             /\ a[Len(j) + 1] = e
  OBVIOUS

\* A told change keeps the versions announced in order and without a gap.
LEMMA ToldVersions ==
  ASSUME NEW j \in Seq(EventRecords), NEW tk \in TaskRecords, NEW new \in TaskRecords,
         NEW e \in EventRecords, Tells(j, tk, e, new), AnnouncesVersions(j, tk.version)
  PROVE  AnnouncesVersions(Append(j, e), new.version)
<1> PICK a : a = Append(j, e)
  OBVIOUS
<1> PICK n : n = Len(j) + 1
  OBVIOUS
<1>1. /\ n \in Nat /\ n > 0 /\ DOMAIN j = 1..(n - 1) /\ DOMAIN a = 1..n
      /\ \A i \in DOMAIN j : a[i] = j[i]
      /\ a[n] = e
  BY AppendedPositions
<1>2. /\ tk.version \in Nat /\ new.version \in Nat /\ e.version \in Nat
      /\ \A i \in DOMAIN j : j[i].version \in Nat
  <2>1. \A i \in DOMAIN j : j[i] \in EventRecords
    OBVIOUS
  <2>2. QED
    BY <2>1 DEF TaskRecords, EventRecords
<1>3. /\ \A i \in DOMAIN j : j[i].version \in 1..tk.version
      /\ tk.version >= 1
      /\ \A i, k \in Moves(j) : i < k => j[i].version < j[k].version
      /\ \A v \in 2..tk.version : \E k \in Moves(j) : j[k].version = v
      /\ \A i \in DOMAIN j : j[i].version > 1 =>
           \E k \in Moves(j) : k <= i /\ j[k].version = j[i].version
  BY DEF AnnouncesVersions
<1>4. Moves(j) \subseteq 1..(n - 1)
  BY <1>1 DEF Moves
<1>5. ASSUME e.type \notin Notes,
             \/ e.version = tk.version + 1 /\ new.version = tk.version + 1
             \/ j = <<>> /\ e.version = 1 /\ tk.version = 1 /\ new.version = 1
      PROVE  AnnouncesVersions(a, new.version)
  <2>1. Moves(a) = Moves(j) \cup {n}
    BY <1>1, <1>5 DEF Moves
  <2>2. new.version >= 1 /\ \A i \in DOMAIN a : a[i].version \in 1..new.version
    BY <1>1, <1>2, <1>3, <1>5
  <2>3. \A i \in DOMAIN j : j[i].version < e.version
    BY <1>1, <1>2, <1>3, <1>5
  <2>4. \A i, k \in Moves(a) : i < k => a[i].version < a[k].version
    BY <1>1, <1>3, <1>4, <2>1, <2>3
  <2>5. \A v \in 2..new.version : \E k \in Moves(a) : a[k].version = v
    <3> TAKE v \in 2..new.version
    <3>1. CASE v = e.version
      BY <1>1, <2>1, <3>1
    <3>2. CASE v # e.version
      <4>1. v \in 2..tk.version
        BY <1>2, <1>5, <3>2
      <4>2. PICK k \in Moves(j) : j[k].version = v
        BY <1>3, <4>1
      <4>3. QED
        BY <1>1, <1>4, <2>1, <4>2
    <3>3. QED
      BY <3>1, <3>2
  <2>6. ASSUME NEW i \in DOMAIN a, a[i].version > 1
        PROVE  \E k \in Moves(a) : k <= i /\ a[k].version = a[i].version
    <3>1. CASE i = n
      BY <1>1, <2>1, <3>1
    <3>2. CASE i # n
      <4>1. i \in DOMAIN j /\ a[i] = j[i]
        BY <1>1, <3>2
      <4>2. PICK k \in Moves(j) : k <= i /\ j[k].version = j[i].version
        BY <1>3, <2>6, <4>1
      <4>3. QED
        BY <1>1, <1>4, <2>1, <4>1, <4>2
    <3>3. QED
      BY <3>1, <3>2
  <2>7. QED
    BY <2>2, <2>4, <2>5, <2>6 DEF AnnouncesVersions
<1>6. ASSUME e.type \in Notes, e.version \in 1..tk.version, new.version = tk.version
      PROVE  AnnouncesVersions(a, new.version)
  <2>1. Moves(a) = Moves(j)
    BY <1>1, <1>6 DEF Moves
  <2>2. new.version >= 1 /\ \A i \in DOMAIN a : a[i].version \in 1..new.version
    BY <1>1, <1>2, <1>3, <1>6
  <2>3. \A i, k \in Moves(a) : i < k => a[i].version < a[k].version
    BY <1>1, <1>3, <1>4, <2>1
  <2>4. \A v \in 2..new.version : \E k \in Moves(a) : a[k].version = v
    BY <1>1, <1>3, <1>4, <1>6, <2>1
  <2>5. ASSUME NEW i \in DOMAIN a, a[i].version > 1
        PROVE  \E k \in Moves(a) : k <= i /\ a[k].version = a[i].version
    <3>1. CASE i = n
      <4>1. a[i] = e /\ e.version \in 2..tk.version
        BY <1>1, <1>2, <1>6, <2>5, <3>1
      <4>2. PICK k \in Moves(j) : j[k].version = e.version
        BY <1>3, <4>1
      <4>3. k \in DOMAIN j /\ k <= n /\ k \in Moves(a) /\ a[k] = j[k]
        BY <1>1, <1>4, <2>1
      <4>4. QED
        BY <3>1, <4>1, <4>2, <4>3
    <3>2. CASE i # n
      <4>1. i \in DOMAIN j /\ a[i] = j[i]
        BY <1>1, <3>2
      <4>2. PICK k \in Moves(j) : k <= i /\ j[k].version = j[i].version
        BY <1>3, <2>5, <4>1
      <4>3. QED
        BY <1>1, <1>4, <2>1, <4>1, <4>2
    <3>3. QED
      BY <3>1, <3>2
  <2>6. QED
    BY <2>2, <2>3, <2>4, <2>5 DEF AnnouncesVersions
<1>7. QED
  BY <1>5, <1>6 DEF Tells

\* A told change keeps the last transition an explanation of the state.
LEMMA ToldState ==
  ASSUME NEW j \in Seq(EventRecords), NEW tk \in TaskRecords, NEW new \in TaskRecords,
         NEW e \in EventRecords, Tells(j, tk, e, new), ExplainsState(j, tk.state)
  PROVE  ExplainsState(Append(j, e), new.state)
<1> PICK a : a = Append(j, e)
  OBVIOUS
<1> PICK n : n = Len(j) + 1
  OBVIOUS
<1>1. /\ n \in Nat /\ DOMAIN j = 1..(n - 1) /\ DOMAIN a = 1..n
      /\ \A i \in DOMAIN j : a[i] = j[i]
      /\ a[n] = e
  BY AppendedPositions
<1>2. Transitions(j) \subseteq 1..(n - 1)
  BY <1>1 DEF Transitions
<1>3. CASE <<e.type, new.state>> \in Explains
  <2>1. e.type \in TransitionTypes
    BY <1>3, TransitionNames
  <2>2. n \in Transitions(a)
    BY <1>1, <2>1 DEF Transitions
  <2>3. \A i \in Transitions(a) : (\A k \in Transitions(a) : k <= i) => i = n
    BY <1>1, <2>2 DEF Transitions
  <2>4. QED
    BY <1>1, <1>3, <2>2, <2>3 DEF ExplainsState
<1>4. CASE e.type \notin TransitionTypes /\ new.state = tk.state
  <2>1. Transitions(a) = Transitions(j)
    BY <1>1, <1>4 DEF Transitions
  <2>2. \A i \in Transitions(j) : a[i] = j[i]
    BY <1>1, <1>2
  <2>3. QED
    BY <1>4, <2>1, <2>2 DEF ExplainsState
<1>5. QED
  <2>1. e.type \in Notes => e.type \notin TransitionTypes
    BY DEF Notes, TransitionTypes, Explains
  <2>2. QED
    BY <1>3, <1>4, <2>1 DEF Tells

\* Nothing of a task that its journal should tell has changed.
Same(t) ==
  /\ journal'[t] = journal[t]
  /\ task'[t].version = task[t].version /\ task'[t].state = task[t].state

\* One event tells the change, or two do, the first that of a part of it.
Tale(t) ==
  \/ Told(journal[t], task[t], journal'[t], task'[t])
  \/ \E j \in Seq(EventRecords), mid \in TaskRecords :
       Told(journal[t], task[t], j, mid) /\ Told(j, mid, journal'[t], task'[t])

\* A command on t tells of t, and of no other task.
TellsOf(t) == Tale(t) /\ \A u \in Tasks \ {t} : Same(u)

\* One event that says the new version and state tells the change.
LEMMA OneEventTells ==
  ASSUME TypeOK, TypeOK', NEW t \in Tasks, NEW type \in EventTypes, NEW r \in 0..MaxRuns,
         Emit(t, type, r), type \notin Notes,
         task'[t].version = task[t].version + 1, task'[t].state # "absent",
         \/ <<type, task'[t].state>> \in Explains
         \/ type \notin TransitionTypes /\ task'[t].state = task[t].state,
         \A u \in Tasks \ {t} : task'[u] = task[u]
  PROVE  TellsOf(t)
<1> DEFINE e == Event(type, r, task'[t].version)
<1>1. e \in EventRecords /\ e.type = type /\ e.version = task'[t].version
  BY DEF Event, EventRecords, TypeOK, TaskRecords
<1>2. /\ journal'[t] = Append(journal[t], e)
      /\ \A u \in Tasks \ {t} : journal'[u] = journal[u]
  BY DEF Emit, TypeOK
<1>3. Tells(journal[t], task[t], e, task'[t])
  BY <1>1 DEF Tells
<1>4. Told(journal[t], task[t], journal'[t], task'[t])
  BY <1>1, <1>2, <1>3 DEF Told
<1>5. QED
  BY <1>2, <1>4 DEF TellsOf, Tale, Same

\* Two events tell the change if the first tells a part of it.
LEMMA TwoEventsTell ==
  ASSUME TypeOK, NEW t \in Tasks, NEW d \in EventRecords, NEW e \in EventRecords,
         NEW mid \in TaskRecords, Tells(journal[t], task[t], d, mid),
         Tells(Append(journal[t], d), mid, e, task'[t]),
         journal' = [journal EXCEPT ![t] = Append(Append(@, d), e)],
         \A u \in Tasks \ {t} : task'[u] = task[u]
  PROVE  TellsOf(t)
<1>1. Append(journal[t], d) \in Seq(EventRecords)
  BY AppendTyped DEF TypeOK
<1>2. /\ journal'[t] = Append(Append(journal[t], d), e)
      /\ \A u \in Tasks \ {t} : journal'[u] = journal[u]
  BY DEF TypeOK
<1>3. Told(journal[t], task[t], Append(journal[t], d), mid)
  BY DEF Told
<1>4. Told(Append(journal[t], d), mid, journal'[t], task'[t])
  BY <1>2 DEF Told
<1>5. Tale(t)
  BY <1>1, <1>3, <1>4 DEF Tale
<1>6. QED
  BY <1>2, <1>5 DEF TellsOf, Same

\* The change that a transition makes is told by its event.
LEMMA TransitionTells ==
  ASSUME TypeOK, TypeOK', NEW t \in Tasks, NEW type \in EventTypes, NEW r \in 0..MaxRuns,
         NEW state \in States \ {"absent"}, <<type, state>> \in Explains,
         Transition(t, state, type, r)
  PROVE  TellsOf(t)
<1>1. /\ task'[t].version = task[t].version + 1 /\ task'[t].state = state
      /\ \A u \in Tasks \ {t} : task'[u] = task[u]
  BY DEF Transition, TypeOK, TaskRecords
<1>2. type \notin Notes
  BY DEF Explains, Notes
<1>3. QED
  BY <1>1, <1>2, OneEventTells DEF Transition

\* So is the change that the end of a run makes.
LEMMA FreedTells ==
  ASSUME TypeOK, TypeOK', NEW t \in Tasks, NEW type \in EventTypes, NEW r \in 0..MaxRuns,
         NEW state \in States \ {"absent"}, <<type, state>> \in Explains,
         Emit(t, type, r), \A u \in Tasks \ {t} : task'[u] = task[u],
         task'[t].version = task[t].version + 1, task'[t].state = state
  PROVE  TellsOf(t)
<1>1. type \notin Notes
  BY DEF Explains, Notes
<1>2. QED
  BY <1>1, OneEventTells

\* Every free command tells what it changes.
LEMMA FreeCommandTells ==
  ASSUME TypeOK, TypeOK', VersionsInv, NEW t \in Tasks, FreeCommand(t)
  PROVE  TellsOf(t)
<1>0. /\ task[t] \in TaskRecords /\ task \in [Tasks -> TaskRecords] /\ NoRun \in 0..MaxRuns
      /\ journal[t] \in Seq(EventRecords)
  BY NoRunTyped DEF TypeOK
<1>1. CASE MarkManaged(t)
  BY <1>0, <1>1, TransitionTells DEF MarkManaged, States, EventTypes, Explains
<1>2. CASE Unblock(t)
  BY <1>0, <1>2, TransitionTells DEF Unblock, States, EventTypes, Explains
<1>3. CASE ProposeTask(t)
  <2> DEFINE e == Event("task.ready", NoRun, 1)
  <2>1. task'[t] = NewTask("ready") /\ \A u \in Tasks \ {t} : task'[u] = task[u]
    BY <1>0, <1>3 DEF ProposeTask
  <2>2. /\ journal'[t] = Append(journal[t], e)
        /\ \A u \in Tasks \ {t} : journal'[u] = journal[u]
    BY <1>3, <2>1 DEF ProposeTask, Emit, NewTask, TypeOK
  <2>3. e \in EventRecords
    BY <1>0 DEF Event, EventRecords, EventTypes
  <2>4. journal[t] = <<>> /\ task[t].version = 1
    BY <1>3 DEF ProposeTask, Exists, VersionsInv, Unwritten
  <2>5. Tells(journal[t], task[t], e, task'[t])
    BY <2>1, <2>4 DEF Tells, NewTask, Event, Notes, Explains
  <2>6. Told(journal[t], task[t], journal'[t], task'[t])
    BY <2>2, <2>3, <2>5 DEF Told
  <2>7. QED
    BY <2>1, <2>2, <2>6 DEF TellsOf, Tale, Same
<1>4. CASE RequestOutcomeVerification(t)
  <2>1. /\ task'[t].version = task[t].version + 1 /\ task'[t].state = task[t].state
        /\ task[t].state # "absent" /\ \A u \in Tasks \ {t} : task'[u] = task[u]
    BY <1>0, <1>4 DEF RequestOutcomeVerification, Exists, TaskRecords
  <2>2. /\ "task.verification_requested" \in EventTypes
        /\ "task.verification_requested" \notin Notes
        /\ "task.verification_requested" \notin TransitionTypes
    BY DEF EventTypes, Notes, TransitionTypes, Explains
  <2>3. QED
    BY <1>0, <1>4, <2>1, <2>2, OneEventTells DEF RequestOutcomeVerification
<1>5. CASE RecordConfirmation(t) \/ RecordEvidenceReference(t) \/ ResolveGap(t)
  <2>1. PICK type \in EventTypes \cap Notes : Note(t, type)
    BY <1>5 DEF RecordConfirmation, RecordEvidenceReference, ResolveGap, EventTypes, Notes
  <2>2. PICK seen \in 1..task[t].version :
          journal' = [journal EXCEPT ![t] = Append(@, Event(type, NoRun, seen))]
    BY <2>1 DEF Note
  <2> DEFINE e == Event(type, NoRun, seen)
  <2>3. e \in EventRecords /\ e.type = type /\ e.version = seen
    BY <1>0, <2>2 DEF Event, EventRecords, TaskRecords
  <2>4. task' = task /\ task[t].state # "absent"
    BY <2>1 DEF Note, Exists
  <2>5. /\ journal'[t] = Append(journal[t], e)
        /\ \A u \in Tasks \ {t} : journal'[u] = journal[u]
    BY <2>2 DEF TypeOK
  <2>6. Tells(journal[t], task[t], e, task'[t])
    BY <2>2, <2>3, <2>4 DEF Tells
  <2>7. QED
    BY <2>3, <2>4, <2>5, <2>6 DEF Told, TellsOf, Tale, Same
<1>6. QED
  BY <1>1, <1>2, <1>3, <1>4, <1>5 DEF FreeCommand

\* A claim tells of the run it replaces, if there is one, and of its own.
LEMMA ClaimTells ==
  ASSUME Owned, TypeOK', NEW t \in Tasks, Claim(t)
  PROVE  TellsOf(t)
<1>0. /\ TypeOK /\ task[t] \in TaskRecords /\ task \in [Tasks -> TaskRecords]
      /\ journal[t] \in Seq(EventRecords)
  BY DEF Owned, TypeOK
<1> PICK now \in Times, q \in LeaseRequests :
       \/ ClaimFree(t, now, q)
       \/ \E old \in RunIds : ClaimOverExpired(t, old, now, q)
  BY DEF Claim
<1>1. lastRun' \in 0..MaxRuns
  BY DEF TypeOK
<1>2. task'[t].state = "claimed" /\ \A u \in Tasks \ {t} : task'[u] = task[u]
  BY <1>0 DEF ClaimFree, ClaimOverExpired, TaskRecords
<1>3. CASE ClaimFree(t, now, q)
  <2>1. task'[t].version = task[t].version + 1
    BY <1>0, <1>3 DEF ClaimFree, TaskRecords
  <2>2. QED
    BY <1>0, <1>1, <1>2, <1>3, <2>1, FreedTells DEF ClaimFree, States, EventTypes, Explains
<1>4. ASSUME NEW old \in RunIds, ClaimOverExpired(t, old, now, q)
      PROVE  TellsOf(t)
  <2> DEFINE mid == Freed(task[t], "ready")
             d == Event("task.lease_expired", old, task[t].version + 1)
             e == Event("task.claimed", lastRun', task[t].version + 2)
  <2>1. task'[t].version = task[t].version + 2
    BY <1>0, <1>4 DEF ClaimOverExpired, TaskRecords
  <2>2. mid \in TaskRecords /\ mid.version = task[t].version + 1 /\ mid.state = "ready"
    <3>1. mid \in TaskRecords
      BY <1>0, FreedTyped DEF States
    <3>2. QED
      BY <1>0, <3>1 DEF Freed, TaskRecords
  <2>3. old \in 0..MaxRuns /\ task[t].version + 1 \in Nat /\ task[t].version + 2 \in Nat
    BY <1>0, NextVersions, NoRunTyped DEF RunIds
  <2>4. d \in EventRecords /\ e \in EventRecords
    BY <1>1, <2>3 DEF Event, EventRecords, EventTypes
  <2>5. Tells(journal[t], task[t], d, mid)
    BY <2>2 DEF Tells, Event, Notes, Explains
  <2>6. Tells(Append(journal[t], d), mid, e, task'[t])
    <3>1. e.version = mid.version + 1 /\ task'[t].version = mid.version + 1
      <4>1. \A n \in Nat : n + 2 = (n + 1) + 1
        OBVIOUS
      <4>2. task[t].version + 2 = (task[t].version + 1) + 1
        BY <1>0, <4>1 DEF TaskRecords
      <4>3. e.version = task[t].version + 2
        BY DEF Event
      <4> HIDE DEF mid, e
      <4>4. QED
        BY <2>1, <2>2, <4>2, <4>3
    <3>2. e.type \notin Notes /\ <<e.type, task'[t].state>> \in Explains
      BY <1>2 DEF Event, Notes, Explains
    <3>3. QED
      BY <1>2, <3>1, <3>2 DEF Tells
  <2>7. journal' = [journal EXCEPT ![t] = Append(Append(@, d), e)]
    BY <1>4 DEF ClaimOverExpired
  <2> HIDE DEF mid, d, e
  <2>8. QED
    BY <1>0, <1>2, <2>2, <2>4, <2>5, <2>6, <2>7, TwoEventsTell
<1>5. QED
  BY <1>3, <1>4

\* A move and a note about it tell a change of state together.
LEMMA MoveAndNoteTell ==
  ASSUME TypeOK, TypeOK', NEW t \in Tasks, NEW r \in 0..MaxRuns,
         NEW type \in EventTypes, NEW note \in EventTypes \cap Notes,
         NEW state \in States \ {"absent"}, <<type, state>> \in Explains,
         task'[t].version = task[t].version + 1, task'[t].state = state,
         \A u \in Tasks \ {t} : task'[u] = task[u],
         journal' = [journal EXCEPT ![t] =
           Append(Append(@, Event(type, r, task[t].version + 1)),
                  Event(note, r, task[t].version + 1))]
  PROVE  TellsOf(t)
<1> DEFINE d == Event(type, r, task[t].version + 1)
           e == Event(note, r, task[t].version + 1)
<1>1. task[t] \in TaskRecords /\ task'[t] \in TaskRecords /\ task[t].version + 1 \in Nat
  BY NextVersions DEF TypeOK
<1> PICK mid \in TaskRecords : mid = task'[t]
  BY <1>1
<1>2. d \in EventRecords /\ e \in EventRecords
  BY <1>1 DEF Event, EventRecords
<1>3. type \notin Notes
  BY DEF Explains, Notes
<1>4. Tells(journal[t], task[t], d, mid)
  BY <1>3 DEF Tells, Event
<1>5. Tells(Append(journal[t], d), mid, e, task'[t])
  <2>1. task[t].version + 1 \in 1..mid.version
    BY <1>1 DEF TaskRecords
  <2>2. QED
    BY <2>1 DEF Tells, Event
<1> HIDE DEF d, e
<1>6. journal' = [journal EXCEPT ![t] = Append(Append(@, d), e)]
  BY DEF d, e
<1>7. QED
  BY <1>2, <1>4, <1>5, <1>6, TwoEventsTell

\* Every command under a lease tells what it changes.
LEMMA LeaseCommandTells ==
  ASSUME Owned, TypeOK', NEW t \in Tasks, NEW r \in RunIds, NEW now \in Nows,
         LeaseCommand(t, r, now)
  PROVE  TellsOf(t) \/ \A u \in Tasks : Same(u)
<1>0. /\ TypeOK /\ task[t] \in TaskRecords /\ task \in [Tasks -> TaskRecords]
      /\ r \in 0..MaxRuns /\ task[t].version + 1 \in Nat
  BY NextVersions, NoRunTyped DEF Owned, TypeOK, RunIds
<1>1. HoldsLease(t, r, now)
  BY DEF LeaseCommand, Heartbeat, RecordProgress, RecordWaitingResponse,
         RequestApproval, RecordEscalation, RecordFollowup, Annotate,
         ScheduleNextCheck, BlockTask, ReleaseTask, CompleteRun
<1>2. task[t].state # "absent"
  BY <1>1, LeaseOwnsTask DEF Exists
<1>3. CASE \E q \in LeaseRequests : Heartbeat(t, r, now, q)
  BY <1>3 DEF Heartbeat, Same
<1>4. CASE RecordProgress(t, r, now)
  BY <1>0, <1>4, TransitionTells DEF RecordProgress, States, EventTypes, Explains
<1>5. CASE RecordWaitingResponse(t, r, now)
  BY <1>0, <1>5, TransitionTells DEF RecordWaitingResponse, States, EventTypes, Explains
<1>6. CASE RequestApproval(t, r, now)
  <2>1. /\ task'[t].version = task[t].version + 1 /\ task'[t].state = "waiting_approval"
        /\ \A u \in Tasks \ {t} : task'[u] = task[u]
    BY <1>0, <1>6 DEF RequestApproval, TaskRecords
  <2>2. /\ "task.approval_requested" \in EventTypes
        /\ "task.approval_details" \in EventTypes \cap Notes
        /\ "waiting_approval" \in States \ {"absent"}
        /\ <<"task.approval_requested", "waiting_approval">> \in Explains
    BY DEF EventTypes, Notes, States, Explains
  <2>3. QED
    BY <1>0, <1>6, <2>1, <2>2, MoveAndNoteTell DEF RequestApproval
<1>7. CASE RecordEscalation(t, r, now) \/ RecordFollowup(t, r, now)
  <2>1. PICK type \in {"task.escalated", "task.followup"} : Annotate(t, r, now, type)
    BY <1>7 DEF RecordEscalation, RecordFollowup
  <2>2. type \in EventTypes /\ type \notin Notes /\ type \notin TransitionTypes
    BY DEF EventTypes, Notes, TransitionTypes, Explains
  <2>3. /\ task'[t].version = task[t].version + 1 /\ task'[t].state = task[t].state
        /\ \A u \in Tasks \ {t} : task'[u] = task[u]
    BY <1>0, <2>1 DEF Annotate, TaskRecords
  <2>4. QED
    BY <1>0, <1>2, <2>1, <2>2, <2>3, OneEventTells DEF Annotate
<1>8. ASSUME NEW next \in Times, ScheduleNextCheck(t, r, now, next)
      PROVE  TellsOf(t)
  <2>1. /\ task'[t].version = task[t].version + 1 /\ task'[t].state = "scheduled"
        /\ \A u \in Tasks \ {t} : task'[u] = task[u]
    BY <1>0, <1>8 DEF ScheduleNextCheck, Freed, TaskRecords
  <2>2. QED
    BY <1>0, <1>8, <2>1, FreedTells DEF ScheduleNextCheck, States, EventTypes, Explains
<1>9. CASE BlockTask(t, r, now) \/ ReleaseTask(t, r, now)
  <2>1. PICK p \in {<<"task.blocked", "blocked">>, <<"task.released", "ready">>} :
          EndRun(t, r, "released", p[2], p[1])
    BY <1>9 DEF BlockTask, ReleaseTask
  <2>2. p[1] \in EventTypes /\ p[2] \in States \ {"absent"} /\ <<p[1], p[2]>> \in Explains
    BY DEF EventTypes, States, Explains
  <2>3. /\ task'[t].version = task[t].version + 1 /\ task'[t].state = p[2]
        /\ \A u \in Tasks \ {t} : task'[u] = task[u]
    BY <1>0, <2>1 DEF EndRun, Freed, TaskRecords
  <2>4. QED
    BY <1>0, <2>1, <2>2, <2>3, FreedTells DEF EndRun
<1>10. ASSUME NEW outcome \in RunOutcomes, NEW withEvidence \in BOOLEAN,
              CompleteRun(t, r, now, outcome, withEvidence)
       PROVE  TellsOf(t)
  <2> DEFINE d == Event(CompletionEvent[outcome], r, task[t].version + 1)
             e == Event("task.evidence_reference", r, task[t].version + 1)
  <2>1. /\ CompletionEvent[outcome] \in EventTypes
        /\ FinalState[outcome] \in States \ {"absent"}
        /\ <<CompletionEvent[outcome], FinalState[outcome]>> \in Explains
        /\ "task.evidence_reference" \in EventTypes \cap Notes
    BY DEF RunOutcomes, CompletionEvent, FinalState, EventTypes, States, Explains, Notes
  <2>2. /\ task'[t].version = task[t].version + 1 /\ task'[t].state = FinalState[outcome]
        /\ \A u \in Tasks \ {t} : task'[u] = task[u]
    BY <1>0, <1>10 DEF CompleteRun, Freed, TaskRecords
  <2>3. CASE withEvidence
    <3>1. journal' = [journal EXCEPT ![t] = Append(Append(@, d), e)]
      BY <1>10, <2>3 DEF CompleteRun
    <3>2. QED
      BY <1>0, <2>1, <2>2, <3>1, MoveAndNoteTell
  <2>4. CASE ~withEvidence
    <3>1. Emit(t, CompletionEvent[outcome], r)
      BY <1>10, <2>2, <2>4 DEF CompleteRun, Emit
    <3>2. QED
      BY <1>0, <2>1, <2>2, <3>1, FreedTells
  <2>5. QED
    BY <2>3, <2>4
<1>11. QED
  BY <1>3, <1>4, <1>5, <1>6, <1>7, <1>8, <1>9, <1>10 DEF LeaseCommand

\* The watchdog tells each task whose run it failed.
LEMMA ReclaimTells ==
  ASSUME TypeOK, NEW now \in Times, ReclaimExpired(now), NEW t \in Tasks
  PROVE  Same(t) \/ Tale(t)
<1>1. CASE ExpiredOn(t, now) = {}
  BY <1>1 DEF ReclaimExpired, Same
<1>2. CASE ExpiredOn(t, now) # {}
  <2> DEFINE r == CHOOSE q \in ExpiredOn(t, now) : TRUE
             e == Event("task.lease_expired", r, task[t].version + 1)
  <2>1. r \in 0..MaxRuns
    BY <1>2, NoRunTyped DEF ExpiredOn, RunIds
  <2>2. journal'[t] = Append(journal[t], e) /\ task'[t] = Freed(task[t], "ready")
    BY <1>2 DEF ReclaimExpired
  <2> HIDE DEF r
  <2>3. task'[t].version = task[t].version + 1 /\ task'[t].state = "ready"
    BY <2>2 DEF Freed, TypeOK, TaskRecords
  <2>4. e \in EventRecords
    BY <2>1, NextVersions DEF Event, EventRecords, EventTypes
  <2>5. Tells(journal[t], task[t], e, task'[t])
    BY <2>3 DEF Tells, Event, Notes, Explains
  <2>6. QED
    BY <2>2, <2>4, <2>5 DEF Told, Tale
<1>3. QED
  BY <1>1, <1>2

\* Every step of the commands tells what it changes of a task.
LEMMA StepTells ==
  ASSUME Owned, TypeOK', VersionsInv, [Next]_vars, NEW t \in Tasks
  PROVE  Same(t) \/ Tale(t)
<1>0. TypeOK
  BY DEF Owned
<1>1. ASSUME NEW u \in Tasks, TellsOf(u) PROVE Same(t) \/ Tale(t)
  BY <1>1 DEF TellsOf
<1>2. CASE UNCHANGED vars \/ \E now \in Times \ ticks : RegisterTick(now)
  BY <1>2 DEF vars, RegisterTick, Same
<1>3. QED
  BY <1>0, <1>1, <1>2, FreeCommandTells, ClaimTells, LeaseCommandTells, ReclaimTells DEF Next

\* A tale keeps what the journal says true.
LEMMA TaleKeeps ==
  ASSUME TypeOK, TypeOK', NEW t \in Tasks, Tale(t)
  PROVE  /\ AnnouncesVersions(journal[t], task[t].version)
              => AnnouncesVersions(journal'[t], task'[t].version)
         /\ ExplainsState(journal[t], task[t].state)
              => ExplainsState(journal'[t], task'[t].state)
         /\ task'[t].state # "absent"
<1>0. /\ journal[t] \in Seq(EventRecords) /\ journal'[t] \in Seq(EventRecords)
      /\ task[t] \in TaskRecords /\ task'[t] \in TaskRecords
  BY DEF TypeOK
<1>1. ASSUME NEW j \in Seq(EventRecords), NEW tk \in TaskRecords,
             NEW j2, NEW new \in TaskRecords, Told(j, tk, j2, new)
      PROVE  /\ AnnouncesVersions(j, tk.version) => AnnouncesVersions(j2, new.version)
             /\ ExplainsState(j, tk.state) => ExplainsState(j2, new.state)
             /\ new.state # "absent"
  <2>1. PICK e \in EventRecords : j2 = Append(j, e) /\ Tells(j, tk, e, new)
    BY <1>1 DEF Told
  <2>2. new.state # "absent"
    BY <2>1 DEF Tells
  <2>3. QED
    BY <2>1, <2>2, ToldVersions, ToldState
<1>2. CASE Told(journal[t], task[t], journal'[t], task'[t])
  BY <1>0, <1>1, <1>2
<1>3. ASSUME NEW j \in Seq(EventRecords), NEW mid \in TaskRecords,
             Told(journal[t], task[t], j, mid), Told(j, mid, journal'[t], task'[t])
      PROVE  /\ AnnouncesVersions(journal[t], task[t].version)
                  => AnnouncesVersions(journal'[t], task'[t].version)
             /\ ExplainsState(journal[t], task[t].state)
                  => ExplainsState(journal'[t], task'[t].state)
             /\ task'[t].state # "absent"
  <2>1. /\ AnnouncesVersions(journal[t], task[t].version) => AnnouncesVersions(j, mid.version)
        /\ ExplainsState(journal[t], task[t].state) => ExplainsState(j, mid.state)
    BY <1>0, <1>1, <1>3
  <2>2. /\ AnnouncesVersions(j, mid.version) => AnnouncesVersions(journal'[t], task'[t].version)
        /\ ExplainsState(j, mid.state) => ExplainsState(journal'[t], task'[t].state)
        /\ task'[t].state # "absent"
    BY <1>0, <1>1, <1>3
  <2>3. QED
    BY <2>1, <2>2
<1>4. QED
  BY <1>2, <1>3 DEF Tale

\* The versions stay announced, whether or not states are written by hand.
LEMMA VersionsStep == Owned /\ VersionsInv /\ [MNext]_vars => VersionsInv'
<1> SUFFICES ASSUME Owned, VersionsInv, [MNext]_vars, NEW t \in Tasks
             PROVE  /\ AnnouncesVersions(journal'[t], task'[t].version)
                    /\ Unwritten(journal'[t], task'[t])
  BY DEF VersionsInv, VersionsAnnounced
<1>0. TypeOK /\ TypeOK' /\ AnnouncesVersions(journal[t], task[t].version)
      /\ Unwritten(journal[t], task[t])
  BY TypeInductiveManual DEF Owned, VersionsInv, VersionsAnnounced
<1>1. CASE Same(t)
  BY <1>0, <1>1 DEF Same, Unwritten
<1>2. CASE Tale(t)
  BY <1>0, <1>2, TaleKeeps DEF Unwritten
<1>3. ASSUME NEW u \in Tasks, NEW state \in States \ {"absent"}, NEW active \in 0..MaxRuns,
             NEW next \in Times \cup {Unset}, ManualEdit(u, state, active, next)
      PROVE  /\ journal'[t] = journal[t] /\ task'[t].version = task[t].version
             /\ task'[t].state = "absent" => task[t].state = "absent"
  BY <1>0, <1>3 DEF ManualEdit, TypeOK, TaskRecords
<1>4. CASE [Next]_vars
  BY <1>0, <1>1, <1>2, <1>4, StepTells
<1>5. QED
  BY <1>0, <1>3, <1>4 DEF MNext, Unwritten

\* The last transition explains the state as long as only commands change it.
LEMMA StatesStep == Owned /\ VersionsInv /\ StatesInv /\ [Next]_vars => StatesInv'
<1> SUFFICES ASSUME Owned, VersionsInv, StatesInv, [Next]_vars, NEW t \in Tasks
             PROVE  ExplainsState(journal'[t], task'[t].state)
  BY DEF StatesInv
<1>0. TypeOK /\ TypeOK' /\ ExplainsState(journal[t], task[t].state)
  BY TypeInductive DEF Owned, StatesInv
<1>1. CASE Same(t)
  BY <1>0, <1>1 DEF Same
<1>2. CASE Tale(t)
  BY <1>0, <1>2, TaleKeeps
<1>3. QED
  BY <1>0, <1>1, <1>2, StepTells

\* An empty journal tells a task nobody moved.
LEMMA ReplayInit == Init => VersionsInv /\ StatesInv
<1> SUFFICES ASSUME Init, NEW t \in Tasks
             PROVE  /\ AnnouncesVersions(journal[t], task[t].version)
                    /\ Unwritten(journal[t], task[t])
                    /\ ExplainsState(journal[t], task[t].state)
  BY DEF VersionsInv, VersionsAnnounced, StatesInv
<1>1. /\ journal[t] = <<>> /\ task[t].version = 1
      /\ task[t].state \in {"absent", "not_managed"}
  BY DEF Init, NewTask
<1>2. Transitions(<<>>) = {} /\ Moves(<<>>) = {} /\ DOMAIN <<>> = {}
  BY DEF Transitions, Moves
<1>3. QED
  BY <1>1, <1>2 DEF AnnouncesVersions, ExplainsState, Unwritten

\* Even when users write states by hand, the journal announces every version
\* of a task once and in order: an edit changes no version and writes no event.
THEOREM VersionsAnnouncedManual == MSpec => []VersionsAnnounced
<1>1. VersionsInv => VersionsAnnounced
  BY DEF VersionsInv
<1>2. QED
  BY <1>1, ReplayInit, VersionsStep, OwnershipInit, OwnedInductive, PTL DEF MSpec

\* Whoever only reads the events of a task knows its state and its version,
\* for any number of tasks, claimants and notes written from old snapshots.
THEOREM JournalReplaysCorrect == Spec => []JournalReplays
<1>1. VersionsInv /\ StatesInv => JournalReplays
  BY DEF VersionsInv, StatesInv, JournalReplays
<1>2. Owned /\ VersionsInv /\ StatesInv /\ [Next]_vars => Owned' /\ VersionsInv' /\ StatesInv'
  BY OwnedInductive, VersionsStep, StatesStep DEF MNext
<1>3. QED
  BY <1>1, <1>2, ReplayInit, OwnershipInit, PTL DEF Spec

-----------------------------------------------------------------------------
(* The refinement of TaskLease                                             *)

Tagged(j) == {i \in DOMAIN j : j[i].run # NoRun}

\* The run of the last event of a journal that names one.
WriterOf(j) ==
  IF Tagged(j) = {} THEN NoRun
  ELSE j[CHOOSE i \in Tagged(j) : \A k \in Tagged(j) : k <= i].run

\* Some positions of a journal have a last one.
LEMMA LastPosition ==
  ASSUME NEW j \in Seq(EventRecords), NEW S \in SUBSET DOMAIN j, S # {}
  PROVE  \E i \in S : \A k \in S : k <= i
<1> DEFINE D == {Len(j) - i : i \in S}
<1>1. Len(j) \in Nat /\ S \subseteq 1..Len(j)
  OBVIOUS
<1>2. D \subseteq Nat /\ D # {}
  BY <1>1
<1>3. PICK x \in D : \A y \in D : ~ (<<y, x>> \in OpToRel(<, Nat))
  BY <1>2, NatLessThanWellFounded, WFMin
<1>4. PICK i \in S : x = Len(j) - i
  OBVIOUS
<1>5. ASSUME NEW k \in S PROVE k <= i
  <2>1. Len(j) - k \in D /\ Len(j) - k \in Nat /\ x \in Nat
    BY <1>2
  <2>2. ~ (Len(j) - k < x)
    BY <1>3, <2>1 DEF OpToRel
  <2>3. QED
    BY <1>1, <1>4, <2>2
<1>6. QED
  BY <1>5

\* The last writer of a journal with one more event.
LEMMA WriterAppend ==
  ASSUME NEW j \in Seq(EventRecords), NEW e \in EventRecords
  PROVE  WriterOf(Append(j, e)) = IF e.run = NoRun THEN WriterOf(j) ELSE e.run
<1> DEFINE a == Append(j, e)
<1>1. /\ Len(j) \in Nat /\ DOMAIN j = 1..Len(j) /\ DOMAIN a = 1..(Len(j) + 1)
      /\ \A i \in DOMAIN j : a[i] = j[i]
      /\ a[Len(j) + 1] = e
  OBVIOUS
<1>2. CASE e.run = NoRun
  <2>1. Tagged(a) = Tagged(j)
    BY <1>1, <1>2 DEF Tagged
  <2>2. CASE Tagged(j) = {}
    BY <1>2, <2>1, <2>2 DEF WriterOf
  <2>3. CASE Tagged(j) # {}
    <3> DEFINE c == CHOOSE i \in Tagged(j) : \A k \in Tagged(j) : k <= i
    <3>1. Tagged(j) \in SUBSET DOMAIN j
      BY DEF Tagged
    <3>2. c \in Tagged(j)
      BY <2>3, <3>1, LastPosition
    <3>3. a[c] = j[c]
      BY <1>1, <3>1, <3>2
    <3>4. QED
      BY <1>2, <2>1, <2>3, <3>3 DEF WriterOf
  <2>4. QED
    BY <2>2, <2>3
<1>3. CASE e.run # NoRun
  <2> DEFINE n == Len(j) + 1
             c == CHOOSE i \in Tagged(a) : \A k \in Tagged(a) : k <= i
  <2>1. n \in Tagged(a) /\ \A k \in Tagged(a) : k \in Int /\ k <= n
    BY <1>1, <1>3 DEF Tagged
  <2>2. c \in Tagged(a) /\ n <= c
    BY <2>1
  <2>3. c = n
    BY <1>1, <2>1, <2>2
  <2>4. QED
    BY <1>1, <1>3, <2>1, <2>3 DEF WriterOf
<1>4. QED
  BY <1>2, <1>3

Writers == [t \in Tasks |-> LastWriter(t)]

Holding == {<<run[r].task, r>> : r \in {q \in RunIds : Running(q)}}

\* The holders the refinement maps to, task by task.
LEMMA WritersAre == /\ Writers = [t \in Tasks |-> WriterOf(journal[t])]
                    /\ Writers' = [t \in Tasks |-> WriterOf(journal'[t])]
  BY DEF Writers, LastWriter, RunTagged, WriterOf, Tagged

\* The last run to write is the run of the last event.
LEMMA EmitsWriter ==
  ASSUME TypeOK, NEW t \in Tasks, NEW first, NEW last, Emits(t, first, last)
  PROVE  /\ last # NoRun => Writers' = [Writers EXCEPT ![t] = last]
         /\ first = NoRun /\ last = NoRun => Writers' = Writers
<1> PICK d \in EventRecords, e \in EventRecords :
       /\ d.run = first /\ e.run = last
       /\ journal' \in {[journal EXCEPT ![t] = Append(@, e)],
                        [journal EXCEPT ![t] = Append(Append(@, d), e)]}
  BY DEF Emits
<1>1. journal[t] \in Seq(EventRecords) /\ Append(journal[t], d) \in Seq(EventRecords)
  BY AppendTyped DEF TypeOK
<1>2. /\ WriterOf(Append(journal[t], e)) = IF last = NoRun THEN WriterOf(journal[t]) ELSE last
      /\ WriterOf(Append(Append(journal[t], d), e))
           = IF last = NoRun THEN WriterOf(Append(journal[t], d)) ELSE last
      /\ WriterOf(Append(journal[t], d)) = IF first = NoRun THEN WriterOf(journal[t]) ELSE first
  BY <1>1, WriterAppend
<1>3. /\ journal'[t] \in {Append(journal[t], e), Append(Append(journal[t], d), e)}
      /\ \A u \in Tasks \ {t} : journal'[u] = journal[u]
  BY DEF TypeOK
<1>4. /\ last # NoRun => WriterOf(journal'[t]) = last
      /\ first = NoRun /\ last = NoRun => WriterOf(journal'[t]) = WriterOf(journal[t])
  BY <1>2, <1>3
<1>5. /\ last # NoRun => \A u \in Tasks :
           WriterOf(journal'[u]) = IF u = t THEN last ELSE WriterOf(journal[u])
      /\ first = NoRun /\ last = NoRun => \A u \in Tasks : WriterOf(journal'[u]) = WriterOf(journal[u])
  BY <1>3, <1>4
<1>6. QED
  BY <1>5, WritersAre

\* A pair is held exactly when its run is running on its task.
LEMMA Holds ==
  /\ \A t \in Tasks, r \in RunIds : <<t, r>> \in Holding <=> Running(r) /\ run[r].task = t
  /\ \A p \in Holding : p[2] \in RunIds /\ Running(p[2]) /\ p = <<run[p[2]].task, p[2]>>
  BY DEF Holding

\* A step that leaves the journal and the owners alone is a stutter.
LEMMA QuietPromise ==
  ASSUME Owned, Quiet
  PROVE  UNCHANGED Promise!vars
<1>1. Holding' = Holding
  BY DEF Quiet, SameHolders, Holding, Running
<1>2. Writers' = Writers
  <2>1. CASE journal' = journal
    BY <2>1, WritersAre
  <2>2. CASE \E t \in Tasks : Emits(t, NoRun, NoRun)
    BY <2>2, EmitsWriter DEF Owned
  <2>3. QED
    BY <2>1, <2>2 DEF Quiet
<1>3. QED
  BY <1>1, <1>2 DEF Quiet, SameHolders, Promise!vars, Holding, Writers

\* Work under a lease is Write of the promise.
LEMMA WorksPromise ==
  ASSUME Owned, NEW t \in Tasks, NEW r \in RunIds, Works(t, r)
  PROVE  Promise!Write(t, r) /\ <<t, r>> \in Holding
<1>1. <<t, r>> \in Holding
  BY Holds DEF Works, Holder
<1>2. Holding' = Holding
  BY DEF Works, SameHolders, Holding, Running
<1>3. Writers' = [Writers EXCEPT ![t] = r]
  BY EmitsWriter DEF Owned, Works, RunIds, NoRun
<1>4. QED
  BY <1>1, <1>2, <1>3 DEF Works, SameHolders, Promise!Write, Holding, Writers

\* A run that ends is Return of the promise.
LEMMA EndsPromise ==
  ASSUME Owned, NEW t \in Tasks, NEW r \in RunIds, Ends(t, r)
  PROVE  Promise!Return(t, r) /\ <<t, r>> \in Holding
<1>1. <<t, r>> \in Holding
  BY Holds DEF Ends, Holder
<1>2. Holding' = Holding \ {<<t, r>>}
  <2>1. ~Running(r)' /\ \A q \in RunIds \ {r} : run'[q] = run[q] /\ (Running(q)' <=> Running(q))
    BY DEF Ends, Running
  <2>2. run[r].task = t
    BY DEF Ends, Holder
  <2>3. QED
    BY <2>1, <2>2 DEF Holding
<1>3. Writers' = [Writers EXCEPT ![t] = r]
  BY EmitsWriter DEF Owned, Ends, RunIds, NoRun
<1>4. QED
  BY <1>1, <1>2, <1>3 DEF Ends, Promise!Return, Holding, Writers

\* A claim is Grant of the promise.
LEMMA GrantsPromise ==
  ASSUME Owned, NEW t \in Tasks, NEW old \in 0..MaxRuns, Grants(t, old)
  PROVE  Promise!Grant(t)
<1> PICK new : new = lastRun'
  OBVIOUS
<1>0. new \in RunIds /\ new = lastRun + 1 /\ lastRun \in 0..MaxRuns /\ MaxRuns \in Nat
  BY NoRunTyped DEF Grants, Owned, TypeOK
<1>1. /\ new \in RunIds /\ new # NoRun /\ ~Running(new)
      /\ run'[new].outcome = "running" /\ run'[new].task = t
  <2>1. new > lastRun /\ new # NoRun
    BY <1>0 DEF NoRun
  <2>2. run[new].outcome = "unborn"
    BY <1>0, <2>1 DEF Owned, Allocated
  <2>3. QED
    BY <1>0, <2>1, <2>2 DEF Grants, Running
<1>2. \A q \in RunIds \ {new} :
        /\ Running(q)' <=> Running(q) /\ run[q].task # t
        /\ Running(q)' => run'[q].task = run[q].task
  <2>1. ASSUME NEW q \in RunIds \ {new, old}
        PROVE  run'[q] = run[q] /\ (Running(q) => run[q].task # t)
    BY <2>1 DEF Grants, RunsOn
  <2>2. ASSUME old \in RunIds PROVE ~Running(old)' /\ run[old].task = t
    BY <2>2 DEF Grants, Holder, Running, RunIds, NoRun
  <2>3. QED
    BY <2>1, <2>2 DEF Running
<1>3. Holding' = (Holding \ {p \in Holding : p[1] = t}) \cup {<<t, new>>}
  <2>1. ASSUME NEW p \in Holding'
        PROVE  p \in (Holding \ {o \in Holding : o[1] = t}) \cup {<<t, new>>}
    <3>1. PICK q \in RunIds : Running(q)' /\ p = <<run'[q].task, q>>
      BY DEF Holding
    <3>2. CASE q = new
      BY <1>1, <3>1, <3>2
    <3>3. CASE q # new
      BY <1>2, <3>1, <3>3 DEF Holding
    <3>4. QED
      BY <3>2, <3>3
  <2>2. ASSUME NEW p \in Holding, p[1] # t PROVE p \in Holding'
    <3>1. PICK q \in RunIds : Running(q) /\ p = <<run[q].task, q>>
      BY DEF Holding
    <3>2. q # new /\ run[q].task # t
      BY <1>1, <2>2, <3>1
    <3>3. QED
      BY <1>2, <3>1, <3>2 DEF Holding
  <2>3. <<t, new>> \in Holding'
    BY <1>1 DEF Holding, Running
  <2>4. QED
    BY <2>1, <2>2, <2>3
<1>4. Writers' = [Writers EXCEPT ![t] = new]
  BY <1>1, EmitsWriter DEF Owned, Grants
<1>5. lastRun' = lastRun + 1
  BY DEF Grants
<1>6. QED
  BY <1>3, <1>4, <1>5 DEF Promise!Grant, Promise!HoldersOf, Holding, Writers

\* Reclaiming expired leases is Revoke of the promise.
LEMMA ReclaimPromise ==
  ASSUME Owned, NEW now \in Times, ReclaimExpired(now)
  PROVE  \E lost \in SUBSET Holding : Promise!Revoke(lost)
<1> PICK lost : lost = {<<run[r].task, r>> : r \in {q \in RunIds : Expired(q, now)}}
  OBVIOUS
<1>0. TypeOK
  BY DEF Owned
<1>1. lost \in SUBSET Holding /\ lost # {}
  BY DEF ReclaimExpired, Expired, Holding
<1>2. Holding' = Holding \ lost
  <2>1. \A r \in RunIds : /\ run'[r].task = run[r].task
                          /\ Running(r)' <=> Running(r) /\ ~Expired(r, now)
    BY <1>0 DEF ReclaimExpired, Running, Expired, TypeOK, RunRecords
  <2>2. QED
    BY <2>1 DEF Holding
<1>3. ASSUME NEW t \in Tasks
      PROVE  WriterOf(journal'[t]) = IF \E p \in lost : p[1] = t
                                     THEN (CHOOSE p \in lost : p[1] = t)[2]
                                     ELSE WriterOf(journal[t])
  <2>1. (\E p \in lost : p[1] = t) <=> ExpiredOn(t, now) # {}
    <3>1. ASSUME NEW p \in lost, p[1] = t PROVE ExpiredOn(t, now) # {}
      <4>1. PICK q \in RunIds : Expired(q, now) /\ p = <<run[q].task, q>>
        OBVIOUS
      <4>2. q \in ExpiredOn(t, now)
        BY <3>1, <4>1 DEF ExpiredOn
      <4>3. QED
        BY <4>2
    <3>2. ASSUME NEW q \in ExpiredOn(t, now) PROVE \E p \in lost : p[1] = t
      <4>1. <<run[q].task, q>> \in lost /\ run[q].task = t
        BY DEF ExpiredOn
      <4>2. QED
        BY <4>1
    <3>3. QED
      BY <3>1, <3>2
  <2>2. CASE ExpiredOn(t, now) = {}
    BY <2>1, <2>2 DEF ReclaimExpired
  <2>3. CASE ExpiredOn(t, now) # {}
    <3> DEFINE r == CHOOSE q \in ExpiredOn(t, now) : TRUE
               e == Event("task.lease_expired", r, task[t].version + 1)
               p == CHOOSE o \in lost : o[1] = t
    <3>1. r \in RunIds /\ Running(r) /\ run[r].task = t
      <4>1. r \in ExpiredOn(t, now)
        BY <2>3
      <4>2. QED
        BY <4>1 DEF ExpiredOn, Expired
    <3>2. p \in lost /\ p[1] = t
      BY <2>1, <2>3
    <3> HIDE DEF p
    <3>3. p[2] \in RunIds /\ Running(p[2]) /\ run[p[2]].task = t
      <4>1. PICK q \in RunIds : Expired(q, now) /\ p = <<run[q].task, q>>
        BY <3>2
      <4>2. QED
        BY <3>2, <4>1 DEF Expired
    <3>4. journal'[t] = Append(journal[t], e)
      BY <2>3 DEF ReclaimExpired
    <3> HIDE DEF r
    <3>5. r = p[2]
      BY <3>1, <3>3 DEF Owned, OneOwner, ExclusiveOwner
    <3>6. e \in EventRecords /\ e.run = r /\ r # NoRun
      <4>1. r \in 0..MaxRuns /\ r # NoRun
        BY <3>1, NoRunTyped DEF RunIds, NoRun
      <4>2. QED
        BY <1>0, <4>1, NextVersions DEF Event, EventRecords, EventTypes
    <3>7. WriterOf(journal'[t]) = r
      BY <1>0, <3>4, <3>6, WriterAppend DEF TypeOK
    <3>8. QED
      BY <2>1, <2>3, <3>5, <3>7 DEF p
  <2>4. QED
    BY <2>2, <2>3
<1>4. Writers' = [t \in Tasks |-> IF \E p \in lost : p[1] = t
                                  THEN (CHOOSE p \in lost : p[1] = t)[2]
                                  ELSE Writers[t]]
  BY <1>3, WritersAre
<1>5. Promise!Revoke(lost)
  BY <1>1, <1>2, <1>4 DEF Promise!Revoke, ReclaimExpired, Holding, Writers
<1>6. QED
  BY <1>1, <1>5

\* Nothing is held at first, as the promise says.
LEMMA PromiseInit == Init => Promise!Init
<1> SUFFICES ASSUME Init PROVE Promise!Init
  OBVIOUS
<1>1. Holding = {}
  BY DEF Init, UnbornRun, Holding, Running
<1>2. Writers = [t \in Tasks |-> 0]
  <2>1. \A t \in Tasks : Tagged(journal[t]) = {}
    BY DEF Init, Tagged
  <2>2. QED
    BY <2>1, WritersAre DEF WriterOf, NoRun
<1>3. QED
  BY <1>1, <1>2 DEF Init, Promise!Init, Holding, Writers

\* Every step of the orchestrator is a step of the promise or a stutter.
LEMMA PromiseStep == Owned /\ [MNext]_vars => [Promise!Next]_(Promise!vars)
<1> SUFFICES ASSUME Owned, [MNext]_vars PROVE Promise!Next \/ UNCHANGED Promise!vars
  OBVIOUS
<1>1. ASSUME NEW t \in Tasks, NEW r \in RunIds, Works(t, r) \/ Ends(t, r)
      PROVE  Promise!Next
  <2>1. <<t, r>> \in Holding /\ (Promise!Write(t, r) \/ Promise!Return(t, r))
    BY <1>1, WorksPromise, EndsPromise
  <2>2. \E p \in Holding : Promise!Write(p[1], p[2]) \/ Promise!Return(p[1], p[2])
    BY <2>1
  <2>3. QED
    BY <2>2 DEF Promise!Next, Holding
<1>2. ASSUME NEW now \in Times, ReclaimExpired(now) PROVE Promise!Next
  BY <1>2, ReclaimPromise DEF Promise!Next, Holding
<1>3. ASSUME NEW t \in Tasks, NEW old \in 0..MaxRuns, Grants(t, old) PROVE Promise!Next
  BY <1>3, GrantsPromise DEF Promise!Next
<1>4. QED
  BY <1>1, <1>2, <1>3, StepKinds, QuietPromise

\* The command surface implements the lease: every command is a grant, a write
\* or a return by the present holder, a revocation, or no step of the lease;
\* and a user who edits a task by hand takes no step of the lease either.
THEOREM ManualImplementsTaskLease == MSpec => ImplementsTaskLease
  BY PromiseInit, PromiseStep, OwnershipInit, OwnedInductive, PTL
  DEF MSpec, ImplementsTaskLease, Promise!Spec

\* The command surface alone implements the lease.
THEOREM OrchestratorImplementsTaskLease == Spec => ImplementsTaskLease
  BY ManualImplementsTaskLease, CommandsAlone, PTL

=============================================================================
