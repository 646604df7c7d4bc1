----------------------------- MODULE Orchestrator -----------------------------
(***************************************************************************)
(* The command surface of the Odoo orchestrator (pmorg.orchestrator.api):  *)
(* tasks that runtimes claim under a lease, the runs that record each      *)
(* attempt, the append-only journal of task events and the trusted clock.  *)
(*                                                                         *)
(* One command is one database transaction, and every command that changes *)
(* a task or its run writes a row the others write too, so a command is    *)
(* one atomic action here.  A refused command (ApiError) is rolled back by *)
(* the savepoint of _dispatch and is a stuttering step.  A run id stands   *)
(* for the run and for its opaque token: nobody but the claimer has it.    *)
(***************************************************************************)
EXTENDS Integers, Sequences, FiniteSets

CONSTANTS
  Tasks,          \* project.task records
  Unset,          \* Odoo's False in an optional field
  Times,          \* the readings a clock can give
  ClockMode,      \* ir.config_parameter pmorg.clock_mode
  LeaseRequests,  \* lease_seconds / extend_seconds a caller may send, 0 if absent
  DefaultLease,   \* DEFAULT_LEASE_SECONDS
  MaxLease,       \* MAX_LEASE_SECONDS
  MaxRuns,        \* bound: runs ever created
  MaxEvents,      \* bound: journal length up to which commands are issued
  MaxNotes        \* bound: notes in a journal, see Note

ASSUME ConstantsAssumption ==
  /\ Times \subseteq Int
  /\ LeaseRequests \subseteq Int
  /\ Unset \notin Tasks \cup Times
  /\ ClockMode \in {"tick", "client"}
  /\ DefaultLease \in Nat /\ MaxLease \in Nat /\ DefaultLease <= MaxLease
  /\ MaxRuns \in Nat /\ MaxEvents \in Nat /\ MaxNotes \in Nat

VARIABLES
  task,     \* task[t]: orchestration fields of a project.task
  run,      \* run[r]: the pmorg.task.run with id r
  lastRun,  \* the id sequence of pmorg.task.run: ids 1..lastRun are taken
  journal,  \* journal[t]: the pmorg.task.event rows of t, oldest first
  ticks     \* the sim_times of the registered pmorg.clock.tick rows

vars == <<task, run, lastRun, journal, ticks>>

NoRun == 0
RunIds == 1..MaxRuns

States == {"absent", "not_managed", "ready", "claimed", "running",
           "waiting_response", "waiting_approval", "scheduled", "blocked",
           "review", "failed", "completed", "cancelled"}

\* The states in which a run holds the task, and those nothing leaves.
Held == {"claimed", "running", "waiting_response", "waiting_approval"}
Terminal == {"review", "failed", "completed"}

\* The event types _emit is called with.
EventTypes ==
  {"task.ready", "task.claimed", "task.progress", "task.waiting_response",
   "task.approval_requested", "task.approval_details", "task.scheduled",
   "task.blocked", "task.released", "task.lease_expired", "task.run_completed",
   "task.run_failed", "task.escalated", "task.followup", "task.confirmation",
   "task.evidence_reference", "task.verification_requested",
   "provenance.gap_resolved"}

Outcomes == {"unborn", "running", "done", "failed", "needs_review", "released"}

NewTask(state) ==
  [state |-> state, version |-> 1, active |-> NoRun, nextCheck |-> Unset,
   verification |-> "not_started"]

UnbornRun == [task |-> Unset, outcome |-> "unborn", expires |-> 0]

Init ==
  /\ task \in [Tasks -> {NewTask("absent"), NewTask("not_managed")}]
  /\ run = [r \in RunIds |-> UnbornRun]
  /\ lastRun = 0
  /\ journal = [t \in Tasks |-> <<>>]
  /\ ticks = {}

-----------------------------------------------------------------------------
(* Time, leases and journal                                                *)

\* The readings a caller can have accepted: in tick mode any tick the harness
\* registered, the oldest included; in client mode whatever it claims.
Nows == IF ClockMode = "tick" THEN ticks ELSE Times

\* Mutant of LeaseLength: the cap is forgotten.
LeaseLengthUncapped(q) == IF q = 0 THEN DefaultLease ELSE q

\* min(lease_seconds or DEFAULT, MAX): there is no lower bound.
LeaseLength(q) ==
  LET asked == IF q = 0 THEN DefaultLease ELSE q
  IN  IF asked < MaxLease THEN asked ELSE MaxLease

Running(r) == run[r].outcome = "running"

\* Mutant of LeaseValid: only the date is looked at, not whether the run is over.
LeaseValidByDate(r, now) == run[r].expires > now

LeaseValid(r, now) == Running(r) /\ run[r].expires > now

\* Mutant of Expired: the search forgets outcome = running.
ExpiredByDate(r, now) == run[r].outcome # "unborn" /\ run[r].expires < now

\* Mutant of Expired: the watchdog looks at working tasks only.
ExpiredWhileWorking(r, now) ==
  /\ Running(r) /\ run[r].expires < now
  /\ task[run[r].task].state \in {"claimed", "running"}

\* reclaim_expired compares strictly, so at expires = now a run is neither
\* valid nor collected.
Expired(r, now) == Running(r) /\ run[r].expires < now

\* The checks every command under a lease makes before anything else.
HoldsLease(t, r, now) == run[r].task = t /\ LeaseValid(r, now)

Exists(t) == task[t].state # "absent"

\* Bound on the length of the histories explored.
Room(t) == Len(journal[t]) < MaxEvents

Event(type, r, version) == [type |-> type, run |-> r, version |-> version]

\* One event, stamped with the version the task has once it is written.
Emit(t, type, r) ==
  journal' = [journal EXCEPT ![t] = Append(@, Event(type, r, task'[t].version))]

\* Mutant of Transition: state_version is not incremented.
TransitionSameVersion(t, state, type, r) ==
  /\ task' = [task EXCEPT ![t].state = state]
  /\ Emit(t, type, r)

\* A change of state that leaves the run going.
Transition(t, state, type, r) ==
  /\ task' = [task EXCEPT ![t].state = state, ![t].version = @ + 1]
  /\ Emit(t, type, r)

\* Mutant of Freed: active_run_id is not cleared.
FreedKeepingRun(tk, state) == [tk EXCEPT !.state = state, !.version = @ + 1]

\* The fields of a task whose run just ended.
Freed(tk, state) ==
  [tk EXCEPT !.state = state, !.version = @ + 1, !.active = NoRun]

\* A command that ends the caller's run and moves the task in one write each.
EndRun(t, r, outcome, state, type) ==
  /\ run' = [run EXCEPT ![r].outcome = outcome]
  /\ task' = [task EXCEPT ![t] = Freed(@, state)]
  /\ Emit(t, type, r)

-----------------------------------------------------------------------------
(* Commands that need no lease                                             *)

RegisterTick(now) ==
  /\ ticks' = ticks \cup {now}
  /\ UNCHANGED <<task, run, lastRun, journal>>

MarkManaged(t) ==
  /\ Room(t)
  /\ task[t].state = "not_managed"
  /\ Transition(t, "ready", "task.ready", NoRun)
  /\ UNCHANGED <<run, lastRun, ticks>>

\* The initiative and its project are inputs that exist.
ProposeTask(t) ==
  /\ Room(t)
  /\ ~Exists(t)
  /\ task' = [task EXCEPT ![t] = NewTask("ready")]
  /\ Emit(t, "task.ready", NoRun)
  /\ UNCHANGED <<run, lastRun, ticks>>

\* Written without a new version, the first three from a snapshot of it.
Notes == {"task.confirmation", "task.evidence_reference",
          "provenance.gap_resolved", "task.approval_details"}

NotesOf(t) == {i \in DOMAIN journal[t] :
                 journal[t][i].type \in Notes /\ journal[t][i].run = NoRun}

\* A note on the task: an event, and no change of the task.  It writes no row
\* another command writes, so its transaction may overlap any number of them,
\* and it cites the version its snapshot had.
Note(t, type) ==
  /\ Room(t) /\ Cardinality(NotesOf(t)) < MaxNotes
  /\ Exists(t)
  /\ \E seen \in 1..task[t].version :
       journal' = [journal EXCEPT ![t] = Append(@, Event(type, NoRun, seen))]
  /\ UNCHANGED <<task, run, lastRun, ticks>>

RecordConfirmation(t) == Note(t, "task.confirmation")

RecordEvidenceReference(t) == Note(t, "task.evidence_reference")

\* An open gap about the task is an input that exists.
ResolveGap(t) == Note(t, "provenance.gap_resolved")

RequestOutcomeVerification(t) ==
  /\ Room(t)
  /\ Exists(t)
  /\ task' = [task EXCEPT ![t].verification = "pending", ![t].version = @ + 1]
  /\ Emit(t, "task.verification_requested", NoRun)
  /\ UNCHANGED <<run, lastRun, ticks>>

\* release_task(reason = "unblocked") asks for no token.
Unblock(t) ==
  /\ Room(t)
  /\ Nows # {}
  /\ task[t].state = "blocked"
  /\ Transition(t, "ready", "task.released", NoRun)
  /\ UNCHANGED <<run, lastRun, ticks>>

-----------------------------------------------------------------------------
(* Claiming                                                                *)

\* Created by the claim, with the id the sequence gives next.
NewRun(t, now, q) ==
  [task |-> t, outcome |-> "running", expires |-> now + LeaseLength(q)]

\* Mutant of Due: next_check_at is not looked at.
DueWheneverScheduled(t, now) == task[t].state \in {"ready", "scheduled"}

Due(t, now) ==
  \/ task[t].state = "ready"
  \/ /\ task[t].state = "scheduled"
     /\ task[t].nextCheck # Unset => task[t].nextCheck <= now

RunsOn(t) == {r \in RunIds : run[r].task = t /\ Running(r)}

\* Nobody holds the task.
ClaimFree(t, now, q) ==
  /\ lastRun < MaxRuns /\ now \in Nows
  /\ RunsOn(t) = {}
  /\ Due(t, now)
  /\ lastRun' = lastRun + 1
  /\ run' = [run EXCEPT ![lastRun'] = NewRun(t, now, q)]
  /\ task' = [task EXCEPT ![t].state = "claimed", ![t].version = @ + 1,
                          ![t].active = lastRun']
  /\ Emit(t, "task.claimed", lastRun')
  /\ UNCHANGED ticks

\* Mutant of ClaimOverExpired: the expired run is replaced but left running.
ClaimLeavingOldRunning(t, old, now, q) ==
  /\ lastRun < MaxRuns /\ now \in Nows
  /\ old \in RunsOn(t)
  /\ ~LeaseValid(old, now)
  /\ lastRun' = lastRun + 1
  /\ run' = [run EXCEPT ![lastRun'] = NewRun(t, now, q)]
  /\ task' = [task EXCEPT ![t].state = "claimed", ![t].version = @ + 1,
                          ![t].active = lastRun']
  /\ Emit(t, "task.claimed", lastRun')
  /\ UNCHANGED ticks

\* A run whose lease is over is failed first; that puts the task in ready
\* whatever its state was, so the claim then goes through.
ClaimOverExpired(t, old, now, q) ==
  /\ lastRun < MaxRuns /\ now \in Nows
  /\ old \in RunsOn(t)
  /\ ~LeaseValid(old, now)
  /\ lastRun' = lastRun + 1
  /\ run' = [run EXCEPT ![old].outcome = "failed",
                        ![lastRun'] = NewRun(t, now, q)]
  /\ task' = [task EXCEPT ![t].state = "claimed", ![t].version = @ + 2,
                          ![t].active = lastRun']
  /\ journal' = [journal EXCEPT ![t] =
       Append(Append(@, Event("task.lease_expired", old, task[t].version + 1)),
              Event("task.claimed", lastRun', task[t].version + 2))]
  /\ UNCHANGED ticks

-----------------------------------------------------------------------------
(* Commands under a lease                                                  *)

Heartbeat(t, r, now, q) ==
  /\ HoldsLease(t, r, now)
  /\ run' = [run EXCEPT ![r].expires = now + LeaseLength(q)]
  /\ UNCHANGED <<task, lastRun, journal, ticks>>

RecordProgress(t, r, now) ==
  /\ Room(t)
  /\ HoldsLease(t, r, now)
  /\ task[t].state \in {"claimed", "running", "waiting_response"}
  /\ Transition(t, "running", "task.progress", r)
  /\ UNCHANGED <<run, lastRun, ticks>>

RecordWaitingResponse(t, r, now) ==
  /\ Room(t)
  /\ HoldsLease(t, r, now)
  /\ task[t].state \in {"claimed", "running"}
  /\ Transition(t, "waiting_response", "task.waiting_response", r)
  /\ UNCHANGED <<run, lastRun, ticks>>

\* No condition on the state, and no command resolves the approval.
RequestApproval(t, r, now) ==
  /\ Room(t)
  /\ HoldsLease(t, r, now)
  /\ task' = [task EXCEPT ![t].state = "waiting_approval", ![t].version = @ + 1]
  /\ journal' = [journal EXCEPT ![t] =
       Append(Append(@, Event("task.approval_requested", r, task[t].version + 1)),
              Event("task.approval_details", r, task[t].version + 1))]
  /\ UNCHANGED <<run, lastRun, ticks>>

\* record_escalation and record_followup change their own counter, which no
\* guard reads, and the version.
Annotate(t, r, now, type) ==
  /\ Room(t)
  /\ HoldsLease(t, r, now)
  /\ task' = [task EXCEPT ![t].version = @ + 1]
  /\ Emit(t, type, r)
  /\ UNCHANGED <<run, lastRun, ticks>>

RecordEscalation(t, r, now) == Annotate(t, r, now, "task.escalated")

RecordFollowup(t, r, now) == Annotate(t, r, now, "task.followup")

ScheduleNextCheck(t, r, now, next) ==
  /\ Room(t)
  /\ HoldsLease(t, r, now)
  /\ run' = [run EXCEPT ![r].outcome = "released"]
  /\ task' = [task EXCEPT ![t] = [Freed(@, "scheduled") EXCEPT !.nextCheck = next]]
  /\ Emit(t, "task.scheduled", r)
  /\ UNCHANGED <<lastRun, ticks>>

BlockTask(t, r, now) ==
  /\ Room(t)
  /\ HoldsLease(t, r, now)
  /\ EndRun(t, r, "released", "blocked", "task.blocked")
  /\ UNCHANGED <<lastRun, ticks>>

\* On a blocked task the same command is Unblock.
ReleaseTask(t, r, now) ==
  /\ Room(t)
  /\ task[t].state # "blocked"
  /\ HoldsLease(t, r, now)
  /\ EndRun(t, r, "released", "ready", "task.released")
  /\ UNCHANGED <<lastRun, ticks>>

RunOutcomes == {"done", "failed", "needs_review"}

\* Mutant of FinalState: the outcome is written as the state.
FinalStateIsOutcome == [done |-> "done", failed |-> "failed", needs_review |-> "needs_review"]

FinalState == [done |-> "completed", failed |-> "failed", needs_review |-> "review"]

CompletionEvent == [done |-> "task.run_completed", failed |-> "task.run_failed",
                    needs_review |-> "task.run_completed"]

\* withEvidence: evidence_refs was sent; "done" may need it (completion_criteria),
\* which restricts the callers, not the reachable states.
CompleteRun(t, r, now, outcome, withEvidence) ==
  /\ Room(t)
  /\ HoldsLease(t, r, now)
  /\ run' = [run EXCEPT ![r].outcome = outcome]
  /\ task' = [task EXCEPT ![t] = Freed(@, FinalState[outcome])]
  /\ LET closed == Append(journal[t],
                          Event(CompletionEvent[outcome], r, task[t].version + 1))
         cited  == Append(closed,
                          Event("task.evidence_reference", r, task[t].version + 1))
     IN journal' = [journal EXCEPT ![t] = IF withEvidence THEN cited ELSE closed]
  /\ UNCHANGED <<lastRun, ticks>>

-----------------------------------------------------------------------------
(* The watchdog                                                            *)

ExpiredOn(t, now) == {r \in RunIds : run[r].task = t /\ Expired(r, now)}

\* One transaction fails every expired run.  A task has at most one running
\* run (ExclusiveOwner), so the order of the loop does not matter.
ReclaimExpired(now) ==
  /\ now \in Nows
  /\ \E r \in RunIds : Expired(r, now)
  /\ run' = [r \in RunIds |->
       IF Expired(r, now) THEN [run[r] EXCEPT !.outcome = "failed"] ELSE run[r]]
  /\ task' = [t \in Tasks |->
       IF ExpiredOn(t, now) = {} THEN task[t] ELSE Freed(task[t], "ready")]
  /\ journal' = [t \in Tasks |->
       IF ExpiredOn(t, now) = {} THEN journal[t]
       ELSE Append(journal[t], Event("task.lease_expired",
                     CHOOSE r \in ExpiredOn(t, now) : TRUE, task[t].version + 1))]
  /\ UNCHANGED <<lastRun, ticks>>

-----------------------------------------------------------------------------
LeaseCommand(t, r, now) ==
  \/ \E q \in LeaseRequests : Heartbeat(t, r, now, q)
  \/ RecordProgress(t, r, now)
  \/ RecordWaitingResponse(t, r, now)
  \/ RequestApproval(t, r, now)
  \/ RecordEscalation(t, r, now)
  \/ RecordFollowup(t, r, now)
  \/ \E next \in Times : ScheduleNextCheck(t, r, now, next)
  \/ BlockTask(t, r, now)
  \/ ReleaseTask(t, r, now)
  \/ \E outcome \in RunOutcomes, withEvidence \in BOOLEAN :
       CompleteRun(t, r, now, outcome, withEvidence)

FreeCommand(t) ==
  \/ MarkManaged(t)
  \/ ProposeTask(t)
  \/ RecordConfirmation(t)
  \/ RecordEvidenceReference(t)
  \/ ResolveGap(t)
  \/ RequestOutcomeVerification(t)
  \/ Unblock(t)

Claim(t) ==
  \E now \in Times, q \in LeaseRequests :
    \/ ClaimFree(t, now, q)
    \/ \E old \in RunIds : ClaimOverExpired(t, old, now, q)

Next ==
  \/ \E now \in Times \ ticks : RegisterTick(now)
  \/ \E t \in Tasks : FreeCommand(t) \/ Claim(t)
  \/ \E t \in Tasks, r \in RunIds, now \in Nows : LeaseCommand(t, r, now)
  \/ \E now \in Times : ReclaimExpired(now)

Spec == Init /\ [][Next]_vars

\* The harness goes on registering ticks and the watchdog is called with each
\* of them; no runtime is obliged to do anything, so a crashed one is covered.
Fairness ==
  /\ \A now \in Times : WF_vars(RegisterTick(now))
  /\ \A now \in Times : WF_vars(ReclaimExpired(now))

FairSpec == Spec /\ Fairness

-----------------------------------------------------------------------------
(* Properties                                                              *)

TaskRecords ==
  [state : States, version : Nat, active : 0..MaxRuns,
   nextCheck : Times \cup {Unset}, verification : {"not_started", "pending"}]

RunRecords == [task : Tasks \cup {Unset}, outcome : Outcomes, expires : Int]

EventRecords == [type : EventTypes, run : 0..MaxRuns, version : Nat]

\* The type invariant of the orchestration tables.
TypeOK ==
  /\ task \in [Tasks -> TaskRecords]
  /\ run \in [RunIds -> RunRecords]
  /\ lastRun \in 0..MaxRuns
  /\ journal \in [Tasks -> Seq(EventRecords)]
  /\ ticks \subseteq Times

\* A task never has two runs in execution, whichever claims, expiries and
\* watchdog calls interleave and whatever clock reading each of them presents.
ExclusiveOwner ==
  \A r1, r2 \in RunIds :
    Running(r1) /\ Running(r2) /\ run[r1].task = run[r2].task => r1 = r2

\* The three records of who works on a task agree: a run in execution, the
\* task's active_run_id and a held state come and go together.  A task left
\* held by nobody would never be due and never be reclaimed.
OwnershipAgrees ==
  /\ \A r \in RunIds : Running(r) =>
       /\ run[r].task \in Tasks
       /\ task[run[r].task].active = r
  /\ \A t \in Tasks : task[t].active # NoRun =>
       /\ Running(task[t].active)
       /\ run[task[t].active].task = t
  /\ \A t \in Tasks : task[t].state \in Held <=> task[t].active # NoRun

\* What a transition event says of the state it leads to.
Explains ==
  {<<"task.ready", "ready">>, <<"task.claimed", "claimed">>,
   <<"task.progress", "running">>, <<"task.waiting_response", "waiting_response">>,
   <<"task.approval_requested", "waiting_approval">>,
   <<"task.scheduled", "scheduled">>, <<"task.blocked", "blocked">>,
   <<"task.released", "ready">>, <<"task.lease_expired", "ready">>,
   <<"task.run_completed", "completed">>, <<"task.run_completed", "review">>,
   <<"task.run_failed", "failed">>}

TransitionTypes == {p[1] : p \in Explains}

\* The positions in a journal of the events that lead to a state, and of those
\* that stand for a new version of the task.
Transitions(j) == {i \in DOMAIN j : j[i].type \in TransitionTypes}

Moves(j) == {i \in DOMAIN j : j[i].type \notin Notes}

\* Run ids fence the changes of a task: once a run has changed it, no earlier
\* run does.  A result that arrives after its owner was replaced has no effect.
\* A note is free to name an earlier run: docs/pmorg-v2/07-CONTRACTS.md:141-143
\* wants a late result recorded as an event, which would be one.
FencedJournal ==
  \A t \in Tasks : \A i, k \in Moves(journal[t]) :
    i <= k /\ journal[t][i].run # NoRun /\ journal[t][k].run # NoRun
      => journal[t][i].run <= journal[t][k].run

\* The last transition of a journal explains a state, and only a task that no
\* command moved has none.
ExplainsState(j, state) ==
  /\ \A i \in Transitions(j) :
       (\A k \in Transitions(j) : k <= i) => <<j[i].type, state>> \in Explains
  /\ Transitions(j) = {} => state \in {"absent", "not_managed"}

\* The moves of a journal announce the versions of a task: in order, each at
\* most once, and none left out but the first, which a task may be born with.
\* A note cites no version that the events before it did not announce.
AnnouncesVersions(j, version) ==
  /\ version >= 1
  /\ \A i \in DOMAIN j : j[i].version \in 1..version
  /\ \A i, k \in Moves(j) : i < k => j[i].version < j[k].version
  /\ \A v \in 2..version : \E k \in Moves(j) : j[k].version = v
  /\ \A i \in DOMAIN j : j[i].version > 1 =>
       \E k \in Moves(j) : k <= i /\ j[k].version = j[i].version

VersionsAnnounced == \A t \in Tasks : AnnouncesVersions(journal[t], task[t].version)

\* A consumer that only reads events knows the task: the last transition event
\* gives its state, the last event but for notes its version, and versions have
\* no gap, so a change that wrote no event, or an event that missed its version,
\* shows.
JournalReplays ==
  VersionsAnnounced /\ \A t \in Tasks : ExplainsState(journal[t], task[t].state)

\* The trusted clock bounds every lease: a running run's lease ends at most
\* MaxLease after some registered tick, so no holder can grant itself more.
LeaseHorizon ==
  \A r \in RunIds : Running(r) => \E now \in Nows : run[r].expires <= now + MaxLease

Ended(r) == run[r].outcome \notin {"unborn", "running"}

\* A run that ended is never written again: late heartbeats, late results and
\* a second watchdog pass change nothing of it.
EndedRunsFrozen == [][\A r \in RunIds : Ended(r) => run'[r] = run[r]]_vars

\* Nothing in the command surface takes a task out of completed or failed, and
\* one in review can only be completed (docs/pmorg-v2/07-CONTRACTS.md:116): an
\* expiry noticed late does not reopen what was closed.
TerminalIsFinal ==
  [][\A t \in Tasks :
       task[t].state \in Terminal /\ task'[t].state # task[t].state
         => task[t].state = "review" /\ task'[t].state = "completed"]_vars

\* A scheduled task stays scheduled until the trusted clock reached its next
\* check: neither a claim nor the expiry of the run that scheduled it wakes it.
NoEarlyWake ==
  [][\A t \in Tasks :
       task[t].state = "scheduled" /\ task'[t].state # "scheduled"
         => \E now \in Nows : task[t].nextCheck <= now]_vars

\* A lease that ends inside the life of the clock is not leaked: its run is
\* ended or its lease renewed, even if its holder crashed and never calls again.
LeaseNeverLeaks ==
  \A r \in RunIds, e \in Times :
    (Running(r) /\ run[r].expires = e /\ \E now \in Times : e < now)
      ~> (Ended(r) \/ run[r].expires # e)

-----------------------------------------------------------------------------
(* The promise the commands implement                                      *)

RunTagged(t) == {i \in DOMAIN journal[t] : journal[t][i].run # NoRun}

LastWriter(t) ==
  IF RunTagged(t) = {} THEN NoRun
  ELSE journal[t][CHOOSE i \in RunTagged(t) : \A k \in RunTagged(t) : k <= i].run

Promise == INSTANCE TaskLease WITH
  holds  <- {<<run[r].task, r>> : r \in {q \in RunIds : Running(q)}},
  grants <- lastRun,
  writer <- [t \in Tasks |-> LastWriter(t)]

\* Every command is a grant, a write of the present holder, its return, a
\* revocation by the watchdog, or no step of the promise at all.
ImplementsTaskLease == Promise!Spec

=============================================================================
