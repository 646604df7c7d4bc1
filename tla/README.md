# Verification of PMORG in TLA+

PMORG keeps the work of an organisation in Odoo, lets artificial runtimes do
parts of it under leases, and files what people say and promise in a memory
anchored to Odoo records. This directory holds models of the parts of the
repository where several actors, lost answers, crashes and retries meet, the
TLC runs that check them, and the theorems that TLAPS proves about them. Paths
below are relative to the root of the repository.

## 1. The system

| Component | State it keeps | Operations | Talks to |
|---|---|---|---|
| Orchestrator commands (`odoo_addons/pmorg_core/models/pmorg_orchestrator_api.py`, `pmorg_orchestration.py`, `project_task.py`) | orchestration fields of `project.task`, `pmorg.task.run`, journal `pmorg.task.event` | claim, heartbeat, progress, wait, approve, schedule, block, release, complete, propose, notes, watchdog `reclaim_expired` | runtimes (commands), consumers (events), people (task form) |
| Trusted clock (`pmorg_clock.py`) | `pmorg.clock.tick` | `register_tick`; every command resolves its `now` against it | the harness, all commands |
| Command dispatch (`_dispatch`) | `pmorg.command.inbox`, `pmorg.outbox.event` | idempotent execution, replay, `list_outbox` | clients that retry, outbox consumers |
| Receipts (`aipm/engine/receipts.py`) | `memory_receipt`, `receipt_attempts`, `trust` | `post_receipt`, retry of pending ones, review, resolve, retract | Odoo chatter (`message_post`), ingest cycle |
| Memory service (`memory/pmorg_memory_server.py`, twin `aipm/mcp_adapter.py`) | `evidence`, `claim`, `outcome` | capture, propose, validate, supersede, recall, timeline | agents over HTTP or MCP |
| Ingest (`aipm/engine/pipeline.py`, `aipm/ingest/*`) | `ingest_log`, `ingest_cursor`, `memory_item`, `memory_anchor` | poll cycle, message ingest, gateway and chat sources, replay, backfill | Odoo, language model, receipts |
| Admin requests (`components/hermes-ops-mcp/server.py`, `components/cc-bridge/cc-mirror-shim`) | one file per request | file, show on the owner's page, confirm or deny, execute | the PM agent, the owner |
| Provenance (`pmorg_provenance.py`, `runner/detector_d1.py`) | `pmorg.provenance.gap` | list material changes, recall, record a gap, resolve it | detectors, memory service, people |
| E-mail channel (`channels/email/imap_bridge.py`) | threads in memory, evidence and claims in the memory service | a run over the mailbox | mailbox, language model, memory service |
| Extraction and resolution (`aipm/engine/extraction.py`, `resolution.py`) | `memory_anchor` | normalise entities, find and score candidates | language model, Odoo, ingest |
| Recall (`aipm/engine/recall.py`) | turns of a session | answer a question | memory items, Odoo, language model |
| Reports and digest (`aipm/reports/*`) | `report_sent` | four reports, the digest made of them | memory items, Odoo, a scheduled script |
| Coding-session bridge (`components/cc-bridge/cc-bridge`), initiatives and criteria, anchors and identities, Odoo adapter, runner, evaluation kernel, web, packaging | tables of their own or none | single writes, transport, text | |

The properties that make each part correct, and what is hard about it:

- **Orchestrator.** Runtimes compete, die, and come back late with a token that
  was good once. Each call presents its own reading of the clock, and in tick
  mode *any* registered tick is accepted, old ones too. A task must have one
  run in execution; run table, `active_run_id` and state must agree after every
  command; an ended run stays ended; a closed task stays closed; a scheduled
  task sleeps until it is due; a consumer that reads only events must be able
  to follow; a dead holder must lose its task.
- **Dispatch.** The same key arrives twice, at once or after a lost answer.
  One effect per key, effect, event and inbox row together, and equal answers.
- **Receipts.** A post in the chatter cannot be rolled back, and its answer can
  be lost. Races, lost answers and crashes must not put a receipt on a record
  twice, a receipt must cite its own message, and a receipt that is retried
  must settle.
- **Memory service.** Requests overlap at READ COMMITTED: checks are made on
  what a `SELECT` saw, the `UPDATE` comes later and names the row by id.
  Evidence must be stored once; validation must be authorised and independent.
- **Ingest.** Whether a source was ingested is read long before it is
  recorded, with calls of a model between. The poller holds a lock, the gateway
  and the chat do not. A replay retracts and ingests again; a failure may leave
  a message half done; the cursor must not pass what was not decided, and a
  message whose extraction always fails must not hold it for ever.
- **Admin requests.** Files without locks, a page that stays open, threads that
  decide at once, a process that stops between execution and save. Nothing may
  run that the owner was not shown and did not confirm by name.
- **Provenance.** Detectors overlap and are late; a question that a person
  answered must stay answered.
- **E-mail channel.** A refused mail must not reach the model as context of a
  later one, nor after a run that died and started over.
- **Extraction and resolution.** A model answers anything; the anchors made of
  it must pass the constraints of the table, or the item is lost.
- **Recall.** Odoo changes while a question is answered; a fact must cite what
  Odoo held during the question, never an earlier turn or an invention.
- **Digest.** The script gives up on a digest that goes on and marks; nothing
  may be delivered twice.

`PROJECT.json` lists the hazards, each at its line and with the properties
that would show it going wrong.

## 2. The modules

| Module | Models | Checked by | Proved in |
|---|---|---|---|
| `Orchestrator` | commands, runs, leases, journal, clock | `MCOrchestrator` | `OrchestratorProofs`, `OrchestratorJournalProofs` |
| `TaskLease` | what the orchestrator promises to runtimes, abstractly | as a property of `Orchestrator` | `OrchestratorJournalProofs` |
| `OrchestratorManual` | `Orchestrator` composed with people who edit the task form | `MCOrchestratorManual` | `OrchestratorProofs`, `OrchestratorJournalProofs` |
| `CommandDispatch` | overlapping transactions of `_dispatch`, the outbox consumer | `MCCommandDispatch` | `CommandDispatchProofs` |
| `AtomicCommands` | what the dispatch promises to callers, abstractly | as a property of `CommandDispatch` | `CommandDispatchProofs` |
| `Receipts` | `post_receipt` and its callers, the chatter | `MCReceipts` | `ReceiptsProofs` |
| `MemoryClaims` | capture, propose, validate, supersede | `MCMemoryClaims` | `MemoryClaimsProofs` |
| `MemoryAdapter` | the same contract in aipm, with anchors and outcomes | `MCOrganisation` | `MemoryAdapterProofs` |
| `Ingest` | log, cursor, items, replay, backfill, the sources | `MCIngest` | `IngestProofs` |
| `EmailBridge` | runs over a mailbox | `MCOrganisation` | `OrganisationProofs` |
| `Provenance` | detectors and gaps | `MCOrganisation` | `OrganisationProofs` |
| `AdminQueue` | admin requests, their page and execution | `MCOrganisation` | `OrganisationProofs` |
| `Digest` | reports and the digest | `MCOrganisation` | `OrganisationProofs` |
| `Anchoring` | entities of an item and their anchors | `MCOrganisation` | `OrganisationProofs` |
| `Recall` | questions to the memory | `MCOrganisation` | `OrganisationProofs` |
| `MCOrganisation` | the seven services before it, each alone | `MCOrganisation` | `OrganisationProofs` |

### Orchestrator

`task`, `run`, `journal` and `ticks` are the tables, reduced to the fields that
guards or properties read. There is one action per `_cmd_*` handler that
changes state; the parts of a handler (transition, event, end of the run) are
one step. A handler that refuses (`ApiError`) is rolled back by the savepoint
of `_dispatch` and is a stuttering step.

*Why a command may be atomic.* Every command that changes a task or its run
writes a row that the others write too (the task, or the run for a heartbeat),
and Odoo runs at REPEATABLE READ: of two overlapping ones the second fails and
is run again. The three notes (`record_confirmation`,
`record_evidence_reference`, `resolve_gap`) write no such row, so they do
overlap; `Note` therefore stamps its event with any version up to the present
one, which is what its snapshot may have held.

A run id stands for the run and for its token. Tokens are opaque and given only
to the claimer, so "a call with the token of r" is "a call by the holder, or the
former holder, of r". Times are small integers; the watchdog and every runtime
choose independently which reading they present.

`completion_criteria`, which may ask for evidence with `done`, restricts
callers and not the states reached: `CompleteRun` is allowed with and without
evidence. Envelope and parameter validation only refuses and is left out.

`OrchestratorManual` adds what the form (`views/project_task_views.xml`) lets a
user write without any command: `orchestration_state`, `active_run_id`, which is
plain text there, and `next_check_at`. `state_version` is shown read-only; the
other fields of the form are read by no guard of a command.

`ImplementsTaskLease` is the refinement: a run in execution is a grant,
`lastRun` the number of grants, and the last run named in the journal the last
writer. `TaskLease` says in four actions that a task has one holder, that
grants are numbered in order, and that only the present holder, or the watchdog
in its name, writes.

### CommandDispatch

A request takes a snapshot (`Begin`), finds its key in the inbox
(`ReplyFromInbox`) or runs the handler (`RunHandler`), which draws an outbox id
from a sequence, and commits effect, event and inbox row in one step
(`Commit`). A conflict on the task row makes Odoo run the whole request again
(`RetrySerialization`); a conflict on the UNIQUE key is a fault
(`FailUnique`) and the client sends again. A worker may die before the commit
(`Kill`), an answer may be lost after it (`CommitUnheard`). The handler is
`mark_managed`: it has an effect, an event and a refusal. The consumer calls
`list_outbox` with the last id it has seen.

`ImplementsAtomicCommands` is the refinement. `AtomicCommands` has no
transaction, snapshot or retry: a command waits, is executed completely at one
moment, under a key that was not used and with the outcome its place in the
order gives it, and is told that outcome, now or when it asks again. The moment
is the commit, which is the reason why the handler's older snapshot must do no
harm. What a handler other than `mark_managed` changes is one step in
`Orchestrator` on the strength of this.

### Receipts

A thread is at `fetch`, `post`, `insert` or `failed`; between these points
other threads run. The advisory lock of an item is held from `fetch` to the end
of its transaction. The claimed ids are read on entry and used later, as in
the code. `message_post` has four outcomes: it posts and answers, posts and the
answer is lost, does not post, or (constant `LateCalls`) is run by Odoo after
its caller gave up. A crash ends all threads and keeps tables and messages.
The ingest cycle is there as far as receipts see it: it starts
(`CycleStarts`) and either comes to its retry (`RetryPendingReceipts`, with
`ReceiptMode` "auto") or ends before (`CycleEndsEarly`): the poll failed, an
ingest raised, or the mode is "manual".

The search for an earlier post brings the first `SearchLimit` messages of the
service on the record (`Fetched`; 80 in the code), those of other receipts
included. The chatter of an instance is as old as its items, so the recency
bound of the search excludes nothing. `stray` records the messages that Odoo
wrote for calls it ran late, for `OnePostPerRecord`. The retry reads the 50
oldest pending items; the model reads all, since each one listed leaves the list
or spends an attempt.

A message is known by the first line of its text, so whether two items have
the same first line is a constant (`LineOf`).

### MemoryClaims

A request is a read and a later write. `ThreadingHTTPServer` runs requests in
threads and each is one READ COMMITTED transaction; an `UPDATE` on a row that
another transaction wrote waits and then goes ahead, so the writes on a row are
in the order of the commits and each write can be one step with its commit.
Evidence is never changed or deleted: a check of it holds for good, and
`ValidateWrite` makes it together with the `UPDATE`. Sending a capture for a
known external id writes nothing. `Rollback` covers refused requests, the
UNIQUE constraint, a lost connection and the end of the process.

### Ingest

`log`, `items` and `cursor` are `ingest_log`, the active and resolved rows of
`memory_item`, and `ingest_cursor`. A worker is the poller or a thread of the
gateway or the chat; its `phase` says which call it is in. `ingest_message` is
four actions, cut where other threads run: the read of the log (`ReadLog`), the
extraction (`ExtractTransient`, `ExtractNothing`, `ExtractItems`), and the one
transaction that writes items and log row (`WriteItems`), or fails before it
commits (`ResolutionFails`). The poller moves its cursor after each message
(`AdvanceCursor`), as `run_cycle` does, and ends its cycle with the backfill,
which reads rows, calls the embedding service and then updates by id. A cycle
starts with its poll (`StartCycle`), which seeds the cursor the first time, and
ends there when Odoo cannot be reached (`PollFails`). A replay
retracts and deletes the log row in one transaction (`Replay`) and ingests
afterwards. `Crash` ends all workers and frees the lock. Polls that fail,
failures after the extraction and crashes have no bound.

Ids of `mail.message` are drawn before their transaction commits, so a message
may `Appear` after a larger id did. Four variables record history for the
properties only: `seed` (the cursor at the start), `late` (messages that
appeared behind the cursor or a batch), `replayed` and `withdrawn`.

### MemoryAdapter

The actions are those of `MemoryClaims`, read and write apart, on the tables
`mem_*`; a claim also has anchors, which must be in the registry, and there are
outcomes. `Contract` is `MemoryClaims` with the anchors left out of each row
(`Bare`), and `ImplementsMemoryClaims` the refinement: the two services answer
one contract, and the adapter allows no more than the service.

### EmailBridge

`reading` is the mail a run is at, `stage` the step of `process`. `shown` is
what the model was given, `mailEvidence` and `mailClaims` what the memory
service received. `RunDies` may happen at any step; the next run starts at the
first mail with an empty thread table, and captures of a known Message-ID add
nothing. People get an identity in Odoo while runs go on (`MapSender`). A mail
stands for what `strip_reply_and_signature` leaves of its text: the patterns
know some forms of a quote, and a quote they miss travels with the mail.

### Provenance

`gap` is the table, `detector` each run of `detector_d1.py`: it lists once, then
asks the memory about each change and records a gap. Search and insert of that
command are two actions, for the command of another detector may commit between
them; the UNIQUE constraint makes the second insert fail.

### AdminQueue

`queue` is the directory of files. `AdminRequest` names a file after the number
of files. `OpensPage` adds what it shows to `seen`; `Decides`, `Executes` and
`Saves` are a thread that handles the form, with nothing locked.
`ExecutionRaises` ends one thread with an exception, which leaves the request
pending whatever had run, and `ShimStops` loses all threads. The PM has one
server (as the README of `hermes-ops-mcp` installs it), so counting the files
and writing the next is one step; two servers could draw one id. `ran` records what ran, under which id and what was typed.

### Digest

A digest reads what was sent, then each of the four reports in a transaction of
its own, marks, and answers. Memory and Odoo change between the reads. The
script prints one digest at a time and gives up after a minute; the digest it
gave up on goes on and may mark.

### Anchoring

One item from the entities the model names to the rows of `memory_anchor`.
`Normalised` is the code's clean-up of roles and hints, `Outcomes` what the
search and the scores may lead to, `TablesAccept` the triggers and indexes of
`0001_init.sql`. What the model answers and what Odoo finds is arbitrary.

### Recall

A question names records, merges two searches by quotas (`Merged`), reads the
records live, and keeps of an arbitrary narration what `_postvalidate_claims`
keeps. A list that a search gives back is kept as the place of each item in it,
which is all that the quotas look at; `Rankings` are the lists there can be. The
result may exceed `TopK`, for the quota of the structured search is a setting
of its own (`aipm/config.py` does not relate the two). `live` is Odoo, which changes at any time; `during` records every value
a record had since the question began, for the property.

### MCOrganisation

The seven services above, from `MemoryAdapter` to `Recall`, share no variable:
each keeps its own tables, and what it takes from another part is an arbitrary
input of its model. Their product would multiply states and show nothing more,
so the initial state picks one `service` and only that one moves. Each module
has its own `Next` and, for the theorems, its own specification.

## 3. What is checked

| Run | Instance | Question |
|---|---|---|
| `OrchestratorOne` | 1 task, 3 runs, ticks 0..2, leases of 1 and 2 units, journal of 5 events, 1 note | The safety of the command surface |
| `OrchestratorTwo` | 2 tasks, 2 runs, leases of 1 and -1 units, journals of 3 events, no notes, fairness | Refinement of `TaskLease`; expired leases end |
| `OrchestratorManual` | 1 task, 2 runs, clock of the client, journal of 2 events, no notes | Exclusion survives manual edits |
| `CommandDispatch` | 3 clients, 2 keys, 2 tasks, 1 loss, 6 ids, fairness | Idempotency, transactional outbox, answers; refinement of `AtomicCommands` |
| `CommandDispatchAtLeastOnce` | the same idea, smaller | violation, see section 6 |
| `Receipts` | 2 items, 2 records, button against retry, 1 crash, 3 posts, search of 1 message | One post per record within the search, backed receipts |
| `ReceiptsLate` | 1 item, 3 threads, late calls, 3 posts, search of 1 message, fairness | Second posts, backed receipts and settling with late calls |
| `ReceiptsMessageSustainsOneReceipt` | 2 items with one first line | violation, see section 6 |
| `MemoryClaims` | 2 people (one a validator), 2 external ids, 2 contents, 2 requests, 2 claims | Evidence, validation and statuses under races |
| `MemoryClaimsSupersededIsHypothesis` | the same | violation, see section 6 |
| `Ingest` | 2 messages, 1 gateway source with 1 thread, 1 content, 2 attempts, batches of 2, 1 replay, 2 items, any failures, fairness | Ingest once, cursor, replay, settling |
| `Organisation` | the seven services, each alone (bounds below) | What a service takes in, decides or answers is backed by what was read, shown or accepted |

What the properties say:

- `OwnershipAgrees`: one run in execution per task, and the three records of it
  (run, `active_run_id`, state) agree. A held task without a run would be
  neither due nor reclaimable. People who edit the state break this part;
  `ExclusiveOwner`, which it implies, is what must survive them and is checked
  there.
- `FencedJournal`: after a change by run *n* there is none by an earlier run. It
  is about effects; an event that changes nothing may name any run.
- `JournalReplays`: a consumer can follow a task by its events alone. The last
  transition names the state the task is in; every version from the second on
  is announced by one event, in order and with none missing; notes are left out
  of the numbering for the reason above, and never cite a version that was not
  announced before them.
- `LeaseHorizon`: no lease goes further than the cap beyond a registered tick.
- `EndedRunsFrozen`, `NoEarlyWake`: what no step may do.
- `TerminalIsFinal`: completed and failed are never left, and review only for
  completed.
- `LeaseNeverLeaks`: a lease that the clock outlives is ended or renewed.
- `EffectOnce`, `OutboxIsTransactional`, `AnswersAgree`,
  `EveryCommandAnswered`: see the comments in `CommandDispatch`.
- `ImplementsAtomicCommands`: commands might as well run one after another.
- `OnePostPerRecord`: a record shows an item twice in two cases only, both
  outside what the code can see: the first post lies behind the messages that
  the search brings, or Odoo ran the call of one of the two after its caller
  gave up. It holds for any race, lost answer, crash or reassignment.
- `ReceiptIsBacked`: an item has one receipt at most, and it cites a message of
  its own.
- `PendingSettles`: as long as cycles come to their retry again and again, no
  item waits for its receipt for ever.
- `EvidenceIdentity`, `IndependentValidation`, `StatusIsBacked`: see
  `MemoryClaims`.
- `ChatterIngestedOnce`: a message leaves the items of one ingest at most, and
  its log row says so, across replays, retries, crashes and the backfill.
- `CursorPassesSettled`: the cursor passes a message the poll could see only
  when its ingest was decided. Messages that appeared late are excepted: the
  code never ingests them, which is a hazard of its own.
- `WithdrawnIsUnsettled`: a replay that fails halfway leaves the message
  visibly unsettled, so that it can be repeated.
- `ExtractionFailuresSettle`: unless cycles are interrupted for ever, every
  message of the chatter that the polls can see is settled, even if every call
  of the extraction model fails.
- `QuarantineHolds`: no private mail and no mail of an unknown sender is shown
  to the model or becomes a claim, and no private one becomes evidence. It does
  not speak of evidence of unknown senders (section 6).
- `RanAsConfirmed`, `AnnouncedOnce`, `AnchorsAccepted`,
  `GroundedAnswers`, `AnsweredGapsStay`: as stated at the end of each module;
  the hazards of section 1, one each.
- `ImplementsMemoryClaims`: the refinement of section 2.

**Bounds.** `MaxEvents` is the length up to which commands are issued; claims
over an expired lease and the watchdog are not held back by it, so that no run
becomes impossible to reclaim because of the bound. Five events are the
shortest history in which a late result could follow the claim of a new owner
(ready, claimed, expired, claimed, late result). Three ticks let a lease be
valid, end exactly at the present, and be over. `MaxNotes` bounds notes, which
change nothing that a guard reads. Three clients on two keys have two senders
of one key race a third; six ids leave room for every draw that a loss and the
retries can waste. Three posts are two receipts and one duplicate. A search of
one message puts its limit within reach of three posts: an orphan behind the
receipt of another item, or behind an older orphan, is not found. Without the
first exception of `OnePostPerRecord` the run fails, and with late calls it
fails without the second. Two requests
at a time are enough for each race of the memory service, since a request
touches one row. Two claims allow supersession in both directions.

Two messages let one appear late, be replayed, or hold the cursor before the
other; a failure after the extraction, or of a poll, may hit any cycle and as
often as it likes. Two attempts are one
under the cap and one at it. Five mails have a thread of three with a private
mail, one of two senders, and a window shorter than the thread. Four changes
are more than the limit of the list (3) and include two fields of one record, a
field no rule names and a record no detector can anchor. Two requests and two
pages let a page outlive a request and two decisions meet. One edit
(`MaxEdits`) is enough for a report to change between two reads or two digests,
and two deliveries for an element to be delivered twice. Two entities are the
fewest that can break an index on subjects; the scores are below
both thresholds, at the lower one and at the higher one. Three items, two on one record, exceed `TopK`; one
turn and one change let a value be older than the question.

Deadlock is checked where the system never stops (`Receipts`, `ReceiptsLate`,
`Ingest`).
The other instances do stop: journals and tables reach their bounds, and in
`CommandDispatch` every client has its answer.

**Symmetry** is used in the safety runs `Receipts` and `MemoryClaims` only,
where the permuted sets occur in no constant that tells their members apart.

**Fairness.**

- `Orchestrator!Fairness`: the harness registers ticks (`runner/`) and the
  watchdog is called with each. Nothing is assumed of runtimes, so a holder
  that crashed is one of the behaviours.
- `CommandDispatch!FairSpec`: the server goes on with a request it has, and a
  client sends again while it has no answer, which is what the idempotency key
  is for. Losses are finite (`MaxLosses`).
- `Receipts!FairSpec`: the loop starts a cycle after the other
  (`CycleStarts`), a cycle comes to its retry or ends before, and threads go
  on. That cycles do come to their retry is no fairness of the code: it takes
  `RECEIPT_MODE=auto` (the default is manual, `aipm/config.py:68`), a poll that
  succeeds (`chatter_poller.py:78-80`) and ingests that do not raise. It is the
  premise of `PendingSettles`, where it can be read. Whether Odoo ever answers
  a post is left open: attempts are what makes a receipt settle.
- `Ingest!FairSpec`: the ingest loop starts a cycle after the other whatever
  the last one raised (weak fairness of `Cycle`, of which a poll that fails is a
  part), and the calls of the poller answer or time out (`Ingest(Poller)`).
  Nothing is assumed of the gateway, the chat, or of messages becoming visible.
  Failures of the extraction may go on for ever, since they are counted. What
  ends a cycle and is counted by nobody (`Interrupted`: a crash, a poll that
  fails, a failure after the extraction) may happen any number of times;
  `ExtractionFailuresSettle` says in its premise that it does not happen for
  ever, for nothing is settled otherwise (section 6).
- The seven services have no fairness: no text promises that they end.
- `MemoryClaims` has no fairness: nothing is promised about requests ending.

## 4. What is proved

For all values of the constants, under the named assumptions of the modules:

| Theorem | Says |
|---|---|
| `TypeCorrect`, `DispatchTypeCorrect`, `ReceiptsTypeCorrect`, `MemoryTypeCorrect`, `IngestTypeCorrect`, `OrganisationTypeCorrect` | `TypeOK` of `Orchestrator`, `CommandDispatch`, `Receipts`, `MemoryClaims`, `Ingest`; `OrganisationTypeOK` |
| `OwnershipCorrect`, `ExclusiveOwnerCorrect` | `OwnershipAgrees` and `ExclusiveOwner` |
| `EndedRunsFrozenCorrect`, `TerminalIsFinalCorrect`, `NoEarlyWakeCorrect` | the three action properties of `Orchestrator` |
| `FencedJournalCorrect`, `LeaseHorizonCorrect` | the order of the journal, the length of leases |
| `JournalReplaysCorrect` | a task can be followed by its events alone |
| `OrchestratorImplementsTaskLease` | the refinement of `TaskLease` |
| `TypeCorrectManual`, `ExclusiveOwnerManual`, `EndedRunsFrozenManual`, `FencedJournalManual`, `LeaseHorizonManual`, `VersionsAnnouncedManual`, `ManualImplementsTaskLease` | the same of `OrchestratorManual`, where people edit tasks between the commands |
| `EffectOnceCorrect`, `OutboxIsTransactionalCorrect`, `AnswersAgreeCorrect` | of `CommandDispatch` |
| `DispatchImplementsAtomicCommands` | the refinement of `AtomicCommands` |
| `PatientReaderMissesNothing` | `DeliveredAtLeastOnce`, for consumers that never read past an id in flight |
| `ReceiptIsBackedCorrect`, `OnePostPerRecordCorrect`, `MessageSustainsOneReceiptCorrect` | of `Receipts`, if no two items share a first line |
| `EvidenceIdentityCorrect`, `IndependentValidationCorrect`, `StatusIsBackedCorrect` | of `MemoryClaims` |
| `SupersededIsHypothesisWithoutRace` | `SupersededIsHypothesis`, if no claim is validated and superseded at once |
| `ChatterIngestedOnceCorrect`, `CursorPassesSettledCorrect`, `WithdrawnIsUnsettledCorrect` | the safety of `Ingest` |
| `AdapterImplementsContract` | the refinement of `MemoryClaims` by `MemoryAdapter` |
| `QuarantineCorrect`, `AnsweredGapsStayCorrect`, `RanAsConfirmedCorrect`, `AnnouncedOnceCorrect`, `AnchorsAcceptedCorrect`, `GroundedAnswersCorrect` | one of each of the other services |

Three of them are about the properties that section 6 shows violated. Each says
under which condition the property holds after all, and so that nothing but the
lack of it does the harm: `MessageSustainsOneReceiptCorrect`,
`SupersededIsHypothesisWithoutRace` and `PatientReaderMissesNothing`. The code
sees to none of the conditions; they are what a repair would have to establish
(lines that carry the id of the item, a lock on the row from the read on, a
reader that stops before the smallest id in flight).

*Orchestrator, ownership.* `ExclusiveOwner` is not inductive: ids decide which
run a claim creates, and a run on a task that does not exist yet would survive
its creation. The invariant `Owned` adds `Allocated`, that ids up to `lastRun`,
and no others, were given out, so the new run of a claim is different from every
run there is; and `OneOwner`, that a run in execution is on a task that exists
and is the only one there. `Ownership` is `Owned` and `FieldsAgree`: the two
fields that say who works on a task, `active_run_id` and the state, say what the
run table says. A terminal state is not a held one, so no run in execution names
a terminal task, and neither the watchdog nor a lease command can touch it.

*Orchestrator, manual edits.* A person may write any state and any run into a
task, so `FieldsAgree` is lost, and with it `OwnershipAgrees`. `Owned` reads
neither field and is inductive with the edits. The proofs of exclusion, fencing,
lease length and refinement use no more than `Owned`, so they are made once for
`MSpec`; `Spec` is the case without edits (`CommandsAlone`). They also show
that no command trusts `active_run_id`: whose lease is valid is decided by the
run table alone.

*Orchestrator, replay.* `JournalReplays` speaks of the whole journal, and a
consumer has no other: so the proof follows what one step adds to it. Each
command, and the watchdog on each task, either leaves a task and its journal as
they were, or tells a tale of one or two events (`Tale`, `Told`): a transition
moves the state and takes the next version, an annotation takes the next
version, a note takes none. `VersionsInv` keeps the numbering without gaps with
every tale and does not look at states, so it holds with manual edits as well;
`StatesInv`, that the last transition names the state, is kept by every tale
and by no edit, so it is proved for commands alone. The property is stated
without a recursive fold over the journal, by positions, for that reason.

*Orchestrator, journal and refinement.* Each command is shown to be of one of
five kinds: it leaves journal and owners alone or writes an event of nobody
(`Quiet`), works under the lease (`Works`), ends its run (`Ends`), grants the
task (`Grants`), or is the watchdog. The kinds carry both arguments.
`FencedJournal` is not inductive, for a later event must not name a run earlier
than one already written: `FenceInv` says it of every event, as the code writes
no late ones, and adds a ceiling, that no event names a run
above the running one or, without one, above those given out, and a claim raises
it. For the refinement each kind is one action of `TaskLease` or a stutter; the
last writer is computed from the journal, and a lemma says what one more event
does to it. `NoEarlyWake` needs `Booked`: a scheduled task has a next check.

*Dispatch.* `DispatchInv == TypeOK /\ OutboxIsTransactional /\ EffectOnce /\
IdsFresh`. A commit needs its key and its task untouched and writes all three
tables; `IdsFresh` says that an id held by an open transaction is in no event
and in no other transaction, for ids are drawn once. `AnswersInv` adds that
what a transaction found in the inbox is still there: rows are never written
again.

*Dispatch, refinement.* A commit is the execution of its command, every other
step but a reply and a poll a stutter. The handler ran on an older snapshot, so
its outcome has to be the one a run at the moment of the commit would have:
`SerialInv` says that a snapshot knows no effect that is not there (effects are
never undone, so a refusal is still right) and that who commits was not answered
before; for a success, the conflict on the row is what excludes an effect made
since. A reply is right by `AnswersInv`.

*Dispatch, delivery.* `CursorInv` says that an id in flight is above the cursor.
A new id is above all others, so only a poll can break it, and a poll that
breaks it is one that passes an id in flight.

*Receipts.* `ReceiptsInv == TypeOK /\ RoomInv /\ Backed /\ LockInv`. The lock
does the work: at most one thread is past `fetch` on an item, it found no
receipt after it had the lock, and nobody else inserted one since; a thread that
is about to insert has the message of its item in hand. That needs
`LinesDistinct`: no two items share the first line of their receipts, without
which section 6 shows a violation: a receipt then cites a message of its own
item, so no two items can share one. `RoomInv` keeps room in the bounded chatter
for calls that Odoo runs late. `OnePostPerRecord` says what a thread could have
found: `PostInv` adds that a thread about to post found none of its item among
the messages the search brings of the record, and that what came since came late
(`stray`); whether a message is within the limit never changes, for messages are
only appended (`FetchedForGood`). So a second post has the first one out of
reach, or one of the two is late, for any `SearchLimit` and with late calls as
well. The hypothesis is in the statements of the theorems, not assumed by the
module.

*Memory.* `MemoryInv` adds `RequestsChecked` to the properties: what a request
read about authors and about the existence of claims is still true when it
writes, because these never change. It says nothing of the *status* read, and
that is where the violation of section 6 comes from: `SupersessionHolds`, that
what is being validated is not superseded, is broken by one step only, a
supersession of a claim that is being validated. For the adapter,
forgetting the anchors commutes with appending and updating rows, so each step
is the same step of `MemoryClaims`; `record_outcome` is a stutter.

*The other services.* Each has a small inductive invariant in
`OrganisationProofs` that says what a step under way has in hand: a mail past
the gates, and every mail in the thread table, was admitted (identities are
never withdrawn); a change has one gap at most, for the UNIQUE constraint refuses
the insert of a detector that was overtaken; files are numbered without a gap,
so that ids are never reused and a thread about to execute holds what its page
showed; the digest the script waits for announces only what none delivered
before; an anchor is of a type its role allows, and the normalised entities of
an item have one subject at most; what was read live is a value the record had
since the question was asked.

*Types of the services.* `OrganisationTypeOK` is the conjunction of the types of
the seven, of which one moves at a time. `ServicesRun` splits the specification
into the seven of the modules, each of which keeps its types
(`MemTypesHold` and the others). That of `Recall` needs facts about
lists: a list is the place of each item, the leading items of one are finitely
many because places are numbers, and adding items up to a quota stops at it,
since the largest place of a bounded set exists (by well-founded induction).

*Ingest.* `IngestInv == TablesInv /\ WalkInv /\ CursorInv`. None of the three
properties is inductive. `ChatterIngestedOnce` fails if two workers can extract
one message, or one extracts a message that has items: `WalkInv` says that the
threads have sources of the gateway and the chat only, and that what the poller
extracts or writes is a message not decided, which by `TablesInv` has no items.
`CursorPassesSettled` fails if the cursor can jump: `CursorInv` says that
whatever lies between the cursor and a message of the batch, and was seen in
time, is in the batch too, and `WalkInv` that the message the poller advances to
is decided and the smallest of its batch, so there is nothing between. A message
that appears there later is `late` by definition; the one batch of a poll is the
smallest messages of what was visible, which has no gaps. `WithdrawnIsUnsettled`
is a conjunct of `TablesInv`: a replay withdraws the row with the items, and the
row that decides a message ends its withdrawal. The proofs use that `Contents`
is finite, so that an ingest writes finitely many items and the number of the
next one exists.

Assumptions: `ConstantsAssumption` (times and requests are integers, `Unset` is
none of the other values, default lease at most the cap), `DispatchAssumption`
(bounds are naturals, `Nothing` is no row), `MemoryAssumption` (bounds are
naturals, `None` is no person or content), and one of each service, of the same
sort: bounds are naturals, tables of constants have their domains, values for
"none" are not values of the set. `EmailAssumption` wants a mailbox with a mail
(a run over an empty one ends without a step of interest), and naturals for the
window and the number of items, which are settings. TLC evaluates each of
them in some run.

## 5. What is only model-checked

- Liveness (`LeaseNeverLeaks`, `EveryCommandAnswered`, `PendingSettles`,
  `ExtractionFailuresSettle`): fairness and ENABLED are beyond the prover.
- What no theorem could say, because it is false: with manual edits
  `OwnershipAgrees`, `TerminalIsFinal`, `NoEarlyWake` and the part of
  `JournalReplays` about states.

Every invariant, action property and refinement of a passing run is stated by a
theorem as well; the run shows it on the instance, with a mutant of the code
that breaks it.

## 6. Where code and documents disagree

Three disagreements have a run:

- **Outbox delivery.** `list_outbox` reads ids above the last one seen, but
  ids are drawn before the commit that shows them: an event can appear behind
  the cursor and is never listed (`CommandDispatchAtLeastOnce`).
- **One message, two receipts.** The ids claimed by other receipts are read
  under the lock of one item; two items with one first line on one record can
  adopt the same orphan post (`ReceiptsMessageSustainsOneReceipt`).
- **A superseded claim shown as validated.** A validation that read the claim
  before a supersession committed writes its status over it
  (`MemoryClaimsSupersededIsHypothesis`).

Others were met while reading and have no run:

- The transition table of `docs/pmorg-v2/07-CONTRACTS.md:104-118` has no
  `claimed` to `waiting_response`, no `claimed` to a final state, and no
  approval; the code allows them. It has `review` to `completed` (:116), by a
  validation; no command of the code makes it, so a task in review stays there
  until a person edits it. `TerminalIsFinal` allows what the table has.
- `07-CONTRACTS.md:141-143` has a result that comes after the expiry refused,
  and recorded as an event. The code records nothing: the refusal is rolled back
  with the savepoint, and no event is written. `FencedJournal` is about effects
  and holds either way. Nor is every such result refused: with a tick from
  before the end of its lease, a holder whose run was not reclaimed yet is
  accepted at any later time. `LeaseHorizon` and `FencedJournal` are what remains
  true.
- `docs/pmorg-v2/01-ARCHITECTURE.md:618` wants manual changes to be met with a
  conflict; a command under a lease overwrites them.
- `unblock` and `request_outcome_verification` ask for neither version nor
  token (`01-ARCHITECTURE.md:268-292`).
- After a reassignment an item's receipt can stand on both records, against
  I6 of `docs/aipm/PLAN_AIPM_V1.md:50`; `OnePostPerRecord` is therefore per record.
- The search for an earlier post brings 80 messages, the oldest first
  (`receipts.py:63`), where `PLAN_AIPM_V1.md:182` has no limit. An orphan that
  lies behind 80 messages of the service on its record is not found, and the
  retry posts again, against I6 (:50). `OnePostPerRecord` excepts it.
- The same holds for a post that Odoo runs after its caller gave up.
- `PLAN_AIPM_V1.md:189` retries pending receipts at each cycle in the auto mode.
  A cycle whose poll fails, or in which an ingest raises, ends before its retry
  and counts no attempt (`chatter_poller.py:78-80`, `105`), so the cap on
  attempts does not end it. `PendingSettles` has the retry in its premise.
- Two claims can supersede each other; a second supersession overwrites the
  successor of a concurrent first one.
- The gateway and the chat do not take `ingest_lock`: two deliveries of one of
  their messages can both find no log row and both be ingested
  (`aipm/engine/pipeline.py:92`), against `docs/aipm/PLAN_AIPM_V1.md:48`, which
  is about every source. `ChatterIngestedOnce` is about the chatter.
- A failure after the extraction is not counted as an attempt
  (`pipeline.py:139`), so one that recurs holds the cursor for ever, against
  `PLAN_AIPM_V1.md:362`: no message behind it is ingested any more.
  `ExtractionFailuresSettle` has the opposite in its premise; without it the run
  shows the message waiting for ever, retried and failing in each cycle.
- A message that becomes visible behind the cursor is never ingested:
  `CursorPassesSettled` excepts it (`late`).
- The backfill updates by id what it read before it called the embedding
  service: an item a person resolved meanwhile is retracted as a duplicate.
- `channels/email/imap_bridge.py:10-12` says that a mail of an unknown author is
  evidence without claim; the code returns before the capture, so there is no
  evidence. `QuarantineHolds` leaves this open, and holds of both.
- A run of the e-mail channel that starts over proposes the claims of the mails
  it went through before once more.
- A digest marks before it is delivered: what a digest that was given up, or
  whose answer was lost, had marked is never delivered.
- Two decisions on one admin request, or a stop between its execution and the
  save (`cc-mirror-shim:375`), execute it twice; so does an exception of the
  execution followed by a second decision. Two Hermes servers could draw one id.
- `list_material_changes` goes through 500 rows from `--since`
  (`pmorg_orchestrator_api.py:382`): with a fixed date later changes are never
  listed.
- Closing an initiative reads its criteria; a new unverified criterion in an
  overlapping transaction is not seen (`pmorg_initiative.py:136`).
- Two requests of one session share its turns (`recall.py:203`, `332`).

## 7. Not modelled

`PROJECT.json` names every component. Left out, and why:

- **Coding-session bridge** (`components/cc-bridge/cc-bridge`, and the chat part
  of the shim): it relays turns to a coding session of another program. What
  states that session has, and what an approval or a resumption must keep, is
  not in this repository; a model would state guesses.
- **Initiatives and success criteria**: guards of single writes. The one race
  is told in section 6.
- **Anchors, anchor types, identities**: constraints of single writes.
- **Odoo adapter**: transport; its failures are actions of `Receipts` and
  `Ingest`.
- **Runner, world generator, evaluation kernel**: a harness that drives the
  commands in fixed scenarios, which the models generalise, and sequential
  recording in files.
- **Web, start, packaging**: presentation and wiring.

Of modelled components: of the memory service, `record_outcome` is in
`MemoryAdapter` only and the tools that read are left out; of the Hermes
server, the tools that run one command of `hermes` or read from aipm and keep no
state; of recall, the row of `chat_turn`, which nothing reads; of provenance, a
direct write on the gap table, which its access rights allow and no view offers.

## 8. Plan

1. Proofs: an abstract specification of `Ingest` (a message is settled, withdrawn
   and settled again, one ingest at a time) and of `Receipts` (one post and one
   receipt for each), and their refinements.
2. **`Initiative`**: closing an initiative against criteria and gaps that change
   at the same time, should a document say what must hold.
3. Larger instances: two threads and two contents in `Ingest`, three requests in
   `MemoryAdapter`.
