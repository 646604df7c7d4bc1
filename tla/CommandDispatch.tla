--------------------------- MODULE CommandDispatch ---------------------------
(***************************************************************************)
(* How pmorg.orchestrator.api executes one command: _dispatch looks the    *)
(* (actor, idempotency key) up in the inbox, runs the handler, and commits *)
(* the effect, its outbox event and the inbox row in one transaction.      *)
(*                                                                         *)
(* Transactions of several clients overlap.  Each reads the snapshot taken *)
(* when it began (Odoo runs PostgreSQL at REPEATABLE READ), draws outbox   *)
(* ids from a sequence that no rollback gives back, and meets the others   *)
(* when it commits.  The command is mark_managed(t), whose handler changes *)
(* a row, refuses a task already managed, and emits one event.             *)
(***************************************************************************)
EXTENDS Naturals

CONSTANTS
  Clients,    \* callers; each sends one command, and again until answered
  Keys,       \* (actor_id, idempotency_key) pairs
  Tasks,      \* the task_id of the command: what the request hash covers
  Nothing,    \* no row in the inbox
  MaxLosses,  \* bound: transactions killed and answers lost
  MaxId       \* bound: outbox ids drawn

ASSUME DispatchAssumption ==
  /\ MaxLosses \in Nat /\ MaxId \in Nat
  /\ Nothing \notin [body : Tasks, outcome : {"ok", "E_STATE"}]

VARIABLES
  intent,     \* intent[c]: the key and body client c sends, fixed
  tx,         \* tx[c]: where the request of c is, what it read, what it drew
  managed,    \* committed: the tasks no longer in not_managed
  inbox,      \* committed: pmorg.command.inbox, by key
  outbox,     \* committed: pmorg.outbox.event rows
  lastId,     \* the id sequence of pmorg.outbox.event
  answer,     \* answer[c]: the response c received
  cursor,     \* the consumer's after_id
  delivered,  \* the events the consumer was given
  losses

vars == <<intent, tx, managed, inbox, outbox, lastId, answer, cursor, delivered, losses>>

Row(body, outcome) == [body |-> body, outcome |-> outcome]

Rows == [body : Tasks, outcome : {"ok", "E_STATE"}]

\* A request that holds no transaction.
Idle(phase) == [phase |-> phase, inbox |-> [k \in Keys |-> Nothing],
                managed |-> {}, outcome |-> "ok", id |-> 0]

NoAnswer == [status |-> "none", outcome |-> "ok"]

Init ==
  /\ intent \in [Clients -> [key : Keys, body : Tasks]]
  /\ tx = [c \in Clients |-> Idle("ready")]
  /\ managed = {}
  /\ inbox = [k \in Keys |-> Nothing]
  /\ outbox = {}
  /\ lastId = 0
  /\ answer = [c \in Clients |-> NoAnswer]
  /\ cursor = 0
  /\ delivered = {}
  /\ losses = 0

Committed == <<managed, inbox, outbox>>
Consumer == <<cursor, delivered>>

KeyOf(c) == intent[c].key
BodyOf(c) == intent[c].body

-----------------------------------------------------------------------------
(* One request                                                             *)

\* A transaction that begins now.
Fresh == [phase |-> "open", inbox |-> inbox, managed |-> managed,
          outcome |-> "ok", id |-> 0]

Begin(c) ==
  /\ tx[c].phase = "ready"
  /\ tx' = [tx EXCEPT ![c] = Fresh]
  /\ UNCHANGED <<intent, Committed, lastId, answer, Consumer, losses>>

\* The inbox row as the transaction sees it.
Prior(c) == tx[c].inbox[KeyOf(c)]

Answered(c, status, outcome) ==
  /\ tx' = [tx EXCEPT ![c] = Idle("answered")]
  /\ answer' = [answer EXCEPT ![c] = [status |-> status, outcome |-> outcome]]

\* Mutant of ReplyFromInbox: a key in use is replayed, whatever the request.
ReplyWithoutHash(c) ==
  /\ tx[c].phase = "open"
  /\ Prior(c) # Nothing
  /\ Answered(c, "replay", Prior(c).outcome)
  /\ UNCHANGED <<intent, Committed, lastId, Consumer, losses>>

\* A key already used is replayed for the same request and refused for another.
ReplyFromInbox(c) ==
  /\ tx[c].phase = "open"
  /\ Prior(c) # Nothing
  /\ IF Prior(c).body = BodyOf(c)
     THEN Answered(c, "replay", Prior(c).outcome)
     ELSE Answered(c, "conflict", "ok")
  /\ UNCHANGED <<intent, Committed, lastId, Consumer, losses>>

\* Mutant of RunHandler: the event takes its id before the sequence advances.
RunHandlerBeforeDraw(c) ==
  /\ tx[c].phase = "open"
  /\ Prior(c) = Nothing
  /\ BodyOf(c) \notin tx[c].managed
  /\ lastId < MaxId
  /\ lastId' = lastId + 1
  /\ tx' = [tx EXCEPT ![c].phase = "ran", ![c].outcome = "ok", ![c].id = lastId]
  /\ UNCHANGED <<intent, Committed, answer, Consumer, losses>>

\* Mutant of RunHandler: the event is published when it is emitted.
RunHandlerPublishing(c) ==
  /\ tx[c].phase = "open"
  /\ Prior(c) = Nothing
  /\ BodyOf(c) \notin tx[c].managed
  /\ lastId < MaxId
  /\ lastId' = lastId + 1
  /\ tx' = [tx EXCEPT ![c].phase = "ran", ![c].outcome = "ok", ![c].id = lastId']
  /\ outbox' = outbox \cup {[id |-> lastId', key |-> KeyOf(c), body |-> BodyOf(c)]}
  /\ UNCHANGED <<intent, managed, inbox, answer, Consumer, losses>>

\* The handler in its savepoint: an effect with its event, or an ApiError
\* whose effect is rolled back and whose response is stored all the same.
RunHandler(c) ==
  /\ tx[c].phase = "open"
  /\ Prior(c) = Nothing
  /\ IF BodyOf(c) \notin tx[c].managed
     THEN /\ lastId < MaxId
          /\ lastId' = lastId + 1
          /\ tx' = [tx EXCEPT ![c].phase = "ran", ![c].outcome = "ok",
                              ![c].id = lastId']
     ELSE /\ tx' = [tx EXCEPT ![c].phase = "ran", ![c].outcome = "E_STATE"]
          /\ UNCHANGED lastId
  /\ UNCHANGED <<intent, Committed, answer, Consumer, losses>>

\* Mutant of RowConflict: a write over the write of another goes through.
NeverOverwritten(c) == FALSE

\* Another transaction changed the row this one wrote.
RowConflict(c) == tx[c].outcome = "ok" /\ BodyOf(c) \in managed

\* Mutant of KeyTaken: the inbox has no UNIQUE constraint.
NeverTaken(c) == FALSE

\* Another transaction inserted the row this one inserts.
KeyTaken(c) == inbox[KeyOf(c)] # Nothing

Apply(c) ==
  /\ tx[c].phase = "ran"
  /\ ~RowConflict(c) /\ ~KeyTaken(c)
  /\ inbox' = [inbox EXCEPT ![KeyOf(c)] = Row(BodyOf(c), tx[c].outcome)]
  /\ IF tx[c].outcome = "ok"
     THEN /\ managed' = managed \cup {BodyOf(c)}
          /\ outbox' = outbox \cup {[id |-> tx[c].id, key |-> KeyOf(c), body |-> BodyOf(c)]}
     ELSE UNCHANGED <<managed, outbox>>

Commit(c) ==
  /\ Apply(c)
  /\ Answered(c, "first", tx[c].outcome)
  /\ UNCHANGED <<intent, lastId, Consumer, losses>>

\* The commit went through and the response did not reach the client.
CommitUnheard(c) ==
  /\ losses < MaxLosses
  /\ Apply(c)
  /\ tx' = [tx EXCEPT ![c] = Idle("ready")]
  /\ losses' = losses + 1
  /\ UNCHANGED <<intent, lastId, answer, Consumer>>

\* Mutant of RetrySerialization: the retry keeps the stale snapshot.
RetryStale(c) ==
  /\ tx[c].phase = "ran"
  /\ RowConflict(c)
  /\ tx' = [tx EXCEPT ![c].phase = "open"]
  /\ UNCHANGED <<intent, Committed, lastId, answer, Consumer, losses>>

\* Odoo runs the whole request again, in a new transaction, on a
\* serialization failure; the row is written before the inbox is.
RetrySerialization(c) ==
  /\ tx[c].phase = "ran"
  /\ RowConflict(c)
  /\ tx' = [tx EXCEPT ![c] = Fresh]
  /\ UNCHANGED <<intent, Committed, lastId, answer, Consumer, losses>>

\* UNIQUE (actor_id, idempotency_key) fails: everything is rolled back, the
\* client gets a fault that is not retried for it, and sends again.
FailUnique(c) ==
  /\ tx[c].phase = "ran"
  /\ ~RowConflict(c) /\ KeyTaken(c)
  /\ tx' = [tx EXCEPT ![c] = Idle("ready")]
  /\ UNCHANGED <<intent, Committed, lastId, answer, Consumer, losses>>

\* The server dies, or the handler raises something that is no ApiError.
Kill(c) ==
  /\ losses < MaxLosses
  /\ tx[c].phase \in {"open", "ran"}
  /\ tx' = [tx EXCEPT ![c] = Idle("ready")]
  /\ losses' = losses + 1
  /\ UNCHANGED <<intent, Committed, lastId, answer, Consumer>>

-----------------------------------------------------------------------------
(* The consumer of the outbox: list_outbox(after_id, limit)                *)

\* The events after the cursor in the order of their ids, up to any limit.
Poll(upto) ==
  /\ cursor < upto
  /\ \E e \in outbox : e.id = upto
  /\ delivered' = delivered \cup {e \in outbox : cursor < e.id /\ e.id <= upto}
  /\ cursor' = upto
  /\ UNCHANGED <<intent, tx, Committed, lastId, answer, losses>>

-----------------------------------------------------------------------------
Serve(c) ==
  \/ Begin(c) \/ ReplyFromInbox(c) \/ RunHandler(c) \/ Commit(c)
  \/ RetrySerialization(c) \/ FailUnique(c)

Next ==
  \/ \E c \in Clients : Serve(c) \/ CommitUnheard(c) \/ Kill(c)
  \/ \E upto \in 1..MaxId : Poll(upto)

Spec == Init /\ [][Next]_vars

\* The server goes on with the requests it has and clients send again what
\* was not answered; nothing is assumed of the consumer.
FairSpec == Spec /\ \A c \in Clients : WF_vars(Serve(c))

-----------------------------------------------------------------------------
(* Properties                                                              *)

Events == [id : 1..MaxId, key : Keys, body : Tasks]

Requests == [phase : {"ready", "open", "ran", "answered"},
             inbox : [Keys -> Rows \cup {Nothing}], managed : SUBSET Tasks,
             outcome : {"ok", "E_STATE"}, id : 0..MaxId]

Answers == [status : {"none", "first", "replay", "conflict"},
            outcome : {"ok", "E_STATE"}]

\* The type invariant of requests, tables and consumer.
TypeOK ==
  /\ intent \in [Clients -> [key : Keys, body : Tasks]]
  /\ tx \in [Clients -> Requests]
  /\ managed \subseteq Tasks
  /\ inbox \in [Keys -> Rows \cup {Nothing}]
  /\ outbox \subseteq Events /\ delivered \subseteq Events
  /\ lastId \in 0..MaxId /\ cursor \in 0..MaxId
  /\ answer \in [Clients -> Answers]
  /\ losses \in 0..MaxLosses

\* A key has at most one effect, and a task at most one mark_managed, however
\* often the command is sent, by however many senders at once, and whatever
\* is killed or lost in between.
EffectOnce ==
  \A e, f \in outbox : e.key = f.key \/ e.body = f.body \/ e.id = f.id => e = f

\* The outbox and the tables tell the same story: an event is there if and only
\* if its effect is, with the inbox row of the command that caused it, and no
\* event ever reaches the consumer whose effect was rolled back.
OutboxIsTransactional ==
  /\ managed = {e.body : e \in outbox}
  /\ \A e \in outbox : inbox[e.key] = Row(e.body, "ok")
  /\ \A k \in Keys : inbox[k] # Nothing /\ inbox[k].outcome = "ok"
       => \E e \in outbox : e.key = k
  /\ delivered \subseteq outbox

Settled(c) == answer[c].status \in {"first", "replay"}

\* Two callers told something about one key sent the same request and were
\* told the same; only one of them was first; "ok" means the effect is there.
AnswersAgree ==
  \A c, d \in Clients : Settled(c) /\ Settled(d) /\ KeyOf(c) = KeyOf(d) =>
    /\ BodyOf(c) = BodyOf(d)
    /\ answer[c].outcome = answer[d].outcome
    /\ answer[c].status = "first" /\ answer[d].status = "first" => c = d
    /\ answer[c].outcome = "ok" => BodyOf(c) \in managed

\* Every command is answered in the end, by its result, a replay or a
\* conflict, although transactions fail, are killed and lose their answers.
EveryCommandAnswered == \A c \in Clients : <>(answer[c].status # "none")

-----------------------------------------------------------------------------
(* What the callers rely on                                                *)

\* The keys and effects that events tell of; their ids only order them.
Effects(events) == {[key |-> e.key, body |-> e.body] : e \in events}

Atomic == INSTANCE AtomicCommands WITH
  changed <- managed,
  done <- inbox,
  published <- Effects(outbox),
  told <- answer,
  seen <- Effects(delivered)

\* Overlapping transactions on old snapshots, retries, kills and lost answers
\* come to commands executed one after another in the order of their commits:
\* each key once, with the outcome that its place in that order gives it, and
\* every answer the recorded one.
ImplementsAtomicCommands == Atomic!Spec

-----------------------------------------------------------------------------
(* What the documents say of the outbox                                    *)

\* docs/pmorg-v2/07-CONTRACTS.md:180-183, 01-ARCHITECTURE.md:535: delivery is
\* at least once for a consumer that reads after the last id it has seen.  An
\* event behind the cursor is never listed again, so it must have been given.
DeliveredAtLeastOnce == \A e \in outbox : e.id <= cursor => e \in delivered
=============================================================================
