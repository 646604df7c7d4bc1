------------------------ MODULE CommandDispatchProofs ------------------------
(***************************************************************************)
(* Theorems about CommandDispatch for any number of clients, keys, tasks,  *)
(* killed transactions and lost answers.  The tables agree because a       *)
(* commit writes all three or none; effects are unique because a commit    *)
(* needs its key and its row untouched and its outbox id was drawn once.   *)
(* Answers agree because a row of the inbox is never written again.        *)
(* Together they make a commit the one execution of its command, at that   *)
(* moment: the dispatch implements AtomicCommands.                         *)
(***************************************************************************)
EXTENDS CommandDispatch, TLAPS

\* An event that a transaction is about to publish.
Drawn(c) == tx[c].phase = "ran" /\ tx[c].outcome = "ok"

\* Ids come from the sequence, and no two events, published or not, share one.
IdsFresh ==
  /\ \A e \in outbox : e.id <= lastId
  /\ \A c \in Clients : Drawn(c) => /\ tx[c].id \in 1..lastId
                                    /\ \A e \in outbox : e.id # tx[c].id
  /\ \A c, d \in Clients : Drawn(c) /\ Drawn(d) /\ tx[c].id = tx[d].id => c = d

DispatchInv == TypeOK /\ OutboxIsTransactional /\ EffectOnce /\ IdsFresh

-----------------------------------------------------------------------------
\* A client with no transaction is typed.
LEMMA IdleTyped ==
  ASSUME NEW phase \in {"ready", "answered"}
  PROVE  Idle(phase) \in Requests
<1>1. [k \in Keys |-> Nothing] \in [Keys -> Rows \cup {Nothing}]
  OBVIOUS
<1>2. 0 \in 0..MaxId
  BY DispatchAssumption
<1> QED BY <1>1, <1>2 DEF Idle, Requests

\* A request that can be sent is typed.
LEMMA FreshTyped == TypeOK => Fresh \in Requests
<1>1. 0 \in 0..MaxId
  BY DispatchAssumption
<1> QED BY <1>1 DEF Fresh, Requests, TypeOK

\* Commits write the three tables with values of their types.
LEMMA ApplyTyped ==
  ASSUME TypeOK, IdsFresh, NEW c \in Clients, Apply(c)
  PROVE  /\ managed' \subseteq Tasks /\ outbox' \subseteq Events
         /\ inbox' \in [Keys -> Rows \cup {Nothing}]
<1>1. KeyOf(c) \in Keys /\ BodyOf(c) \in Tasks /\ tx[c].outcome \in {"ok", "E_STATE"}
  BY DEF TypeOK, KeyOf, BodyOf, Requests
<1>2. Row(BodyOf(c), tx[c].outcome) \in Rows
  BY <1>1 DEF Row, Rows
<1>3. ASSUME tx[c].outcome = "ok"
      PROVE [id |-> tx[c].id, key |-> KeyOf(c), body |-> BodyOf(c)] \in Events
  BY <1>1, <1>3, DispatchAssumption DEF Apply, IdsFresh, Drawn, TypeOK, Events
<1> QED BY <1>1, <1>2, <1>3 DEF Apply, TypeOK

\* Every step keeps the types.
LEMMA TypeStep == TypeOK /\ IdsFresh /\ [Next]_vars => TypeOK'
<1> SUFFICES ASSUME TypeOK, IdsFresh, [Next]_vars PROVE TypeOK'
  OBVIOUS
<1>1. ASSUME NEW c \in Clients, Serve(c) \/ CommitUnheard(c) \/ Kill(c) PROVE TypeOK'
  <2>1. CASE Begin(c)
    BY <2>1, FreshTyped DEF Begin, Committed, Consumer, TypeOK
  <2>2. CASE ReplyFromInbox(c)
    <3>1. tx[c].inbox \in [Keys -> Rows \cup {Nothing}] /\ KeyOf(c) \in Keys
      BY DEF TypeOK, Requests, KeyOf
    <3>2. Prior(c).outcome \in {"ok", "E_STATE"}
      BY <2>2, <3>1 DEF ReplyFromInbox, Prior, Rows
    <3>3. /\ tx' = [tx EXCEPT ![c] = Idle("answered")]
          /\ \E a \in Answers : answer' = [answer EXCEPT ![c] = a]
      BY <2>2, <3>2 DEF ReplyFromInbox, Answered, Answers
    <3>4. tx' \in [Clients -> Requests] /\ answer' \in [Clients -> Answers]
      BY <3>3, IdleTyped DEF TypeOK
    <3> QED BY <2>2, <3>4 DEF ReplyFromInbox, Committed, Consumer, TypeOK
  <2>3. CASE RunHandler(c)
    <3>1. lastId' \in 0..MaxId
      BY <2>3, DispatchAssumption DEF RunHandler, TypeOK
    <3>2. \E outcome \in {"ok", "E_STATE"}, id \in 0..MaxId :
            tx' = [tx EXCEPT ![c].phase = "ran", ![c].outcome = outcome, ![c].id = id]
      <4>1. CASE BodyOf(c) \notin tx[c].managed
        BY <2>3, <3>1, <4>1 DEF RunHandler
      <4>2. CASE BodyOf(c) \in tx[c].managed
        <5>1. tx[c].id \in 0..MaxId /\ tx[c] \in Requests
          BY DEF TypeOK, Requests
        <5>2. tx' = [tx EXCEPT ![c].phase = "ran", ![c].outcome = "E_STATE"]
          BY <2>3, <4>2 DEF RunHandler
        <5>3. tx' = [tx EXCEPT ![c].phase = "ran", ![c].outcome = "E_STATE",
                               ![c].id = tx[c].id]
          BY <5>1, <5>2 DEF TypeOK, Requests
        <5> QED BY <5>1, <5>3
      <4> QED BY <4>1, <4>2
    <3>3. PICK outcome \in {"ok", "E_STATE"}, id \in 0..MaxId :
            tx' = [tx EXCEPT ![c].phase = "ran", ![c].outcome = outcome, ![c].id = id]
      BY <3>2
    <3>4. [tx[c] EXCEPT !.phase = "ran", !.outcome = outcome, !.id = id] \in Requests
      <4>1. tx[c] \in Requests
        BY DEF TypeOK
      <4>2. "ran" \in {"ready", "open", "ran", "answered"}
        OBVIOUS
      <4> QED BY <4>1, <4>2 DEF Requests
    <3>5. tx' = [tx EXCEPT ![c] = [tx[c] EXCEPT !.phase = "ran", !.outcome = outcome, !.id = id]]
      BY <3>3 DEF TypeOK
    <3>6. tx' \in [Clients -> Requests]
      BY <3>4, <3>5 DEF TypeOK
    <3> QED BY <2>3, <3>1, <3>6 DEF RunHandler, Committed, Consumer, TypeOK
  <2>4. CASE Commit(c)
    <3>1. tx' \in [Clients -> Requests] /\ answer' \in [Clients -> Answers]
      BY <2>4, IdleTyped DEF Commit, Answered, TypeOK, Answers, Requests
    <3> QED BY <2>4, <3>1, ApplyTyped DEF Commit, Consumer, TypeOK
  <2>5. CASE CommitUnheard(c)
    <3>1. tx' \in [Clients -> Requests] /\ losses' \in 0..MaxLosses
      BY <2>5, IdleTyped, DispatchAssumption DEF CommitUnheard, TypeOK
    <3> QED BY <2>5, <3>1, ApplyTyped DEF CommitUnheard, Consumer, TypeOK
  <2>6. CASE RetrySerialization(c)
    BY <2>6, FreshTyped DEF RetrySerialization, Committed, Consumer, TypeOK
  <2>7. CASE FailUnique(c)
    BY <2>7, IdleTyped DEF FailUnique, Committed, Consumer, TypeOK
  <2>8. CASE Kill(c)
    <3>1. losses' \in 0..MaxLosses
      BY <2>8, DispatchAssumption DEF Kill, TypeOK
    <3> QED BY <2>8, <3>1, IdleTyped DEF Kill, Committed, Consumer, TypeOK
  <2> QED BY <1>1, <2>1, <2>2, <2>3, <2>4, <2>5, <2>6, <2>7, <2>8 DEF Serve
<1>2. ASSUME NEW upto \in 1..MaxId, Poll(upto) PROVE TypeOK'
  BY <1>2, DispatchAssumption DEF Poll, Committed, TypeOK
<1>3. CASE UNCHANGED vars
  BY <1>3 DEF vars, TypeOK
<1> QED BY <1>1, <1>2, <1>3 DEF Next

\* A commit adds one effect, of a key and a task that had none, under an id
\* no other transaction holds.
LEMMA ApplyStep ==
  ASSUME DispatchInv, NEW c \in Clients, Apply(c),
         UNCHANGED <<intent, lastId, delivered>>,
         \A d \in Clients \ {c} : tx'[d] = tx[d],
         tx'[c].phase # "ran"
  PROVE  OutboxIsTransactional' /\ EffectOnce' /\ IdsFresh'
<1> DEFINE new == [id |-> tx[c].id, key |-> KeyOf(c), body |-> BodyOf(c)]
           row == Row(BodyOf(c), tx[c].outcome)
<1>0. /\ TypeOK /\ KeyOf(c) \in Keys /\ BodyOf(c) \in Tasks
      /\ tx[c].outcome \in {"ok", "E_STATE"} /\ lastId \in Nat
  BY DispatchAssumption DEF DispatchInv, TypeOK, KeyOf, BodyOf, Requests
<1>1. inbox[KeyOf(c)] = Nothing /\ \A e \in outbox : e.key # KeyOf(c)
  <2>1. \A e \in outbox : e \in Events /\ inbox[e.key] = Row(e.body, "ok")
    BY <1>0 DEF DispatchInv, OutboxIsTransactional, TypeOK
  <2>2. \A e \in outbox : Row(e.body, "ok") \in [body : Tasks, outcome : {"ok", "E_STATE"}]
    BY <2>1 DEF Row, Events
  <2> QED BY <2>1, <2>2, DispatchAssumption DEF Apply, KeyTaken
<1>2. /\ inbox'[KeyOf(c)] = row
      /\ \A k \in Keys \ {KeyOf(c)} : inbox'[k] = inbox[k]
  BY <1>0 DEF Apply, TypeOK
<1>3. CASE tx[c].outcome = "ok"
  <2>1. managed' = managed \cup {BodyOf(c)} /\ outbox' = outbox \cup {new}
    BY <1>3 DEF Apply
  <2>2. Drawn(c) /\ tx[c].id \in 1..lastId /\ \A e \in outbox : e.id # tx[c].id
    BY <1>3 DEF Apply, DispatchInv, IdsFresh, Drawn
  <2>3. \A e \in outbox : e.body # BodyOf(c)
    BY <1>3 DEF Apply, RowConflict, DispatchInv, OutboxIsTransactional
  <2>4. EffectOnce'
    BY <1>1, <2>1, <2>2, <2>3 DEF DispatchInv, EffectOnce
  <2>5. IdsFresh'
    BY <1>0, <2>1, <2>2 DEF DispatchInv, IdsFresh, Drawn
  <2>6. OutboxIsTransactional'
    <3>1. managed' = {e.body : e \in outbox'}
      <4>1. managed = {e.body : e \in outbox} /\ new.body = BodyOf(c)
        BY DEF DispatchInv, OutboxIsTransactional
      <4>2. {e.body : e \in outbox \cup {new}} = {e.body : e \in outbox} \cup {new.body}
        OBVIOUS
      <4> HIDE DEF new
      <4> QED BY <2>1, <4>1, <4>2
    <3>2. \A e \in outbox' : inbox'[e.key] = Row(e.body, "ok")
      BY <1>0, <1>1, <1>2, <1>3, <2>1 DEF DispatchInv, OutboxIsTransactional, TypeOK, Events
    <3>3. \A k \in Keys : inbox'[k] # Nothing /\ inbox'[k].outcome = "ok"
            => \E e \in outbox' : e.key = k
      <4>1. new \in outbox' /\ new.key = KeyOf(c) /\ outbox \subseteq outbox'
        BY <2>1
      <4>2. \A k \in Keys \ {KeyOf(c)} : inbox'[k] # Nothing /\ inbox'[k].outcome = "ok"
              => \E e \in outbox : e.key = k
        BY <1>2 DEF DispatchInv, OutboxIsTransactional
      <4> HIDE DEF new, row
      <4> QED BY <4>1, <4>2
    <3> QED BY <2>1, <3>1, <3>2, <3>3 DEF DispatchInv, OutboxIsTransactional
  <2> QED BY <2>4, <2>5, <2>6
<1>4. CASE tx[c].outcome = "E_STATE"
  <2>1. UNCHANGED <<managed, outbox>>
    BY <1>4 DEF Apply
  <2>2. EffectOnce' /\ IdsFresh'
    BY <2>1 DEF DispatchInv, EffectOnce, IdsFresh, Drawn
  <2>3. \A e \in outbox' : inbox'[e.key] = Row(e.body, "ok")
    BY <1>0, <1>1, <1>2, <2>1 DEF DispatchInv, OutboxIsTransactional, TypeOK, Events
  <2>4. \A k \in Keys : inbox'[k] # Nothing /\ inbox'[k].outcome = "ok"
          => \E e \in outbox' : e.key = k
    BY <1>2, <1>4, <2>1 DEF DispatchInv, OutboxIsTransactional, Row
  <2> QED BY <2>1, <2>2, <2>3, <2>4 DEF DispatchInv, OutboxIsTransactional
<1> QED BY <1>0, <1>3, <1>4

\* Inbox, outbox and effects stay together, and keys unique, through every step.
LEMMA DispatchInductive == DispatchInv /\ [Next]_vars => DispatchInv'
<1> SUFFICES ASSUME DispatchInv, [Next]_vars
             PROVE OutboxIsTransactional' /\ EffectOnce' /\ IdsFresh'
  BY TypeStep DEF DispatchInv
<1>0. TypeOK /\ lastId \in Nat
  BY DispatchAssumption DEF DispatchInv, TypeOK
<1>1. ASSUME UNCHANGED <<managed, inbox, outbox, delivered, lastId>>,
             \A c \in Clients : Drawn(c)' => Drawn(c) /\ tx'[c].id = tx[c].id
      PROVE  OutboxIsTransactional' /\ EffectOnce' /\ IdsFresh'
  BY <1>1 DEF DispatchInv, OutboxIsTransactional, EffectOnce, IdsFresh, Drawn
<1>2. ASSUME NEW c \in Clients, Serve(c) \/ CommitUnheard(c) \/ Kill(c)
      PROVE  OutboxIsTransactional' /\ EffectOnce' /\ IdsFresh'
  <2>1. CASE Begin(c) \/ RetrySerialization(c)
    BY <1>0, <1>1, <2>1
    DEF Begin, RetrySerialization, Fresh, Committed, Consumer, TypeOK, Drawn
  <2>2. CASE ReplyFromInbox(c) \/ FailUnique(c) \/ Kill(c)
    BY <1>0, <1>1, <2>2
    DEF ReplyFromInbox, FailUnique, Kill, Answered, Idle, Committed, Consumer, TypeOK, Drawn
  <2>3. CASE RunHandler(c)
    <3>1. UNCHANGED <<managed, inbox, outbox, delivered>>
      BY <2>3 DEF RunHandler, Committed, Consumer
    <3>2. \A d \in Clients \ {c} : tx'[d] = tx[d]
      BY <1>0, <2>3 DEF RunHandler, TypeOK
    <3>3. CASE BodyOf(c) \in tx[c].managed
      BY <1>0, <1>1, <2>3, <3>1, <3>2, <3>3 DEF RunHandler, TypeOK, Drawn, Requests
    <3>4. CASE BodyOf(c) \notin tx[c].managed
      <4>1. lastId' = lastId + 1 /\ tx'[c].id = lastId + 1
        BY <1>0, <2>3, <3>4 DEF RunHandler, TypeOK, Requests
      <4>2. IdsFresh'
        BY <1>0, <3>1, <3>2, <4>1 DEF DispatchInv, IdsFresh, Drawn, TypeOK, Events
      <4> QED BY <3>1, <4>2 DEF DispatchInv, OutboxIsTransactional, EffectOnce
    <3> QED BY <3>3, <3>4
  <2>4. CASE Commit(c)
    BY <1>0, <2>4, ApplyStep DEF Commit, Answered, Idle, Consumer, TypeOK
  <2>5. CASE CommitUnheard(c)
    BY <1>0, <2>5, ApplyStep DEF CommitUnheard, Idle, Consumer, TypeOK
  <2> QED BY <1>2, <2>1, <2>2, <2>3, <2>4, <2>5 DEF Serve
<1>3. ASSUME NEW upto \in 1..MaxId, Poll(upto)
      PROVE  OutboxIsTransactional' /\ EffectOnce' /\ IdsFresh'
  BY <1>3 DEF Poll, Committed, DispatchInv, OutboxIsTransactional, EffectOnce, IdsFresh, Drawn
<1>4. CASE UNCHANGED vars
  BY <1>1, <1>4 DEF vars, Drawn
<1> QED BY <1>2, <1>3, <1>4 DEF Next

\* The empty tables satisfy the invariant.
LEMMA DispatchInit == Init => DispatchInv
<1> SUFFICES ASSUME Init PROVE DispatchInv
  OBVIOUS
<1>1. TypeOK
  BY IdleTyped, DispatchAssumption DEF Init, TypeOK, NoAnswer, Answers
<1>2. \A c \in Clients : ~Drawn(c)
  BY DEF Init, Idle, Drawn
<1> QED BY <1>1, <1>2 DEF Init, DispatchInv, OutboxIsTransactional, EffectOnce, IdsFresh

\* One effect per key and per task, however the command is repeated, raced,
\* killed or left unheard.
THEOREM EffectOnceCorrect == Spec => []EffectOnce
<1>1. DispatchInv => EffectOnce
  BY DEF DispatchInv
<1> QED BY <1>1, DispatchInit, DispatchInductive, PTL DEF Spec

\* Task table, inbox and outbox always tell the same story.
THEOREM OutboxIsTransactionalCorrect == Spec => []OutboxIsTransactional
<1>1. DispatchInv => OutboxIsTransactional
  BY DEF DispatchInv
<1> QED BY <1>1, DispatchInit, DispatchInductive, PTL DEF Spec

\* Requests, tables and consumer keep their types in every behaviour.
THEOREM DispatchTypeCorrect == Spec => []TypeOK
<1>1. DispatchInv => TypeOK
  BY DEF DispatchInv
<1> QED BY <1>1, DispatchInit, DispatchInductive, PTL DEF Spec

-----------------------------------------------------------------------------
(* What the callers are told                                               *)

\* What a transaction read in the inbox is still there, and who was told
\* something was told what the inbox holds.
AnswersInv ==
  /\ \A c \in Clients, k \in Keys :
       tx[c].inbox[k] # Nothing => inbox[k] = tx[c].inbox[k]
  /\ \A c \in Clients : Settled(c) => inbox[KeyOf(c)] = Row(BodyOf(c), answer[c].outcome)
  /\ \A c, d \in Clients : answer[c].status = "first" /\ answer[d].status = "first"
       /\ KeyOf(c) = KeyOf(d) => c = d

\* What a client sent and what its transaction holds are typed.
LEMMA KeysTyped ==
  ASSUME TypeOK, NEW c \in Clients
  PROVE  /\ KeyOf(c) \in Keys /\ BodyOf(c) \in Tasks
         /\ tx[c] \in Requests /\ tx[c].inbox \in [Keys -> Rows \cup {Nothing}]
         /\ tx[c].outcome \in {"ok", "E_STATE"}
  BY DEF TypeOK, KeyOf, BodyOf, Requests

\* A row of the inbox is never "Nothing", and a record gives its parts.
LEMMA RowsAre ==
  ASSUME NEW body \in Tasks, NEW outcome \in {"ok", "E_STATE"}
  PROVE  /\ Row(body, outcome) \in Rows /\ Row(body, outcome) # Nothing
         /\ Row(body, outcome).body = body /\ Row(body, outcome).outcome = outcome
<1>1. Row(body, outcome) \in [body : Tasks, outcome : {"ok", "E_STATE"}]
  BY DEF Row
<1> QED BY <1>1, DispatchAssumption DEF Row, Rows

\* A step that answers nobody and writes no inbox row.
LEMMA SilentStep ==
  ASSUME AnswersInv, UNCHANGED <<intent, inbox, answer>>,
         \A c \in Clients : tx'[c].inbox \in {tx[c].inbox, inbox, [k \in Keys |-> Nothing]}
  PROVE  AnswersInv'
<1>1. \A c \in Clients, k \in Keys : tx'[c].inbox[k] # Nothing => inbox'[k] = tx'[c].inbox[k]
  BY DEF AnswersInv
<1>2. \A c \in Clients : KeyOf(c)' = KeyOf(c) /\ BodyOf(c)' = BodyOf(c)
                         /\ (Settled(c)' <=> Settled(c))
  BY DEF KeyOf, BodyOf, Settled
<1> QED BY <1>1, <1>2 DEF AnswersInv

\* A commit fills a row nobody had filled, so nobody was told of its key.
LEMMA CommitAnswers ==
  ASSUME DispatchInv, AnswersInv, NEW c \in Clients, Apply(c), UNCHANGED intent,
         tx' = [tx EXCEPT ![c] = Idle(tx'[c].phase)],
         \/ answer' = answer
         \/ answer' = [answer EXCEPT ![c] = [status |-> "first", outcome |-> tx[c].outcome]]
  PROVE  AnswersInv'
<1>0. TypeOK
  BY DEF DispatchInv
<1>1. /\ KeyOf(c) \in Keys /\ inbox[KeyOf(c)] = Nothing
      /\ inbox' = [inbox EXCEPT ![KeyOf(c)] = Row(BodyOf(c), tx[c].outcome)]
      /\ inbox \in [Keys -> Rows \cup {Nothing}]
  BY <1>0, KeysTyped DEF Apply, KeyTaken, TypeOK
<1>2. \A d \in Clients : KeyOf(d)' = KeyOf(d) /\ BodyOf(d)' = BodyOf(d)
  BY DEF KeyOf, BodyOf
<1>3. ASSUME NEW d \in Clients, Settled(d) PROVE KeyOf(d) # KeyOf(c)
  <2>1. answer[d].outcome \in {"ok", "E_STATE"}
    BY <1>0 DEF TypeOK, Answers
  <2>2. inbox[KeyOf(d)] # Nothing
    BY <1>0, <1>3, <2>1, KeysTyped, RowsAre DEF AnswersInv
  <2> QED BY <1>1, <2>2
<1>4. \A d \in Clients, k \in Keys : tx'[d].inbox[k] # Nothing => inbox'[k] = tx'[d].inbox[k]
  <2> SUFFICES ASSUME NEW d \in Clients, NEW k \in Keys, tx'[d].inbox[k] # Nothing
               PROVE  inbox'[k] = tx'[d].inbox[k]
    OBVIOUS
  <2>1. d # c
    BY <1>0 DEF Idle, TypeOK
  <2>2. tx'[d] = tx[d]
    BY <1>0, <2>1 DEF TypeOK
  <2>3. inbox[k] = tx[d].inbox[k] /\ k # KeyOf(c)
    BY <1>1, <2>2 DEF AnswersInv
  <2> QED BY <1>1, <2>2, <2>3
<1>5. ASSUME NEW d \in Clients, d # c, Settled(d)'
      PROVE  Settled(d) /\ answer'[d] = answer[d] /\ inbox'[KeyOf(d)] = inbox[KeyOf(d)]
  <2>1. answer'[d] = answer[d]
    BY <1>0, <1>5 DEF TypeOK
  <2>2. Settled(d) /\ KeyOf(d) \in Keys
    BY <1>0, <1>5, <2>1, KeysTyped DEF Settled
  <2> QED BY <1>1, <1>3, <2>1, <2>2
<1>6. CASE answer' = answer
  <2>1. \A d \in Clients : Settled(d)' => inbox'[KeyOf(d)] = Row(BodyOf(d), answer[d].outcome)
    <3> SUFFICES ASSUME NEW d \in Clients, Settled(d)'
                 PROVE  inbox'[KeyOf(d)] = Row(BodyOf(d), answer[d].outcome)
      OBVIOUS
    <3>1. Settled(d) /\ KeyOf(d) \in Keys
      BY <1>0, <1>6, KeysTyped DEF Settled
    <3>2. inbox'[KeyOf(d)] = inbox[KeyOf(d)]
      BY <1>1, <1>3, <3>1
    <3> QED BY <3>1, <3>2 DEF AnswersInv
  <2> QED BY <1>2, <1>4, <1>6, <2>1 DEF AnswersInv
<1>7. CASE answer' = [answer EXCEPT ![c] = [status |-> "first", outcome |-> tx[c].outcome]]
  <2>1. answer'[c] = [status |-> "first", outcome |-> tx[c].outcome]
    BY <1>0, <1>7 DEF TypeOK
  <2>2. inbox'[KeyOf(c)] = Row(BodyOf(c), answer'[c].outcome)
    BY <1>1, <2>1
  <2>3. \A d \in Clients : Settled(d)' => inbox'[KeyOf(d)] = Row(BodyOf(d), answer'[d].outcome)
    BY <1>5, <2>2 DEF AnswersInv
  <2>4. ASSUME NEW d \in Clients, NEW e \in Clients, answer'[d].status = "first",
               answer'[e].status = "first", KeyOf(d) = KeyOf(e)
        PROVE  d = e
    <3>1. \A x \in Clients : answer'[x].status = "first" => Settled(x)'
      BY DEF Settled
    <3>2. CASE d # c /\ e # c
      BY <1>5, <2>4, <3>1, <3>2 DEF AnswersInv
    <3>3. CASE d = c \/ e = c
      BY <1>3, <1>5, <2>4, <3>1, <3>3
    <3> QED BY <3>2, <3>3
  <2> QED BY <1>2, <1>4, <2>3, <2>4 DEF AnswersInv
<1> QED BY <1>6, <1>7

\* A replay repeats the row the transaction read, which is still there.
LEMMA ReplayAnswers ==
  ASSUME DispatchInv, AnswersInv, NEW c \in Clients, ReplyFromInbox(c)
  PROVE  AnswersInv'
<1>0. TypeOK /\ UNCHANGED <<intent, inbox>>
  BY DEF DispatchInv, ReplyFromInbox, Committed
<1>1. \A d \in Clients : KeyOf(d)' = KeyOf(d) /\ BodyOf(d)' = BodyOf(d)
  BY <1>0 DEF KeyOf, BodyOf
<1>2. /\ tx' = [tx EXCEPT ![c] = Idle("answered")]
      /\ \A d \in Clients \ {c} : answer'[d] = answer[d]
      /\ answer'[c].status \in {"replay", "conflict"}
      /\ answer'[c].status = "replay" => Prior(c).body = BodyOf(c)
                                         /\ answer'[c].outcome = Prior(c).outcome
  BY <1>0 DEF ReplyFromInbox, Answered, TypeOK
<1>3. /\ KeyOf(c) \in Keys /\ Prior(c) # Nothing
      /\ inbox[KeyOf(c)] = Prior(c) /\ Prior(c) \in Rows
  BY <1>0, KeysTyped DEF ReplyFromInbox, Prior, AnswersInv
<1>4. Prior(c) = Row(Prior(c).body, Prior(c).outcome)
  BY <1>3 DEF Rows, Row
<1>5. \A d \in Clients, k \in Keys : tx'[d].inbox[k] # Nothing => inbox'[k] = tx'[d].inbox[k]
  BY <1>0, <1>2 DEF Idle, TypeOK, AnswersInv
<1>6. \A d \in Clients : Settled(d)' => inbox'[KeyOf(d)] = Row(BodyOf(d), answer'[d].outcome)
  <2>1. Settled(c)' => inbox'[KeyOf(c)] = Row(BodyOf(c), answer'[c].outcome)
    BY <1>0, <1>2, <1>3, <1>4 DEF Settled
  <2>2. \A d \in Clients \ {c} : Settled(d)' <=> Settled(d)
    BY <1>2 DEF Settled
  <2> QED BY <1>0, <1>2, <2>1, <2>2 DEF AnswersInv
<1>7. \A d, e \in Clients : answer'[d].status = "first" /\ answer'[e].status = "first"
        /\ KeyOf(d) = KeyOf(e) => d = e
  BY <1>2 DEF AnswersInv
<1> QED BY <1>1, <1>5, <1>6, <1>7 DEF AnswersInv

\* An answer given stays the one its key was recorded with.
LEMMA AnswersStep == DispatchInv /\ AnswersInv /\ [Next]_vars => AnswersInv'
<1> SUFFICES ASSUME DispatchInv, AnswersInv, [Next]_vars PROVE AnswersInv'
  OBVIOUS
<1>0. TypeOK
  BY DEF DispatchInv
<1>1. ASSUME NEW c \in Clients, Serve(c) \/ CommitUnheard(c) \/ Kill(c) PROVE AnswersInv'
  <2>1. CASE Begin(c) \/ RetrySerialization(c)
    <3>1. tx' = [tx EXCEPT ![c] = Fresh] /\ UNCHANGED <<intent, inbox, answer>>
      BY <2>1 DEF Begin, RetrySerialization, Committed
    <3>2. \A d \in Clients : tx'[d].inbox \in {tx[d].inbox, inbox}
      BY <1>0, <3>1 DEF Fresh, TypeOK
    <3> QED BY <3>1, <3>2, SilentStep
  <2>2. CASE FailUnique(c) \/ Kill(c)
    <3>1. tx' = [tx EXCEPT ![c] = Idle("ready")] /\ UNCHANGED <<intent, inbox, answer>>
      BY <2>2 DEF FailUnique, Kill, Committed
    <3>2. \A d \in Clients : tx'[d].inbox \in {tx[d].inbox, [k \in Keys |-> Nothing]}
      BY <1>0, <3>1 DEF Idle, TypeOK
    <3> QED BY <3>1, <3>2, SilentStep
  <2>3. CASE RunHandler(c)
    <3>1. UNCHANGED <<intent, inbox, answer>>
      BY <2>3 DEF RunHandler, Committed
    <3>2. \A d \in Clients : tx'[d].inbox = tx[d].inbox
      BY <1>0, <2>3 DEF RunHandler, TypeOK, Requests
    <3> QED BY <3>1, <3>2, SilentStep
  <2>4. CASE Commit(c)
    <3>1. tx'[c].phase = "answered" /\ tx' = [tx EXCEPT ![c] = Idle("answered")]
      BY <1>0, <2>4 DEF Commit, Answered, Idle, TypeOK
    <3>2. answer' = [answer EXCEPT ![c] = [status |-> "first", outcome |-> tx[c].outcome]]
      BY <2>4 DEF Commit, Answered
    <3> QED BY <2>4, <3>1, <3>2, CommitAnswers DEF Commit
  <2>5. CASE CommitUnheard(c)
    <3>1. tx'[c].phase = "ready" /\ tx' = [tx EXCEPT ![c] = Idle("ready")]
      BY <1>0, <2>5 DEF CommitUnheard, Idle, TypeOK
    <3> QED BY <2>5, <3>1, CommitAnswers DEF CommitUnheard
  <2> QED BY <1>1, <2>1, <2>2, <2>3, <2>4, <2>5, ReplayAnswers DEF Serve
<1>2. CASE \E upto \in 1..MaxId : Poll(upto)
  BY <1>2, SilentStep DEF Poll, Committed
<1>3. CASE UNCHANGED vars
  BY <1>3, SilentStep DEF vars
<1> QED BY <1>1, <1>2, <1>3 DEF Next

\* No answer was given yet.
LEMMA AnswersInit == Init => AnswersInv
  BY DEF Init, AnswersInv, Idle, NoAnswer, Settled

\* Callers that were told something about one key sent the same request and
\* were told the same, and "ok" means that the effect is there: a retry, a
\* race or a lost answer never makes two stories of one command.
THEOREM AnswersAgreeCorrect == Spec => []AnswersAgree
<1>1. DispatchInv /\ AnswersInv => AnswersAgree
  <2> SUFFICES ASSUME DispatchInv, AnswersInv, NEW c \in Clients, NEW d \in Clients,
                      Settled(c), Settled(d), KeyOf(c) = KeyOf(d)
               PROVE  /\ BodyOf(c) = BodyOf(d)
                      /\ answer[c].outcome = answer[d].outcome
                      /\ answer[c].status = "first" /\ answer[d].status = "first" => c = d
                      /\ answer[c].outcome = "ok" => BodyOf(c) \in managed
    BY DEF AnswersAgree
  <2>0. TypeOK
    BY DEF DispatchInv
  <2>1. \A x \in {c, d} : answer[x].outcome \in {"ok", "E_STATE"} /\ BodyOf(x) \in Tasks
                          /\ KeyOf(x) \in Keys
    BY <2>0, KeysTyped DEF TypeOK, Answers
  <2>2. Row(BodyOf(c), answer[c].outcome) = Row(BodyOf(d), answer[d].outcome)
    BY DEF AnswersInv
  <2>3. BodyOf(c) = BodyOf(d) /\ answer[c].outcome = answer[d].outcome
    BY <2>1, <2>2, RowsAre
  <2>4. ASSUME answer[c].outcome = "ok" PROVE BodyOf(c) \in managed
    <3>1. /\ inbox[KeyOf(c)] = Row(BodyOf(c), "ok") /\ inbox[KeyOf(c)] # Nothing
          /\ inbox[KeyOf(c)].outcome = "ok"
      BY <2>1, <2>4, RowsAre DEF AnswersInv
    <3>2. PICK e \in outbox : e.key = KeyOf(c)
      BY <2>1, <3>1 DEF DispatchInv, OutboxIsTransactional
    <3>3. e.body \in Tasks /\ Row(e.body, "ok") = Row(BodyOf(c), "ok")
      BY <2>0, <3>1, <3>2 DEF DispatchInv, OutboxIsTransactional, TypeOK, Events
    <3>4. e.body = BodyOf(c)
      BY <2>1, <3>3, RowsAre
    <3> QED BY <3>4 DEF DispatchInv, OutboxIsTransactional
  <2> QED BY <2>3, <2>4 DEF AnswersInv
<1> QED BY <1>1, DispatchInit, DispatchInductive, AnswersInit, AnswersStep, PTL DEF Spec
-----------------------------------------------------------------------------
(* Commands executed one after another                                     *)

\* A transaction knows no effect that is not there, refuses only for an effect
\* it knows, and is gone when its client has an answer.
SerialInv ==
  /\ \A c \in Clients : tx[c].managed \subseteq managed
  /\ \A c \in Clients : tx[c].phase = "ran" /\ tx[c].outcome = "E_STATE"
                         => BodyOf(c) \in tx[c].managed
  /\ \A c \in Clients : tx[c].phase # "answered" => answer[c].status = "none"

\* Nothing is open and nobody has an answer at the start.
LEMMA SerialInit == Init => SerialInv
  BY DEF Init, SerialInv, Idle, NoAnswer

\* A step of one client that leaves the others alone keeps SerialInv, if what
\* the client holds then is sound.
LEMMA SerialKept ==
  ASSUME TypeOK, SerialInv, NEW c \in Clients, UNCHANGED intent, managed \subseteq managed',
         \A d \in Clients \ {c} : tx'[d] = tx[d] /\ answer'[d] = answer[d],
         tx'[c].managed \subseteq managed',
         tx'[c].phase = "ran" /\ tx'[c].outcome = "E_STATE" => BodyOf(c) \in tx'[c].managed,
         tx'[c].phase # "answered" => answer'[c].status = "none"
  PROVE  SerialInv'
<1>1. \A d \in Clients : BodyOf(d)' = BodyOf(d)
  BY DEF BodyOf
<1> QED BY <1>1 DEF SerialInv

\* No step forgets an effect or answers a client that goes on.
LEMMA SerialStep == TypeOK /\ SerialInv /\ [Next]_vars => SerialInv'
<1> SUFFICES ASSUME TypeOK, SerialInv, [Next]_vars PROVE SerialInv'
  OBVIOUS
<1>1. ASSUME NEW c \in Clients, Serve(c) \/ CommitUnheard(c) \/ Kill(c) PROVE SerialInv'
  <2>0. ASSUME NEW r, tx' = [tx EXCEPT ![c] = r]
        PROVE  tx'[c] = r /\ \A d \in Clients \ {c} : tx'[d] = tx[d]
    BY <2>0 DEF TypeOK
  <2>1. CASE Begin(c) \/ RetrySerialization(c)
    <3>1. /\ tx[c].phase # "answered" /\ tx' = [tx EXCEPT ![c] = Fresh]
          /\ UNCHANGED <<intent, managed, answer>>
      BY <2>1 DEF Begin, RetrySerialization, Committed
    <3>2. tx'[c] = Fresh /\ \A d \in Clients \ {c} : tx'[d] = tx[d]
      BY <2>0, <3>1
    <3> QED BY <3>1, <3>2, SerialKept DEF Fresh, SerialInv
  <2>2. CASE FailUnique(c) \/ Kill(c)
    <3>1. /\ tx[c].phase # "answered" /\ tx' = [tx EXCEPT ![c] = Idle("ready")]
          /\ UNCHANGED <<intent, managed, answer>>
      BY <2>2 DEF FailUnique, Kill, Committed
    <3>2. tx'[c] = Idle("ready") /\ \A d \in Clients \ {c} : tx'[d] = tx[d]
      BY <2>0, <3>1
    <3> QED BY <3>1, <3>2, SerialKept DEF Idle, SerialInv
  <2>3. CASE RunHandler(c)
    <3>1. UNCHANGED <<intent, managed, answer>> /\ tx[c].phase = "open"
      BY <2>3 DEF RunHandler, Committed
    <3>2. /\ \A d \in Clients \ {c} : tx'[d] = tx[d]
          /\ tx'[c].managed = tx[c].managed
          /\ tx'[c].outcome = "E_STATE" => BodyOf(c) \in tx[c].managed
      BY <2>3 DEF RunHandler, TypeOK, Requests
    <3> QED BY <3>1, <3>2, SerialKept DEF SerialInv
  <2>4. CASE ReplyFromInbox(c) \/ Commit(c)
    <3>1. /\ tx' = [tx EXCEPT ![c] = Idle("answered")] /\ UNCHANGED intent
          /\ managed \subseteq managed'
      BY <2>4 DEF ReplyFromInbox, Commit, Apply, Answered, Committed
    <3>2. \A d \in Clients \ {c} : answer'[d] = answer[d]
      BY <2>4 DEF ReplyFromInbox, Commit, Answered, TypeOK
    <3>3. tx'[c] = Idle("answered") /\ \A d \in Clients \ {c} : tx'[d] = tx[d]
      BY <2>0, <3>1
    <3> QED BY <3>1, <3>2, <3>3, SerialKept DEF Idle
  <2>5. CASE CommitUnheard(c)
    <3>1. /\ tx' = [tx EXCEPT ![c] = Idle("ready")] /\ UNCHANGED <<intent, answer>>
          /\ managed \subseteq managed' /\ tx[c].phase = "ran"
      BY <2>5 DEF CommitUnheard, Apply
    <3>2. tx'[c] = Idle("ready") /\ \A d \in Clients \ {c} : tx'[d] = tx[d]
      BY <2>0, <3>1
    <3> QED BY <3>1, <3>2, SerialKept DEF Idle, SerialInv
  <2> QED BY <1>1, <2>1, <2>2, <2>3, <2>4, <2>5 DEF Serve
<1>2. CASE (\E upto \in 1..MaxId : Poll(upto)) \/ UNCHANGED vars
  <2>1. UNCHANGED <<intent, tx, managed, answer>>
    BY <1>2 DEF Poll, Committed, vars
  <2> QED BY <2>1 DEF SerialInv, BodyOf
<1> QED BY <1>1, <1>2 DEF Next

\* One more event is one more effect.
LEMMA EffectsGrow ==
  ASSUME NEW events, NEW e
  PROVE  Effects(events \cup {e}) = Effects(events) \cup {[key |-> e.key, body |-> e.body]}
  BY DEF Effects

\* A commit is the execution of its command at that moment, although its
\* handler ran earlier and on an older snapshot.
LEMMA CommitExecutes ==
  ASSUME TypeOK, SerialInv, NEW c \in Clients, Apply(c), UNCHANGED <<intent, delivered>>,
         \/ answer' = [answer EXCEPT ![c] = [status |-> "first", outcome |-> tx[c].outcome]]
         \/ UNCHANGED answer
  PROVE  Atomic!Execute(c)
<1>0. /\ KeyOf(c) \in Keys /\ BodyOf(c) \in Tasks /\ tx[c].outcome \in {"ok", "E_STATE"}
      /\ tx[c].phase = "ran"
  BY KeysTyped DEF Apply
<1>1. Atomic!Waits(c) /\ inbox[KeyOf(c)] = Nothing
  BY <1>0 DEF SerialInv, Atomic!Waits, Apply, KeyTaken
<1>2. CASE tx[c].outcome = "ok"
  <2>1. BodyOf(c) \notin managed /\ Atomic!Outcome(BodyOf(c)) = tx[c].outcome
    BY <1>2 DEF Apply, RowConflict, Atomic!Outcome
  <2>2. managed' = managed \cup {BodyOf(c)}
    BY <1>2 DEF Apply
  <2>3. Effects(outbox') = Effects(outbox) \cup {[key |-> KeyOf(c), body |-> BodyOf(c)]}
    <3> DEFINE new == [id |-> tx[c].id, key |-> KeyOf(c), body |-> BodyOf(c)]
    <3>1. outbox' = outbox \cup {new} /\ new.key = KeyOf(c) /\ new.body = BodyOf(c)
      BY <1>2 DEF Apply
    <3> HIDE DEF new
    <3> QED BY <3>1, EffectsGrow
  <2>4. {[key |-> KeyOf(c), body |-> b] : b \in {BodyOf(c)} \ managed}
          = {[key |-> KeyOf(c), body |-> BodyOf(c)]}
    BY <2>1
  <2>5. Effects(outbox)' = Effects(outbox')
    BY DEF Effects
  <2> QED BY <1>1, <2>1, <2>2, <2>3, <2>4, <2>5
          DEF Apply, Row, KeyOf, BodyOf, Atomic!Execute, Atomic!Tells, Effects
<1>3. CASE tx[c].outcome = "E_STATE"
  <2>1. BodyOf(c) \in managed /\ Atomic!Outcome(BodyOf(c)) = tx[c].outcome
    BY <1>0, <1>3 DEF SerialInv, Atomic!Outcome
  <2>2. UNCHANGED <<managed, outbox>> /\ managed = managed \cup {BodyOf(c)}
    BY <1>3, <2>1 DEF Apply
  <2>3. {[key |-> KeyOf(c), body |-> b] : b \in {BodyOf(c)} \ managed} = {}
    BY <2>1
  <2> QED BY <1>1, <2>1, <2>2, <2>3
          DEF Apply, Row, KeyOf, BodyOf, Atomic!Execute, Atomic!Tells, Effects
<1> QED BY <1>0, <1>2, <1>3

\* A reply from the inbox, read on an old snapshot, tells what is recorded now.
LEMMA ReplyRecalls ==
  ASSUME TypeOK, AnswersInv, SerialInv, NEW c \in Clients, ReplyFromInbox(c)
  PROVE  Atomic!Recall(c)
<1>1. KeyOf(c) \in Keys /\ inbox[KeyOf(c)] = Prior(c) /\ Prior(c) # Nothing
  BY KeysTyped DEF ReplyFromInbox, Prior, AnswersInv
<1>2. Atomic!Waits(c)
  BY DEF ReplyFromInbox, SerialInv, Atomic!Waits
<1> QED BY <1>1, <1>2
        DEF ReplyFromInbox, Answered, Committed, Consumer, KeyOf, BodyOf,
            Atomic!Recall, Atomic!Tells, Effects

\* What the consumer reads was committed.
LEMMA PollShows ==
  ASSUME OutboxIsTransactional, NEW upto \in 1..MaxId, Poll(upto)
  PROVE  Atomic!Show
<1>1. delivered \subseteq delivered' /\ delivered' \subseteq outbox /\ outbox' = outbox
  BY DEF Poll, OutboxIsTransactional, Committed
<1>2. Effects(delivered) \subseteq Effects(delivered') /\ Effects(delivered') \subseteq Effects(outbox)
  BY <1>1 DEF Effects
<1>3. Effects(delivered)' = Effects(delivered') /\ Effects(outbox)' = Effects(outbox)
  BY <1>1 DEF Effects
<1> QED BY <1>2, <1>3 DEF Poll, Committed, Atomic!Show

\* Overlapping transactions on old snapshots, with retries, kills and lost
\* answers, implement commands that are executed one after another.
THEOREM DispatchImplementsAtomicCommands == Spec => ImplementsAtomicCommands
<1>1. Init => Atomic!Init
  BY DEF Init, NoAnswer, Atomic!Init, Atomic!Untold, Effects
<1>2. DispatchInv /\ AnswersInv /\ SerialInv /\ [Next]_vars => [Atomic!Next]_(Atomic!vars)
  <2> SUFFICES ASSUME DispatchInv, AnswersInv, SerialInv, [Next]_vars
               PROVE  Atomic!Next \/ UNCHANGED Atomic!vars
    OBVIOUS
  <2>0. TypeOK /\ OutboxIsTransactional
    BY DEF DispatchInv
  <2>1. ASSUME NEW c \in Clients, Serve(c) \/ CommitUnheard(c) \/ Kill(c)
        PROVE  Atomic!Execute(c) \/ Atomic!Recall(c) \/ UNCHANGED Atomic!vars
    <3>1. CASE Commit(c)
      BY <2>0, <3>1, CommitExecutes DEF Commit, Answered, Consumer
    <3>2. CASE CommitUnheard(c)
      BY <2>0, <3>2, CommitExecutes DEF CommitUnheard, Consumer
    <3>3. CASE ReplyFromInbox(c)
      BY <2>0, <3>3, ReplyRecalls
    <3>4. CASE Begin(c) \/ RunHandler(c) \/ RetrySerialization(c) \/ FailUnique(c) \/ Kill(c)
      BY <3>4 DEF Begin, RunHandler, RetrySerialization, FailUnique, Kill, Committed, Consumer,
                  Atomic!vars, Effects
    <3> QED BY <2>1, <3>1, <3>2, <3>3, <3>4 DEF Serve
  <2>2. ASSUME NEW upto \in 1..MaxId, Poll(upto) PROVE Atomic!Show
    BY <2>0, <2>2, PollShows
  <2>3. CASE UNCHANGED vars
    BY <2>3 DEF vars, Atomic!vars, Effects
  <2> QED BY <2>1, <2>2, <2>3 DEF Next, Atomic!Next
<1>3. DispatchInv => TypeOK
  BY DEF DispatchInv
<1> QED BY <1>1, <1>2, <1>3, DispatchInit, DispatchInductive, AnswersInit, AnswersStep,
           SerialInit, SerialStep, PTL DEF Spec, ImplementsAtomicCommands, Atomic!Spec
-----------------------------------------------------------------------------
(* Delivery                                                                *)

\* The consumer does not read up to an id while one drawn before it may still
\* be committed.
PatientReads ==
  \A upto \in 1..MaxId : Poll(upto) => \A c \in Clients : Drawn(c) => upto < tx[c].id

\* What is at or behind the cursor was delivered, and nothing will appear there.
CursorInv ==
  /\ DeliveredAtLeastOnce
  /\ cursor <= lastId
  /\ \A c \in Clients : Drawn(c) => cursor < tx[c].id

\* A step that leaves the consumer alone, and adds no event but a drawn one.
LEMMA CursorKept ==
  ASSUME TypeOK, CursorInv, UNCHANGED <<cursor, delivered>>,
         lastId' \in {lastId, lastId + 1},
         \A e \in outbox' \ outbox : e.id \in Nat /\ cursor < e.id,
         \A c \in Clients : Drawn(c)' => tx'[c].id = lastId + 1
                                         \/ (Drawn(c) /\ tx'[c].id = tx[c].id)
  PROVE  CursorInv'
<1>1. lastId \in Nat /\ cursor \in Nat /\ \A e \in outbox : e.id \in Nat
  BY DispatchAssumption DEF TypeOK, Events
<1>2. cursor' <= lastId'
  BY <1>1 DEF CursorInv
<1>3. \A c \in Clients : Drawn(c)' => cursor' < tx'[c].id
  BY <1>1 DEF CursorInv
<1>4. \A e \in outbox' : e.id <= cursor => e \in outbox
  BY <1>1
<1> QED BY <1>2, <1>3, <1>4 DEF CursorInv, DeliveredAtLeastOnce

\* The cursor stays behind whatever may still be committed.
LEMMA CursorStep ==
  DispatchInv /\ CursorInv /\ [Next]_vars /\ PatientReads => CursorInv'
<1> SUFFICES ASSUME DispatchInv, CursorInv, [Next]_vars, PatientReads PROVE CursorInv'
  OBVIOUS
<1>0. TypeOK /\ IdsFresh
  BY DEF DispatchInv
<1>1. ASSUME NEW c \in Clients, Serve(c) \/ CommitUnheard(c) \/ Kill(c) PROVE CursorInv'
  <2>1. CASE Begin(c) \/ RetrySerialization(c)
    <3>1. tx' = [tx EXCEPT ![c] = Fresh] /\ UNCHANGED <<outbox, lastId, cursor, delivered>>
      BY <2>1 DEF Begin, RetrySerialization, Committed, Consumer
    <3>2. \A d \in Clients : Drawn(d)' => Drawn(d) /\ tx'[d].id = tx[d].id
      BY <1>0, <3>1 DEF Drawn, Fresh, TypeOK
    <3> QED BY <1>0, <3>1, <3>2, CursorKept
  <2>2. CASE ReplyFromInbox(c) \/ FailUnique(c) \/ Kill(c)
    <3>1. /\ \E phase \in {"ready", "answered"} : tx' = [tx EXCEPT ![c] = Idle(phase)]
          /\ UNCHANGED <<outbox, lastId, cursor, delivered>>
      BY <2>2 DEF ReplyFromInbox, FailUnique, Kill, Answered, Committed, Consumer
    <3>2. \A d \in Clients : Drawn(d)' => Drawn(d) /\ tx'[d].id = tx[d].id
      BY <1>0, <3>1 DEF Drawn, Idle, TypeOK
    <3> QED BY <1>0, <3>1, <3>2, CursorKept
  <2>3. CASE RunHandler(c)
    <3>1. UNCHANGED <<outbox, cursor, delivered>>
      BY <2>3 DEF RunHandler, Committed, Consumer
    <3>2. \A d \in Clients \ {c} : tx'[d] = tx[d]
      BY <1>0, <2>3 DEF RunHandler, TypeOK
    <3>3. /\ lastId' \in {lastId, lastId + 1}
          /\ Drawn(c)' => tx'[c].id = lastId + 1
      BY <1>0, <2>3 DEF RunHandler, TypeOK, Requests, Drawn
    <3>4. \A d \in Clients : Drawn(d)' => tx'[d].id = lastId + 1
                                          \/ (Drawn(d) /\ tx'[d].id = tx[d].id)
      BY <3>2, <3>3 DEF Drawn
    <3>5. outbox' \ outbox = {}
      BY <3>1
    <3> QED BY <1>0, <3>1, <3>3, <3>4, <3>5, CursorKept
  <2>4. CASE Commit(c) \/ CommitUnheard(c)
    <3>1. /\ Apply(c) /\ \E phase \in {"ready", "answered"} : tx' = [tx EXCEPT ![c] = Idle(phase)]
          /\ UNCHANGED <<lastId, cursor, delivered>>
      BY <2>4 DEF Commit, CommitUnheard, Answered, Consumer
    <3>2. \A d \in Clients : Drawn(d)' => Drawn(d) /\ tx'[d].id = tx[d].id
      BY <1>0, <3>1 DEF Drawn, Idle, TypeOK
    <3>3. \A e \in outbox' \ outbox : e.id \in Nat /\ cursor < e.id
      <4>1. \A e \in outbox' \ outbox : Drawn(c) /\ e.id = tx[c].id
        BY <3>1 DEF Apply, Drawn
      <4>2. tx[c].id \in Nat
        BY <1>0, DispatchAssumption DEF TypeOK, Requests
      <4> QED BY <4>1, <4>2 DEF CursorInv
    <3> QED BY <1>0, <3>1, <3>2, <3>3, CursorKept
  <2> QED BY <1>1, <2>1, <2>2, <2>3, <2>4 DEF Serve
<1>2. ASSUME NEW upto \in 1..MaxId, Poll(upto) PROVE CursorInv'
  <2>1. /\ cursor' = upto /\ UNCHANGED <<tx, outbox, lastId>>
        /\ delivered' = delivered \cup {e \in outbox : cursor < e.id /\ e.id <= upto}
    BY <1>2 DEF Poll, Committed
  <2>2. upto <= lastId
    BY <1>0, <1>2 DEF Poll, IdsFresh
  <2>3. \A e \in outbox' : e.id <= cursor' => e \in delivered'
    <3>1. cursor \in Nat /\ \A e \in outbox : e.id \in Nat
      BY <1>0, DispatchAssumption DEF TypeOK, Events
    <3> QED BY <2>1, <3>1 DEF CursorInv, DeliveredAtLeastOnce
  <2>4. \A c \in Clients : Drawn(c)' => cursor' < tx'[c].id
    BY <1>2, <2>1 DEF PatientReads, Drawn
  <2> QED BY <2>1, <2>2, <2>3, <2>4 DEF CursorInv, DeliveredAtLeastOnce
<1>3. CASE UNCHANGED vars
  BY <1>3 DEF vars, CursorInv, DeliveredAtLeastOnce, Drawn
<1> QED BY <1>1, <1>2, <1>3 DEF Next

\* A consumer that never reads past an id that is drawn and not committed is
\* given every event: reads that do are the only way in which list_outbox
\* loses one.
THEOREM PatientReaderMissesNothing ==
  Spec /\ [][PatientReads]_vars => []DeliveredAtLeastOnce
<1>1. Init => CursorInv
  BY DEF Init, CursorInv, DeliveredAtLeastOnce, Drawn, Idle
<1>2. CursorInv => DeliveredAtLeastOnce
  BY DEF CursorInv
<1>3. DispatchInv /\ CursorInv /\ [Next]_vars /\ [PatientReads]_vars => CursorInv'
  <2>1. DispatchInv /\ CursorInv /\ UNCHANGED vars => CursorInv'
    BY DEF vars, CursorInv, DeliveredAtLeastOnce, Drawn
  <2> QED BY <2>1, CursorStep
<1> QED BY <1>1, <1>2, <1>3, DispatchInit, DispatchInductive, PTL DEF Spec
=============================================================================
