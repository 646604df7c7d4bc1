---------------------------- MODULE AtomicCommands ----------------------------
(***************************************************************************)
(* What the dispatch of commands promises to its callers, without          *)
(* transactions, snapshots or retries: commands are executed one after     *)
(* another, each completely or not at all; a key is executed once and its  *)
(* outcome kept; whoever asks again is told that outcome, or that the key  *)
(* belongs to another request; nobody is shown an event before its effect. *)
(***************************************************************************)
CONSTANTS Clients, Keys, Tasks, Nothing

VARIABLES
  intent,     \* intent[c]: the key and body client c sends
  changed,    \* the tasks that a command changed
  done,       \* done[k]: what was executed under key k, and its outcome
  published,  \* the events: which key had which effect
  told,       \* told[c]: what client c was answered
  seen        \* the events a reader was shown

vars == <<intent, changed, done, published, told, seen>>

Untold == [status |-> "none", outcome |-> "ok"]

Init ==
  /\ intent \in [Clients -> [key : Keys, body : Tasks]]
  /\ changed = {}
  /\ done = [k \in Keys |-> Nothing]
  /\ published = {}
  /\ told = [c \in Clients |-> Untold]
  /\ seen = {}

Waits(c) == told[c].status = "none"

\* The outcome of the one execution of a command, given those before it.
Outcome(body) == IF body \in changed THEN "E_STATE" ELSE "ok"

Tells(c, status, outcome) == told' = [told EXCEPT ![c] = [status |-> status, outcome |-> outcome]]

\* The command of c is executed; c may never hear of it.
Execute(c) ==
  LET key == intent[c].key
      body == intent[c].body
  IN  /\ Waits(c)
      /\ done[key] = Nothing
      /\ done' = [done EXCEPT ![key] = [body |-> body, outcome |-> Outcome(body)]]
      /\ changed' = changed \cup {body}
      /\ published' = published \cup {[key |-> key, body |-> b] : b \in {body} \ changed}
      /\ Tells(c, "first", Outcome(body)) \/ UNCHANGED told
      /\ UNCHANGED <<intent, seen>>

\* The key of c was used: by this command, or by another one.
Recall(c) ==
  LET prior == done[intent[c].key]
  IN  /\ Waits(c)
      /\ prior # Nothing
      /\ IF prior.body = intent[c].body
         THEN Tells(c, "replay", prior.outcome)
         ELSE Tells(c, "conflict", "ok")
      /\ UNCHANGED <<intent, changed, done, published, seen>>

Show ==
  /\ seen' \in SUBSET published
  /\ seen \subseteq seen'
  /\ UNCHANGED <<intent, changed, done, published, told>>

Next == Show \/ \E c \in Clients : Execute(c) \/ Recall(c)

Spec == Init /\ [][Next]_vars
=============================================================================
