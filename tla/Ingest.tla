-------------------------------- MODULE Ingest --------------------------------
(***************************************************************************)
(* Ingest of messages into memory items (aipm/engine/pipeline.py and its   *)
(* sources).  The chatter of Odoo is polled behind a cursor by one thread  *)
(* at a time, which holds ingest_lock; messages of the gateway and of the  *)
(* chat are ingested by threads of their own, without it.                  *)
(*                                                                         *)
(* One ingest is a read of the log, calls of the model, and one            *)
(* transaction.  What the model extracts differs from call to call, and a  *)
(* content stands for its content_hash.  Rows of memory_item that are      *)
(* retracted are read by nobody and are left out of the set of items.      *)
(***************************************************************************)
EXTENDS Naturals, FiniteSets, FiniteSetsExt

CONSTANTS
  MaxMessage,   \* ids of mail.message are 1..MaxMessage
  Direct,       \* sources of the gateway and of the chat
  Unmapped,     \* those whose author key is not in identity_map
  Contents,     \* what the model may extract
  Poller,       \* the thread that holds ingest_lock
  Threads,      \* the threads of the gateway and of the chat
  MaxAttempts,  \* INGEST_MAX_ATTEMPTS
  BatchLimit,   \* the limit of one poll
  MaxReplays,   \* bound: replays
  MaxItems      \* bound: items; past it an item is dropped

ASSUME IngestAssumption ==
  /\ MaxMessage \in Nat /\ MaxReplays \in Nat /\ MaxItems \in Nat
  /\ MaxAttempts \in Nat \ {0} /\ BatchLimit \in Nat \ {0}
  /\ IsFiniteSet(Contents)
  /\ Poller \notin Threads
  /\ Direct \cap Nat = {} /\ Unmapped \subseteq Direct

Messages == 1..MaxMessage
Sources == Messages \cup Direct
Workers == Threads \cup {Poller}

VARIABLES
  visible,    \* external: the messages whose transaction has committed in Odoo
  seeded,     \* whether ingest_cursor has its row
  cursor,     \* last_message_id
  log,        \* log[s]: the ingest_log row of source s
  items,      \* the rows of memory_item that are not retracted
  strangers,  \* unmapped authors recorded as external entities
  lock,       \* what the holder of ingest_lock is doing
  batch,      \* the polled messages it has still to ingest
  worker,     \* worker[w]: the ingest that w has under way
  replays,
  seed,       \* auxiliary: the cursor as it was seeded
  late,       \* auxiliary: messages that became visible behind a poll
  replayed,   \* auxiliary: messages replayed after the cursor passed them
  withdrawn   \* auxiliary: messages withdrawn by a replay and not decided since

odoo == <<visible, late>>
history == <<seed, late, replayed, withdrawn>>
vars == <<visible, seeded, cursor, log, items, strangers, lock, batch, worker,
          replays, history>>

Statuses == {"done", "extract_failed", "no_items", "retrying", "error", "privacy_blocked"}
LogRows == [status : Statuses \cup {"none"}, attempts : 0..MaxAttempts, count : Nat]
Items == [source : Sources, content : Contents, take : Nat,
          status : {"active", "resolved"}, vector : BOOLEAN]

NoRow == [status |-> "none", attempts |-> 0, count |-> 0]
Idle == [phase |-> "idle"]

Init ==
  /\ visible \in SUBSET Messages
  /\ seeded = FALSE /\ cursor = 0
  /\ log = [s \in Sources |-> NoRow]
  /\ items = {} /\ strangers = {}
  /\ lock = "free" /\ batch = {}
  /\ worker = [w \in Workers |-> Idle]
  /\ replays = 0
  /\ seed = 0 /\ late = {} /\ replayed = {} /\ withdrawn = {}

Of(s) == {i \in items : i.source = s}
Settled(s) == log[s].status \notin {"none", "retrying"}

-----------------------------------------------------------------------------
(* Odoo: an id is drawn when a message is written and is seen when its     *)
(* transaction commits, so a smaller id may become visible after a larger. *)

Appear(m) ==
  /\ m \notin visible
  /\ visible' = visible \cup {m}
  /\ late' = IF m <= cursor \/ \E n \in batch : m < n THEN late \cup {m} ELSE late
  /\ UNCHANGED <<seeded, cursor, log, items, strangers, lock, batch, worker,
                 replays, seed, replayed, withdrawn>>

-----------------------------------------------------------------------------
(* ingest_message(source_type, source_ref, ...)                            *)

Doing(w, r) == worker' = [worker EXCEPT ![w] = r]

\* The holder of the lock goes on to its cursor, a replay or a thread ends.
Answered(w, s) ==
  IF w = Poller /\ lock = "cycle"
    THEN Doing(w, [phase |-> "advance", source |-> s]) /\ UNCHANGED <<lock, batch>>
    ELSE /\ Doing(w, Idle)
         /\ lock' = IF w = Poller THEN "free" ELSE lock
         /\ UNCHANGED batch

\* The source has its log row now, whatever it was.
UpsertLog(s, status, attempts, count) ==
  /\ log' = [log EXCEPT ![s] = [status |-> status, attempts |-> attempts, count |-> count]]
  /\ withdrawn' = IF status = "retrying" THEN withdrawn ELSE withdrawn \ {s}

\* 1. A source with a row other than retrying is skipped.
ReadLog(w, s) ==
  /\ IF Settled(s)
       THEN Answered(w, s)
       ELSE /\ Doing(w, [phase |-> "extract", source |-> s, attempts |-> log[s].attempts])
            /\ UNCHANGED <<lock, batch>>
  /\ UNCHANGED <<visible, seeded, cursor, log, items, strangers, replays, history>>

\* Mutant of ExtractTransient: attempts are counted and never capped.
ExtractTransientUncapped(w) ==
  /\ worker[w].phase = "extract"
  /\ UpsertLog(worker[w].source, "retrying", worker[w].attempts + 1, 0)
  /\ Doing(w, Idle)
  /\ batch' = IF w = Poller THEN {} ELSE batch
  /\ lock' = IF w = Poller /\ lock = "replay" THEN "free" ELSE lock
  /\ UNCHANGED <<visible, seeded, cursor, items, strangers, replays,
                 seed, late, replayed>>

\* Mutant of ExtractTransient: the attempt is not counted.
ExtractTransientUncounted(w) ==
  /\ worker[w].phase = "extract"
  /\ UpsertLog(worker[w].source, "retrying", worker[w].attempts, 0)
  /\ Doing(w, Idle)
  /\ batch' = IF w = Poller THEN {} ELSE batch
  /\ lock' = IF w = Poller /\ lock = "replay" THEN "free" ELSE lock
  /\ UNCHANGED <<visible, seeded, cursor, items, strangers, replays,
                 seed, late, replayed>>

\* 2. The model is unreachable: an attempt more than were read, up to the
\* cap.  Under the cap the poller leaves the rest of its batch.
ExtractTransient(w) ==
  LET s == worker[w].source
      n == worker[w].attempts + 1 IN
  /\ worker[w].phase = "extract"
  /\ IF n >= MaxAttempts
       THEN UpsertLog(s, "error", n, 0) /\ Answered(w, s)
       ELSE /\ UpsertLog(s, "retrying", n, 0)
            /\ Doing(w, Idle)
            /\ batch' = IF w = Poller THEN {} ELSE batch
            /\ lock' = IF w = Poller /\ lock = "replay" THEN "free" ELSE lock
  /\ UNCHANGED <<visible, seeded, cursor, items, strangers, replays,
                 seed, late, replayed>>

RecordUnknownAuthor(s) == strangers' = strangers \cup ({s} \cap Unmapped)

\* An invalid answer, also after the repair, or nothing worth recording.
ExtractNothing(w) ==
  LET s == worker[w].source IN
  /\ worker[w].phase = "extract"
  /\ \/ UpsertLog(s, "extract_failed", worker[w].attempts, 0) /\ UNCHANGED strangers
     \/ /\ UpsertLog(s, "no_items", worker[w].attempts, 0)
        /\ RecordUnknownAuthor(s)
  /\ Answered(w, s)
  /\ UNCHANGED <<visible, seeded, cursor, items, replays, seed, late, replayed>>

ExtractItems(w, found) ==
  /\ worker[w].phase = "extract"
  /\ Doing(w, [phase |-> "write", source |-> worker[w].source,
               attempts |-> worker[w].attempts, found |-> found])
  /\ UNCHANGED <<visible, seeded, cursor, log, items, strangers, lock, batch,
                 replays, history>>

\* Auxiliary: the ingests of s that left items, and this one.
NextTake(s) == 1 + Max({0} \cup {i.take : i \in Of(s)})

\* The unique index on content_hash is over the active items.
HashTaken(c) == \E i \in items : i.status = "active" /\ i.content = c

\* 3-6. One transaction with a savepoint per item.  The unique index on the
\* hash of active items drops an item, and so may the semantic dedup and the
\* constraints of its anchors; without embeddings the vector stays NULL.
WriteItems(w, kept, vector) ==
  LET s == worker[w].source IN
  /\ worker[w].phase = "write"
  /\ kept \subseteq worker[w].found
  /\ \A c \in kept : ~HashTaken(c)
  /\ Cardinality(items) + Cardinality(kept) <= MaxItems
  /\ items' = items \cup
       [source : {s}, content : kept, take : {NextTake(s)}, status : {"active"}, vector : {vector}]
  /\ RecordUnknownAuthor(s)
  /\ UpsertLog(s, "done", worker[w].attempts, Cardinality(kept))
  /\ Answered(w, s)
  /\ UNCHANGED <<visible, seeded, cursor, replays, seed, late, replayed>>

\* The rescoring model or Odoo is unreachable while the items are resolved:
\* the transaction rolls back, nothing is counted, and the error ends the
\* cycle, the replay or the thread.
ResolutionFails(w) ==
  /\ worker[w].phase = "write"
  /\ Doing(w, Idle)
  /\ IF w = Poller THEN lock' = "free" /\ batch' = {} ELSE UNCHANGED <<lock, batch>>
  /\ UNCHANGED <<visible, seeded, cursor, log, items, strangers, replays, history>>

\* The service stops and starts again.
Crash ==
  /\ \E w \in Workers : worker[w] # Idle
  /\ worker' = [w \in Workers |-> Idle]
  /\ lock' = "free" /\ batch' = {}
  /\ UNCHANGED <<visible, seeded, cursor, log, items, strangers, replays, history>>

-----------------------------------------------------------------------------
(* run_cycle: poll, ingest in the order of ids, backfill.                  *)

StartCycle ==
  /\ lock = "free"
  /\ lock' = "cycle"
  /\ Doing(Poller, [phase |-> "poll"])
  /\ UNCHANGED <<visible, seeded, cursor, log, items, strangers, batch, replays, history>>

\* The n smallest of S.
Smallest(n, S) == {m \in S : Cardinality({k \in S : k < m}) < n}

\* The first cycle starts from the present: history is not ingested.
SeedCursor ==
  /\ worker[Poller].phase = "poll" /\ ~seeded
  /\ seeded' = TRUE
  /\ cursor' = Max({0} \cup visible) /\ seed' = cursor'
  /\ UNCHANGED <<odoo, log, items, strangers, lock, batch, worker,
                 replays, replayed, withdrawn>>

Poll ==
  /\ worker[Poller].phase = "poll" /\ seeded
  /\ batch' = Smallest(BatchLimit, {m \in visible : m > cursor})
  /\ Doing(Poller, Idle)
  /\ UNCHANGED <<visible, seeded, cursor, log, items, strangers, lock, replays, history>>

\* Odoo cannot be reached for the seed or for the poll: the cycle is over.
PollFails ==
  /\ worker[Poller].phase = "poll"
  /\ Doing(Poller, Idle) /\ lock' = "free"
  /\ UNCHANGED <<visible, seeded, cursor, log, items, strangers, batch, replays, history>>

NextMessage ==
  /\ lock = "cycle" /\ worker[Poller] = Idle /\ batch # {}
  /\ ReadLog(Poller, Min(batch))

\* Mutant of AdvanceCursor: the cursor is moved once, to the end of the poll.
AdvanceCursorPastTheBatch ==
  /\ worker[Poller].phase = "advance"
  /\ cursor' = Max(batch \cup {cursor})
  /\ batch' = batch \ {worker[Poller].source}
  /\ Doing(Poller, Idle)
  /\ UNCHANGED <<visible, seeded, log, items, strangers, lock, replays, history>>

AdvanceCursor ==
  /\ worker[Poller].phase = "advance"
  /\ cursor' = Max({cursor, worker[Poller].source})
  /\ batch' = batch \ {worker[Poller].source}
  /\ Doing(Poller, Idle)
  /\ UNCHANGED <<visible, seeded, log, items, strangers, lock, replays, history>>

\* The rows without a vector are read once, in one transaction with their
\* updates, and the embedding service is called in between.
BackfillRead ==
  /\ lock = "cycle" /\ worker[Poller] = Idle /\ batch = {}
  /\ Doing(Poller, [phase |-> "backfill",
                    rows |-> {i \in items : i.status = "active" /\ ~i.vector}])
  /\ UNCHANGED <<visible, seeded, cursor, log, items, strangers, lock, batch,
                 replays, history>>

\* The semantic dedup compares with the active items that have a vector.
Comparable(R) == {i \in R : i.status = "active" /\ i.vector}

\* Each update names its row by its id only.  embedded gets vectors, duplicate
\* is retracted for another active item; the rest waits for the next cycle.
BackfillWrite ==
  /\ worker[Poller].phase = "backfill"
  /\ \E embedded \in SUBSET worker[Poller].rows :
     \E duplicate \in SUBSET (worker[Poller].rows \ embedded) :
       LET Row(R) == {i \in items : \E r \in R : i = [r EXCEPT !.status = i.status, !.vector = i.vector]}
           left == items \ Row(duplicate) IN
       /\ items' = (left \ Row(embedded)) \cup {[i EXCEPT !.vector = TRUE] : i \in Row(embedded)}
       /\ duplicate # {} => Comparable(items') # {}
  /\ Doing(Poller, Idle) /\ lock' = "free"
  /\ UNCHANGED <<visible, seeded, cursor, log, strangers, batch, replays, history>>

-----------------------------------------------------------------------------
(* Replay of a chatter message: it is read again, its items are retracted  *)
(* and its log row is deleted in one transaction, and it is ingested.      *)

\* Mutant of Replay: the items of the source stay.
ReplayKeepingItems(m) ==
  /\ lock = "free" /\ m \in visible
  /\ replays < MaxReplays /\ replays' = replays + 1
  /\ log' = [log EXCEPT ![m] = NoRow]
  /\ lock' = "replay"
  /\ Doing(Poller, [phase |-> "read", source |-> m])
  /\ withdrawn' = withdrawn \cup {m}
  /\ replayed' = IF m <= cursor THEN replayed \cup {m} ELSE replayed
  /\ UNCHANGED <<visible, seeded, cursor, items, strangers, batch, seed, late>>

\* Mutant of Replay: the log row of the source stays.
ReplayKeepingTheLog(m) ==
  /\ lock = "free" /\ m \in visible
  /\ replays < MaxReplays /\ replays' = replays + 1
  /\ items' = items \ Of(m)
  /\ lock' = "replay"
  /\ Doing(Poller, [phase |-> "read", source |-> m])
  /\ withdrawn' = withdrawn \cup {m}
  /\ replayed' = IF m <= cursor THEN replayed \cup {m} ELSE replayed
  /\ UNCHANGED <<visible, seeded, cursor, log, strangers, batch, seed, late>>

Replay(m) ==
  /\ lock = "free" /\ m \in visible
  /\ replays < MaxReplays /\ replays' = replays + 1
  /\ items' = items \ Of(m)
  /\ log' = [log EXCEPT ![m] = NoRow]
  /\ lock' = "replay"
  /\ Doing(Poller, [phase |-> "read", source |-> m])
  /\ withdrawn' = withdrawn \cup {m}
  /\ replayed' = IF m <= cursor THEN replayed \cup {m} ELSE replayed
  /\ UNCHANGED <<visible, seeded, cursor, strangers, batch, seed, late>>

ReplayIngest ==
  /\ worker[Poller].phase = "read"
  /\ ReadLog(Poller, worker[Poller].source)

-----------------------------------------------------------------------------
(* The gateway and the chat, which may deliver a message again.            *)

Deliver(w, s) ==
  /\ worker[w] = Idle
  /\ ReadLog(w, s)

\* The privacy gate is passed before anything is stored of the text; it
\* writes its row over any other.
Blocked(s) ==
  /\ UpsertLog(s, "privacy_blocked", 0, 0)
  /\ UNCHANGED <<visible, seeded, cursor, items, strangers, lock, batch, worker,
                 replays, seed, late, replayed>>

-----------------------------------------------------------------------------
(* People at the review page.                                              *)

Resolve(i) ==
  /\ i.status = "active"
  /\ items' = (items \ {i}) \cup {[i EXCEPT !.status = "resolved"]}
  /\ UNCHANGED <<odoo, seeded, cursor, log, strangers, lock, batch, worker,
                 replays, seed, replayed, withdrawn>>

Retract(i) ==
  /\ items' = items \ {i}
  /\ UNCHANGED <<odoo, seeded, cursor, log, strangers, lock, batch, worker,
                 replays, seed, replayed, withdrawn>>

-----------------------------------------------------------------------------

Ingest(w) ==
  \/ ExtractTransient(w) \/ ExtractNothing(w) \/ ResolutionFails(w)
  \/ \E found \in (SUBSET Contents) \ {{}} : ExtractItems(w, found)
  \/ \E kept \in SUBSET Contents, vector \in BOOLEAN : WriteItems(w, kept, vector)

Cycle ==
  \/ StartCycle \/ SeedCursor \/ Poll \/ PollFails
  \/ NextMessage \/ AdvanceCursor \/ BackfillRead \/ BackfillWrite
  \/ ReplayIngest

Environment ==
  \/ \E m \in Messages : Appear(m) \/ Replay(m)
  \/ \E s \in Direct : Blocked(s) \/ \E w \in Threads : Deliver(w, s)
  \/ \E i \in items : Resolve(i) \/ Retract(i)

Next == Crash \/ Cycle \/ Environment \/ \E w \in Workers : Ingest(w)

Spec == Init /\ [][Next]_vars

(* The ingest loop of the service starts a cycle after the other, whatever *)
(* the last one raised, and its calls time out.                            *)
FairSpec == Spec /\ WF_vars(Cycle) /\ WF_vars(Ingest(Poller))

-----------------------------------------------------------------------------
(* Properties.                                                             *)

(* The tables and the ingests under way have their shapes, and only the    *)
(* holder of the lock has a batch.                                         *)
TypeOK ==
  /\ visible \subseteq Messages /\ seeded \in BOOLEAN
  /\ {cursor, seed} \subseteq 0..MaxMessage
  /\ log \in [Sources -> LogRows]
  /\ items \subseteq Items
  /\ strangers \subseteq Unmapped
  /\ lock \in {"free", "cycle", "replay"}
  /\ batch \subseteq Messages /\ (batch # {} => lock = "cycle")
  /\ lock = "free" => worker[Poller] = Idle
  /\ UNION {late, replayed, withdrawn} \subseteq Messages

(* A chatter message leaves the items of one ingest at most, whatever is   *)
(* replayed, retried or interrupted, and its log row says so               *)
(* (docs/aipm/PLAN_AIPM_V1.md:48).                                         *)
OneIngest(S) == \A i, j \in items : i.source = j.source /\ i.source \in S => i.take = j.take

ChatterIngestedOnce ==
  /\ OneIngest(Messages)
  /\ \A m \in Messages : Of(m) # {} =>
       log[m].status = "done" /\ Cardinality(Of(m)) <= log[m].count

(* The cursor passes a message only when its ingest was decided: what the  *)
(* poll could see is never skipped (docs/aipm/PLAN_AIPM_V1.md:188).        *)
CursorPassesSettled ==
  \A m \in visible \ (late \cup replayed) : seed < m /\ m <= cursor => Settled(m)

(* A replay that fails halfway leaves no row that says the message is      *)
(* settled, so that the replay can be repeated.                            *)
WithdrawnIsUnsettled == \A m \in withdrawn : ~Settled(m)

\* What ends a cycle before it decides its messages and counts no attempt.
Interrupted == Crash \/ PollFails \/ ResolutionFails(Poller)

(* If cycles are not interrupted for ever, every message of the chatter    *)
(* that the polls can see is settled in the end, even if every call of the *)
(* extraction model fails (docs/aipm/PLAN_AIPM_V1.md:175).  The premise is *)
(* needed: a failure after the extraction is counted by nobody, so one     *)
(* that recurs holds the cursor for ever, and with it what :362 promises.  *)
ExtractionFailuresSettle ==
  <>[][~Interrupted]_vars =>
    \A m \in Messages :
      (seeded /\ m > seed /\ m \in visible \ (late \cup replayed)) ~> (Settled(m) \/ m \in replayed)
=============================================================================
