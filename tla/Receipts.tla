------------------------------- MODULE Receipts -------------------------------
(***************************************************************************)
(* Receipts of memory items in the Odoo chatter (aipm/engine/receipts.py). *)
(* post_receipt has many callers (the pipeline, the retry of the ingest    *)
(* cycle, the manual button, a review) and one write it cannot take back:  *)
(* message_post.  It holds an advisory lock per item and, before it posts, *)
(* looks in the chatter for a post that an earlier attempt left behind.    *)
(*                                                                         *)
(* A message is known by its first line.  The chatter begins when the      *)
(* items are created, so the recency bound of the search excludes nothing  *)
(* here and every message counts towards its limit.                        *)
(***************************************************************************)
EXTENDS Naturals, Sequences, FiniteSets

CONSTANTS
  Items,        \* memory_item rows
  Records,      \* Odoo records with a chatter
  NoRecord,     \* an item whose anchors give no target
  Lines,        \* first lines of receipts: kind and title of an item
  LineOf,       \* LineOf[i]: the first line of the receipt of i
  Cycle,        \* the thread of the ingest cycle
  Callers,      \* the other threads that may post a receipt
  ReceiptMode,  \* RECEIPT_MODE
  SearchLimit,  \* the limit of the search for an earlier post (80)
  MaxAttempts,  \* RECEIPT_MAX_ATTEMPTS
  LateCalls,    \* whether Odoo may run a call after its caller gave up
  MaxCrashes,   \* bound: crashes of the service
  MaxPosts      \* bound: messages in the chatter and calls under way

ASSUME ReceiptsAssumption ==
  /\ LineOf \in [Items -> Lines]
  /\ NoRecord \notin Records
  /\ Cycle \notin Callers
  /\ ReceiptMode \in {"manual", "auto"}
  /\ {SearchLimit, MaxAttempts, MaxCrashes, MaxPosts} \subseteq Nat
  /\ LateCalls \in BOOLEAN

Threads == Callers \cup {Cycle}

VARIABLES
  target,    \* target[i]: where the anchors of i send its receipt
  active,    \* the items with status active
  attempts,  \* receipt_attempts, up to MaxAttempts
  receipt,   \* receipt[i]: the memory_receipt rows of i
  trusted,   \* the items with trust = 1
  thread,    \* thread[w]: what thread w is doing
  chatter,   \* external: the messages of the service user, by id
  late,      \* external: the calls Odoo has still to run
  stray,     \* auxiliary: the messages of calls that Odoo ran late
  crashes

vars == <<target, active, attempts, receipt, trusted, thread, chatter, late, stray, crashes>>

Idle == [phase |-> "idle", todo |-> {}]

Init ==
  /\ target \in [Items -> Records \cup {NoRecord}]
  /\ active = Items
  /\ attempts = [i \in Items |-> 0]
  /\ receipt = [i \in Items |-> {}]
  /\ trusted = {}
  /\ thread = [w \in Threads |-> Idle]
  /\ chatter = <<>>
  /\ late = {} /\ stray = {}
  /\ crashes = 0

Database == <<target, active, attempts, receipt, trusted>>
External == <<chatter, late, stray>>

-----------------------------------------------------------------------------
(* Who calls post_receipt                                                  *)

\* run_cycle begins with the poll and the ingest of what it brought.
CycleStarts ==
  /\ thread[Cycle] = Idle
  /\ thread' = [thread EXCEPT ![Cycle] = [phase |-> "poll", todo |-> {}]]
  /\ UNCHANGED <<Database, External, crashes>>

\* Odoo cannot be polled, or an ingest raises: no receipt is retried.  Nor is
\* one in the manual mode.
CycleEndsEarly ==
  /\ thread[Cycle].phase = "poll"
  /\ thread' = [thread EXCEPT ![Cycle] = Idle]
  /\ UNCHANGED <<Database, External, crashes>>

\* The items the retry of the ingest cycle selects.
Pending(i) ==
  /\ i \in active \ trusted
  /\ attempts[i] < MaxAttempts
  /\ receipt[i] = {}
  /\ target[i] # NoRecord

\* The list is read once; the items are then posted one by one.  Its limit (50,
\* the oldest) is left out: each item listed is posted, or spends its attempts.
RetryPendingReceipts ==
  /\ ReceiptMode = "auto"
  /\ thread[Cycle].phase = "poll"
  /\ thread' = [thread EXCEPT ![Cycle] =
       [phase |-> "idle", todo |-> {i \in Items : Pending(i)}]]
  /\ UNCHANGED <<Database, External, crashes>>

\* The manual button, the pipeline or a review, whatever the item's state.
Call(w, i) ==
  /\ w # Cycle /\ thread[w] = Idle
  /\ thread' = [thread EXCEPT ![w].todo = {i}]
  /\ UNCHANGED <<Database, External, crashes>>

-----------------------------------------------------------------------------
(* post_receipt(memory_id)                                                 *)

Locked(i) == \E w \in Threads : thread[w].phase \in {"fetch", "post", "insert"}
                                /\ thread[w].item = i

\* The thread leaves item i for the next of its list.
Leave(w, i) ==
  thread' = [thread EXCEPT ![w] = [phase |-> "idle", todo |-> thread[w].todo \ {i}]]

\* Ids that other receipts have claimed.
ClaimedIds == UNION {{m.id : m \in receipt[i]} : i \in Items}

\* With the lock of the item: the anchors and the claimed ids as they are now.
Entered(w, i) ==
  thread' = [thread EXCEPT ![w] =
    [phase |-> "fetch", todo |-> thread[w].todo, item |-> i,
     record |-> target[i], claimed |-> ClaimedIds]]

\* Mutant of Enter: an item whose anchors give no chatter target goes on.
EnterWithoutTarget(w, i) ==
  /\ thread[w].phase = "idle" /\ i \in thread[w].todo
  /\ ~Locked(i)
  /\ IF receipt[i] # {} THEN Leave(w, i) ELSE Entered(w, i)
  /\ UNCHANGED <<Database, External, crashes>>

\* Mutant of Enter: the receipt is not looked up again under the lock.
EnterWithoutRecheck(w, i) ==
  /\ thread[w].phase = "idle" /\ i \in thread[w].todo
  /\ ~Locked(i)
  /\ IF target[i] = NoRecord THEN Leave(w, i) ELSE Entered(w, i)
  /\ UNCHANGED <<Database, External, crashes>>

\* already_posted, NoSubjectAnchor and NoChatterTarget end the call.
Enter(w, i) ==
  /\ thread[w].phase = "idle" /\ i \in thread[w].todo
  /\ ~Locked(i)
  /\ IF receipt[i] # {} \/ target[i] = NoRecord THEN Leave(w, i) ELSE Entered(w, i)
  /\ UNCHANGED <<Database, External, crashes>>

\* The search brings the first SearchLimit messages of the service on a
\* record, those of receipts included.
Fetched(m) ==
  Cardinality({k \in 1..m : chatter[k].record = chatter[m].record}) <= SearchLimit

\* Mutant of Candidates: any unclaimed post of the service on the record.
CandidatesWhateverTheLine(w) ==
  {m \in DOMAIN chatter :
     chatter[m].record = thread[w].record /\ Fetched(m) /\ m \notin thread[w].claimed}

\* Posts an earlier attempt may have left: fetched from the record, with the
\* same first line, and not the message of a receipt.
Candidates(w) ==
  {m \in DOMAIN chatter :
     /\ chatter[m].record = thread[w].record
     /\ Fetched(m)
     /\ LineOf[chatter[m].item] = LineOf[thread[w].item]
     /\ m \notin thread[w].claimed}

Holding(w, phase, id) ==
  [phase |-> phase, todo |-> thread[w].todo, item |-> thread[w].item,
   record |-> thread[w].record, id |-> id]

\* Mutant of RecoverExistingPost: a retry posts without looking first.
PostBlindly(w) ==
  /\ thread[w].phase = "fetch"
  /\ thread' = [thread EXCEPT ![w] = Holding(w, "post", 0)]
  /\ UNCHANGED <<Database, External, crashes>>

\* Fetch and compare: the oldest candidate is adopted.
RecoverExistingPost(w) ==
  /\ thread[w].phase = "fetch"
  /\ thread' = [thread EXCEPT ![w] =
       IF Candidates(w) = {} THEN Holding(w, "post", 0)
       ELSE Holding(w, "insert",
                    CHOOSE m \in Candidates(w) : \A n \in Candidates(w) : m <= n)]
  /\ UNCHANGED <<Database, External, crashes>>

Message(w) == [item |-> thread[w].item, record |-> thread[w].record]

MessagePost(w) ==
  /\ thread[w].phase = "post"
  /\ Len(chatter) + Cardinality(late) < MaxPosts
  /\ chatter' = Append(chatter, Message(w))
  /\ thread' = [thread EXCEPT ![w] = Holding(w, "insert", Len(chatter'))]
  /\ UNCHANGED <<Database, late, stray, crashes>>

\* An AdapterError rolls the transaction back, which frees the lock.
Failing(w) == thread' = [thread EXCEPT ![w] = Holding(w, "failed", 0)]

\* Odoo cannot be reached, for the search or for the post.
AdapterDown(w) ==
  /\ thread[w].phase \in {"fetch", "post"}
  /\ Failing(w)
  /\ UNCHANGED <<Database, External, crashes>>

\* The post went through, and its answer did not come in time.
TimeoutAfterPost(w) ==
  /\ thread[w].phase = "post"
  /\ Len(chatter) + Cardinality(late) < MaxPosts
  /\ chatter' = Append(chatter, Message(w))
  /\ Failing(w)
  /\ UNCHANGED <<Database, late, stray, crashes>>

\* The caller gives up a call that Odoo has yet to run; two such calls for one
\* message count as one.
TimeoutBeforePost(w) ==
  /\ LateCalls
  /\ thread[w].phase = "post"
  /\ Len(chatter) + Cardinality(late) < MaxPosts
  /\ late' = late \cup {Message(w)}
  /\ Failing(w)
  /\ UNCHANGED <<Database, chatter, stray, crashes>>

LatePost(m) ==
  /\ m \in late
  /\ chatter' = Append(chatter, m)
  /\ late' = late \ {m}
  /\ stray' = stray \cup {Len(chatter')}
  /\ UNCHANGED <<Database, thread, crashes>>

\* The receipt and trust = 1 are one transaction, the lock's.  The primary key
\* of memory_receipt is not modelled: ReceiptIsBacked shows it never refuses.
InsertReceipt(w) ==
  /\ thread[w].phase = "insert"
  /\ LET i == thread[w].item IN
       /\ receipt' = [receipt EXCEPT ![i] =
            @ \cup {[record |-> thread[w].record, id |-> thread[w].id]}]
       /\ trusted' = trusted \cup {i}
       /\ Leave(w, i)
  /\ UNCHANGED <<target, active, attempts, External, crashes>>

\* Mutant of CountAttempt: the increment is lost with the transaction.
ForgetAttempt(w) ==
  /\ thread[w].phase = "failed"
  /\ Leave(w, thread[w].item)
  /\ UNCHANGED <<Database, External, crashes>>

\* A transaction of its own, after the rollback.
CountAttempt(w) ==
  /\ thread[w].phase = "failed"
  /\ LET i == thread[w].item IN
       /\ attempts' = [attempts EXCEPT ![i] = IF @ < MaxAttempts THEN @ + 1 ELSE @]
       /\ Leave(w, i)
  /\ UNCHANGED <<target, active, receipt, trusted, External, crashes>>

-----------------------------------------------------------------------------
(* The rest of the service                                                 *)

\* memory_resolve and memory_retract take no lock.
CloseItem(i) ==
  /\ i \in active
  /\ active' = active \ {i}
  /\ UNCHANGED <<target, attempts, receipt, trusted, thread, External, crashes>>

\* review_anchor reassigns or removes an anchor, and takes no lock either.
ReviewAnchor(i, r) ==
  /\ target[i] # NoRecord /\ r # target[i]
  /\ target' = [target EXCEPT ![i] = r]
  /\ UNCHANGED <<active, attempts, receipt, trusted, thread, External, crashes>>

\* Transactions and locks die with the process, messages stay.
Crash ==
  /\ crashes < MaxCrashes
  /\ crashes' = crashes + 1
  /\ thread' = [w \in Threads |-> Idle]
  /\ UNCHANGED <<Database, External>>

-----------------------------------------------------------------------------
Step(w) ==
  \/ \E i \in Items : Enter(w, i)
  \/ RecoverExistingPost(w) \/ MessagePost(w) \/ AdapterDown(w)
  \/ TimeoutAfterPost(w) \/ TimeoutBeforePost(w)
  \/ InsertReceipt(w) \/ CountAttempt(w)

Next ==
  \/ CycleStarts \/ CycleEndsEarly \/ RetryPendingReceipts
  \/ \E w \in Callers, i \in Items : Call(w, i)
  \/ \E w \in Threads : Step(w)
  \/ \E m \in late : LatePost(m)
  \/ \E i \in Items : CloseItem(i)
  \/ \E i \in Items, r \in Records \cup {NoRecord} : ReviewAnchor(i, r)
  \/ Crash

Spec == Init /\ [][Next]_vars

\* The loop starts a cycle after the other and no thread stops in the middle;
\* whether a cycle comes to its retry, and whether Odoo answers, is left open,
\* and nobody has to press the button.
FairSpec ==
  /\ Spec
  /\ WF_vars(CycleStarts) /\ WF_vars(CycleEndsEarly \/ RetryPendingReceipts)
  /\ \A w \in Threads : WF_vars(Step(w))

-----------------------------------------------------------------------------
(* Properties                                                              *)

ReceiptRows == [record : Records, id : 1..MaxPosts]

Messages == [item : Items, record : Records]

Doing ==
  [phase : {"idle", "poll"}, todo : SUBSET Items]
  \cup [phase : {"fetch"}, todo : SUBSET Items, item : Items, record : Records,
        claimed : SUBSET (1..MaxPosts)]
  \cup [phase : {"post", "failed"}, todo : SUBSET Items, item : Items,
        record : Records, id : {0}]
  \cup [phase : {"insert"}, todo : SUBSET Items, item : Items, record : Records,
        id : 1..MaxPosts]

\* The type invariant of the service's tables, its threads and the chatter.
TypeOK ==
  /\ target \in [Items -> Records \cup {NoRecord}]
  /\ active \subseteq Items /\ trusted \subseteq Items
  /\ attempts \in [Items -> 0..MaxAttempts]
  /\ receipt \in [Items -> SUBSET ReceiptRows]
  /\ thread \in [Threads -> Doing]
  /\ chatter \in Seq(Messages) /\ Len(chatter) <= MaxPosts
  /\ late \subseteq Messages /\ stray \subseteq DOMAIN chatter
  /\ crashes \in 0..MaxCrashes

\* A record shows an item twice in two cases only: the first post lies behind
\* the SearchLimit messages that the search brings, or Odoo ran the call of one
\* of the two after its caller gave up.  Not when the button races the retry,
\* and not when the answer to the post, or the service after it, was lost.
OnePostPerRecord ==
  \A m, n \in DOMAIN chatter :
    m < n /\ chatter[m] = chatter[n] => ~Fetched(m) \/ {m, n} \cap stray # {}

\* An item has at most one receipt, trust says so, and the message it cites is
\* the item's own and stands on the record the receipt names.
ReceiptIsBacked ==
  \A i \in Items :
    /\ Cardinality(receipt[i]) <= 1
    /\ i \in trusted <=> receipt[i] # {}
    /\ \A r \in receipt[i] : r.id \in DOMAIN chatter
                             /\ chatter[r.id] = [item |-> i, record |-> r.record]

\* As long as cycles come to their retry again and again (which takes the auto
\* mode, an Odoo that can be polled and ingests that do not raise), an item does
\* not wait for its receipt for ever, even if every post fails: it gets one,
\* spends its attempts, or a person closes it or leaves it without a target.
PendingSettles ==
  []<><<RetryPendingReceipts>>_vars => \A i \in Items : Pending(i) ~> ~Pending(i)

\* aipm/tests/test_receipts.py:114: a message claimed by one item cannot
\* sustain the receipt of another.
MessageSustainsOneReceipt ==
  \A i, k \in Items : \A r \in receipt[i], s \in receipt[k] : r.id = s.id => i = k
=============================================================================
