---------------------------- MODULE ReceiptsProofs ----------------------------
(***************************************************************************)
(* Theorems about Receipts for any items, records, callers, limits and     *)
(* bounds, as long as no two items share the first line of their receipts: *)
(* with that the search in the chatter recognises the posts of an item.    *)
(* They rest on the lock: one thread at a time works on an item, and it    *)
(* looked for a receipt and for a post after it had the lock.              *)
(***************************************************************************)
EXTENDS Receipts, FiniteSetTheorems, SequenceTheorems, WellFoundedInduction, TLAPS

LinesDistinct == \A i, k \in Items : LineOf[i] = LineOf[k] => i = k

Busy(w) == thread[w].phase \in {"fetch", "post", "insert"}

\* A message of item i on record r.
Post(i, r) == [item |-> i, record |-> r]

\* Room for the calls under way.
RoomInv == IsFiniteSet(late) /\ Len(chatter) + Cardinality(late) <= MaxPosts

\* The receipts are backed by the chatter.
Backed ==
  \A i \in Items :
    /\ \A r, s \in receipt[i] : r = s
    /\ i \in trusted <=> receipt[i] # {}
    /\ \A r \in receipt[i] : r.id \in DOMAIN chatter /\ chatter[r.id] = Post(i, r.record)

\* One thread at a time works on an item, which has no receipt yet, and a
\* thread that will insert one has the message of its item.
LockInv ==
  /\ \A w, v \in Threads : Busy(w) /\ Busy(v) /\ thread[w].item = thread[v].item => w = v
  /\ \A w \in Threads : Busy(w) => receipt[thread[w].item] = {}
  /\ \A w \in Threads : thread[w].phase = "insert" =>
       /\ thread[w].id \in DOMAIN chatter
       /\ chatter[thread[w].id] = Post(thread[w].item, thread[w].record)

ReceiptsInv == TypeOK /\ RoomInv /\ Backed /\ LockInv

-----------------------------------------------------------------------------
(* Types                                                                   *)

\* What a thread has in its hands follows from its phase.
LEMMA DoingIs ==
  ASSUME TypeOK, NEW w \in Threads
  PROVE  /\ thread[w].phase \in {"idle", "poll", "fetch", "post", "failed", "insert"}
         /\ thread[w].todo \in SUBSET Items
         /\ thread[w].phase \notin {"idle", "poll"} =>
              thread[w].item \in Items /\ thread[w].record \in Records
         /\ thread[w].phase = "fetch" => thread[w].claimed \in SUBSET (1..MaxPosts)
         /\ thread[w].phase = "insert" => thread[w].id \in 1..MaxPosts
  BY DEF TypeOK, Doing

\* A thread without a request has no item.
LEMMA IdleIs ==
  ASSUME NEW S \in SUBSET Items
  PROVE  [phase |-> "idle", todo |-> S] \in Doing /\ [phase |-> "poll", todo |-> S] \in Doing
  BY DEF Doing

\* What a thread goes on to hold is typed.
LEMMA HoldingIs ==
  ASSUME TypeOK, NEW w \in Threads, thread[w].phase \notin {"idle", "poll"}
  PROVE  /\ Holding(w, "post", 0) \in Doing /\ Holding(w, "failed", 0) \in Doing
         /\ \A m \in 1..MaxPosts : Holding(w, "insert", m) \in Doing
<1>1. thread[w].todo \in SUBSET Items /\ thread[w].item \in Items /\ thread[w].record \in Records
  BY DoingIs
<1>2. QED
  BY <1>1 DEF Holding, Doing

\* What a message of the chatter is.
LEMMA MessageIs ==
  ASSUME TypeOK, NEW w \in Threads, thread[w].phase \notin {"idle", "poll"}
  PROVE  Message(w) \in Messages /\ Message(w) = Post(thread[w].item, thread[w].record)
  BY DoingIs DEF Message, Messages, Post

\* A message more.
LEMMA OneMore ==
  ASSUME TypeOK, NEW m \in Messages
  PROVE  /\ Append(chatter, m) \in Seq(Messages)
         /\ Len(Append(chatter, m)) = Len(chatter) + 1
         /\ DOMAIN chatter = 1..Len(chatter) /\ Len(chatter) \in Nat
         /\ DOMAIN Append(chatter, m) = 1..(Len(chatter) + 1)
         /\ \A n \in DOMAIN chatter : Append(chatter, m)[n] = chatter[n]
         /\ Append(chatter, m)[Len(chatter) + 1] = m
  BY DEF TypeOK

\* The calls under way leave room for a message.
LEMMA RoomLeft ==
  ASSUME TypeOK, RoomInv, Len(chatter) + Cardinality(late) < MaxPosts
  PROVE  /\ Len(chatter) + 1 \in 1..MaxPosts
         /\ Len(chatter) + 1 + Cardinality(late) <= MaxPosts
<1>1. Len(chatter) \in Nat /\ Cardinality(late) \in Nat /\ MaxPosts \in Nat
  BY ReceiptsAssumption, FS_CardinalityType DEF TypeOK, RoomInv
<1>2. QED
  BY <1>1

\* The oldest of some messages.
LEMMA OldestIs ==
  ASSUME NEW S \in SUBSET Nat, S # {}
  PROVE  (CHOOSE m \in S : \A n \in S : m <= n) \in S
<1>1. PICK x \in S : \A y \in S : ~ (<<y, x>> \in OpToRel(<, Nat))
  BY NatLessThanWellFounded, WFMin
<1>2. \A y \in S : x <= y
  <2>1. ASSUME NEW y \in S PROVE ~ (y < x)
    BY <1>1, <2>1 DEF OpToRel
  <2>2. QED
    BY <2>1
<1>3. QED
  BY <1>2

\* What the search adopts is a candidate.
LEMMA AdoptsCandidate ==
  ASSUME TypeOK, NEW w \in Threads, Candidates(w) # {}
  PROVE  LET m == CHOOSE m \in Candidates(w) : \A n \in Candidates(w) : m <= n
         IN  m \in Candidates(w) /\ m \in DOMAIN chatter /\ m \in 1..MaxPosts
<1>1. Candidates(w) \subseteq DOMAIN chatter /\ DOMAIN chatter = 1..Len(chatter)
      /\ Len(chatter) \in Nat /\ Len(chatter) <= MaxPosts /\ MaxPosts \in Nat
  BY ReceiptsAssumption DEF Candidates, TypeOK
<1>2. Candidates(w) \in SUBSET Nat
  BY <1>1
<1>3. (CHOOSE m \in Candidates(w) : \A n \in Candidates(w) : m <= n) \in Candidates(w)
  BY <1>2, OldestIs
<1>4. QED
  BY <1>1, <1>3

\* The ids of receipts are ids of messages.
LEMMA ClaimedTyped == TypeOK => ClaimedIds \in SUBSET (1..MaxPosts)
<1> SUFFICES ASSUME TypeOK, NEW x \in ClaimedIds PROVE x \in 1..MaxPosts
  OBVIOUS
<1>1. PICK i \in Items : x \in {m.id : m \in receipt[i]}
  BY DEF ClaimedIds
<1>2. PICK m \in receipt[i] : x = m.id
  BY <1>1
<1>3. m \in ReceiptRows
  BY DEF TypeOK
<1>4. QED
  BY <1>2, <1>3 DEF ReceiptRows

\* A list is given to an idle thread.
LEMMA ListGiven ==
  ASSUME TypeOK, NEW w \in Threads, thread[w] = Idle, NEW S,
         thread' = [thread EXCEPT ![w].todo = S]
  PROVE  thread' = [thread EXCEPT ![w] = [phase |-> "idle", todo |-> S]]
<1>1. [thread[w] EXCEPT !.todo = S] = [phase |-> "idle", todo |-> S]
  BY DEF Idle
<1>2. thread' = [thread EXCEPT ![w] = [thread[w] EXCEPT !.todo = S]]
  BY DEF TypeOK
<1>3. QED
  BY <1>1, <1>2

\* The chatter only grows.
Grows == /\ DOMAIN chatter \subseteq DOMAIN chatter'
         /\ \A n \in DOMAIN chatter : chatter'[n] = chatter[n]

\* A posted message is the last one and leaves the others where they are.
LEMMA AppendGrows ==
  ASSUME TypeOK, NEW m \in Messages, chatter' = Append(chatter, m)
  PROVE  /\ Grows /\ Len(chatter') \in DOMAIN chatter' /\ chatter'[Len(chatter')] = m
         /\ DOMAIN chatter' = DOMAIN chatter \cup {Len(chatter')}
         /\ \A n \in DOMAIN chatter : n < Len(chatter')
<1>1. Len(chatter') = Len(chatter) + 1 /\ Len(chatter) \in Nat
  BY OneMore
<1>2. QED
  BY <1>1, OneMore DEF Grows

\* Every step keeps the types and the room.
LEMMA ReceiptsTypeStep == TypeOK /\ RoomInv /\ [Next]_vars => TypeOK' /\ RoomInv'
<1> SUFFICES ASSUME TypeOK, RoomInv, [Next]_vars PROVE TypeOK' /\ RoomInv'
  OBVIOUS
<1>0. /\ thread \in [Threads -> Doing] /\ Cycle \in Threads /\ Callers \subseteq Threads
      /\ MaxPosts \in Nat /\ MaxAttempts \in Nat /\ MaxCrashes \in Nat
  BY ReceiptsAssumption DEF TypeOK, Threads
<1>1. ASSUME NEW w \in Threads, NEW d \in Doing, thread' = [thread EXCEPT ![w] = d]
      PROVE  thread' \in [Threads -> Doing]
  BY <1>0, <1>1
<1>2. CASE CycleStarts \/ CycleEndsEarly \/ RetryPendingReceipts
  <2>1. {i \in Items : Pending(i)} \in SUBSET Items /\ {} \in SUBSET Items
    OBVIOUS
  <2>2. thread' \in [Threads -> Doing]
    BY <1>0, <1>1, <1>2, <2>1, IdleIs DEF CycleStarts, CycleEndsEarly, RetryPendingReceipts, Idle
  <2>3. QED
    BY <1>2, <2>2
    DEF CycleStarts, CycleEndsEarly, RetryPendingReceipts, Database, External, TypeOK, RoomInv
<1>3. ASSUME NEW w \in Callers, NEW i \in Items, Call(w, i) PROVE TypeOK' /\ RoomInv'
  <2>1. thread' = [thread EXCEPT ![w] = [phase |-> "idle", todo |-> {i}]]
    BY <1>0, <1>3, ListGiven DEF Call
  <2>2. thread' \in [Threads -> Doing]
    BY <1>0, <1>1, <2>1, IdleIs
  <2>3. QED
    BY <1>3, <2>2 DEF Call, Database, External, TypeOK, RoomInv
<1>4. ASSUME NEW w \in Threads, NEW i, Leave(w, i) PROVE thread' \in [Threads -> Doing]
  <2>1. thread[w].todo \ {i} \in SUBSET Items
    BY DoingIs
  <2>2. QED
    BY <1>1, <1>4, <2>1, IdleIs DEF Leave
<1>5. ASSUME NEW w \in Threads, Step(w) PROVE TypeOK' /\ RoomInv'
  <2>1. ASSUME NEW i \in Items, Enter(w, i) PROVE TypeOK' /\ RoomInv'
    <3>1. CASE receipt[i] # {} \/ target[i] = NoRecord
      BY <1>4, <2>1, <3>1 DEF Enter, Database, External, TypeOK, RoomInv
    <3>2. CASE ~(receipt[i] # {} \/ target[i] = NoRecord)
      <4>1. /\ target[i] \in Records /\ thread[w].todo \in SUBSET Items
            /\ ClaimedIds \in SUBSET (1..MaxPosts)
        BY <3>2, DoingIs, ClaimedTyped DEF TypeOK
      <4>2. [phase |-> "fetch", todo |-> thread[w].todo, item |-> i,
             record |-> target[i], claimed |-> ClaimedIds] \in Doing
        BY <4>1 DEF Doing
      <4>3. thread' \in [Threads -> Doing]
        BY <1>1, <2>1, <3>2, <4>2 DEF Enter, Entered
      <4>4. QED
        BY <2>1, <4>3 DEF Enter, Database, External, TypeOK, RoomInv
    <3>3. QED
      BY <3>1, <3>2
  <2>2. CASE RecoverExistingPost(w)
    <3>1. CASE Candidates(w) = {}
      BY <1>1, <2>2, <3>1, HoldingIs
      DEF RecoverExistingPost, Database, External, TypeOK, RoomInv
    <3>2. CASE Candidates(w) # {}
      <4> DEFINE m == CHOOSE m \in Candidates(w) : \A n \in Candidates(w) : m <= n
      <4>1. m \in 1..MaxPosts
        BY <3>2, AdoptsCandidate
      <4>2. thread' = [thread EXCEPT ![w] = Holding(w, "insert", m)]
        BY <2>2, <3>2 DEF RecoverExistingPost
      <4> HIDE DEF m
      <4>3. thread' \in [Threads -> Doing]
        BY <1>1, <2>2, <4>1, <4>2, HoldingIs DEF RecoverExistingPost
      <4>4. QED
        BY <2>2, <4>3 DEF RecoverExistingPost, Database, External, TypeOK, RoomInv
    <3>3. QED
      BY <3>1, <3>2
  <2>3. CASE MessagePost(w)
    <3>1. Message(w) \in Messages /\ chatter' = Append(chatter, Message(w))
      BY <2>3, MessageIs DEF MessagePost
    <3>2. /\ chatter' \in Seq(Messages) /\ Len(chatter') = Len(chatter) + 1
          /\ Len(chatter') \in 1..MaxPosts
          /\ Len(chatter') + Cardinality(late) <= MaxPosts
          /\ DOMAIN chatter \subseteq DOMAIN chatter'
      BY <2>3, <3>1, OneMore, RoomLeft DEF MessagePost
    <3>3. thread' \in [Threads -> Doing]
      BY <1>1, <2>3, <3>2, HoldingIs DEF MessagePost
    <3>4. QED
      BY <1>0, <2>3, <3>2, <3>3 DEF MessagePost, Database, TypeOK, RoomInv
  <2>4. CASE AdapterDown(w)
    <3>1. thread' \in [Threads -> Doing]
      BY <1>1, <2>4, HoldingIs DEF AdapterDown, Failing
    <3>2. QED
      BY <2>4, <3>1 DEF AdapterDown, Database, External, TypeOK, RoomInv
  <2>5. CASE TimeoutAfterPost(w)
    <3>1. Message(w) \in Messages /\ chatter' = Append(chatter, Message(w))
      BY <2>5, MessageIs DEF TimeoutAfterPost
    <3>2. /\ chatter' \in Seq(Messages) /\ Len(chatter') = Len(chatter) + 1
          /\ Len(chatter') \in 1..MaxPosts
          /\ Len(chatter') + Cardinality(late) <= MaxPosts
          /\ DOMAIN chatter \subseteq DOMAIN chatter'
      BY <2>5, <3>1, OneMore, RoomLeft DEF TimeoutAfterPost
    <3>3. thread' \in [Threads -> Doing]
      BY <1>1, <2>5, HoldingIs DEF TimeoutAfterPost, Failing
    <3>4. QED
      BY <1>0, <2>5, <3>2, <3>3 DEF TimeoutAfterPost, Database, TypeOK, RoomInv
  <2>6. CASE TimeoutBeforePost(w)
    <3>1. Message(w) \in Messages /\ late' = late \cup {Message(w)} /\ chatter' = chatter
      BY <2>6, MessageIs DEF TimeoutBeforePost
    <3>2. /\ IsFiniteSet(late') /\ Cardinality(late') \in Nat /\ Cardinality(late) \in Nat
          /\ Cardinality(late') <= Cardinality(late) + 1
      <4>1. IsFiniteSet(late) /\ IsFiniteSet(late \cup {Message(w)})
            /\ Cardinality(late \cup {Message(w)})
                 = IF Message(w) \in late THEN Cardinality(late) ELSE Cardinality(late) + 1
        BY FS_AddElement DEF RoomInv
      <4>2. Cardinality(late) \in Nat /\ Cardinality(late \cup {Message(w)}) \in Nat
        BY <4>1, FS_CardinalityType
      <4>3. QED
        BY <3>1, <4>1, <4>2
    <3>3. Len(chatter) \in Nat /\ Len(chatter) + Cardinality(late') <= MaxPosts
      BY <1>0, <2>6, <3>2, RoomLeft DEF TimeoutBeforePost, TypeOK
    <3>4. thread' \in [Threads -> Doing]
      BY <1>1, <2>6, HoldingIs DEF TimeoutBeforePost, Failing
    <3>5. QED
      BY <2>6, <3>1, <3>2, <3>3, <3>4 DEF TimeoutBeforePost, Database, TypeOK, RoomInv
  <2>7. CASE InsertReceipt(w)
    <3>1. /\ thread[w].item \in Items
          /\ [record |-> thread[w].record, id |-> thread[w].id] \in ReceiptRows
      BY <2>7, DoingIs DEF InsertReceipt, ReceiptRows
    <3>2. receipt' \in [Items -> SUBSET ReceiptRows] /\ trusted' \subseteq Items
      BY <2>7, <3>1 DEF InsertReceipt, TypeOK
    <3>3. thread' \in [Threads -> Doing]
      BY <1>4, <2>7 DEF InsertReceipt
    <3>4. QED
      BY <2>7, <3>2, <3>3 DEF InsertReceipt, External, TypeOK, RoomInv
  <2>8. CASE CountAttempt(w)
    <3>1. thread[w].item \in Items
      BY <2>8, DoingIs DEF CountAttempt
    <3>2. attempts' \in [Items -> 0..MaxAttempts]
      BY <1>0, <2>8, <3>1 DEF CountAttempt, TypeOK
    <3>3. thread' \in [Threads -> Doing]
      BY <1>4, <2>8 DEF CountAttempt
    <3>4. QED
      BY <2>8, <3>2, <3>3 DEF CountAttempt, External, TypeOK, RoomInv
  <2>9. QED
    BY <1>5, <2>1, <2>2, <2>3, <2>4, <2>5, <2>6, <2>7, <2>8 DEF Step
<1>6. ASSUME NEW m \in late, LatePost(m) PROVE TypeOK' /\ RoomInv'
  <2>1. m \in Messages /\ chatter' = Append(chatter, m) /\ late' = late \ {m}
    BY <1>6 DEF LatePost, TypeOK
  <2>2. /\ IsFiniteSet(late') /\ Cardinality(late') = Cardinality(late) - 1
        /\ Cardinality(late) \in Nat /\ Cardinality(late') \in Nat
    BY <1>6, <2>1, FS_RemoveElement, FS_CardinalityType DEF RoomInv
  <2>3. /\ chatter' \in Seq(Messages) /\ Len(chatter') = Len(chatter) + 1 /\ Len(chatter) \in Nat
        /\ DOMAIN chatter \cup {Len(chatter')} \subseteq DOMAIN chatter'
    BY <2>1, OneMore
  <2>4. Len(chatter') + Cardinality(late') <= MaxPosts /\ Len(chatter') <= MaxPosts
    BY <1>0, <2>2, <2>3 DEF RoomInv
  <2>5. QED
    BY <1>6, <2>1, <2>2, <2>3, <2>4 DEF LatePost, Database, TypeOK, RoomInv
<1>7. CASE \E i \in Items : CloseItem(i)
  BY <1>7 DEF CloseItem, External, TypeOK, RoomInv
<1>8. CASE \E i \in Items, r \in Records \cup {NoRecord} : ReviewAnchor(i, r)
  BY <1>8 DEF ReviewAnchor, External, TypeOK, RoomInv
<1>9. CASE Crash
  <2>1. Idle \in Doing
    BY IdleIs DEF Idle
  <2>2. crashes' \in 0..MaxCrashes
    BY <1>0, <1>9 DEF Crash, TypeOK
  <2>3. QED
    BY <1>9, <2>1, <2>2 DEF Crash, Database, External, TypeOK, RoomInv
<1>10. CASE UNCHANGED vars
  BY <1>10 DEF vars, TypeOK, RoomInv
<1>11. QED
  BY <1>2, <1>3, <1>5, <1>6, <1>7, <1>8, <1>9, <1>10 DEF Next

\* No receipt, no message, no lock.
LEMMA ReceiptsInit == Init => ReceiptsInv
<1> SUFFICES ASSUME Init PROVE ReceiptsInv
  OBVIOUS
<1>1. Idle \in Doing
  BY IdleIs DEF Idle
<1>2. TypeOK
  BY <1>1, ReceiptsAssumption DEF Init, TypeOK
<1>3. Cardinality({}) = 0 /\ IsFiniteSet({}) /\ Len(chatter) = 0
  BY FS_EmptySet DEF Init
<1>4. RoomInv
  BY <1>3, ReceiptsAssumption DEF Init, RoomInv
<1>5. \A w \in Threads : thread[w].phase = "idle"
  BY DEF Init, Idle
<1>6. QED
  BY <1>2, <1>4, <1>5 DEF Init, ReceiptsInv, Backed, LockInv, Busy

-----------------------------------------------------------------------------
(* The lock and the receipts                                               *)

\* A thread stays as it is, rests, or goes on with its item.
GoesOn(w) ==
  \/ thread'[w] = thread[w]
  \/ thread'[w].phase \in {"idle", "poll", "failed"}
  \/ /\ Busy(w)
     /\ thread'[w].item = thread[w].item /\ thread'[w].record = thread[w].record
     /\ \/ thread'[w].phase = "post"
        \/ /\ thread'[w].phase = "insert"
           /\ thread'[w].id \in DOMAIN chatter'
           /\ chatter'[thread'[w].id] = Post(thread[w].item, thread[w].record)

\* No step of these takes a lock or writes a receipt.
LEMMA GoingOn ==
  ASSUME TypeOK, Backed, LockInv, UNCHANGED <<receipt, trusted>>, Grows,
         \A w \in Threads : GoesOn(w)
  PROVE  Backed' /\ LockInv'
<1>1. \A w \in Threads : Busy(w)' => Busy(w) /\ thread'[w].item = thread[w].item
  BY DEF GoesOn, Busy
<1>2. \A w \in Threads : thread'[w].phase = "insert" =>
        /\ thread'[w].id \in DOMAIN chatter'
        /\ chatter'[thread'[w].id] = Post(thread'[w].item, thread'[w].record)
  BY DEF GoesOn, LockInv, Grows
<1>3. LockInv'
  BY <1>1, <1>2 DEF LockInv
<1>4. Backed'
  BY DEF Backed, Grows
<1>5. QED
  BY <1>3, <1>4

\* With distinct lines a candidate is a post of the item, on its record.
LEMMA CandidateIsPost ==
  ASSUME TypeOK, LinesDistinct, NEW w \in Threads, thread[w].phase = "fetch", NEW m \in Candidates(w)
  PROVE  m \in DOMAIN chatter /\ chatter[m] = Post(thread[w].item, thread[w].record)
<1>1. /\ m \in DOMAIN chatter /\ chatter[m].record = thread[w].record
      /\ LineOf[chatter[m].item] = LineOf[thread[w].item]
  BY DEF Candidates
<1>2. chatter[m] \in Messages
  BY <1>1 DEF TypeOK
<1>3. thread[w].item \in Items
  BY DoingIs
<1>4. chatter[m].item = thread[w].item
  BY <1>1, <1>2, <1>3 DEF LinesDistinct, Messages
<1>5. QED
  BY <1>1, <1>2, <1>4 DEF Messages, Post

\* A thread that enters the lock finds its item without receipt and nobody else on it.
LEMMA EnterStep ==
  ASSUME TypeOK, Backed, LockInv, NEW w \in Threads, NEW i \in Items, Enter(w, i)
  PROVE  Backed' /\ LockInv'
<1>0. UNCHANGED <<receipt, trusted, chatter>> /\ Grows /\ thread \in [Threads -> Doing]
  BY DEF Enter, Database, External, Grows, TypeOK
<1>1. CASE receipt[i] # {} \/ target[i] = NoRecord
  <2>1. \A v \in Threads : GoesOn(v)
    BY <1>0, <1>1 DEF Enter, Leave, GoesOn
  <2>2. QED
    BY <1>0, <2>1, GoingOn
<1>2. CASE ~(receipt[i] # {} \/ target[i] = NoRecord)
  <2>1. /\ thread'[w].phase = "fetch" /\ thread'[w].item = i
        /\ \A v \in Threads \ {w} : thread'[v] = thread[v]
    BY <1>0, <1>2 DEF Enter, Entered
  <2>2. \A v \in Threads : Busy(v) => thread[v].item # i
    BY DEF Enter, Locked, Busy
  <2>3. \A v \in Threads \ {w} : Busy(v)' <=> Busy(v)
    BY <2>1 DEF Busy
  <2>4. LockInv'
    BY <1>0, <1>2, <2>1, <2>2, <2>3 DEF LockInv
  <2>5. QED
    BY <1>0, <2>4 DEF Backed
<1>3. QED
  BY <1>1, <1>2

\* The receipt of an item that has none, by the thread that holds its lock.
LEMMA InsertStep ==
  ASSUME TypeOK, Backed, LockInv, NEW w \in Threads, InsertReceipt(w)
  PROVE  Backed' /\ LockInv'
<1> DEFINE i == thread[w].item
           row == [record |-> thread[w].record, id |-> thread[w].id]
<1>1. /\ Busy(w) /\ i \in Items /\ receipt[i] = {}
      /\ row.id \in DOMAIN chatter /\ chatter[row.id] = Post(i, row.record)
  BY DoingIs DEF InsertReceipt, Busy, LockInv
<1>2. /\ chatter' = chatter /\ trusted' = trusted \cup {i}
      /\ receipt' = [receipt EXCEPT ![i] = @ \cup {row}]
      /\ thread' = [thread EXCEPT ![w] = [phase |-> "idle", todo |-> thread[w].todo \ {i}]]
  BY DEF InsertReceipt, External, Leave
<1>3. /\ thread'[w].phase = "idle" /\ \A v \in Threads \ {w} : thread'[v] = thread[v]
  BY <1>2 DEF TypeOK
<1>4. receipt'[i] = {row} /\ \A k \in Items \ {i} : receipt'[k] = receipt[k]
  BY <1>1, <1>2 DEF TypeOK
<1> HIDE DEF row
<1>5. Backed'
  <2> SUFFICES ASSUME NEW k \in Items
               PROVE  /\ \A r, s \in receipt'[k] : r = s
                      /\ k \in trusted' <=> receipt'[k] # {}
                      /\ \A r \in receipt'[k] : r.id \in DOMAIN chatter' /\ chatter'[r.id] = Post(k, r.record)
    BY DEF Backed
  <2>1. CASE k = i
    BY <1>1, <1>2, <1>4, <2>1
  <2>2. CASE k # i
    BY <1>2, <1>4, <2>2 DEF Backed
  <2>3. QED
    BY <2>1, <2>2
<1>6. \A v \in Threads : Busy(v)' => v # w /\ Busy(v) /\ thread'[v] = thread[v] /\ thread[v].item # i
  BY <1>1, <1>3 DEF Busy, LockInv
<1>7. \A v \in Threads : Busy(v)' => receipt'[thread'[v].item] = {}
  <2> SUFFICES ASSUME NEW v \in Threads, Busy(v)' PROVE receipt'[thread'[v].item] = {}
    OBVIOUS
  <2>1. Busy(v) /\ thread'[v] = thread[v] /\ thread[v].item # i
    BY <1>6
  <2>2. thread[v].item \in Items
    BY <2>1, DoingIs DEF Busy
  <2>3. QED
    BY <1>4, <2>1, <2>2 DEF LockInv
<1>8. LockInv'
  <2>1. \A v, u \in Threads : Busy(v)' /\ Busy(u)' /\ thread'[v].item = thread'[u].item => v = u
    BY <1>6 DEF LockInv
  <2>2. \A v \in Threads : thread'[v].phase = "insert" =>
          /\ thread'[v].id \in DOMAIN chatter'
          /\ chatter'[thread'[v].id] = Post(thread'[v].item, thread'[v].record)
    BY <1>2, <1>3 DEF LockInv
  <2>3. QED
    BY <1>7, <2>1, <2>2 DEF LockInv
<1>9. QED
  BY <1>5, <1>8

\* Steps of a thread that has the lock, but for the receipt itself.
LEMMA WorkStep ==
  ASSUME TypeOK, Backed, LockInv, LinesDistinct, NEW w \in Threads,
         \/ RecoverExistingPost(w) \/ MessagePost(w) \/ AdapterDown(w)
         \/ TimeoutAfterPost(w) \/ TimeoutBeforePost(w) \/ CountAttempt(w)
  PROVE  Backed' /\ LockInv'
<1>0. thread \in [Threads -> Doing] /\ UNCHANGED <<receipt, trusted>>
  BY DEF TypeOK, RecoverExistingPost, MessagePost, AdapterDown, TimeoutAfterPost,
         TimeoutBeforePost, CountAttempt, Database
<1>1. \A v \in Threads \ {w} : thread'[v] = thread[v]
  BY <1>0 DEF RecoverExistingPost, MessagePost, AdapterDown, TimeoutAfterPost,
              TimeoutBeforePost, CountAttempt, Failing, Leave
<1>2. ASSUME Grows, GoesOn(w) PROVE Backed' /\ LockInv'
  BY <1>0, <1>1, <1>2, GoingOn DEF GoesOn
<1>3. CASE RecoverExistingPost(w)
  <2>0. Grows /\ Busy(w) /\ thread[w].phase = "fetch" /\ chatter' = chatter
    BY <1>3 DEF RecoverExistingPost, External, Grows, Busy
  <2>1. CASE Candidates(w) = {}
    <3>1. thread'[w] = Holding(w, "post", 0)
      BY <1>0, <1>3, <2>1 DEF RecoverExistingPost
    <3>2. QED
      BY <1>2, <2>0, <3>1 DEF Holding, GoesOn
  <2>2. CASE Candidates(w) # {}
    <3> DEFINE m == CHOOSE m \in Candidates(w) : \A n \in Candidates(w) : m <= n
    <3>1. thread'[w] = Holding(w, "insert", m)
      BY <1>0, <1>3, <2>2 DEF RecoverExistingPost
    <3>2. m \in DOMAIN chatter /\ chatter[m] = Post(thread[w].item, thread[w].record)
      BY <2>0, <2>2, AdoptsCandidate, CandidateIsPost
    <3> HIDE DEF m
    <3>3. QED
      BY <1>2, <2>0, <3>1, <3>2 DEF Holding, GoesOn
  <2>3. QED
    BY <2>1, <2>2
<1>4. CASE MessagePost(w) \/ TimeoutAfterPost(w)
  <2>1. /\ chatter' = Append(chatter, Message(w)) /\ Message(w) \in Messages
        /\ Message(w) = Post(thread[w].item, thread[w].record) /\ Busy(w)
    BY <1>4, MessageIs DEF MessagePost, TimeoutAfterPost, Busy
  <2>2. /\ Grows /\ Len(chatter') \in DOMAIN chatter' /\ chatter'[Len(chatter')] = Message(w)
    BY <2>1, AppendGrows
  <2>3. thread'[w] \in {Holding(w, "insert", Len(chatter')), Holding(w, "failed", 0)}
    BY <1>0, <1>4 DEF MessagePost, TimeoutAfterPost, Failing
  <2>4. QED
    BY <1>2, <2>1, <2>2, <2>3 DEF Holding, GoesOn
<1>5. CASE AdapterDown(w) \/ TimeoutBeforePost(w)
  <2>1. thread'[w] = Holding(w, "failed", 0) /\ chatter' = chatter
    BY <1>0, <1>5 DEF AdapterDown, TimeoutBeforePost, Failing, External
  <2>2. QED
    BY <1>2, <2>1 DEF Holding, GoesOn, Grows
<1>6. CASE CountAttempt(w)
  <2>1. thread'[w].phase = "idle" /\ chatter' = chatter
    BY <1>0, <1>6 DEF CountAttempt, Leave, External
  <2>2. QED
    BY <1>2, <2>1 DEF GoesOn, Grows
<1>7. QED
  BY <1>3, <1>4, <1>5, <1>6

\* Receipts stay backed, and what the holder of the lock has in hand stays true.
LEMMA LockStep == LinesDistinct /\ ReceiptsInv /\ [Next]_vars => Backed' /\ LockInv'
<1> SUFFICES ASSUME LinesDistinct, ReceiptsInv, [Next]_vars PROVE Backed' /\ LockInv'
  OBVIOUS
<1>0. /\ TypeOK /\ Backed /\ LockInv /\ thread \in [Threads -> Doing]
      /\ Cycle \in Threads /\ Callers \subseteq Threads
  BY DEF ReceiptsInv, TypeOK, Threads
<1>1. ASSUME UNCHANGED <<receipt, trusted, chatter>>,
             \A v \in Threads : thread'[v] = thread[v] \/ thread'[v].phase \in {"idle", "poll"}
      PROVE  Backed' /\ LockInv'
  BY <1>0, <1>1, GoingOn DEF GoesOn, Grows
<1>2. CASE CycleStarts \/ CycleEndsEarly \/ RetryPendingReceipts
  BY <1>0, <1>1, <1>2
  DEF CycleStarts, CycleEndsEarly, RetryPendingReceipts, Idle, Database, External
<1>3. ASSUME NEW w \in Callers, NEW i \in Items, Call(w, i) PROVE Backed' /\ LockInv'
  <2>1. thread' = [thread EXCEPT ![w] = [phase |-> "idle", todo |-> {i}]]
    BY <1>0, <1>3, ListGiven DEF Call
  <2>2. QED
    BY <1>0, <1>1, <1>3, <2>1 DEF Call, Database, External
<1>4. ASSUME NEW w \in Threads, Step(w) PROVE Backed' /\ LockInv'
  BY <1>0, <1>4, EnterStep, InsertStep, WorkStep DEF Step
<1>5. ASSUME NEW m \in late, LatePost(m) PROVE Backed' /\ LockInv'
  <2>1. Grows
    BY <1>0, <1>5, AppendGrows DEF LatePost, TypeOK
  <2>2. QED
    BY <1>0, <1>5, <2>1, GoingOn DEF LatePost, Database, GoesOn
<1>6. CASE \/ \E i \in Items : CloseItem(i)
           \/ \E i \in Items, r \in Records \cup {NoRecord} : ReviewAnchor(i, r)
           \/ UNCHANGED vars
  BY <1>1, <1>6 DEF CloseItem, ReviewAnchor, External, vars
<1>7. CASE Crash
  BY <1>1, <1>7 DEF Crash, Database, External, Idle
<1>8. QED
  BY <1>2, <1>3, <1>4, <1>5, <1>6, <1>7 DEF Next

\* The invariant is inductive.
LEMMA ReceiptsStep == LinesDistinct /\ ReceiptsInv /\ [Next]_vars => ReceiptsInv'
  BY LockStep, ReceiptsTypeStep DEF ReceiptsInv

\* Whatever races, fails or crashes, an item has one receipt at most, trust
\* says whether it has one, and the message it cites is the item's own, on the
\* record the receipt names: if first lines tell items apart.
THEOREM ReceiptIsBackedCorrect ==
  ASSUME LinesDistinct
  PROVE  Spec => []ReceiptIsBacked
<1>1. LinesDistinct
  OBVIOUS
<1>2. ReceiptsInv => ReceiptIsBacked
  <2> SUFFICES ASSUME ReceiptsInv, NEW i \in Items
               PROVE  /\ Cardinality(receipt[i]) <= 1
                      /\ i \in trusted <=> receipt[i] # {}
                      /\ \A r \in receipt[i] : r.id \in DOMAIN chatter
                           /\ chatter[r.id] = [item |-> i, record |-> r.record]
    BY DEF ReceiptIsBacked
  <2>1. Cardinality(receipt[i]) <= 1
    <3>1. CASE receipt[i] = {}
      BY <3>1, FS_EmptySet
    <3>2. CASE receipt[i] # {}
      <4>1. PICK r : receipt[i] = {r}
        BY <3>2 DEF ReceiptsInv, Backed
      <4>2. QED
        BY <4>1, FS_Singleton
    <3>3. QED
      BY <3>1, <3>2
  <2>2. QED
    BY <2>1 DEF ReceiptsInv, Backed, Post
<1>3. ReceiptsInv /\ [Next]_vars => ReceiptsInv'
  BY <1>1, ReceiptsStep
<1>4. QED
  BY <1>2, <1>3, ReceiptsInit, PTL DEF Spec

\* The tables, the threads and the chatter keep their types.
THEOREM ReceiptsTypeCorrect == Spec => []TypeOK
<1>1. Init => TypeOK /\ RoomInv
  BY ReceiptsInit DEF ReceiptsInv
<1>2. QED
  BY <1>1, ReceiptsTypeStep, PTL DEF Spec

-----------------------------------------------------------------------------
(* One post                                                                *)

\* Whether the search brings a message is settled when it is posted.
LEMMA FetchedForGood ==
  ASSUME TypeOK, Grows, NEW m \in DOMAIN chatter
  PROVE  Fetched(m)' <=> Fetched(m)
<1>1. DOMAIN chatter = 1..Len(chatter) /\ Len(chatter) \in Nat
  BY DEF TypeOK
<1>2. m \in Nat /\ m <= Len(chatter)
  BY <1>1
<1>3. \A k \in 1..m : k \in DOMAIN chatter
  BY <1>1, <1>2
<1>4. \A k \in 1..m : chatter'[k] = chatter[k]
  BY <1>3 DEF Grows
<1>5. chatter'[m] = chatter[m]
  BY DEF Grows
<1>6. {k \in 1..m : chatter'[k].record = chatter'[m].record}
        = {k \in 1..m : chatter[k].record = chatter[m].record}
  BY <1>4, <1>5
<1>7. QED
  BY <1>6 DEF Fetched

\* Message m is one that no search for it can be blamed to have missed.
Missed(m) == ~Fetched(m) \/ m \in stray

\* What a thread learned under the lock stays true: the claimed messages are
\* of other items, and who is about to post is the first to do so but for the
\* messages that a search misses.
PostInv ==
  /\ OnePostPerRecord
  /\ \A w \in Threads : thread[w].phase = "fetch" =>
       \A m \in thread[w].claimed : m \in DOMAIN chatter /\ chatter[m].item # thread[w].item
  /\ \A w \in Threads : thread[w].phase = "post" =>
       \A m \in DOMAIN chatter : chatter[m] = Post(thread[w].item, thread[w].record) => Missed(m)

\* Steps that post nothing: who looks or is about to post did so before.
LEMMA NothingPosted ==
  ASSUME PostInv, chatter' = chatter, stray' = stray,
         \A w \in Threads : \/ thread'[w] = thread[w]
                            \/ thread'[w].phase \notin {"fetch", "post"}
  PROVE  PostInv'
<1>1. \A m : Missed(m)' <=> Missed(m)
  BY DEF Missed, Fetched
<1>2. OnePostPerRecord'
  BY DEF PostInv, OnePostPerRecord, Fetched
<1>3. \A w \in Threads : thread'[w].phase = "post" =>
        \A m \in DOMAIN chatter' :
          chatter'[m] = Post(thread'[w].item, thread'[w].record) => Missed(m)'
  BY <1>1 DEF PostInv
<1>4. QED
  BY <1>2, <1>3 DEF PostInv

\* A thread that takes the lock of an item without a receipt finds only
\* messages of other items claimed.
LEMMA EnterPosts ==
  ASSUME ReceiptsInv, PostInv, NEW w \in Threads, NEW i \in Items, Enter(w, i)
  PROVE  PostInv'
<1>0. thread \in [Threads -> Doing] /\ chatter' = chatter /\ stray' = stray
  BY DEF ReceiptsInv, TypeOK, Enter, External
<1>1. CASE receipt[i] # {} \/ target[i] = NoRecord
  BY <1>0, <1>1, NothingPosted DEF Enter, Leave
<1>2. CASE ~(receipt[i] # {} \/ target[i] = NoRecord)
  <2>1. /\ thread'[w].phase = "fetch" /\ thread'[w].item = i /\ thread'[w].claimed = ClaimedIds
        /\ \A v \in Threads \ {w} : thread'[v] = thread[v]
    BY <1>0, <1>2 DEF Enter, Entered
  <2>2. ASSUME NEW m \in ClaimedIds PROVE m \in DOMAIN chatter /\ chatter[m].item # i
    <3>1. PICK k \in Items : m \in {r.id : r \in receipt[k]}
      BY DEF ClaimedIds
    <3>2. PICK r \in receipt[k] : m = r.id
      BY <3>1
    <3>3. m \in DOMAIN chatter /\ chatter[m] = Post(k, r.record)
      BY <3>2 DEF ReceiptsInv, Backed
    <3>4. k # i
      BY <1>2, <3>2
    <3>5. QED
      BY <3>3, <3>4 DEF Post
  <2>3. OnePostPerRecord' /\ \A m : Missed(m)' <=> Missed(m)
    BY <1>0 DEF PostInv, OnePostPerRecord, Missed, Fetched
  <2>4. \A v \in Threads : thread'[v].phase = "post" =>
          \A m \in DOMAIN chatter' :
            chatter'[m] = Post(thread'[v].item, thread'[v].record) => Missed(m)'
    BY <1>0, <2>1, <2>3 DEF PostInv
  <2>5. QED
    BY <1>0, <2>1, <2>2, <2>3, <2>4 DEF PostInv
<1>3. QED
  BY <1>1, <1>2

\* Without a candidate nobody posted for the item on the record, as far as the
\* search goes.
LEMMA RecoverPosts ==
  ASSUME ReceiptsInv, PostInv, NEW w \in Threads, RecoverExistingPost(w)
  PROVE  PostInv'
<1>0. /\ thread \in [Threads -> Doing] /\ chatter' = chatter /\ stray' = stray
      /\ thread[w].phase = "fetch"
      /\ \A v \in Threads \ {w} : thread'[v] = thread[v]
  BY DEF ReceiptsInv, TypeOK, RecoverExistingPost, External
<1>1. CASE Candidates(w) = {}
  <2>1. /\ thread'[w].phase = "post" /\ thread'[w].item = thread[w].item
        /\ thread'[w].record = thread[w].record
    BY <1>0, <1>1 DEF RecoverExistingPost, Holding
  <2>2. ASSUME NEW m \in DOMAIN chatter, chatter[m] = Post(thread[w].item, thread[w].record)
        PROVE  ~Fetched(m)
    <3>1. chatter[m].item = thread[w].item /\ chatter[m].record = thread[w].record
      BY <2>2 DEF Post
    <3>2. m \notin thread[w].claimed
      BY <1>0, <3>1 DEF PostInv
    <3>3. Fetched(m) => m \in Candidates(w)
      BY <3>1, <3>2 DEF Candidates
    <3>4. QED
      BY <1>1, <3>3
  <2>3. OnePostPerRecord' /\ \A m : Missed(m)' <=> Missed(m)
    BY <1>0 DEF PostInv, OnePostPerRecord, Missed, Fetched
  <2>4. \A v \in Threads : thread'[v].phase = "post" =>
          \A m \in DOMAIN chatter' :
            chatter'[m] = Post(thread'[v].item, thread'[v].record) => Missed(m)'
    <3>1. \A m \in DOMAIN chatter :
            chatter[m] = Post(thread[w].item, thread[w].record) => Missed(m)
      BY <2>2 DEF Missed
    <3>2. QED
      BY <1>0, <2>1, <2>3, <3>1 DEF PostInv
  <2>5. \A v \in Threads : thread'[v].phase = "fetch" => v # w
    BY <2>1
  <2>6. QED
    BY <1>0, <2>3, <2>4, <2>5 DEF PostInv
<1>2. CASE Candidates(w) # {}
  <2>1. thread'[w].phase = "insert"
    BY <1>0, <1>2 DEF RecoverExistingPost, Holding
  <2>2. QED
    BY <1>0, <2>1, NothingPosted
<1>3. QED
  BY <1>1, <1>2

\* A message more: the others are missed as before.
LEMMA MissedForGood ==
  ASSUME TypeOK, Grows, stray \subseteq stray', NEW m \in DOMAIN chatter, Missed(m)
  PROVE  Missed(m)'
  BY FetchedForGood DEF Missed

\* A message more, of which every equal one before it is missed or which is
\* itself of a late call.
LEMMA OnePostMore ==
  ASSUME TypeOK, OnePostPerRecord, NEW x \in Messages, chatter' = Append(chatter, x),
         stray \subseteq stray',
         \/ Len(chatter') \in stray'
         \/ \A m \in DOMAIN chatter : chatter[m] = x => Missed(m)
  PROVE  OnePostPerRecord'
<1>1. /\ Grows /\ chatter'[Len(chatter')] = x
      /\ DOMAIN chatter' = DOMAIN chatter \cup {Len(chatter')}
      /\ \A n \in DOMAIN chatter : n < Len(chatter')
      /\ DOMAIN chatter \subseteq Nat /\ Len(chatter') \in Nat
  BY AppendGrows, OneMore
<1> SUFFICES ASSUME NEW m \in DOMAIN chatter', NEW n \in DOMAIN chatter', m < n,
                    chatter'[m] = chatter'[n]
             PROVE  Missed(m)' \/ n \in stray'
  BY DEF OnePostPerRecord, Missed
<1>2. m \in DOMAIN chatter
  BY <1>1
<1>3. CASE n \in DOMAIN chatter
  <2>1. Missed(m) \/ n \in stray
    BY <1>1, <1>2, <1>3 DEF OnePostPerRecord, Missed, Grows
  <2>2. QED
    BY <1>1, <1>2, <2>1, MissedForGood
<1>4. CASE n = Len(chatter')
  <2>1. n \in stray' \/ Missed(m)
    BY <1>1, <1>2, <1>4 DEF Grows
  <2>2. QED
    BY <1>1, <1>2, <2>1, MissedForGood
<1>5. QED
  BY <1>1, <1>3, <1>4

\* The holder of the lock posts what nobody posted where it can be found, and
\* no other thread is about to post for its item.
LEMMA PostPosts ==
  ASSUME ReceiptsInv, PostInv, NEW w \in Threads, MessagePost(w) \/ TimeoutAfterPost(w)
  PROVE  PostInv'
<1>0. TypeOK /\ LockInv /\ thread \in [Threads -> Doing]
  BY DEF ReceiptsInv, TypeOK
<1>1. /\ thread[w].phase = "post" /\ Busy(w) /\ stray' = stray
      /\ chatter' = Append(chatter, Message(w)) /\ Message(w) \in Messages
      /\ Message(w) = Post(thread[w].item, thread[w].record)
  BY <1>0, MessageIs DEF MessagePost, TimeoutAfterPost, Busy
<1>2. /\ thread'[w].phase \in {"insert", "failed"}
      /\ \A v \in Threads \ {w} : thread'[v] = thread[v]
  BY <1>0 DEF MessagePost, TimeoutAfterPost, Failing, Holding
<1>3. /\ Grows /\ chatter'[Len(chatter')] = Message(w)
      /\ DOMAIN chatter' = DOMAIN chatter \cup {Len(chatter')}
  BY <1>0, <1>1, AppendGrows
<1>4. \A m \in DOMAIN chatter : chatter[m] = Message(w) => Missed(m)
  BY <1>1 DEF PostInv
<1>5. OnePostPerRecord'
  BY <1>0, <1>1, <1>4, OnePostMore DEF PostInv
<1>6. ASSUME NEW v \in Threads, v # w, Busy(v) PROVE thread[v].item # thread[w].item
  BY <1>0, <1>1, <1>6 DEF LockInv
<1>7. ASSUME NEW v \in Threads, thread'[v].phase = "fetch", NEW m \in thread'[v].claimed
      PROVE  m \in DOMAIN chatter' /\ chatter'[m].item # thread'[v].item
  BY <1>2, <1>3, <1>7 DEF PostInv, Grows
<1>8. ASSUME NEW v \in Threads, thread'[v].phase = "post", NEW m \in DOMAIN chatter',
             chatter'[m] = Post(thread'[v].item, thread'[v].record)
      PROVE  Missed(m)'
  <2>1. v # w /\ thread'[v] = thread[v] /\ Busy(v)
    BY <1>2, <1>8 DEF Busy
  <2>2. m # Len(chatter')
    BY <1>1, <1>3, <1>6, <1>8, <2>1 DEF Post
  <2>3. m \in DOMAIN chatter /\ chatter[m] = Post(thread[v].item, thread[v].record)
    BY <1>3, <1>8, <2>1, <2>2 DEF Grows
  <2>4. Missed(m)
    BY <1>8, <2>1, <2>3 DEF PostInv
  <2>5. QED
    BY <1>0, <1>1, <1>3, <2>3, <2>4, MissedForGood
<1>9. QED
  BY <1>5, <1>7, <1>8 DEF PostInv

\* A call that Odoo runs late posts a message that no search can have found.
LEMMA LatePosts ==
  ASSUME ReceiptsInv, PostInv, NEW x \in late, LatePost(x)
  PROVE  PostInv'
<1>1. /\ TypeOK /\ x \in Messages /\ chatter' = Append(chatter, x) /\ thread' = thread
      /\ stray' = stray \cup {Len(chatter')}
  BY DEF ReceiptsInv, TypeOK, LatePost
<1>2. Grows /\ DOMAIN chatter' = DOMAIN chatter \cup {Len(chatter')}
  BY <1>1, AppendGrows
<1>3. OnePostPerRecord'
  BY <1>1, OnePostMore DEF PostInv
<1>4. ASSUME NEW v \in Threads, thread'[v].phase = "fetch", NEW m \in thread'[v].claimed
      PROVE  m \in DOMAIN chatter' /\ chatter'[m].item # thread'[v].item
  BY <1>1, <1>2, <1>4 DEF PostInv, Grows
<1>5. ASSUME NEW v \in Threads, thread'[v].phase = "post", NEW m \in DOMAIN chatter',
             chatter'[m] = Post(thread'[v].item, thread'[v].record)
      PROVE  Missed(m)'
  <2>1. CASE m \in DOMAIN chatter
    <3>1. Missed(m)
      BY <1>1, <1>2, <1>5, <2>1 DEF PostInv, Grows
    <3>2. QED
      BY <1>1, <1>2, <2>1, <3>1, MissedForGood
  <2>2. CASE m = Len(chatter')
    BY <1>1, <2>2 DEF Missed
  <2>3. QED
    BY <1>2, <2>1, <2>2
<1>6. QED
  BY <1>3, <1>4, <1>5 DEF PostInv

\* The invariant of the posts is inductive.
LEMMA PostStep ==
  ReceiptsInv /\ PostInv /\ [Next]_vars => PostInv'
<1> SUFFICES ASSUME ReceiptsInv, PostInv, [Next]_vars PROVE PostInv'
  OBVIOUS
<1>0. /\ TypeOK /\ thread \in [Threads -> Doing] /\ Cycle \in Threads /\ Callers \subseteq Threads
  BY DEF ReceiptsInv, TypeOK, Threads
<1>1. CASE CycleStarts \/ CycleEndsEarly \/ RetryPendingReceipts
  BY <1>0, <1>1, NothingPosted DEF CycleStarts, CycleEndsEarly, RetryPendingReceipts, Idle, External
<1>2. ASSUME NEW w \in Callers, NEW i \in Items, Call(w, i) PROVE PostInv'
  <2>1. thread' = [thread EXCEPT ![w] = [phase |-> "idle", todo |-> {i}]]
    BY <1>0, <1>2, ListGiven DEF Call
  <2>2. QED
    BY <1>0, <1>2, <2>1, NothingPosted DEF Call, External
<1>3. ASSUME NEW w \in Threads, Step(w) PROVE PostInv'
  <2>1. CASE AdapterDown(w)
    BY <1>0, <2>1, NothingPosted DEF AdapterDown, Failing, Holding, External
  <2>2. CASE InsertReceipt(w)
    BY <1>0, <2>2, NothingPosted DEF InsertReceipt, Leave, External
  <2>3. CASE CountAttempt(w)
    BY <1>0, <2>3, NothingPosted DEF CountAttempt, Leave, External
  <2>4. CASE TimeoutBeforePost(w)
    BY <1>0, <2>4, NothingPosted DEF TimeoutBeforePost, Failing, Holding
  <2>5. QED
    BY <1>3, <2>1, <2>2, <2>3, <2>4, EnterPosts, RecoverPosts, PostPosts DEF Step
<1>4. CASE \E m \in late : LatePost(m)
  BY <1>4, LatePosts
<1>5. CASE \/ \E i \in Items : CloseItem(i)
           \/ \E i \in Items, r \in Records \cup {NoRecord} : ReviewAnchor(i, r)
           \/ UNCHANGED vars
  BY <1>5, NothingPosted DEF CloseItem, ReviewAnchor, External, vars
<1>6. CASE Crash
  BY <1>6, NothingPosted DEF Crash, External, Idle
<1>7. QED
  BY <1>1, <1>2, <1>3, <1>4, <1>5, <1>6 DEF Next

\* Whoever races, whatever answer is lost and wherever the service stops, a
\* record shows an item twice only if the first post lies behind the limit of
\* the search or one of the two is of a call that Odoo ran late: if first lines
\* tell items apart.
THEOREM OnePostPerRecordCorrect ==
  ASSUME LinesDistinct
  PROVE  Spec => []OnePostPerRecord
<1>1. LinesDistinct
  OBVIOUS
<1>2. Init => PostInv
  BY DEF Init, Idle, PostInv, OnePostPerRecord
<1>3. ReceiptsInv /\ PostInv /\ [Next]_vars => ReceiptsInv' /\ PostInv'
  BY <1>1, ReceiptsStep, PostStep
<1>4. PostInv => OnePostPerRecord
  BY DEF PostInv
<1>5. QED
  BY <1>2, <1>3, <1>4, ReceiptsInit, PTL DEF Spec

-----------------------------------------------------------------------------
(* Messages that sustain two receipts                                      *)

\* No message sustains the receipts of two items if first lines tell items
\* apart: items that share one are the only way in which a post of one is
\* adopted by the other.
THEOREM MessageSustainsOneReceiptCorrect ==
  ASSUME LinesDistinct
  PROVE  Spec => []MessageSustainsOneReceipt
<1>1. LinesDistinct
  OBVIOUS
<1>2. ReceiptsInv => MessageSustainsOneReceipt
  <2> SUFFICES ASSUME ReceiptsInv, NEW i \in Items, NEW k \in Items,
                      NEW r \in receipt[i], NEW s \in receipt[k], r.id = s.id
               PROVE  i = k
    BY DEF MessageSustainsOneReceipt
  <2>1. Post(i, r.record) = Post(k, s.record)
    BY DEF ReceiptsInv, Backed
  <2> QED BY <2>1 DEF Post
<1>3. ReceiptsInv /\ [Next]_vars => ReceiptsInv'
  BY <1>1, ReceiptsStep
<1>4. QED
  BY <1>2, <1>3, ReceiptsInit, PTL DEF Spec
=============================================================================
