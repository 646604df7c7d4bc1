----------------------------- MODULE IngestProofs -----------------------------
(***************************************************************************)
(* Theorems about Ingest for any number of messages, sources, threads and  *)
(* attempts, any failures and any finite set of contents.  The invariant   *)
(* has three parts: what the tables say of an ingest (TablesInv), that a   *)
(* message nobody has decided has no items and is ingested by the holder   *)
(* of the lock alone (WalkInv), and that whatever lies between the cursor  *)
(* and a polled message, and was seen in time, was polled too (CursorInv). *)
(***************************************************************************)
EXTENDS Ingest, FiniteSetTheorems, WellFoundedInduction, TLAPS

-----------------------------------------------------------------------------
(* Numbers                                                                 *)

\* x is the largest element of S.
IsMax(S, x) == x \in S /\ \A y \in S : y <= x

\* Finite sets of natural numbers have a largest element.
LEMMA FiniteSetsHaveMax ==
  ASSUME NEW S \in SUBSET Nat, IsFiniteSet(S), S # {}
  PROVE  \E x \in S : IsMax(S, x)
<1> DEFINE Bad == {T \in SUBSET S : T # {} /\ \A x \in T : ~ IsMax(T, x)}
           B == {n \in Nat : \E T \in Bad : Cardinality(T) = n}
<1>1. SUFFICES ASSUME S \in Bad PROVE FALSE
  OBVIOUS
<1>2. \A T \in Bad : IsFiniteSet(T) /\ Cardinality(T) \in Nat
  BY FS_Subset, FS_CardinalityType
<1>3. B # {} /\ B \subseteq Nat
  BY <1>1, <1>2
<1>4. PICK n \in B : \A k \in B : ~ (<<k, n>> \in OpToRel(<, Nat))
  <2> HIDE DEF B
  <2> QED BY <1>3, NatLessThanWellFounded, WFMin
<1>5. \A k \in B : ~ (k < n)
  BY <1>4 DEF OpToRel
<1>6. PICK T \in Bad : Cardinality(T) = n
  OBVIOUS
<1>7. PICK x : x \in T
  OBVIOUS
<1> DEFINE U == T \ {x}
<1>8. IsFiniteSet(U) /\ Cardinality(U) = n - 1 /\ Cardinality(U) \in Nat /\ n \in Nat
  BY <1>2, <1>6, <1>7, FS_RemoveElement, FS_CardinalityType
<1>9. U \notin Bad
  BY <1>5, <1>8
<1>10. CASE U = {}
  BY <1>7, <1>10 DEF IsMax
<1>11. CASE U # {}
  <2>1. PICK y \in U : IsMax(U, y)
    BY <1>9, <1>11
  <2>2. x \in Nat /\ y \in Nat /\ T = U \cup {x} /\ T \subseteq Nat
    BY <1>7
  <2>3. IsMax(T, x) \/ IsMax(T, y)
    BY <2>1, <2>2 DEF IsMax
  <2> QED BY <2>2, <2>3
<1> QED BY <1>10, <1>11

\* The largest of finitely many natural numbers is one of them.
LEMMA MaxOfNaturals ==
  ASSUME NEW S \in SUBSET Nat, IsFiniteSet(S), S # {}
  PROVE  Max(S) \in S /\ \A y \in S : y <= Max(S)
<1>1. PICK x \in S : IsMax(S, x)
  BY FiniteSetsHaveMax
<1>2. \A y \in S : x >= y
  BY <1>1 DEF IsMax
<1>3. Max(S) \in S /\ \A y \in S : Max(S) >= y
  BY <1>2 DEF Max
<1> QED BY <1>3

\* The smallest of some natural numbers is one of them.
LEMMA MinOfNaturals ==
  ASSUME NEW S \in SUBSET Nat, S # {}
  PROVE  Min(S) \in S /\ \A y \in S : Min(S) <= y
<1>1. PICK x \in S : \A y \in S : ~ (<<y, x>> \in OpToRel(<, Nat))
  BY NatLessThanWellFounded, WFMin
<1>2. \A y \in S : x =< y
  <2>1. ASSUME NEW y \in S
        PROVE  ~ (y < x)
    BY <1>1, <2>1 DEF OpToRel
  <2> QED BY <2>1
<1>3. Min(S) \in S /\ \A y \in S : Min(S) =< y
  BY <1>2 DEF Min
<1> QED BY <1>3

\* There are finitely many messages.
LEMMA MessagesFinite == IsFiniteSet(Messages)
<1>1. 1 \in Int /\ MaxMessage \in Int
  BY IngestAssumption
<1>2. IsFiniteSet(1..MaxMessage)
  BY <1>1, FS_Interval
<1> QED BY <1>2 DEF Messages

\* Some messages are finitely many natural numbers.
LEMMA SetsOfMessages ==
  ASSUME NEW S \in SUBSET Messages
  PROVE  S \subseteq Nat /\ IsFiniteSet(S)
<1>1. IsFiniteSet(S)
  BY MessagesFinite, FS_Subset
<1>2. Messages \subseteq Nat
  BY IngestAssumption DEF Messages
<1> QED BY <1>1, <1>2

\* With a number, the smallest n of a set hold every smaller number of it.
LEMMA SmallestIsInitial ==
  ASSUME NEW n \in Nat, NEW S \in SUBSET Messages, NEW b \in Smallest(n, S), NEW m \in S, m < b
  PROVE  m \in Smallest(n, S)
<1> DEFINE B == {k \in S : k < b}
           M == {k \in S : k < m}
<1>1. S \subseteq Nat /\ IsFiniteSet(S)
  BY SetsOfMessages
<1>2. IsFiniteSet(B) /\ M \subseteq B
  <2>1. IsFiniteSet(B)
    <3>1. B \in SUBSET S
      OBVIOUS
    <3> QED BY <3>1, <1>1, FS_Subset
  <2>2. b \in S
    BY DEF Smallest
  <2>3. ASSUME NEW k \in S, k < m PROVE k < b
    <3>1. k \in Nat /\ m \in Nat /\ b \in Nat
      BY <1>1, <2>2
    <3> QED BY <2>3, <3>1
  <2>4. M \subseteq B
    BY <2>3
  <2> QED BY <2>1, <2>4
<1>3. Cardinality(B) < n
  BY DEF Smallest
<1>4. Cardinality(M) <= Cardinality(B) /\ Cardinality(M) \in Nat /\ Cardinality(B) \in Nat
  BY <1>2, FS_Subset, FS_CardinalityType
<1>5. Cardinality(M) < n
  <2> HIDE DEF M, B
  <2> QED BY <1>3, <1>4
<1> QED BY <1>5 DEF Smallest

\* The cursor that is seeded is a message that is seen, or none.
LEMMA SeedTyped ==
  ASSUME NEW S \in SUBSET Messages
  PROVE  Max({0} \cup S) \in 0..MaxMessage
<1>1. IsFiniteSet(S) /\ S \subseteq Nat
  BY SetsOfMessages
<1>2. IsFiniteSet({0} \cup S)
  <2>1. IsFiniteSet(S \cup {0})
    BY <1>1, FS_AddElement
  <2>2. S \cup {0} = {0} \cup S
    OBVIOUS
  <2> QED BY <2>1, <2>2
<1>3. Max({0} \cup S) \in {0} \cup S
  BY <1>1, <1>2, MaxOfNaturals
<1>4. {0} \cup S \subseteq 0..MaxMessage
  BY IngestAssumption DEF Messages
<1> QED BY <1>3, <1>4

\* Moving the cursor over a message.
LEMMA MaxOfTwo ==
  ASSUME NEW x \in Nat, NEW y \in Nat
  PROVE  Max({x, y}) = IF x < y THEN y ELSE x
<1>1. IsFiniteSet({x, y}) 
  <2>1. IsFiniteSet({x})
    BY FS_Singleton
  <2>2. IsFiniteSet({x} \cup {y})
    BY <2>1, FS_AddElement
  <2>3. {x, y} = {x} \cup {y}
    OBVIOUS
  <2> QED BY <2>2, <2>3
<1>2. Max({x, y}) \in {x, y} /\ \A z \in {x, y} : z <= Max({x, y})
  BY <1>1, MaxOfNaturals
<1> QED BY <1>2

-----------------------------------------------------------------------------
(* The tables                                                              *)

\* Rows are typed, an undecided source has attempts left, and the properties
\* of the tables hold.
TablesInv ==
  /\ log \in [Sources -> LogRows]
  /\ \A s \in Sources : ~Settled(s) => log[s].attempts < MaxAttempts
  /\ items \subseteq Items /\ IsFiniteSet(items)
  /\ strangers \subseteq Unmapped
  /\ withdrawn \subseteq Messages
  /\ ChatterIngestedOnce /\ WithdrawnIsUnsettled

\* Of the messages, only s may become settled or unsettled.
OnlySettles(s) == \A m \in Messages \ {s} : Settled(m)' <=> Settled(m)

\* A source of the gateway or the chat is no message.
LEMMA DirectIsNoMessage == Direct \cap Messages = {} /\ Messages \subseteq Nat
  BY IngestAssumption DEF Messages

\* Who does not touch the tables leaves what is said of them.
LEMMA TablesStay ==
  ASSUME TablesInv, UNCHANGED <<log, items, strangers, withdrawn>>
  PROVE  TablesInv' /\ \A s \in Sources : Settled(s)' <=> Settled(s)
  BY DEF TablesInv, Settled, ChatterIngestedOnce, OneIngest, Of, WithdrawnIsUnsettled

\* The log row of a source that left no items, or is no message.
LEMMA LogDecided ==
  ASSUME TablesInv, NEW s \in Sources, s \in Direct \/ Of(s) = {},
         NEW status \in Statuses, NEW n \in 0..MaxAttempts,
         status = "retrying" => n < MaxAttempts,
         UpsertLog(s, status, n, 0), items' = items, strangers' \subseteq Unmapped
  PROVE  TablesInv' /\ OnlySettles(s) /\ (Settled(s)' <=> status # "retrying")
<1> DEFINE row == [status |-> status, attempts |-> n, count |-> 0]
<1>1. row \in LogRows
  BY DEF LogRows
<1>2. log' = [log EXCEPT ![s] = row] /\ log \in [Sources -> LogRows]
  BY DEF UpsertLog, TablesInv
<1>3. row.status = status /\ row.attempts = n /\ row.status # "none"
  BY DEF Statuses
<1> HIDE DEF row
<1>4. /\ log' \in [Sources -> LogRows] /\ log'[s] = row
      /\ \A u \in Sources \ {s} : log'[u] = log[u]
  BY <1>1, <1>2
<1>5. /\ Settled(s)' <=> status # "retrying"
      /\ \A u \in Sources \ {s} : Settled(u)' <=> Settled(u)
  BY <1>3, <1>4 DEF Settled
<1>6. \A u \in Sources : ~Settled(u)' => log'[u].attempts < MaxAttempts
  BY <1>3, <1>4, <1>5 DEF TablesInv
<1>7. \A m \in Messages : Of(m)' = Of(m)
  BY DEF Of
<1>8. ChatterIngestedOnce'
  <2>1. OneIngest(Messages)'
    BY DEF TablesInv, ChatterIngestedOnce, OneIngest
  <2>2. ASSUME NEW m \in Messages, Of(m)' # {}
        PROVE  log'[m].status = "done" /\ Cardinality(Of(m)') <= log'[m].count
    <3>1. m # s
      BY <2>2, <1>7, DirectIsNoMessage
    <3> QED BY <3>1, <2>2, <1>4, <1>7 DEF TablesInv, ChatterIngestedOnce, Sources
  <2> QED BY <2>1, <2>2 DEF ChatterIngestedOnce
<1>9. withdrawn' \subseteq Messages /\ WithdrawnIsUnsettled'
  <2>1. withdrawn' = IF status = "retrying" THEN withdrawn ELSE withdrawn \ {s}
    BY DEF UpsertLog
  <2> QED BY <2>1, <1>5 DEF TablesInv, WithdrawnIsUnsettled, Sources
<1> QED BY <1>4, <1>5, <1>6, <1>8, <1>9 DEF TablesInv, OnlySettles, Sources

\* Rows that are updated, or retracted, stay the rows of their ingest.
LEMMA ItemsRewritten ==
  ASSUME TablesInv, NEW f, DOMAIN f = items, f = [i \in items |-> f[i]],
         \A i \in items : f[i] \in Items /\ f[i].source = i.source /\ f[i].take = i.take,
         items' \subseteq {f[i] : i \in items}, UNCHANGED <<log, strangers, withdrawn>>
  PROVE  TablesInv' /\ \A s \in Sources : Settled(s)' <=> Settled(s)
<1>0. items \subseteq Items /\ IsFiniteSet(items)
  BY DEF TablesInv
<1>1. IsFiniteSet(items')
  <2> DEFINE T == {f[i] : i \in items}
  <2>1. f \in Surjection(items, T)
    BY DEF Surjection
  <2>2. IsFiniteSet(T)
    BY <2>1, <1>0, FS_Surjection
  <2> QED BY <2>2, FS_Subset
<1>2. items' \subseteq Items
  OBVIOUS
<1>3. \A s \in Sources : Settled(s)' <=> Settled(s)
  BY DEF Settled
<1>4. OneIngest(Messages)'
  BY DEF TablesInv, ChatterIngestedOnce, OneIngest
<1>5. ASSUME NEW m \in Messages, Of(m)' # {}
      PROVE  Of(m) # {} /\ Cardinality(Of(m)') <= Cardinality(Of(m)) /\ Cardinality(Of(m)) \in Nat
                        /\ Cardinality(Of(m)') \in Nat
  <2> DEFINE O == Of(m)
             g == [i \in O |-> f[i]]
             T == {g[i] : i \in O}
  <2>1. IsFiniteSet(O) /\ O \subseteq items
    BY <1>0, FS_Subset DEF Of
  <2>2. g \in Surjection(O, T)
    BY DEF Surjection
  <2>3. Of(m)' \subseteq T
    BY DEF Of
  <2>4. IsFiniteSet(T) /\ Cardinality(T) <= Cardinality(O)
    <3> HIDE DEF O, g, T
    <3> QED BY <2>1, <2>2, FS_Surjection
  <2>5. IsFiniteSet(Of(m)') /\ Cardinality(Of(m)') <= Cardinality(T)
    <3> HIDE DEF O, g, T
    <3> QED BY <2>3, <2>4, FS_Subset
  <2>6. Cardinality(O) \in Nat /\ Cardinality(T) \in Nat /\ Cardinality(Of(m)') \in Nat
    BY <2>1, <2>4, <2>5, FS_CardinalityType
  <2>7. O # {}
    BY <2>3, <1>5
  <2> HIDE DEF T
  <2> QED BY <2>4, <2>5, <2>6, <2>7
<1>6. ChatterIngestedOnce'
  <2>1. ASSUME NEW m \in Messages, Of(m)' # {}
        PROVE  log'[m].status = "done" /\ Cardinality(Of(m)') <= log'[m].count
    <3>1. log[m].count \in Nat
      BY DEF TablesInv, LogRows, Sources
    <3>2. log[m].status = "done" /\ Cardinality(Of(m)) <= log[m].count
      BY <1>5, <2>1 DEF TablesInv, ChatterIngestedOnce
    <3> QED BY <3>1, <3>2, <2>1, <1>5
  <2> QED BY <2>1, <1>4 DEF ChatterIngestedOnce
<1>7. WithdrawnIsUnsettled'
  BY <1>3 DEF TablesInv, WithdrawnIsUnsettled, Sources
<1> QED BY <1>1, <1>2, <1>3, <1>6, <1>7 DEF TablesInv

\* The ingests of a source are counted in natural numbers.
LEMMA TakesTyped ==
  ASSUME TablesInv, NEW s \in Sources
  PROVE  NextTake(s) \in Nat
<1> DEFINE O == Of(s)
           t == [i \in O |-> i.take]
           T == {i.take : i \in O}
<1>1. IsFiniteSet(O) /\ O \subseteq Items
  BY FS_Subset DEF TablesInv, Of
<1>2. t \in Surjection(O, T)
  BY DEF Surjection
<1>3. T \subseteq Nat
  BY <1>1 DEF Items
<1>4. IsFiniteSet(T)
  <2> HIDE DEF O, t, T
  <2> QED BY <1>1, <1>2, FS_Surjection
<1> DEFINE Z == {0} \cup T
<1>5. IsFiniteSet(Z) /\ Z \subseteq Nat /\ Z # {}
  <2>1. IsFiniteSet(T \cup {0})
    <3> HIDE DEF T
    <3> QED BY <1>4, FS_AddElement
  <2>2. T \cup {0} = {0} \cup T
    OBVIOUS
  <2>3. IsFiniteSet(Z)
    <3> HIDE DEF T
    <3> QED BY <2>1, <2>2
  <2> QED BY <2>3, <1>3
<1>6. Max(Z) \in Nat
  <2> HIDE DEF Z
  <2> QED BY <1>5, MaxOfNaturals
<1> QED BY <1>6 DEF NextTake

\* A source that is written has the items of this ingest only, if it is a message.
LEMMA ItemsWritten ==
  ASSUME TablesInv, NEW s \in Sources, s \in Direct \/ Of(s) = {},
         NEW n \in 0..MaxAttempts, NEW kept \in SUBSET Contents, NEW vector \in BOOLEAN,
         items' = items \cup
           [source : {s}, content : kept, take : {NextTake(s)}, status : {"active"}, vector : {vector}],
         strangers' \subseteq Unmapped, UpsertLog(s, "done", n, Cardinality(kept))
  PROVE  TablesInv' /\ OnlySettles(s) /\ Settled(s)'
<1> DEFINE N == [source : {s}, content : kept, take : {NextTake(s)},
                 status : {"active"}, vector : {vector}]
           row == [status |-> "done", attempts |-> n, count |-> Cardinality(kept)]
           h == [c \in kept |-> [source |-> s, content |-> c, take |-> NextTake(s),
                                 status |-> "active", vector |-> vector]]
<1>1. IsFiniteSet(kept) /\ Cardinality(kept) \in Nat
  BY IngestAssumption, FS_Subset, FS_CardinalityType
<1>2. N \subseteq Items
  BY TakesTyped DEF Items
<1>3. \A i \in N : i.source = s /\ i.take = NextTake(s)
  OBVIOUS
<1>4. h \in Surjection(kept, N)
  <2>1. \A c \in kept : h[c] \in N
    OBVIOUS
  <2>2. \A i \in N : i = h[i.content] /\ i.content \in kept
    OBVIOUS
  <2> QED BY <2>1, <2>2 DEF Surjection
<1> HIDE DEF N, h
<1>5. IsFiniteSet(N) /\ Cardinality(N) <= Cardinality(kept)
  BY <1>1, <1>4, FS_Surjection
<1>6. items' = items \cup N /\ items' \subseteq Items /\ IsFiniteSet(items')
  <2>1. items' = items \cup N
    BY DEF N
  <2>2. IsFiniteSet(items \cup N)
    BY <1>5, FS_Union DEF TablesInv
  <2> QED BY <2>1, <2>2, <1>2 DEF TablesInv
<1>7. row \in LogRows /\ row.status = "done" /\ row.count = Cardinality(kept)
  BY <1>1 DEF LogRows, Statuses
<1>8. log' = [log EXCEPT ![s] = row] /\ log \in [Sources -> LogRows]
  BY DEF UpsertLog, TablesInv
<1> HIDE DEF row
<1>9. /\ log' \in [Sources -> LogRows] /\ log'[s] = row
      /\ \A u \in Sources \ {s} : log'[u] = log[u]
  BY <1>7, <1>8
<1>10. Settled(s)' /\ \A u \in Sources \ {s} : Settled(u)' <=> Settled(u)
  BY <1>7, <1>9 DEF Settled
<1>11. \A u \in Sources : ~Settled(u)' => log'[u].attempts < MaxAttempts
  BY <1>9, <1>10 DEF TablesInv
<1>12. \A m \in Messages \ {s} : Of(m)' = Of(m)
  BY <1>3, <1>6 DEF Of
<1>13. s \in Messages => Of(s)' = N /\ Of(s) = {}
  BY <1>3, <1>6, DirectIsNoMessage DEF Of
<1>14. OneIngest(Messages)'
  <2> SUFFICES ASSUME NEW i \in items', NEW j \in items', i.source = j.source, i.source \in Messages
               PROVE  i.take = j.take
    BY DEF OneIngest
  <2>1. CASE i.source = s
    <3>1. i \in Of(s)' /\ j \in Of(s)'
      BY <2>1 DEF Of
    <3> QED BY <3>1, <2>1, <1>3, <1>13
  <2>2. CASE i.source # s
    <3>1. i \in items /\ j \in items
      BY <2>2, <1>3, <1>6
    <3> QED BY <3>1 DEF TablesInv, ChatterIngestedOnce, OneIngest
  <2> QED BY <2>1, <2>2
<1>15. ChatterIngestedOnce'
  <2>1. ASSUME NEW m \in Messages, Of(m)' # {}
        PROVE  log'[m].status = "done" /\ Cardinality(Of(m)') <= log'[m].count
    <3>1. CASE m = s
      BY <3>1, <1>5, <1>7, <1>9, <1>13
    <3>2. CASE m # s
      BY <3>2, <2>1, <1>9, <1>12 DEF TablesInv, ChatterIngestedOnce, Sources
    <3> QED BY <3>1, <3>2
  <2> QED BY <2>1, <1>14 DEF ChatterIngestedOnce
<1>16. withdrawn' \subseteq Messages /\ WithdrawnIsUnsettled'
  <2>1. withdrawn' = withdrawn \ {s}
    BY DEF UpsertLog
  <2> QED BY <2>1, <1>10 DEF TablesInv, WithdrawnIsUnsettled, Sources
<1> QED BY <1>6, <1>9, <1>10, <1>11, <1>15, <1>16 DEF TablesInv, OnlySettles, Sources

\* A replay takes a message back to where it never was ingested.
LEMMA ItemsWithdrawn ==
  ASSUME TablesInv, NEW s \in Messages,
         items' = items \ Of(s), log' = [log EXCEPT ![s] = NoRow],
         withdrawn' = withdrawn \cup {s}, strangers' = strangers
  PROVE  TablesInv' /\ OnlySettles(s) /\ ~Settled(s)'
<1>1. NoRow \in LogRows /\ NoRow.status = "none" /\ NoRow.attempts = 0
  BY IngestAssumption DEF NoRow, LogRows
<1>2. /\ log' \in [Sources -> LogRows] /\ log'[s] = NoRow
      /\ \A u \in Sources \ {s} : log'[u] = log[u]
  BY <1>1 DEF TablesInv, Sources
<1>3. ~Settled(s)' /\ \A u \in Sources \ {s} : Settled(u)' <=> Settled(u)
  BY <1>1, <1>2 DEF Settled
<1>4. \A u \in Sources : ~Settled(u)' => log'[u].attempts < MaxAttempts
  BY <1>1, <1>2, <1>3, IngestAssumption DEF TablesInv
<1>5. items' \subseteq Items /\ IsFiniteSet(items')
  BY FS_Subset DEF TablesInv
<1>6. Of(s)' = {} /\ \A m \in Messages \ {s} : Of(m)' = Of(m)
  BY DEF Of
<1>7. ChatterIngestedOnce'
  <2>1. OneIngest(Messages)'
    BY DEF TablesInv, ChatterIngestedOnce, OneIngest
  <2>2. ASSUME NEW m \in Messages, Of(m)' # {}
        PROVE  log'[m].status = "done" /\ Cardinality(Of(m)') <= log'[m].count
    BY <2>2, <1>2, <1>6 DEF TablesInv, ChatterIngestedOnce, Sources
  <2> QED BY <2>1, <2>2 DEF ChatterIngestedOnce
<1>8. withdrawn' \subseteq Messages /\ WithdrawnIsUnsettled'
  BY <1>3 DEF TablesInv, WithdrawnIsUnsettled, Sources
<1> QED BY <1>2, <1>3, <1>4, <1>5, <1>7, <1>8 DEF TablesInv, OnlySettles, Sources

-----------------------------------------------------------------------------
(* The workers                                                             *)

\* The ingest a worker may have under way.
Ingests ==
  {Idle} \cup [phase : {"poll"}]
  \cup [phase : {"extract"}, source : Sources, attempts : 0..(MaxAttempts - 1)]
  \cup [phase : {"write"}, source : Sources, attempts : 0..(MaxAttempts - 1),
        found : SUBSET Contents]
  \cup [phase : {"advance", "read"}, source : Messages]
  \cup [phase : {"backfill"}, rows : SUBSET Items]

\* A thread of the gateway or the chat has no message of the chatter.
ThreadIs(r) ==
  /\ r.phase \in {"idle", "extract", "write"}
  /\ r.phase # "idle" => r.source \in Direct

\* The poller ingests, with the lock, a message that was not decided; in a
\* cycle it is the first of the batch.
PollerIs(r) ==
  /\ r.phase \in {"extract", "write"} =>
       r.source \in Messages /\ ~Settled(r.source) /\ lock # "free"
  /\ r.phase = "advance" => r.source \in Messages /\ Settled(r.source) /\ lock = "cycle"
  /\ r.phase = "read" => r.source \in Messages /\ lock = "replay"
  /\ r.phase \in {"poll", "backfill"} => lock = "cycle" /\ batch = {}
  /\ lock = "cycle" /\ r.phase \in {"extract", "write", "advance"} =>
       r.source \in batch /\ \A n \in batch : r.source <= n

\* The holder of the lock, its batch and the ingests fit each other.
WalkInv ==
  /\ lock \in {"free", "cycle", "replay"}
  /\ batch \subseteq Messages /\ (batch # {} => lock = "cycle")
  /\ worker \in [Workers -> Ingests]
  /\ lock = "free" => worker[Poller] = Idle
  /\ \A w \in Threads : ThreadIs(worker[w])
  /\ PollerIs(worker[Poller])

\* w may ingest s: a thread one of its sources, the poller, with the lock, a
\* message, and in a cycle the first of its batch.
AtHand(w, s) ==
  \/ w \in Threads /\ s \in Direct
  \/ /\ w = Poller /\ s \in Messages /\ lock # "free"
     /\ lock = "cycle" => s \in batch /\ \A n \in batch : s <= n

\* The phase of an ingest says what it has in hand.
LEMMA IngestIs ==
  ASSUME NEW r \in Ingests
  PROVE  /\ r.phase \in {"idle", "poll", "extract", "write", "advance", "read", "backfill"}
         /\ r.phase = "idle" => r = Idle
         /\ r.phase = "extract" => r.source \in Sources /\ r.attempts \in 0..(MaxAttempts - 1)
         /\ r.phase = "write" => /\ r.source \in Sources /\ r.attempts \in 0..(MaxAttempts - 1)
                                 /\ r.found \in SUBSET Contents
         /\ r.phase \in {"advance", "read"} => r.source \in Messages
         /\ r.phase = "backfill" => r.rows \in SUBSET Items
  BY DEF Ingests, Idle

\* A worker may have nothing under way.
LEMMA IdleIngest == Idle \in Ingests /\ Idle.phase = "idle" /\ ThreadIs(Idle) /\ PollerIs(Idle)
  BY DEF Ingests, Idle, ThreadIs, PollerIs

\* The workers are the threads and the poller.
LEMMA WorkersAre == Workers = Threads \cup {Poller} /\ Poller \notin Threads
  BY IngestAssumption DEF Workers

\* What a worker extracts or writes is its own, and has no items if it is a message.
LEMMA IngestAtHand ==
  ASSUME TablesInv, WalkInv, NEW w \in Workers, worker[w].phase \in {"extract", "write"}
  PROVE  LET s == worker[w].source IN
         /\ AtHand(w, s) /\ s \in Sources /\ (s \in Direct \/ Of(s) = {})
         /\ w = Poller => ~Settled(s)
         /\ worker[w].attempts \in 0..(MaxAttempts - 1)
<1> DEFINE s == worker[w].source
<1>1. s \in Sources /\ worker[w].attempts \in 0..(MaxAttempts - 1)
  BY IngestIs DEF WalkInv
<1>2. CASE w \in Threads
  BY <1>1, <1>2, WorkersAre DEF WalkInv, ThreadIs, AtHand
<1>3. CASE w = Poller
  <2>1. s \in Messages /\ ~Settled(s) /\ AtHand(w, s)
    BY <1>3 DEF WalkInv, PollerIs, AtHand
  <2>2. Of(s) = {}
    BY <2>1 DEF TablesInv, ChatterIngestedOnce, Settled
  <2> QED BY <1>1, <2>1, <2>2
<1> QED BY <1>2, <1>3, WorkersAre

\* A thread does not disturb the poller, whose messages it cannot settle.
LEMMA ThreadWalks ==
  ASSUME WalkInv, NEW w \in Threads, NEW r \in Ingests, ThreadIs(r), Doing(w, r),
         UNCHANGED <<lock, batch>>, \A m \in Messages : Settled(m)' <=> Settled(m)
  PROVE  WalkInv'
<1>1. /\ worker' \in [Workers -> Ingests] /\ worker'[w] = r
      /\ \A v \in Workers \ {w} : worker'[v] = worker[v]
  BY WorkersAre DEF WalkInv, Doing
<1>2. worker'[Poller] = worker[Poller] /\ \A v \in Threads : ThreadIs(worker'[v])
  BY <1>1, WorkersAre DEF WalkInv
<1>3. PollerIs(worker[Poller])'
  BY <1>2 DEF WalkInv, PollerIs
<1>4. (\A v \in Threads : ThreadIs(worker[v]))'
  BY <1>2 DEF ThreadIs
<1> QED BY <1>1, <1>2, <1>3, <1>4 DEF WalkInv

\* The poller goes on to an ingest that fits its lock and batch.
LEMMA PollerWalks ==
  ASSUME WalkInv, NEW r \in Ingests, Doing(Poller, r), PollerIs(r)',
         lock' \in {"free", "cycle", "replay"}, batch' \subseteq Messages,
         batch' # {} => lock' = "cycle", lock' = "free" => r = Idle
  PROVE  WalkInv'
<1>1. /\ worker' \in [Workers -> Ingests] /\ worker'[Poller] = r
      /\ \A v \in Threads : worker'[v] = worker[v]
  BY WorkersAre DEF WalkInv, Doing
<1>2. (\A v \in Threads : ThreadIs(worker[v]))'
  BY <1>1 DEF WalkInv, ThreadIs
<1>3. PollerIs(worker[Poller])'
  BY <1>1 DEF PollerIs
<1> QED BY <1>1, <1>2, <1>3 DEF WalkInv

\* Where nobody moves and no message is unsettled, nothing changes.
LEMMA WalkStays ==
  ASSUME WalkInv, UNCHANGED <<worker, lock, batch>>, \A m \in Messages : Settled(m)' <=> Settled(m)
  PROVE  WalkInv'
  BY DEF WalkInv, ThreadIs, PollerIs

\* Deciding a source of the gateway or the chat decides no message.
LEMMA OthersStay ==
  ASSUME NEW s \in Direct, OnlySettles(s)
  PROVE  \A m \in Messages : Settled(m)' <=> Settled(m)
  BY DirectIsNoMessage DEF OnlySettles

\* A source that is settled has been answered.
LEMMA WalkAnswered ==
  ASSUME WalkInv, NEW w, NEW s, AtHand(w, s), Answered(w, s), OnlySettles(s), Settled(s)'
  PROVE  WalkInv' /\ batch' = batch
<1>0. batch' = batch
  BY DEF Answered
<1>1. CASE w \in Threads /\ s \in Direct
  <2>1. Doing(w, Idle) /\ UNCHANGED <<lock, batch>>
    BY <1>1, WorkersAre DEF Answered
  <2> QED BY <1>0, <1>1, <2>1, IdleIngest, OthersStay, ThreadWalks
<1>2. CASE w = Poller /\ s \in Messages /\ lock = "cycle"
  <2> DEFINE r == [phase |-> "advance", source |-> s]
  <2>1. Doing(Poller, r) /\ UNCHANGED <<lock, batch>>
    BY <1>2 DEF Answered
  <2>2. r \in Ingests /\ r.phase = "advance" /\ r.source = s
    BY <1>2 DEF Ingests
  <2>3. s \in batch /\ \A n \in batch : s <= n
    BY <1>2, WorkersAre DEF AtHand
  <2> HIDE DEF r
  <2>4. PollerIs(r)'
    BY <1>2, <2>1, <2>2, <2>3 DEF PollerIs
  <2> QED BY <1>0, <1>2, <2>1, <2>2, <2>4, PollerWalks DEF WalkInv
<1>3. CASE w = Poller /\ s \in Messages /\ lock # "cycle"
  <2>1. Doing(Poller, Idle) /\ lock' = "free" /\ batch' = {}
    BY <1>3 DEF Answered, WalkInv
  <2>2. PollerIs(Idle)'
    BY DEF PollerIs, Idle
  <2> QED BY <1>0, <2>1, <2>2, IdleIngest, PollerWalks
<1> QED BY <1>1, <1>2, <1>3 DEF AtHand

\* A source that is not settled is taken further.
LEMMA WalkGoesOn ==
  ASSUME WalkInv, NEW w, NEW s, AtHand(w, s), w = Poller => ~Settled(s),
         NEW r \in Ingests, r.phase \in {"extract", "write"}, r.source = s,
         Doing(w, r), UNCHANGED <<lock, batch>>, \A m \in Messages : Settled(m)' <=> Settled(m)
  PROVE  WalkInv'
<1>1. CASE w \in Threads /\ s \in Direct
  <2>1. ThreadIs(r)
    BY <1>1 DEF ThreadIs
  <2> QED BY <1>1, <2>1, ThreadWalks
<1>2. CASE w = Poller /\ s \in Messages
  <2>1. PollerIs(r)'
    BY <1>2, WorkersAre DEF PollerIs, AtHand
  <2>2. r # Idle
    BY DEF Idle
  <2> QED BY <1>2, <2>1, <2>2, WorkersAre, PollerWalks DEF WalkInv, AtHand
<1> QED BY <1>1, <1>2 DEF AtHand

\* A worker that fails is idle; the poller leaves its batch.
LEMMA WalkGivesUp ==
  ASSUME WalkInv, NEW w, NEW s, AtHand(w, s), OnlySettles(s), Doing(w, Idle),
         batch' = IF w = Poller THEN {} ELSE batch,
         lock' \in {"free", "cycle", "replay"}, w # Poller => lock' = lock
  PROVE  WalkInv'
<1>1. CASE w \in Threads /\ s \in Direct
  <2>1. UNCHANGED <<lock, batch>>
    BY <1>1, WorkersAre
  <2> QED BY <1>1, <2>1, IdleIngest, OthersStay, ThreadWalks
<1>2. CASE w = Poller
  <2>1. PollerIs(Idle)' /\ batch' = {}
    BY <1>2 DEF PollerIs, Idle
  <2> QED BY <1>2, <2>1, IdleIngest, PollerWalks
<1> QED BY <1>1, <1>2 DEF AtHand

-----------------------------------------------------------------------------
(* The cursor                                                              *)

\* What the polls see: the cursor is before the batch, and what lies between
\* them and was seen in time is in the batch.
CursorInv ==
  /\ visible \subseteq Messages /\ seeded \in BOOLEAN
  /\ cursor \in 0..MaxMessage /\ seed \in 0..MaxMessage
  /\ late \subseteq Messages /\ replayed \subseteq Messages
  /\ \A b \in batch :
       /\ cursor < b
       /\ \A m \in visible \ (late \cup replayed) : cursor < m /\ m < b => m \in batch
  /\ CursorPassesSettled

\* Where no message is unsettled and nothing polled, the cursor stays right.
LEMMA CursorStays ==
  ASSUME CursorInv, UNCHANGED <<visible, seeded, cursor, seed, late, replayed>>,
         batch' \in {batch, {}}, \A m \in Messages : Settled(m) => Settled(m)'
  PROVE  CursorInv'
  BY DEF CursorInv, CursorPassesSettled

\* The inductive invariant.
IngestInv == TablesInv /\ WalkInv /\ CursorInv

-----------------------------------------------------------------------------
(* The steps                                                               *)

\* The tables that an ingest leaves alone, beyond its own.
Frame == UNCHANGED <<visible, seeded, cursor, seed, late, replayed>>

\* An ingest starts: a settled source is answered, another extracted.
LEMMA ReadLogStep ==
  ASSUME IngestInv, NEW w \in Workers, NEW s \in Sources, AtHand(w, s), ReadLog(w, s)
  PROVE  IngestInv'
<1>0. TablesInv /\ WalkInv /\ CursorInv /\ Frame /\ UNCHANGED <<log, items, strangers, withdrawn>>
  BY DEF IngestInv, ReadLog, history, Frame
<1>1. TablesInv' /\ \A u \in Sources : Settled(u)' <=> Settled(u)
  BY <1>0, TablesStay
<1>2. OnlySettles(s) /\ \A m \in Messages : Settled(m)' <=> Settled(m)
  BY <1>1 DEF OnlySettles, Sources
<1>3. CASE Settled(s)
  <2>1. Answered(w, s) /\ Settled(s)'
    BY <1>1, <1>3 DEF ReadLog
  <2>2. WalkInv' /\ batch' = batch
    BY <1>0, <1>2, <2>1, WalkAnswered
  <2> QED BY <1>0, <1>1, <1>2, <2>2, CursorStays DEF IngestInv, Frame
<1>4. CASE ~Settled(s)
  <2> DEFINE r == [phase |-> "extract", source |-> s, attempts |-> log[s].attempts]
  <2>1. Doing(w, r) /\ UNCHANGED <<lock, batch>>
    BY <1>4 DEF ReadLog
  <2>2. log[s] \in LogRows /\ log[s].attempts < MaxAttempts
    BY <1>0, <1>4 DEF TablesInv
  <2>3. log[s].attempts \in 0..(MaxAttempts - 1)
    BY <2>2, IngestAssumption DEF LogRows
  <2>4. r \in Ingests /\ r.phase = "extract" /\ r.source = s
    BY <2>3 DEF Ingests
  <2> HIDE DEF r
  <2>5. WalkInv'
    BY <1>0, <1>2, <1>4, <2>1, <2>4, WalkGoesOn
  <2> QED BY <1>0, <1>1, <1>2, <2>1, <2>5, CursorStays DEF IngestInv, Frame
<1> QED BY <1>3, <1>4

\* An unsettled source that is decided, and the others, do not unsettle a message.
LEMMA DecidedKeeps ==
  ASSUME NEW s, OnlySettles(s), s \in Messages => ~Settled(s)
  PROVE  \A m \in Messages : Settled(m) => Settled(m)'
  BY DEF OnlySettles

\* What an ingest of a worker decides does not unsettle a message.
LEMMA AtHandUnsettled ==
  ASSUME TablesInv, WalkInv, NEW w \in Workers, worker[w].phase \in {"extract", "write"}
  PROVE  worker[w].source \in Messages => ~Settled(worker[w].source)
  BY IngestAtHand, DirectIsNoMessage, WorkersAre DEF AtHand

\* A failed attempt of the model decides the source or leaves it retrying.
LEMMA ExtractTransientStep ==
  ASSUME IngestInv, NEW w \in Workers, ExtractTransient(w)
  PROVE  IngestInv'
<1> PICK s, n : s = worker[w].source /\ n = worker[w].attempts + 1
  OBVIOUS
<1>0. TablesInv /\ WalkInv /\ CursorInv /\ Frame /\ worker[w].phase \in {"extract", "write"}
      /\ items' = items /\ strangers' = strangers
  BY DEF IngestInv, ExtractTransient, Frame
<1>1. /\ AtHand(w, s) /\ s \in Sources /\ (s \in Direct \/ Of(s) = {})
      /\ worker[w].attempts \in 0..(MaxAttempts - 1) /\ (s \in Messages => ~Settled(s))
  BY <1>0, IngestAtHand, AtHandUnsettled
<1>2. n \in 0..MaxAttempts
  BY <1>1, IngestAssumption
<1>3. strangers' \subseteq Unmapped /\ {"error", "retrying"} \subseteq Statuses
  BY <1>0 DEF TablesInv, Statuses
<1>4. CASE n >= MaxAttempts
  <2>1. UpsertLog(s, "error", n, 0) /\ Answered(w, s)
    BY <1>4 DEF ExtractTransient
  <2>2. TablesInv' /\ OnlySettles(s) /\ Settled(s)'
    BY <1>0, <1>1, <1>2, <1>3, <2>1, LogDecided
  <2>3. WalkInv' /\ batch' = batch
    BY <1>0, <1>1, <2>1, <2>2, WalkAnswered
  <2>4. CursorInv'
    BY <1>0, <1>1, <2>2, <2>3, DecidedKeeps, CursorStays DEF Frame
  <2> QED BY <2>2, <2>3, <2>4 DEF IngestInv
<1>5. CASE n < MaxAttempts
  <2>1. /\ UpsertLog(s, "retrying", n, 0) /\ Doing(w, Idle)
        /\ batch' = IF w = Poller THEN {} ELSE batch
        /\ lock' = IF w = Poller /\ lock = "replay" THEN "free" ELSE lock
    BY <1>2, <1>5, IngestAssumption DEF ExtractTransient
  <2>2. TablesInv' /\ OnlySettles(s)
    BY <1>0, <1>1, <1>2, <1>3, <1>5, <2>1, LogDecided
  <2>3. lock' \in {"free", "cycle", "replay"} /\ (w # Poller => lock' = lock)
    BY <1>0, <2>1 DEF WalkInv
  <2>4. WalkInv'
    BY <1>0, <1>1, <2>1, <2>2, <2>3, WalkGivesUp
  <2>5. CursorInv'
    BY <1>0, <1>1, <2>1, <2>2, DecidedKeeps, CursorStays DEF Frame
  <2> QED BY <2>2, <2>4, <2>5 DEF IngestInv
<1> QED BY <1>2, <1>4, <1>5, IngestAssumption

\* A source without items is decided.
LEMMA ExtractNothingStep ==
  ASSUME IngestInv, NEW w \in Workers, ExtractNothing(w)
  PROVE  IngestInv'
<1> PICK s, n : s = worker[w].source /\ n = worker[w].attempts
  OBVIOUS
<1>0. TablesInv /\ WalkInv /\ CursorInv /\ Frame /\ worker[w].phase \in {"extract", "write"}
      /\ items' = items /\ Answered(w, s)
  BY DEF IngestInv, ExtractNothing, Frame
<1>1. /\ AtHand(w, s) /\ s \in Sources /\ (s \in Direct \/ Of(s) = {})
      /\ n \in 0..(MaxAttempts - 1) /\ (s \in Messages => ~Settled(s))
  BY <1>0, IngestAtHand, AtHandUnsettled
<1>2. n \in 0..MaxAttempts
  BY <1>1, IngestAssumption
<1>3. PICK status \in {"extract_failed", "no_items"} : UpsertLog(s, status, n, 0)
  BY DEF ExtractNothing
<1>4. strangers' \subseteq Unmapped /\ status \in Statuses /\ status # "retrying"
  BY <1>0 DEF ExtractNothing, RecordUnknownAuthor, TablesInv, Statuses
<1>5. TablesInv' /\ OnlySettles(s) /\ Settled(s)'
  BY <1>0, <1>1, <1>2, <1>3, <1>4, LogDecided
<1>6. WalkInv' /\ batch' = batch
  BY <1>0, <1>1, <1>5, WalkAnswered
<1>7. CursorInv'
  BY <1>0, <1>1, <1>5, <1>6, DecidedKeeps, CursorStays DEF Frame
<1> QED BY <1>5, <1>6, <1>7 DEF IngestInv

\* What was extracted is to be written, and nothing else changes.
LEMMA ExtractItemsStep ==
  ASSUME IngestInv, NEW w \in Workers, NEW found \in SUBSET Contents, ExtractItems(w, found)
  PROVE  IngestInv'
<1> DEFINE s == worker[w].source
           r == [phase |-> "write", source |-> s, attempts |-> worker[w].attempts, found |-> found]
<1>0. TablesInv /\ WalkInv /\ CursorInv /\ Frame /\ worker[w].phase \in {"extract", "write"}
      /\ UNCHANGED <<log, items, strangers, withdrawn, lock, batch>> /\ Doing(w, r)
  BY DEF IngestInv, ExtractItems, Frame, history
<1>1. AtHand(w, s) /\ s \in Sources /\ (w = Poller => ~Settled(s))
      /\ worker[w].attempts \in 0..(MaxAttempts - 1)
  BY <1>0, IngestAtHand
<1>2. r \in Ingests /\ r.phase = "write" /\ r.source = s
  BY <1>1 DEF Ingests
<1>3. TablesInv' /\ \A m \in Messages : Settled(m)' <=> Settled(m)
  BY <1>0, TablesStay DEF Sources
<1> HIDE DEF s, r
<1>4. WalkInv'
  BY <1>0, <1>1, <1>2, <1>3, WalkGoesOn
<1>5. CursorInv'
  BY <1>0, <1>3, CursorStays DEF Frame
<1> QED BY <1>3, <1>4, <1>5 DEF IngestInv

\* The items are written with the row that decides their source.
LEMMA WriteItemsStep ==
  ASSUME IngestInv, NEW w \in Workers, NEW kept \in SUBSET Contents, NEW vector \in BOOLEAN,
         WriteItems(w, kept, vector)
  PROVE  IngestInv'
<1> PICK s, n : s = worker[w].source /\ n = worker[w].attempts
  OBVIOUS
<1>0. TablesInv /\ WalkInv /\ CursorInv /\ Frame /\ worker[w].phase \in {"extract", "write"}
      /\ Answered(w, s) /\ UpsertLog(s, "done", n, Cardinality(kept))
      /\ items' = items \cup
           [source : {s}, content : kept, take : {NextTake(s)}, status : {"active"}, vector : {vector}]
  BY DEF IngestInv, WriteItems, Frame
<1>1. /\ AtHand(w, s) /\ s \in Sources /\ (s \in Direct \/ Of(s) = {})
      /\ n \in 0..(MaxAttempts - 1) /\ (s \in Messages => ~Settled(s))
  BY <1>0, IngestAtHand, AtHandUnsettled
<1>2. n \in 0..MaxAttempts
  BY <1>1, IngestAssumption
<1>3. strangers' \subseteq Unmapped
  BY <1>0 DEF WriteItems, RecordUnknownAuthor, TablesInv
<1>4. TablesInv' /\ OnlySettles(s) /\ Settled(s)'
  BY <1>0, <1>1, <1>2, <1>3, ItemsWritten
<1>5. WalkInv' /\ batch' = batch
  BY <1>0, <1>1, <1>4, WalkAnswered
<1>6. CursorInv'
  BY <1>0, <1>1, <1>4, <1>5, DecidedKeeps, CursorStays DEF Frame
<1> QED BY <1>4, <1>5, <1>6 DEF IngestInv

\* A transaction that rolls back leaves the tables alone.
LEMMA ResolutionFailsStep ==
  ASSUME IngestInv, NEW w \in Workers, ResolutionFails(w)
  PROVE  IngestInv'
<1> DEFINE s == worker[w].source
<1>0. TablesInv /\ WalkInv /\ CursorInv /\ Frame /\ worker[w].phase \in {"extract", "write"}
      /\ UNCHANGED <<log, items, strangers, withdrawn>> /\ Doing(w, Idle)
  BY DEF IngestInv, ResolutionFails, Frame, history
<1>1. AtHand(w, s)
  BY <1>0, IngestAtHand
<1>2. TablesInv' /\ OnlySettles(s) /\ \A m \in Messages : Settled(m)' <=> Settled(m)
  BY <1>0, TablesStay DEF Sources, OnlySettles
<1>3. /\ batch' = IF w = Poller THEN {} ELSE batch
      /\ lock' \in {"free", "cycle", "replay"} /\ (w # Poller => lock' = lock)
  BY <1>0 DEF ResolutionFails, WalkInv
<1> HIDE DEF s
<1>4. WalkInv'
  BY <1>0, <1>1, <1>2, <1>3, WalkGivesUp
<1>5. CursorInv'
  BY <1>0, <1>2, <1>3, CursorStays DEF Frame
<1> QED BY <1>2, <1>4, <1>5 DEF IngestInv

\* A crash ends every ingest and leaves the tables alone.
LEMMA CrashStep ==
  ASSUME IngestInv, Crash
  PROVE  IngestInv'
<1>0. TablesInv /\ WalkInv /\ CursorInv /\ Frame /\ UNCHANGED <<log, items, strangers, withdrawn>>
      /\ worker' = [w \in Workers |-> Idle] /\ lock' = "free" /\ batch' = {}
  BY DEF IngestInv, Crash, Frame, history
<1>1. TablesInv' /\ \A m \in Messages : Settled(m)' <=> Settled(m)
  BY <1>0, TablesStay DEF Sources
<1>2. CursorInv'
  BY <1>0, <1>1, CursorStays DEF Frame
<1>3. \A w \in Workers : worker'[w] = Idle
  BY <1>0
<1>4. worker' \in [Workers -> Ingests] /\ worker'[Poller] = Idle
      /\ \A w \in Threads : worker'[w] = Idle
  BY <1>0, <1>3, IdleIngest, WorkersAre
<1>5. (\A w \in Threads : ThreadIs(worker[w]))' /\ PollerIs(worker[Poller])'
  BY <1>4 DEF ThreadIs, PollerIs, Idle
<1>6. WalkInv'
  BY <1>0, <1>4, <1>5 DEF WalkInv
<1> QED BY <1>1, <1>2, <1>6 DEF IngestInv

-----------------------------------------------------------------------------
(* Steps of the poller                                                     *)

\* A cycle begins, or ends with its poll, and the tables stay.
LEMMA CycleEdgeStep ==
  ASSUME IngestInv, StartCycle \/ PollFails
  PROVE  IngestInv'
<1> DEFINE q == [phase |-> "poll"]
<1>0. TablesInv /\ WalkInv /\ CursorInv /\ Frame /\ UNCHANGED <<log, items, strangers, withdrawn, batch>>
  BY DEF IngestInv, StartCycle, PollFails, Frame, history
<1>1. TablesInv' /\ \A m \in Messages : Settled(m)' <=> Settled(m)
  BY <1>0, TablesStay DEF Sources
<1>2. q \in Ingests /\ q.phase = "poll"
  BY DEF Ingests
<1>3. CASE StartCycle
  <2>1. Doing(Poller, q) /\ lock' = "cycle" /\ batch = {}
    BY <1>0, <1>3 DEF StartCycle, WalkInv
  <2>2. PollerIs(q)'
    BY <1>0, <2>1, <1>2 DEF PollerIs
  <2> HIDE DEF q
  <2>3. WalkInv'
    BY <1>0, <1>2, <2>1, <2>2, PollerWalks DEF WalkInv
  <2> QED BY <1>0, <1>1, <2>3, CursorStays DEF IngestInv, Frame
<1>4. CASE PollFails
  <2>1. Doing(Poller, Idle) /\ lock' = "free" /\ batch = {}
    BY <1>0, <1>4 DEF PollFails, WalkInv, PollerIs
  <2>2. PollerIs(Idle)'
    BY DEF PollerIs, Idle
  <2>3. WalkInv'
    BY <1>0, <2>1, <2>2, IdleIngest, PollerWalks DEF WalkInv
  <2> QED BY <1>0, <1>1, <2>3, CursorStays DEF IngestInv, Frame
<1> QED BY <1>3, <1>4

\* The batch of a poll holds all that was visible up to its last message.
LEMMA PollStep ==
  ASSUME IngestInv, Poll
  PROVE  IngestInv'
<1> DEFINE S == {m \in visible : m > cursor}
<1>0. TablesInv /\ WalkInv /\ CursorInv /\ Frame /\ UNCHANGED <<log, items, strangers, withdrawn, lock>>
      /\ Doing(Poller, Idle) /\ batch' = Smallest(BatchLimit, S) /\ worker[Poller].phase = "poll"
  BY DEF IngestInv, Poll, Frame, history
<1>1. TablesInv' /\ \A m \in Messages : Settled(m)' <=> Settled(m)
  BY <1>0, TablesStay DEF Sources
<1>2. S \in SUBSET Messages /\ batch' \subseteq S
  BY <1>0 DEF CursorInv, Smallest
<1>3. lock = "cycle" /\ PollerIs(Idle)'
  BY <1>0 DEF WalkInv, PollerIs, Idle
<1>4. WalkInv'
  <2>1. batch' \subseteq Messages
    BY <1>2
  <2> HIDE DEF S
  <2> QED BY <1>0, <1>3, <2>1, IdleIngest, PollerWalks DEF WalkInv
<1>5. ASSUME NEW b \in batch', NEW m \in visible \ (late \cup replayed), cursor < m, m < b
      PROVE  m \in batch'
  <2>1. m \in S /\ b \in Smallest(BatchLimit, S) /\ BatchLimit \in Nat
    <3>1. m \in Nat /\ cursor \in Nat
      BY <1>0, DirectIsNoMessage, IngestAssumption DEF CursorInv
    <3> QED BY <1>0, <1>5, <3>1, IngestAssumption
  <2> HIDE DEF S
  <2> QED BY <1>0, <1>2, <1>5, <2>1, SmallestIsInitial
<1>6. \A b \in batch' : cursor < b
  BY <1>2, <1>0, DirectIsNoMessage, IngestAssumption DEF CursorInv
<1>7. CursorInv'
  BY <1>0, <1>1, <1>5, <1>6 DEF CursorInv, CursorPassesSettled, Frame
<1> QED BY <1>1, <1>4, <1>7 DEF IngestInv

\* The smallest message of the batch is the next.
LEMMA NextMessageStep ==
  ASSUME IngestInv, NextMessage
  PROVE  IngestInv'
<1> DEFINE s == Min(batch)
<1>1. batch \subseteq Messages /\ batch \subseteq Nat
  BY DirectIsNoMessage DEF IngestInv, WalkInv
<1>2. s \in batch /\ \A n \in batch : s <= n
  BY <1>1, MinOfNaturals DEF NextMessage
<1> HIDE DEF s
<1>3. AtHand(Poller, s) /\ s \in Sources /\ Poller \in Workers
  BY <1>1, <1>2, WorkersAre DEF NextMessage, AtHand, Sources
<1>4. ReadLog(Poller, s)
  BY DEF NextMessage, s
<1> QED BY <1>3, <1>4, ReadLogStep

\* A replay ingests the message it withdrew.
LEMMA ReplayIngestStep ==
  ASSUME IngestInv, ReplayIngest
  PROVE  IngestInv'
<1> DEFINE s == worker[Poller].source
<1>1. AtHand(Poller, s) /\ s \in Sources /\ Poller \in Workers /\ ReadLog(Poller, s)
  BY WorkersAre DEF IngestInv, WalkInv, PollerIs, ReplayIngest, AtHand, Sources
<1> HIDE DEF s
<1> QED BY <1>1, ReadLogStep

\* A thread ingests a source of its own.
LEMMA DeliverStep ==
  ASSUME IngestInv, NEW w \in Threads, NEW s \in Direct, Deliver(w, s)
  PROVE  IngestInv'
<1>1. AtHand(w, s) /\ s \in Sources /\ w \in Workers /\ ReadLog(w, s)
  BY WorkersAre DEF Deliver, AtHand, Sources
<1> QED BY <1>1, ReadLogStep

\* The seed is past all that was visible, and nothing was polled before it.
LEMMA SeedCursorStep ==
  ASSUME IngestInv, SeedCursor
  PROVE  IngestInv'
<1> PICK c : c = Max({0} \cup visible)
  OBVIOUS
<1>0. TablesInv /\ WalkInv /\ CursorInv /\ UNCHANGED <<log, items, strangers, withdrawn>>
      /\ UNCHANGED <<worker, lock, batch, visible, late, replayed>>
      /\ worker[Poller].phase = "poll" /\ seeded' = TRUE /\ cursor' = c /\ seed' = c
  BY DEF IngestInv, SeedCursor, odoo
<1>1. TablesInv' /\ \A m \in Messages : Settled(m)' <=> Settled(m)
  BY <1>0, TablesStay DEF Sources
<1>2. WalkInv'
  BY <1>0, <1>1, WalkStays
<1>3. c \in 0..MaxMessage
  BY <1>0, SeedTyped DEF CursorInv
<1>4. batch' = {}
  BY <1>0 DEF WalkInv, PollerIs
<1>5. CursorPassesSettled'
  <2>1. \A m \in Messages : ~ (c < m /\ m <= c)
    BY <1>3, DirectIsNoMessage, IngestAssumption
  <2> QED BY <1>0, <2>1 DEF CursorInv, CursorPassesSettled
<1>6. CursorInv'
  BY <1>0, <1>3, <1>4, <1>5 DEF CursorInv
<1> QED BY <1>1, <1>2, <1>6 DEF IngestInv

\* The cursor moves to a decided message, the first of the batch: every message
\* up to it that was seen in time was decided before.
LEMMA AdvanceCursorStep ==
  ASSUME IngestInv, AdvanceCursor
  PROVE  IngestInv'
<1> PICK s : s = worker[Poller].source
  OBVIOUS
<1>0. TablesInv /\ WalkInv /\ CursorInv /\ UNCHANGED <<log, items, strangers, withdrawn>>
      /\ UNCHANGED <<visible, seeded, lock, seed, late, replayed>>
      /\ cursor' = Max({cursor, s}) /\ batch' = batch \ {s} /\ Doing(Poller, Idle)
  BY DEF IngestInv, AdvanceCursor, history
<1>1. s \in batch /\ Settled(s) /\ lock = "cycle" /\ s \in Messages /\ \A n \in batch : s <= n
  BY <1>0 DEF WalkInv, PollerIs, AdvanceCursor
<1>2. /\ s \in Nat /\ cursor \in Nat /\ cursor < s /\ s \in 0..MaxMessage
      /\ batch \subseteq Nat /\ visible \subseteq Nat
  BY <1>0, <1>1, DirectIsNoMessage, IngestAssumption DEF CursorInv, WalkInv, Messages
<1>3. cursor' = s
  BY <1>0, <1>2, MaxOfTwo
<1>4. TablesInv' /\ \A m \in Messages : Settled(m)' <=> Settled(m)
  BY <1>0, TablesStay DEF Sources
<1>5. WalkInv'
  <2>1. PollerIs(Idle)'
    BY DEF PollerIs, Idle
  <2> QED BY <1>0, <1>1, <2>1, IdleIngest, PollerWalks DEF WalkInv
<1>6. ASSUME NEW b \in batch'
      PROVE  s < b /\ \A m \in visible \ (late \cup replayed) : s < m /\ m < b => m \in batch'
  <2>1. b \in batch /\ b # s /\ b \in Nat /\ s <= b
    BY <1>0, <1>1, <1>2, <1>6
  <2>2. ASSUME NEW m \in visible \ (late \cup replayed), s < m, m < b
        PROVE  m \in batch'
    <3>1. m \in Nat /\ cursor < m /\ m # s
      BY <1>2, <2>2
    <3>2. m \in batch
      BY <1>0, <2>1, <2>2, <3>1 DEF CursorInv
    <3> QED BY <1>0, <3>1, <3>2
  <2> QED BY <1>2, <2>1, <2>2
<1>7. ASSUME NEW m \in visible \ (late \cup replayed), seed < m, m <= s
      PROVE  Settled(m)
  <2>1. m \in Nat
    BY <1>2
  <2>2. CASE m <= cursor
    BY <1>0, <1>7, <2>2 DEF CursorInv, CursorPassesSettled
  <2>3. CASE cursor < m /\ m < s
    <3>1. m \in batch
      BY <1>0, <1>1, <2>3 DEF CursorInv
    <3> QED BY <1>1, <1>2, <2>1, <2>3, <3>1
  <2>4. CASE m = s
    BY <1>1, <2>4
  <2> QED BY <1>2, <1>7, <2>1, <2>2, <2>3, <2>4
<1>8. CursorInv'
  BY <1>0, <1>2, <1>3, <1>4, <1>6, <1>7 DEF CursorInv, CursorPassesSettled
<1> QED BY <1>4, <1>5, <1>8 DEF IngestInv

\* The backfill reads the items that wait for a vector.
LEMMA BackfillReadStep ==
  ASSUME IngestInv, BackfillRead
  PROVE  IngestInv'
<1> PICK r : r = [phase |-> "backfill", rows |-> {i \in items : i.status = "active" /\ ~i.vector}]
  OBVIOUS
<1>0. TablesInv /\ WalkInv /\ CursorInv /\ Frame /\ UNCHANGED <<log, items, strangers, withdrawn>>
      /\ UNCHANGED <<lock, batch>> /\ Doing(Poller, r) /\ lock = "cycle" /\ batch = {}
  BY DEF IngestInv, BackfillRead, history, Frame
<1>1. TablesInv' /\ \A m \in Messages : Settled(m)' <=> Settled(m)
  BY <1>0, TablesStay DEF Sources
<1>2. r \in Ingests /\ r.phase = "backfill"
  BY <1>0 DEF TablesInv, Ingests
<1>3. PollerIs(r)'
  BY <1>0, <1>2 DEF PollerIs
<1>4. WalkInv'
  BY <1>0, <1>2, <1>3, PollerWalks DEF WalkInv
<1>5. CursorInv'
  BY <1>0, <1>1, CursorStays DEF Frame
<1> QED BY <1>1, <1>4, <1>5 DEF IngestInv

\* A replay withdraws the items and the row of its message together.
LEMMA ReplayStep ==
  ASSUME IngestInv, NEW m \in Messages, Replay(m)
  PROVE  IngestInv'
<1> DEFINE r == [phase |-> "read", source |-> m]
<1>0. /\ TablesInv /\ WalkInv /\ CursorInv
      /\ UNCHANGED <<visible, seeded, cursor, strangers, batch, seed, late>>
      /\ lock = "free" /\ lock' = "replay" /\ Doing(Poller, r)
      /\ items' = items \ Of(m) /\ log' = [log EXCEPT ![m] = NoRow]
      /\ withdrawn' = withdrawn \cup {m}
      /\ replayed' = IF m <= cursor THEN replayed \cup {m} ELSE replayed
  BY DEF IngestInv, Replay
<1>1. TablesInv' /\ OnlySettles(m)
  BY <1>0, ItemsWithdrawn
<1>2. r \in Ingests /\ r.phase = "read" /\ r.source = m
  BY DEF Ingests
<1> HIDE DEF r
<1>3. batch = {} /\ batch' = {}
  BY <1>0 DEF WalkInv
<1>4. PollerIs(r)'
  BY <1>0, <1>2 DEF PollerIs
<1>5. WalkInv'
  BY <1>0, <1>2, <1>3, <1>4, PollerWalks
<1>6. CursorPassesSettled'
  BY <1>0, <1>1 DEF CursorInv, CursorPassesSettled, OnlySettles
<1>7. CursorInv'
  BY <1>0, <1>3, <1>6 DEF CursorInv
<1> QED BY <1>1, <1>5, <1>7 DEF IngestInv

-----------------------------------------------------------------------------
(* Steps around the ingests                                                *)

\* A message that becomes visible behind the polls is late.
LEMMA AppearStep ==
  ASSUME IngestInv, NEW m \in Messages, Appear(m)
  PROVE  IngestInv'
<1>0. /\ TablesInv /\ WalkInv /\ CursorInv /\ UNCHANGED <<log, items, strangers, withdrawn>>
      /\ UNCHANGED <<seeded, cursor, lock, batch, worker, seed, replayed>>
      /\ visible' = visible \cup {m}
      /\ late' = IF m <= cursor \/ \E n \in batch : m < n THEN late \cup {m} ELSE late
  BY DEF IngestInv, Appear
<1>1. TablesInv' /\ \A k \in Messages : Settled(k)' <=> Settled(k)
  BY <1>0, TablesStay DEF Sources
<1>2. WalkInv'
  BY <1>0, <1>1, WalkStays
<1>3. visible' \subseteq Messages /\ late' \subseteq Messages /\ late \subseteq late'
  BY <1>0 DEF CursorInv
<1>4. visible' \ (late' \cup replayed') \subseteq (visible \ (late \cup replayed)) \cup {m}
      /\ (m \in visible' \ (late' \cup replayed') => ~(m <= cursor) /\ \A n \in batch : ~(m < n))
  BY <1>0, <1>3
<1>5. CursorInv'
  BY <1>0, <1>1, <1>3, <1>4 DEF CursorInv, CursorPassesSettled
<1> QED BY <1>1, <1>2, <1>5 DEF IngestInv

\* The privacy gate decides a source that is no message.
LEMMA BlockedStep ==
  ASSUME IngestInv, NEW s \in Direct, Blocked(s)
  PROVE  IngestInv'
<1>0. /\ TablesInv /\ WalkInv /\ CursorInv /\ Frame /\ UNCHANGED <<items, strangers, lock, batch, worker>>
      /\ UpsertLog(s, "privacy_blocked", 0, 0) /\ s \in Sources
      /\ "privacy_blocked" \in Statuses /\ 0 \in 0..MaxAttempts
  BY IngestAssumption DEF IngestInv, Blocked, Frame, Sources, Statuses
<1>1. TablesInv' /\ OnlySettles(s)
  <2>1. strangers' \subseteq Unmapped /\ items' = items
    BY <1>0 DEF TablesInv
  <2> QED BY <1>0, <2>1, LogDecided
<1>2. \A m \in Messages : Settled(m)' <=> Settled(m)
  BY <1>1, OthersStay
<1>3. WalkInv'
  BY <1>0, <1>2, WalkStays
<1>4. CursorInv'
  BY <1>0, <1>2, CursorStays DEF Frame
<1> QED BY <1>1, <1>3, <1>4 DEF IngestInv

\* People decide about one item.
LEMMA ResolveStep ==
  ASSUME IngestInv, NEW i \in items, Resolve(i) \/ Retract(i)
  PROVE  IngestInv'
<1>0. /\ TablesInv /\ WalkInv /\ CursorInv /\ Frame
      /\ UNCHANGED <<log, strangers, withdrawn, lock, batch, worker>>
  BY DEF IngestInv, Resolve, Retract, Frame, odoo
<1>1. PICK g : /\ DOMAIN g = items /\ g = [k \in items |-> g[k]]
               /\ \A k \in items : g[k] \in Items /\ g[k].source = k.source /\ g[k].take = k.take
               /\ items' \subseteq {g[k] : k \in items}
  <2>0. items \subseteq Items /\ i \in Items
    BY <1>0 DEF TablesInv
  <2>1. CASE Retract(i)
    <3> DEFINE h == [k \in items |-> k]
    <3>1. /\ DOMAIN h = items /\ h = [k \in items |-> h[k]]
          /\ \A k \in items : h[k] \in Items /\ h[k].source = k.source /\ h[k].take = k.take
          /\ items' \subseteq {h[k] : k \in items}
      BY <2>0, <2>1 DEF Retract
    <3> QED BY <3>1
  <2>2. CASE Resolve(i)
    <3> DEFINE j == [i EXCEPT !.status = "resolved"]
               h == [k \in items |-> IF k = i THEN j ELSE k]
    <3>1. j \in Items /\ j.source = i.source /\ j.take = i.take
      BY <2>0 DEF Items
    <3>2. items' = (items \ {i}) \cup {j}
      BY <2>2 DEF Resolve
    <3> HIDE DEF j
    <3>3. /\ DOMAIN h = items /\ h = [k \in items |-> h[k]]
          /\ \A k \in items : h[k] \in Items /\ h[k].source = k.source /\ h[k].take = k.take
      BY <2>0, <3>1
    <3>4. items' \subseteq {h[k] : k \in items}
      BY <3>2
    <3> HIDE DEF h
    <3> QED BY <3>3, <3>4
  <2> QED BY <2>1, <2>2
<1>2. TablesInv' /\ \A m \in Messages : Settled(m)' <=> Settled(m)
  BY <1>0, <1>1, ItemsRewritten DEF Sources
<1>3. WalkInv'
  BY <1>0, <1>2, WalkStays
<1>4. CursorInv'
  BY <1>0, <1>2, CursorStays DEF Frame
<1> QED BY <1>2, <1>3, <1>4 DEF IngestInv

\* The backfill retracts items and gives others a vector.
LEMMA BackfillWriteStep ==
  ASSUME IngestInv, BackfillWrite
  PROVE  IngestInv'
<1>0. /\ TablesInv /\ WalkInv /\ CursorInv /\ Frame
      /\ UNCHANGED <<log, strangers, withdrawn, batch>>
      /\ Doing(Poller, Idle) /\ lock' = "free" /\ batch = {}
  BY DEF IngestInv, BackfillWrite, Frame, history, WalkInv, PollerIs
<1>1. PICK g : /\ DOMAIN g = items /\ g = [k \in items |-> g[k]]
               /\ \A k \in items : g[k] \in Items /\ g[k].source = k.source /\ g[k].take = k.take
               /\ items' \subseteq {g[k] : k \in items}
  <2>0. items \subseteq Items
    BY <1>0 DEF TablesInv
  <2>1. PICK D, E : /\ E \subseteq items
                    /\ items' = ((items \ D) \ E) \cup {[i EXCEPT !.vector = TRUE] : i \in E}
    <3> DEFINE Row(R) == {i \in items : \E r \in R : i = [r EXCEPT !.status = i.status, !.vector = i.vector]}
    <3>1. PICK embedded, duplicate :
            items' = ((items \ Row(duplicate)) \ Row(embedded))
                       \cup {[i EXCEPT !.vector = TRUE] : i \in Row(embedded)}
      BY DEF BackfillWrite
    <3>2. Row(embedded) \subseteq items
      OBVIOUS
    <3> HIDE DEF Row
    <3> QED BY <3>1, <3>2
  <2> DEFINE h == [k \in items |-> IF k \in E THEN [k EXCEPT !.vector = TRUE] ELSE k]
  <2>2. \A k \in items : /\ [k EXCEPT !.vector = TRUE] \in Items
                         /\ [k EXCEPT !.vector = TRUE].source = k.source
                         /\ [k EXCEPT !.vector = TRUE].take = k.take
    BY <2>0 DEF Items
  <2>3. /\ DOMAIN h = items /\ h = [k \in items |-> h[k]]
        /\ \A k \in items : h[k] \in Items /\ h[k].source = k.source /\ h[k].take = k.take
    BY <2>0, <2>2
  <2>4. items' \subseteq {h[k] : k \in items}
    BY <2>1
  <2> QED BY <2>3, <2>4
<1>2. TablesInv' /\ \A m \in Messages : Settled(m)' <=> Settled(m)
  BY <1>0, <1>1, ItemsRewritten DEF Sources
<1>3. PollerIs(Idle)'
  BY DEF PollerIs, Idle
<1>4. WalkInv'
  BY <1>0, <1>3, IdleIngest, PollerWalks
<1>5. CursorInv'
  BY <1>0, <1>2, CursorStays DEF Frame
<1> QED BY <1>2, <1>4, <1>5 DEF IngestInv

-----------------------------------------------------------------------------

\* The invariant is inductive.
LEMMA IngestStep == IngestInv /\ [Next]_vars => IngestInv'
<1> SUFFICES ASSUME IngestInv, [Next]_vars PROVE IngestInv'
  OBVIOUS
<1>1. CASE Crash
  BY <1>1, CrashStep
<1>2. CASE Cycle
  BY <1>2, CycleEdgeStep, SeedCursorStep, PollStep, NextMessageStep, AdvanceCursorStep, BackfillReadStep,
     BackfillWriteStep, ReplayIngestStep DEF Cycle
<1>3. CASE Environment
  BY <1>3, AppearStep, ReplayStep, BlockedStep, DeliverStep, ResolveStep DEF Environment
<1>4. ASSUME NEW w \in Workers, Ingest(w)
      PROVE  IngestInv'
  BY <1>4, ExtractTransientStep, ExtractNothingStep, ExtractItemsStep, WriteItemsStep,
     ResolutionFailsStep DEF Ingest
<1>5. CASE UNCHANGED vars
  <2>1. UNCHANGED <<log, items, strangers, withdrawn>> /\ UNCHANGED <<worker, lock, batch>> /\ Frame
    BY <1>5 DEF vars, history, Frame
  <2>2. TablesInv' /\ \A m \in Messages : Settled(m)' <=> Settled(m)
    BY <2>1, TablesStay DEF IngestInv, Sources
  <2>3. WalkInv' /\ CursorInv'
    BY <2>1, <2>2, WalkStays, CursorStays DEF IngestInv, Frame
  <2> QED BY <2>2, <2>3 DEF IngestInv
<1> QED BY <1>1, <1>2, <1>3, <1>4, <1>5 DEF Next

\* The empty tables satisfy the invariant.
LEMMA IngestInit == Init => IngestInv
<1> SUFFICES ASSUME Init PROVE IngestInv
  OBVIOUS
<1>1. NoRow \in LogRows /\ NoRow.attempts = 0
  BY IngestAssumption DEF NoRow, LogRows
<1>2. TablesInv
  <2>1. log \in [Sources -> LogRows] /\ \A s \in Sources : log[s] = NoRow
    BY <1>1 DEF Init
  <2>2. \A m \in Messages : Of(m) = {}
    BY DEF Init, Of
  <2>3. IsFiniteSet(items) /\ items \subseteq Items
    BY FS_EmptySet DEF Init
  <2>4. ChatterIngestedOnce
    BY <2>2 DEF Init, ChatterIngestedOnce, OneIngest
  <2>5. strangers \subseteq Unmapped /\ withdrawn \subseteq Messages /\ WithdrawnIsUnsettled
    BY DEF Init, WithdrawnIsUnsettled
  <2>6. \A s \in Sources : log[s].attempts < MaxAttempts
    BY <1>1, <2>1, IngestAssumption
  <2> QED BY <2>1, <2>3, <2>4, <2>5, <2>6 DEF TablesInv
<1>3. WalkInv
  <2>1. \A w \in Workers : worker[w] = Idle
    BY DEF Init
  <2>2. worker \in [Workers -> Ingests]
    BY IdleIngest DEF Init
  <2>3. ThreadIs(Idle) /\ PollerIs(Idle)
    BY IdleIngest
  <2> QED BY <2>1, <2>2, <2>3, WorkersAre DEF Init, WalkInv
<1>4. CursorInv
  <2>1. \A m \in Messages : ~ (0 < m /\ m <= 0)
    BY DirectIsNoMessage
  <2>2. CursorPassesSettled
    BY <2>1 DEF Init, CursorPassesSettled
  <2>3. cursor \in 0..MaxMessage /\ seed \in 0..MaxMessage
    BY IngestAssumption DEF Init
  <2> QED BY <2>2, <2>3 DEF Init, CursorInv
<1> QED BY <1>2, <1>3, <1>4 DEF IngestInv

\* The strengthening of the safety properties holds in every reachable state.
THEOREM IngestCorrect == Spec => []IngestInv
  BY IngestInit, IngestStep, PTL DEF Spec

\* The tables, the ingests under way and the batch keep their shapes.
THEOREM IngestTypeCorrect == Spec => []TypeOK
<1>1. IngestInv => TypeOK
  BY DEF IngestInv, TablesInv, WalkInv, CursorInv, TypeOK
<1> QED BY <1>1, IngestCorrect, PTL

\* A chatter message leaves the items of one ingest at most.
THEOREM ChatterIngestedOnceCorrect == Spec => []ChatterIngestedOnce
<1>1. IngestInv => ChatterIngestedOnce
  BY DEF IngestInv, TablesInv
<1> QED BY <1>1, IngestCorrect, PTL

\* The cursor passes a message the polls could see only when it was decided.
THEOREM CursorPassesSettledCorrect == Spec => []CursorPassesSettled
<1>1. IngestInv => CursorPassesSettled
  BY DEF IngestInv, CursorInv
<1> QED BY <1>1, IngestCorrect, PTL

\* A replay that fails halfway is visible as a message that is not settled.
THEOREM WithdrawnIsUnsettledCorrect == Spec => []WithdrawnIsUnsettled
<1>1. IngestInv => WithdrawnIsUnsettled
  BY DEF IngestInv, TablesInv
<1> QED BY <1>1, IngestCorrect, PTL
===============================================================================
