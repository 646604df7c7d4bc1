-------------------------- MODULE OrganisationProofs --------------------------
(***************************************************************************)
(* Theorems about the services around the orchestrator, for any sizes,     *)
(* bounds and contents.  A service has a section: its inductive invariant, *)
(* the lemma that it is one, and the property it gives; the adapter of the *)
(* memory has a module of its own.  The last section is about the types.   *)
(***************************************************************************)
EXTENDS MCOrganisation, MemoryAdapterProofs, FiniteSetTheorems, WellFoundedInduction, TLAPS

-----------------------------------------------------------------------------
(* The email channel.                                                      *)

Admitted == {m \in Mails \ PrivateMails : Identified(m)}

\* What the code does: only admitted mails are shown or become evidence.
GatesHold ==
  /\ shown \cup mailEvidence \subseteq Admitted
  /\ ToSet(mailClaims) \subseteq mailEvidence

\* Past the gates a mail is admitted, and so is every mail of a thread; a
\* mail whose items are proposed has its evidence.
BridgeInv ==
  /\ GatesHold
  /\ mailClaims \in Seq(Mails)
  /\ stage \in {"idle", "gates", "extract", "propose"}
  /\ stage # "idle" => reading \in Mails
  /\ stage \in {"extract", "propose"} => reading \in Admitted
  /\ stage = "propose" => reading \in mailEvidence
  /\ thread \in [Mails -> Seq(Mails)]
  /\ \A m \in Mails : \A i \in DOMAIN thread[m] : thread[m][i] \in Admitted

\* A run that goes on keeps its type and moves to the next step or mail.
LEMMA BridgeProceeds ==
  ASSUME BridgeInv, stage # "idle", Proceeds
  PROVE  /\ stage' \in {"idle", "gates"}
         /\ stage' # "idle" => reading' \in Mails
<1>1. reading \in 1..MailCount /\ MailCount \in Nat
  BY EmailAssumption DEF BridgeInv, Mails
<1>2. CASE reading = MailCount
  BY <1>2 DEF Proceeds
<1>3. CASE reading # MailCount
  <2>1. reading + 1 \in Mails
    BY <1>1, <1>3 DEF Mails
  <2>2. QED
    BY <1>3, <2>1 DEF Proceeds
<1>4. QED
  BY <1>2, <1>3

\* The gates of a run hold in every reachable state of the bridge.
LEMMA BridgeInvHolds == EmailSpec => []BridgeInv
<1>1. EmailInit => BridgeInv
  BY DEF EmailInit, BridgeInv, GatesHold, NoThreads, ToSet
<1>2. ASSUME BridgeInv, [EmailNext]_emailVars
      PROVE  BridgeInv'
  <2>1. CASE UNCHANGED emailVars
    BY <1>2, <2>1 DEF emailVars, BridgeInv, GatesHold, Admitted, Identified, ToSet
  <2>2. ASSUME NEW s \in Senders, MapSender(s)
        PROVE  BridgeInv'
    BY <1>2, <2>2 DEF MapSender, BridgeInv, GatesHold, Admitted, Identified, ToSet
  <2>3. CASE RunStarts
    <3>1. 1 \in Mails
      BY EmailAssumption DEF Mails
    <3>2. QED
      BY <1>2, <2>3, <3>1 DEF RunStarts, NoThreads, BridgeInv, GatesHold, Admitted, Identified, ToSet
  <2>4. CASE Refuses
    BY <1>2, <2>4, BridgeProceeds DEF Refuses, BridgeInv, GatesHold, Admitted, Identified, ToSet
  <2>5. CASE Admits
    <3> DEFINE root == RootOf[reading]
    <3>1. reading \in Admitted /\ reading \in Mails /\ root \in Mails
      BY <1>2, <2>5, EmailAssumption DEF Admits, BridgeInv, Admitted
    <3>2. Admitted' = Admitted /\ UNCHANGED <<mailEvidence, mailClaims, reading>>
      BY <2>5 DEF Admits, Admitted, Identified
    <3>3. shown' \subseteq Admitted
      BY <1>2, <2>5, <3>1 DEF Admits, BridgeInv, GatesHold, Admitted
    <3>4. thread' = [thread EXCEPT ![root] = Append(thread[root], reading)]
      BY <2>5 DEF Admits
    <3>5. /\ Append(thread[root], reading) \in Seq(Mails)
          /\ \A i \in DOMAIN Append(thread[root], reading) :
               Append(thread[root], reading)[i] \in Admitted
      BY <1>2, <3>1 DEF BridgeInv
    <3>6. thread' \in [Mails -> Seq(Mails)]
          /\ \A m \in Mails : \A i \in DOMAIN thread'[m] : thread'[m][i] \in Admitted
      BY <1>2, <3>1, <3>4, <3>5 DEF BridgeInv
    <3>7. stage' = "extract"
      BY <2>5 DEF Admits
    <3>8. QED
      BY <1>2, <3>1, <3>2, <3>3, <3>6, <3>7 DEF BridgeInv, GatesHold, Admitted, Identified, ToSet
  <2>6. ASSUME NEW n \in 0..MaxItems, CapturesMail(n)
        PROVE  BridgeInv'
    BY <1>2, <2>6 DEF CapturesMail, BridgeInv, GatesHold, Admitted, Identified, ToSet
  <2>7. CASE ProposesItem
    <3>1. /\ mailClaims' \in Seq(Mails)
          /\ ToSet(mailClaims') \subseteq mailEvidence
      BY <1>2, <2>7 DEF ProposesItem, BridgeInv, GatesHold, ToSet
    <3>2. QED
      BY <1>2, <2>7, <3>1 DEF ProposesItem, BridgeInv, GatesHold, Admitted, Identified
  <2>8. CASE Processed
    BY <1>2, <2>8, BridgeProceeds DEF Processed, BridgeInv, GatesHold, Admitted, Identified, ToSet
  <2>9. CASE RunDies
    BY <1>2, <2>9 DEF RunDies, NoThreads, BridgeInv, GatesHold, Admitted, Identified, ToSet
  <2>10. QED
    BY <1>2, <2>1, <2>2, <2>3, <2>4, <2>5, <2>6, <2>7, <2>8, <2>9 DEF EmailNext
<1>3. QED
  BY <1>1, <1>2, PTL DEF EmailSpec

\* No private mail and no mail of an unidentified sender is ever shown to the
\* model, or the source of a claim: the gates of imap_bridge.run come first.
THEOREM QuarantineCorrect == EmailSpec => []QuarantineHolds
<1>1. BridgeInv => QuarantineHolds
  BY DEF BridgeInv, GatesHold, Admitted, QuarantineHolds, Mails
<1>2. QED
  BY <1>1, BridgeInvHolds, PTL

-----------------------------------------------------------------------------
(* Provenance gaps.                                                        *)

\* The smallest of some natural numbers is one of them.
LEMMA MinOfNaturals ==
  ASSUME NEW S \in SUBSET Nat, S # {}
  PROVE  Min(S) \in S
<1>1. PICK x \in S : \A y \in S : ~ (<<y, x>> \in OpToRel(<, Nat))
  BY NatLessThanWellFounded, WFMin
<1>2. \A y \in S : x <= y
  <2>1. ASSUME NEW y \in S
        PROVE  ~ (y < x)
    BY <1>1, <2>1 DEF OpToRel
  <2>2. QED
    BY <2>1
<1>3. QED
  BY <1>2 DEF Min

Gaps == [effect : Effects, status : {"open", "explained", "dismissed"}, ref : Refs \cup {NoRef}]

\* A change has at most one gap, and a detector that is about to record one
\* is at a change.
ProvInv ==
  /\ gap \in Seq(Gaps)
  /\ \A g, h \in DOMAIN gap : gap[g].effect = gap[h].effect => g = h
  /\ detector \in [Detectors -> [at : {"rest", "recall", "record", "insert"}, todo : SUBSET Effects]]
  /\ \A d \in Detectors : detector[d].at \in {"record", "insert"} => detector[d].todo # {}

\* A detector that has changes left is at one of them.
LEMMA DetectorAt ==
  ASSUME ProvInv, NEW d \in Detectors, detector[d].todo # {}
  PROVE  Current(d) \in Effects
<1>1. detector[d].todo \in SUBSET Nat /\ detector[d].todo \subseteq Effects
  BY ProvenanceAssumption DEF ProvInv
<1>2. QED
  BY <1>1, MinOfNaturals DEF Current

\* A detector that passes its change keeps its type.
LEMMA DetectorPasses ==
  ASSUME ProvInv, NEW d \in Detectors, Passes(d)
  PROVE  /\ detector' \in [Detectors -> [at : {"rest", "recall", "record", "insert"}, todo : SUBSET Effects]]
         /\ \A e \in Detectors : detector'[e].at \in {"record", "insert"} => detector'[e].todo # {}
  BY DEF ProvInv, Passes

\* A new row of an effect that has no gap keeps the gaps apart.
LEMMA GapInserted ==
  ASSUME ProvInv, NEW d \in Detectors, RecordInsert(d)
  PROVE  /\ gap' \in Seq(Gaps)
         /\ \A g, h \in DOMAIN gap' : gap'[g].effect = gap'[h].effect => g = h
         /\ DOMAIN gap \subseteq DOMAIN gap'
         /\ \A g \in DOMAIN gap : gap'[g] = gap[g]
<1> DEFINE row == [effect |-> Current(d), status |-> "open", ref |-> NoRef]
<1>1. row \in Gaps
  <2>1. detector[d].todo # {}
    BY DEF ProvInv, RecordInsert
  <2>2. QED
    BY <2>1, DetectorAt DEF Gaps
<1>2. gap \in Seq(Gaps) /\ gap' = Append(gap, row)
  BY DEF ProvInv, RecordInsert
<1>3. \A g \in DOMAIN gap : gap[g].effect # row.effect
  BY DEF RecordInsert, HasGap
<1>4. /\ gap' \in Seq(Gaps)
      /\ DOMAIN gap' = DOMAIN gap \cup {Len(gap) + 1}
      /\ \A g \in DOMAIN gap : gap'[g] = gap[g]
      /\ gap'[Len(gap) + 1] = row
  BY <1>1, <1>2
<1>5. ASSUME NEW g \in DOMAIN gap', NEW h \in DOMAIN gap', gap'[g].effect = gap'[h].effect
      PROVE  g = h
  BY <1>3, <1>4, <1>5 DEF ProvInv
<1>6. QED
  BY <1>4, <1>5

\* A resolution changes one open gap and the effect of none.
LEMMA GapResolved ==
  ASSUME ProvInv, NEW g \in DOMAIN gap, NEW ref \in Refs \cup {NoRef},
         NEW s \in {"explained", "dismissed"}, ResolveGap(g, s, ref)
  PROVE  /\ gap[g].status = "open"
         /\ gap' \in Seq(Gaps)
         /\ DOMAIN gap' = DOMAIN gap
         /\ \A h \in DOMAIN gap : gap'[h].effect = gap[h].effect
         /\ \A h \in DOMAIN gap \ {g} : gap'[h] = gap[h]
<1> DEFINE row == [gap[g] EXCEPT !.status = s, !.ref = ref]
<1>1. gap' = [gap EXCEPT ![g] = row] /\ gap[g].status = "open"
  BY DEF ResolveGap
<1>2. gap \in Seq(Gaps) /\ gap[g] \in Gaps
  BY DEF ProvInv
<1>3. row \in Gaps /\ row.effect = gap[g].effect
  BY <1>2 DEF Gaps
<1>4. QED
  BY <1>1, <1>2, <1>3

\* Every change has at most one gap, in every reachable state.
LEMMA ProvInvHolds == ProvSpec => []ProvInv
<1>1. ProvInit => ProvInv
  BY DEF ProvInit, ProvInv, Resting
<1>2. ASSUME ProvInv, [ProvNext]_provVars
      PROVE  ProvInv'
  <2>1. CASE UNCHANGED provVars
    BY <1>2, <2>1 DEF provVars, ProvInv
  <2>2. ASSUME NEW e \in Effects, Changes(e) \/ Remembers(RecordOf[e])
        PROVE  ProvInv'
    BY <1>2, <2>2 DEF Changes, Remembers, ProvInv
  <2>3. ASSUME NEW d \in Detectors, Lists(d)
        PROVE  ProvInv'
    <3>1. {e \in Listed : RecordOf[e] \in Anchorable} \subseteq Effects
      BY ProvenanceAssumption DEF Listed
    <3>2. QED
      BY <1>2, <2>3, <3>1 DEF Lists, ProvInv
  <2>4. ASSUME NEW d \in Detectors, Recalls(d)
        PROVE  ProvInv'
    <3>1. CASE Passes(d)
      BY <1>2, <2>4, <3>1, DetectorPasses DEF Recalls, ProvInv
    <3>2. CASE detector' = [detector EXCEPT ![d].at = "record"]
      BY <1>2, <2>4, <3>2 DEF Recalls, ProvInv
    <3>3. QED
      BY <2>4, <3>1, <3>2 DEF Recalls
  <2>5. ASSUME NEW d \in Detectors, RecordSearch(d)
        PROVE  ProvInv'
    <3>1. CASE Passes(d)
      BY <1>2, <2>5, <3>1, DetectorPasses DEF RecordSearch, ProvInv
    <3>2. CASE detector' = [detector EXCEPT ![d].at = "insert"]
      BY <1>2, <2>5, <3>2 DEF RecordSearch, ProvInv
    <3>3. QED
      BY <2>5, <3>1, <3>2 DEF RecordSearch
  <2>6. ASSUME NEW d \in Detectors, RecordInsert(d)
        PROVE  ProvInv'
    <3>1. Passes(d)
      BY <2>6 DEF RecordInsert
    <3>2. QED
      BY <1>2, <2>6, <3>1, GapInserted, DetectorPasses DEF ProvInv
  <2>7. ASSUME NEW d \in Detectors, DetectorEnds(d)
        PROVE  ProvInv'
    BY <1>2, <2>7 DEF DetectorEnds, ProvInv, Resting
  <2>8. ASSUME NEW g \in DOMAIN gap, NEW ref \in Refs \cup {NoRef},
               NEW s \in {"explained", "dismissed"}, ResolveGap(g, s, ref)
        PROVE  ProvInv'
    <3>1. UNCHANGED detector
      BY <2>8 DEF ResolveGap
    <3>2. QED
      BY <1>2, <2>8, <3>1, GapResolved DEF ProvInv
  <2>9. QED
    BY <1>2, <2>1, <2>2, <2>3, <2>4, <2>5, <2>6, <2>7, <2>8 DEF ProvNext
<1>3. QED
  BY <1>1, <1>2, PTL DEF ProvSpec

\* What a step may not do to an answered gap.
AnsweredStep ==
  \A g \in DOMAIN gap : gap[g].status # "open" =>
    /\ gap'[g] = gap[g]
    /\ \A h \in DOMAIN gap' : gap'[h].effect = gap[g].effect => h = g

\* A gap that was answered stays as answered, and its change never gets a
\* second gap, however the detector and the people interleave.
THEOREM AnsweredGapsStayCorrect == ProvSpec => AnsweredGapsStay
<1>1. ASSUME ProvInv, [ProvNext]_provVars
      PROVE  [AnsweredStep]_provVars
  <2>1. CASE UNCHANGED gap
    BY <1>1, <2>1 DEF ProvInv, AnsweredStep
  <2>2. ASSUME NEW d \in Detectors, RecordInsert(d)
        PROVE  AnsweredStep
    BY <1>1, <2>2, GapInserted DEF AnsweredStep
  <2>3. ASSUME NEW g \in DOMAIN gap, NEW ref \in Refs \cup {NoRef},
               NEW s \in {"explained", "dismissed"}, ResolveGap(g, s, ref)
        PROVE  AnsweredStep
    BY <1>1, <2>3, GapResolved DEF AnsweredStep, ProvInv
  <2>4. QED
    BY <1>1, <2>1, <2>2, <2>3
    DEF ProvNext, provVars, Changes, Remembers, Lists, Recalls, RecordSearch, DetectorEnds
<1>2. QED
  BY <1>1, ProvInvHolds, PTL DEF ProvSpec, AnsweredGapsStay, AnsweredStep

-----------------------------------------------------------------------------
(* The queue of admin requests.                                            *)

\* The file of id i holds this request.
Holds(i, operation, params) ==
  i \in DOMAIN queue /\ queue[i].operation = operation /\ queue[i].params = params

\* What a thread is at: it holds what the file of that id says, and what it
\* is about to run was shown and confirmed.
DecisionSound(d) ==
  /\ d.at # "none" => Holds(d.id, d.loaded.operation, d.loaded.params)
  /\ d.at = "execute" =>
       /\ [id |-> d.id, operation |-> d.loaded.operation, params |-> d.loaded.params] \in seen
       /\ d.typed = d.loaded.operation

\* The files are numbered from 1 without a gap, so that an id is never used
\* again; and every form shows what the file of its id holds.
QueueInv ==
  /\ \E n \in Nat : DOMAIN queue = 1..n
  /\ RanAsConfirmed
  /\ \A f \in seen : f = [id |-> f.id, operation |-> f.operation, params |-> f.params]
                     /\ Holds(f.id, f.operation, f.params)
  /\ DOMAIN decision = Pages
  /\ \A p \in Pages : DecisionSound(decision[p])

\* The next id belongs to no file, and the one after is still the next.
LEMMA NextIdIsNew ==
  ASSUME QueueInv
  PROVE  /\ NextId \notin DOMAIN queue
         /\ \E n \in Nat : DOMAIN queue \cup {NextId} = 1..n
<1>1. PICK n \in Nat : DOMAIN queue = 1..n
  BY DEF QueueInv
<1>2. Cardinality(1..n) = n
  BY FS_Interval
<1>3. NextId = n + 1
  BY <1>1, <1>2 DEF NextId
<1>4. (1..n) \cup {n + 1} = 1..(n + 1) /\ n + 1 \notin 1..n /\ n + 1 \in Nat
  OBVIOUS
<1>5. QED
  BY <1>1, <1>3, <1>4

\* The queue is numbered without gaps and every form shows its file.
LEMMA QueueInvHolds == AdminSpec => []QueueInv
<1>1. AdminInit => QueueInv
  <2>1. 1..0 = {} /\ 0 \in Nat
    OBVIOUS
  <2>2. DOMAIN << >> = {}
    OBVIOUS
  <2>3. QED
    BY <2>1, <2>2 DEF AdminInit, QueueInv, RanAsConfirmed, NoDecision, DecisionSound
<1>2. ASSUME QueueInv, [AdminNext]_adminVars
      PROVE  QueueInv'
  <2>1. CASE UNCHANGED adminVars
    BY <1>2, <2>1 DEF adminVars, QueueInv, RanAsConfirmed, Holds, DecisionSound
  <2>2. ASSUME NEW op \in Operations, NEW x \in Params, NEW whole \in BOOLEAN,
               AdminRequest(op, x, whole)
        PROVE  QueueInv'
    <3>1. /\ DOMAIN queue' = DOMAIN queue \cup {NextId}
          /\ \A i \in DOMAIN queue : queue'[i] = queue[i]
      BY <1>2, <2>2, NextIdIsNew DEF AdminRequest, Written
    <3>2. \A i, o, q : Holds(i, o, q) => Holds(i, o, q)'
      BY <3>1 DEF Holds
    <3>3. UNCHANGED <<seen, decision, ran>>
      BY <2>2 DEF AdminRequest
    <3>4. QED
      BY <1>2, <3>1, <3>2, <3>3, NextIdIsNew DEF QueueInv, RanAsConfirmed, DecisionSound
  <2>3. CASE OpensPage
    BY <1>2, <2>3 DEF OpensPage, Shown, QueueInv, RanAsConfirmed, Holds, DecisionSound
  <2>4. ASSUME NEW p \in Pages, NEW f \in seen, NEW approve \in BOOLEAN, NEW typed \in Operations,
               Decides(p, f, approve, typed)
        PROVE  QueueInv'
    <3> DEFINE d == [at |-> IF approve THEN "execute" ELSE "save", id |-> f.id, typed |-> typed,
                     loaded |-> queue[f.id], outcome |-> "denied"]
    <3>1. /\ decision' = [decision EXCEPT ![p] = d]
          /\ UNCHANGED <<queue, seen, ran>>
      BY <2>4 DEF Decides
    <3>2. /\ f = [id |-> f.id, operation |-> f.operation, params |-> f.params]
          /\ f.id \in DOMAIN queue
          /\ f.operation = queue[f.id].operation /\ f.params = queue[f.id].params
      BY <1>2 DEF QueueInv, Holds
    <3>3. Holds(d.id, d.loaded.operation, d.loaded.params)
      BY <3>2 DEF Holds
    <3>4. d.at = "execute" =>
            /\ [id |-> d.id, operation |-> d.loaded.operation, params |-> d.loaded.params] = f
            /\ d.typed = d.loaded.operation
      BY <2>4, <3>2 DEF Decides
    <3>5. DecisionSound(d)
      BY <3>3, <3>4 DEF DecisionSound
    <3>6. DOMAIN decision' = Pages
          /\ decision'[p] = d
          /\ \A q \in Pages \ {p} : decision'[q] = decision[q]
      BY <1>2, <3>1 DEF QueueInv
    <3>7. \A q \in Pages : DecisionSound(decision'[q])
      BY <1>2, <3>5, <3>6 DEF QueueInv
    <3>8. QED
      BY <1>2, <3>1, <3>6, <3>7 DEF QueueInv, RanAsConfirmed, Holds, DecisionSound
  <2>5. ASSUME NEW p \in Pages, NEW ok \in BOOLEAN, Executes(p, ok)
        PROVE  QueueInv'
    <3> DEFINE d == [decision[p] EXCEPT !.at = "save", !.outcome = IF ok THEN "executed" ELSE "failed"]
               r == [id |-> decision[p].id, operation |-> decision[p].loaded.operation,
                     params |-> decision[p].loaded.params, typed |-> decision[p].typed]
    <3>1. /\ ran' = ran \cup {r}
          /\ decision' = [decision EXCEPT ![p] = d]
          /\ UNCHANGED <<queue, seen>>
          /\ decision[p].at = "execute"
      BY <2>5 DEF Executes, Execution
    <3>2. DecisionSound(decision[p])
      BY <1>2 DEF QueueInv
    <3>3. /\ [id |-> r.id, operation |-> r.operation, params |-> r.params] \in seen
          /\ r.typed = r.operation
      BY <3>1, <3>2 DEF DecisionSound
    <3>4. d.id = decision[p].id /\ d.loaded = decision[p].loaded
      OBVIOUS
    <3>5. d.at # "execute" /\ Holds(d.id, d.loaded.operation, d.loaded.params)
      <4>1. d.at # "execute"
        BY <3>1
      <4>2. QED
        BY <3>1, <3>2, <3>4, <4>1 DEF DecisionSound
    <3>6. DOMAIN decision' = Pages
          /\ decision'[p] = d
          /\ \A q \in Pages \ {p} : decision'[q] = decision[q]
      BY <1>2, <3>1 DEF QueueInv
    <3>7. \A q \in Pages : DecisionSound(decision'[q])
      BY <1>2, <3>5, <3>6 DEF QueueInv, DecisionSound
    <3>8. RanAsConfirmed'
      BY <1>2, <3>1, <3>3 DEF QueueInv, RanAsConfirmed
    <3>9. QED
      BY <1>2, <3>1, <3>6, <3>7, <3>8 DEF QueueInv, Holds, DecisionSound
  <2>6. ASSUME NEW p \in Pages, Saves(p)
        PROVE  QueueInv'
    <3> DEFINE i == decision[p].id
               r == [decision[p].loaded EXCEPT !.status = decision[p].outcome]
    <3>1. /\ decision[p].at # "none"
          /\ queue' = Written(i, r)
          /\ decision' = [decision EXCEPT ![p] = NoDecision]
          /\ UNCHANGED <<seen, ran>>
      BY <2>6 DEF Saves
    <3>2. Holds(i, decision[p].loaded.operation, decision[p].loaded.params)
      BY <1>2, <3>1 DEF QueueInv, DecisionSound
    <3>3. r.operation = decision[p].loaded.operation /\ r.params = decision[p].loaded.params
      OBVIOUS
    <3>4. /\ DOMAIN queue' = DOMAIN queue
          /\ \A j \in DOMAIN queue : /\ queue'[j].operation = queue[j].operation
                                     /\ queue'[j].params = queue[j].params
      BY <3>1, <3>2, <3>3 DEF Written, Holds
    <3>5. \A j, o, q : Holds(j, o, q) => Holds(j, o, q)'
      BY <3>4 DEF Holds
    <3>6. NoDecision.at = "none"
      BY DEF NoDecision
    <3>7. DOMAIN decision' = Pages
          /\ decision'[p] = NoDecision
          /\ \A q \in Pages \ {p} : decision'[q] = decision[q]
      BY <1>2, <3>1 DEF QueueInv
    <3>8. \A q \in Pages : DecisionSound(decision[q])
      BY <1>2 DEF QueueInv
    <3>9. \A q \in Pages : DecisionSound(decision[q])'
      BY <3>1, <3>5, <3>6, <3>7, <3>8 DEF DecisionSound
    <3>10. QED
      BY <1>2, <3>1, <3>4, <3>5, <3>7, <3>9 DEF QueueInv, RanAsConfirmed
  <2>7. ASSUME NEW T \in SUBSET Ids, ShimStops(T)
        PROVE  QueueInv'
    <3>1. /\ DOMAIN queue' = DOMAIN queue
          /\ \A j \in DOMAIN queue : /\ queue'[j].operation = queue[j].operation
                                     /\ queue'[j].params = queue[j].params
      BY <2>7 DEF ShimStops
    <3>2. \A j, o, q : Holds(j, o, q) => Holds(j, o, q)'
      BY <3>1 DEF Holds
    <3>3. decision' = [p \in Pages |-> NoDecision] /\ UNCHANGED <<seen, ran>>
      BY <2>7 DEF ShimStops
    <3>4. QED
      BY <1>2, <3>1, <3>2, <3>3 DEF QueueInv, RanAsConfirmed, DecisionSound, NoDecision
  <2>8. ASSUME NEW p \in Pages, ExecutionRaises(p)
        PROVE  QueueInv'
    <3> DEFINE r == Execution(p)
    <3>1. /\ ran' \subseteq ran \cup {r}
          /\ decision' = [decision EXCEPT ![p] = NoDecision]
          /\ UNCHANGED <<queue, seen>>
          /\ decision[p].at = "execute"
      BY <2>8 DEF ExecutionRaises
    <3>2. /\ [id |-> r.id, operation |-> r.operation, params |-> r.params] \in seen
          /\ r.typed = r.operation
      BY <1>2, <3>1 DEF QueueInv, DecisionSound, Execution
    <3>3. RanAsConfirmed'
      BY <1>2, <3>1, <3>2 DEF QueueInv, RanAsConfirmed
    <3>4. DOMAIN decision' = Pages
          /\ decision'[p] = NoDecision
          /\ \A q \in Pages \ {p} : decision'[q] = decision[q]
      BY <1>2, <3>1 DEF QueueInv
    <3>5. \A q \in Pages : DecisionSound(decision[q])'
      BY <1>2, <3>1, <3>4 DEF QueueInv, DecisionSound, NoDecision, Holds
    <3>6. QED
      BY <1>2, <3>1, <3>3, <3>4, <3>5 DEF QueueInv, Holds
  <2>9. QED
    BY <1>2, <2>1, <2>2, <2>3, <2>4, <2>5, <2>6, <2>7, <2>8 DEF AdminNext
<1>3. QED
  BY <1>1, <1>2, PTL DEF AdminSpec

\* An administrative request that ran was confirmed by a person as it ran:
\* what the page showed is what the queue executed.
THEOREM RanAsConfirmedCorrect == AdminSpec => []RanAsConfirmed
<1>1. QueueInv => RanAsConfirmed
  BY DEF QueueInv
<1>2. QED
  BY <1>1, QueueInvHolds, PTL

-----------------------------------------------------------------------------
(* Digest.                                                                 *)

\* What was delivered so far.
Delivered == UNION {delivered[n] : n \in DOMAIN delivered}

\* The digest the script waits for marks, began with all that was delivered,
\* leaves that out of what is new, and has marked what is new at its end.
Awaited(d) ==
  /\ d \in Digests
  /\ DOMAIN digest[d] = {"at", "mark", "sent", "fresh"}
  /\ digest[d].mark = TRUE
  /\ digest[d].at \in 1..6
  /\ Delivered \subseteq digest[d].sent
  /\ digest[d].fresh \cap digest[d].sent = {}
  /\ digest[d].at = 6 => digest[d].fresh \subseteq sent

\* A digest under way announces what no digest delivered before.
DigestInv ==
  /\ delivered \in Seq(SUBSET sent)
  /\ \A m, n \in DOMAIN delivered : m # n => delivered[m] \cap delivered[n] = {}
  /\ DOMAIN digest = Digests
  /\ \A d, e \in script : d = e
  /\ \A d \in script : Awaited(d)

\* The digest has four sections.
LEMMA FourSections == Len(Sections) = 4 /\ DOMAIN Sections = 1..4
  BY DEF Sections

\* The other digests and the reports leave what the script waits for alone.
LEMMA AwaitedStays ==
  ASSUME NEW d, Awaited(d), digest'[d] = digest[d], UNCHANGED delivered, sent \subseteq sent'
  PROVE  Awaited(d)'
  BY DEF Awaited, Delivered

\* What is delivered stays apart from what is still to be announced.
LEMMA DigestInvHolds == DigestSpec => []DigestInv
<1>1. DigestInit => DigestInv
  BY DEF DigestInit, DigestInv
<1>2. ASSUME DigestInv, [DigestNext]_digestVars
      PROVE  DigestInv'
  <2>1. CASE UNCHANGED digestVars \/ MemoryChanges
    BY <1>2, <2>1, AwaitedStays DEF digestVars, MemoryChanges, DigestInv
  <2>2. ASSUME NEW d \in Digests, NEW mark \in BOOLEAN, Begins(d, mark)
        PROVE  DigestInv'
    <3> DEFINE b == [at |-> 1, mark |-> mark, sent |-> sent, fresh |-> {}]
    <3>1. /\ digest[d] = Ended /\ UNCHANGED <<sent, delivered>>
          /\ digest' = [digest EXCEPT ![d] = b]
          /\ mark => script = {}
          /\ script' = IF mark THEN {d} ELSE script
      BY <2>2 DEF Begins
    <3>2. \A e \in script : e # d
      <4>1. Ended.at = 0
        BY DEF Ended
      <4>2. \A e \in script : digest[e].at \in 1..6
        BY <1>2 DEF DigestInv, Awaited
      <4>3. QED
        BY <3>1, <4>1, <4>2
    <3>3. Delivered \subseteq sent
      BY <1>2 DEF DigestInv, Delivered
    <3>4. DOMAIN digest' = Digests /\ digest'[d] = b
          /\ \A e \in Digests \ {d} : digest'[e] = digest[e]
      BY <1>2, <3>1 DEF DigestInv
    <3>5. CASE mark
      <4>1. script' = {d} /\ b.mark = TRUE
        BY <3>1, <3>5
      <4>2. Awaited(d)'
        BY <3>1, <3>3, <3>4, <3>5 DEF Awaited, Delivered
      <4>3. QED
        BY <1>2, <3>1, <3>4, <4>1, <4>2 DEF DigestInv
    <3>6. CASE ~mark
      <4>1. \A e \in script : Awaited(e)'
        BY <1>2, <3>1, <3>2, <3>4, AwaitedStays DEF DigestInv, Awaited
      <4>2. QED
        BY <1>2, <3>1, <3>4, <3>6, <4>1 DEF DigestInv
    <3>7. QED
      BY <3>5, <3>6
  <2>3. ASSUME NEW d \in Digests, NEW degraded \in BOOLEAN, ReadsSection(d, degraded)
        PROVE  DigestInv'
    <3> DEFINE fresh == digest[d].fresh \cup (Report(digest[d].at, degraded) \ digest[d].sent)
    <3>1. /\ digest[d].at \in 1..4 /\ UNCHANGED <<sent, delivered, script>>
          /\ digest' = [digest EXCEPT ![d].at = digest[d].at + 1, ![d].fresh = fresh]
      BY <2>3, FourSections DEF ReadsSection
    <3>2. DOMAIN digest' = Digests /\ \A e \in Digests \ {d} : digest'[e] = digest[e]
      BY <1>2, <3>1 DEF DigestInv
    <3>3. ASSUME d \in script
          PROVE  Awaited(d)'
      <4>1. Awaited(d)
        BY <1>2, <3>3 DEF DigestInv
      <4>2. /\ DOMAIN digest'[d] = DOMAIN digest[d] /\ digest'[d].mark = digest[d].mark
            /\ digest'[d].at = digest[d].at + 1 /\ digest'[d].sent = digest[d].sent
            /\ digest'[d].fresh = fresh
        BY <1>2, <3>1, <4>1 DEF Awaited, DigestInv
      <4>3. digest[d].at + 1 \in 1..6 /\ digest[d].at + 1 # 6
        BY <3>1
      <4>4. fresh \cap digest[d].sent = {}
        BY <4>1 DEF Awaited
      <4>5. digest'[d].at \in 1..6 /\ digest'[d].at # 6 /\ digest'[d].fresh \cap digest'[d].sent = {}
        BY <4>2, <4>3, <4>4
      <4>6. /\ DOMAIN digest'[d] = {"at", "mark", "sent", "fresh"}
            /\ digest'[d].mark = TRUE
        BY <4>1, <4>2 DEF Awaited
      <4>7. Delivered' \subseteq digest'[d].sent
        BY <3>1, <4>1, <4>2 DEF Awaited, Delivered
      <4>8. QED
        BY <4>5, <4>6, <4>7 DEF Awaited
    <3>4. \A e \in script : Awaited(e)'
      BY <1>2, <3>1, <3>2, <3>3, AwaitedStays DEF DigestInv, Awaited
    <3>5. QED
      BY <1>2, <3>1, <3>2, <3>4 DEF DigestInv
  <2>4. ASSUME NEW d \in Digests, Marks(d)
        PROVE  DigestInv'
    <3>1. /\ digest[d].at = 5 /\ UNCHANGED <<delivered, script>>
          /\ digest' = [digest EXCEPT ![d].at = 6]
          /\ sent' = IF digest[d].mark THEN sent \cup digest[d].fresh ELSE sent
      BY <2>4, FourSections DEF Marks
    <3>2. sent \subseteq sent' /\ delivered \in Seq(SUBSET sent')
      <4>1. sent \subseteq sent'
        BY <3>1
      <4>2. SUBSET sent \subseteq SUBSET sent'
        BY <4>1
      <4>3. delivered \in Seq(SUBSET sent)
        BY <1>2 DEF DigestInv
      <4>4. QED
        BY <4>1, <4>2, <4>3
    <3>3. DOMAIN digest' = Digests /\ \A e \in Digests \ {d} : digest'[e] = digest[e]
      BY <1>2, <3>1 DEF DigestInv
    <3>4. ASSUME d \in script
          PROVE  Awaited(d)'
      <4>1. Awaited(d)
        BY <1>2, <3>4 DEF DigestInv
      <4>2. /\ DOMAIN digest'[d] = DOMAIN digest[d] /\ digest'[d].mark = digest[d].mark
            /\ digest'[d].at = 6 /\ digest'[d].sent = digest[d].sent
            /\ digest'[d].fresh = digest[d].fresh
        BY <1>2, <3>1, <4>1 DEF Awaited, DigestInv
      <4>3. digest[d].fresh \subseteq sent'
        BY <3>1, <4>1 DEF Awaited
      <4>4. QED
        BY <3>1, <4>1, <4>2, <4>3 DEF Awaited, Delivered
    <3>5. \A e \in script : Awaited(e)'
      BY <1>2, <3>1, <3>2, <3>3, <3>4, AwaitedStays DEF DigestInv, Awaited
    <3>6. QED
      BY <1>2, <3>1, <3>2, <3>3, <3>5 DEF DigestInv
  <2>5. ASSUME NEW d \in Digests, DigestAnswers(d)
        PROVE  DigestInv'
    <3>1. /\ digest[d].at = 6 /\ UNCHANGED sent
          /\ digest' = [digest EXCEPT ![d] = Ended]
      BY <2>5, FourSections DEF DigestAnswers
    <3>2. DOMAIN digest' = Digests /\ \A e \in Digests \ {d} : digest'[e] = digest[e]
      BY <1>2, <3>1 DEF DigestInv
    <3>3. CASE d \in script
      <4>1. Awaited(d) /\ script' = {}
        BY <1>2, <2>5, <3>3 DEF DigestInv, DigestAnswers
      <4>2. digest[d].fresh \in SUBSET sent /\ digest[d].fresh \cap Delivered = {}
        BY <3>1, <4>1 DEF Awaited
      <4>3. delivered' = delivered \/ delivered' = Append(delivered, digest[d].fresh)
        BY <2>5, <3>3 DEF DigestAnswers
      <4>4. CASE delivered' = delivered
        BY <1>2, <3>1, <3>2, <4>1, <4>4 DEF DigestInv
      <4>5. CASE delivered' = Append(delivered, digest[d].fresh)
        <5>1. delivered \in Seq(SUBSET sent)
          BY <1>2 DEF DigestInv
        <5>2. /\ delivered' \in Seq(SUBSET sent)
              /\ DOMAIN delivered' = DOMAIN delivered \cup {Len(delivered) + 1}
              /\ \A n \in DOMAIN delivered : delivered'[n] = delivered[n]
              /\ delivered'[Len(delivered) + 1] = digest[d].fresh
          BY <4>2, <4>5, <5>1
        <5>3. \A n \in DOMAIN delivered : delivered[n] \cap digest[d].fresh = {}
          BY <4>2 DEF Delivered
        <5>4. ASSUME NEW m \in DOMAIN delivered', NEW n \in DOMAIN delivered', m # n
              PROVE  delivered'[m] \cap delivered'[n] = {}
          BY <1>2, <5>2, <5>3, <5>4 DEF DigestInv
        <5>5. QED
          BY <1>2, <3>1, <3>2, <4>1, <5>2, <5>4 DEF DigestInv
      <4>6. QED
        BY <4>3, <4>4, <4>5
    <3>4. CASE d \notin script
      <4>1. UNCHANGED <<script, delivered>>
        BY <2>5, <3>4 DEF DigestAnswers
      <4>2. \A e \in script : Awaited(e)'
        BY <1>2, <3>1, <3>2, <3>4, <4>1, AwaitedStays DEF DigestInv, Awaited
      <4>3. QED
        BY <1>2, <3>1, <3>2, <4>1, <4>2 DEF DigestInv
    <3>5. QED
      BY <3>3, <3>4
  <2>6. CASE ScriptGivesUp
    BY <1>2, <2>6 DEF ScriptGivesUp, DigestInv
  <2>7. ASSUME NEW d \in Digests, DigestDies(d)
        PROVE  DigestInv'
    <3>1. /\ UNCHANGED <<sent, delivered>> /\ script' = script \ {d}
          /\ digest' = [digest EXCEPT ![d] = Ended]
      BY <2>7 DEF DigestDies
    <3>2. DOMAIN digest' = Digests /\ \A e \in Digests \ {d} : digest'[e] = digest[e]
      BY <1>2, <3>1 DEF DigestInv
    <3>3. \A e \in script' : Awaited(e)'
      BY <1>2, <3>1, <3>2, AwaitedStays DEF DigestInv, Awaited
    <3>4. QED
      BY <1>2, <3>1, <3>2, <3>3 DEF DigestInv
  <2>8. QED
    BY <1>2, <2>1, <2>2, <2>3, <2>4, <2>5, <2>6, <2>7 DEF DigestNext
<1>3. QED
  BY <1>1, <1>2, PTL DEF DigestSpec

\* No element of a report is delivered by two digests of the same script.
THEOREM AnnouncedOnceCorrect == DigestSpec => []AnnouncedOnce
<1>1. DigestInv => AnnouncedOnce
  BY DEF DigestInv, AnnouncedOnce, Range
<1>2. QED
  BY <1>1, DigestInvHolds, PTL

-----------------------------------------------------------------------------
(* Anchoring.                                                              *)

\* The entities of an item have at most one of them as subject and one as
\* owner, and an owner only in a commitment.
EntitiesNormal ==
  /\ \A i, j \in DOMAIN entity :
       entity[i].role = entity[j].role /\ entity[i].role \in {"subject", "owner"} => i = j
  /\ \A i \in DOMAIN entity : entity[i].role = "owner" => item.kind = "commitment"

\* An anchor is of a type its role allows, and was not scored too low.
AnchorSound(i) ==
  /\ i \in DOMAIN entity
  /\ resolution[i].type \in CandidateTypes(item.kind, entity[i])
  /\ resolution[i].confidence >= Review[resolution[i].type]

AnchoringInv ==
  /\ item.at \in {"extract", "search", "score", "insert", "stored"}
  /\ item.at # "extract" => DOMAIN item = {"at", "kind"} /\ EntitiesNormal
  /\ item.at = "score" =>
       /\ candidates \in [DOMAIN entity -> SUBSET Types]
       /\ \A i \in DOMAIN entity : candidates[i] \subseteq CandidateTypes(item.kind, entity[i])
  /\ item.at \in {"extract", "search", "score"} => Anchored = {}
  /\ \A i \in Anchored : AnchorSound(i)

\* A set with one element at most stays so in its subsets.
LEMMA AtMostOne ==
  ASSUME NEW S, \A x, y \in S : x = y
  PROVE  Cardinality(S) <= 1
<1>1. CASE S = {}
  BY <1>1, FS_EmptySet
<1>2. CASE S # {}
  <2>1. PICK x : S = {x}
    BY <1>2
  <2>2. QED
    BY <2>1, FS_Singleton
<1>3. QED
  BY <1>1, <1>2

\* What the code makes of the entities the model names.
LEMMA NormalRoles ==
  ASSUME NEW kind, NEW raw, NEW n \in Nat, raw \in [1..n -> RawEntities]
  PROVE  /\ DOMAIN Normalised(kind, raw) = 1..n
         /\ \A i \in 1..n : Normalised(kind, raw)[i].role = NormalRole(kind, raw, i)
         /\ \A i, j \in 1..n : i < j /\ NormalRole(kind, raw, i) \in {"subject", "owner"}
                                 => NormalRole(kind, raw, i) # NormalRole(kind, raw, j)
         /\ \A i \in 1..n : NormalRole(kind, raw, i) = "owner" => kind = "commitment"
<1>1. DOMAIN Normalised(kind, raw) = 1..n
      /\ \A i \in 1..n : Normalised(kind, raw)[i].role = NormalRole(kind, raw, i)
  BY DEF Normalised
<1>2. \A i \in 1..n : NormalRole(kind, raw, i) \in {"subject", "owner"} =>
        /\ raw[i].role = NormalRole(kind, raw, i)
        /\ ~ EarlierRole(raw, i, raw[i].role)
        /\ raw[i].role = "owner" => kind = "commitment"
  BY DEF NormalRole
<1>3. ASSUME NEW i \in 1..n, NEW j \in 1..n, i < j,
             NormalRole(kind, raw, i) \in {"subject", "owner"},
             NormalRole(kind, raw, i) = NormalRole(kind, raw, j)
      PROVE  FALSE
  <2>1. i \in 1..(j - 1)
    BY <1>3
  <2>2. raw[i].role = raw[j].role
    BY <1>2, <1>3
  <2>3. EarlierRole(raw, j, raw[j].role)
    BY <2>1, <2>2 DEF EarlierRole
  <2>4. QED
    BY <1>2, <1>3, <2>3
<1>4. QED
  BY <1>1, <1>2, <1>3

\* The triggers and the indexes accept the anchors of sound entities.
LEMMA TablesAcceptAnchors ==
  ASSUME EntitiesNormal, \A i \in Anchored : AnchorSound(i)
  PROVE  TablesAccept
<1>1. ASSUME NEW role \in {"subject", "owner"}
      PROVE  Cardinality(OfRole(role)) <= 1
  <2>1. \A i, j \in OfRole(role) : i = j
    BY <1>1 DEF OfRole, EntitiesNormal, AnchorSound
  <2>2. QED
    BY <2>1, AtMostOne
<1>2. ASSUME NEW i \in OfRole("subject")
      PROVE  resolution[i].type \in SubjectTypes[item.kind]
  BY <1>2 DEF OfRole, AnchorSound, CandidateTypes
<1>3. ASSUME NEW i \in OfRole("owner")
      PROVE  item.kind = "commitment" /\ resolution[i].type \in OwnerTypes
  BY <1>3 DEF OfRole, AnchorSound, EntitiesNormal, CandidateTypes
<1>4. QED
  BY <1>1, <1>2, <1>3 DEF TablesAccept

\* Every anchor that was written is one the engine may write.
LEMMA AnchoringInvHolds == AnchoringSpec => []AnchoringInv
<1>1. AnchoringInit => AnchoringInv
  BY DEF AnchoringInit, AnchoringInv, Anchored
<1>2. ASSUME AnchoringInv, [AnchoringNext]_anchoringVars
      PROVE  AnchoringInv'
  <2>1. CASE UNCHANGED anchoringVars
    BY <1>2, <2>1
    DEF anchoringVars, AnchoringInv, Anchored, AnchorSound, EntitiesNormal, CandidateTypes
  <2>2. ASSUME NEW kind \in Kinds, NEW n \in 0..MaxEntities, NEW raw \in [1..n -> RawEntities],
               Extracts(kind, raw)
        PROVE  AnchoringInv'
    <3>1. /\ item' = [at |-> "search", kind |-> kind] /\ item.at = "extract"
          /\ entity' = Normalised(kind, raw) /\ UNCHANGED <<candidates, resolution>>
      BY <2>2 DEF Extracts
    <3>2. n \in Nat
      BY AnchoringAssumption
    <3>3. Anchored = {} /\ Anchored' = {}
      BY <1>2, <3>1 DEF AnchoringInv, Anchored
    <3>4. EntitiesNormal'
      <4>1. /\ DOMAIN entity' = 1..n
            /\ \A i \in 1..n : entity'[i].role = NormalRole(kind, raw, i)
            /\ \A i, j \in 1..n : i < j /\ NormalRole(kind, raw, i) \in {"subject", "owner"}
                                    => NormalRole(kind, raw, i) # NormalRole(kind, raw, j)
            /\ \A i \in 1..n : NormalRole(kind, raw, i) = "owner" => kind = "commitment"
        BY <3>1, <3>2, NormalRoles
      <4>2. ASSUME NEW i \in 1..n, NEW j \in 1..n, entity'[i].role = entity'[j].role,
                   entity'[i].role \in {"subject", "owner"}
            PROVE  i = j
        <5>1. ~ (i < j) /\ ~ (j < i)
          BY <4>1, <4>2
        <5>2. QED
          BY <5>1
      <4>3. item'.kind = kind
        BY <3>1
      <4>4. QED
        BY <4>1, <4>2, <4>3 DEF EntitiesNormal
    <3>5. item'.at = "search" /\ DOMAIN item' = {"at", "kind"}
      BY <3>1
    <3>6. QED
      BY <3>3, <3>4, <3>5 DEF AnchoringInv
  <2>3. ASSUME NEW found \in [DOMAIN entity -> SUBSET Types], Searches(found)
        PROVE  AnchoringInv'
    <3>1. /\ item.at = "search" /\ item' = [item EXCEPT !.at = "score"]
          /\ candidates' = found /\ UNCHANGED <<entity, resolution>>
          /\ \A i \in DOMAIN entity : found[i] \subseteq CandidateTypes(item.kind, entity[i])
      BY <2>3 DEF Searches
    <3>2. item'.at = "score" /\ item'.kind = item.kind /\ DOMAIN item' = {"at", "kind"}
      BY <1>2, <3>1 DEF AnchoringInv
    <3>3. Anchored' = {}
      BY <1>2, <3>1 DEF AnchoringInv, Anchored
    <3>4. QED
      BY <1>2, <3>1, <3>2, <3>3 DEF AnchoringInv, EntitiesNormal, CandidateTypes
  <2>4. CASE Rescores \/ RescoreInvalid
    <3>1. /\ item.at = "score" /\ item' = [item EXCEPT !.at = "insert"]
          /\ UNCHANGED <<entity, candidates>>
      BY <2>4 DEF Rescores, RescoreInvalid
    <3>2. item'.at = "insert" /\ item'.kind = item.kind /\ DOMAIN item' = {"at", "kind"}
      BY <1>2, <3>1 DEF AnchoringInv
    <3>3. DOMAIN resolution' = DOMAIN entity
          /\ \A i \in DOMAIN entity : resolution'[i] \in Outcomes(i)
      <4>1. CASE Rescores
        BY <4>1 DEF Rescores
      <4>2. CASE RescoreInvalid
        BY <1>2, <3>1, <4>2 DEF RescoreInvalid, AnchoringInv, Outcomes
      <4>3. QED
        BY <2>4, <4>1, <4>2
    <3>4. ASSUME NEW i \in DOMAIN entity, resolution'[i].to = "anchor"
          PROVE  /\ resolution'[i].type \in candidates[i]
                 /\ resolution'[i].confidence >= Review[resolution'[i].type]
      <4>1. resolution'[i] # Nothing /\ resolution'[i] # Outside
        BY <3>4 DEF Nothing, Outside
      <4>2. PICK t \in candidates[i], s \in Scores : resolution'[i] = Resolved(i, t, s)
        BY <3>3, <4>1 DEF Outcomes
      <4>3. ~ (s < Review[t]) /\ resolution'[i] = [to |-> "anchor", type |-> t, confidence |-> s,
                                                   review |-> s < Accept[t]]
        BY <4>1, <4>2 DEF Resolved
      <4>4. t \in Types
        BY <1>2, <3>1, <4>2 DEF AnchoringInv
      <4>5. QED
        BY <4>2, <4>3, <4>4, AnchoringAssumption
    <3>5. \A i \in Anchored' : AnchorSound(i)'
      BY <1>2, <3>1, <3>2, <3>3, <3>4 DEF AnchoringInv, Anchored, AnchorSound, CandidateTypes
    <3>6. QED
      BY <1>2, <3>1, <3>2, <3>5 DEF AnchoringInv, EntitiesNormal
  <2>5. CASE Inserts
    <3>1. TablesAccept /\ item.at = "insert"
      BY <1>2, <2>5, TablesAcceptAnchors DEF AnchoringInv, Inserts
    <3>2. item' = [item EXCEPT !.at = "stored"] /\ UNCHANGED <<entity, candidates, resolution>>
      BY <2>5, <3>1 DEF Inserts
    <3>3. item'.at = "stored" /\ item'.kind = item.kind /\ DOMAIN item' = {"at", "kind"}
      BY <1>2, <3>1, <3>2 DEF AnchoringInv
    <3>4. QED
      BY <1>2, <3>1, <3>2, <3>3
      DEF AnchoringInv, EntitiesNormal, Anchored, AnchorSound, CandidateTypes
  <2>6. CASE NextItem
    BY <1>2, <2>6 DEF NextItem, AnchoringInv, Anchored
  <2>7. QED
    BY <1>2, <2>1, <2>2, <2>3, <2>4, <2>5, <2>6 DEF AnchoringNext
<1>3. QED
  BY <1>1, <1>2, PTL DEF AnchoringSpec

\* The anchors the engine writes always pass the triggers and unique indexes
\* of the table, so an item is never left half anchored.
THEOREM AnchorsAcceptedCorrect == AnchoringSpec => []AnchorsAccepted
<1>1. AnchoringInv => AnchorsAccepted
  BY DEF AnchoringInv, AnchorsAccepted, AnchorSound
<1>2. QED
  BY <1>1, AnchoringInvHolds, PTL

-----------------------------------------------------------------------------
(* Recall.                                                                 *)

\* A value the record has, or had, since the question was asked.
HeldDuring(s) == s[1] \in Subjects /\ s[2] \in during[s[1]]

\* While a question is under way the present value of a record is one it had
\* since, and so is every value that was read; what is cited was read.
RecallInv ==
  /\ DOMAIN live = Subjects /\ DOMAIN during = Subjects
  /\ question.at \in {"none", "merge", "read"}
  /\ question.at # "none" => \A r \in Subjects : live[r] \in during[r]
  /\ question.at = "read" =>
       /\ question = [at |-> "read", chosen |-> question.chosen, S |-> question.S,
                      records |-> question.records]
       /\ \A s \in question.S : HeldDuring(s)
  /\ \A c \in answer : /\ (c.status = "fact") = (c.odoo # {})
                       /\ \A s \in c.odoo : HeldDuring(s)

\* What was read and what is cited was true since the question was asked.
LEMMA RecallInvHolds == RecallSpec => []RecallInv
<1>1. RecallInit => RecallInv
  BY DEF RecallInit, RecallInv, NoQuestion
<1>2. ASSUME RecallInv, [RecallNext]_recallVars
      PROVE  RecallInv'
  <2>1. CASE UNCHANGED recallVars
    BY <1>2, <2>1 DEF recallVars, RecallInv, HeldDuring
  <2>2. ASSUME NEW r \in Subjects, NEW v \in FieldValues \cup {Gone}, OdooChanges(r, v)
        PROVE  RecallInv'
    <3>1. /\ UNCHANGED <<question, answer>>
          /\ live' = [live EXCEPT ![r] = v]
          /\ during' = [during EXCEPT ![r] = during[r] \cup {v}]
      BY <2>2 DEF OdooChanges
    <3>2. /\ DOMAIN live' = Subjects /\ DOMAIN during' = Subjects
          /\ \A q \in Subjects : during[q] \subseteq during'[q]
          /\ \A q \in Subjects : live[q] \in during[q] => live'[q] \in during'[q]
      BY <1>2, <3>1 DEF RecallInv
    <3>3. \A s : HeldDuring(s) => HeldDuring(s)'
      BY <3>2 DEF HeldDuring
    <3>4. QED
      BY <1>2, <3>1, <3>2, <3>3 DEF RecallInv
  <2>3. ASSUME NEW i \in Items, Withdraws(i)
        PROVE  RecallInv'
    BY <1>2, <2>3 DEF Withdraws, RecallInv, HeldDuring
  <2>4. ASSUME NEW R \in SUBSET Subjects, Asked(R)
        PROVE  RecallInv'
    BY <1>2, <2>4 DEF Asked, RecallInv, HeldDuring
  <2>5. ASSUME NEW semantic \in Rankings, Merges(semantic)
        PROVE  RecallInv'
    <3>1. question.at = "merge" /\ UNCHANGED <<live, during, answer>>
      BY <2>5 DEF Merges
    <3>2. PICK chosen, records : question' = [at |-> "read", chosen |-> chosen, S |-> {}, records |-> records]
      BY <2>5 DEF Merges
    <3>3. QED
      BY <1>2, <3>1, <3>2 DEF RecallInv, HeldDuring
  <2>6. ASSUME NEW r \in Subjects, NEW ok \in BOOLEAN, ReadsLive(r, ok)
        PROVE  RecallInv'
    <3> DEFINE S == IF ok /\ live[r] # Gone THEN question.S \cup {<<r, live[r]>>} ELSE question.S
    <3>1. /\ question.at = "read" /\ UNCHANGED <<live, during, answer>>
          /\ question' = [question EXCEPT !.records = question.records \ {r}, !.S = S]
      BY <2>6 DEF ReadsLive
    <3>2. question' = [at |-> "read", chosen |-> question.chosen, S |-> S,
                       records |-> question.records \ {r}]
      BY <1>2, <3>1 DEF RecallInv
    <3>3. \A s \in S : HeldDuring(s)
      BY <1>2, <3>1 DEF RecallInv, HeldDuring
    <3>4. QED
      BY <1>2, <3>1, <3>2, <3>3 DEF RecallInv, HeldDuring
  <2>7. ASSUME NEW cited \in SUBSET (Subjects \X FieldValues), NEW items \in SUBSET Items,
               Narrates(cited, items)
        PROVE  RecallInv'
    <3>1. /\ question.at = "read" /\ question' = NoQuestion /\ UNCHANGED <<live, during>>
          /\ answer' = Validated(cited, items)
      BY <2>7 DEF Narrates
    <3>2. \A c \in answer' : /\ (c.status = "fact") = (c.odoo # {})
                             /\ c.odoo \subseteq question.S
      BY <3>1 DEF Validated
    <3>3. QED
      BY <1>2, <3>1, <3>2 DEF RecallInv, HeldDuring, NoQuestion
  <2>8. CASE QuestionFails
    BY <1>2, <2>8 DEF QuestionFails, RecallInv, HeldDuring, NoQuestion
  <2>9. CASE RecallRestarts
    BY <1>2, <2>9 DEF RecallRestarts, RecallInv, HeldDuring, NoQuestion
  <2>10. QED
    BY <1>2, <2>1, <2>2, <2>3, <2>4, <2>5, <2>6, <2>7, <2>8, <2>9 DEF RecallNext
<1>3. QED
  BY <1>1, <1>2, PTL DEF RecallSpec

\* An answer stated as a fact cites a value its record had while the
\* question was being answered.
THEOREM GroundedAnswersCorrect == RecallSpec => []GroundedAnswers
<1>1. RecallInv => GroundedAnswers
  BY DEF RecallInv, GroundedAnswers, HeldDuring
<1>2. QED
  BY <1>1, RecallInvHolds, PTL

-----------------------------------------------------------------------------
(* Types: every service keeps its variables typed, and so does the         *)
(* organisation they make.                                                 *)

OutcomeRows == [claim : 0..MaxMemClaims, evidence : SUBSET (1..MaxMemEvidence)]

\* The rows of the adapter, and its outcomes, keep the shape of their tables.
LEMMA MemTypesHold == MemSpec => []MemTypeOK
<1> DEFINE Typed == AdapterInv /\ memOutcome \in Seq(OutcomeRows)
<1>1. MemInit => Typed
  BY DEF MemInit, AdapterInv, Calls, NoCall
<1>2. ASSUME Typed, [MemNext]_memVars
      PROVE  Typed'
  <2>1. AdapterInv'
    BY <1>2, AdapterStep
  <2>2. ASSUME NEW c \in 0..MaxMemClaims, NEW E \in SUBSET (1..MaxMemEvidence), RecordOutcome(c, E)
        PROVE  memOutcome' \in Seq(OutcomeRows)
    BY <1>2, <2>2 DEF RecordOutcome, OutcomeRows
  <2>3. CASE UNCHANGED memOutcome
    BY <1>2, <2>1, <2>3
  <2>4. QED
    BY <1>2, <2>1, <2>2, <2>3
    DEF MemNext, memVars, MemRequest, MemCommit, EvidenceSelect, ValidateSelect, SupersedeSelect,
        Asks, EvidenceInsert, ValidateUpdate, SupersedeUpdate, RollsBack, Propose
<1>3. Typed => MemTypeOK
  BY DEF AdapterInv, EvidenceRows, ClaimRows, OutcomeRows, MemTypeOK
<1>4. QED
  BY <1>1, <1>2, <1>3, PTL DEF MemSpec

\* The email channel is at a mail of the mailbox, with some of its items left.
LEMMA EmailTypesHold == EmailSpec => []EmailTypeOK
<1> DEFINE Typed == mapped \subseteq Senders /\ reading \in 0..MailCount /\ itemsLeft \in 0..MaxItems
<1>1. EmailInit => Typed
  BY EmailAssumption DEF EmailInit
<1>2. ASSUME BridgeInv, Typed, [EmailNext]_emailVars
      PROVE  Typed'
  <2> USE <1>2
  <2>1. CASE UNCHANGED emailVars
    BY <2>1 DEF emailVars
  <2>2. ASSUME NEW s \in Senders, MapSender(s)
        PROVE  Typed'
    BY <2>2 DEF MapSender
  <2>3. CASE RunStarts
    BY <2>3, EmailAssumption DEF RunStarts
  <2>4. ASSUME Proceeds, stage # "idle"
        PROVE  reading' \in 0..MailCount
    BY <2>4, EmailAssumption DEF Proceeds, BridgeInv, Mails
  <2>5. CASE Refuses
    BY <2>4, <2>5 DEF Refuses
  <2>6. CASE Admits
    BY <2>6 DEF Admits
  <2>7. ASSUME NEW n \in 0..MaxItems, CapturesMail(n)
        PROVE  Typed'
    BY <2>7 DEF CapturesMail
  <2>8. CASE ProposesItem
    BY <2>8, EmailAssumption DEF ProposesItem
  <2>9. CASE Processed
    BY <2>4, <2>9 DEF Processed
  <2>10. CASE RunDies
    BY <2>10, EmailAssumption DEF RunDies
  <2>11. QED
    BY <2>1, <2>2, <2>3, <2>5, <2>6, <2>7, <2>8, <2>9, <2>10 DEF EmailNext
<1>3. BridgeInv /\ Typed => EmailTypeOK
  BY DEF BridgeInv, GatesHold, Admitted, EmailTypeOK
<1>4. QED
  BY <1>1, <1>2, <1>3, BridgeInvHolds, PTL DEF EmailSpec

\* The rows of the gaps have the shape of the table, and the outbox names gaps.
LEMMA ProvTypesHold == ProvSpec => []ProvTypeOK
<1> DEFINE Typed == /\ changed \subseteq Effects
                    /\ remembered \subseteq {RecordOf[e] : e \in Effects}
                    /\ gapEvents \in Seq(DOMAIN gap)
<1>1. ProvInit => Typed
  BY DEF ProvInit
<1>2. ASSUME ProvInv, Typed, [ProvNext]_provVars
      PROVE  Typed'
  <2> USE <1>2
  <2>1. CASE UNCHANGED provVars
    BY <2>1 DEF provVars
  <2>2. ASSUME NEW e \in Effects, Changes(e)
        PROVE  Typed'
    BY <2>2 DEF Changes
  <2>3. ASSUME NEW e \in Effects, Remembers(RecordOf[e])
        PROVE  Typed'
    BY <2>3 DEF Remembers
  <2>4. ASSUME NEW d \in Detectors, Lists(d) \/ Recalls(d) \/ RecordSearch(d) \/ DetectorEnds(d)
        PROVE  Typed'
    BY <2>4 DEF Lists, Recalls, RecordSearch, DetectorEnds
  <2>5. ASSUME NEW d \in Detectors, RecordInsert(d)
        PROVE  Typed'
    <3>1. DOMAIN gap \subseteq DOMAIN gap'
      BY <2>5, GapInserted
    <3>2. gapEvents \in Seq(DOMAIN gap')
      BY <3>1
    <3>3. QED
      BY <2>5, <3>2 DEF RecordInsert
  <2>6. ASSUME NEW g \in DOMAIN gap, NEW ref \in Refs \cup {NoRef},
               NEW s \in {"explained", "dismissed"}, ResolveGap(g, s, ref)
        PROVE  Typed'
    <3>1. DOMAIN gap' = DOMAIN gap
      BY <2>6, GapResolved
    <3>2. UNCHANGED <<changed, remembered>> /\ gapEvents' \in {gapEvents, Append(gapEvents, g)}
      BY <2>6 DEF ResolveGap
    <3>3. QED
      BY <3>1, <3>2
  <2>7. QED
    BY <2>1, <2>2, <2>3, <2>4, <2>5, <2>6 DEF ProvNext
<1>3. ProvInv /\ Typed => ProvTypeOK
  BY DEF ProvInv, Gaps, ProvTypeOK
<1>4. QED
  BY <1>1, <1>2, <1>3, ProvInvHolds, PTL DEF ProvSpec

Requests == [operation : Operations, params : Params,
             status : {"pending", "executed", "failed", "denied", "torn"}]

Forms == [id : Ids, operation : Operations, params : Params]

\* What a thread of the shim holds while it handles a decision.
Decisions == [at : {"execute", "save"}, id : Ids, typed : Operations, loaded : Requests,
              outcome : {"executed", "failed", "denied"}]

\* The requests, the forms, the decisions and the executions are what the
\* files, the pages, the threads and the commands say they are.
LEMMA AdminTypesHold == AdminSpec => []AdminTypeOK
<1> DEFINE Typed == /\ DOMAIN queue \subseteq Ids
                    /\ \A i \in DOMAIN queue : queue[i] \in Requests
                    /\ seen \subseteq Forms
                    /\ decision \in [Pages -> {NoDecision} \cup Decisions]
                    /\ ran \subseteq [id : Ids, operation : Operations, params : Params, typed : Operations]
<1>1. AdminInit => Typed
  BY DEF AdminInit
<1>2. ASSUME QueueInv, Typed, [AdminNext]_adminVars
      PROVE  Typed'
  <2> USE <1>2
  <2>1. CASE UNCHANGED adminVars
    BY <2>1 DEF adminVars
  <2>2. ASSUME NEW op \in Operations, NEW x \in Params, NEW whole \in BOOLEAN,
               AdminRequest(op, x, whole)
        PROVE  Typed'
    <3> DEFINE r == [operation |-> op, params |-> x, status |-> IF whole THEN "pending" ELSE "torn"]
    <3>1. NextId \in Ids /\ queue' = Written(NextId, r) /\ UNCHANGED <<seen, decision, ran>>
      BY <2>2 DEF AdminRequest
    <3>2. r \in Requests
      BY DEF Requests
    <3>3. DOMAIN queue' \subseteq Ids /\ \A i \in DOMAIN queue' : queue'[i] \in Requests
      BY <3>1, <3>2 DEF Written
    <3>4. QED
      BY <3>1, <3>3
  <2>3. CASE OpensPage
    <3>1. \A i \in DOMAIN queue : Shown(i) \in Forms
      BY DEF Shown, Requests, Forms
    <3>2. QED
      BY <2>3, <3>1 DEF OpensPage
  <2>4. ASSUME NEW p \in Pages, NEW f \in seen, NEW approve \in BOOLEAN, NEW typed \in Operations,
               Decides(p, f, approve, typed)
        PROVE  Typed'
    <3> DEFINE d == [at |-> IF approve THEN "execute" ELSE "save", id |-> f.id, typed |-> typed,
                     loaded |-> queue[f.id], outcome |-> "denied"]
    <3>1. d \in Decisions
      BY <2>4 DEF Decides, Decisions
    <3>2. decision' = [decision EXCEPT ![p] = d] /\ UNCHANGED <<queue, seen, ran>>
      BY <2>4 DEF Decides
    <3>3. QED
      BY <3>1, <3>2
  <2>5. ASSUME NEW p \in Pages, NEW ok \in BOOLEAN, Executes(p, ok)
        PROVE  Typed'
    <3> DEFINE d == [decision[p] EXCEPT !.at = "save", !.outcome = IF ok THEN "executed" ELSE "failed"]
               r == [id |-> decision[p].id, operation |-> decision[p].loaded.operation,
                     params |-> decision[p].loaded.params, typed |-> decision[p].typed]
    <3>1. decision[p] \in Decisions
      BY <2>5 DEF Executes, NoDecision
    <3>2. d \in Decisions
      BY <3>1 DEF Decisions
    <3>3. r \in [id : Ids, operation : Operations, params : Params, typed : Operations]
      BY <3>1 DEF Decisions, Requests
    <3>4. /\ decision' = [decision EXCEPT ![p] = d] /\ ran' = ran \cup {r}
          /\ UNCHANGED <<queue, seen>>
      BY <2>5 DEF Executes, Execution
    <3>5. QED
      BY <3>2, <3>3, <3>4
  <2>6. ASSUME NEW p \in Pages, Saves(p)
        PROVE  Typed'
    <3> DEFINE r == [decision[p].loaded EXCEPT !.status = decision[p].outcome]
    <3>1. decision[p] \in Decisions
      BY <2>6 DEF Saves, NoDecision
    <3>2. r \in Requests /\ decision[p].id \in Ids
      BY <3>1 DEF Decisions, Requests
    <3>3. /\ queue' = Written(decision[p].id, r) /\ decision' = [decision EXCEPT ![p] = NoDecision]
          /\ UNCHANGED <<seen, ran>>
      BY <2>6 DEF Saves
    <3>4. DOMAIN queue' \subseteq Ids /\ \A i \in DOMAIN queue' : queue'[i] \in Requests
      BY <3>2, <3>3 DEF Written
    <3>5. QED
      BY <3>3, <3>4
  <2>7. ASSUME NEW T \in SUBSET Ids, ShimStops(T)
        PROVE  Typed'
    <3>1. \A i \in DOMAIN queue : [queue[i] EXCEPT !.status = "torn"] \in Requests
      BY DEF Requests
    <3>2. DOMAIN queue' \subseteq Ids /\ \A i \in DOMAIN queue' : queue'[i] \in Requests
      BY <2>7, <3>1 DEF ShimStops
    <3>3. QED
      BY <2>7, <3>2 DEF ShimStops
  <2>8. ASSUME NEW p \in Pages, ExecutionRaises(p)
        PROVE  Typed'
    <3> DEFINE r == Execution(p)
    <3>1. decision[p] \in Decisions
      BY <2>8 DEF ExecutionRaises, NoDecision
    <3>2. r \in [id : Ids, operation : Operations, params : Params, typed : Operations]
      BY <3>1 DEF Execution, Decisions, Requests
    <3>3. /\ decision' = [decision EXCEPT ![p] = NoDecision] /\ ran' \subseteq ran \cup {r}
          /\ UNCHANGED <<queue, seen>>
      BY <2>8 DEF ExecutionRaises
    <3> HIDE DEF r
    <3>4. QED
      BY <3>2, <3>3
  <2>9. QED
    BY <2>1, <2>2, <2>3, <2>4, <2>5, <2>6, <2>7, <2>8 DEF AdminNext
<1>3. ASSUME QueueInv, Typed
      PROVE  AdminTypeOK
  <2>1. PICK n \in Nat : DOMAIN queue = 1..n
    BY <1>3 DEF QueueInv
  <2>2. Cardinality(1..n) = n
    BY FS_Interval
  <2>3. \A p \in Pages : decision[p].at \in {"none", "execute", "save"}
    BY <1>3 DEF NoDecision, Decisions
  <2>4. QED
    BY <1>3, <2>1, <2>2, <2>3 DEF Requests, Forms, AdminTypeOK
<1>4. QED
  BY <1>1, <1>2, <1>3, QueueInvHolds, PTL DEF AdminSpec

\* A digest under way.
UnderWay == [at : 1..6, mark : BOOLEAN, sent : SUBSET Elements, fresh : SUBSET Elements]

\* Every report names elements.
LEMMA ReportsNameElements ==
  ASSUME term \in [Commitments -> Dates \cup {NoDate}],
         NEW n \in 1..4, NEW degraded \in BOOLEAN
  PROVE  Report(n, degraded) \subseteq Elements
<1>1. {Sections[i] : i \in DOMAIN Sections}
        = {"due_soon", "commitments_missing", "stale_questions", "external_recurring"}
  BY FourSections DEF Sections
<1>2. DueSoon(degraded) \subseteq Elements
  BY <1>1 DEF DueSoon, Open, Element, Elements
<1>3. CommitmentsMissing(degraded) \subseteq Elements
  BY <1>1 DEF CommitmentsMissing, Open, Element, Elements
<1>4. StaleQuestions \subseteq Elements
  BY <1>1 DEF StaleQuestions, Element, Elements
<1>5. ExternalRecurring \subseteq Elements
  BY <1>1 DEF ExternalRecurring, Element, Elements
<1>6. n = 1 \/ n = 2 \/ n = 3 \/ n = 4
  OBVIOUS
<1>7. QED
  BY <1>2, <1>3, <1>4, <1>5, <1>6 DEF Report

\* The digests are at one of their steps and hold elements of reports.
LEMMA DigestTypesHold == DigestSpec => []DigestTypeOK
<1> DEFINE Typed == /\ term \in [Commitments -> Dates \cup {NoDate}]
                    /\ owned \subseteq Commitments /\ closed \subseteq Commitments
                    /\ active \subseteq Commitments \cup Questions \cup Strangers
                    /\ edits \in 0..MaxEdits
                    /\ sent \subseteq Elements
                    /\ digest \in [Digests -> {Ended} \cup UnderWay]
                    /\ script \subseteq Digests
                    /\ delivered \in Seq(SUBSET Elements)
<1>1. DigestInit => Typed
  BY DigestAssumption DEF DigestInit
<1>2. ASSUME Typed, [DigestNext]_digestVars
      PROVE  Typed'
  <2> USE <1>2
  <2>1. CASE UNCHANGED digestVars
    BY <2>1 DEF digestVars
  <2>2. CASE MemoryChanges
    <3>1. edits' \in 0..MaxEdits
      BY <2>2, DigestAssumption DEF MemoryChanges
    <3>2. UNCHANGED <<sent, digest, script, delivered>>
      BY <2>2 DEF MemoryChanges
    <3>3. /\ term' \in [Commitments -> Dates \cup {NoDate}]
          /\ owned' \subseteq Commitments /\ closed' \subseteq Commitments
          /\ active' \subseteq Commitments \cup Questions \cup Strangers
      BY <2>2 DEF MemoryChanges
    <3>4. QED
      BY <3>1, <3>2, <3>3
  <2>3. ASSUME NEW d \in Digests, NEW mark \in BOOLEAN, Begins(d, mark)
        PROVE  Typed'
    <3> DEFINE b == [at |-> 1, mark |-> mark, sent |-> sent, fresh |-> {}]
    <3>1. b \in UnderWay
      BY DEF UnderWay
    <3>2. /\ digest' = [digest EXCEPT ![d] = b] /\ script' \subseteq Digests
          /\ UNCHANGED <<memoryVars, sent, delivered>>
      BY <2>3 DEF Begins
    <3>3. QED
      BY <3>1, <3>2 DEF memoryVars
  <2>4. ASSUME NEW d \in Digests, NEW degraded \in BOOLEAN, ReadsSection(d, degraded)
        PROVE  Typed'
    <3> DEFINE fresh == digest[d].fresh \cup (Report(digest[d].at, degraded) \ digest[d].sent)
               b == [digest[d] EXCEPT !.at = digest[d].at + 1, !.fresh = fresh]
    <3>1. digest[d].at \in 1..4 /\ digest[d] \in UnderWay
      BY <2>4, FourSections DEF ReadsSection, Ended
    <3>2. Report(digest[d].at, degraded) \subseteq Elements
      BY <3>1, ReportsNameElements
    <3>3. b \in UnderWay
      <4>1. fresh \in SUBSET Elements
        BY <3>1, <3>2 DEF UnderWay
      <4>2. digest[d].at + 1 \in 1..6
        BY <3>1
      <4> HIDE DEF fresh
      <4>3. QED
        BY <3>1, <4>1, <4>2 DEF UnderWay
    <3>4. digest' = [digest EXCEPT ![d] = b] /\ UNCHANGED <<memoryVars, sent, script, delivered>>
      BY <2>4 DEF ReadsSection
    <3>5. QED
      BY <3>3, <3>4 DEF memoryVars
  <2>5. ASSUME NEW d \in Digests, Marks(d)
        PROVE  Typed'
    <3> DEFINE b == [digest[d] EXCEPT !.at = digest[d].at + 1]
    <3>1. digest[d].at = 5 /\ digest[d] \in UnderWay
      BY <2>5, FourSections DEF Marks, Ended
    <3>2. b \in UnderWay /\ digest[d].fresh \subseteq Elements
      BY <3>1 DEF UnderWay
    <3>3. /\ digest' = [digest EXCEPT ![d] = b] /\ sent' \in {sent, sent \cup digest[d].fresh}
          /\ UNCHANGED <<memoryVars, script, delivered>>
      BY <2>5 DEF Marks
    <3>4. QED
      BY <3>2, <3>3 DEF memoryVars
  <2>6. ASSUME NEW d \in Digests, DigestAnswers(d)
        PROVE  Typed'
    <3>1. digest[d] \in UnderWay
      BY <2>6, FourSections DEF DigestAnswers, Ended
    <3>2. digest[d].fresh \in SUBSET Elements
      BY <3>1 DEF UnderWay
    <3>3. /\ digest' = [digest EXCEPT ![d] = Ended] /\ UNCHANGED <<memoryVars, sent>>
          /\ script' \subseteq script /\ delivered' \in {delivered, Append(delivered, digest[d].fresh)}
      BY <2>6 DEF DigestAnswers
    <3>4. QED
      BY <3>2, <3>3 DEF memoryVars
  <2>7. CASE ScriptGivesUp
    BY <2>7 DEF ScriptGivesUp, memoryVars
  <2>8. ASSUME NEW d \in Digests, DigestDies(d)
        PROVE  Typed'
    BY <2>8 DEF DigestDies, memoryVars
  <2>9. QED
    BY <2>1, <2>2, <2>3, <2>4, <2>5, <2>6, <2>7, <2>8 DEF DigestNext
<1>3. ASSUME DigestInv, Typed
      PROVE  DigestTypeOK
  <2>1. Cardinality(script) <= 1
    BY <1>3, AtMostOne DEF DigestInv
  <2>2. QED
    BY <1>3, <2>1 DEF DigestTypeOK, UnderWay
<1>4. QED
  BY <1>1, <1>2, <1>3, DigestInvHolds, PTL DEF DigestSpec

Entities == [role : Roles, hint : Types \cup {NoHint}]

Fates == {Nothing, Outside} \cup
  [to : {"anchor"}, type : Types, confidence : Scores, review : BOOLEAN]

\* The entities of the model become a role of the three and a hint of the inventory.
LEMMA NormalisedEntities ==
  ASSUME NEW kind, NEW n \in Nat, NEW raw \in [1..n -> RawEntities]
  PROVE  Normalised(kind, raw) \in Seq(Entities)
<1>1. ASSUME NEW i \in 1..n
      PROVE  Normalised(kind, raw)[i] \in Entities
  <2>1. raw[i].role \in Roles /\ NormalRole(kind, raw, i) \in Roles
    BY <1>1 DEF RawEntities, Roles, NormalRole
  <2>2. QED
    BY <1>1, <2>1 DEF Normalised, Entities
<1>2. Normalised(kind, raw) \in [1..n -> Entities]
  BY <1>1 DEF Normalised
<1>3. QED
  BY <1>2

\* What an entity becomes once Odoo found candidates of these types.
LEMMA OutcomesAreFates ==
  ASSUME NEW i, candidates[i] \subseteq Types
  PROVE  Outcomes(i) \subseteq Fates
<1>1. ASSUME NEW t \in Types, NEW s \in Scores
      PROVE  Resolved(i, t, s) \in Fates
  BY <1>1 DEF Resolved, Fates
<1>2. QED
  BY <1>1 DEF Outcomes, Fates

\* An item is at one of its steps, its entities, candidates and anchors are
\* what the inventory of types allows.
LEMMA AnchoringTypesHold == AnchoringSpec => []AnchoringTypeOK
<1> DEFINE Typed == /\ item.at # "extract" => item.kind \in Kinds
                    /\ entity \in Seq(Entities)
                    /\ \A i \in DOMAIN candidates : candidates[i] \subseteq Types
                    /\ \A i \in DOMAIN resolution : resolution[i] \in Fates
<1>1. AnchoringInit => Typed
  BY DEF AnchoringInit
<1>2. ASSUME AnchoringInv, Typed, [AnchoringNext]_anchoringVars
      PROVE  Typed'
  <2> USE <1>2
  <2>1. CASE UNCHANGED anchoringVars
    BY <2>1 DEF anchoringVars
  <2>2. ASSUME NEW kind \in Kinds, NEW n \in 0..MaxEntities, NEW raw \in [1..n -> RawEntities],
               Extracts(kind, raw)
        PROVE  Typed'
    <3>1. n \in Nat
      BY AnchoringAssumption
    <3>2. Normalised(kind, raw) \in Seq(Entities)
      BY <3>1, NormalisedEntities
    <3>3. QED
      BY <2>2, <3>2 DEF Extracts
  <2>3. ASSUME NEW found \in [DOMAIN entity -> SUBSET Types], Searches(found)
        PROVE  Typed'
    BY <2>3 DEF Searches, AnchoringInv
  <2>4. CASE Rescores \/ RescoreInvalid
    <3>1. /\ item.at = "score" /\ item' = [item EXCEPT !.at = "insert"]
          /\ UNCHANGED <<entity, candidates>>
      BY <2>4 DEF Rescores, RescoreInvalid
    <3>2. item'.kind = item.kind
      BY <3>1
    <3>3. candidates \in [DOMAIN entity -> SUBSET Types]
      BY <3>1 DEF AnchoringInv
    <3>4. \A i \in DOMAIN resolution' : resolution'[i] \in Fates
      <4>1. CASE Rescores
        BY <3>3, <4>1, OutcomesAreFates DEF Rescores
      <4>2. CASE RescoreInvalid
        BY <4>2 DEF RescoreInvalid, Fates
      <4>3. QED
        BY <2>4, <4>1, <4>2
    <3>5. QED
      BY <3>1, <3>2, <3>4
  <2>5. CASE Inserts
    <3>1. item.at = "insert" /\ item'.kind = item.kind /\ UNCHANGED <<entity, candidates, resolution>>
      BY <2>5 DEF Inserts
    <3>2. QED
      BY <3>1
  <2>6. CASE NextItem
    BY <2>6 DEF NextItem
  <2>7. QED
    BY <2>1, <2>2, <2>3, <2>4, <2>5, <2>6 DEF AnchoringNext
<1>3. AnchoringInv /\ Typed => AnchoringTypeOK
  BY DEF AnchoringInv, AnchoringTypeOK, Entities, Fates
<1>4. QED
  BY <1>1, <1>2, <1>3, AnchoringInvHolds, PTL DEF AnchoringSpec

\* What a list of items is: each has a place of its own, at most n.
List(list, n) ==
  /\ DOMAIN list \subseteq Items
  /\ list \in [DOMAIN list -> 1..n]
  /\ \A i, j \in DOMAIN list : list[i] = list[j] => i = j

\* There are finitely many items.
LEMMA SomeItems ==
  ASSUME NEW S \in SUBSET Items
  PROVE  IsFiniteSet(S) /\ Cardinality(S) \in Nat
<1>1. ItemCount \in Nat
  BY RecallAssumption
<1>2. IsFiniteSet(1..ItemCount)
  BY <1>1, FS_Interval
<1>3. IsFiniteSet(S)
  BY <1>2, FS_Subset DEF Items
<1>4. QED
  BY <1>3, FS_CardinalityType

\* Of some natural numbers up to n one is the largest.
LEMMA LargestOfBounded ==
  ASSUME NEW n \in Nat, NEW S \in SUBSET (0..n), S # {}
  PROVE  \E x \in S : \A y \in S : y <= x
<1> DEFINE D == {n - x : x \in S}
<1>1. D \in SUBSET Nat /\ D # {}
  <2>1. \A x \in S : n - x \in Nat
    OBVIOUS
  <2>2. QED
    BY <2>1
<1> HIDE DEF D
<1>2. PICK d \in D : \A e \in D : ~ (<<e, d>> \in OpToRel(<, Nat))
  BY <1>1, NatLessThanWellFounded, WFMin
<1>3. PICK x \in S : d = n - x
  BY <1>2 DEF D
<1>4. ASSUME NEW y \in S
      PROVE  y <= x
  <2>1. n - y \in D /\ n - x \in D
    BY <1>3 DEF D
  <2>2. ~ (n - y < n - x)
    BY <1>1, <1>2, <1>3, <2>1 DEF OpToRel
  <2>3. QED
    BY <2>2
<1>5. QED
  BY <1>4

\* The items in the first places are at most as many as the places.
LEMMA LeadingAreFew ==
  ASSUME NEW n \in Nat, NEW m \in Nat, NEW list, List(list, m)
  PROVE  /\ Leading(list, n) \in SUBSET Items
         /\ Cardinality(Leading(list, n)) <= n
<1> DEFINE L == Leading(list, n)
           f == [i \in L |-> list[i]]
<1>1. L \in SUBSET Items
  BY DEF List, Leading
<1>2. f \in [L -> 1..n]
  BY DEF List, Leading
<1>3. \A i, j \in L : f[i] = f[j] => i = j
  BY DEF List, Leading
<1>4. f \in Injection(L, 1..n)
  BY <1>2, <1>3 DEF Injection, IsInjective
<1>5. IsFiniteSet(1..n) /\ Cardinality(1..n) = n
  BY FS_Interval
<1> HIDE DEF f, L
<1>6. Cardinality(L) <= Cardinality(1..n)
  BY <1>4, <1>5, FS_Injection
<1>7. QED
  BY <1>1, <1>5, <1>6 DEF L

\* The newest first is a list.
LEMMA NewestFirstIsList ==
  ASSUME NEW S \in SUBSET Items
  PROVE  List(NewestFirst(S), Cardinality(S) + 1)
<1> DEFINE newer(i) == {j \in S : j > i}
<1>1. S \subseteq Nat
  BY RecallAssumption DEF Items
<1>2. IsFiniteSet(S) /\ Cardinality(S) \in Nat
  BY SomeItems
<1>3. ASSUME NEW i \in S
      PROVE  /\ IsFiniteSet(newer(i)) /\ Cardinality(newer(i)) \in Nat
             /\ Cardinality(newer(i)) <= Cardinality(S)
  <2>1. newer(i) \in SUBSET S
    OBVIOUS
  <2>2. IsFiniteSet(newer(i)) /\ Cardinality(newer(i)) <= Cardinality(S)
    BY <1>2, <2>1, FS_Subset
  <2>3. QED
    BY <2>2, FS_CardinalityType
<1>4. ASSUME NEW i \in S, NEW j \in S, i < j
      PROVE  Cardinality(newer(i)) # Cardinality(newer(j))
  <2>1. newer(j) \in SUBSET newer(i) /\ j \in newer(i) /\ j \notin newer(j)
    <3>1. \A k \in S : k > j => k > i
      BY <1>1, <1>4
    <3>2. j > i /\ ~ (j > j)
      BY <1>1, <1>4
    <3>3. QED
      BY <3>1, <3>2
  <2> HIDE DEF newer
  <2>2. QED
    BY <1>3, <2>1, FS_Subset
<1>5. NewestFirst(S) \in [S -> 1..(Cardinality(S) + 1)]
  <2>1. ASSUME NEW i \in S
        PROVE  Cardinality(newer(i)) + 1 \in 1..(Cardinality(S) + 1)
    <3> HIDE DEF newer
    <3>1. QED
      BY <1>2, <1>3
  <2>2. QED
    BY <2>1 DEF NewestFirst
<1>6. ASSUME NEW i \in S, NEW j \in S, NewestFirst(S)[i] = NewestFirst(S)[j]
      PROVE  i = j
  <2>1. Cardinality(newer(i)) + 1 = Cardinality(newer(j)) + 1
    BY <1>6 DEF NewestFirst
  <2>2. Cardinality(newer(i)) = Cardinality(newer(j))
    <3> HIDE DEF newer
    <3>1. QED
      BY <1>3, <2>1
  <2>3. ~ (i < j) /\ ~ (j < i)
    <3> HIDE DEF newer
    <3>1. QED
      BY <1>4, <2>2
  <2>4. QED
    BY <1>1, <2>3
<1>7. QED
  BY <1>5, <1>6 DEF List

\* The structural items are a list.
LEMMA StructuralIsList ==
  ASSUME NEW R, recallable \subseteq Items
  PROVE  \E n \in Nat : List(Structural(R), n)
<1> DEFINE S == {i \in recallable : AnchorOf[i] \in R}
           n == Cardinality(S) + 1
<1>1. S \in SUBSET Items
  OBVIOUS
<1> HIDE DEF S
<1>2. List(NewestFirst(S), n)
  BY <1>1, NewestFirstIsList
<1>3. n \in Nat
  BY <1>1, SomeItems
<1> DEFINE found == NewestFirst(S)
           structural == Restrict(found, Leading(found, StructLimit))
<1>4. Structural(R) = structural
  BY DEF Structural, S
<1> HIDE DEF found, n
<1>5. List(structural, n)
  BY <1>2 DEF List, Restrict, Leading, found
<1>6. QED
  BY <1>3, <1>4, <1>5

\* A ranking of active items is a list.
LEMMA RankingIsList ==
  ASSUME NEW semantic \in Rankings, recallable \subseteq Items
  PROVE  \E n \in Nat : List(semantic, n)
<1>1. PICK S \in SUBSET recallable : semantic \in Bijection(S, 1..Cardinality(S))
  BY DEF Rankings
<1>2. Cardinality(S) \in Nat
  BY SomeItems
<1>3. List(semantic, Cardinality(S))
  BY <1>1 DEF Bijection, Injection, IsInjective, List
<1>4. QED
  BY <1>2, <1>3

\* Adding up to TopK adds nothing, or stops at TopK.
LEMMA AddingStops ==
  ASSUME NEW chosen \in SUBSET Items, NEW n \in Nat, NEW list, List(list, n)
  PROVE  /\ AddUpToTopK(chosen, list) \in SUBSET Items
         /\ \/ AddUpToTopK(chosen, list) = chosen
            \/ Cardinality(AddUpToTopK(chosen, list)) <= TopK
<1> DEFINE before(i) == chosen \cup Leading(list, list[i] - 1)
           J == {i \in DOMAIN list : Cardinality(before(i)) < TopK}
           places == {list[i] : i \in J}
<1>1. AddUpToTopK(chosen, list) = chosen \cup J /\ J \in SUBSET Items
  BY DEF AddUpToTopK, List
<1>2. CASE J = {}
  BY <1>1, <1>2
<1>3. CASE J # {}
  <2>1. places \in SUBSET (0..n) /\ places # {}
    <3>1. \A i \in DOMAIN list : list[i] \in 0..n
      BY DEF List
    <3>2. J \subseteq DOMAIN list
      OBVIOUS
    <3> HIDE DEF J
    <3>3. QED
      BY <1>3, <3>1, <3>2
  <2> HIDE DEF places
  <2>2. PICK x \in places : \A y \in places : y <= x
    BY <2>1, LargestOfBounded
  <2>3. PICK k \in J : list[k] = x
    BY <2>2 DEF places
  <2>4. \A i \in J : list[i] <= list[k]
    BY <2>2, <2>3 DEF places
  <2>5. k \in Items /\ before(k) \in SUBSET Items /\ Cardinality(before(k)) < TopK
    BY <1>1, <2>3 DEF List, Leading
  <2>6. \A i \in J : i = k \/ list[i] <= list[k] - 1
    BY <2>3, <2>4 DEF List
  <2>7. chosen \cup J \subseteq before(k) \cup {k}
    BY <2>6 DEF Leading
  <2> HIDE DEF before, J
  <2>8. IsFiniteSet(before(k)) /\ Cardinality(before(k)) \in Nat
    BY <2>5, SomeItems
  <2>9. /\ IsFiniteSet(before(k) \cup {k})
        /\ Cardinality(before(k) \cup {k}) \in {Cardinality(before(k)), Cardinality(before(k)) + 1}
    BY <2>8, FS_AddElement
  <2>10. Cardinality(chosen \cup J) <= Cardinality(before(k) \cup {k})
    BY <2>7, <2>9, FS_Subset
  <2>11. Cardinality(chosen \cup J) \in Nat
    BY <1>1, SomeItems
  <2>12. TopK \in Nat
    BY RecallAssumption
  <2>13. Cardinality(chosen \cup J) <= TopK
    BY <2>5, <2>8, <2>9, <2>10, <2>11, <2>12
  <2>14. QED
    BY <1>1, <2>13
<1>4. QED
  BY <1>2, <1>3

\* What is merged fits in the context, or in the slots where these are more.
LEMMA MergedFits ==
  ASSUME recallable \subseteq Items, NEW R, NEW semantic \in Rankings
  PROVE  LET chosen == Merged(Structural(R), semantic)
         IN /\ chosen \subseteq Items
            /\ Cardinality(chosen) <= TopK \/ Cardinality(chosen) <= StructSlots
<1> DEFINE structural == Structural(R)
           slots == Leading(structural, StructSlots)
           more == AddUpToTopK(slots, semantic)
<1>1. PICK n \in Nat : List(structural, n)
  BY StructuralIsList
<1>2. PICK m \in Nat : List(semantic, m)
  BY RankingIsList
<1>3. StructSlots \in Nat
  BY RecallAssumption
<1> HIDE DEF structural
<1>4. slots \in SUBSET Items /\ Cardinality(slots) <= StructSlots
  BY <1>1, <1>3, LeadingAreFew
<1> HIDE DEF slots
<1>5. more \in SUBSET Items /\ (more = slots \/ Cardinality(more) <= TopK)
  BY <1>2, <1>4, AddingStops
<1> HIDE DEF more
<1>6. /\ AddUpToTopK(more, structural) \in SUBSET Items
      /\ \/ AddUpToTopK(more, structural) = more
         \/ Cardinality(AddUpToTopK(more, structural)) <= TopK
  BY <1>1, <1>5, AddingStops
<1>7. Merged(Structural(R), semantic) = AddUpToTopK(more, structural)
  BY DEF Merged, more, slots, structural
<1>8. QED
  BY <1>4, <1>5, <1>6, <1>7

\* A session keeps its last turns.
LEMMA LastTurns ==
  ASSUME NEW T, NEW t \in Seq(T), t # <<>>, Len(t) <= SessionTurns + 1
  PROVE  LET last == SubSeq(t, Max({1, Len(t) - SessionTurns + 1}), Len(t))
         IN last \in Seq(T) /\ Len(last) <= SessionTurns
<1> DEFINE from == Len(t) - SessionTurns + 1
<1>1. SessionTurns \in Nat /\ Len(t) \in Nat /\ Len(t) >= 1
  BY RecallAssumption
<1>2. from \in Int /\ from <= 2
  BY <1>1
<1>3. Max({1, from}) \in {1, from} /\ \A x \in {1, from} : x <= Max({1, from})
  <2>1. \E x \in {1, from} : \A y \in {1, from} : y <= x
    <3>1. CASE from <= 1
      BY <1>2, <3>1
    <3>2. CASE ~ (from <= 1)
      BY <1>2, <3>2
    <3>3. QED
      BY <3>1, <3>2
  <2>2. Max({1, from}) = CHOOSE x \in {1, from} : \A y \in {1, from} : x >= y
    BY DEF Max
  <2> HIDE DEF from
  <2>3. \E x \in {1, from} : \A y \in {1, from} : x >= y
    BY <2>1, <1>2
  <2>4. QED
    BY <1>2, <2>2, <2>3
<1> DEFINE m == Max({1, from})
<1>4. m \in 1..2 /\ m >= from
  BY <1>2, <1>3
<1> HIDE DEF m
<1>5. SubSeq(t, m, Len(t)) \in Seq(T) /\ Len(SubSeq(t, m, Len(t))) = Len(t) - m + 1
  BY <1>1, <1>4
<1>6. Len(t) - m + 1 <= SessionTurns
  BY <1>1, <1>4
<1>7. QED
  BY <1>5, <1>6 DEF m

\* The values of Odoo that a turn rests on.
Readings == SUBSET (Subjects \X FieldValues)

\* A question holds items of the memory, no more than fit in the context.
LEMMA RecallTypesHold == RecallSpec => []RecallTypeOK
<1> DEFINE Typed == /\ live \in [Subjects -> FieldValues \cup {Gone}]
                    /\ recallable \subseteq Items
                    /\ changes \in 0..MaxChanges
                    /\ during \in [Subjects -> SUBSET (FieldValues \cup {Gone})]
                    /\ question.at = "read" =>
                         /\ question.chosen \subseteq Items
                         /\ \/ Cardinality(question.chosen) <= TopK
                            \/ Cardinality(question.chosen) <= StructSlots
                    /\ turns \in Seq(Readings) /\ Len(turns) <= SessionTurns
                    /\ \A c \in answer : c.status \in {"fact", "hypothesis"}
<1>1. RecallInit => Typed
  BY RecallAssumption DEF RecallInit, NoQuestion
<1>2. ASSUME RecallInv, Typed, [RecallNext]_recallVars
      PROVE  Typed'
  <2> USE <1>2
  <2>1. CASE UNCHANGED recallVars
    BY <2>1 DEF recallVars
  <2>2. ASSUME NEW r \in Subjects, NEW v \in FieldValues \cup {Gone}, OdooChanges(r, v)
        PROVE  Typed'
    <3>1. changes' \in 0..MaxChanges
      BY <2>2, RecallAssumption DEF OdooChanges
    <3>2. /\ live' \in [Subjects -> FieldValues \cup {Gone}]
          /\ during' \in [Subjects -> SUBSET (FieldValues \cup {Gone})]
      BY <2>2 DEF OdooChanges
    <3>3. UNCHANGED <<recallable, question, turns, answer>>
      BY <2>2 DEF OdooChanges
    <3>4. QED
      BY <3>1, <3>2, <3>3
  <2>3. ASSUME NEW i \in Items, Withdraws(i)
        PROVE  Typed'
    <3>1. changes' \in 0..MaxChanges
      BY <2>3, RecallAssumption DEF Withdraws
    <3>2. QED
      BY <2>3, <3>1 DEF Withdraws
  <2>4. ASSUME NEW R \in SUBSET Subjects, Asked(R)
        PROVE  Typed'
    BY <2>4 DEF Asked
  <2>5. ASSUME NEW semantic \in Rankings, Merges(semantic)
        PROVE  Typed'
    <3> DEFINE chosen == Merged(Structural(question.records), semantic)
    <3>1. /\ chosen \subseteq Items
          /\ Cardinality(chosen) <= TopK \/ Cardinality(chosen) <= StructSlots
      BY MergedFits
    <3>2. /\ question'.chosen = chosen
          /\ UNCHANGED <<live, recallable, changes, during, turns, answer>>
      BY <2>5 DEF Merges
    <3> HIDE DEF chosen
    <3>3. QED
      BY <3>1, <3>2
  <2>6. ASSUME NEW r \in Subjects, NEW ok \in BOOLEAN, ReadsLive(r, ok)
        PROVE  Typed'
    <3>1. /\ question.at = "read" /\ question'.chosen = question.chosen
          /\ UNCHANGED <<live, recallable, changes, during, turns, answer>>
      BY <2>6 DEF ReadsLive, RecallInv
    <3>2. QED
      BY <3>1
  <2>7. ASSUME NEW cited \in SUBSET (Subjects \X FieldValues), NEW items \in SUBSET Items,
               Narrates(cited, items)
        PROVE  Typed'
    <3> DEFINE turn == UNION {c.odoo : c \in answer'}
               t == Append(turns, turn)
    <3>1. /\ answer' = Validated(cited, items) /\ question' = NoQuestion
          /\ UNCHANGED <<live, recallable, changes, during>>
          /\ turns' = SubSeq(t, Max({1, Len(t) - SessionTurns + 1}), Len(t))
      BY <2>7 DEF Narrates
    <3>2. \A c \in answer' : c.status \in {"fact", "hypothesis"} /\ c.odoo \subseteq cited
      BY <3>1 DEF Validated
    <3>3. turn \in Readings
      BY <3>2 DEF Readings
    <3> HIDE DEF turn
    <3>4. t \in Seq(Readings) /\ t # <<>> /\ Len(t) = Len(turns) + 1
      BY <3>3
    <3>5. Len(t) <= SessionTurns + 1
      BY <3>4, RecallAssumption
    <3> HIDE DEF t
    <3>6. turns' \in Seq(Readings) /\ Len(turns') <= SessionTurns
      BY <3>1, <3>4, <3>5, LastTurns
    <3>7. QED
      BY <3>1, <3>2, <3>6 DEF NoQuestion
  <2>8. CASE QuestionFails
    BY <2>8 DEF QuestionFails, NoQuestion
  <2>9. CASE RecallRestarts
    BY <2>9, RecallAssumption DEF RecallRestarts, NoQuestion
  <2>10. QED
    BY <2>1, <2>2, <2>3, <2>4, <2>5, <2>6, <2>7, <2>8, <2>9 DEF RecallNext
<1>3. RecallInv /\ Typed => RecallTypeOK
  BY DEF RecallInv, RecallTypeOK
<1>4. QED
  BY <1>1, <1>2, <1>3, RecallInvHolds, PTL DEF RecallSpec

\* Every behaviour of the organisation is one of each of its services.
LEMMA ServicesRun ==
  Spec => /\ MemSpec /\ EmailSpec /\ ProvSpec /\ AdminSpec
          /\ DigestSpec /\ AnchoringSpec /\ RecallSpec
<1>1. Init => /\ MemInit /\ EmailInit /\ ProvInit /\ AdminInit
              /\ DigestInit /\ AnchoringInit /\ RecallInit
  BY DEF Init
<1>2. [Next]_vars => /\ [MemNext]_memVars /\ [EmailNext]_emailVars /\ [ProvNext]_provVars
                     /\ [AdminNext]_adminVars /\ [DigestNext]_digestVars
                     /\ [AnchoringNext]_anchoringVars /\ [RecallNext]_recallVars
  BY DEF Next, vars, otherVars
<1>3. QED
  BY <1>1, <1>2, PTL
  DEF Spec, MemSpec, EmailSpec, ProvSpec, AdminSpec, DigestSpec, AnchoringSpec, RecallSpec

\* The types hold in every service whichever of them runs: the rows have the
\* shape of their tables, a request file is numbered without gaps, one digest
\* at most is waited for, and a question chooses no more items than RECALL_TOP_K
\* or, where they are more, RECALL_STRUCT_SLOTS.
THEOREM OrganisationTypeCorrect == Spec => []OrganisationTypeOK
  BY ServicesRun, MemTypesHold, EmailTypesHold, ProvTypesHold, AdminTypesHold,
     DigestTypesHold, AnchoringTypesHold, RecallTypesHold, PTL DEF OrganisationTypeOK
=============================================================================
