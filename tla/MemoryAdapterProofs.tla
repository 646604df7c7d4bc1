-------------------------- MODULE MemoryAdapterProofs --------------------------
(***************************************************************************)
(* The adapter implements the contract of MemoryClaims for any people,     *)
(* registry, requests under way and sizes of the tables: a row of the      *)
(* contract is a row of the adapter without its anchors, a new outcome is  *)
(* a stutter, and every other step is the step of the same name.           *)
(***************************************************************************)
EXTENDS MemoryAdapter, TLAPS

EvidenceRows == [external : ExternalIds, author : Authors, content : Texts]

ClaimRows ==
  [status : {"candidate", "validated", "superseded"},
   author : Authors, evidence : SUBSET (1..MaxMemEvidence), anchors : SUBSET Registered,
   by : Authors \cup {Null}, support : 0..MaxMemEvidence, successor : 0..MaxMemClaims]

Calls == {NoCall} \cup Contract!Captures \cup Contract!Validations \cup Contract!Supersessions

AdapterInv ==
  /\ memEvidence \in Seq(EvidenceRows)
  /\ memClaim \in Seq(ClaimRows)
  /\ call \in [Callers -> Calls]

-----------------------------------------------------------------------------
\* A call is what its op says it is.
LEMMA CallKinds ==
  ASSUME NEW r \in Calls
  PROVE  /\ r.op = "capture" => r \in Contract!Captures
         /\ r.op = "validate" => r \in Contract!Validations
         /\ r.op = "supersede" => r \in Contract!Supersessions
  BY DEF Calls, NoCall, Contract!Captures, Contract!Validations, Contract!Supersessions

\* The new row of a proposal.
Proposal(a, E, R) ==
  [status |-> "candidate", author |-> a, evidence |-> E, anchors |-> R,
   by |-> Null, support |-> 0, successor |-> 0]

\* A proposed claim is a row, and without its anchors the candidate of the contract.
LEMMA ProposalIsRow ==
  ASSUME NEW a \in Authors, NEW E \in SUBSET (1..MaxMemEvidence), NEW R \in SUBSET Registered
  PROVE  /\ Proposal(a, E, R) \in ClaimRows
         /\ Bare(Proposal(a, E, R)) =
              [status |-> "candidate", author |-> a, evidence |-> E,
               by |-> Null, support |-> 0, successor |-> 0]
<1>1. 0 \in 0..MaxMemEvidence /\ 0 \in 0..MaxMemClaims
  BY MemoryAdapterAssumption
<1>2. QED
  BY <1>1 DEF Proposal, ClaimRows, Bare

\* The rows without anchors.
BareOf(s) == [c \in DOMAIN s |-> Bare(s[c])]

\* Forgetting the anchors commutes with appending a row.
LEMMA BareAppend ==
  ASSUME NEW s \in Seq(ClaimRows), NEW row \in ClaimRows
  PROVE  [c \in DOMAIN Append(s, row) |-> Bare(Append(s, row)[c])]
           = Append([c \in DOMAIN s |-> Bare(s[c])], Bare(row))
<1> DEFINE b == [c \in DOMAIN s |-> Bare(s[c])]
<1>1. b \in Seq({Bare(s[c]) : c \in DOMAIN s}) /\ Len(b) = Len(s)
  OBVIOUS
<1>2. QED
  BY <1>1

\* An UPDATE of a validation keeps the rows typed, and has the same effect
\* on the rows without anchors.
ValidatedIn(s, c, v, e) == [s EXCEPT ![c].status = "validated", ![c].by = v, ![c].support = e]

\* The update of a validation is the same on rows with and without anchors.
LEMMA ValidatedRows ==
  ASSUME NEW s \in Seq(ClaimRows), NEW c, NEW v \in Authors, NEW e \in 0..MaxMemEvidence
  PROVE  /\ ValidatedIn(s, c, v, e) \in Seq(ClaimRows)
         /\ BareOf(ValidatedIn(s, c, v, e)) = ValidatedIn(BareOf(s), c, v, e)
<1> DEFINE t == [s EXCEPT ![c].status = "validated", ![c].by = v, ![c].support = e]
           b == [i \in DOMAIN s |-> Bare(s[i])]
           u == [b EXCEPT ![c].status = "validated", ![c].by = v, ![c].support = e]
<1>1. CASE c \in DOMAIN s
  <2> DEFINE row == [s[c] EXCEPT !.status = "validated", !.by = v, !.support = e]
             bare == [Bare(s[c]) EXCEPT !.status = "validated", !.by = v, !.support = e]
  <2>1. t = [s EXCEPT ![c] = row] /\ u = [b EXCEPT ![c] = bare]
    BY <1>1
  <2>2. s[c] \in ClaimRows
    BY <1>1
  <2>3. row \in ClaimRows
    BY <2>2 DEF ClaimRows
  <2>4. Bare(row) = bare
    BY <2>2 DEF Bare, ClaimRows
  <2>5. t \in Seq(ClaimRows) /\ DOMAIN t = DOMAIN s
    BY <1>1, <2>1, <2>3
  <2>6. \A i \in DOMAIN s : Bare(t[i]) = u[i]
    <3>1. t[c] = row /\ u[c] = bare
      BY <1>1, <2>1
    <3>2. \A i \in DOMAIN s \ {c} : t[i] = s[i] /\ u[i] = Bare(s[i])
      BY <1>1, <2>1
    <3>3. QED
      BY <2>4, <3>1, <3>2
  <2>7. DOMAIN u = DOMAIN s
    BY <1>1, <2>1
  <2>8. u = [i \in DOMAIN s |-> u[i]]
    BY <2>1, <2>7
  <2>9. QED
    BY <2>5, <2>6, <2>7, <2>8 DEF ValidatedIn, BareOf
<1>2. CASE c \notin DOMAIN s
  <2>1. t = s /\ u = b
    BY <1>2
  <2>2. QED
    BY <2>1 DEF ValidatedIn, BareOf
<1>3. QED
  BY <1>1, <1>2 DEF ValidatedIn, BareOf

\* The UPDATE of a supersession keeps the rows typed, and has the same effect
\* on the rows without anchors.
SupersededIn(s, c, n) == [s EXCEPT ![c].status = "superseded", ![c].successor = n]

\* The update of a supersession is the same on rows with and without anchors.
LEMMA SupersededRows ==
  ASSUME NEW s \in Seq(ClaimRows), NEW c, NEW n \in 0..MaxMemClaims
  PROVE  /\ SupersededIn(s, c, n) \in Seq(ClaimRows)
         /\ BareOf(SupersededIn(s, c, n)) = SupersededIn(BareOf(s), c, n)
<1> DEFINE t == [s EXCEPT ![c].status = "superseded", ![c].successor = n]
           b == [i \in DOMAIN s |-> Bare(s[i])]
           u == [b EXCEPT ![c].status = "superseded", ![c].successor = n]
<1>1. CASE c \in DOMAIN s
  <2> DEFINE row == [s[c] EXCEPT !.status = "superseded", !.successor = n]
             bare == [Bare(s[c]) EXCEPT !.status = "superseded", !.successor = n]
  <2>1. t = [s EXCEPT ![c] = row] /\ u = [b EXCEPT ![c] = bare]
    BY <1>1
  <2>2. s[c] \in ClaimRows
    BY <1>1
  <2>3. row \in ClaimRows
    BY <2>2 DEF ClaimRows
  <2>4. Bare(row) = bare
    BY <2>2 DEF Bare, ClaimRows
  <2>5. t \in Seq(ClaimRows) /\ DOMAIN t = DOMAIN s
    BY <1>1, <2>1, <2>3
  <2>6. \A i \in DOMAIN s : Bare(t[i]) = u[i]
    <3>1. t[c] = row /\ u[c] = bare
      BY <1>1, <2>1
    <3>2. \A i \in DOMAIN s \ {c} : t[i] = s[i] /\ u[i] = Bare(s[i])
      BY <1>1, <2>1
    <3>3. QED
      BY <2>4, <3>1, <3>2
  <2>7. DOMAIN u = DOMAIN s
    BY <1>1, <2>1
  <2>8. u = [i \in DOMAIN s |-> u[i]]
    BY <2>1, <2>7
  <2>9. QED
    BY <2>5, <2>6, <2>7, <2>8 DEF SupersededIn, BareOf
<1>2. CASE c \notin DOMAIN s
  <2>1. t = s /\ u = b
    BY <1>2
  <2>2. QED
    BY <2>1 DEF SupersededIn, BareOf
<1>3. QED
  BY <1>1, <1>2 DEF SupersededIn, BareOf

-----------------------------------------------------------------------------
\* Each step, seen without anchors and outcomes.

\* A proposal is a proposal of the contract.
LEMMA ProposeStep ==
  ASSUME AdapterInv, NEW a \in Authors, NEW E \in SUBSET (1..MaxMemEvidence),
         NEW R \in SUBSET Records, Propose(a, E, R)
  PROVE  AdapterInv' /\ Contract!ProposeClaim(a, E)
<1> DEFINE row == Proposal(a, E, R)
<1>1. R \in SUBSET Registered
  BY DEF Propose, AnchorsKnown
<1>2. /\ memClaim' = Append(memClaim, row) /\ memClaim \in Seq(ClaimRows)
      /\ UNCHANGED <<memEvidence, call>>
  BY DEF Propose, Proposal, AdapterInv
<1>3. row \in ClaimRows
  BY <1>1, ProposalIsRow
<1>4. memClaim' \in Seq(ClaimRows)
  BY <1>2, <1>3
<1>5. BareClaims' = Append(BareClaims, Bare(row))
  BY <1>2, <1>3, BareAppend DEF BareClaims
<1>6. Len(BareClaims) = Len(memClaim)
  <2>1. BareClaims \in Seq({Bare(memClaim[c]) : c \in DOMAIN memClaim}) /\ Len(BareClaims) = Len(memClaim)
    BY <1>2 DEF BareClaims
  <2>2. QED
    BY <2>1
<1>7. Contract!ProposeClaim(a, E)
  BY <1>1, <1>2, <1>5, <1>6, ProposalIsRow DEF Propose, Contract!ProposeClaim
<1>8. QED
  BY <1>2, <1>4, <1>7 DEF AdapterInv

\* The read of a request is the read of the contract.
LEMMA RequestStep ==
  ASSUME AdapterInv, NEW w \in Callers, MemRequest(w)
  PROVE  AdapterInv' /\ Contract!Request(w)
<1>1. DOMAIN BareClaims = DOMAIN memClaim
      /\ \A c \in DOMAIN memClaim : /\ BareClaims[c].status = memClaim[c].status
                                    /\ BareClaims[c].author = memClaim[c].author
  BY DEF BareClaims, Bare
<1>2. ASSUME NEW c \in DOMAIN memClaim
      PROVE  memClaim[c].author \in Authors
  <2>1. memClaim[c] \in ClaimRows
    BY DEF AdapterInv
  <2>2. QED
    BY <2>1 DEF ClaimRows
<1>3. BareClaims' = BareClaims
  BY DEF MemRequest, EvidenceSelect, ValidateSelect, SupersedeSelect, Asks, BareClaims
<1>4. ASSUME NEW r \in Calls, Asks(w, r)
      PROVE  AdapterInv'
  BY <1>4 DEF Asks, AdapterInv
<1>5. ASSUME NEW x \in ExternalIds, NEW a \in Authors, NEW t \in Texts, EvidenceSelect(w, x, a, t)
      PROVE  AdapterInv' /\ Contract!Request(w)
  <2>1. [op |-> "capture", external |-> x, author |-> a, content |-> t] \in Calls
    BY DEF Calls, Contract!Captures
  <2>2. AdapterInv'
    BY <1>4, <1>5, <2>1 DEF EvidenceSelect
  <2>3. Contract!CaptureLookup(w, x, a, t)
    BY <1>3, <1>5 DEF EvidenceSelect, Asks, Known, NoCall,
      Contract!CaptureLookup, Contract!Captured, Contract!Idle
  <2>4. QED
    BY <2>2, <2>3 DEF Contract!Request
<1>6. ASSUME NEW c \in 1..MaxMemClaims, NEW v \in Authors, NEW e \in 1..MaxMemEvidence,
             NEW h \in Texts \cup {Null}, ValidateSelect(w, c, v, e, h)
      PROVE  AdapterInv' /\ Contract!Request(w)
  <2>1. [op |-> "validate", claim |-> c, author |-> memClaim[c].author,
         by |-> v, support |-> e, hash |-> h] \in Calls
    BY <1>2, <1>6 DEF ValidateSelect, Calls, Contract!Validations
  <2>2. AdapterInv'
    BY <1>4, <1>6, <2>1 DEF ValidateSelect
  <2>3. Contract!ValidateRead(w, c, v, e, h)
    BY <1>1, <1>3, <1>6 DEF ValidateSelect, Asks, NoCall, Contract!ValidateRead, Contract!Idle
  <2>4. QED
    BY <2>2, <2>3 DEF Contract!Request
<1>7. ASSUME NEW old \in 1..MaxMemClaims, NEW new \in 1..MaxMemClaims, SupersedeSelect(w, old, new)
      PROVE  AdapterInv' /\ Contract!Request(w)
  <2>1. [op |-> "supersede", old |-> old, new |-> new] \in Calls
    BY DEF Calls, Contract!Supersessions
  <2>2. AdapterInv'
    BY <1>4, <1>7, <2>1 DEF SupersedeSelect
  <2>3. old # new /\ {old, new} \subseteq DOMAIN BareClaims
    BY <1>1, <1>7 DEF SupersedeSelect
  <2>4. BareClaims[old].status # "superseded"
    BY <1>1, <1>7 DEF SupersedeSelect
  <2>5. /\ call[w] = Contract!Idle
        /\ call' = [call EXCEPT ![w] = [op |-> "supersede", old |-> old, new |-> new]]
        /\ UNCHANGED memEvidence
    BY <1>7 DEF SupersedeSelect, Asks, NoCall, Contract!Idle
  <2>6. Contract!SupersedeRead(w, old, new)
    BY <1>3, <2>3, <2>4, <2>5 DEF Contract!SupersedeRead
  <2>7. QED
    BY <2>2, <2>6 DEF Contract!Request
<1>8. QED
  BY <1>5, <1>6, <1>7 DEF MemRequest

\* The commit of a request is the commit of the contract, an outcome a stutter.
LEMMA CommitStep ==
  ASSUME AdapterInv, NEW w \in Callers, MemCommit(w)
  PROVE  AdapterInv' /\ (Contract!Commit(w) \/ Contract!Rollback(w))
<1> DEFINE r == call[w]
<1>1. r \in Calls /\ call' = [call EXCEPT ![w] = NoCall] /\ call' \in [Callers -> Calls]
  BY DEF AdapterInv, Calls, MemCommit, EvidenceInsert, ValidateUpdate, SupersedeUpdate, RollsBack, Answers
<1>2. NoCall = Contract!Idle
  BY DEF NoCall, Contract!Idle
<1>3. CASE EvidenceInsert(w)
  <2>1. r \in Contract!Captures
    BY <1>1, <1>3, CallKinds DEF EvidenceInsert
  <2>2. [external |-> r.external, author |-> r.author, content |-> r.content] \in EvidenceRows
    BY <2>1 DEF Contract!Captures, EvidenceRows
  <2>3. memEvidence' \in Seq(EvidenceRows) /\ UNCHANGED memClaim
    BY <1>3, <2>2 DEF EvidenceInsert, AdapterInv
  <2>4. Contract!CaptureInsert(w)
    BY <1>1, <1>2, <1>3 DEF EvidenceInsert, Known, BareClaims, Contract!CaptureInsert, Contract!Captured
  <2>5. QED
    BY <1>1, <2>3, <2>4 DEF AdapterInv, Contract!Commit
<1>4. CASE ValidateUpdate(w)
  <2>1. r \in Contract!Validations
    BY <1>1, <1>4, CallKinds DEF ValidateUpdate
  <2>2. r.by \in Authors /\ r.support \in 0..MaxMemEvidence
    BY <2>1, MemoryAdapterAssumption DEF Contract!Validations
  <2>3. /\ memClaim' = [memClaim EXCEPT ![r.claim].status = "validated", ![r.claim].by = r.by,
                                        ![r.claim].support = r.support]
        /\ memClaim \in Seq(ClaimRows) /\ UNCHANGED memEvidence
    BY <1>4 DEF ValidateUpdate, AdapterInv
  <2>4. memClaim' \in Seq(ClaimRows)
    BY <2>2, <2>3, ValidatedRows DEF ValidatedIn
  <2>5. BareClaims' = [BareClaims EXCEPT ![r.claim].status = "validated", ![r.claim].by = r.by,
                                         ![r.claim].support = r.support]
    <3>1. BareOf(ValidatedIn(memClaim, r.claim, r.by, r.support)) = ValidatedIn(BareOf(memClaim), r.claim, r.by, r.support)
      BY <2>2, <2>3, ValidatedRows
    <3>2. memClaim' = ValidatedIn(memClaim, r.claim, r.by, r.support)
      BY <2>3 DEF ValidatedIn
    <3>3. BareClaims = BareOf(memClaim) /\ BareClaims' = BareOf(memClaim')
      BY DEF BareClaims, BareOf
    <3>4. QED
      BY <3>1, <3>2, <3>3 DEF ValidatedIn
  <2>6. Contract!ValidateWrite(w)
    BY <1>1, <1>2, <1>4, <2>3, <2>5 DEF ValidateUpdate, Contract!ValidateWrite
  <2>7. QED
    BY <1>1, <2>3, <2>4, <2>6 DEF AdapterInv, Contract!Commit
<1>5. CASE SupersedeUpdate(w)
  <2>1. r \in Contract!Supersessions
    BY <1>1, <1>5, CallKinds DEF SupersedeUpdate
  <2>2. r.new \in 0..MaxMemClaims
    BY <2>1, MemoryAdapterAssumption DEF Contract!Supersessions
  <2>3. /\ memClaim' = [memClaim EXCEPT ![r.old].status = "superseded", ![r.old].successor = r.new]
        /\ memClaim \in Seq(ClaimRows) /\ UNCHANGED memEvidence
    BY <1>5 DEF SupersedeUpdate, AdapterInv
  <2>4. memClaim' \in Seq(ClaimRows)
    BY <2>2, <2>3, SupersededRows DEF SupersededIn
  <2>5. BareClaims' = [BareClaims EXCEPT ![r.old].status = "superseded", ![r.old].successor = r.new]
    <3>1. BareOf(SupersededIn(memClaim, r.old, r.new)) = SupersededIn(BareOf(memClaim), r.old, r.new)
      BY <2>2, <2>3, SupersededRows
    <3>2. memClaim' = SupersededIn(memClaim, r.old, r.new)
      BY <2>3 DEF SupersededIn
    <3>3. BareClaims = BareOf(memClaim) /\ BareClaims' = BareOf(memClaim')
      BY DEF BareClaims, BareOf
    <3>4. QED
      BY <3>1, <3>2, <3>3 DEF SupersededIn
  <2>6. Contract!SupersedeWrite(w)
    BY <1>1, <1>2, <1>5, <2>3, <2>5 DEF SupersedeUpdate, Contract!SupersedeWrite
  <2>7. QED
    BY <1>1, <2>3, <2>4, <2>6 DEF AdapterInv, Contract!Commit
<1>6. CASE RollsBack(w)
  <2>1. Contract!Rollback(w)
    BY <1>1, <1>2, <1>6 DEF RollsBack, BareClaims, Contract!Rollback
  <2>2. QED
    BY <1>1, <1>6, <2>1 DEF RollsBack, AdapterInv
<1>7. QED
  BY <1>3, <1>4, <1>5, <1>6 DEF MemCommit

-----------------------------------------------------------------------------
\* Every step of the adapter is a step of the contract or a stutter.
LEMMA AdapterStep ==
  ASSUME AdapterInv, [MemNext]_memVars
  PROVE  AdapterInv' /\ [Contract!Next]_(Contract!vars)
<1>1. CASE UNCHANGED memVars
  BY <1>1 DEF memVars, AdapterInv, BareClaims, Contract!vars
<1>2. ASSUME NEW w \in Callers, MemRequest(w) \/ MemCommit(w)
      PROVE  AdapterInv' /\ Contract!Next
  BY <1>2, RequestStep, CommitStep DEF Contract!Next
<1>3. ASSUME NEW a \in Authors, NEW E \in SUBSET (1..MaxMemEvidence), NEW R \in SUBSET Records,
             Propose(a, E, R)
      PROVE  AdapterInv' /\ Contract!Next
  BY <1>3, ProposeStep DEF Contract!Next
<1>4. ASSUME NEW c \in 0..MaxMemClaims, NEW E \in SUBSET (1..MaxMemEvidence), RecordOutcome(c, E)
      PROVE  AdapterInv' /\ UNCHANGED Contract!vars
  BY <1>4 DEF RecordOutcome, AdapterInv, BareClaims, Contract!vars
<1>5. QED
  BY <1>1, <1>2, <1>3, <1>4 DEF MemNext

\* The adapter of aipm promises what the memory service promises, whatever
\* its registry refuses and whatever outcomes are recorded.
THEOREM AdapterImplementsContract == MemSpec => ImplementsMemoryClaims
<1>1. MemInit => AdapterInv /\ Contract!Init
  BY DEF MemInit, AdapterInv, Calls, NoCall, BareClaims, Contract!Init, Contract!Idle
<1>2. QED
  BY <1>1, AdapterStep, PTL DEF MemSpec, ImplementsMemoryClaims, Contract!Spec
=============================================================================
