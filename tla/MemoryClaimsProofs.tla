-------------------------- MODULE MemoryClaimsProofs --------------------------
(***************************************************************************)
(* Theorems about MemoryClaims for any people, validators, external ids,   *)
(* requests under way and sizes of the tables.  A validation writes what   *)
(* an earlier read allowed; the write is still right because the author of *)
(* a claim and the rows of evidence never change.  The status does change, *)
(* and the last theorem says which race on it does the harm.               *)
(***************************************************************************)
EXTENDS MemoryClaims, TLAPS

\* What a validation under way found in the claim still holds.
ValidationChecked(w) ==
  LET r == request[w] IN
  r.op = "validate" => /\ r.claim \in DOMAIN claim
                       /\ r.author = claim[r.claim].author
                       /\ r.by \in Validators \ {r.author}

\* The two claims of a supersession under way exist.
SupersessionChecked(w) ==
  LET r == request[w] IN
  r.op = "supersede" => /\ r.old \in DOMAIN claim /\ r.new \in DOMAIN claim
                        /\ r.old # r.new

RequestsChecked == \A w \in Threads : ValidationChecked(w) /\ SupersessionChecked(w)

MemoryInv ==
  TypeOK /\ EvidenceIdentity /\ IndependentValidation /\ StatusIsBacked /\ RequestsChecked

Requests == {Idle} \cup Captures \cup Validations \cup Supersessions

-----------------------------------------------------------------------------
\* A request is what its op says it is.
LEMMA RequestKinds ==
  ASSUME NEW r \in Requests
  PROVE  /\ r.op = "capture" => r \in Captures
         /\ r.op = "validate" => r \in Validations
         /\ r.op = "supersede" => r \in Supersessions
         /\ r.op = "idle" => r = Idle
  BY DEF Requests, Idle, Captures, Validations, Supersessions

\* Appending to a table keeps its rows where they are.
LEMMA Appended ==
  ASSUME NEW S, NEW s \in Seq(S), NEW e \in S
  PROVE  /\ Append(s, e) \in Seq(S)
         /\ DOMAIN s \subseteq DOMAIN Append(s, e)
         /\ \A i \in DOMAIN s : Append(s, e)[i] = s[i]
         /\ \A i \in DOMAIN Append(s, e) \ DOMAIN s :
              i = Len(s) + 1 /\ Append(s, e)[i] = e
  OBVIOUS

\* An UPDATE of one row keeps the others.
LEMMA Updated ==
  ASSUME NEW S, NEW s \in Seq(S), NEW i \in DOMAIN s, NEW e \in S
  PROVE  /\ [s EXCEPT ![i] = e] \in Seq(S)
         /\ DOMAIN [s EXCEPT ![i] = e] = DOMAIN s
         /\ [s EXCEPT ![i] = e][i] = e
         /\ \A j \in DOMAIN s \ {i} : [s EXCEPT ![i] = e][j] = s[j]
  OBVIOUS

-----------------------------------------------------------------------------
\* A validation writes a typed row and leaves author and successor alone.
LEMMA Validated ==
  ASSUME MemoryInv, NEW w \in Threads, ValidateWrite(w)
  PROVE  LET r == request[w]
             row == [claim[r.claim] EXCEPT
                       !.status = "validated", !.by = r.by, !.support = r.support]
         IN  /\ r.claim \in DOMAIN claim
             /\ row \in ClaimRows
             /\ row.status = "validated" /\ row.by = r.by /\ row.support = r.support
             /\ row.author = claim[r.claim].author
             /\ row.successor = claim[r.claim].successor
             /\ claim' = [claim EXCEPT ![r.claim] = row]
<1> DEFINE r == request[w]
           row == [claim[r.claim] EXCEPT
                     !.status = "validated", !.by = r.by, !.support = r.support]
<1>1. r \in Validations /\ r.claim \in DOMAIN claim
  BY RequestKinds DEF ValidateWrite, MemoryInv, TypeOK, Requests, RequestsChecked, ValidationChecked
<1>2. claim[r.claim] \in ClaimRows
  BY <1>1 DEF MemoryInv, TypeOK
<1>3. "validated" \in Statuses /\ r.by \in People \cup {None} /\ r.support \in 0..MaxEvidence
  BY <1>1, MemoryAssumption DEF Statuses, Validations
<1>4. row \in ClaimRows
  BY <1>2, <1>3 DEF ClaimRows
<1>5. /\ row.status = "validated" /\ row.by = r.by /\ row.support = r.support
      /\ row.author = claim[r.claim].author /\ row.successor = claim[r.claim].successor
  BY <1>2 DEF ClaimRows
<1>6. claim' = [claim EXCEPT ![r.claim] = row]
  BY <1>1 DEF ValidateWrite
<1> QED BY <1>1, <1>4, <1>5, <1>6

\* A supersession writes a typed row and leaves the rest of it alone.
LEMMA Superseded ==
  ASSUME MemoryInv, NEW w \in Threads, SupersedeWrite(w)
  PROVE  LET r == request[w]
             row == [claim[r.old] EXCEPT !.status = "superseded", !.successor = r.new]
         IN  /\ r.old \in DOMAIN claim /\ r.new \in DOMAIN claim \ {r.old}
             /\ row \in ClaimRows
             /\ row.status = "superseded" /\ row.successor = r.new
             /\ row.author = claim[r.old].author
             /\ row.by = claim[r.old].by /\ row.support = claim[r.old].support
             /\ claim' = [claim EXCEPT ![r.old] = row]
<1> DEFINE r == request[w]
           row == [claim[r.old] EXCEPT !.status = "superseded", !.successor = r.new]
<1>1. r \in Supersessions /\ r.old \in DOMAIN claim /\ r.new \in DOMAIN claim \ {r.old}
  BY RequestKinds DEF SupersedeWrite, MemoryInv, TypeOK, Requests, RequestsChecked, SupersessionChecked
<1>2. claim[r.old] \in ClaimRows
  BY <1>1 DEF MemoryInv, TypeOK
<1>3. "superseded" \in Statuses /\ r.new \in 0..MaxClaims
  BY <1>1, MemoryAssumption DEF Statuses, Supersessions
<1>4. row \in ClaimRows
  BY <1>2, <1>3 DEF ClaimRows
<1>5. /\ row.status = "superseded" /\ row.successor = r.new
      /\ row.author = claim[r.old].author
      /\ row.by = claim[r.old].by /\ row.support = claim[r.old].support
  BY <1>2 DEF ClaimRows
<1>6. claim' = [claim EXCEPT ![r.old] = row]
  BY <1>1 DEF SupersedeWrite
<1> QED BY <1>1, <1>4, <1>5, <1>6

\* A request that ends, and one that only read, leave the tables alone.
LEMMA Asked ==
  ASSUME MemoryInv, NEW w \in Threads, NEW r \in Requests,
         request' = [request EXCEPT ![w] = r], UNCHANGED <<evidence, claim>>,
         r.op = "validate" => /\ r.claim \in DOMAIN claim
                              /\ r.author = claim[r.claim].author
                              /\ r.by \in Validators \ {r.author},
         r.op = "supersede" => /\ r.old \in DOMAIN claim /\ r.new \in DOMAIN claim
                               /\ r.old # r.new
  PROVE  MemoryInv'
<1>1. TypeOK'
  BY DEF MemoryInv, TypeOK, Requests
<1>2. RequestsChecked'
  <2> SUFFICES ASSUME NEW v \in Threads PROVE (ValidationChecked(v) /\ SupersessionChecked(v))'
    BY DEF RequestsChecked
  <2>1. request'[v] = IF v = w THEN r ELSE request[v]
    BY DEF MemoryInv, TypeOK
  <2> QED BY <2>1 DEF MemoryInv, RequestsChecked, ValidationChecked, SupersessionChecked
<1>3. (EvidenceIdentity /\ IndependentValidation /\ StatusIsBacked)'
  BY DEF MemoryInv, EvidenceIdentity, IndependentValidation, StatusIsBacked
<1> QED BY <1>1, <1>2, <1>3 DEF MemoryInv

\* Requests stay checked when claims are appended or keep their authors.
LEMMA StillChecked ==
  ASSUME MemoryInv,
         \A v \in Threads : request'[v] \in {request[v], Idle},
         DOMAIN claim \subseteq DOMAIN claim',
         \A c \in DOMAIN claim : claim'[c].author = claim[c].author
  PROVE  RequestsChecked'
<1> SUFFICES ASSUME NEW v \in Threads PROVE (ValidationChecked(v) /\ SupersessionChecked(v))'
  BY DEF RequestsChecked
<1>1. CASE request'[v] = Idle
  BY <1>1 DEF Idle, ValidationChecked, SupersessionChecked
<1>2. CASE request'[v] = request[v]
  BY <1>2 DEF MemoryInv, RequestsChecked, ValidationChecked, SupersessionChecked
<1> QED BY <1>1, <1>2

\* A thread that ends its request.
LEMMA Ended ==
  ASSUME MemoryInv, NEW w \in Threads, request' = [request EXCEPT ![w] = Idle]
  PROVE  /\ request' \in [Threads -> Requests]
         /\ \A v \in Threads : request'[v] \in {request[v], Idle}
  BY DEF MemoryInv, TypeOK, Requests

-----------------------------------------------------------------------------
\* A capture stores an external id that no row has.
LEMMA CaptureInsertPreserves ==
  ASSUME MemoryInv, NEW w \in Threads, CaptureInsert(w)
  PROVE  MemoryInv'
<1> DEFINE r == request[w]
           row == [external |-> r.external, author |-> r.author, content |-> r.content]
<1>1. r \in Captures /\ row \in EvidenceRows
  BY RequestKinds DEF CaptureInsert, MemoryInv, TypeOK, Requests, Captures, EvidenceRows
<1>2. evidence \in Seq(EvidenceRows) /\ evidence' = Append(evidence, row) /\ UNCHANGED claim
  BY DEF CaptureInsert, MemoryInv, TypeOK
<1>3. /\ evidence' \in Seq(EvidenceRows)
      /\ DOMAIN evidence \subseteq DOMAIN evidence'
      /\ \A i \in DOMAIN evidence : evidence'[i] = evidence[i]
      /\ \A i \in DOMAIN evidence' \ DOMAIN evidence : i = Len(evidence) + 1 /\ evidence'[i] = row
  <2> HIDE DEF row
  <2> QED BY <1>1, <1>2, Appended
<1>4. \A d \in DOMAIN evidence : evidence[d].external # row.external
  BY DEF CaptureInsert, Captured
<1>5. EvidenceIdentity'
  <2> HIDE DEF row
  <2> SUFFICES ASSUME NEW d \in DOMAIN evidence', NEW e \in DOMAIN evidence',
                      evidence'[d].external = evidence'[e].external
               PROVE  d = e
    BY DEF EvidenceIdentity
  <2>1. CASE d \in DOMAIN evidence /\ e \in DOMAIN evidence
    BY <2>1, <1>3 DEF MemoryInv, EvidenceIdentity
  <2>2. CASE d \notin DOMAIN evidence /\ e \notin DOMAIN evidence
    BY <2>2, <1>3
  <2>3. CASE d \in DOMAIN evidence /\ e \notin DOMAIN evidence
    BY <2>3, <1>3, <1>4
  <2>4. CASE d \notin DOMAIN evidence /\ e \in DOMAIN evidence
    BY <2>4, <1>3, <1>4
  <2> QED BY <2>1, <2>2, <2>3, <2>4
<1>6. IndependentValidation' /\ StatusIsBacked'
  BY <1>2, <1>3 DEF MemoryInv, IndependentValidation, StatusIsBacked
<1>7. TypeOK' /\ RequestsChecked'
  <2>1. request' = [request EXCEPT ![w] = Idle]
    BY DEF CaptureInsert
  <2>2. RequestsChecked'
    BY <2>1, <1>2, Ended, StillChecked
  <2> QED BY <2>1, <2>2, <1>2, <1>3, Ended DEF MemoryInv, TypeOK, Requests
<1> QED BY <1>5, <1>6, <1>7 DEF MemoryInv

\* A proposal appends a candidate without validator or successor.
LEMMA ProposeClaimPreserves ==
  ASSUME MemoryInv, NEW a \in People, NEW E \in SUBSET (1..MaxEvidence), ProposeClaim(a, E)
  PROVE  MemoryInv'
<1> DEFINE row == [status |-> "candidate", author |-> a, evidence |-> E,
                   by |-> None, support |-> 0, successor |-> 0]
<1>1. row \in ClaimRows /\ row.by = None /\ row.status = "candidate"
  BY MemoryAssumption DEF ClaimRows, Statuses
<1>2. claim \in Seq(ClaimRows) /\ claim' = Append(claim, row) /\ UNCHANGED <<evidence, request>>
  BY DEF ProposeClaim, MemoryInv, TypeOK
<1>3. /\ claim' \in Seq(ClaimRows)
      /\ DOMAIN claim \subseteq DOMAIN claim'
      /\ \A i \in DOMAIN claim : claim'[i] = claim[i]
      /\ \A i \in DOMAIN claim' \ DOMAIN claim : claim'[i] = row
  <2> HIDE DEF row
  <2> QED BY <1>1, <1>2, Appended
<1> HIDE DEF row
<1>4. TypeOK' /\ EvidenceIdentity'
  BY <1>2, <1>3 DEF MemoryInv, TypeOK, EvidenceIdentity
<1>5. IndependentValidation'
  BY <1>1, <1>2, <1>3 DEF MemoryInv, IndependentValidation
<1>6. StatusIsBacked'
  BY <1>1, <1>3 DEF MemoryInv, StatusIsBacked
<1>7. RequestsChecked'
  BY <1>2, <1>3, StillChecked
<1> QED BY <1>4, <1>5, <1>6, <1>7 DEF MemoryInv

\* A validation writes what its read allowed; author and evidence did not change.
LEMMA ValidateWritePreserves ==
  ASSUME MemoryInv, NEW w \in Threads, ValidateWrite(w)
  PROVE  MemoryInv'
<1> DEFINE r == request[w]
           row == [claim[r.claim] EXCEPT
                     !.status = "validated", !.by = r.by, !.support = r.support]
<1>1. /\ r.claim \in DOMAIN claim
      /\ row \in ClaimRows
      /\ row.status = "validated" /\ row.by = r.by /\ row.support = r.support
      /\ row.author = claim[r.claim].author
      /\ claim' = [claim EXCEPT ![r.claim] = row]
  BY Validated
<1>2. /\ r.support \in DOMAIN evidence /\ evidence[r.support].author # r.author
      /\ UNCHANGED evidence /\ request' = [request EXCEPT ![w] = Idle]
  BY DEF ValidateWrite
<1>3. r.author = claim[r.claim].author /\ r.by \in Validators \ {r.author}
  BY DEF ValidateWrite, MemoryInv, RequestsChecked, ValidationChecked
<1>4. r.by # None
  <2>1. r \in Validations
    BY RequestKinds DEF ValidateWrite, MemoryInv, TypeOK, Requests
  <2> QED BY <2>1, MemoryAssumption DEF Validations
<1> HIDE DEF row
<1>5. /\ claim' \in Seq(ClaimRows) /\ DOMAIN claim' = DOMAIN claim
      /\ claim'[r.claim] = row
      /\ \A j \in DOMAIN claim \ {r.claim} : claim'[j] = claim[j]
  BY <1>1, Updated DEF MemoryInv, TypeOK
<1> HIDE DEF r
<1>6. IndependentValidation'
  BY <1>1, <1>2, <1>3, <1>5 DEF MemoryInv, IndependentValidation
<1>7. StatusIsBacked'
  BY <1>1, <1>4, <1>5 DEF MemoryInv, StatusIsBacked
<1>8. RequestsChecked'
  BY <1>1, <1>2, <1>5, Ended, StillChecked
<1>9. TypeOK' /\ EvidenceIdentity'
  BY <1>2, <1>5, Ended DEF MemoryInv, TypeOK, EvidenceIdentity, Requests
<1> QED BY <1>6, <1>7, <1>8, <1>9 DEF MemoryInv

\* A supersession names a successor that exists and is another claim.
LEMMA SupersedeWritePreserves ==
  ASSUME MemoryInv, NEW w \in Threads, SupersedeWrite(w)
  PROVE  MemoryInv'
<1> DEFINE r == request[w]
           row == [claim[r.old] EXCEPT !.status = "superseded", !.successor = r.new]
<1>1. /\ r.old \in DOMAIN claim /\ r.new \in DOMAIN claim \ {r.old}
      /\ row \in ClaimRows
      /\ row.status = "superseded" /\ row.successor = r.new
      /\ row.author = claim[r.old].author
      /\ row.by = claim[r.old].by /\ row.support = claim[r.old].support
      /\ claim' = [claim EXCEPT ![r.old] = row]
  BY Superseded
<1>2. UNCHANGED evidence /\ request' = [request EXCEPT ![w] = Idle]
  BY DEF SupersedeWrite
<1> HIDE DEF row
<1>3. /\ claim' \in Seq(ClaimRows) /\ DOMAIN claim' = DOMAIN claim
      /\ claim'[r.old] = row
      /\ \A j \in DOMAIN claim \ {r.old} : claim'[j] = claim[j]
  BY <1>1, Updated DEF MemoryInv, TypeOK
<1> HIDE DEF r
<1>4. IndependentValidation'
  BY <1>1, <1>2, <1>3 DEF MemoryInv, IndependentValidation
<1>5. StatusIsBacked'
  BY <1>1, <1>3 DEF MemoryInv, StatusIsBacked
<1>6. RequestsChecked'
  BY <1>1, <1>2, <1>3, Ended, StillChecked
<1>7. TypeOK' /\ EvidenceIdentity'
  BY <1>2, <1>3, Ended DEF MemoryInv, TypeOK, EvidenceIdentity, Requests
<1> QED BY <1>4, <1>5, <1>6, <1>7 DEF MemoryInv

\* A read that starts a request finds what ValidationChecked and SupersessionChecked say.
LEMMA RequestPreserves ==
  ASSUME MemoryInv, NEW w \in Threads, Request(w)
  PROVE  MemoryInv'
<1>1. ASSUME NEW x \in Externals, NEW a \in People, NEW c \in Contents, CaptureLookup(w, x, a, c)
      PROVE  MemoryInv'
  <2> DEFINE r == [op |-> "capture", external |-> x, author |-> a, content |-> c]
  <2>1. r \in Requests /\ r.op = "capture"
    BY DEF Requests, Captures
  <2>2. request' = [request EXCEPT ![w] = r] /\ UNCHANGED <<evidence, claim>>
    BY <1>1 DEF CaptureLookup
  <2> HIDE DEF r
  <2> QED BY <2>1, <2>2, Asked
<1>2. ASSUME NEW c \in 1..MaxClaims, NEW v \in People, NEW e \in 1..MaxEvidence,
             NEW h \in Contents \cup {None}, ValidateRead(w, c, v, e, h)
      PROVE  MemoryInv'
  <2> DEFINE r == [op |-> "validate", claim |-> c, author |-> claim[c].author,
                   by |-> v, support |-> e, hash |-> h]
  <2>1. c \in DOMAIN claim /\ claim[c].author \in People
    <3>1. c \in DOMAIN claim
      BY <1>2 DEF ValidateRead
    <3>2. claim[c] \in ClaimRows
      BY <3>1 DEF MemoryInv, TypeOK
    <3> QED BY <3>1, <3>2 DEF ClaimRows
  <2>2. r \in Requests /\ r.op = "validate" /\ r.claim = c /\ r.author = claim[c].author /\ r.by = v
    BY <2>1 DEF Requests, Validations
  <2>3. /\ request' = [request EXCEPT ![w] = r] /\ UNCHANGED <<evidence, claim>>
        /\ v \in Validators \ {claim[c].author}
    BY <1>2 DEF ValidateRead
  <2> HIDE DEF r
  <2> QED BY <2>1, <2>2, <2>3, Asked
<1>3. ASSUME NEW old \in 1..MaxClaims, NEW new \in 1..MaxClaims, SupersedeRead(w, old, new)
      PROVE  MemoryInv'
  <2> DEFINE r == [op |-> "supersede", old |-> old, new |-> new]
  <2>1. r \in Requests /\ r.op = "supersede" /\ r.old = old /\ r.new = new
    BY DEF Requests, Supersessions
  <2>2. request' = [request EXCEPT ![w] = r] /\ UNCHANGED <<evidence, claim>>
    BY <1>3 DEF SupersedeRead
  <2>3. old \in DOMAIN claim /\ new \in DOMAIN claim /\ old # new
    BY <1>3 DEF SupersedeRead
  <2> HIDE DEF r
  <2> QED BY <2>1, <2>2, <2>3, Asked
<1> QED BY <1>1, <1>2, <1>3 DEF Request

\* The invariant is inductive.
LEMMA MemoryStep == MemoryInv /\ [Next]_vars => MemoryInv'
<1> SUFFICES ASSUME MemoryInv, [Next]_vars PROVE MemoryInv'
  OBVIOUS
<1>1. ASSUME NEW a \in People, NEW E \in SUBSET (1..MaxEvidence), ProposeClaim(a, E)
      PROVE  MemoryInv'
  BY <1>1, ProposeClaimPreserves
<1>2. ASSUME NEW w \in Threads, Request(w) PROVE MemoryInv'
  BY <1>2, RequestPreserves
<1>3. ASSUME NEW w \in Threads, Commit(w) PROVE MemoryInv'
  BY <1>3, CaptureInsertPreserves, ValidateWritePreserves, SupersedeWritePreserves DEF Commit
<1>4. ASSUME NEW w \in Threads, Rollback(w) PROVE MemoryInv'
  <2>1. Idle \in Requests /\ Idle.op = "idle"
    BY DEF Requests, Idle
  <2>2. request' = [request EXCEPT ![w] = Idle] /\ UNCHANGED <<evidence, claim>>
    BY <1>4 DEF Rollback
  <2> QED BY <2>1, <2>2, Asked
<1>5. CASE UNCHANGED vars
  BY <1>5 DEF vars, MemoryInv, TypeOK, EvidenceIdentity, IndependentValidation, StatusIsBacked,
              RequestsChecked, ValidationChecked, SupersessionChecked
<1> QED BY <1>1, <1>2, <1>3, <1>4, <1>5 DEF Next

\* The empty tables satisfy the invariant.
LEMMA MemoryStart == Init => MemoryInv
  BY DEF Init, MemoryInv, TypeOK, EvidenceIdentity, IndependentValidation, StatusIsBacked,
         RequestsChecked, ValidationChecked, SupersessionChecked, Idle

\* The strengthening of the safety properties holds in every reachable state.
THEOREM MemoryCorrect == Spec => []MemoryInv
  BY MemoryStart, MemoryStep, PTL DEF Spec

-----------------------------------------------------------------------------
\* The rows and the requests under way keep their shapes.
THEOREM MemoryTypeCorrect == Spec => []TypeOK
<1>1. MemoryInv => TypeOK
  BY DEF MemoryInv
<1> QED BY <1>1, MemoryCorrect, PTL

\* No interleaving of captures stores one external id twice.
THEOREM EvidenceIdentityCorrect == Spec => []EvidenceIdentity
<1>1. MemoryInv => EvidenceIdentity
  BY DEF MemoryInv
<1> QED BY <1>1, MemoryCorrect, PTL

\* Every validation on record was made by an authorised person other than
\* the author, on evidence of somebody else.
THEOREM IndependentValidationCorrect == Spec => []IndependentValidation
<1>1. MemoryInv => IndependentValidation
  BY DEF MemoryInv
<1> QED BY <1>1, MemoryCorrect, PTL

\* A status never stands without the validator or the successor behind it.
THEOREM StatusIsBackedCorrect == Spec => []StatusIsBacked
<1>1. MemoryInv => StatusIsBacked
  BY DEF MemoryInv
<1> QED BY <1>1, MemoryCorrect, PTL
-----------------------------------------------------------------------------
(* Supersession                                                            *)

\* No claim is being validated and superseded at the same time, which a lock
\* on the row from the read on would see to.
NoRaceOnStatus ==
  \A v, w \in Threads : request[v].op = "validate" /\ request[w].op = "supersede"
                          => request[v].claim # request[w].old

\* A claim with a successor is superseded, and no superseded claim is being
\* validated.
SupersessionHolds ==
  /\ \A c \in DOMAIN claim : claim[c].successor # 0 => claim[c].status = "superseded"
  /\ \A w \in Threads : request[w].op = "validate"
                          => claim[request[w].claim].status # "superseded"

\* Without that race no step puts a status over a supersession.
LEMMA SupersessionStep ==
  MemoryInv /\ NoRaceOnStatus /\ SupersessionHolds /\ [Next]_vars => SupersessionHolds'
<1> SUFFICES ASSUME MemoryInv, NoRaceOnStatus, SupersessionHolds, [Next]_vars
             PROVE  SupersessionHolds'
  OBVIOUS
<1>0. /\ claim \in Seq(ClaimRows) /\ request \in [Threads -> Requests]
      /\ \A w \in Threads : request[w].op = "validate" => request[w].claim \in DOMAIN claim
  BY DEF MemoryInv, TypeOK, Requests, RequestsChecked, ValidationChecked
<1>1. ASSUME UNCHANGED claim, NEW w \in Threads, NEW r, request' = [request EXCEPT ![w] = r],
             r.op = "validate" => claim[r.claim].status # "superseded"
      PROVE  SupersessionHolds'
  BY <1>0, <1>1 DEF SupersessionHolds
<1>2. Idle.op # "validate"
  BY DEF Idle
<1>3. ASSUME NEW a \in People, NEW E \in SUBSET (1..MaxEvidence), ProposeClaim(a, E)
      PROVE  SupersessionHolds'
  <2> DEFINE row == [status |-> "candidate", author |-> a, evidence |-> E,
                     by |-> None, support |-> 0, successor |-> 0]
  <2>1. row \in ClaimRows /\ row.successor = 0
    BY MemoryAssumption DEF ClaimRows, Statuses
  <2>2. claim' = Append(claim, row) /\ UNCHANGED request
    BY <1>3 DEF ProposeClaim
  <2> HIDE DEF row
  <2>3. /\ DOMAIN claim \subseteq DOMAIN claim'
        /\ \A i \in DOMAIN claim : claim'[i] = claim[i]
        /\ \A i \in DOMAIN claim' \ DOMAIN claim : claim'[i] = row
    BY <1>0, <2>1, <2>2, Appended
  <2> QED BY <1>0, <2>1, <2>2, <2>3 DEF SupersessionHolds
<1>4. ASSUME NEW w \in Threads, Request(w) PROVE SupersessionHolds'
  <2>1. ASSUME NEW x \in Externals, NEW a \in People, NEW c \in Contents,
               CaptureLookup(w, x, a, c)
        PROVE  SupersessionHolds'
    BY <1>1, <2>1 DEF CaptureLookup
  <2>2. ASSUME NEW c \in 1..MaxClaims, NEW v \in People, NEW e \in 1..MaxEvidence,
               NEW h \in Contents \cup {None}, ValidateRead(w, c, v, e, h)
        PROVE  SupersessionHolds'
    BY <1>1, <2>2 DEF ValidateRead
  <2>3. ASSUME NEW old \in 1..MaxClaims, NEW new \in 1..MaxClaims, SupersedeRead(w, old, new)
        PROVE  SupersessionHolds'
    BY <1>1, <2>3 DEF SupersedeRead
  <2> QED BY <1>4, <2>1, <2>2, <2>3 DEF Request
<1>5. ASSUME NEW w \in Threads, CaptureInsert(w) \/ Rollback(w) PROVE SupersessionHolds'
  BY <1>1, <1>2, <1>5 DEF CaptureInsert, Rollback
<1>6. ASSUME NEW w \in Threads, ValidateWrite(w) PROVE SupersessionHolds'
  <2> DEFINE c == request[w].claim
             row == [claim[c] EXCEPT !.status = "validated", !.by = request[w].by,
                                     !.support = request[w].support]
  <2>1. /\ c \in DOMAIN claim /\ row \in ClaimRows /\ row.status = "validated"
        /\ row.successor = claim[c].successor /\ claim' = [claim EXCEPT ![c] = row]
    BY <1>6, Validated
  <2>2. row.successor = 0
    BY <1>6, <2>1 DEF ValidateWrite, SupersessionHolds
  <2>3. request' = [request EXCEPT ![w] = Idle]
    BY <1>6 DEF ValidateWrite
  <2> HIDE DEF c, row
  <2>4. /\ DOMAIN claim' = DOMAIN claim /\ claim'[c] = row
        /\ \A j \in DOMAIN claim \ {c} : claim'[j] = claim[j]
    BY <1>0, <2>1, Updated
  <2>5. \A v \in Threads : request'[v].op = "validate"
          => request'[v] = request[v] /\ request[v].claim \in DOMAIN claim
    BY <1>0, <1>2, <2>3
  <2> QED BY <2>1, <2>2, <2>4, <2>5 DEF SupersessionHolds
<1>7. ASSUME NEW w \in Threads, SupersedeWrite(w) PROVE SupersessionHolds'
  <2> DEFINE c == request[w].old
             row == [claim[c] EXCEPT !.status = "superseded", !.successor = request[w].new]
  <2>1. /\ c \in DOMAIN claim /\ row \in ClaimRows /\ row.status = "superseded"
        /\ claim' = [claim EXCEPT ![c] = row]
    BY <1>7, Superseded
  <2>2. request' = [request EXCEPT ![w] = Idle] /\ request[w].op = "supersede"
    BY <1>7 DEF SupersedeWrite
  <2>3. \A v \in Threads : request'[v].op = "validate"
          => request'[v] = request[v] /\ request[v].claim \in DOMAIN claim \ {c}
    BY <1>0, <1>2, <2>2 DEF NoRaceOnStatus
  <2> HIDE DEF c, row
  <2>4. /\ DOMAIN claim' = DOMAIN claim /\ claim'[c] = row
        /\ \A j \in DOMAIN claim \ {c} : claim'[j] = claim[j]
    BY <1>0, <2>1, Updated
  <2> QED BY <2>1, <2>3, <2>4 DEF SupersessionHolds
<1>8. CASE UNCHANGED vars
  BY <1>8 DEF vars, SupersessionHolds
<1> QED BY <1>3, <1>4, <1>5, <1>6, <1>7, <1>8 DEF Next, Commit

\* A superseded claim is never shown as validated as long as no validation of a
\* claim is under way together with a supersession of it: that race is the only
\* way to SupersededIsHypothesis being false.
THEOREM SupersededIsHypothesisWithoutRace ==
  Spec /\ []NoRaceOnStatus => []SupersededIsHypothesis
<1>1. Init => SupersessionHolds
  BY DEF Init, SupersessionHolds, Idle
<1>2. SupersessionHolds => SupersededIsHypothesis
  BY DEF SupersessionHolds, SupersededIsHypothesis
<1> QED BY <1>1, <1>2, MemoryStart, MemoryStep, SupersessionStep, PTL DEF Spec
=============================================================================
