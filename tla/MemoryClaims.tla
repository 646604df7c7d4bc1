----------------------------- MODULE MemoryClaims -----------------------------
(***************************************************************************)
(* The organisational memory service (memory/pmorg_memory_server.py; its   *)
(* twin in aipm/mcp_adapter.py has the same statements).  Evidence is      *)
(* captured once per external id, claims are proposed on evidence,         *)
(* validated by an authorised and independent person, and superseded.      *)
(*                                                                         *)
(* ThreadingHTTPServer runs each request in a thread and each request is   *)
(* one READ COMMITTED transaction: what a request read may be stale by the *)
(* time it writes, and an UPDATE waits for a concurrent one on its row and *)
(* then goes ahead.  A request is therefore a read and, later, a write;    *)
(* the commits of writes on one row are in the order of the writes.        *)
(***************************************************************************)
EXTENDS Naturals, Sequences

CONSTANTS
  People,       \* authors and validators
  Validators,   \* PMORG_AUTHORIZED_VALIDATORS
  Externals,    \* external ids of evidence
  Contents,     \* contents of evidence; a hash stands for its content
  Threads,      \* requests under way at a time
  None,         \* SQL NULL, or a parameter not given
  MaxEvidence,  \* bound: rows of evidence
  MaxClaims     \* bound: rows of claim

ASSUME MemoryAssumption ==
  /\ None \notin People \cup Contents
  /\ MaxEvidence \in Nat /\ MaxClaims \in Nat

VARIABLES
  evidence,  \* the evidence table; an id is a position
  claim,     \* the claim table
  request    \* request[w]: what request w has read and has still to write

vars == <<evidence, claim, request>>

EvidenceRows == [external : Externals, author : People, content : Contents]

Statuses == {"candidate", "validated", "superseded"}

(* validation_evidence_id and superseded_by are 0 while they are NULL.     *)
ClaimRows ==
  [status : Statuses, author : People, evidence : SUBSET (1..MaxEvidence),
   by : People \cup {None}, support : 0..MaxEvidence, successor : 0..MaxClaims]

Idle == [op |-> "idle"]

Captures == [op : {"capture"}, external : Externals, author : People, content : Contents]
Validations ==
  [op : {"validate"}, claim : 1..MaxClaims, author : People, by : People,
   support : 1..MaxEvidence, hash : Contents \cup {None}]
Supersessions == [op : {"supersede"}, old : 1..MaxClaims, new : 1..MaxClaims]

Init ==
  /\ evidence = <<>>
  /\ claim = <<>>
  /\ request = [w \in Threads |-> Idle]

----------------------------------------------------------------------------
(* Evidence.                                                               *)

Captured(x) == \E e \in DOMAIN evidence : evidence[e].external = x

(* A capture of a known external id is a replay and writes nothing.        *)
CaptureLookup(w, x, a, c) ==
  /\ request[w] = Idle
  /\ ~Captured(x)
  /\ request' = [request EXCEPT ![w] =
       [op |-> "capture", external |-> x, author |-> a, content |-> c]]
  /\ UNCHANGED <<evidence, claim>>

\* Mutant of CaptureInsert: the table has no UNIQUE constraint.
CaptureInsertWithoutUnique(w) ==
  LET r == request[w] IN
  /\ r.op = "capture"
  /\ Len(evidence) < MaxEvidence
  /\ evidence' = Append(evidence,
       [external |-> r.external, author |-> r.author, content |-> r.content])
  /\ request' = [request EXCEPT ![w] = Idle]
  /\ UNCHANGED claim

(* UNIQUE (namespace, external_id) fails the second of two captures that   *)
(* both found no row.                                                      *)
CaptureInsert(w) ==
  LET r == request[w] IN
  /\ r.op = "capture"
  /\ ~Captured(r.external)
  /\ Len(evidence) < MaxEvidence
  /\ evidence' = Append(evidence,
       [external |-> r.external, author |-> r.author, content |-> r.content])
  /\ request' = [request EXCEPT ![w] = Idle]
  /\ UNCHANGED claim

----------------------------------------------------------------------------
(* Claims.  Evidence is never deleted or changed, so a check of it holds   *)
(* for good and the read it is part of may be taken with the write.        *)

ProposeClaim(a, E) ==
  /\ Len(claim) < MaxClaims
  /\ E # {} /\ E \subseteq DOMAIN evidence
  /\ claim' = Append(claim,
       [status |-> "candidate", author |-> a, evidence |-> E,
        by |-> None, support |-> 0, successor |-> 0])
  /\ UNCHANGED <<evidence, request>>

ValidateRead(w, c, v, e, h) ==
  /\ request[w] = Idle
  /\ c \in DOMAIN claim
  /\ claim[c].status = "candidate"
  /\ v \in Validators
  /\ v # claim[c].author
  /\ request' = [request EXCEPT ![w] =
       [op |-> "validate", claim |-> c, author |-> claim[c].author,
        by |-> v, support |-> e, hash |-> h]]
  /\ UNCHANGED <<evidence, claim>>

\* Mutant of ValidateWrite: two parameters of the UPDATE change places.
ValidateWriteSwapped(w) ==
  LET r == request[w] IN
  /\ r.op = "validate"
  /\ r.support \in DOMAIN evidence
  /\ evidence[r.support].author # r.author
  /\ r.hash \in {None, evidence[r.support].content}
  /\ claim' = [claim EXCEPT
       ![r.claim].status = "validated",
       ![r.claim].by = r.support,
       ![r.claim].support = r.by]
  /\ request' = [request EXCEPT ![w] = Idle]
  /\ UNCHANGED evidence

\* Mutant of ValidateWrite: the author of the evidence is not looked at.
ValidateWriteOnOwnEvidence(w) ==
  LET r == request[w] IN
  /\ r.op = "validate"
  /\ r.support \in DOMAIN evidence
  /\ r.hash \in {None, evidence[r.support].content}
  /\ claim' = [claim EXCEPT
       ![r.claim].status = "validated",
       ![r.claim].by = r.by,
       ![r.claim].support = r.support]
  /\ request' = [request EXCEPT ![w] = Idle]
  /\ UNCHANGED evidence

(* The UPDATE names the row by its id and leaves superseded_by alone.      *)
ValidateWrite(w) ==
  LET r == request[w] IN
  /\ r.op = "validate"
  /\ r.support \in DOMAIN evidence
  /\ evidence[r.support].author # r.author
  /\ r.hash \in {None, evidence[r.support].content}
  /\ claim' = [claim EXCEPT
       ![r.claim].status = "validated",
       ![r.claim].by = r.by,
       ![r.claim].support = r.support]
  /\ request' = [request EXCEPT ![w] = Idle]
  /\ UNCHANGED evidence

\* Mutant of SupersedeRead: the old claim is enough.
SupersedeReadAnyRow(w, old, new) ==
  /\ request[w] = Idle
  /\ old \in DOMAIN claim
  /\ claim[old].status # "superseded"
  /\ request' = [request EXCEPT ![w] = [op |-> "supersede", old |-> old, new |-> new]]
  /\ UNCHANGED <<evidence, claim>>

(* One SELECT ... IN (old, new) has to find two rows.                      *)
SupersedeRead(w, old, new) ==
  /\ request[w] = Idle
  /\ old # new /\ {old, new} \subseteq DOMAIN claim
  /\ claim[old].status # "superseded"
  /\ request' = [request EXCEPT ![w] = [op |-> "supersede", old |-> old, new |-> new]]
  /\ UNCHANGED <<evidence, claim>>

SupersedeWrite(w) ==
  LET r == request[w] IN
  /\ r.op = "supersede"
  /\ claim' = [claim EXCEPT
       ![r.old].status = "superseded",
       ![r.old].successor = r.new]
  /\ request' = [request EXCEPT ![w] = Idle]
  /\ UNCHANGED evidence

(* A failed check, a constraint, a lost connection or the end of the       *)
(* process rolls the transaction back.                                     *)
Rollback(w) ==
  /\ request[w] # Idle
  /\ request' = [request EXCEPT ![w] = Idle]
  /\ UNCHANGED <<evidence, claim>>

(* A request of thread w, with the parameters it may be sent.              *)
Request(w) ==
  \/ \E x \in Externals, a \in People, c \in Contents : CaptureLookup(w, x, a, c)
  \/ \E c \in 1..MaxClaims, v \in People, e \in 1..MaxEvidence, h \in Contents \cup {None} :
       ValidateRead(w, c, v, e, h)
  \/ \E old, new \in 1..MaxClaims : SupersedeRead(w, old, new)

Commit(w) == CaptureInsert(w) \/ ValidateWrite(w) \/ SupersedeWrite(w)

Next ==
  \/ \E a \in People, E \in SUBSET (1..MaxEvidence) : ProposeClaim(a, E)
  \/ \E w \in Threads : Request(w) \/ Commit(w) \/ Rollback(w)

Spec == Init /\ [][Next]_vars

----------------------------------------------------------------------------
(* Properties.                                                             *)

(* The rows and the requests under way have the shape of the tables.       *)
TypeOK ==
  /\ evidence \in Seq(EvidenceRows)
  /\ claim \in Seq(ClaimRows)
  /\ request \in [Threads -> {Idle} \cup Captures \cup Validations \cup Supersessions]

(* Captures of one external id, however they interleave, leave one row     *)
(* (memory/README.md:21).                                                  *)
EvidenceIdentity ==
  \A d, e \in DOMAIN evidence : evidence[d].external = evidence[e].external => d = e

(* Whoever else validates or supersedes meanwhile, the validator a claim   *)
(* records is authorised and is not its author, and the evidence it cites  *)
(* exists and comes from someone else (memory/README.md:16-18).            *)
IndependentValidation ==
  \A c \in DOMAIN claim : claim[c].by # None =>
    /\ claim[c].by \in Validators \ {claim[c].author}
    /\ claim[c].support \in DOMAIN evidence
    /\ evidence[claim[c].support].author # claim[c].author

(* A claim says validated or superseded only if it carries the validator,  *)
(* or the other claim of the table, that made it so.                       *)
StatusIsBacked ==
  \A c \in DOMAIN claim :
    /\ claim[c].status = "validated" => claim[c].by # None
    /\ claim[c].status = "superseded" => claim[c].successor \in DOMAIN claim \ {c}

(* A claim that was superseded is shown as a hypothesis: recall labels it  *)
(* by its status (aipm/tests/test_claims_adapter.py:123).                  *)
SupersededIsHypothesis ==
  \A c \in DOMAIN claim : claim[c].successor # 0 => claim[c].status # "validated"
=============================================================================
