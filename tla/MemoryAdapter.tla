---------------------------- MODULE MemoryAdapter ----------------------------
(***************************************************************************)
(* The memory contract pmorg-memory/1.0 on the database of aipm            *)
(* (aipm/mcp_adapter.py).  It answers the same requests as the service of  *)
(* MemoryClaims, and keeps what that module leaves out: the anchors of a   *)
(* claim, which must be in the registry of the profile, and the outcomes.  *)
(*                                                                         *)
(* A request is one READ COMMITTED transaction of a thread: where a check  *)
(* and the write it allows can be separated they are two actions.          *)
(***************************************************************************)
EXTENDS Naturals, Sequences, FiniteSets

CONSTANTS
  Authors,         \* authors and validators
  Authorised,      \* PMORG_AUTHORIZED_VALIDATORS
  ExternalIds,     \* external ids of evidence
  Texts,           \* contents of evidence; a hash stands for its content
  Records,         \* records of Odoo that an anchor may name
  Registered,      \* those whose type and model the registry has
  Callers,         \* requests under way at a time
  Null,            \* SQL NULL, or a parameter not given
  MaxMemEvidence,  \* bound: rows of mem_evidence
  MaxMemClaims,    \* bound: rows of mem_claim
  MaxOutcomes      \* bound: rows of mem_outcome

ASSUME MemoryAdapterAssumption ==
  /\ Null \notin Authors \cup Texts
  /\ Registered \subseteq Records
  /\ {MaxMemEvidence, MaxMemClaims, MaxOutcomes} \subseteq Nat

VARIABLES
  memEvidence,  \* the table mem_evidence; an id is a position
  memClaim,     \* the table mem_claim
  memOutcome,   \* the table mem_outcome
  call          \* call[w]: what request w has read and has still to write

memVars == <<memEvidence, memClaim, memOutcome, call>>

NoCall == [op |-> "idle"]

MemInit ==
  /\ memEvidence = <<>> /\ memClaim = <<>> /\ memOutcome = <<>>
  /\ call = [w \in Callers |-> NoCall]

Asks(w, r) ==
  /\ call[w] = NoCall
  /\ call' = [call EXCEPT ![w] = r]
  /\ UNCHANGED <<memEvidence, memClaim, memOutcome>>

Answers(w) == call' = [call EXCEPT ![w] = NoCall]

-----------------------------------------------------------------------------
(* memory_capture_evidence: a known external id is a replay.               *)

Known(x) == \E e \in DOMAIN memEvidence : memEvidence[e].external = x

EvidenceSelect(w, x, a, t) ==
  /\ ~Known(x)
  /\ Asks(w, [op |-> "capture", external |-> x, author |-> a, content |-> t])

(* UNIQUE (namespace, external_id).                                        *)
EvidenceInsert(w) ==
  LET r == call[w] IN
  /\ r.op = "capture"
  /\ ~Known(r.external)
  /\ Len(memEvidence) < MaxMemEvidence
  /\ memEvidence' = Append(memEvidence,
       [external |-> r.external, author |-> r.author, content |-> r.content])
  /\ Answers(w)
  /\ UNCHANGED <<memClaim, memOutcome>>

-----------------------------------------------------------------------------
(* Claims and outcomes.                                                    *)

(* _check_anchors: every anchor is of a type of the registry, and on the   *)
(* model of that type.                                                     *)
AnchorsKnown(R) == R \subseteq Registered

(* A claim names evidence that exists and at least one anchor.             *)
Propose(a, E, R) ==
  /\ Len(memClaim) < MaxMemClaims
  /\ E # {} /\ E \subseteq DOMAIN memEvidence
  /\ R # {} /\ AnchorsKnown(R)
  /\ memClaim' = Append(memClaim,
       [status |-> "candidate", author |-> a, evidence |-> E, anchors |-> R,
        by |-> Null, support |-> 0, successor |-> 0])
  /\ UNCHANGED <<memEvidence, memOutcome, call>>

ValidateSelect(w, c, v, e, h) ==
  /\ c \in DOMAIN memClaim
  /\ memClaim[c].status = "candidate"
  /\ v \in Authorised \ {memClaim[c].author}
  /\ Asks(w, [op |-> "validate", claim |-> c, author |-> memClaim[c].author,
              by |-> v, support |-> e, hash |-> h])

(* The UPDATE names the row by its id.                                     *)
ValidateUpdate(w) ==
  LET r == call[w] IN
  /\ r.op = "validate"
  /\ r.support \in DOMAIN memEvidence
  /\ memEvidence[r.support].author # r.author
  /\ r.hash \in {Null, memEvidence[r.support].content}
  /\ memClaim' = [memClaim EXCEPT
       ![r.claim].status = "validated", ![r.claim].by = r.by, ![r.claim].support = r.support]
  /\ Answers(w)
  /\ UNCHANGED <<memEvidence, memOutcome>>

(* One SELECT ... IN (old, new) has to find two rows.                      *)
SupersedeSelect(w, old, new) ==
  /\ old # new /\ {old, new} \subseteq DOMAIN memClaim
  /\ memClaim[old].status # "superseded"
  /\ Asks(w, [op |-> "supersede", old |-> old, new |-> new])

\* Mutant of SupersedeUpdate: the UPDATE names the other row.
SupersedeUpdateOfNew(w) ==
  LET r == call[w] IN
  /\ r.op = "supersede"
  /\ memClaim' = [memClaim EXCEPT
       ![r.new].status = "superseded", ![r.new].successor = r.old]
  /\ Answers(w)
  /\ UNCHANGED <<memEvidence, memOutcome>>

SupersedeUpdate(w) ==
  LET r == call[w] IN
  /\ r.op = "supersede"
  /\ memClaim' = [memClaim EXCEPT
       ![r.old].status = "superseded", ![r.old].successor = r.new]
  /\ Answers(w)
  /\ UNCHANGED <<memEvidence, memOutcome>>

(* The claim, when there is one, is a foreign key; the evidence is not.    *)
RecordOutcome(c, E) ==
  /\ Len(memOutcome) < MaxOutcomes
  /\ E # {}
  /\ c # 0 => c \in DOMAIN memClaim
  /\ memOutcome' = Append(memOutcome, [claim |-> c, evidence |-> E])
  /\ UNCHANGED <<memEvidence, memClaim, call>>

(* A failed check, a constraint, a lost connection or the end of the       *)
(* process rolls the transaction back.                                     *)
RollsBack(w) ==
  /\ call[w] # NoCall
  /\ Answers(w)
  /\ UNCHANGED <<memEvidence, memClaim, memOutcome>>

MemRequest(w) ==
  \/ \E x \in ExternalIds, a \in Authors, t \in Texts : EvidenceSelect(w, x, a, t)
  \/ \E c \in 1..MaxMemClaims, v \in Authors, e \in 1..MaxMemEvidence, h \in Texts \cup {Null} :
       ValidateSelect(w, c, v, e, h)
  \/ \E old, new \in 1..MaxMemClaims : SupersedeSelect(w, old, new)

MemCommit(w) == EvidenceInsert(w) \/ ValidateUpdate(w) \/ SupersedeUpdate(w) \/ RollsBack(w)

MemNext ==
  \/ \E w \in Callers : MemRequest(w) \/ MemCommit(w)
  \/ \E a \in Authors, E \in SUBSET (1..MaxMemEvidence), R \in SUBSET Records : Propose(a, E, R)
  \/ \E c \in 0..MaxMemClaims, E \in SUBSET (1..MaxMemEvidence) : RecordOutcome(c, E)

MemSpec == MemInit /\ [][MemNext]_memVars

-----------------------------------------------------------------------------
(* Properties.                                                             *)

(* The rows have the shape of the tables, and anchors are registered.      *)
MemTypeOK ==
  /\ memEvidence \in Seq([external : ExternalIds, author : Authors, content : Texts])
  /\ memClaim \in Seq([status : {"candidate", "validated", "superseded"},
       author : Authors, evidence : SUBSET (1..MaxMemEvidence), anchors : SUBSET Registered,
       by : Authors \cup {Null}, support : 0..MaxMemEvidence, successor : 0..MaxMemClaims])
  /\ memOutcome \in Seq([claim : 0..MaxMemClaims, evidence : SUBSET (1..MaxMemEvidence)])

(* Seen without anchors and outcomes, the adapter does what the contract   *)
(* of the memory service does, step by step.                               *)
Bare(row) == [k \in {"status", "author", "evidence", "by", "support", "successor"} |-> row[k]]

BareClaims == [c \in DOMAIN memClaim |-> Bare(memClaim[c])]

Contract == INSTANCE MemoryClaims WITH
  People <- Authors, Validators <- Authorised, Externals <- ExternalIds, Contents <- Texts,
  Threads <- Callers, None <- Null, MaxEvidence <- MaxMemEvidence, MaxClaims <- MaxMemClaims,
  evidence <- memEvidence, claim <- BareClaims, request <- call

ImplementsMemoryClaims == Contract!Spec
=============================================================================
