---------------------------- MODULE MCOrganisation ----------------------------
(***************************************************************************)
(* Instances, for TLC, of the seven services around the orchestrator that  *)
(* are modelled each on its own.  They share no variable, so each of them  *)
(* is explored alone: the initial state picks one, and the others stay as  *)
(* they started.                                                           *)
(***************************************************************************)
EXTENDS MemoryAdapter, EmailBridge, Provenance, AdminQueue, Digest, Anchoring, Recall, TLC

VARIABLE service

otherVars == <<emailVars, provVars, adminVars, digestVars, anchoringVars, recallVars>>
vars == <<memVars, otherVars, service>>

(* A service that is not picked starts in one state.                       *)
Init ==
  /\ service \in {"memory", "email", "provenance", "admin", "digest", "anchoring", "recall"}
  /\ MemInit /\ EmailInit /\ ProvInit /\ AdminInit /\ DigestInit /\ AnchoringInit /\ RecallInit
  /\ service # "email" => mapped = {}
  /\ service # "digest" => owned = {} /\ \A c \in Commitments : term[c] = NoDate
  /\ service # "recall" => recallable = {} /\ \A r \in Subjects : live[r] = "v"

Next ==
  \/ /\ service = "memory" /\ MemNext
     /\ UNCHANGED <<otherVars, service>>
  \/ /\ service = "email" /\ EmailNext
     /\ UNCHANGED <<memVars, provVars, adminVars, digestVars, anchoringVars, recallVars, service>>
  \/ /\ service = "provenance" /\ ProvNext
     /\ UNCHANGED <<memVars, emailVars, adminVars, digestVars, anchoringVars, recallVars, service>>
  \/ /\ service = "admin" /\ AdminNext
     /\ UNCHANGED <<memVars, emailVars, provVars, digestVars, anchoringVars, recallVars, service>>
  \/ /\ service = "digest" /\ DigestNext
     /\ UNCHANGED <<memVars, emailVars, provVars, adminVars, anchoringVars, recallVars, service>>
  \/ /\ service = "anchoring" /\ AnchoringNext
     /\ UNCHANGED <<memVars, emailVars, provVars, adminVars, digestVars, recallVars, service>>
  \/ /\ service = "recall" /\ RecallNext
     /\ UNCHANGED <<memVars, emailVars, provVars, adminVars, digestVars, anchoringVars, service>>

Spec == Init /\ [][Next]_vars

-----------------------------------------------------------------------------
(* Five mails of two senders in two threads; the third is private.         *)
MailSenders == <<"ana", "bob", "ana", "ana", "bob">>
MailRoots == <<1, 1, 1, 4, 4>>

(* Changes of two fields of a task, of an initiative, and of a record no   *)
(* detector can anchor; the rules leave one field out.                     *)
ChangeRecords == <<"task", "initiative", "task", "project">>

(* An employee is never the subject; an observation has no owner.          *)
KindSubjects == [k \in Kinds |->
  IF k = "commitment" THEN {"PARTNER", "TASK"} ELSE {"TASK"}]
AcceptScores == [t \in Types |-> 2]
ReviewScores == [t \in Types |-> 1]

(* Two items on one record, one on another.                                *)
ItemAnchors == <<"r1", "r2", "r1">>

-----------------------------------------------------------------------------
(* The variables of every service have their types.                        *)
OrganisationTypeOK ==
  /\ MemTypeOK /\ EmailTypeOK /\ ProvTypeOK /\ AdminTypeOK
  /\ DigestTypeOK /\ AnchoringTypeOK /\ RecallTypeOK
=============================================================================
