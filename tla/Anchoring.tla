------------------------------ MODULE Anchoring ------------------------------
(***************************************************************************)
(* How one item of a message gets its anchors in Odoo (extraction.py and   *)
(* resolution.py of aipm/engine; the insertion in pipeline.py and the      *)
(* triggers of 0001_init.sql).  The model names entities with a role and   *)
(* perhaps a type, the code normalises them, searches Odoo for candidates, *)
(* has the model score them, and keeps for each entity an anchor, a note   *)
(* that it is outside Odoo, or nothing.  What the model answers and what   *)
(* Odoo finds is arbitrary; what the tables accept is not.                 *)
(***************************************************************************)
EXTENDS Naturals, Sequences, FiniteSets, FiniteSetsExt, SequencesExt

CONSTANTS
  Kinds,         \* kinds of item; "commitment" is the one that has an owner
  Types,         \* active types of anchor (anchor_type)
  OwnerTypes,    \* PARTNER, EMPLOYEE
  SubjectTypes,  \* kind_subject_allowed: [Kinds -> SUBSET Types]
  Unlisted,      \* a hint that is not in the inventory
  NoHint,        \* null
  Scores,        \* scores, as numbers
  Accept,        \* accept_threshold of each type
  Review,        \* review_threshold of each type
  MaxEntities    \* bound: entities of an item (10)

ASSUME AnchoringAssumption ==
  /\ SubjectTypes \in [Kinds -> SUBSET Types]
  /\ OwnerTypes \subseteq Types
  /\ Unlisted \notin Types /\ NoHint \notin Types
  /\ Scores \subseteq Nat
  /\ Accept \in [Types -> Nat] /\ Review \in [Types -> Nat]
  /\ \A t \in Types : Review[t] <= Accept[t]
  /\ MaxEntities \in Nat

Roles == {"subject", "owner", "mentions"}

RawEntities == [role : Roles, hint : Types \cup {Unlisted, NoHint}]

VARIABLES
  item,        \* its kind, the step it is at, and what became of it
  entity,      \* the entities, normalised
  candidates,  \* what Odoo found for each; one record stands for a type
  resolution   \* what each entity has become

anchoringVars == <<item, entity, candidates, resolution>>

Nothing == [to |-> "dropped"]
Outside == [to |-> "external"]

AnchoringInit ==
  /\ item = [at |-> "extract"]
  /\ entity = <<>> /\ candidates = <<>> /\ resolution = <<>>

-----------------------------------------------------------------------------
(* _normalize_items.                                                       *)

EarlierRole(raw, i, role) == \E j \in 1..(i - 1) : raw[j].role = role

\* Mutant of NormalRole: a second subject stays a subject.
NormalRoleManySubjects(kind, raw, i) ==
  IF raw[i].role = "owner" /\ (kind # "commitment" \/ EarlierRole(raw, i, "owner"))
  THEN "mentions" ELSE raw[i].role

(* One subject; one owner, and only of a commitment; the others are        *)
(* mentions.                                                               *)
NormalRole(kind, raw, i) ==
  CASE raw[i].role = "subject" /\ EarlierRole(raw, i, "subject") -> "mentions"
    [] raw[i].role = "owner" /\ (kind # "commitment" \/ EarlierRole(raw, i, "owner")) -> "mentions"
    [] OTHER -> raw[i].role

Normalised(kind, raw) == [i \in DOMAIN raw |->
  [role |-> NormalRole(kind, raw, i),
   hint |-> IF raw[i].hint \in Types THEN raw[i].hint ELSE NoHint]]

Extracts(kind, raw) ==
  /\ item.at = "extract"
  /\ item' = [at |-> "search", kind |-> kind]
  /\ entity' = Normalised(kind, raw)
  /\ UNCHANGED <<candidates, resolution>>

-----------------------------------------------------------------------------
(* resolve_entities.                                                       *)

(* _candidate_types: a hint outside the types the role allows is no hint.  *)
CandidateTypes(kind, e) ==
  LET allowed == CASE e.role = "owner" -> OwnerTypes
                   [] e.role = "subject" -> SubjectTypes[kind]
                   [] e.role = "mentions" -> Types
  IN IF e.hint \in allowed THEN {e.hint} ELSE allowed

(* Odoo finds candidates of any of these types, or of none.                *)
Searches(found) ==
  /\ item.at = "search"
  /\ found \in [DOMAIN entity -> SUBSET Types]
  /\ \A i \in DOMAIN entity : found[i] \subseteq CandidateTypes(item.kind, entity[i])
  /\ candidates' = found
  /\ item' = [item EXCEPT !.at = "score"]
  /\ UNCHANGED <<entity, resolution>>

(* The best of the scores the model gave to real candidates.               *)
Resolved(i, t, s) ==
  IF s < Review[t] THEN Nothing
  ELSE [to |-> "anchor", type |-> t, confidence |-> s, review |-> s < Accept[t]]

(* One call scores all of them; an entity the answer leaves out, or whose  *)
(* best score is for a record that was not a candidate, is dropped.        *)
Outcomes(i) ==
  IF candidates[i] = {} THEN {Outside}
  ELSE {Nothing} \cup {Resolved(i, t, s) : t \in candidates[i], s \in Scores}

Rescores ==
  /\ item.at = "score"
  /\ resolution' \in {r \in [DOMAIN entity -> UNION {Outcomes(i) : i \in DOMAIN entity}] :
       \A i \in DOMAIN entity : r[i] \in Outcomes(i)}
  /\ item' = [item EXCEPT !.at = "insert"]
  /\ UNCHANGED <<entity, candidates>>

(* After the repair the answer is still invalid: only names outside Odoo   *)
(* are kept.                                                               *)
RescoreInvalid ==
  /\ item.at = "score"
  /\ resolution' = [i \in DOMAIN entity |-> IF candidates[i] = {} THEN Outside ELSE Nothing]
  /\ item' = [item EXCEPT !.at = "insert"]
  /\ UNCHANGED <<entity, candidates>>

-----------------------------------------------------------------------------
(* The insertion, in a savepoint.                                          *)

Anchored == {i \in DOMAIN resolution : resolution[i].to = "anchor"}

OfRole(role) == {i \in Anchored : entity[i].role = role}

(* memory_anchor_role_check and the two partial unique indexes.            *)
TablesAccept ==
  /\ Cardinality(OfRole("subject")) <= 1
  /\ Cardinality(OfRole("owner")) <= 1
  /\ \A i \in OfRole("subject") : resolution[i].type \in SubjectTypes[item.kind]
  /\ \A i \in OfRole("owner") : item.kind = "commitment" /\ resolution[i].type \in OwnerTypes

Inserts ==
  /\ item.at = "insert"
  /\ item' = [item EXCEPT !.at = IF TablesAccept THEN "stored" ELSE "thrown"]
  /\ UNCHANGED <<entity, candidates, resolution>>

(* The next item of the message, or the next message.                      *)
NextItem ==
  /\ item.at \in {"stored", "thrown"}
  /\ item' = [at |-> "extract"]
  /\ entity' = <<>> /\ candidates' = <<>> /\ resolution' = <<>>

AnchoringNext ==
  \/ \E kind \in Kinds, n \in 0..MaxEntities : \E raw \in [1..n -> RawEntities] :
       Extracts(kind, raw)
  \/ \E found \in [DOMAIN entity -> SUBSET Types] : Searches(found)
  \/ Rescores \/ RescoreInvalid \/ Inserts \/ NextItem

AnchoringSpec == AnchoringInit /\ [][AnchoringNext]_anchoringVars

-----------------------------------------------------------------------------
(* Properties.                                                             *)

AnchoringTypeOK ==
  /\ item.at \in {"extract", "search", "score", "insert", "stored", "thrown"}
  /\ item.at # "extract" => item.kind \in Kinds
  /\ entity \in Seq([role : Roles, hint : Types \cup {NoHint}])
  /\ \A i \in DOMAIN candidates : candidates[i] \subseteq Types
  /\ \A i \in DOMAIN resolution : resolution[i] \in {Nothing, Outside} \cup
       [to : {"anchor"}, type : Types, confidence : Scores, review : BOOLEAN]

(* Whatever the model answers, the anchors the code makes pass the         *)
(* triggers and the indexes of the table, so that no item is thrown away   *)
(* for them; and none is below the review threshold of its type            *)
(* (PLAN_AIPM_V1.md I3).                                                   *)
AnchorsAccepted ==
  /\ item.at # "thrown"
  /\ \A i \in Anchored : resolution[i].confidence >= Review[resolution[i].type]
=============================================================================
