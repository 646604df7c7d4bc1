-------------------------------- MODULE Recall --------------------------------
(***************************************************************************)
(* A question to the memory (aipm/engine/recall.py): the items on the      *)
(* records the question names and the items that resemble it are merged    *)
(* by quotas, the records are read live from Odoo, the model narrates, and *)
(* the code keeps of the narration only what those reads support.          *)
(*                                                                         *)
(* Odoo and the memory change during a question, which is several calls of *)
(* the model long.  The model may claim anything: what is in its prompt,   *)
(* what an earlier turn said, what it invents.                             *)
(***************************************************************************)
EXTENDS Naturals, Sequences, FiniteSets, FiniteSetsExt, Functions

CONSTANTS
  ItemCount,     \* items of memory, numbered in the order of their creation
  Subjects,      \* records of Odoo
  AnchorOf,      \* the record an item is anchored to
  FieldValues,   \* values of the field that is read of a record
  Gone,          \* a record that was deleted
  TopK,          \* RECALL_TOP_K
  StructSlots,   \* RECALL_STRUCT_SLOTS
  StructLimit,   \* LIMIT of the structural query (20)
  SessionTurns,  \* SESSION_MAX_TURNS
  MaxChanges     \* bound: changes of Odoo and of the memory

Items == 1..ItemCount

ASSUME RecallAssumption ==
  /\ {ItemCount, TopK, StructSlots, StructLimit, SessionTurns, MaxChanges} \subseteq Nat
  /\ AnchorOf \in [Items -> Subjects]
  /\ Gone \notin FieldValues

VARIABLES
  live,      \* the field of each record, in Odoo
  recallable,\* items that are active
  changes,   \* changes of these two
  during,    \* values each record has had since the question was asked
  question,  \* the question under way: its step and what it holds
  turns,     \* the last answers of the session
  answer     \* the last answer: claims with their status and their support

recallVars == <<live, recallable, changes, during, question, turns, answer>>

NoQuestion == [at |-> "none"]

RecallInit ==
  /\ live \in [Subjects -> FieldValues]
  /\ recallable \in SUBSET Items
  /\ changes = 0
  /\ during = [r \in Subjects |-> {}]
  /\ question = NoQuestion
  /\ turns = <<>>
  /\ answer = {}

-----------------------------------------------------------------------------
(* Odoo and the memory.                                                    *)

OdooChanges(r, v) ==
  /\ changes < MaxChanges
  /\ live[r] \notin {v, Gone}
  /\ live' = [live EXCEPT ![r] = v]
  /\ during' = [during EXCEPT ![r] = @ \cup {v}]
  /\ changes' = changes + 1
  /\ UNCHANGED <<recallable, question, turns, answer>>

(* An item is retracted or resolved.                                       *)
Withdraws(i) ==
  /\ changes < MaxChanges
  /\ i \in recallable
  /\ recallable' = recallable \ {i}
  /\ changes' = changes + 1
  /\ UNCHANGED <<live, during, question, turns, answer>>

-----------------------------------------------------------------------------
(* answer().                                                               *)

(* The records the question names, as far as they were resolved; the       *)
(* earlier turns are part of the text they are looked for in.              *)
Asked(R) ==
  /\ question = NoQuestion
  /\ question' = [at |-> "merge", records |-> R]
  /\ during' = [r \in Subjects |-> {live[r]}]
  /\ answer' = {}
  /\ UNCHANGED <<live, recallable, changes, turns>>

(* A list of items is kept as the place of each item in it.                *)
NewestFirst(S) == [i \in S |-> Cardinality({j \in S : j > i}) + 1]

Leading(list, n) == {i \in DOMAIN list : list[i] <= n}

(* The newest active items on these records.                               *)
Structural(R) ==
  LET found == NewestFirst({i \in recallable : AnchorOf[i] \in R})
  IN Restrict(found, Leading(found, StructLimit))

\* Mutant of AddUpToTopK: the slots are not counted.
AddAll(chosen, list) == chosen \cup DOMAIN list

(* Items of a list are added one by one until there are TopK; one that is  *)
(* there already takes no further place.                                   *)
AddUpToTopK(chosen, list) ==
  chosen \cup {i \in DOMAIN list : Cardinality(chosen \cup Leading(list, list[i] - 1)) < TopK}

(* The slots of the structural items first, then what resembles the        *)
(* question, and the slots that are left go back to structural items.      *)
Merged(structural, semantic) ==
  AddUpToTopK(AddUpToTopK(Leading(structural, StructSlots), semantic), structural)

(* semantic is any ranking of active items, or empty when there are no     *)
(* embeddings.                                                             *)
Merges(semantic) ==
  /\ question.at = "merge"
  /\ LET chosen == Merged(Structural(question.records), semantic)
     IN question' = [at |-> "read", chosen |-> chosen, S |-> {},
                     records |-> question.records \cup {AnchorOf[i] : i \in chosen}]
  /\ UNCHANGED <<live, recallable, changes, during, turns, answer>>

Rankings == UNION {Bijection(S, 1..Cardinality(S)) : S \in {T \in SUBSET recallable : Cardinality(T) <= TopK}}

\* Mutant of ReadsLive: what the session has read before is kept.
ReadsLiveKeepingOld(r, ok) ==
  /\ question.at = "read"
  /\ r \in question.records
  /\ question' = [question EXCEPT
       !.records = @ \ {r},
       !.S = @ \cup {c : c \in UNION {turns[i] : i \in DOMAIN turns}}
               \cup (IF ok /\ live[r] # Gone THEN {<<r, live[r]>>} ELSE {})]
  /\ UNCHANGED <<live, recallable, changes, during, turns, answer>>

(* fetch_live, record by record: the records of a model are read with one  *)
(* call, and a call that fails leaves its records out.                     *)
ReadsLive(r, ok) ==
  /\ question.at = "read"
  /\ r \in question.records
  /\ question' = [question EXCEPT
       !.records = @ \ {r},
       !.S = IF ok /\ live[r] # Gone THEN @ \cup {<<r, live[r]>>} ELSE @]
  /\ UNCHANGED <<live, recallable, changes, during, turns, answer>>

(* _postvalidate_claims: a support counts if it was read, or if it is an   *)
(* item that was chosen; the status is the code's.                         *)
Validated(cited, items) ==
  LET odoo == cited \cap question.S
      memory == items \cap question.chosen
  IN IF odoo = {} /\ memory = {} THEN {}
     ELSE {[status |-> IF odoo # {} THEN "fact" ELSE "hypothesis",
            odoo |-> odoo, memory |-> memory]}

(* A claim of the narration; without a valid narration there is none.      *)
Narrates(cited, items) ==
  /\ question.at = "read" /\ question.records = {}
  /\ answer' = Validated(cited, items)
  /\ turns' = LET t == Append(turns, UNION {c.odoo : c \in answer'})
              IN SubSeq(t, Max({1, Len(t) - SessionTurns + 1}), Len(t))
  /\ question' = NoQuestion
  /\ UNCHANGED <<live, recallable, changes, during>>

(* Odoo, the database or the model fails where nothing catches it.         *)
QuestionFails ==
  /\ question # NoQuestion
  /\ question' = NoQuestion
  /\ UNCHANGED <<live, recallable, changes, during, turns, answer>>

(* The process ends: sessions are in its memory.                           *)
RecallRestarts ==
  /\ question' = NoQuestion
  /\ turns' = <<>>
  /\ answer' = {}
  /\ UNCHANGED <<live, recallable, changes, during>>

RecallNext ==
  \/ \E r \in Subjects, v \in FieldValues \cup {Gone} : OdooChanges(r, v)
  \/ \E i \in Items : Withdraws(i)
  \/ \E R \in SUBSET Subjects : Asked(R)
  \/ \E semantic \in Rankings : Merges(semantic)
  \/ \E r \in Subjects, ok \in BOOLEAN : ReadsLive(r, ok)
  \/ \E cited \in SUBSET (Subjects \X FieldValues), items \in SUBSET Items : Narrates(cited, items)
  \/ QuestionFails \/ RecallRestarts

RecallSpec == RecallInit /\ [][RecallNext]_recallVars

-----------------------------------------------------------------------------
(* Properties.                                                             *)

RecallTypeOK ==
  /\ live \in [Subjects -> FieldValues \cup {Gone}]
  /\ recallable \subseteq Items
  /\ changes \in 0..MaxChanges
  /\ during \in [Subjects -> SUBSET (FieldValues \cup {Gone})]
  /\ question.at \in {"none", "merge", "read"}
  /\ question.at = "read" => /\ question.chosen \subseteq Items
                             /\ \/ Cardinality(question.chosen) <= TopK
                                \/ Cardinality(question.chosen) <= StructSlots
  /\ Len(turns) <= SessionTurns
  /\ \A c \in answer : c.status \in {"fact", "hypothesis"}

(* A claim shown as a fact cites a value that Odoo held during this very   *)
(* question, never one an earlier turn read or the model invented, and     *)
(* a claim without such a value is a hypothesis (PLAN_AIPM_V1.md I2).      *)
GroundedAnswers ==
  \A c \in answer :
    /\ (c.status = "fact") = (c.odoo # {})
    /\ \A s \in c.odoo : s[2] \in during[s[1]]
=============================================================================
