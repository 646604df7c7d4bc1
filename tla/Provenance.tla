------------------------------ MODULE Provenance ------------------------------
(***************************************************************************)
(* Provenance gaps: changes of material fields that no claim of the        *)
(* memory accounts for (runner/detector_d1.py, the commands of             *)
(* pmorg_orchestrator_api.py it calls, pmorg_provenance.py).               *)
(*                                                                         *)
(* A detector lists the changes once, then asks the memory about each and  *)
(* records a gap when it has no claim.  A command is a transaction of      *)
(* Odoo; the search and the insert of one are two actions, because the     *)
(* command of another detector can commit between them.                    *)
(***************************************************************************)
EXTENDS Naturals, Sequences, FiniteSets, FiniteSetsExt

CONSTANTS
  Effects,     \* tracked changes 1..n; a number is the id of the row and of its message
  RecordOf,    \* the record a change is of
  Watched,     \* changes of a model that some rule names
  Material,    \* those whose field a rule names
  Anchorable,  \* records of the models in ANCHOR_FOR_MODEL
  TaskRecords, \* records of project.task
  Detectors,   \* runs of the detector under way at a time
  ListLimit,   \* rows the list goes through (500)
  Refs,        \* references of memory
  NoRef        \* no reference given

ASSUME ProvenanceAssumption ==
  /\ Effects \subseteq Nat /\ IsFiniteSet(Effects)
  /\ DOMAIN RecordOf = Effects
  /\ Material \subseteq Watched /\ Watched \subseteq Effects
  /\ ListLimit \in Nat
  /\ NoRef \notin Refs

VARIABLES
  changed,    \* changes made so far
  remembered, \* records with a claim in memory
  gap,        \* the table of gaps
  gapEvents,  \* outbox: gaps on tasks whose resolution was emitted
  detector    \* detector[d]: the changes it has still to look at, and where it is

provVars == <<changed, remembered, gap, gapEvents, detector>>

Resting == [at |-> "rest", todo |-> {}]

ProvInit ==
  /\ changed = {} /\ remembered = {}
  /\ gap = <<>> /\ gapEvents = <<>>
  /\ detector = [d \in Detectors |-> Resting]

(* Odoo numbers the tracking rows as they are written.                     *)
Changes(e) ==
  /\ e \in Effects \ changed
  /\ \A f \in changed : f < e
  /\ changed' = changed \cup {e}
  /\ UNCHANGED <<remembered, gap, gapEvents, detector>>

Remembers(r) ==
  /\ r \notin remembered
  /\ remembered' = remembered \cup {r}
  /\ UNCHANGED <<changed, gap, gapEvents, detector>>

(* list_material_changes: the limit counts the rows of the model, the      *)
(* field is looked at afterwards.                                          *)
Listed ==
  LET rows == changed \cap Watched
  IN {e \in rows : Cardinality({f \in rows : f < e}) < ListLimit} \cap Material

Lists(d) ==
  /\ detector[d] = Resting
  /\ detector' = [detector EXCEPT ![d] =
       [at |-> "recall", todo |-> {e \in Listed : RecordOf[e] \in Anchorable}]]
  /\ UNCHANGED <<changed, remembered, gap, gapEvents>>

Current(d) == Min(detector[d].todo)

Passes(d) == detector' = [detector EXCEPT ![d] =
  [at |-> "recall", todo |-> detector[d].todo \ {Current(d)}]]

(* memory_recall: any claim on the record covers the change.               *)
Recalls(d) ==
  /\ detector[d].at = "recall" /\ detector[d].todo # {}
  /\ IF RecordOf[Current(d)] \in remembered
     THEN Passes(d)
     ELSE detector' = [detector EXCEPT ![d].at = "record"]
  /\ UNCHANGED <<changed, remembered, gap, gapEvents>>

HasGap(e) == \E g \in DOMAIN gap : gap[g].effect = e

(* record_provenance_gap finds a gap, whatever its status, and answers it; *)
(* or goes on to insert one.                                               *)
RecordSearch(d) ==
  /\ detector[d].at = "record"
  /\ IF HasGap(Current(d))
     THEN Passes(d)
     ELSE detector' = [detector EXCEPT ![d].at = "insert"]
  /\ UNCHANGED <<changed, remembered, gap, gapEvents>>

\* Mutant of RecordInsert: the table has no UNIQUE constraint.
RecordInsertWithoutUnique(d) ==
  /\ detector[d].at = "insert"
  /\ gap' = Append(gap, [effect |-> Current(d), status |-> "open", ref |-> NoRef])
  /\ Passes(d)
  /\ UNCHANGED <<changed, remembered, gapEvents>>

RecordInsert(d) ==
  /\ detector[d].at = "insert"
  /\ ~HasGap(Current(d))
  /\ gap' = Append(gap, [effect |-> Current(d), status |-> "open", ref |-> NoRef])
  /\ Passes(d)
  /\ UNCHANGED <<changed, remembered, gapEvents>>

(* The list is done, or a call failed: UNIQUE, the network, the process.   *)
DetectorEnds(d) ==
  /\ detector[d] # Resting
  /\ detector' = [detector EXCEPT ![d] = Resting]
  /\ UNCHANGED <<changed, remembered, gap, gapEvents>>

(* resolve_gap: only an open gap, and an explanation names its memory.     *)
ResolveGap(g, resolution, ref) ==
  /\ g \in DOMAIN gap
  /\ gap[g].status = "open"
  /\ resolution = "explained" => ref # NoRef
  /\ gap' = [gap EXCEPT ![g].status = resolution, ![g].ref = ref]
  /\ gapEvents' = IF RecordOf[gap[g].effect] \in TaskRecords
                  THEN Append(gapEvents, g) ELSE gapEvents
  /\ UNCHANGED <<changed, remembered, detector>>

ProvNext ==
  \/ \E e \in Effects : Changes(e) \/ Remembers(RecordOf[e])
  \/ \E d \in Detectors :
       \/ Lists(d) \/ Recalls(d) \/ RecordSearch(d)
       \/ RecordInsert(d) \/ DetectorEnds(d)
  \/ \E g \in DOMAIN gap, ref \in Refs \cup {NoRef} :
       ResolveGap(g, "explained", ref) \/ ResolveGap(g, "dismissed", ref)

ProvSpec == ProvInit /\ [][ProvNext]_provVars

-----------------------------------------------------------------------------
(* Properties.                                                             *)

ProvTypeOK ==
  /\ changed \subseteq Effects
  /\ remembered \subseteq {RecordOf[e] : e \in Effects}
  /\ gap \in Seq([effect : Effects, status : {"open", "explained", "dismissed"},
                  ref : Refs \cup {NoRef}])
  /\ gapEvents \in Seq(DOMAIN gap)
  /\ detector \in [Detectors -> [at : {"rest", "recall", "record", "insert"},
                                 todo : SUBSET Effects]]

(* A question a person has answered stays answered: the gap keeps its      *)
(* answer, and no detector, however late or repeated, opens another gap    *)
(* for that change (08-MEMORY-CHANNELS §2.3; test_provenance.py:61-78).    *)
AnsweredGapsStay ==
  [][\A g \in DOMAIN gap : gap[g].status # "open" =>
       /\ gap'[g] = gap[g]
       /\ \A h \in DOMAIN gap' : gap'[h].effect = gap[g].effect => h = g]_provVars
=============================================================================
