-------------------------------- MODULE Digest --------------------------------
(***************************************************************************)
(* The reports of aipm (aipm/reports/queries.py) and the digest made of    *)
(* them (aipm/reports/digest.py), which a scheduled script asks for and    *)
(* prints for delivery (templates/aipm-digest.py).  The digest reads what  *)
(* was sent, then each report in a transaction of its own, then marks what *)
(* it is about to answer.  Memory and Odoo change meanwhile; the script    *)
(* gives up after a minute, and the digest it gave up on goes on.          *)
(***************************************************************************)
EXTENDS Naturals, Sequences, FiniteSets, Functions

CONSTANTS
  Commitments,    \* items of memory: commitments
  Questions,      \* and open questions
  Strangers,      \* names outside Odoo
  Dates,          \* terms close enough to be reported
  NoDate,         \* no term
  Digests,        \* digests under way at a time
  MaxEdits,       \* bound: changes of memory and Odoo
  MaxDeliveries   \* bound: digests the script printed

ASSUME DigestAssumption ==
  NoDate \notin Dates /\ MaxEdits \in Nat /\ MaxDeliveries \in Nat

VARIABLES
  term,       \* the term of each commitment
  owned,      \* commitments with an owner
  closed,     \* commitments whose subject is closed in Odoo
  active,    \* questions and names that have been open, or named, long enough
  edits,      \* changes of these four so far
  sent,       \* report_sent
  digest,     \* digest[d]: a digest being built
  script,     \* the digest the script waits for, if any
  delivered   \* the elements of each digest the script printed

digestVars == <<term, owned, closed, active, edits, sent, digest, script, delivered>>

memoryVars == <<term, owned, closed, active, edits>>

Sections == <<"due_soon", "commitments_missing", "stale_questions", "external_recurring">>

(* An element is a report, an item, and the term or what is missing.       *)
Elements == [report : {Sections[n] : n \in DOMAIN Sections},
             item : Commitments \cup Questions \cup Strangers,
             key : Dates \cup {NoDate, "due", "owner"}]

Ended == [at |-> 0]

DigestInit ==
  /\ term \in [Commitments -> Dates \cup {NoDate}]
  /\ owned \in SUBSET Commitments /\ closed = {}
  /\ active = Commitments \cup Questions \cup Strangers
  /\ edits = 0
  /\ sent = {}
  /\ digest = [d \in Digests |-> Ended]
  /\ script = {}
  /\ delivered = <<>>

-----------------------------------------------------------------------------
(* The reports.                                                            *)

Element(report, item, key) == [report |-> report, item |-> item, key |-> key]

(* Odoo is asked which subjects are closed; without an answer nothing is   *)
(* left out and the report says that it is degraded.                       *)
Open(degraded) == (Commitments \cap active) \ (IF degraded THEN {} ELSE closed)

DueSoon(degraded) ==
  {Element("due_soon", c, term[c]) : c \in {i \in Open(degraded) : term[i] # NoDate}}

CommitmentsMissing(degraded) ==
  {Element("commitments_missing", c, "due") : c \in {i \in Open(degraded) : term[i] = NoDate}}
  \cup {Element("commitments_missing", c, "owner") : c \in Open(degraded) \ owned}

StaleQuestions == {Element("stale_questions", q, NoDate) : q \in Questions \cap active}

ExternalRecurring == {Element("external_recurring", x, NoDate) : x \in Strangers \cap active}

Report(n, degraded) ==
  CASE n = 1 -> DueSoon(degraded)
    [] n = 2 -> CommitmentsMissing(degraded)
    [] n = 3 -> StaleQuestions
    [] n = 4 -> ExternalRecurring

-----------------------------------------------------------------------------
(* Memory and Odoo.                                                        *)

MemoryChanges ==
  /\ edits < MaxEdits
  /\ edits' = edits + 1
  /\ \/ /\ \E c \in Commitments, t \in Dates \cup {NoDate} : term' = [term EXCEPT ![c] = t]
        /\ UNCHANGED <<owned, closed, active>>
     \/ /\ \E c \in Commitments : owned' \in {owned \cup {c}, owned \ {c}}
        /\ UNCHANGED <<term, closed, active>>
     \/ /\ \E c \in Commitments : closed' \in {closed \cup {c}, closed \ {c}}
        /\ UNCHANGED <<term, owned, active>>
     \/ /\ \E x \in Commitments \cup Questions \cup Strangers : active' \in {active \cup {x}, active \ {x}}
        /\ UNCHANGED <<term, owned, closed>>
  /\ UNCHANGED <<sent, digest, script, delivered>>

-----------------------------------------------------------------------------
(* build_digest.                                                           *)

(* The script asks for a digest that marks, anybody for a preview.         *)
Begins(d, mark) ==
  /\ digest[d] = Ended
  /\ mark => script = {}
  /\ digest' = [digest EXCEPT ![d] =
       [at |-> 1, mark |-> mark, sent |-> sent, fresh |-> {}]]
  /\ script' = IF mark THEN {d} ELSE script
  /\ UNCHANGED <<memoryVars, sent, delivered>>

Running(d) == digest[d].at > 0

\* Mutant of ReadsSection: what was sent is not left out of a report.
ReadsWholeSection(d, degraded) ==
  /\ digest[d].at \in DOMAIN Sections
  /\ degraded => digest[d].at \in {1, 2}
  /\ digest' = [digest EXCEPT ![d].at = @ + 1, ![d].fresh = @ \cup Report(digest[d].at, degraded)]
  /\ UNCHANGED <<memoryVars, sent, script, delivered>>

ReadsSection(d, degraded) ==
  /\ digest[d].at \in DOMAIN Sections
  /\ degraded => digest[d].at \in {1, 2}
  /\ digest' = [digest EXCEPT
       ![d].at = @ + 1,
       ![d].fresh = @ \cup (Report(digest[d].at, degraded) \ digest[d].sent)]
  /\ UNCHANGED <<memoryVars, sent, script, delivered>>

(* INSERT ... ON CONFLICT DO NOTHING, for a digest that marks.             *)
Marks(d) ==
  /\ digest[d].at = Len(Sections) + 1
  /\ sent' = IF digest[d].mark THEN sent \cup digest[d].fresh ELSE sent
  /\ digest' = [digest EXCEPT ![d].at = @ + 1]
  /\ UNCHANGED <<memoryVars, script, delivered>>

(* The answer; the script, if it still waits, prints what is new.          *)
DigestAnswers(d) ==
  /\ digest[d].at = Len(Sections) + 2
  /\ digest' = [digest EXCEPT ![d] = Ended]
  /\ IF d \in script
     THEN /\ Len(delivered) < MaxDeliveries
          /\ script' = {}
          /\ delivered' = IF digest[d].fresh = {} THEN delivered
                          ELSE Append(delivered, digest[d].fresh)
     ELSE UNCHANGED <<script, delivered>>
  /\ UNCHANGED <<memoryVars, sent>>

(* urlopen gives up: the script reports it, aipm does not notice.          *)
ScriptGivesUp ==
  /\ script # {}
  /\ script' = {}
  /\ UNCHANGED <<memoryVars, sent, digest, delivered>>

(* aipm ends, or a report fails: nothing of that digest is marked.         *)
DigestDies(d) ==
  /\ Running(d)
  /\ digest' = [digest EXCEPT ![d] = Ended]
  /\ script' = script \ {d}
  /\ UNCHANGED <<memoryVars, sent, delivered>>

DigestNext ==
  \/ MemoryChanges
  \/ \E d \in Digests :
       \/ \E mark \in BOOLEAN : Begins(d, mark)
       \/ \E degraded \in BOOLEAN : ReadsSection(d, degraded)
       \/ Marks(d) \/ DigestAnswers(d) \/ DigestDies(d)
  \/ ScriptGivesUp

DigestSpec == DigestInit /\ [][DigestNext]_digestVars

-----------------------------------------------------------------------------
(* Properties.                                                             *)

DigestTypeOK ==
  /\ term \in [Commitments -> Dates \cup {NoDate}]
  /\ owned \subseteq Commitments /\ closed \subseteq Commitments
  /\ active \subseteq Commitments \cup Questions \cup Strangers
  /\ edits \in 0..MaxEdits
  /\ sent \subseteq Elements
  /\ \A d \in Digests : digest[d] = Ended \/
       digest[d] \in [at : 1..6, mark : BOOLEAN, sent : SUBSET Elements, fresh : SUBSET Elements]
  /\ script \subseteq Digests /\ Cardinality(script) <= 1
  /\ delivered \in Seq(SUBSET Elements)

(* An element that was delivered is on record and is not delivered again,  *)
(* although a digest that was given up may mark while the next one is      *)
(* built (0006_report_sent.sql:2, aipm/tests/test_digest.py:36).           *)
AnnouncedOnce ==
  /\ UNION Range(delivered) \subseteq sent
  /\ \A m, n \in DOMAIN delivered : m # n => delivered[m] \cap delivered[n] = {}
=============================================================================
