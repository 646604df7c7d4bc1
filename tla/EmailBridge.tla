----------------------------- MODULE EmailBridge -----------------------------
(***************************************************************************)
(* The channel that reads a mailbox into the organisational memory         *)
(* (channels/email/imap_bridge.py).  A run goes through the mailbox from   *)
(* its first mail: the gate of privacy, the identity of the sender, the    *)
(* window of the thread, the model, one row of evidence and one claim for  *)
(* each item.  A run that fails leaves what it wrote and a later run       *)
(* starts over, with no thread in its memory.                              *)
(*                                                                         *)
(* A mail stands for its Message-ID and for what strip_reply_and_signature *)
(* leaves of its text.  Its patterns know some forms of a quote: what else *)
(* a mail quotes goes with it as its own, and is not modelled.             *)
(***************************************************************************)
EXTENDS Naturals, Sequences, SequencesExt

CONSTANTS
  MailCount,      \* mails in the mailbox, in the order of the search; a run over
                  \* none only reads the people and ends
  Senders,        \* addresses
  SenderOf,       \* the address a mail comes from
  RootOf,         \* the first mail of its thread
  PrivateMails,   \* mails with a term of DENYLIST
  Window,         \* earlier mails of a thread the model is shown (3)
  MaxItems,       \* bound: items the model extracts from a mail
  MaxMailClaims   \* bound: claims of the channel

Mails == 1..MailCount

ASSUME EmailAssumption ==
  /\ MailCount \in Nat \ {0}
  /\ SenderOf \in [Mails -> Senders]
  /\ RootOf \in [Mails -> Mails]
  /\ PrivateMails \subseteq Mails
  /\ {Window, MaxItems} \subseteq Nat

VARIABLES
  mapped,        \* senders with an identity in Odoo
  reading,       \* the mail the run is at, 0 while no run is under way
  stage,         \* where in process() the run is
  itemsLeft,     \* claims still to propose for this mail
  thread,        \* Bridge.threads
  shown,         \* every mail whose text was ever sent to the model
  mailEvidence,  \* mails with a row of evidence
  mailClaims     \* mails of the claims, in the order of the proposals

emailVars == <<mapped, reading, stage, itemsLeft, thread, shown, mailEvidence, mailClaims>>

NoThreads == [m \in Mails |-> <<>>]

EmailInit ==
  /\ mapped \in SUBSET Senders
  /\ reading = 0 /\ stage = "idle" /\ itemsLeft = 0
  /\ thread = NoThreads
  /\ shown = {} /\ mailEvidence = {} /\ mailClaims = <<>>

(* Somebody creates the identity of a sender.                              *)
MapSender(s) ==
  /\ s \notin mapped
  /\ mapped' = mapped \cup {s}
  /\ UNCHANGED <<reading, stage, itemsLeft, thread, shown, mailEvidence, mailClaims>>

Identified(m) == SenderOf[m] \in mapped

RunStarts ==
  /\ stage = "idle"
  /\ reading' = 1 /\ stage' = "gates"
  /\ thread' = NoThreads
  /\ UNCHANGED <<mapped, itemsLeft, shown, mailEvidence, mailClaims>>

(* The next mail, or the end of the run.                                   *)
Proceeds ==
  /\ reading' = IF reading = MailCount THEN 0 ELSE reading + 1
  /\ stage' = IF reading = MailCount THEN "idle" ELSE "gates"

(* A term of the denylist, or no identity: a line of the report only.      *)
Refuses ==
  /\ stage = "gates"
  /\ reading \in PrivateMails \/ ~Identified(reading)
  /\ Proceeds
  /\ UNCHANGED <<mapped, itemsLeft, thread, shown, mailEvidence, mailClaims>>

\* Mutant of Admits: the mail joins its thread before the gates.
AdmitsAfterThread ==
  LET root == RootOf[reading] IN
  /\ stage = "gates"
  /\ thread' = [thread EXCEPT ![root] = Append(@, reading)]
  /\ \/ /\ reading \in PrivateMails \/ ~Identified(reading)
        /\ Proceeds
        /\ UNCHANGED shown
     \/ /\ reading \notin PrivateMails /\ Identified(reading)
        /\ stage' = "extract"
        /\ shown' = shown \cup {reading} \cup {thread[root][i] :
             i \in {j \in DOMAIN thread[root] : j > Len(thread[root]) - Window}}
        /\ UNCHANGED reading
  /\ UNCHANGED <<mapped, itemsLeft, mailEvidence, mailClaims>>

(* Past the gates the mail joins its thread, and the model gets the text   *)
(* of it and of the last ones of the thread.                               *)
Admits ==
  LET root == RootOf[reading] IN
  /\ stage = "gates"
  /\ reading \notin PrivateMails
  /\ Identified(reading)
  /\ shown' = shown \cup {reading} \cup {thread[root][i] :
       i \in {j \in DOMAIN thread[root] : j > Len(thread[root]) - Window}}
  /\ thread' = [thread EXCEPT ![root] = Append(@, reading)]
  /\ stage' = "extract"
  /\ UNCHANGED <<mapped, reading, itemsLeft, mailEvidence, mailClaims>>

(* The items of the answer; evidence already captured is a replay.         *)
CapturesMail(n) ==
  /\ stage = "extract"
  /\ mailEvidence' = mailEvidence \cup {reading}
  /\ itemsLeft' = n
  /\ stage' = "propose"
  /\ UNCHANGED <<mapped, reading, thread, shown, mailClaims>>

ProposesItem ==
  /\ stage = "propose"
  /\ itemsLeft > 0
  /\ Len(mailClaims) < MaxMailClaims
  /\ mailClaims' = Append(mailClaims, reading)
  /\ itemsLeft' = itemsLeft - 1
  /\ UNCHANGED <<mapped, reading, stage, thread, shown, mailEvidence>>

Processed ==
  /\ stage = "propose"
  /\ itemsLeft = 0
  /\ Proceeds
  /\ UNCHANGED <<mapped, itemsLeft, thread, shown, mailEvidence, mailClaims>>

(* The model, Odoo or the memory does not answer, or the process ends:     *)
(* nothing in process() catches it.                                        *)
RunDies ==
  /\ stage # "idle"
  /\ reading' = 0 /\ stage' = "idle" /\ itemsLeft' = 0
  /\ thread' = NoThreads
  /\ UNCHANGED <<mapped, shown, mailEvidence, mailClaims>>

EmailNext ==
  \/ \E s \in Senders : MapSender(s)
  \/ RunStarts \/ Refuses \/ Admits
  \/ \E n \in 0..MaxItems : CapturesMail(n)
  \/ ProposesItem \/ Processed \/ RunDies

EmailSpec == EmailInit /\ [][EmailNext]_emailVars

-----------------------------------------------------------------------------
(* Properties.                                                             *)

EmailTypeOK ==
  /\ mapped \subseteq Senders
  /\ reading \in 0..MailCount
  /\ stage \in {"idle", "gates", "extract", "propose"}
  /\ itemsLeft \in 0..MaxItems
  /\ thread \in [Mails -> Seq(Mails)]
  /\ shown \subseteq Mails /\ mailEvidence \subseteq Mails
  /\ mailClaims \in Seq(Mails)

(* The gates come before the model and the memory: no mail that is private *)
(* or of a sender without identity is shown to the model, on its own or as *)
(* the context of another, no private mail becomes evidence, and a claim   *)
(* rests on the evidence of a mail whose sender has an identity.  Evidence *)
(* of a sender without one is not excluded: channels/email/imap_bridge.py: *)
(* 10-12 asks for it, although the code captures none.                     *)
QuarantineHolds ==
  LET unknown == {m \in Mails : ~Identified(m)} IN
  /\ shown \cap (PrivateMails \cup unknown) = {}
  /\ mailEvidence \cap PrivateMails = {}
  /\ ToSet(mailClaims) \subseteq mailEvidence \ unknown
=============================================================================
