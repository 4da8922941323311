----------------------------- MODULE Deployment -----------------------------
(***************************************************************************)
(* Radar together with the digest command: what module Digest assumes of   *)
(* its environment is here what syncs, reviews and restarts do, and a      *)
(* digest command is a process of Radar that goes on after its sync.       *)
(***************************************************************************)
EXTENDS Radar, Sequences

CONSTANTS
  Digests,   \* the processes that are digest commands
  Horizon,   \* 56 days
  MaxLost,   \* bound on the failures of digest commands
  MaxMails   \* as in Digest

VARIABLES
  deliveries, mail, digests,   \* as in Digest
  lost                         \* failures of digest commands

mailVars == <<deliveries, mail, digests, lost>>
deployedVars == <<vars, mailVars>>

ASSUME DeploymentAssumption ==
  /\ Digests \subseteq Procs \ {Server}
  /\ Horizon \in Nat
  /\ MaxLost \in Nat
  /\ MaxMails \in Nat

\* What a reviewer may approve: an answer, with the end of another one where
\* it has none.
Merged == {[a EXCEPT !["end_time"] = b["end_time"]] : a, b \in Answers}
Approvable ==
  [source : Sources, fields : {m \in Merged : Coherent(m) /\ Complete(m)}]

\* The events that feeds and approvals report.
Reports == FeedEvents \cup {ApprovedEvent(u, c) : u \in Urls, c \in Approvable}

\* Digest reads neither candidates nor health rows, and counts its own failures.
D == INSTANCE Digest
       WITH candidates <- [u \in Urls |-> None], health <- [s \in Sources |-> None],
            faults <- lost, MaxFaults <- MaxLost

DeployedInit == Init /\ D!Init

\* The command's sync takes the mutex; if it cannot prune, it only warns.
BeginCommand(d) ==
  /\ StartSync(d)
  /\ D!BeginDigest(d)
  /\ UNCHANGED reviews

\* The sync is over, whatever came of it.
Command(d) ==
  /\ sync[d].pc = "idle"
  /\ \/ D!UpcomingEvents(d)
     \/ D!BuildDigest(d)
     \/ D!CheckDelivery(d)
     \/ D!SendDigest(d)
     \/ D!MarkDelivered(d)
  /\ UNCHANGED vars

\* The command is killed, in its sync or after it.
KillCommand(d) == Restart(d) /\ D!Kill(d)

\* Everything else: the server, the sync command, the syncs that commands have
\* begun, and a command that is to be run with another configuration.
Elsewhere ==
  \/ Tick /\ UNCHANGED <<sync, config, reviews>>
  \/ \E p \in Procs : SyncStep(p) /\ UNCHANGED reviews
  \/ \E p \in Procs \ Digests : StartSync(p) /\ UNCHANGED reviews
  \/ \E p \in Procs : (p \in Digests => digests[p].pc = "idle") /\ Restart(p)
  \/ \E r \in Reviewers : ReviewNext(r) /\ UNCHANGED syncVars

DeployedNext ==
  \/ Elsewhere /\ UNCHANGED mailVars
  \/ \E d \in Digests : BeginCommand(d) \/ Command(d) \/ KillCommand(d)

DeployedSpec == DeployedInit /\ [][DeployedNext]_deployedVars

-----------------------------------------------------------------------------
(* Properties.                                                             *)

\* The commands and their environment are what Digest says they are: whatever
\* syncs, reviews and restarts do to the events is to store what a feed lists
\* or what one answer said.
ImplementsDigest == D!Spec

Listed(x) == \E e \in events : EventFingerprint(e) = EventFingerprint(x)

\* A mailed line stays in the calendar, under its title, start and venue,
\* although the command has read the table long before it mails: nothing that
\* happens meanwhile, or later, takes an announced event back.
MailedIsListed == \A i \in DOMAIN mail : \A line \in mail[i] : Listed(line)

Said(x) == x.source[1] = "reviewed" => \E a \in Answers : Says(a, x)

\* What a mail shows of a reviewed candidate is what one complete answer said.
MailedWithEvidence == \A i \in DOMAIN mail : \A line \in mail[i] : Said(line)
=============================================================================
