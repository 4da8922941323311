------------------------------- MODULE Digest -------------------------------
(***************************************************************************)
(* The digest command of cmd/event-radar/main.go after its sync: read the  *)
(* upcoming events, render them, compare the hash with the one last marked *)
(* as delivered, mail the digest and mark it.  Nothing ties the five steps *)
(* together: other processes write events, time passes, and the command    *)
(* may fail or be killed between any two of them.                          *)
(*                                                                         *)
(* A rendered digest stands for its SHA-256 hash.                          *)
(***************************************************************************)
EXTENDS Store, Sequences

CONSTANTS
  Digests,   \* digest commands that may run at the same time
  Horizon,   \* 56 days
  Reports,   \* events that syncs and approvals may store meanwhile
  MaxMails   \* bound on mails and failures: no command begins beyond it

VARIABLES
  deliveries,  \* the rows of table deliveries for kind "email": none or one
  mail,        \* digests the SMTP server has accepted, in order
  digests      \* each command: where it is and what it has read

digestVars == <<deliveries, mail, digests>>
vars == <<now, candidates, events, health, faults, deliveries, mail, digests>>

ASSUME DigestAssumption ==
  /\ Horizon \in Nat
  /\ Reports \subseteq EventRows
  /\ MaxMails \in Nat

\* One line of a digest shows these columns of an event.
Line(e) == [title |-> e.title, status |-> e.status, start |-> e.start,
            location |-> e.location, url |-> e.url, source |-> e.source]
Lines == [title : Text, status : {"CONFIRMED", "TENTATIVE"}, start : Nat,
          location : Text0, url : Text0, source : Origins]

NoDigest == [pc |-> "idle", rows |-> {}, content |-> {}, exit |-> "none"]

Init ==
  /\ StoreInit
  /\ deliveries = <<>>
  /\ mail = <<>>
  /\ digests = [d \in Digests |-> NoDigest]

-----------------------------------------------------------------------------
\* The command ends and says that its digest was sent or is unchanged.
Exit(d, how) ==
  digests' = [digests EXCEPT ![d] =
                [NoDigest EXCEPT !.content = digests[d].content, !.exit = how]]

\* The command ends with an error, or as a dry run, and says neither.
Leave(d) == digests' = [digests EXCEPT ![d] = NoDigest]

\* The command starts; its own sync may have failed, which only warns.
BeginDigest(d) ==
  /\ digests[d].pc = "idle"
  /\ Len(mail) + faults < MaxMails
  /\ digests' = [digests EXCEPT ![d] = [NoDigest EXCEPT !.pc = "query"]]
  /\ UNCHANGED <<now, candidates, events, health, faults, deliveries, mail>>

\* UpcomingEvents: SELECT ... WHERE starts_at >= now.
UpcomingEvents(d) ==
  /\ digests[d].pc = "query"
  /\ \/ /\ StoreOK
        /\ digests' = [digests EXCEPT ![d].pc = "build",
                                      ![d].rows = {e \in events : e.start >= now}]
     \/ StoreFault /\ Leave(d)
  /\ UNCHANGED <<now, candidates, events, health, deliveries, mail>>

\* BuildDigest reads the clock again and keeps what starts strictly between
\* now and the horizon; the rows are not looked at any more.
BuildDigest(d) ==
  /\ digests[d].pc = "build"
  /\ LET upcoming == {e \in digests[d].rows : e.start > now /\ e.start < now + Horizon}
     IN digests' = [digests EXCEPT ![d].pc = "check",
                                   ![d].content = {Line(e) : e \in upcoming},
                                   ![d].rows = {}]
  /\ UNCHANGED <<now, candidates, events, health, faults, deliveries, mail>>

\* A mutant: an empty digest counts as delivered.
MutDeliveryChangedNotEmpty(content) == content # {} /\ deliveries # <<content>>

\* A mutant: the stored hash is not compared.
MutDeliveryChangedAlways(content) == TRUE

\* No row, or another hash.
DeliveryChanged(content) == deliveries # <<content>>

CheckDelivery(d) ==
  /\ digests[d].pc = "check"
  /\ \/ /\ StoreOK
        /\ IF DeliveryChanged(digests[d].content)
             THEN digests' = [digests EXCEPT ![d].pc = "send"]
             ELSE Exit(d, "unchanged")
     \/ StoreFault /\ Leave(d)
  /\ UNCHANGED <<now, candidates, events, health, deliveries, mail>>

\* A mutant: a dry run goes on to mark its digest.
MutSendDigestDryMarks(d) ==
  /\ digests[d].pc = "send"
  /\ \/ /\ StoreOK
        /\ mail' \in {mail, Append(mail, digests[d].content)}
        /\ digests' = [digests EXCEPT ![d].pc = "mark"]
     \/ StoreFault /\ UNCHANGED mail /\ Leave(d)
  /\ UNCHANGED <<now, candidates, events, health, deliveries>>

\* SendDigest: nothing in a dry run, which the command asks nowhere before;
\* otherwise smtp.SendMail, which may report an error before the server has
\* accepted the mail, or after it.
SendDigest(d) ==
  /\ digests[d].pc = "send"
  /\ \/ Leave(d) /\ UNCHANGED <<mail, faults>>
     \/ /\ StoreOK
        /\ mail' = Append(mail, digests[d].content)
        /\ digests' = [digests EXCEPT ![d].pc = "mark"]
     \/ /\ StoreFault
        /\ mail' \in {mail, Append(mail, digests[d].content)}
        /\ Leave(d)
  /\ UNCHANGED <<now, candidates, events, health, deliveries>>

\* A mutant: a later delivery adds a row.
MutMarkDeliveredAppends(d) ==
  /\ digests[d].pc = "mark"
  /\ \/ /\ StoreOK
        /\ deliveries' = Append(deliveries, digests[d].content)
        /\ Exit(d, "sent")
     \/ StoreFault /\ UNCHANGED deliveries /\ Leave(d)
  /\ UNCHANGED <<now, candidates, events, health, mail>>

\* INSERT ... ON CONFLICT(kind) DO UPDATE.
MarkDelivered(d) ==
  /\ digests[d].pc = "mark"
  /\ \/ /\ StoreOK
        /\ deliveries' = <<digests[d].content>>
        /\ Exit(d, "sent")
     \/ StoreFault /\ UNCHANGED deliveries /\ Leave(d)
  /\ UNCHANGED <<now, candidates, events, health, mail>>

\* The command is killed.
Kill(d) ==
  /\ digests[d].pc # "idle"
  /\ StoreFault
  /\ Leave(d)
  /\ UNCHANGED <<now, candidates, events, health, deliveries, mail>>

DigestNext(d) ==
  \/ BeginDigest(d)
  \/ UpcomingEvents(d)
  \/ BuildDigest(d)
  \/ CheckDelivery(d)
  \/ SendDigest(d)
  \/ MarkDelivered(d)
  \/ Kill(d)

\* What other processes do to the table of events.
OthersStore ==
  /\ UNCHANGED <<now, candidates, health, faults, deliveries, mail, digests>>
  /\ \E e \in Reports :
       /\ ~UpsertEventFails(events, e)
       /\ events' = UpsertEvent(events, e)

Next ==
  \/ Tick /\ UNCHANGED digestVars
  \/ OthersStore
  \/ \E d \in Digests : DigestNext(d)

Spec == Init /\ [][Next]_vars

-----------------------------------------------------------------------------
Mailed(content) == \E i \in 1..Len(mail) : mail[i] = content

DigestStates ==
  [pc : {"idle", "query", "build", "check", "send", "mark"},
   rows : SUBSET EventRows, content : SUBSET Lines,
   exit : {"none", "sent", "unchanged"}]

\* Every row and every command's memory has its type; a kind of delivery has
\* at most one row.
DigestTypeOK ==
  /\ now \in Nat
  /\ events \subseteq EventRows
  /\ faults \in Nat
  /\ deliveries \in Seq(SUBSET Lines) /\ Len(deliveries) <= 1
  /\ mail \in Seq(SUBSET Lines)
  /\ digests \in [Digests -> DigestStates]

\* What is marked as delivered was mailed, however many commands run: a dry
\* run, a failed or a killed one never suppresses a later digest.
MarkedWasMailed == deliveries # <<>> => Mailed(deliveries[1])

\* The inductive invariant: a digest is mailed before its command may mark it.
IInv ==
  /\ DigestTypeOK
  /\ MarkedWasMailed
  /\ \A d \in Digests : digests[d].pc = "mark" => Mailed(digests[d].content)

\* For one command at a time: the same digest is mailed twice in a row only if
\* an error or a kill came between the mail and its mark, once for each.
RepeatsAreExcused ==
  Cardinality({i \in 2..Len(mail) : mail[i] = mail[i - 1]}) <= faults

\* For one command at a time: a command that says its digest was sent, or that
\* it is unchanged, leaves the recipient with that digest as the last mail, if
\* no mark has been lost.
QuietMeansInformed ==
  \A d \in Digests :
    (digests[d].exit \in {"sent", "unchanged"} /\ faults = 0) =>
      Len(mail) > 0 /\ mail[Len(mail)] = digests[d].content
=============================================================================
