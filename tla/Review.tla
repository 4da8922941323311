------------------------------- MODULE Review -------------------------------
(***************************************************************************)
(* The review page: POST /admin/candidate (internal/radar/http.go) and the *)
(* review actions of internal/radar/approval.go.  A request takes its      *)
(* clock reading first, loads the candidate, and writes its copy of the    *)
(* row back; requests run concurrently with each other and with syncs.     *)
(* Requests modelled here carry valid credentials.                         *)
(***************************************************************************)
EXTENDS Store

CONSTANT Reviewers     \* concurrent review requests

VARIABLE reviews       \* the request each reviewer has in flight, if any

Actions == {"approve", "reject", "restore"}
Replies == {"none", "303", "400", "404", "500"}

\* row is None until the candidate is loaded; at is the request's clock,
\* which only the gate of an approval asks.
NoReview == [pc |-> "idle", action |-> "reject", url |-> None, at |-> 0,
             row |-> None, reply |-> "none"]

ReviewInit == reviews = [r \in Reviewers |-> NoReview]

Reply(r, code) == reviews' = [reviews EXCEPT ![r] = [NoReview EXCEPT !.reply = code]]

-----------------------------------------------------------------------------
approveGate(c, t) ==
  /\ c.verification = "verified"
  /\ \A f \in Required : c.fields[f] # None
  /\ c.fields["start_time"] > t

\* A mutant: the event links to the page that was found, not to the one that
\* gives the evidence.
MutApprovedEventFoundPage(u, c) ==
  LET origin == <<"reviewed", c.source>>
      f == c.fields
  IN [uid |-> EventUID(origin, u, f["event_title"], f["start_time"]),
      source |-> origin, title |-> f["event_title"],
      location |-> f["location"], url |-> u,
      start |-> f["start_time"],
      ends |-> IF f["end_time"] = None
                 THEN f["start_time"] + DefaultDuration
                 ELSE f["end_time"],
      status |-> "TENTATIVE", anchor |-> FALSE]

\* The tentative event an approval publishes.
ApprovedEvent(u, c) ==
  LET origin == <<"reviewed", c.source>>
      f == c.fields
  IN [uid |-> EventUID(origin, u, f["event_title"], f["start_time"]),
      source |-> origin, title |-> f["event_title"],
      location |-> f["location"], url |-> f["evidence_url"],
      start |-> f["start_time"],
      ends |-> IF f["end_time"] = None
                 THEN f["start_time"] + DefaultDuration
                 ELSE f["end_time"],
      status |-> "TENTATIVE", anchor |-> FALSE]

-----------------------------------------------------------------------------
BeginReview(r) ==
  /\ reviews[r].pc = "idle"
  /\ \E a \in Actions, u \in Urls :
       reviews' = [reviews EXCEPT ![r] =
         [NoReview EXCEPT !.pc = "load", !.action = a, !.url = u,
                          !.at = IF a = "approve" THEN now ELSE 0]]
  /\ UNCHANGED storeVars

\* A mutant: the request waits for its candidate.
MutLoadCandidateWaits(r) ==
  /\ reviews[r].pc = "load"
  /\ \/ /\ StoreOK
        /\ candidates[reviews[r].url] # None
        /\ reviews' = [reviews EXCEPT ![r].pc = "apply",
                                      ![r].row = candidates[reviews[r].url]]
     \/ StoreFault /\ Reply(r, "500")
  /\ UNCHANGED <<now, candidates, events, health>>

LoadCandidate(r) ==
  /\ reviews[r].pc = "load"
  /\ \/ /\ StoreOK
        /\ candidates[reviews[r].url] # None
        /\ reviews' = [reviews EXCEPT ![r].pc = "apply",
                                      ![r].row = candidates[reviews[r].url]]
     \/ StoreOK /\ candidates[reviews[r].url] = None /\ Reply(r, "404")
     \/ StoreFault /\ Reply(r, "500")
  /\ UNCHANGED <<now, candidates, events, health>>

\* A mutant: the publish transaction does not notice that its candidate is
\* gone.
MutPublishNoRowsCheck(r, e, c) ==
  \/ /\ StoreOK
     /\ ~UpsertEventFails(events, e)
     /\ events' = UpsertEvent(events, e)
     /\ candidates' = UpdateCandidate(candidates, reviews[r].url, c)
     /\ Reply(r, "303")
  \/ StoreFault /\ UNCHANGED <<events, candidates>> /\ Reply(r, "500")

\* A mutant: two statements without a transaction; the second may fail.
MutPublishTwoWrites(r, e, c) ==
  \/ /\ StoreOK
     /\ ~UpsertEventFails(events, e)
     /\ candidates[reviews[r].url] # None
     /\ events' = UpsertEvent(events, e)
     /\ candidates' = UpdateCandidate(candidates, reviews[r].url, c)
     /\ Reply(r, "303")
  \/ /\ StoreFault
     /\ candidates' = UpdateCandidate(candidates, reviews[r].url, c)
     /\ UNCHANGED events
     /\ Reply(r, "500")

\* One transaction: the event and the approved row, or neither.
Publish(r, e, c) ==
  \/ /\ StoreOK
     /\ ~UpsertEventFails(events, e)
     /\ candidates[reviews[r].url] # None
     /\ events' = UpsertEvent(events, e)
     /\ candidates' = UpdateCandidate(candidates, reviews[r].url, c)
     /\ Reply(r, "303")
  \/ /\ StoreOK
     /\ UpsertEventFails(events, e)
     /\ UNCHANGED <<events, candidates>>
     /\ Reply(r, "500")
  \/ /\ StoreOK
     /\ ~UpsertEventFails(events, e)
     /\ candidates[reviews[r].url] = None
     /\ UNCHANGED <<events, candidates>>
     /\ Reply(r, "404")
  \/ StoreFault /\ UNCHANGED <<events, candidates>> /\ Reply(r, "500")

ApproveCandidate(r) ==
  LET c == reviews[r].row
      u == reviews[r].url
  IN
  /\ reviews[r].pc = "apply"
  /\ reviews[r].action = "approve"
  /\ \/ /\ approveGate(c, reviews[r].at)
        /\ Publish(r, ApprovedEvent(u, c), [c EXCEPT !.status = "approved"])
     \/ /\ ~approveGate(c, reviews[r].at)
        /\ Reply(r, "400")
        /\ UNCHANGED <<events, candidates, faults>>
  /\ UNCHANGED <<now, health>>

\* A rejection or a restoration writes the loaded copy of the row back with
\* another status.
WriteStatus(r, status) ==
  /\ reviews[r].pc = "apply"
  /\ \/ /\ StoreOK
        /\ candidates' = UpdateCandidate(candidates, reviews[r].url,
                           [reviews[r].row EXCEPT !.status = status])
        /\ Reply(r, "303")
     \/ StoreFault /\ UNCHANGED candidates /\ Reply(r, "500")
  /\ UNCHANGED <<now, events, health>>

RejectCandidate(r) ==
  reviews[r].action = "reject" /\ WriteStatus(r, "rejected")

RestoreCandidate(r) ==
  reviews[r].action = "restore" /\ WriteStatus(r, "pending")

ReviewStep(r) ==
  \/ LoadCandidate(r)
  \/ ApproveCandidate(r)
  \/ RejectCandidate(r)
  \/ RestoreCandidate(r)

ReviewNext(r) == BeginReview(r) \/ ReviewStep(r)

ReviewStates ==
  [pc : {"idle", "load", "apply"}, action : Actions, url : Urls \cup {None},
   at : Nat, row : CandidateRows \cup {None}, reply : Replies]

ReviewTypeOK ==
  /\ reviews \in [Reviewers -> ReviewStates]
  /\ \A r \in Reviewers :
       /\ reviews[r].pc # "idle" => reviews[r].url \in Urls
       /\ reviews[r].pc = "apply" => reviews[r].row # None
=============================================================================
