----------------------------- MODULE Moderation -----------------------------
(***************************************************************************)
(* What candidates and the calendar promise, whatever the interleaving:    *)
(* discovery only adds pending candidates; a status changes only when a    *)
(* review request for that candidate asks for it, in the step that ends    *)
(* the request; an approval lists its event in that same step; pruning     *)
(* never takes an approved candidate; and the calendar only grows, by      *)
(* entries whose uid and key are both new.                                 *)
(***************************************************************************)
CONSTANTS Urls, Reviewers, None

VARIABLES
  status,    \* absent, pending, approved or rejected, by URL
  entry,     \* the calendar key an approved candidate stands for
  calendar,  \* entries [uid, key]
  asked      \* the request [action, url] each reviewer has in flight

vars == <<status, entry, calendar, asked>>

NoRequest == [action |-> "none", url |-> None]
Decision == [reject |-> "rejected", restore |-> "pending"]

Init ==
  /\ status = [u \in Urls |-> "absent"]
  /\ entry = [u \in Urls |-> None]
  /\ calendar = {}
  /\ asked = [r \in Reviewers |-> NoRequest]

\* x joins the calendar: as an entry already there, or as a new one whose uid
\* and key nobody has.
Lists(x) ==
  /\ calendar' = calendar \cup {x}
  /\ x \in calendar \/ \A y \in calendar : y.uid # x.uid /\ y.key # x.key

Discover(u) ==
  /\ status[u] = "absent"
  /\ status' = [status EXCEPT ![u] = "pending"]
  /\ UNCHANGED <<entry, calendar, asked>>

Import(x) == Lists(x) /\ UNCHANGED <<status, entry, asked>>

Prune(P) ==
  /\ \A u \in P : status[u] # "approved"
  /\ status' = [u \in Urls |-> IF u \in P THEN "absent" ELSE status[u]]
  /\ UNCHANGED <<entry, calendar, asked>>

Ask(r, a, u) ==
  /\ asked[r] = NoRequest
  /\ asked' = [asked EXCEPT ![r] = [action |-> a, url |-> u]]
  /\ UNCHANGED <<status, entry, calendar>>

\* A request for one of the actions ends, and its candidate is there.
Decides(r, actions) ==
  /\ asked[r].action \in actions
  /\ status[asked[r].url] # "absent"
  /\ asked' = [asked EXCEPT ![r] = NoRequest]

SetAside(r) ==
  /\ Decides(r, {"reject", "restore"})
  /\ status' = [status EXCEPT ![asked[r].url] = Decision[asked[r].action]]
  /\ entry' = [entry EXCEPT ![asked[r].url] = None]
  /\ UNCHANGED calendar

Approve(r, x) ==
  /\ Decides(r, {"approve"})
  /\ status' = [status EXCEPT ![asked[r].url] = "approved"]
  /\ entry' = [entry EXCEPT ![asked[r].url] = x.key]
  /\ Lists(x)

\* A request is refused, or all of them are lost in a crash.
Refuse(R) ==
  /\ asked' = [r \in Reviewers |-> IF r \in R THEN NoRequest ELSE asked[r]]
  /\ UNCHANGED <<status, entry, calendar>>

Next ==
  \/ \E u \in Urls : Discover(u)
  \/ \E x \in calendar' : Import(x)
  \/ \E P \in SUBSET Urls : Prune(P)
  \/ \E r \in Reviewers, u \in Urls, a \in {"approve", "reject", "restore"} :
       Ask(r, a, u)
  \/ \E r \in Reviewers : SetAside(r)
  \/ \E r \in Reviewers, x \in calendar' : Approve(r, x)
  \/ \E R \in SUBSET Reviewers : Refuse(R)

Spec == Init /\ [][Next]_vars
=============================================================================
