------------------------------- MODULE Access -------------------------------
(***************************************************************************)
(* What signing in and out promises.  A session begins once, for a user    *)
(* the allowlist permits, and once it has ended, by logout or with time,   *)
(* it is never heard of again.  An admin request is let in while the       *)
(* session it names is live, or on the admin token; what it does           *)
(* afterwards, it does for that session.                                   *)
(***************************************************************************)
CONSTANTS Ids, Users, Allowlists, Requests, None, Permits(_, _)

VARIABLES
  sessions,  \* the live sessions [id, user]
  past,      \* ids of all sessions so far
  allow,     \* the allowlist in force
  asked      \* the session each admin request was let in for

vars == <<sessions, past, allow, asked>>

Nothing == [let |-> FALSE, session |-> None]

Init ==
  /\ sessions = {}
  /\ past = {}
  /\ allow \in Allowlists
  /\ asked = [r \in Requests |-> Nothing]

\* One that comes too late has ended as it begins.
SignIn(s) ==
  /\ UNCHANGED <<allow, asked>>
  /\ s.id \notin past
  /\ Permits(allow, s.user)
  /\ past' = past \cup {s.id}
  /\ sessions' \in {sessions, sessions \cup {s}}

\* Sessions end.
End ==
  /\ UNCHANGED <<past, allow, asked>>
  /\ sessions' \subseteq sessions

\* For a live session, or on the admin token and for no session.
LetIn(r) ==
  /\ UNCHANGED <<sessions, past, allow>>
  /\ asked[r] = Nothing
  /\ \E n \in {s.id : s \in sessions} \cup {None} :
       asked' = [asked EXCEPT ![r] = [let |-> TRUE, session |-> n]]

\* A request is answered.
Leave(r) ==
  /\ UNCHANGED <<sessions, past, allow>>
  /\ asked' = [asked EXCEPT ![r] = Nothing]

\* All are lost in a restart.
Restart ==
  /\ UNCHANGED <<sessions, past>>
  /\ asked' = [r \in Requests |-> Nothing]
  /\ allow' \in Allowlists

Next ==
  \/ \E n \in Ids, u \in Users : SignIn([id |-> n, user |-> u])
  \/ End
  \/ \E r \in Requests : LetIn(r) \/ Leave(r)
  \/ Restart

Spec == Init /\ [][Next]_vars
=============================================================================
