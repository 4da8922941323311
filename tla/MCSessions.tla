----------------------------- MODULE MCSessions -----------------------------
(***************************************************************************)
(* Small instances of Sessions.                                            *)
(***************************************************************************)
EXTENDS Sessions, TLC

CONSTANTS operator, member, memberAddress, MemberAddress, corp

MCLower == memberAddress :> memberAddress @@ MemberAddress :> memberAddress @@ corp :> corp
MCDomain == memberAddress :> corp

\* Listed by subject; of a listed domain, but not verified.
Operator == [sub |-> operator, email |-> None, verified |-> FALSE]
Unverified == [sub |-> member, email |-> MemberAddress, verified |-> FALSE]
MCClaims == {Operator, Unverified}

MCAllowlists == {[emails |-> {}, domains |-> {corp}, subs |-> {operator}]}

Alike == Permutations(Requests) \cup Permutations(Browsers)
=============================================================================
