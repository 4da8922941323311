------------------------------ MODULE MCDigest ------------------------------
(***************************************************************************)
(* Small instances of Digest.                                              *)
(***************************************************************************)
EXTENDS Digest

CONSTANTS Talk, Meetup, Hall, idA, idB

MCText == {Talk, Meetup, Hall}
MCFold == [t \in MCText \cup {None} |-> t]

Listed(id, title, start, status) ==
  [uid |-> EventUID(<<"feed", 1>>, id, title, start), source |-> <<"feed", 1>>,
   title |-> title, location |-> Hall, url |-> None, start |-> start,
   ends |-> start + 1, status |-> status, anchor |-> TRUE]

\* A talk that is confirmed late, and a meetup that is soon over.
MCReports == {Listed(idA, Talk, 2, "TENTATIVE"), Listed(idA, Talk, 2, "CONFIRMED"),
              Listed(idB, Meetup, 1, "CONFIRMED")}

NoItems == {}
=============================================================================
