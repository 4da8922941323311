------------------------------ MODULE MCRadar -------------------------------
(***************************************************************************)
(* Small instances of Radar.  Each .cfg picks its constants from here.     *)
(***************************************************************************)
EXTENDS Radar, TLC

\* talkRespelled is Talk in another spelling, Hall and Loft are two venues.
CONSTANTS Talk, talkRespelled, Hall, Loft, page, quote, idA

MCText == {Talk, talkRespelled, Hall, Loft, page, quote}
MCFold == [t \in MCText \cup {None} |-> IF t = talkRespelled THEN Talk ELSE t]

Answer(title, start, end, venue, venueQuote) ==
  [f \in Fields |-> CASE f = "event_title" -> title
                      [] f = "start_time" -> start
                      [] f = "end_time" -> end
                      [] f = "location" -> venue
                      [] f = "evidence_url" -> page
                      [] f = "date_evidence" -> quote
                      [] f = "location_evidence" -> venueQuote]

\* The page announces the talk.
Announced == Answer(Talk, 2, None, Hall, quote)
\* A talk that has started before the model's clock stops.
Soon == Answer(Talk, 1, 2, Hall, quote)
\* The page moves the talk to another venue on the same day.
Relocated == Answer(Talk, 2, None, Loft, quote)
\* An answer that misses the venue's quote.
Unproven == Answer(Talk, 2, None, Hall, None)

RelocatedAnswers == {Announced, Relocated}
OneAnswer == {Announced}
ProvenOrNot == {Announced, Unproven}
SoonAnswer == {Soon}

Item(source, id, title, venue) ==
  [source |-> source, id |-> id, title |-> title, location |-> venue,
   start |-> 2, ends |-> None, status |-> "CONFIRMED", anchor |-> TRUE]

\* A feed that lists the same talk, spelled differently.
SameTalk == Item(1, idA, talkRespelled, Hall)
\* The same item after its venue changed, and an item of its own.
SameTalkMoved == Item(1, idA, talkRespelled, Loft)

NoItems == {}
FeedMoves == {SameTalk, SameTalkMoved}

AllSources(v) == [sources |-> Sources, verifier |-> v]
WithVerifier == {AllSources(TRUE)}
\* A server that may come back with its search only and no verifier.
ServerConfigs == {AllSources(TRUE), [sources |-> {2}, verifier |-> FALSE]}

ReviewersAlike == Permutations(Reviewers)

NoSources == {}
Source1 == {1}
Source2 == {2}
Source3 == {3}
=============================================================================
