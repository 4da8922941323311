------------------------------- MODULE MCFeed -------------------------------
(***************************************************************************)
(* Instances of Feed: every feed of up to four lines, alone and between    *)
(* the head and the end of a section, lines folded and unfolded; a nested  *)
(* component, a line too long; the calendar of another instance with every *)
(* token that is escaped.                                                  *)
(***************************************************************************)
EXTENDS Feed

MCTimes == {"10", "12", "0"}
MCZones == {"Europe/Berlin"}
MCInZone == [z \in MCZones |-> "10" :> "10" @@ "12" :> "10" @@ "0" :> "0"]
MCTwoHours == "10" :> "12" @@ "12" :> "12" @@ "0" :> "10"

MCTokens ==
  MCTimes \cup MCZones \cup White \cup
  {"id", "https://x", "Talk", "in", "Source:", "feed", "Berlin", "berlin", "CONFIRMED", "TENTATIVE",
   "tentative", Backslash, "n", "N", ",", ";", "VEVENT", "VALARM"}
MCNames == Keys \cup MCZones \cup {"BEGIN", "END", "X", "Mars"}
MCLower == [t \in MCTokens |->
  CASE t = "Berlin" -> "berlin" [] t = "TENTATIVE" -> "tentative" [] OTHER -> t]

-----------------------------------------------------------------------------
(* Configurations.                                                         *)

MCClean == [t \in {"", " ", "Berlin ", "feed", "http://feed", "query"} |->
  CASE t = " " -> "" [] t = "Berlin " -> "berlin" [] OTHER -> t]
MCHttpURLs == {"http://feed"}
MCSafeURLs == {"https://idp"}

NoSource ==
  [plain |-> TRUE, interval |-> 1, timeout |-> 1, feeds |-> <<>>, aliases |-> {},
   searxng |-> [url |-> "", queries |-> {}],
   gemini |-> [endpoint |-> "", key |-> "", token |-> "", queries |-> {"query"},
               criteria |-> "criteria"],
   tinkerers |-> [key |-> "", query |-> ""],
   oidc |-> [issuer |-> "", redirect |-> "", client |-> "", secret |-> "",
             emails |-> {}, domains |-> {}, subs |-> {}]]

AFeed(filter, force) ==
  [name |-> "feed", url |-> "http://feed", anchor |-> TRUE, filter |-> filter,
   force |-> force]
OneFeed(aliases, filter, force) ==
  [NoSource EXCEPT !.aliases = aliases, !.feeds = <<AFeed(filter, force)>>]

MCConfigs ==
  {OneFeed({}, FALSE, FALSE), OneFeed({"Berlin ", " "}, TRUE, TRUE),
   OneFeed({" "}, TRUE, FALSE),
   [NoSource EXCEPT !.feeds = <<AFeed(FALSE, FALSE), AFeed(FALSE, TRUE)>>]}
  \cup
  {[NoSource EXCEPT !.gemini.endpoint = e, !.gemini.key = k, !.gemini.token = t,
      !.tinkerers.key = a, !.tinkerers.query = q, !.searxng.url = s,
      !.searxng.queries = {"query"}] :
     e, k, t, a, q, s \in {"", "set"}}
  \cup
  {[OneFeed({}, FALSE, FALSE) EXCEPT !.plain = FALSE],
   [OneFeed({}, FALSE, FALSE) EXCEPT !.timeout = 0]}
  \cup
  {[OneFeed({}, FALSE, FALSE) EXCEPT !.feeds = <<>>, !.searxng.url = "set",
      !.searxng.queries = {" "}]}
  \cup
  {[NoSource EXCEPT !.tinkerers.key = "set", !.tinkerers.query = "set",
      !.oidc = [issuer |-> "https://idp", redirect |-> r, client |-> "id",
                secret |-> "secret", emails |-> {}, domains |-> d, subs |-> {}]] :
     r \in {"", "https://idp"}, d \in {{}, {"example.org"}}}

-----------------------------------------------------------------------------
(* Feeds.                                                                  *)

Fold == Line(None, <<" ", "in">>)
Fold2 == Line(None, <<"\t", " ", "Berlin">>)
StartLine == Line("DTSTART", <<" ", "10">>)
Title == Line("SUMMARY", <<"Talk", " ">>)
Lines == {Begin, End, StartLine, Title, Fold, Fold2}

Some(n) == BoundedSeq(Lines, n)

Talk == <<Begin, StartLine, Title, End>>
Special ==
  {\* an alarm with a description of its own
   <<Begin, StartLine, Title, Line("BEGIN", <<"VALARM">>),
     Line("DESCRIPTION", <<"Berlin">>), Line("END", <<"VALARM">>), End>>,
   \* an address in the place of the location, an end in another zone
   <<Begin, StartLine, [Line("DTEND", <<"12">>) EXCEPT !.zone = "Europe/Berlin"],
     Title, Line("LOCATION", <<"https://x">>), End>>,
   \* the other zone unknown, for the end and for the start
   <<Begin, StartLine, [Line("DTEND", <<"12">>) EXCEPT !.zone = "Mars"], Title, End>>,
   <<Begin, [StartLine EXCEPT !.zone = "Mars"], Title, End>>,
   \* the zero time
   <<Begin, Line("DTSTART", <<"0">>), Title, End>> \o Talk,
   \* carriage returns before line breaks: a title of one, a title and an END with
   \* one too many, and an END with two
   <<Begin, StartLine, Line("SUMMARY", <<CR>>), End>> \o Talk,
   <<Begin, StartLine, Line("SUMMARY", <<"Talk", CR, CR>>), Line("END", <<"VEVENT", CR>>)>>,
   <<Begin, StartLine, Title, Line("END", <<"VEVENT", CR, CR>>)>> \o Talk,
   \* a line that is too long, between two sections and inside one
   Talk \o <<Line("X", [i \in 1..9 |-> "in"])>> \o Talk,
   Talk \o <<Begin, StartLine, Line("DESCRIPTION", [i \in 1..9 |-> "in"]), Title, End>>}

MCFeeds ==
  Some(4) \cup {Talk \o g : g \in Some(3)} \cup
    {<<Begin, StartLine, Title>> \o g \o <<End>> : g \in Some(3)} \cup
    {<<Begin, Title>> \o g \o <<End>> \o Talk : g \in Some(2)} \cup Special

Tricky == {Backslash, "n", NewLine, CR, ",", ";", " "}
Entry(title, place, ends, tentative) ==
  [id |-> <<"id">>, title |-> title, description |-> <<>>, source |-> <<"feed">>,
   location |-> place, url |-> <<>>, starts |-> "10", ends |-> ends,
   tentative |-> tentative]

Long(token) == [i \in 1..9 |-> token]
MCCalendars ==
  {<<Entry(t, <<"Berlin">>, "12", TRUE)>> : t \in BoundedSeq(Tricky, 2) \ {<<>>}} \cup
  {<<[Entry(<<"in">>, <<>>, "12", TRUE) EXCEPT !.starts = "0"],
     Entry(<<"Talk">>, <<"Berlin">>, "12", FALSE)>>} \cup
  {<<Entry(<<"Talk">>, p, "10", FALSE), Entry(<<"in">>, <<>>, "12", TRUE)>> :
     p \in {<<>>, <<"https://x">>, <<Backslash, "n", ",">>, Long(",")}} \cup
  {<<[Entry(<<"Talk">>, <<CR>>, "12", FALSE) EXCEPT !.description = d, !.url = <<"in">>],
     Entry(<<"in">>, <<>>, "12", TRUE)>> :
     d \in {<<"Talk">>, <<" ", CR>>, Long("in")}}

=============================================================================
