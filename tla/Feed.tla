-------------------------------- MODULE Feed --------------------------------
(***************************************************************************)
(* What a process makes of an iCalendar feed: it starts with a             *)
(* configuration (module Config), downloads a feed, unfolds its lines,     *)
(* parses them and returns events.  The other end may be anything that     *)
(* serves a feed, another instance of this program included, whose         *)
(* RenderICS is here too.                                                  *)
(*                                                                         *)
(* A line is a record: the name before its colon, or None; the zone of its *)
(* TZID parameter, or None; and its text, the tokens after the colon, or   *)
(* of the whole line when there is none.  It ends where its line break     *)
(* begins: a text may have carriage returns, before the one of a line      *)
(* break too.  Times are the tokens that write them in UTC.                *)
(***************************************************************************)
EXTENDS Config, SequencesExt

CONSTANTS
  None,
  Configs,    \* configurations a process may be started with
  Feeds,      \* the lines a feed may consist of
  Calendars,  \* the events another instance may have in its store
  Tokens,     \* what a text is made of
  Names,      \* what may stand before a colon, or in a TZID parameter
  Times,      \* tokens that parseICSDate reads
  Zones,      \* names that time.LoadLocation knows
  InZone,     \* InZone[z][t]: the instant of t on a clock of zone z
  TwoHours,   \* TwoHours[t]: two hours after t
  ZeroTime,   \* the zero value of time.Time
  Lower,      \* strings.ToLower, on tokens
  WebAddress, \* the tokens a text in https://... begins with
  MaxToken    \* bound on the tokens of a line, for bufio.MaxScanTokenSize

VARIABLES
  config,     \* the configuration
  pc,
  source,     \* the feed being fetched
  full, body, \* the feed, and as much of it as was read
  served,     \* for the properties: the events full was rendered from, or None
  pos,        \* lines scanned, then lines parsed
  lines,      \* the unfolded lines
  component,  \* the values of the open section, or Nil
  events      \* the events found

input == <<config, source, full, body, served>>
vars == <<input, pc, pos, lines, component, events>>

Blanks == {" ", "\t"}
NewLine == "newline"
CR == "carriage return"
White == Blanks \cup {NewLine, CR}
Backslash == "\\"

Keys == {"UID", "DTSTART", "DTEND", "SUMMARY", "DESCRIPTION", "LOCATION", "URL",
         "STATUS"}
Line(key, text) == [key |-> key, zone |-> None, text |-> text]
Begin == Line("BEGIN", <<"VEVENT">>)
End == Line("END", <<"VEVENT">>)

ASSUME FeedAssumption ==
  /\ \A c \in Configs : c.feeds \in Seq(FeedConfig)
  /\ \A z \in Zones : InZone[z] \in [Times -> Times]
  /\ TwoHours \in [Times -> Times]
  /\ None \notin Names \cup Zones \cup Times
  /\ MaxToken \in Nat

\* A feed is lines, whatever they are.
LineType == [key : {None} \cup Names, zone : {None} \cup Names, text : Seq(Tokens)]

ASSUME FeedsAssumption == Feeds \subseteq Seq(LineType)

\* A stored event has an identity, which is the letters of a hash (EventUID), and
\* a title: events without one are neither imported (ParseICS, the answers of AI
\* Tinkerers) nor approved (approveGate).
EntryType ==
  [id : Seq(Tokens \ White) \ {<<>>}, title : Seq(Tokens) \ {<<>>},
   description : Seq(Tokens), source : Seq(Tokens), location : Seq(Tokens),
   url : Seq(Tokens), starts : Times, ends : Times, tentative : BOOLEAN]

ASSUME CalendarsAssumption == None \notin Calendars /\ Calendars \subseteq Seq(EntryType)

\* The tokens that are looked at or written are tokens, and a time is neither
\* blank nor a backslash.
ASSUME TokensAssumption ==
  /\ White \cup Times \cup {Backslash, ",", ";", "n", "N"} \subseteq Tokens
  /\ {"VEVENT", "TENTATIVE", "CONFIRMED", "Source:"} \subseteq Tokens
  /\ Keys \cup {"BEGIN", "END"} \subseteq Names
  /\ Lower["TENTATIVE"] = "tentative" /\ Lower["CONFIRMED"] # "tentative"
  /\ Times \cap (White \cup {Backslash}) = {}

-----------------------------------------------------------------------------
(* The texts of a line.                                                    *)

\* strings.ReplaceAll of one character by its escape.
Escaped(s, token) ==
  LET pair == <<Backslash, IF token = NewLine THEN "n" ELSE token>>
  IN FlattenSeq([i \in DOMAIN s |-> IF s[i] = token THEN pair ELSE <<s[i]>>])

\* A mutant: the backslash comes last.
MutEscape(s) == Escaped(Escaped(Escaped(Escaped(s, NewLine), ";"), ","), Backslash)

\* writeICS: four replacements, one after the other.
Escape(s) == Escaped(Escaped(Escaped(Escaped(s, Backslash), NewLine), ";"), ",")

ToLower(s) == [i \in DOMAIN s |-> Lower[s[i]]]

\* The loop of filterByLocation: the elements of s that are in S.
Kept(s, S) ==
  LET kept[i \in 0..Len(s)] ==
        IF i = 0 THEN <<>>
        ELSE IF s[i] \in S THEN Append(kept[i - 1], s[i]) ELSE kept[i - 1]
  IN kept[Len(s)]

\* unescapeICS: one pass from the left; what is no escape stays.
Unescape(s) ==
  LET from[i \in 1..(Len(s) + 1)] ==
        IF i > Len(s) THEN <<>>
        ELSE IF /\ i < Len(s)
                /\ s[i] = Backslash
                /\ s[i + 1] \in {"n", "N", ",", ";", Backslash}
             THEN <<IF s[i + 1] \in {"n", "N"} THEN NewLine ELSE s[i + 1]>> \o from[i + 2]
             ELSE <<s[i]>> \o from[i + 1]
  IN from[1]

\* strings.TrimLeft: from the first token outside cutset.
TrimLeft(s, cutset) ==
  LET kept == {i \in DOMAIN s : s[i] \notin cutset}
  IN IF kept = {} THEN <<>>
     ELSE SubSeq(s, CHOOSE i \in kept : \A j \in kept : i <= j, Len(s))

TrimSpace(s) == Reverse(TrimLeft(Reverse(TrimLeft(s, White)), White))

\* parseICSDate, of a text with or without a zone.
ParseDate(value) ==
  LET v == TrimSpace(value)
  IN IF Len(v) = 1 /\ v[1] \in Times THEN v[1]
     ELSE IF Len(v) = 2 /\ v[1] \in Zones /\ v[2] \in Times THEN InZone[v[1]][v[2]]
     ELSE None

-----------------------------------------------------------------------------
(* Sections.                                                               *)

\* splitICSLine and unescapeICS: the value a line gives its key.  The zone is
\* kept for the two dates only.
Value(line) ==
  LET text == Unescape(line.text)
  IN IF line.key \in {"DTSTART", "DTEND"} /\ line.zone # None
     THEN <<line.zone>> \o text ELSE text

NoValues == [key \in Keys |-> <<>>]
Nil == [key \in {} |-> <<>>]

StartOf(c) == ParseDate(c["DTSTART"])

\* eventFromICS of a section whose start is a date.  Its source's name and
\* anchor, and the score of every feed event, are left out.
EventFromICS(c) ==
  LET place == c["LOCATION"]
      url == IF c["URL"] = <<>> /\ place # <<>> /\ place[1] \in WebAddress
             THEN place ELSE c["URL"]
      end == ParseDate(c["DTEND"])
  IN [id |-> IF c["UID"] # <<>> THEN c["UID"] ELSE url,
      title |-> c["SUMMARY"], description |-> c["DESCRIPTION"],
      location |-> place, url |-> url,
      starts |-> StartOf(c),
      ends |-> IF end = None THEN TwoHours[StartOf(c)] ELSE end,
      tentative |-> ToLower(c["STATUS"]) = <<"tentative">>]

Listed(event) == event.title # <<>> /\ event.starts # ZeroTime

\* filterByLocation.
Mentions(event, aliases) ==
  \E alias \in aliases :
    alias \in ToSet(ToLower(event.title \o event.location \o event.description))

\* A description names its source.
Described(e) ==
  TrimSpace(e.description \o <<NewLine, NewLine, "Source:", " ">> \o e.source)

\* RenderICS: one section for each event.  The stamp and the lines around all
\* sections are left out: they are short, and no reader of this program asks for
\* them.
RenderSection(e) ==
  <<Begin, Line("UID", Escape(e.id)), Line("DTSTART", <<e.starts>>),
    Line("DTEND", <<e.ends>>), Line("SUMMARY", Escape(e.title)),
    Line("DESCRIPTION", Escape(Described(e))), Line("LOCATION", Escape(e.location))>>
  \o (IF e.url = <<>> THEN <<>> ELSE <<Line("URL", Escape(e.url))>>)
  \o <<Line("STATUS", <<IF e.tentative THEN "TENTATIVE" ELSE "CONFIRMED">>), End>>
RenderICS(calendar) == FlattenSeq([i \in DOMAIN calendar |-> RenderSection(calendar[i])])

-----------------------------------------------------------------------------
(* The start.                                                              *)

Init ==
  /\ config \in Configs
  /\ pc = "start"
  /\ pos = 0
  /\ full = <<>> /\ body = <<>> /\ lines = <<>> /\ events = <<>>
  /\ source = None /\ served = None /\ component = Nil

\* The process ends, or builds its sources.
Start ==
  /\ pc = "start"
  /\ pc' = IF Validate(config) THEN "idle" ELSE "exit"
  /\ UNCHANGED <<input, pos, lines, component, events>>

-----------------------------------------------------------------------------
(* ICSFeedSource.Fetch.                                                    *)

\* What io.LimitReader lets through when the limit is at line n: that line may
\* lose its end, or keep the first half of its line break.
Cuts(f, n) ==
  {SubSeq(f, 1, n - 1) \o <<[f[n] EXCEPT !.text = SubSeq(Append(@, CR), 1, k)]>> :
     k \in 0..(Len(f[n].text) + 1)}

Reads(f) ==
  /\ full' = f
  /\ body' \in {f, <<>>} \cup UNION {Cuts(f, n) : n \in DOMAIN f}

FeedSources == {s \in ToSet(SourcesFromConfig(config)) : s.kind = "feed"}

Fetch ==
  /\ pc = "idle"
  /\ pc' = "unfold"
  /\ source' \in FeedSources
  /\ \/ /\ \E f \in Feeds : Reads(f)
        /\ served' = None
     \/ \E c \in Calendars : Reads(RenderICS(c)) /\ served' = c
  /\ UNCHANGED <<config, pos, lines, component, events>>

\* No answer, no success, or a connection that breaks while the body is read.
FetchFails ==
  /\ pc = "idle"
  /\ FeedSources # {}
  /\ pc' = "failed"
  /\ UNCHANGED <<input, pos, lines, component, events>>

-----------------------------------------------------------------------------
(* unfoldICS.                                                              *)

\* The line starts with a blank.  A fold is never inside a name.
Continues(line) ==
  line.key = None /\ line.text # <<>> /\ line.text[1] \in Blanks

\* A mutant: one column too many.
MutUnfold(line) == SubSeq(line.text, 3, Len(line.text))

\* What a continuation adds to its line: every blank at its start goes.
Unfold(line) == TrimLeft(line.text, Blanks)

\* A line is added to those before it.
Unfolds(ls, line) ==
  IF ls # <<>> /\ Continues(line)
  THEN [ls EXCEPT ![Len(ls)].text = @ \o Unfold(line)]
  ELSE Append(ls, line)

\* bufio.ScanLines takes a carriage return from the end of a line, after
\* unfoldICS has taken the one of its line break.
DropCR(s) == IF s # <<>> /\ Last(s) = CR THEN Front(s) ELSE s
Scanned(line) == [line EXCEPT !.text = DropCR(@)]

\* The scanner gives up at a line longer than its buffer.
Scans == pos < Len(body) /\ Len(body[pos + 1].text) <= MaxToken

ScanLine ==
  /\ pc = "unfold"
  /\ Scans
  /\ pos' = pos + 1
  /\ lines' = Unfolds(lines, Scanned(body[pos + 1]))
  /\ UNCHANGED <<input, pc, component, events>>

\* A mutant: the last line is dropped, as it may have been cut.
MutScanEnds ==
  /\ pc = "unfold"
  /\ ~Scans
  /\ pc' = "parse"
  /\ pos' = 0
  /\ lines' = IF lines = <<>> THEN lines ELSE Front(lines)
  /\ UNCHANGED <<input, component, events>>

\* The error of the scanner, if there is one, is not asked for.
ScanEnds ==
  /\ pc = "unfold"
  /\ ~Scans
  /\ pc' = "parse"
  /\ pos' = 0
  /\ UNCHANGED <<input, lines, component, events>>

-----------------------------------------------------------------------------
(* ParseICS, line by line.                                                 *)

AtEnd == pc = "parse" /\ pos = Len(lines)

Current == lines[pos + 1]

Parsing ==
  /\ pc = "parse"
  /\ pos < Len(lines)
  /\ pos' = pos + 1
  /\ UNCHANGED <<input, lines>>

\* A section that is still open is forgotten.
ParseBegin ==
  /\ Parsing
  /\ Current = Begin
  /\ component' = NoValues
  /\ UNCHANGED <<pc, events>>

ParsingEnd(hasStart) ==
  /\ Parsing
  /\ Current = End
  /\ component # Nil
  /\ hasStart <=> StartOf(component) # None

Found ==
  LET event == EventFromICS(component)
  IN IF Listed(event) THEN Append(events, event) ELSE events

\* A mutant: the open section stays open.
MutParseEnd ==
  /\ ParsingEnd(TRUE)
  /\ events' = Found
  /\ UNCHANGED <<pc, component>>

\* The section is complete: an event, unless it lacks a title.
ParseEnd ==
  /\ ParsingEnd(TRUE)
  /\ events' = Found
  /\ component' = Nil
  /\ UNCHANGED pc

\* A mutant: what was found before is returned.
MutRefuse ==
  /\ ParsingEnd(FALSE)
  /\ pc' = "refused"
  /\ UNCHANGED <<events, component>>

\* One section without a readable start, and the feed is an error.
Refuse ==
  /\ ParsingEnd(FALSE)
  /\ pc' = "refused"
  /\ events' = <<>>
  /\ UNCHANGED component

\* Lines outside sections are skipped, an END among them; inside, the later
\* line of a key wins, and a nested component's lines count like all others.
ParseLine ==
  /\ Parsing
  /\ Current # Begin
  /\ component # Nil => Current # End
  /\ component' = IF component # Nil /\ Current.key \in Keys
                  THEN [component EXCEPT ![Current.key] = Value(Current)]
                  ELSE component
  /\ UNCHANGED <<pc, events>>

\* A feed with aliases keeps the events that mention one.
Return ==
  /\ AtEnd
  /\ pc' = "done"
  /\ LET found == IF source.aliases = {} THEN events
                  ELSE Kept(events, {e \in ToSet(events) : Mentions(e, source.aliases)})
     IN events' = [i \in DOMAIN found |->
          [found[i] EXCEPT !.tentative = @ /\ ~source.force]]
  /\ UNCHANGED <<input, pos, lines, component>>

Next ==
  \/ Start
  \/ Fetch
  \/ FetchFails
  \/ ScanLine
  \/ ScanEnds
  \/ ParseBegin
  \/ ParseEnd
  \/ Refuse
  \/ ParseLine
  \/ Return

Spec == Init /\ [][Next]_vars

-----------------------------------------------------------------------------
(* Properties.                                                             *)

\* Type correctness; a section is open only while lines are parsed, and a fetch
\* that fails yields nothing.
FeedTypeOK ==
  /\ config \in Configs
  /\ pc \in {"start", "exit", "idle", "failed", "unfold", "parse", "refused", "done"}
  /\ pc \in {"start", "exit", "idle", "failed"} => source = None
  /\ pos \in 0..(Len(body) + Len(lines))
  /\ DOMAIN lines \subseteq DOMAIN body
  /\ component # Nil => pc \in {"parse", "refused", "done"} /\ DOMAIN component = Keys
  /\ pc \in {"failed", "refused"} => events = <<>>
  /\ \A e \in ToSet(events) : Listed(e) /\ {e.starts, e.ends} \subseteq Times

\* A section ends at line j of ls: a BEGIN is before it, and no END between.
Closes(ls, j) ==
  ls[j] = End /\ \E i \in 1..(j - 1) : ls[i] = Begin /\ \A k \in i..(j - 1) : ls[k] # End

\* What a section that is open after line n says: for each key its last line
\* since the last BEGIN.
LastOf(S) == CHOOSE i \in S : \A j \in S : j <= i
Section(ls, n) ==
  LET begin == LastOf({i \in 1..n : ls[i] = Begin})
      of(key) == {i \in (begin + 1)..n : ls[i].key = key}
  IN [key \in Keys |-> IF of(key) = {} THEN <<>> ELSE Value(ls[LastOf(of(key))])]

Gives(c) == StartOf(c) # None /\ Listed(EventFromICS(c))

Closed(ls, n) == {j \in 1..n : Closes(ls, j)}

\* evs are, in their order, the events of the sections among the first n lines.
Lists(evs, ls, n) ==
  \E at \in [DOMAIN evs -> 1..n] :
    /\ \A i, j \in DOMAIN evs : i < j => at[i] < at[j]
    /\ {at[i] : i \in DOMAIN evs} = {j \in Closed(ls, n) : Gives(Section(ls, j - 1))}
    /\ \A i \in DOMAIN evs : evs[i] = EventFromICS(Section(ls, at[i] - 1))

\* ParseICS: whatever its lines are, and however sections are nested or broken
\* off, the events are those of the closed sections, each with the last value
\* of each key; and a feed is refused for a section that has no start, never
\* otherwise.
SectionsRead ==
  /\ pc = "parse" =>
       /\ Lists(events, lines, pos)
       /\ \A j \in Closed(lines, pos) : StartOf(Section(lines, j - 1)) # None
  /\ pc = "refused" =>
       pos \in Closed(lines, pos) /\ StartOf(Section(lines, pos - 1)) = None

\* The lines of a feed as the scanner returns them, one by one.
AllScanned(f) == [i \in DOMAIN f |-> Scanned(f[i])]

\* Such lines unfolded, with no limit on anything.
Unfolded(f) ==
  LET after[n \in 0..Len(f)] ==
        IF n = 0 THEN <<>> ELSE Unfolds(after[n - 1], f[n])
  IN after[Len(f)]

\* No writer folds the line that ends a section, or adds something to it.
Written(f) == \A i \in DOMAIN f : f[i].key = "END" =>
  /\ i < Len(f) => ~Continues(f[i + 1])
  /\ f[i].text # <<>> /\ f[i].text[1] = "VEVENT" => f[i].text = <<"VEVENT">>

ShortLines(f) == \A i \in DOMAIN f : Len(f[i].text) <= MaxToken

\* A feed that is cut, by the limit on its size or by a line that is too long,
\* yields the events of its beginning, each as the whole feed has it, and no
\* event that is not there; one that is not cut yields all.
FeedRead ==
  AtEnd /\ Written(AllScanned(full)) =>
    LET whole == Unfolded(AllScanned(full))
    IN \E n \in 0..Len(whole) :
         /\ body = full /\ ShortLines(full) => n = Len(whole)
         /\ Lists(events, whole, n)

\* The lines among the first n of a feed that continue no other.
Heads(f, n) == Kept([i \in 1..n |-> i], {i \in 1..n : i = 1 \/ ~Continues(f[i])})

Dark(s) == Kept(s, ToSet(s) \ Blanks)

\* Wherever lines are folded, and however often, texts lose nothing but blanks
\* and what the scanner takes: each line that is no continuation is there, in its
\* order, with its key and its zone, and with the text of all its continuations
\* (unfoldICS).
FoldsRead ==
  pc = "unfold" =>
    LET read == AllScanned(body)
        head == Heads(read, pos)
        next(k) == IF k < Len(head) THEN head[k + 1] ELSE pos + 1
        text(i, j) == FlattenSeq([k \in 1..(j - i) |-> read[i + k - 1].text])
    IN /\ Len(lines) = Len(head)
       /\ \A k \in DOMAIN lines :
            /\ lines[k].key = read[head[k]].key
            /\ lines[k].zone = read[head[k]].zone
            /\ Dark(lines[k].text) = Dark(text(head[k], next(k)))

\* What RenderICS writes, ParseICS understands: another instance that imports
\* the calendar finds its events, in order, with identity, times and status as
\* they were, and with title, place and description as they were but for one
\* carriage return at their end, which no line can carry.  It finds all of them
\* if the calendar is not cut and each line is short enough for the scanner,
\* otherwise the first ones, and never one that is not there: a description that
\* came folded over many lines and is written as one hides its event and all
\* later ones.  An event at the zero time or of an empty title is none to it.
Legible(calendar) ==
  Kept(calendar, {e \in ToSet(calendar) : e.starts # ZeroTime /\ DropCR(e.title) # <<>>})
RoundTrip ==
  AtEnd /\ served # None =>
    LET legible == Legible(served)
    IN /\ Len(events) <= Len(legible)
       /\ body = full /\ ShortLines(full) => Len(events) = Len(legible)
       /\ \A i \in DOMAIN events :
            /\ \A field \in {"id", "starts", "ends", "tentative"} :
                 events[i][field] = legible[i][field]
            /\ \A field \in {"title", "location"} :
                 events[i][field] = DropCR(legible[i][field])
            /\ events[i].description = Described(legible[i])

\* With a location filter every event mentions an alias: Validate makes sure
\* that a feed to be filtered has aliases, and Fetch filters only if it has.
FilteredFeed ==
  pc = "done" => \A i \in DOMAIN config.feeds :
    config.feeds[i].filter /\ config.feeds[i].name = source.name =>
      \A e \in ToSet(events) : Mentions(e, cleanList(config.aliases))

\* Every source of a process that has started is enabled, so that no sync
\* writes "disabled" into its health row, and Gemini discovers exactly when
\* there is a verifier.
SourcesEnabled ==
  pc \notin {"start", "exit"} =>
    /\ \A s \in ToSet(SourcesFromConfig(config)) : Enabled(config, s)
    /\ Verifier(config) <=> Gemini \in ToSet(SourcesFromConfig(config))

=============================================================================
