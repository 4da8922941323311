------------------------------- MODULE Config -------------------------------
(***************************************************************************)
(* The configuration a process starts with: what Validate accepts, and the *)
(* sources SourcesFromConfig builds from it.                               *)
(*                                                                         *)
(* A configuration is what LoadConfig has read.  Lists in which nobody     *)
(* looks at the order are sets.  The feeds are a sequence: it is the order *)
(* of the sync.                                                            *)
(***************************************************************************)
EXTENDS Integers, Sequences

CONSTANTS
  Clean,      \* strings.TrimSpace(strings.ToLower(_)), a function on texts
  HttpURLs,   \* the texts that are URLs with a host and scheme http or https
  SafeURLs    \* those with scheme https, or http on the own machine

Empty == ""

FeedConfig == [name : STRING, url : STRING, anchor : BOOLEAN, filter : BOOLEAN,
               force : BOOLEAN]

Blank(text) == Clean[text] = Empty

\* cleanList: in lower case, trimmed, without the blank ones.
cleanList(values) == {Clean[v] : v \in values} \ {Empty}

-----------------------------------------------------------------------------
(* Validate, one operator per part of the configuration.                   *)

\* The settings that no source reads; plain stands for the checks of single
\* values: required texts, log format and level, the time zone, the weights.
RuntimeValid(c) == c.plain /\ c.interval > 0 /\ c.timeout > 0

\* Names are compared as they are, and with the names of feeds only.
FeedsValid(feeds) ==
  /\ \A i \in DOMAIN feeds :
       ~Blank(feeds[i].name) /\ ~Blank(feeds[i].url) /\ feeds[i].url \in HttpURLs
  /\ \A i, j \in DOMAIN feeds : feeds[i].name = feeds[j].name => i = j

\* A mutant: aliases are not asked for.
MutAliasesValid(c) == TRUE

AliasesValid(c) ==
  (\E i \in DOMAIN c.feeds : c.feeds[i].filter) => cleanList(c.aliases) # {}

SearXNGValid(s) == s.url # Empty => cleanList(s.queries) # {}

GeminiConfigured(g) == g.endpoint # Empty \/ g.key # Empty \/ g.token # Empty

\* A mutant: an endpoint is enough.
MutGeminiValid(g) ==
  GeminiConfigured(g) =>
    g.endpoint # Empty /\ cleanList(g.queries) # {} /\ g.criteria # Empty

GeminiValid(g) ==
  GeminiConfigured(g) =>
    /\ g.endpoint # Empty
    /\ g.key # Empty \/ g.token # Empty
    /\ cleanList(g.queries) # {}
    /\ g.criteria # Empty

TinkerersValid(t) == t.key # Empty => t.query # Empty

SomeSource(c) ==
  \/ c.feeds # <<>>
  \/ c.searxng.url # Empty
  \/ GeminiConfigured(c.gemini)
  \/ c.tinkerers.key # Empty

\* validateHTTPSOrLocalhost, and what a login needs besides.
OidcValid(o) ==
  o.issuer # Empty =>
    /\ {o.issuer, o.redirect} \subseteq SafeURLs
    /\ o.client # Empty /\ o.secret # Empty
    /\ o.emails \cup o.domains \cup o.subs # {}

Validate(c) ==
  /\ RuntimeValid(c)
  /\ FeedsValid(c.feeds)
  /\ AliasesValid(c)
  /\ SearXNGValid(c.searxng)
  /\ GeminiValid(c.gemini)
  /\ TinkerersValid(c.tinkerers)
  /\ SomeSource(c)
  /\ OidcValid(c.oidc)

-----------------------------------------------------------------------------
(* SourcesFromConfig.                                                      *)

\* What a source keeps of the configuration.
FeedSource(c, feed) ==
  [kind |-> "feed", name |-> feed.name, anchor |-> feed.anchor,
   aliases |-> IF feed.filter THEN cleanList(c.aliases) ELSE {},
   force |-> feed.force]
BuiltIn(kind) ==
  [kind |-> kind, name |-> kind, anchor |-> FALSE, aliases |-> {}, force |-> FALSE]

Tinkerers == BuiltIn("ai-tinkerers")
SearXNG == BuiltIn("searxng-discovery")
Gemini == BuiltIn("gemini-discovery")

\* A source that is there only if its setting is.
Optional(setting, source) == IF setting # Empty THEN <<source>> ELSE <<>>

SourcesFromConfig(c) ==
  [i \in DOMAIN c.feeds |-> FeedSource(c, c.feeds[i])]
    \o Optional(c.tinkerers.key, Tinkerers)
    \o Optional(c.searxng.url, SearXNG)
    \o Optional(c.gemini.endpoint, Gemini)

\* Each source's Enabled.
Enabled(c, source) ==
  CASE source.kind = "feed" -> TRUE
    [] source = Tinkerers -> c.tinkerers.key # Empty
    [] source = SearXNG -> c.searxng.url # Empty
    [] source = Gemini ->
         c.gemini.endpoint # Empty /\ (c.gemini.key # Empty \/ c.gemini.token # Empty)

\* Candidates are verified if Gemini is there and enabled.
Verifier(c) == c.gemini.endpoint # Empty /\ Enabled(c, Gemini)

=============================================================================
