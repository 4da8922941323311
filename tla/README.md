# Event Radar in TLA+

Specifications of Event Radar (the Go program in `src/`), model-checked with TLC and
proved with TLAPS. Paths below are relative to `src/internal/radar/` unless they
start with `cmd/` or `internal/`.

## 1. The system

Event Radar collects events into one SQLite file and serves them as a calendar.

| Component | State | Operations | Talks to |
|---|---|---|---|
| Store (`store.go`, `model.go`) | tables `candidates`, `events`, `source_health`, `deliveries` | upsert, merge, update, prune, publish (one transaction), mark | everybody, one statement at a time |
| Sync pipeline (`radar.go`) | the mutex `Radar.mu`, the source at hand, its results in memory | prune; per source: fetch, health row, events, verification, candidates | sources, verifier, store |
| Verification fan-out (`verifyCandidates`) | semaphore, wait group, slice of candidates | spawn, answer, release | verifier |
| Sources and verifier (`source.go`, `gemini.go`) | none | `Fetch`, `VerifyCandidate` | the network |
| Review (`approval.go`, `http.go`) | a request's copy of a candidate and its clock reading | approve, reject, restore | store |
| Digest command (`cmd/event-radar/main.go`, `output.go`) | rows read, text rendered | query, render, compare, mail, mark | store, SMTP |
| HTTP reads (`http.go`) | none | `/healthz`, `/status`, `/metrics`, `/calendar/`, `/admin` | store |
| OIDC sessions (`internal/auth`) | table `oidc_sessions`, browser cookies, copies of rows in requests | login, callback, logout, sweep, check of admin requests | identity provider, store |
| iCalendar (`source.go`, `output.go`) | the lines, the open section | unfold, parse, filter, render | feeds, calendar clients |
| Configuration (`config.go`, `SourcesFromConfig`) | none after the start | validate, build sources | everybody, at the start |
| Tracing, process start (`internal/observ`, `main.go`) | none | | |

Three kinds of process use the file: the server, whose ticker runs a sync for ever
while HTTP requests are served, and the `sync` and `digest` commands. The mutex
serialises the syncs of one process. Nothing serialises review requests with
syncs (`store.go:373-377` says so), or one process with another.

What is hard about it:

* A review request loads a row, decides, and writes *every* column of its copy
  back. A sync may prune, merge or re-verify the row in between.
* Re-discovery fills the empty columns of a row one by one, so evidence of two
  verifications might mix.
* An event has two identities: `uid` (source, id, title, start) and
  `fingerprint` (title, start, venue). Only one of them is in the conflict clause.
* Every statement may fail alone (`SQLITE_BUSY`, an ended context), and a process may
  die between any two statements.
* The fan-out must stay within its semaphore and must not leave a goroutine behind
  that still writes to the slice it returned.
* The digest command mails first and marks later.
* A login is three requests of one browser, each of several statements, with the provider in
  between. Responses get lost, redirects are opened twice, rows expire or are
  swept at any moment.
* A feed is whatever the other end serves: cut by a limit, folded anywhere, with sections
  nested or left open.

What makes the components correct: evidence of a candidate is one answer's; an approval
is all or nothing and stays published; the calendar never loses or
renames an entry; a review status changes only when a request asks for it; pruning
deletes only what could not be approved any more; a sync that reports
success leaves no configured source in error; syncs and requests end; what is
marked as mailed was mailed; a session was earned and ends once; the events of a feed
are those of its closed sections, and a calendar this program writes is one it can read.

## 2. The modules

```
Store ──── Sync ────┐
   ├────── Review ──┴─ Radar ── MCRadar        Radar refines Moderation
   └────── Digest ──── MCDigest                Fanout stands alone
Radar + Digest = Deployment ── MCDeployment    Deployment refines Radar and Digest
Sessions ── MCSessions                         Sessions refines Access
Config ──── Feed ──── MCFeed
StoreProofs, RadarProofs, RefinementProofs, FanoutProofs, DigestProofs,
SessionsProofs, TextProofs (the operators of Feed on texts and lines), FeedProofs
```

**Store.** The tables as variables and each SQL statement as an operator on a
table: `UpsertEvent`, `UpsertCandidate` (with `MergeFields` for the `CASE WHEN`
columns and `StatusColumn` for the column that has none), `UpdateCandidate`,
`PruneCandidates`. `StoreOK` and `StoreFault` are the two outcomes of a statement.

**Sync.** `runSync`, with one action per statement or network answer. `sync[p]` is the
process's place in the function (`pc`), the sources still to do, the fetched events,
the batch of candidates and whether an error was appended to `failures`:

| `pc` | actions | code |
|---|---|---|
| `idle` | `StartSync` | `Sync`, `PruneCandidates` |
| `fetch` | `SkipDisabled`, `FetchFails`, `FetchReturns`, `FinishSync` | `radar.go:62-93`, `112-115` |
| `health` | `SaveHealthy` | `94-99` |
| `events` | `StoreEvent`, `BeginVerify` | `100-105` |
| `verify` | `VerifyCandidate`, `EndVerify` | `verifyCandidates` |
| `store` | `StoreCandidate`, `SourceDone` | `106-111` |

**Review.** `POST /admin/candidate` in three steps: `BeginReview` takes the clock and
the form, `LoadCandidate` reads the row, `ApproveCandidate`, `RejectCandidate` or
`RestoreCandidate` writes. The HTTP code is kept in `reply`.

**Radar.** The composition: any number of processes and reviewers, the clock, and
`Restart`, which loses a process's memory and may change its configuration. It
holds the properties, the fairness and the refinement mapping to `Moderation`.

**Moderation.** The abstract specification: statuses by URL, a growing calendar, the
requests in flight. A status changes only in the step that ends a request which asks for that
change, and an approval lists its event in that same step.

**Fanout.** `verifyCandidates` goroutine by goroutine. In `Sync` the fan-out is a set of
independent `VerifyCandidate` steps and a wait for all of them; `Fanout` shows why that
is what the semaphore and the wait group do.

**Digest.** The `digest` command after its sync. What other processes do to the
events is `OthersStore`, for any set of reports.

**Deployment.** `Radar` and the commands of `Digest` together, on one table of events and one clock. The sync of a
command is a process of `Radar` (`BeginCommand`), and once it is over, with or without an error, the steps of `Digest`
follow (`Command`); a kill may end either (`KillCommand`). `Digest` is instantiated, with its reports being what
feeds and approvals may report (`Reports`), so that `OthersStore` is no assumption here but what `Radar` must be shown to do
(`ImplementsDigest`). The failures of `Digest`'s own statements are counted apart (`lost`).

**Sessions.** The table `oidc_sessions` and the handlers of `internal/auth`, with any number
of browsers and of requests in flight. `reqs[r]` is a handler: its place, the cookie and the URL it
came with, its copy of a row.

| `pc` | actions | code |
|---|---|---|
| `idle` | `BeginLogin`, `CallbackGets`, `LogoutGets`, `AdminChecks` | `auth.go:186-206`, `221-270`, `341-350`, `101-123` with `http.go:44-49` |
| `discard` | `Discard` | the deletes of `241`, `266`, `351` |
| `consume` | `Consume` | `272-276` |
| `exchange` | `ExchangeFails`, `ExchangeSucceeds` | `277-328` |
| `sweep`, `insert` | `CreateSweeps`, `CreateInserts` | `session.go:53-62` |
| `act` | `Act` | what the admin page does once it has let a request in |
| `reply` | `Reply` | the response with its cookie arrives or not |

The browser keeps every cookie it was ever given and may send any of them, which stands for
requests that are still on their way, tabs, and expired cookies. The provider grants a code
to whoever signs in, and redeems it once, for the login it was granted to. `Restart` loses
the requests and may change the allowlist. `origin` remembers, for the properties only, how a row
came about.

**Access.** The abstract specification of `Sessions`: the set of live sessions, each id used once,
users permitted by the allowlist of the moment, and the admin requests in progress. A session may end at
any time and never returns; a request is let in for a live session or on the admin token.

**Config.** `Validate`, part by part, and `SourcesFromConfig`, as operators on a configuration.

**Feed.** A process starts with a configuration, fetches one of its feeds, unfolds its lines, parses them
and filters the events: `ICSFeedSource.Fetch` with one action per line. The feed is an arbitrary
sequence of lines, or what `RenderICS` of another instance has written; `Reads` cuts it
anywhere, as the 5 MiB limit does. A text may hold carriage returns: `Scanned` takes one from the end of a line, as
`unfoldICS` and its scanner do together, and a cut may leave the first half of a line break. `RenderICS` writes all lines of an
event but its stamp, the description with its source (`Described`) among them, so that one that is too long ends the importing scanner.

### Abstractions

* A hash is the tuple it hashes (`EventUID`, `EventFingerprint`, a digest's lines).
  `Fold` is `ToLower(TrimSpace(_))`, any function on the strings.
* Time is in whole seconds, the precision of every stored timestamp. The clocks that
  `PruneCandidates` and `approveGate` use are finer, but a stored start is a whole second
  `s`, the pruning clock is truncated before `s <= now`, and the gate asks
  `s > now`: for a whole `s` both give the same result with the clock
  and with its whole seconds.
* Columns that no guard reads are left out (title and snippet of a candidate,
  score, description, confidence, error texts, audit times), and so is a feed event's link.
* A source is a number in configuration order. `FeedSources` return events, the others
  pages; `Discovery` are those whose name contains "discovery".
* Which candidates a batch keeps is free, because the order comes from outside.
* A source whose `Enabled()` is false reaches `runSync` only through the `Source`
  interface (`pipeline_test.go:151-157` does it); `Config.Validate` and
  `SourcesFromConfig` never build one (`SourcesEnabled` of `Feed`). The branch is modelled because it is there.
* The requests of `Review` have been let in; `Sessions` is about who is.
* Random strings are fresh numbers. State, nonce and verifier of a login are drawn with its id and stand
  for one secret; guessing one is impossible. A URL of `Sessions` pairs a code with the state of the login that the code was granted
  to, as the provider's redirects do; a URL that someone has put together from two logins is not modelled. So the nonce and the
  verifier never decide anything here: a callback that passes the check of the state has the right ones.
* Expiry is stored in whole seconds but compared with a finer clock: `late` of `Sessions` tells
  the beginning of a second from the rest of it.
* A line of a feed has a name, a zone and a text of tokens: a token is a word, a time as it is
  written, or one of the characters that are escaped, folded or trimmed. The layouts of dates are one; names and parameters
  are in upper case. `MaxToken` tokens stand for the 64 KiB of a scanner's buffer. A line of the model ends where
its line break begins.
* A fold is never inside the name of a line (`Continues`).
* What a feed and a calendar may consist of is said by `FeedsAssumption` (lines, whatever they are) and
  `CalendarsAssumption` (events with an identity and a title, which is what the store holds).
* A statement or transaction is atomic: the pool has one connection
  (`store.go:50`), no function issues a statement while another one of its own is open,
  and SQLite isolates processes.

### Bounds

`MaxTime` bounds the clock, `MaxFaults` the number of failed statements, `MaxMails`
the mails and faults after which no command begins, `MaxFound` what a source finds in `Fanout`,
`MaxIds` the random ids and `MaxCodes` the grants in `Sessions`.
Processes of `Radar` are killed and restarted without a bound. `Deployment` bounds the failures of digest commands, kills included, by `MaxLost`.
Only `Tick`, `StoreFault`, `BeginDigest`, `Init` of `Fanout`, and `BeginLogin`, `ExchangeSucceeds` and `Grant` of
`Sessions` read them. `MaxToken` of `Feed` is a limit of the code, not of the model.

## 3. What TLC checks

The passing runs. Each cfg says what its instance is.

| Run | Instance | Question | Distinct states |
|---|---|---|---|
| `review` | 1 page, 2 reviewers, start at 2 of 2 seconds; answers *announced*, *unproven* (without a quote); 1 fault | Is approval atomic under races of two requests and a sync, and of a statement that fails? Does pruning agree with the gate? Is `IInv` invariant? | 866k |
| `calendar` | a feed and a discovery source about one talk, in two spellings and two venues; 1 fault | Do identities and approvals survive? Does `Radar` implement `Moderation`? | 536k |
| `progress` | feed, discovery source and disabled source; restarts that leave the discovery source alone and no verifier; 1 page, 1 reviewer, start at 1 of 1 second, 1 fault, fairness | Is the error of a sync complete? Do syncs and requests end, do stale candidates go? | 260k |
| `fanout` | the constants of the code (8 and 3), up to 9 found | The semaphore and the wait group | 698k |
| `digest` | 1 command, 2 seconds, 2 faults, 6 mails and faults | When are digests repeated, withheld or wrongly marked? | 29k |
| `deployed` | the server and a digest command on 1 page; answers *soon* (start at 1 of 1 second) and *later* (another day and venue, open end); 1 reviewer, 1 failure of the command | Does evidence stay together in rows, events and mails, also with two syncs at once? Does what was mailed stay listed? Is the rest of the system what `Digest` assumes? | 1405k |
| `sessions` | 2 browsers, 2 requests at a time, 3 ids, 1 grant, 1 fault or restart; rows last to the end of their second | Was every session earned? Who may remove a row? Does `Sessions` implement `Access`? | 915k |
| `feed` | every feed of up to 4 of 6 lines, alone, after an event or inside one, cut anywhere; 10 special feeds (nested, dated elsewhere, too long, with carriage returns); calendars with every escaped token and carriage return, with addresses, and with lines that are too long; 75 configurations | What does a process make of a feed? | 694k |

Why these bounds are enough to be interesting: two answers that differ in date and
venue are what it takes to mix evidence, and one that lacks a quote to half-fill a row (`review`);
a start at the last second of the clock passes through "not yet" and "now", which is over for pruning and for the gate; two reviewers are the smallest race of requests, and one request is old enough to
span a whole sync, because nothing bounds how long a step takes; `fanout` truncates a batch, with the real constants; one fault at any statement is every single failure, and `digest`
allows two, so that a digest may be repeated twice. A command that has read its rows and a talk that starts before it mails
them is what it takes to announce an event that a sync could have swept (`deployed`). Three ids are two logins and a session, or one login in
each browser, so that states and cookies of two logins can be mixed up; a lifetime of zero seconds ends at the second's end,
while a clock that reaches the next second passes through "good", "expired, but not swept" and
"swept". Four lines open, fill and close a section, or nest one in another. Every property is also tested
against a plausible bug: for each one, a mutant of a definition breaks it
(the operators named `Mut...`, listed in `PROJECT.json`).

The end time is the one column that needs no evidence. `EvidenceCoherent` and `PublishedWithEvidence`
cover it as the code treats it (`MayEnd`): an end that the first answer announced is never replaced; one that it left
open may be filled by a later answer, which may even precede the start. A line of a digest has no end time, so
`MailedWithEvidence` says nothing about it.

`SuccessfulSyncIsHealthy` is about one process: with two, another process may record its
own failure before the first one finishes. `RepeatsAreExcused` and `QuietMeansInformed`
are about one digest command at a time: two that overlap may both find the digest changed.
That a mailed line is listed does not depend on it: `Deployment` may have any number of commands.

Some runs are narrower than the property they check, and the theorem carries the rest. `calendar` has one process:
that an approved row keeps its event when several processes share the database is `ApprovedHolds`. `sessions` has one allowlist,
so that an allowlist that changes between a login and its callback is `EarnedHolds`. `digest` has one command: marks of
commands that overlap are `MarkedHolds`. `PrunedWasUnapprovable` compares the pruning predicate and the gate at the instant of the
pruning; a request in flight gates with the clock reading it took before, and that reading is not
compared. `SessionsEarned` compares a listed subject with the allowlist of the login; of an address it says that it was
verified, and which addresses are listed is left to `Permits`.

`fanout` and `feed` are the runs without a deadlock check, as `verifyCandidates` and a fetch return. In the runs of `Radar` a restart is always possible, so that a process that
is stuck would show in `SyncEnds` and `ReviewAnswered`, not as a deadlock.

### Where the code and its documentation disagree

Four runs end in a counterexample on purpose.

* `reject_published`: approve, then reject. `CONTEXT.md:21` says that only anchored
  events and approved candidates are published; the event stays.
* `stale_reject`: a rejection loads a candidate, a sync verifies it, the rejection is
  written. `store.go:25` says that `UpdateCandidate` writes review metadata back; it
  writes the unverified columns over the verified ones.
* `moved_event`: a feed item is stored with one venue and reported with another. Its fingerprint is new, its
  `uid` is not, and the insert fails on the primary key. The trace is the shortest one, a single fetch that lists both; the same
  insert fails for an item whose venue changes later, in every sync that fetches it.
  `CONTEXT.md:59` says a sync is to store results.
* `single_use`: two callbacks arrive with one cookie, each with a code that the provider has granted to
  this login. Both read the pre-auth row, both delete it, and both make a session. `auth.go:271` says that
  the row is single-use; `Delete` does not report that the second one found nothing (`session.go:82`). Both
  sessions belong to the browser that began the login (`SessionsEarned` holds).

### Fairness

`FairSpec` assumes weak fairness of three things only.

* A running sync goes on (`SyncStep`): every HTTP client and request context of a source and of
  the verifier has a timeout, and the fan-out ends (run `fanout`).
* The server starts another sync (`StartSync(Server)`): `Radar.Run` waits for a ticker
  and nothing else. No command has to be run by anybody.
* An accepted request is served (`ReviewStep`): it takes no lock of the program. Nobody has to review anything.

`Fanout` assumes that the Go scheduler runs every goroutine that can run. `Digest` assumes
nothing: `smtp.SendMail` has no timeout, so its command need not end. Neither do `Sessions` and `Feed`: the token exchange has no
timeout either, and all their properties are about safety.

## 4. What is proved

For every value of the constants that the named assumptions allow:

| Theorem | States |
|---|---|
| `RadarProofs!TypeCorrect`, `InvariantHolds` | `TypeOK`, `IInv` |
| `RadarProofs!EvidenceHolds`, `PublishedHolds` | `EvidenceCoherent`, `PublishedWithEvidence` |
| `RadarProofs!ApprovedHolds`, `ApprovalHolds` | `ApprovedIsPublished`, `ApprovalAtomic` |
| `RadarProofs!IdentityHolds`, `PruneHolds` | `EventIdentityStable`, `PrunedWasUnapprovable` |
| `RefinementProofs!RadarImplementsModeration` | `Spec => M!Spec` |
| `RefinementProofs!DeploymentIsRadar` | `DeployedSpec => Spec` |
| `RefinementProofs!DeploymentImplementsDigest` | `ImplementsDigest` |
| `RefinementProofs!MailedListedHolds`, `MailedEvidenceHolds` | `MailedIsListed`, `MailedWithEvidence` |
| `FanoutProofs!FanoutInvariant`, `FanoutBounded`, `FanoutComplete` | `FanoutInv`, `ConcurrencyBounded`, `ReturnedComplete` |
| `RadarProofs!SuccessHolds`, for one process | `SuccessfulSyncIsHealthy` |
| `DigestProofs!DigestTypeCorrect`, `MarkedHolds` | `DigestTypeOK`, `MarkedWasMailed` |
| `DigestProofs!QuietHolds`, `RepeatsHold`, for one command | `QuietMeansInformed`, `RepeatsAreExcused` |
| `SessionsProofs!SessionsInvariant`, `SessionsTypeCorrect`, `EarnedHolds` | `IInv`, `SessionsTypeOK`, `SessionsEarned` |
| `SessionsProofs!GoodRowsStayHolds`, `SessionsImplementAccess` | `GoodRowsStay`, `ImplementsAccess` |
| `FeedProofs!FeedTypeHolds`, `SectionsHold` | `FeedTypeOK`, `SectionsRead` |
| `FeedProofs!FoldsHold`, `FeedReadHolds` | `FoldsRead`, `FeedRead` |
| `TextProofs!TextReadBack` | `Unescape(Escape(s)) = s` for every text `s` |
| `FeedProofs!RoundTripHolds` | `RoundTrip`: what a calendar loses on its way, and nothing else |
| `FeedProofs!FilterHolds`, `EnabledHolds` | `FilteredFeed`, `SourcesEnabled` |

So the results about evidence, approval, the calendar and the mails hold for any number of processes,
reviewers, sources and pages, any answers, and any bounds; those about sessions for any number of browsers, requests,
users and allowlists and any lifetimes; those about feeds for lines of any number and length, whatever
they say, and those about calendars for any events.

**The invariant of `Radar`.** Neither `EvidenceCoherent` nor `ApprovedIsPublished` is
inductive. A table is written from memory: from the batch of a sync, or from a row that a
request has loaded some time ago. So `IInv` adds `MemorySound`: what is in flight is as
well verified as what is stored, *however old it is*. That is why a stale write may undo a
verification (run `stale_reject`) and still cannot mix two of them. And it adds
`ApprovedComplete`: an approved row has all required columns, so that a merge finds none of
them empty, and a row once approved keeps the key under which it was published. The
merge lemma is the core: a coherent row has either no required column or all of
them, so `MergeFields` takes them all from one side.

**The refinement.** Each step maps to one step of `Moderation` or to none. `StoreCandidate`
maps to `Discover` or a stutter, because `StatusColumn` never changes a status that is there;
an event upsert to `Import`, because a fingerprint that is there keeps its row's uid and a new
one comes with a new uid (the primary key); `Restart` of the server to `Refuse` of all requests.

**The deployment.** Leaving out the mails, every step of `DeployedNext` is a step of `Radar` or none (`StepProjects`), so all that
is proved of `Radar` holds with digest commands too. Leaving out the candidates, every step of `Radar` is one of `Digest`'s environment
(`StepReports`): what a sync or an approval upserts is among `Reports`. That step needs `IInv`: an approval
writes an old copy, and only because every copy is coherent and the gate asks for completeness is its event one of
`Approvable`. `MailedIsListed` and `MailedWithEvidence` speak of mails, which are written from rows read long before.
So `MailInv` says the same of the rows and the lines that commands hold; rows stay listed because identities do
(`StepKeepsEvents`, the step of `EventIdentityStable`), and a line has the columns in which the identity consists.

**The invariant of `Fanout`.** `sem` is the number of goroutines that hold a token and
`waitGroup` the number of those that are not done. The bound and the completeness of the
return follow from the cardinalities.

**One process, one command.** `SuccessHolds` needs that a sync without a failure so far has recorded every source it is
done with, and the one at hand once its fetch is saved (`Reported`). For a single digest command, `Alone` says that without a
fault the mark is that of the last mail, and `Paid` that faults pay for repeats in advance: an unmarked last mail counts
as one repeat, because the next digest may be the same.

**The invariant of `Sessions`.** `SessionsEarned` speaks of the table, which is written from copies that requests have held across
other requests' steps. `IInv` says what a copy has behind it (`RequestSound`): a callback holds the row of a login of its own browser
and the answer to that login; a row about to be stored has a new id, no other request has the same one, and its user
was vouched for and is permitted. An id is never stored twice, so a session that has
ended cannot come back: that is the step of the refinement that needs the invariant. `GoodRowsStay` needs it for `Discard`,
whose row may have been replaced, expired or deleted since it was looked at.

**The parser.** `SectionsRead` compares the events with the positions of the lines that close a section (`Closes`), which
looks back over all lines instead of remembering an open section. The invariant adds what `component` is: the values of the
section that is open, or nothing when none is.

**A fetch as a whole.** `TInv` of `FeedProofs` adds how the variables hang together: what was read is a beginning of the feed
(`Bodies`), the lines are what unfolding makes of the lines scanned (`ScannedTo`), every event is listed and dated, and
once the filter has run every event mentions an alias. `FeedRead` then compares two unfoldings: that of what was read and that of the
whole feed. What is scanned of a feed that was cut is that of its first lines and of what the cut left of the next one, half a line break
included (`BodyRemains`); that rest continues its predecessor, or ends a section, only if the whole line does (`CutRest`). A line that is added leaves every line but the last as it is (`UnfoldsStable`), and an
END stays an END, as `Written` says (`EndAsWritten`); so the events listed among a beginning of the lines are those of a
beginning of the whole (`WholeLists`, `CutLists`).

**The round trip.** The texts come first: `Escape` replaces characters one kind after the other, and over a concatenation it is
the concatenation of what it makes of single characters (`EscapeConcat`); `Unescape` takes each of these back without
looking further (`UnescapeEscapeConcat`). So `TextReadBack` holds for texts of any length. A section that `RenderICS` has
written is scanned line by line: an escape never ends in a carriage return that was not at the end of its text
(`DropCREscape`), and a description, being trimmed, has none there (`TrimSpaceIs`). So the section is read as what it says but for
that one token (`WrittenSection`), and each section adds its event to those before (`UnderstoodAppend`). What was read of a calendar lists the events of
some first lines of the whole (`CutFeedRead`), and since the events of first lines are the first events (`ListsPrefix`), the events found are those
written, from the first one to where the reading stopped.

**Induction over data.** The induction theorems of the library take an operator as a parameter, which the provers cannot
instantiate. `TextProofs` states induction with a set instead: a set of numbers that holds 0 and with every number
the next one holds all (`Induction`, from the well-foundedness of `<`), and likewise for sequences (`SequenceInduction`). The
recursive functions of `Feed` are shown to be what their equations say (`Recursion`) before anything is proved about them.

**Assumptions.** `NoneAssumption` and `NoneRowAssumption` (the empty value is not a string,
a number or a row), `FoldAssumption` (folding maps strings to strings), `BoundsAssumption`,
`InputsAssumption` (feeds and answers have their type), `SyncAssumption` (configurations name
existing sources), `ServerAssumption`, `FanoutAssumption` (a positive concurrency),
`DigestAssumption`, `DeploymentAssumption` (digest commands are processes other than the server), `SessionsAssumption` (types; the missing value is none of the others), `FeedAssumption` (feeds of a configuration are
feeds, zones shift times to times), `FeedsAssumption`, `CalendarsAssumption` and `TokensAssumption` (the tokens that the code looks at or
writes are tokens; a time is neither blank nor a backslash). TLC evaluates all of them in the runs.

**Only model-checked.** Liveness (`SyncEnds`, `ReviewAnswered`, `StaleIsPruned`, `Returns`),
which is beyond the prover: it has no rule for fairness.

## 5. Not modelled, and plans

Not modelled, and why:

* The JSON answers of SearXNG, Gemini and AI Tinkerers, the relevance score and the prompt: data from outside, any of which
  may come; `Sync` lets any batch arrive.
* `/healthz`, `/status` and `/metrics`: they read and print. That a source which is no longer configured keeps its
  health row, and `/healthz` its 503, is listed as a hazard.
* Reading the environment (`LoadConfig`), the attributes of cookies, `return_to`.
* Tracing and logging, the embedded time zones, the provider for tests.
* The draining of requests in an orderly shutdown: `Restart` may happen at any moment, which includes its end.

`PROJECT.json` gives the reason for each, and lists the hazards no property covers yet. What would come next:

1. `Sync`'s verification as an abstraction of `Fanout`, as a refinement instead of an argument.
2. Reads of several statements: `/status`, `/metrics` and the admin page, and what their answers still guarantee.
