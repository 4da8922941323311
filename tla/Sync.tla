-------------------------------- MODULE Sync --------------------------------
(***************************************************************************)
(* The sync pipeline of internal/radar/radar.go, one sync per process at a *)
(* time (Radar.mu).  Several processes may share one database: the server, *)
(* whose ticker syncs for ever, and the sync and digest commands.          *)
(*                                                                         *)
(* A sync is a sequence of store statements and network answers; anything  *)
(* may happen between two of them.                                         *)
(***************************************************************************)
EXTENDS Store

CONSTANTS
  Procs,                \* processes that sync
  Configs,              \* [sources, verifier] a process may be started with
  Disabled,             \* sources whose Enabled() is false
  Discovery,            \* sources with "discovery" in their name
  FeedSources,          \* sources that return events, the others candidates
  MaxGeminiCandidates   \* maxGeminiCandidates

VARIABLES
  sync,    \* the state of each process's sync
  config   \* what each process was started with

syncVars == <<sync, config>>

ConfigType == [sources : SUBSET Sources, verifier : BOOLEAN]

ASSUME SyncAssumption ==
  /\ Configs \subseteq ConfigType
  /\ Configs # {}
  /\ Disabled \subseteq Sources
  /\ Discovery \subseteq Sources
  /\ FeedSources \subseteq Sources
  /\ \A i \in FeedItems : i.source \in FeedSources
  /\ MaxGeminiCandidates \in Nat

\* A candidate in memory; verification None is the "" a source leaves there.
Found == [source : Sources, verification : Verifications \cup {None},
          fields : FieldMaps]
NoBatch == [u \in Urls |-> None]

\* pc: idle, or in runSync at the first source of left: about to fetch it, to
\* save the health row of a successful fetch, to store its events, to verify
\* its candidates or to store them.
Idle == [pc |-> "idle", left |-> {}, evs |-> {}, batch |-> NoBatch,
         failed |-> FALSE]

SyncInit ==
  /\ sync = [p \in Procs |-> Idle]
  /\ config \in [Procs -> Configs]

-----------------------------------------------------------------------------
\* The Event that ICSFeedSource or AIThinkererSource builds from an item.  Its
\* link is left out: no guard reads it.
FeedEvent(i) ==
  [uid |-> EventUID(<<"feed", i.source>>, i.id, i.title, i.start),
   source |-> <<"feed", i.source>>, title |-> i.title,
   location |-> i.location, url |-> None, start |-> i.start,
   ends |-> IF i.ends = None THEN i.start + DefaultDuration ELSE i.ends,
   status |-> i.status, anchor |-> i.anchor]

\* A feed lists some of its items: those its location filter keeps.
FeedResults(s) ==
  {[evs |-> {FeedEvent(i) : i \in items}, batch |-> NoBatch] :
     items \in SUBSET {i \in FeedItems : i.source = s}}

\* A page found by a search has no date yet, and nothing verified.
Discovered(s) == [source |-> s, verification |-> None, fields |-> NoFields]

\* A search finds some pages, deduplicated by canonical URL.
DiscoveryResults(s) ==
  {[evs |-> {}, batch |-> [u \in Urls |-> IF u \in found THEN Discovered(s) ELSE None]] :
     found \in SUBSET Urls}

Fetched(s) == IF s \in FeedSources THEN FeedResults(s) ELSE DiscoveryResults(s)

\* The loop over the sources, in config order, is at s.
Current(p, s) == s \in sync[p].left /\ \A k \in sync[p].left : s <= k

\* A mutant: the error of an iteration is not appended to the failures.
MutNextIterationForgets(p, failed) ==
  sync' = [sync EXCEPT ![p] =
             [Idle EXCEPT !.pc = "fetch",
                          !.left = {k \in sync[p].left :
                                      \E j \in sync[p].left : j < k},
                          !.failed = sync[p].failed]]

\* "continue" in that loop: all but the first source are left.
NextIteration(p, failed) ==
  sync' = [sync EXCEPT ![p] =
             [Idle EXCEPT !.pc = "fetch",
                          !.left = {k \in sync[p].left :
                                      \E j \in sync[p].left : j < k},
                          !.failed = failed]]

\* A mutant: past events are swept together with stale candidates.
MutStartSyncSweepsEvents(p) ==
  /\ sync[p].pc = "idle"
  /\ \/ /\ StoreOK
        /\ candidates' = PruneCandidates(candidates, now)
        /\ events' = {e \in events : e.start > now}
        /\ sync' = [sync EXCEPT ![p] =
                      [Idle EXCEPT !.pc = "fetch", !.left = config[p].sources]]
     \/ /\ StoreFault
        /\ UNCHANGED <<candidates, events, sync>>
  /\ UNCHANGED <<now, health, config>>

\* A process takes the mutex and prunes.  A prune error ends the sync.
StartSync(p) ==
  /\ sync[p].pc = "idle"
  /\ \/ /\ StoreOK
        /\ candidates' = PruneCandidates(candidates, now)
        /\ sync' = [sync EXCEPT ![p] =
                      [Idle EXCEPT !.pc = "fetch", !.left = config[p].sources]]
     \/ /\ StoreFault
        /\ UNCHANGED <<candidates, sync>>
  /\ UNCHANGED <<now, events, health, config>>

FailureState(s) == IF s \in Discovery THEN "degraded" ELSE "error"

HealthRow(s, state) == [enabled |-> s \notin Disabled, state |-> state]

\* INSERT ... ON CONFLICT(name) DO UPDATE.
SaveSourceHealth(s, state) == health' = [health EXCEPT ![s] = HealthRow(s, state)]

\* A disabled source is only recorded.
SkipDisabled(p) ==
  /\ sync[p].pc = "fetch"
  /\ \E s \in Disabled :
       /\ Current(p, s)
       /\ \/ /\ StoreOK
             /\ SaveSourceHealth(s, "disabled")
             /\ NextIteration(p, sync[p].failed)
          \/ /\ StoreFault
             /\ UNCHANGED health
             /\ NextIteration(p, TRUE)
  /\ UNCHANGED <<now, candidates, events, config>>

\* source.Fetch fails.  Only "error" makes the sync fail, unless the health
\* row cannot be written either.
FetchFails(p) ==
  /\ sync[p].pc = "fetch"
  /\ \E s \in Sources \ Disabled :
       /\ Current(p, s)
       /\ \/ /\ StoreOK
             /\ SaveSourceHealth(s, FailureState(s))
             /\ NextIteration(p, sync[p].failed \/ FailureState(s) = "error")
          \/ /\ StoreFault
             /\ UNCHANGED health
             /\ NextIteration(p, TRUE)
  /\ UNCHANGED <<now, candidates, events, config>>

\* source.Fetch returns its results.
FetchReturns(p) ==
  /\ sync[p].pc = "fetch"
  /\ \E s \in Sources \ Disabled :
       /\ Current(p, s)
       /\ \E r \in Fetched(s) :
            sync' = [sync EXCEPT ![p].pc = "health", ![p].evs = r.evs,
                                 ![p].batch = r.batch]
  /\ UNCHANGED <<now, candidates, events, health, faults, config>>

\* The healthy row is written before any result is stored; if that fails,
\* the fetched results are dropped.
SaveHealthy(p) ==
  /\ sync[p].pc = "health"
  /\ \E s \in Sources :
       /\ Current(p, s)
       /\ \/ /\ StoreOK
             /\ SaveSourceHealth(s, "healthy")
             /\ sync' = [sync EXCEPT ![p].pc = "events"]
          \/ /\ StoreFault
             /\ UNCHANGED health
             /\ NextIteration(p, TRUE)
  /\ UNCHANGED <<now, candidates, events, config>>

\* UpsertEvent for one fetched event; an error is remembered and the loop
\* goes on.
StoreEvent(p) ==
  /\ sync[p].pc = "events"
  /\ \E e \in sync[p].evs :
       \/ /\ StoreOK
          /\ ~UpsertEventFails(events, e)
          /\ events' = UpsertEvent(events, e)
          /\ sync' = [sync EXCEPT ![p].evs = @ \ {e}]
       \/ /\ StoreOK
          /\ UpsertEventFails(events, e)
          /\ UNCHANGED events
          /\ sync' = [sync EXCEPT ![p].evs = @ \ {e}, ![p].failed = TRUE]
       \/ /\ StoreFault
          /\ UNCHANGED events
          /\ sync' = [sync EXCEPT ![p].evs = @ \ {e}, ![p].failed = TRUE]
  /\ UNCHANGED <<now, candidates, health, config>>

BatchUrls(b) == {u \in Urls : b[u] # None}

\* verifyCandidates truncates the batch when there is a verifier.  Sources
\* rank as they like, so any candidates may be the first ones.
Kept(p, K) ==
  LET all == BatchUrls(sync[p].batch) IN
  /\ K \subseteq all
  /\ IF config[p].verifier /\ Cardinality(all) > MaxGeminiCandidates
       THEN Cardinality(K) = MaxGeminiCandidates
       ELSE K = all

BeginVerify(p) ==
  /\ sync[p].pc = "events"
  /\ sync[p].evs = {}
  /\ \E K \in SUBSET Urls :
       /\ Kept(p, K)
       /\ sync' = [sync EXCEPT
            ![p].pc = IF config[p].verifier THEN "verify" ELSE "store",
            ![p].batch = [u \in Urls |-> IF u \in K THEN @[u] ELSE None]]
  /\ UNCHANGED <<now, candidates, events, health, faults, config>>

\* A mutant: an answer that misses evidence is accepted.
MutAcceptsNoEvidence(a, t) == a["start_time"] # None /\ a["start_time"] > t

\* GeminiSource.verify accepts an answer about one specific future event
\* with a title, a venue, a page and both quotes.
Accepts(a, t) ==
  /\ \A f \in Required : a[f] # None
  /\ a["start_time"] > t

\* A mutant: an answer that is not accepted never comes back.
MutVerifyCandidateHangs(p, u) ==
  /\ sync[p].pc = "verify"
  /\ sync[p].batch[u] # None
  /\ sync[p].batch[u].verification = None
  /\ \E a \in Answers :
       /\ Accepts(a, now)
       /\ sync' = [sync EXCEPT ![p].batch[u] =
                     [source |-> @.source, verification |-> "verified",
                      fields |-> a]]
  /\ UNCHANGED <<now, candidates, events, health, faults, config>>

\* GeminiSource.VerifyCandidate for one candidate of the batch: an accepted
\* answer fills it, anything else (a refusal, a timeout, a bad answer) marks
\* it failed.
VerifyCandidate(p, u) ==
  /\ sync[p].pc = "verify"
  /\ sync[p].batch[u] # None
  /\ sync[p].batch[u].verification = None
  /\ \/ \E a \in Answers :
          /\ Accepts(a, now)
          /\ sync' = [sync EXCEPT ![p].batch[u] =
                        [source |-> @.source, verification |-> "verified",
                         fields |-> a]]
     \/ sync' = [sync EXCEPT ![p].batch[u] =
                   [source |-> @.source, verification |-> "failed",
                    fields |-> @.fields]]
  /\ UNCHANGED <<now, candidates, events, health, faults, config>>

\* waitGroup.Wait returns once every goroutine is done.
EndVerify(p) ==
  /\ sync[p].pc = "verify"
  /\ \A u \in BatchUrls(sync[p].batch) : sync[p].batch[u].verification # None
  /\ sync' = [sync EXCEPT ![p].pc = "store"]
  /\ UNCHANGED <<now, candidates, events, health, faults, config>>

StoreCandidate(p) ==
  /\ sync[p].pc = "store"
  /\ \E u \in BatchUrls(sync[p].batch) :
       \/ /\ StoreOK
          /\ candidates' = UpsertCandidate(candidates, u, sync[p].batch[u])
          /\ sync' = [sync EXCEPT ![p].batch[u] = None]
       \/ /\ StoreFault
          /\ UNCHANGED candidates
          /\ sync' = [sync EXCEPT ![p].batch[u] = None, ![p].failed = TRUE]
  /\ UNCHANGED <<now, events, health, config>>

SourceDone(p) ==
  /\ sync[p].pc = "store"
  /\ BatchUrls(sync[p].batch) = {}
  /\ NextIteration(p, sync[p].failed)
  /\ UNCHANGED <<now, candidates, events, health, faults, config>>

\* runSync returns, with an error if anything failed; the mutex is released.
FinishSync(p) ==
  /\ sync[p].pc = "fetch"
  /\ sync[p].left = {}
  /\ sync' = [sync EXCEPT ![p] = Idle]
  /\ UNCHANGED <<now, candidates, events, health, faults, config>>

\* Every step of a running sync.
SyncStep(p) ==
  \/ SkipDisabled(p)
  \/ FetchFails(p)
  \/ FetchReturns(p)
  \/ SaveHealthy(p)
  \/ StoreEvent(p)
  \/ BeginVerify(p)
  \/ \E u \in Urls : VerifyCandidate(p, u)
  \/ EndVerify(p)
  \/ StoreCandidate(p)
  \/ SourceDone(p)
  \/ FinishSync(p)

SyncNext(p) == StartSync(p) \/ SyncStep(p)

SyncStates ==
  [pc : {"idle", "fetch", "health", "events", "verify", "store"},
   left : SUBSET Sources, evs : SUBSET EventRows,
   batch : [Urls -> Found \cup {None}], failed : BOOLEAN]

SyncTypeOK ==
  /\ sync \in [Procs -> SyncStates]
  /\ config \in [Procs -> Configs]
=============================================================================
