------------------------------- MODULE Radar --------------------------------
(***************************************************************************)
(* Event Radar as it is deployed: the server (its ticker-driven sync and   *)
(* its review requests) and the sync and digest commands, all on one       *)
(* SQLite file.  Radar.mu serialises the syncs of one process and nothing  *)
(* else.                                                                   *)
(***************************************************************************)
EXTENDS Sync, Review

CONSTANT Server    \* the process that serves HTTP and runs the ticker

ASSUME ServerAssumption == Server \in Procs

vars == <<now, candidates, events, health, faults, sync, config, reviews>>

Init == StoreInit /\ SyncInit /\ ReviewInit

\* A process dies between two statements and is started again, perhaps with
\* another configuration.  What it kept in memory is gone.  It may do so at any
\* time and any number of times.
Restart(p) ==
  /\ StoreOK
  /\ sync' = [sync EXCEPT ![p] = Idle]
  /\ \E c \in Configs : config' = [config EXCEPT ![p] = c]
  /\ reviews' = IF p = Server THEN [r \in Reviewers |-> NoReview] ELSE reviews
  /\ UNCHANGED <<now, candidates, events, health>>

Next ==
  \/ Tick /\ UNCHANGED <<sync, config, reviews>>
  \/ \E p \in Procs : SyncNext(p) /\ UNCHANGED reviews
  \/ \E r \in Reviewers : ReviewNext(r) /\ UNCHANGED syncVars
  \/ \E p \in Procs : Restart(p)

Spec == Init /\ [][Next]_vars

\* A sync that runs goes on, because every network call has a timeout; the
\* server's ticker starts another one; a request that was accepted is served.
\* No reviewer has to act, and no command has to be run.
Fairness ==
  /\ WF_vars(StartSync(Server) /\ UNCHANGED reviews)
  /\ \A p \in Procs : WF_vars(SyncStep(p) /\ UNCHANGED reviews)
  /\ \A r \in Reviewers : WF_vars(ReviewStep(r) /\ UNCHANGED syncVars)

FairSpec == Spec /\ Fairness

-----------------------------------------------------------------------------
(* Safety.                                                                 *)

\* Every table and every process's memory has its type; in particular the
\* review handler never applies a request whose candidate it has not loaded.
TypeOK == StoreTypeOK /\ SyncTypeOK /\ ReviewTypeOK

Complete(m) == \A f \in Required : m[f] # None

\* The end that b gives may stand with the rest of a: it is a's own, unless a
\* has none.
MayEnd(a, b) == Complete(b) /\ (a["end_time"] # None => b = a)

\* m has no evidence yet, or its required columns are one complete answer, and
\* its end is the one of that answer or what an answer filled in later.
Coherent(m) ==
  \/ \A f \in Fields : m[f] = None
  \/ \E a, b \in Answers :
       /\ Complete(a)
       /\ MayEnd(a, b)
       /\ \A f \in Required : m[f] = a[f]
       /\ m["end_time"] = b["end_time"]

WellVerified(c) ==
  Coherent(c.fields) /\ (c.verification = "verified" => Complete(c.fields))

\* A stored candidate's title, date, venue, page and quotes come from one
\* answer of the verifier, although UpsertCandidate fills column by column and
\* review requests write back copies of older rows; and a row marked verified
\* has all of them.  The optional end alone may come from another answer, and
\* only where the first one left it open.
EvidenceCoherent ==
  \A u \in Urls : candidates[u] # None => WellVerified(candidates[u])

CandidateKey(c) == <<Fold[c.fields["event_title"]], c.fields["start_time"],
                     Fold[c.fields["location"]]>>

\* An approved candidate has its event in the calendar under the title, date
\* and venue the candidate has now: later syncs and stale review requests may
\* rewrite the row, but never away from what was published.
ApprovedIsPublished ==
  \A u \in Urls :
    (candidates[u] # None /\ candidates[u].status = "approved") =>
      \E e \in events : EventFingerprint(e) = CandidateKey(candidates[u])

\* a says what e shows: in the calendar or in a line of a digest.
Says(a, e) ==
  /\ Complete(a)
  /\ e.title = a["event_title"]
  /\ e.start = a["start_time"]
  /\ e.location = a["location"]
  /\ e.url = a["evidence_url"]

\* What an event shows is in one complete answer, and its end in that one, in
\* one that filled it in, or in none.
Evident(e) ==
  e.source[1] = "reviewed" =>
    \E a, b \in Answers :
      /\ Says(a, e)
      /\ MayEnd(a, b)
      /\ e.ends = IF b["end_time"] = None THEN e.start + DefaultDuration
                                          ELSE b["end_time"]

\* Whatever the calendar shows of a reviewed candidate is what one complete
\* answer said: date and venue of an event are never taken from different
\* verifications, and an end that was announced is never replaced.
PublishedWithEvidence == \A e \in events : Evident(e)

FeedEvents == {FeedEvent(i) : i \in FeedItems}

\* A process's memory holds well-verified candidates and what feeds list.
SoundMemory(m) ==
  /\ \A u \in Urls : m.batch[u] # None => WellVerified(m.batch[u])
  /\ m.evs \subseteq FeedEvents

\* What is in flight is as sound as what is stored: the batches of syncs and
\* the rows that review requests have loaded, however old they are.
MemorySound ==
  /\ \A p \in Procs : SoundMemory(sync[p])
  /\ \A r \in Reviewers : reviews[r].row # None => WellVerified(reviews[r].row)

\* An approved row is complete, so that no later merge fills a column of it.
ApprovedComplete ==
  \A u \in Urls :
    (candidates[u] # None /\ candidates[u].status = "approved") =>
      Complete(candidates[u].fields)

\* The inductive invariant: the properties above, strengthened by what is in
\* memory, which is written to the tables later.
IInv ==
  /\ TypeOK
  /\ EvidenceCoherent
  /\ MemorySound
  /\ ApprovedComplete
  /\ ApprovedIsPublished
  /\ PublishedWithEvidence

-----------------------------------------------------------------------------
(* What a step may never do.                                               *)

\* A candidate that a sync deletes could not have been approved at that
\* moment: pruning and the publish gate agree on what is over, and approved
\* candidates are kept.
PrunedWasUnapprovable ==
  [][\A u \in Urls :
       (candidates[u] # None /\ candidates'[u] = None) =>
         /\ candidates[u].status # "approved"
         /\ ~approveGate(candidates[u], now)]_vars

\* A calendar entry keeps its uid and its identity for ever, whoever reports
\* the event again: subscribers never see an event replaced or dropped.
EventIdentityStable ==
  [][\A e \in events : \E f \in events' :
       f.uid = e.uid /\ EventFingerprint(f) = EventFingerprint(e)]_vars

Applying(r, a) ==
  reviews[r].pc = "apply" /\ reviews[r].action = a /\ reviews'[r].pc = "idle"

\* An approval that answers 303 has written both the event and the approved
\* row, in that one step; any other end of the request, a crash included, has
\* written neither.
ApprovalAtomic ==
  [][\A r \in Reviewers : Applying(r, "approve") =>
       IF reviews'[r].reply = "303"
         THEN LET u == reviews[r].url IN
              /\ candidates'[u] # None
              /\ candidates'[u].status = "approved"
              /\ \E e \in events' :
                   EventFingerprint(e) = CandidateKey(reviews[r].row)
         ELSE UNCHANGED <<events, candidates>>]_vars

\* A sync that returns no error leaves every source of its configuration with
\* a health row other than "error".  For one process: another one may record
\* its own failure in between.
SuccessfulSyncIsHealthy ==
  [][\A p \in Procs :
       (FinishSync(p) /\ ~sync[p].failed) =>
         \A s \in config[p].sources :
           health[s] # None /\ health[s].state # "error"]_vars

-----------------------------------------------------------------------------
(* Refinement: what the interleaved statements implement.                  *)

\* What moderation can see of the tables and of the requests in flight.
RowStatus(c) == IF c = None THEN "absent" ELSE c.status
RowEntry(c) == IF RowStatus(c) = "approved" THEN CandidateKey(c) ELSE None
CalendarEntry(e) == [uid |-> e.uid, key |-> EventFingerprint(e)]

statusMap == [u \in Urls |-> RowStatus(candidates[u])]
entryMap == [u \in Urls |-> RowEntry(candidates[u])]
calendarMap == {CalendarEntry(e) : e \in events}
askedMap ==
  [r \in Reviewers |->
     IF reviews[r].pc = "idle" THEN [action |-> "none", url |-> None]
     ELSE [action |-> reviews[r].action, url |-> reviews[r].url]]

M == INSTANCE Moderation
       WITH status <- statusMap, entry <- entryMap, calendar <- calendarMap,
            asked <- askedMap

\* Every step of the deployed system is a moderation step or changes nothing
\* that moderation can see: no interleaving of syncs, reviews and crashes
\* changes a review status that nobody asked to change, or an approval
\* without its event.
ImplementsModeration == M!Spec

-----------------------------------------------------------------------------
(* Liveness.                                                               *)

\* Every sync ends and releases the mutex.
SyncEnds == \A p \in Procs : sync[p].pc # "idle" ~> sync[p].pc = "idle"

\* Every accepted review request is answered.
ReviewAnswered ==
  \A r \in Reviewers : reviews[r].pc # "idle" ~> reviews[r].pc = "idle"

\* A verified candidate whose event has started does not stay on the review
\* page: a later sync prunes it, unless it is approved or its verification
\* changes first.
StaleIsPruned ==
  \A u \in Urls : Stale(candidates[u], now) ~> ~Stale(candidates[u], now)

-----------------------------------------------------------------------------
(* What the documentation says and the code does not do.                   *)

\* CONTEXT.md: "Only anchored events and approved candidates are published."
OnlyApprovedPublished ==
  \A e \in events : e.source[1] = "reviewed" =>
    \E u \in Urls :
      /\ candidates[u] # None
      /\ candidates[u].status = "approved"
      /\ CandidateKey(candidates[u]) = EventFingerprint(e)

\* Store.UpdateCandidate "writes review metadata back": a rejection or a
\* restoration changes the status and no other modelled column.
ReviewWritesOnlyMetadata ==
  [][\A r \in Reviewers :
       (Applying(r, "reject") \/ Applying(r, "restore")) =>
         LET u == reviews[r].url IN
         (candidates[u] # None /\ candidates'[u] # None) =>
            /\ candidates'[u].verification = candidates[u].verification
            /\ candidates'[u].fields = candidates[u].fields]_vars

\* CONTEXT.md: a sync is to "store results".  When the store accepts
\* statements, a fetched event is in the table, with its venue, after its
\* UpsertEvent.
FetchedEventStored ==
  [][\A p \in Procs :
       (sync[p].pc = "events" /\ sync'[p].pc = "events" /\ faults' = faults) =>
         \A e \in sync[p].evs \ sync'[p].evs :
           \E f \in events' : f.title = e.title /\ f.start = e.start
                              /\ f.location = e.location]_vars
=============================================================================
