---------------------------- MODULE RadarProofs -----------------------------
(***************************************************************************)
(* Proofs about Radar, for every value of its constants that satisfies the *)
(* assumptions of Store, Sync and Radar.                                   *)
(***************************************************************************)
EXTENDS Radar, StoreProofs

USE DEF Statuses, Verifications, Sources, Text0, Time0

-----------------------------------------------------------------------------
(* What the store's operators build.                                       *)

\* What a feed lists becomes a row of events.
LEMMA FeedEventType ==
  ASSUME NEW i \in FeedItems
  PROVE  FeedEvent(i) \in EventRows
<1>1. i \in FeedItemType
  BY InputsAssumption
<1>2. EventUID(<<"feed", i.source>>, i.id, i.title, i.start) \in UIDs
  BY <1>1, FoldAssumption DEF EventUID, UIDs, Origins, FeedItemType
<1>3. (IF i.ends = None THEN i.start + DefaultDuration ELSE i.ends) \in Nat
  BY <1>1, BoundsAssumption DEF FeedItemType
<1>. QED  BY <1>1, <1>2, <1>3 DEF FeedEvent, EventRows, FeedItemType, Origins

\* What a source returns is typed.
LEMMA FetchedType ==
  ASSUME NEW s \in Sources, NEW r \in Fetched(s)
  PROVE  r.evs \in SUBSET EventRows /\ r.batch \in [Urls -> Found \cup {None}]
<1>1. CASE s \in FeedSources
  <2>1. PICK items \in SUBSET {i \in FeedItems : i.source = s} :
          r = [evs |-> {FeedEvent(i) : i \in items}, batch |-> NoBatch]
    BY <1>1 DEF Fetched, FeedResults
  <2>2. {FeedEvent(i) : i \in items} \in SUBSET EventRows
    BY FeedEventType
  <2>. QED  BY <2>1, <2>2 DEF NoBatch
<1>2. CASE s \notin FeedSources
  <2>1. Discovered(s) \in Found
    BY NoFieldsType DEF Discovered, Found
  <2>. QED  BY <1>2, <2>1 DEF Fetched, DiscoveryResults
<1>. QED  BY <1>1, <1>2

\* What an approval publishes is a row of events.
LEMMA ApprovedEventType ==
  ASSUME NEW u \in Urls, NEW c \in CandidateRows, Complete(c.fields)
  PROVE  ApprovedEvent(u, c) \in EventRows
<1>. DEFINE f == c.fields
<1>1. f \in FieldMaps /\ c.source \in Sources
  BY DEF CandidateRows
<1>2. /\ f["event_title"] \in Text
      /\ f["location"] \in Text
      /\ f["evidence_url"] \in Text
      /\ f["start_time"] \in Nat
      /\ f["end_time"] \in Nat \cup {None}
  BY <1>1, FieldHasType DEF FieldType, Complete, Required, Fields
<1>3. EventUID(<<"reviewed", c.source>>, u, f["event_title"], f["start_time"])
        \in UIDs
  BY <1>1, <1>2, FoldAssumption DEF EventUID, UIDs, Origins
<1>4. (IF f["end_time"] = None THEN f["start_time"] + DefaultDuration
       ELSE f["end_time"]) \in Nat
  BY <1>2, BoundsAssumption
<1>. QED
  BY <1>1, <1>2, <1>3, <1>4 DEF ApprovedEvent, EventRows, Origins

\* UpsertCandidate stores rows of candidates.
LEMMA UpsertCandidateType ==
  ASSUME NEW C \in [Urls -> CandidateRows \cup {None}], NEW u \in Urls,
         NEW c \in Found
  PROVE  /\ UpsertCandidate(C, u, c) \in [Urls -> CandidateRows \cup {None}]
         /\ UpsertCandidate(C, u, c)[u] \in CandidateRows
<1>1. c.fields \in FieldMaps /\ c.source \in Sources
  BY DEF Found
<1>2. VerificationColumn(c.verification) \in Verifications
  BY DEF Found, VerificationColumn
<1>3. StatusColumn(C[u]) \in Statuses
  BY DEF StatusColumn, CandidateRows
<1>4. (IF C[u] = None THEN c.fields ELSE MergeFields(C[u].fields, c.fields))
        \in FieldMaps
  BY <1>1, MergeFieldsType DEF CandidateRows
<1>. QED
  BY <1>1, <1>2, <1>3, <1>4 DEF UpsertCandidate, CandidateRows

\* A row that a batch holds for a page has the type of a found candidate.
LEMMA IdleType == Idle \in SyncStates
BY DEF Idle, SyncStates, NoBatch

\* Going on with the loop keeps the type of sync.
LEMMA NextIterationType ==
  ASSUME SyncTypeOK, NEW p \in Procs, NEW b \in BOOLEAN, NextIteration(p, b)
  PROVE  sync' \in [Procs -> SyncStates]
<1>1. {k \in sync[p].left : \E j \in sync[p].left : j < k} \in SUBSET Sources
  BY DEF SyncTypeOK, SyncStates
<1>. QED
  BY <1>1, IdleType DEF SyncTypeOK, SyncStates, NextIteration

\* An answered request has the type of an idle one.
LEMMA ReplyType ==
  ASSUME ReviewTypeOK, NEW r \in Reviewers, NEW code \in Replies, Reply(r, code)
  PROVE  ReviewTypeOK'
<1>1. [NoReview EXCEPT !.reply = code] \in ReviewStates
  BY DEF NoReview, ReviewStates, Actions
<1>2. [NoReview EXCEPT !.reply = code].pc = "idle"
  BY DEF NoReview
<1>. QED
  BY <1>1, <1>2 DEF ReviewTypeOK, Reply

\* The empty database is typed.
LEMMA InitType == Init => TypeOK
<1>1. StoreInit => StoreTypeOK
  BY DEF StoreInit, StoreTypeOK
<1>2. SyncInit => SyncTypeOK
  BY IdleType DEF SyncInit, SyncTypeOK
<1>3. ReviewInit => ReviewTypeOK
  BY DEF ReviewInit, ReviewTypeOK, ReviewStates, NoReview, Actions, Replies
<1>. QED  BY <1>1, <1>2, <1>3 DEF Init, TypeOK

-----------------------------------------------------------------------------
(* Type correctness.                                                       *)

\* A health row is typed.
LEMMA SaveSourceHealthType ==
  ASSUME StoreTypeOK, NEW s \in Sources,
         NEW state \in {"healthy", "degraded", "error", "disabled"},
         SaveSourceHealth(s, state)
  PROVE  health' \in [Sources -> HealthRows \cup {None}]
BY DEF StoreTypeOK, SaveSourceHealth, HealthRow, HealthRows

\* faults counts.
LEMMA FaultsType ==
  ASSUME StoreTypeOK, StoreOK \/ StoreFault \/ UNCHANGED faults
  PROVE  faults' \in Nat
BY DEF StoreTypeOK, StoreOK, StoreFault

\* A process's own sync steps keep the tables and sync typed.
LEMMA SyncNextType ==
  ASSUME StoreTypeOK, SyncTypeOK, NEW p \in Procs, SyncNext(p)
  PROVE  StoreTypeOK' /\ SyncTypeOK'
<1>. USE DEF SyncTypeOK
<1>0. sync[p] \in SyncStates /\ config[p].sources \in SUBSET Sources
  BY SyncAssumption DEF ConfigType
<1>1. CASE StartSync(p)
  <2>1. candidates' \in [Urls -> CandidateRows \cup {None}]
    BY <1>1, PruneCandidatesType DEF StartSync, StoreTypeOK
  <2>2. sync' \in [Procs -> SyncStates]
    <3>1. [Idle EXCEPT !.pc = "fetch", !.left = config[p].sources] \in SyncStates
      BY <1>0 DEF Idle, SyncStates, NoBatch
    <3>. QED  BY <1>1, <3>1 DEF StartSync
  <2>3. faults' \in Nat
    BY <1>1, FaultsType DEF StartSync
  <2>. QED  BY <1>1, <2>1, <2>2, <2>3 DEF StartSync, StoreTypeOK
<1>2. CASE SkipDisabled(p)
  <2>1. sync' \in [Procs -> SyncStates]
    BY <1>0, <1>2, NextIterationType DEF SkipDisabled, SyncStates
  <2>2. health' \in [Sources -> HealthRows \cup {None}]
    BY <1>2, SaveSourceHealthType, SyncAssumption
       DEF SkipDisabled, StoreTypeOK
  <2>3. faults' \in Nat
    BY <1>2, FaultsType DEF SkipDisabled
  <2>. QED  BY <1>2, <2>1, <2>2, <2>3 DEF SkipDisabled, StoreTypeOK
<1>3. CASE FetchFails(p)
  <2>1. sync' \in [Procs -> SyncStates]
    BY <1>0, <1>3, NextIterationType DEF FetchFails, SyncStates
  <2>2. health' \in [Sources -> HealthRows \cup {None}]
    BY <1>3, SaveSourceHealthType DEF FetchFails, FailureState, StoreTypeOK
  <2>3. faults' \in Nat
    BY <1>3, FaultsType DEF FetchFails
  <2>. QED  BY <1>3, <2>1, <2>2, <2>3 DEF FetchFails, StoreTypeOK
<1>4. CASE FetchReturns(p)
  <2>1. PICK s \in Sources : \E r \in Fetched(s) :
            sync' = [sync EXCEPT ![p].pc = "health", ![p].evs = r.evs,
                                 ![p].batch = r.batch]
    BY <1>4, Zenon DEF FetchReturns
  <2>2. PICK r \in Fetched(s) :
            sync' = [sync EXCEPT ![p].pc = "health", ![p].evs = r.evs,
                                 ![p].batch = r.batch]
    BY <2>1
  <2>3. r.evs \in SUBSET EventRows /\ r.batch \in [Urls -> Found \cup {None}]
    BY FetchedType
  <2>. QED  BY <1>0, <1>4, <2>2, <2>3
       DEF FetchReturns, SyncStates, StoreTypeOK
<1>5. CASE SaveHealthy(p)
  <2>1. sync' \in [Procs -> SyncStates]
    <3>1. CASE sync' = [sync EXCEPT ![p].pc = "events"]
      BY <1>0, <3>1 DEF SyncStates
    <3>2. CASE NextIteration(p, TRUE)
      BY <3>2, NextIterationType
    <3>. QED  BY <1>5, <3>1, <3>2 DEF SaveHealthy
  <2>2. health' \in [Sources -> HealthRows \cup {None}]
    BY <1>5, SaveSourceHealthType DEF SaveHealthy, StoreTypeOK
  <2>3. faults' \in Nat
    BY <1>5, FaultsType DEF SaveHealthy
  <2>. QED  BY <1>5, <2>1, <2>2, <2>3 DEF SaveHealthy, StoreTypeOK
<1>6. CASE StoreEvent(p)
  <2>1. sync' \in [Procs -> SyncStates]
    <3>1. PICK e \in sync[p].evs :
            \/ sync' = [sync EXCEPT ![p].evs = @ \ {e}]
            \/ sync' = [sync EXCEPT ![p].evs = @ \ {e}, ![p].failed = TRUE]
      BY <1>6 DEF StoreEvent
    <3>2. sync[p].evs \ {e} \in SUBSET EventRows
      BY <1>0 DEF SyncStates
    <3>3. CASE sync' = [sync EXCEPT ![p].evs = @ \ {e}]
      BY <1>0, <3>2, <3>3 DEF SyncStates
    <3>4. CASE sync' = [sync EXCEPT ![p].evs = @ \ {e}, ![p].failed = TRUE]
      BY <1>0, <3>2, <3>4 DEF SyncStates
    <3>. QED  BY <3>1, <3>3, <3>4
  <2>2. events' \subseteq EventRows
    BY <1>0, <1>6, UpsertEventType DEF StoreEvent, StoreTypeOK, SyncStates
  <2>3. faults' \in Nat
    BY <1>6, FaultsType DEF StoreEvent
  <2>. QED  BY <1>6, <2>1, <2>2, <2>3 DEF StoreEvent, StoreTypeOK
<1>7. CASE BeginVerify(p)
  <2>1. PICK K \in SUBSET Urls :
          sync' = [sync EXCEPT
            ![p].pc = IF config[p].verifier THEN "verify" ELSE "store",
            ![p].batch = [u \in Urls |-> IF u \in K THEN @[u] ELSE None]]
    BY <1>7 DEF BeginVerify
  <2>2. [u \in Urls |-> IF u \in K THEN sync[p].batch[u] ELSE None]
          \in [Urls -> Found \cup {None}]
    BY <1>0 DEF SyncStates
  <2>. QED  BY <1>0, <1>7, <2>1, <2>2 DEF BeginVerify, SyncStates, StoreTypeOK
<1>8. CASE \E u \in Urls : VerifyCandidate(p, u)
  <2>1. PICK u \in Urls : VerifyCandidate(p, u)
    BY <1>8
  <2>2. sync[p].batch[u] \in Found
    BY <1>0, <2>1 DEF VerifyCandidate, SyncStates
  <2>3. PICK c \in Found : sync' = [sync EXCEPT ![p].batch[u] = c]
    BY <2>1, <2>2, InputsAssumption DEF VerifyCandidate, Found
  <2>4. [sync[p].batch EXCEPT ![u] = c] \in [Urls -> Found \cup {None}]
    BY <1>0 DEF SyncStates
  <2>5. sync' \in [Procs -> SyncStates]
    BY <1>0, <2>3, <2>4 DEF SyncStates
  <2>. QED  BY <2>1, <2>5 DEF VerifyCandidate, StoreTypeOK
<1>9. CASE EndVerify(p)
  BY <1>0, <1>9 DEF EndVerify, SyncStates, StoreTypeOK
<1>10. CASE StoreCandidate(p)
  <2>1. sync' \in [Procs -> SyncStates]
    <3>1. PICK u \in Urls :
            \/ sync' = [sync EXCEPT ![p].batch[u] = None]
            \/ sync' = [sync EXCEPT ![p].batch[u] = None, ![p].failed = TRUE]
      BY <1>10 DEF StoreCandidate, BatchUrls
    <3>2. [sync[p].batch EXCEPT ![u] = None] \in [Urls -> Found \cup {None}]
      BY <1>0 DEF SyncStates
    <3>3. CASE sync' = [sync EXCEPT ![p].batch[u] = None]
      BY <1>0, <3>2, <3>3 DEF SyncStates
    <3>4. CASE sync' = [sync EXCEPT ![p].batch[u] = None, ![p].failed = TRUE]
      BY <1>0, <3>2, <3>4 DEF SyncStates
    <3>. QED  BY <3>1, <3>3, <3>4
  <2>2. candidates' \in [Urls -> CandidateRows \cup {None}]
    BY <1>0, <1>10, UpsertCandidateType
       DEF StoreCandidate, StoreTypeOK, SyncStates, BatchUrls
  <2>3. faults' \in Nat
    BY <1>10, FaultsType DEF StoreCandidate
  <2>. QED  BY <1>10, <2>1, <2>2, <2>3 DEF StoreCandidate, StoreTypeOK
<1>11. CASE SourceDone(p)
  <2>1. sync' \in [Procs -> SyncStates]
    BY <1>0, <1>11, NextIterationType DEF SourceDone, SyncStates
  <2>. QED  BY <1>11, <2>1 DEF SourceDone, StoreTypeOK
<1>12. CASE FinishSync(p)
  BY <1>12, IdleType DEF FinishSync, StoreTypeOK
<1>. QED
  BY <1>1, <1>2, <1>3, <1>4, <1>5, <1>6, <1>7, <1>8, <1>9, <1>10, <1>11,
     <1>12 DEF SyncNext, SyncStep

\* A request's own steps keep the tables and the requests typed.
LEMMA ReviewNextType ==
  ASSUME StoreTypeOK, ReviewTypeOK, NEW r \in Reviewers, ReviewNext(r)
  PROVE  StoreTypeOK' /\ ReviewTypeOK'
<1>0. reviews[r] \in ReviewStates
  BY DEF ReviewTypeOK
<1>1. CASE BeginReview(r)
  <2>1. PICK a \in Actions, u \in Urls : reviews' = [reviews EXCEPT ![r] =
          [NoReview EXCEPT !.pc = "load", !.action = a, !.url = u,
                    !.at = IF a = "approve" THEN now ELSE 0]]
    BY <1>1 DEF BeginReview
  <2>2. [NoReview EXCEPT !.pc = "load", !.action = a, !.url = u,
                    !.at = IF a = "approve" THEN now ELSE 0]
          \in ReviewStates
    BY DEF NoReview, ReviewStates, Replies, StoreTypeOK
  <2>. QED  BY <1>1, <2>1, <2>2
       DEF BeginReview, ReviewTypeOK, StoreTypeOK, storeVars, NoReview
<1>2. CASE LoadCandidate(r)
  <2>1. faults' \in Nat
    BY <1>2, FaultsType DEF LoadCandidate
  <2>2. StoreTypeOK'
    BY <1>2, <2>1 DEF LoadCandidate, StoreTypeOK
  <2>3. CASE Reply(r, "404") \/ Reply(r, "500")
    BY <2>2, <2>3, ReplyType DEF Replies
  <2>4. CASE /\ candidates[reviews[r].url] # None
             /\ reviews' = [reviews EXCEPT ![r].pc = "apply",
                              ![r].row = candidates[reviews[r].url]]
    <3>1. reviews[r].url \in Urls
      BY <1>2 DEF LoadCandidate, ReviewTypeOK
    <3>2. candidates[reviews[r].url] \in CandidateRows \cup {None}
      BY <3>1 DEF StoreTypeOK
    <3>. QED  BY <1>0, <2>2, <2>4, <3>1, <3>2 DEF ReviewTypeOK, ReviewStates
  <2>. QED  BY <1>2, <2>3, <2>4 DEF LoadCandidate
<1>3. ASSUME reviews[r].pc = "apply"
      PROVE  /\ reviews[r].url \in Urls
             /\ reviews[r].row \in CandidateRows
             /\ \A st \in Statuses :
                  [reviews[r].row EXCEPT !.status = st] \in CandidateRows
  <2>1. reviews[r].url \in Urls /\ reviews[r].row \in CandidateRows
    BY <1>0, <1>3 DEF ReviewTypeOK, ReviewStates
  <2>. QED  BY <2>1 DEF CandidateRows
<1>4. CASE ApproveCandidate(r)
  <2>. DEFINE c == reviews[r].row
              u == reviews[r].url
              ok == [c EXCEPT !.status = "approved"]
  <2>1. /\ u \in Urls
        /\ c \in CandidateRows
        /\ ok \in CandidateRows
    BY <1>3, <1>4 DEF ApproveCandidate
  <2>2. CASE /\ approveGate(c, reviews[r].at)
             /\ Publish(r, ApprovedEvent(u, c), ok)
    <3>1. ApprovedEvent(u, c) \in EventRows
      BY <2>1, <2>2, ApprovedEventType DEF approveGate, Complete
    <3>. HIDE DEF c, u, ok
    <3>2. events' \subseteq EventRows
      BY <2>2, <3>1, UpsertEventType DEF Publish, StoreTypeOK
    <3>3. candidates' \in [Urls -> CandidateRows \cup {None}]
      BY <2>1, <2>2, UpdateCandidateType DEF Publish, StoreTypeOK, u
    <3>4. faults' \in Nat
      BY <2>2, FaultsType DEF Publish
    <3>5. ReviewTypeOK'
      BY <2>2, ReplyType DEF Publish, Replies
    <3>. QED  BY <1>4, <3>2, <3>3, <3>4, <3>5 DEF ApproveCandidate, StoreTypeOK
  <2>3. CASE /\ ~approveGate(c, reviews[r].at)
             /\ Reply(r, "400")
             /\ UNCHANGED <<events, candidates, faults>>
    BY <1>4, <2>3, ReplyType DEF ApproveCandidate, StoreTypeOK, Replies
  <2>. QED  BY <1>4, <2>2, <2>3 DEF ApproveCandidate
<1>5. ASSUME NEW status \in {"rejected", "pending"}, WriteStatus(r, status)
      PROVE  StoreTypeOK' /\ ReviewTypeOK'
  <2>. DEFINE c == [reviews[r].row EXCEPT !.status = status]
  <2>1. reviews[r].url \in Urls /\ c \in CandidateRows
    BY <1>3, <1>5 DEF WriteStatus
  <2>. HIDE DEF c
  <2>2. candidates' \in [Urls -> CandidateRows \cup {None}]
    BY <1>5, <2>1, UpdateCandidateType DEF WriteStatus, StoreTypeOK, c
  <2>3. faults' \in Nat
    BY <1>5, FaultsType DEF WriteStatus
  <2>4. ReviewTypeOK'
    BY <1>5, ReplyType DEF WriteStatus, Replies
  <2>. QED  BY <1>5, <2>2, <2>3, <2>4 DEF WriteStatus, StoreTypeOK
<1>. QED
  BY <1>1, <1>2, <1>4, <1>5
  DEF ReviewNext, ReviewStep, RejectCandidate, RestoreCandidate

\* A restart forgets what was in memory and keeps the tables.
LEMMA RestartType ==
  ASSUME TypeOK, NEW p \in Procs, Restart(p)
  PROVE  TypeOK'
<1>1. StoreTypeOK'
  BY FaultsType DEF TypeOK, Restart, StoreTypeOK
<1>2. SyncTypeOK'
  BY IdleType DEF TypeOK, Restart, SyncTypeOK
<1>3. [r \in Reviewers |-> NoReview] \in [Reviewers -> ReviewStates]
  BY DEF NoReview, ReviewStates, Actions, Replies
<1>4. ReviewTypeOK'
  BY <1>3 DEF TypeOK, Restart, ReviewTypeOK, NoReview
<1>. QED  BY <1>1, <1>2, <1>4 DEF TypeOK

\* Time passing changes no table.
LEMMA TickType == ASSUME StoreTypeOK, Tick PROVE StoreTypeOK'
BY DEF StoreTypeOK, Tick

\* Every step keeps the types.
LEMMA NextType == TypeOK /\ [Next]_vars => TypeOK'
<1>. SUFFICES ASSUME TypeOK, [Next]_vars PROVE TypeOK'
  OBVIOUS
<1>1. CASE Tick /\ UNCHANGED <<sync, config, reviews>>
  BY <1>1, TickType DEF TypeOK, SyncTypeOK, ReviewTypeOK
<1>2. ASSUME NEW p \in Procs, SyncNext(p), UNCHANGED reviews PROVE TypeOK'
  BY <1>2, SyncNextType DEF TypeOK, ReviewTypeOK
<1>3. ASSUME NEW r \in Reviewers, ReviewNext(r), UNCHANGED syncVars
      PROVE  TypeOK'
  BY <1>3, ReviewNextType DEF TypeOK, SyncTypeOK, syncVars
<1>4. ASSUME NEW p \in Procs, Restart(p) PROVE TypeOK'
  BY <1>4, RestartType
<1>5. CASE UNCHANGED vars
  BY <1>5 DEF vars, TypeOK, StoreTypeOK, SyncTypeOK, ReviewTypeOK
<1>. QED  BY <1>1, <1>2, <1>3, <1>4, <1>5 DEF Next

\* Every table and every process's memory always has its type, and a review
\* request never applies a candidate it has not loaded.
THEOREM TypeCorrect == Spec => []TypeOK
BY InitType, NextType, PTL DEF Spec

-----------------------------------------------------------------------------
(* Evidence: what the merge and the upserts preserve.                      *)

\* Filling empty columns never mixes two answers: coherent columns merged
\* with coherent ones stay coherent, and complete ones stay as they are.
LEMMA MergeFieldsCoherent ==
  ASSUME NEW old \in FieldMaps, NEW new \in FieldMaps,
         Coherent(old), Coherent(new)
  PROVE  /\ Coherent(MergeFields(old, new))
         /\ Complete(old) \/ Complete(new) => Complete(MergeFields(old, new))
         /\ Complete(old) =>
              \A f \in Required : MergeFields(old, new)[f] = old[f]
<1>. DEFINE m == MergeFields(old, new)
<1>1. Required \subseteq Fields /\ "end_time" \in Fields
  BY DEF Fields
<1>2. \A f \in Fields : m[f] = IF old[f] = None THEN new[f] ELSE old[f]
  BY DEF MergeFields
<1>. HIDE DEF m
<1>3. CASE \A f \in Fields : old[f] = None
  <2>1. \A f \in Fields : m[f] = new[f]
    BY <1>2, <1>3
  <2>2. ~Complete(old)
    BY <1>1, <1>3 DEF Complete, Required
  <2>3. Coherent(m) /\ (Complete(new) => Complete(m))
    BY <1>1, <2>1 DEF Coherent, Complete
  <2>. QED  BY <2>2, <2>3 DEF m
<1>4. CASE \E a, b \in Answers :
             /\ Complete(a)
             /\ MayEnd(a, b)
             /\ \A f \in Required : old[f] = a[f]
             /\ old["end_time"] = b["end_time"]
  <2>1. PICK a \in Answers, b \in Answers :
             /\ Complete(a)
             /\ MayEnd(a, b)
             /\ \A f \in Required : old[f] = a[f]
             /\ old["end_time"] = b["end_time"]
    BY <1>4
  <2>2. \A f \in Required : old[f] # None /\ m[f] = old[f]
    BY <1>1, <1>2, <2>1 DEF Complete
  <2>3. \E c \in Answers : MayEnd(a, c) /\ m["end_time"] = c["end_time"]
    <3>1. CASE old["end_time"] # None \/ new["end_time"] = None
      BY <1>1, <1>2, <2>1, <3>1
    <3>2. CASE old["end_time"] = None /\ new["end_time"] # None
      <4>1. PICK c \in Answers : Complete(c) /\ new["end_time"] = c["end_time"]
        BY <1>1, <3>2 DEF Coherent, MayEnd
      <4>2. a["end_time"] = None
        BY <2>1, <3>2 DEF MayEnd
      <4>. QED  BY <1>1, <1>2, <3>2, <4>1, <4>2 DEF MayEnd
    <3>. QED  BY <3>1, <3>2
  <2>4. Coherent(m)
    BY <2>1, <2>2, <2>3 DEF Coherent
  <2>5. Complete(m)
    BY <2>2 DEF Complete
  <2>. QED  BY <2>2, <2>4, <2>5 DEF m
<1>. QED  BY <1>3, <1>4 DEF Coherent

\* Storing a well-verified candidate leaves a well-verified row.
LEMMA UpsertCandidateWell ==
  ASSUME NEW C \in [Urls -> CandidateRows \cup {None}], NEW u \in Urls,
         NEW c \in Found, WellVerified(c), C[u] # None => WellVerified(C[u])
  PROVE  /\ UpsertCandidate(C, u, c)[u] # None
         /\ WellVerified(UpsertCandidate(C, u, c)[u])
         /\ UpsertCandidate(C, u, c)[u].status = StatusColumn(C[u])
         /\ (C[u] # None /\ Complete(C[u].fields)) =>
              \A f \in Required :
                UpsertCandidate(C, u, c)[u].fields[f] = C[u].fields[f]
<1>. DEFINE d == UpsertCandidate(C, u, c)[u]
            m == IF C[u] = None THEN c.fields
                 ELSE MergeFields(C[u].fields, c.fields)
<1>1. /\ d.fields = m
      /\ d.verification = VerificationColumn(c.verification)
      /\ d.status = StatusColumn(C[u])
  BY DEF UpsertCandidate
<1>2. d # None
  BY UpsertCandidateType, NoneRowAssumption
<1>3. (C[u] # None => C[u].fields \in FieldMaps) /\ c.fields \in FieldMaps
  BY DEF CandidateRows, Found
<1>4. Coherent(c.fields) /\ (c.verification = "verified" => Complete(c.fields))
  BY DEF WellVerified
<1>5. Coherent(m) /\ (Complete(c.fields) => Complete(m))
  BY <1>3, <1>4, MergeFieldsCoherent DEF WellVerified
<1>6. d.verification = "verified" => c.verification = "verified"
  BY <1>1 DEF VerificationColumn
<1>7. WellVerified(d)
  BY <1>1, <1>4, <1>5, <1>6 DEF WellVerified
<1>8. (C[u] # None /\ Complete(C[u].fields)) =>
        \A f \in Required : d.fields[f] = C[u].fields[f]
  BY <1>1, <1>3, <1>4, MergeFieldsCoherent DEF WellVerified
<1>. QED  BY <1>1, <1>2, <1>7, <1>8

\* An upsert shows what the new report says, at the same start.
LEMMA UpsertEventEvident ==
  ASSUME NEW E \in SUBSET EventRows, NEW e \in EventRows,
         \A r \in E : Evident(r), Evident(e)
  PROVE  \A f \in UpsertEvent(E, e) : Evident(f)
<1>1. ASSUME NEW r \in SameEvent(E, e)
      PROVE  Evident([e EXCEPT !.uid = r.uid, !.start = r.start])
  <2>1. r \in EventRows /\ r.start = e.start
    BY DEF SameEvent, EventFingerprint
  <2>2. LET m == [e EXCEPT !.uid = r.uid, !.start = r.start] IN
        /\ m.source = e.source
        /\ m.title = e.title
        /\ m.start = e.start
        /\ m.location = e.location
        /\ m.url = e.url
        /\ m.ends = e.ends
    BY <2>1 DEF EventRows
  <2>. QED  BY <2>2 DEF Evident, Says
<1>. QED  BY <1>1 DEF UpsertEvent, SameEvent

-----------------------------------------------------------------------------
(* What each component's step does to the tables.                          *)

\* A process between two syncs, or between two sources, holds nothing.
LEMMA IdleSound ==
  /\ SoundMemory(Idle)
  /\ \A L, b : SoundMemory([Idle EXCEPT !.pc = "fetch", !.left = L, !.failed = b])
  /\ \A L : SoundMemory([Idle EXCEPT !.pc = "fetch", !.left = L])
BY DEF SoundMemory, Idle, NoBatch

\* Sources return feed events and candidates without evidence.
LEMMA FetchedSound ==
  ASSUME NEW s \in Sources, NEW r \in Fetched(s)
  PROVE  /\ \A u \in Urls : r.batch[u] # None => WellVerified(r.batch[u])
         /\ r.evs \subseteq FeedEvents
<1>1. CASE s \in FeedSources
  <2>1. PICK items \in SUBSET {i \in FeedItems : i.source = s} :
          r = [evs |-> {FeedEvent(i) : i \in items}, batch |-> NoBatch]
    BY <1>1 DEF Fetched, FeedResults
  <2>2. {FeedEvent(i) : i \in items} \subseteq FeedEvents
    BY DEF FeedEvents
  <2>. QED  BY <2>1, <2>2 DEF NoBatch
<1>2. CASE s \notin FeedSources
  <2>1. \A f \in Fields : NoFields[f] = None
    BY DEF NoFields
  <2>2. WellVerified(Discovered(s))
    BY <2>1, NoneRowAssumption DEF Discovered, WellVerified, Coherent
  <2>. QED  BY <1>2, <2>2 DEF Fetched, DiscoveryResults
<1>. QED  BY <1>1, <1>2

\* Whatever a sync step leaves in the process's memory is sound.
LEMMA SyncMemorySound ==
  ASSUME SyncTypeOK, NEW p \in Procs, SoundMemory(sync[p]), SyncNext(p)
  PROVE  SoundMemory(sync'[p])
<1>0. sync[p] \in SyncStates /\ sync \in [Procs -> SyncStates]
  BY DEF SyncTypeOK
<1>1. CASE StartSync(p)
  BY <1>0, <1>1, IdleSound DEF StartSync
<1>2. ASSUME NEW b, NextIteration(p, b) PROVE SoundMemory(sync'[p])
  BY <1>0, <1>2, IdleSound DEF NextIteration
<1>3. CASE SkipDisabled(p) \/ FetchFails(p) \/ SourceDone(p)
  BY <1>2, <1>3 DEF SkipDisabled, FetchFails, SourceDone
<1>4. CASE FetchReturns(p)
  <2>1. PICK s \in Sources : \E r \in Fetched(s) :
            sync' = [sync EXCEPT ![p].pc = "health", ![p].evs = r.evs,
                                 ![p].batch = r.batch]
    BY <1>4, Zenon DEF FetchReturns
  <2>2. PICK r \in Fetched(s) :
            sync' = [sync EXCEPT ![p].pc = "health", ![p].evs = r.evs,
                                 ![p].batch = r.batch]
    BY <2>1
  <2>3. sync'[p].evs = r.evs /\ sync'[p].batch = r.batch
    BY <1>0, <2>2 DEF SyncStates
  <2>. QED  BY <2>3, FetchedSound DEF SoundMemory
<1>5. CASE SaveHealthy(p)
  <2>1. CASE sync' = [sync EXCEPT ![p].pc = "events"]
    BY <1>0, <2>1 DEF SyncStates, SoundMemory
  <2>. QED  BY <1>2, <1>5, <2>1 DEF SaveHealthy
<1>6. CASE StoreEvent(p)
  <2>1. sync'[p].batch = sync[p].batch /\ sync'[p].evs \subseteq sync[p].evs
    BY <1>0, <1>6 DEF StoreEvent, SyncStates
  <2>. QED  BY <2>1 DEF SoundMemory
<1>7. CASE BeginVerify(p)
  <2>1. PICK K \in SUBSET Urls :
          sync' = [sync EXCEPT
            ![p].pc = IF config[p].verifier THEN "verify" ELSE "store",
            ![p].batch = [u \in Urls |-> IF u \in K THEN @[u] ELSE None]]
    BY <1>7 DEF BeginVerify
  <2>2. /\ sync'[p].evs = sync[p].evs
        /\ sync'[p].batch =
             [u \in Urls |-> IF u \in K THEN sync[p].batch[u] ELSE None]
    BY <1>0, <2>1 DEF SyncStates
  <2>. QED  BY <2>2 DEF SoundMemory
<1>8. ASSUME NEW u \in Urls, VerifyCandidate(p, u) PROVE SoundMemory(sync'[p])
  <2>. DEFINE c == sync[p].batch[u]
  <2>0. sync[p].batch \in [Urls -> Found \cup {None}] /\ c \in Found
        /\ WellVerified(c)
    BY <1>0, <1>8 DEF VerifyCandidate, SyncStates, SoundMemory
  <2>1. PICK d : sync' = [sync EXCEPT ![p].batch[u] = d] /\ WellVerified(d)
    <3>1. CASE \E a \in Answers :
                 /\ Accepts(a, now)
                 /\ sync' = [sync EXCEPT ![p].batch[u] =
                        [source |-> @.source, verification |-> "verified",
                         fields |-> a]]
      <4>1. PICK a \in Answers :
                 /\ Accepts(a, now)
                 /\ sync' = [sync EXCEPT ![p].batch[u] =
                        [source |-> @.source, verification |-> "verified",
                         fields |-> a]]
        BY <3>1
      <4>2. WellVerified([source |-> c.source, verification |-> "verified",
                          fields |-> a])
        BY <4>1 DEF Accepts, WellVerified, Coherent, Complete, MayEnd
      <4>. QED  BY <4>1, <4>2
    <3>2. CASE sync' = [sync EXCEPT ![p].batch[u] =
                   [source |-> @.source, verification |-> "failed",
                    fields |-> @.fields]]
      <4>1. WellVerified([source |-> c.source, verification |-> "failed",
                          fields |-> c.fields])
        BY <2>0 DEF WellVerified
      <4>. QED  BY <3>2, <4>1
    <3>. QED  BY <1>8, <3>1, <3>2 DEF VerifyCandidate
  <2>2. sync'[p].evs = sync[p].evs
        /\ sync'[p].batch = [sync[p].batch EXCEPT ![u] = d]
    BY <1>0, <2>1 DEF SyncStates
  <2>. QED  BY <2>0, <2>1, <2>2 DEF SoundMemory
<1>9. CASE EndVerify(p)
  BY <1>0, <1>9 DEF EndVerify, SyncStates, SoundMemory
<1>10. CASE StoreCandidate(p)
  <2>1. \E u \in Urls : sync'[p].batch = [sync[p].batch EXCEPT ![u] = None]
    BY <1>0, <1>10 DEF StoreCandidate, SyncStates, BatchUrls
  <2>2. sync'[p].evs = sync[p].evs
    BY <1>0, <1>10 DEF StoreCandidate, SyncStates
  <2>3. sync[p].batch \in [Urls -> Found \cup {None}]
    BY <1>0 DEF SyncStates
  <2>. QED  BY <2>1, <2>2, <2>3 DEF SoundMemory
<1>11. CASE FinishSync(p)
  BY <1>0, <1>11, IdleSound DEF FinishSync
<1>. QED
  BY <1>1, <1>3, <1>4, <1>5, <1>6, <1>7, <1>8, <1>9, <1>10, <1>11
  DEF SyncNext, SyncStep

\* A sync step changes the tables in one of three ways.
LEMMA SyncTables ==
  ASSUME StoreTypeOK, SyncTypeOK, NEW p \in Procs, SoundMemory(sync[p]),
         SyncNext(p)
  PROVE  \/ UNCHANGED <<candidates, events>>
         \/ /\ candidates' = PruneCandidates(candidates, now)
            /\ UNCHANGED events
         \/ /\ \E u \in Urls, c \in Found :
                 /\ WellVerified(c)
                 /\ candidates' = UpsertCandidate(candidates, u, c)
            /\ UNCHANGED events
         \/ /\ \E e \in EventRows \cap FeedEvents :
                 /\ ~UpsertEventFails(events, e)
                 /\ events' = UpsertEvent(events, e)
            /\ UNCHANGED candidates
<1>0. sync[p] \in SyncStates
  BY DEF SyncTypeOK
<1>1. CASE StartSync(p)
  BY <1>1 DEF StartSync
<1>2. CASE StoreEvent(p)
  BY <1>0, <1>2 DEF StoreEvent, SyncStates, SoundMemory
<1>3. CASE StoreCandidate(p)
  <2>1. CASE \E u \in BatchUrls(sync[p].batch) :
                candidates' = UpsertCandidate(candidates, u, sync[p].batch[u])
    BY <1>0, <1>3, <2>1 DEF StoreCandidate, BatchUrls, SyncStates, SoundMemory
  <2>. QED  BY <1>3, <2>1 DEF StoreCandidate
<1>. QED
  BY <1>1, <1>2, <1>3
  DEF SyncNext, SyncStep, SkipDisabled, FetchFails, FetchReturns, SaveHealthy,
      BeginVerify, VerifyCandidate, EndVerify, SourceDone, FinishSync

\* A review step changes the tables in one of two ways.
LEMMA ReviewTables ==
  ASSUME StoreTypeOK, ReviewTypeOK, NEW r \in Reviewers, ReviewNext(r)
  PROVE  \/ UNCHANGED <<candidates, events>>
         \/ /\ reviews[r].pc = "apply"
            /\ \E st \in {"pending", "rejected"} :
                 candidates' = UpdateCandidate(candidates, reviews[r].url,
                                 [reviews[r].row EXCEPT !.status = st])
            /\ UNCHANGED events
         \/ LET c == reviews[r].row
                u == reviews[r].url
                e == ApprovedEvent(u, c)
            IN /\ reviews[r].pc = "apply"
               /\ approveGate(c, reviews[r].at)
               /\ candidates[u] # None
               /\ ~UpsertEventFails(events, e)
               /\ events' = UpsertEvent(events, e)
               /\ candidates' = UpdateCandidate(candidates, u,
                                  [c EXCEPT !.status = "approved"])
<1>1. CASE BeginReview(r)
  BY <1>1 DEF BeginReview, storeVars
<1>2. CASE LoadCandidate(r)
  BY <1>2 DEF LoadCandidate
<1>3. CASE ApproveCandidate(r)
  BY <1>3 DEF ApproveCandidate, Publish
<1>4. CASE RejectCandidate(r)
  BY <1>4 DEF RejectCandidate, WriteStatus
<1>5. CASE RestoreCandidate(r)
  BY <1>5 DEF RestoreCandidate, WriteStatus
<1>. QED  BY <1>1, <1>2, <1>3, <1>4, <1>5 DEF ReviewNext, ReviewStep

-----------------------------------------------------------------------------
(* The inductive invariant.                                                *)

\* The part of the invariant that is about the tables.
TablesInv ==
  EvidenceCoherent /\ ApprovedComplete /\ ApprovedIsPublished
    /\ PublishedWithEvidence

\* The initial state satisfies the inductive invariant.
LEMMA InitInv == Init => IInv
<1>. SUFFICES ASSUME Init PROVE IInv
  OBVIOUS
<1>1. TypeOK
  BY InitType
<1>2. MemorySound
  BY IdleSound DEF Init, SyncInit, ReviewInit, MemorySound, NoReview
<1>3. TablesInv
  BY DEF Init, StoreInit, TablesInv, EvidenceCoherent, ApprovedComplete,
         ApprovedIsPublished, PublishedWithEvidence
<1>. QED  BY <1>1, <1>2, <1>3 DEF IInv, TablesInv

\* Pruning keeps it: it deletes no approved row and no event.
LEMMA PruneInv ==
  ASSUME TypeOK, TablesInv, candidates' = PruneCandidates(candidates, now),
         UNCHANGED events
  PROVE  TablesInv'
<1>1. \A u \in Urls : candidates'[u] \in {candidates[u], None}
  BY DEF PruneCandidates
<1>. QED
  BY <1>1 DEF TablesInv, EvidenceCoherent, ApprovedComplete,
              ApprovedIsPublished, PublishedWithEvidence

\* Storing a discovered candidate keeps it: merges never mix two answers and
\* never change an approved row's key.
LEMMA UpsertCandidateInv ==
  ASSUME TypeOK, TablesInv, NEW u \in Urls, NEW c \in Found, WellVerified(c),
         candidates' = UpsertCandidate(candidates, u, c), UNCHANGED events
  PROVE  TablesInv'
<1>0. candidates \in [Urls -> CandidateRows \cup {None}]
  BY DEF TypeOK, StoreTypeOK
<1>1. \A v \in Urls : v # u => candidates'[v] = candidates[v]
  BY <1>0 DEF UpsertCandidate
<1>2. candidates[u] # None => WellVerified(candidates[u])
  BY DEF TablesInv, EvidenceCoherent
<1>3. /\ candidates'[u] # None
      /\ WellVerified(candidates'[u])
      /\ candidates'[u].status = StatusColumn(candidates[u])
      /\ (candidates[u] # None /\ Complete(candidates[u].fields)) =>
           \A f \in Required : candidates'[u].fields[f] = candidates[u].fields[f]
  BY <1>0, <1>2, UpsertCandidateWell
<1>4. CASE candidates'[u].status = "approved"
  <2>1. candidates[u] # None /\ candidates[u].status = "approved"
    BY <1>3, <1>4 DEF StatusColumn
  <2>2. Complete(candidates[u].fields)
    BY <2>1 DEF TablesInv, ApprovedComplete
  <2>3. \A f \in Required : candidates'[u].fields[f] = candidates[u].fields[f]
    BY <1>3, <2>1, <2>2
  <2>4. /\ CandidateKey(candidates'[u]) = CandidateKey(candidates[u])
        /\ Complete(candidates'[u].fields)
    BY <2>2, <2>3 DEF CandidateKey, Complete, Required
  <2>5. \E e \in events : EventFingerprint(e) = CandidateKey(candidates'[u])
    BY <2>1, <2>4 DEF TablesInv, ApprovedIsPublished
  <2>. QED  BY <1>1, <1>3, <2>4, <2>5
       DEF TablesInv, EvidenceCoherent, ApprovedComplete, ApprovedIsPublished,
           PublishedWithEvidence
<1>5. CASE candidates'[u].status # "approved"
  BY <1>1, <1>3, <1>5
  DEF TablesInv, EvidenceCoherent, ApprovedComplete, ApprovedIsPublished,
      PublishedWithEvidence
<1>. QED  BY <1>4, <1>5

\* Storing an event keeps it: no key leaves the calendar.
LEMMA UpsertEventInv ==
  ASSUME TypeOK, TablesInv, NEW e \in EventRows, Evident(e),
         events' = UpsertEvent(events, e), UNCHANGED candidates
  PROVE  TablesInv'
<1>1. \A r \in events : \E f \in events' :
        EventFingerprint(f) = EventFingerprint(r)
  BY UpsertEventKeeps DEF TypeOK, StoreTypeOK
<1>2. \A f \in events' : Evident(f)
  BY UpsertEventEvident DEF TypeOK, StoreTypeOK, TablesInv, PublishedWithEvidence
<1>3. ApprovedIsPublished'
  <2>. SUFFICES ASSUME NEW u \in Urls, candidates[u] # None,
                       candidates[u].status = "approved"
                PROVE  \E f \in events' :
                         EventFingerprint(f) = CandidateKey(candidates[u])
    BY DEF ApprovedIsPublished
  <2>1. PICK r \in events : EventFingerprint(r) = CandidateKey(candidates[u])
    BY DEF TablesInv, ApprovedIsPublished
  <2>. QED  BY <1>1, <2>1
<1>4. EvidenceCoherent' /\ ApprovedComplete'
  BY DEF TablesInv, EvidenceCoherent, ApprovedComplete
<1>. QED  BY <1>2, <1>3, <1>4 DEF TablesInv, PublishedWithEvidence

\* Writing a rejection or a restoration keeps it: the loaded copy is sound.
LEMMA SetAsideInv ==
  ASSUME TypeOK, TablesInv, NEW u \in Urls, NEW row \in CandidateRows,
         WellVerified(row), NEW st \in {"pending", "rejected"},
         candidates' = UpdateCandidate(candidates, u, [row EXCEPT !.status = st]),
         UNCHANGED events
  PROVE  TablesInv'
<1>. DEFINE c == [row EXCEPT !.status = st]
<1>1. /\ c \in CandidateRows
      /\ c.status = st
      /\ c.verification = row.verification
      /\ c.fields = row.fields
  BY DEF CandidateRows
<1>. HIDE DEF c
<1>2. candidates' = UpdateCandidate(candidates, u, c)
  BY DEF c
<1>3. /\ \A v \in Urls : v # u => candidates'[v] = candidates[v]
      /\ candidates[u] = None => candidates'[u] = None
      /\ candidates[u] # None =>
           /\ candidates'[u].status = st
           /\ candidates'[u].verification = row.verification
           /\ candidates'[u].fields = row.fields
  BY <1>1, <1>2, UpdateCandidateWrites DEF TypeOK, StoreTypeOK
<1>4. candidates[u] # None => WellVerified(candidates'[u])
  BY <1>3 DEF WellVerified
<1>. QED
  BY <1>3, <1>4
  DEF TablesInv, EvidenceCoherent, ApprovedComplete, ApprovedIsPublished,
      PublishedWithEvidence

\* An approval keeps it: the row it writes and the event it publishes carry
\* the same loaded copy.
LEMMA ApproveInv ==
  ASSUME TypeOK, TablesInv, NEW u \in Urls, NEW row \in CandidateRows,
         WellVerified(row), NEW t, approveGate(row, t), candidates[u] # None,
         events' = UpsertEvent(events, ApprovedEvent(u, row)),
         candidates' = UpdateCandidate(candidates, u,
                         [row EXCEPT !.status = "approved"])
  PROVE  TablesInv'
<1>. DEFINE e == ApprovedEvent(u, row)
            c == [row EXCEPT !.status = "approved"]
<1>1. Complete(row.fields) /\ e \in EventRows
  BY ApprovedEventType DEF approveGate, Complete
<1>2. /\ e.title = row.fields["event_title"]
      /\ e.start = row.fields["start_time"]
      /\ e.location = row.fields["location"]
      /\ e.url = row.fields["evidence_url"]
      /\ e.source[1] = "reviewed"
      /\ e.ends = IF row.fields["end_time"] = None
                    THEN row.fields["start_time"] + DefaultDuration
                    ELSE row.fields["end_time"]
  BY DEF ApprovedEvent
<1>3. EventFingerprint(e) = CandidateKey(row)
  BY <1>2 DEF EventFingerprint, CandidateKey
<1>4. Evident(e)
  <2>1. PICK a \in Answers, b \in Answers :
          /\ Complete(a)
          /\ MayEnd(a, b)
          /\ \A f \in Required : row.fields[f] = a[f]
          /\ row.fields["end_time"] = b["end_time"]
    BY <1>1 DEF WellVerified, Coherent, Complete, Required, Fields
  <2>2. /\ e.title = a["event_title"]
        /\ e.start = a["start_time"]
        /\ e.location = a["location"]
        /\ e.url = a["evidence_url"]
        /\ e.ends = IF b["end_time"] = None THEN e.start + DefaultDuration
                                            ELSE b["end_time"]
    BY <1>2, <2>1 DEF Required
  <2>. HIDE DEF e
  <2>. QED  BY <2>1, <2>2 DEF Evident, Says
<1>5. c \in CandidateRows /\ c.status = "approved"
      /\ c.verification = row.verification /\ c.fields = row.fields
  BY DEF CandidateRows
<1>6. events' = UpsertEvent(events, e) /\ events \in SUBSET EventRows
  BY DEF TypeOK, StoreTypeOK
<1>7. candidates' = UpdateCandidate(candidates, u, c)
  OBVIOUS
<1>. HIDE DEF e, c
<1>8. /\ \A r \in events : \E f \in events' :
           EventFingerprint(f) = EventFingerprint(r)
      /\ \E f \in events' : EventFingerprint(f) = CandidateKey(row)
  BY <1>1, <1>3, <1>6, UpsertEventKeeps
<1>9. \A f \in events' : Evident(f)
  BY <1>1, <1>4, <1>6, UpsertEventEvident DEF TablesInv, PublishedWithEvidence
<1>10. /\ \A v \in Urls : v # u => candidates'[v] = candidates[v]
       /\ candidates'[u].status = "approved"
       /\ candidates'[u].verification = row.verification
       /\ candidates'[u].fields = row.fields
  BY <1>5, <1>7, UpdateCandidateWrites DEF TypeOK, StoreTypeOK
<1>11. /\ WellVerified(candidates'[u])
       /\ CandidateKey(candidates'[u]) = CandidateKey(row)
  BY <1>10 DEF WellVerified, CandidateKey
<1>12. ApprovedIsPublished'
  <2>. SUFFICES ASSUME NEW v \in Urls, candidates'[v] # None,
                       candidates'[v].status = "approved"
                PROVE  \E f \in events' :
                         EventFingerprint(f) = CandidateKey(candidates'[v])
    BY DEF ApprovedIsPublished
  <2>1. CASE v = u
    BY <1>8, <1>11, <2>1
  <2>2. CASE v # u
    <3>1. candidates'[v] = candidates[v]
      BY <1>10, <2>2
    <3>2. PICK r \in events : EventFingerprint(r) = CandidateKey(candidates[v])
      BY <3>1 DEF TablesInv, ApprovedIsPublished
    <3>. QED  BY <1>8, <3>1, <3>2
  <2>. QED  BY <2>1, <2>2
<1>13. EvidenceCoherent' /\ ApprovedComplete'
  BY <1>1, <1>10, <1>11 DEF TablesInv, EvidenceCoherent, ApprovedComplete
<1>. QED  BY <1>9, <1>12, <1>13 DEF TablesInv, PublishedWithEvidence

\* A sync step keeps the invariant.
LEMMA SyncNextInv ==
  ASSUME IInv, NEW p \in Procs, SyncNext(p), UNCHANGED reviews
  PROVE  IInv'
<1>1. TypeOK'
  BY SyncNextType DEF IInv, TypeOK, ReviewTypeOK
<1>2. MemorySound'
  <2>1. SoundMemory(sync'[p])
    BY SyncMemorySound DEF IInv, MemorySound, TypeOK
  <2>2. \A q \in Procs : q # p => sync'[q] = sync[q]
    BY DEF IInv, TypeOK, SyncTypeOK, SyncNext, SyncStep, StartSync, SkipDisabled,
           FetchFails, FetchReturns, SaveHealthy, StoreEvent, BeginVerify,
           VerifyCandidate, EndVerify, StoreCandidate, SourceDone, FinishSync,
           NextIteration
  <2>3. \A q \in Procs : SoundMemory(sync'[q])
    BY <2>1, <2>2 DEF IInv, MemorySound
  <2>. QED  BY <2>3 DEF IInv, MemorySound
<1>3. TypeOK /\ TablesInv
  BY DEF IInv, TablesInv
<1>4. TablesInv'
  <2>1. CASE UNCHANGED <<candidates, events>>
    BY <1>3, <2>1 DEF TablesInv, EvidenceCoherent, ApprovedComplete,
                      ApprovedIsPublished, PublishedWithEvidence
  <2>2. CASE candidates' = PruneCandidates(candidates, now) /\ UNCHANGED events
    BY <1>3, <2>2, PruneInv
  <2>3. ASSUME NEW u \in Urls, NEW c \in Found, WellVerified(c),
               candidates' = UpsertCandidate(candidates, u, c), UNCHANGED events
        PROVE  TablesInv'
    BY <1>3, <2>3, UpsertCandidateInv
  <2>4. ASSUME NEW e \in EventRows \cap FeedEvents,
               events' = UpsertEvent(events, e), UNCHANGED candidates
        PROVE  TablesInv'
    <3>1. PICK i \in FeedItems : e = FeedEvent(i)
      BY DEF FeedEvents
    <3>2. Evident(e)
      <4>1. e.source[1] = "feed"
        BY <3>1 DEF FeedEvent
      <4>. QED  BY <4>1 DEF Evident
    <3>. QED  BY <1>3, <2>4, <3>2, UpsertEventInv
  <2>5. SoundMemory(sync[p])
    BY DEF IInv, MemorySound
  <2>. QED  BY <1>3, <2>1, <2>2, <2>3, <2>4, <2>5, SyncTables DEF TypeOK
<1>. QED  BY <1>1, <1>2, <1>4 DEF IInv, TablesInv

\* A review step keeps the invariant.
LEMMA ReviewNextInv ==
  ASSUME IInv, NEW r \in Reviewers, ReviewNext(r), UNCHANGED syncVars
  PROVE  IInv'
<1>0. TypeOK /\ TablesInv
  BY DEF IInv, TablesInv
<1>1. TypeOK'
  BY ReviewNextType DEF IInv, TypeOK, SyncTypeOK, syncVars
<1>2. MemorySound'
  <2>1. \A q \in Reviewers : q # r => reviews'[q] = reviews[q]
    BY DEF IInv, TypeOK, ReviewTypeOK, ReviewNext, ReviewStep, BeginReview,
           LoadCandidate, ApproveCandidate, RejectCandidate, RestoreCandidate,
           WriteStatus, Publish, Reply
  <2>2. reviews \in [Reviewers -> ReviewStates]
    BY DEF IInv, TypeOK, ReviewTypeOK
  <2>3. \/ reviews'[r].row = None
        \/ /\ reviews[r].url \in Urls
           /\ reviews'[r].row = candidates[reviews[r].url]
    <3>1. ASSUME NEW code, Reply(r, code) PROVE reviews'[r].row = None
      BY <2>2, <3>1 DEF Reply, NoReview
    <3>2. CASE BeginReview(r)
      BY <2>2, <3>2 DEF BeginReview, NoReview
    <3>3. CASE LoadCandidate(r)
      <4>1. reviews[r].url \in Urls
        BY <3>3 DEF IInv, TypeOK, ReviewTypeOK, LoadCandidate
      <4>2. CASE reviews' = [reviews EXCEPT ![r].pc = "apply",
                               ![r].row = candidates[reviews[r].url]]
        BY <2>2, <4>1, <4>2 DEF ReviewStates
      <4>. QED  BY <3>1, <3>3, <4>2 DEF LoadCandidate
    <3>4. CASE ApproveCandidate(r)
      BY <3>1, <3>4 DEF ApproveCandidate, Publish
    <3>5. CASE RejectCandidate(r) \/ RestoreCandidate(r)
      BY <3>1, <3>5 DEF RejectCandidate, RestoreCandidate, WriteStatus
    <3>. QED  BY <3>2, <3>3, <3>4, <3>5 DEF ReviewNext, ReviewStep
  <2>4. reviews'[r].row # None => WellVerified(reviews'[r].row)
    BY <2>3 DEF IInv, EvidenceCoherent
  <2>. QED  BY <2>1, <2>4 DEF IInv, MemorySound, syncVars
<1>3. TablesInv'
  <2>1. CASE UNCHANGED <<candidates, events>>
    BY <1>0, <2>1 DEF TablesInv, EvidenceCoherent, ApprovedComplete,
                      ApprovedIsPublished, PublishedWithEvidence
  <2>2. ASSUME reviews[r].pc = "apply"
        PROVE  /\ reviews[r].url \in Urls
               /\ reviews[r].row \in CandidateRows
               /\ WellVerified(reviews[r].row)
    BY <2>2 DEF IInv, TypeOK, ReviewTypeOK, ReviewStates, MemorySound
  <2>3. CASE /\ reviews[r].pc = "apply"
             /\ \E st \in {"pending", "rejected"} :
                  candidates' = UpdateCandidate(candidates, reviews[r].url,
                                  [reviews[r].row EXCEPT !.status = st])
             /\ UNCHANGED events
    BY <1>0, <2>2, <2>3, SetAsideInv
  <2>4. CASE LET c == reviews[r].row
                 u == reviews[r].url
                 e == ApprovedEvent(u, c)
             IN /\ reviews[r].pc = "apply"
                /\ approveGate(c, reviews[r].at)
                /\ candidates[u] # None
                /\ ~UpsertEventFails(events, e)
                /\ events' = UpsertEvent(events, e)
                /\ candidates' = UpdateCandidate(candidates, u,
                                   [c EXCEPT !.status = "approved"])
    BY <1>0, <2>2, <2>4, ApproveInv
  <2>. QED  BY <1>0, <2>1, <2>3, <2>4, ReviewTables DEF TypeOK
<1>. QED  BY <1>1, <1>2, <1>3 DEF IInv, TablesInv

\* A restart keeps the invariant: memory is emptied, tables are kept.
LEMMA RestartInv ==
  ASSUME IInv, NEW p \in Procs, Restart(p)
  PROVE  IInv'
<1>1. TypeOK'
  BY RestartType DEF IInv
<1>2. \A q \in Procs : SoundMemory(sync'[q])
  BY IdleSound DEF IInv, TypeOK, SyncTypeOK, MemorySound, Restart
<1>3. \A r \in Reviewers : reviews'[r].row # None => WellVerified(reviews'[r].row)
  BY DEF IInv, MemorySound, Restart, NoReview
<1>4. TablesInv'
  BY DEF IInv, Restart, TablesInv, EvidenceCoherent, ApprovedComplete,
         ApprovedIsPublished, PublishedWithEvidence
<1>. QED  BY <1>1, <1>2, <1>3, <1>4 DEF IInv, MemorySound, TablesInv

\* Every step keeps the invariant.
LEMMA NextInv == IInv /\ [Next]_vars => IInv'
<1>. SUFFICES ASSUME IInv, [Next]_vars PROVE IInv'
  OBVIOUS
<1>1. CASE Tick /\ UNCHANGED <<sync, config, reviews>>
  <2>1. TypeOK'
    BY <1>1, NextType DEF IInv, Next
  <2>. QED  BY <1>1, <2>1
       DEF Tick, IInv, MemorySound, EvidenceCoherent, ApprovedComplete,
           ApprovedIsPublished, PublishedWithEvidence
<1>2. ASSUME NEW p \in Procs, SyncNext(p), UNCHANGED reviews PROVE IInv'
  BY <1>2, SyncNextInv
<1>3. ASSUME NEW r \in Reviewers, ReviewNext(r), UNCHANGED syncVars PROVE IInv'
  BY <1>3, ReviewNextInv
<1>4. ASSUME NEW p \in Procs, Restart(p) PROVE IInv'
  BY <1>4, RestartInv
<1>5. CASE UNCHANGED vars
  <2>1. TypeOK'
    BY <1>5, NextType DEF IInv
  <2>. QED  BY <1>5, <2>1
       DEF vars, IInv, MemorySound, EvidenceCoherent, ApprovedComplete,
           ApprovedIsPublished, PublishedWithEvidence
<1>. QED  BY <1>1, <1>2, <1>3, <1>4, <1>5 DEF Next

\* The inductive invariant holds in every reachable state.
THEOREM InvariantHolds == Spec => []IInv
BY InitInv, NextInv, PTL DEF Spec

\* Stored evidence always comes from one answer, whatever mixture of syncs,
\* re-discoveries and stale review writes produced the row.
THEOREM EvidenceHolds == Spec => []EvidenceCoherent
<1>1. IInv => EvidenceCoherent
  BY DEF IInv
<1>. QED  BY <1>1, InvariantHolds, PTL

\* An approved candidate is always in the calendar.
THEOREM ApprovedHolds == Spec => []ApprovedIsPublished
<1>1. IInv => ApprovedIsPublished
  BY DEF IInv
<1>. QED  BY <1>1, InvariantHolds, PTL

\* A reviewed event always shows what one complete answer said.
THEOREM PublishedHolds == Spec => []PublishedWithEvidence
<1>1. IInv => PublishedWithEvidence
  BY DEF IInv
<1>. QED  BY <1>1, InvariantHolds, PTL

-----------------------------------------------------------------------------
(* What a step may never do.                                               *)

\* A step changes the tables by at most one of five statements.
LEMMA StepTables ==
  ASSUME IInv, [Next]_vars
  PROVE  \/ UNCHANGED <<candidates, events>>
         \/ /\ candidates' = PruneCandidates(candidates, now)
            /\ UNCHANGED events
         \/ /\ \E u \in Urls, c \in Found :
                 /\ WellVerified(c)
                 /\ candidates' = UpsertCandidate(candidates, u, c)
            /\ UNCHANGED events
         \/ /\ \E e \in EventRows :
                 /\ ~UpsertEventFails(events, e)
                 /\ events' = UpsertEvent(events, e)
            /\ UNCHANGED candidates
         \/ \E u \in Urls, c \in CandidateRows :
              /\ candidates' = UpdateCandidate(candidates, u, c)
              /\ \/ c.status \in {"pending", "rejected"} /\ UNCHANGED events
                 \/ /\ c.status = "approved"
                    /\ candidates[u] # None
                    /\ \E e \in EventRows :
                         /\ EventFingerprint(e) = CandidateKey(c)
                         /\ ~UpsertEventFails(events, e)
                         /\ events' = UpsertEvent(events, e)
<1>1. CASE (Tick /\ UNCHANGED <<sync, config, reviews>>) \/ UNCHANGED vars
           \/ \E p \in Procs : Restart(p)
  BY <1>1 DEF Tick, vars, Restart
<1>2. ASSUME NEW p \in Procs, SyncNext(p)
      PROVE  \/ UNCHANGED <<candidates, events>>
             \/ /\ candidates' = PruneCandidates(candidates, now)
                /\ UNCHANGED events
             \/ /\ \E u \in Urls, c \in Found :
                     /\ WellVerified(c)
                     /\ candidates' = UpsertCandidate(candidates, u, c)
                /\ UNCHANGED events
             \/ /\ \E e \in EventRows :
                     /\ ~UpsertEventFails(events, e)
                     /\ events' = UpsertEvent(events, e)
                /\ UNCHANGED candidates
  <2>1. StoreTypeOK /\ SyncTypeOK /\ SoundMemory(sync[p])
    BY DEF IInv, TypeOK, MemorySound
  <2>. QED  BY <1>2, <2>1, SyncTables
<1>3. ASSUME NEW r \in Reviewers, ReviewNext(r)
      PROVE  \/ UNCHANGED <<candidates, events>>
             \/ \E u \in Urls, c \in CandidateRows :
                  /\ candidates' = UpdateCandidate(candidates, u, c)
                  /\ \/ c.status \in {"pending", "rejected"} /\ UNCHANGED events
                     \/ /\ c.status = "approved"
                        /\ candidates[u] # None
                        /\ \E e \in EventRows :
                             /\ EventFingerprint(e) = CandidateKey(c)
                             /\ ~UpsertEventFails(events, e)
                             /\ events' = UpsertEvent(events, e)
  <2>. DEFINE row == reviews[r].row
              u == reviews[r].url
              copy(st) == [row EXCEPT !.status = st]
  <2>1. StoreTypeOK /\ ReviewTypeOK
    BY DEF IInv, TypeOK
  <2>2. ASSUME reviews[r].pc = "apply"
        PROVE  /\ u \in Urls
               /\ row \in CandidateRows
               /\ \A st \in Statuses : /\ copy(st) \in CandidateRows
                                       /\ copy(st).status = st
                                       /\ copy(st).fields = row.fields
    <3>1. u \in Urls /\ row \in CandidateRows
      BY <2>1, <2>2 DEF ReviewTypeOK, ReviewStates
    <3>. QED  BY <3>1 DEF CandidateRows
  <2>3. CASE /\ reviews[r].pc = "apply"
             /\ \E st \in {"pending", "rejected"} :
                  candidates' = UpdateCandidate(candidates, u, copy(st))
             /\ UNCHANGED events
    <3>. HIDE DEF u, row, copy
    <3>. QED  BY <2>2, <2>3
  <2>4. CASE /\ reviews[r].pc = "apply"
             /\ approveGate(row, reviews[r].at)
             /\ candidates[u] # None
             /\ ~UpsertEventFails(events, ApprovedEvent(u, row))
             /\ events' = UpsertEvent(events, ApprovedEvent(u, row))
             /\ candidates' = UpdateCandidate(candidates, u, copy("approved"))
    <3>1. ApprovedEvent(u, row) \in EventRows
      BY <2>2, <2>4, ApprovedEventType DEF approveGate, Complete
    <3>2. EventFingerprint(ApprovedEvent(u, row)) = CandidateKey(copy("approved"))
      BY <2>2, <2>4 DEF ApprovedEvent, EventFingerprint, CandidateKey
    <3>. HIDE DEF u, row, copy
    <3>. QED  BY <2>2, <2>4, <3>1, <3>2
  <2>. QED  BY <1>3, <2>1, <2>3, <2>4, ReviewTables
<1>. QED  BY <1>1, <1>2, <1>3 DEF Next

\* A step keeps every event's uid and identity in the table.
LEMMA StepKeepsEvents ==
  ASSUME IInv, [Next]_vars
  PROVE  \A e \in events : \E f \in events' :
           f.uid = e.uid /\ EventFingerprint(f) = EventFingerprint(e)
<1>1. CASE UNCHANGED events
  BY <1>1
<1>2. ASSUME NEW e \in EventRows, events' = UpsertEvent(events, e)
      PROVE  \A r \in events : \E f \in events' :
               f.uid = r.uid /\ EventFingerprint(f) = EventFingerprint(r)
  BY <1>2, UpsertEventKeeps DEF IInv, TypeOK, StoreTypeOK
<1>. QED  BY <1>1, <1>2, StepTables

\* The calendar never drops an event, and no event ever changes its uid.
THEOREM IdentityHolds == Spec => EventIdentityStable
<1>1. IInv /\ [Next]_vars =>
        [\A e \in events : \E f \in events' :
           f.uid = e.uid /\ EventFingerprint(f) = EventFingerprint(e)]_vars
  BY StepKeepsEvents
<1>. QED  BY <1>1, InvariantHolds, PTL DEF Spec, EventIdentityStable

\* A deleted candidate could not have been approved when it was deleted.
THEOREM PruneHolds == Spec => PrunedWasUnapprovable
<1>1. ASSUME IInv, [Next]_vars, NEW u \in Urls,
             candidates[u] # None, candidates'[u] = None
      PROVE  candidates[u].status # "approved" /\ ~approveGate(candidates[u], now)
  <2>0. candidates \in [Urls -> CandidateRows \cup {None}] /\ now \in Nat
    BY <1>1 DEF IInv, TypeOK, StoreTypeOK
  <2>1. CASE candidates' = PruneCandidates(candidates, now)
    <3>1. Stale(candidates[u], now)
      BY <1>1, <2>1 DEF PruneCandidates
    <3>2. candidates[u].fields["start_time"] \in Nat
      <4>1. candidates[u].fields \in FieldMaps
        BY <1>1, <2>0 DEF CandidateRows
      <4>. QED  BY <3>1, <4>1, FieldHasType
             DEF Stale, FieldType, Fields, Required
    <3>. QED  BY <2>0, <3>1, <3>2 DEF Stale, approveGate
  <2>2. ASSUME NEW v \in Urls, NEW c \in Found,
               candidates' = UpsertCandidate(candidates, v, c)
        PROVE  FALSE
    <3>1. candidates'[v] \in CandidateRows
      BY <2>0, <2>2, UpsertCandidateType
    <3>2. v # u => candidates'[u] = candidates[u]
      BY <2>0, <2>2 DEF UpsertCandidate
    <3>. QED  BY <1>1, <3>1, <3>2, NoneRowAssumption
  <2>3. ASSUME NEW v \in Urls, NEW c \in CandidateRows,
               candidates' = UpdateCandidate(candidates, v, c)
        PROVE  FALSE
    BY <1>1, <2>0, <2>3, UpdateCandidateWrites, NoneRowAssumption
  <2>. QED  BY <1>1, <2>1, <2>2, <2>3, StepTables
<1>2. IInv /\ [Next]_vars =>
        [\A u \in Urls :
           (candidates[u] # None /\ candidates'[u] = None) =>
             /\ candidates[u].status # "approved"
             /\ ~approveGate(candidates[u], now)]_vars
  BY <1>1
<1>. QED  BY <1>2, InvariantHolds, PTL DEF Spec, PrunedWasUnapprovable

\* A step of one request leaves the others alone.
LEMMA ReviewStepOwn ==
  ASSUME ReviewTypeOK, NEW q \in Reviewers, ReviewNext(q), NEW r \in Reviewers, r # q
  PROVE  reviews'[r] = reviews[r]
BY DEF ReviewTypeOK, ReviewStates, ReviewNext, ReviewStep, BeginReview,
       LoadCandidate, ApproveCandidate, RejectCandidate, RestoreCandidate,
       WriteStatus, Publish, Reply

\* An approval that answers 303 has published the event and approved the row
\* in one step; one that ends otherwise has written nothing.
THEOREM ApprovalHolds == Spec => ApprovalAtomic
<1>. DEFINE Atomic(r) ==
       IF reviews'[r].reply = "303"
         THEN LET u == reviews[r].url IN
              /\ candidates'[u] # None
              /\ candidates'[u].status = "approved"
              /\ \E e \in events' :
                   EventFingerprint(e) = CandidateKey(reviews[r].row)
         ELSE UNCHANGED <<events, candidates>>
<1>1. ASSUME IInv, [Next]_vars, NEW r \in Reviewers, Applying(r, "approve")
      PROVE  Atomic(r)
  <2>. DEFINE row == reviews[r].row
              u == reviews[r].url
              copy == [row EXCEPT !.status = "approved"]
  <2>1. StoreTypeOK /\ ReviewTypeOK
    BY <1>1 DEF IInv, TypeOK
  <2>2. /\ reviews[r].pc = "apply" /\ reviews[r].action = "approve"
        /\ reviews'[r].pc = "idle"
        /\ u \in Urls /\ row \in CandidateRows
        /\ reviews \in [Reviewers -> ReviewStates]
    BY <1>1, <2>1 DEF Applying, ReviewTypeOK, ReviewStates
  <2>3. ~UNCHANGED reviews
    BY <2>2
  <2>4. CASE \E p \in Procs : Restart(p)
    <3>1. reviews'[r] = NoReview /\ UNCHANGED <<events, candidates>>
      BY <2>3, <2>4 DEF Restart
    <3>. QED  BY <3>1 DEF NoReview
  <2>5. CASE ReviewNext(r)
    <3>1. ApproveCandidate(r)
      BY <2>2, <2>5 DEF ReviewNext, ReviewStep, BeginReview, LoadCandidate,
         RejectCandidate, RestoreCandidate
    <3>2. \A code : Reply(r, code) => reviews'[r].reply = code
      BY <2>2 DEF Reply, NoReview, ReviewStates
    <3>3. CASE UNCHANGED <<events, candidates>> /\ reviews'[r].reply # "303"
      BY <3>3
    <3>4. CASE /\ approveGate(row, reviews[r].at)
               /\ candidates[u] # None
               /\ ~UpsertEventFails(events, ApprovedEvent(u, row))
               /\ events' = UpsertEvent(events, ApprovedEvent(u, row))
               /\ candidates' = UpdateCandidate(candidates, u, copy)
               /\ reviews'[r].reply = "303"
      <4>1. ApprovedEvent(u, row) \in EventRows
        BY <2>2, <3>4, ApprovedEventType DEF approveGate, Complete
      <4>2. EventFingerprint(ApprovedEvent(u, row)) = CandidateKey(row)
        BY DEF ApprovedEvent, EventFingerprint, CandidateKey
      <4>3. copy \in CandidateRows /\ copy.status = "approved"
        BY <2>2 DEF CandidateRows
      <4>. HIDE DEF row, u, copy
      <4>4. candidates'[u] # None /\ candidates'[u].status = "approved"
        BY <2>1, <2>2, <3>4, <4>3, UpdateCandidateWrites, NoneRowAssumption
           DEF StoreTypeOK
      <4>5. \E e \in events' : EventFingerprint(e) = CandidateKey(row)
        BY <2>1, <3>4, <4>1, <4>2, UpsertEventKeeps DEF StoreTypeOK
      <4>. QED  BY <3>4, <4>4, <4>5 DEF row, u
    <3>. QED  BY <3>1, <3>2, <3>3, <3>4 DEF ApproveCandidate, Publish
  <2>6. ASSUME NEW q \in Reviewers, q # r, ReviewNext(q)
        PROVE  FALSE
    BY <2>1, <2>2, <2>6, ReviewStepOwn
  <2>. QED  BY <1>1, <2>3, <2>4, <2>5, <2>6 DEF Next, vars
<1>2. IInv /\ [Next]_vars =>
        [\A r \in Reviewers : Applying(r, "approve") => Atomic(r)]_vars
  BY <1>1
<1>. QED  BY <1>2, InvariantHolds, PTL DEF Spec, ApprovalAtomic

-----------------------------------------------------------------------------
(* One process.                                                            *)

Recorded(s) == health[s] # None /\ health[s].state # "error"

\* A sync without a failure so far has recorded, and not as failed, the
\* sources it is done with; the one at hand too, once its fetch is saved.
Reported(p) ==
  sync[p].pc # "idle" /\ ~sync[p].failed =>
    /\ \A s \in config[p].sources : s \in sync[p].left \/ Recorded(s)
    /\ sync[p].pc \in {"events", "verify", "store"} =>
         \A s \in Sources : Current(p, s) => Recorded(s)

\* A health row that is written is there and says what it should; no other
\* row changes.
LEMMA HealthWritten ==
  ASSUME StoreTypeOK, NEW s \in Sources,
         NEW state \in {"healthy", "degraded", "error", "disabled"},
         SaveSourceHealth(s, state)
  PROVE  /\ health'[s] # None /\ health'[s].state = state
         /\ \A k \in Sources : k # s => health'[k] = health[k]
<1>1. HealthRow(s, state) \in HealthRows /\ HealthRow(s, state).state = state
  BY DEF HealthRow, HealthRows
<1>2. health'[s] = HealthRow(s, state)
  BY DEF SaveSourceHealth, StoreTypeOK
<1>. QED  BY <1>1, <1>2, NoneRowAssumption DEF SaveSourceHealth, StoreTypeOK

\* The loop goes on to the next source.
LEMMA NextReported ==
  ASSUME SyncTypeOK, NEW p \in Procs, NEW s \in Sources, NEW failed \in BOOLEAN,
         Reported(p), sync[p].pc # "idle", Current(p, s),
         NextIteration(p, failed), config' = config,
         ~failed => /\ ~sync[p].failed
                    /\ Recorded(s)'
                    /\ \A k \in Sources : k # s => health'[k] = health[k]
  PROVE  Reported(p)'
<1>1. /\ sync'[p].pc = "fetch"
      /\ sync'[p].failed = failed
      /\ sync'[p].left = {k \in sync[p].left : \E j \in sync[p].left : j < k}
  BY DEF SyncTypeOK, NextIteration, Idle
<1>2. sync[p].left \subseteq Sources /\ config[p].sources \subseteq Sources
  BY SyncAssumption DEF SyncTypeOK, SyncStates, ConfigType
<1>3. \A k \in sync[p].left : k # s => k \in sync'[p].left
  BY <1>1, <1>2, BoundsAssumption DEF Current
<1>4. ASSUME ~failed, NEW k \in config[p].sources
      PROVE  k \in sync'[p].left \/ Recorded(k)'
  BY <1>2, <1>3, <1>4 DEF Reported, Recorded
<1>. QED  BY <1>1, <1>4 DEF Reported

\* Steps that stay at a source.
LEMMA StayReported ==
  ASSUME NEW p \in Procs, Reported(p), sync[p].pc # "idle",
         health' = health, config' = config,
         sync'[p].left = sync[p].left,
         sync[p].failed => sync'[p].failed,
         sync'[p].pc \in {"events", "verify", "store"} =>
           sync[p].pc \in {"events", "verify", "store"}
  PROVE  Reported(p)'
BY DEF Reported, Recorded, Current

\* Each step of a sync.
LEMMA SyncReported ==
  ASSUME StoreTypeOK, SyncTypeOK, NEW p \in Procs, Reported(p), SyncNext(p)
  PROVE  Reported(p)'
<1>0. /\ sync \in [Procs -> SyncStates]
      /\ sync[p].failed \in BOOLEAN
      /\ config' = config
  <2>1. StartSync(p) => config' = config
    BY DEF StartSync
  <2>2. SkipDisabled(p) => config' = config
    BY DEF SkipDisabled
  <2>3. FetchFails(p) => config' = config
    BY DEF FetchFails
  <2>4. FetchReturns(p) => config' = config
    BY DEF FetchReturns
  <2>5. SaveHealthy(p) \/ StoreEvent(p) \/ BeginVerify(p) \/ EndVerify(p)
        => config' = config
    BY DEF SaveHealthy, StoreEvent, BeginVerify, EndVerify
  <2>6. StoreCandidate(p) \/ SourceDone(p) \/ FinishSync(p) => config' = config
    BY DEF StoreCandidate, SourceDone, FinishSync
  <2>7. \A u \in Urls : VerifyCandidate(p, u) => config' = config
    BY DEF VerifyCandidate
  <2>. QED  BY <2>1, <2>2, <2>3, <2>4, <2>5, <2>6, <2>7
       DEF SyncNext, SyncStep, SyncTypeOK, SyncStates
<1>1. CASE StartSync(p)
  <2>1. CASE sync' = sync
    BY <1>1, <2>1 DEF StartSync, Reported
  <2>2. CASE sync' = [sync EXCEPT ![p] =
                        [Idle EXCEPT !.pc = "fetch", !.left = config[p].sources]]
    <3>1. sync'[p].pc = "fetch" /\ sync'[p].left = config[p].sources
      BY <1>0, <2>2 DEF Idle
    <3>. QED  BY <1>0, <3>1 DEF Reported
  <2>. QED  BY <1>1, <2>1, <2>2 DEF StartSync
<1>2. CASE SkipDisabled(p)
  <2>1. PICK s \in Disabled :
          /\ Current(p, s)
          /\ \/ SaveSourceHealth(s, "disabled") /\ NextIteration(p, sync[p].failed)
             \/ UNCHANGED health /\ NextIteration(p, TRUE)
    BY <1>2 DEF SkipDisabled
  <2>2. s \in Sources
    BY SyncAssumption
  <2>3. CASE SaveSourceHealth(s, "disabled") /\ NextIteration(p, sync[p].failed)
    <3>1. Recorded(s)' /\ \A k \in Sources : k # s => health'[k] = health[k]
      BY <2>2, <2>3, HealthWritten DEF Recorded
    <3>. QED  BY <1>0, <1>2, <2>1, <2>2, <2>3, <3>1, NextReported DEF SkipDisabled
  <2>. QED  BY <1>0, <1>2, <2>1, <2>2, <2>3, NextReported DEF SkipDisabled
<1>3. CASE FetchFails(p)
  <2>1. PICK s \in Sources \ Disabled :
          /\ Current(p, s)
          /\ \/ /\ SaveSourceHealth(s, FailureState(s))
                /\ NextIteration(p, sync[p].failed \/ FailureState(s) = "error")
             \/ UNCHANGED health /\ NextIteration(p, TRUE)
    BY <1>3 DEF FetchFails
  <2>2. FailureState(s) \in {"degraded", "error"}
    BY DEF FailureState
  <2>3. CASE /\ SaveSourceHealth(s, FailureState(s))
             /\ NextIteration(p, sync[p].failed \/ FailureState(s) = "error")
    <3>. DEFINE failed == sync[p].failed \/ FailureState(s) = "error"
    <3>1. failed \in BOOLEAN /\ (failed <=> (sync[p].failed \/ FailureState(s) = "error"))
      BY <1>0
    <3>2. /\ ~failed => Recorded(s)'
          /\ \A k \in Sources : k # s => health'[k] = health[k]
      BY <2>2, <2>3, HealthWritten DEF Recorded
    <3>3. NextIteration(p, failed)
      BY <2>3
    <3>. HIDE DEF failed
    <3>. QED  BY <1>0, <1>3, <2>1, <3>1, <3>2, <3>3, NextReported DEF FetchFails
  <2>. QED  BY <1>0, <1>3, <2>1, <2>3, NextReported DEF FetchFails
<1>4. CASE SaveHealthy(p)
  <2>1. PICK s \in Sources :
          /\ Current(p, s)
          /\ \/ /\ SaveSourceHealth(s, "healthy")
                /\ sync' = [sync EXCEPT ![p].pc = "events"]
             \/ UNCHANGED health /\ NextIteration(p, TRUE)
    BY <1>4 DEF SaveHealthy
  <2>2. CASE SaveSourceHealth(s, "healthy") /\ sync' = [sync EXCEPT ![p].pc = "events"]
    <3>1. Recorded(s)' /\ \A k \in Sources : k # s => health'[k] = health[k]
      BY <2>2, HealthWritten DEF Recorded
    <3>2. /\ sync'[p].left = sync[p].left /\ sync'[p].failed = sync[p].failed
          /\ sync[p].pc # "idle"
      BY <1>0, <1>4, <2>2 DEF SaveHealthy, SyncStates
    <3>3. /\ sync[p].left \subseteq Sources
          /\ config[p].sources \subseteq Sources
      BY <1>0, SyncAssumption DEF SyncTypeOK, SyncStates, ConfigType
    <3>4. \A k \in Sources : Current(p, k) => k = s
      BY <2>1, <3>3, BoundsAssumption DEF Current
    <3>5. \A k \in Sources : Current(p, k)' => Current(p, k)
      BY <3>2 DEF Current
    <3>6. \A k \in Sources : Recorded(k) => Recorded(k)'
      BY <3>1 DEF Recorded
    <3>. QED  BY <1>0, <3>1, <3>2, <3>3, <3>4, <3>5, <3>6 DEF Reported
  <2>. QED  BY <1>0, <1>4, <2>1, <2>2, NextReported DEF SaveHealthy
<1>5. CASE SourceDone(p)
  <2>1. NextIteration(p, sync[p].failed) /\ health' = health /\ sync[p].pc = "store"
    BY <1>5 DEF SourceDone
  <2>2. CASE \E s \in Sources : Current(p, s)
    <3>1. PICK s \in Sources : Current(p, s)
      BY <2>2
    <3>2. ~sync[p].failed => Recorded(s)'
      BY <2>1, <3>1 DEF Reported, Recorded
    <3>. QED  BY <1>0, <2>1, <3>1, <3>2, NextReported
  <2>3. CASE ~\E s \in Sources : Current(p, s)
    <3>1. /\ sync'[p].pc = "fetch"
          /\ sync'[p].failed = sync[p].failed
          /\ sync'[p].left = {k \in sync[p].left : \E j \in sync[p].left : j < k}
      BY <1>0, <2>1 DEF NextIteration, Idle
    <3>2. sync[p].left \subseteq Sources
      BY <1>0 DEF SyncStates
    <3>3. \A k \in sync[p].left : k \in sync'[p].left
      BY <2>3, <3>1, <3>2, BoundsAssumption DEF Current
    <3>. QED  BY <1>0, <2>1, <3>1, <3>3 DEF Reported, Recorded
  <2>. QED  BY <2>2, <2>3
<1>6. CASE FinishSync(p)
  <2>1. sync'[p].pc = "idle"
    BY <1>0, <1>6 DEF FinishSync, Idle
  <2>. QED  BY <2>1 DEF Reported
<1>7. CASE FetchReturns(p)
  <2>1. sync[p].pc = "fetch" /\ health' = health
    BY <1>7 DEF FetchReturns
  <2>2. /\ sync'[p].left = sync[p].left /\ sync'[p].failed = sync[p].failed
        /\ sync'[p].pc = "health"
    BY <1>0, <1>7 DEF FetchReturns, SyncStates
  <2>. QED  BY <1>0, <2>1, <2>2, StayReported
<1>8. CASE StoreEvent(p)
  <2>1. sync[p].pc = "events" /\ health' = health
    BY <1>8 DEF StoreEvent
  <2>2. /\ sync'[p].left = sync[p].left /\ sync'[p].pc = sync[p].pc
        /\ sync[p].failed => sync'[p].failed
    BY <1>0, <1>8 DEF StoreEvent, SyncStates
  <2>. QED  BY <1>0, <2>1, <2>2, StayReported
<1>9. CASE BeginVerify(p)
  <2>1. sync[p].pc = "events" /\ health' = health
    BY <1>9 DEF BeginVerify
  <2>2. sync'[p].left = sync[p].left /\ sync'[p].failed = sync[p].failed
    BY <1>0, <1>9 DEF BeginVerify, SyncStates
  <2>. QED  BY <1>0, <2>1, <2>2, StayReported
<1>10. CASE \E u \in Urls : VerifyCandidate(p, u)
  <2>1. sync[p].pc = "verify" /\ health' = health
    BY <1>10 DEF VerifyCandidate
  <2>2. sync'[p].left = sync[p].left /\ sync'[p].failed = sync[p].failed
    BY <1>0, <1>10 DEF VerifyCandidate, SyncStates
  <2>. QED  BY <1>0, <2>1, <2>2, StayReported
<1>11. CASE EndVerify(p)
  <2>1. sync[p].pc = "verify" /\ health' = health
    BY <1>11 DEF EndVerify
  <2>2. sync'[p].left = sync[p].left /\ sync'[p].failed = sync[p].failed
    BY <1>0, <1>11 DEF EndVerify, SyncStates
  <2>. QED  BY <1>0, <2>1, <2>2, StayReported
<1>12. CASE StoreCandidate(p)
  <2>1. sync[p].pc = "store" /\ health' = health
    BY <1>12 DEF StoreCandidate
  <2>2. /\ sync'[p].left = sync[p].left /\ sync'[p].pc = sync[p].pc
        /\ sync[p].failed => sync'[p].failed
    BY <1>0, <1>12 DEF StoreCandidate, SyncStates
  <2>. QED  BY <1>0, <2>1, <2>2, StayReported
<1>. QED
  BY <1>1, <1>2, <1>3, <1>4, <1>5, <1>6, <1>7, <1>8, <1>9, <1>10, <1>11, <1>12
     DEF SyncNext, SyncStep

\* With a single process, a sync that returns no error leaves no source of its
\* configuration without a health row or with an error in it.
THEOREM SuccessHolds ==
  ASSUME Procs = {Server}
  PROVE  Spec => SuccessfulSyncIsHealthy
<1>1. Init => Reported(Server)
  BY ServerAssumption DEF Init, SyncInit, Idle, Reported
<1>2. TypeOK /\ Reported(Server) /\ [Next]_vars => Reported(Server)'
  <2>. SUFFICES ASSUME TypeOK, Reported(Server), [Next]_vars
                PROVE  Reported(Server)'
    OBVIOUS
  <2>1. CASE SyncNext(Server)
    BY <2>1, ServerAssumption, SyncReported DEF TypeOK
  <2>2. CASE UNCHANGED <<health, sync, config>>
    BY <2>2 DEF Reported, Recorded, Current
  <2>3. CASE Restart(Server)
    <3>1. sync'[Server].pc = "idle"
      BY <2>3, ServerAssumption DEF Restart, Idle, TypeOK, SyncTypeOK
    <3>. QED  BY <3>1 DEF Reported
  <2>4. ASSUME NEW r \in Reviewers, ReviewNext(r) PROVE UNCHANGED health
    <3>1. BeginReview(r) => UNCHANGED health
      BY DEF BeginReview, storeVars
    <3>2. LoadCandidate(r) => UNCHANGED health
      BY DEF LoadCandidate
    <3>3. ApproveCandidate(r) => UNCHANGED health
      BY DEF ApproveCandidate
    <3>4. RejectCandidate(r) \/ RestoreCandidate(r) => UNCHANGED health
      BY DEF RejectCandidate, RestoreCandidate, WriteStatus
    <3>. QED  BY <2>4, <3>1, <3>2, <3>3, <3>4 DEF ReviewNext, ReviewStep
  <2>. QED  BY <2>1, <2>2, <2>3, <2>4 DEF Next, vars, Tick, syncVars
<1>3. TypeOK /\ Reported(Server) =>
        \A p \in Procs : (FinishSync(p) /\ ~sync[p].failed) =>
          \A s \in config[p].sources : health[s] # None /\ health[s].state # "error"
  BY DEF FinishSync, Reported, Recorded
<1>. QED  BY <1>1, <1>2, <1>3, TypeCorrect, PTL DEF Spec, SuccessfulSyncIsHealthy
=============================================================================
