-------------------------- MODULE RefinementProofs --------------------------
(***************************************************************************)
(* Radar implements Moderation: every statement that the deployed system   *)
(* executes, in whatever order, is a moderation step or invisible to it.   *)
(* With its digest commands the system is Radar still (DeploymentIsRadar), *)
(* and what it does around a command is what Digest assumes.               *)
(***************************************************************************)
EXTENDS RadarProofs, Deployment

\* What moderation sees of the tables, row by row.
LEMMA MapsOfRows ==
  /\ \A u \in Urls : /\ statusMap[u] = RowStatus(candidates[u])
                     /\ entryMap[u] = RowEntry(candidates[u])
  /\ \A u \in Urls : /\ statusMap'[u] = RowStatus(candidates'[u])
                     /\ entryMap'[u] = RowEntry(candidates'[u])
  /\ statusMap = [u \in Urls |-> statusMap[u]]
  /\ statusMap' = [u \in Urls |-> statusMap'[u]]
  /\ entryMap = [u \in Urls |-> entryMap[u]]
  /\ entryMap' = [u \in Urls |-> entryMap'[u]]
BY DEF statusMap, entryMap, RowStatus, RowEntry

\* An empty database maps to an empty moderation state.
LEMMA InitRefines == Init => M!Init
BY DEF Init, StoreInit, ReviewInit, NoReview, M!Init, statusMap, entryMap,
       calendarMap, askedMap, M!NoRequest, RowStatus, RowEntry

\* UpsertEvent lists one entry: the one it merges the report into, or a new
\* one whose uid and fingerprint nobody has.
LEMMA UpsertEventLists ==
  ASSUME NEW E \in SUBSET EventRows, NEW e \in EventRows,
         ~UpsertEventFails(E, e)
  PROVE  LET cal(S) == {CalendarEntry(r) : r \in S} IN
         \E x \in cal(UpsertEvent(E, e)) :
           /\ x.key = EventFingerprint(e)
           /\ cal(UpsertEvent(E, e)) = cal(E) \cup {x}
           /\ \/ x \in cal(E)
              \/ \A y \in cal(E) : y.uid # x.uid /\ y.key # x.key
<1>. DEFINE cal(S) == {CalendarEntry(r) : r \in S}
            same == SameEvent(E, e)
            merged(r) == [e EXCEPT !.uid = r.uid, !.start = r.start]
<1>1. CASE same = {}
  <2>1. UpsertEvent(E, e) = E \cup {e}
    BY <1>1 DEF UpsertEvent
  <2>2. cal(UpsertEvent(E, e)) = cal(E) \cup {CalendarEntry(e)}
    BY <2>1
  <2>3. \A r \in E : r.uid # e.uid /\ EventFingerprint(r) # EventFingerprint(e)
    BY <1>1 DEF UpsertEventFails, SameEvent
  <2>4. \A y \in cal(E) : y.uid # e.uid /\ y.key # EventFingerprint(e)
    BY <2>3 DEF CalendarEntry
  <2>. QED  BY <2>2, <2>4 DEF CalendarEntry
<1>2. CASE same # {}
  <2>1. UpsertEvent(E, e) = (E \ same) \cup {merged(r) : r \in same}
    BY <1>2 DEF UpsertEvent
  <2>2. ASSUME NEW r \in same
        PROVE  CalendarEntry(merged(r)) = CalendarEntry(r)
    <3>1. r \in E /\ EventFingerprint(r) = EventFingerprint(e)
      BY DEF SameEvent
    <3>2. merged(r).uid = r.uid /\ merged(r).title = e.title
          /\ merged(r).start = r.start /\ merged(r).location = e.location
      BY <3>1 DEF EventRows
    <3>. QED  BY <3>1, <3>2 DEF CalendarEntry, EventFingerprint
  <2>3. cal(UpsertEvent(E, e)) = cal(E)
    <3>1. same \subseteq E
      BY DEF SameEvent
    <3>2. cal(UpsertEvent(E, e)) =
            cal(E \ same) \cup {CalendarEntry(merged(r)) : r \in same}
      BY <2>1
    <3>3. {CalendarEntry(merged(r)) : r \in same} = cal(same)
      BY <2>2
    <3>. HIDE DEF same, merged
    <3>. QED  BY <3>1, <3>2, <3>3
  <2>4. PICK r \in same : TRUE
    BY <1>2
  <2>5. r \in E /\ CalendarEntry(r).key = EventFingerprint(e)
    BY <2>4 DEF SameEvent, CalendarEntry
  <2>. QED  BY <2>3, <2>5
<1>. QED  BY <1>1, <1>2

\* Pruning refines Prune: it takes no approved candidate.
LEMMA PruneRefines ==
  ASSUME candidates' = PruneCandidates(candidates, now),
         UNCHANGED <<events, reviews>>
  PROVE  M!Next
<1>. DEFINE P == {u \in Urls : Stale(candidates[u], now)}
<1>1. \A u \in Urls :
        candidates'[u] = IF u \in P THEN None ELSE candidates[u]
  BY DEF PruneCandidates
<1>2. \A u \in P : RowStatus(candidates[u]) # "approved"
  BY DEF Stale, RowStatus
<1>3. \A u \in Urls :
        /\ statusMap'[u] = IF u \in P THEN "absent" ELSE statusMap[u]
        /\ entryMap'[u] = entryMap[u]
  BY <1>1, <1>2, MapsOfRows DEF RowStatus, RowEntry
<1>4. UNCHANGED <<calendarMap, askedMap>>
  BY DEF calendarMap, askedMap
<1>5. \A u \in P : statusMap[u] # "approved"
  BY <1>2, MapsOfRows
<1>6. P \in SUBSET Urls
  OBVIOUS
<1>. HIDE DEF P
<1>7. statusMap' = [u \in Urls |-> IF u \in P THEN "absent" ELSE statusMap[u]]
  BY <1>3, MapsOfRows
<1>8. entryMap' = entryMap
  BY <1>3, MapsOfRows
<1>9. M!Prune(P)
  BY <1>4, <1>5, <1>7, <1>8 DEF M!Prune
<1>. QED  BY <1>6, <1>9 DEF M!Next

\* Re-discovery refines Discover on a new page and a stutter on a known one:
\* it fills no column an approved candidate's entry depends on.
LEMMA UpsertCandidateRefines ==
  ASSUME IInv, NEW u \in Urls, NEW c \in Found, WellVerified(c),
         candidates' = UpsertCandidate(candidates, u, c),
         UNCHANGED <<events, reviews>>
  PROVE  M!Next \/ UNCHANGED M!vars
<1>. DEFINE old == candidates[u]
            new == candidates'[u]
<1>1. /\ candidates \in [Urls -> CandidateRows \cup {None}]
      /\ old # None => WellVerified(old)
      /\ old # None /\ old.status = "approved" => Complete(old.fields)
  BY DEF IInv, TypeOK, StoreTypeOK, EvidenceCoherent, ApprovedComplete
<1>2. /\ new # None
      /\ new.status = StatusColumn(old)
      /\ (old # None /\ Complete(old.fields)) =>
           \A f \in Required : new.fields[f] = old.fields[f]
  BY <1>1, UpsertCandidateWell
<1>3. \A v \in Urls : v # u => candidates'[v] = candidates[v]
  BY <1>1 DEF UpsertCandidate
<1>4. UNCHANGED <<calendarMap, askedMap>>
  BY DEF calendarMap, askedMap
<1>5. CASE old = None
  <2>1. statusMap[u] = "absent" /\ statusMap'[u] = "pending"
        /\ entryMap[u] = None /\ entryMap'[u] = None
    BY <1>2, <1>5, MapsOfRows DEF RowStatus, RowEntry, StatusColumn
  <2>2. \A v \in Urls : v # u => /\ statusMap'[v] = statusMap[v]
                                 /\ entryMap'[v] = entryMap[v]
    BY <1>3, MapsOfRows
  <2>3. statusMap' = [statusMap EXCEPT ![u] = "pending"] /\ entryMap' = entryMap
    BY <2>1, <2>2, MapsOfRows
  <2>. QED  BY <1>4, <2>1, <2>3 DEF M!Next, M!Discover
<1>6. CASE old # None
  <2>1. RowStatus(new) = RowStatus(old)
    BY <1>2, <1>6 DEF RowStatus, StatusColumn
  <2>2. RowEntry(new) = RowEntry(old)
    BY <1>1, <1>2, <1>6, <2>1 DEF RowEntry, RowStatus, CandidateKey, Required
  <2>3. \A v \in Urls : statusMap'[v] = statusMap[v] /\ entryMap'[v] = entryMap[v]
    BY <1>3, <2>1, <2>2, MapsOfRows
  <2>4. statusMap' = statusMap /\ entryMap' = entryMap
    BY <2>3, MapsOfRows
  <2>. QED  BY <1>4, <2>4 DEF M!vars
<1>. QED  BY <1>5, <1>6

\* A feed's event refines Import.
LEMMA UpsertEventRefines ==
  ASSUME IInv, NEW e \in EventRows, ~UpsertEventFails(events, e),
         events' = UpsertEvent(events, e), UNCHANGED <<candidates, reviews>>
  PROVE  M!Next
<1>1. events \in SUBSET EventRows
  BY DEF IInv, TypeOK, StoreTypeOK
<1>2. \E x \in calendarMap' :
        /\ calendarMap' = calendarMap \cup {x}
        /\ \/ x \in calendarMap
           \/ \A y \in calendarMap : y.uid # x.uid /\ y.key # x.key
  BY <1>1, UpsertEventLists DEF calendarMap
<1>3. UNCHANGED <<statusMap, entryMap, askedMap>>
  BY DEF statusMap, entryMap, askedMap
<1>. QED  BY <1>2, <1>3 DEF M!Next, M!Import, M!Lists

\* Beginning a request refines Ask.
LEMMA BeginRefines ==
  ASSUME ReviewTypeOK, NEW r \in Reviewers, BeginReview(r)
  PROVE  M!Next
<1>1. PICK a \in Actions, u \in Urls :
        reviews' = [reviews EXCEPT ![r] =
          [NoReview EXCEPT !.pc = "load", !.action = a, !.url = u,
                    !.at = IF a = "approve" THEN now ELSE 0]]
  BY DEF BeginReview
<1>2. reviews \in [Reviewers -> ReviewStates] /\ reviews[r].pc = "idle"
  BY DEF ReviewTypeOK, BeginReview
<1>3. reviews'[r].pc = "load" /\ reviews'[r].action = a /\ reviews'[r].url = u
  BY <1>1, <1>2 DEF NoReview
<1>4. \A q \in Reviewers : q # r => reviews'[q] = reviews[q]
  BY <1>1, <1>2
<1>5. askedMap[r] = M!NoRequest /\ askedMap'[r] = [action |-> a, url |-> u]
  BY <1>2, <1>3 DEF askedMap, M!NoRequest
<1>6. askedMap' = [askedMap EXCEPT ![r] = [action |-> a, url |-> u]]
  BY <1>3, <1>4 DEF askedMap, M!NoRequest
<1>7. UNCHANGED <<statusMap, entryMap, calendarMap>>
  BY DEF BeginReview, storeVars, statusMap, entryMap, calendarMap
<1>8. M!Ask(r, a, u)
  BY <1>5, <1>6, <1>7 DEF M!Ask
<1>. QED  BY <1>8 DEF M!Next, Actions

\* The end of a request, as moderation sees it.
LEMMA ReplyRefines ==
  ASSUME ReviewTypeOK, NEW r \in Reviewers, reviews[r].pc # "idle",
         NEW code, Reply(r, code)
  PROVE  /\ askedMap[r] = [action |-> reviews[r].action, url |-> reviews[r].url]
         /\ askedMap' = [askedMap EXCEPT ![r] = M!NoRequest]
         /\ UNCHANGED <<candidates, events>> => M!Next
<1>1. /\ \A q \in Reviewers : q # r => reviews'[q] = reviews[q]
      /\ reviews'[r].pc = "idle"
  BY DEF Reply, NoReview, ReviewTypeOK, ReviewStates
<1>2. askedMap[r] = [action |-> reviews[r].action, url |-> reviews[r].url]
  BY DEF askedMap, M!NoRequest
<1>3. askedMap' = [askedMap EXCEPT ![r] = M!NoRequest]
  BY <1>1 DEF askedMap, M!NoRequest
<1>4. ASSUME UNCHANGED <<candidates, events>> PROVE M!Next
  <2>1. askedMap' = [q \in Reviewers |-> IF q \in {r} THEN M!NoRequest ELSE askedMap[q]]
    BY <1>1 DEF askedMap, M!NoRequest
  <2>2. UNCHANGED <<statusMap, entryMap, calendarMap>>
    BY <1>4 DEF statusMap, entryMap, calendarMap
  <2>3. M!Refuse({r})
    BY <2>1, <2>2 DEF M!Refuse
  <2>. QED  BY <2>3 DEF M!Next
<1>. QED  BY <1>2, <1>3, <1>4

\* A crash refines Refuse: the requests it interrupts have written nothing.
LEMMA RestartRefines ==
  ASSUME NEW p \in Procs, Restart(p)
  PROVE  M!Next
<1>1. UNCHANGED <<statusMap, entryMap, calendarMap>>
  BY DEF Restart, statusMap, entryMap, calendarMap
<1>2. CASE p = Server
  <2>1. askedMap' =
          [r \in Reviewers |-> IF r \in Reviewers THEN M!NoRequest ELSE askedMap[r]]
    BY <1>2 DEF Restart, askedMap, NoReview, M!NoRequest
  <2>2. M!Refuse(Reviewers)
    BY <1>1, <2>1 DEF M!Refuse
  <2>. QED  BY <2>2 DEF M!Next
<1>3. CASE p # Server
  <2>1. askedMap' = [r \in Reviewers |-> IF r \in {} THEN M!NoRequest ELSE askedMap[r]]
    BY <1>3 DEF Restart, askedMap
  <2>2. M!Refuse({})
    BY <1>1, <2>1 DEF M!Refuse
  <2>. QED  BY <2>2 DEF M!Next
<1>. QED  BY <1>2, <1>3

\* Writing the row of a stored candidate changes that row's view alone.
LEMMA UpdateCandidateViews ==
  ASSUME StoreTypeOK, NEW u \in Urls, NEW c \in CandidateRows,
         candidates[u] # None, candidates' = UpdateCandidate(candidates, u, c)
  PROVE  /\ statusMap[u] # "absent"
         /\ statusMap' = [statusMap EXCEPT ![u] = c.status]
         /\ entryMap' = [entryMap EXCEPT
              ![u] = IF c.status = "approved" THEN CandidateKey(c) ELSE None]
<1>1. candidates \in [Urls -> CandidateRows \cup {None}]
  BY DEF StoreTypeOK
<1>2. \A v \in Urls : v # u => /\ statusMap'[v] = statusMap[v]
                               /\ entryMap'[v] = entryMap[v]
  BY <1>1, UpdateCandidateWrites, MapsOfRows
<1>3. candidates'[u] # None /\ candidates'[u].status = c.status
      /\ CandidateKey(candidates'[u]) = CandidateKey(c)
  BY <1>1, UpdateCandidateWrites, NoneRowAssumption DEF CandidateKey
<1>4. statusMap[u] # "absent"
  BY <1>1, MapsOfRows DEF RowStatus, CandidateRows, Statuses
<1>5. statusMap'[u] = c.status
      /\ entryMap'[u] = IF c.status = "approved" THEN CandidateKey(c) ELSE None
  BY <1>3, MapsOfRows DEF RowStatus, RowEntry
<1>. QED  BY <1>2, <1>4, <1>5, MapsOfRows

\* A rejection or a restoration refines SetAside, or Refuse if the candidate
\* has gone.
LEMMA WriteStatusRefines ==
  ASSUME StoreTypeOK, ReviewTypeOK, NEW r \in Reviewers,
         RejectCandidate(r) \/ RestoreCandidate(r)
  PROVE  M!Next
<1>. DEFINE row == reviews[r].row
            u == reviews[r].url
            a == reviews[r].action
            copy(st) == [row EXCEPT !.status = st]
<1>1. /\ reviews[r].pc = "apply" /\ a \in {"reject", "restore"}
      /\ \/ /\ candidates' =
               UpdateCandidate(candidates, u, copy(M!Decision[a]))
            /\ Reply(r, "303")
         \/ UNCHANGED candidates /\ Reply(r, "500")
      /\ UNCHANGED events
  BY DEF RejectCandidate, RestoreCandidate, WriteStatus, M!Decision
<1>2. u \in Urls /\ row \in CandidateRows
  BY <1>1 DEF ReviewTypeOK, ReviewStates
<1>3. /\ M!Decision[a] \in {"pending", "rejected"}
      /\ copy(M!Decision[a]) \in CandidateRows
      /\ copy(M!Decision[a]).status = M!Decision[a]
  BY <1>1, <1>2 DEF CandidateRows, Statuses, M!Decision
<1>4. CASE UNCHANGED candidates
  BY <1>1, <1>4, ReplyRefines
<1>5. CASE /\ candidates' = UpdateCandidate(candidates, u, copy(M!Decision[a]))
           /\ Reply(r, "303")
           /\ candidates[u] # None
  <2>. HIDE DEF copy
  <2>1. /\ statusMap[u] # "absent"
        /\ statusMap' = [statusMap EXCEPT ![u] = M!Decision[a]]
        /\ entryMap' = [entryMap EXCEPT ![u] = None]
    BY <1>2, <1>3, <1>5, UpdateCandidateViews
  <2>2. askedMap[r] = [action |-> a, url |-> u]
        /\ askedMap' = [askedMap EXCEPT ![r] = M!NoRequest]
    BY <1>1, <1>5, ReplyRefines
  <2>3. UNCHANGED calendarMap
    BY <1>1 DEF calendarMap
  <2>4. M!SetAside(r)
    BY <1>1, <2>1, <2>2, <2>3 DEF M!SetAside, M!Decides
  <2>. QED  BY <2>4 DEF M!Next
<1>6. CASE candidates' = UpdateCandidate(candidates, u, copy(M!Decision[a]))
           /\ candidates[u] = None
  <2>1. UNCHANGED candidates
    BY <1>6 DEF UpdateCandidate
  <2>. QED  BY <1>4, <2>1
<1>. QED  BY <1>1, <1>4, <1>5, <1>6

\* An approval refines Approve, or Refuse if nothing was written.
LEMMA ApproveRefines ==
  ASSUME StoreTypeOK, ReviewTypeOK, NEW r \in Reviewers, ApproveCandidate(r)
  PROVE  M!Next
<1>. DEFINE row == reviews[r].row
            u == reviews[r].url
            e == ApprovedEvent(u, row)
            copy == [row EXCEPT !.status = "approved"]
<1>1. reviews[r].pc = "apply" /\ reviews[r].action = "approve"
  BY DEF ApproveCandidate
<1>2. u \in Urls /\ row \in CandidateRows
  BY <1>1 DEF ReviewTypeOK, ReviewStates
<1>3. CASE UNCHANGED <<events, candidates>> /\ \E code : Reply(r, code)
  BY <1>1, <1>3, ReplyRefines
<1>4. CASE /\ approveGate(row, reviews[r].at)
           /\ candidates[u] # None
           /\ ~UpsertEventFails(events, e)
           /\ events' = UpsertEvent(events, e)
           /\ candidates' = UpdateCandidate(candidates, u, copy)
           /\ Reply(r, "303")
  <2>1. e \in EventRows /\ events \in SUBSET EventRows
    BY <1>2, <1>4, ApprovedEventType DEF approveGate, Complete, StoreTypeOK
  <2>2. /\ copy \in CandidateRows
        /\ copy.status = "approved"
        /\ CandidateKey(copy) = EventFingerprint(e)
    BY <1>2 DEF CandidateRows, Statuses, ApprovedEvent, EventFingerprint, CandidateKey
  <2>. HIDE DEF e, copy
  <2>3. PICK x \in calendarMap' :
          /\ x.key = EventFingerprint(e)
          /\ calendarMap' = calendarMap \cup {x}
          /\ \/ x \in calendarMap
             \/ \A y \in calendarMap : y.uid # x.uid /\ y.key # x.key
    BY <1>4, <2>1, UpsertEventLists DEF calendarMap
  <2>4. /\ statusMap[u] # "absent"
        /\ statusMap' = [statusMap EXCEPT ![u] = "approved"]
        /\ entryMap' = [entryMap EXCEPT ![u] = x.key]
    BY <1>2, <1>4, <2>2, <2>3, UpdateCandidateViews
  <2>5. askedMap[r] = [action |-> "approve", url |-> u]
        /\ askedMap' = [askedMap EXCEPT ![r] = M!NoRequest]
    BY <1>1, <1>4, ReplyRefines
  <2>6. M!Approve(r, x)
    BY <2>3, <2>4, <2>5 DEF M!Approve, M!Decides, M!Lists
  <2>. QED  BY <2>6 DEF M!Next
<1>. QED  BY <1>3, <1>4 DEF ApproveCandidate, Publish

\* A step of a request.
LEMMA ReviewRefines ==
  ASSUME StoreTypeOK, ReviewTypeOK, NEW r \in Reviewers, ReviewNext(r)
  PROVE  M!Next \/ UNCHANGED M!vars
<1>1. CASE LoadCandidate(r)
  <2>1. reviews[r].pc = "load" /\ UNCHANGED <<candidates, events>>
    BY <1>1 DEF LoadCandidate
  <2>2. CASE \E code : Reply(r, code)
    BY <2>1, <2>2, ReplyRefines
  <2>3. CASE reviews' = [reviews EXCEPT ![r].pc = "apply",
                                        ![r].row = candidates[reviews[r].url]]
    <3>1. UNCHANGED askedMap
      BY <2>1, <2>3 DEF askedMap, ReviewTypeOK, ReviewStates
    <3>. QED  BY <2>1, <3>1 DEF M!vars, statusMap, entryMap, calendarMap
  <2>. QED  BY <1>1, <2>2, <2>3 DEF LoadCandidate
<1>. QED  BY <1>1, BeginRefines, ApproveRefines, WriteStatusRefines
          DEF ReviewNext, ReviewStep

\* Every step maps to a moderation step or a stutter.
LEMMA StepRefines == IInv /\ [Next]_vars => [M!Next]_M!vars
<1>. SUFFICES ASSUME IInv, [Next]_vars PROVE M!Next \/ UNCHANGED M!vars
  OBVIOUS
<1>1. StoreTypeOK /\ SyncTypeOK /\ ReviewTypeOK
  BY DEF IInv, TypeOK
<1>2. CASE UNCHANGED <<candidates, events, reviews>>
  BY <1>2 DEF M!vars, statusMap, entryMap, calendarMap, askedMap
<1>3. CASE (Tick /\ UNCHANGED <<sync, config, reviews>>) \/ UNCHANGED vars
  BY <1>2, <1>3 DEF Tick, vars
<1>4. ASSUME NEW p \in Procs, SyncNext(p), UNCHANGED reviews
      PROVE  M!Next \/ UNCHANGED M!vars
  <2>1. SoundMemory(sync[p])
    BY DEF IInv, MemorySound
  <2>. QED  BY <1>1, <1>2, <1>4, <2>1, SyncTables, PruneRefines,
               UpsertCandidateRefines, UpsertEventRefines
<1>5. ASSUME NEW r \in Reviewers, ReviewNext(r)
      PROVE  M!Next \/ UNCHANGED M!vars
  BY <1>1, <1>5, ReviewRefines
<1>6. ASSUME NEW p \in Procs, Restart(p) PROVE M!Next
  BY <1>6, RestartRefines
<1>. QED  BY <1>3, <1>4, <1>5, <1>6 DEF Next

\* The deployed system implements moderation: whatever syncs, reviews,
\* restarts and store errors interleave, candidates are only discovered, set
\* aside or approved by a request that asks for it, or pruned unapproved; an
\* approval lists its event; and the calendar only grows.
THEOREM RadarImplementsModeration == Spec => ImplementsModeration
<1>. QED  BY InitRefines, StepRefines, InvariantHolds, PTL
          DEF Spec, ImplementsModeration, M!Spec

-----------------------------------------------------------------------------
(* The deployed system with its digest commands.                           *)

\* A step of the deployment is a step of Radar.
LEMMA StepProjects == [DeployedNext]_deployedVars => [Next]_vars
<1>. SUFFICES ASSUME [DeployedNext]_deployedVars PROVE [Next]_vars
  OBVIOUS
<1>1. CASE Elsewhere
  BY <1>1 DEF Elsewhere, Next, SyncNext
<1>2. ASSUME NEW d \in Digests, BeginCommand(d) PROVE Next
  BY <1>2, DeploymentAssumption DEF BeginCommand, Next, SyncNext
<1>3. ASSUME NEW d \in Digests, Command(d) PROVE UNCHANGED vars
  BY <1>3 DEF Command
<1>4. ASSUME NEW d \in Digests, KillCommand(d) PROVE Next
  BY <1>4, DeploymentAssumption DEF KillCommand, Next
<1>5. CASE UNCHANGED deployedVars
  BY <1>5 DEF deployedVars
<1>. QED  BY <1>1, <1>2, <1>3, <1>4, <1>5 DEF DeployedNext

\* Digest commands take nothing away from what is proved about Radar: the
\* deployment is one.
THEOREM DeploymentIsRadar == DeployedSpec => Spec
<1>1. DeployedInit => Init
  BY DEF DeployedInit
<1>. QED  BY <1>1, StepProjects, PTL DEF DeployedSpec, Spec

\* Digest's copies of the store's operators are the store's.
LEMMA SameStore ==
  /\ \A E, e : /\ D!UpsertEvent(E, e) = UpsertEvent(E, e)
               /\ D!UpsertEventFails(E, e) <=> UpsertEventFails(E, e)
  /\ D!EventRows = EventRows
<1>1. \A e : D!EventFingerprint(e) = EventFingerprint(e)
  BY DEF D!EventFingerprint, EventFingerprint
<1>2. \A E, e : D!SameEvent(E, e) = SameEvent(E, e)
  BY <1>1 DEF D!SameEvent, SameEvent
<1>3. \A E, e : /\ D!UpsertEvent(E, e) = UpsertEvent(E, e)
                /\ D!UpsertEventFails(E, e) <=> UpsertEventFails(E, e)
  BY <1>2 DEF D!UpsertEvent, UpsertEvent, D!UpsertEventFails, UpsertEventFails
<1>4. D!Text0 = Text0
  BY DEF D!Text0, Text0
<1>5. D!Origins = Origins
  BY DEF D!Origins, Origins, D!Sources, Sources
<1>6. D!UIDs = UIDs
  BY <1>4, <1>5 DEF D!UIDs, UIDs
<1>7. D!EventRows = EventRows
  BY <1>4, <1>5, <1>6 DEF D!EventRows, EventRows
<1>. QED  BY <1>3, <1>7

\* What an approval publishes is one of the reports that Digest expects.
LEMMA ApprovedReport ==
  ASSUME NEW u \in Urls, NEW row \in CandidateRows, WellVerified(row),
         Complete(row.fields)
  PROVE  ApprovedEvent(u, row) \in Reports
<1>. DEFINE m == row.fields
            c == [source |-> row.source, fields |-> m]
<1>1. m \in FieldMaps /\ row.source \in Sources
  BY DEF CandidateRows
<1>2. PICK a \in Answers, b \in Answers :
        /\ \A f \in Required : m[f] = a[f]
        /\ m["end_time"] = b["end_time"]
  BY DEF WellVerified, Coherent, Complete, Required, Fields
<1>3. a \in FieldMaps
  BY InputsAssumption
<1>. HIDE DEF m
<1>4. m = [a EXCEPT !["end_time"] = b["end_time"]]
  <2>1. m \in [Fields -> Text \cup Nat \cup {None}]
        /\ a \in [Fields -> Text \cup Nat \cup {None}]
    BY <1>1, <1>3 DEF FieldMaps
  <2>2. \A f \in Fields : f \in Required \/ f = "end_time"
    BY DEF Fields
  <2>3. \A f \in Fields : m[f] = [a EXCEPT !["end_time"] = b["end_time"]][f]
    BY <1>2, <2>1, <2>2 DEF Required
  <2>. QED  BY <2>1, <2>3
<1>5. m \in Merged
  <2>. DEFINE E(x, y) == [x EXCEPT !["end_time"] = y["end_time"]]
  <2>1. Merged = {E(x, y) : x, y \in Answers}
    BY DEF Merged
  <2>2. m = E(a, b)
    BY <1>4
  <2>. HIDE DEF E
  <2>. QED  BY <2>1, <2>2
<1>6. Coherent(m) /\ Complete(m)
  BY DEF WellVerified, m
<1>7. c \in Approvable
  BY <1>1, <1>5, <1>6 DEF Approvable
<1>8. ApprovedEvent(u, row) = ApprovedEvent(u, c)
  BY DEF ApprovedEvent, m
<1>. HIDE DEF c
<1>. QED  BY <1>7, <1>8 DEF Reports

\* What Digest sees of a step of Radar: the clock ticks, a report is stored, or
\* nothing.
LEMMA StepReports ==
  ASSUME IInv, [Next]_vars
  PROVE  \/ UNCHANGED <<now, events>>
         \/ Tick
         \/ /\ UNCHANGED now
            /\ \E e \in Reports :
                 /\ ~UpsertEventFails(events, e)
                 /\ events' = UpsertEvent(events, e)
<1>0. StoreTypeOK /\ SyncTypeOK /\ ReviewTypeOK
  BY DEF IInv, TypeOK
<1>1. CASE (Tick /\ UNCHANGED <<sync, config, reviews>>) \/ UNCHANGED vars
           \/ \E p \in Procs : Restart(p)
  BY <1>1 DEF vars, Restart
<1>2. ASSUME NEW p \in Procs, SyncNext(p)
      PROVE  /\ UNCHANGED now
             /\ \/ UNCHANGED events
                \/ \E e \in FeedEvents : /\ ~UpsertEventFails(events, e)
                                         /\ events' = UpsertEvent(events, e)
  <2>1. UNCHANGED now
    BY <1>2 DEF SyncNext, SyncStep, StartSync, SkipDisabled, FetchFails,
       FetchReturns, SaveHealthy, StoreEvent, BeginVerify, VerifyCandidate,
       EndVerify, StoreCandidate, SourceDone, FinishSync
  <2>2. SoundMemory(sync[p])
    BY DEF IInv, MemorySound
  <2>. QED  BY <1>0, <1>2, <2>1, <2>2, SyncTables
<1>3. ASSUME NEW r \in Reviewers, ReviewNext(r)
      PROVE  /\ UNCHANGED now
             /\ \/ UNCHANGED events
                \/ \E e \in Reports : /\ ~UpsertEventFails(events, e)
                                      /\ events' = UpsertEvent(events, e)
  <2>1. UNCHANGED now
    BY <1>3 DEF ReviewNext, ReviewStep, BeginReview, storeVars, LoadCandidate,
       ApproveCandidate, RejectCandidate, RestoreCandidate, WriteStatus
  <2>. DEFINE row == reviews[r].row
              u == reviews[r].url
  <2>2. CASE UNCHANGED events
    BY <2>1, <2>2
  <2>3. CASE /\ reviews[r].pc = "apply"
             /\ approveGate(row, reviews[r].at)
             /\ ~UpsertEventFails(events, ApprovedEvent(u, row))
             /\ events' = UpsertEvent(events, ApprovedEvent(u, row))
    <3>1. u \in Urls /\ row \in CandidateRows /\ WellVerified(row)
      BY <1>0, <2>3 DEF ReviewTypeOK, ReviewStates, IInv, MemorySound
    <3>2. ApprovedEvent(u, row) \in Reports
      BY <2>3, <3>1, ApprovedReport DEF approveGate, Complete
    <3>. QED  BY <2>1, <2>3, <3>2
  <2>. QED  BY <1>0, <1>3, <2>2, <2>3, ReviewTables
<1>. QED  BY <1>1, <1>2, <1>3 DEF Next, Reports

\* A step of Radar that no command takes part in is a step of Digest's
\* environment, or invisible to it.
LEMMA ElsewhereRefines ==
  ASSUME IInv, [Next]_vars, UNCHANGED mailVars
  PROVE  D!Next \/ UNCHANGED D!vars
<1>1. CASE UNCHANGED <<now, events>>
  BY <1>1 DEF D!vars, mailVars
<1>2. CASE Tick
  BY <1>2 DEF Tick, D!Tick, D!Next, D!digestVars, mailVars
<1>3. CASE /\ UNCHANGED now
           /\ \E e \in Reports : /\ ~UpsertEventFails(events, e)
                                 /\ events' = UpsertEvent(events, e)
  <2>1. D!OthersStore
    BY <1>3, SameStore DEF D!OthersStore, mailVars
  <2>. QED  BY <2>1 DEF D!Next
<1>. QED  BY <1>1, <1>2, <1>3, StepReports

\* Every step of the deployment is a step of Digest or a stutter.
LEMMA StepImplementsDigest ==
  IInv /\ [DeployedNext]_deployedVars => [D!Next]_D!vars
<1>. SUFFICES ASSUME IInv, [DeployedNext]_deployedVars
              PROVE  D!Next \/ UNCHANGED D!vars
  OBVIOUS
<1>1. [Next]_vars
  BY StepProjects
<1>2. CASE UNCHANGED mailVars
  BY <1>1, <1>2, ElsewhereRefines
<1>3. ASSUME NEW d \in Digests, BeginCommand(d) \/ Command(d) \/ KillCommand(d)
      PROVE  D!Next
  <2>1. D!DigestNext(d)
    BY <1>3 DEF BeginCommand, Command, KillCommand, D!DigestNext
  <2>. QED  BY <2>1 DEF D!Next
<1>. QED  BY <1>2, <1>3 DEF DeployedNext, deployedVars

\* The deployed digest commands implement Digest: what is checked and proved
\* about Digest holds of them, with syncs, reviews and restarts for its
\* environment.
THEOREM DeploymentImplementsDigest == DeployedSpec => ImplementsDigest
<1>1. DeployedInit => D!Init
  BY DEF DeployedInit
<1>. QED  BY <1>1, StepImplementsDigest, DeploymentIsRadar, InvariantHolds, PTL
          DEF DeployedSpec, ImplementsDigest, D!Spec

-----------------------------------------------------------------------------
(* What is mailed.                                                         *)

\* What may be announced: a listed event that shows what one answer said.
Announceable(x) == Listed(x) /\ Said(x)

\* Whatever a command has read, rendered or mailed may still be announced.
MailInv ==
  /\ digests \in [Digests -> D!DigestStates]
  /\ mail \in Seq(SUBSET D!Lines)
  /\ \A d \in Digests : \A x \in digests[d].rows \cup digests[d].content :
       Announceable(x)
  /\ \A i \in DOMAIN mail : \A x \in mail[i] : Announceable(x)

\* A step leaves listed what is listed.
LEMMA StepKeepsListed ==
  ASSUME IInv, [Next]_vars, NEW x, Listed(x)
  PROVE  Listed(x)'
<1>1. PICK e \in events : EventFingerprint(e) = EventFingerprint(x)
  BY DEF Listed
<1>2. PICK f \in events' : EventFingerprint(f) = EventFingerprint(e)
  BY <1>1, StepKeepsEvents
<1>3. EventFingerprint(f) = EventFingerprint(x)
  BY <1>1, <1>2
<1>. QED  BY <1>3 DEF Listed

\* An event of the table may be announced, and so may its line in a digest.
LEMMA EventsAnnounceable ==
  ASSUME IInv, NEW e \in events
  PROVE  Announceable(e)
BY DEF IInv, PublishedWithEvidence, Evident, Announceable, Listed, Said

LEMMA LineAnnounceable ==
  ASSUME NEW e \in EventRows, Announceable(e)
  PROVE  D!Line(e) \in D!Lines /\ Announceable(D!Line(e))
<1>. DEFINE l == D!Line(e)
<1>1. /\ l.title = e.title /\ l.start = e.start /\ l.location = e.location
      /\ l.url = e.url /\ l.source = e.source
  BY DEF D!Line
<1>2. D!Text0 = Text0 /\ D!Origins = Origins
  BY DEF D!Text0, Text0, D!Origins, Origins, D!Sources, Sources
<1>3. l \in D!Lines
  BY <1>2 DEF D!Line, D!Lines, EventRows
<1>. HIDE DEF l
<1>4. EventFingerprint(l) = EventFingerprint(e)
  BY <1>1 DEF EventFingerprint
<1>5. Listed(l) /\ Said(l)
  BY <1>1, <1>4 DEF Announceable, Listed, Said, Says
<1>. QED  BY <1>3, <1>5 DEF Announceable, l

\* A step that leaves the mails alone, and a command with what may be announced.
LEMMA MailInvKept ==
  ASSUME IInv, [Next]_vars, MailInv,
         mail' = mail,
         digests' \in [Digests -> D!DigestStates],
         \A d \in Digests : \A x \in digests'[d].rows \cup digests'[d].content :
           Announceable(x)
  PROVE  MailInv'
<1>1. \A x : Announceable(x) => Announceable(x)'
  BY StepKeepsListed DEF Announceable, Said
<1>. QED  BY <1>1 DEF MailInv

\* A command that ends keeps at most what it has rendered.
LEMMA EndKeeps ==
  ASSUME MailInv, NEW d \in Digests,
         D!Leave(d) \/ \E how \in {"sent", "unchanged"} : D!Exit(d, how)
  PROVE  /\ digests' \in [Digests -> D!DigestStates]
         /\ \A c \in Digests : /\ digests'[c].rows \subseteq digests[c].rows
                               /\ digests'[c].content \subseteq digests[c].content
<1>1. digests \in [Digests -> D!DigestStates]
  BY DEF MailInv
<1>2. PICK s \in D!DigestStates :
        s.rows = {} /\ s.content \subseteq digests[d].content
        /\ digests' = [digests EXCEPT ![d] = s]
  <2>1. CASE D!Leave(d)
    <3>1. D!NoDigest \in D!DigestStates /\ D!NoDigest.rows = {} /\ D!NoDigest.content = {}
      BY DEF D!NoDigest, D!DigestStates
    <3>. QED  BY <2>1, <3>1 DEF D!Leave
  <2>2. ASSUME NEW how \in {"sent", "unchanged"}, D!Exit(d, how)
        PROVE  \E s \in D!DigestStates :
                 s.rows = {} /\ s.content \subseteq digests[d].content
                 /\ digests' = [digests EXCEPT ![d] = s]
    <3>. DEFINE s == [D!NoDigest EXCEPT !.content = digests[d].content, !.exit = how]
    <3>1. s \in D!DigestStates /\ s.rows = {} /\ s.content = digests[d].content
      BY <1>1, <2>2 DEF D!NoDigest, D!DigestStates
    <3>. QED  BY <2>2, <3>1 DEF D!Exit
  <2>. QED  BY <2>1, <2>2
<1>. QED  BY <1>1, <1>2

\* Every step of a command keeps the invariant.
LEMMA CommandMailInv ==
  ASSUME IInv, [Next]_vars, MailInv, NEW d \in Digests, D!DigestNext(d)
  PROVE  MailInv'
<1>0. /\ digests \in [Digests -> D!DigestStates]
      /\ mail \in Seq(SUBSET D!Lines)
      /\ digests[d].rows \subseteq EventRows
      /\ digests[d].content \subseteq D!Lines
      /\ \A x \in digests[d].rows \cup digests[d].content : Announceable(x)
  BY SameStore DEF MailInv, D!DigestStates
<1>1. ASSUME D!Leave(d) \/ \E how \in {"sent", "unchanged"} : D!Exit(d, how),
             mail' = mail
      PROVE  MailInv'
  BY <1>1, EndKeeps, MailInvKept DEF MailInv
<1>2. ASSUME NEW s \in D!DigestStates, digests' = [digests EXCEPT ![d] = s],
             mail' = mail, \A x \in s.rows \cup s.content : Announceable(x)
      PROVE  MailInv'
  <2>1. /\ digests' \in [Digests -> D!DigestStates]
        /\ \A c \in Digests : \A x \in digests'[c].rows \cup digests'[c].content :
             Announceable(x)
    BY <1>0, <1>2 DEF MailInv
  <2>. QED  BY <1>2, <2>1, MailInvKept
<1>3. CASE D!BeginDigest(d)
  <2>. DEFINE s == [D!NoDigest EXCEPT !.pc = "query"]
  <2>2. s \in D!DigestStates /\ s.rows = {} /\ s.content = {}
    BY DEF D!NoDigest, D!DigestStates
  <2>3. digests' = [digests EXCEPT ![d] = s] /\ mail' = mail
    BY <1>3 DEF D!BeginDigest
  <2>. HIDE DEF s
  <2>. QED  BY <1>2, <2>2, <2>3
<1>4. CASE D!UpcomingEvents(d)
  <2>. DEFINE rows == {e \in events : e.start >= now}
              s == [digests[d] EXCEPT !.pc = "build", !.rows = rows]
  <2>1. CASE digests' = [digests EXCEPT ![d].pc = "build", ![d].rows = rows]
    <3>1. rows \in SUBSET D!EventRows /\ \A x \in rows : Announceable(x)
      BY SameStore, EventsAnnounceable DEF IInv, TypeOK, StoreTypeOK
    <3>. HIDE DEF rows
    <3>2. s \in D!DigestStates /\ s.rows = rows /\ s.content = digests[d].content
      BY <1>0, <3>1 DEF D!DigestStates
    <3>3. digests' = [digests EXCEPT ![d] = s] /\ mail' = mail
      BY <1>0, <1>4, <2>1 DEF D!UpcomingEvents
    <3>. HIDE DEF s
    <3>. QED  BY <1>0, <1>2, <3>1, <3>2, <3>3
  <2>. QED  BY <1>1, <1>4, <2>1 DEF D!UpcomingEvents
<1>5. CASE D!BuildDigest(d)
  <2>. DEFINE upcoming == {e \in digests[d].rows :
                             e.start > now /\ e.start < now + Horizon}
              content == {D!Line(e) : e \in upcoming}
              s == [digests[d] EXCEPT !.pc = "check", !.content = content, !.rows = {}]
  <2>1. digests' = [digests EXCEPT ![d].pc = "check", ![d].content = content,
                                   ![d].rows = {}]
        /\ mail' = mail
    BY <1>5 DEF D!BuildDigest
  <2>2. upcoming \subseteq EventRows /\ \A e \in upcoming : Announceable(e)
    BY <1>0
  <2>. HIDE DEF upcoming
  <2>3. content \in SUBSET D!Lines /\ \A x \in content : Announceable(x)
    BY <2>2, LineAnnounceable
  <2>. HIDE DEF content
  <2>4. s \in D!DigestStates /\ s.rows = {} /\ s.content = content
    BY <1>0, <2>3 DEF D!DigestStates
  <2>5. digests' = [digests EXCEPT ![d] = s]
    BY <1>0, <2>1
  <2>. HIDE DEF s
  <2>. QED  BY <1>0, <1>2, <2>1, <2>3, <2>4, <2>5
<1>6. CASE D!CheckDelivery(d)
  <2>. DEFINE s == [digests[d] EXCEPT !.pc = "send"]
  <2>1. CASE digests' = [digests EXCEPT ![d].pc = "send"]
    <3>1. /\ s \in D!DigestStates
          /\ s.rows = digests[d].rows /\ s.content = digests[d].content
      BY <1>0 DEF D!DigestStates
    <3>2. digests' = [digests EXCEPT ![d] = s] /\ mail' = mail
      BY <1>0, <1>6, <2>1 DEF D!CheckDelivery
    <3>. HIDE DEF s
    <3>. QED  BY <1>0, <1>2, <3>1, <3>2
  <2>. QED  BY <1>1, <1>6, <2>1 DEF D!CheckDelivery
<1>7. ASSUME mail' = Append(mail, digests[d].content),
             digests' \in [Digests -> D!DigestStates],
             \A c \in Digests : /\ digests'[c].rows \subseteq digests[c].rows
                                /\ digests'[c].content \subseteq digests[c].content
      PROVE  MailInv'
  <2>. DEFINE content == digests[d].content
  <2>1. content \in SUBSET D!Lines /\ \A x \in content : Announceable(x)
    BY <1>0
  <2>. HIDE DEF content
  <2>2. /\ mail' \in Seq(SUBSET D!Lines)
        /\ \A i \in DOMAIN mail' : mail'[i] = content \/ (i \in DOMAIN mail /\ mail'[i] = mail[i])
    BY <1>0, <1>7, <2>1 DEF content
  <2>3. \A i \in DOMAIN mail' : \A x \in mail'[i] : Announceable(x)
    BY <2>1, <2>2 DEF MailInv
  <2>4. \A x : Announceable(x) => Announceable(x)'
    BY StepKeepsListed DEF Announceable, Said
  <2>. QED  BY <1>7, <2>2, <2>3, <2>4 DEF MailInv
<1>8. CASE D!SendDigest(d)
  <2>. DEFINE s == [digests[d] EXCEPT !.pc = "mark"]
  <2>1. CASE /\ mail' = Append(mail, digests[d].content)
             /\ digests' = [digests EXCEPT ![d].pc = "mark"]
    <3>1. /\ s \in D!DigestStates
          /\ s.rows = digests[d].rows /\ s.content = digests[d].content
      BY <1>0 DEF D!DigestStates
    <3>2. digests' = [digests EXCEPT ![d] = s]
      BY <1>0, <2>1
    <3>. HIDE DEF s
    <3>3. /\ digests' \in [Digests -> D!DigestStates]
          /\ \A c \in Digests : /\ digests'[c].rows \subseteq digests[c].rows
                                /\ digests'[c].content \subseteq digests[c].content
      BY <1>0, <3>1, <3>2
    <3>. QED  BY <1>7, <2>1, <3>3
  <2>2. CASE mail' = Append(mail, digests[d].content) /\ D!Leave(d)
    BY <1>7, <2>2, EndKeeps
  <2>3. CASE mail' = mail /\ D!Leave(d)
    BY <1>1, <2>3
  <2>. QED  BY <1>8, <2>1, <2>2, <2>3 DEF D!SendDigest
<1>9. CASE D!MarkDelivered(d) \/ D!Kill(d)
  BY <1>1, <1>9 DEF D!MarkDelivered, D!Kill
<1>. QED  BY <1>3, <1>4, <1>5, <1>6, <1>8, <1>9 DEF D!DigestNext

\* Every step keeps the invariant.
LEMMA NextMailInv ==
  IInv /\ MailInv /\ [DeployedNext]_deployedVars => MailInv'
<1>. SUFFICES ASSUME IInv, MailInv, [DeployedNext]_deployedVars
              PROVE  MailInv'
  OBVIOUS
<1>1. [Next]_vars
  BY StepProjects
<1>2. CASE UNCHANGED mailVars
  BY <1>1, <1>2, MailInvKept DEF mailVars, MailInv
<1>3. ASSUME NEW d \in Digests, BeginCommand(d) \/ Command(d) \/ KillCommand(d)
      PROVE  MailInv'
  <2>1. D!DigestNext(d)
    BY <1>3 DEF BeginCommand, Command, KillCommand, D!DigestNext
  <2>. QED  BY <1>1, <2>1, CommandMailInv
<1>. QED  BY <1>2, <1>3 DEF DeployedNext, deployedVars

\* The invariant of the mails holds in every reachable state.
LEMMA MailInvHolds == DeployedSpec => []MailInv
<1>1. DeployedInit => MailInv
  BY DEF DeployedInit, D!Init, MailInv, D!NoDigest, D!DigestStates
<1>. QED  BY <1>1, NextMailInv, DeploymentIsRadar, InvariantHolds, PTL
          DEF DeployedSpec

\* What has been mailed stays in the calendar.
THEOREM MailedListedHolds == DeployedSpec => []MailedIsListed
<1>1. MailInv => MailedIsListed
  BY DEF MailInv, MailedIsListed, Announceable
<1>. QED  BY <1>1, MailInvHolds, PTL

\* What has been mailed of a reviewed candidate is what one answer said.
THEOREM MailedEvidenceHolds == DeployedSpec => []MailedWithEvidence
<1>1. MailInv => MailedWithEvidence
  BY DEF MailInv, MailedWithEvidence, Announceable
<1>. QED  BY <1>1, MailInvHolds, PTL
=============================================================================
