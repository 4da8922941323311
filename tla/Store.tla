------------------------------- MODULE Store -------------------------------
(***************************************************************************)
(* The SQLite database behind internal/radar/store.go: the tables that the *)
(* sync pipeline and the review page share, and the SQL statements that    *)
(* write them.  Every statement is one atomic operator on a table; the     *)
(* components decide when it runs and what they do with its error.         *)
(*                                                                         *)
(* Times are whole seconds, the precision in which every timestamp is      *)
(* stored.  "" and the zero time are None.  Columns that no guard reads    *)
(* (snippet, score, description, confidence, last_error, the audit         *)
(* timestamps) are left out.                                               *)
(***************************************************************************)
EXTENDS Integers, FiniteSets

CONSTANTS
  None,             \* the empty column, the missing row
  Text,             \* non-empty strings: titles, venues, quotes, pages
  Fold,             \* strings.ToLower(strings.TrimSpace(_))
  Urls,             \* canonical candidate URLs
  NumSources,       \* configured sources are 1..NumSources, in config order
  FeedIds,          \* iCalendar UIDs, API tokens
  FeedItems,        \* what feeds may list
  Answers,          \* what the verifier may answer about a page
  DefaultDuration,  \* two hours, in seconds of the model
  MaxTime,          \* bound on the clock
  MaxFaults         \* bound on store errors and crashes

VARIABLES
  now,         \* the wall clock
  candidates,  \* table candidates, by URL
  events,      \* table events
  health,      \* table source_health, by source
  faults       \* errors so far

storeVars == <<now, candidates, events, health, faults>>

Text0 == Text \cup {None}
Time0 == Nat \cup {None}
Sources == 1..NumSources
Statuses == {"pending", "approved", "rejected"}
Verifications == {"verified", "failed", "unverified"}

\* The columns a verification fills.  A verified candidate must have the
\* required ones; the end time is optional.
Required == {"event_title", "start_time", "location", "evidence_url",
             "date_evidence", "location_evidence"}
Fields == Required \cup {"end_time"}
FieldType(f) == IF f \in {"start_time", "end_time"} THEN Time0 ELSE Text0
FieldMaps == {m \in [Fields -> Text \cup Nat \cup {None}] :
                \A f \in Fields : m[f] \in FieldType(f)}
NoFields == [f \in Fields |-> None]

CandidateRows == [source : Sources, status : Statuses,
                  verification : Verifications, fields : FieldMaps]

\* Where an event comes from: the source's own name, or "reviewed-" and the
\* name of the source that discovered the candidate.
Origins == {"feed", "reviewed"} \X Sources
UIDs == Origins \X (Urls \cup FeedIds) \X Text0 \X Nat
EventRows == [uid : UIDs, source : Origins, title : Text, location : Text0,
              url : Text0, start : Nat, ends : Nat,
              status : {"CONFIRMED", "TENTATIVE"}, anchor : BOOLEAN]

HealthRows == [enabled : BOOLEAN,
               state : {"healthy", "degraded", "error", "disabled"}]

FeedItemType == [source : Sources, id : FeedIds, title : Text,
                 location : Text0, start : Nat, ends : Time0,
                 status : {"CONFIRMED", "TENTATIVE"}, anchor : BOOLEAN]

ASSUME NoneAssumption == None \notin Text /\ None \notin Nat
ASSUME NoneRowAssumption ==
  /\ None \notin CandidateRows
  /\ None \notin HealthRows
  /\ None # "verified"
ASSUME FoldAssumption == Fold \in [Text0 -> Text0]
ASSUME BoundsAssumption ==
  /\ NumSources \in Nat
  /\ DefaultDuration \in Nat
  /\ MaxTime \in Nat
  /\ MaxFaults \in Nat
ASSUME InputsAssumption ==
  /\ FeedItems \subseteq FeedItemType
  /\ Answers \subseteq FieldMaps

-----------------------------------------------------------------------------
(* Events.                                                                 *)

\* The identity calendar clients see.
EventUID(source, sourceID, title, start) ==
  <<source, sourceID, Fold[title], start>>

\* The identity under which two reports of one event are merged.
EventFingerprint(e) == <<Fold[e.title], e.start, Fold[e.location]>>

SameEvent(E, e) == {r \in E : EventFingerprint(r) = EventFingerprint(e)}

\* A new fingerprint with a stored uid violates the primary key, which no ON
\* CONFLICT clause handles.
UpsertEventFails(E, e) == SameEvent(E, e) = {} /\ \E r \in E : r.uid = e.uid

\* A mutant: the conflict clause takes the new report's uid too.
MutUpsertEventNewUID(E, e) == (E \ SameEvent(E, e)) \cup {e}

\* INSERT ... ON CONFLICT(fingerprint) DO UPDATE: uid and starts_at are not
\* among the updated columns.
UpsertEvent(E, e) ==
  IF SameEvent(E, e) = {}
    THEN E \cup {e}
    ELSE (E \ SameEvent(E, e)) \cup
         {[e EXCEPT !.uid = r.uid, !.start = r.start] : r \in SameEvent(E, e)}

-----------------------------------------------------------------------------
(* Candidates.                                                             *)

\* A mutant: the end is not protected from re-discovery.
MutMergeFieldsEndReplaced(old, new) ==
  [f \in Fields |-> IF f # "end_time" /\ old[f] # None
                      THEN old[f] ELSE new[f]]

\* A mutant: only the dates are protected from re-discovery.
MutMergeFieldsDatesOnly(old, new) ==
  [f \in Fields |-> IF f = "start_time" /\ old[f] # None
                      THEN old[f] ELSE new[f]]

\* CASE WHEN candidates.f = '' THEN excluded.f ELSE candidates.f END.
MergeFields(old, new) ==
  [f \in Fields |-> IF old[f] = None THEN new[f] ELSE old[f]]

\* A mutant: the conflict clause also resets the review status.
MutStatusColumnReset(old) == "pending"

\* A new row is pending; the conflict clause has no status column.
StatusColumn(old) == IF old = None THEN "pending" ELSE old.status

\* A mutant: the empty verification is stored as it is.
MutVerificationColumnEmpty(v) == v

VerificationColumn(v) == IF v = None THEN "unverified" ELSE v

\* Re-discovery refreshes the source and the verification outcome, fills the
\* empty columns and leaves the review status alone.
UpsertCandidate(C, u, c) ==
  [C EXCEPT ![u] =
    [source |-> c.source,
     status |-> StatusColumn(C[u]),
     verification |-> VerificationColumn(c.verification),
     fields |-> IF C[u] = None THEN c.fields
                ELSE MergeFields(C[u].fields, c.fields)]]

\* UPDATE candidates SET ... WHERE url = ?: every column but the discovery
\* ones, from the caller's copy of the row.  A missing row stays missing.
UpdateCandidate(C, u, c) ==
  IF C[u] = None THEN C
  ELSE [C EXCEPT ![u] = [c EXCEPT !.source = C[u].source]]

\* A mutant: a candidate is swept one second early.
MutStaleEarly(c, t) ==
  /\ c # None
  /\ c.status # "approved"
  /\ c.verification = "verified"
  /\ c.fields["start_time"] # None
  /\ c.fields["start_time"] <= t + 1

Stale(c, t) ==
  /\ c # None
  /\ c.status # "approved"
  /\ c.verification = "verified"
  /\ c.fields["start_time"] # None
  /\ c.fields["start_time"] <= t

\* A mutant: only rejected candidates are swept.
MutPruneRejectedOnly(C, t) ==
  [u \in Urls |-> IF Stale(C[u], t) /\ C[u].status = "rejected"
                    THEN None ELSE C[u]]

\* DELETE FROM candidates WHERE ...
PruneCandidates(C, t) == [u \in Urls |-> IF Stale(C[u], t) THEN None ELSE C[u]]

-----------------------------------------------------------------------------
(* The database a fresh installation creates, its errors, and the clock.   *)

StoreInit ==
  /\ now = 0
  /\ candidates = [u \in Urls |-> None]
  /\ events = {}
  /\ health = [s \in Sources |-> None]
  /\ faults = 0

\* A statement fails: the database is locked by the other process, or the
\* caller's context ended.
StoreFault == faults < MaxFaults /\ faults' = faults + 1
StoreOK == faults' = faults

Tick ==
  /\ now < MaxTime
  /\ now' = now + 1
  /\ UNCHANGED <<candidates, events, health, faults>>

StoreTypeOK ==
  /\ now \in Nat
  /\ candidates \in [Urls -> CandidateRows \cup {None}]
  /\ events \subseteq EventRows
  /\ health \in [Sources -> HealthRows \cup {None}]
  /\ faults \in Nat
=============================================================================
