---------------------------- MODULE StoreProofs -----------------------------
(***************************************************************************)
(* What the statements of Store build, preserve and leave alone.           *)
(***************************************************************************)
EXTENDS Store, TLAPS

USE DEF Statuses, Verifications, Sources, Text0, Time0

\* The columns of a re-discovered row have their types.
LEMMA MergeFieldsType ==
  ASSUME NEW old \in FieldMaps, NEW new \in FieldMaps
  PROVE  MergeFields(old, new) \in FieldMaps
BY DEF MergeFields, FieldMaps

\* The empty columns have their types.
LEMMA NoFieldsType == NoFields \in FieldMaps
BY DEF NoFields, FieldMaps, FieldType

\* A column of a row has the column's type.
LEMMA FieldHasType ==
  ASSUME NEW m \in FieldMaps, NEW f \in Fields
  PROVE  m[f] \in FieldType(f)
BY DEF FieldMaps

\* UpsertEvent stores rows of events.
LEMMA UpsertEventType ==
  ASSUME NEW E \in SUBSET EventRows, NEW e \in EventRows
  PROVE  UpsertEvent(E, e) \subseteq EventRows
<1>1. ASSUME NEW r \in SameEvent(E, e)
      PROVE  [e EXCEPT !.uid = r.uid, !.start = r.start] \in EventRows
  BY <1>1 DEF SameEvent, EventRows
<1>. QED  BY <1>1 DEF UpsertEvent

\* UpdateCandidate stores rows of candidates.
LEMMA UpdateCandidateType ==
  ASSUME NEW C \in [Urls -> CandidateRows \cup {None}], NEW u \in Urls,
         NEW c \in CandidateRows
  PROVE  UpdateCandidate(C, u, c) \in [Urls -> CandidateRows \cup {None}]
BY DEF UpdateCandidate, CandidateRows

\* Pruning deletes rows and changes none.
LEMMA PruneCandidatesType ==
  ASSUME NEW C \in [Urls -> CandidateRows \cup {None}], NEW t \in Nat
  PROVE  PruneCandidates(C, t) \in [Urls -> CandidateRows \cup {None}]
BY DEF PruneCandidates

\* The update statement writes the caller's copy, under the table's source.
LEMMA UpdateCandidateWrites ==
  ASSUME NEW C \in [Urls -> CandidateRows \cup {None}], NEW u \in Urls,
         NEW c \in CandidateRows
  PROVE  /\ \A v \in Urls : v # u => UpdateCandidate(C, u, c)[v] = C[v]
         /\ C[u] = None => UpdateCandidate(C, u, c)[u] = None
         /\ C[u] # None =>
              /\ UpdateCandidate(C, u, c)[u] \in CandidateRows
              /\ UpdateCandidate(C, u, c)[u].status = c.status
              /\ UpdateCandidate(C, u, c)[u].verification = c.verification
              /\ UpdateCandidate(C, u, c)[u].fields = c.fields
<1>1. CASE C[u] = None
  BY <1>1 DEF UpdateCandidate
<1>2. CASE C[u] # None
  <2>1. UpdateCandidate(C, u, c)[u] = [c EXCEPT !.source = C[u].source]
    BY <1>2 DEF UpdateCandidate
  <2>2. C[u].source \in Sources
    BY <1>2 DEF CandidateRows
  <2>. QED  BY <1>2, <2>1, <2>2 DEF UpdateCandidate, CandidateRows
<1>. QED  BY <1>1, <1>2

\* No upsert loses an event or its uid, and the upserted event is there.
LEMMA UpsertEventKeeps ==
  ASSUME NEW E \in SUBSET EventRows, NEW e \in EventRows
  PROVE  /\ \A r \in E : \E f \in UpsertEvent(E, e) :
              f.uid = r.uid /\ EventFingerprint(f) = EventFingerprint(r)
         /\ \E f \in UpsertEvent(E, e) :
              EventFingerprint(f) = EventFingerprint(e)
<1>1. CASE SameEvent(E, e) = {}
  BY <1>1 DEF UpsertEvent
<1>2. CASE SameEvent(E, e) # {}
  <2>. DEFINE merged(r) == [e EXCEPT !.uid = r.uid, !.start = r.start]
  <2>1. ASSUME NEW r \in SameEvent(E, e)
        PROVE  /\ merged(r) \in UpsertEvent(E, e)
               /\ merged(r).uid = r.uid
               /\ EventFingerprint(merged(r)) = EventFingerprint(r)
               /\ EventFingerprint(merged(r)) = EventFingerprint(e)
    <3>1. r \in EventRows /\ EventFingerprint(r) = EventFingerprint(e)
      BY DEF SameEvent
    <3>2. r.start = e.start
      BY <3>1 DEF EventFingerprint
    <3>3. /\ merged(r).uid = r.uid
          /\ merged(r).start = e.start
          /\ merged(r).title = e.title
          /\ merged(r).location = e.location
      BY <3>1, <3>2 DEF EventRows
    <3>4. EventFingerprint(merged(r)) = EventFingerprint(e)
      BY <3>3 DEF EventFingerprint
    <3>5. merged(r) \in UpsertEvent(E, e)
      BY <1>2 DEF UpsertEvent
    <3>. QED  BY <3>1, <3>3, <3>4, <3>5
  <2>. HIDE DEF merged
  <2>2. ASSUME NEW r \in E
        PROVE  \E f \in UpsertEvent(E, e) :
                 f.uid = r.uid /\ EventFingerprint(f) = EventFingerprint(r)
    <3>1. CASE r \in SameEvent(E, e)
      BY <2>1, <3>1
    <3>2. CASE r \notin SameEvent(E, e)
      BY <1>2, <3>2 DEF UpsertEvent
    <3>. QED  BY <3>1, <3>2
  <2>3. \E f \in UpsertEvent(E, e) : EventFingerprint(f) = EventFingerprint(e)
    BY <1>2, <2>1
  <2>. QED  BY <2>2, <2>3
<1>. QED  BY <1>1, <1>2
=============================================================================
