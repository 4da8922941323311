---------------------------- MODULE FanoutProofs ----------------------------
(***************************************************************************)
(* Proofs about Fanout, for batches, caps and semaphores of every size.    *)
(***************************************************************************)
EXTENDS Fanout, FiniteSetTheorems, TLAPS

\* The sets of goroutines that the counters count are finite.
LEMMA CountersFinite ==
  ASSUME TypeOK
  PROVE  /\ IsFiniteSet(batch) /\ IsFiniteSet(Holding) /\ IsFiniteSet(Counted)
         /\ IsFiniteSet(InFlight)
         /\ Cardinality(Holding) \in Nat /\ Cardinality(Counted) \in Nat
         /\ Cardinality(InFlight) \in Nat
<1>1. IsFiniteSet(1..maxGeminiCandidates)
  BY FS_Interval, FanoutAssumption
<1>2. IsFiniteSet(batch)
  BY <1>1, FS_Subset DEF TypeOK
<1>3. Holding \in SUBSET batch /\ Counted \in SUBSET batch /\ InFlight \in SUBSET batch
  BY DEF Holding, Counted, InFlight
<1>4. IsFiniteSet(Holding) /\ IsFiniteSet(Counted) /\ IsFiniteSet(InFlight)
  BY <1>2, <1>3, FS_Subset
<1>. QED  BY <1>2, <1>4, FS_CardinalityType

\* The initial state satisfies the inductive invariant.
LEMMA InitInv == Init => FanoutInv
<1>. SUFFICES ASSUME Init PROVE FanoutInv
  OBVIOUS
<1>1. PICK found \in 0..MaxFound : batch = 1..Kept(found)
  BY DEF Init
<1>2. Kept(found) \in 0..maxGeminiCandidates
  BY FanoutAssumption DEF Kept
<1>3. Holding = {} /\ Counted = {}
  BY DEF Init, Holding, Counted
<1>4. TypeOK
  <2>1. batch \in SUBSET (1..maxGeminiCandidates)
    BY <1>1, <1>2, FanoutAssumption
  <2>2. index \in 1..(maxGeminiCandidates + 1)
        /\ sem \in 0..geminiVerificationConcurrency
    BY FanoutAssumption DEF Init
  <2>. QED  BY <2>1, <2>2 DEF Init, TypeOK, States
<1>. QED  BY <1>1, <1>2, <1>3, <1>4, FS_EmptySet DEF Init, FanoutInv

\* A goroutine that starts takes a token and a count of its own.
LEMMA SpawnInv == ASSUME FanoutInv, Spawn PROVE FanoutInv'
<1>1. index \in batch \ dated /\ task[index] = "none"
  BY DEF Spawn, FanoutInv
<1>2. TypeOK /\ \A i \in batch : task'[i] = IF i = index THEN "verify" ELSE task[i]
  BY DEF FanoutInv, TypeOK, Spawn
<1>3. Holding' = Holding \cup {index} /\ index \notin Holding
  BY <1>1, <1>2 DEF Holding, Spawn
<1>4. Counted' = Counted \cup {index} /\ index \notin Counted
  BY <1>1, <1>2 DEF Counted, Spawn
<1>5. Cardinality(Holding') = sem' /\ Cardinality(Counted') = waitGroup'
  BY <1>2, <1>3, <1>4, CountersFinite, FS_AddElement DEF FanoutInv, Spawn
<1>6. TypeOK'
  BY <1>1, <1>2, FanoutAssumption DEF FanoutInv, TypeOK, Spawn, States
<1>7. \E n \in 0..maxGeminiCandidates : batch' = 1..n /\ index' \in 1..(n + 1)
  BY <1>1 DEF FanoutInv, Spawn
<1>8. \A i \in batch' : task'[i] = "none" <=> (i >= index' \/ i \in dated')
  <2>1. ASSUME NEW i \in batch
        PROVE  task'[i] = "none" <=> (i >= index + 1 \/ i \in dated)
    BY <1>1, <1>2, <2>1, FanoutAssumption DEF FanoutInv, TypeOK
  <2>. QED  BY <2>1 DEF Spawn
<1>9. answered' = {i \in batch' : task'[i] \in {"release", "finish", "done"}}
  BY <1>1, <1>2 DEF FanoutInv, Spawn
<1>. QED  BY <1>5, <1>6, <1>7, <1>8, <1>9 DEF FanoutInv, Spawn

\* The caller's other steps.
LEMMA CallerInv ==
  ASSUME FanoutInv, Skip \/ EndLoop \/ Return PROVE FanoutInv'
<1>1. UNCHANGED <<batch, dated, sem, waitGroup, task, answered>>
  BY DEF Skip, EndLoop, Return
<1>2. Holding' = Holding /\ Counted' = Counted
  BY <1>1 DEF Holding, Counted
<1>3. CASE Skip
  <2>1. \E n \in 0..maxGeminiCandidates : batch' = 1..n /\ index' \in 1..(n + 1)
    BY <1>3 DEF FanoutInv, TypeOK, Skip
  <2>2. TypeOK'
    BY <1>3, FanoutAssumption DEF FanoutInv, TypeOK, Skip
  <2>3. \A i \in batch' : task'[i] = "none" <=> (i >= index' \/ i \in dated')
    BY <1>3, FanoutAssumption DEF FanoutInv, TypeOK, Skip
  <2>. QED  BY <1>1, <1>2, <1>3, <2>1, <2>2, <2>3 DEF FanoutInv, Skip
<1>4. CASE EndLoop \/ Return
  BY <1>1, <1>2, <1>4 DEF FanoutInv, TypeOK, EndLoop, Return
<1>. QED  BY <1>3, <1>4

\* A goroutine's steps: it gives back what it holds, once.
LEMMA GoroutineInv ==
  ASSUME FanoutInv, NEW i \in batch, Goroutine(i) PROVE FanoutInv'
<1>0. /\ TypeOK
      /\ UNCHANGED <<batch, dated, index, pc>>
      /\ task[i] # "none" /\ task'[i] # "none"
      /\ \A j \in batch : j # i => task'[j] = task[j]
      /\ pc # "returned"
  <2>1. TypeOK /\ i \in Counted
    BY DEF FanoutInv, Goroutine, Answer, Release, Done, Counted
  <2>2. waitGroup # 0
    BY <2>1, CountersFinite, FS_EmptySet DEF FanoutInv
  <2>. QED  BY <2>1, <2>2 DEF FanoutInv, TypeOK, Goroutine, Answer, Release, Done
<1>1. \A j \in batch' : task'[j] = "none" <=> (j >= index' \/ j \in dated')
  BY <1>0 DEF FanoutInv
<1>2. CASE Answer(i)
  <2>1. Holding' = Holding /\ Counted' = Counted
    BY <1>0, <1>2 DEF Answer, Holding, Counted, TypeOK
  <2>2. answered' = {j \in batch' : task'[j] \in {"release", "finish", "done"}}
    BY <1>0, <1>2 DEF Answer, FanoutInv, TypeOK
  <2>3. TypeOK'
    BY <1>0, <1>2 DEF Answer, TypeOK, States
  <2>. QED  BY <1>0, <1>1, <1>2, <2>1, <2>2, <2>3 DEF FanoutInv, Answer
<1>3. CASE Release(i)
  <2>1. Holding' = Holding \ {i} /\ i \in Holding /\ Counted' = Counted
    BY <1>0, <1>3 DEF Release, Holding, Counted, TypeOK
  <2>2. sem' = Cardinality(Holding')
    BY <1>0, <1>3, <2>1, CountersFinite, FS_RemoveElement DEF FanoutInv, Release
  <2>3. answered' = {j \in batch' : task'[j] \in {"release", "finish", "done"}}
    BY <1>0, <1>3 DEF Release, FanoutInv, TypeOK
  <2>4. IsFiniteSet(Holding')
    BY <1>0, <2>1, CountersFinite, FS_RemoveElement
  <2>5. sem' \in Nat
    BY <2>2, <2>4, FS_CardinalityType
  <2>6. TypeOK'
    BY <1>0, <1>3, <2>5, FanoutAssumption DEF Release, TypeOK, States
  <2>. QED  BY <1>0, <1>1, <1>3, <2>1, <2>2, <2>3, <2>6 DEF FanoutInv, Release
<1>4. CASE Done(i)
  <2>1. Counted' = Counted \ {i} /\ i \in Counted /\ Holding' = Holding
    BY <1>0, <1>4 DEF Done, Holding, Counted, TypeOK
  <2>2. waitGroup' = Cardinality(Counted')
    BY <1>0, <1>4, <2>1, CountersFinite, FS_RemoveElement DEF FanoutInv, Done
  <2>3. answered' = {j \in batch' : task'[j] \in {"release", "finish", "done"}}
    BY <1>0, <1>4 DEF Done, FanoutInv, TypeOK
  <2>4. IsFiniteSet(Counted')
    BY <1>0, <2>1, CountersFinite, FS_RemoveElement
  <2>5. waitGroup' \in Nat
    BY <2>2, <2>4, FS_CardinalityType
  <2>6. TypeOK'
    BY <1>0, <1>4, <2>5 DEF Done, TypeOK, States
  <2>. QED  BY <1>0, <1>1, <1>4, <2>1, <2>2, <2>3, <2>6 DEF FanoutInv, Done
<1>. QED  BY <1>2, <1>3, <1>4 DEF Goroutine

\* Every step preserves the inductive invariant.
LEMMA NextInv == FanoutInv /\ [Next]_vars => FanoutInv'
<1>. SUFFICES ASSUME FanoutInv, [Next]_vars PROVE FanoutInv'
  OBVIOUS
<1>1. CASE UNCHANGED vars
  BY <1>1 DEF vars, FanoutInv, TypeOK, Holding, Counted
<1>. QED  BY <1>1, SpawnInv, CallerInv, GoroutineInv DEF Next, Caller

\* Tokens and counts are always in the right hands.
THEOREM FanoutInvariant == Spec => []FanoutInv
BY InitInv, NextInv, PTL DEF Spec

\* Never more verifications in flight than the semaphore admits.
THEOREM FanoutBounded == Spec => []ConcurrencyBounded
<1>1. ASSUME FanoutInv PROVE ConcurrencyBounded
  <2>1. TypeOK /\ InFlight \in SUBSET Holding
    BY <1>1 DEF FanoutInv, InFlight, Holding
  <2>2. Cardinality(InFlight) <= Cardinality(Holding)
    BY <2>1, CountersFinite, FS_Subset
  <2>. QED  BY <1>1, <2>1, <2>2, CountersFinite, FanoutAssumption
            DEF FanoutInv, TypeOK, ConcurrencyBounded
<1>. QED  BY <1>1, FanoutInvariant, PTL

\* verifyCandidates never returns with an answer missing or a writer left.
THEOREM FanoutComplete == Spec => []ReturnedComplete
<1>1. ASSUME FanoutInv PROVE ReturnedComplete
  <2>. SUFFICES ASSUME pc = "returned"
                PROVE  /\ answered = batch \ dated
                       /\ \A i \in batch :
                            task[i] = IF i \in dated THEN "none" ELSE "done"
    BY DEF ReturnedComplete
  <2>1. Counted = {}
    BY <1>1, CountersFinite, FS_EmptySet DEF FanoutInv
  <2>2. \A i \in batch : i < index
    BY <1>1 DEF FanoutInv
  <2>3. ASSUME NEW i \in batch
        PROVE  task[i] = IF i \in dated THEN "none" ELSE "done"
    <3>1. task[i] \in {"none", "done"}
      BY <1>1, <2>1 DEF Counted, FanoutInv, TypeOK, States
    <3>2. task[i] = "none" <=> i \in dated
      BY <1>1, <2>2, FanoutAssumption DEF FanoutInv, TypeOK
    <3>. QED  BY <3>1, <3>2
  <2>. QED  BY <1>1, <2>3 DEF FanoutInv
<1>. QED  BY <1>1, FanoutInvariant, PTL
=============================================================================
