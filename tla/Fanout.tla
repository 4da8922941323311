------------------------------- MODULE Fanout -------------------------------
(***************************************************************************)
(* verifyCandidates of internal/radar/radar.go, goroutine by goroutine: the*)
(* loop over one batch, the semaphore that bounds the verifications in     *)
(* flight and the wait group that ends it.  Sync uses what is checked here:*)
(* once verifyCandidates returns, every undated candidate of the batch has *)
(* its answer and nothing writes to the batch any more.                    *)
(***************************************************************************)
EXTENDS Integers, FiniteSets

CONSTANTS
  MaxFound,                       \* bound on what a source finds
  maxGeminiCandidates,
  geminiVerificationConcurrency

VARIABLES
  batch,      \* indices of the truncated batch
  dated,      \* those that already carry a start time
  index,      \* the loop's index
  sem,        \* tokens in the semaphore's channel
  waitGroup,  \* the wait group's counter
  task,       \* the goroutine of each index
  answered,   \* indices whose candidate the verifier has replaced
  pc          \* the caller: in the loop, waiting, or returned

vars == <<batch, dated, index, sem, waitGroup, task, answered, pc>>

ASSUME FanoutAssumption ==
  /\ MaxFound \in Nat
  /\ maxGeminiCandidates \in Nat
  /\ geminiVerificationConcurrency \in Nat \ {0}

Kept(found) == IF found > maxGeminiCandidates THEN maxGeminiCandidates ELSE found

Init ==
  /\ \E found \in 0..MaxFound : batch = 1..Kept(found)
  /\ dated \in SUBSET batch
  /\ index = 1
  /\ sem = 0
  /\ waitGroup = 0
  /\ task = [i \in batch |-> "none"]
  /\ answered = {}
  /\ pc = "loop"

-----------------------------------------------------------------------------
Skip ==
  /\ pc = "loop"
  /\ index \in dated
  /\ index' = index + 1
  /\ UNCHANGED <<batch, dated, sem, waitGroup, task, answered, pc>>

\* A mutant: the goroutine is not counted.
MutSpawnUncounted ==
  /\ pc = "loop"
  /\ index \in batch \ dated
  /\ sem < geminiVerificationConcurrency
  /\ sem' = sem + 1
  /\ task' = [task EXCEPT ![index] = "verify"]
  /\ index' = index + 1
  /\ UNCHANGED <<batch, dated, waitGroup, answered, pc>>

\* sem <- struct{}{} blocks while the channel is full.
Spawn ==
  /\ pc = "loop"
  /\ index \in batch \ dated
  /\ sem < geminiVerificationConcurrency
  /\ sem' = sem + 1
  /\ waitGroup' = waitGroup + 1
  /\ task' = [task EXCEPT ![index] = "verify"]
  /\ index' = index + 1
  /\ UNCHANGED <<batch, dated, answered, pc>>

\* verifier.VerifyCandidate returns, with success or without: its timeout
\* bounds it either way.
Answer(i) ==
  /\ task[i] = "verify"
  /\ answered' = answered \cup {i}
  /\ task' = [task EXCEPT ![i] = "release"]
  /\ UNCHANGED <<batch, dated, index, sem, waitGroup, pc>>

\* A mutant: the token is not given back.
MutReleaseKeeps(i) ==
  /\ task[i] = "release"
  /\ task' = [task EXCEPT ![i] = "finish"]
  /\ UNCHANGED <<batch, dated, index, sem, waitGroup, answered, pc>>

\* A mutant: the token is given back twice.
MutReleaseTwice(i) ==
  /\ task[i] = "release"
  /\ sem' = IF sem > 1 THEN sem - 2 ELSE 0
  /\ task' = [task EXCEPT ![i] = "finish"]
  /\ UNCHANGED <<batch, dated, index, waitGroup, answered, pc>>

\* The deferred calls run last in, first out: <-sem, then Done.
Release(i) ==
  /\ task[i] = "release"
  /\ sem' = sem - 1
  /\ task' = [task EXCEPT ![i] = "finish"]
  /\ UNCHANGED <<batch, dated, index, waitGroup, answered, pc>>

Done(i) ==
  /\ task[i] = "finish"
  /\ waitGroup' = waitGroup - 1
  /\ task' = [task EXCEPT ![i] = "done"]
  /\ UNCHANGED <<batch, dated, index, sem, answered, pc>>

EndLoop ==
  /\ pc = "loop"
  /\ index \notin batch
  /\ pc' = "wait"
  /\ UNCHANGED <<batch, dated, index, sem, waitGroup, task, answered>>

\* A mutant: the caller waits for the tokens instead of the wait group.
MutReturnEarly ==
  /\ pc = "wait"
  /\ sem = 0
  /\ pc' = "returned"
  /\ UNCHANGED <<batch, dated, index, sem, waitGroup, task, answered>>

\* waitGroup.Wait() returns at zero.
Return ==
  /\ pc = "wait"
  /\ waitGroup = 0
  /\ pc' = "returned"
  /\ UNCHANGED <<batch, dated, index, sem, waitGroup, task, answered>>

Caller == Skip \/ Spawn \/ EndLoop \/ Return
Goroutine(i) == Answer(i) \/ Release(i) \/ Done(i)

Next == Caller \/ \E i \in batch : Goroutine(i)

\* The Go scheduler runs every goroutine that can run.  The batch is chosen
\* by Init, so the quantifier ranges over every index it may have.
Fairness ==
  /\ WF_vars(Caller)
  /\ \A i \in 1..maxGeminiCandidates : WF_vars(i \in batch /\ Goroutine(i))

Spec == Init /\ [][Next]_vars /\ Fairness

-----------------------------------------------------------------------------
States == {"none", "verify", "release", "finish", "done"}

TypeOK ==
  /\ batch \in SUBSET (1..maxGeminiCandidates)
  /\ dated \in SUBSET batch
  /\ index \in 1..(maxGeminiCandidates + 1)
  /\ sem \in 0..geminiVerificationConcurrency
  /\ waitGroup \in Nat
  /\ task \in [batch -> States]
  /\ answered \in SUBSET batch
  /\ pc \in {"loop", "wait", "returned"}

Holding == {i \in batch : task[i] \in {"verify", "release"}}
Counted == {i \in batch : task[i] \in {"verify", "release", "finish"}}

\* The inductive invariant: every token belongs to one goroutine that has not
\* released it and every count of the wait group to one that is not done, and
\* the loop has spawned a goroutine for exactly the undated indices behind it.
FanoutInv ==
  /\ TypeOK
  /\ \E n \in 0..maxGeminiCandidates : batch = 1..n /\ index \in 1..(n + 1)
  /\ sem = Cardinality(Holding)
  /\ waitGroup = Cardinality(Counted)
  /\ \A i \in batch : task[i] = "none" <=> (i >= index \/ i \in dated)
  /\ answered = {i \in batch : task[i] \in {"release", "finish", "done"}}
  /\ pc # "loop" => index \notin batch
  /\ pc = "returned" => waitGroup = 0

InFlight == {i \in batch : task[i] = "verify"}

\* At most geminiVerificationConcurrency requests to the verifier are in
\* flight, whatever order the goroutines run in.
ConcurrencyBounded == Cardinality(InFlight) <= geminiVerificationConcurrency

\* When verifyCandidates returns, the undated candidates and only they have
\* their answers, and no goroutine is left that could still write.
ReturnedComplete ==
  pc = "returned" =>
    /\ answered = batch \ dated
    /\ \A i \in batch : task[i] = IF i \in dated THEN "none" ELSE "done"

\* The semaphore and the wait group never block each other for ever.
Returns == <>(pc = "returned")
=============================================================================
