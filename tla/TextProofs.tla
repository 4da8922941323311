----------------------------- MODULE TextProofs -----------------------------
(***************************************************************************)
(* What the recursive functions of Feed compute, for sequences of any      *)
(* length: filtering, concatenation, unfolding, and that reading undoes    *)
(* writing for every text.                                                 *)
(*                                                                         *)
(* Each function is met by a function that a lemma constructs step by      *)
(* step; facts about one element more follow from there, and facts about   *)
(* all sequences by induction, which is stated for sets of numbers.        *)
(***************************************************************************)
EXTENDS Feed, TLAPS, SequenceTheorems, WellFoundedInduction

-----------------------------------------------------------------------------
(* Induction and recursion.                                                *)

\* A set of numbers has a least one.
LEMMA LeastNumber ==
  ASSUME NEW S \in SUBSET Nat, S # {}
  PROVE  \E n \in S : \A m \in S : n <= m
<1>1. PICK n \in S : \A m \in S : <<m, n>> \notin OpToRel(<, Nat)
  BY WFMin, NatLessThanWellFounded
<1>2. ASSUME NEW m \in S, ~(n <= m) PROVE FALSE
  <2>1. <<m, n>> \in OpToRel(<, Nat)
    <3>1. m < n /\ m \in Nat /\ n \in Nat
      BY <1>2
    <3>. QED  BY <3>1 DEF OpToRel
  <2>. QED  BY <1>1, <2>1
<1>. QED  BY <1>2

\* A set of numbers with 0 and every successor has all of them.
LEMMA Induction ==
  ASSUME NEW S, 0 \in S, \A n \in Nat : n \in S => n + 1 \in S
  PROVE  \A n \in Nat : n \in S
<1>. SUFFICES ASSUME Nat \ S # {} PROVE FALSE
  OBVIOUS
<1>1. PICK n \in Nat \ S : \A m \in Nat \ S : n <= m
  BY LeastNumber
<1>2. n # 0 /\ n - 1 \in Nat /\ ~(n <= n - 1)
  BY <1>1
<1>3. n - 1 \in S
  BY <1>1, <1>2
<1>. QED  BY <1>1, <1>2, <1>3

\* f starts with c and goes on as step says, n times.
Runs(f, V, c, step, n) ==
  /\ f \in [0..n -> V]
  /\ f[0] = c
  /\ \A i \in 1..n : f[i] = step[i][f[i - 1]]

\* A function is built step by step.
LEMMA Recursion ==
  ASSUME NEW V, NEW c \in V, NEW step \in [Nat -> [V -> V]], NEW n \in Nat
  PROVE  \E f : Runs(f, V, c, step, n)
<1> DEFINE S == {k \in Nat : \E f : Runs(f, V, c, step, k)}
<1>1. 0 \in S
  <2>1. Runs([i \in 0..0 |-> c], V, c, step, 0)
    BY DEF Runs
  <2>. QED  BY <2>1
<1>2. ASSUME NEW k \in Nat, k \in S PROVE k + 1 \in S
  <2>1. PICK f : Runs(f, V, c, step, k)
    BY <1>2
  <2> DEFINE g == [i \in 0..(k + 1) |-> IF i = k + 1 THEN step[k + 1][f[k]] ELSE f[i]]
  <2>2. g \in [0..(k + 1) -> V]
    BY <2>1 DEF Runs
  <2>3. g[0] = c
    BY <2>1 DEF Runs
  <2>4. ASSUME NEW i \in 1..(k + 1) PROVE g[i] = step[i][g[i - 1]]
    <3>1. CASE i = k + 1
      BY <3>1
    <3>2. CASE i # k + 1
      BY <2>1, <3>2 DEF Runs
    <3>. QED  BY <3>1, <3>2
  <2>5. Runs(g, V, c, step, k + 1)
    <3>. HIDE DEF g
    <3>. QED  BY <2>2, <2>3, <2>4 DEF Runs
  <2>. QED  BY <2>5
<1>3. n \in S
  <2>. HIDE DEF S
  <2>. QED  BY <1>1, <1>2, Induction
<1>. QED  BY <1>3

\* The sequence of no elements, and the one that ends with e.
LEMMA SequenceInduction ==
  ASSUME NEW T, NEW S, <<>> \in S,
         \A s \in Seq(T), e \in T : s \in S => Append(s, e) \in S
  PROVE  \A s \in Seq(T) : s \in S
<1> DEFINE N == {n \in Nat : \A s \in Seq(T) : Len(s) = n => s \in S}
<1>1. 0 \in N
  <2>1. \A s \in Seq(T) : Len(s) = 0 => s = <<>>
    OBVIOUS
  <2>. QED  BY <2>1
<1>2. ASSUME NEW n \in Nat, n \in N PROVE n + 1 \in N
  <2>1. ASSUME NEW s \in Seq(T), Len(s) = n + 1 PROVE s \in S
    <3>1. s # <<>>
      BY <2>1
    <3>2. PICK r \in Seq(T), e \in T : s = Append(r, e)
      BY <3>1, SequenceEmptyOrAppend
    <3>3. Len(r) = n
      BY <2>1, <3>2
    <3>. QED  BY <1>2, <3>2, <3>3
  <2>. QED  BY <2>1
<1>3. \A n \in Nat : n \in N
  <2>. HIDE DEF N
  <2>. QED  BY <1>1, <1>2, Induction
<1>. QED  BY <1>3

-----------------------------------------------------------------------------
(* Kept.                                                                   *)

\* f[i] is what is kept of the first i elements.
Keeps(f, s, S, T) ==
  /\ f \in [0..Len(s) -> Seq(T)]
  /\ f[0] = <<>>
  /\ \A i \in 1..Len(s) :
       f[i] = IF s[i] \in S THEN Append(f[i - 1], s[i]) ELSE f[i - 1]

\* Whatever meets the equations of Kept is what it computes.
LEMMA KeptIs ==
  ASSUME NEW T, NEW s \in Seq(T), NEW S, NEW f, Keeps(f, s, S, T)
  PROVE  Kept(s, S) = f[Len(s)]
<1> DEFINE Body(g, i) ==
             IF i = 0 THEN <<>>
             ELSE IF s[i] \in S THEN Append(g[i - 1], s[i]) ELSE g[i - 1]
           g == CHOOSE g : g = [i \in 0..Len(s) |-> Body(g, i)]
<1>1. f = [i \in 0..Len(s) |-> Body(f, i)]
  <2>1. Len(s) \in Nat /\ \A i \in 0..Len(s) : i # 0 => i \in 1..Len(s)
    OBVIOUS
  <2>2. \A i \in 0..Len(s) : f[i] = Body(f, i)
    BY <2>1 DEF Keeps
  <2>. HIDE DEF Body
  <2>. QED  BY <2>2 DEF Keeps
<1>2. g = [i \in 0..Len(s) |-> Body(g, i)]
  <2>. HIDE DEF Body
  <2>. QED  BY <1>1
<1>3. Kept(s, S) = g[Len(s)]
  BY DEF Kept
<1> HIDE DEF g
<1> DEFINE N == {n \in Nat : n <= Len(s) => g[n] = f[n]}
<1>4. 0 \in N
  BY <1>1, <1>2
<1>5. ASSUME NEW n \in Nat, n \in N PROVE n + 1 \in N
  <2>. SUFFICES ASSUME n + 1 <= Len(s) PROVE g[n + 1] = f[n + 1]
    OBVIOUS
  <2>1. n + 1 \in 0..Len(s) /\ n + 1 # 0 /\ (n + 1) - 1 = n
    OBVIOUS
  <2>2. g[n] = f[n]
    BY <1>5
  <2>3. Body(g, n + 1) = Body(f, n + 1)
    BY <2>1, <2>2
  <2>. HIDE DEF Body
  <2>. QED  BY <1>1, <1>2, <2>1, <2>3
<1>6. \A n \in Nat : n \in N
  <2>. HIDE DEF N
  <2>. QED  BY <1>4, <1>5, Induction
<1>. QED  BY <1>3, <1>6

\* Such a function exists.
LEMMA KeptHas ==
  ASSUME NEW T, NEW s \in Seq(T), NEW S
  PROVE  \E f : Keeps(f, s, S, T)
<1> DEFINE step == [i \in Nat |-> [v \in Seq(T) |->
                     IF i \in 1..Len(s) /\ s[i] \in S THEN Append(v, s[i]) ELSE v]]
<1>1. step \in [Nat -> [Seq(T) -> Seq(T)]]
  OBVIOUS
<1>2. PICK f : Runs(f, Seq(T), <<>>, step, Len(s))
  <2>1. <<>> \in Seq(T) /\ Len(s) \in Nat
    OBVIOUS
  <2>. HIDE DEF step
  <2>. QED  BY <1>1, <2>1, Recursion
<1>3. ASSUME NEW i \in 1..Len(s)
      PROVE  f[i] = IF s[i] \in S THEN Append(f[i - 1], s[i]) ELSE f[i - 1]
  <2>1. f[i - 1] \in Seq(T) /\ i \in Nat
    BY <1>2 DEF Runs
  <2>. QED  BY <1>2, <2>1 DEF Runs
<1>4. Keeps(f, s, S, T)
  <2>. HIDE DEF step
  <2>. QED  BY <1>2, <1>3 DEF Keeps, Runs
<1>. QED  BY <1>4

\* Nothing of nothing.
LEMMA KeptEmpty == ASSUME NEW S PROVE Kept(<<>>, S) = <<>>
<1> DEFINE s == <<>>
           f == [i \in 0..0 |-> <<>>]
<1>1. Keeps(f, s, S, {}) /\ s \in Seq({}) /\ Len(s) = 0 /\ f[0] = <<>>
  BY DEF Keeps
<1>. HIDE DEF f, s
<1>2. Kept(s, S) = <<>>
  BY <1>1, KeptIs
<1>. QED  BY <1>2 DEF s

\* One element more is kept or not.
LEMMA KeptAppend ==
  ASSUME NEW T, NEW s \in Seq(T), NEW e \in T, NEW S
  PROVE  /\ Kept(s, S) \in Seq(T)
         /\ Kept(Append(s, e), S) =
              IF e \in S THEN Append(Kept(s, S), e) ELSE Kept(s, S)
<1>1. PICK f : Keeps(f, s, S, T)
  BY KeptHas
<1> DEFINE n == Len(s)
           t == Append(s, e)
           new == IF e \in S THEN Append(f[n], e) ELSE f[n]
           g == [i \in 0..(n + 1) |-> IF i = n + 1 THEN new ELSE f[i]]
<1>2. /\ t \in Seq(T) /\ Len(t) = n + 1 /\ n \in Nat /\ t[n + 1] = e
      /\ \A i \in 1..n : t[i] = s[i]
  OBVIOUS
<1>. HIDE DEF t
<1>3. new \in Seq(T) /\ f[n] \in Seq(T)
  BY <1>1, <1>2 DEF Keeps
<1>4. g \in [0..(n + 1) -> Seq(T)] /\ g[0] = <<>> /\ g[n + 1] = new
  BY <1>1, <1>2, <1>3 DEF Keeps
<1>5. ASSUME NEW i \in 1..(n + 1)
      PROVE  g[i] = IF t[i] \in S THEN Append(g[i - 1], t[i]) ELSE g[i - 1]
  <2>1. CASE i = n + 1
    <3>1. g[i - 1] = f[n]
      BY <1>2, <2>1
    <3>. QED  BY <1>2, <1>4, <2>1, <3>1
  <2>2. CASE i # n + 1
    <3>1. i \in 1..n /\ g[i] = f[i] /\ g[i - 1] = f[i - 1]
      BY <1>2, <2>2
    <3>. QED  BY <1>1, <1>2, <3>1 DEF Keeps
  <2>. QED  BY <2>1, <2>2
<1>6. Kept(s, S) = f[n]
  BY <1>1, KeptIs
<1>. HIDE DEF g, new
<1>7. Keeps(g, t, S, T)
  BY <1>2, <1>4, <1>5 DEF Keeps
<1>8. Kept(t, S) = g[n + 1]
  BY <1>2, <1>7, KeptIs
<1>. QED  BY <1>3, <1>4, <1>6, <1>8 DEF t, new

\* What is kept is a sequence.
LEMMA KeptType ==
  ASSUME NEW T, NEW s \in Seq(T), NEW S
  PROVE  Kept(s, S) \in Seq(T)
<1>1. PICK f : Keeps(f, s, S, T)
  BY KeptHas
<1>2. Kept(s, S) = f[Len(s)]
  BY <1>1, KeptIs
<1>3. Len(s) \in Nat
  OBVIOUS
<1>. QED  BY <1>1, <1>2, <1>3 DEF Keeps

\* The elements of a sequence and one more.
LEMMA ToSetAppend ==
  ASSUME NEW T, NEW s \in Seq(T), NEW e \in T
  PROVE  ToSet(Append(s, e)) = ToSet(s) \cup {e}
<1>1. /\ Len(s) \in Nat /\ DOMAIN s = 1..Len(s)
      /\ DOMAIN Append(s, e) = 1..(Len(s) + 1)
      /\ Append(s, e)[Len(s) + 1] = e
      /\ \A i \in 1..Len(s) : Append(s, e)[i] = s[i]
  OBVIOUS
<1>2. \A i \in 1..(Len(s) + 1) : i \in 1..Len(s) \/ i = Len(s) + 1
  BY <1>1
<1>. QED  BY <1>1, <1>2 DEF ToSet

\* The elements kept are those in S.
LEMMA KeptElements ==
  ASSUME NEW T, NEW s \in Seq(T), NEW S
  PROVE  ToSet(Kept(s, S)) = ToSet(s) \cap S
<1> DEFINE Q == {r \in Seq(T) : ToSet(Kept(r, S)) = ToSet(r) \cap S}
<1>1. <<>> \in Q
  BY KeptEmpty DEF ToSet
<1>2. ASSUME NEW r \in Seq(T), NEW e \in T, r \in Q PROVE Append(r, e) \in Q
  <2>1. /\ Kept(r, S) \in Seq(T)
        /\ Kept(Append(r, e), S) = IF e \in S THEN Append(Kept(r, S), e) ELSE Kept(r, S)
    BY KeptAppend
  <2>2. ToSet(Kept(r, S)) = ToSet(r) \cap S
    BY <1>2
  <2>3. /\ ToSet(Append(r, e)) = ToSet(r) \cup {e}
        /\ ToSet(Append(Kept(r, S), e)) = ToSet(Kept(r, S)) \cup {e}
    BY <2>1, ToSetAppend
  <2>4. Append(r, e) \in Seq(T)
    OBVIOUS
  <2>. QED  BY <2>1, <2>2, <2>3, <2>4
<1>3. \A r \in Seq(T) : r \in Q
  <2>. HIDE DEF Q
  <2>. QED  BY <1>1, <1>2, SequenceInduction
<1>. QED  BY <1>3

\* Only what is in the sequence counts.
LEMMA KeptSame ==
  ASSUME NEW T, NEW s \in Seq(T), NEW S, NEW R, \A e \in T : e \in S <=> e \in R
  PROVE  Kept(s, S) = Kept(s, R)
<1> DEFINE Q == {r \in Seq(T) : Kept(r, S) = Kept(r, R)}
<1>1. <<>> \in Q
  BY KeptEmpty
<1>2. ASSUME NEW r \in Seq(T), NEW e \in T, r \in Q PROVE Append(r, e) \in Q
  <2>1. /\ Kept(r, S) \in Seq(T)
        /\ Kept(Append(r, e), S) = IF e \in S THEN Append(Kept(r, S), e) ELSE Kept(r, S)
    BY KeptAppend
  <2>2. /\ Kept(r, R) \in Seq(T)
        /\ Kept(Append(r, e), R) = IF e \in R THEN Append(Kept(r, R), e) ELSE Kept(r, R)
    BY KeptAppend
  <2>3. Kept(r, S) = Kept(r, R) /\ Append(r, e) \in Seq(T)
    BY <1>2
  <2>4. e \in S <=> e \in R
    OBVIOUS
  <2>. QED  BY <2>1, <2>2, <2>3, <2>4
<1>3. \A r \in Seq(T) : r \in Q
  <2>. HIDE DEF Q
  <2>. QED  BY <1>1, <1>2, SequenceInduction
<1>. QED  BY <1>3

\* A concatenation that grows at its end.
LEMMA ConcatAppend ==
  ASSUME NEW T, NEW s \in Seq(T), NEW t \in Seq(T), NEW e \in T
  PROVE  s \o Append(t, e) = Append(s \o t, e)
<1>1. <<e>> \in Seq(T) /\ s \o t \in Seq(T)
  OBVIOUS
<1>2. Append(t, e) = t \o <<e>> /\ Append(s \o t, e) = (s \o t) \o <<e>>
  BY <1>1, AppendIsConcat
<1>. QED  BY <1>1, <1>2, ConcatAssociative

\* Parts are filtered one by one.
LEMMA KeptConcat ==
  ASSUME NEW T, NEW s \in Seq(T), NEW t \in Seq(T), NEW S
  PROVE  Kept(s \o t, S) = Kept(s, S) \o Kept(t, S)
<1> DEFINE Q == {r \in Seq(T) : Kept(s \o r, S) = Kept(s, S) \o Kept(r, S)}
<1>1. \A r \in Seq(T) : Kept(r, S) \in Seq(T)
  BY KeptType
<1>0. ASSUME NEW q \in Seq(T), NEW e \in T
      PROVE  /\ Kept(q, S) \in Seq(T)
             /\ Kept(Append(q, e), S) = IF e \in S THEN Append(Kept(q, S), e) ELSE Kept(q, S)
  BY KeptAppend
<1>2. <<>> \in Q
  BY <1>1, KeptEmpty, ConcatEmptySeq
<1>3. ASSUME NEW r \in Seq(T), NEW e \in T, r \in Q PROVE Append(r, e) \in Q
  <2>1. /\ s \o r \in Seq(T) /\ Append(r, e) \in Seq(T)
        /\ s \o Append(r, e) = Append(s \o r, e)
    BY ConcatAppend
  <2>2. /\ Kept(r, S) \in Seq(T)
        /\ Kept(Append(r, e), S) = IF e \in S THEN Append(Kept(r, S), e) ELSE Kept(r, S)
    BY KeptAppend
  <2>5. /\ Kept(s \o r, S) \in Seq(T)
        /\ Kept(Append(s \o r, e), S) =
             IF e \in S THEN Append(Kept(s \o r, S), e) ELSE Kept(s \o r, S)
    BY <1>0, <2>1
  <2>3. Kept(s \o r, S) = Kept(s, S) \o Kept(r, S)
    BY <1>3
  <2>4. Kept(s, S) \o Append(Kept(r, S), e) = Append(Kept(s, S) \o Kept(r, S), e)
    BY <1>1, ConcatAppend
  <2>. QED  BY <2>1, <2>2, <2>3, <2>4, <2>5
<1>4. \A r \in Seq(T) : r \in Q
  <2>. HIDE DEF Q
  <2>. QED  BY <1>2, <1>3, SequenceInduction
<1>. QED  BY <1>4

-----------------------------------------------------------------------------
(* FlattenSeq.                                                             *)

\* f[i] is the concatenation of the first i texts.
Flattens(f, ss, T) ==
  /\ f \in [0..Len(ss) -> Seq(T)]
  /\ f[0] = <<>>
  /\ \A i \in 1..Len(ss) : f[i] = f[i - 1] \o ss[i]

\* Whatever meets the equations of FlattenSeq is what it computes.
LEMMA FlattenIs ==
  ASSUME NEW T, NEW ss \in Seq(Seq(T)), NEW f, Flattens(f, ss, T)
  PROVE  FlattenSeq(ss) = f[Len(ss)]
<1>1. CASE Len(ss) = 0
  BY <1>1 DEF FlattenSeq, Flattens
<1>2. CASE Len(ss) # 0
  <2> DEFINE Body(g, i) == IF i = 1 THEN ss[i] ELSE g[i - 1] \o ss[i]
             g == CHOOSE g : g = [i \in 1..Len(ss) |-> Body(g, i)]
             h == [i \in 1..Len(ss) |-> f[i]]
  <2>1. Len(ss) \in Nat /\ \A i \in 1..Len(ss) : ss[i] \in Seq(T)
    OBVIOUS
  <2>2. ASSUME NEW i \in 1..Len(ss) PROVE f[i] = Body(h, i)
    <3>1. CASE i = 1
      <4>1. f[1] = <<>> \o ss[1]
        <5>1. 1 \in 1..Len(ss) /\ 1 - 1 = 0
          BY <2>1, <3>1
        <5>2. f[1] = f[1 - 1] \o ss[1]
          BY <5>1 DEF Flattens
        <5>. QED  BY <5>1, <5>2 DEF Flattens
      <4>. QED  BY <2>1, <3>1, <4>1, ConcatEmptySeq
    <3>2. CASE i # 1
      <4>1. i - 1 \in 1..Len(ss)
        BY <2>1, <3>2
      <4>. QED  BY <3>2, <4>1 DEF Flattens
    <3>. QED  BY <3>1, <3>2
  <2>3. h = [i \in 1..Len(ss) |-> Body(h, i)]
    <3>. HIDE DEF Body
    <3>. QED  BY <2>2
  <2>4. g = [i \in 1..Len(ss) |-> Body(g, i)]
    <3>. HIDE DEF Body, h
    <3>. QED  BY <2>3
  <2>5. FlattenSeq(ss) = g[Len(ss)]
    BY <1>2 DEF FlattenSeq
  <2> HIDE DEF g, h
  <2> DEFINE N == {n \in Nat : n \in 1..Len(ss) => g[n] = h[n]}
  <2>6. 0 \in N
    OBVIOUS
  <2>7. ASSUME NEW n \in Nat, n \in N PROVE n + 1 \in N
    <3>. SUFFICES ASSUME n + 1 \in 1..Len(ss) PROVE g[n + 1] = h[n + 1]
      OBVIOUS
    <3>1. Body(g, n + 1) = Body(h, n + 1)
      <4>1. CASE n = 0
        BY <4>1
      <4>2. CASE n # 0
        <5>1. n \in 1..Len(ss) /\ (n + 1) - 1 = n
          BY <2>1, <4>2
        <5>2. g[n] = h[n]
          BY <2>7, <5>1
        <5>. QED  BY <4>2, <5>1, <5>2
      <4>. QED  BY <4>1, <4>2
    <3>. HIDE DEF Body
    <3>. QED  BY <2>3, <2>4, <3>1
  <2>8. \A n \in Nat : n \in N
    <3>. HIDE DEF N
    <3>. QED  BY <2>6, <2>7, Induction
  <2>9. Len(ss) \in 1..Len(ss)
    BY <1>2, <2>1
  <2>. QED  BY <2>1, <2>5, <2>8, <2>9 DEF h
<1>. QED  BY <1>1, <1>2

\* Such a function exists.
LEMMA FlattenHas ==
  ASSUME NEW T, NEW ss \in Seq(Seq(T))
  PROVE  \E f : Flattens(f, ss, T)
<1> DEFINE step == [i \in Nat |-> [v \in Seq(T) |->
                     IF i \in 1..Len(ss) THEN v \o ss[i] ELSE v]]
<1>1. step \in [Nat -> [Seq(T) -> Seq(T)]]
  <2>1. \A i \in 1..Len(ss) : ss[i] \in Seq(T)
    OBVIOUS
  <2>2. \A v, w \in Seq(T) : v \o w \in Seq(T)
    OBVIOUS
  <2>. QED  BY <2>1, <2>2
<1>2. PICK f : Runs(f, Seq(T), <<>>, step, Len(ss))
  <2>1. <<>> \in Seq(T) /\ Len(ss) \in Nat
    OBVIOUS
  <2>. HIDE DEF step
  <2>. QED  BY <1>1, <2>1, Recursion
<1>3. ASSUME NEW i \in 1..Len(ss) PROVE f[i] = f[i - 1] \o ss[i]
  <2>1. i - 1 \in 0..Len(ss) /\ i \in Nat
    OBVIOUS
  <2>2. f[i - 1] \in Seq(T)
    <3>. HIDE DEF step
    <3>. QED  BY <1>2, <2>1 DEF Runs
  <2>3. f[i] = step[i][f[i - 1]]
    BY <1>2 DEF Runs
  <2>. QED  BY <2>1, <2>2, <2>3
<1>4. Flattens(f, ss, T)
  <2>. HIDE DEF step
  <2>. QED  BY <1>2, <1>3 DEF Flattens, Runs
<1>. QED  BY <1>4

\* No texts.
LEMMA FlattenEmpty == FlattenSeq(<<>>) = <<>>
BY DEF FlattenSeq

\* One text more.
LEMMA FlattenAppend ==
  ASSUME NEW T, NEW ss \in Seq(Seq(T)), NEW s \in Seq(T)
  PROVE  /\ FlattenSeq(ss) \in Seq(T)
         /\ FlattenSeq(Append(ss, s)) = FlattenSeq(ss) \o s
<1>1. PICK f : Flattens(f, ss, T)
  BY FlattenHas
<1> DEFINE n == Len(ss)
           tt == Append(ss, s)
           new == f[n] \o s
           g == [i \in 0..(n + 1) |-> IF i = n + 1 THEN new ELSE f[i]]
<1>2. /\ tt \in Seq(Seq(T)) /\ Len(tt) = n + 1 /\ n \in Nat /\ tt[n + 1] = s
      /\ \A i \in 1..n : tt[i] = ss[i]
  OBVIOUS
<1>. HIDE DEF tt
<1>3. new \in Seq(T) /\ f[n] \in Seq(T)
  <2>1. n \in 0..n
    BY <1>2
  <2>2. f[n] \in Seq(T)
    BY <1>1, <2>1 DEF Flattens
  <2>. QED  BY <2>2
<1>. HIDE DEF new
<1>4. g \in [0..(n + 1) -> Seq(T)] /\ g[0] = <<>> /\ g[n + 1] = new
  BY <1>1, <1>2, <1>3 DEF Flattens
<1>5. ASSUME NEW i \in 1..(n + 1) PROVE g[i] = g[i - 1] \o tt[i]
  <2>1. CASE i = n + 1
    <3>1. g[i - 1] = f[n]
      BY <1>2, <2>1
    <3>. QED  BY <1>2, <1>4, <2>1, <3>1 DEF new
  <2>2. CASE i # n + 1
    <3>1. i \in 1..n /\ g[i] = f[i] /\ g[i - 1] = f[i - 1]
      BY <1>2, <2>2
    <3>. QED  BY <1>1, <1>2, <3>1 DEF Flattens
  <2>. QED  BY <2>1, <2>2
<1>6. FlattenSeq(ss) = f[n]
  BY <1>1, FlattenIs
<1>. HIDE DEF g
<1>7. Flattens(g, tt, T)
  BY <1>2, <1>4, <1>5 DEF Flattens
<1>8. FlattenSeq(tt) = g[n + 1]
  BY <1>2, <1>7, FlattenIs
<1>. QED  BY <1>3, <1>4, <1>6, <1>8 DEF tt, new

\* A concatenation is a sequence.
LEMMA FlattenType ==
  ASSUME NEW T, NEW ss \in Seq(Seq(T))
  PROVE  FlattenSeq(ss) \in Seq(T)
<1>1. <<>> \in Seq(T)
  OBVIOUS
<1>. QED  BY <1>1, FlattenAppend

-----------------------------------------------------------------------------
(* Escape.                                                                 *)

Text == Seq(Tokens)

\* Texts are put together from either end.
LEMMA TextConcat ==
  /\ <<>> \in Text
  /\ \A a \in Tokens : <<a>> \in Text
  /\ \A a, b \in Tokens : <<a, b>> \in Text /\ <<a, b>> = <<a>> \o <<b>>
  /\ \A s, t \in Text : s \o t \in Text
  /\ \A s \in Text : s \o <<>> = s /\ <<>> \o s = s
  /\ \A s, t, u \in Text : (s \o t) \o u = s \o (t \o u)
<1>1. /\ <<>> \in Text
      /\ \A a \in Tokens : <<a>> \in Text
      /\ \A a, b \in Tokens : <<a, b>> \in Text
      /\ \A s, t \in Text : s \o t \in Text
  BY DEF Text
<1>2. ASSUME NEW a \in Tokens, NEW b \in Tokens PROVE <<a, b>> = <<a>> \o <<b>>
  <2>1. <<a>> \in Seq(Tokens) /\ <<a, b>> = Append(<<a>>, b)
    OBVIOUS
  <2>. QED  BY <2>1, AppendIsConcat
<1>3. \A s \in Text : s \o <<>> = s /\ <<>> \o s = s
  BY ConcatEmptySeq DEF Text
<1>4. \A s, t, u \in Text : (s \o t) \o u = s \o (t \o u)
  BY ConcatAssociative DEF Text
<1>. QED  BY <1>1, <1>2, <1>3, <1>4

\* What one token becomes.
EscapedToken(e, token) ==
  IF e = token THEN <<Backslash, IF token = NewLine THEN "n" ELSE token>> ELSE <<e>>

\* Its texts.
LEMMA EscapedTokenType ==
  ASSUME NEW e \in Tokens, NEW token \in Tokens
  PROVE  EscapedToken(e, token) \in Text
<1>1. \A a, b \in Tokens : <<a>> \in Text /\ <<a, b>> \in Text
  BY DEF Text
<1>2. Backslash \in Tokens /\ "n" \in Tokens
  BY TokensAssumption
<1>. QED  BY <1>1, <1>2 DEF EscapedToken

\* Escaped replaces token by token.
LEMMA EscapedIs ==
  ASSUME NEW s \in Text, NEW token \in Tokens
  PROVE  /\ [i \in DOMAIN s |-> EscapedToken(s[i], token)] \in Seq(Text)
         /\ Escaped(s, token) = FlattenSeq([i \in DOMAIN s |-> EscapedToken(s[i], token)])
<1>1. Len(s) \in Nat /\ DOMAIN s = 1..Len(s) /\ \A i \in 1..Len(s) : s[i] \in Tokens
  BY DEF Text
<1>2. \A i \in 1..Len(s) : EscapedToken(s[i], token) \in Text
  BY <1>1, EscapedTokenType
<1>3. [i \in 1..Len(s) |-> EscapedToken(s[i], token)] \in Seq(Text)
  <2>. HIDE DEF Text
  <2>. DEFINE f == [i \in 1..Len(s) |-> EscapedToken(s[i], token)]
  <2>1. \A i \in 1..Len(s) : f[i] \in Text
    BY <1>2
  <2>2. f = [i \in 1..Len(s) |-> f[i]] /\ Len(s) \in Nat
    BY <1>1
  <2>. HIDE DEF f
  <2>3. f \in Seq(Text)
    BY <2>1, <2>2
  <2>. QED  BY <2>3 DEF f
<1>. QED  BY <1>1, <1>3 DEF Escaped, EscapedToken

\* Nothing to escape.
LEMMA EscapedEmpty ==
  ASSUME NEW token \in Tokens
  PROVE  Escaped(<<>>, token) = <<>>
<1>1. [i \in DOMAIN <<>> |-> EscapedToken(<<>>[i], token)] = <<>>
  OBVIOUS
<1>2. <<>> \in Text
  BY DEF Text
<1>. QED  BY <1>1, <1>2, EscapedIs, FlattenEmpty

\* One token more.
LEMMA EscapedAppend ==
  ASSUME NEW s \in Text, NEW e \in Tokens, NEW token \in Tokens
  PROVE  /\ Escaped(s, token) \in Text
         /\ Escaped(Append(s, e), token) = Escaped(s, token) \o EscapedToken(e, token)
<1> DEFINE t == Append(s, e)
           ss == [i \in DOMAIN s |-> EscapedToken(s[i], token)]
           tt == [i \in DOMAIN t |-> EscapedToken(t[i], token)]
           n == EscapedToken(e, token)
<1>1. /\ Len(s) \in Nat /\ DOMAIN s = 1..Len(s)
      /\ t \in Text /\ DOMAIN t = 1..(Len(s) + 1) /\ t[Len(s) + 1] = e
      /\ \A i \in 1..Len(s) : t[i] = s[i]
  BY DEF Text
<1>2. ss \in Seq(Text) /\ Escaped(s, token) = FlattenSeq(ss)
  BY EscapedIs
<1>3. tt \in Seq(Text) /\ Escaped(t, token) = FlattenSeq(tt)
  <2>. HIDE DEF t
  <2>. QED  BY <1>1, EscapedIs
<1>4. n \in Text
  BY EscapedTokenType
<1>5. tt = Append(ss, n)
  <2>. DEFINE m == Len(s)
  <2>1. /\ DOMAIN ss = 1..m /\ DOMAIN tt = 1..(m + 1) /\ m \in Nat
        /\ tt[m + 1] = n /\ \A i \in 1..m : tt[i] = ss[i]
    <3>. HIDE DEF t
    <3>1. DOMAIN ss = 1..m /\ DOMAIN tt = 1..(m + 1) /\ m \in Nat
      BY <1>1
    <3>2. m + 1 \in 1..(m + 1) /\ \A i \in 1..m : i \in 1..(m + 1)
      BY <3>1
    <3>3. tt[m + 1] = n
      BY <1>1, <3>2
    <3>4. \A i \in 1..m : tt[i] = ss[i]
      BY <1>1, <3>2
    <3>. QED  BY <3>1, <3>3, <3>4
  <2>. HIDE DEF t, ss, tt, n, m
  <2>2. Len(ss) = m /\ Len(tt) = m + 1
    BY <1>2, <1>3, <2>1
  <2>3. /\ Append(ss, n) \in Seq(Text) /\ Len(Append(ss, n)) = m + 1
        /\ Append(ss, n)[m + 1] = n
        /\ \A i \in 1..m : Append(ss, n)[i] = ss[i]
    BY <1>2, <1>4, <2>2, AppendProperties
  <2>4. \A i \in 1..(m + 1) : i \in 1..m \/ i = m + 1
    BY <2>1
  <2>5. \A i \in 1..(m + 1) : tt[i] = Append(ss, n)[i]
    BY <2>1, <2>3, <2>4
  <2>. QED  BY <1>3, <2>2, <2>3, <2>5, SeqEqual
<1>. HIDE DEF t, ss, tt, n
<1>6. FlattenSeq(ss) \in Seq(Tokens) /\ FlattenSeq(Append(ss, n)) = FlattenSeq(ss) \o n
  BY <1>2, <1>4, FlattenAppend DEF Text
<1>. QED  BY <1>2, <1>3, <1>5, <1>6 DEF Text, t, n

\* Every text stays one.
LEMMA EscapedType ==
  ASSUME NEW s \in Text, NEW token \in Tokens
  PROVE  Escaped(s, token) \in Text
BY EscapedAppend

\* Parts are escaped one by one.
LEMMA EscapedConcat ==
  ASSUME NEW s \in Text, NEW t \in Text, NEW token \in Tokens
  PROVE  Escaped(s \o t, token) = Escaped(s, token) \o Escaped(t, token)
<1> DEFINE Q == {r \in Text : Escaped(s \o r, token) = Escaped(s, token) \o Escaped(r, token)}
<1>1. <<>> \in Q
  <2>1. <<>> \in Text /\ Escaped(s, token) \in Text
    <3>1. Escaped(s, token) \in Text
      BY EscapedType
    <3>. QED  BY <3>1 DEF Text
  <2>2. s \o <<>> = s /\ Escaped(s, token) \o <<>> = Escaped(s, token)
    BY <2>1, ConcatEmptySeq DEF Text
  <2>. QED  BY <2>1, <2>2, EscapedEmpty
<1>2. ASSUME NEW r \in Text, NEW e \in Tokens
      PROVE  /\ Escaped(r, token) \in Text
             /\ Escaped(Append(r, e), token) = Escaped(r, token) \o EscapedToken(e, token)
  BY EscapedAppend
<1>3. ASSUME NEW r \in Text, NEW e \in Tokens, r \in Q PROVE Append(r, e) \in Q
  <2> DEFINE E(x) == Escaped(x, token)
             n == EscapedToken(e, token)
  <2>1. s \o r \in Text /\ Append(r, e) \in Text /\ s \o Append(r, e) = Append(s \o r, e)
    <3>1. s \in Seq(Tokens) /\ r \in Seq(Tokens)
      BY DEF Text
    <3>2. s \o Append(r, e) = Append(s \o r, e)
      BY <3>1, ConcatAppend
    <3>. QED  BY <3>1, <3>2 DEF Text
  <2>2. E(Append(s \o r, e)) = E(s \o r) \o n
    BY <1>2, <2>1
  <2>3. E(Append(r, e)) = E(r) \o n
    BY <1>2
  <2>4. E(s \o r) = E(s) \o E(r)
    BY <1>3
  <2>5. E(s) \in Text /\ E(r) \in Text /\ n \in Text
    BY EscapedType, EscapedTokenType
  <2>. HIDE DEF E, n
  <2>6. (E(s) \o E(r)) \o n = E(s) \o (E(r) \o n)
    BY <2>5, TextConcat
  <2>7. E(s \o Append(r, e)) = E(s) \o E(Append(r, e))
    BY <2>1, <2>2, <2>3, <2>4, <2>6
  <2>. QED  BY <2>1, <2>7 DEF E
<1>4. \A r \in Text : r \in Q
  <2>. HIDE DEF Q
  <2>. QED  BY <1>1, <1>3, SequenceInduction DEF Text
<1>. QED  BY <1>4

\* A token of its own.
LEMMA EscapedOne ==
  ASSUME NEW e \in Tokens, NEW token \in Tokens
  PROVE  Escaped(<<e>>, token) = EscapedToken(e, token)
<1>1. <<>> \in Text /\ Append(<<>>, e) = <<e>>
  BY DEF Text
<1>2. Escaped(Append(<<>>, e), token) = Escaped(<<>>, token) \o EscapedToken(e, token)
  BY <1>1, EscapedAppend
<1>3. EscapedToken(e, token) \in Text
  BY EscapedTokenType
<1>. QED  BY <1>1, <1>2, <1>3, EscapedEmpty, TextConcat

\* Two tokens that are not escaped.
LEMMA EscapedTwo ==
  ASSUME NEW a \in Tokens, NEW b \in Tokens, NEW token \in Tokens \ {a, b}
  PROVE  Escaped(<<a, b>>, token) = <<a, b>>
<1>1. <<a>> \in Text /\ <<b>> \in Text /\ <<a, b>> = <<a>> \o <<b>>
  BY TextConcat
<1>2. Escaped(<<a>> \o <<b>>, token) = Escaped(<<a>>, token) \o Escaped(<<b>>, token)
  BY <1>1, EscapedConcat
<1>3. Escaped(<<a>>, token) = <<a>> /\ Escaped(<<b>>, token) = <<b>>
  BY EscapedOne DEF EscapedToken
<1>. QED  BY <1>1, <1>2, <1>3

\* Every text stays one, and parts are escaped one by one.
LEMMA EscapeConcat ==
  ASSUME NEW s \in Text, NEW t \in Text
  PROVE  Escape(s) \in Text /\ Escape(s \o t) = Escape(s) \o Escape(t)
<1>0. {Backslash, NewLine, ";", ","} \subseteq Tokens
  BY TokensAssumption DEF White
<1>1. ASSUME NEW u \in Text, NEW token \in Tokens PROVE Escaped(u, token) \in Text
  BY EscapedType
<1>2. ASSUME NEW u \in Text, NEW v \in Text, NEW token \in Tokens
      PROVE  Escaped(u \o v, token) = Escaped(u, token) \o Escaped(v, token)
  BY EscapedConcat
<1> DEFINE A(u) == Escaped(u, Backslash)
           B(u) == Escaped(A(u), NewLine)
           C(u) == Escaped(B(u), ";")
<1>3. \A u \in Text : A(u) \in Text
  BY <1>0, <1>1
<1>4. \A u \in Text : B(u) \in Text
  BY <1>0, <1>1, <1>3
<1>5. \A u \in Text : C(u) \in Text
  BY <1>0, <1>1, <1>4
<1>6. A(s \o t) = A(s) \o A(t)
  BY <1>0, <1>2
<1>7. B(s \o t) = B(s) \o B(t)
  <2>1. A(s) \in Text /\ A(t) \in Text
    BY <1>3
  <2>. HIDE DEF A
  <2>2. Escaped(A(s) \o A(t), NewLine) = B(s) \o B(t)
    BY <1>0, <1>2, <2>1
  <2>. QED  BY <1>6, <2>2
<1>8. C(s \o t) = C(s) \o C(t)
  <2>1. B(s) \in Text /\ B(t) \in Text
    BY <1>4
  <2>. HIDE DEF B
  <2>2. Escaped(B(s) \o B(t), ";") = C(s) \o C(t)
    BY <1>0, <1>2, <2>1
  <2>. QED  BY <1>7, <2>2
<1>9. /\ Escaped(C(s), ",") \in Text
      /\ Escaped(C(s \o t), ",") = Escaped(C(s), ",") \o Escaped(C(t), ",")
  <2>1. C(s) \in Text /\ C(t) \in Text
    BY <1>5
  <2>. HIDE DEF C
  <2>2. Escaped(C(s) \o C(t), ",") = Escaped(C(s), ",") \o Escaped(C(t), ",")
    BY <1>0, <1>2, <2>1
  <2>. QED  BY <1>0, <1>1, <1>8, <2>1, <2>2
<1>. QED  BY <1>9 DEF Escape

\* The tokens that are escaped, and what stands for them.
Specials == {Backslash, NewLine, ";", ","}
Letter(e) == IF e = NewLine THEN "n" ELSE e

\* One token: the four replacements do not meet.
LEMMA EscapeOne ==
  ASSUME NEW e \in Tokens
  PROVE  Escape(<<e>>) = IF e \in Specials THEN <<Backslash, Letter(e)>> ELSE <<e>>
<1>0. /\ {Backslash, NewLine, ";", ",", "n"} \subseteq Tokens
      /\ Backslash # NewLine /\ Backslash # ";" /\ Backslash # ","
      /\ NewLine # ";" /\ NewLine # "," /\ "n" # ";" /\ "n" # ","
  BY TokensAssumption DEF White, Backslash, NewLine
<1>1. ASSUME NEW token \in Tokens
      PROVE  Escaped(<<e>>, token) = EscapedToken(e, token)
  BY EscapedOne
<1>2. ASSUME NEW b \in Tokens, NEW token \in Tokens, token # Backslash, token # b
      PROVE  Escaped(<<Backslash, b>>, token) = <<Backslash, b>>
  <2>1. token \in Tokens \ {Backslash, b} /\ Backslash \in Tokens
    BY <1>0, <1>2
  <2>. QED  BY <2>1, EscapedTwo
<1>3. CASE e = Backslash
  <2>1. Escaped(<<e>>, Backslash) = <<Backslash, e>>
    BY <1>0, <1>1, <1>3 DEF EscapedToken
  <2>. QED  BY <1>0, <1>2, <1>3, <2>1 DEF Escape, Specials, Letter
<1>4. CASE e = NewLine
  <2>1. Escaped(<<e>>, Backslash) = <<e>> /\ Escaped(<<e>>, NewLine) = <<Backslash, "n">>
    BY <1>0, <1>1, <1>4 DEF EscapedToken
  <2>. QED  BY <1>0, <1>2, <1>4, <2>1 DEF Escape, Specials, Letter
<1>5. CASE e = ";"
  <2>1. /\ Escaped(<<e>>, Backslash) = <<e>> /\ Escaped(<<e>>, NewLine) = <<e>>
        /\ Escaped(<<e>>, ";") = <<Backslash, e>>
    BY <1>0, <1>1, <1>5 DEF EscapedToken
  <2>2. Escaped(<<Backslash, e>>, ",") = <<Backslash, e>>
    BY <1>0, <1>2, <1>5
  <2>. QED  BY <1>0, <1>5, <2>1, <2>2 DEF Escape, Specials, Letter
<1>6. CASE e = ","
  <2>1. /\ Escaped(<<e>>, Backslash) = <<e>> /\ Escaped(<<e>>, NewLine) = <<e>>
        /\ Escaped(<<e>>, ";") = <<e>> /\ Escaped(<<e>>, ",") = <<Backslash, e>>
    BY <1>0, <1>1, <1>6 DEF EscapedToken
  <2>. QED  BY <1>0, <1>6, <2>1 DEF Escape, Specials, Letter
<1>7. CASE e \notin Specials
  <2>1. \A token \in Specials : Escaped(<<e>>, token) = <<e>>
    BY <1>0, <1>1, <1>7 DEF EscapedToken, Specials
  <2>. QED  BY <1>7, <2>1 DEF Escape, Specials
<1>. QED  BY <1>3, <1>4, <1>5, <1>6, <1>7 DEF Specials

-----------------------------------------------------------------------------
(* Unescape.                                                               *)

\* An escape begins at i.
Letters == {"n", "N", ",", ";", Backslash}
EscapeAt(s, i) == i < Len(s) /\ s[i] = Backslash /\ s[i + 1] \in Letters
Stands(b) == IF b \in {"n", "N"} THEN NewLine ELSE b

\* h[i] is what is read from i on.
Unescapes(h, s) ==
  /\ h \in [1..(Len(s) + 1) -> Text]
  /\ h[Len(s) + 1] = <<>>
  /\ \A i \in 1..Len(s) :
       h[i] = IF EscapeAt(s, i) THEN <<Stands(s[i + 1])>> \o h[i + 2]
              ELSE <<s[i]>> \o h[i + 1]

\* Whatever meets the equations of Unescape is what it computes.
LEMMA UnescapeIs ==
  ASSUME NEW s \in Text, NEW h, Unescapes(h, s)
  PROVE  Unescape(s) = h[1]
<1> DEFINE Body(g, i) ==
             IF i > Len(s) THEN <<>>
             ELSE IF /\ i < Len(s)
                     /\ s[i] = Backslash
                     /\ s[i + 1] \in {"n", "N", ",", ";", Backslash}
                  THEN <<IF s[i + 1] \in {"n", "N"} THEN NewLine ELSE s[i + 1]>> \o g[i + 2]
                  ELSE <<s[i]>> \o g[i + 1]
           m == Len(s) + 1
           g == CHOOSE g : g = [i \in 1..m |-> Body(g, i)]
<1>0. Len(s) \in Nat
  BY DEF Text
<1>1. h = [i \in 1..m |-> Body(h, i)]
  <2>1. \A i \in 1..m : h[i] = Body(h, i)
    <3>. SUFFICES ASSUME NEW i \in 1..m PROVE h[i] = Body(h, i)
      OBVIOUS
    <3>1. CASE i = m
      <4>1. i > Len(s)
        BY <1>0, <3>1
      <4>. QED  BY <3>1, <4>1 DEF Unescapes
    <3>2. CASE i # m
      <4>1. i \in 1..Len(s) /\ ~(i > Len(s))
        BY <1>0, <3>2
      <4>. QED  BY <4>1 DEF Unescapes, EscapeAt, Stands, Letters
    <3>. QED  BY <3>1, <3>2
  <2>. HIDE DEF Body
  <2>. QED  BY <2>1 DEF Unescapes
<1>2. g = [i \in 1..m |-> Body(g, i)]
  <2>. HIDE DEF Body
  <2>. QED  BY <1>1
<1>3. Unescape(s) = g[1]
  BY DEF Unescape
<1>. HIDE DEF g
<1> DEFINE N == {k \in Nat : \A i \in 1..m : i >= m - k => g[i] = h[i]}
<1>4. 0 \in N
  <2>. SUFFICES ASSUME NEW i \in 1..m, i >= m - 0 PROVE g[i] = h[i]
    OBVIOUS
  <2>1. i > Len(s)
    BY <1>0
  <2>. QED  BY <1>1, <1>2, <2>1
<1>5. ASSUME NEW k \in Nat, k \in N PROVE k + 1 \in N
  <2>. SUFFICES ASSUME NEW i \in 1..m, i >= m - (k + 1) PROVE g[i] = h[i]
    OBVIOUS
  <2>1. CASE i > Len(s)
    BY <1>1, <1>2, <2>1
  <2>2. CASE ~(i > Len(s))
    <3>1. i + 1 \in 1..m /\ i + 1 >= m - k
      BY <1>0, <2>2
    <3>2. g[i + 1] = h[i + 1]
      BY <1>5, <3>1
    <3>3. i < Len(s) => g[i + 2] = h[i + 2]
      <4>. SUFFICES ASSUME i < Len(s) PROVE g[i + 2] = h[i + 2]
        OBVIOUS
      <4>1. i + 2 \in 1..m /\ i + 2 >= m - k
        BY <1>0
      <4>. QED  BY <1>5, <4>1
    <3>4. Body(g, i) = Body(h, i)
      BY <3>2, <3>3
    <3>. HIDE DEF Body
    <3>. QED  BY <1>1, <1>2, <3>4
  <2>. QED  BY <2>1, <2>2
<1>6. \A k \in Nat : k \in N
  <2>. HIDE DEF N
  <2>. QED  BY <1>4, <1>5, Induction
<1>7. g[1] = h[1]
  <2>1. m \in Nat /\ 1 \in 1..m /\ 1 >= m - m
    BY <1>0
  <2>2. m \in N
    <3>. HIDE DEF N
    <3>. QED  BY <1>6, <2>1
  <2>. QED  BY <2>1, <2>2
<1>. QED  BY <1>3, <1>7

\* Nothing of nothing.
LEMMA UnescapeEmpty == Unescapes([i \in 1..1 |-> <<>>], <<>>) /\ Unescape(<<>>) = <<>>
<1> DEFINE h == [i \in 1..1 |-> <<>>]
<1>1. Unescapes(h, <<>>) /\ h[1] = <<>>
  BY DEF Unescapes, Text
<1>. HIDE DEF h
<1>2. Unescape(<<>>) = h[1]
  <2>1. <<>> \in Text
    BY DEF Text
  <2>. QED  BY <1>1, <2>1, UnescapeIs
<1>. QED  BY <1>1, <1>2 DEF h

\* One token before the others.
LEMMA UnescapesPrepend ==
  ASSUME NEW s \in Text, NEW a \in Tokens, NEW h, Unescapes(h, s)
  PROVE  \E g : /\ Unescapes(g, <<a>> \o s)
                /\ \A i \in 1..(Len(s) + 1) : g[i + 1] = h[i]
<1> DEFINE t == <<a>> \o s
           n == Len(s)
           first == IF EscapeAt(t, 1) THEN <<Stands(t[2])>> \o h[2] ELSE <<a>> \o h[1]
           g == [i \in 1..(n + 2) |-> IF i = 1 THEN first ELSE h[i - 1]]
<1>0. /\ n \in Nat /\ t \in Text /\ Len(t) = n + 1 /\ t[1] = a
      /\ \A i \in 1..n : t[i + 1] = s[i] /\ s[i] \in Tokens
  BY DEF Text
<1>. HIDE DEF t
<1>1. first \in Text
  <2>1. CASE EscapeAt(t, 1)
    <3>0. 1 < Len(t)
      BY <2>1 DEF EscapeAt
    <3>1. 1 < Len(t) /\ 2 \in 1..(n + 1)
      BY <1>0, <3>0
    <3>2. h[2] \in Text
      BY <3>1 DEF Unescapes
    <3>3. t[2] \in Tokens
      <4>1. 1 \in 1..n /\ 1 + 1 = 2
        BY <1>0, <3>1
      <4>. QED  BY <1>0, <4>1
    <3>4. Stands(t[2]) \in Tokens
      BY <3>3, TokensAssumption DEF Stands, White
    <3>5. <<Stands(t[2])>> \in Text
      BY <3>4, TextConcat
    <3>. QED  BY <2>1, <3>2, <3>5, TextConcat
  <2>2. CASE ~EscapeAt(t, 1)
    <3>1. h[1] \in Text
      BY <1>0 DEF Unescapes
    <3>. QED  BY <2>2, <3>1, TextConcat
  <2>. QED  BY <2>1, <2>2
<1>. HIDE DEF first
<1>2. g \in [1..(n + 2) -> Text] /\ g[1] = first /\ g[n + 2] = <<>>
  <2>1. \A i \in 1..(n + 2) : i # 1 => i - 1 \in 1..(n + 1)
    BY <1>0
  <2>2. 1 \in 1..(n + 2) /\ n + 2 \in 1..(n + 2) /\ n + 2 # 1 /\ (n + 2) - 1 = n + 1
    BY <1>0
  <2>3. h \in [1..(n + 1) -> Text] /\ h[n + 1] = <<>>
    BY DEF Unescapes
  <2>. HIDE DEF n
  <2>. QED  BY <1>1, <2>1, <2>2, <2>3
<1>3. \A i \in 1..(n + 1) : g[i + 1] = h[i]
  BY <1>0
<1>4. ASSUME NEW i \in 1..(n + 1)
      PROVE  g[i] = IF EscapeAt(t, i) THEN <<Stands(t[i + 1])>> \o g[i + 2]
                    ELSE <<t[i]>> \o g[i + 1]
  <2>1. CASE i = 1
    <3>1. g[2] = h[1]
      BY <1>0, <1>3
    <3>2. EscapeAt(t, 1) => g[3] = h[2]
      <4>. SUFFICES ASSUME EscapeAt(t, 1) PROVE g[3] = h[2]
        OBVIOUS
      <4>0. 1 < Len(t)
        BY DEF EscapeAt
      <4>1. 2 \in 1..(n + 1)
        BY <1>0, <4>0
      <4>. QED  BY <1>3, <4>1
    <3>. HIDE DEF g
    <3>. QED  BY <1>0, <1>2, <2>1, <3>1, <3>2 DEF first
  <2>2. CASE i # 1
    <3> DEFINE j == i - 1
    <3>1. j \in 1..n /\ i = j + 1
      BY <1>0, <2>2
    <3>2. t[i] = s[j] /\ g[i] = h[j] /\ g[i + 1] = h[j + 1]
      <4>1. j \in 1..(n + 1) /\ j + 1 \in 1..(n + 1)
        BY <1>0, <3>1
      <4>. HIDE DEF g
      <4>. QED  BY <1>0, <1>3, <3>1, <4>1
    <3>3. EscapeAt(t, i) <=> EscapeAt(s, j)
      <4>1. i < Len(t) <=> j < Len(s)
        BY <1>0, <3>1
      <4>2. j < Len(s) => t[i + 1] = s[j + 1]
        <5>1. j < Len(s) => j + 1 \in 1..n
          BY <1>0, <3>1
        <5>. QED  BY <1>0, <3>1, <5>1
      <4>. HIDE DEF j
      <4>. QED  BY <3>1, <3>2, <4>1, <4>2 DEF EscapeAt
    <3>4. EscapeAt(s, j) => t[i + 1] = s[j + 1] /\ g[i + 2] = h[j + 2]
      <4>. SUFFICES ASSUME EscapeAt(s, j)
                    PROVE  t[i + 1] = s[j + 1] /\ g[i + 2] = h[j + 2]
        OBVIOUS
      <4>0. j < Len(s)
        BY DEF EscapeAt
      <4>1. j + 1 \in 1..n /\ j + 2 \in 1..(n + 1)
        BY <1>0, <3>1, <4>0
      <4>. HIDE DEF g
      <4>. QED  BY <1>0, <1>3, <3>1, <4>1
    <3>5. h[j] = IF EscapeAt(s, j) THEN <<Stands(s[j + 1])>> \o h[j + 2]
                 ELSE <<s[j]>> \o h[j + 1]
      BY <3>1 DEF Unescapes
    <3>. HIDE DEF g, j
    <3>. QED  BY <3>2, <3>3, <3>4, <3>5
  <2>. QED  BY <2>1, <2>2
<1>5. Unescapes(g, t)
  <2>. HIDE DEF g
  <2>1. Len(t) + 1 = n + 2
    BY <1>0
  <2>. QED  BY <1>0, <1>2, <1>4, <2>1 DEF Unescapes
<1>. HIDE DEF g
<1>. QED  BY <1>3, <1>5 DEF t

\* A text begins with its first token.
LEMMA TextFront ==
  ASSUME NEW s \in Text, s # <<>>
  PROVE  \E a \in Tokens, r \in Text : s = <<a>> \o r /\ Len(s) = Len(r) + 1
<1>1. /\ Head(s) \in Tokens /\ Tail(s) \in Text /\ Len(Tail(s)) = Len(s) - 1
      /\ \A i \in 1..Len(Tail(s)) : Tail(s)[i] = s[i + 1]
  BY HeadTailProperties DEF Text
<1> DEFINE t == <<Head(s)>> \o Tail(s)
<1>2. Len(s) \in Nat /\ Len(s) > 0 /\ Len(Tail(s)) \in Nat
  BY DEF Text
<1>3. t \in Text /\ Len(t) = Len(s)
  BY <1>1, <1>2 DEF Text
<1>4. \A i \in 1..Len(s) : s[i] = t[i]
  <2>. SUFFICES ASSUME NEW i \in 1..Len(s) PROVE s[i] = t[i]
    OBVIOUS
  <2>1. CASE i = 1
    BY <1>1, <2>1 DEF Text
  <2>2. CASE i # 1
    <3>1. i - 1 \in 1..Len(Tail(s)) /\ (i - 1) + 1 = i
      BY <1>1, <1>2, <2>2
    <3>2. t[i] = Tail(s)[i - 1]
      BY <1>1, <3>1, <2>2 DEF Text
    <3>. QED  BY <1>1, <3>1, <3>2
  <2>. QED  BY <2>1, <2>2
<1>5. s = t
  <2>. HIDE DEF t
  <2>. QED  BY <1>3, <1>4, SeqEqual DEF Text
<1>6. Len(s) = Len(Tail(s)) + 1
  BY <1>1, <1>2
<1>. QED  BY <1>1, <1>5, <1>6

\* A function that meets the equations exists for every text.
LEMMA UnescapeHas ==
  ASSUME NEW s \in Text
  PROVE  \E h : Unescapes(h, s)
<1> DEFINE N == {n \in Nat : \A r \in Text : Len(r) = n => \E h : Unescapes(h, r)}
<1>1. 0 \in N
  <2>1. \A r \in Text : Len(r) = 0 => r = <<>>
    BY DEF Text
  <2>. QED  BY <2>1, UnescapeEmpty
<1>2. ASSUME NEW n \in Nat, n \in N PROVE n + 1 \in N
  <2>. SUFFICES ASSUME NEW r \in Text, Len(r) = n + 1 PROVE \E h : Unescapes(h, r)
    OBVIOUS
  <2>1. r # <<>>
    OBVIOUS
  <2>2. PICK a \in Tokens, q \in Text : r = <<a>> \o q /\ Len(r) = Len(q) + 1
    BY <2>1, TextFront
  <2>3. Len(q) = n
    BY <2>2 DEF Text
  <2>4. PICK h : Unescapes(h, q)
    BY <1>2, <2>3
  <2>5. \E g : Unescapes(g, <<a>> \o q)
    BY <2>4, UnescapesPrepend
  <2>. QED  BY <2>2, <2>5
<1>3. \A n \in Nat : n \in N
  <2>. HIDE DEF N
  <2>. QED  BY <1>1, <1>2, Induction
<1>4. Len(s) \in Nat
  BY DEF Text
<1>. QED  BY <1>3, <1>4

\* What is read is a text.
LEMMA UnescapeType ==
  ASSUME NEW s \in Text
  PROVE  Unescape(s) \in Text
<1>1. PICK h : Unescapes(h, s)
  BY UnescapeHas
<1>2. Unescape(s) = h[1] /\ 1 \in 1..(Len(s) + 1)
  BY <1>1, UnescapeIs DEF Text
<1>. QED  BY <1>1, <1>2 DEF Unescapes

\* A token that begins no escape is read as it is.
LEMMA UnescapePlain ==
  ASSUME NEW a \in Tokens, a # Backslash, NEW s \in Text
  PROVE  Unescape(<<a>> \o s) = <<a>> \o Unescape(s)
<1>1. PICK h : Unescapes(h, s)
  BY UnescapeHas
<1> DEFINE t == <<a>> \o s
<1>2. PICK g : Unescapes(g, t) /\ \A i \in 1..(Len(s) + 1) : g[i + 1] = h[i]
  BY <1>1, UnescapesPrepend
<1>3. /\ t \in Text /\ t[1] = a /\ 1 \in 1..Len(t)
      /\ 1 \in 1..(Len(s) + 1)
  BY DEF Text
<1>. HIDE DEF t
<1>4. g[1] = <<a>> \o g[1 + 1]
  BY <1>2, <1>3 DEF Unescapes, EscapeAt
<1>5. g[1 + 1] = h[1]
  BY <1>2, <1>3
<1>6. Unescape(t) = g[1] /\ Unescape(s) = h[1]
  BY <1>1, <1>2, <1>3, UnescapeIs
<1>. QED  BY <1>4, <1>5, <1>6 DEF t

\* An escape is read as what it stands for.
LEMMA UnescapePair ==
  ASSUME NEW b \in Letters, NEW s \in Text
  PROVE  Unescape(<<Backslash, b>> \o s) = <<Stands(b)>> \o Unescape(s)
<1>0. Backslash \in Tokens /\ b \in Tokens
  BY TokensAssumption DEF Letters
<1>1. PICK h : Unescapes(h, s)
  BY UnescapeHas
<1> DEFINE r == <<b>> \o s
           t == <<Backslash>> \o r
<1>2. PICK g : Unescapes(g, r) /\ \A i \in 1..(Len(s) + 1) : g[i + 1] = h[i]
  BY <1>0, <1>1, UnescapesPrepend
<1>3. r \in Text /\ r[1] = b /\ Len(r) = Len(s) + 1 /\ Len(s) \in Nat
  BY <1>0 DEF Text
<1>. HIDE DEF r
<1>4. PICK f : Unescapes(f, t) /\ \A i \in 1..(Len(r) + 1) : f[i + 1] = g[i]
  BY <1>0, <1>2, <1>3, UnescapesPrepend
<1>5. /\ t \in Text /\ t[1] = Backslash /\ t[1 + 1] = b /\ Len(t) = Len(s) + 2
      /\ 1 \in 1..Len(t)
  BY <1>0, <1>3 DEF Text
<1>6. t = <<Backslash, b>> \o s
  <2>1. <<Backslash>> \in Text /\ <<b>> \in Text /\ <<Backslash, b>> = <<Backslash>> \o <<b>>
    BY <1>0, TextConcat
  <2>. QED  BY <2>1, TextConcat DEF r
<1>. HIDE DEF t
<1>7. EscapeAt(t, 1)
  BY <1>3, <1>5 DEF EscapeAt
<1>8. f[1] = <<Stands(b)>> \o f[1 + 2]
  BY <1>4, <1>5, <1>7 DEF Unescapes
<1>9. f[1 + 2] = h[1]
  <2>1. 2 \in 1..(Len(r) + 1) /\ 1 \in 1..(Len(s) + 1) /\ 1 + 2 = 2 + 1 /\ 2 = 1 + 1
    BY <1>3
  <2>. QED  BY <1>2, <1>4, <2>1
<1>10. Unescape(t) = f[1] /\ Unescape(s) = h[1]
  BY <1>1, <1>4, <1>5, UnescapeIs
<1>. QED  BY <1>6, <1>8, <1>9, <1>10

\* One token is read back.
LEMMA UnescapeEscapeOne ==
  ASSUME NEW e \in Tokens, NEW r \in Text
  PROVE  Unescape(Escape(<<e>>) \o r) = <<e>> \o Unescape(r)
<1>1. CASE e \in Specials
  <2>1. Escape(<<e>>) = <<Backslash, Letter(e)>>
    BY <1>1, EscapeOne
  <2>2. Letter(e) \in Letters /\ Stands(Letter(e)) = e
    BY <1>1 DEF Specials, Letter, Letters, Stands, Backslash, NewLine
  <2>3. Unescape(<<Backslash, Letter(e)>> \o r) = <<Stands(Letter(e))>> \o Unescape(r)
    BY <2>2, UnescapePair
  <2>. QED  BY <2>1, <2>2, <2>3
<1>2. CASE e \notin Specials
  <2>1. Escape(<<e>>) = <<e>> /\ e # Backslash
    BY <1>2, EscapeOne DEF Specials
  <2>. QED  BY <2>1, UnescapePlain
<1>. QED  BY <1>1, <1>2

\* The text before the rest is read back.
LEMMA UnescapeEscapeConcat ==
  ASSUME NEW s \in Text
  PROVE  \A r \in Text : Unescape(Escape(s) \o r) = s \o Unescape(r)
<1> DEFINE Q == {q \in Text : \A r \in Text : Unescape(Escape(q) \o r) = q \o Unescape(r)}
<1>1. <<>> \in Q
  <2>1. Escape(<<>>) = <<>>
    <3>1. {Backslash, NewLine, ";", ","} \subseteq Tokens
      BY TokensAssumption DEF White
    <3>. QED  BY <3>1, EscapedEmpty DEF Escape
  <2>2. ASSUME NEW r \in Text PROVE Unescape(<<>> \o r) = <<>> \o Unescape(r)
    BY TextConcat, UnescapeType
  <2>3. <<>> \in Text
    BY TextConcat
  <2>. QED  BY <2>1, <2>2, <2>3
<1>2. ASSUME NEW q \in Text, NEW e \in Tokens, q \in Q PROVE Append(q, e) \in Q
  <2>1. Append(q, e) \in Text /\ Append(q, e) = q \o <<e>> /\ <<e>> \in Text
    <3>1. Append(q, e) = q \o <<e>>
      BY AppendIsConcat DEF Text
    <3>. QED  BY <3>1, TextConcat
  <2>2. ASSUME NEW r \in Text
        PROVE  Unescape(Escape(q \o <<e>>) \o r) = (q \o <<e>>) \o Unescape(r)
    <3>1. /\ Escape(q) \in Text /\ Escape(<<e>>) \in Text
          /\ Escape(q \o <<e>>) = Escape(q) \o Escape(<<e>>)
      BY <2>1, EscapeConcat
    <3>2. (Escape(q) \o Escape(<<e>>)) \o r = Escape(q) \o (Escape(<<e>>) \o r)
      BY <3>1, TextConcat
    <3>3. Escape(<<e>>) \o r \in Text
      BY <3>1, TextConcat
    <3>4. Unescape(Escape(q) \o (Escape(<<e>>) \o r)) = q \o Unescape(Escape(<<e>>) \o r)
      BY <1>2, <3>3
    <3>5. Unescape(Escape(<<e>>) \o r) = <<e>> \o Unescape(r)
      BY UnescapeEscapeOne
    <3>6. Unescape(r) \in Text
      BY UnescapeType
    <3>7. q \o (<<e>> \o Unescape(r)) = (q \o <<e>>) \o Unescape(r)
      BY <2>1, <3>6, TextConcat
    <3>. QED  BY <3>1, <3>2, <3>4, <3>5, <3>7
  <2>. QED  BY <2>1, <2>2
<1>3. \A q \in Text : q \in Q
  <2>. HIDE DEF Q
  <2>. QED  BY <1>1, <1>2, SequenceInduction DEF Text
<1>. QED  BY <1>3

\* For every text: unescapeICS reads what the escaping of writeICS wrote, and the
\* order of its replacements, the backslash first, is what makes this so.
THEOREM TextReadBack == \A s \in Text : Unescape(Escape(s)) = s
<1>. TAKE s \in Text
<1>1. Escape(s) \in Text /\ <<>> \in Text
  BY EscapeConcat, TextConcat
<1>2. Unescape(Escape(s) \o <<>>) = s \o Unescape(<<>>)
  BY <1>1, UnescapeEscapeConcat
<1>. QED  BY <1>1, <1>2, UnescapeEmpty, TextConcat

-----------------------------------------------------------------------------
(* Trimming, carriage returns, and what is left of a text without blanks.  *)

\* A text is trimmed to what follows its blanks.
LEMMA TrimLeftIs ==
  ASSUME NEW s \in Text, NEW cutset
  PROVE  \E k \in 0..Len(s) :
           /\ \A i \in 1..k : s[i] \in cutset
           /\ k < Len(s) => s[k + 1] \notin cutset
           /\ TrimLeft(s, cutset) = SubSeq(s, k + 1, Len(s))
<1> DEFINE kept == {i \in DOMAIN s : s[i] \notin cutset}
           c == CHOOSE i \in kept : \A j \in kept : i <= j
<1>1. Len(s) \in Nat /\ DOMAIN s = 1..Len(s)
  BY DEF Text
<1>2. CASE kept = {}
  <2>1. TrimLeft(s, cutset) = <<>> /\ SubSeq(s, Len(s) + 1, Len(s)) = <<>>
    BY <1>1, <1>2, SubSeqEmpty DEF TrimLeft
  <2>2. \A i \in 1..Len(s) : s[i] \in cutset
    BY <1>1, <1>2
  <2>. QED  BY <1>1, <2>1, <2>2
<1>3. CASE kept # {}
  <2>1. kept \in SUBSET Nat
    BY <1>1
  <2>2. c \in kept /\ \A j \in kept : c <= j
    <3>. HIDE DEF kept
    <3>1. \E i \in kept : \A j \in kept : i <= j
      BY <1>3, <2>1, LeastNumber
    <3>. QED  BY <3>1
  <2>3. TrimLeft(s, cutset) = SubSeq(s, c, Len(s))
    BY <1>3 DEF TrimLeft
  <2>. HIDE DEF c
  <2>4. c \in 1..Len(s) /\ s[c] \notin cutset
    BY <1>1, <2>2
  <2>5. \A i \in 1..(c - 1) : s[i] \in cutset
    <3>. SUFFICES ASSUME NEW i \in 1..(c - 1), s[i] \notin cutset PROVE FALSE
      OBVIOUS
    <3>1. i \in kept /\ ~(c <= i)
      BY <1>1, <2>4
    <3>. QED  BY <2>2, <3>1
  <2>6. c - 1 \in 0..Len(s) /\ (c - 1) + 1 = c
    BY <1>1, <2>4
  <2>. QED  BY <2>3, <2>4, <2>5, <2>6
<1>. QED  BY <1>2, <1>3

\* A text is its beginning and its end.
LEMMA TextSplit ==
  ASSUME NEW s \in Text, NEW k \in 0..Len(s)
  PROVE  /\ SubSeq(s, 1, k) \in Text
         /\ SubSeq(s, k + 1, Len(s)) \in Text
         /\ s = SubSeq(s, 1, k) \o SubSeq(s, k + 1, Len(s))
         /\ Len(SubSeq(s, 1, k)) = k
         /\ \A i \in 1..k : SubSeq(s, 1, k)[i] = s[i]
<1> DEFINE a == SubSeq(s, 1, k)
           b == SubSeq(s, k + 1, Len(s))
           m == Len(s)
<1>1. m \in Nat /\ k \in Nat /\ k <= m /\ \A i \in 1..m : s[i] \in Tokens
  BY DEF Text
<1>2. a \in Text /\ Len(a) = k /\ \A i \in 1..k : a[i] = s[i]
  <2>1. \A i \in 1..k : s[i] \in Tokens
    BY <1>1
  <2>2. 1 \in Int /\ k \in Int /\ (1 <= k => k - 1 + 1 = k) /\ (~(1 <= k) => k = 0)
    BY <1>1
  <2>3. /\ a \in Text
        /\ Len(a) = IF 1 <= k THEN k - 1 + 1 ELSE 0
        /\ \A i \in 1..(k - 1 + 1) : a[i] = s[1 + i - 1]
    BY <2>1, <2>2, SubSeqProperties DEF Text
  <2>. HIDE DEF a
  <2>4. \A i \in 1..k : i \in 1..(k - 1 + 1) /\ 1 + i - 1 = i
    BY <1>1
  <2>5. \A i \in 1..k : a[i] = s[i]
    BY <2>3, <2>4
  <2>. QED  BY <2>2, <2>3, <2>5
<1>3. b \in Text /\ Len(b) = m - k /\ \A i \in 1..(m - k) : b[i] = s[k + i]
  <2>1. \A i \in (k + 1)..m : s[i] \in Tokens
    BY <1>1
  <2>2. k + 1 \in Int /\ m \in Int
    BY <1>1
  <2>3. /\ b \in Text
        /\ Len(b) = IF k + 1 <= m THEN m - (k + 1) + 1 ELSE 0
        /\ \A i \in 1..(m - (k + 1) + 1) : b[i] = s[(k + 1) + i - 1]
    BY <2>1, <2>2, SubSeqProperties DEF Text
  <2>. HIDE DEF b
  <2>4. \A i \in 1..(m - k) : i \in 1..(m - (k + 1) + 1) /\ (k + 1) + i - 1 = k + i
    BY <1>1
  <2>5. m - k = IF k + 1 <= m THEN m - (k + 1) + 1 ELSE 0
    BY <1>1
  <2>6. \A i \in 1..(m - k) : b[i] = s[k + i]
    BY <2>3, <2>4
  <2>. QED  BY <2>3, <2>5, <2>6
<1>. HIDE DEF a, b
<1>4. s = a \o b
  <2>1. a \o b \in Text /\ Len(a \o b) = m
    <3>1. a \o b \in Seq(Tokens) /\ Len(a \o b) = Len(a) + Len(b)
      BY <1>2, <1>3, ConcatProperties DEF Text
    <3>2. k + (m - k) = m
      BY <1>1
    <3>. HIDE DEF m
    <3>. QED  BY <1>2, <1>3, <3>1, <3>2 DEF Text
  <2>2. ASSUME NEW i \in 1..m PROVE s[i] = (a \o b)[i]
    <3>0. (a \o b)[i] = IF i <= Len(a) THEN a[i] ELSE b[i - Len(a)]
      <4>1. i \in 1..(Len(a) + Len(b))
        BY <1>1, <1>2, <1>3
      <4>. QED  BY <1>2, <1>3, <4>1, ConcatProperties DEF Text
    <3>1. CASE i <= k
      BY <1>1, <1>2, <3>0, <3>1
    <3>2. CASE ~(i <= k)
      <4>1. i - k \in 1..(m - k) /\ k + (i - k) = i
        BY <1>1, <3>2
      <4>. QED  BY <1>2, <1>3, <3>0, <3>2, <4>1
    <3>. QED  BY <3>1, <3>2
  <2>3. s \in Text
    OBVIOUS
  <2>. HIDE DEF m
  <2>4. Len(s) = Len(a \o b) /\ \A i \in 1..Len(s) : s[i] = (a \o b)[i]
    BY <2>1, <2>2 DEF m
  <2>. QED  BY <2>1, <2>3, <2>4, SeqEqual DEF Text
<1>. QED  BY <1>2, <1>3, <1>4 DEF a, b

\* What is trimmed is a text.
LEMMA TrimLeftType ==
  ASSUME NEW s \in Text, NEW cutset
  PROVE  TrimLeft(s, cutset) \in Text
<1>1. PICK k \in 0..Len(s) : TrimLeft(s, cutset) = SubSeq(s, k + 1, Len(s))
  BY TrimLeftIs
<1>. QED  BY <1>1, TextSplit

\* Nothing is taken but a carriage return at the end.
LEMMA DropCRIs ==
  /\ DropCR(<<>>) = <<>>
  /\ \A s \in Text : \A e \in Tokens :
       DropCR(Append(s, e)) = IF e = CR THEN s ELSE Append(s, e)
<1>1. DropCR(<<>>) = <<>>
  BY DEF DropCR
<1>2. ASSUME NEW s \in Text, NEW e \in Tokens
      PROVE  DropCR(Append(s, e)) = IF e = CR THEN s ELSE Append(s, e)
  <2> DEFINE t == Append(s, e)
             n == Len(s)
  <2>1. /\ t \in Text /\ t # <<>> /\ n \in Nat /\ Len(t) = n + 1 /\ t[n + 1] = e
        /\ \A i \in 1..n : t[i] = s[i]
    BY AppendProperties, LenProperties DEF Text
  <2>. HIDE DEF t
  <2>2. Last(t) = e
    BY <2>1 DEF Last
  <2>3. Front(t) = s
    <3>1. Front(t) = SubSeq(t, 1, n)
      <4>1. Len(t) - 1 = n
        BY <2>1
      <4>. QED  BY <4>1 DEF Front
    <3> DEFINE r == SubSeq(t, 1, n)
    <3>2. r \in Text /\ Len(r) = n /\ \A i \in 1..n : r[i] = t[i]
      <4>1. n \in 0..Len(t)
        BY <2>1
      <4>. QED  BY <2>1, <4>1, TextSplit
    <3>. HIDE DEF r
    <3>3. r = s
      BY <2>1, <3>2, SeqEqual DEF Text
    <3>. QED  BY <3>1, <3>3 DEF r
  <2>. QED  BY <2>1, <2>2, <2>3 DEF DropCR, t
<1>. QED  BY <1>1, <1>2

\* A text ends with its last token, or is empty.
LEMMA TextEnds ==
  ASSUME NEW s \in Text, s # <<>>
  PROVE  \E r \in Text, e \in Tokens : s = Append(r, e)
BY SequenceEmptyOrAppend DEF Text

\* What is left is a text, which begins as it did.
LEMMA DropCRType ==
  ASSUME NEW s \in Text
  PROVE  /\ DropCR(s) \in Text
         /\ DropCR(s) # <<>> => s # <<>> /\ DropCR(s)[1] = s[1]
         /\ s # <<>> /\ s[1] # CR => DropCR(s) # <<>>
<1>1. CASE s = <<>>
  BY <1>1, DropCRIs
<1>2. CASE s # <<>>
  <2>1. PICK r \in Text, e \in Tokens : s = Append(r, e)
    BY <1>2, TextEnds
  <2>2. DropCR(s) = IF e = CR THEN r ELSE s
    BY <2>1, DropCRIs
  <2>3. /\ Len(r) \in Nat /\ s[Len(r) + 1] = e
        /\ \A i \in 1..Len(r) : s[i] = r[i]
    BY <2>1, AppendProperties, LenProperties DEF Text
  <2>4. r # <<>> => r[1] = s[1]
    <3>1. r # <<>> => Len(r) # 0
      BY DEF Text
    <3>2. Len(r) # 0 => 1 \in 1..Len(r)
      BY <2>3
    <3>. QED  BY <2>3, <3>1, <3>2
  <2>5. r = <<>> => s[1] = e
    <3>1. r = <<>> => Len(r) + 1 = 1
      OBVIOUS
    <3>. QED  BY <2>3, <3>1
  <2>. QED  BY <1>2, <2>2, <2>4, <2>5
<1>. QED  BY <1>1, <1>2

\* A carriage return is not escaped.
LEMMA DropCREscape ==
  ASSUME NEW s \in Text
  PROVE  DropCR(Escape(s)) = Escape(DropCR(s))
<1>1. Escape(<<>>) = <<>>
  <2>1. {Backslash, NewLine, ";", ","} \subseteq Tokens
    BY TokensAssumption DEF White
  <2>. QED  BY <2>1, EscapedEmpty DEF Escape
<1>2. CASE s = <<>>
  BY <1>1, <1>2, DropCRIs
<1>3. CASE s # <<>>
  <2>1. PICK r \in Text, e \in Tokens : s = Append(r, e)
    BY <1>3, TextEnds
  <2>2. /\ Escape(r) \in Text
        /\ Escape(s) = Escape(r) \o Escape(<<e>>)
    <3>1. <<e>> \in Text /\ s = r \o <<e>>
      BY <2>1, TextConcat, AppendIsConcat DEF Text
    <3>. QED  BY <3>1, EscapeConcat
  <2>3. DropCR(s) = IF e = CR THEN r ELSE s
    BY <2>1, DropCRIs
  <2>4. CASE e \in Specials
    <3>1. /\ Letter(e) \in Tokens /\ Backslash \in Tokens
          /\ Letter(e) # CR /\ e # CR
      BY <2>4, TokensAssumption DEF Specials, Letter, White, Backslash, NewLine, CR
    <3>2. Escape(<<e>>) = <<Backslash, Letter(e)>>
      BY <2>4, EscapeOne
    <3> DEFINE q == Append(Escape(r), Backslash)
    <3>3. q \in Text /\ Escape(s) = Append(q, Letter(e))
      <4> DEFINE a == Escape(r)
      <4>. HIDE DEF a
      <4>1. a \in Seq(Tokens)
        BY <2>2 DEF a, Text
      <4>2. Append(a, Backslash) \in Seq(Tokens)
        BY <3>1, <4>1, AppendProperties
      <4>3. <<Backslash, Letter(e)>> = Append(<<Backslash>>, Letter(e))
        OBVIOUS
      <4>4. <<Backslash>> \in Seq(Tokens)
        BY <3>1
      <4>5. a \o Append(<<Backslash>>, Letter(e)) = Append(a \o <<Backslash>>, Letter(e))
        BY <3>1, <4>1, <4>4, ConcatAppend
      <4>6. a \o <<Backslash>> = Append(a, Backslash)
        BY <3>1, <4>1, AppendIsConcat
      <4>. QED  BY <2>2, <3>2, <4>2, <4>3, <4>5, <4>6 DEF a, Text
    <3>. HIDE DEF q
    <3>4. DropCR(Escape(s)) = Escape(s)
      BY <3>1, <3>3, DropCRIs
    <3>. QED  BY <2>3, <3>1, <3>4
  <2>5. CASE e \notin Specials
    <3>1. Escape(s) = Append(Escape(r), e)
      BY <2>2, <2>5, EscapeOne, AppendIsConcat DEF Text
    <3>2. DropCR(Escape(s)) = IF e = CR THEN Escape(r) ELSE Escape(s)
      BY <2>2, <3>1, DropCRIs
    <3>. QED  BY <2>3, <3>2
  <2>. QED  BY <2>4, <2>5
<1>. QED  BY <1>2, <1>3

\* A reversed text is one, and begins with its end.
LEMMA ReverseType ==
  ASSUME NEW s \in Text
  PROVE  /\ Reverse(s) \in Text /\ Len(Reverse(s)) = Len(s)
         /\ s # <<>> => Reverse(s)[Len(s)] = s[1]
<1> DEFINE n == Len(s)
           r == Reverse(s)
<1>1. n \in Nat /\ \A i \in 1..n : s[i] \in Tokens /\ (n - i) + 1 \in 1..n
  BY DEF Text
<1>2. DOMAIN r = 1..n /\ \A i \in 1..n : r[i] = s[(n - i) + 1] /\ r[i] \in Tokens
  BY <1>1 DEF Reverse
<1>3. r = [i \in 1..n |-> r[i]]
  BY DEF Reverse
<1>. HIDE DEF r
<1>4. r \in Seq(Tokens) /\ Len(r) = n
  BY <1>1, <1>2, <1>3, IsASeq
<1>5. s # <<>> => r[n] = s[1]
  <2>1. s # <<>> => n # 0
    BY DEF Text
  <2>2. n # 0 => n \in 1..n /\ (n - n) + 1 = 1
    BY <1>1
  <2>. QED  BY <1>2, <2>1, <2>2
<1>. QED  BY <1>4, <1>5 DEF r, Text

\* A trimmed text ends in no blank, nor in a carriage return.
LEMMA TrimSpaceIs ==
  ASSUME NEW s \in Text
  PROVE  /\ TrimSpace(s) \in Text
         /\ DropCR(TrimSpace(s)) = TrimSpace(s)
<1> DEFINE a == Reverse(TrimLeft(s, White))
           b == TrimLeft(a, White)
           t == TrimSpace(s)
<1>1. a \in Text
  BY TrimLeftType, ReverseType
<1>2. t = Reverse(b)
  BY DEF TrimSpace
<1>. HIDE DEF a, t
<1>3. b \in Text
  BY <1>1, TrimLeftType
<1>4. t \in Text /\ Len(t) = Len(b) /\ (b # <<>> => t[Len(b)] = b[1])
  <2>. HIDE DEF b
  <2>. QED  BY <1>2, <1>3, ReverseType
<1>5. b # <<>> => b[1] \notin White
  <2>. SUFFICES ASSUME b # <<>> PROVE b[1] \notin White
    OBVIOUS
  <2>1. PICK k \in 0..Len(a) :
          /\ k < Len(a) => a[k + 1] \notin White
          /\ b = SubSeq(a, k + 1, Len(a))
    BY <1>1, TrimLeftIs
  <2>. HIDE DEF b
  <2>2. Len(a) \in Nat /\ k + 1 \in Int
    BY <1>1 DEF Text
  <2>3. k < Len(a)
    <3>. SUFFICES ASSUME ~(k < Len(a)) PROVE FALSE
      OBVIOUS
    <3>1. Len(a) < k + 1
      BY <2>2
    <3>. QED  BY <2>1, <2>2, <3>1, SubSeqEmpty
  <2>4. \A i \in (k + 1)..Len(a) : a[i] \in Tokens
    BY <1>1, <2>2 DEF Text
  <2>5. \A i \in 1..(Len(a) - (k + 1) + 1) : b[i] = a[(k + 1) + i - 1]
    BY <2>1, <2>2, <2>4, SubSeqProperties
  <2>6. 1 \in 1..(Len(a) - (k + 1) + 1) /\ (k + 1) + 1 - 1 = k + 1
    BY <2>2, <2>3
  <2>7. b[1] = a[k + 1]
    BY <2>5, <2>6
  <2>. QED  BY <2>1, <2>3, <2>7
<1>. HIDE DEF b
<1>6. DropCR(t) = t
  <2>1. CASE t = <<>>
    BY <2>1, DropCRIs
  <2>2. CASE t # <<>>
    <3>1. Len(t) # 0 /\ Len(b) # 0
      BY <1>4, <2>2 DEF Text
    <3>2. b # <<>>
      BY <3>1
    <3>3. t[Len(t)] # CR
      BY <1>4, <1>5, <3>2 DEF White
    <3>. QED  BY <3>3 DEF DropCR, Last
  <2>. QED  BY <2>1, <2>2
<1>. QED  BY <1>4, <1>6 DEF t

\* All tokens but the blanks are kept, whatever the text.
LEMMA DarkIs ==
  ASSUME NEW s \in Text
  PROVE  Dark(s) = Kept(s, Tokens \ Blanks) /\ Dark(s) \in Text
<1>1. s \in Seq(ToSet(s)) /\ ToSet(s) \subseteq Tokens
  <2>1. Len(s) \in Nat /\ DOMAIN s = 1..Len(s) /\ \A i \in 1..Len(s) : s[i] \in Tokens
    BY DEF Text
  <2>2. s = [i \in 1..Len(s) |-> s[i]]
    BY DEF Text
  <2>. QED  BY <2>1, <2>2, IsASeq DEF ToSet
<1>2. \A e \in ToSet(s) : e \in ToSet(s) \ Blanks <=> e \in Tokens \ Blanks
  BY <1>1
<1>3. Kept(s, ToSet(s) \ Blanks) = Kept(s, Tokens \ Blanks)
  BY <1>1, <1>2, KeptSame
<1>. QED  BY <1>3, KeptType DEF Dark, Text

\* Texts are joined without their blanks.
LEMMA DarkConcat ==
  ASSUME NEW s \in Text, NEW t \in Text
  PROVE  Dark(s \o t) = Dark(s) \o Dark(t)
<1>1. Dark(s) = Kept(s, Tokens \ Blanks) /\ Dark(t) = Kept(t, Tokens \ Blanks)
  BY DarkIs
<1>2. s \o t \in Text
  BY TextConcat
<1>3. Dark(s \o t) = Kept(s \o t, Tokens \ Blanks)
  BY <1>2, DarkIs
<1>4. Kept(s \o t, Tokens \ Blanks) = Kept(s, Tokens \ Blanks) \o Kept(t, Tokens \ Blanks)
  BY KeptConcat DEF Text
<1>. QED  BY <1>1, <1>3, <1>4

\* Nothing of a text of blanks.
LEMMA KeptNone ==
  ASSUME NEW T, NEW s \in Seq(T), NEW S, \A i \in 1..Len(s) : s[i] \notin S
  PROVE  Kept(s, S) = <<>>
<1> DEFINE f == [i \in 0..Len(s) |-> <<>>]
<1>1. Keeps(f, s, S, T) /\ f[Len(s)] = <<>>
  BY DEF Keeps
<1>. HIDE DEF f
<1>. QED  BY <1>1, KeptIs

\* Trimming blanks loses nothing else.
LEMMA DarkTrim ==
  ASSUME NEW s \in Text
  PROVE  Dark(TrimLeft(s, Blanks)) = Dark(s)
<1>1. PICK k \in 0..Len(s) :
           /\ \A i \in 1..k : s[i] \in Blanks
           /\ TrimLeft(s, Blanks) = SubSeq(s, k + 1, Len(s))
  BY TrimLeftIs
<1> DEFINE a == SubSeq(s, 1, k)
           b == SubSeq(s, k + 1, Len(s))
<1>2. a \in Text /\ b \in Text /\ s = a \o b /\ Len(a) = k /\ \A i \in 1..k : a[i] = s[i]
  BY TextSplit
<1>. HIDE DEF a, b
<1>3. Dark(a) = <<>>
  <2>1. \A i \in 1..Len(a) : a[i] \notin Tokens \ Blanks
    BY <1>1, <1>2
  <2>2. Kept(a, Tokens \ Blanks) = <<>>
    BY <1>2, <2>1, KeptNone DEF Text
  <2>. QED  BY <1>2, <2>2, DarkIs
<1>4. Dark(s) = Dark(b)
  <2>1. Dark(a \o b) = Dark(a) \o Dark(b) /\ Dark(b) \in Text
    BY <1>2, DarkConcat, DarkIs
  <2>. QED  BY <1>2, <1>3, <2>1, TextConcat
<1>. QED  BY <1>1, <1>4 DEF b

-----------------------------------------------------------------------------
(* Unfolding.                                                              *)

\* The lines stay lines.
LEMMA UnfoldsType ==
  ASSUME NEW ls \in Seq(LineType), NEW line \in LineType
  PROVE  Unfolds(ls, line) \in Seq(LineType)
<1>1. CASE ls # <<>> /\ Continues(line)
  <2> DEFINE n == Len(ls)
             last == [ls[n] EXCEPT !.text = @ \o Unfold(line)]
  <2>1. n \in 1..Len(ls) /\ ls[n] \in LineType
    BY <1>1
  <2>2. ls[n].text \in Text /\ line.text \in Text
    BY <2>1 DEF LineType, Text
  <2>3. ls[n].text \o Unfold(line) \in Text
    BY <2>2, TrimLeftType, TextConcat DEF Unfold
  <2>4. last \in LineType
    <3> DEFINE text == ls[n].text \o Unfold(line)
    <3>1. text \in Seq(Tokens)
      BY <2>3 DEF Text
    <3>2. last = [ls[n] EXCEPT !.text = text]
      OBVIOUS
    <3>. HIDE DEF text, last, n
    <3>. QED  BY <2>1, <3>1, <3>2 DEF LineType
  <2>5. Unfolds(ls, line) = [ls EXCEPT ![n] = last]
    BY <1>1, <2>1 DEF Unfolds
  <2>. HIDE DEF n, last
  <2>. QED  BY <2>1, <2>4, <2>5, ExceptSeq
<1>2. CASE ~(ls # <<>> /\ Continues(line))
  BY <1>2 DEF Unfolds
<1>. QED  BY <1>1, <1>2

\* g[n] is what the first n lines are unfolded to.
UnfoldsAll(g, f) ==
  /\ g \in [0..Len(f) -> Seq(LineType)]
  /\ g[0] = <<>>
  /\ \A i \in 1..Len(f) : g[i] = Unfolds(g[i - 1], f[i])

\* Whatever meets the equations of Unfolded is what it computes.
LEMMA UnfoldedIs ==
  ASSUME NEW f \in Seq(LineType), NEW g, UnfoldsAll(g, f)
  PROVE  Unfolded(f) = g[Len(f)]
<1> DEFINE Body(h, i) == IF i = 0 THEN <<>> ELSE Unfolds(h[i - 1], f[i])
           h == CHOOSE h : h = [i \in 0..Len(f) |-> Body(h, i)]
<1>1. g = [i \in 0..Len(f) |-> Body(g, i)]
  <2>1. Len(f) \in Nat /\ \A i \in 0..Len(f) : i # 0 => i \in 1..Len(f)
    OBVIOUS
  <2>2. \A i \in 0..Len(f) : g[i] = Body(g, i)
    BY <2>1 DEF UnfoldsAll
  <2>. HIDE DEF Body
  <2>. QED  BY <2>2 DEF UnfoldsAll
<1>2. h = [i \in 0..Len(f) |-> Body(h, i)]
  <2>. HIDE DEF Body
  <2>. QED  BY <1>1
<1>3. Unfolded(f) = h[Len(f)]
  BY DEF Unfolded
<1> HIDE DEF h
<1> DEFINE N == {n \in Nat : n <= Len(f) => h[n] = g[n]}
<1>4. 0 \in N
  BY <1>1, <1>2
<1>5. ASSUME NEW n \in Nat, n \in N PROVE n + 1 \in N
  <2>. SUFFICES ASSUME n + 1 <= Len(f) PROVE h[n + 1] = g[n + 1]
    OBVIOUS
  <2>1. n + 1 \in 0..Len(f) /\ n + 1 # 0 /\ (n + 1) - 1 = n
    OBVIOUS
  <2>2. h[n] = g[n]
    BY <1>5
  <2>3. Body(h, n + 1) = Body(g, n + 1)
    BY <2>1, <2>2
  <2>. HIDE DEF Body
  <2>. QED  BY <1>1, <1>2, <2>1, <2>3
<1>6. \A n \in Nat : n \in N
  <2>. HIDE DEF N
  <2>. QED  BY <1>4, <1>5, Induction
<1>. QED  BY <1>3, <1>6

\* Such a function exists.
LEMMA UnfoldedHas ==
  ASSUME NEW f \in Seq(LineType)
  PROVE  \E g : UnfoldsAll(g, f)
<1> DEFINE V == Seq(LineType)
           step == [i \in Nat |-> [v \in V |->
                     IF i \in 1..Len(f) THEN Unfolds(v, f[i]) ELSE v]]
<1>1. step \in [Nat -> [V -> V]]
  <2>1. \A i \in 1..Len(f) : f[i] \in LineType
    BY ElementOfSeq
  <2>2. \A v \in V : \A i \in 1..Len(f) : Unfolds(v, f[i]) \in V
    BY <2>1, UnfoldsType
  <2>. HIDE DEF V
  <2>. QED  BY <2>2
<1>2. PICK g : Runs(g, V, <<>>, step, Len(f))
  <2>1. <<>> \in V /\ Len(f) \in Nat
    OBVIOUS
  <2>. HIDE DEF step, V
  <2>. QED  BY <1>1, <2>1, Recursion
<1>3. ASSUME NEW i \in 1..Len(f) PROVE g[i] = Unfolds(g[i - 1], f[i])
  <2>1. i - 1 \in 0..Len(f) /\ i \in Nat
    OBVIOUS
  <2>2. g[i - 1] \in V
    <3>. HIDE DEF step, V
    <3>. QED  BY <1>2, <2>1 DEF Runs
  <2>3. g[i] = step[i][g[i - 1]]
    BY <1>2 DEF Runs
  <2>. HIDE DEF V
  <2>. QED  BY <2>1, <2>2, <2>3
<1>4. UnfoldsAll(g, f)
  <2>. HIDE DEF step
  <2>. QED  BY <1>2, <1>3 DEF UnfoldsAll, Runs
<1>. QED  BY <1>4

\* No lines.
LEMMA UnfoldedEmpty == Unfolded(<<>>) = <<>>
<1> DEFINE f == <<>>
           g == [i \in 0..0 |-> <<>>]
<1>1. UnfoldsAll(g, f) /\ f \in Seq(LineType) /\ Len(f) = 0 /\ g[0] = <<>>
  BY DEF UnfoldsAll
<1>. HIDE DEF f, g
<1>2. Unfolded(f) = g[0]
  BY <1>1, UnfoldedIs
<1>. QED  BY <1>1, <1>2 DEF f

\* One line more.
LEMMA UnfoldedAppend ==
  ASSUME NEW f \in Seq(LineType), NEW line \in LineType
  PROVE  /\ Unfolded(f) \in Seq(LineType)
         /\ Unfolded(Append(f, line)) = Unfolds(Unfolded(f), line)
<1>1. PICK g : UnfoldsAll(g, f)
  BY UnfoldedHas
<1> DEFINE n == Len(f)
           t == Append(f, line)
           new == Unfolds(g[n], line)
           h == [i \in 0..(n + 1) |-> IF i = n + 1 THEN new ELSE g[i]]
<1>2. /\ t \in Seq(LineType) /\ Len(t) = n + 1 /\ n \in Nat /\ t[n + 1] = line
      /\ \A i \in 1..n : t[i] = f[i]
  BY AppendProperties, LenProperties
<1>. HIDE DEF t
<1>3. g[n] \in Seq(LineType) /\ new \in Seq(LineType)
  <2>1. g[n] \in Seq(LineType)
    BY <1>1, <1>2 DEF UnfoldsAll
  <2>. HIDE DEF n
  <2>. QED  BY <2>1, UnfoldsType
<1>. HIDE DEF new
<1>4. h \in [0..(n + 1) -> Seq(LineType)] /\ h[0] = <<>> /\ h[n + 1] = new
  <2>1. g \in [0..n -> Seq(LineType)] /\ g[0] = <<>>
    BY <1>1 DEF UnfoldsAll
  <2>. HIDE DEF n
  <2>. QED  BY <1>2, <1>3, <2>1
<1>5. ASSUME NEW i \in 1..(n + 1) PROVE h[i] = Unfolds(h[i - 1], t[i])
  <2>1. CASE i = n + 1
    <3>1. h[i - 1] = g[n]
      BY <1>2, <2>1
    <3>. QED  BY <1>2, <1>4, <2>1, <3>1 DEF new
  <2>2. CASE i # n + 1
    <3>1. i \in 1..n /\ h[i] = g[i] /\ h[i - 1] = g[i - 1]
      BY <1>2, <2>2
    <3>. QED  BY <1>1, <1>2, <3>1 DEF UnfoldsAll
  <2>. QED  BY <2>1, <2>2
<1>6. Unfolded(f) = g[n]
  BY <1>1, UnfoldedIs
<1>. HIDE DEF h
<1>7. UnfoldsAll(h, t)
  BY <1>2, <1>4, <1>5 DEF UnfoldsAll
<1>8. Unfolded(t) = h[n + 1]
  BY <1>2, <1>7, UnfoldedIs
<1>. QED  BY <1>3, <1>4, <1>6, <1>8 DEF t, new

\* What is unfolded is lines.
LEMMA UnfoldedType ==
  ASSUME NEW f \in Seq(LineType)
  PROVE  Unfolded(f) \in Seq(LineType)
<1>1. PICK g : UnfoldsAll(g, f)
  BY UnfoldedHas
<1>2. Unfolded(f) = g[Len(f)] /\ Len(f) \in 0..Len(f)
  BY <1>1, UnfoldedIs, LenProperties
<1>. QED  BY <1>1, <1>2 DEF UnfoldsAll

=============================================================================
