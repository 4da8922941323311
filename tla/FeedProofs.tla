----------------------------- MODULE FeedProofs -----------------------------
(***************************************************************************)
(* Proofs about Feed: what a fetch returns for feeds of any lines, cut and *)
(* folded anywhere; that a calendar which was rendered comes back; and     *)
(* that a valid configuration filters and has every source enabled.        *)
(***************************************************************************)
EXTENDS TextProofs

-----------------------------------------------------------------------------
(* The inductive invariant.                                                *)

\* s is a sequence, of whatever elements.
Sequence(s) == s \in Seq(ToSet(s))

\* No section begins or ends after line b.
QuietAfter(ls, b, n) == \A k \in (b + 1)..n : ls[k] # Begin /\ ls[k] # End

\* Among the lines after b the last one of this key gave the value v, or there
\* is none.
LastValue(ls, b, n, key, v) ==
  \/ v = <<>> /\ \A i \in (b + 1)..n : ls[i].key # key
  \/ \E i \in (b + 1)..n :
       /\ ls[i].key = key
       /\ v = Value(ls[i])
       /\ \A j \in (i + 1)..n : ls[j].key # key

\* c is what the section says that began at line b.
Began(c, ls, b, n) ==
  /\ ls[b] = Begin
  /\ QuietAfter(ls, b, n)
  /\ c = [key \in Keys |-> c[key]]
  /\ \A key \in Keys : LastValue(ls, b, n, key, c[key])

\* A section is open iff its BEGIN is there and no END after it.
OpenAt(ls, n) == \E i \in 1..n : ls[i] = Begin /\ \A k \in i..n : ls[k] # End

ComponentSound(c, ls, n) ==
  /\ c # Nil => \E b \in 1..n : Began(c, ls, b, n)
  /\ OpenAt(ls, n) => c # Nil

FInv ==
  /\ pc \in {"start", "exit", "idle", "failed", "unfold"} =>
       component = Nil /\ events = <<>>
  /\ pc \in {"start", "idle"} => pos = 0 /\ lines = <<>>
  /\ pos \in Nat
  /\ Sequence(lines)
  /\ pc = "parse" =>
       /\ pos <= Len(lines)
       /\ Sequence(events)
       /\ ComponentSound(component, lines, pos)
  /\ SectionsRead

-----------------------------------------------------------------------------
(* Sections.                                                               *)

\* The last element is unique.
LEMMA LastOfIs ==
  ASSUME NEW S, S \subseteq Int, NEW i \in S, \A j \in S : j <= i
  PROVE  LastOf(S) = i
<1>1. LastOf(S) \in S /\ \A j \in S : j <= LastOf(S)
  BY DEF LastOf
<1>2. LastOf(S) \in Int /\ i \in Int /\ LastOf(S) <= i /\ i <= LastOf(S)
  BY <1>1
<1>. QED  BY <1>2

\* A component that has followed its section line by line is the section.
LEMMA BeganIsSection ==
  ASSUME NEW ls, NEW n \in Nat, NEW c, NEW b \in 1..n, Began(c, ls, b, n)
  PROVE  c = Section(ls, n)
<1> DEFINE B == {i \in 1..n : ls[i] = Begin}
           of(key) == {i \in (b + 1)..n : ls[i].key = key}
<1>1. LastOf(B) = b
  <2>1. B \subseteq Int /\ b \in B
    BY DEF Began
  <2>2. \A j \in B : j <= b
    BY DEF Began, QuietAfter
  <2>. QED  BY <2>1, <2>2, LastOfIs
<1>2. ASSUME NEW key \in Keys
      PROVE  c[key] = IF of(key) = {} THEN <<>> ELSE Value(ls[LastOf(of(key))])
  <2>1. LastValue(ls, b, n, key, c[key])
    BY DEF Began
  <2>2. CASE c[key] = <<>> /\ \A i \in (b + 1)..n : ls[i].key # key
    BY <2>2
  <2>3. CASE \E i \in (b + 1)..n :
               /\ ls[i].key = key
               /\ c[key] = Value(ls[i])
               /\ \A j \in (i + 1)..n : ls[j].key # key
    <3>1. PICK i \in (b + 1)..n :
               /\ ls[i].key = key
               /\ c[key] = Value(ls[i])
               /\ \A j \in (i + 1)..n : ls[j].key # key
      BY <2>3
    <3>2. of(key) \subseteq Int /\ i \in of(key) /\ \A j \in of(key) : j <= i
      BY <3>1
    <3>3. LastOf(of(key)) = i
      BY <3>2, LastOfIs
    <3>. QED  BY <3>1, <3>2, <3>3
  <2>. QED  BY <2>1, <2>2, <2>3 DEF LastValue
<1>3. c = [key \in Keys |-> c[key]]
  BY DEF Began
<1>4. Section(ls, n) =
        [key \in Keys |-> IF of(key) = {} THEN <<>> ELSE Value(ls[LastOf(of(key))])]
  BY <1>1 DEF Section
<1>. QED  BY <1>2, <1>3, <1>4

\* BEGIN and END are different lines.
LEMMA BeginIsNotEnd == Begin # End
BY DEF Begin, End, Line

\* A line that is no END closes nothing.
LEMMA ClosedStays ==
  ASSUME NEW ls, NEW n \in Nat, ~Closes(ls, n + 1)
  PROVE  Closed(ls, n + 1) = Closed(ls, n)
BY DEF Closed

\* An END closes a section iff one is open.
LEMMA EndCloses ==
  ASSUME NEW ls, NEW n \in Nat, ls[n + 1] = End
  PROVE  Closes(ls, n + 1) <=> OpenAt(ls, n)
BY DEF Closes, OpenAt

\* What is listed of n lines is listed of one more that closes nothing.
LEMMA ListsStays ==
  ASSUME NEW evs, NEW ls, NEW n \in Nat, Lists(evs, ls, n), ~Closes(ls, n + 1)
  PROVE  Lists(evs, ls, n + 1)
<1>1. PICK at \in [DOMAIN evs -> 1..n] :
    /\ \A i, j \in DOMAIN evs : i < j => at[i] < at[j]
    /\ {at[i] : i \in DOMAIN evs} = {j \in Closed(ls, n) : Gives(Section(ls, j - 1))}
    /\ \A i \in DOMAIN evs : evs[i] = EventFromICS(Section(ls, at[i] - 1))
  BY DEF Lists
<1>2. at \in [DOMAIN evs -> 1..(n + 1)]
  OBVIOUS
<1>3. Closed(ls, n + 1) = Closed(ls, n)
  BY ClosedStays
<1>. QED  BY <1>1, <1>2, <1>3 DEF Lists

\* A closed section that gives no event changes nothing either.
LEMMA ListsSkips ==
  ASSUME NEW evs, NEW ls, NEW n \in Nat, Lists(evs, ls, n),
         ~Gives(Section(ls, n))
  PROVE  Lists(evs, ls, n + 1)
<1>1. PICK at \in [DOMAIN evs -> 1..n] :
    /\ \A i, j \in DOMAIN evs : i < j => at[i] < at[j]
    /\ {at[i] : i \in DOMAIN evs} = {j \in Closed(ls, n) : Gives(Section(ls, j - 1))}
    /\ \A i \in DOMAIN evs : evs[i] = EventFromICS(Section(ls, at[i] - 1))
  BY DEF Lists
<1>2. at \in [DOMAIN evs -> 1..(n + 1)]
  OBVIOUS
<1>3. {j \in Closed(ls, n + 1) : Gives(Section(ls, j - 1))}
        = {j \in Closed(ls, n) : Gives(Section(ls, j - 1))}
  <2>1. \A j \in 1..(n + 1) : j \in 1..n \/ j - 1 = n
    OBVIOUS
  <2>. QED  BY <2>1 DEF Closed
<1>. QED  BY <1>1, <1>2, <1>3 DEF Lists

\* One that does is listed by appending its event.
LEMMA ListsAppends ==
  ASSUME NEW evs, Sequence(evs), NEW ls, NEW n \in Nat, Lists(evs, ls, n),
         Closes(ls, n + 1), Gives(Section(ls, n))
  PROVE  Lists(Append(evs, EventFromICS(Section(ls, n))), ls, n + 1)
<1> DEFINE e == EventFromICS(Section(ls, n))
           evs2 == Append(evs, e)
<1> HIDE DEF e
<1>1. PICK at \in [DOMAIN evs -> 1..n] :
    /\ \A i, j \in DOMAIN evs : i < j => at[i] < at[j]
    /\ {at[i] : i \in DOMAIN evs} = {j \in Closed(ls, n) : Gives(Section(ls, j - 1))}
    /\ \A i \in DOMAIN evs : evs[i] = EventFromICS(Section(ls, at[i] - 1))
  BY DEF Lists
<1>2. /\ Len(evs) \in Nat
      /\ DOMAIN evs = 1..Len(evs)
      /\ DOMAIN evs2 = 1..(Len(evs) + 1)
      /\ \A i \in DOMAIN evs : evs2[i] = evs[i]
      /\ evs2[Len(evs) + 1] = e
  BY DEF Sequence
<1> DEFINE at2 == [i \in DOMAIN evs2 |-> IF i \in DOMAIN evs THEN at[i] ELSE n + 1]
<1> HIDE DEF evs2
<1>3. at2 \in [DOMAIN evs2 -> 1..(n + 1)]
  BY <1>2
<1>4. \A i, j \in DOMAIN evs2 : i < j => at2[i] < at2[j]
  BY <1>1, <1>2
<1>5. \A i \in DOMAIN evs2 : evs2[i] = EventFromICS(Section(ls, at2[i] - 1))
  <2>1. ASSUME NEW i \in DOMAIN evs
        PROVE  evs2[i] = EventFromICS(Section(ls, at2[i] - 1))
    BY <1>1, <1>2
  <2>2. at2[Len(evs) + 1] - 1 = n
    BY <1>2
  <2>3. evs2[Len(evs) + 1] = EventFromICS(Section(ls, at2[Len(evs) + 1] - 1))
    BY <1>2, <2>2 DEF e
  <2>4. \A i \in DOMAIN evs2 : i \in DOMAIN evs \/ i = Len(evs) + 1
    BY <1>2
  <2>. HIDE DEF at2
  <2>. QED  BY <2>1, <2>3, <2>4
<1>6. {at2[i] : i \in DOMAIN evs2} = {j \in Closed(ls, n + 1) : Gives(Section(ls, j - 1))}
  <2>1. {at2[i] : i \in DOMAIN evs2} = {at[i] : i \in DOMAIN evs} \cup {n + 1}
    BY <1>2
  <2>2. Closed(ls, n + 1) = Closed(ls, n) \cup {n + 1}
    BY DEF Closed
  <2>3. (n + 1) - 1 = n
    OBVIOUS
  <2>. QED  BY <1>1, <2>1, <2>2, <2>3
<1>. QED  BY <1>3, <1>4, <1>5, <1>6 DEF Lists, e, evs2

-----------------------------------------------------------------------------
(* One line.                                                               *)

\* A line of a sequence of lines, and a line more.
LEMMA ClosedStarts ==
  ASSUME NEW ls, NEW n \in Nat,
         \A j \in Closed(ls, n) : StartOf(Section(ls, j - 1)) # None,
         Closes(ls, n + 1) => StartOf(Section(ls, n)) # None
  PROVE  \A j \in Closed(ls, n + 1) : StartOf(Section(ls, j - 1)) # None
<1>1. \A j \in 1..(n + 1) : j \in 1..n \/ (j = n + 1 /\ j - 1 = n)
  OBVIOUS
<1>. QED  BY <1>1 DEF Closed

\* A function on the keys is not Nil.
LEMMA NotNil ==
  ASSUME NEW c, c = [key \in Keys |-> c[key]]
  PROVE  c # Nil
<1>1. DOMAIN c = Keys
  OBVIOUS
<1>2. DOMAIN Nil = {}
  BY DEF Nil
<1>. QED  BY <1>1, <1>2 DEF Keys

\* BEGIN opens a section without values.
LEMMA SoundBegin ==
  ASSUME NEW ls, NEW n \in Nat, ls[n + 1] = Begin
  PROVE  ComponentSound(NoValues, ls, n + 1)
<1>1. Began(NoValues, ls, n + 1, n + 1)
  BY DEF Began, QuietAfter, NoValues, LastValue
<1>2. NoValues # Nil
  BY NotNil DEF NoValues
<1>. QED  BY <1>1, <1>2 DEF ComponentSound

\* Nothing is open after an END.
LEMMA SoundEnd ==
  ASSUME NEW ls, NEW n \in Nat, ls[n + 1] = End
  PROVE  ComponentSound(Nil, ls, n + 1)
BY DEF ComponentSound, OpenAt

\* Nothing opens by another line.
LEMMA SoundOutside ==
  ASSUME NEW ls, NEW n \in Nat, ComponentSound(Nil, ls, n), ls[n + 1] # Begin
  PROVE  ComponentSound(Nil, ls, n + 1)
<1>1. ~OpenAt(ls, n)
  BY DEF ComponentSound
<1>2. ~OpenAt(ls, n + 1)
  <2>. SUFFICES ASSUME NEW i \in 1..(n + 1), ls[i] = Begin,
                       \A k \in i..(n + 1) : ls[k] # End
                PROVE  FALSE
    BY DEF OpenAt
  <2>1. i \in 1..n
    OBVIOUS
  <2>. QED  BY <1>1, <2>1 DEF OpenAt
<1>. QED  BY <1>2 DEF ComponentSound

\* A line in an open section sets its key, if it is one that is looked at.
LEMMA SoundLine ==
  ASSUME NEW ls, NEW n \in Nat, NEW c, c # Nil, ComponentSound(c, ls, n),
         ls[n + 1] # Begin, ls[n + 1] # End, NEW c2,
         c2 = IF ls[n + 1].key \in Keys
              THEN [c EXCEPT ![ls[n + 1].key] = Value(ls[n + 1])] ELSE c
  PROVE  ComponentSound(c2, ls, n + 1)
<1>1. PICK b \in 1..n : Began(c, ls, b, n)
  BY DEF ComponentSound
<1>2. DOMAIN c = Keys /\ c2 = [key \in Keys |-> c2[key]]
  BY <1>1 DEF Began
<1>3. QuietAfter(ls, b, n + 1)
  <2>1. \A k \in (b + 1)..(n + 1) : k \in (b + 1)..n \/ k = n + 1
    OBVIOUS
  <2>. QED  BY <1>1, <2>1 DEF Began, QuietAfter
<1>4. ASSUME NEW key \in Keys PROVE LastValue(ls, b, n + 1, key, c2[key])
  <2>1. CASE ls[n + 1].key = key
    <3>1. c2[key] = Value(ls[n + 1])
      BY <1>2, <2>1
    <3>2. n + 1 \in (b + 1)..(n + 1) /\ \A j \in (n + 2)..(n + 1) : FALSE
      OBVIOUS
    <3>. QED  BY <2>1, <3>1, <3>2 DEF LastValue
  <2>2. CASE ls[n + 1].key # key
    <3>1. c2[key] = c[key]
      BY <1>2, <2>2
    <3>2. \A a \in Nat : \A k \in a..(n + 1) : k \in a..n \/ k = n + 1
      OBVIOUS
    <3>3. LastValue(ls, b, n, key, c[key])
      BY <1>1 DEF Began
    <3>4. CASE c[key] = <<>> /\ \A i \in (b + 1)..n : ls[i].key # key
      BY <2>2, <3>1, <3>2, <3>4 DEF LastValue
    <3>5. CASE \E i \in (b + 1)..n :
                 /\ ls[i].key = key
                 /\ c[key] = Value(ls[i])
                 /\ \A j \in (i + 1)..n : ls[j].key # key
      <4>1. PICK i \in (b + 1)..n :
                 /\ ls[i].key = key
                 /\ c[key] = Value(ls[i])
                 /\ \A j \in (i + 1)..n : ls[j].key # key
        BY <3>5
      <4>2. i \in (b + 1)..(n + 1) /\ i + 1 \in Nat
        OBVIOUS
      <4>3. \A j \in (i + 1)..(n + 1) : ls[j].key # key
        BY <2>2, <3>2, <4>1, <4>2
      <4>. QED  BY <3>1, <4>1, <4>2, <4>3 DEF LastValue
    <3>. QED  BY <3>3, <3>4, <3>5 DEF LastValue
  <2>. QED  BY <2>1, <2>2
<1>5. Began(c2, ls, b, n + 1)
  BY <1>1, <1>2, <1>3, <1>4 DEF Began
<1>6. c2 # Nil
  BY <1>2, NotNil
<1>. QED  BY <1>5, <1>6 DEF ComponentSound

\* An open section is one, and the component is what it says.
LEMMA ComponentIsSection ==
  ASSUME NEW ls, NEW n \in Nat, NEW c, c # Nil, ComponentSound(c, ls, n)
  PROVE  OpenAt(ls, n) /\ c = Section(ls, n)
<1>1. PICK b \in 1..n : Began(c, ls, b, n)
  BY DEF ComponentSound
<1>2. \A k \in b..n : ls[k] # End
  <2>1. \A k \in b..n : k = b \/ k \in (b + 1)..n
    OBVIOUS
  <2>. QED  BY <1>1, <2>1, BeginIsNotEnd DEF Began, QuietAfter
<1>3. OpenAt(ls, n)
  BY <1>1, <1>2 DEF OpenAt, Began
<1>. QED  BY <1>1, <1>3, BeganIsSection

-----------------------------------------------------------------------------
(* The invariant.                                                          *)

\* Nothing is read at first.
LEMMA InitFInv == Init => FInv
BY DEF Init, FInv, Sequence, SectionsRead, ToSet

\* Before the parser starts, nothing but the lines changes.
LEMMA BeforeKeeps ==
  ASSUME FInv, Start \/ Fetch \/ FetchFails
  PROVE  FInv'
<1>1. /\ pc' \in {"exit", "idle", "unfold", "failed"}
      /\ pos' = pos /\ lines' = lines /\ component' = component /\ events' = events
      /\ component = Nil /\ events = <<>>
      /\ pos = 0 /\ lines = <<>>
  BY DEF Start, Fetch, FetchFails, FInv, input
<1>. QED  BY <1>1 DEF FInv, SectionsRead, Sequence, ToSet

\* A sequence stays one when it grows or when an element changes.
LEMMA SequenceAppend ==
  ASSUME NEW s, Sequence(s), NEW e
  PROVE  Sequence(Append(s, e))
<1> DEFINE t == Append(s, e)
<1>1. s \in Seq(ToSet(s) \cup {e})
  BY DEF Sequence
<1>2. t \in Seq(ToSet(s) \cup {e})
  <2>1. e \in ToSet(s) \cup {e}
    OBVIOUS
  <2>. QED  BY <1>1, <2>1, AppendProperties
<1>. HIDE DEF t
<1>3. Len(t) \in Nat /\ t = [i \in 1..Len(t) |-> t[i]] /\ DOMAIN t = 1..Len(t)
  BY <1>2, LenProperties
<1>4. \A i \in 1..Len(t) : t[i] \in ToSet(t)
  BY <1>3 DEF ToSet
<1>5. t \in Seq(ToSet(t))
  BY <1>3, <1>4, IsASeq
<1>. QED  BY <1>5 DEF Sequence, t

\* Changing elements keeps the length.
LEMMA SequenceExcept ==
  ASSUME NEW s, Sequence(s), NEW t, DOMAIN t = DOMAIN s, t = [i \in DOMAIN s |-> t[i]]
  PROVE  Sequence(t)
<1>1. Len(s) \in Nat /\ DOMAIN s = 1..Len(s)
  BY DEF Sequence
<1>. QED  BY <1>1, IsASeq DEF Sequence, ToSet

\* The scanner only adds to the lines.
LEMMA ScanLineKeeps ==
  ASSUME FInv, ScanLine
  PROVE  FInv'
<1>1. Sequence(lines')
  <2>. DEFINE line == Scanned(body[pos + 1])
              folded == [lines EXCEPT ![Len(lines)].text = @ \o Unfold(line)]
  <2>1. lines' = folded \/ lines' = Append(lines, line)
    BY DEF ScanLine, Unfolds
  <2>2. Sequence(folded)
    BY SequenceExcept DEF FInv
  <2>3. Sequence(Append(lines, line))
    BY SequenceAppend DEF FInv
  <2>. QED  BY <2>1, <2>2, <2>3
<1>2. /\ pc = "unfold" /\ pc' = pc /\ component' = component /\ events' = events
      /\ pos' = pos + 1
  BY DEF ScanLine
<1>. QED  BY <1>1, <1>2 DEF FInv, SectionsRead

\* The parser starts with no line, no section and no event.
LEMMA ScanEndsKeeps ==
  ASSUME FInv, ScanEnds
  PROVE  FInv'
<1>1. /\ pc' = "parse" /\ pos' = 0 /\ lines' = lines
      /\ component' = Nil /\ events' = <<>>
  BY DEF ScanEnds, FInv
<1>2. Len(lines) \in Nat
  BY DEF FInv, Sequence
<1>3. Closed(lines, 0) = {}
  BY DEF Closed
<1>4. Lists(<<>>, lines, 0)
  <2>. DEFINE at == [i \in {} |-> 0]
  <2>1. DOMAIN <<>> = {} /\ at \in [{} -> 1..0]
    OBVIOUS
  <2>. QED  BY <1>3, <2>1 DEF Lists
<1>5. ComponentSound(Nil, lines, 0)
  BY DEF ComponentSound, OpenAt
<1>6. SectionsRead'
  BY <1>1, <1>3, <1>4 DEF SectionsRead
<1>. QED  BY <1>1, <1>2, <1>5, <1>6 DEF FInv, Sequence, ToSet

\* A step that reads a line: what the invariant asks of it.
LEMMA ParsingKeeps ==
  ASSUME FInv, Parsing, pc' = "parse", Sequence(events'),
         ComponentSound(component', lines, pos + 1),
         Lists(events', lines, pos + 1),
         Closes(lines, pos + 1) => StartOf(Section(lines, pos)) # None
  PROVE  FInv'
<1>1. /\ pos' = pos + 1 /\ lines' = lines /\ pos \in Nat /\ pc = "parse"
      /\ pos < Len(lines) /\ Len(lines) \in Nat
  BY DEF Parsing, FInv, Sequence
<1>2. \A j \in Closed(lines, pos + 1) : StartOf(Section(lines, j - 1)) # None
  BY <1>1, ClosedStarts DEF FInv, SectionsRead
<1>3. SectionsRead'
  BY <1>1, <1>2 DEF SectionsRead
<1>. QED  BY <1>1, <1>3 DEF FInv

\* A BEGIN opens a section and closes none.
LEMMA ParseBeginKeeps ==
  ASSUME FInv, ParseBegin
  PROVE  FInv'
<1>1. /\ pc = "parse" /\ pc' = "parse" /\ events' = events /\ pos \in Nat
      /\ lines[pos + 1] = Begin /\ component' = NoValues
      /\ Sequence(events) /\ Lists(events, lines, pos)
  BY DEF ParseBegin, Parsing, Current, FInv, SectionsRead
<1>2. ~Closes(lines, pos + 1)
  BY <1>1, BeginIsNotEnd DEF Closes
<1>3. ComponentSound(NoValues, lines, pos + 1)
  BY <1>1, SoundBegin
<1>4. Lists(events, lines, pos + 1)
  BY <1>1, <1>2, ListsStays
<1>. QED  BY <1>1, <1>2, <1>3, <1>4, ParsingKeeps DEF ParseBegin

\* Another line sets a value, or is outside of every section.
LEMMA ParseLineKeeps ==
  ASSUME FInv, ParseLine
  PROVE  FInv'
<1>1. /\ pc = "parse" /\ pc' = "parse" /\ events' = events /\ pos \in Nat
      /\ lines[pos + 1] # Begin
      /\ component # Nil => lines[pos + 1] # End
      /\ Sequence(events) /\ Lists(events, lines, pos)
      /\ ComponentSound(component, lines, pos)
  BY DEF ParseLine, Parsing, Current, FInv, SectionsRead
<1>2. ~Closes(lines, pos + 1)
  <2>1. CASE lines[pos + 1] # End
    BY <2>1 DEF Closes
  <2>2. CASE lines[pos + 1] = End
    <3>1. ~OpenAt(lines, pos)
      BY <1>1, <2>2 DEF ComponentSound
    <3>. QED  BY <1>1, <2>2, <3>1, EndCloses
  <2>. QED  BY <2>1, <2>2
<1>3. ComponentSound(component', lines, pos + 1)
  <2>1. CASE component = Nil
    <3>1. component' = Nil
      BY <2>1 DEF ParseLine
    <3>. QED  BY <1>1, <2>1, <3>1, SoundOutside
  <2>2. CASE component # Nil
    <3>1. component' = IF lines[pos + 1].key \in Keys
               THEN [component EXCEPT ![lines[pos + 1].key] = Value(lines[pos + 1])]
               ELSE component
      BY <2>2 DEF ParseLine, Current
    <3>. QED  BY <1>1, <2>2, <3>1, SoundLine
  <2>. QED  BY <2>1, <2>2
<1>4. Lists(events, lines, pos + 1)
  BY <1>1, <1>2, ListsStays
<1>. QED  BY <1>1, <1>2, <1>3, <1>4, ParsingKeeps DEF ParseLine

\* What both ends of a section have in common.
LEMMA EndFacts ==
  ASSUME FInv, NEW hasStart \in BOOLEAN, ParsingEnd(hasStart)
  PROVE  /\ pc = "parse" /\ pos \in Nat /\ Sequence(events)
         /\ pos' = pos + 1 /\ lines' = lines
         /\ lines[pos + 1] = End
         /\ Closes(lines, pos + 1)
         /\ component = Section(lines, pos)
         /\ hasStart <=> StartOf(component) # None
         /\ Lists(events, lines, pos)
<1>1. /\ pc = "parse" /\ pos \in Nat /\ Sequence(events)
      /\ pos' = pos + 1 /\ lines' = lines
      /\ lines[pos + 1] = End
      /\ component # Nil
      /\ hasStart <=> StartOf(component) # None
      /\ Lists(events, lines, pos)
      /\ ComponentSound(component, lines, pos)
  BY DEF ParsingEnd, Parsing, Current, FInv, SectionsRead
<1>2. OpenAt(lines, pos) /\ component = Section(lines, pos)
  BY <1>1, ComponentIsSection
<1>3. Closes(lines, pos + 1)
  BY <1>1, <1>2, EndCloses
<1>. QED  BY <1>1, <1>2, <1>3

\* An END lists the event of its section, if it gives one.
LEMMA ParseEndKeeps ==
  ASSUME FInv, ParseEnd
  PROVE  FInv'
<1>1. ParsingEnd(TRUE) /\ pc' = pc /\ component' = Nil /\ events' = Found
  BY DEF ParseEnd
<1> DEFINE c == Section(lines, pos)
<1>2. /\ pc = "parse" /\ pos \in Nat /\ Sequence(events)
      /\ lines[pos + 1] = End
      /\ Closes(lines, pos + 1)
      /\ component = c
      /\ StartOf(c) # None
      /\ Lists(events, lines, pos)
  BY <1>1, EndFacts
<1>3. Lists(events', lines, pos + 1) /\ Sequence(events')
  <2>1. CASE Gives(c)
    <3>1. events' = Append(events, EventFromICS(c))
      BY <1>1, <1>2, <2>1 DEF Found, Gives
    <3>. QED  BY <1>2, <2>1, <3>1, ListsAppends, SequenceAppend
  <2>2. CASE ~Gives(c)
    <3>1. events' = events
      BY <1>1, <1>2, <2>2 DEF Found, Gives
    <3>. QED  BY <1>2, <2>2, <3>1, ListsSkips
  <2>. QED  BY <2>1, <2>2
<1>4. ComponentSound(Nil, lines, pos + 1)
  BY <1>2, SoundEnd
<1>5. Parsing
  BY <1>1 DEF ParsingEnd
<1>. QED  BY <1>1, <1>2, <1>3, <1>4, <1>5, ParsingKeeps

\* A feed is refused at the END of a section without a start.
LEMMA RefuseKeeps ==
  ASSUME FInv, Refuse
  PROVE  FInv'
<1>1. ParsingEnd(FALSE) /\ pc' = "refused"
  BY DEF Refuse
<1>2. /\ pos \in Nat /\ pos' = pos + 1 /\ lines' = lines
      /\ Closes(lines, pos + 1)
      /\ StartOf(Section(lines, pos)) = None
  BY <1>1, EndFacts
<1>3. pos' \in Closed(lines', pos') /\ pos' - 1 = pos
  BY <1>2 DEF Closed
<1>4. SectionsRead'
  BY <1>1, <1>2, <1>3 DEF SectionsRead
<1>. QED  BY <1>1, <1>2, <1>4 DEF FInv

\* The filter comes after everything the invariant is about.
LEMMA ReturnKeeps ==
  ASSUME FInv, Return
  PROVE  FInv'
<1>1. pc' = "done" /\ pos' = pos /\ lines' = lines
  BY DEF Return
<1>. QED  BY <1>1 DEF FInv, SectionsRead

\* Every step preserves the invariant of the parser.
LEMMA NextFInv ==
  ASSUME FInv, [Next]_vars
  PROVE  FInv'
<1>1. CASE Next
  BY <1>1, BeforeKeeps, ScanLineKeeps, ScanEndsKeeps, ParseBeginKeeps,
     ParseEndKeeps, RefuseKeeps, ParseLineKeeps, ReturnKeeps DEF Next
<1>2. CASE UNCHANGED vars
  BY <1>2 DEF vars, FInv, SectionsRead
<1>. QED  BY <1>1, <1>2

\* For any lines, of a feed that is whole or cut, the parser returns exactly the
\* events of the closed sections, in their order, and refuses a feed only for a
\* section without a start (ParseICS and unfoldICS).
THEOREM SectionsHold == Spec => []SectionsRead
<1>1. FInv => SectionsRead
  BY DEF FInv
<1>. QED  BY InitFInv, NextFInv, <1>1, PTL DEF Spec

-----------------------------------------------------------------------------
(* The configuration.                                                      *)

\* An optional source is there or not.
LEMMA OptionalIs ==
  ASSUME NEW setting, NEW s
  PROVE  /\ Optional(setting, s) \in Seq({s})
         /\ ToSet(Optional(setting, s)) = IF setting # Empty THEN {s} ELSE {}
<1>1. CASE setting # Empty
  <2>1. Optional(setting, s) = <<s>>
    BY <1>1 DEF Optional
  <2>2. <<s>> \in Seq({s}) /\ ToSet(<<s>>) = {s}
    BY DEF ToSet
  <2>. QED  BY <1>1, <2>1, <2>2
<1>2. CASE setting = Empty
  <2>1. Optional(setting, s) = <<>>
    BY <1>2 DEF Optional
  <2>2. <<>> \in Seq({s}) /\ ToSet(<<>>) = {}
    BY DEF ToSet
  <2>. QED  BY <1>2, <2>1, <2>2
<1>. QED  BY <1>1, <1>2

\* The elements of a concatenation.
LEMMA ToSetConcat ==
  ASSUME NEW S, NEW s \in Seq(S), NEW t \in Seq(S)
  PROVE  s \o t \in Seq(S) /\ ToSet(s \o t) = ToSet(s) \cup ToSet(t)
<1>1. s \o t \in Seq(S) /\ Len(s) \in Nat /\ Len(t) \in Nat
  OBVIOUS
<1>2. /\ DOMAIN s = 1..Len(s) /\ DOMAIN t = 1..Len(t)
      /\ DOMAIN (s \o t) = 1..(Len(s) + Len(t))
      /\ \A i \in DOMAIN s : (s \o t)[i] = s[i]
      /\ \A i \in DOMAIN t : (s \o t)[Len(s) + i] = t[i]
  OBVIOUS
<1>3. ToSet(s \o t) \subseteq ToSet(s) \cup ToSet(t)
  <2>. SUFFICES ASSUME NEW i \in 1..(Len(s) + Len(t))
                PROVE  (s \o t)[i] \in ToSet(s) \cup ToSet(t)
    BY <1>2 DEF ToSet
  <2>1. CASE i <= Len(s)
    BY <1>1, <1>2, <2>1 DEF ToSet
  <2>2. CASE i > Len(s)
    <3>1. i - Len(s) \in DOMAIN t /\ Len(s) + (i - Len(s)) = i
      BY <1>1, <1>2, <2>2
    <3>. QED  BY <1>2, <3>1 DEF ToSet
  <2>. QED  BY <1>1, <2>1, <2>2
<1>4. ToSet(s) \subseteq ToSet(s \o t)
  BY <1>1, <1>2 DEF ToSet
<1>5. ToSet(t) \subseteq ToSet(s \o t)
  <2>. SUFFICES ASSUME NEW i \in DOMAIN t
                PROVE  t[i] \in ToSet(s \o t)
    BY DEF ToSet
  <2>1. Len(s) + i \in DOMAIN (s \o t) /\ (s \o t)[Len(s) + i] = t[i]
    BY <1>1, <1>2
  <2>. QED  BY <2>1 DEF ToSet
<1>. QED  BY <1>1, <1>3, <1>4, <1>5

\* The sources of a configuration.
LEMMA SourcesAre ==
  ASSUME NEW c \in Configs
  PROVE  ToSet(SourcesFromConfig(c)) =
           {FeedSource(c, c.feeds[i]) : i \in DOMAIN c.feeds}
             \cup (IF c.tinkerers.key # Empty THEN {Tinkerers} ELSE {})
             \cup (IF c.searxng.url # Empty THEN {SearXNG} ELSE {})
             \cup (IF c.gemini.endpoint # Empty THEN {Gemini} ELSE {})
<1> DEFINE f == [i \in DOMAIN c.feeds |-> FeedSource(c, c.feeds[i])]
           F == {FeedSource(c, c.feeds[i]) : i \in DOMAIN c.feeds}
           A == Optional(c.tinkerers.key, Tinkerers)
           S == Optional(c.searxng.url, SearXNG)
           G == Optional(c.gemini.endpoint, Gemini)
           All == F \cup {Tinkerers, SearXNG, Gemini}
<1>1. f \in Seq(All) /\ ToSet(f) = F
  <2>1. c.feeds \in Seq(FeedConfig)
    BY FeedAssumption
  <2>2. Len(c.feeds) \in Nat /\ DOMAIN c.feeds = 1..Len(c.feeds)
    BY <2>1
  <2>. HIDE DEF F
  <2>3. \A i \in 1..Len(c.feeds) : FeedSource(c, c.feeds[i]) \in All
    BY <2>2 DEF F
  <2>4. f \in Seq(All)
    BY <2>2, <2>3, IsASeq
  <2>. QED  BY <2>4 DEF ToSet, F
<1>2. A \in Seq({Tinkerers}) /\ S \in Seq({SearXNG}) /\ G \in Seq({Gemini})
  BY OptionalIs
<1>3. A \in Seq(All) /\ S \in Seq(All) /\ G \in Seq(All)
  <2>. DEFINE sub(X, Y) == \A s \in Seq(X) : X \subseteq Y => s \in Seq(Y)
  <2>1. \A X, Y : sub(X, Y)
    OBVIOUS
  <2>2. {Tinkerers} \subseteq All /\ {SearXNG} \subseteq All /\ {Gemini} \subseteq All
    OBVIOUS
  <2>. HIDE DEF A, S, G, All
  <2>. QED  BY <1>2, <2>1, <2>2
<1>. DEFINE fA == f \o A
            fAS == fA \o S
            fASG == fAS \o G
<1>. HIDE DEF f, F, A, S, G, All
<1>4. fA \in Seq(All) /\ ToSet(fA) = ToSet(f) \cup ToSet(A)
  BY <1>1, <1>3, ToSetConcat
<1>. HIDE DEF fA
<1>5. fAS \in Seq(All) /\ ToSet(fAS) = ToSet(fA) \cup ToSet(S)
  BY <1>3, <1>4, ToSetConcat
<1>. HIDE DEF fAS
<1>6. ToSet(fASG) = ToSet(fAS) \cup ToSet(G)
  BY <1>3, <1>5, ToSetConcat
<1>7. SourcesFromConfig(c) = fASG
  BY DEF SourcesFromConfig, f, A, S, G, fA, fAS
<1>. HIDE DEF fASG
<1>8. ToSet(SourcesFromConfig(c)) = F \cup ToSet(A) \cup ToSet(S) \cup ToSet(G)
  BY <1>1, <1>4, <1>5, <1>6, <1>7
<1>. QED  BY <1>8, OptionalIs DEF F, A, S, G

\* What Validate and SourcesFromConfig together guarantee.
LEMMA ValidSourcesEnabled ==
  ASSUME NEW c \in Configs, Validate(c)
  PROVE  /\ \A s \in ToSet(SourcesFromConfig(c)) : Enabled(c, s)
         /\ Verifier(c) <=> Gemini \in ToSet(SourcesFromConfig(c))
<1>1. /\ Tinkerers.kind = "ai-tinkerers" /\ SearXNG.kind = "searxng-discovery"
      /\ Gemini.kind = "gemini-discovery"
      /\ \A feed : FeedSource(c, feed).kind = "feed"
  BY DEF Tinkerers, SearXNG, Gemini, BuiltIn, FeedSource
<1>2. Tinkerers # SearXNG /\ SearXNG # Gemini /\ Tinkerers # Gemini
  BY <1>1
<1>3. c.gemini.endpoint # Empty => c.gemini.key # Empty \/ c.gemini.token # Empty
  BY DEF Validate, GeminiValid, GeminiConfigured
<1>4. \A feed : Enabled(c, FeedSource(c, feed))
  BY <1>1 DEF Enabled
<1>5. c.tinkerers.key # Empty => Enabled(c, Tinkerers)
  BY <1>1 DEF Enabled
<1>6. c.searxng.url # Empty => Enabled(c, SearXNG)
  BY <1>1, <1>2 DEF Enabled
<1>7. c.gemini.endpoint # Empty => Enabled(c, Gemini)
  BY <1>1, <1>2, <1>3 DEF Enabled
<1>8. \A s \in ToSet(SourcesFromConfig(c)) : Enabled(c, s)
  BY <1>4, <1>5, <1>6, <1>7, SourcesAre
<1>9. Gemini \in ToSet(SourcesFromConfig(c)) <=> c.gemini.endpoint # Empty
  BY <1>1, <1>2, SourcesAre
<1>. QED  BY <1>7, <1>8, <1>9 DEF Verifier

\* A process that has started has a valid configuration, and keeps it.
CInv ==
  /\ config \in Configs
  /\ pc \notin {"start", "exit"} => Validate(config)

\* At first a configuration is only chosen.
LEMMA InitCInv == Init => CInv
BY DEF Init, CInv

\* The configuration stays, and Start validates it.
LEMMA NextCInv ==
  ASSUME CInv, [Next]_vars
  PROVE  CInv'
<1>1. CASE Start
  BY <1>1 DEF Start, CInv, input
<1>2. CASE Fetch \/ FetchFails
  BY <1>2 DEF Fetch, FetchFails, CInv, input
<1>3. CASE ScanLine \/ ScanEnds
  BY <1>3 DEF ScanLine, ScanEnds, CInv, input
<1>4. CASE ParseBegin \/ ParseEnd \/ Refuse \/ ParseLine
  BY <1>4 DEF ParseBegin, ParseEnd, Refuse, ParseLine, ParsingEnd, Parsing, CInv, input
<1>5. CASE Return
  BY <1>5 DEF Return, AtEnd, CInv, input
<1>6. CASE UNCHANGED vars
  BY <1>6 DEF vars, CInv, input
<1>. QED  BY <1>1, <1>2, <1>3, <1>4, <1>5, <1>6 DEF Next

\* For every configuration: a process that gets past Validate has no disabled
\* source, and discovers with Gemini exactly when it verifies with it
\* (SourcesFromConfig).
THEOREM EnabledHolds == Spec => []SourcesEnabled
<1>1. CInv => SourcesEnabled
  BY ValidSourcesEnabled DEF CInv, SourcesEnabled
<1>. QED  BY InitCInv, NextCInv, <1>1, PTL DEF Spec

-----------------------------------------------------------------------------
(* What is read: beginnings of feeds.                                      *)

\* The beginning of a sequence.
LEMMA PrefixIs ==
  ASSUME NEW T, NEW f \in Seq(T), NEW n \in 0..Len(f)
  PROVE  /\ SubSeq(f, 1, n) \in Seq(T)
         /\ Len(SubSeq(f, 1, n)) = n
         /\ \A i \in 1..n : SubSeq(f, 1, n)[i] = f[i]
<1>1. Len(f) \in Nat /\ n \in Nat /\ n <= Len(f) /\ \A i \in 1..Len(f) : f[i] \in T
  OBVIOUS
<1>2. \A i \in 1..n : f[i] \in T
  BY <1>1
<1>3. 1 \in Int /\ n \in Int
  BY <1>1
<1>4. /\ SubSeq(f, 1, n) \in Seq(T)
      /\ Len(SubSeq(f, 1, n)) = IF 1 <= n THEN n - 1 + 1 ELSE 0
      /\ \A i \in 1..(n - 1 + 1) : SubSeq(f, 1, n)[i] = f[1 + i - 1]
  BY <1>2, <1>3, SubSeqProperties
<1>5. n = IF 1 <= n THEN n - 1 + 1 ELSE 0
  BY <1>1
<1>6. \A i \in 1..n : i \in 1..(n - 1 + 1) /\ 1 + i - 1 = i
  BY <1>1
<1>. QED  BY <1>4, <1>5, <1>6

\* The whole is a beginning, and so is nothing.
LEMMA PrefixEnds ==
  ASSUME NEW T, NEW f \in Seq(T)
  PROVE  SubSeq(f, 1, Len(f)) = f /\ SubSeq(f, 1, 0) = <<>>
<1>1. Len(f) \in Nat /\ Len(f) \in 0..Len(f) /\ 0 \in 0..Len(f)
  OBVIOUS
<1>2. /\ SubSeq(f, 1, Len(f)) \in Seq(T) /\ Len(SubSeq(f, 1, Len(f))) = Len(f)
      /\ \A i \in 1..Len(f) : SubSeq(f, 1, Len(f))[i] = f[i]
  BY <1>1, PrefixIs
<1>3. SubSeq(f, 1, Len(f)) = f
  BY <1>2, SeqEqual
<1>4. SubSeq(f, 1, 0) = <<>>
  BY SubSeqEmpty
<1>. QED  BY <1>3, <1>4

\* One element more.
LEMMA PrefixAppend ==
  ASSUME NEW T, NEW f \in Seq(T), NEW n \in Nat, n < Len(f)
  PROVE  /\ f[n + 1] \in T
         /\ SubSeq(f, 1, n) \in Seq(T)
         /\ SubSeq(f, 1, n + 1) = Append(SubSeq(f, 1, n), f[n + 1])
<1>1. n \in 0..Len(f) /\ n + 1 \in 0..Len(f) /\ n + 1 \in 1..Len(f)
  OBVIOUS
<1>2. f[n + 1] \in T
  BY <1>1
<1> DEFINE a == SubSeq(f, 1, n)
           b == SubSeq(f, 1, n + 1)
<1>3. /\ a \in Seq(T) /\ Len(a) = n /\ \A i \in 1..n : a[i] = f[i]
  BY <1>1, PrefixIs
<1>4. /\ b \in Seq(T) /\ Len(b) = n + 1 /\ \A i \in 1..(n + 1) : b[i] = f[i]
  BY <1>1, PrefixIs
<1>. HIDE DEF a, b
<1>5. /\ Append(a, f[n + 1]) \in Seq(T) /\ Len(Append(a, f[n + 1])) = n + 1
      /\ Append(a, f[n + 1])[n + 1] = f[n + 1]
      /\ \A i \in 1..n : Append(a, f[n + 1])[i] = a[i]
  BY <1>2, <1>3, AppendProperties
<1>6. \A i \in 1..(n + 1) : i \in 1..n \/ i = n + 1
  OBVIOUS
<1>7. \A i \in 1..(n + 1) : b[i] = Append(a, f[n + 1])[i]
  BY <1>3, <1>4, <1>5, <1>6
<1>8. b = Append(a, f[n + 1])
  BY <1>4, <1>5, <1>7, SeqEqual
<1>. QED  BY <1>2, <1>3, <1>8 DEF a, b

\* A line that is scanned is one.
LEMMA ScannedType ==
  ASSUME NEW line \in LineType
  PROVE  /\ Scanned(line) \in LineType
         /\ Scanned(line).key = line.key /\ Scanned(line).zone = line.zone
         /\ Scanned(line).text = DropCR(line.text)
<1>1. DropCR(line.text) \in Seq(Tokens)
  BY DropCRType DEF LineType, Text
<1>. QED  BY <1>1 DEF LineType, Scanned

\* So are all.
LEMMA AllScannedType ==
  ASSUME NEW f \in Seq(LineType)
  PROVE  /\ AllScanned(f) \in Seq(LineType)
         /\ Len(AllScanned(f)) = Len(f)
         /\ \A i \in 1..Len(f) : AllScanned(f)[i] = Scanned(f[i])
<1> DEFINE g == [i \in 1..Len(f) |-> Scanned(f[i])]
<1>1. Len(f) \in Nat /\ DOMAIN f = 1..Len(f)
  BY LenProperties
<1>2. \A i \in 1..Len(f) : Scanned(f[i]) \in LineType
  BY ElementOfSeq, ScannedType
<1>3. g \in Seq(LineType)
  <2>1. \A i \in 1..Len(f) : g[i] \in LineType
    BY <1>2
  <2>2. g = [i \in 1..Len(f) |-> g[i]]
    OBVIOUS
  <2>. HIDE DEF g
  <2>. QED  BY <1>1, <2>1, <2>2, IsASeq
<1>4. Len(g) = Len(f) /\ \A i \in 1..Len(f) : g[i] = Scanned(f[i])
  BY <1>1
<1>5. AllScanned(f) = g
  BY <1>1 DEF AllScanned
<1>. QED  BY <1>3, <1>4, <1>5

\* What may be read of a feed.
Bodies(f) == {f, <<>>} \cup UNION {Cuts(f, n) : n \in DOMAIN f}
Cut(line, k) == [line EXCEPT !.text = SubSeq(Append(@, CR), 1, k)]

\* A line that is cut is one, and begins as it did.
LEMMA CutType ==
  ASSUME NEW line \in LineType, NEW k \in 0..(Len(line.text) + 1)
  PROVE  /\ Cut(line, k) \in LineType
         /\ Cut(line, k).key = line.key /\ Cut(line, k).zone = line.zone
         /\ Cut(line, k).text # <<>> /\ Cut(line, k).text[1] # CR =>
              line.text # <<>> /\ line.text[1] = Cut(line, k).text[1]
<1> DEFINE whole == Append(line.text, CR)
           text == SubSeq(whole, 1, k)
           n == Len(line.text)
<1>1. line.text \in Text /\ CR \in Tokens
  BY TokensAssumption DEF LineType, Text, White
<1>2. /\ whole \in Text /\ n \in Nat /\ Len(whole) = n + 1 /\ whole[n + 1] = CR
      /\ \A i \in 1..n : whole[i] = line.text[i]
  BY <1>1, AppendProperties, LenProperties DEF Text
<1>. HIDE DEF whole
<1>3. text \in Text /\ Len(text) = k /\ k \in Nat /\ \A i \in 1..k : text[i] = whole[i]
  <2>1. k \in 0..Len(whole) /\ k \in Nat /\ whole \in Text
    BY <1>2
  <2>. QED  BY <2>1, TextSplit
<1>4. Cut(line, k) = [line EXCEPT !.text = text]
  BY DEF Cut, whole
<1>. HIDE DEF text
<1>5. /\ Cut(line, k) \in LineType
      /\ Cut(line, k).key = line.key /\ Cut(line, k).zone = line.zone
      /\ Cut(line, k).text = text
  BY <1>3, <1>4 DEF LineType, Text
<1>6. ASSUME text # <<>>, text[1] # CR
      PROVE  line.text # <<>> /\ line.text[1] = text[1]
  <2>1. k # 0
    BY <1>3, <1>6 DEF Text
  <2>2. text[1] = whole[1]
    BY <1>3, <2>1
  <2>3. n # 0
    BY <1>2, <1>6, <2>2
  <2>4. whole[1] = line.text[1]
    BY <1>2, <2>3
  <2>. QED  BY <2>2, <2>3, <2>4
<1>. QED  BY <1>5, <1>6

\* A cut feed is the lines before the cut and what is left of the next one.
LEMMA CutIs ==
  ASSUME NEW f \in Seq(LineType), NEW n \in DOMAIN f, NEW b \in Cuts(f, n)
  PROVE  /\ b \in Seq(LineType)
         /\ \E k \in 0..(Len(f[n].text) + 1) : b = Append(SubSeq(f, 1, n - 1), Cut(f[n], k))
<1>1. PICK k \in 0..(Len(f[n].text) + 1) : b = SubSeq(f, 1, n - 1) \o <<Cut(f[n], k)>>
  BY DEF Cuts, Cut
<1>2. n \in 1..Len(f) /\ n - 1 \in 0..Len(f) /\ f[n] \in LineType
  BY ElementOfSeq, LenProperties
<1>3. SubSeq(f, 1, n - 1) \in Seq(LineType)
  BY <1>2, PrefixIs
<1>4. Cut(f[n], k) \in LineType
  BY <1>2, CutType
<1> DEFINE a == SubSeq(f, 1, n - 1)
           c == Cut(f[n], k)
<1>. HIDE DEF a, c
<1>5. a \o <<c>> = Append(a, c) /\ Append(a, c) \in Seq(LineType)
  BY <1>3, <1>4, AppendProperties, AppendIsConcat DEF a, c
<1>. QED  BY <1>1, <1>5 DEF a, c

\* Whatever is read is lines.
LEMMA BodiesType ==
  ASSUME NEW f \in Seq(LineType), NEW b \in Bodies(f)
  PROVE  b \in Seq(LineType)
<1>0. <<>> \in Seq(LineType)
  OBVIOUS
<1>1. CASE b \in {f, <<>>}
  BY <1>0, <1>1
<1>2. CASE b \notin {f, <<>>}
  <2>1. PICK n \in DOMAIN f : b \in Cuts(f, n)
    BY <1>2 DEF Bodies
  <2>. QED  BY <2>1, CutIs
<1>. QED  BY <1>1, <1>2

\* Lines that continue no other, and end a section if they are an END.
NamedLine == {line \in LineType : line.key # None /\ (line.key = "END" => line = End)}

\* A line with a name is one.
LEMMA LineIsOne ==
  ASSUME NEW key \in Names \ {"END"}, NEW text \in Text
  PROVE  Line(key, text) \in NamedLine
BY FeedAssumption DEF Line, LineType, NamedLine, Text

\* What an event says is texts.
LEMMA EntryTexts ==
  ASSUME NEW e \in EntryType
  PROVE  /\ e.id \in Text /\ e.title \in Text /\ e.description \in Text /\ e.source \in Text
         /\ e.location \in Text /\ e.url \in Text
         /\ e.starts \in Times /\ e.ends \in Times
<1>1. e.id \in Seq(Tokens \ White) /\ Tokens \ White \subseteq Tokens
  BY DEF EntryType
<1>2. e.id \in Seq(Tokens)
  BY <1>1, SeqMonotonic
<1>. QED  BY <1>2 DEF EntryType, Text

\* What a description says is a text, and has no carriage return at its end.
LEMMA DescribedIs ==
  ASSUME NEW e \in EntryType
  PROVE  Described(e) \in Text /\ DropCR(Described(e)) = Described(e)
<1> DEFINE from == <<NewLine, NewLine, "Source:", " ">>
           text == (e.description \o from) \o e.source
<1>1. e.description \in Text /\ e.source \in Text
  BY EntryTexts
<1>2. from \in Text
  <2>1. NewLine \in Tokens /\ " " \in Tokens /\ "Source:" \in Tokens
    BY TokensAssumption DEF White, Blanks
  <2>2. \A a, b, c \in Tokens : <<a, a, b, c>> \in Seq(Tokens)
    OBVIOUS
  <2>. QED  BY <2>1, <2>2 DEF Text
<1>. HIDE DEF from
<1>3. text \in Text
  BY <1>1, <1>2, TextConcat
<1>4. Described(e) = TrimSpace(text)
  BY DEF Described, from
<1>. QED  BY <1>3, <1>4, TrimSpaceIs

\* A section is lines.
LEMMA RenderSectionType ==
  ASSUME NEW e \in EntryType
  PROVE  RenderSection(e) \in Seq(NamedLine)
<1>1. /\ e.id \in Text /\ e.title \in Text /\ e.location \in Text /\ e.url \in Text
      /\ e.starts \in Tokens /\ e.ends \in Tokens
      /\ Described(e) \in Text
  <2>1. Times \subseteq Tokens
    BY TokensAssumption
  <2>. QED  BY <2>1, EntryTexts, DescribedIs
<1>2. ASSUME NEW s \in Text PROVE Escape(s) \in Text
  BY EscapeConcat
<1>3. /\ <<e.starts>> \in Text /\ <<e.ends>> \in Text
      /\ <<"VEVENT">> \in Text
      /\ <<IF e.tentative THEN "TENTATIVE" ELSE "CONFIRMED">> \in Text
  <2>1. /\ "VEVENT" \in Tokens
        /\ (IF e.tentative THEN "TENTATIVE" ELSE "CONFIRMED") \in Tokens
    BY TokensAssumption
  <2>. QED  BY <1>1, <2>1, TextConcat
<1>4. {"BEGIN", "END"} \cup Keys \subseteq Names
  BY TokensAssumption
<1>5. {"BEGIN", "UID", "DTSTART", "DTEND", "SUMMARY", "DESCRIPTION", "LOCATION", "URL",
       "STATUS"} \subseteq Names \ {"END"}
  BY <1>4 DEF Keys
<1> DEFINE a == Begin
           b == Line("UID", Escape(e.id))
           c == Line("DTSTART", <<e.starts>>)
           d == Line("DTEND", <<e.ends>>)
           g == Line("SUMMARY", Escape(e.title))
           f == Line("DESCRIPTION", Escape(Described(e)))
           h == Line("LOCATION", Escape(e.location))
           u == Line("URL", Escape(e.url))
           x == Line("STATUS", <<IF e.tentative THEN "TENTATIVE" ELSE "CONFIRMED">>)
           z == End
<1>6. a \in NamedLine /\ z \in NamedLine
  <2>1. a \in NamedLine
    BY <1>3, <1>5, LineIsOne DEF Begin
  <2>2. z \in NamedLine
    BY <1>3, <1>4, FeedAssumption DEF End, Line, LineType, NamedLine, Text
  <2>. QED  BY <2>1, <2>2
<1>7. b \in NamedLine /\ g \in NamedLine /\ h \in NamedLine /\ u \in NamedLine /\ f \in NamedLine
  BY <1>1, <1>2, <1>5, LineIsOne
<1>8. c \in NamedLine /\ d \in NamedLine /\ x \in NamedLine
  <2>1. {"DTSTART", "DTEND", "STATUS"} \subseteq Names \ {"END"}
    BY <1>5
  <2>. QED  BY <1>3, <2>1, LineIsOne
<1>9. RenderSection(e) =
        <<a, b, c, d, g, f, h>> \o (IF e.url = <<>> THEN <<>> ELSE <<u>>) \o <<x, z>>
  BY DEF RenderSection
<1>. HIDE DEF a, b, c, d, f, g, h, u, x, z
<1>10. /\ <<a, b, c, d, g, f, h>> \in Seq(NamedLine)
       /\ (IF e.url = <<>> THEN <<>> ELSE <<u>>) \in Seq(NamedLine)
       /\ <<x, z>> \in Seq(NamedLine)
  BY <1>6, <1>7, <1>8
<1>. QED  BY <1>9, <1>10, ConcatProperties

\* A calendar is written event by event.
LEMMA RenderAppend ==
  ASSUME NEW c \in Seq(EntryType), NEW e \in EntryType
  PROVE  /\ RenderICS(c) \in Seq(NamedLine)
         /\ RenderICS(Append(c, e)) = RenderICS(c) \o RenderSection(e)
<1> DEFINE t == Append(c, e)
           n == RenderSection(e)
           L == Seq(NamedLine)
<1>1. /\ Len(c) \in Nat /\ DOMAIN c = 1..Len(c)
      /\ t \in Seq(EntryType) /\ DOMAIN t = 1..(Len(c) + 1) /\ t[Len(c) + 1] = e
      /\ \A i \in 1..Len(c) : t[i] = c[i] /\ c[i] \in EntryType
  BY AppendProperties, LenProperties, ElementOfSeq
<1>. HIDE DEF t
<1>2. ASSUME NEW r \in Seq(EntryType)
      PROVE  [i \in DOMAIN r |-> RenderSection(r[i])] \in Seq(L)
  <2> DEFINE f == [i \in 1..Len(r) |-> RenderSection(r[i])]
  <2>1. Len(r) \in Nat /\ DOMAIN r = 1..Len(r) /\ \A i \in 1..Len(r) : r[i] \in EntryType
    BY LenProperties, ElementOfSeq
  <2>2. \A i \in 1..Len(r) : f[i] \in L
    BY <2>1, RenderSectionType
  <2>3. f = [i \in 1..Len(r) |-> f[i]]
    OBVIOUS
  <2>. HIDE DEF f, L
  <2>4. f \in Seq(L)
    BY <2>1, <2>2, <2>3, IsASeq
  <2>. QED  BY <2>1, <2>4 DEF f
<1> DEFINE ss == [i \in DOMAIN c |-> RenderSection(c[i])]
           tt == [i \in DOMAIN t |-> RenderSection(t[i])]
<1>3. ss \in Seq(L) /\ tt \in Seq(L) /\ n \in L
  BY <1>1, <1>2, RenderSectionType
<1>4. tt = Append(ss, n)
  <2>. DEFINE m == Len(c)
  <2>1. /\ DOMAIN ss = 1..m /\ DOMAIN tt = 1..(m + 1) /\ m \in Nat
        /\ tt[m + 1] = n /\ \A i \in 1..m : tt[i] = ss[i]
    <3>1. DOMAIN ss = 1..m /\ DOMAIN tt = 1..(m + 1) /\ m \in Nat
      BY <1>1
    <3>2. m + 1 \in 1..(m + 1) /\ \A i \in 1..m : i \in 1..(m + 1)
      BY <3>1
    <3>. QED  BY <1>1, <3>1, <3>2
  <2>. HIDE DEF ss, tt, n, m, L
  <2>2. Len(ss) = m /\ Len(tt) = m + 1
    BY <1>3, <2>1, LenProperties
  <2>3. /\ Append(ss, n) \in Seq(L) /\ Len(Append(ss, n)) = m + 1
        /\ Append(ss, n)[m + 1] = n
        /\ \A i \in 1..m : Append(ss, n)[i] = ss[i]
    BY <1>3, <2>2, AppendProperties
  <2>4. \A i \in 1..(m + 1) : i \in 1..m \/ i = m + 1
    BY <2>1
  <2>5. \A i \in 1..(m + 1) : tt[i] = Append(ss, n)[i]
    BY <2>1, <2>3, <2>4
  <2>. QED  BY <1>3, <2>2, <2>3, <2>5, SeqEqual
<1>5. RenderICS(c) = FlattenSeq(ss) /\ RenderICS(t) = FlattenSeq(tt)
  BY DEF RenderICS
<1>. HIDE DEF ss, tt, n
<1>6. FlattenSeq(ss) \in Seq(NamedLine) /\ FlattenSeq(Append(ss, n)) = FlattenSeq(ss) \o n
  BY <1>3, FlattenAppend
<1>. QED  BY <1>4, <1>5, <1>6 DEF t, n

\* A calendar is lines.
LEMMA RenderType ==
  ASSUME NEW c \in Seq(EntryType)
  PROVE  RenderICS(c) \in Seq(NamedLine) /\ RenderICS(c) \in Seq(LineType)
<1> DEFINE f == [i \in 1..Len(c) |-> RenderSection(c[i])]
<1>1. Len(c) \in Nat /\ DOMAIN c = 1..Len(c) /\ \A i \in 1..Len(c) : c[i] \in EntryType
  BY LenProperties, ElementOfSeq
<1>2. \A i \in 1..Len(c) : f[i] \in Seq(NamedLine)
  BY <1>1, RenderSectionType
<1>3. f = [i \in 1..Len(c) |-> f[i]]
  OBVIOUS
<1>. HIDE DEF f
<1>4. f \in Seq(Seq(NamedLine))
  BY <1>1, <1>2, <1>3, IsASeq
<1>5. RenderICS(c) \in Seq(NamedLine)
  BY <1>1, <1>4, FlattenType DEF RenderICS, f
<1>6. \A r \in Seq(NamedLine) : r \in Seq(LineType)
  <2>1. NamedLine \subseteq LineType
    BY DEF NamedLine
  <2>2. \A S, T : S \subseteq T => \A r \in Seq(S) : r \in Seq(T)
    OBVIOUS
  <2>. QED  BY <2>1, <2>2
<1>. QED  BY <1>5, <1>6

\* Unfolding makes no lines.
LEMMA UnfoldedLen ==
  ASSUME NEW f \in Seq(LineType)
  PROVE  Len(Unfolded(f)) <= Len(f)
<1> DEFINE Q == {r \in Seq(LineType) : Len(Unfolded(r)) <= Len(r)}
<1>1. <<>> \in Q
  BY UnfoldedEmpty
<1>2. ASSUME NEW r \in Seq(LineType), NEW line \in LineType, r \in Q
      PROVE  Append(r, line) \in Q
  <2> DEFINE ls == Unfolded(r)
  <2>1. /\ ls \in Seq(LineType)
        /\ Unfolded(Append(r, line)) = Unfolds(ls, line)
        /\ Len(ls) <= Len(r) /\ Len(r) \in Nat
        /\ Append(r, line) \in Seq(LineType) /\ Len(Append(r, line)) = Len(r) + 1
    BY <1>2, UnfoldedAppend, AppendProperties, LenProperties
  <2>. HIDE DEF ls
  <2>2. Len(Unfolds(ls, line)) <= Len(ls) + 1
    <3>1. Len(ls) \in Nat
      BY <2>1, LenProperties
    <3>2. CASE ls # <<>> /\ Continues(line)
      <4>1. Unfolds(ls, line) = [ls EXCEPT ![Len(ls)].text = @ \o Unfold(line)]
        BY <3>2 DEF Unfolds
      <4>2. \A v : Len([ls EXCEPT ![Len(ls)] = v]) = Len(ls)
        BY <2>1
      <4>. QED  BY <3>1, <4>1, <4>2
    <3>3. CASE ~(ls # <<>> /\ Continues(line))
      BY <2>1, <3>1, <3>3, AppendProperties DEF Unfolds
    <3>. QED  BY <3>2, <3>3
  <2>3. Len(Unfolds(ls, line)) \in Nat /\ Len(ls) \in Nat
    BY <2>1, UnfoldsType, LenProperties
  <2>4. Len(Unfolded(Append(r, line))) <= Len(r) + 1
    BY <2>1, <2>2, <2>3
  <2>. QED  BY <2>1, <2>4
<1>3. \A r \in Seq(LineType) : r \in Q
  <2>. HIDE DEF Q
  <2>. QED  BY <1>1, <1>2, SequenceInduction
<1>. QED  BY <1>3

-----------------------------------------------------------------------------
(* What is found, and the type invariant.                                  *)

\* A date is read, or none.
LEMMA ParseDateType ==
  ASSUME NEW value
  PROVE  ParseDate(value) \in Times \cup {None}
<1> DEFINE v == TrimSpace(value)
<1>1. CASE Len(v) = 1 /\ v[1] \in Times
  BY <1>1 DEF ParseDate
<1>2. CASE Len(v) = 2 /\ v[1] \in Zones /\ v[2] \in Times
  <2>1. InZone[v[1]] \in [Times -> Times]
    BY <1>2, FeedAssumption
  <2>. HIDE DEF v
  <2>2. InZone[v[1]][v[2]] \in Times
    BY <1>2, <2>1
  <2>. QED  BY <1>2, <2>2 DEF ParseDate, v
<1>3. CASE ~(Len(v) = 1 /\ v[1] \in Times) /\ ~(Len(v) = 2 /\ v[1] \in Zones /\ v[2] \in Times)
  BY <1>3 DEF ParseDate
<1>. QED  BY <1>1, <1>2, <1>3

Fields == {"id", "title", "description", "location", "url", "starts", "ends", "tentative"}

\* e is an event with two dates.
IsEvent(e) == DOMAIN e = Fields /\ Listed(e) /\ {e.starts, e.ends} \subseteq Times

\* A section with a start and a title gives one.
LEMMA FoundIsEvent ==
  ASSUME NEW c, StartOf(c) # None, Listed(EventFromICS(c))
  PROVE  IsEvent(EventFromICS(c))
<1> DEFINE e == EventFromICS(c)
<1>1. DOMAIN e = Fields
  BY DEF EventFromICS, Fields
<1>2. e.starts \in Times
  <2>1. e.starts = StartOf(c)
    BY DEF EventFromICS
  <2>. QED  BY <2>1, ParseDateType DEF StartOf
<1>3. e.ends \in Times
  <2>1. TwoHours[StartOf(c)] \in Times
    BY FeedAssumption, ParseDateType DEF StartOf
  <2>2. ParseDate(c["DTEND"]) \in Times \cup {None}
    BY ParseDateType
  <2>3. e.ends = IF ParseDate(c["DTEND"]) = None THEN TwoHours[StartOf(c)]
                 ELSE ParseDate(c["DTEND"])
    BY DEF EventFromICS
  <2>. HIDE DEF e
  <2>. QED  BY <2>1, <2>2, <2>3
<1>. HIDE DEF e
<1>4. IsEvent(e)
  BY <1>1, <1>2, <1>3 DEF IsEvent, e
<1>. QED  BY <1>4 DEF e

Waiting == {"start", "exit", "idle", "failed"}
Parsed == {"parse", "refused", "done"}

\* The lines are those of as much of the body as the scanner got.
ScannedTo(m) ==
  m \in 0..Len(body) /\ lines = Unfolded(SubSeq(AllScanned(body), 1, m))

TInv ==
  /\ CInv
  /\ FInv
  /\ pc \in Waiting \cup {"unfold"} \cup Parsed
  /\ pc \in Waiting =>
       /\ source = None /\ served = None /\ full = <<>> /\ body = <<>>
       /\ lines = <<>> /\ pos = 0
  /\ pc \notin Waiting => source \in FeedSources
  /\ full \in Seq(LineType)
  /\ body \in Bodies(full)
  /\ served # None => served \in Calendars /\ full = RenderICS(served)
  /\ pc = "unfold" => ScannedTo(pos)
  /\ pc \in Parsed =>
       /\ pos <= Len(lines)
       /\ \E m \in 0..Len(body) : ScannedTo(m) /\ (ShortLines(body) => m = Len(body))
  /\ component # Nil => pc \in Parsed /\ DOMAIN component = Keys
  /\ pc \in {"failed", "refused"} => events = <<>>
  /\ \A e \in ToSet(events) : IsEvent(e)
  /\ pc = "done" /\ source.aliases # {} =>
       \A e \in ToSet(events) : Mentions(e, source.aliases)

\* Nothing is fetched at first.
LEMMA InitTInv == Init => TInv
<1>. SUFFICES ASSUME Init PROVE TInv
  OBVIOUS
<1>1. CInv /\ FInv
  BY InitCInv, InitFInv
<1>2. full \in Seq(LineType) /\ body \in Bodies(full)
  BY DEF Init, Bodies
<1>3. ToSet(events) = {}
  BY DEF Init, ToSet
<1>. QED  BY <1>1, <1>2, <1>3 DEF Init, TInv, Waiting, Parsed

\* The process starts, or a download fails.
LEMMA WaitingTInv ==
  ASSUME TInv, Start \/ FetchFails
  PROVE  TInv'
<1>1. FInv' /\ CInv'
  BY NextFInv, NextCInv DEF TInv, Next
<1>2. /\ pc' \in Waiting /\ pc \in Waiting
      /\ UNCHANGED <<config, source, full, body, served, pos, lines, component, events>>
  BY DEF Start, FetchFails, input, Waiting
<1>3. component = Nil /\ events = <<>>
  BY <1>2 DEF TInv, FInv, Waiting
<1>4. pc' # "unfold" /\ pc' \notin Parsed /\ pc' # "done"
  BY <1>2 DEF Waiting, Parsed
<1>. QED  BY <1>1, <1>2, <1>3, <1>4 DEF TInv, Bodies

\* A feed is downloaded.
LEMMA FetchTInv ==
  ASSUME TInv, Fetch
  PROVE  TInv'
<1>1. FInv' /\ CInv'
  BY NextFInv, NextCInv DEF TInv, Next
<1>2. /\ pc = "idle" /\ pc' = "unfold"
      /\ UNCHANGED <<config, pos, lines, component, events>>
      /\ source' \in FeedSources
      /\ component = Nil /\ events = <<>> /\ pos = 0 /\ lines = <<>>
  BY DEF Fetch, TInv, FInv, Waiting
<1>3. PICK f : Reads(f) /\ \/ f \in Feeds /\ served' = None
                           \/ \E c \in Calendars : f = RenderICS(c) /\ served' = c
  BY DEF Fetch
<1>4. f \in Seq(LineType)
  BY <1>3, FeedsAssumption, CalendarsAssumption, RenderType
<1>5. full' = f /\ body' \in Bodies(f)
  BY <1>3 DEF Reads, Bodies
<1>6. served' # None => served' \in Calendars /\ full' = RenderICS(served')
  BY <1>3, <1>5
<1>7. ScannedTo(pos)'
  <2>1. body' \in Seq(LineType) /\ AllScanned(body') \in Seq(LineType)
    BY <1>4, <1>5, BodiesType, AllScannedType
  <2>2. Len(body') \in Nat /\ SubSeq(AllScanned(body'), 1, 0) = <<>>
    BY <2>1, PrefixEnds, LenProperties
  <2>3. lines' = <<>> /\ pos' = 0
    BY <1>2
  <2>4. pos' \in 0..Len(body')
    BY <2>2, <2>3
  <2>5. lines' = Unfolded(SubSeq(AllScanned(body'), 1, pos'))
    BY <2>2, <2>3, UnfoldedEmpty
  <2>. QED  BY <2>4, <2>5 DEF ScannedTo
<1>8. source' \in FeedSources'
  BY <1>2 DEF FeedSources
<1>9. ToSet(events) = {}
  BY <1>2 DEF ToSet
<1>10. pc' \notin Waiting /\ pc' \notin Parsed
  BY <1>2 DEF Waiting, Parsed
<1>. QED  BY <1>1, <1>2, <1>4, <1>5, <1>6, <1>7, <1>8, <1>9, <1>10 DEF TInv

\* What no step after the download changes.
LEMMA KeptTInv ==
  ASSUME TInv, UNCHANGED input
  PROVE  /\ full' \in Seq(LineType)
         /\ body' \in Bodies(full') /\ body' = body
         /\ served' # None => served' \in Calendars /\ full' = RenderICS(served')
         /\ source \in FeedSources => source' \in FeedSources'
         /\ source' = source
BY DEF TInv, input, Bodies, FeedSources

\* A line is scanned.
LEMMA ScanLineTInv ==
  ASSUME TInv, ScanLine
  PROVE  TInv'
<1>1. FInv' /\ CInv'
  BY NextFInv, NextCInv DEF TInv, Next
<1>2. /\ pc = "unfold" /\ pc' = "unfold" /\ UNCHANGED input
      /\ UNCHANGED <<component, events>>
      /\ pos \in 0..Len(body) /\ pos < Len(body) /\ pos' = pos + 1
      /\ lines = Unfolded(SubSeq(AllScanned(body), 1, pos))
      /\ lines' = Unfolds(lines, Scanned(body[pos + 1]))
  BY DEF ScanLine, Scans, TInv, ScannedTo
<1>3. body \in Seq(LineType)
  BY BodiesType DEF TInv
<1>4. pos \in Nat
  BY <1>2
<1> DEFINE read == AllScanned(body)
<1>5. /\ read[pos + 1] = Scanned(body[pos + 1])
      /\ read[pos + 1] \in LineType
      /\ SubSeq(read, 1, pos) \in Seq(LineType)
      /\ SubSeq(read, 1, pos + 1) = Append(SubSeq(read, 1, pos), read[pos + 1])
  <2>1. pos + 1 \in 1..Len(body)
    BY <1>2, <1>3, <1>4, LenProperties
  <2>2. /\ read \in Seq(LineType) /\ pos < Len(read)
        /\ read[pos + 1] = Scanned(body[pos + 1])
    BY <1>2, <1>3, <2>1, AllScannedType
  <2>. HIDE DEF read
  <2>. QED  BY <1>4, <2>2, PrefixAppend
<1>6. lines' = Unfolded(SubSeq(read, 1, pos + 1))
  BY <1>2, <1>5, UnfoldedAppend
<1>7. ScannedTo(pos)'
  <2>1. body' = body /\ pos + 1 \in 0..Len(body)
    BY <1>2, <1>3, <1>4, LenProperties, KeptTInv
  <2>. QED  BY <1>2, <1>6, <2>1 DEF ScannedTo
<1>8. pc \notin Waiting /\ pc \notin Parsed
  BY <1>2 DEF Waiting, Parsed
<1>. QED  BY <1>1, <1>2, <1>7, <1>8, KeptTInv DEF TInv

\* The scanner ends with the feed, or at a line that is too long.
LEMMA ScanEndsTInv ==
  ASSUME TInv, ScanEnds
  PROVE  TInv'
<1>1. FInv' /\ CInv'
  BY NextFInv, NextCInv DEF TInv, Next
<1>2. /\ pc = "unfold" /\ pc' = "parse" /\ UNCHANGED input /\ pos' = 0
      /\ UNCHANGED <<lines, component, events>>
      /\ ~Scans /\ ScannedTo(pos)
  BY DEF ScanEnds, TInv
<1>3. body \in Seq(LineType) /\ Len(body) \in Nat
  BY BodiesType, LenProperties DEF TInv
<1>4. ShortLines(body) => pos = Len(body)
  <2>. SUFFICES ASSUME ShortLines(body), pos < Len(body) PROVE FALSE
    BY <1>2, <1>3 DEF ScannedTo
  <2>1. pos + 1 \in DOMAIN body
    BY <1>2, <1>3 DEF ScannedTo
  <2>. QED  BY <1>2, <2>1 DEF ShortLines, Scans
<1>5. Sequence(lines)
  BY DEF TInv, FInv
<1>6. 0 <= Len(lines)
  BY <1>5 DEF Sequence
<1>7. body' = body /\ lines' = lines
  BY <1>2, KeptTInv
<1>8. \E m \in 0..Len(body') : ScannedTo(m)' /\ (ShortLines(body') => m = Len(body'))
  BY <1>2, <1>4, <1>7 DEF ScannedTo
<1>9. pc' \in Parsed /\ pc \notin Waiting /\ pc' \notin Waiting
  BY <1>2 DEF Waiting, Parsed
<1>. QED  BY <1>1, <1>2, <1>6, <1>7, <1>8, <1>9, KeptTInv DEF TInv

\* A line is parsed: what every case has in common.
LEMMA ParsingTInv ==
  ASSUME TInv, Parsing, FInv', CInv', pc' \in {"parse", "refused"},
         component' # Nil => DOMAIN component' = Keys,
         \A e \in ToSet(events') : IsEvent(e),
         pc' = "refused" => events' = <<>>
  PROVE  TInv'
<1>1. /\ pc = "parse" /\ UNCHANGED <<input, lines>> /\ pos' = pos + 1
      /\ pos < Len(lines) /\ pos \in Nat /\ Sequence(lines)
  BY DEF Parsing, TInv, FInv
<1>2. pos' <= Len(lines)
  BY <1>1 DEF Sequence
<1>3. body' = body /\ lines' = lines
  BY <1>1, KeptTInv
<1>4. \E m \in 0..Len(body') : ScannedTo(m)' /\ (ShortLines(body') => m = Len(body'))
  <2>1. PICK m \in 0..Len(body) : ScannedTo(m) /\ (ShortLines(body) => m = Len(body))
    BY <1>1 DEF TInv, Parsed
  <2>. QED  BY <1>3, <2>1 DEF ScannedTo
<1>5. pc' \in Parsed /\ pc \notin Waiting /\ pc' \notin Waiting /\ pc' # "done" /\ pc' # "unfold"
  BY <1>1 DEF Waiting, Parsed
<1>. QED  BY <1>1, <1>2, <1>3, <1>4, <1>5, KeptTInv DEF TInv

\* The cases.
LEMMA ParseTInv ==
  ASSUME TInv, ParseBegin \/ ParseEnd \/ Refuse \/ ParseLine
  PROVE  TInv'
<1>1. FInv' /\ CInv'
  BY NextFInv, NextCInv DEF TInv, Next
<1>2. component # Nil => DOMAIN component = Keys
  BY DEF TInv
<1>3. \A e \in ToSet(events) : IsEvent(e)
  BY DEF TInv
<1>4. CASE ParseBegin
  <2>1. Parsing /\ pc' = pc /\ events' = events /\ component' = NoValues
    BY <1>4 DEF ParseBegin
  <2>2. pc' = "parse" /\ DOMAIN component' = Keys
    BY <2>1 DEF Parsing, NoValues
  <2>. QED  BY <1>1, <1>3, <2>1, <2>2, ParsingTInv
<1>5. CASE ParseEnd
  <2>1. /\ Parsing /\ pc' = pc /\ component' = Nil /\ events' = Found
        /\ StartOf(component) # None
    BY <1>5 DEF ParseEnd, ParsingEnd
  <2>2. pc' = "parse" /\ Sequence(events)
    BY <2>1 DEF Parsing, TInv, FInv
  <2>3. \A e \in ToSet(events') : IsEvent(e)
    <3> DEFINE new == EventFromICS(component)
    <3>1. CASE Listed(new)
      <4>1. IsEvent(new)
        BY <2>1, <3>1, FoundIsEvent
      <4>2. events' = Append(events, new)
        BY <2>1, <3>1 DEF Found
      <4>3. events \in Seq(ToSet(events) \cup {new})
        BY <2>2 DEF Sequence
      <4>. HIDE DEF new
      <4>4. ToSet(events') = ToSet(events) \cup {new}
        <5>1. new \in ToSet(events) \cup {new}
          OBVIOUS
        <5>2. ToSet(Append(events, new)) = ToSet(events) \cup {new}
          BY <4>3, <5>1, ToSetAppend
        <5>. QED  BY <4>2, <5>2
      <4>. QED  BY <1>3, <4>1, <4>4
    <3>2. CASE ~Listed(new)
      BY <1>3, <2>1, <3>2 DEF Found
    <3>. QED  BY <3>1, <3>2
  <2>. QED  BY <1>1, <2>1, <2>2, <2>3, ParsingTInv
<1>6. CASE Refuse
  <2>1. Parsing /\ pc' = "refused" /\ component' = component /\ events' = <<>>
    BY <1>6 DEF Refuse, ParsingEnd
  <2>2. ToSet(events') = {}
    BY <2>1 DEF ToSet
  <2>. QED  BY <1>1, <1>2, <2>1, <2>2, ParsingTInv
<1>7. CASE ParseLine
  <2>1. /\ Parsing /\ pc' = pc /\ events' = events
        /\ component' = IF component # Nil /\ Current.key \in Keys
                  THEN [component EXCEPT ![Current.key] = Value(Current)]
                  ELSE component
    BY <1>7 DEF ParseLine
  <2>2. pc' = "parse"
    BY <2>1 DEF Parsing
  <2>3. component' # Nil => DOMAIN component' = Keys
    BY <1>2, <2>1
  <2>. QED  BY <1>1, <1>3, <2>1, <2>2, <2>3, ParsingTInv
<1>. QED  BY <1>4, <1>5, <1>6, <1>7

\* The parser returns what it found, or what mentions an alias.
LEMMA ReturnTInv ==
  ASSUME TInv, Return
  PROVE  TInv'
<1>1. FInv' /\ CInv'
  BY NextFInv, NextCInv DEF TInv, Next
<1> DEFINE chosen == {e \in ToSet(events) : Mentions(e, source.aliases)}
           found == IF source.aliases = {} THEN events ELSE Kept(events, chosen)
<1>2. /\ pc = "parse" /\ pc' = "done" /\ UNCHANGED <<input, pos, lines, component>>
      /\ events' = [i \in DOMAIN found |-> [found[i] EXCEPT !.tentative = @ /\ ~source.force]]
  BY DEF Return, AtEnd
<1>3. events \in Seq(ToSet(events))
  BY <1>2 DEF TInv, FInv, Sequence
<1>4. ToSet(found) \subseteq ToSet(events)
  BY <1>3, KeptElements
<1>5. source.aliases # {} => \A e \in ToSet(found) : Mentions(e, source.aliases)
  BY <1>3, KeptElements
<1>. HIDE DEF chosen, found
<1>6. ASSUME NEW e \in ToSet(events')
      PROVE  IsEvent(e) /\ (source.aliases # {} => Mentions(e, source.aliases))
  <2>1. DOMAIN events' = DOMAIN found
    BY <1>2
  <2>2. PICK i \in DOMAIN found : e = [found[i] EXCEPT !.tentative = @ /\ ~source.force]
    BY <1>2, <2>1 DEF ToSet
  <2>3. found[i] \in ToSet(found)
    BY DEF ToSet
  <2>4. IsEvent(found[i])
    BY <1>4, <2>3 DEF TInv
  <2>5. /\ DOMAIN e = Fields
        /\ e.title = found[i].title /\ e.location = found[i].location
        /\ e.description = found[i].description
        /\ e.starts = found[i].starts /\ e.ends = found[i].ends
    <3>1. DOMAIN found[i] = Fields
      BY <2>4 DEF IsEvent
    <3> DEFINE g == found[i]
               v == g.tentative /\ ~source.force
    <3>2. e = [g EXCEPT !.tentative = v]
      BY <2>2
    <3>3. {"title", "location", "description", "starts", "ends"} \subseteq DOMAIN g
      BY <3>1 DEF Fields
    <3>. HIDE DEF g, v
    <3>4. /\ DOMAIN e = DOMAIN g
          /\ e.title = g.title /\ e.location = g.location
          /\ e.description = g.description
          /\ e.starts = g.starts /\ e.ends = g.ends
      BY <3>2, <3>3
    <3>. QED  BY <3>1, <3>4 DEF g
  <2>6. Listed(e)
    BY <2>4, <2>5 DEF IsEvent, Listed
  <2>7. source.aliases # {} => Mentions(e, source.aliases)
    BY <1>5, <2>3, <2>5 DEF Mentions
  <2>. QED  BY <2>4, <2>5, <2>6, <2>7 DEF IsEvent
<1>7. body' = body /\ lines' = lines /\ pos' = pos /\ source' = source /\ component' = component
  BY <1>2, KeptTInv
<1>8. /\ pos' <= Len(lines')
      /\ \E m \in 0..Len(body') : ScannedTo(m)' /\ (ShortLines(body') => m = Len(body'))
  <2>1. PICK m \in 0..Len(body) : ScannedTo(m) /\ (ShortLines(body) => m = Len(body))
    BY <1>2 DEF TInv, Parsed
  <2>2. pos <= Len(lines)
    BY <1>2 DEF TInv, Parsed
  <2>. QED  BY <1>7, <2>1, <2>2 DEF ScannedTo
<1>9. pc' \in Parsed /\ pc \in Parsed /\ pc \notin Waiting /\ pc' \notin Waiting
  BY <1>2 DEF Waiting, Parsed
<1>. QED  BY <1>1, <1>2, <1>6, <1>7, <1>8, <1>9, KeptTInv DEF TInv

\* Every step preserves the invariant.
LEMMA NextTInv ==
  ASSUME TInv, [Next]_vars
  PROVE  TInv'
<1>1. CASE Next
  BY <1>1, WaitingTInv, FetchTInv, ScanLineTInv, ScanEndsTInv, ParseTInv, ReturnTInv DEF Next
<1>2. CASE UNCHANGED vars
  <2>1. FInv' /\ CInv'
    BY <1>2, NextFInv, NextCInv DEF TInv
  <2>2. UNCHANGED <<config, source, full, body, served, pc, pos, lines, component, events>>
    BY <1>2 DEF vars, input
  <2>. QED  BY <2>1, <2>2 DEF TInv, ScannedTo, Bodies, FeedSources
<1>. QED  BY <1>1, <1>2

\* Type correctness, for any feed and any configuration: an event has a title, a
\* start and an end wherever it comes from, and a fetch that fails yields none
\* (ICSFeedSource.Fetch).
THEOREM FeedTypeHolds == Spec => []FeedTypeOK
<1>1. TInv => FeedTypeOK
  <2>. SUFFICES ASSUME TInv PROVE FeedTypeOK
    OBVIOUS
  <2>1. body \in Seq(LineType) /\ Len(body) \in Nat
    BY BodiesType, LenProperties DEF TInv
  <2>2. Sequence(lines) /\ pos \in Nat
    BY DEF TInv, FInv
  <2>3. Len(lines) \in Nat /\ DOMAIN lines = 1..Len(lines)
    BY <2>2 DEF Sequence
  <2>4. ASSUME NEW m, ScannedTo(m) PROVE Len(lines) <= Len(body)
    <3> DEFINE read == AllScanned(body)
    <3>1. SubSeq(read, 1, m) \in Seq(LineType) /\ Len(SubSeq(read, 1, m)) = m
      <4>1. read \in Seq(LineType) /\ Len(read) = Len(body)
        BY <2>1, AllScannedType
      <4>. HIDE DEF read
      <4>. QED  BY <2>4, <4>1, PrefixIs DEF ScannedTo
    <3>0. Len(Unfolded(SubSeq(read, 1, m))) <= Len(SubSeq(read, 1, m))
      BY <3>1, UnfoldedLen
    <3>2. Len(lines) <= m /\ m <= Len(body) /\ m \in Nat
      BY <2>1, <2>4, <3>0, <3>1 DEF ScannedTo
    <3>. QED  BY <2>1, <2>3, <3>2
  <2>5. Len(lines) <= Len(body)
    <3>1. CASE pc \in Waiting
      BY <2>1, <3>1 DEF TInv
    <3>2. CASE pc = "unfold"
      BY <2>4, <3>2 DEF TInv
    <3>3. CASE pc \in Parsed
      BY <2>4, <3>3 DEF TInv
    <3>. QED  BY <3>1, <3>2, <3>3 DEF TInv
  <2>6. DOMAIN lines \subseteq DOMAIN body
    BY <2>1, <2>3, <2>5
  <2>7. pos \in 0..(Len(body) + Len(lines))
    <3>1. CASE pc \in Waiting
      BY <2>1, <2>3, <3>1 DEF TInv
    <3>2. CASE pc = "unfold"
      BY <2>1, <2>3, <3>2 DEF TInv, ScannedTo
    <3>3. CASE pc \in Parsed
      BY <2>1, <2>2, <2>3, <3>3 DEF TInv
    <3>. QED  BY <3>1, <3>2, <3>3 DEF TInv
  <2>8. \A e \in ToSet(events) : Listed(e) /\ {e.starts, e.ends} \subseteq Times
    BY DEF TInv, IsEvent
  <2>. QED  BY <2>6, <2>7, <2>8 DEF TInv, FeedTypeOK, CInv, Waiting, Parsed
<1>. QED  BY InitTInv, NextTInv, <1>1, PTL DEF Spec

\* For every configuration: with a location filter, every event that is returned
\* mentions an alias; Validate, SourcesFromConfig and filterByLocation together
\* leave no way around it.
THEOREM FilterHolds == Spec => []FilteredFeed
<1>1. TInv => FilteredFeed
  <2>. SUFFICES ASSUME TInv, pc = "done", NEW i \in DOMAIN config.feeds,
                       config.feeds[i].filter, config.feeds[i].name = source.name
                PROVE  \A e \in ToSet(events) : Mentions(e, cleanList(config.aliases))
    BY DEF FilteredFeed
  <2>1. config \in Configs /\ Validate(config) /\ source \in FeedSources
    BY DEF TInv, CInv, Waiting
  <2>2. source.kind = "feed" /\ source \in ToSet(SourcesFromConfig(config))
    BY <2>1 DEF FeedSources
  <2>3. PICK j \in DOMAIN config.feeds : source = FeedSource(config, config.feeds[j])
    <3>1. /\ Tinkerers.kind # "feed" /\ SearXNG.kind # "feed" /\ Gemini.kind # "feed"
      BY DEF Tinkerers, SearXNG, Gemini, BuiltIn
    <3>. QED  BY <2>1, <2>2, <3>1, SourcesAre
  <2>4. source.name = config.feeds[j].name
    BY <2>3 DEF FeedSource
  <2>5. i = j
    BY <2>1, <2>4 DEF Validate, FeedsValid
  <2>6. source.aliases = cleanList(config.aliases)
    BY <2>3, <2>5 DEF FeedSource
  <2>7. cleanList(config.aliases) # {}
    BY <2>1 DEF Validate, AliasesValid
  <2>. QED  BY <2>6, <2>7 DEF TInv
<1>. QED  BY InitTInv, NextTInv, <1>1, PTL DEF Spec

-----------------------------------------------------------------------------
(* Folds.                                                                  *)

\* The texts of the lines from i up to, and without, j.
TextOf(f, i, j) == FlattenSeq([k \in 1..(j - i) |-> f[i + k - 1].text])
NextHead(head, n, k) == IF k < Len(head) THEN head[k + 1] ELSE n + 1

\* ls is what the first n lines of f unfold to, but for blanks.
Folded(f, n, ls) ==
  LET head == Heads(f, n)
  IN /\ Len(ls) = Len(head)
     /\ \A k \in DOMAIN ls :
          /\ ls[k].key = f[head[k]].key
          /\ ls[k].zone = f[head[k]].zone
          /\ Dark(ls[k].text) = Dark(TextOf(f, head[k], NextHead(head, n, k)))

\* The heads of one line more; the first line is one.
LEMMA HeadsAppend ==
  ASSUME NEW f, NEW n \in Nat
  PROVE  /\ Heads(f, n) \in Seq(1..n)
         /\ n # 0 => Heads(f, n) # <<>>
         /\ Heads(f, n + 1) = IF n = 0 \/ ~Continues(f[n + 1])
                              THEN Append(Heads(f, n), n + 1) ELSE Heads(f, n)
<1> DEFINE s == [i \in 1..n |-> i]
           t == [i \in 1..(n + 1) |-> i]
           H == {i \in 1..n : i = 1 \/ ~Continues(f[i])}
           I == {i \in 1..(n + 1) : i = 1 \/ ~Continues(f[i])}
<1>1. s \in Seq(1..n) /\ s \in Seq(1..(n + 1)) /\ n + 1 \in 1..(n + 1)
  OBVIOUS
<1>2. t = Append(s, n + 1)
  OBVIOUS
<1>3. Heads(f, n) = Kept(s, H) /\ Heads(f, n + 1) = Kept(t, I)
  BY DEF Heads
<1>4. \A i \in 1..n : i \in H <=> i \in I
  OBVIOUS
<1>5. n + 1 \in I <=> n = 0 \/ ~Continues(f[n + 1])
  OBVIOUS
<1>6. n # 0 => 1 \in H /\ 1 \in ToSet(s)
  <2>. SUFFICES ASSUME n # 0 PROVE 1 \in H /\ 1 \in ToSet(s)
    OBVIOUS
  <2>1. 1 \in 1..n /\ s[1] = 1 /\ DOMAIN s = 1..n
    OBVIOUS
  <2>. QED  BY <2>1 DEF ToSet
<1>. HIDE DEF s, t, H, I
<1>7. Kept(s, I) = Kept(s, H) /\ Kept(s, H) \in Seq(1..n)
  BY <1>1, <1>4, KeptSame, KeptType
<1>8. Kept(Append(s, n + 1), I) = IF n + 1 \in I THEN Append(Kept(s, I), n + 1) ELSE Kept(s, I)
  <2>. DEFINE T == 1..(n + 1)
              e == n + 1
  <2>1. s \in Seq(T) /\ e \in T
    BY <1>1
  <2>. HIDE DEF T, e
  <2>2. Kept(Append(s, e), I) = IF e \in I THEN Append(Kept(s, I), e) ELSE Kept(s, I)
    BY <2>1, KeptAppend
  <2>. QED  BY <2>2 DEF e
<1>9. n # 0 => Kept(s, H) # <<>>
  <2>1. ToSet(Kept(s, H)) = ToSet(s) \cap H
    BY <1>1, KeptElements
  <2>2. ToSet(<<>>) = {}
    BY DEF ToSet
  <2>. QED  BY <1>6, <2>1, <2>2
<1>. QED  BY <1>2, <1>3, <1>5, <1>7, <1>8, <1>9

\* No line, and a line more.
LEMMA TextOfAppend ==
  ASSUME NEW f \in Seq(LineType), NEW j \in 1..Len(f), NEW i \in 1..j
  PROVE  /\ TextOf(f, i, j) \in Text
         /\ TextOf(f, i, j + 1) = TextOf(f, i, j) \o f[j].text
         /\ TextOf(f, j, j + 1) = f[j].text
<1>1. Len(f) \in Nat /\ \A k \in 1..Len(f) : f[k] \in LineType
  BY LenProperties, ElementOfSeq
<1>2. \A k \in 1..Len(f) : f[k].text \in Text
  BY <1>1 DEF LineType, Text
<1>3. ASSUME NEW a \in 1..j
      PROVE  /\ [k \in 1..(j - a) |-> f[a + k - 1].text] \in Seq(Text)
             /\ [k \in 1..((j + 1) - a) |-> f[a + k - 1].text]
                  = Append([k \in 1..(j - a) |-> f[a + k - 1].text], f[j].text)
  <2> DEFINE g(k) == f[a + k - 1].text
             m == j - a
             ss == [k \in 1..m |-> g(k)]
             tt == [k \in 1..(m + 1) |-> g(k)]
             x == f[j].text
  <2>1. m \in Nat /\ (j + 1) - a = m + 1 /\ \A k \in 1..(m + 1) : a + k - 1 \in 1..Len(f)
    BY <1>1
  <2>2. \A k \in 1..(m + 1) : g(k) \in Text
    BY <1>2, <2>1
  <2>3. g(m + 1) = x
    <3>1. a + (m + 1) - 1 = j
      OBVIOUS
    <3>. QED  BY <3>1
  <2>. HIDE DEF g, m, Text
  <2>4. ss \in Seq(Text) /\ tt \in Seq(Text)
    <3>1. \A k \in 1..m : g(k) \in Text
      BY <2>1, <2>2
    <3>. QED  BY <2>1, <2>2, <3>1, IsASeq
  <2>5. tt = Append(ss, x)
    <3>1. Len(tt) = m + 1 /\ Len(ss) = m
      BY <2>1
    <3>2. x \in Text
      BY <1>2
    <3>. HIDE DEF x, ss
    <3>3. /\ Append(ss, x) \in Seq(Text) /\ Len(Append(ss, x)) = m + 1
          /\ Append(ss, x)[m + 1] = x
          /\ \A k \in 1..m : Append(ss, x)[k] = ss[k]
      BY <2>4, <3>1, <3>2, AppendProperties
    <3>4. \A k \in 1..(m + 1) : k \in 1..m \/ k = m + 1
      BY <2>1
    <3>5. \A k \in 1..(m + 1) : tt[k] = Append(ss, x)[k]
      BY <2>1, <2>3, <3>3, <3>4 DEF ss
    <3>. HIDE DEF tt, ss
    <3>. QED  BY <2>4, <3>1, <3>3, <3>5, SeqEqual
  <2>6. ss = [k \in 1..(j - a) |-> f[a + k - 1].text]
    BY DEF g, m
  <2>7. tt = [k \in 1..((j + 1) - a) |-> f[a + k - 1].text]
    BY <2>1 DEF g
  <2>. HIDE DEF ss, tt
  <2>. QED  BY <2>4, <2>5, <2>6, <2>7
<1>4. ASSUME NEW a \in 1..j
      PROVE  TextOf(f, a, j) \in Text /\ TextOf(f, a, j + 1) = TextOf(f, a, j) \o f[j].text
  <2> DEFINE ss == [k \in 1..(j - a) |-> f[a + k - 1].text]
             x == f[j].text
  <2>1. ss \in Seq(Seq(Tokens)) /\ x \in Seq(Tokens)
    BY <1>2, <1>3 DEF Text
  <2>2. /\ FlattenSeq(ss) \in Seq(Tokens)
        /\ FlattenSeq(Append(ss, x)) = FlattenSeq(ss) \o x
    <3>. HIDE DEF ss, x
    <3>. QED  BY <2>1, FlattenAppend
  <2>3. [k \in 1..((j + 1) - a) |-> f[a + k - 1].text] = Append(ss, x)
    BY <1>3
  <2>. HIDE DEF ss
  <2>. QED  BY <2>2, <2>3 DEF TextOf, ss, Text
<1>5. TextOf(f, j, j) = <<>>
  <2>1. [k \in 1..(j - j) |-> f[j + k - 1].text] = <<>>
    OBVIOUS
  <2>. QED  BY <2>1, FlattenEmpty DEF TextOf
<1>6. TextOf(f, j, j + 1) = f[j].text
  <2>1. j \in 1..j /\ f[j].text \in Text
    BY <1>2
  <2>. QED  BY <1>4, <1>5, <2>1, TextConcat
<1>. QED  BY <1>4, <1>6

\* A continuation, and a line of its own.
LEMMA FoldedStep ==
  ASSUME NEW f \in Seq(LineType), NEW n \in Nat, n < Len(f), NEW ls \in Seq(LineType),
         Folded(f, n, ls)
  PROVE  Folded(f, n + 1, Unfolds(ls, f[n + 1]))
<1> DEFINE line == f[n + 1]
           ls2 == Unfolds(ls, line)
           head == Heads(f, n)
           head2 == Heads(f, n + 1)
<1>1. n + 1 \in 1..Len(f) /\ line \in LineType
  BY ElementOfSeq
<1>2. /\ head \in Seq(1..n)
      /\ n # 0 => head # <<>>
      /\ head2 = IF n = 0 \/ ~Continues(line) THEN Append(head, n + 1) ELSE head
  BY HeadsAppend
<1>3. /\ Len(ls) = Len(head) /\ Len(ls) \in Nat
      /\ \A k \in 1..Len(ls) :
           /\ ls[k].key = f[head[k]].key
           /\ ls[k].zone = f[head[k]].zone
           /\ Dark(ls[k].text) = Dark(TextOf(f, head[k], NextHead(head, n, k)))
           /\ head[k] \in 1..n
  <2>1. Len(ls) = Len(head) /\ DOMAIN ls = 1..Len(ls) /\ Len(ls) \in Nat
    BY LenProperties DEF Folded
  <2>2. \A k \in 1..Len(ls) : head[k] \in 1..n
    BY <1>2, <2>1, ElementOfSeq
  <2>. QED  BY <2>1, <2>2 DEF Folded
<1>4. n = 0 => ls = <<>>
  <2>1. n = 0 => \A k \in 1..Len(ls) : FALSE
    BY <1>3
  <2>. QED  BY <1>3, <2>1
<1>5. ls = <<>> => n = 0
  <2>1. ls = <<>> => head = <<>>
    BY <1>2, <1>3
  <2>. QED  BY <1>2, <2>1
<1>6. line.text \in Text /\ \A k \in 1..Len(ls) : ls[k].text \in Text
  <2>1. \A k \in 1..Len(ls) : ls[k] \in LineType
    BY ElementOfSeq
  <2>. QED  BY <1>1, <2>1 DEF LineType, Text
<1>7. CASE ls # <<>> /\ Continues(line)
  <2> DEFINE m == Len(ls)
             text == ls[m].text \o Unfold(line)
  <2>1. head2 = head /\ m \in 1..m
    BY <1>2, <1>3, <1>4, <1>7
  <2>2. ls2 = [ls EXCEPT ![m].text = text]
    BY <1>7 DEF Unfolds
  <2>3. /\ Len(ls2) = m /\ DOMAIN ls2 = 1..m
        /\ \A k \in 1..m : k # m => ls2[k] = ls[k]
        /\ ls2[m] = [ls[m] EXCEPT !.text = text]
    <3>1. DOMAIN ls = 1..m /\ m \in Nat
      BY LenProperties
    <3>. HIDE DEF text, ls2, m
    <3>. QED  BY <2>1, <2>2, <3>1
  <2>4. ls2[m].key = ls[m].key /\ ls2[m].zone = ls[m].zone /\ ls2[m].text = text
    <3>1. ls[m] \in LineType
      BY <2>1, ElementOfSeq
    <3>. HIDE DEF text, ls2, m
    <3>. QED  BY <2>3, <3>1 DEF LineType
  <2>5. NextHead(head, n, m) = n + 1 /\ NextHead(head, n + 1, m) = n + 2
    BY <1>3 DEF NextHead
  <2>6. \A k \in 1..m : k # m => NextHead(head, n + 1, k) = NextHead(head, n, k)
    BY <1>3 DEF NextHead
  <2>7. Dark(text) = Dark(TextOf(f, head[m], n + 2))
    <3>1. Unfold(line) \in Text /\ ls[m].text \in Text
      BY <1>6, <2>1, TrimLeftType DEF Unfold
    <3>2. Dark(text) = Dark(ls[m].text) \o Dark(line.text)
      <4>1. Dark(Unfold(line)) = Dark(line.text)
        BY <1>6, DarkTrim DEF Unfold
      <4>. QED  BY <3>1, <4>1, DarkConcat
    <3>3. head[m] \in 1..(n + 1)
      BY <1>3, <2>1
    <3>4. /\ TextOf(f, head[m], n + 1) \in Text
          /\ TextOf(f, head[m], n + 2) = TextOf(f, head[m], n + 1) \o line.text
      <4> DEFINE j == n + 1
                 i == head[m]
      <4>1. i \in 1..j /\ j \in 1..Len(f) /\ j + 1 = n + 2
        BY <1>1, <3>3
      <4>. HIDE DEF i, j
      <4>2. TextOf(f, i, j) \in Text /\ TextOf(f, i, j + 1) = TextOf(f, i, j) \o f[j].text
        BY <4>1, TextOfAppend
      <4>. QED  BY <4>1, <4>2 DEF i, j
    <3>5. Dark(TextOf(f, head[m], n + 2)) = Dark(TextOf(f, head[m], n + 1)) \o Dark(line.text)
      BY <1>6, <3>4, DarkConcat
    <3>6. Dark(ls[m].text) = Dark(TextOf(f, head[m], n + 1))
      BY <1>3, <2>1, <2>5
    <3>. QED  BY <3>2, <3>5, <3>6
  <2>8. ASSUME NEW k \in 1..m
        PROVE  /\ ls2[k].key = f[head[k]].key
               /\ ls2[k].zone = f[head[k]].zone
               /\ Dark(ls2[k].text) = Dark(TextOf(f, head[k], NextHead(head, n + 1, k)))
    <3>. HIDE DEF ls2, head, text
    <3>1. CASE k = m
      BY <1>3, <2>1, <2>4, <2>5, <2>7, <3>1
    <3>2. CASE k # m
      BY <1>3, <2>3, <2>6, <3>2
    <3>. QED  BY <3>1, <3>2
  <2>. HIDE DEF ls2, head, head2, text
  <2>9. Folded(f, n + 1, ls2)
    BY <1>3, <2>1, <2>3, <2>8 DEF Folded, head2
  <2>. QED  BY <2>9 DEF ls2
<1>8. CASE ~(ls # <<>> /\ Continues(line))
  <2> DEFINE m == Len(ls) + 1
  <2>1. head2 = Append(head, n + 1)
    BY <1>2, <1>5, <1>8
  <2>2. ls2 = Append(ls, line)
    BY <1>8 DEF Unfolds
  <2>3. /\ Len(ls2) = m /\ DOMAIN ls2 = 1..m
        /\ \A k \in 1..Len(ls) : ls2[k] = ls[k]
        /\ ls2[m] = line
    <3>. HIDE DEF line, ls2
    <3>. QED  BY <1>1, <2>2, LenProperties, AppendProperties DEF line
  <2>4. /\ Len(head2) = m
        /\ \A k \in 1..Len(ls) : head2[k] = head[k]
        /\ head2[m] = n + 1
    <3>1. head \in Seq(Nat) /\ n + 1 \in Nat
      BY <1>2
    <3>. HIDE DEF head, head2
    <3>. QED  BY <1>3, <2>1, <3>1, AppendProperties
  <2>5. \A k \in 1..Len(ls) : NextHead(head2, n + 1, k) = NextHead(head, n, k)
    <3>. SUFFICES ASSUME NEW k \in 1..Len(ls)
                  PROVE  NextHead(head2, n + 1, k) = NextHead(head, n, k)
      OBVIOUS
    <3>. HIDE DEF head, head2
    <3>1. NextHead(head2, n + 1, k) = head2[k + 1]
      BY <1>3, <2>4 DEF NextHead
    <3>2. CASE k < Len(ls)
      BY <1>3, <2>4, <3>1, <3>2 DEF NextHead
    <3>3. CASE k = Len(ls)
      BY <1>3, <2>4, <3>1, <3>3 DEF NextHead
    <3>. QED  BY <1>3, <3>2, <3>3
  <2>6. NextHead(head2, n + 1, m) = n + 2
    <3>. HIDE DEF head2
    <3>. QED  BY <1>3, <2>4 DEF NextHead
  <2>7. TextOf(f, n + 1, n + 2) = line.text
    <3> DEFINE j == n + 1
    <3>1. j \in 1..Len(f) /\ j \in 1..j /\ j + 1 = n + 2
      BY <1>1
    <3>. HIDE DEF j
    <3>2. TextOf(f, j, j + 1) = f[j].text
      BY <3>1, TextOfAppend
    <3>. QED  BY <3>1, <3>2 DEF j
  <2>8. ASSUME NEW k \in 1..m
        PROVE  /\ ls2[k].key = f[head2[k]].key
               /\ ls2[k].zone = f[head2[k]].zone
               /\ Dark(ls2[k].text) = Dark(TextOf(f, head2[k], NextHead(head2, n + 1, k)))
    <3>. HIDE DEF ls2, head, head2
    <3>1. CASE k = m
      BY <2>3, <2>4, <2>6, <2>7, <3>1
    <3>2. CASE k # m
      <4>1. k \in 1..Len(ls)
        BY <1>3, <3>2
      <4>. QED  BY <1>3, <2>3, <2>4, <2>5, <4>1
    <3>. QED  BY <3>1, <3>2
  <2>. HIDE DEF ls2, head, head2
  <2>9. Folded(f, n + 1, ls2)
    BY <2>3, <2>4, <2>8 DEF Folded, head2
  <2>. QED  BY <2>9 DEF ls2
<1>. QED  BY <1>7, <1>8

\* While lines are scanned.
FoldsInv == TInv /\ (pc = "unfold" => Folded(AllScanned(body), pos, lines))

\* Nothing is unfolded of nothing.
LEMMA FoldedNone ==
  ASSUME NEW f
  PROVE  Folded(f, 0, <<>>)
<1>1. Heads(f, 0) \in Seq(1..0)
  BY HeadsAppend
<1>2. Len(Heads(f, 0)) = 0
  BY <1>1
<1>. QED  BY <1>2 DEF Folded

\* The scanner keeps it.
LEMMA NextFoldsInv ==
  ASSUME FoldsInv, [Next]_vars
  PROVE  FoldsInv'
<1>1. TInv'
  BY NextTInv DEF FoldsInv
<1>2. CASE Fetch
  <2>1. pos' = 0 /\ lines' = <<>>
    BY <1>2 DEF Fetch, FoldsInv, TInv, Waiting
  <2>. QED  BY <1>1, <2>1, FoldedNone DEF FoldsInv
<1>3. CASE ScanLine
  <2>1. /\ pc = "unfold" /\ pos < Len(body) /\ pos \in Nat
        /\ body' = body /\ pos' = pos + 1
        /\ lines' = Unfolds(lines, Scanned(body[pos + 1]))
    BY <1>3 DEF ScanLine, Scans, FoldsInv, TInv, FInv, input
  <2>2. body \in Seq(LineType) /\ ScannedTo(pos)
    BY <2>1, BodiesType DEF FoldsInv, TInv
  <2> DEFINE read == AllScanned(body)
  <2>3. /\ read \in Seq(LineType) /\ Len(read) = Len(body)
        /\ read[pos + 1] = Scanned(body[pos + 1])
    <3>1. pos + 1 \in 1..Len(body)
      BY <2>1, <2>2, LenProperties
    <3>. QED  BY <2>2, <3>1, AllScannedType
  <2>4. lines \in Seq(LineType)
    <3>1. pos \in 0..Len(read) /\ lines = Unfolded(SubSeq(read, 1, pos))
      BY <2>2, <2>3 DEF ScannedTo
    <3>. HIDE DEF read
    <3>. QED  BY <2>3, <3>1, PrefixIs, UnfoldedType
  <2>5. Folded(read, pos + 1, Unfolds(lines, read[pos + 1]))
    <3>1. Folded(read, pos, lines)
      BY <2>1 DEF FoldsInv
    <3>. HIDE DEF read
    <3>. QED  BY <2>1, <2>3, <2>4, <3>1, FoldedStep
  <2>. QED  BY <1>1, <2>1, <2>3, <2>5 DEF FoldsInv
<1>4. CASE UNCHANGED vars
  BY <1>1, <1>4 DEF FoldsInv, vars, input
<1>5. ASSUME Start \/ FetchFails \/ ScanEnds \/ ParseBegin \/ ParseEnd \/ Refuse
               \/ ParseLine \/ Return
      PROVE  pc' # "unfold"
  BY <1>5 DEF Start, FetchFails, ScanEnds, ParseBegin, ParseEnd, Refuse, ParseLine,
              Return, ParsingEnd, Parsing
<1>. QED  BY <1>1, <1>2, <1>3, <1>4, <1>5 DEF Next, FoldsInv

\* For any lines, wherever they are folded and however often: unfoldICS keeps
\* the lines, their names and zones, and of their texts all but blanks and what
\* the scanner takes.
THEOREM FoldsHold == Spec => []FoldsRead
<1>1. Init => FoldsInv
  BY InitTInv DEF Init, FoldsInv
<1>2. FoldsInv => FoldsRead
  BY DEF FoldsInv, FoldsRead, Folded, NextHead, TextOf
<1>. QED  BY <1>1, NextFoldsInv, <1>2, PTL DEF Spec

-----------------------------------------------------------------------------
(* A feed that is cut.                                                     *)

\* The last element of a set of line numbers.
LEMMA LastIsIn ==
  ASSUME NEW n \in Nat, NEW S \in SUBSET (1..n), S # {}
  PROVE  LastOf(S) \in S
<1> DEFINE R == {n - i : i \in S}
<1>1. R \in SUBSET Nat /\ R # {}
  <2>1. \A i \in S : n - i \in Nat
    OBVIOUS
  <2>. QED  BY <2>1
<1>2. PICK r \in R : \A q \in R : r <= q
  <2>. HIDE DEF R
  <2>. QED  BY <1>1, LeastNumber
<1>3. PICK i \in S : r = n - i
  BY <1>2
<1>4. \A j \in S : j <= i
  <2>. SUFFICES ASSUME NEW j \in S PROVE j <= i
    OBVIOUS
  <2>1. n - i <= n - j
    BY <1>2, <1>3
  <2>. QED  BY <2>1
<1>5. LastOf(S) = i
  <2>1. S \subseteq Int
    OBVIOUS
  <2>. QED  BY <1>4, <2>1, LastOfIs
<1>. QED  BY <1>5

\* The lines of a section say it all.
LEMMA SectionSame ==
  ASSUME NEW ls, NEW ls2, NEW n \in Nat, \A i \in 1..n : ls2[i] = ls[i],
         \E i \in 1..n : ls[i] = Begin
  PROVE  Section(ls2, n) = Section(ls, n)
<1> DEFINE B == {i \in 1..n : ls[i] = Begin}
           b == LastOf(B)
           of(key) == {i \in (b + 1)..n : ls[i].key = key}
<1>1. B = {i \in 1..n : ls2[i] = Begin}
  OBVIOUS
<1>2. b \in 1..n
  <2>1. B \in SUBSET (1..n) /\ B # {}
    OBVIOUS
  <2>. HIDE DEF B
  <2>. QED  BY <2>1, LastIsIn
<1>. HIDE DEF B, b
<1>3. \A key : of(key) = {i \in (b + 1)..n : ls2[i].key = key}
  BY <1>2
<1>4. ASSUME NEW key, of(key) # {} PROVE ls2[LastOf(of(key))] = ls[LastOf(of(key))]
  <2>1. of(key) \in SUBSET (1..n)
    BY <1>2
  <2>. HIDE DEF of
  <2>2. LastOf(of(key)) \in 1..n
    BY <1>4, <2>1, LastIsIn
  <2>. QED  BY <2>2
<1>5. Section(ls, n) =
        [key \in Keys |-> IF of(key) = {} THEN <<>> ELSE Value(ls[LastOf(of(key))])]
  BY DEF Section, B, b
<1>6. Section(ls2, n) =
        [key \in Keys |-> IF of(key) = {} THEN <<>> ELSE Value(ls2[LastOf(of(key))])]
  <2> DEFINE b2 == LastOf({i \in 1..n : ls2[i] = Begin})
             of2(key) == {i \in (b2 + 1)..n : ls2[i].key = key}
  <2>1. Section(ls2, n) =
          [key \in Keys |-> IF of2(key) = {} THEN <<>> ELSE Value(ls2[LastOf(of2(key))])]
    BY DEF Section
  <2>2. b2 = b
    BY <1>1 DEF B, b
  <2>3. \A key : of2(key) = of(key)
    BY <1>3, <2>2
  <2>. HIDE DEF b2, of2, of
  <2>. QED  BY <2>1, <2>3
<1>. HIDE DEF of
<1>. QED  BY <1>4, <1>5, <1>6

\* What n lines list depends on no other line.
LEMMA ListsSame ==
  ASSUME NEW evs, NEW ls, NEW ls2, NEW n \in Nat, \A i \in 1..n : ls2[i] = ls[i],
         Lists(evs, ls, n)
  PROVE  Lists(evs, ls2, n)
<1>1. PICK at \in [DOMAIN evs -> 1..n] :
    /\ \A i, j \in DOMAIN evs : i < j => at[i] < at[j]
    /\ {at[i] : i \in DOMAIN evs} = {j \in Closed(ls, n) : Gives(Section(ls, j - 1))}
    /\ \A i \in DOMAIN evs : evs[i] = EventFromICS(Section(ls, at[i] - 1))
  BY DEF Lists
<1>2. ASSUME NEW j \in 1..n PROVE Closes(ls2, j) <=> Closes(ls, j)
  <2>1. \A i \in 1..(j - 1) : i \in 1..n /\ \A k \in i..(j - 1) : k \in 1..n
    OBVIOUS
  <2>. QED  BY <2>1 DEF Closes
<1>3. Closed(ls2, n) = Closed(ls, n)
  BY <1>2 DEF Closed
<1>4. ASSUME NEW j \in Closed(ls, n) PROVE Section(ls2, j - 1) = Section(ls, j - 1)
  <2>1. j \in 1..n /\ \E i \in 1..(j - 1) : ls[i] = Begin
    BY DEF Closed, Closes
  <2>2. j - 1 \in Nat /\ \A i \in 1..(j - 1) : ls2[i] = ls[i]
    BY <2>1
  <2>. QED  BY <2>1, <2>2, SectionSame
<1>5. {j \in Closed(ls2, n) : Gives(Section(ls2, j - 1))}
        = {j \in Closed(ls, n) : Gives(Section(ls, j - 1))}
  BY <1>3, <1>4
<1>6. \A i \in DOMAIN evs : evs[i] = EventFromICS(Section(ls2, at[i] - 1))
  <2>1. \A i \in DOMAIN evs : at[i] \in Closed(ls, n)
    BY <1>1
  <2>. QED  BY <1>1, <1>4, <2>1
<1>. QED  BY <1>1, <1>5, <1>6 DEF Lists

\* A last line that closes nothing lists nothing.
LEMMA ListsBack ==
  ASSUME NEW evs, NEW ls, NEW n \in Nat, Lists(evs, ls, n + 1), ~Closes(ls, n + 1)
  PROVE  Lists(evs, ls, n)
<1>1. PICK at \in [DOMAIN evs -> 1..(n + 1)] :
    /\ \A i, j \in DOMAIN evs : i < j => at[i] < at[j]
    /\ {at[i] : i \in DOMAIN evs} = {j \in Closed(ls, n + 1) : Gives(Section(ls, j - 1))}
    /\ \A i \in DOMAIN evs : evs[i] = EventFromICS(Section(ls, at[i] - 1))
  BY DEF Lists
<1>2. Closed(ls, n + 1) = Closed(ls, n)
  BY ClosedStays
<1>3. at \in [DOMAIN evs -> 1..n]
  <2>1. \A i \in DOMAIN evs : at[i] \in Closed(ls, n)
    BY <1>1, <1>2
  <2>. QED  BY <1>1, <2>1 DEF Closed
<1>. QED  BY <1>1, <1>2, <1>3 DEF Lists

\* Only the last line may still change, and only by a continuation.
LEMMA UnfoldsStable ==
  ASSUME NEW ls \in Seq(LineType), NEW line \in LineType
  PROVE  LET more == Unfolds(ls, line)
         IN /\ Len(more) = IF ls # <<>> /\ Continues(line) THEN Len(ls) ELSE Len(ls) + 1
            /\ \A i \in 1..Len(ls) : i < Len(ls) \/ ~Continues(line) => more[i] = ls[i]
            /\ ~(ls # <<>> /\ Continues(line)) => more[Len(ls) + 1] = line
            /\ ls # <<>> /\ Continues(line) => more[Len(ls)].key = ls[Len(ls)].key
<1> DEFINE m == Len(ls)
           more == Unfolds(ls, line)
<1>1. CASE ls # <<>> /\ Continues(line)
  <2> DEFINE text == ls[m].text \o Unfold(line)
  <2>1. m \in 1..m /\ m \in Nat /\ DOMAIN ls = 1..m /\ ls[m] \in LineType
    BY <1>1, LenProperties, ElementOfSeq
  <2>2. more = [ls EXCEPT ![m].text = text]
    BY <1>1 DEF Unfolds
  <2>. HIDE DEF m, more, text
  <2>3. /\ DOMAIN more = 1..m
        /\ \A i \in 1..m : i # m => more[i] = ls[i]
        /\ more[m] = [ls[m] EXCEPT !.text = text]
    BY <2>1, <2>2
  <2>4. more[m].key = ls[m].key
    BY <2>1, <2>3 DEF LineType
  <2>5. Len(more) = m
    BY <2>1, <2>3
  <2>. QED  BY <1>1, <2>1, <2>3, <2>4, <2>5 DEF m, more
<1>2. CASE ~(ls # <<>> /\ Continues(line))
  <2>1. more = Append(ls, line)
    BY <1>2 DEF Unfolds
  <2>. QED  BY <1>2, <2>1, AppendProperties
<1>. QED  BY <1>1, <1>2

\* What is unfolded of a beginning.
UnfoldedTo(f, m) == Unfolded(SubSeq(f, 1, m))

\* A line more.
LEMMA StartStep ==
  ASSUME NEW f \in Seq(LineType), NEW m \in Nat, m < Len(f)
  PROVE  /\ UnfoldedTo(f, m) \in Seq(LineType)
         /\ f[m + 1] \in LineType
         /\ UnfoldedTo(f, m + 1) = Unfolds(UnfoldedTo(f, m), f[m + 1])
<1>1. /\ f[m + 1] \in LineType
      /\ SubSeq(f, 1, m) \in Seq(LineType)
      /\ SubSeq(f, 1, m + 1) = Append(SubSeq(f, 1, m), f[m + 1])
  BY PrefixAppend
<1>. QED  BY <1>1, UnfoldedAppend DEF UnfoldedTo

\* All but its last line is there in the whole.
LEMMA StartStable ==
  ASSUME NEW f \in Seq(LineType), NEW m \in 0..Len(f)
  PROVE  /\ UnfoldedTo(f, m) \in Seq(LineType)
         /\ Len(UnfoldedTo(f, m)) <= Len(Unfolded(f))
         /\ \A i \in 1..Len(UnfoldedTo(f, m)) :
              i < Len(UnfoldedTo(f, m)) => Unfolded(f)[i] = UnfoldedTo(f, m)[i]
<1> DEFINE u == UnfoldedTo(f, m)
           Good(w) == /\ Len(u) <= Len(w)
                      /\ \A i \in 1..Len(u) : i < Len(u) => w[i] = u[i]
           N == {k \in Nat : m + k <= Len(f) => Good(UnfoldedTo(f, m + k))}
<1>0. Len(f) \in Nat /\ m \in Nat
  BY LenProperties
<1>1. u \in Seq(LineType) /\ Len(u) \in Nat
  BY PrefixIs, UnfoldedType, LenProperties DEF UnfoldedTo
<1>2. 0 \in N
  <2>1. m + 0 = m
    BY <1>0
  <2>. QED  BY <1>1, <2>1
<1>3. ASSUME NEW k \in Nat, k \in N PROVE k + 1 \in N
  <2>. SUFFICES ASSUME m + (k + 1) <= Len(f) PROVE Good(UnfoldedTo(f, m + (k + 1)))
    OBVIOUS
  <2> DEFINE p == m + k
             w == UnfoldedTo(f, p)
  <2>1. p \in Nat /\ p < Len(f) /\ m + (k + 1) = p + 1 /\ p <= Len(f)
    BY <1>0
  <2>2. Good(w)
    BY <1>3, <2>1
  <2>. HIDE DEF p, u
  <2>3. /\ w \in Seq(LineType) /\ f[p + 1] \in LineType
        /\ UnfoldedTo(f, p + 1) = Unfolds(w, f[p + 1])
    BY <2>1, StartStep
  <2>. HIDE DEF w
  <2>4. /\ Len(w) \in Nat
        /\ Len(Unfolds(w, f[p + 1])) \in {Len(w), Len(w) + 1}
        /\ \A i \in 1..Len(w) : i < Len(w) => Unfolds(w, f[p + 1])[i] = w[i]
    BY <2>3, UnfoldsStable, LenProperties
  <2> DEFINE x == Unfolds(w, f[p + 1])
  <2>. HIDE DEF x
  <2>5. Good(x)
    <3>1. Len(u) <= Len(x)
      BY <1>1, <2>2, <2>4 DEF x
    <3>2. ASSUME NEW i \in 1..Len(u), i < Len(u) PROVE x[i] = u[i]
      <4>1. i \in 1..Len(w) /\ i < Len(w)
        BY <1>1, <2>2, <2>4, <3>2
      <4>. QED  BY <2>2, <2>4, <3>2, <4>1 DEF x
    <3>. QED  BY <3>1, <3>2
  <2>. QED  BY <2>1, <2>3, <2>5 DEF x
<1>4. \A k \in Nat : k \in N
  <2>. HIDE DEF N
  <2>. QED  BY <1>2, <1>3, Induction
<1>5. Len(f) - m \in Nat /\ m + (Len(f) - m) = Len(f)
  BY <1>0
<1>6. Good(UnfoldedTo(f, Len(f)))
  <2>1. Len(f) - m \in N
    BY <1>4, <1>5
  <2>. HIDE DEF Good
  <2>. QED  BY <1>0, <1>5, <2>1
<1>7. UnfoldedTo(f, Len(f)) = Unfolded(f)
  BY PrefixEnds DEF UnfoldedTo
<1>. QED  BY <1>1, <1>6, <1>7

\* A line END is as the feed has it.
LEMMA EndAsWritten ==
  ASSUME NEW f \in Seq(LineType), Written(f), NEW m \in 0..Len(f),
         UnfoldedTo(f, m) # <<>>, UnfoldedTo(f, m)[Len(UnfoldedTo(f, m))].key = "END"
  PROVE  m \in 1..Len(f) /\ UnfoldedTo(f, m)[Len(UnfoldedTo(f, m))] = f[m]
<1> DEFINE LastLine(k) == UnfoldedTo(f, k)[Len(UnfoldedTo(f, k))]
           N == {k \in Nat : k <= Len(f) /\ UnfoldedTo(f, k) # <<>> /\ LastLine(k).key = "END"
                               => k # 0 /\ LastLine(k) = f[k]}
<1>0. Len(f) \in Nat
  BY LenProperties
<1>1. 0 \in N
  <2>1. UnfoldedTo(f, 0) = <<>>
    BY PrefixEnds, UnfoldedEmpty DEF UnfoldedTo
  <2>. QED  BY <2>1
<1>2. ASSUME NEW k \in Nat, k \in N PROVE k + 1 \in N
  <2>. SUFFICES ASSUME k + 1 <= Len(f), LastLine(k + 1).key = "END"
                PROVE  LastLine(k + 1) = f[k + 1]
    OBVIOUS
  <2> DEFINE u == UnfoldedTo(f, k)
             line == f[k + 1]
             more == Unfolds(u, line)
  <2>1. k < Len(f)
    BY <1>0
  <2>2. u \in Seq(LineType) /\ line \in LineType /\ UnfoldedTo(f, k + 1) = more
    BY <2>1, StartStep
  <2>3. /\ Len(more) = IF u # <<>> /\ Continues(line) THEN Len(u) ELSE Len(u) + 1
        /\ ~(u # <<>> /\ Continues(line)) => more[Len(u) + 1] = line
        /\ u # <<>> /\ Continues(line) => more[Len(u)].key = u[Len(u)].key
    <3>. HIDE DEF u, line
    <3>. QED  BY <2>2, UnfoldsStable
  <2>4. ~(u # <<>> /\ Continues(line))
    <3>. SUFFICES ASSUME u # <<>>, Continues(line) PROVE FALSE
      OBVIOUS
    <3>1. u[Len(u)].key = "END"
      <4>. HIDE DEF u, line, more
      <4>. QED  BY <2>2, <2>3
    <3>2. k # 0 /\ u[Len(u)] = f[k] /\ k <= Len(f)
      BY <1>0, <1>2, <2>1, <3>1
    <3>3. k \in DOMAIN f /\ f[k].key = "END"
      BY <1>0, <3>1, <3>2, LenProperties
    <3>. QED  BY <2>1, <3>3 DEF Written
  <2>. HIDE DEF u, line, more
  <2>. QED  BY <2>2, <2>3, <2>4 DEF line
<1>3. \A k \in Nat : k \in N
  <2>. HIDE DEF N
  <2>. QED  BY <1>1, <1>2, Induction
<1>4. m \in Nat /\ m <= Len(f)
  BY <1>0
<1>. QED  BY <1>0, <1>3, <1>4

\* What a beginning lists, the whole lists.
LEMMA WholeLists ==
  ASSUME NEW f \in Seq(LineType), Written(f), NEW m \in 0..Len(f), NEW evs,
         Lists(evs, UnfoldedTo(f, m), Len(UnfoldedTo(f, m)))
  PROVE  \E n \in 0..Len(Unfolded(f)) : Lists(evs, Unfolded(f), n)
<1> DEFINE u == UnfoldedTo(f, m)
           w == Unfolded(f)
           L == Len(u)
<1>0. Len(f) \in Nat /\ m \in Nat
  BY LenProperties
<1>1. /\ u \in Seq(LineType) /\ L <= Len(w)
      /\ \A i \in 1..L : i < L => w[i] = u[i]
  BY StartStable
<1>2. L \in Nat /\ Len(w) \in Nat
  BY <1>1, UnfoldedType, LenProperties
<1>3. Lists(evs, u, L)
  OBVIOUS
<1>4. CASE L = 0
  <2>1. \A i \in 1..0 : w[i] = u[i]
    OBVIOUS
  <2>. HIDE DEF u, w, L
  <2>2. Lists(evs, w, 0)
    BY <1>3, <1>4, <2>1, ListsSame
  <2>. QED  BY <1>2, <2>2 DEF w
<1>5. CASE L # 0 /\ u[L] # End
  <2>1. ~Closes(u, L) /\ L - 1 \in Nat /\ (L - 1) + 1 = L
    BY <1>2, <1>5 DEF Closes
  <2>2. \A i \in 1..(L - 1) : w[i] = u[i]
    BY <1>1, <1>2
  <2>3. L - 1 \in 0..Len(w)
    BY <1>1, <1>2, <2>1
  <2>. HIDE DEF u, w, L
  <2>4. Lists(evs, u, L - 1)
    <3>1. Lists(evs, u, (L - 1) + 1) /\ ~Closes(u, (L - 1) + 1)
      BY <1>3, <2>1
    <3>. QED  BY <2>1, <3>1, ListsBack
  <2>5. Lists(evs, w, L - 1)
    BY <2>1, <2>2, <2>4, ListsSame
  <2>. QED  BY <2>3, <2>5 DEF w
<1>6. CASE L # 0 /\ u[L] = End
  <2>1. u[L].key = "END" /\ u # <<>>
    BY <1>2, <1>6 DEF End, Line
  <2>2. m \in 1..Len(f) /\ u[L] = f[m]
    BY <2>1, EndAsWritten
  <2>3. CASE m = Len(f)
    <3>1. u = w
      BY <2>3, PrefixEnds DEF UnfoldedTo
    <3>2. L \in 0..Len(w) /\ Lists(evs, w, L)
      BY <1>2, <1>3, <3>1
    <3>. QED  BY <3>2
  <2>4. CASE m # Len(f)
    <3>1. m < Len(f) /\ m + 1 \in 0..Len(f)
      BY <1>0, <2>2, <2>4
    <3>2. ~Continues(f[m + 1])
      <4>1. m \in DOMAIN f /\ f[m].key = "END"
        BY <2>1, <2>2, LenProperties
      <4>. QED  BY <3>1, <4>1 DEF Written
    <3> DEFINE x == UnfoldedTo(f, m + 1)
    <3>3. f[m + 1] \in LineType /\ x = Unfolds(u, f[m + 1])
      BY <1>0, <3>1, StartStep
    <3>4. Len(x) = L + 1 /\ \A i \in 1..L : x[i] = u[i]
      <4>. HIDE DEF u
      <4>. QED  BY <1>1, <3>2, <3>3, UnfoldsStable DEF L
    <3>5. \A i \in 1..Len(x) : i < Len(x) => w[i] = x[i]
      BY <3>1, StartStable
    <3>6. \A i \in 1..L : w[i] = u[i]
      <4>. HIDE DEF x, u, w, L
      <4>. QED  BY <1>2, <3>4, <3>5
    <3>7. L \in 0..Len(w)
      BY <1>1, <1>2
    <3>. HIDE DEF u, w, L
    <3>8. Lists(evs, w, L)
      BY <1>2, <1>3, <3>6, ListsSame
    <3>. QED  BY <3>7, <3>8 DEF w
  <2>. QED  BY <2>3, <2>4
<1>. QED  BY <1>4, <1>5, <1>6

\* What a cut leaves of a line: it continues its predecessor, or ends a section,
\* only if the line does.
Rest(c, line) ==
  /\ c \in LineType
  /\ Continues(c) => Continues(line)
  /\ c = End => line = End

\* What a cut leaves of a feed.
Remains(b, f) ==
  \/ b \in {f, <<>>}
  \/ \E n \in DOMAIN f : \E c : Rest(c, f[n]) /\ b = Append(SubSeq(f, 1, n - 1), c)

\* Of a cut line the scanner returns such a rest.
LEMMA CutRest ==
  ASSUME NEW line \in LineType, NEW k \in 0..(Len(line.text) + 1),
         line.key = "END" /\ DropCR(line.text) # <<>> /\ DropCR(line.text)[1] = "VEVENT"
           => DropCR(line.text) = <<"VEVENT">>
  PROVE  Rest(Scanned(Cut(line, k)), Scanned(line))
<1> DEFINE d == Cut(line, k)
           c == Scanned(d)
           g == Scanned(line)
<1>1. /\ d \in LineType /\ d.key = line.key /\ d.zone = line.zone
      /\ d.text # <<>> /\ d.text[1] # CR => line.text # <<>> /\ line.text[1] = d.text[1]
  BY CutType
<1>. HIDE DEF d
<1>2. /\ c \in LineType /\ c.key = d.key /\ c.zone = d.zone /\ c.text = DropCR(d.text)
      /\ g \in LineType /\ g.key = line.key /\ g.zone = line.zone
      /\ g.text = DropCR(line.text)
  BY <1>1, ScannedType
<1>. HIDE DEF c, g
<1>3. ASSUME c.text # <<>>, c.text[1] # CR
      PROVE  g.text # <<>> /\ g.text[1] = c.text[1]
  <2>1. d.text \in Text /\ line.text \in Text
    BY <1>1 DEF LineType, Text
  <2>2. d.text # <<>> /\ c.text[1] = d.text[1]
    BY <1>2, <1>3, <2>1, DropCRType
  <2>3. line.text # <<>> /\ line.text[1] = c.text[1]
    BY <1>1, <1>3, <2>2
  <2>. QED  BY <1>2, <1>3, <2>1, <2>3, DropCRType
<1>4. Continues(c) => Continues(g)
  <2>. SUFFICES ASSUME Continues(c) PROVE Continues(g)
    OBVIOUS
  <2>1. c.key = None /\ c.text # <<>> /\ c.text[1] \in Blanks
    BY DEF Continues
  <2>2. c.text[1] # CR
    BY <2>1 DEF Blanks, CR
  <2>. QED  BY <1>1, <1>2, <1>3, <2>1, <2>2 DEF Continues
<1>5. c = End => g = End
  <2>. SUFFICES ASSUME c = End PROVE g = End
    OBVIOUS
  <2>1. c.key = "END" /\ c.zone = None /\ c.text = <<"VEVENT">>
    BY DEF End, Line
  <2>2. c.text # <<>> /\ c.text[1] = "VEVENT" /\ c.text[1] # CR
    BY <2>1 DEF CR
  <2>3. g.text = <<"VEVENT">>
    BY <1>1, <1>2, <1>3, <2>1, <2>2
  <2>4. g = [key |-> g.key, zone |-> g.zone, text |-> g.text]
    BY <1>2 DEF LineType
  <2>. QED  BY <1>1, <1>2, <2>1, <2>3, <2>4 DEF End, Line
<1>. QED  BY <1>2, <1>4, <1>5 DEF Rest, c, d, g

\* What is scanned of a cut feed is a rest of what is scanned of the feed.
LEMMA BodyRemains ==
  ASSUME NEW f \in Seq(LineType), Written(AllScanned(f)), NEW b \in Bodies(f)
  PROVE  Remains(AllScanned(b), AllScanned(f))
<1>1. CASE b = f
  BY <1>1 DEF Remains
<1>2. CASE b = <<>>
  <2>1. AllScanned(b) = <<>>
    BY <1>2 DEF AllScanned
  <2>. QED  BY <2>1 DEF Remains
<1>3. CASE b \notin {f, <<>>}
  <2> DEFINE g == AllScanned(f)
  <2>1. PICK n \in DOMAIN f : b \in Cuts(f, n)
    BY <1>3 DEF Bodies
  <2>2. PICK k \in 0..(Len(f[n].text) + 1) : b = Append(SubSeq(f, 1, n - 1), Cut(f[n], k))
    BY <2>1, CutIs
  <2>3. /\ n \in 1..Len(f) /\ n - 1 \in 0..Len(f) /\ Len(f) \in Nat /\ f[n] \in LineType
        /\ b \in Seq(LineType)
    BY <2>1, CutIs, LenProperties, ElementOfSeq
  <2>4. /\ g \in Seq(LineType) /\ Len(g) = Len(f) /\ DOMAIN g = 1..Len(f)
        /\ \A i \in 1..Len(f) : g[i] = Scanned(f[i])
    <3>1. /\ g \in Seq(LineType) /\ Len(g) = Len(f)
          /\ \A i \in 1..Len(f) : g[i] = Scanned(f[i])
      BY AllScannedType
    <3>. HIDE DEF g
    <3>. QED  BY <3>1, LenProperties
  <2> DEFINE d == Cut(f[n], k)
             p == SubSeq(f, 1, n - 1)
             c == Scanned(d)
             q == SubSeq(g, 1, n - 1)
             h == AllScanned(b)
  <2>5. Rest(c, g[n])
    <3>1. g[n].key = f[n].key /\ g[n].text = DropCR(f[n].text) /\ g[n] = Scanned(f[n])
      BY <2>3, <2>4, ScannedType
    <3>2. g[n].key = "END" /\ g[n].text # <<>> /\ g[n].text[1] = "VEVENT"
            => g[n].text = <<"VEVENT">>
      BY <2>3, <2>4 DEF Written
    <3>3. f[n].key = "END" /\ DropCR(f[n].text) # <<>> /\ DropCR(f[n].text)[1] = "VEVENT"
            => DropCR(f[n].text) = <<"VEVENT">>
      <4>. HIDE DEF g
      <4>. QED  BY <3>1, <3>2
    <3>. HIDE DEF g
    <3>. QED  BY <2>3, <3>1, <3>3, CutRest
  <2>6. d \in LineType /\ c \in LineType
    BY <2>3, CutType, ScannedType
  <2>7. /\ h \in Seq(LineType) /\ Len(h) = Len(b)
        /\ \A i \in 1..Len(b) : h[i] = Scanned(b[i])
    BY <2>3, AllScannedType
  <2>8. p \in Seq(LineType) /\ Len(p) = n - 1 /\ \A i \in 1..(n - 1) : p[i] = f[i]
    BY <2>3, PrefixIs
  <2>9. q \in Seq(LineType) /\ Len(q) = n - 1 /\ \A i \in 1..(n - 1) : q[i] = g[i]
    <3>. HIDE DEF g
    <3>. QED  BY <2>3, <2>4, PrefixIs
  <2>. HIDE DEF c, d, g, h, p, q
  <2>10. /\ Len(b) = n /\ b[n] = d /\ \A i \in 1..(n - 1) : b[i] = p[i]
    <3>1. /\ Len(Append(p, d)) = Len(p) + 1 /\ Append(p, d)[Len(p) + 1] = d
          /\ \A i \in 1..Len(p) : Append(p, d)[i] = p[i]
      BY <2>6, <2>8, AppendProperties
    <3>. QED  BY <2>2, <2>3, <2>8, <3>1 DEF p, d
  <2>11. /\ Append(q, c) \in Seq(LineType) /\ Len(Append(q, c)) = n
         /\ Append(q, c)[n] = c /\ \A i \in 1..(n - 1) : Append(q, c)[i] = q[i]
    <3>1. /\ Append(q, c) \in Seq(LineType)
          /\ Len(Append(q, c)) = Len(q) + 1 /\ Append(q, c)[Len(q) + 1] = c
          /\ \A i \in 1..Len(q) : Append(q, c)[i] = q[i]
      BY <2>6, <2>9, AppendProperties
    <3>. QED  BY <2>3, <2>9, <3>1
  <2>12. \A i \in 1..n : h[i] = Append(q, c)[i]
    <3>1. h[n] = c
      BY <2>3, <2>7, <2>10 DEF c
    <3>2. ASSUME NEW i \in 1..(n - 1) PROVE h[i] = q[i]
      <4>1. i \in 1..Len(b) /\ i \in 1..Len(f)
        BY <2>3, <2>10
      <4>. QED  BY <2>4, <2>7, <2>8, <2>9, <2>10, <4>1
    <3>3. \A i \in 1..n : i = n \/ i \in 1..(n - 1)
      BY <2>3
    <3>. QED  BY <2>11, <3>1, <3>2, <3>3
  <2>13. h = Append(q, c)
    BY <2>7, <2>10, <2>11, <2>12, SeqEqual
  <2>. QED  BY <2>3, <2>4, <2>5, <2>13 DEF Remains, g, h, q
<1>. QED  BY <1>1, <1>2, <1>3

\* What is read of a cut feed lists what a beginning of the feed lists.
LEMMA CutLists ==
  ASSUME NEW f \in Seq(LineType), Written(f), NEW n \in DOMAIN f,
         NEW c, Rest(c, f[n]), NEW evs, NEW b, b = Append(SubSeq(f, 1, n - 1), c),
         Lists(evs, Unfolded(b), Len(Unfolded(b)))
  PROVE  \E m \in 0..Len(f) : Lists(evs, UnfoldedTo(f, m), Len(UnfoldedTo(f, m)))
<1> DEFINE p == SubSeq(f, 1, n - 1)
           u == UnfoldedTo(f, n - 1)
           L == Len(u)
           more == Unfolds(u, c)
<1>1. /\ Len(f) \in Nat /\ n \in 1..Len(f) /\ f[n] \in LineType
      /\ n - 1 \in 0..Len(f) /\ n \in 0..Len(f) /\ n - 1 \in Nat /\ n - 1 < Len(f)
      /\ (n - 1) + 1 = n
  BY LenProperties, ElementOfSeq
<1>2. /\ c \in LineType
      /\ Continues(c) => Continues(f[n])
      /\ c = End => f[n] = End
  BY DEF Rest
<1>4. p \in Seq(LineType) /\ u \in Seq(LineType) /\ L \in Nat /\ Unfolded(b) = more
  <2>1. p \in Seq(LineType)
    BY <1>1, PrefixIs
  <2>2. u = Unfolded(p)
    BY DEF UnfoldedTo
  <2>. HIDE DEF p, u
  <2>3. Unfolded(Append(p, c)) = Unfolds(Unfolded(p), c) /\ Unfolded(p) \in Seq(LineType)
    BY <1>2, <2>1, UnfoldedAppend
  <2>. QED  BY <2>1, <2>2, <2>3, LenProperties DEF p
<1>5. /\ Len(more) = IF u # <<>> /\ Continues(c) THEN L ELSE L + 1
      /\ \A i \in 1..L : i < L \/ ~Continues(c) => more[i] = u[i]
      /\ ~(u # <<>> /\ Continues(c)) => more[L + 1] = c
      /\ u # <<>> /\ Continues(c) => more[L].key = u[L].key
  <2>. HIDE DEF u
  <2>. QED  BY <1>2, <1>4, UnfoldsStable
<1>6. Lists(evs, more, Len(more))
  BY <1>4
<1>7. CASE u # <<>> /\ Continues(c)
  <2>1. Continues(f[n])
    BY <1>2, <1>7
  <2>2. u[L].key # "END"
    <3>. SUFFICES ASSUME u[L].key = "END" PROVE FALSE
      OBVIOUS
    <3>1. n - 1 \in 1..Len(f) /\ u[L] = f[n - 1]
      BY <1>1, <1>7, EndAsWritten
    <3>2. n - 1 \in DOMAIN f /\ f[n - 1].key = "END" /\ n - 1 < Len(f)
      BY <1>1, <3>1, LenProperties
    <3>3. ~Continues(f[(n - 1) + 1])
      BY <3>2 DEF Written
    <3>. QED  BY <1>1, <2>1, <3>3
  <2>3. L # 0 /\ L - 1 \in Nat /\ (L - 1) + 1 = L
    <3>. HIDE DEF u
    <3>. QED  BY <1>4, <1>7
  <2>. HIDE DEF u, L, more
  <2>4. more[L] # End /\ u[L] # End /\ Len(more) = L
    BY <1>5, <1>7, <2>2 DEF End, Line
  <2>5. ~Closes(more, (L - 1) + 1) /\ ~Closes(u, (L - 1) + 1)
    BY <2>3, <2>4 DEF Closes
  <2>6. Lists(evs, more, (L - 1) + 1)
    BY <1>6, <2>3, <2>4
  <2>7. Lists(evs, more, L - 1)
    BY <2>3, <2>5, <2>6, ListsBack
  <2>8. \A i \in 1..(L - 1) : u[i] = more[i]
    BY <1>4, <1>5, <2>3
  <2>9. Lists(evs, u, L - 1)
    BY <2>3, <2>7, <2>8, ListsSame
  <2>10. Lists(evs, u, (L - 1) + 1)
    BY <2>3, <2>5, <2>9, ListsStays
  <2>. QED  BY <1>1, <2>3, <2>10 DEF u, L
<1>8. CASE ~(u # <<>> /\ Continues(c)) /\ c # End
  <2>1. Len(more) = L + 1 /\ more[L + 1] # End
    BY <1>5, <1>8
  <2>2. ~Closes(more, L + 1)
    BY <2>1 DEF Closes
  <2>3. \A i \in 1..L : u[i] = more[i]
    <3>1. u = <<>> => L = 0
      OBVIOUS
    <3>. HIDE DEF u, L, more
    <3>. QED  BY <1>5, <1>8, <3>1
  <2>. HIDE DEF u, L, more
  <2>4. Lists(evs, more, L + 1)
    BY <1>6, <2>1
  <2>5. Lists(evs, more, L)
    BY <1>4, <2>2, <2>4, ListsBack
  <2>6. Lists(evs, u, L)
    BY <1>4, <2>3, <2>5, ListsSame
  <2>. QED  BY <1>1, <2>6 DEF u, L
<1>9. CASE c = End
  <2>1. UnfoldedTo(f, (n - 1) + 1) = Unfolds(u, f[(n - 1) + 1])
    BY <1>1, StartStep
  <2>2. UnfoldedTo(f, n) = more
    BY <1>1, <1>2, <1>9, <2>1
  <2>. QED  BY <1>1, <1>6, <2>2
<1>. QED  BY <1>7, <1>8, <1>9

\* And so does what is scanned of it.
LEMMA ScannedLists ==
  ASSUME NEW f \in Seq(LineType), Written(f), NEW b, Remains(b, f), NEW m \in 0..Len(b),
         NEW evs, Lists(evs, UnfoldedTo(b, m), Len(UnfoldedTo(b, m)))
  PROVE  \E n \in 0..Len(Unfolded(f)) : Lists(evs, Unfolded(f), n)
<1>1. ASSUME NEW k \in 0..Len(f), UnfoldedTo(f, k) = UnfoldedTo(b, m)
      PROVE  \E n \in 0..Len(Unfolded(f)) : Lists(evs, Unfolded(f), n)
  <2>1. Lists(evs, UnfoldedTo(f, k), Len(UnfoldedTo(f, k)))
    BY <1>1
  <2>. QED  BY <2>1, WholeLists
<1>2. CASE b = f
  BY <1>1, <1>2
<1>3. CASE b = <<>>
  <2>1. m = 0 /\ 0 \in 0..Len(f)
    BY <1>3, LenProperties
  <2>2. UnfoldedTo(f, 0) = UnfoldedTo(b, m)
    <3>1. <<>> \in Seq(LineType)
      OBVIOUS
    <3>2. SubSeq(f, 1, 0) = <<>> /\ SubSeq(b, 1, m) = <<>>
      BY <1>3, <2>1, <3>1, PrefixEnds
    <3>. QED  BY <3>2 DEF UnfoldedTo
  <2>. QED  BY <1>1, <2>1, <2>2
<1>4. CASE b \notin {f, <<>>}
  <2>1. PICK n \in DOMAIN f : \E c : Rest(c, f[n]) /\ b = Append(SubSeq(f, 1, n - 1), c)
    BY <1>4 DEF Remains
  <2>2. PICK c : Rest(c, f[n]) /\ b = Append(SubSeq(f, 1, n - 1), c)
    BY <2>1
  <2> DEFINE p == SubSeq(f, 1, n - 1)
  <2>3. n \in 1..Len(f) /\ n - 1 \in 0..Len(f) /\ Len(f) \in Nat
    BY LenProperties
  <2>4. p \in Seq(LineType) /\ Len(p) = n - 1 /\ \A i \in 1..(n - 1) : p[i] = f[i]
    BY <2>3, PrefixIs
  <2>5. b \in Seq(LineType)
    <3>. HIDE DEF p
    <3>. QED  BY <2>2, <2>4, AppendProperties DEF p, Rest
  <2>6. c \in LineType
    BY <2>2 DEF Rest
  <2>7. Len(b) = n /\ \A i \in 1..(n - 1) : b[i] = f[i]
    <3>. HIDE DEF p
    <3>1. Len(Append(p, c)) = Len(p) + 1
      BY <2>4, <2>6, AppendProperties
    <3>2. \A i \in 1..Len(p) : Append(p, c)[i] = p[i]
      BY <2>4, <2>6, AppendProperties
    <3>. QED  BY <2>2, <2>3, <2>4, <3>1, <3>2 DEF p
  <2>8. CASE m = n
    <3>1. UnfoldedTo(b, m) = Unfolded(b)
      BY <2>5, <2>7, <2>8, PrefixEnds DEF UnfoldedTo
    <3>2. Lists(evs, Unfolded(b), Len(Unfolded(b)))
      BY <3>1
    <3>3. \E j \in 0..Len(f) : Lists(evs, UnfoldedTo(f, j), Len(UnfoldedTo(f, j)))
      BY <2>2, <3>2, CutLists
    <3>. QED  BY <3>3, WholeLists
  <2>9. CASE m # n
    <3>1. m \in 0..(n - 1) /\ m \in 0..Len(f)
      BY <2>3, <2>7, <2>9
    <3>2. /\ SubSeq(b, 1, m) \in Seq(LineType) /\ Len(SubSeq(b, 1, m)) = m
          /\ \A i \in 1..m : SubSeq(b, 1, m)[i] = b[i]
      BY <2>5, PrefixIs
    <3>3. /\ SubSeq(f, 1, m) \in Seq(LineType) /\ Len(SubSeq(f, 1, m)) = m
          /\ \A i \in 1..m : SubSeq(f, 1, m)[i] = f[i]
      BY <3>1, PrefixIs
    <3>4. \A i \in 1..m : b[i] = f[i]
      BY <2>3, <2>7, <3>1
    <3>5. \A i \in 1..m : SubSeq(b, 1, m)[i] = SubSeq(f, 1, m)[i]
      BY <3>2, <3>3, <3>4
    <3>6. SubSeq(b, 1, m) = SubSeq(f, 1, m)
      BY <3>2, <3>3, <3>5, SeqEqual
    <3>. QED  BY <1>1, <3>1, <3>6 DEF UnfoldedTo
  <2>. QED  BY <2>8, <2>9
<1>. QED  BY <1>2, <1>3, <1>4

\* What is returned is what a beginning of the feed lists.
LEMMA CutFeedRead == TInv => FeedRead
<1> DEFINE all == AllScanned(full)
           read == AllScanned(body)
           whole == Unfolded(all)
<1>. SUFFICES ASSUME TInv, AtEnd, Written(all)
              PROVE  \E n \in 0..Len(whole) :
                       /\ body = full /\ ShortLines(full) => n = Len(whole)
                       /\ Lists(events, whole, n)
  BY DEF FeedRead
<1>1. pc = "parse" /\ pos = Len(lines) /\ full \in Seq(LineType) /\ body \in Bodies(full)
  BY DEF AtEnd, TInv
<1>2. PICK m \in 0..Len(body) : ScannedTo(m) /\ (ShortLines(body) => m = Len(body))
  BY <1>1 DEF TInv, Parsed
<1>3. Lists(events, lines, Len(lines))
  BY <1>1 DEF TInv, FInv, SectionsRead
<1>4. lines = UnfoldedTo(read, m)
  BY <1>2 DEF ScannedTo, UnfoldedTo
<1>5. all \in Seq(LineType) /\ read \in Seq(LineType) /\ Len(read) = Len(body)
  BY <1>1, BodiesType, AllScannedType
<1>6. Remains(read, all)
  BY <1>1, BodyRemains
<1>. HIDE DEF all, read
<1>7. CASE body = full /\ ShortLines(full)
  <2>1. read = all
    BY <1>7 DEF all, read
  <2>2. lines = whole
    BY <1>2, <1>4, <1>5, <1>7, <2>1, PrefixEnds DEF UnfoldedTo
  <2>3. Len(whole) \in 0..Len(whole)
    BY <1>5, UnfoldedType, LenProperties
  <2>. QED  BY <1>3, <2>2, <2>3
<1>8. CASE ~(body = full /\ ShortLines(full))
  <2>1. \E n \in 0..Len(whole) : Lists(events, whole, n)
    BY <1>2, <1>3, <1>4, <1>5, <1>6, ScannedLists
  <2>. QED  BY <1>8, <2>1
<1>. QED  BY <1>7, <1>8

\* For every feed and wherever it is cut, by the limit on its size or by a line
\* that is too long: what is returned is what the beginning of the whole feed
\* lists, and a feed that is not cut yields all (ICSFeedSource.Fetch).
THEOREM FeedReadHolds == Spec => []FeedRead
BY InitTInv, NextTInv, CutFeedRead, PTL DEF Spec

-----------------------------------------------------------------------------
(* The calendar of another instance.                                       *)

\* What is listed of a beginning is listed first of all lines.
LEMMA ListsPrefix ==
  ASSUME NEW evs, Sequence(evs), NEW evs2, Sequence(evs2), NEW ls,
         NEW n \in Nat, NEW m \in Nat, n <= m,
         Lists(evs, ls, n), Lists(evs2, ls, m)
  PROVE  /\ Len(evs) <= Len(evs2)
         /\ \A i \in 1..Len(evs) : evs[i] = evs2[i]
<1>1. PICK at \in [DOMAIN evs -> 1..n] :
    /\ \A i, j \in DOMAIN evs : i < j => at[i] < at[j]
    /\ {at[i] : i \in DOMAIN evs} = {j \in Closed(ls, n) : Gives(Section(ls, j - 1))}
    /\ \A i \in DOMAIN evs : evs[i] = EventFromICS(Section(ls, at[i] - 1))
  BY DEF Lists
<1>2. PICK at2 \in [DOMAIN evs2 -> 1..m] :
    /\ \A i, j \in DOMAIN evs2 : i < j => at2[i] < at2[j]
    /\ {at2[i] : i \in DOMAIN evs2} = {j \in Closed(ls, m) : Gives(Section(ls, j - 1))}
    /\ \A i \in DOMAIN evs2 : evs2[i] = EventFromICS(Section(ls, at2[i] - 1))
  BY DEF Lists
<1> DEFINE a == Len(evs)
           b == Len(evs2)
<1>3. a \in Nat /\ DOMAIN evs = 1..a /\ b \in Nat /\ DOMAIN evs2 = 1..b
  BY DEF Sequence
<1>4. /\ \A i \in 1..a : \E j \in 1..b : at[i] = at2[j]
      /\ \A j \in 1..b : at2[j] <= n => \E i \in 1..a : at2[j] = at[i]
  <2>1. \A j \in Closed(ls, n) : j \in Closed(ls, m)
    BY DEF Closed
  <2>2. \A j \in Closed(ls, m) : j <= n => j \in Closed(ls, n)
    BY DEF Closed
  <2>3. ASSUME NEW i \in 1..a PROVE \E j \in 1..b : at[i] = at2[j]
    <3>1. at[i] \in Closed(ls, n) /\ Gives(Section(ls, at[i] - 1))
      BY <1>1, <1>3
    <3>2. at[i] \in {at2[j] : j \in DOMAIN evs2}
      BY <1>2, <2>1, <3>1
    <3>. QED  BY <1>3, <3>2
  <2>4. ASSUME NEW j \in 1..b, at2[j] <= n PROVE \E i \in 1..a : at2[j] = at[i]
    <3>1. at2[j] \in Closed(ls, m) /\ Gives(Section(ls, at2[j] - 1))
      BY <1>2, <1>3
    <3>2. at2[j] \in {at[i] : i \in DOMAIN evs}
      BY <1>1, <2>2, <2>4, <3>1
    <3>. QED  BY <1>3, <3>2
  <2>. QED  BY <2>3, <2>4
<1>5. /\ at \in [1..a -> 1..n] /\ \A i, j \in 1..a : i < j => at[i] < at[j]
      /\ at2 \in [1..b -> 1..m] /\ \A i, j \in 1..b : i < j => at2[i] < at2[j]
  BY <1>1, <1>2, <1>3
<1>. HIDE DEF a, b
<1> DEFINE N == {k \in Nat : \A i \in 1..k : i \in 1..a => i \in 1..b /\ at[i] = at2[i]}
<1>6. 0 \in N
  OBVIOUS
<1>7. ASSUME NEW k \in Nat, k \in N PROVE k + 1 \in N
  <2>1. \A i \in 1..(k + 1) : i \in 1..k \/ i = k + 1
    OBVIOUS
  <2>2. \A i \in 1..k : i \in 1..a => i \in 1..b /\ at[i] = at2[i]
    BY <1>7
  <2>3. ASSUME k + 1 \in 1..a PROVE k + 1 \in 1..b /\ at[k + 1] = at2[k + 1]
    <3>1. PICK j \in 1..b : at[k + 1] = at2[j]
      BY <1>4, <2>3
    <3>2. ~(j < k + 1)
      <4>. SUFFICES ASSUME j < k + 1 PROVE FALSE
        OBVIOUS
      <4>1. j \in 1..k /\ j \in 1..a
        BY <1>3, <2>3
      <4>2. at[j] = at[k + 1] /\ at[j] < at[k + 1]
        BY <1>5, <2>2, <2>3, <3>1, <4>1
      <4>3. at[j] \in Nat
        BY <1>5, <4>1
      <4>. QED  BY <4>2, <4>3
    <3>3. k + 1 \in 1..b
      BY <1>3, <3>2
    <3>4. at2[k + 1] \in Nat /\ at[k + 1] \in 1..n /\ at2[k + 1] <= at[k + 1]
      <4>1. at2[j] \in Nat /\ at2[k + 1] \in Nat /\ at[k + 1] \in 1..n
        BY <1>5, <2>3, <3>3
      <4>2. j = k + 1 \/ at2[k + 1] < at2[j]
        BY <1>3, <1>5, <3>2, <3>3
      <4>. QED  BY <3>1, <4>1, <4>2
    <3>5. PICK i \in 1..a : at2[k + 1] = at[i]
      <4>1. at2[k + 1] <= n
        BY <3>4
      <4>. QED  BY <1>4, <3>3, <4>1
    <3>6. ~(i < k + 1)
      <4>. SUFFICES ASSUME i < k + 1 PROVE FALSE
        OBVIOUS
      <4>1. i \in 1..k
        BY <1>3
      <4>2. i \in 1..b /\ at[i] = at2[i]
        BY <2>2, <4>1
      <4>3. at2[i] < at2[k + 1] /\ at2[i] \in Nat
        BY <1>5, <3>3, <4>2
      <4>. QED  BY <3>5, <4>2, <4>3
    <3>7. i = k + 1 \/ at[k + 1] < at[i]
      BY <1>3, <1>5, <2>3, <3>6
    <3>8. at[i] \in Nat
      BY <1>5
    <3>. QED  BY <3>3, <3>4, <3>5, <3>7, <3>8
  <2>. QED  BY <2>1, <2>2, <2>3
<1>8. \A k \in Nat : k \in N
  <2>. HIDE DEF N
  <2>. QED  BY <1>6, <1>7, Induction
<1>9. \A i \in 1..a : i \in 1..b /\ at[i] = at2[i]
  <2>. SUFFICES ASSUME NEW i \in 1..a PROVE i \in 1..b /\ at[i] = at2[i]
    OBVIOUS
  <2>1. i \in Nat
    BY <1>3
  <2>2. i \in N /\ i \in 1..i
    BY <1>8, <2>1
  <2>. QED  BY <2>2
<1>10. a <= b
  <2>1. a \in 1..a \/ a = 0
    BY <1>3
  <2>. QED  BY <1>3, <1>9, <2>1
<1>11. \A i \in 1..a : evs[i] = evs2[i]
  BY <1>1, <1>2, <1>3, <1>9
<1>. QED  BY <1>10, <1>11 DEF a, b

\* Lines with names are not folded.
LEMMA NamedUnfolded ==
  ASSUME NEW f \in Seq(NamedLine)
  PROVE  Unfolded(f) = f
<1> DEFINE Q == {r \in Seq(NamedLine) : Unfolded(r) = r}
<1>1. <<>> \in Q
  BY UnfoldedEmpty
<1>2. ASSUME NEW r \in Seq(NamedLine), NEW line \in NamedLine, r \in Q
      PROVE  Append(r, line) \in Q
  <2>1. r \in Seq(LineType) /\ line \in LineType /\ line.key # None
    <3>1. NamedLine \subseteq LineType
      BY DEF NamedLine
    <3>2. \A S, T : S \subseteq T => \A q \in Seq(S) : q \in Seq(T)
      OBVIOUS
    <3>. QED  BY <3>1, <3>2 DEF NamedLine
  <2>2. Unfolded(Append(r, line)) = Unfolds(r, line)
    BY <1>2, <2>1, UnfoldedAppend
  <2>3. Unfolds(r, line) = Append(r, line)
    BY <2>1 DEF Unfolds, Continues
  <2>4. Append(r, line) \in Seq(NamedLine)
    BY AppendProperties
  <2>. QED  BY <2>2, <2>3, <2>4
<1>3. \A r \in Seq(NamedLine) : r \in Q
  <2>. HIDE DEF Q
  <2>. QED  BY <1>1, <1>2, SequenceInduction
<1>. QED  BY <1>3

\* They are not folded, and stay so when they are scanned.
LEMMA NamedWritten ==
  ASSUME NEW f \in Seq(NamedLine)
  PROVE  Written(f)
<1>1. Len(f) \in Nat /\ DOMAIN f = 1..Len(f) /\ \A i \in 1..Len(f) : f[i] \in NamedLine
  BY LenProperties, ElementOfSeq
<1>. SUFFICES ASSUME NEW i \in DOMAIN f, f[i].key = "END"
              PROVE  /\ i < Len(f) => ~Continues(f[i + 1])
                     /\ f[i].text # <<>> /\ f[i].text[1] = "VEVENT"
                          => f[i].text = <<"VEVENT">>
  BY DEF Written
<1>2. f[i] = End
  BY <1>1 DEF NamedLine
<1>3. i < Len(f) => f[i + 1] \in NamedLine
  BY <1>1
<1>. QED  BY <1>2, <1>3 DEF NamedLine, Continues, End, Line

\* What is written, scanned.
LEMMA ScannedLine ==
  /\ \A key, text : Scanned(Line(key, text)) = Line(key, DropCR(text))
  /\ \A t \in Tokens \ {CR} : DropCR(<<t>>) = <<t>>
<1>1. \A key, text : Scanned(Line(key, text)) = Line(key, DropCR(text))
  BY DEF Scanned, Line
<1>2. ASSUME NEW t \in Tokens \ {CR} PROVE DropCR(<<t>>) = <<t>>
  <2>1. <<t>> = Append(<<>>, t) /\ <<>> \in Text
    BY TextConcat
  <2>. QED  BY <2>1, DropCRIs
<1>. QED  BY <1>1, <1>2

\* The two lines around a section, scanned.
LEMMA ScannedEnds == Scanned(Begin) = Begin /\ Scanned(End) = End
<1>1. "VEVENT" \in Tokens \ {CR}
  BY TokensAssumption DEF CR
<1>. QED  BY <1>1, ScannedLine DEF Begin, End

\* Named lines, scanned, are named.
LEMMA NamedScanned ==
  ASSUME NEW f \in Seq(NamedLine)
  PROVE  /\ AllScanned(f) \in Seq(NamedLine)
         /\ Len(AllScanned(f)) = Len(f)
         /\ \A i \in 1..Len(f) : AllScanned(f)[i] = Scanned(f[i])
<1> DEFINE g == AllScanned(f)
<1>1. Len(f) \in Nat /\ \A i \in 1..Len(f) : f[i] \in NamedLine
  BY LenProperties, ElementOfSeq
<1>2. f \in Seq(LineType)
  <2>1. NamedLine \subseteq LineType
    BY DEF NamedLine
  <2>2. \A S, T : S \subseteq T => \A q \in Seq(S) : q \in Seq(T)
    OBVIOUS
  <2>. QED  BY <2>1, <2>2
<1>3. /\ g \in Seq(LineType) /\ Len(g) = Len(f)
      /\ \A i \in 1..Len(f) : g[i] = Scanned(f[i])
  BY <1>2, AllScannedType
<1>. HIDE DEF g
<1>4. ASSUME NEW i \in 1..Len(f) PROVE g[i] \in NamedLine
  <2>1. f[i] \in NamedLine /\ f[i] \in LineType
    BY <1>1 DEF NamedLine
  <2>2. Scanned(f[i]) \in LineType /\ Scanned(f[i]).key = f[i].key
    BY <2>1, ScannedType
  <2>3. f[i].key = "END" => Scanned(f[i]) = End
    BY <2>1, ScannedEnds DEF NamedLine
  <2>. QED  BY <1>3, <2>1, <2>2, <2>3 DEF NamedLine
<1>5. g = [i \in 1..Len(f) |-> g[i]]
  BY <1>3, LenProperties
<1>6. g \in Seq(NamedLine)
  BY <1>1, <1>4, <1>5, IsASeq
<1>. QED  BY <1>3, <1>6 DEF g

\* Parts are scanned one by one.
LEMMA ScannedConcat ==
  ASSUME NEW f \in Seq(NamedLine), NEW g \in Seq(NamedLine)
  PROVE  AllScanned(f \o g) = AllScanned(f) \o AllScanned(g)
<1> DEFINE h == f \o g
           sf == AllScanned(f)
           sg == AllScanned(g)
           sh == AllScanned(h)
<1>1. /\ h \in Seq(NamedLine) /\ Len(h) = Len(f) + Len(g)
      /\ Len(f) \in Nat /\ Len(g) \in Nat
      /\ \A i \in 1..(Len(f) + Len(g)) : h[i] = IF i <= Len(f) THEN f[i] ELSE g[i - Len(f)]
  BY ConcatProperties, LenProperties
<1>. HIDE DEF h
<1>2. /\ sf \in Seq(NamedLine) /\ Len(sf) = Len(f)
      /\ \A i \in 1..Len(f) : sf[i] = Scanned(f[i])
  BY NamedScanned
<1>3. /\ sg \in Seq(NamedLine) /\ Len(sg) = Len(g)
      /\ \A i \in 1..Len(g) : sg[i] = Scanned(g[i])
  BY NamedScanned
<1>4. /\ sh \in Seq(NamedLine) /\ Len(sh) = Len(h)
      /\ \A i \in 1..Len(h) : sh[i] = Scanned(h[i])
  BY <1>1, NamedScanned
<1>. HIDE DEF sf, sg, sh
<1>5. /\ sf \o sg \in Seq(NamedLine) /\ Len(sf \o sg) = Len(f) + Len(g)
      /\ \A i \in 1..(Len(f) + Len(g)) :
           (sf \o sg)[i] = IF i <= Len(f) THEN sf[i] ELSE sg[i - Len(f)]
  <2>. HIDE DEF h
  <2>1. sf \in Seq(NamedLine) /\ sg \in Seq(NamedLine)
    BY <1>2, <1>3
  <2>2. /\ sf \o sg \in Seq(NamedLine) /\ Len(sf \o sg) = Len(sf) + Len(sg)
        /\ \A i \in 1..(Len(sf) + Len(sg)) :
             (sf \o sg)[i] = IF i <= Len(sf) THEN sf[i] ELSE sg[i - Len(sf)]
    BY <2>1, ConcatProperties
  <2>3. Len(sf) = Len(f) /\ Len(sg) = Len(g)
    BY <1>2, <1>3
  <2>. QED  BY <2>2, <2>3
<1>6. ASSUME NEW i \in 1..(Len(f) + Len(g)) PROVE sh[i] = (sf \o sg)[i]
  <2>1. CASE i <= Len(f)
    BY <1>1, <1>2, <1>4, <1>5, <2>1
  <2>2. CASE ~(i <= Len(f))
    <3>1. i - Len(f) \in 1..Len(g)
      BY <1>1, <2>2
    <3>. QED  BY <1>1, <1>3, <1>4, <1>5, <2>2, <3>1
  <2>. QED  BY <2>1, <2>2
<1>7. sh = sf \o sg
  BY <1>1, <1>4, <1>5, <1>6, SeqEqual
<1>. QED  BY <1>7 DEF h, sf, sg, sh

\* Lines without END list nothing.
LEMMA ListsQuiet ==
  ASSUME NEW evs, NEW ls, NEW n \in Nat, NEW m \in Nat, n <= m, Lists(evs, ls, n),
         \A i \in (n + 1)..m : ls[i] # End
  PROVE  Lists(evs, ls, m)
<1>1. PICK at \in [DOMAIN evs -> 1..n] :
    /\ \A i, j \in DOMAIN evs : i < j => at[i] < at[j]
    /\ {at[i] : i \in DOMAIN evs} = {j \in Closed(ls, n) : Gives(Section(ls, j - 1))}
    /\ \A i \in DOMAIN evs : evs[i] = EventFromICS(Section(ls, at[i] - 1))
  BY DEF Lists
<1>2. at \in [DOMAIN evs -> 1..m]
  OBVIOUS
<1>3. Closed(ls, m) = Closed(ls, n)
  <2>1. \A j \in 1..m : j \in 1..n \/ j \in (n + 1)..m
    OBVIOUS
  <2>2. \A j \in 1..n : j \in 1..m
    OBVIOUS
  <2>. QED  BY <2>1, <2>2 DEF Closed, Closes
<1>. QED  BY <1>1, <1>2, <1>3 DEF Lists

\* A text without blanks at its ends is not trimmed.
LEMMA TrimSpaceOne ==
  ASSUME NEW t \in Tokens, t \notin White
  PROVE  TrimSpace(<<t>>) = <<t>>
<1> DEFINE s == <<t>>
<1>1. s \in Text /\ Len(s) = 1 /\ s[1] = t
  BY TextConcat
<1>2. TrimLeft(s, White) = s
  <2>1. PICK k \in 0..1 :
           /\ \A i \in 1..k : s[i] \in White
           /\ TrimLeft(s, White) = SubSeq(s, k + 1, Len(s))
    BY <1>1, TrimLeftIs
  <2>2. k = 0
    BY <1>1, <2>1
  <2>3. SubSeq(s, 1, Len(s)) = s
    BY <1>1, PrefixEnds DEF Text
  <2>. QED  BY <2>1, <2>2, <2>3
<1>3. Reverse(s) = s
  BY DEF Reverse
<1>. QED  BY <1>2, <1>3 DEF TrimSpace

\* What a section that was written and scanned says, key by key.
AsWritten(e) ==
  [key \in Keys |->
     CASE key = "UID" -> e.id
       [] key = "DTSTART" -> <<e.starts>>
       [] key = "DTEND" -> <<e.ends>>
       [] key = "SUMMARY" -> DropCR(e.title)
       [] key = "DESCRIPTION" -> Described(e)
       [] key = "LOCATION" -> DropCR(e.location)
       [] key = "URL" -> DropCR(e.url)
       [] key = "STATUS" -> <<IF e.tentative THEN "TENTATIVE" ELSE "CONFIRMED">>]

\* It gives the event that was written, unless its start is the zero time or its
\* title is empty.
LEMMA WrittenEvent ==
  ASSUME NEW e \in EntryType
  PROVE  LET event == EventFromICS(AsWritten(e))
         IN /\ event.id = e.id /\ event.title = DropCR(e.title)
            /\ event.location = DropCR(e.location) /\ event.description = Described(e)
            /\ event.starts = e.starts /\ event.ends = e.ends
            /\ event.tentative = e.tentative
            /\ Gives(AsWritten(e)) <=> e.starts # ZeroTime /\ DropCR(e.title) # <<>>
<1> DEFINE c == AsWritten(e)
           event == EventFromICS(c)
<1>1. /\ c["UID"] = e.id /\ c["SUMMARY"] = DropCR(e.title)
      /\ c["DESCRIPTION"] = Described(e) /\ c["LOCATION"] = DropCR(e.location)
      /\ c["DTSTART"] = <<e.starts>> /\ c["DTEND"] = <<e.ends>>
      /\ c["STATUS"] = <<IF e.tentative THEN "TENTATIVE" ELSE "CONFIRMED">>
  BY DEF AsWritten, Keys
<1>2. /\ e.id # <<>> /\ e.starts \in Times /\ e.ends \in Times
      /\ e.tentative \in BOOLEAN
  BY DEF EntryType
<1>3. ASSUME NEW t \in Times PROVE ParseDate(<<t>>) = t /\ t # None
  <2>1. t \in Tokens /\ t \notin White /\ t # None
    BY TokensAssumption, FeedAssumption
  <2>2. TrimSpace(<<t>>) = <<t>>
    BY <2>1, TrimSpaceOne
  <2>3. Len(<<t>>) = 1 /\ <<t>>[1] = t
    OBVIOUS
  <2>. QED  BY <2>1, <2>2, <2>3 DEF ParseDate
<1>4. StartOf(c) = e.starts /\ StartOf(c) # None
  BY <1>1, <1>2, <1>3 DEF StartOf
<1>5. ParseDate(c["DTEND"]) = e.ends /\ e.ends # None
  BY <1>1, <1>2, <1>3
<1>6. (ToLower(c["STATUS"]) = <<"tentative">>) <=> e.tentative
  <2>1. \A t : ToLower(<<t>>) = <<Lower[t]>>
    BY DEF ToLower
  <2>2. CASE e.tentative
    <3>1. ToLower(c["STATUS"]) = <<Lower["TENTATIVE"]>>
      BY <1>1, <2>1, <2>2
    <3>. QED  BY <2>2, <3>1, TokensAssumption
  <2>3. CASE ~e.tentative
    <3>1. ToLower(c["STATUS"]) = <<Lower["CONFIRMED"]>>
      BY <1>1, <2>1, <2>3
    <3>2. Lower["CONFIRMED"] # "tentative"
      BY TokensAssumption
    <3>3. \A a, b : <<a>> = <<b>> => a = b
      OBVIOUS
    <3>. QED  BY <2>3, <3>1, <3>2, <3>3
  <2>. QED  BY <2>2, <2>3
<1>. HIDE DEF c
<1>7. /\ event.id = e.id /\ event.title = DropCR(e.title)
      /\ event.location = DropCR(e.location) /\ event.description = Described(e)
      /\ event.starts = e.starts /\ event.ends = e.ends
  BY <1>1, <1>2, <1>4, <1>5 DEF EventFromICS
<1>8. event.tentative = e.tentative
  <2>1. event.tentative = (ToLower(c["STATUS"]) = <<"tentative">>)
    BY DEF EventFromICS
  <2>. QED  BY <1>2, <1>6, <2>1
<1>9. Gives(c) <=> e.starts # ZeroTime /\ DropCR(e.title) # <<>>
  <2>. HIDE DEF event
  <2>1. Gives(c) <=> StartOf(c) # None /\ Listed(event)
    BY DEF Gives, event
  <2>. QED  BY <1>2, <1>4, <1>7, <2>1 DEF Listed
<1>. HIDE DEF event
<1>10. /\ event.id = e.id /\ event.title = DropCR(e.title)
       /\ event.location = DropCR(e.location) /\ event.description = Described(e)
       /\ event.starts = e.starts /\ event.ends = e.ends
       /\ event.tentative = e.tentative
       /\ Gives(c) <=> e.starts # ZeroTime /\ DropCR(e.title) # <<>>
  BY <1>7, <1>8, <1>9
<1>. QED  BY <1>10 DEF c, event

\* The lines of a section, one by one.
LEMMA SectionLines ==
  ASSUME NEW e \in EntryType
  PROVE  LET sec == RenderSection(e)
             k == IF e.url = <<>> THEN 9 ELSE 10
         IN /\ sec \in Seq(NamedLine) /\ Len(sec) = k
            /\ sec[1] = Begin
            /\ sec[2] = Line("UID", Escape(e.id))
            /\ sec[3] = Line("DTSTART", <<e.starts>>)
            /\ sec[4] = Line("DTEND", <<e.ends>>)
            /\ sec[5] = Line("SUMMARY", Escape(e.title))
            /\ sec[6] = Line("DESCRIPTION", Escape(Described(e)))
            /\ sec[7] = Line("LOCATION", Escape(e.location))
            /\ k = 10 => sec[8] = Line("URL", Escape(e.url))
            /\ sec[k - 1] = Line("STATUS", <<IF e.tentative THEN "TENTATIVE" ELSE "CONFIRMED">>)
            /\ sec[k] = End
<1> DEFINE a == Begin
           b == Line("UID", Escape(e.id))
           c == Line("DTSTART", <<e.starts>>)
           d == Line("DTEND", <<e.ends>>)
           g == Line("SUMMARY", Escape(e.title))
           f == Line("DESCRIPTION", Escape(Described(e)))
           h == Line("LOCATION", Escape(e.location))
           u == Line("URL", Escape(e.url))
           x == Line("STATUS", <<IF e.tentative THEN "TENTATIVE" ELSE "CONFIRMED">>)
           z == End
           T == {a, b, c, d, g, f, h, u, x, z}
           sec == RenderSection(e)
           mid == IF e.url = <<>> THEN <<>> ELSE <<u>>
           k == IF e.url = <<>> THEN 9 ELSE 10
<1>1. sec = (<<a, b, c, d, g, f, h>> \o mid) \o <<x, z>>
  BY DEF RenderSection
<1>2. sec \in Seq(NamedLine)
  BY RenderSectionType
<1>. HIDE DEF a, b, c, d, f, g, h, u, x, z, sec
<1>. HIDE DEF T
<1>0. a \in T /\ b \in T /\ c \in T /\ d \in T /\ g \in T /\ f \in T /\ h \in T /\ u \in T
      /\ x \in T /\ z \in T
  BY DEF T
<1>3. /\ <<a, b, c, d, g, f, h>> \in Seq(T) /\ <<x, z>> \in Seq(T)
      /\ mid \in Seq(T) /\ Len(mid) = k - 9
      /\ k = 10 => mid[1] = u
  <2>1. <<a, b, c, d, g, f, h>> \in Seq(T)
    BY <1>0
  <2>2. <<x, z>> \in Seq(T)
    BY <1>0
  <2>3. CASE e.url = <<>>
    <3>1. mid = <<>> /\ k = 9
      BY <2>3
    <3>. QED  BY <2>1, <2>2, <3>1
  <2>4. CASE e.url # <<>>
    <3>1. mid = <<u>> /\ k = 10
      BY <2>4
    <3>2. <<u>> \in Seq(T) /\ Len(<<u>>) = 1 /\ <<u>>[1] = u
      BY <1>0
    <3>. QED  BY <2>1, <2>2, <3>1, <3>2
  <2>. QED  BY <2>3, <2>4
<1> DEFINE p == <<a, b, c, d, g, f, h>> \o mid
<1>4. /\ p \in Seq(T) /\ Len(p) = k - 2
      /\ p[1] = a /\ p[2] = b /\ p[3] = c /\ p[4] = d /\ p[5] = g /\ p[6] = f
      /\ p[7] = h
      /\ k = 10 => p[8] = u
  <2> DEFINE s == <<a, b, c, d, g, f, h>>
  <2>1. /\ Len(s) = 7 /\ s[1] = a /\ s[2] = b /\ s[3] = c /\ s[4] = d
        /\ s[5] = g /\ s[6] = f /\ s[7] = h
    OBVIOUS
  <2>. HIDE DEF s, mid, T
  <2>2. /\ s \o mid \in Seq(T) /\ Len(s \o mid) = Len(s) + Len(mid)
        /\ \A i \in 1..(Len(s) + Len(mid)) :
             (s \o mid)[i] = IF i <= Len(s) THEN s[i] ELSE mid[i - Len(s)]
    BY <1>3, ConcatProperties DEF s
  <2>. QED  BY <1>3, <2>1, <2>2 DEF s
<1>5. /\ Len(sec) = k
      /\ sec[1] = a /\ sec[2] = b /\ sec[3] = c /\ sec[4] = d /\ sec[5] = g /\ sec[6] = f
      /\ sec[7] = h
      /\ k = 10 => sec[8] = u
      /\ sec[k - 1] = x /\ sec[k] = z
  <2> DEFINE s == <<x, z>>
  <2>1. Len(s) = 2 /\ s[1] = x /\ s[2] = z
    OBVIOUS
  <2>. HIDE DEF s, p, T
  <2>2. /\ Len(p \o s) = Len(p) + Len(s)
        /\ \A i \in 1..(Len(p) + Len(s)) :
             (p \o s)[i] = IF i <= Len(p) THEN p[i] ELSE s[i - Len(p)]
    BY <1>3, <1>4, ConcatProperties DEF s
  <2>3. sec = p \o s
    BY <1>1 DEF p, s
  <2>. QED  BY <1>4, <2>1, <2>2, <2>3
<1>. QED  BY <1>2, <1>5 DEF a, b, c, d, f, g, h, u, x, z, sec

\* And as the scanner returns them.
LEMMA ScannedLines ==
  ASSUME NEW e \in EntryType
  PROVE  LET sec == AllScanned(RenderSection(e))
             k == IF e.url = <<>> THEN 9 ELSE 10
         IN /\ sec \in Seq(NamedLine) /\ Len(sec) = k
            /\ sec[1] = Begin
            /\ sec[2] = Line("UID", Escape(e.id))
            /\ sec[3] = Line("DTSTART", <<e.starts>>)
            /\ sec[4] = Line("DTEND", <<e.ends>>)
            /\ sec[5] = Line("SUMMARY", Escape(DropCR(e.title)))
            /\ sec[6] = Line("DESCRIPTION", Escape(Described(e)))
            /\ sec[7] = Line("LOCATION", Escape(DropCR(e.location)))
            /\ k = 10 => sec[8] = Line("URL", Escape(DropCR(e.url)))
            /\ sec[k - 1] = Line("STATUS", <<IF e.tentative THEN "TENTATIVE" ELSE "CONFIRMED">>)
            /\ sec[k] = End
<1> DEFINE raw == RenderSection(e)
           sec == AllScanned(raw)
           k == IF e.url = <<>> THEN 9 ELSE 10
           status == <<IF e.tentative THEN "TENTATIVE" ELSE "CONFIRMED">>
<1>1. /\ raw \in Seq(NamedLine) /\ Len(raw) = k
      /\ raw[1] = Begin
      /\ raw[2] = Line("UID", Escape(e.id))
      /\ raw[3] = Line("DTSTART", <<e.starts>>)
      /\ raw[4] = Line("DTEND", <<e.ends>>)
      /\ raw[5] = Line("SUMMARY", Escape(e.title))
      /\ raw[6] = Line("DESCRIPTION", Escape(Described(e)))
      /\ raw[7] = Line("LOCATION", Escape(e.location))
      /\ k = 10 => raw[8] = Line("URL", Escape(e.url))
      /\ raw[k - 1] = Line("STATUS", status)
      /\ raw[k] = End
  BY SectionLines
<1>2. /\ e.id \in Text /\ e.title \in Text /\ e.location \in Text /\ e.url \in Text
      /\ Described(e) \in Text /\ DropCR(Described(e)) = Described(e)
      /\ e.starts \in Tokens \ {CR} /\ e.ends \in Tokens \ {CR}
  <2>1. \A t \in Times : t \in Tokens \ {CR}
    BY TokensAssumption DEF White
  <2>. QED  BY <2>1, EntryTexts, DescribedIs
<1>3. DropCR(e.id) = e.id
  <2>1. e.id \in Seq(Tokens \ White) /\ e.id # <<>>
    BY DEF EntryType
  <2>2. Last(e.id) \in Tokens \ White
    BY <2>1 DEF Last
  <2>. QED  BY <2>2 DEF DropCR, White
<1>4. /\ Scanned(Line("UID", Escape(e.id))) = Line("UID", Escape(e.id))
      /\ Scanned(Line("SUMMARY", Escape(e.title))) = Line("SUMMARY", Escape(DropCR(e.title)))
      /\ Scanned(Line("DESCRIPTION", Escape(Described(e))))
           = Line("DESCRIPTION", Escape(Described(e)))
      /\ Scanned(Line("LOCATION", Escape(e.location)))
           = Line("LOCATION", Escape(DropCR(e.location)))
      /\ Scanned(Line("URL", Escape(e.url))) = Line("URL", Escape(DropCR(e.url)))
  <2>1. ASSUME NEW key, NEW s \in Text
        PROVE  Scanned(Line(key, Escape(s))) = Line(key, Escape(DropCR(s)))
    BY ScannedLine, DropCREscape
  <2>. QED  BY <1>2, <1>3, <2>1
<1>5. /\ Scanned(Line("DTSTART", <<e.starts>>)) = Line("DTSTART", <<e.starts>>)
      /\ Scanned(Line("DTEND", <<e.ends>>)) = Line("DTEND", <<e.ends>>)
      /\ Scanned(Line("STATUS", status)) = Line("STATUS", status)
  <2>1. (IF e.tentative THEN "TENTATIVE" ELSE "CONFIRMED") \in Tokens \ {CR}
    BY TokensAssumption DEF CR
  <2>2. ASSUME NEW key, NEW t \in Tokens \ {CR}
        PROVE  Scanned(Line(key, <<t>>)) = Line(key, <<t>>)
    BY ScannedLine
  <2>. QED  BY <1>2, <2>1, <2>2
<1>. HIDE DEF raw, status
<1>6. /\ sec \in Seq(NamedLine) /\ Len(sec) = k
      /\ \A i \in 1..k : sec[i] = Scanned(raw[i])
  BY <1>1, NamedScanned
<1>7. /\ \A i \in {1, 2, 3, 4, 5, 6, 7, k - 1, k} : i \in 1..k
      /\ k = 10 => 8 \in 1..k
  OBVIOUS
<1>. HIDE DEF sec, k
<1>8. /\ sec[1] = Scanned(raw[1]) /\ sec[2] = Scanned(raw[2]) /\ sec[3] = Scanned(raw[3])
      /\ sec[4] = Scanned(raw[4]) /\ sec[5] = Scanned(raw[5]) /\ sec[6] = Scanned(raw[6])
      /\ sec[7] = Scanned(raw[7]) /\ (k = 10 => sec[8] = Scanned(raw[8]))
      /\ sec[k - 1] = Scanned(raw[k - 1]) /\ sec[k] = Scanned(raw[k])
  BY <1>6, <1>7
<1>9. /\ sec[1] = Begin /\ sec[k] = End
      /\ sec[2] = Line("UID", Escape(e.id))
      /\ sec[5] = Line("SUMMARY", Escape(DropCR(e.title)))
      /\ sec[6] = Line("DESCRIPTION", Escape(Described(e)))
      /\ sec[7] = Line("LOCATION", Escape(DropCR(e.location)))
      /\ k = 10 => sec[8] = Line("URL", Escape(DropCR(e.url)))
  BY <1>1, <1>4, <1>8, ScannedEnds
<1>10. /\ sec[3] = Line("DTSTART", <<e.starts>>)
       /\ sec[4] = Line("DTEND", <<e.ends>>)
       /\ sec[k - 1] = Line("STATUS", status)
  BY <1>1, <1>5, <1>8
<1>. QED  BY <1>6, <1>9, <1>10 DEF raw, sec, k, status

\* A line that was written gives its key the text.
LEMMA ValueWritten ==
  /\ \A key, s : key \notin {"DTSTART", "DTEND"} /\ s \in Text => Value(Line(key, Escape(s))) = s
  /\ \A key : \A t \in Tokens \ {Backslash} : Value(Line(key, <<t>>)) = <<t>>
<1>1. \A key, text : Value(Line(key, text)) = Unescape(text)
  BY DEF Value, Line
<1>2. ASSUME NEW t \in Tokens \ {Backslash} PROVE Unescape(<<t>>) = <<t>>
  <2>1. <<>> \in Text /\ <<t>> \in Text
    BY TextConcat
  <2>2. Unescape(<<t>> \o <<>>) = <<t>> \o Unescape(<<>>)
    BY <2>1, UnescapePlain
  <2>. QED  BY <2>1, <2>2, UnescapeEmpty, TextConcat
<1>. QED  BY <1>1, <1>2, TextReadBack

\* A section that was written, from line n + 1 on, and scanned is read as
\* what it says.
LEMMA WrittenSection ==
  ASSUME NEW e \in EntryType, NEW ls, NEW n \in Nat,
         \A i \in 1..Len(AllScanned(RenderSection(e))) : ls[n + i] = AllScanned(RenderSection(e))[i]
  PROVE  LET m == n + Len(AllScanned(RenderSection(e))) - 1
         IN /\ Section(ls, m) = AsWritten(e)
            /\ Closes(ls, m + 1)
            /\ \A i \in (n + 1)..m : ls[i] # End
<1> DEFINE sec == AllScanned(RenderSection(e))
           k == IF e.url = <<>> THEN 9 ELSE 10
           m == n + k - 1
           c == AsWritten(e)
           status == <<IF e.tentative THEN "TENTATIVE" ELSE "CONFIRMED">>
<1>1. /\ Len(sec) = k
      /\ sec[1] = Begin
      /\ sec[2] = Line("UID", Escape(e.id))
      /\ sec[3] = Line("DTSTART", <<e.starts>>)
      /\ sec[4] = Line("DTEND", <<e.ends>>)
      /\ sec[5] = Line("SUMMARY", Escape(DropCR(e.title)))
      /\ sec[6] = Line("DESCRIPTION", Escape(Described(e)))
      /\ sec[7] = Line("LOCATION", Escape(DropCR(e.location)))
      /\ k = 10 => sec[8] = Line("URL", Escape(DropCR(e.url)))
      /\ sec[k - 1] = Line("STATUS", status)
      /\ sec[k] = End
  BY ScannedLines
<1>. HIDE DEF status
<1>2. \A i \in 1..k : ls[n + i] = sec[i]
  BY <1>1
<1>. HIDE DEF sec
<1>3. /\ ls[n + 1] = Begin
      /\ ls[n + 2] = Line("UID", Escape(e.id))
      /\ ls[n + 3] = Line("DTSTART", <<e.starts>>)
      /\ ls[n + 4] = Line("DTEND", <<e.ends>>)
      /\ ls[n + 5] = Line("SUMMARY", Escape(DropCR(e.title)))
      /\ ls[n + 6] = Line("DESCRIPTION", Escape(Described(e)))
      /\ ls[n + 7] = Line("LOCATION", Escape(DropCR(e.location)))
      /\ k = 10 => ls[n + 8] = Line("URL", Escape(DropCR(e.url)))
      /\ ls[n + k - 1] = Line("STATUS", status)
      /\ ls[n + k] = End
  <2>1. /\ \A i \in {1, 2, 3, 4, 5, 6, 7, k} : i \in 1..k
        /\ k = 10 => 8 \in 1..k
        /\ k - 1 \in 1..k /\ n + (k - 1) = n + k - 1
    OBVIOUS
  <2>. HIDE DEF k
  <2>. QED  BY <1>1, <1>2, <2>1
<1>4. \A key, text : Line(key, text).key = key
  BY DEF Line
<1>5. /\ ls[n + 2].key = "UID" /\ ls[n + 3].key = "DTSTART" /\ ls[n + 4].key = "DTEND"
      /\ ls[n + 5].key = "SUMMARY" /\ ls[n + 6].key = "DESCRIPTION"
      /\ ls[n + 7].key = "LOCATION"
      /\ k = 10 => ls[n + 8].key = "URL"
      /\ ls[m].key = "STATUS"
      /\ Begin.key = "BEGIN" /\ End.key = "END"
  BY <1>3, <1>4 DEF Begin, End
<1>6. /\ Value(ls[n + 2]) = e.id
      /\ Value(ls[n + 3]) = <<e.starts>> /\ Value(ls[n + 4]) = <<e.ends>>
      /\ Value(ls[n + 5]) = DropCR(e.title) /\ Value(ls[n + 6]) = Described(e)
      /\ Value(ls[n + 7]) = DropCR(e.location)
      /\ k = 10 => Value(ls[n + 8]) = DropCR(e.url)
      /\ Value(ls[m]) = status
  <2>1. /\ e.id \in Text /\ DropCR(e.title) \in Text /\ DropCR(e.location) \in Text
        /\ DropCR(e.url) \in Text /\ Described(e) \in Text
    BY EntryTexts, DropCRType, DescribedIs
  <2>0. e.starts \in Tokens \ {Backslash} /\ e.ends \in Tokens \ {Backslash}
    BY TokensAssumption DEF EntryType
  <2>2. (IF e.tentative THEN "TENTATIVE" ELSE "CONFIRMED") \in Tokens \ {Backslash}
    BY TokensAssumption DEF Backslash
  <2>3. /\ Value(Line("UID", Escape(e.id))) = e.id
        /\ Value(Line("SUMMARY", Escape(DropCR(e.title)))) = DropCR(e.title)
        /\ Value(Line("DESCRIPTION", Escape(Described(e)))) = Described(e)
        /\ Value(Line("LOCATION", Escape(DropCR(e.location)))) = DropCR(e.location)
        /\ Value(Line("URL", Escape(DropCR(e.url)))) = DropCR(e.url)
    BY <2>1, ValueWritten
  <2>4. /\ Value(Line("DTSTART", <<e.starts>>)) = <<e.starts>>
        /\ Value(Line("DTEND", <<e.ends>>)) = <<e.ends>>
    BY <2>0, ValueWritten
  <2>5. Value(Line("STATUS", status)) = status
    BY <2>2, ValueWritten DEF status
  <2>. QED  BY <1>3, <2>3, <2>4, <2>5
<1>7. \A i \in (n + 2)..m :
        i \in {n + 2, n + 3, n + 4, n + 5, n + 6, n + 7, m} \/ (k = 10 /\ i = n + 8)
  OBVIOUS
<1>8. m \in Nat /\ n + 1 \in 1..m /\ n + 1 \in Nat /\ m + 1 = n + k /\ (n + 1) + 1 = n + 2
  OBVIOUS
<1>9. \A i \in (n + 2)..m : ls[i] # Begin /\ ls[i] # End
  <2>1. \A i \in (n + 2)..m : ls[i].key \notin {"BEGIN", "END"}
    <3>. HIDE DEF k, m
    <3>. QED  BY <1>5, <1>7
  <2>. QED  BY <1>5, <2>1
<1>10. c = [key \in Keys |-> c[key]]
  <2> DEFINE F(key) ==
        CASE key = "UID" -> e.id
          [] key = "DTSTART" -> <<e.starts>>
          [] key = "DTEND" -> <<e.ends>>
          [] key = "SUMMARY" -> DropCR(e.title)
          [] key = "DESCRIPTION" -> Described(e)
          [] key = "LOCATION" -> DropCR(e.location)
          [] key = "URL" -> DropCR(e.url)
          [] key = "STATUS" -> <<IF e.tentative THEN "TENTATIVE" ELSE "CONFIRMED">>
  <2>1. c = [key \in Keys |-> F(key)]
    BY Zenon DEF AsWritten
  <2>. HIDE DEF F, c
  <2>. QED  BY <2>1
<1>11. /\ c["UID"] = e.id /\ c["DTSTART"] = <<e.starts>> /\ c["DTEND"] = <<e.ends>>
       /\ c["SUMMARY"] = DropCR(e.title) /\ c["DESCRIPTION"] = Described(e)
       /\ c["LOCATION"] = DropCR(e.location)
       /\ c["URL"] = DropCR(e.url) /\ c["STATUS"] = status
  <2>1. /\ c["UID"] = e.id /\ c["DTSTART"] = <<e.starts>> /\ c["DTEND"] = <<e.ends>>
        /\ c["SUMMARY"] = DropCR(e.title)
    BY DEF AsWritten, Keys
  <2>2. c["DESCRIPTION"] = Described(e) /\ c["LOCATION"] = DropCR(e.location)
    BY DEF AsWritten, Keys
  <2>3. c["URL"] = DropCR(e.url)
    BY DEF AsWritten, Keys
  <2>4. c["STATUS"] = status
    BY DEF AsWritten, Keys, status
  <2>. QED  BY <2>1, <2>2, <2>3, <2>4
<1>. HIDE DEF c
<1>12. ASSUME NEW i \in (n + 2)..m, NEW key, ls[i].key = key, c[key] = Value(ls[i]),
              \A j \in (i + 1)..m : ls[j].key # key
       PROVE  LastValue(ls, n + 1, m, key, c[key])
  BY <1>8, <1>12 DEF LastValue
<1>13. ASSUME NEW i \in Nat, NEW key, key # "STATUS",
              i >= n + 2, i <= n + 7, ls[i].key = key, c[key] = Value(ls[i]), key # "URL",
              \A j \in {n + 2, n + 3, n + 4, n + 5, n + 6, n + 7} : j > i => ls[j].key # key
       PROVE  LastValue(ls, n + 1, m, key, c[key])
  <2>1. i \in (n + 2)..m
    BY <1>13
  <2>2. ASSUME NEW j \in (i + 1)..m PROVE ls[j].key # key
    <3>1. j \in {n + 2, n + 3, n + 4, n + 5, n + 6, n + 7, m} \/ (k = 10 /\ j = n + 8)
      BY <1>7, <1>13
    <3>2. j > i
      BY <1>13
    <3>. HIDE DEF k, m
    <3>. QED  BY <1>5, <1>13, <3>1, <3>2
  <2>. QED  BY <1>12, <1>13, <2>1, <2>2
<1>14. \A a \in 2..7 : \A b \in 2..7 : n + a \in Nat /\ (n + b > n + a <=> b > a)
  OBVIOUS
<1>15. LastValue(ls, n + 1, m, "UID", c["UID"])
  <2>1. \A j \in {n + 2, n + 3, n + 4, n + 5, n + 6, n + 7} : j > n + 2 => ls[j].key # "UID"
    BY <1>5
  <2>2. n + 2 \in Nat /\ n + 2 >= n + 2 /\ n + 2 <= n + 7
    OBVIOUS
  <2>3. ls[n + 2].key = "UID" /\ c["UID"] = Value(ls[n + 2])
    BY <1>5, <1>6, <1>11
  <2>. HIDE DEF k, m
  <2>. QED  BY <1>13, <2>1, <2>2, <2>3
<1>16. LastValue(ls, n + 1, m, "DTSTART", c["DTSTART"])
  <2>1. \A j \in {n + 2, n + 3, n + 4, n + 5, n + 6, n + 7} : j > n + 3 => ls[j].key # "DTSTART"
    BY <1>5
  <2>2. n + 3 \in Nat /\ n + 3 >= n + 2 /\ n + 3 <= n + 7
    OBVIOUS
  <2>3. ls[n + 3].key = "DTSTART" /\ c["DTSTART"] = Value(ls[n + 3])
    BY <1>5, <1>6, <1>11
  <2>. HIDE DEF k, m
  <2>. QED  BY <1>13, <2>1, <2>2, <2>3
<1>17. LastValue(ls, n + 1, m, "DTEND", c["DTEND"])
  <2>1. \A j \in {n + 2, n + 3, n + 4, n + 5, n + 6, n + 7} : j > n + 4 => ls[j].key # "DTEND"
    BY <1>5
  <2>2. n + 4 \in Nat /\ n + 4 >= n + 2 /\ n + 4 <= n + 7
    OBVIOUS
  <2>3. ls[n + 4].key = "DTEND" /\ c["DTEND"] = Value(ls[n + 4])
    BY <1>5, <1>6, <1>11
  <2>. HIDE DEF k, m
  <2>. QED  BY <1>13, <2>1, <2>2, <2>3
<1>18. LastValue(ls, n + 1, m, "SUMMARY", c["SUMMARY"])
  <2>1. \A j \in {n + 2, n + 3, n + 4, n + 5, n + 6, n + 7} : j > n + 5 => ls[j].key # "SUMMARY"
    BY <1>5
  <2>2. n + 5 \in Nat /\ n + 5 >= n + 2 /\ n + 5 <= n + 7
    OBVIOUS
  <2>3. ls[n + 5].key = "SUMMARY" /\ c["SUMMARY"] = Value(ls[n + 5])
    BY <1>5, <1>6, <1>11
  <2>. HIDE DEF k, m
  <2>. QED  BY <1>13, <2>1, <2>2, <2>3
<1>19. LastValue(ls, n + 1, m, "LOCATION", c["LOCATION"])
  <2>1. \A j \in {n + 2, n + 3, n + 4, n + 5, n + 6, n + 7} : j > n + 7 => ls[j].key # "LOCATION"
    BY <1>5
  <2>2. n + 7 \in Nat /\ n + 7 >= n + 2 /\ n + 7 <= n + 7
    OBVIOUS
  <2>3. ls[n + 7].key = "LOCATION" /\ c["LOCATION"] = Value(ls[n + 7])
    BY <1>5, <1>6, <1>11
  <2>. HIDE DEF k, m
  <2>. QED  BY <1>13, <2>1, <2>2, <2>3
<1>20. LastValue(ls, n + 1, m, "STATUS", c["STATUS"])
  <2>1. m \in (n + 2)..m /\ \A j \in (m + 1)..m : FALSE
    OBVIOUS
  <2>. QED  BY <1>5, <1>6, <1>11, <1>12, <2>1
<1>21. LastValue(ls, n + 1, m, "URL", c["URL"])
  <2>1. CASE k = 10
    <3>1. n + 8 \in (n + 2)..m /\ \A j \in (n + 9)..m : j = m
      BY <2>1
    <3>2. (n + 8) + 1 = n + 9 /\ ls[m].key # "URL"
      BY <1>5
    <3>3. \A j \in ((n + 8) + 1)..m : ls[j].key # "URL"
      BY <3>1, <3>2
    <3>. HIDE DEF k, m
    <3>. QED  BY <1>5, <1>6, <1>11, <1>12, <2>1, <3>1, <3>3
  <2>2. CASE k # 10
    <3>1. DropCR(e.url) = <<>>
      BY <2>2, DropCRIs
    <3>2. \A i \in (n + 2)..m : ls[i].key # "URL"
      <4>. HIDE DEF k, m
      <4>. QED  BY <1>5, <1>7, <2>2
    <3>. HIDE DEF k, m
    <3>. QED  BY <1>8, <1>11, <3>1, <3>2 DEF LastValue
  <2>. QED  BY <2>1, <2>2
<1>22. LastValue(ls, n + 1, m, "DESCRIPTION", c["DESCRIPTION"])
  <2>1. \A j \in {n + 2, n + 3, n + 4, n + 5, n + 6, n + 7} : j > n + 6 => ls[j].key # "DESCRIPTION"
    BY <1>5
  <2>2. n + 6 \in Nat /\ n + 6 >= n + 2 /\ n + 6 <= n + 7
    OBVIOUS
  <2>3. ls[n + 6].key = "DESCRIPTION" /\ c["DESCRIPTION"] = Value(ls[n + 6])
    BY <1>5, <1>6, <1>11
  <2>. HIDE DEF k, m
  <2>. QED  BY <1>13, <2>1, <2>2, <2>3
<1>. HIDE DEF m, k
<1>23. \A key \in Keys : LastValue(ls, n + 1, m, key, c[key])
  BY <1>15, <1>16, <1>17, <1>18, <1>19, <1>20, <1>21, <1>22 DEF Keys
<1>24. Began(c, ls, n + 1, m)
  BY <1>3, <1>8, <1>9, <1>10, <1>23 DEF Began, QuietAfter
<1>25. Section(ls, m) = c
  BY <1>8, <1>24, BeganIsSection
<1>26. \A i \in (n + 1)..m : ls[i] # End
  <2>1. \A i \in (n + 1)..m : i = n + 1 \/ i \in (n + 2)..m
    BY <1>8
  <2>. QED  BY <1>3, <1>9, <2>1, BeginIsNotEnd
<1>27. Closes(ls, m + 1)
  <2>1. ls[m + 1] = End /\ (m + 1) - 1 = m
    BY <1>3, <1>8
  <2>. QED  BY <1>3, <1>8, <1>26, <2>1 DEF Closes
<1>28. m = n + Len(sec) - 1
  BY <1>1 DEF m
<1>. QED  BY <1>25, <1>26, <1>27, <1>28 DEF c, sec


\* Entries that are events when they are read.
Started == {e \in EntryType : e.starts # ZeroTime /\ DropCR(e.title) # <<>>}

Alike(event, e) ==
  /\ event.id = e.id /\ event.title = DropCR(e.title)
  /\ event.location = DropCR(e.location) /\ event.description = Described(e)
  /\ event.starts = e.starts /\ event.ends = e.ends /\ event.tentative = e.tentative

\* What a calendar lists is the events that were written.
Understood(c) ==
  \E evs :
    /\ Sequence(evs)
    /\ Lists(evs, AllScanned(RenderICS(c)), Len(AllScanned(RenderICS(c))))
    /\ Len(evs) = Len(Kept(c, Started))
    /\ \A i \in 1..Len(evs) : Alike(evs[i], Kept(c, Started)[i])

\* One more event, one more section.
LEMMA UnderstoodAppend ==
  ASSUME NEW c \in Seq(EntryType), NEW e \in EntryType, Understood(c)
  PROVE  Understood(Append(c, e))
<1> DEFINE r == AllScanned(RenderICS(c))
           sec == AllScanned(RenderSection(e))
           ls == r \o sec
           n == Len(r)
           m == n + Len(sec) - 1
           k == Kept(c, Started)
<1>1. PICK evs :
        /\ Sequence(evs)
        /\ Lists(evs, r, n)
        /\ Len(evs) = Len(k)
        /\ \A i \in 1..Len(evs) : Alike(evs[i], k[i])
  BY DEF Understood
<1>2. r \in Seq(NamedLine) /\ AllScanned(RenderICS(Append(c, e))) = ls
  BY RenderAppend, RenderSectionType, NamedScanned, ScannedConcat
<1>3. sec \in Seq(NamedLine) /\ Len(sec) \in Nat /\ Len(sec) >= 1 /\ n \in Nat
  <2>1. sec \in Seq(NamedLine) /\ Len(sec) >= 9
    <3>1. sec \in Seq(NamedLine) /\ Len(sec) = IF e.url = <<>> THEN 9 ELSE 10
      BY ScannedLines
    <3>. HIDE DEF sec
    <3>. QED  BY <3>1
  <2>2. Len(sec) \in Nat /\ Len(sec) >= 1
    <3>. HIDE DEF sec
    <3>. QED  BY <2>1, LenProperties
  <2>3. n \in Nat
    BY <1>2, LenProperties
  <2>. QED  BY <2>1, <2>2, <2>3
<1>4. k \in Seq(EntryType) /\ Kept(Append(c, e), Started) =
                                IF e \in Started THEN Append(k, e) ELSE k
  BY KeptAppend
<1>. HIDE DEF k, r, sec
<1>5. /\ Len(ls) = n + Len(sec)
      /\ \A i \in 1..n : ls[i] = r[i]
      /\ \A i \in 1..Len(sec) : ls[n + i] = sec[i]
  BY <1>2, <1>3, ConcatProperties
<1>6. Len(ls) = m + 1 /\ m \in Nat /\ n <= m
  BY <1>3, <1>5
<1>. HIDE DEF ls, n
<1>7. Lists(evs, ls, n)
  BY <1>1, <1>3, <1>5, ListsSame
<1>8. /\ Section(ls, m) = AsWritten(e)
      /\ Closes(ls, m + 1)
      /\ \A i \in (n + 1)..m : ls[i] # End
  BY <1>3, <1>5, WrittenSection DEF sec
<1>. HIDE DEF m
<1>9. Lists(evs, ls, m)
  BY <1>3, <1>6, <1>7, <1>8, ListsQuiet
<1> DEFINE event == EventFromICS(AsWritten(e))
<1>10. Alike(event, e) /\ (Gives(AsWritten(e)) <=> e \in Started)
  BY WrittenEvent DEF Alike, Started
<1>. HIDE DEF event
<1>11. CASE e \in Started
  <2>1. Lists(Append(evs, event), ls, m + 1)
    BY <1>1, <1>6, <1>8, <1>9, <1>10, <1>11, ListsAppends DEF event
  <2>2. /\ Sequence(Append(evs, event)) /\ Len(Append(evs, event)) = Len(evs) + 1
        /\ \A i \in 1..Len(evs) : Append(evs, event)[i] = evs[i]
        /\ Append(evs, event)[Len(evs) + 1] = event
    BY <1>1, SequenceAppend
  <2>3. /\ Len(Append(k, e)) = Len(k) + 1
        /\ \A i \in 1..Len(k) : Append(k, e)[i] = k[i]
        /\ Append(k, e)[Len(k) + 1] = e
    BY <1>4, AppendProperties
  <2>4. Len(k) \in Nat
    BY <1>4, LenProperties
  <2> DEFINE x == Append(evs, event)
             y == Append(k, e)
  <2>5. \A i \in 1..Len(x) : Alike(x[i], y[i])
    <3>1. \A i \in 1..(Len(evs) + 1) : i \in 1..Len(evs) \/ i = Len(evs) + 1
      BY <1>1, <2>4
    <3>. HIDE DEF x, y
    <3>. QED  BY <1>1, <1>10, <2>2, <2>3, <3>1 DEF x, y
  <2>6. Sequence(x) /\ Lists(x, ls, Len(ls)) /\ Len(x) = Len(y)
    BY <1>1, <1>6, <2>1, <2>2, <2>3
  <2>. HIDE DEF x
  <2>. QED  BY <1>2, <1>4, <1>11, <2>5, <2>6 DEF Understood
<1>12. CASE e \notin Started
  <2>1. Lists(evs, ls, m + 1)
    BY <1>6, <1>8, <1>9, <1>10, <1>12, ListsSkips
  <2>. QED  BY <1>1, <1>2, <1>4, <1>6, <1>12, <2>1 DEF Understood
<1>. QED  BY <1>11, <1>12

\* Every calendar is understood.
LEMMA CalendarUnderstood ==
  ASSUME NEW c \in Seq(EntryType)
  PROVE  Understood(c)
<1> DEFINE S == {s \in Seq(EntryType) : Understood(s)}
<1>1. <<>> \in S
  <2>1. AllScanned(RenderICS(<<>>)) = <<>>
    BY FlattenEmpty DEF RenderICS, AllScanned
  <2>2. Len(<<>>) = 0 /\ <<>> \in Seq(EntryType) /\ Kept(<<>>, Started) = <<>>
    BY KeptEmpty
  <2>3. Sequence(<<>>)
    BY DEF Sequence
  <2>4. Lists(<<>>, <<>>, 0)
    <3> DEFINE at == [i \in {} |-> 0]
    <3>1. at \in [DOMAIN <<>> -> 1..0]
      OBVIOUS
    <3>2. Closed(<<>>, 0) = {}
      BY DEF Closed
    <3>. QED  BY <3>1, <3>2 DEF Lists
  <2>. QED  BY <2>1, <2>2, <2>3, <2>4 DEF Understood
<1>2. \A s \in Seq(EntryType), e \in EntryType : s \in S => Append(s, e) \in S
  BY UnderstoodAppend
<1>3. \A s \in Seq(EntryType) : s \in S
  <2>. HIDE DEF S
  <2>. QED  BY <1>1, <1>2, SequenceInduction
<1>. QED  BY <1>3

\* The events that may come back.
LEMMA LegibleIs ==
  ASSUME NEW c \in Seq(EntryType)
  PROVE  Legible(c) = Kept(c, Started)
<1>1. c \in Seq(ToSet(c)) /\ \A e \in ToSet(c) : e \in EntryType
  BY DEF ToSet
<1>2. \A e \in ToSet(c) :
        e \in {x \in ToSet(c) : x.starts # ZeroTime /\ DropCR(x.title) # <<>>}
          <=> e \in Started
  BY <1>1 DEF Started
<1>. QED  BY <1>1, <1>2, KeptSame DEF Legible

\* Of a calendar that another instance serves, whatever characters its texts
\* have: what comes back is its events in their order, all of them or, if the
\* calendar is cut or has a line that is too long for the scanner, the first
\* ones; each with identity, times and status as they were, and with title, place
\* and description as they were but for a carriage return at their end
\* (RenderICS, writeICS, unfoldICS, ParseICS).
THEOREM RoundTripHolds == Spec => []RoundTrip
<1>1. TInv => RoundTrip
  <2> DEFINE all == AllScanned(full)
             kept == Kept(served, Started)
  <2>. SUFFICES ASSUME TInv, AtEnd, served # None
                PROVE  /\ Len(events) <= Len(kept)
                       /\ body = full /\ ShortLines(full) => Len(events) = Len(kept)
                       /\ \A i \in DOMAIN events : Alike(events[i], kept[i])
    <3>1. TInv /\ served # None => Legible(served) = kept
      BY CalendarsAssumption, LegibleIs DEF TInv
    <3>. HIDE DEF kept
    <3>. QED  BY <3>1 DEF RoundTrip, Alike
  <2>1. pc = "parse" /\ Sequence(events)
    BY DEF AtEnd, TInv, FInv
  <2>2. served \in Seq(EntryType) /\ full = RenderICS(served)
    BY CalendarsAssumption DEF TInv
  <2>3. all \in Seq(NamedLine)
    BY <2>2, RenderType, NamedScanned
  <2>. HIDE DEF all
  <2>4. Written(all) /\ Unfolded(all) = all /\ Len(all) \in Nat
    BY <2>3, NamedWritten, NamedUnfolded, LenProperties
  <2>5. PICK n \in 0..Len(all) :
          /\ body = full /\ ShortLines(full) => n = Len(all)
          /\ Lists(events, all, n)
    BY <2>4, CutFeedRead DEF FeedRead, all
  <2>6. PICK evs :
          /\ Sequence(evs)
          /\ Lists(evs, all, Len(all))
          /\ Len(evs) = Len(kept)
          /\ \A i \in 1..Len(evs) : Alike(evs[i], kept[i])
    BY <2>2, CalendarUnderstood DEF Understood, all
  <2>. HIDE DEF kept
  <2>7. n \in Nat /\ n <= Len(all)
    BY <2>4
  <2>8. /\ Len(events) <= Len(evs)
        /\ \A i \in 1..Len(events) : events[i] = evs[i]
    BY <2>1, <2>4, <2>5, <2>6, <2>7, ListsPrefix
  <2>9. Len(events) \in Nat /\ DOMAIN events = 1..Len(events) /\ Len(evs) \in Nat
    BY <2>1, <2>6 DEF Sequence
  <2>10. ASSUME n = Len(all) PROVE Len(events) = Len(evs)
    <3>1. Len(evs) <= Len(events)
      BY <2>1, <2>4, <2>5, <2>6, <2>10, ListsPrefix
    <3>. QED  BY <2>8, <2>9, <3>1
  <2>11. \A i \in DOMAIN events : Alike(events[i], kept[i])
    BY <2>6, <2>8, <2>9
  <2>. QED  BY <2>5, <2>6, <2>8, <2>10, <2>11
<1>. QED  BY InitTInv, NextTInv, <1>1, PTL DEF Spec

=============================================================================
