---------------------------- MODULE DigestProofs ----------------------------
(***************************************************************************)
(* Proofs about Digest, for any number of digest commands at once.         *)
(***************************************************************************)
EXTENDS Digest, StoreProofs, FiniteSetTheorems

\* A mail that has gone out stays out, and the one just sent is among them.
LEMMA AppendMailed ==
  ASSUME NEW content \in SUBSET Lines, mail \in Seq(SUBSET Lines),
         mail' = Append(mail, content)
  PROVE  /\ mail' \in Seq(SUBSET Lines)
         /\ \E i \in 1..Len(mail') : mail'[i] = content
         /\ \A c : Mailed(c) => \E i \in 1..Len(mail') : mail'[i] = c
<1>1. /\ mail' \in Seq(SUBSET Lines)
      /\ Len(mail) \in Nat /\ Len(mail') = Len(mail) + 1
      /\ mail'[Len(mail) + 1] = content
      /\ \A i \in 1..Len(mail) : mail'[i] = mail[i]
  OBVIOUS
<1>2. \A i \in 1..Len(mail) : i \in 1..Len(mail')
  BY <1>1
<1>3. Len(mail) + 1 \in 1..Len(mail')
  BY <1>1
<1>. QED  BY <1>1, <1>2, <1>3 DEF Mailed

\* A rendered digest has the type of a digest.
LEMMA LineType == \A e \in EventRows : Line(e) \in Lines
BY DEF Line, Lines, EventRows

\* The initial state satisfies the inductive invariant.
LEMMA InitIInv == Init => IInv
<1>1. Init => DigestTypeOK
  BY DEF Init, StoreInit, DigestTypeOK, DigestStates, NoDigest
<1>. QED  BY <1>1 DEF Init, IInv, MarkedWasMailed, NoDigest

\* Statements count their faults in Nat.
LEMMA FaultsNat ==
  ASSUME faults \in Nat, StoreOK \/ StoreFault \/ faults' = faults
  PROVE  faults' \in Nat
BY DEF StoreOK, StoreFault

\* The command has ended, with a word about its digest or without.
Ends(d) == Leave(d) \/ \E how \in {"sent", "unchanged"} : Exit(d, how)

\* The end of a command keeps the types.
LEMMA EndType ==
  ASSUME digests \in [Digests -> DigestStates], NEW d \in Digests, Ends(d)
  PROVE  /\ digests' \in [Digests -> DigestStates]
         /\ \A q \in Digests : q # d => digests'[q] = digests[q]
         /\ digests'[d].pc = "idle"
<1>1. ASSUME NEW s \in DigestStates, s.pc = "idle", digests' = [digests EXCEPT ![d] = s]
      PROVE  /\ digests' \in [Digests -> DigestStates]
             /\ \A q \in Digests : q # d => digests'[q] = digests[q]
             /\ digests'[d].pc = "idle"
  BY <1>1
<1>2. CASE Leave(d)
  <2>1. NoDigest \in DigestStates /\ NoDigest.pc = "idle"
    BY DEF NoDigest, DigestStates
  <2>. QED  BY <1>1, <1>2, <2>1 DEF Leave
<1>3. ASSUME NEW how \in {"sent", "unchanged"}, Exit(d, how)
      PROVE  \E s \in DigestStates : s.pc = "idle" /\ digests' = [digests EXCEPT ![d] = s]
  <2>. DEFINE s == [NoDigest EXCEPT !.content = digests[d].content, !.exit = how]
  <2>1. s \in DigestStates /\ s.pc = "idle"
    BY <1>3 DEF NoDigest, DigestStates
  <2>. QED  BY <1>3, <2>1 DEF Exit
<1>. QED  BY <1>1, <1>2, <1>3 DEF Ends

\* A command that ends without sending or marking disturbs nothing.
LEMMA EndIInv ==
  ASSUME IInv, NEW d \in Digests, Ends(d), StoreOK \/ StoreFault \/ faults' = faults,
         UNCHANGED <<now, events, deliveries, mail>>
  PROVE  IInv'
<1>1. faults' \in Nat
  BY FaultsNat DEF IInv, DigestTypeOK
<1>2. /\ digests' \in [Digests -> DigestStates]
      /\ \A q \in Digests : q # d => digests'[q] = digests[q]
      /\ digests'[d].pc = "idle"
  BY EndType DEF IInv, DigestTypeOK
<1>. QED  BY <1>1, <1>2 DEF IInv, DigestTypeOK, MarkedWasMailed, Mailed

\* A command that moves on without sending or marking.
LEMMA ReadIInv ==
  ASSUME IInv, NEW d \in Digests,
         digests' \in [Digests -> DigestStates],
         \A q \in Digests : q # d => digests'[q] = digests[q],
         digests'[d].pc # "mark",
         UNCHANGED <<now, events, deliveries, mail, faults>>
  PROVE  IInv'
BY DEF IInv, DigestTypeOK, MarkedWasMailed, Mailed

\* Each step of a command.
LEMMA DigestNextIInv ==
  ASSUME IInv, NEW d \in Digests, DigestNext(d) PROVE IInv'
<1>0. /\ digests \in [Digests -> DigestStates]
      /\ events \subseteq EventRows
      /\ mail \in Seq(SUBSET Lines)
      /\ faults \in Nat
  BY DEF IInv, DigestTypeOK
<1>1. CASE BeginDigest(d)
  <2>1. digests' = [digests EXCEPT ![d] = [NoDigest EXCEPT !.pc = "query"]]
    BY <1>1 DEF BeginDigest
  <2>2. [NoDigest EXCEPT !.pc = "query"] \in DigestStates
    BY DEF NoDigest, DigestStates
  <2>3. digests' \in [Digests -> DigestStates] /\ digests'[d].pc # "mark"
    BY <1>0, <2>1, <2>2 DEF NoDigest
  <2>. QED  BY <1>0, <1>1, <2>1, <2>3, ReadIInv DEF BeginDigest
<1>2. CASE UpcomingEvents(d)
  <2>1. CASE Leave(d) /\ StoreFault
    BY <1>2, <2>1, EndIInv DEF UpcomingEvents, Ends
  <2>2. CASE /\ StoreOK
             /\ digests' = [digests EXCEPT ![d].pc = "build",
                                           ![d].rows = {e \in events : e.start >= now}]
    <3>. DEFINE rows == {e \in events : e.start >= now}
                s == [digests[d] EXCEPT !.pc = "build", !.rows = rows]
    <3>1. rows \in SUBSET EventRows
      BY <1>0
    <3>. HIDE DEF rows
    <3>2. s \in DigestStates /\ s.pc # "mark"
      BY <1>0, <3>1 DEF DigestStates
    <3>3. digests' = [digests EXCEPT ![d] = s]
      BY <1>0, <2>2 DEF rows
    <3>. HIDE DEF s
    <3>4. digests' \in [Digests -> DigestStates] /\ digests'[d].pc # "mark"
      BY <1>0, <3>2, <3>3
    <3>. QED  BY <1>0, <1>2, <2>2, <3>4, ReadIInv DEF UpcomingEvents, StoreOK
  <2>. QED  BY <1>2, <2>1, <2>2 DEF UpcomingEvents
<1>3. CASE BuildDigest(d)
  <2>. DEFINE upcoming == {e \in digests[d].rows :
                             e.start > now /\ e.start < now + Horizon}
              content == {Line(e) : e \in upcoming}
  <2>1. digests' = [digests EXCEPT ![d].pc = "check", ![d].content = content,
                                   ![d].rows = {}]
    BY <1>3 DEF BuildDigest
  <2>2. digests[d].rows \subseteq EventRows
    BY <1>0 DEF DigestStates
  <2>3. content \in SUBSET Lines
    BY <2>2, LineType
  <2>. HIDE DEF content
  <2>. DEFINE s == [digests[d] EXCEPT !.pc = "check", !.content = content, !.rows = {}]
  <2>4. s \in DigestStates /\ s.pc # "mark"
    BY <1>0, <2>3 DEF DigestStates
  <2>5. digests' = [digests EXCEPT ![d] = s]
    BY <1>0, <2>1
  <2>. HIDE DEF s
  <2>6. digests' \in [Digests -> DigestStates] /\ digests'[d].pc # "mark"
    BY <1>0, <2>4, <2>5
  <2>. QED  BY <1>0, <1>3, <2>1, <2>6, ReadIInv DEF BuildDigest
<1>4. CASE CheckDelivery(d)
  <2>1. CASE \/ Leave(d) /\ StoreFault
             \/ Exit(d, "unchanged") /\ StoreOK
    BY <1>4, <2>1, EndIInv DEF CheckDelivery, Ends
  <2>2. CASE StoreOK /\ digests' = [digests EXCEPT ![d].pc = "send"]
    <3>1. digests' \in [Digests -> DigestStates] /\ digests'[d].pc # "mark"
      BY <1>0, <2>2 DEF DigestStates
    <3>. QED  BY <1>0, <1>4, <2>2, <3>1, ReadIInv DEF CheckDelivery, StoreOK
  <2>. QED  BY <1>4, <2>1, <2>2 DEF CheckDelivery
<1>5. CASE SendDigest(d)
  <2>. DEFINE content == digests[d].content
  <2>1. content \in SUBSET Lines
    BY <1>0 DEF DigestStates
  <2>2. CASE UNCHANGED mail
    <3>1. CASE Leave(d)
      BY <1>5, <2>2, <3>1, EndIInv DEF SendDigest, Ends
    <3>2. CASE mail' = Append(mail, content)
      <4>1. Len(mail') = Len(mail) + 1 /\ Len(mail) \in Nat
        BY <1>0, <2>1, <3>2
      <4>. QED  BY <2>2, <4>1
    <3>. QED  BY <1>5, <3>1, <3>2 DEF SendDigest
  <2>3. CASE mail' = Append(mail, content)
    <3>1. /\ mail' \in Seq(SUBSET Lines)
          /\ \E i \in 1..Len(mail') : mail'[i] = content
          /\ \A c : Mailed(c) => \E i \in 1..Len(mail') : mail'[i] = c
      BY <1>0, <2>1, <2>3, AppendMailed
    <3>2. /\ digests' \in [Digests -> DigestStates]
          /\ \A q \in Digests : q # d => digests'[q] = digests[q]
          /\ digests'[d].pc = "mark" => digests'[d].content = content
      <4>1. CASE digests' = [digests EXCEPT ![d].pc = "mark"]
        BY <1>0, <4>1 DEF DigestStates
      <4>2. CASE Leave(d)
        BY <1>0, <4>2, EndType DEF Ends
      <4>. QED  BY <1>5, <4>1, <4>2 DEF SendDigest
    <3>3. faults' \in Nat /\ UNCHANGED <<now, events, deliveries>>
      BY <1>0, <1>5, FaultsNat DEF SendDigest
    <3>4. MarkedWasMailed'
      BY <3>1, <3>3 DEF IInv, MarkedWasMailed, Mailed
    <3>5. \A q \in Digests : digests'[q].pc = "mark" =>
            \E i \in 1..Len(mail') : mail'[i] = digests'[q].content
      BY <3>1, <3>2 DEF IInv
    <3>. QED  BY <3>1, <3>2, <3>3, <3>4, <3>5 DEF IInv, DigestTypeOK, Mailed
  <2>. QED  BY <1>5, <2>2, <2>3 DEF SendDigest
<1>6. CASE MarkDelivered(d)
  <2>1. CASE Leave(d) /\ StoreFault /\ UNCHANGED deliveries
    BY <1>6, <2>1, EndIInv DEF MarkDelivered, Ends
  <2>2. CASE /\ StoreOK /\ deliveries' = <<digests[d].content>>
             /\ Exit(d, "sent")
    <3>1. digests[d].content \in SUBSET Lines /\ Mailed(digests[d].content)
      BY <1>0, <1>6 DEF IInv, MarkDelivered, DigestStates
    <3>2. deliveries' \in Seq(SUBSET Lines) /\ Len(deliveries') <= 1
          /\ deliveries'[1] = digests[d].content
      BY <2>2, <3>1
    <3>3. /\ digests' \in [Digests -> DigestStates]
          /\ \A q \in Digests : q # d => digests'[q] = digests[q]
          /\ digests'[d].pc = "idle"
      BY <1>0, <2>2, EndType DEF Ends
    <3>. QED  BY <1>6, <2>2, <3>1, <3>2, <3>3
         DEF IInv, DigestTypeOK, MarkedWasMailed, Mailed, MarkDelivered, StoreOK
  <2>. QED  BY <1>6, <2>1, <2>2 DEF MarkDelivered
<1>7. CASE Kill(d)
  BY <1>7, EndIInv DEF Kill, Ends
<1>. QED  BY <1>1, <1>2, <1>3, <1>4, <1>5, <1>6, <1>7 DEF DigestNext

\* Every step preserves the inductive invariant.
LEMMA NextIInv == IInv /\ [Next]_vars => IInv'
<1>. SUFFICES ASSUME IInv, [Next]_vars PROVE IInv'
  OBVIOUS
<1>1. CASE OthersStore
  <2>1. events' \subseteq EventRows
    BY <1>1, UpsertEventType, DigestAssumption DEF OthersStore, IInv, DigestTypeOK
  <2>. QED  BY <1>1, <2>1 DEF OthersStore, IInv, DigestTypeOK, MarkedWasMailed, Mailed
<1>2. CASE Tick /\ UNCHANGED digestVars
  BY <1>2 DEF Tick, digestVars, IInv, DigestTypeOK, MarkedWasMailed, Mailed
<1>3. CASE UNCHANGED vars
  BY <1>3 DEF vars, IInv, DigestTypeOK, MarkedWasMailed, Mailed
<1>. QED  BY <1>1, <1>2, <1>3, DigestNextIInv DEF Next

\* Whatever commands run, fail and are killed, only a digest that was mailed
\* is ever marked as delivered.
THEOREM MarkedHolds == Spec => []MarkedWasMailed
<1>1. IInv => MarkedWasMailed
  BY DEF IInv
<1>. QED  BY <1>1, InitIInv, NextIInv, PTL DEF Spec

\* The tables and what each command remembers keep their types, for any number
\* of commands.
THEOREM DigestTypeCorrect == Spec => []DigestTypeOK
<1>1. IInv => DigestTypeOK
  BY DEF IInv
<1>. QED  BY <1>1, InitIInv, NextIInv, PTL DEF Spec

-----------------------------------------------------------------------------
(* One command at a time.                                                  *)

Last == mail[Len(mail)]
Repeats(m) == {i \in 2..Len(m) : m[i] = m[i - 1]}

\* The last mail has no mark, and no command is about to set it.
Unmarked(d) ==
  mail # <<>> /\ deliveries # <<Last>> /\ digests[d].pc # "mark"

\* What one command keeps: it sends only what is not marked, marks what it has
\* sent last, and without a fault the mark is that of the last mail.
Alone(d) ==
  /\ digests[d].pc # "idle" => digests[d].exit = "none"
  /\ digests[d].pc = "send" => deliveries # <<digests[d].content>>
  /\ digests[d].pc = "mark" => mail # <<>> /\ Last = digests[d].content
  /\ faults = 0 /\ digests[d].pc # "mark" =>
       IF mail = <<>> THEN deliveries = <<>> ELSE deliveries = <<Last>>
  /\ faults = 0 /\ digests[d].exit \in {"sent", "unchanged"} =>
       mail # <<>> /\ Last = digests[d].content

\* Repeats are paid for by faults, one of them in advance when a mark is lost.
Paid(d) ==
  /\ IsFiniteSet(Repeats(mail))
  /\ Cardinality(Repeats(mail)) + (IF Unmarked(d) THEN 1 ELSE 0) <= faults

\* The last of a longer sequence.
LEMMA AppendLast ==
  ASSUME NEW m \in Seq(SUBSET Lines), NEW c \in SUBSET Lines
  PROVE  /\ Append(m, c) \in Seq(SUBSET Lines)
         /\ Append(m, c) # <<>> /\ Append(m, c)[Len(Append(m, c))] = c
         /\ m # <<>> => Len(m) > 0 /\ m[Len(m)] \in SUBSET Lines
OBVIOUS

\* A mail repeats its predecessor or not.
LEMMA AppendRepeats ==
  ASSUME NEW m \in Seq(SUBSET Lines), NEW c \in SUBSET Lines,
         IsFiniteSet(Repeats(m))
  PROVE  /\ IsFiniteSet(Repeats(Append(m, c)))
         /\ Cardinality(Repeats(m)) \in Nat
         /\ Cardinality(Repeats(Append(m, c))) \in Nat
         /\ Cardinality(Repeats(Append(m, c))) <= Cardinality(Repeats(m)) + 1
         /\ m = <<>> \/ m[Len(m)] # c =>
              Cardinality(Repeats(Append(m, c))) = Cardinality(Repeats(m))
<1> DEFINE m2 == Append(m, c)
<1>1. /\ Len(m) \in Nat /\ Len(m2) = Len(m) + 1
      /\ \A i \in 1..Len(m) : m2[i] = m[i]
      /\ m2[Len(m) + 1] = c
  OBVIOUS
<1>2. m = <<>> <=> Len(m) = 0
  OBVIOUS
<1>. HIDE DEF m2
<1>3. Repeats(m2) = IF Len(m) > 0 /\ m[Len(m)] = c
                    THEN Repeats(m) \cup {Len(m) + 1} ELSE Repeats(m)
  <2>1. \A i \in 2..Len(m) : m2[i] = m2[i - 1] <=> m[i] = m[i - 1]
    <3>1. \A i \in 2..Len(m) : i \in 1..Len(m) /\ i - 1 \in 1..Len(m)
      BY <1>1
    <3>. QED  BY <1>1, <3>1
  <2>2. Len(m) > 0 => m2[(Len(m) + 1) - 1] = m[Len(m)]
    <3>1. Len(m) > 0 => Len(m) \in 1..Len(m) /\ (Len(m) + 1) - 1 = Len(m)
      BY <1>1
    <3>. QED  BY <1>1, <3>1
  <2>3. /\ \A i \in 2..(Len(m) + 1) :
             i \in 2..Len(m) \/ (Len(m) > 0 /\ i = Len(m) + 1)
        /\ \A i \in 2..Len(m) : i \in 2..(Len(m) + 1)
        /\ Len(m) > 0 => Len(m) + 1 \in 2..(Len(m) + 1)
    <3>1. \A n \in Nat : /\ \A i \in 2..(n + 1) : i \in 2..n \/ (n > 0 /\ i = n + 1)
                         /\ \A i \in 2..n : i \in 2..(n + 1)
                         /\ n > 0 => n + 1 \in 2..(n + 1)
      OBVIOUS
    <3>. QED  BY <1>1, <3>1
  <2>4. Len(m) + 1 \notin 2..Len(m)
    BY <1>1
  <2>. QED  BY <1>1, <2>1, <2>2, <2>3, <2>4 DEF Repeats
<1>4. Len(m) + 1 \notin Repeats(m)
  BY <1>1 DEF Repeats
<1>5. Cardinality(Repeats(m)) \in Nat
  BY FS_CardinalityType
<1>6. /\ IsFiniteSet(Repeats(m) \cup {Len(m) + 1})
      /\ Cardinality(Repeats(m) \cup {Len(m) + 1}) = Cardinality(Repeats(m)) + 1
  BY <1>4, FS_AddElement
<1>. QED  BY <1>2, <1>3, <1>5, <1>6 DEF m2

\* What a lone command keeps holds before it has run.
LEMMA InitAlone ==
  ASSUME NEW d \in Digests, Init PROVE Alone(d) /\ Paid(d)
<1>1. Repeats(mail) = {}
  BY DEF Init, Repeats
<1>2. IsFiniteSet(Repeats(mail)) /\ Cardinality(Repeats(mail)) = 0
  BY <1>1, FS_EmptySet
<1>3. digests[d] = NoDigest
  BY DEF Init
<1>. QED  BY <1>2, <1>3 DEF Init, StoreInit, NoDigest, Alone, Paid, Unmarked

\* A step that mails and marks nothing.
LEMMA QuietStep ==
  ASSUME NEW d \in Digests, Digests = {d}, IInv, Alone(d), Paid(d),
         UNCHANGED <<deliveries, mail>>,
         digests' \in [Digests -> DigestStates],
         \/ faults' = faults /\ (digests'[d].pc = "mark" <=> digests[d].pc = "mark")
         \/ faults' = faults + 1 /\ digests'[d].pc = "idle",
         digests'[d].pc # "idle" => digests'[d].exit = "none",
         digests'[d].pc = "send" => deliveries # <<digests'[d].content>>,
         digests'[d].pc = "mark" => mail # <<>> /\ Last = digests'[d].content,
         faults' = 0 /\ digests'[d].exit \in {"sent", "unchanged"} =>
           mail # <<>> /\ Last = digests'[d].content
  PROVE  Alone(d)' /\ Paid(d)'
<1>1. faults \in Nat /\ Cardinality(Repeats(mail)) \in Nat
  BY FS_CardinalityType DEF IInv, DigestTypeOK, Paid
<1>2. Repeats(mail)' = Repeats(mail) /\ Last' = Last
  BY DEF Repeats, Last
<1>3. Alone(d)'
  BY <1>1, <1>2 DEF Alone
<1>4. Paid(d)'
  BY <1>1, <1>2 DEF Paid, Unmarked
<1>. QED  BY <1>3, <1>4

\* Each step of a lone command.
LEMMA AloneStep ==
  ASSUME NEW d \in Digests, Digests = {d}, IInv, IInv', Alone(d), Paid(d),
         DigestNext(d)
  PROVE  Alone(d)' /\ Paid(d)'
<1>0. /\ digests \in [Digests -> DigestStates]
      /\ digests' \in [Digests -> DigestStates]
      /\ mail \in Seq(SUBSET Lines)
      /\ faults \in Nat
      /\ digests[d].content \in SUBSET Lines
  BY DEF IInv, DigestTypeOK, DigestStates
<1>e. ASSUME NEW how \in {"sent", "unchanged"}, Exit(d, how)
      PROVE  /\ digests'[d].pc = "idle"
             /\ digests'[d].exit = how
             /\ digests'[d].content = digests[d].content
  BY <1>0, <1>e DEF Exit, NoDigest
<1>l. ASSUME Leave(d)
      PROVE  digests'[d].pc = "idle" /\ digests'[d].exit = "none"
  BY <1>0, <1>l DEF Leave, NoDigest
<1>f. ASSUME Leave(d), StoreFault, UNCHANGED <<deliveries, mail>>
      PROVE  Alone(d)' /\ Paid(d)'
  BY <1>0, <1>l, <1>f, QuietStep DEF StoreFault
<1>1. CASE BeginDigest(d)
  <2>1. digests'[d].pc = "query" /\ digests'[d].exit = "none"
    BY <1>0, <1>1 DEF BeginDigest, NoDigest
  <2>. QED  BY <1>0, <1>1, <2>1, QuietStep DEF BeginDigest
<1>2. CASE UpcomingEvents(d)
  <2>1. CASE Leave(d) /\ StoreFault
    BY <1>2, <1>f, <2>1 DEF UpcomingEvents
  <2>2. CASE StoreOK /\ digests'[d].pc = "build" /\ digests'[d].exit = digests[d].exit
    BY <1>0, <1>2, <2>2, QuietStep DEF UpcomingEvents, StoreOK, Alone
  <2>. DEFINE rows == {e \in events : e.start >= now}
  <2>3. digests' = [digests EXCEPT ![d].pc = "build", ![d].rows = rows]
        => digests'[d].pc = "build" /\ digests'[d].exit = digests[d].exit
    <3>. HIDE DEF rows
    <3>. QED  BY <1>0 DEF DigestStates
  <2>. QED  BY <1>2, <2>1, <2>2, <2>3 DEF UpcomingEvents
<1>3. CASE BuildDigest(d)
  <2>. DEFINE upcoming == {e \in digests[d].rows :
                             e.start > now /\ e.start < now + Horizon}
              content == {Line(e) : e \in upcoming}
  <2>1. digests'[d].pc = "check" /\ digests'[d].exit = digests[d].exit
    <3>1. digests' = [digests EXCEPT ![d].pc = "check", ![d].content = content,
                                     ![d].rows = {}]
      BY <1>3 DEF BuildDigest
    <3>. HIDE DEF content
    <3>. QED  BY <1>0, <3>1 DEF DigestStates
  <2>. QED  BY <1>0, <1>3, <2>1, QuietStep DEF BuildDigest, Alone
<1>4. CASE CheckDelivery(d)
  <2>1. CASE Leave(d) /\ StoreFault
    BY <1>4, <1>f, <2>1 DEF CheckDelivery
  <2>2. CASE StoreOK /\ DeliveryChanged(digests[d].content)
             /\ digests' = [digests EXCEPT ![d].pc = "send"]
    <3>1. /\ digests'[d].pc = "send" /\ digests'[d].exit = digests[d].exit
          /\ digests'[d].content = digests[d].content
      BY <1>0, <2>2 DEF DigestStates
    <3>. QED  BY <1>0, <1>4, <2>2, <3>1, QuietStep
         DEF CheckDelivery, StoreOK, Alone, DeliveryChanged
  <2>3. CASE StoreOK /\ ~DeliveryChanged(digests[d].content)
             /\ Exit(d, "unchanged")
    <3>1. /\ digests'[d].pc = "idle" /\ digests'[d].exit = "unchanged"
          /\ digests'[d].content = digests[d].content
      BY <1>e, <2>3
    <3>2. faults = 0 => mail # <<>> /\ Last = digests[d].content
      <4>1. deliveries = <<digests[d].content>> /\ digests[d].pc = "check"
        BY <1>4, <2>3 DEF CheckDelivery, DeliveryChanged
      <4>2. faults = 0 =>
              IF mail = <<>> THEN deliveries = <<>> ELSE deliveries = <<Last>>
        BY <4>1 DEF Alone
      <4>. QED  BY <4>1, <4>2
    <3>3. UNCHANGED <<deliveries, mail, faults>>
      BY <1>4, <2>3 DEF CheckDelivery, StoreOK
    <3>. QED  BY <1>0, <1>4, <3>1, <3>2, <3>3, QuietStep DEF CheckDelivery
  <2>. QED  BY <1>4, <2>1, <2>2, <2>3 DEF CheckDelivery
<1>5. CASE SendDigest(d)
  <2>. DEFINE content == digests[d].content
  <2>1. CASE Leave(d) /\ UNCHANGED <<mail, faults>>
    BY <1>0, <1>5, <1>l, <2>1, QuietStep DEF SendDigest
  <2>2. CASE Leave(d) /\ StoreFault /\ UNCHANGED mail
    BY <1>5, <1>f, <2>2 DEF SendDigest
  <2>3. CASE /\ mail' = Append(mail, content)
             /\ \/ StoreOK /\ digests' = [digests EXCEPT ![d].pc = "mark"]
                \/ StoreFault /\ Leave(d)
    <3>1. \/ /\ faults' = faults /\ digests'[d].pc = "mark"
             /\ digests'[d].exit = digests[d].exit
             /\ digests'[d].content = content
          \/ faults' = faults + 1 /\ digests'[d].pc = "idle" /\ digests'[d].exit = "none"
      BY <1>0, <1>l, <2>3 DEF StoreOK, StoreFault, DigestStates
    <3>2. mail' # <<>> /\ Last' = content
      BY <1>0, <2>3, AppendLast DEF Last
    <3>3. deliveries # <<content>> /\ digests[d].exit = "none" /\ deliveries' = deliveries
      BY <1>5 DEF SendDigest, Alone
    <3>4. Alone(d)'
      BY <1>0, <3>1, <3>2, <3>3 DEF Alone
    <3>5. /\ IsFiniteSet(Repeats(mail)')
          /\ Cardinality(Repeats(mail)) \in Nat
          /\ Cardinality(Repeats(mail)') \in Nat
          /\ Cardinality(Repeats(mail)') <= Cardinality(Repeats(mail)) + 1
          /\ mail = <<>> \/ Last # content =>
               Cardinality(Repeats(mail)') = Cardinality(Repeats(mail))
      <4>1. Repeats(mail)' = Repeats(Append(mail, content))
        BY <2>3 DEF Repeats
      <4>. QED  BY <1>0, <4>1, AppendRepeats DEF Paid, Last
    <3>6. mail # <<>> /\ Last = content => Unmarked(d)
      BY <1>5, <3>3 DEF SendDigest, Unmarked
    <3>7. faults' = faults => ~Unmarked(d)'
      BY <1>0, <3>1 DEF Unmarked
    <3>8. Paid(d)'
      BY <1>0, <3>1, <3>5, <3>6, <3>7 DEF Paid
    <3>. QED  BY <3>4, <3>8
  <2>. QED  BY <1>5, <2>1, <2>2, <2>3 DEF SendDigest
<1>6. CASE MarkDelivered(d)
  <2>1. CASE Leave(d) /\ StoreFault /\ UNCHANGED deliveries
    BY <1>6, <1>f, <2>1 DEF MarkDelivered
  <2>2. CASE /\ StoreOK /\ deliveries' = <<digests[d].content>>
             /\ Exit(d, "sent")
    <3>1. /\ digests'[d].pc = "idle" /\ digests'[d].exit = "sent"
          /\ digests'[d].content = digests[d].content
      BY <1>e, <2>2
    <3>2. /\ mail # <<>> /\ Last = digests[d].content
          /\ mail' = mail /\ faults' = faults
      BY <1>6, <2>2 DEF MarkDelivered, StoreOK, Alone
    <3>3. Last' = Last /\ Repeats(mail)' = Repeats(mail)
      BY <3>2 DEF Last, Repeats
    <3>4. Alone(d)'
      BY <2>2, <3>1, <3>2, <3>3 DEF Alone
    <3>5. ~Unmarked(d)'
      BY <2>2, <3>2, <3>3 DEF Unmarked
    <3>6. Cardinality(Repeats(mail)) \in Nat
      BY FS_CardinalityType DEF Paid
    <3>7. Paid(d)'
      BY <1>0, <3>2, <3>3, <3>5, <3>6 DEF Paid
    <3>. QED  BY <3>4, <3>7
  <2>. QED  BY <1>6, <2>1, <2>2 DEF MarkDelivered
<1>7. CASE Kill(d)
  BY <1>7, <1>f DEF Kill
<1>. QED  BY <1>1, <1>2, <1>3, <1>4, <1>5, <1>6, <1>7 DEF DigestNext

\* What a lone command keeps, whatever else happens.
LEMMA NextAlone ==
  ASSUME NEW d \in Digests, Digests = {d}, IInv, IInv', Alone(d), Paid(d),
         [Next]_vars
  PROVE  Alone(d)' /\ Paid(d)'
<1>1. CASE UNCHANGED <<faults, deliveries, mail, digests>>
  BY <1>1 DEF Alone, Paid, Unmarked, Last, Repeats
<1>2. CASE DigestNext(d)
  BY <1>2, AloneStep
<1>. QED  BY <1>1, <1>2 DEF Next, vars, Tick, digestVars, OthersStore

\* With one command at a time, a command that reports its digest as sent or as
\* unchanged leaves it as the recipient's last mail, unless a mark was lost.
THEOREM QuietHolds ==
  ASSUME NEW d \in Digests, Digests = {d}
  PROVE  Spec => []QuietMeansInformed
<1>1. Init => IInv /\ Alone(d) /\ Paid(d)
  BY InitIInv, InitAlone
<1>2. IInv /\ Alone(d) /\ Paid(d) /\ [Next]_vars => (IInv /\ Alone(d) /\ Paid(d))'
  BY NextIInv, NextAlone
<1>3. IInv /\ Alone(d) /\ Paid(d) => QuietMeansInformed
  <2>1. mail \in Seq(SUBSET Lines) /\ mail # <<>> => Len(mail) > 0
    OBVIOUS
  <2>. QED  BY <2>1 DEF IInv, DigestTypeOK, Alone, Last, QuietMeansInformed
<1>. QED  BY <1>1, <1>2, <1>3, PTL DEF Spec

\* With one command at a time, every mail that repeats the one before it was
\* paid for by an error or a kill of its own.
THEOREM RepeatsHold ==
  ASSUME NEW d \in Digests, Digests = {d}
  PROVE  Spec => []RepeatsAreExcused
<1>1. Init => IInv /\ Alone(d) /\ Paid(d)
  BY InitIInv, InitAlone
<1>2. IInv /\ Alone(d) /\ Paid(d) /\ [Next]_vars => (IInv /\ Alone(d) /\ Paid(d))'
  BY NextIInv, NextAlone
<1>3. IInv /\ Alone(d) /\ Paid(d) => RepeatsAreExcused
  BY FS_CardinalityType DEF IInv, DigestTypeOK, Paid, Repeats, RepeatsAreExcused
<1>. QED  BY <1>1, <1>2, <1>3, PTL DEF Spec

=============================================================================
