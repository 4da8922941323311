--------------------------- MODULE SessionsProofs ---------------------------
(***************************************************************************)
(* Proofs about module Sessions, for any browsers, requests, users,        *)
(* allowlists and times to live.                                           *)
(***************************************************************************)
EXTENDS Sessions, TLAPS

USE SessionsAssumption

\* What every step but a restart respects: nothing that is known is forgotten
\* or altered, rows are only deleted, or stored under a new id, and time does
\* not go back.
Forward ==
  /\ allow' = allow
  /\ issued <= issued'
  /\ \A n \in Ids : origin[n] # None =>
       origin'[n] = origin[n] /\ rows'[n] \in {rows[n], None}
  /\ spent \subseteq spent'
  /\ \A k \in DOMAIN codes : k \in DOMAIN codes' /\ codes'[k] = codes[k]
  /\ \/ now' = now /\ late' = late
     \/ now' = now /\ late'
     \/ now' > now

\* An expired row stays expired.
LEMMA ExpiredStays ==
  ASSUME SessionsTypeOK, SessionsTypeOK', Forward, NEW row \in Row, Expired(row)
  PROVE  Expired(row)'
BY DEF SessionsTypeOK, Forward, Expired, Row

\* A row stays as sound as it was.
LEMMA RowStays ==
  ASSUME SessionsTypeOK, Forward, NEW n \in Ids, NEW row \in Row,
         NEW o \in Origin, RowSound(n, row, o)
  PROVE  RowSound(n, row, o)'
<1>1. CASE o.login = None
  BY <1>1 DEF RowSound, PreAuth
<1>2. CASE o.login # None
  <2>1. o.login \in Ids BY <1>2 DEF Origin, Ids0
  <2>2. /\ row.secret = None
        /\ origin[o.login] # None
        /\ origin[o.login].browser = o.browser
        /\ row.user \in Claims
        /\ Permits(o.allow, row.user)
    BY <1>2 DEF RowSound
  <2>3. PICK k \in spent : codes[k] = [login |-> o.login, user |-> row.user]
    BY <1>2 DEF RowSound
  <2>4. k \in spent' /\ codes'[k] = [login |-> o.login, user |-> row.user]
    BY <2>3 DEF Forward, SessionsTypeOK
  <2>5. origin'[o.login] = origin[o.login] BY <2>1, <2>2 DEF Forward
  <2> QED BY <1>2, <2>2, <2>4, <2>5 DEF RowSound
<1> QED BY <1>1, <1>2

\* A browser keeps what it owns.
LEMMA OwnsStays ==
  ASSUME Forward, NEW b, NEW n, Owns(b, n)
  PROVE  Owns(b, n)'
BY DEF Forward, Owns

\* A request that does nothing stays as sound as it was, unless its new id is
\* taken.
LEMMA RequestStays ==
  ASSUME SessionsTypeOK, SessionsTypeOK', Forward, NEW m \in Request,
         RequestSound(m),
         Creating(m) => rows'[m.id] = None /\ origin'[m.id] = None
  PROVE  RequestSound(m)'
<1>1. ASSUME Creating(m) PROVE CreatesSound(m)'
  <2>1. CreatesSound(m) BY <1>1 DEF RequestSound
  <2>2. Born(m)' = Born(m) BY DEF Born, Forward
  <2>3. m.id \in Ids /\ m.row \in Row /\ Born(m) \in Origin
    BY <2>1 DEF CreatesSound, SessionsTypeOK, Request, Ids, Born, Origin, Urls
  <2>4. RowSound(m.id, m.row, Born(m))'
    <3> DEFINE o == Born(m)
    <3>1. RowSound(m.id, m.row, o) BY <2>1 DEF CreatesSound
    <3> HIDE DEF o
    <3>2. \A x \in Origin : RowSound(m.id, m.row, x) => RowSound(m.id, m.row, x)'
      BY <2>3, RowStays
    <3> QED BY <2>2, <2>3, <3>1, <3>2 DEF o
  <2> QED BY <1>1, <2>1, <2>4 DEF CreatesSound, Forward, SessionsTypeOK
<1>2. ASSUME NEW q, q = m, Answering(m) PROVE Answering(m)'
  BY <1>2, OwnsStays DEF Answering, Owns, Forward
<1>3. ASSUME CallbackSound(m) PROVE CallbackSound(m)'
  BY <1>2, <1>3 DEF CallbackSound, Forward
<1>4. ASSUME DiscardSound(m) PROVE DiscardSound(m)'
  <2>1. Owns(m.browser, m.cookie)' BY <1>4, OwnsStays DEF DiscardSound
  <2>2. m.cookie \in Ids /\ rows'[m.cookie] \in {rows[m.cookie], None}
    BY <1>4 DEF DiscardSound, Owns, Forward
  <2>3. ASSUME rows[m.cookie] # None, Expired(rows[m.cookie]), rows'[m.cookie] # None
        PROVE  Expired(rows[m.cookie])'
    <3>1. rows[m.cookie] \in Row BY <2>2, <2>3 DEF SessionsTypeOK
    <3>2. \A row \in Row : Expired(row) => Expired(row)' BY ExpiredStays
    <3>3. rows'[m.cookie] = rows[m.cookie] BY <2>2, <2>3
    <3> QED BY <2>3, <3>1, <3>2, <3>3 DEF Expired
  <2> QED BY <1>2, <1>4, <2>1, <2>2, <2>3 DEF DiscardSound
<1>5. ASSUME Owns(m.browser, m.id) PROVE Owns(m.browser, m.id)'
  BY <1>5, OwnsStays
<1> QED BY <1>1, <1>3, <1>4, <1>5 DEF RequestSound, Creating

-----------------------------------------------------------------------------
(* A step of one request.                                                  *)

\* The request that acts is as sound as the others, and an id it is about to
\* use is its own.
NewSound(r) ==
  /\ RequestSound(reqs[r])'
  /\ Creating(reqs[r])' =>
       \/ reqs'[r].id > issued
       \/ Creating(reqs[r]) /\ reqs'[r].id = reqs[r].id

OldRow(n) == rows'[n] \in {rows[n], None} /\ origin'[n] = origin[n]

\* A row is stored that is sound, under an id nobody else is about to use.
NewRow(n) ==
  /\ origin'[n] # None
  /\ RowSound(n, rows[n], origin[n])'
  /\ n <= issued'
  /\ \A r \in Requests : Creating(reqs[r]) /\ reqs'[r] = reqs[r] => reqs[r].id # n

\* The invariant holds for what stays, if it does for what a step changes.
LEMMA StepKeeps ==
  ASSUME IInv, SessionsTypeOK', Forward, \A n \in Ids : OldRow(n) \/ NewRow(n),
         \A b \in Browsers : \A n \in had'[b] : n \in had[b] \/ Owns(b, n)',
         \A r \in Requests : reqs'[r] = reqs[r] \/ NewSound(r),
         \A q, r \in Requests : q # r => reqs'[q] = reqs[q] \/ reqs'[r] = reqs[r]
  PROVE  IInv'
<1>1. RowsSound'
  <2> SUFFICES ASSUME NEW n \in Ids, rows'[n] # None, OldRow(n)
               PROVE  origin'[n] # None /\ RowSound(n, rows[n], origin[n])'
    BY DEF RowsSound, NewRow
  <2>1. rows'[n] = rows[n] /\ rows[n] # None BY DEF OldRow
  <2>2. origin[n] # None /\ RowSound(n, rows[n], origin[n])
    BY <2>1 DEF IInv, RowsSound
  <2>3. rows[n] \in Row /\ origin[n] \in Origin
    BY <2>1, <2>2 DEF IInv, SessionsTypeOK
  <2>4. \A row \in Row, o \in Origin : RowSound(n, row, o) => RowSound(n, row, o)'
    BY RowStays DEF IInv
  <2>5. origin'[n] = origin[n] BY DEF OldRow
  <2>6. RowSound(n, rows[n], origin[n]) => RowSound(n, rows[n], origin[n])'
    BY <2>1, <2>3, <2>4, <2>5 DEF RowSound
  <2> QED BY <2>2, <2>5, <2>6
<1>2. OriginsIssued'
  <2> SUFFICES ASSUME NEW n \in Ids, origin'[n] # None, OldRow(n) PROVE n <= issued'
    BY DEF OriginsIssued, NewRow
  <2> QED BY DEF OldRow, IInv, OriginsIssued, SessionsTypeOK, Forward, Ids
<1>3. CookiesOwned'
  BY OwnsStays DEF IInv, CookiesOwned
<1>4. RequestsSound'
  <2> SUFFICES ASSUME NEW r \in Requests, reqs'[r] = reqs[r]
               PROVE  RequestSound(reqs[r])'
    BY DEF RequestsSound, NewSound
  <2>1. reqs[r] \in Request /\ RequestSound(reqs[r])
    BY DEF IInv, SessionsTypeOK, RequestsSound
  <2>2. Creating(reqs[r]) => rows'[reqs[r].id] = None /\ origin'[reqs[r].id] = None
    BY <2>1 DEF RequestSound, CreatesSound, IInv, SessionsTypeOK, Ids, OldRow, NewRow
  <2>3. \A m \in Request :
          RequestSound(m) /\ (Creating(m) => rows'[m.id] = None /\ origin'[m.id] = None)
            => RequestSound(m)'
    BY RequestStays DEF IInv
  <2>4. ASSUME NEW m, m = reqs'[r], RequestSound(m)' PROVE RequestSound(reqs[r])'
    BY <2>4 DEF RequestSound, Creating, CreatesSound, CallbackSound, DiscardSound,
                Answering, Owns, RowSound, Born
  <2> QED BY <2>1, <2>2, <2>3, <2>4
<1>5. IdsDistinct'
  <2> SUFFICES ASSUME NEW q \in Requests, NEW r \in Requests, q # r,
                      Creating(reqs[q])', Creating(reqs[r])'
               PROVE  reqs'[q].id # reqs'[r].id
    BY DEF IdsDistinct
  <2>1. ASSUME NEW x \in Requests, reqs'[x] = reqs[x], Creating(reqs[x])'
        PROVE  Creating(reqs[x]) /\ reqs'[x].id = reqs[x].id /\ reqs[x].id \in 1..issued
    BY <2>1 DEF IInv, RequestsSound, RequestSound, CreatesSound, Creating
  <2>2. \A x, y \in Requests : x # y /\ Creating(reqs[x]) /\ Creating(reqs[y]) =>
          reqs[x].id # reqs[y].id
    BY DEF IInv, IdsDistinct
  <2>3. issued \in Nat BY DEF IInv, SessionsTypeOK
  <2> QED BY <2>1, <2>2, <2>3 DEF NewSound
<1> QED BY <1>1, <1>2, <1>3, <1>4, <1>5 DEF IInv

-----------------------------------------------------------------------------
(* One lemma for every kind of step.                                       *)

\* What the constants are not.
LEMMA NoneIsNothing ==
  None \notin Ids /\ None \notin Browsers /\ None \notin Row /\ None \notin Origin
BY DEF Ids

\* An idle request is sound, and a request.
LEMMA IdleSound ==
  /\ Idle \in Request
  /\ RequestSound(Idle)
  /\ ~Creating(Idle)
BY NoneIsNothing DEF Idle, Request, Kinds, Places, Urls, NoUrl, Ids0, RequestSound, Creating

\* The request r of a step is another one afterwards; the rest are as before.
LEMMA OneRequest ==
  ASSUME IInv, NEW r \in Requests, NEW m \in Request,
         reqs' = [reqs EXCEPT ![r] = m],
         m.pc = "act" => m.id \in SignedIn' \cup {None},
         \A n \in SignedIn : n \in SignedIn'
  PROVE  /\ reqs' \in [Requests -> Request]
         /\ \A q \in Requests : reqs'[q].pc = "act" => reqs'[q].id \in SignedIn' \cup {None}
         /\ reqs'[r] = m
         /\ \A q \in Requests : q # r => reqs'[q] = reqs[q]
BY DEF IInv, SessionsTypeOK

\* What most steps do: one request goes on, rows are only deleted, and at most
\* one id is drawn.
Moves(r, m) ==
  /\ reqs' = [reqs EXCEPT ![r] = m]
  /\ UNCHANGED <<now, late, allow, had, codes, origin>>
  /\ issued' \in 0..MaxIds /\ issued <= issued'
  /\ faults' \in Nat
  /\ rows' \in [Ids -> Row \cup {None}]
  /\ \A n \in Ids : rows'[n] \in {rows[n], None}
  /\ spent \subseteq spent' /\ spent' \subseteq DOMAIN codes

\* A step of that kind keeps the invariant.
LEMMA MovesKeeps ==
  ASSUME IInv, NEW r \in Requests, NEW m \in Request, Moves(r, m),
         m.pc = "act" => m.id \in SignedIn \cup {None},
         NewSound(r)
  PROVE  IInv'
<1>1. SignedIn' = SignedIn BY DEF SignedIn, Moves
<1>2. /\ reqs' \in [Requests -> Request]
      /\ \A q \in Requests : reqs'[q].pc = "act" => reqs'[q].id \in SignedIn' \cup {None}
      /\ reqs'[r] = m
      /\ \A q \in Requests : q # r => reqs'[q] = reqs[q]
  BY <1>1, OneRequest DEF Moves
<1>3. SessionsTypeOK' BY <1>2 DEF IInv, SessionsTypeOK, Moves
<1>4. Forward BY DEF IInv, SessionsTypeOK, Forward, Moves
<1>5. \A n \in Ids : OldRow(n) BY DEF OldRow, Moves
<1> QED BY <1>2, <1>3, <1>4, <1>5, StepKeeps DEF Moves

\* The request is over.
LEMMA EndKeeps ==
  ASSUME IInv, NEW r \in Requests, Moves(r, Idle)
  PROVE  IInv'
<1>1. reqs'[r] = Idle BY DEF Moves, IInv, SessionsTypeOK
<1>2. Idle.pc = "idle" BY DEF Idle
<1>3. NewSound(r)
  BY <1>1, <1>2 DEF NewSound, RequestSound, Creating
<1> QED BY <1>2, <1>3, IdleSound, MovesKeeps

\* A login starts under a new id.
LEMMA BeginLoginKeeps ==
  ASSUME IInv, NEW r \in Requests, NEW b \in Browsers, BeginLogin(r, b)
  PROVE  IInv'
<1> DEFINE row == [secret |-> issued + 1, user |-> NoUser, expires |-> now + PreAuthTTL]
           m == [Idle EXCEPT !.pc = "sweep", !.kind = "login", !.browser = b,
                             !.id = issued + 1, !.row = row]
<1>1. /\ issued \in Nat /\ issued + 1 \in Ids /\ issued' = issued + 1
      /\ reqs' = [reqs EXCEPT ![r] = m]
      /\ UNCHANGED <<now, late, rows, had, allow, faults, codes, spent, origin>>
  BY DEF IInv, SessionsTypeOK, BeginLogin, Ids, provider
<1>2. row \in Row /\ m \in Request
  <2>1. row \in Row
    BY <1>1 DEF Row, Ids0, IInv, SessionsTypeOK
  <2> HIDE DEF row
  <2>2. m \in Request
    BY <1>1, <2>1, IdleSound DEF Request, Kinds, Places, Ids0
  <2> QED BY <2>1, <2>2
<1>3. m.pc = "sweep" /\ m.browser = b /\ m.id = issued + 1 /\ m.row = row /\ m.url = NoUrl
  BY DEF Idle
<1> HIDE DEF m
<1>4. Moves(r, m)
  BY <1>1 DEF IInv, SessionsTypeOK, Moves, Ids
<1>5. reqs'[r] = m BY <1>1 DEF IInv, SessionsTypeOK
<1>6. rows[issued + 1] = None /\ origin[issued + 1] = None
  BY <1>1 DEF IInv, RowsSound, OriginsIssued
<1>7. CreatesSound(reqs[r])'
  <2>1. rows'[m.id] = None /\ origin'[m.id] = None
    BY <1>3, <1>6 DEF BeginLogin
  <2>2. RowSound(reqs[r].id, reqs[r].row, Born(reqs[r]))'
    BY <1>3, <1>5 DEF RowSound, Born, NoUrl, PreAuth, NoUser
  <2> QED BY <1>1, <1>2, <1>3, <1>5, <2>1, <2>2, NoneIsNothing DEF CreatesSound
<1>8. NewSound(r)
  BY <1>1, <1>3, <1>5, <1>7 DEF NewSound, RequestSound, Creating
<1> QED BY <1>2, <1>3, <1>4, <1>8, MovesKeeps

\* Create's sweep only deletes.
LEMMA CreateSweepsKeeps ==
  ASSUME IInv, NEW r \in Requests, CreateSweeps(r)
  PROVE  IInv'
<1> DEFINE m == [reqs[r] EXCEPT !.pc = "insert"]
<1>1. reqs[r] \in Request /\ reqs[r].pc = "sweep" /\ CreatesSound(reqs[r])
  BY DEF IInv, SessionsTypeOK, RequestsSound, RequestSound, CreateSweeps, Creating
<1>2. m \in Request BY <1>1 DEF Request, Places
<1>3. m.pc = "insert" /\ m.id = reqs[r].id /\ m.row = reqs[r].row
      /\ m.browser = reqs[r].browser /\ m.url = reqs[r].url
  BY <1>1 DEF Request
<1>4. reqs' = [reqs EXCEPT ![r] = m] BY DEF CreateSweeps, Goto
<1> HIDE DEF m
<1>5. reqs'[r] = m BY <1>4 DEF IInv, SessionsTypeOK
<1>6. Moves(r, m)
  BY <1>4 DEF IInv, SessionsTypeOK, CreateSweeps, Moves, provider, Sweep, StoreOK, StoreFault
<1>7. CreatesSound(reqs[r])'
  <2>1. RowSound(reqs[r].id, reqs[r].row, Born(reqs[r]))'
    BY <1>1, <1>3, <1>5, <1>6 DEF RowSound, Born, CreatesSound, Moves
  <2> QED BY <1>1, <1>3, <1>5, <1>6, <2>1 DEF CreatesSound, Moves, IInv, SessionsTypeOK, Ids
<1>8. NewSound(r)
  BY <1>1, <1>3, <1>5, <1>7 DEF NewSound, RequestSound, Creating
<1> QED BY <1>2, <1>3, <1>6, <1>8, MovesKeeps

\* Create's insert stores what is sound, or the handler gives up.
LEMMA CreateInsertsKeeps ==
  ASSUME IInv, NEW r \in Requests, CreateInserts(r)
  PROVE  IInv'
<1> DEFINE q == reqs[r]
           m == [Idle EXCEPT !.pc = "reply", !.browser = q.browser, !.id = q.id]
<1>1. q \in Request /\ q.pc = "insert" /\ CreatesSound(q)
  BY DEF IInv, SessionsTypeOK, RequestsSound, RequestSound, CreateInserts, Creating
<1>2. UNCHANGED <<now, late, issued, allow, had, codes, spent>>
  BY DEF CreateInserts, provider
<1>3. CASE UNCHANGED <<rows, origin>> /\ StoreFault /\ Return(r)
  <2>1. Moves(r, Idle)
    BY <1>2, <1>3 DEF IInv, SessionsTypeOK, Moves, StoreFault, Return
  <2> QED BY <2>1, EndKeeps
<1>4. CASE /\ StoreOK
           /\ rows' = [rows EXCEPT ![q.id] = q.row]
           /\ origin' = [origin EXCEPT ![q.id] = Born(q)]
           /\ reqs' = [reqs EXCEPT ![r] = m]
  <2>1. /\ q.id \in Ids /\ q.id <= issued /\ q.row \in Row /\ Born(q) \in Origin
        /\ rows[q.id] = None /\ origin[q.id] = None
    BY <1>1 DEF CreatesSound, Request, IInv, SessionsTypeOK, Ids, Born, Origin, Urls
  <2>2. m \in Request
    BY <1>1, IdleSound DEF Request, Places
  <2>3. m.pc = "reply" /\ m.browser = q.browser /\ m.id = q.id
    BY DEF Idle
  <2>4. rows'[q.id] = q.row /\ origin'[q.id] = Born(q)
    BY <1>4, <2>1 DEF IInv, SessionsTypeOK
  <2>5. \A n \in Ids : n # q.id => OldRow(n)
    BY <1>4 DEF IInv, SessionsTypeOK, OldRow
  <2>6. rows' \in [Ids -> Row \cup {None}] /\ origin' \in [Ids -> Origin \cup {None}]
    BY <1>4, <2>1 DEF IInv, SessionsTypeOK
  <2>7. \A n \in SignedIn : n \in SignedIn'
    BY <2>1, <2>5 DEF SignedIn, OldRow
  <2>8. /\ reqs' \in [Requests -> Request]
        /\ \A x \in Requests : reqs'[x].pc = "act" => reqs'[x].id \in SignedIn' \cup {None}
        /\ reqs'[r] = m
        /\ \A x \in Requests : x # r => reqs'[x] = reqs[x]
    BY <1>4, <2>2, <2>3, <2>7, OneRequest
  <2>9. SessionsTypeOK'
    BY <1>2, <1>4, <2>6, <2>8 DEF IInv, SessionsTypeOK, StoreOK
  <2>10. Forward
    BY <1>2, <2>1, <2>5 DEF IInv, SessionsTypeOK, Forward, OldRow
  <2>11. NewRow(q.id)
    <3>1. RowSound(q.id, q.row, Born(q)) BY <1>1 DEF CreatesSound
    <3>2. \A row \in Row, o \in Origin : RowSound(q.id, row, o) =>
            \A n : n = q.id => RowSound(n, row, o)'
      <4> SUFFICES ASSUME NEW row \in Row, NEW o \in Origin, RowSound(q.id, row, o),
                          NEW n, n = q.id
                   PROVE  RowSound(n, row, o)'
        OBVIOUS
      <4> QED BY <2>1, <2>10, RowStays DEF IInv
    <3>3. ASSUME NEW n, n = q.id PROVE RowSound(n, rows[n], origin[n])'
      BY <2>1, <2>4, <3>1, <3>2, <3>3 DEF RowSound
    <3>4. \A x \in Requests : Creating(reqs[x]) /\ reqs'[x] = reqs[x] => reqs[x].id # q.id
      BY <1>1, <2>3, <2>8 DEF IInv, IdsDistinct, Creating
    <3>5. Born(q) # None BY <2>1, NoneIsNothing
    <3> DEFINE i == q.id
    <3>6. \A n : n = i => NewRow(n)
      BY <1>2, <2>1, <2>4, <3>3, <3>4, <3>5 DEF NewRow
    <3> QED BY <3>6
  <2>12. NewSound(r)
    <3>1. m.browser \in Browsers
      BY <1>1, <2>3 DEF CreatesSound, Request
    <3>2. Owns(reqs[r].browser, reqs[r].id)'
      BY <2>1, <2>3, <2>4, <2>8, NoneIsNothing DEF Owns, Born
    <3> QED BY <2>3, <2>8, <3>2 DEF NewSound, RequestSound, Creating
  <2>13. \A n \in Ids : OldRow(n) \/ NewRow(n) BY <2>5, <2>11
  <2> QED BY <1>2, <2>8, <2>9, <2>10, <2>12, <2>13, StepKeeps
<1> QED BY <1>3, <1>4 DEF CreateInserts, Born

\* The browser owns the cookie it is given.
LEMMA ReplyKeeps ==
  ASSUME IInv, NEW r \in Requests, Reply(r)
  PROVE  IInv'
<1>1. /\ UNCHANGED <<now, late, rows, issued, allow, faults, codes, spent, origin>>
      /\ reqs' = [reqs EXCEPT ![r] = Idle]
  BY DEF Reply, Return, server, provider
<1>2. reqs[r] \in Request /\ Owns(reqs[r].browser, reqs[r].id)
  BY DEF IInv, SessionsTypeOK, RequestsSound, RequestSound, Reply
<1>3. SignedIn' = SignedIn BY <1>1 DEF SignedIn
<1>4. Idle.pc = "idle" BY DEF Idle
<1>5. /\ reqs' \in [Requests -> Request]
      /\ \A x \in Requests : reqs'[x].pc = "act" => reqs'[x].id \in SignedIn' \cup {None}
      /\ reqs'[r] = Idle
      /\ \A x \in Requests : x # r => reqs'[x] = reqs[x]
  BY <1>1, <1>3, <1>4, IdleSound, OneRequest
<1>6. \A b \in Browsers : \A n \in had'[b] : n \in had[b] \/ Owns(b, n)
  BY <1>2 DEF Reply, IInv, SessionsTypeOK
<1>7. had' \in [Browsers -> SUBSET Ids]
  BY <1>2 DEF Reply, IInv, SessionsTypeOK, Owns
<1>8. SessionsTypeOK' BY <1>1, <1>5, <1>7 DEF IInv, SessionsTypeOK
<1>9. Forward BY <1>1 DEF IInv, SessionsTypeOK, Forward
<1>10. NewSound(r) BY <1>4, <1>5 DEF NewSound, RequestSound, Creating
<1>11. \A n \in Ids : OldRow(n) BY <1>1 DEF OldRow
<1>12. \A b \in Browsers : \A n \in had'[b] : n \in had[b] \/ Owns(b, n)'
  BY <1>6, <1>9, OwnsStays
<1> QED BY <1>5, <1>8, <1>9, <1>10, <1>11, <1>12, StepKeeps

\* A code stands for a grant.
LEMMA CodesTyped ==
  ASSUME IInv, NEW k \in DOMAIN codes
  PROVE  k \in 1..MaxCodes /\ codes[k] \in [login : Ids, user : Claims]
<1> DEFINE Grants == [login : Ids, user : Claims]
<1>1. codes \in Seq(Grants) /\ Len(codes) <= MaxCodes BY DEF IInv, SessionsTypeOK
<1> HIDE DEF Grants
<1>2. Len(codes) \in Nat /\ codes \in [1..Len(codes) -> Grants] BY <1>1
<1>3. k \in 1..Len(codes) /\ codes[k] \in Grants BY <1>2
<1> QED BY <1>1, <1>2, <1>3 DEF Grants

\* A callback holds a row of its own browser's login.
LEMMA CallbackGetsKeeps ==
  ASSUME IInv, NEW r \in Requests, NEW b \in Browsers, CallbackGets(r, b)
  PROVE  IInv'
<1>1. PICK c \in had[b], u \in CallbackUrls, place \in {"discard", "consume"} :
        /\ reqs' = [reqs EXCEPT ![r] =
             [[Idle EXCEPT !.kind = "callback", !.browser = b, !.cookie = c,
                           !.url = u] EXCEPT !.pc = place, !.row = rows[c]]]
        /\ rows[c] # None
        /\ IF Expired(rows[c]) THEN place = "discard"
           ELSE /\ PreAuth(rows[c]) /\ Mine(rows[c], u)
                /\ place = IF u.code = None THEN "discard" ELSE "consume"
  BY DEF CallbackGets
<1> DEFINE m == [[Idle EXCEPT !.kind = "callback", !.browser = b, !.cookie = c,
                           !.url = u] EXCEPT !.pc = place, !.row = rows[c]]
<1>2. c \in Ids /\ rows[c] \in Row /\ Owns(b, c) /\ RowSound(c, rows[c], origin[c])
  BY <1>1 DEF IInv, SessionsTypeOK, CookiesOwned, RowsSound
<1>3. u \in Urls /\ (u.code = None \/ u.code \in DOMAIN codes)
  <2>1. CASE u = NoUrl
    BY <2>1 DEF Urls, NoUrl, Ids0
  <2>2. CASE \E x \in Browsers : \E n \in Logins(x) : u = [state |-> n, code |-> None]
    BY <2>2 DEF Urls, Ids0, Logins, IInv, SessionsTypeOK
  <2>3. CASE \E k \in DOMAIN codes : u = [state |-> codes[k].login, code |-> k]
    <3>1. PICK k \in DOMAIN codes : u = [state |-> codes[k].login, code |-> k]
      BY <2>3
    <3>2. k \in 1..MaxCodes /\ codes[k] \in [login : Ids, user : Claims]
      BY CodesTyped
    <3> QED BY <3>1, <3>2 DEF Urls, Ids0
  <2> QED BY <2>1, <2>2, <2>3 DEF CallbackUrls
<1>4. m \in Request
  BY <1>2, <1>3, IdleSound DEF Request, Kinds, Places, Ids0
<1>5. /\ m.pc = place /\ m.kind = "callback" /\ m.browser = b /\ m.cookie = c
      /\ m.url = u /\ m.row = rows[c]
  BY DEF Idle
<1> HIDE DEF m
<1>6. Moves(r, m)
  BY <1>1 DEF m, CallbackGets, Moves, server, provider, IInv, SessionsTypeOK
<1>7. reqs'[r] = m BY <1>6 DEF Moves, IInv, SessionsTypeOK
<1>8. UNCHANGED <<now, late, rows, origin, codes>>
  BY DEF CallbackGets, server, provider
<1>9. Owns(reqs[r].browser, reqs[r].cookie)'
  BY <1>2, <1>5, <1>7, <1>8 DEF Owns
<1>10. CASE Expired(rows[c])
  <2>1. Expired(rows[reqs[r].cookie])'
    BY <1>5, <1>7, <1>8, <1>10 DEF Expired
  <2>2. DiscardSound(reqs[r])' BY <1>9, <2>1 DEF DiscardSound
  <2>3. NewSound(r)
    BY <1>1, <1>5, <1>7, <1>10, <2>2 DEF NewSound, RequestSound, Creating
  <2> QED BY <1>1, <1>4, <1>5, <1>6, <1>10, <2>3, MovesKeeps
<1>11. CASE ~Expired(rows[c])
  <2>1. u.state = c /\ rows[c].secret = c /\ origin[c].login = None
    BY <1>1, <1>2, <1>11 DEF Mine, RowSound
  <2>2. Answering(reqs[r])'
    BY <1>5, <1>7, <1>8, <1>9, <2>1 DEF Answering
  <2>3. place = "discard" => DiscardSound(reqs[r])'
    BY <1>9, <2>2 DEF DiscardSound
  <2>4. place = "consume" => CallbackSound(reqs[r])'
    BY <1>1, <1>3, <1>5, <1>7, <1>8, <1>11, <2>1, <2>2 DEF CallbackSound
  <2>5. NewSound(r)
    BY <1>5, <1>7, <2>3, <2>4 DEF NewSound, RequestSound, Creating
  <2> QED BY <1>4, <1>5, <1>6, <2>5, MovesKeeps
<1> QED BY <1>10, <1>11

\* A row is deleted or not, and the request is over.
LEMMA DiscardKeeps ==
  ASSUME IInv, NEW r \in Requests, Discard(r)
  PROVE  IInv'
<1>1. Moves(r, Idle)
  BY DEF IInv, SessionsTypeOK, Discard, Delete, Return, StoreOK, StoreFault, Moves, provider
<1> QED BY <1>1, EndKeeps

\* The callback still holds the row of its login.
LEMMA ConsumeKeeps ==
  ASSUME IInv, NEW r \in Requests, Consume(r)
  PROVE  IInv'
<1> DEFINE m == [reqs[r] EXCEPT !.pc = "exchange"]
<1>1. reqs[r] \in Request /\ CallbackSound(reqs[r])
  BY DEF IInv, SessionsTypeOK, RequestsSound, RequestSound, Consume
<1>2. UNCHANGED <<now, late, issued, allow, had, codes, spent, origin>>
  BY DEF Consume, provider
<1>3. CASE StoreFault /\ UNCHANGED rows /\ Return(r)
  <2>1. Moves(r, Idle)
    BY <1>2, <1>3 DEF IInv, SessionsTypeOK, Return, StoreFault, Moves
  <2> QED BY <2>1, EndKeeps
<1>4. CASE StoreOK /\ Delete(reqs[r].cookie) /\ Goto(r, "exchange")
  <2>1. m \in Request BY <1>1 DEF Request, Places
  <2>2. /\ m.pc = "exchange" /\ m.kind = reqs[r].kind /\ m.row = reqs[r].row
        /\ m.browser = reqs[r].browser /\ m.cookie = reqs[r].cookie /\ m.url = reqs[r].url
    BY <1>1 DEF Request
  <2>3. reqs' = [reqs EXCEPT ![r] = m] BY <1>4 DEF Goto
  <2> HIDE DEF m
  <2>4. Moves(r, m)
    <3>1. /\ rows' \in [Ids -> Row \cup {None}]
          /\ \A n \in Ids : rows'[n] \in {rows[n], None}
      BY <1>4 DEF IInv, SessionsTypeOK, Delete
    <3>2. issued \in 0..MaxIds /\ faults' \in Nat /\ spent \subseteq DOMAIN codes
      BY <1>4 DEF IInv, SessionsTypeOK, StoreOK
    <3> QED BY <1>2, <2>3, <3>1, <3>2 DEF Moves
  <2>5. reqs'[r] = m BY <2>3 DEF IInv, SessionsTypeOK
  <2>6. CallbackSound(reqs[r])'
    BY <1>1, <1>2, <2>2, <2>5 DEF CallbackSound, Answering, Owns
  <2>7. NewSound(r) BY <2>2, <2>5, <2>6 DEF NewSound, RequestSound, Creating
  <2> QED BY <2>1, <2>2, <2>4, <2>7, MovesKeeps
<1> QED BY <1>3, <1>4 DEF Consume

\* The grant may be gone; nothing else has happened.
LEMMA ExchangeFailsKeeps ==
  ASSUME IInv, NEW r \in Requests, ExchangeFails(r)
  PROVE  IInv'
<1>1. reqs[r].url.code \in DOMAIN codes
  BY DEF IInv, RequestsSound, RequestSound, CallbackSound, ExchangeFails
<1>2. Moves(r, Idle)
  BY <1>1 DEF IInv, SessionsTypeOK, ExchangeFails, Return, Moves, server
<1> QED BY <1>2, EndKeeps

\* The session to come is earned.
LEMMA ExchangeSucceedsKeeps ==
  ASSUME IInv, NEW r \in Requests, ExchangeSucceeds(r)
  PROVE  IInv'
<1> DEFINE q == reqs[r]
           k == q.url.code
           user == codes[k].user
           row == [secret |-> None, user |-> user, expires |-> now + SessionTTL]
           m == [q EXCEPT !.pc = "sweep", !.id = issued + 1, !.row = row]
<1>1. q \in Request /\ CallbackSound(q)
  BY DEF IInv, SessionsTypeOK, RequestsSound, RequestSound, ExchangeSucceeds
<1>2. /\ issued \in Nat /\ issued + 1 \in Ids /\ issued' = issued + 1
      /\ reqs' = [reqs EXCEPT ![r] = m]
      /\ UNCHANGED <<now, late, rows, had, allow, faults, codes, origin>>
      /\ spent' = spent \cup {k}
      /\ codes[k].login = q.cookie
      /\ Permits(allow, user)
  <2>1. /\ issued < MaxIds /\ issued' = issued + 1
        /\ reqs' = [reqs EXCEPT ![r] = m]
        /\ UNCHANGED <<now, late, rows, had, allow, faults, codes, origin>>
        /\ spent' = spent \cup {k}
        /\ codes[k].login = q.row.secret
        /\ Permits(allow, user)
    BY DEF ExchangeSucceeds, Redeems
  <2>2. issued \in 0..MaxIds BY DEF IInv, SessionsTypeOK
  <2>3. q.row.secret = q.cookie BY <1>1 DEF CallbackSound
  <2> QED BY <2>1, <2>2, <2>3 DEF Ids
<1>3. k \in DOMAIN codes /\ codes[k] \in [login : Ids, user : Claims]
  BY <1>1, CodesTyped DEF CallbackSound
<1>4. row \in Row
  BY <1>2, <1>3 DEF Row, Ids0, IInv, SessionsTypeOK
<1>5. codes[k] = [login |-> q.cookie, user |-> user]
  BY <1>2, <1>3
<1>6. user \in Claims /\ Permits(allow, user)
  BY <1>2, <1>3
<1>7. row.secret = None /\ row.user = user
  OBVIOUS
<1> HIDE DEF row
<1>8. m \in Request
  BY <1>1, <1>2, <1>4 DEF Request, Places, Ids0
<1>9. /\ m.pc = "sweep" /\ m.id = issued + 1 /\ m.row = row
      /\ m.browser = q.browser /\ m.url = q.url
  BY <1>1 DEF Request
<1> HIDE DEF m
<1>10. Moves(r, m)
  BY <1>2, <1>3 DEF IInv, SessionsTypeOK, Moves, Ids
<1>11. reqs'[r] = m BY <1>2 DEF IInv, SessionsTypeOK
<1>12. rows[issued + 1] = None /\ origin[issued + 1] = None
  BY <1>2 DEF IInv, RowsSound, OriginsIssued
<1>13. /\ q.url.state = q.cookie /\ q.cookie \in Ids
       /\ origin[q.cookie] # None /\ origin[q.cookie].browser = q.browser
       /\ q.browser # None
  BY <1>1, NoneIsNothing DEF CallbackSound, Answering, Owns, IInv, SessionsTypeOK, Origin
<1>14. RowSound(reqs[r].id, reqs[r].row, Born(reqs[r]))'
  <2> DEFINE o == [browser |-> q.browser, login |-> q.cookie, allow |-> allow]
  <2>1. Born(reqs[r])' = o
    BY <1>2, <1>9, <1>11, <1>13 DEF Born
  <2>2. o.login = q.cookie /\ o.browser = q.browser /\ o.allow = allow
    OBVIOUS
  <2>3. k \in spent' /\ codes'[k] = [login |-> o.login, user |-> row.user]
    BY <1>2, <1>5, <1>7
  <2> HIDE DEF o
  <2>4. o.login # None BY <1>13, <2>2, NoneIsNothing
  <2>5. origin'[o.login] # None /\ origin'[o.login].browser = o.browser
    BY <1>2, <1>13, <2>2
  <2>6. row.user \in Claims /\ Permits(o.allow, row.user)
    BY <1>6, <1>7, <2>2
  <2>7. reqs'[r].row = row BY <1>9, <1>11
  <2> QED BY <1>7, <2>1, <2>3, <2>4, <2>5, <2>6, <2>7 DEF RowSound
<1>15. CreatesSound(reqs[r])'
  BY <1>2, <1>4, <1>9, <1>11, <1>12, <1>13, <1>14, NoneIsNothing DEF CreatesSound
<1>16. NewSound(r)
  BY <1>2, <1>9, <1>11, <1>15 DEF NewSound, RequestSound, Creating
<1> QED BY <1>8, <1>9, <1>10, <1>16, MovesKeeps

\* A logout is about a row of its own browser.
LEMMA LogoutGetsKeeps ==
  ASSUME IInv, NEW r \in Requests, NEW b \in Browsers, LogoutGets(r, b)
  PROVE  IInv'
<1>1. PICK c \in had[b] :
        reqs' = [reqs EXCEPT ![r] =
          [Idle EXCEPT !.pc = "discard", !.kind = "logout", !.browser = b, !.cookie = c]]
  BY DEF LogoutGets
<1> DEFINE m == [Idle EXCEPT !.pc = "discard", !.kind = "logout", !.browser = b,
                             !.cookie = c]
<1>2. c \in Ids /\ Owns(b, c)
  BY DEF IInv, SessionsTypeOK, CookiesOwned
<1>3. m \in Request
  BY <1>2, IdleSound DEF Request, Kinds, Places, Ids0
<1>4. m.pc = "discard" /\ m.kind = "logout" /\ m.browser = b /\ m.cookie = c
  BY DEF Idle
<1>5. reqs' = [reqs EXCEPT ![r] = m] BY <1>1
<1> HIDE DEF m
<1>6. UNCHANGED <<now, late, rows, issued, allow, faults, had, codes, spent, origin>>
  BY DEF LogoutGets, server, provider
<1>7. Moves(r, m) BY <1>5, <1>6 DEF Moves, IInv, SessionsTypeOK
<1>8. reqs'[r] = m BY <1>5 DEF IInv, SessionsTypeOK
<1>9. NewSound(r)
  BY <1>2, <1>4, <1>6, <1>8
  DEF NewSound, RequestSound, Creating, DiscardSound, Owns
<1> QED BY <1>3, <1>4, <1>7, <1>9, MovesKeeps

\* What is let in names a session, or none.
LEMMA AdminChecksKeeps ==
  ASSUME IInv, NEW r \in Requests, NEW b \in Browsers, AdminChecks(r, b)
  PROVE  IInv'
<1>1. PICK n \in Ids \cup {None} :
        /\ n # None => SessionOf(rows[n])
        /\ reqs' = [reqs EXCEPT ![r] = [Idle EXCEPT !.pc = "act", !.browser = b, !.id = n]]
  <2>1. CASE Admit(r, b, None)
    BY <2>1, NoneIsNothing DEF Admit
  <2>2. CASE \E c \in had[b] : SessionOf(rows[c]) /\ Admit(r, b, c)
    BY <2>2 DEF Admit, IInv, SessionsTypeOK
  <2> QED BY <2>1, <2>2 DEF AdminChecks
<1> DEFINE m == [Idle EXCEPT !.pc = "act", !.browser = b, !.id = n]
<1>2. n \in SignedIn \cup {None}
  BY <1>1 DEF IInv, RowsSound, RowSound, SessionOf, SignedIn
<1>3. m \in Request BY <1>1, IdleSound DEF Request, Places, Ids0
<1>4. m.pc = "act" /\ m.id = n BY DEF Idle
<1>5. reqs' = [reqs EXCEPT ![r] = m] BY <1>1
<1> HIDE DEF m
<1>6. UNCHANGED <<now, late, rows, issued, allow, faults, had, codes, spent, origin>>
  BY DEF AdminChecks, server, provider
<1>7. Moves(r, m) BY <1>5, <1>6 DEF Moves, IInv, SessionsTypeOK
<1>8. reqs'[r] = m BY <1>5 DEF IInv, SessionsTypeOK
<1>9. NewSound(r) BY <1>4, <1>8 DEF NewSound, RequestSound, Creating
<1> QED BY <1>2, <1>3, <1>4, <1>7, <1>9, MovesKeeps

\* A protected page changes no row and no cookie.
LEMMA ActKeeps ==
  ASSUME IInv, NEW r \in Requests, Act(r)
  PROVE  IInv'
<1>1. Moves(r, Idle)
  BY DEF IInv, SessionsTypeOK, Act, Return, Moves, server, provider
<1> QED BY <1>1, EndKeeps

\* A grant is added to the others.
LEMMA GrantKeeps ==
  ASSUME IInv, Grant
  PROVE  IInv'
<1>1. PICK n \in UNION {Logins(b) : b \in Browsers}, c \in Claims :
        codes' = Append(codes, [login |-> n, user |-> c])
  BY DEF Grant
<1>2. /\ UNCHANGED <<now, late, rows, issued, allow, faults, reqs, had, spent, origin>>
      /\ Len(codes) < MaxCodes
  BY DEF Grant, server
<1> DEFINE Grants == [login : Ids, user : Claims]
           g == [login |-> n, user |-> c]
<1>3. g \in Grants BY DEF Logins, IInv, SessionsTypeOK
<1>4. codes \in Seq(Grants) BY DEF IInv, SessionsTypeOK
<1>5. codes' = Append(codes, g) BY <1>1
<1> HIDE DEF Grants, g
<1>6. /\ codes' \in Seq(Grants)
      /\ Len(codes') = Len(codes) + 1
      /\ Len(codes) \in Nat
      /\ \A k \in DOMAIN codes : k \in DOMAIN codes' /\ codes'[k] = codes[k]
  BY <1>3, <1>4, <1>5
<1>7. SignedIn' = SignedIn BY <1>2 DEF SignedIn
<1>8. SessionsTypeOK'
  BY <1>2, <1>6, <1>7 DEF IInv, SessionsTypeOK, Grants
<1>9. Forward BY <1>2, <1>6 DEF IInv, SessionsTypeOK, Forward
<1>10. \A i \in Ids : OldRow(i) BY <1>2 DEF OldRow
<1> QED BY <1>2, <1>8, <1>9, <1>10, StepKeeps

\* The clock lets rows expire, nothing else.
LEMMA TickKeeps ==
  ASSUME IInv, Tick
  PROVE  IInv'
<1>1. UNCHANGED <<rows, issued, allow, faults, reqs, had, codes, spent, origin>>
  BY DEF Tick, server, provider
<1>2. /\ now \in Nat /\ now' \in Nat /\ late' \in BOOLEAN
      /\ (now' = now /\ late') \/ now' > now
  <2>1. now \in Nat /\ late \in BOOLEAN BY DEF IInv, SessionsTypeOK
  <2>2. late' = ~late /\ now' = IF late THEN now + 1 ELSE now BY DEF Tick
  <2>3. CASE late BY <2>1, <2>2, <2>3
  <2>4. CASE ~late BY <2>1, <2>2, <2>4
  <2> QED BY <2>3, <2>4
<1>3. SignedIn' = SignedIn BY <1>1 DEF SignedIn
<1>4. SessionsTypeOK' BY <1>1, <1>2, <1>3 DEF IInv, SessionsTypeOK
<1>5. Forward BY <1>1, <1>2 DEF IInv, SessionsTypeOK, Forward
<1>6. \A n \in Ids : OldRow(n) BY <1>1 DEF OldRow
<1> QED BY <1>1, <1>4, <1>5, <1>6, StepKeeps

\* A restart forgets the requests and keeps the rest.
LEMMA RestartKeeps ==
  ASSUME IInv, Restart
  PROVE  IInv'
<1>1. /\ UNCHANGED <<now, late, issued, had, codes, spent, origin>>
      /\ reqs' = [r \in Requests |-> Idle]
      /\ allow' \in Allowlists /\ faults' \in Nat
  BY DEF Restart, provider, StoreFault, IInv, SessionsTypeOK
<1>2. /\ rows' \in [Ids -> Row \cup {None}]
      /\ \A n \in Ids : rows'[n] \in {rows[n], None}
  BY DEF Restart, Sweep, IInv, SessionsTypeOK
<1>3. Idle.pc = "idle" BY DEF Idle
<1>4. \A r \in Requests : reqs'[r] = Idle /\ RequestSound(reqs[r])' /\ ~Creating(reqs[r])'
  BY <1>1, <1>3 DEF RequestSound, Creating
<1>5. SessionsTypeOK'
  BY <1>1, <1>2, <1>3, IdleSound DEF IInv, SessionsTypeOK
<1>6. RowsSound' BY <1>1, <1>2 DEF IInv, RowsSound, RowSound
<1>7. OriginsIssued' BY <1>1 DEF IInv, OriginsIssued
<1>8. CookiesOwned' BY <1>1 DEF IInv, CookiesOwned, Owns
<1> QED BY <1>4, <1>5, <1>6, <1>7, <1>8 DEF IInv, RequestsSound, IdsDistinct

\* The initial state satisfies the inductive invariant.
LEMMA InitSound == Init => IInv
<1> SUFFICES ASSUME Init PROVE IInv OBVIOUS
<1>1. Idle.pc = "idle" BY DEF Idle
<1>2. codes \in Seq([login : Ids, user : Claims]) /\ Len(codes) = 0 BY DEF Init
<1>3. SessionsTypeOK
  <2>1. /\ reqs \in [Requests -> Request]
        /\ \A r \in Requests : reqs[r].pc # "act"
    BY <1>1, IdleSound DEF Init
  <2>2. spent \subseteq DOMAIN codes /\ Len(codes) <= MaxCodes
    BY <1>2 DEF Init
  <2>3. now \in Nat /\ issued \in 0..MaxIds /\ allow \in Allowlists /\ faults \in Nat
    BY DEF Init
  <2>4. /\ rows \in [Ids -> Row \cup {None}]
        /\ had \in [Browsers -> SUBSET Ids]
        /\ origin \in [Ids -> Origin \cup {None}]
    BY DEF Init
  <2>5. late \in BOOLEAN BY Zenon DEF Init
  <2> QED BY <1>2, <2>1, <2>2, <2>3, <2>4, <2>5 DEF SessionsTypeOK
<1>4. RequestsSound /\ IdsDistinct
  BY <1>1 DEF Init, RequestsSound, IdsDistinct, RequestSound, Creating
<1> QED BY <1>3, <1>4 DEF Init, IInv, RowsSound, OriginsIssued, CookiesOwned

\* So does a stutter.
LEMMA StutterKeeps ==
  ASSUME IInv, UNCHANGED vars
  PROVE  IInv'
<1>1. SignedIn' = SignedIn BY DEF vars, SignedIn
<1>2. SessionsTypeOK' BY <1>1 DEF vars, IInv, SessionsTypeOK
<1>3. Forward BY DEF vars, IInv, SessionsTypeOK, Forward
<1>4. \A n \in Ids : OldRow(n) BY DEF vars, OldRow
<1> QED BY <1>2, <1>3, <1>4, StepKeeps DEF vars

\* Every step preserves the inductive invariant.
LEMMA NextKeeps == IInv /\ [Next]_vars => IInv'
<1> SUFFICES ASSUME IInv, [Next]_vars PROVE IInv' OBVIOUS
<1>1. ASSUME NEW r \in Requests, NEW b \in Browsers,
             BeginLogin(r, b) \/ CallbackGets(r, b) \/ LogoutGets(r, b) \/ AdminChecks(r, b)
      PROVE  IInv'
  BY <1>1, BeginLoginKeeps, CallbackGetsKeeps, LogoutGetsKeeps, AdminChecksKeeps
<1>2. ASSUME NEW r \in Requests, Handle(r) PROVE IInv'
  BY <1>2, CreateSweepsKeeps, CreateInsertsKeeps, DiscardKeeps, ConsumeKeeps,
     ExchangeFailsKeeps, ExchangeSucceedsKeeps, ActKeeps, ReplyKeeps DEF Handle
<1> QED BY <1>1, <1>2, GrantKeeps, TickKeeps, RestartKeeps, StutterKeeps DEF Next, Serve

\* A listed subject, or a verified address.
LEMMA PermittedIsKnown ==
  ASSUME NEW a, NEW c, Permits(a, c)
  PROVE  c.sub \in a.subs \/ c.verified
BY DEF Permits, NewAllowlist

\* Whatever the browsers do, what is stored and in flight stays earned.
THEOREM SessionsInvariant == Spec => []IInv
BY InitSound, NextKeeps, PTL DEF Spec

\* The table, the cookies and the requests keep their types, and no admin
\* request acts for a login that is not finished.
THEOREM SessionsTypeCorrect == Spec => []SessionsTypeOK
<1>1. IInv => SessionsTypeOK BY DEF IInv
<1> QED BY <1>1, SessionsInvariant, PTL

\* Every session was earned, for any browsers, requests and allowlists.
THEOREM EarnedHolds == Spec => []SessionsEarned
<1>1. IInv => SessionsEarned
  <2> SUFFICES ASSUME IInv, NEW n \in Ids, IsSession(rows[n])
               PROVE  /\ origin[n] # None /\ origin[n].login # None
                      /\ origin[origin[n].login] # None
                      /\ origin[origin[n].login].browser = origin[n].browser
                      /\ \E k \in spent :
                           codes[k] = [login |-> origin[n].login, user |-> rows[n].user]
                      /\ rows[n].user.sub \in origin[n].allow.subs \/ rows[n].user.verified
    BY DEF SessionsEarned
  <2>1. origin[n] # None /\ RowSound(n, rows[n], origin[n])
    BY DEF IInv, RowsSound, IsSession
  <2> QED BY <2>1, PermittedIsKnown DEF RowSound, IsSession
<1> QED BY <1>1, SessionsInvariant, PTL

-----------------------------------------------------------------------------
(* What a step may never do.                                               *)

\* Only Discard and Consume delete a good row, each on its owner's request.
LEMMA GoodRowsStayStep ==
  ASSUME IInv, Next, NEW n \in Ids,
         rows[n] # None, ~Expired(rows[n]), rows'[n] = None
  PROVE  \E r \in Requests :
           /\ reqs[r].cookie = n
           /\ reqs[r].browser = origin[n].browser
           /\ \/ reqs[r].kind = "logout"
              \/ /\ reqs[r].kind = "callback"
                 /\ PreAuth(rows[n])
                 /\ reqs[r].url.state = rows[n].secret
<1>1. rows[n] \in Row /\ now \in Nat /\ RowSound(n, rows[n], origin[n])
  BY DEF IInv, SessionsTypeOK, RowsSound
<1>2. Sweep(rows)[n] = rows[n]
  BY <1>1 DEF Sweep, Expired, Row
<1>3. PICK r \in Requests :
        \/ Discard(r) /\ Delete(reqs[r].cookie)
        \/ Consume(r) /\ Delete(reqs[r].cookie)
        \/ \E b \in Browsers :
             BeginLogin(r, b) \/ CallbackGets(r, b) \/ LogoutGets(r, b) \/ AdminChecks(r, b)
        \/ CreateSweeps(r)
        \/ CreateInserts(r)
        \/ UNCHANGED rows
        \/ Restart
  <2>1. CASE Grant \/ Tick
    BY <2>1 DEF Grant, Tick, server
  <2>2. CASE Restart
    BY <1>2, <2>2 DEF Restart
  <2>3. CASE \E r \in Requests : Serve(r)
    BY <2>3 DEF Serve, Handle, Discard, Consume, ExchangeFails, ExchangeSucceeds, Act, Reply, server
  <2> QED BY <2>1, <2>2, <2>3 DEF Next
<1>4. CASE Discard(r) /\ Delete(reqs[r].cookie)
  <2>1. reqs[r].cookie = n BY <1>4 DEF Delete, IInv, SessionsTypeOK
  <2>2. DiscardSound(reqs[r])
    BY <1>4 DEF IInv, RequestsSound, RequestSound, Discard
  <2> QED BY <1>1, <2>1, <2>2 DEF DiscardSound, Answering, Owns, RowSound
<1>5. CASE Consume(r) /\ Delete(reqs[r].cookie)
  <2>1. reqs[r].cookie = n BY <1>5 DEF Delete, IInv, SessionsTypeOK
  <2>2. CallbackSound(reqs[r])
    BY <1>5 DEF IInv, RequestsSound, RequestSound, Consume
  <2> QED BY <1>1, <2>1, <2>2 DEF CallbackSound, Answering, Owns, RowSound
<1>6. ASSUME NEW b \in Browsers,
             BeginLogin(r, b) \/ CallbackGets(r, b) \/ LogoutGets(r, b) \/ AdminChecks(r, b)
      PROVE  FALSE
  <2>1. rows' = rows
    BY <1>6 DEF BeginLogin, CallbackGets, LogoutGets, AdminChecks, server
  <2> QED BY <2>1
<1>7. CASE CreateSweeps(r) BY <1>2, <1>7 DEF CreateSweeps
<1>8. CASE CreateInserts(r)
  <2>1. reqs[r].row # None
    BY <1>8 DEF IInv, RequestsSound, RequestSound, CreatesSound, Creating, CreateInserts
  <2> QED BY <1>8, <2>1 DEF CreateInserts, IInv, SessionsTypeOK
<1>9. CASE Restart BY <1>2, <1>9 DEF Restart
<1> QED BY <1>3, <1>4, <1>5, <1>6, <1>7, <1>8, <1>9

\* Rows that are good stay, for any browsers, requests and clocks.
THEOREM GoodRowsStayHolds == Spec => GoodRowsStay
<1>1. IInv /\ [Next]_vars =>
        [\A n \in Ids :
           rows[n] # None /\ ~Expired(rows[n]) /\ rows'[n] = None =>
             \E r \in Requests :
               /\ reqs[r].cookie = n
               /\ reqs[r].browser = origin[n].browser
               /\ \/ reqs[r].kind = "logout"
                  \/ /\ reqs[r].kind = "callback"
                     /\ PreAuth(rows[n])
                     /\ reqs[r].url.state = rows[n].secret]_vars
  BY GoodRowsStayStep
<1> QED BY <1>1, SessionsInvariant, PTL DEF Spec, GoodRowsStay

-----------------------------------------------------------------------------
(* Sessions implements Access.                                             *)

liveSessions == {Session(n) : n \in Live}
asking == [r \in Requests |-> Asking(r)]

\* No step but an insert begins a session.
LEMMA LiveShrinks ==
  ASSUME IInv, IInv', Forward, \A n \in Ids : rows'[n] \in {rows[n], None}
  PROVE  liveSessions' \subseteq liveSessions
<1>1. ASSUME NEW n \in Live'
      PROVE  n \in Live /\ rows'[n] = rows[n]
  <2>1. n \in Ids /\ rows'[n] # None /\ ~PreAuth(rows[n])' /\ ~Expired(rows[n])'
    BY DEF Live, IsSession
  <2>2. rows'[n] = rows[n] /\ rows[n] \in Row
    BY <2>1 DEF IInv, SessionsTypeOK
  <2>3. ~PreAuth(rows[n]) BY <2>1, <2>2 DEF PreAuth
  <2>4. ~Expired(rows[n])
    <3>1. \A row \in Row : Expired(row) => Expired(row)' BY ExpiredStays DEF IInv
    <3> QED BY <2>1, <2>2, <3>1 DEF Expired
  <2> QED BY <2>1, <2>2, <2>3, <2>4 DEF Live, IsSession
<1> QED BY <1>1 DEF liveSessions, Session

\* What is asked changes only for a request that is let in or leaves.
LEMMA AskingStays ==
  ASSUME IInv, NEW r \in Requests, NEW m, reqs' = [reqs EXCEPT ![r] = m],
         reqs[r].pc # "act", m.pc # "act"
  PROVE  asking' = asking
<1>1. reqs'[r] = m /\ \A q \in Requests : q # r => reqs'[q] = reqs[q]
  BY DEF IInv, SessionsTypeOK
<1>2. ASSUME NEW q \in Requests PROVE Asking(q)' = Asking(q)
  BY <1>1 DEF Asking
<1> QED BY <1>2 DEF asking

\* A step of a handler outside the admin page ends sessions at most.
LEMMA HandlerEnds ==
  ASSUME IInv, IInv', NEW r \in Requests, NEW m, reqs' = [reqs EXCEPT ![r] = m],
         reqs[r].pc # "act", m.pc # "act",
         UNCHANGED <<now, late, allow, codes, origin>>,
         issued <= issued', spent \subseteq spent',
         \A n \in Ids : rows'[n] \in {rows[n], None}
  PROVE  A!End
<1>1. SignedIn' = SignedIn BY DEF SignedIn
<1>2. asking' = asking BY AskingStays
<1>3. Forward BY DEF Forward, IInv, SessionsTypeOK
<1>4. liveSessions' \subseteq liveSessions BY <1>3, LiveShrinks
<1> QED BY <1>1, <1>2, <1>4 DEF A!End, liveSessions, asking

\* The first steps of handlers, other than those of the admin page.
LEMMA FirstStepEnds ==
  ASSUME IInv, IInv', NEW r \in Requests, NEW b \in Browsers,
         BeginLogin(r, b) \/ CallbackGets(r, b) \/ LogoutGets(r, b)
  PROVE  A!End
<1>1. PICK m : reqs' = [reqs EXCEPT ![r] = m] /\ m.pc # "act"
  <2>1. CASE BeginLogin(r, b)
    <3>1. [Idle EXCEPT !.pc = "sweep", !.kind = "login", !.browser = b,
             !.id = issued + 1,
             !.row = [secret |-> issued + 1, user |-> NoUser,
                      expires |-> now + PreAuthTTL]].pc = "sweep"
      BY DEF Idle
    <3> QED BY <2>1, <3>1 DEF BeginLogin
  <2>2. CASE LogoutGets(r, b)
    <3>1. \A c : [Idle EXCEPT !.pc = "discard", !.kind = "logout", !.browser = b,
                              !.cookie = c].pc = "discard"
      BY DEF Idle
    <3> QED BY <2>2, <3>1 DEF LogoutGets
  <2>3. CASE CallbackGets(r, b)
    <3>1. PICK c \in had[b], u \in CallbackUrls, place \in {"discard", "consume"} :
            reqs' = [reqs EXCEPT ![r] =
             [[Idle EXCEPT !.kind = "callback", !.browser = b, !.cookie = c,
                           !.url = u] EXCEPT !.pc = place, !.row = rows[c]]]
      BY <2>3 DEF CallbackGets
    <3>2. [[Idle EXCEPT !.kind = "callback", !.browser = b, !.cookie = c,
                        !.url = u] EXCEPT !.pc = place, !.row = rows[c]].pc = place
      BY DEF Idle
    <3> QED BY <3>1, <3>2
  <2> QED BY <2>1, <2>2, <2>3
<1>2. /\ UNCHANGED <<now, late, rows, allow, codes, spent, origin>>
      /\ issued <= issued'
      /\ reqs[r].pc # "act"
  <2>1. issued \in 0..MaxIds BY DEF IInv, SessionsTypeOK
  <2>2. CASE BeginLogin(r, b) BY <2>1, <2>2 DEF BeginLogin, provider
  <2>3. CASE CallbackGets(r, b)
    <3>1. UNCHANGED <<now, late, server, provider, origin>> /\ reqs[r].pc = "idle"
      BY <2>3 DEF CallbackGets
    <3> QED BY <2>1, <3>1 DEF server, provider
  <2>4. CASE LogoutGets(r, b)
    <3>1. UNCHANGED <<now, late, server, provider, origin>> /\ reqs[r].pc = "idle"
      BY <2>4 DEF LogoutGets
    <3> QED BY <2>1, <3>1 DEF server, provider
  <2> QED BY <2>2, <2>3, <2>4
<1> QED BY <1>1, <1>2, HandlerEnds

\* The later steps but the insert.
LEMMA LaterStepEnds ==
  ASSUME IInv, IInv', NEW r \in Requests,
         \/ CreateSweeps(r) \/ Discard(r) \/ Consume(r) \/ ExchangeFails(r)
         \/ ExchangeSucceeds(r) \/ Reply(r)
  PROVE  A!End
<1>1. PICK m : reqs' = [reqs EXCEPT ![r] = m] /\ m.pc # "act"
  <2>1. Idle.pc = "idle" BY DEF Idle
  <2>2. \A x : [reqs[r] EXCEPT !.pc = x].pc = x
    BY DEF IInv, SessionsTypeOK, Request
  <2>3. \A x, y, z : [reqs[r] EXCEPT !.pc = x, !.id = y, !.row = z].pc = x
    BY DEF IInv, SessionsTypeOK, Request
  <2>4. CASE Discard(r) \/ ExchangeFails(r) \/ Reply(r)
    BY <2>1, <2>4 DEF Discard, ExchangeFails, Reply, Return
  <2>5. CASE CreateSweeps(r) \/ Consume(r)
    <3>1. \/ reqs' = [reqs EXCEPT ![r] = Idle]
          \/ reqs' = [reqs EXCEPT ![r] = [reqs[r] EXCEPT !.pc = "insert"]]
          \/ reqs' = [reqs EXCEPT ![r] = [reqs[r] EXCEPT !.pc = "exchange"]]
      BY <2>5 DEF CreateSweeps, Consume, Return, Goto
    <3> QED BY <2>1, <2>2, <3>1
  <2>6. CASE ExchangeSucceeds(r)
    <3> DEFINE row == [secret |-> None, user |-> codes[reqs[r].url.code].user,
                       expires |-> now + SessionTTL]
    <3>1. reqs' = [reqs EXCEPT ![r] =
                     [reqs[r] EXCEPT !.pc = "sweep", !.id = issued + 1, !.row = row]]
      BY <2>6 DEF ExchangeSucceeds
    <3> HIDE DEF row
    <3>2. [reqs[r] EXCEPT !.pc = "sweep", !.id = issued + 1, !.row = row].pc # "act"
      BY <2>3
    <3> QED BY <3>1, <3>2
  <2> QED BY <2>4, <2>5, <2>6
<1>2. \A n \in Ids : rows'[n] \in {rows[n], None}
  <2>1. \/ rows' = rows
        \/ rows' = Sweep(rows)
        \/ rows' = [rows EXCEPT ![reqs[r].cookie] = None]
    BY DEF CreateSweeps, Discard, Consume, ExchangeFails, ExchangeSucceeds, Reply, Delete,
           server
  <2>2. rows \in [Ids -> Row \cup {None}]
    BY DEF IInv, SessionsTypeOK
  <2> QED BY <2>1, <2>2 DEF Sweep
<1>3. /\ UNCHANGED <<now, late, allow, codes, origin>>
      /\ issued <= issued' /\ spent \subseteq spent'
      /\ reqs[r].pc # "act"
  BY DEF CreateSweeps, Discard, Consume, ExchangeFails, ExchangeSucceeds, Reply,
         server, provider, IInv, SessionsTypeOK
<1> QED BY <1>1, <1>2, <1>3, HandlerEnds

\* The insert of a session is a sign-in; that of a login is nothing.
LEMMA CreateInsertsSignsIn ==
  ASSUME IInv, IInv', NEW r \in Requests, CreateInserts(r)
  PROVE  A!Next \/ UNCHANGED A!vars
<1> DEFINE q == reqs[r]
           s == [id |-> q.id, user |-> q.row.user]
<1>1. /\ q \in Request /\ q.pc = "insert" /\ CreatesSound(q)
      /\ UNCHANGED <<now, late, issued, allow, codes, spent>>
  BY DEF IInv, SessionsTypeOK, RequestsSound, RequestSound, CreateInserts, Creating, provider
<1>2. asking' = asking
  <2>1. PICK m : reqs' = [reqs EXCEPT ![r] = m] /\ m.pc # "act"
    <3>1. Idle.pc = "idle" BY DEF Idle
    <3>2. [Idle EXCEPT !.pc = "reply", !.browser = q.browser, !.id = q.id].pc = "reply"
      BY DEF Idle
    <3> QED BY <3>1, <3>2 DEF CreateInserts, Return
  <2> QED BY <1>1, <2>1, AskingStays
<1>3. CASE UNCHANGED <<rows, origin>>
  <2>1. SignedIn' = SignedIn BY <1>3 DEF SignedIn
  <2>2. liveSessions' = liveSessions
    BY <1>1, <1>3 DEF liveSessions, Live, Session, IsSession, PreAuth, Expired
  <2> QED BY <1>1, <1>2, <2>1, <2>2 DEF A!vars, liveSessions, asking
<1>4. CASE /\ rows' = [rows EXCEPT ![q.id] = q.row]
           /\ origin' = [origin EXCEPT ![q.id] = Born(q)]
  <2>1. /\ q.id \in Ids /\ q.row \in Row
        /\ rows[q.id] = None /\ origin[q.id] = None
        /\ RowSound(q.id, q.row, Born(q)) /\ Born(q).login = q.url.state
        /\ Born(q) # None
    BY <1>1, NoneIsNothing
    DEF CreatesSound, Request, IInv, SessionsTypeOK, Ids, Born, Origin, Urls
  <2>2. /\ rows'[q.id] = q.row /\ origin'[q.id] = Born(q)
        /\ \A n \in Ids : n # q.id => rows'[n] = rows[n] /\ origin'[n] = origin[n]
    BY <1>4, <2>1 DEF IInv, SessionsTypeOK
  <2>3. \A n \in Ids : n # q.id => (n \in Live' <=> n \in Live) /\ Session(n)' = Session(n)
    BY <1>1, <2>2 DEF Live, IsSession, PreAuth, Expired, Session
  <2>4. q.id \notin Live /\ q.id \notin SignedIn
    BY <2>1 DEF Live, IsSession, SignedIn
  <2>5. \A n \in Live : n \in Ids /\ n # q.id
    BY <2>4 DEF Live
  <2>6. \A n \in Live' : n \in Ids
    BY DEF Live
  <2>7. CASE q.url.state = None
    <3>1. q.id \notin Live'
      BY <2>1, <2>2, <2>7 DEF Live, IsSession, RowSound, PreAuth
    <3>2. SignedIn' = SignedIn
      BY <2>1, <2>2, <2>4, <2>7 DEF SignedIn
    <3>3. liveSessions' = liveSessions
      <4>1. Live' = Live BY <2>3, <2>5, <2>6, <3>1
      <4> QED BY <2>3, <2>5, <4>1 DEF liveSessions
    <3> QED BY <1>1, <1>2, <3>2, <3>3 DEF A!vars, liveSessions, asking
  <2>8. CASE q.url.state # None
    <3>1. q.row.user \in Claims /\ Permits(allow, q.row.user)
      BY <2>1, <2>8 DEF RowSound, Born
    <3>2. SignedIn' = SignedIn \cup {q.id}
      BY <2>1, <2>2, <2>8 DEF SignedIn
    <3>3. ASSUME q.id \notin Live' PROVE liveSessions' = liveSessions
      <4>1. Live' = Live BY <2>3, <2>5, <2>6, <3>3
      <4> QED BY <2>3, <2>5, <4>1 DEF liveSessions
    <3>4. ASSUME q.id \in Live' PROVE liveSessions' = liveSessions \cup {s}
      <4>1. \A n \in Ids : n = q.id => Session(n)' = s
        BY <2>2 DEF Session
      <4>2. Live' = Live \cup {q.id} BY <2>1, <2>3, <2>5, <2>6, <3>4
      <4> QED BY <2>1, <2>3, <2>5, <4>1, <4>2 DEF liveSessions
    <3>5. s.id = q.id /\ s.user = q.row.user OBVIOUS
    <3>6. A!SignIn(s)
      BY <1>1, <1>2, <2>4, <3>1, <3>2, <3>3, <3>4, <3>5 DEF A!SignIn, liveSessions, asking
    <3> QED BY <2>1, <3>1, <3>6 DEF A!Next
  <2> QED BY <2>7, <2>8
<1> QED BY <1>3, <1>4 DEF CreateInserts, Born

\* The admin page lets in the holder of a live session, or of the token.
LEMMA AdminChecksLetsIn ==
  ASSUME IInv, IInv', NEW r \in Requests, NEW b \in Browsers, AdminChecks(r, b)
  PROVE  A!LetIn(r)
<1>1. PICK n \in Ids \cup {None} :
        /\ n # None => SessionOf(rows[n])
        /\ reqs' = [reqs EXCEPT ![r] = [Idle EXCEPT !.pc = "act", !.browser = b, !.id = n]]
  <2>1. CASE Admit(r, b, None)
    BY <2>1, NoneIsNothing DEF Admit
  <2>2. CASE \E c \in had[b] : SessionOf(rows[c]) /\ Admit(r, b, c)
    BY <2>2 DEF Admit, IInv, SessionsTypeOK
  <2> QED BY <2>1, <2>2 DEF AdminChecks
<1> DEFINE m == [Idle EXCEPT !.pc = "act", !.browser = b, !.id = n]
<1>2. m.pc = "act" /\ m.id = n BY DEF Idle
<1>3. reqs' = [reqs EXCEPT ![r] = m] BY <1>1
<1> HIDE DEF m
<1>4. /\ UNCHANGED <<now, late, rows, allow, origin>>
      /\ reqs[r].pc = "idle"
  BY DEF AdminChecks, server
<1>5. reqs'[r] = m /\ \A q \in Requests : q # r => reqs'[q] = reqs[q]
  BY <1>3 DEF IInv, SessionsTypeOK
<1>6. asking[r] = A!Nothing
  BY <1>4 DEF asking, Asking, A!Nothing
<1>7. asking' = [asking EXCEPT ![r] = [let |-> TRUE, session |-> n]]
  <2>1. Asking(r)' = [let |-> TRUE, session |-> n]
    BY <1>2, <1>5 DEF Asking
  <2>2. \A q \in Requests : q # r => Asking(q)' = Asking(q)
    BY <1>5 DEF Asking
  <2> QED BY <2>1, <2>2 DEF asking
<1>8. n \in {s.id : s \in liveSessions} \cup {None}
  <2>1. CASE n = None BY <2>1
  <2>2. CASE n # None
    <3>1. n \in Live BY <1>1, <2>2 DEF Live, SessionOf, IsSession
    <3>2. Session(n) \in liveSessions /\ Session(n).id = n
      BY <3>1 DEF liveSessions, Session
    <3> QED BY <3>2
  <2> QED BY <2>1, <2>2
<1>9. SignedIn' = SignedIn BY <1>4 DEF SignedIn
<1>10. liveSessions' = liveSessions
  BY <1>4 DEF liveSessions, Live, Session, IsSession, PreAuth, Expired
<1> QED BY <1>4, <1>6, <1>7, <1>8, <1>9, <1>10 DEF A!LetIn, liveSessions, asking

\* A request that has acted leaves.
LEMMA ActLeaves ==
  ASSUME IInv, NEW r \in Requests, Act(r)
  PROVE  A!Leave(r)
<1>1. /\ UNCHANGED <<now, late, rows, allow, origin>>
      /\ reqs' = [reqs EXCEPT ![r] = Idle]
  BY DEF Act, Return, server
<1>2. reqs'[r] = Idle /\ \A q \in Requests : q # r => reqs'[q] = reqs[q]
  BY <1>1 DEF IInv, SessionsTypeOK
<1>3. asking' = [asking EXCEPT ![r] = A!Nothing]
  <2>1. Asking(r)' = A!Nothing
    <3>1. Idle.pc # "act" BY DEF Idle
    <3>2. reqs'[r].pc # "act" BY <1>2, <3>1
    <3> QED BY <3>2 DEF Asking, A!Nothing
  <2>2. \A q \in Requests : q # r => Asking(q)' = Asking(q)
    BY <1>2 DEF Asking
  <2> QED BY <2>1, <2>2 DEF asking
<1>4. SignedIn' = SignedIn BY <1>1 DEF SignedIn
<1>5. liveSessions' = liveSessions
  BY <1>1 DEF liveSessions, Live, Session, IsSession, PreAuth, Expired
<1> QED BY <1>1, <1>3, <1>4, <1>5 DEF A!Leave, liveSessions, asking

\* The clock and the provider end sessions at most.
LEMMA OutsideEnds ==
  ASSUME IInv, IInv', Grant \/ Tick
  PROVE  A!End
<1>1. UNCHANGED <<rows, issued, allow, reqs, spent, origin>>
  BY DEF Grant, Tick, server, provider
<1>2. Forward
  <2>1. \A k \in DOMAIN codes : k \in DOMAIN codes' /\ codes'[k] = codes[k]
    <3>1. CASE Tick BY <3>1 DEF Tick, provider
    <3>2. CASE Grant
      <4> DEFINE Grants == [login : Ids, user : Claims]
      <4>1. PICK n \in UNION {Logins(b) : b \in Browsers}, c \in Claims :
              codes' = Append(codes, [login |-> n, user |-> c])
        BY <3>2 DEF Grant
      <4>2. [login |-> n, user |-> c] \in Grants /\ codes \in Seq(Grants)
        BY DEF Logins, IInv, SessionsTypeOK
      <4> DEFINE g == [login |-> n, user |-> c]
      <4>3. codes' = Append(codes, g) /\ g \in Grants BY <4>1, <4>2
      <4> HIDE DEF Grants, g
      <4> QED BY <4>2, <4>3
    <3> QED BY <3>1, <3>2
  <2>2. \/ now' = now /\ late' = late
        \/ now' = now /\ late'
        \/ now' > now
    <3>1. now \in Nat /\ late \in BOOLEAN BY DEF IInv, SessionsTypeOK
    <3>2. CASE Grant BY <3>2 DEF Grant
    <3>3. CASE Tick
      <4>1. late' = ~late /\ now' = IF late THEN now + 1 ELSE now BY <3>3 DEF Tick
      <4>2. CASE late
        <5>1. now' = now + 1 BY <4>1, <4>2
        <5> QED BY <3>1, <5>1
      <4>3. CASE ~late
        <5>1. now' = now /\ late' BY <4>1, <4>3
        <5> QED BY <5>1
      <4> QED BY <4>2, <4>3
    <3> QED BY <3>2, <3>3
  <2> QED BY <1>1, <2>1, <2>2 DEF Forward, IInv, SessionsTypeOK
<1>3. liveSessions' \subseteq liveSessions BY <1>1, <1>2, LiveShrinks
<1>4. SignedIn' = SignedIn /\ asking' = asking
  BY <1>1 DEF SignedIn, asking, Asking
<1> QED BY <1>1, <1>3, <1>4 DEF A!End, liveSessions, asking

\* A restart loses the requests; what its sweep deletes had ended.
LEMMA RestartRestarts ==
  ASSUME IInv, Restart
  PROVE  A!Restart
<1>1. /\ UNCHANGED <<now, late, origin>> /\ allow' \in Allowlists
      /\ reqs' = [r \in Requests |-> Idle]
      /\ rows' = Sweep(rows)
  BY DEF Restart
<1>2. ASSUME NEW n \in Ids PROVE (n \in Live' <=> n \in Live) /\ (n \in Live => Session(n)' = Session(n))
  <2>1. rows[n] # None => rows[n] \in Row BY DEF IInv, SessionsTypeOK
  <2>2. now \in Nat BY DEF IInv, SessionsTypeOK
  <2>3. rows'[n] = IF rows[n] # None /\ rows[n].expires < now THEN None ELSE rows[n]
    BY <1>1 DEF Sweep
  <2> QED BY <1>1, <2>1, <2>2, <2>3 DEF Live, IsSession, Expired, PreAuth, Session, Row
<1>3. Live' = Live BY <1>2 DEF Live
<1>4. liveSessions' = liveSessions
  <2>1. \A n \in Live : Session(n)' = Session(n) BY <1>2 DEF Live
  <2> QED BY <1>3, <2>1 DEF liveSessions
<1>5. asking' = [r \in Requests |-> A!Nothing]
  <2>1. ASSUME NEW r \in Requests PROVE Asking(r)' = A!Nothing
    BY <1>1 DEF Asking, A!Nothing, Idle
  <2> QED BY <2>1 DEF asking
<1>6. SignedIn' = SignedIn BY <1>1 DEF SignedIn
<1> QED BY <1>1, <1>4, <1>5, <1>6 DEF A!Restart, liveSessions, asking

\* The initial states map to initial states of Access.
LEMMA InitImplements == Init => A!Init
<1> SUFFICES ASSUME Init PROVE A!Init OBVIOUS
<1>1. liveSessions = {} /\ SignedIn = {}
  BY DEF Init, liveSessions, Live, IsSession, SignedIn
<1>2. asking = [r \in Requests |-> A!Nothing]
  BY DEF Init, asking, Asking, A!Nothing, Idle
<1> QED BY <1>1, <1>2 DEF Init, A!Init, liveSessions, asking

\* Every step maps to a step of Access or a stutter.
LEMMA NextImplements == IInv /\ IInv' /\ [Next]_vars => [A!Next]_(A!vars)
<1> SUFFICES ASSUME IInv, IInv', [Next]_vars PROVE A!Next \/ UNCHANGED A!vars
  OBVIOUS
<1>1. A!End => A!Next BY DEF A!Next
<1>2. ASSUME NEW r \in Requests, Serve(r) PROVE A!Next \/ UNCHANGED A!vars
  <2>1. A!LetIn(r) \/ A!Leave(r) => A!Next BY DEF A!Next
  <2>2. ASSUME NEW b \in Browsers,
               BeginLogin(r, b) \/ CallbackGets(r, b) \/ LogoutGets(r, b) \/ AdminChecks(r, b)
        PROVE  A!Next
    BY <1>1, <2>1, <2>2, FirstStepEnds, AdminChecksLetsIn
  <2>3. ASSUME Handle(r) PROVE A!Next \/ UNCHANGED A!vars
    BY <1>1, <2>1, <2>3, LaterStepEnds, ActLeaves, CreateInsertsSignsIn DEF Handle
  <2> QED BY <1>2, <2>2, <2>3 DEF Serve
<1>3. CASE Grant \/ Tick BY <1>1, <1>3, OutsideEnds
<1>4. CASE Restart
  <2>1. A!Restart => A!Next BY DEF A!Next
  <2> QED BY <1>4, <2>1, RestartRestarts
<1>5. CASE UNCHANGED vars
  <2>1. liveSessions' = liveSessions
    BY <1>5 DEF vars, liveSessions, Live, Session, IsSession, PreAuth, Expired
  <2>2. SignedIn' = SignedIn /\ asking' = asking /\ allow' = allow
    BY <1>5 DEF vars, SignedIn, asking, Asking
  <2> QED BY <2>1, <2>2 DEF A!vars, liveSessions, asking
<1> QED BY <1>2, <1>3, <1>4, <1>5 DEF Next

\* The statements of the handlers, however they interleave, implement Access.
THEOREM SessionsImplementAccess == Spec => ImplementsAccess
BY InitImplements, NextImplements, SessionsInvariant, PTL
DEF Spec, ImplementsAccess, A!Spec
=============================================================================
