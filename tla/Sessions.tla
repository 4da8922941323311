------------------------------ MODULE Sessions ------------------------------
(***************************************************************************)
(* The browser login of internal/auth: the table oidc_sessions, the        *)
(* handlers of /oidc/login, /oidc/callback and /admin/logout, and the      *)
(* check that /admin and /admin/candidate make before they act.  Handlers  *)
(* run concurrently; each is a sequence of statements.  Requests and       *)
(* responses take their time: the first step of a handler is the one that  *)
(* reads the row its cookie names, which may be any cookie the browser     *)
(* ever got, and a response arrives some time after the last step, or      *)
(* never.                                                                  *)
(*                                                                         *)
(* Every random string is a fresh draw.  State, nonce and verifier of a    *)
(* login are drawn together with its id, and so is the CSRF token of a     *)
(* session: each is represented by the number of that id.                  *)
(***************************************************************************)
EXTENDS Integers, Sequences, FiniteSets

CONSTANTS
  None,         \* the empty column, the missing row, cookie or parameter
  Browsers,     \* those who log in
  Requests,     \* requests in flight at a time
  Claims,       \* [sub, email, verified] a provider may put into an ID token
  Lower,        \* strings.ToLower(strings.TrimSpace(_)) on addresses and domains
  Domain,       \* what follows the first "@" of an address, or None
  Allowlists,   \* [emails, domains, subs] a server may be started with
  PreAuthTTL,   \* preAuthTTL, in seconds of the model
  SessionTTL,   \* sessionTTL
  MaxIds,       \* bound on the draws
  MaxCodes,     \* bound on what the provider grants
  MaxTime,      \* bound on the clock
  MaxFaults     \* bound on store errors and restarts

VARIABLES
  now, late,   \* the second the clock shows, and whether it has begun earlier
  rows,        \* table oidc_sessions, by id
  issued,      \* draws so far
  reqs,        \* the request handlers
  allow,       \* the allowlist of the running server
  faults,      \* store errors and restarts so far
  had,         \* the cookies each browser has been given
  codes,       \* the provider's grants [login, user], in order
  spent,       \* the grants it has redeemed
  origin       \* for the properties: how each row came about

server == <<rows, issued, allow, faults>>
provider == <<codes, spent>>
vars == <<now, late, rows, issued, reqs, allow, faults, had, codes, spent, origin>>

Ids == 1..MaxIds
Ids0 == Ids \cup {None}
NoUser == [sub |-> None, email |-> None, verified |-> FALSE]

\* secret is the draw of state, nonce and verifier of a login; sessions have
\* none of the three.  user is who has signed in.
Row == [secret : Ids0, user : Claims \cup {NoUser}, expires : Nat]
PreAuth(row) == row.user.sub = None

\* A callback URL: its state, and the grant its code stands for.  With an
\* error parameter instead of a code, code is None.
Urls == [state : Ids0, code : (1..MaxCodes) \cup {None}]
NoUrl == [state |-> None, code |-> None]

Kinds == {"none", "login", "callback", "logout"}
Places == {"idle", "discard", "consume", "exchange", "sweep", "insert", "act",
           "reply"}

\* cookie and url come with the request; row is its copy of a row; id is that
\* of the row it creates or of the session it acts for.
Request == [pc : Places, kind : Kinds, browser : Browsers \cup {None},
            cookie : Ids0, url : Urls, row : Row \cup {None}, id : Ids0]
Idle == [pc |-> "idle", kind |-> "none", browser |-> None, cookie |-> None,
         url |-> NoUrl, row |-> None, id |-> None]

Origin == [browser : Browsers, login : Ids0, allow : Allowlists]

ASSUME SessionsAssumption ==
  /\ \A c \in Claims : DOMAIN c = {"sub", "email", "verified"}
  /\ None \notin Nat
  /\ None \notin Browsers
  /\ None \notin Row
  /\ None \notin Origin
  /\ Allowlists # {}
  /\ PreAuthTTL \in Nat /\ SessionTTL \in Nat
  /\ MaxIds \in Nat /\ MaxCodes \in Nat /\ MaxTime \in Nat /\ MaxFaults \in Nat

-----------------------------------------------------------------------------
(* The allowlist.                                                          *)

\* Addresses and domains are compared in lower case, subjects as they are.
NewAllowlist(config) ==
  [emails  |-> {Lower[e] : e \in config.emails},
   domains |-> {Lower[d] : d \in config.domains},
   subs    |-> config.subs]

\* A mutant: an address is taken at its word.
MutPermitsUnverified(config, c) ==
  LET a == NewAllowlist(config) IN
  \/ c.sub # None /\ c.sub \in a.subs
  \/ /\ c.email # None
     /\ \/ Lower[c.email] \in a.emails
        \/ /\ Domain[Lower[c.email]] # None
           /\ Domain[Lower[c.email]] \in a.domains

\* A listed subject needs no address; otherwise a verified address must be
\* listed, or its domain.
Permits(config, c) ==
  LET a == NewAllowlist(config) IN
  \/ c.sub # None /\ c.sub \in a.subs
  \/ /\ c.verified
     /\ c.email # None
     /\ \/ Lower[c.email] \in a.emails
        \/ /\ Domain[Lower[c.email]] # None
           /\ Domain[Lower[c.email]] \in a.domains

-----------------------------------------------------------------------------
(* The table.  Expiry is stored in whole seconds, rounded down.            *)

\* row.ExpiresAt.Before(time.Now()): the clock is finer than a second.
Expired(row) == row.expires < now \/ (row.expires = now /\ late)

Good(n) == rows[n] # None /\ ~Expired(rows[n])

\* A mutant: the sweep deletes what is about to expire.
MutSweepEarly(R) ==
  [n \in Ids |-> IF R[n] # None /\ R[n].expires <= now THEN None ELSE R[n]]

\* DELETE FROM oidc_sessions WHERE expires_at < ?, in seconds.
Sweep(R) ==
  [n \in Ids |-> IF R[n] # None /\ R[n].expires < now THEN None ELSE R[n]]

\* A statement fails: the database is locked, or the request was cancelled.
StoreFault == faults < MaxFaults /\ faults' = faults + 1
StoreOK == faults' = faults

Delete(n) == rows' = [rows EXCEPT ![n] = None]

-----------------------------------------------------------------------------
(* Requests and responses.                                                 *)

Goto(r, place) == reqs' = [reqs EXCEPT ![r].pc = place]

\* The handler returns.  That its response clears the cookie or leaves it is
\* all the same here: an old cookie may be sent anyway.
Return(r) == reqs' = [reqs EXCEPT ![r] = Idle]

\* The response with a new cookie arrives, or is lost with its connection.
Reply(r) ==
  /\ reqs[r].pc = "reply"
  /\ Return(r)
  /\ had' \in {had, [had EXCEPT ![reqs[r].browser] = @ \cup {reqs[r].id}]}
  /\ UNCHANGED <<now, late, server, provider, origin>>

-----------------------------------------------------------------------------
(* LoginHandler and sessionStore.Create.                                   *)

BeginLogin(r, b) ==
  /\ issued < MaxIds
  /\ issued' = issued + 1
  /\ reqs[r].pc = "idle"
  /\ reqs' = [reqs EXCEPT ![r] =
       [Idle EXCEPT !.pc = "sweep", !.kind = "login", !.browser = b,
          !.id = issued + 1,
          !.row = [secret |-> issued + 1, user |-> NoUser,
                   expires |-> now + PreAuthTTL]]]
  /\ UNCHANGED <<now, late, rows, had, allow, faults, provider, origin>>

\* Create sweeps first; it goes on whether or not that worked.
CreateSweeps(r) ==
  /\ reqs[r].pc = "sweep"
  /\ \/ StoreOK /\ rows' = Sweep(rows)
     \/ StoreFault /\ UNCHANGED rows
  /\ Goto(r, "insert")
  /\ UNCHANGED <<now, late, issued, allow, had, provider, origin>>

CreateInserts(r) ==
  LET q == reqs[r] IN
  /\ q.pc = "insert"
  /\ \/ /\ StoreOK
        /\ rows' = [rows EXCEPT ![q.id] = q.row]
        /\ origin' = [origin EXCEPT ![q.id] =
             [browser |-> q.browser, login |-> q.url.state, allow |-> allow]]
        /\ reqs' = [reqs EXCEPT ![r] =
             [Idle EXCEPT !.pc = "reply", !.browser = q.browser, !.id = q.id]]
     \/ /\ StoreFault
        /\ UNCHANGED <<rows, origin>>
        /\ Return(r)
  /\ UNCHANGED <<now, late, issued, allow, had, provider>>

-----------------------------------------------------------------------------
(* CallbackHandler.                                                        *)

\* The URLs the provider redirects to, and the bare path.  Any may be opened
\* again, at any time and in any browser.
Logins(b) == {n \in had[b] : origin[n].login = None}
CallbackUrls ==
  {NoUrl} \cup {[state |-> n, code |-> None] : n \in UNION {Logins(b) : b \in Browsers}} \cup
  {[state |-> codes[k].login, code |-> k] : k \in DOMAIN codes}

\* The row is that of the login whose answer the URL carries.
Mine(row, u) == u.state # None /\ u.state = row.secret

\* The handler turns away, without another step, who has no cookie, no row, a
\* session already, or the answer to another login.
CallbackGets(r, b) ==
  /\ reqs[r].pc = "idle"
  /\ \E c \in had[b], u \in CallbackUrls :
       LET q == [Idle EXCEPT !.kind = "callback", !.browser = b,
                             !.cookie = c, !.url = u]
           row == rows[c]
           Goes(place) ==
             reqs' = [reqs EXCEPT ![r] = [q EXCEPT !.pc = place, !.row = row]]
       IN /\ row # None
          /\ \/ Expired(row) /\ Goes("discard")
             \/ /\ ~Expired(row) /\ PreAuth(row) /\ Mine(row, u)
                /\ Goes(IF u.code = None THEN "discard" ELSE "consume")
  /\ UNCHANGED <<now, late, server, had, provider, origin>>

\* The row goes, an error is ignored, and the cookie is cleared: an expired
\* row, a refused login, a logout.
Discard(r) ==
  /\ reqs[r].pc = "discard"
  /\ \/ StoreOK /\ Delete(reqs[r].cookie)
     \/ StoreFault /\ UNCHANGED rows
  /\ Return(r)
  /\ UNCHANGED <<now, late, issued, allow, had, provider, origin>>

\* The pre-auth row goes before any further work, or the login fails.  That
\* the statement has deleted a row is not looked at.
Consume(r) ==
  /\ reqs[r].pc = "consume"
  /\ \/ StoreOK /\ Delete(reqs[r].cookie) /\ Goto(r, "exchange")
     \/ StoreFault /\ UNCHANGED rows /\ Return(r)
  /\ UNCHANGED <<now, late, issued, allow, had, provider, origin>>

\* The provider redeems a code once, and only with the verifier of the login
\* it was granted to.
Redeems(r) ==
  LET k == reqs[r].url.code IN
  k \notin spent /\ codes[k].login = reqs[r].row.secret

\* The exchange fails, its ID token is not valid, or the allowlist does not
\* permit its subject.
ExchangeFails(r) ==
  LET k == reqs[r].url.code IN
  /\ reqs[r].pc = "exchange"
  /\ spent' \in {spent, spent \cup (IF Redeems(r) THEN {k} ELSE {})}
  /\ Return(r)
  /\ UNCHANGED <<now, late, server, had, codes, origin>>

\* The token's nonce is that of the login; its subject is permitted.
ExchangeSucceeds(r) ==
  LET k == reqs[r].url.code
      user == codes[k].user
  IN /\ reqs[r].pc = "exchange"
     /\ Redeems(r)
     /\ Permits(allow, user)
     /\ issued < MaxIds
     /\ issued' = issued + 1
     /\ spent' = spent \cup {k}
     /\ reqs' = [reqs EXCEPT ![r].pc = "sweep", ![r].id = issued + 1,
          ![r].row = [secret |-> None, user |-> user,
                      expires |-> now + SessionTTL]]
     /\ UNCHANGED <<now, late, rows, had, allow, faults, codes, origin>>

-----------------------------------------------------------------------------
(* LogoutHandler.                                                          *)

LogoutGets(r, b) ==
  /\ reqs[r].pc = "idle"
  /\ \E c \in had[b] :
       /\ rows[c] # None
       /\ reqs' = [reqs EXCEPT ![r] =
            [Idle EXCEPT !.pc = "discard", !.kind = "logout", !.browser = b,
                         !.cookie = c]]
  /\ UNCHANGED <<now, late, server, had, provider, origin>>

-----------------------------------------------------------------------------
(* The admin page and its form.                                            *)

SignedIn == {n \in Ids : origin[n] # None /\ origin[n].login # None}

\* A mutant: the check does not look at the expiry.
MutSessionOfExpired(row) == row # None /\ ~PreAuth(row)

\* A mutant: a login in progress passes for a session.
MutSessionOfPreAuth(row) == row # None /\ ~Expired(row)

\* Auth.Session: the row of the cookie is a session that has not expired.
SessionOf(row) == row # None /\ ~PreAuth(row) /\ ~Expired(row)

Admit(r, b, n) ==
  reqs' = [reqs EXCEPT ![r] =
    [Idle EXCEPT !.pc = "act", !.browser = b, !.id = n]]

\* adminIdentity: a session comes first, and its review form must carry its
\* CSRF token; without a session, or when its row cannot be read, the admin
\* token will do.  Others are turned away.
AdminChecks(r, b) ==
  /\ reqs[r].pc = "idle"
  /\ \/ \E c \in had[b] : SessionOf(rows[c]) /\ Admit(r, b, c)
     \/ Admit(r, b, None)
  /\ UNCHANGED <<now, late, server, had, provider, origin>>

\* The page is rendered, or the review action done (module Review).
Act(r) ==
  /\ reqs[r].pc = "act"
  /\ Return(r)
  /\ UNCHANGED <<now, late, server, had, provider, origin>>

-----------------------------------------------------------------------------
(* The provider, the clock, restarts.                                      *)

\* Somebody signs in at the provider where a login has sent a browser.
Grant ==
  /\ Len(codes) < MaxCodes
  /\ \E n \in UNION {Logins(b) : b \in Browsers}, c \in Claims :
       codes' = Append(codes, [login |-> n, user |-> c])
  /\ UNCHANGED <<now, late, server, reqs, had, spent, origin>>

Tick ==
  /\ now < MaxTime
  /\ late' = ~late
  /\ now' = IF late THEN now + 1 ELSE now
  /\ UNCHANGED <<server, had, reqs, provider, origin>>

\* The server stops with whatever it was doing; New sweeps when it is back,
\* perhaps with another allowlist.
Restart ==
  /\ StoreFault
  /\ rows' = Sweep(rows)
  /\ reqs' = [r \in Requests |-> Idle]
  /\ allow' \in Allowlists
  /\ UNCHANGED <<now, late, issued, had, provider, origin>>

Init ==
  /\ now = 0
  /\ late = FALSE
  /\ rows = [n \in Ids |-> None]
  /\ issued = 0
  /\ reqs = [r \in Requests |-> Idle]
  /\ allow \in Allowlists
  /\ faults = 0
  /\ had = [b \in Browsers |-> {}]
  /\ codes = <<>>
  /\ spent = {}
  /\ origin = [n \in Ids |-> None]

Handle(r) ==
  \/ CreateSweeps(r)
  \/ CreateInserts(r)
  \/ Discard(r)
  \/ Consume(r)
  \/ ExchangeFails(r)
  \/ ExchangeSucceeds(r)
  \/ Act(r)
  \/ Reply(r)

Serve(r) ==
  \/ \E b \in Browsers : BeginLogin(r, b)
  \/ \E b \in Browsers : CallbackGets(r, b)
  \/ \E b \in Browsers : LogoutGets(r, b)
  \/ \E b \in Browsers : AdminChecks(r, b)
  \/ Handle(r)

Next ==
  \/ \E r \in Requests : Serve(r)
  \/ Grant
  \/ Tick
  \/ Restart

Spec == Init /\ [][Next]_vars

-----------------------------------------------------------------------------
(* Properties.                                                             *)

\* Type correctness of the table, the cookies, the requests and the grants;
\* what an admin request acts for is a session, never a login.
SessionsTypeOK ==
  /\ now \in Nat
  /\ late \in BOOLEAN
  /\ rows \in [Ids -> Row \cup {None}]
  /\ issued \in 0..MaxIds
  /\ reqs \in [Requests -> Request]
  /\ allow \in Allowlists
  /\ faults \in Nat
  /\ had \in [Browsers -> SUBSET Ids]
  /\ codes \in Seq([login : Ids, user : Claims])
  /\ Len(codes) <= MaxCodes
  /\ spent \subseteq DOMAIN codes
  /\ origin \in [Ids -> Origin \cup {None}]
  /\ \A r \in Requests : reqs[r].pc = "act" => reqs[r].id \in SignedIn \cup {None}

IsSession(row) == row # None /\ ~PreAuth(row)

\* A session was earned: the browser that has it began the login it came
\* from, the provider vouched for its user in answer to that very login, and
\* the allowlist of the time named the user's subject, or the provider had
\* verified an address of the user; which addresses are listed is not compared
\* again (CallbackHandler; README.md:90-94).
SessionsEarned ==
  \A n \in Ids : IsSession(rows[n]) =>
    LET o == origin[n]
        user == rows[n].user
    IN /\ o # None /\ o.login # None
       /\ origin[o.login] # None
       /\ origin[o.login].browser = o.browser
       /\ \E k \in spent : codes[k] = [login |-> o.login, user |-> user]
       /\ user.sub \in o.allow.subs \/ user.verified

\* What a row, stored or not yet, has behind it when o is its origin.
RowSound(n, row, o) ==
  IF o.login = None
  THEN PreAuth(row) /\ row.secret = n
  ELSE /\ row.secret = None
       /\ origin[o.login] # None
       /\ origin[o.login].browser = o.browser
       /\ \E k \in spent : codes[k] = [login |-> o.login, user |-> row.user]
       /\ row.user \in Claims
       /\ Permits(o.allow, row.user)

\* A cookie belongs to the browser that began the login.
Owns(b, n) == n \in Ids /\ origin[n] # None /\ origin[n].browser = b

Creating(q) == q.pc \in {"sweep", "insert"}
Born(q) == [browser |-> q.browser, login |-> q.url.state, allow |-> allow]

\* The row to come: its id is new, and it has a right to be stored.
CreatesSound(q) ==
  /\ q.browser # None
  /\ q.row # None
  /\ q.id \in 1..issued
  /\ rows[q.id] = None
  /\ origin[q.id] = None
  /\ RowSound(q.id, q.row, Born(q))

\* The answer to the login whose row the cookie names.
Answering(q) ==
  /\ q.kind = "callback"
  /\ Owns(q.browser, q.cookie)
  /\ q.url.state = q.cookie
  /\ origin[q.cookie].login = None

\* A callback that has got past the checks holds the row of its own login.
CallbackSound(q) ==
  /\ Answering(q)
  /\ q.row # None
  /\ q.row.secret = q.cookie
  /\ q.url.code \in DOMAIN codes

\* A row may be discarded by its own browser's logout, or by a callback that
\* finds it expired or answers its login.
DiscardSound(q) ==
  /\ Owns(q.browser, q.cookie)
  /\ \/ q.kind = "logout"
     \/ Answering(q)
     \/ rows[q.cookie] = None
     \/ Expired(rows[q.cookie])

RequestSound(q) ==
  /\ Creating(q) => CreatesSound(q)
  /\ q.pc \in {"consume", "exchange"} => CallbackSound(q)
  /\ q.pc = "discard" => DiscardSound(q)
  /\ q.pc = "reply" => Owns(q.browser, q.id)

RowsSound ==
  \A n \in Ids : rows[n] # None => origin[n] # None /\ RowSound(n, rows[n], origin[n])
OriginsIssued == \A n \in Ids : origin[n] # None => n <= issued
CookiesOwned == \A b \in Browsers : \A n \in had[b] : Owns(b, n)
RequestsSound == \A r \in Requests : RequestSound(reqs[r])
IdsDistinct ==
  \A q, r \in Requests :
    q # r /\ Creating(reqs[q]) /\ Creating(reqs[r]) => reqs[q].id # reqs[r].id

\* The inductive invariant: what is stored and what is in flight has been
\* earned, and no two requests are about to store under one id.
IInv ==
  /\ SessionsTypeOK
  /\ RowsSound
  /\ OriginsIssued
  /\ CookiesOwned
  /\ RequestsSound
  /\ IdsDistinct

\* A row that is still good is taken from the table only by what its own
\* browser asks for: a session by its logout; a login in progress by its
\* logout or by the callback that brings its state.  No sweep, no callback of
\* another tab and no other login does it (auth.go:246-252, 255-257).
GoodRowsStay ==
  [][\A n \in Ids :
       rows[n] # None /\ ~Expired(rows[n]) /\ rows'[n] = None =>
         \E r \in Requests :
           /\ reqs[r].cookie = n
           /\ reqs[r].browser = origin[n].browser
           /\ \/ reqs[r].kind = "logout"
              \/ /\ reqs[r].kind = "callback"
                 /\ PreAuth(rows[n])
                 /\ reqs[r].url.state = rows[n].secret]_vars

\* "The pre-auth row is single-use" (auth.go:271): a login makes at most one
\* session.
PreAuthSingleUse ==
  \A m, n \in SignedIn : origin[m].login = origin[n].login => m = n

Live == {n \in Ids : IsSession(rows[n]) /\ ~Expired(rows[n])}
Session(n) == [id |-> n, user |-> rows[n].user]

Asking(r) == [let |-> reqs[r].pc = "act",
              session |-> IF reqs[r].pc = "act" THEN reqs[r].id ELSE None]

A == INSTANCE Access WITH
  Users <- Claims,
  sessions <- {Session(n) : n \in Live},
  past <- SignedIn,
  asked <- [r \in Requests |-> Asking(r)]

\* Whatever the interleaving, the rows behave like the sessions of Access.
ImplementsAccess == A!Spec
=============================================================================
