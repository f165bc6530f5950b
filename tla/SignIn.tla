--------------------------------- MODULE SignIn ---------------------------------
(***************************************************************************)
(* Sign-in, refresh and log-out of modules/auth, in one browser whose tabs *)
(* share the cookie jar.  A login attempt is its number: the state and the *)
(* PKCE verifier are made, stored and cleared together.  A tab's entry     *)
(* says where its request is: on its way, in the handler, or answered.     *)
(***************************************************************************)
EXTENDS Integers

CONSTANTS
    Accounts,    \* Microsoft accounts, by their oid claim
    Emails,      \* e-mail addresses
    Ids,         \* ids of User rows
    Roles,       \* the enum Role
    Student,     \* its default
    Tabs,        \* tabs of the browser
    AttemptLife, \* PKCE_COOKIE_MAX_AGE_MS, 10 minutes, in ticks
    TokenLife,   \* EXPIRES_IN, one hour, in ticks
    MaxAttempts  \* bound of the instance: login attempts in a behaviour

ASSUME SignInAssumption ==
    /\ Student \in Roles
    /\ AttemptLife \in Nat \ {0}
    /\ TokenLife \in Nat \ {0}
    /\ MaxAttempts \in Nat

VARIABLES
    users,    \* the User table: id -> oid, email, role
    mailOf,   \* the address Microsoft has for each account
    jar,      \* the cookies: the pending attempt, the life it has left, the session
    tab,      \* what each tab waits for
    started,  \* attempts so far
    codes,    \* the callback URLs the browser was sent to: attempt -> whose code, or Spent
    since,    \* history: ticks since a row last had a role
    troubled  \* history: tabs whose sign-in something else in the browser crossed

vars == <<users, mailOf, jar, tab, started, codes, since, troubled>>

Spent == "spent"        \* a code Microsoft has taken
Dev == "dev"            \* the adObjectId dev-login gives a new row
NoToken == [id |-> "none"]  \* no session; as an answer, `clear the session cookie'
Keep == [id |-> "keep"]     \* as an answer, `leave the session cookie alone'
Attempts == 1 .. MaxAttempts
NoAttempt == 0

UserRow == [oid : Accounts \cup {Dev}, email : Emails, role : Roles]
Token == [id : Ids, role : Roles, left : 1 .. TokenLife, by : Accounts \cup {Dev}]

Idle == [step |-> "idle"]
Answer(clears, session) == [step |-> "answer", clears |-> clears, session |-> session]
Refused == Answer(TRUE, Keep)

TabState ==
    {Idle}
    \cup [step : {"login", "microsoft"}, attempt : Attempts]
    \cup [step : {"callback"}, attempt : Attempts, sent : {NoAttempt} \cup Attempts]
    \cup [step : {"upsert"}, who : Accounts, email : Emails]
    \cup [step : {"refresh"}, id : Ids, role : Roles, by : Accounts \cup {Dev}]
    \cup [step : {"answer"}, clears : BOOLEAN, session : Token \cup {NoToken, Keep}]

Never == TokenLife

\* No two accounts have one address at a time.
Directories == {f \in [Accounts -> Emails] : \A a, b \in Accounts : f[a] = f[b] => a = b}

Init ==
    /\ users = <<>>
    /\ mailOf \in Directories
    /\ jar = [attempt |-> NoAttempt, life |-> 0, session |-> NoToken]
    /\ tab = [t \in Tabs |-> Idle]
    /\ started = 0
    /\ codes = <<>>
    /\ since = [i \in Ids |-> [r \in Roles |-> Never]]
    /\ troubled = {}

-------------------------------------------------------------------------------
Goes(t, state) == tab' = [tab EXCEPT ![t] = state]

\* A tab that has begun to sign in and has not seen the answer yet.
SigningIn(t) == \/ tab[t].step \in {"login", "microsoft", "callback", "upsert"}
                \/ tab[t].step = "answer" /\ tab[t].clears

\* Whoever signs in while t begins to, and t, are no longer undisturbed.
Crosses(t) ==
    LET others == {o \in Tabs \ {t} : SigningIn(o)}
    IN  troubled' = IF others = {} THEN troubled ELSE troubled \cup others \cup {t}

\* login: a fresh attempt; the cookies are in the answer.
Login(t) ==
    /\ tab[t] = Idle
    /\ started < MaxAttempts
    /\ started' = started + 1
    /\ Goes(t, [step |-> "login", attempt |-> started + 1])
    /\ Crosses(t)
    /\ UNCHANGED <<users, mailOf, jar, codes, since>>

\* Mutant of Stored: a pending attempt keeps its cookies.
StoredOnce(n) == IF jar.attempt = NoAttempt
                   THEN [jar EXCEPT !.attempt = n, !.life = AttemptLife] ELSE jar

Stored(n) == [jar EXCEPT !.attempt = n, !.life = AttemptLife]

\* The answer to login stores the attempt, whatever was stored before.
GoToMicrosoft(t) ==
    /\ tab[t].step = "login"
    /\ jar' = Stored(tab[t].attempt)
    /\ Goes(t, [step |-> "microsoft", attempt |-> tab[t].attempt])
    /\ UNCHANGED <<users, mailOf, started, codes, since, troubled>>

\* Microsoft sends the tab to the callback, with the cookies of that moment.
Authorise(t, a) ==
    /\ tab[t].step = "microsoft"
    /\ Goes(t, [step |-> "callback", attempt |-> tab[t].attempt, sent |-> jar.attempt])
    /\ codes' = [n \in DOMAIN codes \cup {tab[t].attempt} |->
                    IF n = tab[t].attempt THEN a ELSE codes[n]]
    /\ UNCHANGED <<users, mailOf, jar, started, since, troubled>>

\* A closed tab, a declined consent (callback throws before it clears a
\* cookie), or an answer that never arrives.
GiveUp(t) ==
    /\ tab[t].step \in {"login", "microsoft", "answer"}
    /\ Goes(t, Idle)
    /\ troubled' = troubled \ {t}
    /\ UNCHANGED <<users, mailOf, jar, started, codes, since>>

\* A reloaded or restored tab opens a callback URL once more.
Revisit(t) ==
    /\ tab[t] = Idle
    /\ \E n \in DOMAIN codes :
          Goes(t, [step |-> "callback", attempt |-> n, sent |-> jar.attempt])
    /\ troubled' = troubled \cup {t} \cup {o \in Tabs : SigningIn(o)}
    /\ UNCHANGED <<users, mailOf, jar, started, codes, since>>

\* callback compares the state with the cookie, then asks Microsoft for the
\* claims behind the code.  Microsoft takes a code once, and may refuse it.
Callback(t) ==
    /\ tab[t].step = "callback"
    /\ LET n == tab[t].attempt IN
          \/ /\ tab[t].sent = n /\ codes[n] # Spent
             /\ Goes(t, [step |-> "upsert", who |-> codes[n], email |-> mailOf[codes[n]]])
             /\ codes' = [codes EXCEPT ![n] = Spent]
          \/ Goes(t, Refused) /\ UNCHANGED codes
    /\ UNCHANGED <<users, mailOf, jar, started, since, troubled>>

\* Mutant of SignedToken: it outlives the hour.
SignedForLonger(id, role, by) == [id |-> id, role |-> role, left |-> TokenLife + 1, by |-> by]

SignedToken(id, role, by) == [id |-> id, role |-> role, left |-> TokenLife, by |-> by]

\* Row id has these fields from now on, and a token for it is in the answer.
SignsIn(t, id, row, by, clears) ==
    /\ users' = [i \in DOMAIN users \cup {id} |-> IF i = id THEN row ELSE users[i]]
    /\ since' = [since EXCEPT ![id][row.role] = 0]
    /\ Goes(t, Answer(clears, SignedToken(id, row.role, by)))

\* Mutant of RowOf: the row is looked up by e-mail.
RowByEmail(who, email) == {i \in DOMAIN users : users[i].email = email}

RowOf(who, email) == {i \in DOMAIN users : users[i].oid = who}

Unused(rows, email) == \A i \in DOMAIN users \ rows : users[i].email # email

\* upsertUser, then the token.  The address may belong to another row: the
\* unique index makes the query throw.  So may a lost connection.
Upsert(t) ==
    /\ tab[t].step = "upsert"
    /\ LET who == tab[t].who
           email == tab[t].email
           rows == RowOf(who, email)
       IN  \/ /\ Unused(rows, email)
              /\ \/ \E i \in rows : SignsIn(t, i, [users[i] EXCEPT !.email = email], who, TRUE)
                 \/ /\ rows = {}
                    /\ \E i \in Ids \ DOMAIN users :
                          SignsIn(t, i, [oid |-> who, email |-> email, role |-> Student], who, TRUE)
           \/ Goes(t, Refused) /\ UNCHANGED <<users, since>>
    /\ UNCHANGED <<mailOf, jar, started, codes, troubled>>

\* devLogin upserts by e-mail and sets the role.
DevLogin(t, email, role) ==
    /\ tab[t] = Idle
    /\ \/ \E i \in DOMAIN users :
             /\ users[i].email = email
             /\ SignsIn(t, i, [users[i] EXCEPT !.role = role], users[i].oid, FALSE)
       \/ /\ Unused({}, email)
          /\ \E i \in Ids \ DOMAIN users :
                SignsIn(t, i, [oid |-> Dev, email |-> email, role |-> role], Dev, FALSE)
    /\ UNCHANGED <<mailOf, jar, started, codes, troubled>>

\* refresh, past requireAuth: the session is valid when the request arrives.
Refresh(t) ==
    /\ tab[t] = Idle
    /\ jar.session # NoToken
    /\ Goes(t, [step |-> "refresh", id |-> jar.session.id,
                role |-> jar.session.role, by |-> jar.session.by])
    /\ UNCHANGED <<users, mailOf, jar, started, codes, since, troubled>>

\* Mutant of Reissued: the claims of the old token are signed again.
ReissuedAsBefore(user) == SignedToken(user.id, user.role, user.by)

\* The role is the one in the table.
Reissued(user) == SignedToken(user.id, users[user.id].role, user.by)

\* reissueToken, or a query that throws.
Reissue(t) ==
    /\ tab[t].step = "refresh"
    /\ \/ Goes(t, Answer(FALSE, Reissued(tab[t])))
       \/ Goes(t, Idle)
    /\ UNCHANGED <<users, mailOf, jar, started, codes, since, troubled>>

Logout(t) ==
    /\ tab[t] = Idle
    /\ Goes(t, Answer(FALSE, NoToken))
    /\ UNCHANGED <<users, mailOf, jar, started, codes, since, troubled>>

\* The browser applies an answer's cookies: it clears whatever attempt is
\* there, its own or another tab's.
Arrive(t) ==
    /\ tab[t].step = "answer"
    /\ jar' = [attempt |-> IF tab[t].clears THEN NoAttempt ELSE jar.attempt,
               life    |-> IF tab[t].clears THEN 0 ELSE jar.life,
               session |-> IF tab[t].session = Keep THEN jar.session ELSE tab[t].session]
    /\ Goes(t, Idle)
    /\ troubled' = troubled \ {t}
    /\ UNCHANGED <<users, mailOf, started, codes, since>>

-------------------------------------------------------------------------------
\* Microsoft's directory hands addresses round.
Readdress ==
    /\ mailOf' \in Directories \ {mailOf}
    /\ UNCHANGED <<users, jar, tab, started, codes, since, troubled>>

\* An operator changes a role in the database: no handler but devLogin does.
SetRole(id, role) ==
    /\ id \in DOMAIN users
    /\ users' = [users EXCEPT ![id].role = role]
    /\ since' = [since EXCEPT ![id][role] = 0]
    /\ UNCHANGED <<mailOf, jar, tab, started, codes, troubled>>

Aged(token) ==
    IF token = NoToken \/ token.left = 1 THEN NoToken ELSE [token EXCEPT !.left = @ - 1]

\* A tick is ten minutes or more, so no request and no answer is under way
\* when it ends; a tab may sit at Microsoft for longer.  The session cookie
\* lives as long as its token, and an expired token is no session.
Tick ==
    /\ \A t \in Tabs : tab[t].step \in {"idle", "microsoft"}
    /\ LET expires == jar.attempt # NoAttempt /\ jar.life = 1 IN
          /\ jar' = [attempt |-> IF expires THEN NoAttempt ELSE jar.attempt,
                     life    |-> IF jar.life > 0 THEN jar.life - 1 ELSE 0,
                     session |-> Aged(jar.session)]
          /\ troubled' = IF expires THEN {t \in Tabs : SigningIn(t)} ELSE troubled
    /\ since' = [i \in Ids |-> [r \in Roles |->
                    IF i \in DOMAIN users /\ users[i].role = r THEN 0
                    ELSE IF since[i][r] = Never THEN Never ELSE since[i][r] + 1]]
    /\ UNCHANGED <<users, mailOf, tab, started, codes>>

\* The process restarts: requests are lost, cookies and rows are not.
Restart ==
    /\ tab' = [t \in Tabs |-> IF tab[t].step \in {"callback", "upsert", "refresh"}
                                THEN Idle ELSE tab[t]]
    /\ tab' # tab
    /\ troubled' = {t \in troubled : tab'[t] # Idle}
    /\ UNCHANGED <<users, mailOf, jar, started, codes, since>>

Next ==
    \/ \E t \in Tabs :
          \/ Login(t) \/ GoToMicrosoft(t) \/ GiveUp(t) \/ Revisit(t)
          \/ Callback(t) \/ Upsert(t)
          \/ Refresh(t) \/ Reissue(t) \/ Logout(t) \/ Arrive(t)
          \/ \E a \in Accounts : Authorise(t, a)
          \/ \E e \in Emails, r \in Roles : DevLogin(t, e, r)
    \/ Readdress
    \/ \E i \in Ids, r \in Roles : SetRole(i, r)
    \/ Tick
    \/ Restart

Spec == Init /\ [][Next]_vars

-------------------------------------------------------------------------------
\* What a tab's entry refers to exists: attempts begun, URLs visited, rows.
Known(entry, begun, urls, ids) ==
    /\ entry.step \in {"login", "microsoft"} => entry.attempt \in begun
    /\ entry.step = "callback" => entry.attempt \in urls
    /\ entry.step = "refresh" => entry.id \in ids
    /\ entry.step = "answer" /\ entry.session \notin {NoToken, Keep} => entry.session.id \in ids

AllKnown ==
    /\ \A t \in Tabs : Known(tab[t], 1 .. started, DOMAIN codes, DOMAIN users)
    /\ jar.session # NoToken => jar.session.id \in DOMAIN users

\* TYPE INVARIANT.  Rows, cookies and requests have their types; whatever a
\* request holds was given to it by an earlier step.
TypeOK ==
    /\ DOMAIN users \subseteq Ids
    /\ \A i \in DOMAIN users : users[i] \in UserRow
    /\ mailOf \in [Accounts -> Emails]
    /\ jar \in [attempt : {NoAttempt} \cup Attempts, life : 0 .. AttemptLife,
                session : Token \cup {NoToken}]
    /\ tab \in [Tabs -> TabState]
    /\ started \in {NoAttempt} \cup Attempts
    /\ DOMAIN codes \subseteq 1 .. started
    /\ \A n \in DOMAIN codes : codes[n] \in Accounts \cup {Spent}
    /\ since \in [Ids -> [Roles -> 0 .. Never]]
    /\ troubled \subseteq Tabs
    /\ AllKnown

\* Every token there is: in the jar, or on its way to it.
Tokens == ({jar.session} \cup {tab[t].session : t \in {u \in Tabs : tab[u].step = "answer"}})
          \ {NoToken, Keep}

\* SAFETY.  A token's role was its row's role when the token was signed or
\* later: however often it is refreshed, a role that was taken away is gone
\* from every token within one token life.
RoleIsRecent ==
    \A k \in Tokens : since[k.id][k.role] <= TokenLife - k.left

\* SAFETY.  A session that began with a Microsoft account is that account's
\* row, now as when it began, although addresses change hands and dev-login
\* and the upsert rewrite rows under open sessions; one that began with
\* dev-login stays with whoever owned the row it found.
SessionIsItsOwners ==
    \A k \in Tokens : users[k.id].oid = k.by

\* SAFETY.  A sign-in during which no other tab signs in, no old callback is
\* reopened and the ten minutes do not run out passes the state check,
\* whatever attempts were given up before it.
UncrossedSignInPasses ==
    \A t \in Tabs : tab[t].step = "callback" /\ t \notin troubled =>
        tab[t].sent = tab[t].attempt

===============================================================================
