-------------------------------- MODULE Client --------------------------------
(***************************************************************************)
(* One browser tab: the session cookie, the pages and their guards, the    *)
(* queries each page shows and the writes of its user.  The server's data  *)
(* is reduced to whose it is and whether it holds the user's own last      *)
(* write; one write is under way at a time.                                *)
(***************************************************************************)
EXTENDS FiniteSets

CONSTANTS
    People,    \* who signs in at this tab
    Staff,     \* those with the role STAFF or ADMIN
    Nobody,    \* no session
    Keys,      \* the queries followed, of AllKeys
    Retry,     \* main.tsx: how often a failed query is retried
    Lossy      \* whether requests and answers get lost

NoData == "no data"   \* the answers are sessions: whose data it is

INSTANCE QueryCache WITH NoData <- NoData

AllKeys == {"me", "mine", "rooms", "room"}

ASSUME ClientAssumption ==
    /\ Staff \subseteq People
    /\ Nobody \notin People
    /\ (People \cup {Nobody}) \cap {NoData, "anyone", "nobody asks"} = {}
    /\ People \cap {"book", "change", "logout", "none"} = {}
    /\ "me" \in Keys /\ Keys \subseteq AllKeys
    /\ Retry \in Nat
    /\ Lossy \in BOOLEAN

Pages == {"sign-in", "forbidden", "rooms", "room", "mine", "manage"}
Acts == {"book", "change", "logout"} \cup People   \* a person: sign in as them
NoAct == "none"

VARIABLES
    cookie,   \* whose session cookie the browser holds
    page,     \* the location
    query,    \* the cache
    act,      \* the write under way, NoAct without one
    write     \* how far it has come

vars == <<cookie, page, query, act, write>>

-------------------------------------------------------------------------------
\* The hooks of a page.
KeysOf(p) ==
    Keys \cap CASE p = "room" -> {"room"}
               [] p = "mine" -> {"mine"}
               [] p \in {"rooms", "manage"} -> {"rooms"}
               [] OTHER -> {}

\* useAuth: data ?? null.
User(q) == IF q["me"].data = NoData THEN Nobody ELSE q["me"].data

\* Mutant of Guarded: a page stays, whatever the session is.
GuardedOnce(p, q) == p

\* Where SignInPage, RequireAuth and RequireRole send the browser.
Guarded(p, q) ==
    CASE p = "forbidden" -> p
      [] p = "sign-in" -> IF User(q) \in People THEN "rooms" ELSE p
      [] p = "manage" /\ User(q) \in People \ Staff -> "forbidden"
      [] OTHER -> IF User(q) \in People \/ Loading(q["me"]) THEN p ELSE "sign-in"

\* While the session is loading nothing else is mounted.
Active(p, q) == {"me"} \cup (IF User(q) \in People THEN KeysOf(p) ELSE {})

Retries(k) == IF k = "me" THEN 0 ELSE Retry

\* The cookie rides along; a list of rooms is the same for everyone.
As(k, c) == IF k \in {"me", "mine"} \/ c = Nobody THEN c ELSE "anyone"

\* Mutant of Render: the guards act on navigation only.
RenderUnguarded(p, q, c) ==
    LET there == IF p = page THEN p ELSE Guarded(p, q)
        new == Active(there, q) \ Active(page, query)
    IN  /\ page' = there
        /\ query' = [k \in Keys |->
              IF k \in new THEN Mounted(q[k], As(k, c), Retries(k)) ELSE q[k]]

\* React renders: the guards act, and what appears is fetched.
Render(p, q, c) ==
    LET there == Guarded(p, q)
        new == Active(there, q) \ Active(page, query)
    IN  /\ page' = there
        /\ query' = [k \in Keys |->
              IF k \in new THEN Mounted(q[k], As(k, c), Retries(k)) ELSE q[k]]

\* What a full page load leaves in the cache: AuthProvider asks for the session.
Reloaded(c) == [k \in Keys |-> IF k = "me" THEN Sent(Empty, c, 0) ELSE Empty]

Init ==
    /\ cookie \in People \cup {Nobody}
    /\ page \in Pages
    /\ query = Reloaded(cookie)
    /\ act = NoAct
    /\ write = "none"

-------------------------------------------------------------------------------
(* Reading. *)

\* A link or the back button.
Open(p) ==
    /\ p # page
    /\ Render(p, query, cookie)
    /\ UNCHANGED <<cookie, act, write>>

\* Reloading the page, and the way back from Microsoft with a session, which
\* ends at /rooms.
Reload ==
    /\ \/ UNCHANGED <<cookie, page>>
       \/ cookie' \in People /\ page' = "rooms"
    /\ query' = Reloaded(cookie')
    /\ act' = NoAct /\ write' = "none"

\* The cookie changes under an open page: its hour is over, or another tab
\* signs in or out.  Nothing in the tab notices: no timer, no focus and no 401
\* of another key asks for the session again.
Elsewhere(c) ==
    /\ c # cookie
    /\ cookie' = c
    /\ query' = [k \in Keys |-> Foreign(query[k], k \in Active(page, query))]
    /\ UNCHANGED <<page, act, write>>

\* What the server knows about the session a request was sent with.  getMe's
\* 401 is data, any other 401 an error.
Serve(k) ==
    /\ Fetching(query[k])
    /\ query[k].fetch.got = NoData
    /\ k = "me" \/ query[k].fetch.as # Nobody
    /\ query' = [query EXCEPT ![k] = Served(@, @.fetch.as)]
    /\ UNCHANGED <<cookie, page, act, write>>

Arrive(k) ==
    /\ Fetching(query[k])
    /\ query[k].fetch.got # NoData
    /\ Render(page, [query EXCEPT ![k] = Arrived(@)], cookie)
    /\ UNCHANGED <<cookie, act, write>>

\* No answer, or one that is an error.
Lose(k) ==
    /\ Fetching(query[k])
    /\ Lossy \/ (k # "me" /\ query[k].fetch.as = Nobody)
    /\ Render(page, [query EXCEPT ![k] = Lost(@, As(k, cookie))], cookie)
    /\ UNCHANGED <<cookie, act, write>>

-------------------------------------------------------------------------------
(* Writing. *)

\* What the page offers: the booking form, the buttons of a reservation, Sign
\* out in the bar above every page behind RequireAuth, and the sign-in form.
Offers(a) ==
    CASE a = "book" ->
            /\ page = "room"
            /\ "room" \in Keys => query["room"].data # NoData /\ ~ query["room"].failed
      [] a = "change" -> page = "mine" /\ query["mine"].data # NoData
      [] a = "logout" -> page \notin {"sign-in", "forbidden"} /\ User(query) \in People
      [] OTHER -> page = "sign-in"

\* requireAuth bars a write without a session; signing in and out needs none.
Act(a) ==
    /\ write = "none"
    /\ Offers(a)
    /\ act' = a
    /\ write' = IF a \in {"book", "change"} /\ cookie = Nobody THEN "barred" ELSE "sent"
    /\ UNCHANGED <<cookie, page, query>>

Commit ==
    /\ write = "sent"
    /\ write' = "done"
    /\ query' = [k \in Keys |->
          IF act \in {"book", "change"} /\ k # "me" THEN Behind(query[k]) ELSE query[k]]
    /\ UNCHANGED <<cookie, page, act>>

\* apiFetch throws: an error of the server, or no answer.
Refuse ==
    /\ write \in {"barred", "sent"} \/ (write = "done" /\ Lossy)
    /\ act' = NoAct /\ write' = "none"
    /\ query' = [k \in Keys |-> Forgiven(query[k])]
    /\ UNCHANGED <<cookie, page>>

\* Mutant of Invalidate: `cancelRefetch: false', a request under way is enough.
InvalidateShared(ks, c) ==
    [k \in Keys |->
        LET active == k \in Active(page, query)
            q == Overtaken(query[k], active)
        IN  IF k \in ks /\ active THEN Mounted(q, As(k, c), Retries(k))
            ELSE IF k \in ks THEN q ELSE query[k]]

\* The keys in ks are invalidated under the cookie c.
Invalidate(ks, c) ==
    [k \in Keys |->
        LET active == k \in Active(page, query)
        IN  IF k \in ks
            THEN Invalidated(Overtaken(query[k], active), active, As(k, c), Retries(k))
            ELSE query[k]]

\* useInvalidateReservations: ['reservations'] and ['rooms'].
ReservationKeys == {"mine", "rooms", "room"}

\* The answer to a booking takes the browser to the list, from wherever it is
\* by then; the other writes of a reservation stay where they are.
Acknowledge ==
    /\ write = "done"
    /\ act \in {"book", "change"}
    /\ act' = NoAct /\ write' = "none"
    /\ Render(IF act = "book" THEN "mine" ELSE page, Invalidate(ReservationKeys, cookie), cookie)
    /\ UNCHANGED cookie

\* Mutant of SessionKeys: the page does not call useRefreshAuth.
SessionKeysForgotten == {}

\* useRefreshAuth: ['me'] and nothing else.
SessionKeys == {"me"}

\* Sign-in form and Sign out: the answer sets or clears the cookie.
Changed(c) ==
    /\ cookie' = c
    /\ LET q == Invalidate(SessionKeys, c)
       IN  Render(page, [k \in Keys |-> IF k = "me" /\ ~ Loading(q[k]) THEN q[k]
                         ELSE Foreign(q[k], k \in Active(page, query))], c)

SignIn ==
    /\ write = "done" /\ act \in People
    /\ act' = NoAct /\ write' = "none"
    /\ Changed(act)

SignOut ==
    /\ write = "done" /\ act = "logout"
    /\ act' = NoAct /\ write' = "none"
    /\ Changed(Nobody)

Return == Acknowledge \/ SignIn \/ SignOut

Next ==
    \/ \E p \in Pages : Open(p)
    \/ Reload
    \/ \E c \in People \cup {Nobody} : Elsewhere(c)
    \/ \E k \in Keys : Serve(k) \/ Arrive(k) \/ Lose(k)
    \/ \E a \in Acts : Act(a)
    \/ Commit \/ Refuse \/ Return

Spec == Init /\ [][Next]_vars

\* Requests are answered.  Strong fairness for the session's: a user who signs
\* out again and again cancels it each time, but not every time in time.
FairSpec ==
    /\ Spec
    /\ WF_vars(Commit) /\ WF_vars(Refuse \/ Return)
    /\ SF_vars(Serve("me")) /\ SF_vars(Arrive("me"))

-------------------------------------------------------------------------------
\* TYPE INVARIANT.  A page behind a guard is there for someone who may see it.
Session == People \cup {Nobody, "anyone"}
TypeOK ==
    /\ cookie \in People \cup {Nobody}
    /\ page \in Pages
    /\ query \in [Keys -> [data : Session \cup {NoData}, failed : BOOLEAN, mark : Marks,
                           fetch : {NoFetch} \cup
                              [as : Session, got : Session \cup {NoData},
                               left : 0 .. Retry, mark : Marks]]]
    /\ act \in Acts \cup {NoAct}
    /\ act = NoAct <=> write = "none"
    /\ write \in {"none", "barred", "sent", "done"}
    /\ page = Guarded(page, query)

Shows(k) ==
    k \in Active(page, query) /\ Settled(query[k]) /\ query[k].mark # "overtaken"

\* SAFETY.  When a page has settled it shows the user's own last write, be it
\* made here or on the page before.  The exception is a request that was under
\* way when the write was acknowledged and that nothing restarted: a key's
\* first one, or one of a page that had been left.
WritesShowUp ==
    write # "done" => \A k \in Keys \ {"me"} : Shows(k) => query[k].mark = "fine"

\* SAFETY.  What was asked for since the session last changed is of the cookie
\* there is, the session and the list of reservations each, although signing in
\* and out leaves the previous user's list in the cache.  The exceptions are
\* what was under way when the session changed, a list that was on the screen
\* then, and after a change the tab did not make the session it shows, which
\* stays until it is asked for: until a sign-in, a sign-out or a reload.
SessionShows ==
    /\ Shows("me") => User(query) = cookie
    /\ Shows("mine") => query["mine"].data = cookie

\* LIVENESS.  Who has signed out here is shown the sign-in page in the end,
\* unless asking for the session fails.
SignOutLeaves ==
    cookie = Nobody ~>
        page \in {"sign-in", "forbidden"} \/ cookie # Nobody
            \/ query["me"].failed \/ query["me"].mark = "overtaken"

===============================================================================
