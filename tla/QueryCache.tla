------------------------------ MODULE QueryCache ------------------------------
(***************************************************************************)
(* One query of React Query as main.tsx and the hooks use it: what the     *)
(* cache holds for a key and the request under way for it.  staleTime is   *)
(* 0 for every key whose component comes and goes, so that mounting it     *)
(* always fetches.  A mark is history: what was read is `behind' a write   *)
(* of the user, or `overtaken' when that write has been acknowledged, or   *)
(* the session has changed, and nothing is to fetch it again.              *)
(***************************************************************************)
EXTENDS Naturals

CONSTANT NoData

Marks == {"fine", "behind", "overtaken"}

\* No request is under way.  `as' is the session it was sent with, `got' what
\* the server answered, `left' the retries left.
NoFetch == [as |-> "nobody asks", got |-> NoData, left |-> 0, mark |-> "fine"]
Request(as, retries) == [as |-> as, got |-> NoData, left |-> retries, mark |-> "fine"]

\* `failed' is the error of the last request; `data' survives it.
Empty == [data |-> NoData, fetch |-> NoFetch, failed |-> FALSE, mark |-> "fine"]

Fetching(q) == q.fetch # NoFetch
Loading(q) == Fetching(q) /\ q.data = NoData

\* What is in the cache is on its way out.
Sent(q, as, retries) == [q EXCEPT !.fetch = Request(as, retries), !.mark = "fine"]

\* A component that uses the key appears: a request under way is shared.
Mounted(q, as, retries) == IF Fetching(q) THEN q ELSE Sent(q, as, retries)

\* invalidateQueries: a key on the screen is fetched again, and a request
\* under way is cancelled for it, but not when it is the first one; a key off
\* the screen is left to its next mount.
Invalidated(q, active, as, retries) ==
    IF active /\ ~ Loading(q) THEN Sent(q, as, retries) ELSE q

\* An acknowledged write that a first request, or one of a key off the screen,
\* was too early for: by the rules of invalidateQueries nothing restarts it.
Overtaken(q, active) ==
    IF (~ active \/ Loading(q)) /\ q.fetch.mark = "behind"
    THEN [q EXCEPT !.fetch.mark = "overtaken"] ELSE q

\* The server has answered with v; the answer is under way.
Served(q, v) == [q EXCEPT !.fetch.got = v]

Arrived(q) == [data |-> q.fetch.got, fetch |-> NoFetch, failed |-> FALSE, mark |-> q.fetch.mark]

\* Mutant of Lost: `retry: true', a failed query is retried for ever.
LostForever(q, as) == [q EXCEPT !.fetch = Request(as, q.fetch.left)]

\* An error: the request is sent again, with the session there is now, or given up.
Lost(q, as) ==
    IF q.fetch.left > 0 THEN [q EXCEPT !.fetch = Request(as, q.fetch.left - 1)]
    ELSE [q EXCEPT !.fetch = NoFetch, !.failed = TRUE, !.mark = "fine"]

\* What is shown is what the last request brought.
Settled(q) == ~ Fetching(q) /\ ~ q.failed /\ q.data # NoData

\* A write is committed: what was read before is behind it.
Behind(q) ==
    [q EXCEPT
        !.mark = IF Settled(q) /\ q.mark = "fine" THEN "behind" ELSE q.mark,
        !.fetch.mark = IF q.fetch.got # NoData /\ q.fetch.mark = "fine" THEN "behind"
                       ELSE q.fetch.mark]

\* The tab will not hear of that write: its answer is lost.
Forgiven(q) ==
    [q EXCEPT !.mark = IF q.mark = "behind" THEN "fine" ELSE q.mark,
              !.fetch.mark = IF q.fetch.mark = "behind" THEN "fine" ELSE q.fetch.mark]

\* The session changes: what another session asked for, or left on the screen.
Foreign(q, active) ==
    [q EXCEPT !.mark = IF active THEN "overtaken" ELSE q.mark,
              !.fetch.mark = IF Fetching(q) THEN "overtaken" ELSE q.fetch.mark]

===============================================================================
