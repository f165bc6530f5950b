------------------------------ MODULE FinderCircuit ------------------------------
(***************************************************************************)
(* lookupLostItems of finderai.ts: the cache, the timeout and the circuit  *)
(* breaker between check-in and FinderAI.  Lookups run concurrently and    *)
(* share the module's variables.  Time is counted down: a timer holds the  *)
(* ticks it has left, so that no clock has to be bounded.                  *)
(***************************************************************************)
EXTENDS Integers

CONSTANTS
    Rooms,      \* the rooms people check in to
    Lookups,    \* slots: how many lookups can be in flight at once
    Timeout,    \* TIMEOUT_MS, 3 seconds
    Threshold,  \* FAILURE_THRESHOLD, 3
    Cooldown    \* CIRCUIT_COOLDOWN_MS, 60 seconds

ASSUME FinderAssumption ==
    /\ Timeout \in Nat \ {0}
    /\ Threshold \in Nat \ {0}
    /\ Cooldown \in Nat \ {0}

VARIABLES
    pending,   \* the lookups that wait for FinderAI
    left,      \* what is left of each lookup's timeout
    asked,     \* the room each lookup asks about, and whether its `at' is now
    cached,    \* the rooms with a cache entry for the present instant
    failures,  \* consecutiveFailures, as far as the code compares it
    open,      \* what is left of circuitOpenUntil, 0 when it is past
    openFor    \* history: the time since the circuit last went from closed to open

vars == <<pending, left, asked, cached, failures, open, openFor>>

NoRoom == "no room"
NotAsked == [room |-> NoRoom, current |-> FALSE]

Init ==
    /\ pending = {}
    /\ left = [l \in Lookups |-> 0]
    /\ asked = [l \in Lookups |-> NotAsked]
    /\ cached = {}
    /\ failures = 0
    /\ open = 0
    /\ openFor = 0

-------------------------------------------------------------------------------
\* Mutant of LetThrough: the circuit is never consulted.
LetThroughAlways(m) == m \notin cached

\* Neither answered from the cache nor turned away by the open circuit.
LetThrough(m) == m \notin cached /\ open = 0

\* A check-in asks at the present instant.  A hit and an open circuit are
\* answered at once and change nothing.  The entry a hit needs has the same
\* room and the same `at', which checkIn takes from the clock; its time to
\* live is longer than that instant.
Ask(l) ==
    /\ l \notin pending
    /\ \E m \in Rooms :
          /\ LetThrough(m)
          /\ asked' = [asked EXCEPT ![l] = [room |-> m, current |-> TRUE]]
    /\ pending' = pending \cup {l}
    /\ left' = [left EXCEPT ![l] = Timeout]
    /\ UNCHANGED <<cached, failures, open, openFor>>

\* Mutant of Settle: clearTimeout is forgotten.
SettleUncleared(l) ==
    /\ l \in pending
    /\ pending' = pending \ {l}
    /\ asked' = [asked EXCEPT ![l] = NotAsked]
    /\ UNCHANGED left

Settle(l) ==
    /\ l \in pending
    /\ pending' = pending \ {l}
    /\ left' = [left EXCEPT ![l] = 0]
    /\ asked' = [asked EXCEPT ![l] = NotAsked]

\* FinderAI answers in time.  The circuit, when it is open, stays open.
Resolve(l) ==
    /\ Settle(l)
    /\ failures' = 0
    /\ cached' = IF asked[l].current THEN cached \cup {asked[l].room} ELSE cached
    /\ UNCHANGED <<open, openFor>>

\* One more failure; above the threshold the code sees no difference.
Counted == IF failures < Threshold THEN failures + 1 ELSE failures

\* The catch block: a lookup that began before the circuit opened sets
\* circuitOpenUntil again.
CountFailure ==
    /\ failures' = Counted
    /\ open' = IF Counted >= Threshold THEN Cooldown ELSE open
    /\ openFor' = IF open = 0 THEN 0 ELSE openFor
    /\ UNCHANGED cached

\* FinderAI answers with an error.
Reject(l) == Settle(l) /\ CountFailure

\* Mutant of TimedOut: the timer fires and nothing rejects the promise.
TimedOutSilently(l) ==
    /\ l \in pending /\ left[l] = 0
    /\ UNCHANGED vars

\* withTimeout rejects.  What FinderAI answers later settles nothing.
TimedOut(l) ==
    /\ left[l] = 0
    /\ Settle(l)
    /\ CountFailure

Passed(ticks) == IF ticks > 0 THEN ticks - 1 ELSE 0

\* The history is counted as far as the properties can tell it apart.
Longer(ticks) == IF ticks <= Timeout + Cooldown THEN ticks + 1 ELSE ticks

\* Time passes; a timer that is due fires before it does.
Tick ==
    /\ \A l \in pending : left[l] > 0
    /\ left' = [l \in Lookups |-> IF left[l] > 0 THEN left[l] - 1 ELSE 0]
    /\ asked' = [l \in Lookups |-> [room |-> asked[l].room, current |-> FALSE]]
    /\ cached' = {}
    /\ open' = Passed(open)
    /\ openFor' = IF open > 1 THEN Longer(openFor) ELSE 0
    /\ UNCHANGED <<pending, failures>>

Next ==
    \/ \E l \in Lookups : Ask(l) \/ Resolve(l) \/ Reject(l) \/ TimedOut(l)
    \/ Tick

Spec == Init /\ [][Next]_vars

\* The clock runs and Node fires timers; FinderAI owes nothing.
FairSpec == Spec /\ WF_vars(Tick) /\ \A l \in Lookups : WF_vars(TimedOut(l))

-------------------------------------------------------------------------------
\* TYPE INVARIANT.  The counters stay in their ranges and only a pending
\* lookup has a timer and a question.
TypeOK ==
    /\ pending \subseteq Lookups
    /\ left \in [Lookups -> 0 .. Timeout]
    /\ asked \in [Lookups -> [room : Rooms \cup {NoRoom}, current : BOOLEAN]]
    /\ cached \subseteq Rooms
    /\ failures \in 0 .. Threshold
    /\ open \in 0 .. Cooldown
    /\ openFor \in 0 .. Timeout + Cooldown + 1
    /\ \A l \in Lookups : IF l \in pending THEN asked[l].room \in Rooms
                          ELSE asked[l] = NotAsked /\ left[l] = 0

\* SAFETY.  Lookups already in flight when the circuit opens prolong the
\* pause when they fail, but they are gone after one timeout: however many
\* there are, the circuit is never open for longer than both together (the
\* cooldown alone would not be true: each such failure starts it anew).
OpenBounded == open > 0 => openFor + open <= Timeout + Cooldown

\* Why it holds: while the circuit is open, what is in flight began before.
InFlightBefore == open > 0 => \A l \in pending : openFor + left[l] <= Timeout

\* LIVENESS.  An open circuit closes, even when FinderAI never answers again
\* and people go on checking in.
CircuitCloses == open > 0 ~> open = 0

\* LIVENESS.  Every lookup comes back to its check-in, whether or not
\* FinderAI answers.
LookupsSettle == \A l \in Lookups : l \in pending ~> l \notin pending

===============================================================================
