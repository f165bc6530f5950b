-------------------------- MODULE FinderCircuitProofs --------------------------
(***************************************************************************)
(* Proofs about FinderCircuit, for any number of lookups and any timeout,  *)
(* threshold and cooldown.                                                 *)
(***************************************************************************)
EXTENDS FinderCircuit, TLAPS

\* The counters, the timers and the questions keep their types.
THEOREM TypeCorrect == Spec => []TypeOK
<1> USE FinderAssumption
<1>1. Init => TypeOK
  BY DEF Init, TypeOK, NotAsked
<1>2. TypeOK /\ [Next]_vars => TypeOK'
  <2> SUFFICES ASSUME TypeOK, [Next]_vars PROVE TypeOK'
    OBVIOUS
  <2>1. ASSUME NEW l \in Lookups, Ask(l) PROVE TypeOK'
    <3>1. PICK m \in Rooms : asked' = [asked EXCEPT ![l] = [room |-> m, current |-> TRUE]]
      BY <2>1 DEF Ask
    <3>2. [room |-> m, current |-> TRUE] \in [room : Rooms \cup {NoRoom}, current : BOOLEAN]
      OBVIOUS
    <3>3. QED BY <2>1, <3>1, <3>2 DEF Ask, TypeOK
  <2>2. Counted \in 0 .. Threshold
    BY DEF Counted, TypeOK
  <2>3. NotAsked \in [room : Rooms \cup {NoRoom}, current : BOOLEAN]
    BY DEF NotAsked
  <2>4. ASSUME NEW l \in Lookups, Resolve(l) PROVE TypeOK'
    <3>1. asked[l].room \in Rooms
      BY <2>4 DEF Resolve, Settle, TypeOK
    <3>2. cached' \subseteq Rooms
      BY <2>4, <3>1 DEF Resolve, TypeOK
    <3>3. QED BY <2>3, <2>4, <3>2 DEF Resolve, Settle, TypeOK
  <2>5. ASSUME NEW l \in Lookups, Settle(l), CountFailure PROVE TypeOK'
    BY <2>2, <2>3, <2>5 DEF Settle, CountFailure, TypeOK
  <2>6. ASSUME NEW l \in Lookups, Reject(l) \/ TimedOut(l) PROVE TypeOK'
    BY <2>5, <2>6 DEF Reject, TimedOut
  <2>7. CASE Tick
    <3>1. /\ left' \in [Lookups -> 0 .. Timeout]
          /\ \A l \in Lookups : l \notin pending => left'[l] = 0
      BY <2>7 DEF Tick, TypeOK
    <3>2. /\ asked' \in [Lookups -> [room : Rooms \cup {NoRoom}, current : BOOLEAN]]
          /\ \A l \in Lookups : asked'[l].room = asked[l].room
          /\ \A l \in Lookups : asked[l] = NotAsked => asked'[l] = NotAsked
      <4>1. asked' = [l \in Lookups |-> [room |-> asked[l].room, current |-> FALSE]]
        BY <2>7 DEF Tick
      <4>2. ASSUME NEW l \in Lookups
            PROVE  /\ asked'[l] \in [room : Rooms \cup {NoRoom}, current : BOOLEAN]
                   /\ asked'[l].room = asked[l].room
                   /\ asked[l] = NotAsked => asked'[l] = NotAsked
        <5>1. asked'[l] = [room |-> asked[l].room, current |-> FALSE]
          BY <4>1
        <5>2. asked[l].room \in Rooms \cup {NoRoom}
          BY DEF TypeOK
        <5>3. asked'[l] \in [room : Rooms \cup {NoRoom}, current : BOOLEAN]
          BY <5>1, <5>2
        <5>4. asked'[l].room = asked[l].room
          BY <5>1
        <5>5. asked[l] = NotAsked => asked'[l] = NotAsked
          BY <5>1 DEF NotAsked
        <5>6. QED BY <5>3, <5>4, <5>5
      <4>3. asked' \in [Lookups -> [room : Rooms \cup {NoRoom}, current : BOOLEAN]]
        BY <4>1, <4>2
      <4>4. QED BY <4>2, <4>3
    <3>3. /\ open' \in 0 .. Cooldown
          /\ openFor' \in 0 .. Timeout + Cooldown + 1
      BY <2>7 DEF Tick, Passed, Longer, TypeOK
    <3>4. cached' = {} /\ pending' = pending /\ failures' = failures
      BY <2>7 DEF Tick
    <3>5. \A l \in Lookups : IF l \in pending' THEN asked'[l].room \in Rooms
                                               ELSE asked'[l] = NotAsked /\ left'[l] = 0
      BY <3>1, <3>2, <3>4 DEF TypeOK
    <3>6. QED BY <3>1, <3>2, <3>3, <3>4, <3>5 DEF TypeOK
  <2>8. CASE UNCHANGED vars
    BY <2>8 DEF vars, TypeOK
  <2>9. QED
    BY <2>1, <2>4, <2>6, <2>7, <2>8 DEF Next
<1>3. QED BY <1>1, <1>2, PTL DEF Spec

\* What is in flight when the circuit opens is gone after one timeout.
LEMMA BeganBefore == Spec => [](OpenBounded /\ InFlightBefore)
<1> USE FinderAssumption
<1> DEFINE Inv == OpenBounded /\ InFlightBefore
<1>1. Init => Inv
  BY DEF Init, OpenBounded, InFlightBefore
<1>2. TypeOK /\ Inv /\ [Next]_vars => Inv'
  <2> SUFFICES ASSUME TypeOK, Inv, [Next]_vars PROVE Inv'
    OBVIOUS
  <2>1. ASSUME NEW l \in Lookups, Ask(l) PROVE Inv'
    BY <2>1 DEF Ask, LetThrough, OpenBounded, InFlightBefore
  <2>2. ASSUME NEW l \in Lookups, Settle(l)
        PROVE  \A k \in pending' : k \in pending /\ left'[k] = left[k]
    BY <2>2 DEF Settle, TypeOK
  <2>3. ASSUME NEW l \in Lookups, Resolve(l) PROVE Inv'
    BY <2>2, <2>3 DEF Resolve, OpenBounded, InFlightBefore
  <2>4. ASSUME NEW l \in Lookups, Settle(l), CountFailure PROVE Inv'
    <3>1. open' \in {open, Cooldown} /\ openFor' = IF open = 0 THEN 0 ELSE openFor
      BY <2>4 DEF CountFailure
    <3>2. /\ \A k \in Lookups : left[k] \in 0 .. Timeout
          /\ open \in Int /\ openFor \in Int /\ Timeout \in Nat /\ Cooldown \in Nat
      BY DEF TypeOK
    <3>3. CASE open = 0
      <4>1. openFor' = 0
        BY <3>1, <3>3
      <4>2. OpenBounded'
        <5>1. CASE open' = open
          BY <3>3, <5>1 DEF OpenBounded
        <5>2. CASE open' = Cooldown
          BY <3>2, <4>1, <5>2 DEF OpenBounded
        <5>3. QED BY <3>1, <5>1, <5>2
      <4>3. InFlightBefore'
        BY <2>2, <2>4, <3>2, <4>1 DEF InFlightBefore, TypeOK
      <4>4. QED BY <4>2, <4>3
    <3>4. CASE open > 0
      <4>1. openFor' = openFor /\ openFor + left[l] <= Timeout
        BY <2>4, <3>1, <3>4 DEF Settle, InFlightBefore
      <4>2. OpenBounded'
        <5>1. left[l] >= 0 /\ openFor <= Timeout
          BY <2>4, <3>2, <4>1 DEF Settle, TypeOK
        <5>2. CASE open' = open
          BY <4>1, <5>2 DEF OpenBounded
        <5>3. CASE open' = Cooldown
          BY <3>2, <4>1, <5>1, <5>3 DEF OpenBounded
        <5>4. QED BY <3>1, <5>2, <5>3
      <4>3. InFlightBefore'
        BY <2>2, <2>4, <3>4, <4>1 DEF InFlightBefore
      <4>4. QED BY <4>2, <4>3
    <3>5. QED BY <3>3, <3>4 DEF TypeOK
  <2>5. ASSUME NEW l \in Lookups, Reject(l) \/ TimedOut(l) PROVE Inv'
    BY <2>4, <2>5 DEF Reject, TimedOut
  <2>6. CASE Tick
    <3>1. /\ open' = Passed(open) /\ pending' = pending
          /\ openFor' = IF open > 1 THEN Longer(openFor) ELSE 0
      BY <2>6 DEF Tick
    <3>2. open \in 0 .. Cooldown /\ openFor \in 0 .. Timeout + Cooldown + 1
      BY DEF TypeOK
    <3>3. open' > 0 => open > 1 /\ open' = open - 1 /\ openFor' \in {openFor, openFor + 1}
      BY <3>1, <3>2 DEF Passed, Longer
    <3>4. \A k \in pending : left'[k] = left[k] - 1 /\ left[k] \in 0 .. Timeout
      BY <2>6 DEF Tick, TypeOK
    <3>5. OpenBounded'
      BY <3>2, <3>3 DEF OpenBounded
    <3>6. InFlightBefore'
      BY <3>1, <3>2, <3>3, <3>4 DEF InFlightBefore
    <3>7. QED BY <3>5, <3>6
  <2>7. CASE UNCHANGED vars
    BY <2>7 DEF vars, OpenBounded, InFlightBefore
  <2>8. QED
    BY <2>1, <2>3, <2>5, <2>6, <2>7 DEF Next
<1>3. QED BY <1>1, <1>2, TypeCorrect, PTL DEF Spec

\* However many lookups fail after the circuit opened, it is open for at most
\* one timeout and one cooldown.
THEOREM PauseIsBounded == Spec => []OpenBounded
BY BeganBefore, PTL

\* Once the circuit has been open for longer than one timeout.
Settled == open > 0 /\ openFor > Timeout

\* Nothing lengthens the pause any more: a step leaves the circuit as it is or
\* takes one tick off what is left.
PauseOnlyShrinks == Settled => open' \in {open, open - 1}

\* A circuit that has been open for longer than one timeout has nothing in
\* flight, so no late failure can start its cooldown anew and from then on only
\* the clock moves it, towards closing: what CircuitCloses needs besides a
\* clock that runs.
THEOREM OpenRunsDown ==
    Spec => [](Settled => pending = {}) /\ [][PauseOnlyShrinks]_vars
<1> USE FinderAssumption
<1>1. TypeOK /\ InFlightBefore => (Settled => pending = {})
  <2> SUFFICES ASSUME TypeOK, InFlightBefore, Settled, NEW l \in pending PROVE FALSE
    OBVIOUS
  <2>1. left[l] \in 0 .. Timeout /\ openFor \in Int /\ Timeout \in Int
    BY DEF TypeOK
  <2>2. openFor + left[l] <= Timeout /\ openFor > Timeout
    BY DEF InFlightBefore, Settled
  <2>3. QED BY <2>1, <2>2
<1>2. TypeOK /\ (Settled => pending = {}) /\ [Next]_vars => [PauseOnlyShrinks]_vars
  <2> SUFFICES ASSUME TypeOK, Settled, pending = {}, Next
               PROVE  open' \in {open, open - 1}
    BY DEF PauseOnlyShrinks
  <2>1. open \in Nat /\ open > 0
    BY DEF TypeOK, Settled
  <2>2. ASSUME NEW l \in Lookups, Ask(l) PROVE FALSE
    BY <2>1, <2>2 DEF Ask, LetThrough
  <2>3. ASSUME NEW l \in Lookups, Resolve(l) \/ Reject(l) \/ TimedOut(l) PROVE FALSE
    BY <2>3 DEF Resolve, Reject, TimedOut, Settle
  <2>4. CASE Tick
    BY <2>1, <2>4 DEF Tick, Passed
  <2>5. QED BY <2>2, <2>3, <2>4 DEF Next
<1>3. QED BY <1>1, <1>2, TypeCorrect, BeganBefore, PTL DEF Spec

===============================================================================
