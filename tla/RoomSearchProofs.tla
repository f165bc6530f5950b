---------------------------- MODULE RoomSearchProofs ----------------------------
(***************************************************************************)
(* Proofs about RoomSearch, for any rooms, reservations, filters and       *)
(* sentences, any timeout and any pause shorter than it.                   *)
(***************************************************************************)
EXTENDS RoomSearch, TLAPS

Answer == [kind : {"none", "rooms", "error"}, rooms : SUBSET Rooms, degraded : BOOLEAN]

\* What a step of the search leaves alone keeps its type; the table always does.
THEOREM TypeCorrect == Spec => []TypeOK
<1>0. /\ Timeout \in Nat /\ Pause \in Nat
      /\ {0, Timeout} \subseteq 0 .. Timeout /\ 0 \in 0 .. Pause /\ 0 \in 0 .. Timeout + 1
      /\ HasKey \subseteq BOOLEAN
  BY SearchAssumption
<1>a. NoAnswer \in Answer
  BY DEF NoAnswer, Answer
<1>1. Init => TypeOK
  <2>1. Init => /\ answer \in Answer /\ table \in [Rooms -> Rows] /\ broken \in BOOLEAN
                /\ words \in Queries \cup {{}} /\ filter \in Filters \cup {NoReading}
    BY <1>a DEF Init
  <2>2. Init => /\ timer \in 0 .. Timeout /\ rest \in 0 .. Pause
                /\ elapsed \in 0 .. Timeout + 1 /\ requests \in Nat
                /\ readAt \in {Never} \cup 0 .. Timeout + 1
    BY <1>0 DEF Init
  <2>3. QED BY <2>1, <2>2 DEF Init, TypeOK, Answer
<1>2. TypeOK /\ [Next]_vars => TypeOK'
  <2> SUFFICES ASSUME TypeOK, [Next]_vars PROVE TypeOK'
    OBVIOUS
  <2> USE <1>0 DEF TypeOK, call, Never
  <2>1. ASSUME NEW f \in Filters, Browse(f) PROVE TypeOK'
    BY <2>1, <1>a DEF Browse, Answer, Valid
  <2>2. ASSUME NEW f \in Filters, Understood(f) PROVE TypeOK'
    BY <2>2 DEF Understood, Settle
  <2>3. ASSUME NEW ws \in Queries, Search(ws) PROVE TypeOK'
    BY <2>3, <1>a DEF Search, Answer
  <2>4. CASE LoadVocabulary
    <3>1. \/ phase' = "gemini" /\ timer' = Timeout /\ gemini' = "first" /\ requests' = 1
          \/ phase' = "keywords" /\ UNCHANGED <<timer, gemini, requests>>
      BY <2>4, Zenon DEF LoadVocabulary
    <3>2. phase = "vocabulary" /\ UNCHANGED <<table, words, filter, rest, answer, elapsed,
                                            readAt, broken>>
      BY <2>4, Zenon DEF LoadVocabulary
    <3>3. QED BY <3>1, <3>2
  <2>5. CASE List
    <3>1. \A ms \in SUBSET Rooms, d \in BOOLEAN : Listed(ms, d) \in Answer
      BY DEF Listed, Answer
    <3>2. Offered(filter) \in SUBSET Rooms /\ Error \in Answer
      BY DEF Offered, Error, Answer
    <3>3. answer' \in Answer
      BY <2>5, <3>1, <3>2 DEF List
    <3>4. QED BY <2>5, <3>3 DEF List, Answer
  <2>6. CASE Keywords
    <3>1. Matching \in SUBSET Rooms /\ Error \in Answer
      BY DEF Matching, Error, Answer
    <3>2. answer' \in Answer
      BY <2>6, <3>1 DEF Keywords, Listed, Answer
    <3>3. QED BY <2>6, <3>2 DEF Keywords, Answer
  <2>7. CASE QueryFails
    BY <2>7 DEF QueryFails, Error
  <2>8. CASE NotUnderstood
    BY <2>8 DEF NotUnderstood, Settle
  <2>9. CASE Busy
    BY <2>9 DEF Busy, Retried
  <2>10. CASE Retry
    BY <2>10 DEF Retry
  <2>11. CASE TimerFires
    BY <2>11 DEF TimerFires
  <2>12. CASE Tick
    BY <2>12 DEF Tick, Passed
  <2>13. ASSUME NEW m \in Rooms, Change(m) PROVE TypeOK'
    BY <2>13 DEF Change
  <2>14. CASE UNCHANGED vars
    BY <2>14 DEF vars
  <2>15. QED
    BY <2>1, <2>2, <2>3, <2>4, <2>5, <2>6, <2>7, <2>8, <2>9, <2>10, <2>11,
       <2>12, <2>13, <2>14 DEF Next, Handle
<1>3. QED
  BY <1>1, <1>2, PTL DEF Spec

\* SAFETY.  A room is offered for a window exactly when none of its confirmed
\* reservations holds an instant of it: touching at an end is no overlap, and
\* the two comparisons of listRooms miss none.
THEOREM WindowsAreExact ==
    ASSUME NEW f \in Filters, f.from \in Nat, f.to \in Nat, f.from < f.to,
           NEW r \in Rows, NEW b \in r.bookings
    PROVE  Meets(b, f) <=> \E at \in f.from .. f.to - 1 : at \in b.start .. b.end - 1
<1> USE SearchAssumption
<1>1. b.start \in Nat /\ b.end \in Nat /\ b.start < b.end
  OBVIOUS
<1>2. ASSUME Meets(b, f)
      PROVE  \E at \in f.from .. f.to - 1 : at \in b.start .. b.end - 1
  <2>1. CASE b.start <= f.from
    <3>1. f.from \in f.from .. f.to - 1 /\ f.from \in b.start .. b.end - 1
      BY <1>1, <1>2, <2>1 DEF Meets
    <3>2. QED BY <3>1
  <2>2. CASE b.start > f.from
    <3>1. b.start \in f.from .. f.to - 1 /\ b.start \in b.start .. b.end - 1
      BY <1>1, <1>2, <2>2 DEF Meets
    <3>2. QED BY <3>1
  <2>3. QED BY <1>1, <2>1, <2>2
<1>3. ASSUME NEW at \in f.from .. f.to - 1, at \in b.start .. b.end - 1
      PROVE  Meets(b, f)
  BY <1>1, <1>3 DEF Meets
<1>4. QED BY <1>2, <1>3

\* What is listed for a window of a filter with its instants in their order.
LEMMA OfferedForWindow ==
    ASSUME TypeOK, NEW f \in Filters, HasWindow(f), f.from \in Nat, f.to \in Nat,
           f.from < f.to
    PROVE  Offered(f) =
              {m \in Offered([f EXCEPT !.from = Absent]) :
                  \A at \in f.from .. f.to - 1 : Free(m, at)}
<1> DEFINE g == [f EXCEPT !.from = Absent]
<1>1. ~ HasWindow(g)
  BY DEF HasWindow, Absent
<1>2. /\ g.capacity = f.capacity /\ g.building = f.building
      /\ g.amenities = f.amenities
  OBVIOUS
<1>3. ASSUME NEW m \in Rooms
      PROVE  (\A b \in table[m].bookings : ~ Meets(b, f))
                <=> \A at \in f.from .. f.to - 1 : Free(m, at)
  <2>1. table[m] \in Rows
    BY DEF TypeOK
  <2>2. \A b \in table[m].bookings :
           Meets(b, f) <=> \E at \in f.from .. f.to - 1 : at \in b.start .. b.end - 1
    BY <2>1, WindowsAreExact
  <2>3. QED BY <2>2 DEF Free
<1> HIDE DEF g
<1>4. QED BY <1>1, <1>2, <1>3 DEF Offered, g

\* SAFETY (action).  FreeRoomsAreOffered, for any reservations and any window.
THEOREM FreeRoomsOffered == Spec => FreeRoomsAreOffered
<1>1. TypeOK /\ [Next]_vars =>
         [List /\ answer'.kind = "rooms" /\ HasWindow(filter) /\ filter.from < filter.to =>
              answer'.rooms =
                  {m \in Offered([filter EXCEPT !.from = Absent]) :
                      \A at \in filter.from .. filter.to - 1 : Free(m, at)}]_vars
  <2> SUFFICES ASSUME TypeOK, List, answer'.kind = "rooms", HasWindow(filter),
                      filter.from < filter.to
               PROVE  answer'.rooms =
                         {m \in Offered([filter EXCEPT !.from = Absent]) :
                             \A at \in filter.from .. filter.to - 1 : Free(m, at)}
    OBVIOUS
  <2>1. filter \in Filters
    BY DEF List, TypeOK
  <2>2. ~ Refused(filter) /\ answer'.rooms = Offered(filter)
    BY DEF List, Listed, Error
  <2>3. filter.from \in Nat /\ filter.to \in Nat
    <3>1. {filter.from, filter.to} \subseteq Nat \cup {Absent, Garbled, Beyond}
      BY <2>1, SearchAssumption
    <3>2. {filter.from, filter.to} \cap {Absent, Garbled, Beyond} = {}
      BY <2>2 DEF Refused, HasWindow
    <3>3. QED BY <3>1, <3>2
  <2>4. QED BY <2>1, <2>2, <2>3, OfferedForWindow
<1>2. QED
  BY <1>1, TypeCorrect, PTL DEF Spec, FreeRoomsAreOffered

\* SAFETY.  The rooms page and GET /rooms choose the same rooms, whatever the
\* capacities, buildings and amenities are.
THEOREM PageFiltersSame == Spec => []PageFiltersAgree
<1>1. TypeOK => PageFiltersAgree
  <2> SUFFICES ASSUME TypeOK, NEW f \in Filters, ~ HasWindow(f), ~ Refused(f), NEW m \in Rooms
               PROVE  m \in Narrowed(f) <=> m \in Offered(f)
    BY DEF PageFiltersAgree, Narrowed, Offered
  <2>1. table[m].capacity \in Nat /\ f.capacity \in Nat
    <3>1. table[m].capacity \in 0 .. MaxCapacity /\ MaxCapacity \in Nat
      BY SearchAssumption DEF TypeOK
    <3>2. QED BY <3>1, SearchAssumption
  <2>2. (f.capacity # 0 => table[m].capacity >= f.capacity) <=> table[m].capacity >= f.capacity
    BY <2>1
  <2>3. (f.building # Any => table[m].building = f.building)
           <=> f.building \in {Any, table[m].building}
    OBVIOUS
  <2>4. (\A a \in f.amenities : a \in table[m].amenities)
           <=> f.amenities \subseteq table[m].amenities
    OBVIOUS
  <2>5. QED BY <2>2, <2>3, <2>4 DEF Narrowed, Offered
<1>2. QED BY <1>1, TypeCorrect, PTL

-------------------------------------------------------------------------------
\* The strengthening the two rules about Gemini need: how far the timer of the
\* search and the history have come, for each thing the two processes wait for.
InTime ==
    /\ phase = "vocabulary" => elapsed = 0 /\ requests = 0 /\ gemini = "over" /\ readAt = Never
    /\ phase = "gemini" => timer + elapsed = Timeout /\ readAt = Never
    /\ phase = "list" => readAt \in 0 .. Timeout /\ gemini = "over"
    /\ phase = "keywords" => readAt = Never \/ readAt >= Timeout
    /\ phase \in {"vocabulary", "gemini", "keywords"} => filter = NoReading
    /\ gemini # "over" => readAt = Never
    /\ gemini # "over" /\ phase # "gemini" => elapsed >= Timeout
    /\ gemini \in {"first", "pause"} => requests <= 1

Answered == phase # "idle" => answer = NoAnswer

\* A reading that was not degraded leaves no call to Gemini behind.
Undegraded == answer.kind = "rooms" /\ ~ answer.degraded => gemini = "over"

SearchInv ==
    TypeOK /\ InTime /\ Answered /\ Undegraded /\ DegradedTakesTrouble /\ AskedTwiceAtMost

\* The same, step by step; each action leaves most of it alone.
LEMMA SearchInvariant == Spec => []SearchInv
<1> USE SearchAssumption DEF Never
<1>1. Init => InTime /\ Answered /\ Undegraded /\ DegradedTakesTrouble /\ AskedTwiceAtMost
  BY DEF Init, InTime, Answered, Undegraded, DegradedTakesTrouble, AskedTwiceAtMost, NoAnswer
<1>2. SearchInv /\ TypeOK' /\ [Next]_vars =>
         InTime' /\ Answered' /\ Undegraded' /\ DegradedTakesTrouble' /\ AskedTwiceAtMost'
  <2> DEFINE Rest == InTime /\ Answered /\ Undegraded /\ DegradedTakesTrouble /\ AskedTwiceAtMost
  <2> SUFFICES ASSUME SearchInv, TypeOK', [Next]_vars PROVE Rest'
    OBVIOUS
  <2>0. TypeOK /\ Rest
    BY DEF SearchInv
  <2> USE DEF InTime, Answered, Undegraded, DegradedTakesTrouble, AskedTwiceAtMost, call
  <2>1. ASSUME NEW f \in Filters, Browse(f) PROVE Rest'
    BY <2>0, <2>1 DEF Browse, NoAnswer
  <2>2. ASSUME NEW f \in Filters, Understood(f) PROVE Rest'
    <3>1. phase = "gemini" => readAt' \in 0 .. Timeout
      BY <2>0, <2>2 DEF Understood, TypeOK
    <3>2. phase # "gemini" => readAt' >= Timeout
      BY <2>0, <2>2 DEF Understood
    <3>3. answer' = answer /\ requests' = requests /\ elapsed' = elapsed /\ gemini' = "over"
      BY <2>2 DEF Understood
    <3>4. CASE phase = "gemini"
      <4>1. phase' \in {"keywords", "list"} /\ answer' = NoAnswer
        BY <2>0, <2>2, <3>3, <3>4 DEF Understood, Settle
      <4>2. filter' # NoReading /\ phase' = "list"
        BY <2>2, <3>4 DEF Understood, Settle
      <4>3. QED BY <2>0, <3>1, <3>3, <3>4, <4>1, <4>2 DEF NoAnswer
    <3>5. CASE phase # "gemini"
      <4>1. phase' = phase /\ gemini # "over"
        BY <2>2, <3>5 DEF Understood, Settle
      <4>2. filter' = filter
        BY <2>2, <3>5 DEF Understood, Settle
      <4>3. QED BY <2>0, <3>2, <3>3, <3>5, <4>1, <4>2
    <3>6. QED BY <3>4, <3>5
  <2>3. ASSUME NEW ws \in Queries, Search(ws) PROVE Rest'
    BY <2>0, <2>3 DEF Search, NoAnswer
  <2>4. CASE LoadVocabulary
    <3>1. answer' = NoAnswer /\ elapsed' = 0 /\ readAt' = Never
      BY <2>0, <2>4 DEF LoadVocabulary
    <3>2. filter' = NoReading
      BY <2>0, <2>4 DEF LoadVocabulary
    <3>3. CASE phase' = "gemini"
      BY <2>4, <3>1, <3>2, <3>3 DEF LoadVocabulary, NoAnswer
    <3>4. CASE phase' = "keywords"
      BY <2>0, <2>4, <3>1, <3>2, <3>4 DEF LoadVocabulary, NoAnswer
    <3>5. QED BY <2>4, <3>3, <3>4 DEF LoadVocabulary
  <2>5. CASE List
    BY <2>0, <2>5 DEF List, Error, Listed, TypeOK
  <2>6. CASE Keywords
    BY <2>0, <2>6 DEF Keywords, Error, Listed, TypeOK
  <2>7. CASE QueryFails
    BY <2>0, <2>7 DEF QueryFails, Error, TypeOK
  <2>8. CASE NotUnderstood
    BY <2>0, <2>8 DEF NotUnderstood, Settle, TypeOK, NoAnswer
  <2>9. CASE Busy
    BY <2>0, <2>9 DEF Busy, Retried, NoAnswer
  <2>10. CASE Retry
    BY <2>0, <2>10 DEF Retry, TypeOK, NoAnswer
  <2>11. CASE TimerFires
    BY <2>0, <2>11 DEF TimerFires, TypeOK, NoAnswer
  <2>12. CASE Tick
    BY <2>0, <2>12 DEF Tick, Passed, TypeOK
  <2>13. ASSUME NEW m \in Rooms, Change(m) PROVE Rest'
    BY <2>0, <2>13 DEF Change
  <2>14. CASE UNCHANGED vars
    BY <2>0, <2>14 DEF vars
  <2>15. QED
    BY <2>1, <2>2, <2>3, <2>4, <2>5, <2>6, <2>7, <2>8, <2>9, <2>10, <2>11,
       <2>12, <2>13, <2>14 DEF Next, Handle
<1>3. QED
  BY <1>1, <1>2, TypeCorrect, PTL DEF Spec, SearchInv

\* DegradedTakesTrouble, for any timeout and any pause shorter than it.
LEMMA DegradedJustified == Spec => []DegradedTakesTrouble
BY SearchInvariant, PTL DEF SearchInv

\* SAFETY.  AskedTwiceAtMost: the pause and the timeout fall in any order.
THEOREM AskedTwice == Spec => []AskedTwiceAtMost
BY SearchInvariant, PTL DEF SearchInv

\* SAFETY (action).  AnswersStand: every step that gives an answer is one of a
\* request that has none yet.
THEOREM AnswersAreFinal == Spec => AnswersStand
<1>1. SearchInv /\ [Next]_vars =>
         [answer # NoAnswer /\ answer' # answer => answer' = NoAnswer]_answer
  <2> SUFFICES ASSUME SearchInv, Next, answer # NoAnswer, answer' # answer
               PROVE  answer' = NoAnswer
    BY DEF vars
  <2>1. phase = "idle"
    BY DEF SearchInv, Answered
  <2>2. QED
    BY <2>1 DEF Next, Handle, Browse, Understood, Search, LoadVocabulary, List, Keywords,
       QueryFails, NotUnderstood, Busy, Retry, TimerFires, Tick, Change
<1>2. QED
  BY <1>1, SearchInvariant, PTL DEF Spec, AnswersStand

-------------------------------------------------------------------------------
\* FailsOnlyByValues: the two steps that answer with an error say why, and the
\* reason stays until the next request.
LEMMA FailuresAreValues == Spec => []FailsOnlyByValues
<1>1. Init => FailsOnlyByValues
  BY DEF Init, FailsOnlyByValues, NoAnswer
<1>2. SearchInv /\ FailsOnlyByValues /\ [Next]_vars => FailsOnlyByValues'
  <2> SUFFICES ASSUME SearchInv, FailsOnlyByValues, [Next]_vars PROVE FailsOnlyByValues'
    OBVIOUS
  <2> USE DEF FailsOnlyByValues
  <2>1. phase # "idle" => answer = NoAnswer
    BY DEF SearchInv, Answered
  <2>2. CASE answer' = NoAnswer
    BY <2>2 DEF NoAnswer
  <2>3. CASE List
    BY <2>3, SearchAssumption DEF List, Listed, SearchInv, TypeOK
  <2>4. CASE Keywords
    <3>1. filter = NoReading
      BY <2>4 DEF SearchInv, InTime, Keywords
    <3>2. QED BY <2>4, <3>1 DEF Keywords, Listed
  <2>5. CASE QueryFails
    BY <2>5 DEF QueryFails
  <2>6. CASE UNCHANGED <<answer, filter, broken, words>>
    BY <2>6
  <2>7. ASSUME ~ UNCHANGED <<answer, filter, broken, words>>, answer' # NoAnswer
        PROVE  List \/ Keywords \/ QueryFails
    BY <2>1, <2>7 DEF Next, Handle, Browse, Understood, Search, LoadVocabulary, Settle,
       NotUnderstood, Busy, Retry, TimerFires, Tick, Change, call, vars
  <2>8. QED BY <2>2, <2>3, <2>4, <2>5, <2>6, <2>7
<1>3. QED
  BY <1>1, <1>2, SearchInvariant, PTL DEF Spec

\* SAFETY.  AnswersAreHonest: what each kind of answer says of the search behind
\* it, for any timeout, any pause, any readings and any sentences.
THEOREM AnswersHonest == Spec => []AnswersAreHonest
BY DegradedJustified, FailuresAreValues, PTL DEF AnswersAreHonest

-------------------------------------------------------------------------------
(* Requests come to an end. *)

\* What a request still has to go through: the timer of withTimeout, and two
\* queries.
Steps ==
    CASE phase = "vocabulary" -> Timeout + 3
      [] phase = "gemini"     -> timer + 2
      [] phase = "list"       -> 1
      [] phase = "keywords"   -> 1
      [] phase = "idle"       -> 0

\* Every step of a request, and every tick while it waits for Gemini, brings
\* it nearer to its answer, and nothing takes it away from it: not a late
\* reading, a retry or a change of the tables.
SearchAdvances ==
    [][phase # "idle" =>
          \/ Steps' < Steps
          \/ Steps' = Steps /\ UNCHANGED <<phase, timer>> /\ ~ Handle /\ ~ TimerFires]_vars

LEMMA StepsAre ==
    ASSUME TypeOK
    PROVE  /\ phase = "vocabulary" => Steps = Timeout + 3
           /\ phase = "gemini" => Steps = timer + 2 /\ timer \in 0 .. Timeout
           /\ phase \in {"list", "keywords"} => Steps = 1
           /\ phase = "idle" => Steps = 0
           /\ Timeout \in Nat
BY SearchAssumption DEF Steps, TypeOK

\* SearchesSettle, without its fairness: a request is answered within
\* GEMINI_TIMEOUT_MS of asking Gemini and three steps of its own, whatever
\* Gemini, the retry and the tables do.
THEOREM SearchesAdvance == Spec => SearchAdvances /\ [](Steps <= Timeout + 3)
<1>1. ASSUME TypeOK, TypeOK', [Next]_vars, phase # "idle"
      PROVE  \/ Steps' < Steps
             \/ Steps' = Steps /\ UNCHANGED <<phase, timer>> /\ ~ Handle /\ ~ TimerFires
  <2> DEFINE Goal == \/ Steps' < Steps
                     \/ Steps' = Steps /\ UNCHANGED <<phase, timer>> /\ ~ Handle /\ ~ TimerFires
  <2>0. /\ phase' = "gemini" => Steps' = timer' + 2 /\ timer' \in 0 .. Timeout
        /\ phase' \in {"list", "keywords"} => Steps' = 1
        /\ phase' = "idle" => Steps' = 0
    BY <1>1, SearchAssumption DEF Steps, TypeOK
  <2> HIDE DEF Goal
  <2>1. CASE LoadVocabulary
    <3>1. phase = "vocabulary" /\ phase' \in {"gemini", "keywords"}
      BY <2>1 DEF LoadVocabulary
    <3>2. QED BY <1>1, <2>0, <3>1, StepsAre DEF Goal
  <2>2. CASE List \/ Keywords \/ QueryFails
    <3>1. phase \in {"vocabulary", "list", "keywords"} /\ phase' = "idle"
      BY <2>2 DEF List, Keywords, QueryFails
    <3>2. QED BY <1>1, <2>0, <3>1, StepsAre DEF Goal
  <2>3. CASE TimerFires
    <3>1. phase = "gemini" /\ phase' = "keywords"
      BY <2>3 DEF TimerFires
    <3>2. QED BY <1>1, <2>0, <3>1, StepsAre DEF Goal
  <2>4. CASE Handle \/ TimerFires
    BY <2>1, <2>2, <2>3, <2>4 DEF Handle
  <2>5. CASE UNCHANGED <<phase, timer>> /\ ~ Handle /\ ~ TimerFires
    BY <2>5 DEF Goal, Steps
  <2>6. CASE NotUnderstood \/ \E f \in Filters : Understood(f)
    <3>1. CASE phase = "gemini"
      <4>1. phase' \in {"list", "keywords"}
        BY <2>6, <3>1 DEF NotUnderstood, Understood, Settle
      <4>2. QED BY <1>1, <2>0, <3>1, <4>1, StepsAre DEF Goal
    <3>2. CASE phase # "gemini"
      BY <2>4, <2>5, <2>6, <3>2 DEF NotUnderstood, Understood, Settle
    <3>3. QED BY <3>1, <3>2
  <2>7. CASE Tick
    <3>1. phase' = phase /\ timer' = Passed(timer) /\ (phase = "gemini" => timer > 0)
      BY <2>7 DEF Tick
    <3>2. CASE phase = "gemini"
      <4>1. timer \in 0 .. Timeout /\ Timeout \in Nat
        BY <1>1, <3>2, StepsAre
      <4>2. timer' < timer /\ timer' \in Nat
        BY <3>1, <3>2, <4>1 DEF Passed
      <4>3. QED BY <1>1, <2>0, <3>1, <3>2, <4>1, <4>2, StepsAre DEF Goal
    <3>3. CASE phase # "gemini"
      <4>1. timer = 0
        BY <1>1, <3>3 DEF TypeOK
      <4>2. timer' = timer
        BY <3>1, <4>1 DEF Passed
      <4>3. QED BY <2>4, <2>5, <3>1, <4>2
    <3>4. QED BY <3>2, <3>3
  <2>8. CASE Busy \/ Retry \/ \E m \in Rooms : Change(m)
    BY <2>4, <2>5, <2>8 DEF Busy, Retry, Change, call
  <2>9. CASE (\E f \in Filters : Browse(f)) \/ \E ws \in Queries : Search(ws)
    BY <1>1, <2>9 DEF Browse, Search
  <2>10. CASE UNCHANGED vars
    BY <2>4, <2>5, <2>10 DEF vars
  <2>11. QED
    BY <1>1, <2>4, <2>6, <2>7, <2>8, <2>9, <2>10 DEF Next, Goal
<1>2. TypeOK => Steps <= Timeout + 3
  <2> SUFFICES ASSUME TypeOK PROVE Steps <= Timeout + 3
    OBVIOUS
  <2>1. phase \in {"idle", "vocabulary", "gemini", "keywords", "list"}
    BY DEF TypeOK
  <2>2. QED BY <2>1, StepsAre
<1>3. TypeOK /\ TypeOK' /\ [Next]_vars =>
         [phase # "idle" =>
             \/ Steps' < Steps
             \/ Steps' = Steps /\ UNCHANGED <<phase, timer>> /\ ~ Handle /\ ~ TimerFires]_vars
  BY <1>1
<1>4. QED BY <1>2, <1>3, TypeCorrect, PTL DEF Spec, SearchAdvances

===============================================================================
