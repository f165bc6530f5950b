------------------------------ MODULE RoomSearch ------------------------------
(***************************************************************************)
(* How a room list is produced: GET /rooms with its filters, and           *)
(* naturalSearch of search.service.ts, which asks Gemini what a sentence   *)
(* means and falls back to keywords.  One request is followed: requests    *)
(* share nothing but the tables, and those change at any time.  The        *)
(* Gemini call is a process of its own, for nothing ends it when the       *)
(* search has been answered.                                               *)
(***************************************************************************)
EXTENDS Integers

CONSTANTS
    Rooms,      \* the Room rows
    Rows,       \* what a row and its confirmed reservations may look like
    Filters,    \* the filters GET /rooms is sent and the readings Gemini gives
    Queries,    \* the searched-for sentences, each as its set of words
    MaxCapacity,\* the largest capacity the column holds, 2^31 - 1
    HasKey,     \* the deployments considered: with a geminiApiKey, without, or both
    Timeout,    \* GEMINI_TIMEOUT_MS, 5 seconds
    Pause,      \* the pause before the retry, 400 ms
    Faults      \* whether queries fail

NoReading == [building |-> "null"]
Any == "any"            \* a building that is not filtered on
Absent == -1            \* no instant; an instant is a natural number
Garbled == -2           \* a text that is no date: Invalid Date
Beyond == -3            \* a date before the years the column holds
Nul == "nul"            \* a text with a NUL in it, which is no PostgreSQL text

ASSUME SearchAssumption ==
    /\ Timeout \in Nat \ {0}
    /\ Pause \in 1 .. Timeout - 1
    /\ HasKey \subseteq BOOLEAN
    /\ Faults \in BOOLEAN
    /\ NoReading \notin Filters
    /\ MaxCapacity \in Nat
    /\ \A r \in Rows :
          /\ r.capacity \in 0 .. MaxCapacity
          /\ \A b \in r.bookings : b.start \in Nat /\ b.end \in Nat /\ b.start < b.end
    /\ \A f \in Filters :
          /\ f.capacity \in Nat
          /\ {f.from, f.to} \subseteq Nat \cup {Absent, Garbled, Beyond}

VARIABLES
    table,     \* the rooms and their confirmed reservations
    phase,     \* what the request waits for
    words,     \* the words of the sentence
    filter,    \* the filter listRooms is called with
    timer,     \* what is left of withTimeout's timer
    gemini,    \* what interpretQuery waits for
    rest,      \* what is left of the pause before its retry
    answer,    \* the response
    elapsed,   \* history: the time since Gemini was asked
    readAt,    \* history: when it was understood
    requests,  \* history: how often it was asked
    broken     \* history: a query failed

vars == <<table, phase, words, filter, timer, gemini, rest, answer,
          elapsed, readAt, requests, broken>>

call == <<timer, gemini, rest, elapsed, readAt, requests>>

NoAnswer == [kind |-> "none", rooms |-> {}, degraded |-> FALSE]
Error == [kind |-> "error", rooms |-> {}, degraded |-> FALSE]
Listed(ms, degraded) == [kind |-> "rooms", rooms |-> ms, degraded |-> degraded]
Never == -1

Init ==
    /\ table \in [Rooms -> Rows]
    /\ phase = "idle"
    /\ words = {}
    /\ filter = NoReading
    /\ timer = 0
    /\ gemini = "over"
    /\ rest = 0
    /\ answer = NoAnswer
    /\ elapsed = 0
    /\ readAt = Never
    /\ requests = 0
    /\ broken = FALSE

-------------------------------------------------------------------------------
(* listRooms. *)

\* Mutant of Meets: only a reservation that covers the whole window counts.
MeetsWhole(booking, f) == booking.start <= f.from /\ booking.end >= f.to

\* The reservation overlaps the window asked for.
Meets(booking, f) == booking.start < f.to /\ booking.end > f.from

HasWindow(f) == f.from # Absent /\ f.to # Absent

\* Prisma and PostgreSQL refuse a value that the column cannot hold.  No schema
\* in front of them does, but for the Invalid Date in the one of GET /rooms.
Refused(f) ==
    \/ HasWindow(f) /\ {Garbled, Beyond} \cap {f.from, f.to} # {}
    \/ f.capacity > MaxCapacity
    \/ Nul \in f.amenities \cup {f.building}

\* The where clause of listRooms.
Offered(f) ==
    {m \in Rooms :
        /\ table[m].capacity >= f.capacity
        /\ f.building \in {Any, table[m].building}
        /\ f.amenities \subseteq table[m].amenities
        /\ HasWindow(f) => \A b \in table[m].bookings : ~ Meets(b, f)}

\* Mutant of Narrowed: a room must seat more than are asked for.
NarrowedStrictly(f) ==
    {m \in Rooms :
        /\ f.capacity # 0 => table[m].capacity > f.capacity
        /\ f.building # Any => table[m].building = f.building
        /\ \A a \in f.amenities : a \in table[m].amenities}

\* RoomsBrowsePage fetches the whole list and filters it itself; without a
\* capacity, a building or amenities it does not look at them.
Narrowed(f) ==
    {m \in Rooms :
        /\ f.capacity # 0 => table[m].capacity >= f.capacity
        /\ f.building # Any => table[m].building = f.building
        /\ \A a \in f.amenities : a \in table[m].amenities}

\* listRoomsQuerySchema: both instants or none, and in their order.
Valid(f) ==
    /\ Garbled \notin {f.from, f.to}
    /\ f.from = Absent <=> f.to = Absent
    /\ HasWindow(f) => f.from < f.to

\* GET /rooms: a query string that is not valid is answered with a 400.
Browse(f) ==
    /\ phase = "idle" /\ gemini = "over"
    /\ Valid(f)
    /\ phase' = "list"
    /\ filter' = f
    /\ words' = {}
    /\ answer' = NoAnswer
    /\ timer' = 0 /\ rest' = 0 /\ elapsed' = 0 /\ requests' = 0
    /\ readAt' = 0
    /\ broken' = FALSE
    /\ UNCHANGED <<table, gemini>>

\* room.findMany of listRooms, for both kinds of request.
List ==
    /\ phase = "list"
    /\ phase' = "idle"
    /\ answer' = IF Refused(filter) THEN Error ELSE Listed(Offered(filter), FALSE)
    /\ UNCHANGED <<table, words, filter, call, broken>>

-------------------------------------------------------------------------------
(* naturalSearch. *)

Search(ws) ==
    /\ phase = "idle" /\ gemini = "over"
    /\ phase' = "vocabulary"
    /\ words' = ws
    /\ filter' = NoReading
    /\ answer' = NoAnswer
    /\ timer' = 0 /\ rest' = 0 /\ elapsed' = 0 /\ requests' = 0
    /\ readAt' = Never
    /\ broken' = FALSE
    /\ UNCHANGED <<table, gemini>>

\* loadSearchVocabulary, then the first request to Gemini.  The vocabulary
\* goes into the prompt and binds nothing.  Without a key there is no request.
LoadVocabulary ==
    /\ phase = "vocabulary"
    /\ \/ /\ TRUE \in HasKey
          /\ phase' = "gemini" /\ timer' = Timeout
          /\ gemini' = "first" /\ requests' = 1
       \/ /\ FALSE \in HasKey
          /\ phase' = "keywords"
          /\ UNCHANGED <<timer, gemini, requests>>
    /\ UNCHANGED <<table, words, filter, rest, answer, elapsed, readAt, broken>>

\* Mutant of Settle: the timer is not consulted, a late reading counts.
SettleLate(reading) ==
    /\ timer' = 0
    /\ filter' = reading
    /\ phase' = IF reading = NoReading THEN "keywords" ELSE "list"

\* interpretQuery returns: withTimeout resolves, unless its timer did before.
Settle(reading) ==
    IF phase = "gemini"
    THEN /\ timer' = 0
         /\ filter' = reading
         /\ phase' = IF reading = NoReading THEN "keywords" ELSE "list"
    ELSE UNCHANGED <<timer, filter, phase>>

\* Gemini answers with a text geminiResultSchema accepts.
Understood(f) ==
    /\ gemini \in {"first", "second"}
    /\ gemini' = "over"
    /\ readAt' = elapsed
    /\ Settle(f)
    /\ UNCHANGED <<table, words, rest, answer, elapsed, requests, broken>>

\* Any other text, and an error that is not retried, end in the catch block.
NotUnderstood ==
    /\ gemini \in {"first", "second"}
    /\ gemini' = "over"
    /\ Settle(NoReading)
    /\ UNCHANGED <<table, words, rest, answer, elapsed, readAt, requests, broken>>

\* Only the first request's 5xx is.
Retried == gemini = "first"

Busy ==
    /\ Retried
    /\ gemini' = "pause"
    /\ rest' = Pause
    /\ UNCHANGED <<table, phase, words, filter, timer, answer,
                   elapsed, readAt, requests, broken>>

\* The pause ends: also when nobody waits for the reading any more.
Retry ==
    /\ gemini = "pause" /\ rest = 0
    /\ gemini' = "second"
    /\ requests' = requests + 1
    /\ UNCHANGED <<table, phase, words, filter, timer, rest, answer,
                   elapsed, readAt, broken>>

\* Mutant of TimerFires: the timeout resolves nothing.
TimerFiresSilently == phase = "gemini" /\ timer = 0 /\ UNCHANGED vars

\* The timer of withTimeout.
TimerFires ==
    /\ phase = "gemini" /\ timer = 0
    /\ phase' = "keywords"
    /\ UNCHANGED <<table, words, filter, call, answer, broken>>

\* keywordSearch: any word in the name or building, or as an amenity.  A word
\* is text as well, and refused with a NUL in it.
Matching ==
    IF words = {} THEN Rooms
    ELSE {m \in Rooms : words \cap (table[m].says \cup table[m].amenities) # {}}

Keywords ==
    /\ phase = "keywords"
    /\ phase' = "idle"
    /\ answer' = IF Nul \in words THEN Error ELSE Listed(Matching, TRUE)
    /\ UNCHANGED <<table, words, filter, call, broken>>

-------------------------------------------------------------------------------
\* A query rejects: the controller passes the error on, which is a 500.
QueryFails ==
    /\ Faults
    /\ phase \in {"vocabulary", "keywords", "list"}
    /\ phase' = "idle"
    /\ answer' = Error
    /\ broken' = TRUE
    /\ UNCHANGED <<table, words, filter, call>>

\* Staff and customers change the tables meanwhile.
Change(m) ==
    /\ \E row \in Rows : row # table[m] /\ table' = [table EXCEPT ![m] = row]
    /\ UNCHANGED <<phase, words, filter, call, answer, broken>>

Passed(ticks) == IF ticks > 0 THEN ticks - 1 ELSE 0

\* Time passes; a timer that is due fires before it does.  The history is
\* counted as far as the properties can tell it apart.
Tick ==
    /\ phase = "gemini" => timer > 0
    /\ gemini = "pause" => rest > 0
    /\ timer' = Passed(timer)
    /\ rest' = Passed(rest)
    /\ elapsed' = IF gemini # "over" /\ elapsed <= Timeout THEN elapsed + 1 ELSE elapsed
    /\ UNCHANGED <<table, phase, words, filter, gemini, answer, readAt, requests, broken>>

Handle == LoadVocabulary \/ List \/ Keywords \/ QueryFails

Next ==
    \/ \E f \in Filters : Browse(f) \/ Understood(f)
    \/ \E ws \in Queries : Search(ws)
    \/ Handle \/ NotUnderstood \/ Busy \/ Retry \/ TimerFires \/ Tick
    \/ \E m \in Rooms : Change(m)

Spec == Init /\ [][Next]_vars

\* Queries come back, the clock runs and Node fires both timers; Gemini owes
\* nothing.
FairSpec ==
    Spec /\ WF_vars(Handle) /\ WF_vars(Tick) /\ WF_vars(TimerFires) /\ WF_vars(Retry)

-------------------------------------------------------------------------------
\* TYPE INVARIANT.  Only a search that waits for Gemini has a timer, only a
\* pause has a rest, and what is listed has a filter.
TypeOK ==
    /\ table \in [Rooms -> Rows]
    /\ phase \in {"idle", "vocabulary", "gemini", "keywords", "list"}
    /\ words \in Queries \cup {{}}
    /\ filter \in Filters \cup {NoReading}
    /\ timer \in 0 .. Timeout
    /\ gemini \in {"over", "first", "pause", "second"}
    /\ rest \in 0 .. Pause
    /\ answer \in [kind : {"none", "rooms", "error"}, rooms : SUBSET Rooms, degraded : BOOLEAN]
    /\ elapsed \in 0 .. Timeout + 1
    /\ readAt \in {Never} \cup 0 .. Timeout + 1
    /\ requests \in Nat
    /\ broken \in BOOLEAN
    /\ phase # "gemini" => timer = 0
    /\ phase = "gemini" => gemini # "over"
    /\ phase = "vocabulary" => gemini = "over"
    /\ phase = "list" => filter \in Filters
    /\ gemini # "pause" => rest = 0

\* The answer admits a fallback exactly when it is one: an answer marked
\* degraded was not understood before the timeout, whatever comes later, and
\* one that is not was understood no later than the timeout.
DegradedTakesTrouble ==
    answer.kind = "rooms" =>
        IF answer.degraded THEN readAt = Never \/ readAt >= Timeout
        ELSE readAt \in 0 .. Timeout

\* A search that finds no reading fails only with its own words, and one that
\* finds a reading only with a value of it that the columns do not hold.  A
\* missing key, a refusal, a text that is no reading and silence fail no search.
FailsOnlyByValues ==
    answer.kind = "error" =>
        broken \/ IF filter = NoReading THEN Nul \in words ELSE Refused(filter)

\* SAFETY.  The answer says what became of the search, however Gemini, its
\* timeout and the retry fall together.
AnswersAreHonest == DegradedTakesTrouble /\ FailsOnlyByValues

\* What api.md and architecture.md promise: whatever Gemini says, a search it
\* was asked for is no 500.  The code breaks it: a reading with a date that is
\* none, or a capacity beyond the column, goes to listRooms as it is.
SearchSurvivesGemini ==
    answer.kind = "error" /\ requests > 0 => broken \/ Nul \in words

\* SAFETY.  One sentence costs two requests to Gemini at most, however the
\* retry, the pause and the timeout fall.
AskedTwiceAtMost == requests <= 2

\* SAFETY.  The rooms page, which filters the whole list in the browser, and
\* GET /rooms, which filters it in the query, choose the same rooms, of a filter
\* that the query takes.
PageFiltersAgree ==
    \A f \in Filters : ~ HasWindow(f) /\ ~ Refused(f) => Narrowed(f) = Offered(f)

\* SAFETY (action).  An answer stands: what Gemini says after it, and the
\* retry made after it, change nothing until the next request.
AnswersStand ==
    [][answer # NoAnswer /\ answer' # answer => answer' = NoAnswer]_answer

Free(m, at) == \A b \in table[m].bookings : at \notin b.start .. b.end - 1

\* SAFETY (action).  When a window is asked for, the rooms offered are free at
\* every instant of it when they are listed, and a room that suits the other
\* filters and is free throughout is among them.  (Gemini may give a window
\* whose end is before its start, which GET /rooms refuses.)
FreeRoomsAreOffered ==
    [][List /\ answer'.kind = "rooms" /\ HasWindow(filter) /\ filter.from < filter.to =>
              answer'.rooms =
                  {m \in Offered([filter EXCEPT !.from = Absent]) :
                      \A at \in filter.from .. filter.to - 1 : Free(m, at)}]_vars

\* LIVENESS.  Every request is answered, also when Gemini never is.
SearchesSettle == phase # "idle" ~> phase = "idle"

===============================================================================
