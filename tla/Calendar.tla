------------------------------- MODULE Calendar -------------------------------
(***************************************************************************)
(* The time rules of SpaceReserve as pure operators.  An instant is an     *)
(* integer (the code's milliseconds since the epoch, at any grain).  The   *)
(* four bounds are the constants at the head of reservations.service.ts.   *)
(***************************************************************************)
EXTENDS Integers

CONSTANTS
    MaxDuration,    \* MAX_DURATION_MS, 4 hours
    MaxAdvance,     \* MAX_ADVANCE_MS, 14 days
    CheckInBefore   \* CHECKIN_WINDOW_BEFORE_MS, 15 minutes

ASSUME CalendarAssumption ==
    /\ MaxDuration \in Nat \ {0}
    /\ MaxAdvance \in Nat \ {0}
    /\ CheckInBefore \in Nat

\* The checks createReservation makes before its first query.
Bookable(now, start, end) ==
    /\ end > start
    /\ start > now
    /\ end - start <= MaxDuration
    /\ start - now <= MaxAdvance

\* The where clause { startTime: { lt: to }, endTime: { gt: from } } of
\* createReservation's transaction and of listRooms, on a row [start, end).
Overlaps(start, end, from, to) == start < to /\ end > from

\* Mutant of ActiveAt: the end of a booking still counts as booked.
ActiveAtItsEnd(start, end, at) == start <= at /\ at <= end

\* The where clause { startTime: { lte: at }, endTime: { gt: at } } of
\* getActiveBookingAt: the row covers the instant `at'.
ActiveAt(start, end, at) == start <= at /\ at < end

\* The window of checkIn, both ends included.
CheckInOpen(now, start, end) == start - CheckInBefore <= now /\ now <= end

===============================================================================
