----------------------------- MODULE BookingRaces -----------------------------
(***************************************************************************)
(* What handlers in flight can do to each other, told apart: the races,    *)
(* pairs of requests one of which is about to write what the other has     *)
(* read and goes on with, and two history variables beside those of        *)
(* Booking.  Nothing here decides a step.                                  *)
(***************************************************************************)
EXTENDS Booking

VARIABLES
    raced,   \* history: whether a race has been met
    shut     \* history: the reservations closed already when a request arrived

raceVars == <<vars, raced, shut>>

-------------------------------------------------------------------------------
\* Handlers between the query whose answer they rely on and their write.
Creating(r) == call[r].op = "create" /\ pc[r] \in {"users", "overlap", "write"}
Inviting(r) == call[r].op = "addAttendee" /\ pc[r] \in {"users", "write"}
Closing(r) == call[r].op \in {"cancel", "override"} /\ pc[r] = "write"
Changing(r, m) ==
    call[r].op \in {"updateRoom", "setRoomStatus"} /\ pc[r] = "write" /\ call[r].room = m

\* Two creates that found one room free at overlapping times.
BookRace(r, q) ==
    /\ At(r, "create", "write") /\ At(q, "create", "write")
    /\ call[r].room = call[q].room
    /\ Overlaps(call[r].start, call[r].end, call[q].start, call[q].end)

\* A change of the room a create was let into, or an invitation was measured by.
RoomRace(r, q) == Creating(q) /\ Changing(r, call[q].room)
CapacityRace(r, q) == Inviting(q) /\ Changing(r, resv[call[q].resv].room)

\* A guest about to join a reservation whose people another invitation counted.
InviteRace(r, q) ==
    At(r, "addAttendee", "write") /\ Inviting(q) /\ call[r].resv = call[q].resv

\* Two ends of one reservation, and an end of one that somebody is invited to.
CloseRace(r, q) == Closing(r) /\ Closing(q) /\ call[r].resv = call[q].resv
LateRace(r, q) == Closing(r) /\ Inviting(q) /\ call[r].resv = call[q].resv

NoBookRace == \A r, q \in Reqs : BookRace(r, q) => r = q
NoRoomRace == \A r, q \in Reqs : ~ RoomRace(r, q)
NoCapacityRace == \A r, q \in Reqs : ~ CapacityRace(r, q)
NoInviteRace == \A r, q \in Reqs : InviteRace(r, q) => r = q
NoCloseRace == \A r, q \in Reqs : CloseRace(r, q) => r = q
NoLateRace == \A r, q \in Reqs : ~ LateRace(r, q)

NoRace ==
    /\ NoBookRace /\ NoRoomRace /\ NoCapacityRace
    /\ NoInviteRace /\ NoCloseRace /\ NoLateRace

-------------------------------------------------------------------------------
\* What a request that arrives could have known to be closed.
ShutFor(r) ==
    IF pc[r] \in Free /\ pc'[r] \notin Free THEN Booked \ Confirmed
    ELSE IF pc'[r] \in Free THEN {} ELSE shut[r]

Watch ==
    /\ raced' = (raced \/ ~ NoRace')
    /\ shut' = [r \in Reqs |-> ShutFor(r)]

RaceInit == Init /\ raced = FALSE /\ shut = [r \in Reqs |-> {}]

RaceNext == Next /\ Watch

RaceSpec == RaceInit /\ [][RaceNext]_raceVars

-------------------------------------------------------------------------------
\* SAFETY.  The guard `Reservation is not active', across requests: a request
\* that arrived after a reservation was closed never comes to close it again,
\* to invite to it or to check in, whatever the rows did meanwhile.  So the
\* status of a closed reservation flips, and guests join it, only by handlers
\* that were in flight together with the one that closed it.
ClosedToNewcomers ==
    \A r \in Reqs :
        Closing(r) \/ Inviting(r) \/ At(r, "checkIn", "lookup")
            => call[r].resv \notin shut[r]

\* REFINEMENT.  With any number of handlers in flight, with their faults and
\* crashes, the tables change only as the single steps of the ledger do, for as
\* long as no two of them have met in one of the six races.
LedgerUntilRaced == Desk!Init /\ [][~ raced => Desk!Next]_(Desk!ledger)

===============================================================================
