-------------------------------- MODULE Booking --------------------------------
(***************************************************************************)
(* The booking service: any number of requests, as many in flight at a     *)
(* time as there are slots, over one database, with database errors and    *)
(* crashes of the process.                                                 *)
(***************************************************************************)
EXTENDS Reservations, RoomAdmin

Init ==
    /\ now = 0
    /\ room \in [Rooms -> {NoRoom} \cup [status : {"AVAILABLE"}, cap : Capacities]]
    /\ resv = [b \in Resvs |-> NoResv]
    /\ audit = {}
    /\ mail = {}
    /\ pc = [r \in Reqs |-> "idle"]
    /\ call = [r \in Reqs |-> NoCall]
    /\ seats = [r \in Reqs |-> NoSeats]
    /\ made = [r \in Reqs |-> NoId]
    /\ snap = [r \in Reqs |-> {}]
    /\ seen = [b \in Resvs |-> {}]
    /\ peak = [m \in Rooms |-> room[m].cap]
    /\ dropped = {}

-------------------------------------------------------------------------------
\* What the middleware and the first lines of the service let through:
\* requireRole on the staff routes, the time rules on a new reservation.
Admissible(c) ==
    /\ c.op \in StaffOps => IsStaff(c.actor)
    /\ c.op = "create" => Bookable(now, c.start, c.end)

\* A bound of the model, not of the code: no request is let in that could
\* run out of fresh ids.
PoolLeft(c) ==
    /\ c.op = "create" =>
          Cardinality({r \in Reqs : call[r].op = "create" /\ made[r] = NoId})
            < Cardinality(Resvs \ Booked)
    /\ c.op = "createRoom" =>
          Cardinality({r \in Reqs : call[r].op = "createRoom" /\ pc[r] = "write"})
            < Cardinality({m \in Rooms : room[m].status = "unborn"})

FirstLabel(op) == IF op = "createRoom" THEN "write" ELSE "find"

\* A request arrives at a free slot and reaches its first query.
Arrive(r) ==
    /\ pc[r] \in Free
    /\ \E c \in Calls :
          /\ c.op \in Ops
          /\ c.op = "createRoom" => c.room = NoId
          /\ Admissible(c)
          /\ PoolLeft(c)
          /\ call' = [call EXCEPT ![r] = c]
          /\ Goto(r, FirstLabel(c.op))
    /\ UNCHANGED <<now, store, seats, made, snap, history>>

\* A request is refused before it reads anything.
TurnAway(r) ==
    /\ pc[r] \in Free
    /\ \E c \in Calls : c.op \in Ops /\ ~ Admissible(c)
    /\ Answer(r, "refused")
    /\ UNCHANGED <<now, store, history>>

\* writeAuditLog, awaited after the change it records.
WriteAudit(r) ==
    /\ pc[r] = "audit"
    /\ audit' = audit \cup {Entry(call[r])}
    /\ \/ call[r].op \in RoomOps /\ Answer(r, "ok")
       \/ call[r].op \notin RoomOps /\ Proceed(r, "mail")
    /\ UNCHANGED <<now, room, resv, mail, history>>

\* A query fails: a lost connection, a timed out transaction, the unique
\* index on Room.name.  Nothing is written and the client gets a 500.
DbFails(r) ==
    /\ Faults
    /\ pc[r] \in DbLabels
    /\ dropped' = dropped \cup {Entry(call[q]) : q \in {p \in {r} : pc[p] = "audit"}}
    /\ Answer(r, "error")
    /\ UNCHANGED <<now, store, seen, peak>>

\* The process dies and starts again: the requests in flight are gone, the
\* tables stay.
Crash ==
    /\ Faults
    /\ pc' = [r \in Reqs |-> "idle"]
    /\ call' = [r \in Reqs |-> NoCall]
    /\ seats' = [r \in Reqs |-> NoSeats]
    /\ made' = [r \in Reqs |-> NoId]
    /\ snap' = [r \in Reqs |-> {}]
    /\ dropped' = dropped \cup Owed
    /\ UNCHANGED <<now, store, seen, peak>>

Tick ==
    /\ now < Horizon
    /\ now' = now + 1
    /\ UNCHANGED <<store, pc, locals, history>>

-------------------------------------------------------------------------------
\* The steps a request takes without waiting on SendGrid.
Work(r) == ReservationStep(r) \/ RoomStep(r) \/ WriteAudit(r)

Next ==
    \/ \E r \in Reqs : Arrive(r) \/ TurnAway(r) \/ Work(r) \/ SendMail(r) \/ DbFails(r)
    \/ Crash
    \/ Tick

Spec == Init /\ [][Next]_vars

\* Node resumes a handler whose query was answered, and PostgreSQL answers.
\* SendGrid owes nothing: send() sets no timeout.  No client has to come back,
\* no fault has to happen.
FairSpec == Spec /\ \A r \in Reqs : WF_vars(Work(r))

-------------------------------------------------------------------------------
TablesOK ==
    /\ now \in 0 .. Horizon
    /\ room \in [Rooms -> RoomRow]
    /\ resv \in [Resvs -> ResvRow \cup {NoResv}]

\* What a request has checked before the query it waits for.
CheckedOK(r) ==
    /\ call[r].op = "create" /\ pc[r] \in {"overlap", "write"}
            => GuestsOf(call[r]) \subseteq Users
    /\ At(r, "addAttendee", "write") => call[r].user \in Users
    /\ call[r].op \in ResvOps /\ pc[r] # "find" => call[r].resv \in Booked
    /\ At(r, "create", "mail") => made[r] \in Booked
    /\ pc[r] = "audit" => call[r].op \in AuditedOps
    /\ pc[r] = "mail" => call[r].op \in {"create", "cancel", "override"}

RequestsOK ==
    /\ pc \in [Reqs -> Free \cup Labels]
    /\ call \in [Reqs -> Calls \cup {NoCall}]
    /\ seats \in [Reqs -> [people : Nat, cap : Nat]]
    /\ made \in [Reqs -> Resvs \cup {NoId}]
    /\ snap \in [Reqs -> SUBSET Resvs]
    /\ \A r \in Reqs : (pc[r] \in Free <=> call[r] = NoCall) /\ CheckedOK(r)

HistoryOK ==
    /\ seen \in [Resvs -> SUBSET Resvs]
    /\ peak \in [Rooms -> Nat]

\* TYPE INVARIANT.  The tables hold rows of the schema; a request that waits
\* for a query still holds its input, and what it checked before that query
\* still holds.
TypeOK == TablesOK /\ RequestsOK /\ HistoryOK

\* Two confirmed reservations of one room that share an instant.
DoubleBooked(a, b) ==
    /\ a # b
    /\ {a, b} \subseteq Confirmed
    /\ resv[a].room = resv[b].room
    /\ Overlaps(resv[a].start, resv[a].end, resv[b].start, resv[b].end)

\* SAFETY.  Rule 1 of the service: no two CONFIRMED reservations of a room
\* overlap.  Two creates in flight together break it.
NoDoubleBooking == \A a, b \in Resvs : ~ DoubleBooked(a, b)

\* SAFETY.  What the overlap query of createReservation guarantees however
\* requests interleave: it never misses a reservation that was committed when
\* it ran.  A double booking needs two creates neither of which saw the other.
DoubleBookingNeedsRace ==
    \A a, b \in Resvs : DoubleBooked(a, b) => a \notin seen[b] /\ b \notin seen[a]

\* Why it holds: a create about to insert clashes with nothing it saw, and no
\* reservation is double booked with one its own create saw.
SnapOK ==
    \A r \in Reqs :
        /\ snap[r] \subseteq Booked
        /\ At(r, "create", "write") => \A a \in snap[r] : ~ Clash(a, call[r])

SeenOK ==
    \A b \in Resvs : seen[b] \subseteq Booked /\ \A a \in seen[b] : ~ DoubleBooked(a, b)

\* SAFETY.  assertCapacity works on a count read earlier, so concurrent
\* invitations can overshoot the room, but by less than the number of
\* handlers in flight, whatever invitations are withdrawn and repeated.
OvershootBounded ==
    \A b \in Booked : People(b) < peak[resv[b].room] + Cardinality(Reqs)

\* SAFETY.  Rule 3 of the service, against the largest capacity the room had.
PeopleWithinCapacity == \A b \in Booked : People(b) <= peak[resv[b].room]

\* SAFETY.  deleteRoom's count and its delete are two statements, and a
\* create can insert between them or before it: no reservation, of any
\* status, is ever left without its room.
RoomOfReservationExists == \A b \in Booked : RoomExists(resv[b].room)

Recorded(log, action, entity) ==
    \E u \in Staff : [actor |-> u, action |-> action, entity |-> entity] \in log

\* Every change only staff can have made has its row in `log'.
StaffChangesIn(log) ==
    /\ \A b \in Booked :
          /\ resv[b].status = "OVERRIDDEN" => Recorded(log, "RESERVATION_OVERRIDDEN", b)
          /\ resv[b].status = "CANCELLED" /\ IsStaff(resv[b].organizer)
                => Recorded(log, "RESERVATION_CANCELLED", b)
    /\ \A m \in Rooms :
          /\ room[m].status = "deleted" => Recorded(log, "ROOM_DELETED", m)
          /\ room[m].status = "OUT_OF_ORDER" =>
                \E action \in {"ROOM_CREATED", "ROOM_UPDATED", "ROOM_STATUS_CHANGED"} :
                    Recorded(log, action, m)

\* SAFETY.  Rule 6 of the service, as far as it holds: a staff mutation is
\* audited, its handler is still on the way to the audit row, or a fault ended
\* that handler between the change and writeAuditLog.
AuditLostOnlyByFault == StaffChangesIn(audit \cup Owed \cup dropped)

\* SAFETY.  No audit row and no mail runs ahead of the fact it tells, and no
\* later step of another handler undoes that fact.
NoticesAreTrue ==
    /\ \A e \in audit \cup dropped :
          /\ e.action \in {"RESERVATION_CANCELLED", "RESERVATION_OVERRIDDEN"}
                => e.entity \in Booked \ Confirmed
          /\ e.action = "ROOM_DELETED" => room[e.entity].status = "deleted"
          /\ e.action \in {"ROOM_CREATED", "ROOM_UPDATED", "ROOM_STATUS_CHANGED"}
                => room[e.entity].status # "unborn"
    /\ \A n \in mail :
          /\ n.resv \in Booked
          /\ n.kind # "confirmed" => n.resv \notin Confirmed

\* What a step may do to a reservation.
OnlyCloses(b) ==
    /\ resv'[b] # NoResv
    /\ resv'[b].status = "CONFIRMED" => resv[b].status = "CONFIRMED"
    /\ resv'[b].room = resv[b].room
    /\ resv'[b].organizer = resv[b].organizer
    /\ resv'[b].start = resv[b].start
    /\ resv'[b].end = resv[b].end

\* ACTION PROPERTY.  Handlers write by id on rows they read earlier; even so
\* a reservation never comes back to CONFIRMED, never disappears, and keeps
\* its room, organizer and times.
ReservationsOnlyClose == [][\A b \in Booked : OnlyCloses(b)]_vars

\* ACTION PROPERTY.  The guard `Reservation is not active': only a CONFIRMED
\* reservation is cancelled or overridden, so the first of the two stands.
ClosedOnce ==
    [][\A b \in Booked \ Confirmed : resv'[b].status = resv[b].status]_vars

\* ACTION PROPERTY.  Rule 2 of the service: no reservation is written for a
\* room that is out of order.
BookedInService ==
    [][\A b \in Resvs \ Booked :
          resv'[b] # NoResv => room[resv'[b].room].status = "AVAILABLE"]_vars

\* getActiveBookingAt: the rows its findFirst chooses from.
ActiveBookings(m, at) ==
    {b \in Confirmed : resv[b].room = m /\ ActiveAt(resv[b].start, resv[b].end, at)}

\* SAFETY.  The peer endpoint has a second booking to choose from, for a room
\* and an instant, only where two creates were blind to each other: the end of
\* back-to-back reservations is never an instant of both.
SecondActiveNeedsRace ==
    \A m \in Rooms, at \in Instants : \A a, b \in ActiveBookings(m, at) :
        a # b => a \notin seen[b] /\ b \notin seen[a]

\* SAFETY.  What the peer is promised: one booking at most to name.
OneActiveBooking ==
    \A m \in Rooms, at \in Instants : Cardinality(ActiveBookings(m, at)) <= 1

\* LIVENESS.  What sendgrid.ts says of its callers, that they send without
\* awaiting the result: a request that is done but for its mail is answered.
MailHoldsNobody == \A r \in Reqs : pc[r] = "mail" ~> pc[r] \in Free

\* REFINEMENT.  The tables change as the ledger's single steps do, which no
\* fault or crash leaves half way.  BookingRaces says what breaks it.
Desk == INSTANCE Ledger WITH
    Users <- Users, Rooms <- Rooms, Resvs <- Resvs, Capacities <- Capacities,
    Instants <- Instants, NoResv <- NoResv, room <- room, resv <- resv

ImplementsLedger == Desk!Spec

===============================================================================
