----------------------------- MODULE BookingState -----------------------------
(***************************************************************************)
(* What the booking service keeps: the Room, Reservation (with its         *)
(* ReservationAttendee rows) and AuditLog tables, the mails handed to      *)
(* SendGrid, and the HTTP requests in flight.  Every `await' of a handler  *)
(* is a point where other handlers run, so a request is a small process    *)
(* whose program counter names the query it waits for next; a database    *)
(* statement is atomic, and nothing else is: Prisma runs on PostgreSQL's   *)
(* default READ COMMITTED isolation and the code takes no lock.            *)
(***************************************************************************)
EXTENDS Calendar, FiniteSets

CONSTANTS
    Ids,         \* user ids a client may send, of rows that exist or not
    Users,       \* the User rows: nothing in the API deletes one
    Staff,       \* the users whose token says STAFF or ADMIN
    Rooms,       \* room ids, each given to one Room row at most
    Resvs,       \* reservation ids, each given to one Reservation row at most
    Reqs,        \* request slots: how many handlers can be in flight at once
    Capacities,  \* the capacities a room may be given
    GuestLists,  \* the attendee lists clients send with a new reservation
    Instants,    \* the start and end times clients ask for
    Horizon,     \* the bound on the clock
    Ops,         \* the operations clients invoke in this instance
    Faults       \* whether queries and mails fail and the process crashes

ASSUME BookingAssumption ==
    /\ Users \subseteq Ids
    /\ Staff \subseteq Users
    /\ IsFiniteSet(Ids)
    /\ GuestLists \subseteq SUBSET Ids
    /\ IsFiniteSet(Reqs)
    /\ Reqs # {}
    /\ Capacities \subseteq Nat \ {0}
    /\ Instants \subseteq Int
    /\ Horizon \in Nat
    /\ Faults \in BOOLEAN

VARIABLES
    now,      \* the wall clock
    room,     \* the Room table
    resv,     \* the Reservation and ReservationAttendee tables
    audit,    \* the AuditLog table
    mail,     \* the mails SendGrid accepted
    pc,       \* what each request waits for, or how it was answered
    call,     \* the request's validated input
    seats,    \* the people and the capacity addAttendee read
    made,     \* the reservation createReservation inserted
    snap,     \* history: the rows that existed at create's overlap query
    seen,     \* history: snap, kept for each reservation inserted
    peak,     \* history: the largest capacity each room ever had
    dropped   \* history: audit rows owed when a fault ended their request

store == <<room, resv, audit, mail>>
locals == <<call, seats, made, snap>>
history == <<seen, peak, dropped>>
vars == <<now, store, pc, locals, history>>

NoId == "no id"
Keep == "keep"       \* a status absent from a partial update
KeepCap == 0         \* a capacity absent from a partial update
NoSeats == [people |-> 0, cap |-> 0]

RoomStatus == {"AVAILABLE", "OUT_OF_ORDER"}
RoomRow == [status : RoomStatus \cup {"unborn", "deleted"},
            cap : Capacities \cup {0}]
NoRoom == [status |-> "unborn", cap |-> 0]

ResvStatus == {"CONFIRMED", "CANCELLED", "OVERRIDDEN"}
ResvRow == [status : ResvStatus, room : Rooms, organizer : Users,
            start : Int, end : Int, guests : SUBSET Users]
NoResv == [status |-> "unborn"]

\* The inputs of the handlers that change state, after the zod schemas.
CreateCall == [op : {"create"}, actor : Users, room : Rooms,
               start : Instants, end : Instants, guests : GuestLists]
ResvCall == [op : {"cancel", "override", "checkIn"}, actor : Users, resv : Resvs]
GuestCall == [op : {"addAttendee", "removeAttendee"}, actor : Users,
              resv : Resvs, user : Ids]
NewRoomCall == [op : {"createRoom"}, actor : Users, room : Rooms \cup {NoId},
                cap : Capacities, status : RoomStatus]
RoomCall == [op : {"updateRoom"}, actor : Users, room : Rooms,
             cap : Capacities \cup {KeepCap}, status : RoomStatus \cup {Keep}]
            \cup
            [op : {"setRoomStatus"}, actor : Users, room : Rooms,
             cap : {KeepCap}, status : RoomStatus]
            \cup
            [op : {"deleteRoom"}, actor : Users, room : Rooms]
Calls == CreateCall \cup ResvCall \cup GuestCall \cup NewRoomCall \cup RoomCall
NoCall == [op |-> "none"]

StaffOps == {"override", "createRoom", "updateRoom", "setRoomStatus", "deleteRoom"}
ResvOps == {"cancel", "override", "checkIn", "addAttendee", "removeAttendee"}
RoomOps == {"createRoom", "updateRoom", "setRoomStatus", "deleteRoom"}
AuditedOps == RoomOps \cup {"cancel", "override"}

\* Answers: 2xx, 4xx, and 5xx (an error no service translates).
Answers == {"ok", "refused", "error"}
Free == {"idle"} \cup Answers
DbLabels == {"find", "users", "overlap", "write", "count", "audit"}
Labels == DbLabels \cup {"mail", "lookup"}

-------------------------------------------------------------------------------
RoomExists(m) == room[m].status \in RoomStatus
Booked == {b \in Resvs : resv[b] # NoResv}
Confirmed == {b \in Booked : resv[b].status = "CONFIRMED"}

IsStaff(u) == u \in Staff

\* uniqueAttendeeIds: a set already, without the organizer.
GuestsOf(c) == c.guests \ {c.actor}

\* Organizer plus attendees, as assertCapacity counts them.
People(b) == 1 + Cardinality(resv[b].guests)

\* Mutant of Clash: only a reservation that starts inside the new one.
ClashAtStart(b, c) ==
    /\ b \in Confirmed
    /\ resv[b].room = c.room
    /\ c.start <= resv[b].start /\ resv[b].start < c.end

\* The overlap query of createReservation, for input c.
Clash(b, c) ==
    /\ b \in Confirmed
    /\ resv[b].room = c.room
    /\ Overlaps(resv[b].start, resv[b].end, c.start, c.end)

\* What writeAuditLog records for a call.
AuditAction(op) ==
    CASE op = "cancel" -> "RESERVATION_CANCELLED"
      [] op = "override" -> "RESERVATION_OVERRIDDEN"
      [] op = "createRoom" -> "ROOM_CREATED"
      [] op = "updateRoom" -> "ROOM_UPDATED"
      [] op = "setRoomStatus" -> "ROOM_STATUS_CHANGED"
      [] op = "deleteRoom" -> "ROOM_DELETED"

Entry(c) ==
    [actor |-> c.actor, action |-> AuditAction(c.op),
     entity |-> IF c.op \in RoomOps THEN c.room ELSE c.resv]

\* The audit rows that requests in flight still have to write.
Owed == {Entry(call[r]) : r \in {q \in Reqs : pc[q] = "audit"}}

-------------------------------------------------------------------------------
At(r, op, label) == pc[r] = label /\ call[r].op = op

Goto(r, label) == pc' = [pc EXCEPT ![r] = label]

\* The handler ends: its locals are gone.
Answer(r, reply) ==
    /\ pc' = [pc EXCEPT ![r] = reply]
    /\ call' = [call EXCEPT ![r] = NoCall]
    /\ seats' = [seats EXCEPT ![r] = NoSeats]
    /\ made' = [made EXCEPT ![r] = NoId]
    /\ snap' = [snap EXCEPT ![r] = {}]

Proceed(r, label) == Goto(r, label) /\ UNCHANGED locals

\* A check between two queries: go on, or throw an AppError.
Check(r, ok, label) ==
    \/ ok /\ Proceed(r, label)
    \/ ~ok /\ Answer(r, "refused")

===============================================================================
