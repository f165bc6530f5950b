----------------------------- MODULE Reservations -----------------------------
(***************************************************************************)
(* The handlers of reservations.service.ts that change state or answer     *)
(* from it, one action per query.  READ COMMITTED makes the transaction of *)
(* createReservation two such steps: the overlap query sees what is        *)
(* committed then, and the insert is visible from its commit on.           *)
(***************************************************************************)
EXTENDS BookingState

\* The room exists, is in service and seats the organizer and the guests.
RoomTakes(c) ==
    /\ RoomExists(c.room)
    /\ room[c.room].status # "OUT_OF_ORDER"
    /\ 1 + Cardinality(GuestsOf(c)) <= room[c.room].cap

\* createReservation: findUnique of the room and the checks on it.
CreateFindRoom(r) ==
    /\ At(r, "create", "find")
    /\ Check(r, RoomTakes(call[r]),
             IF GuestsOf(call[r]) = {} THEN "overlap" ELSE "users")
    /\ UNCHANGED <<now, store, history>>

\* user.count over the attendee ids.
CreateCountUsers(r) ==
    /\ At(r, "create", "users")
    /\ Check(r, GuestsOf(call[r]) \subseteq Users, "overlap")
    /\ UNCHANGED <<now, store, history>>

\* tx.reservation.findFirst: the transaction rolls back on a hit.
CreateFindOverlap(r) ==
    /\ At(r, "create", "overlap")
    /\ \/ /\ \A b \in Resvs : ~ Clash(b, call[r])
          /\ Goto(r, "write")
          /\ snap' = [snap EXCEPT ![r] = Booked]
          /\ UNCHANGED <<call, seats, made>>
       \/ /\ \E b \in Resvs : Clash(b, call[r])
          /\ Answer(r, "refused")
    /\ UNCHANGED <<now, store, history>>

\* tx.reservation.create with its attendee rows, and the commit.
\* Reservation_roomId_fkey fails the insert when the room is gone.
CreateInsert(r) ==
    /\ At(r, "create", "write")
    /\ LET c == call[r]
           row == [status |-> "CONFIRMED", room |-> c.room, organizer |-> c.actor,
                   start |-> c.start, end |-> c.end, guests |-> GuestsOf(c)]
       IN  \/ /\ RoomExists(c.room)
              /\ \E b \in Resvs \ Booked :
                    /\ resv' = [resv EXCEPT ![b] = row]
                    /\ seen' = [seen EXCEPT ![b] = snap[r]]
                    /\ made' = [made EXCEPT ![r] = b]
              /\ Goto(r, "mail")
              /\ UNCHANGED <<call, seats, snap>>
           \/ /\ ~ RoomExists(c.room)
              /\ Answer(r, "error")
              /\ UNCHANGED <<resv, seen>>
    /\ UNCHANGED <<now, room, audit, mail, peak, dropped>>

\* Mutant of MayClose: whoever may close a reservation may close it again.
MayCloseAgain(c) ==
    /\ c.resv \in Booked
    /\ c.op = "cancel" => resv[c.resv].organizer = c.actor \/ IsStaff(c.actor)

\* The checks of cancelReservation and overrideReservation.  The route gates
\* override, so only cancel asks who.
MayClose(c) ==
    /\ c.resv \in Booked
    /\ c.op = "cancel" => resv[c.resv].organizer = c.actor \/ IsStaff(c.actor)
    /\ resv[c.resv].status = "CONFIRMED"

\* findUnique of the reservation, and the checks on the row it returned.
CloseFind(r) ==
    /\ \E op \in {"cancel", "override"} : At(r, op, "find")
    /\ Check(r, MayClose(call[r]), "write")
    /\ UNCHANGED <<now, store, history>>

\* Mutant of Cancelled: a hard delete.
CancelledHard(b) == NoResv

\* Mutant of Overridden: audited and mailed, but not written.
OverriddenNot(b) == resv[b]

\* reservation.update where { id } only: whatever the row has become.
Cancelled(b) == [resv[b] EXCEPT !.status = "CANCELLED"]
Overridden(b) == [resv[b] EXCEPT !.status = "OVERRIDDEN"]

CancelUpdate(r) ==
    /\ At(r, "cancel", "write")
    /\ resv' = [resv EXCEPT ![call[r].resv] = Cancelled(call[r].resv)]
    /\ Proceed(r, IF IsStaff(call[r].actor) THEN "audit" ELSE "mail")
    /\ UNCHANGED <<now, room, audit, mail, history>>

\* Mutant of OverrideUpdate: mailed, but not audited.
OverrideUpdateUnaudited(r) ==
    /\ At(r, "override", "write")
    /\ resv' = [resv EXCEPT ![call[r].resv] = Overridden(call[r].resv)]
    /\ Proceed(r, "mail")
    /\ UNCHANGED <<now, room, audit, mail, history>>

OverrideUpdate(r) ==
    /\ At(r, "override", "write")
    /\ resv' = [resv EXCEPT ![call[r].resv] = Overridden(call[r].resv)]
    /\ Proceed(r, "audit")
    /\ UNCHANGED <<now, room, audit, mail, history>>

\* Mutant of MayManage: guests are added to a closed reservation.
MayManageAny(c) == c.resv \in Booked /\ resv[c.resv].organizer = c.actor

\* The checks addAttendee and checkIn share.
MayManage(c) ==
    /\ c.resv \in Booked
    /\ resv[c.resv].organizer = c.actor
    /\ resv[c.resv].status = "CONFIRMED"

\* addAttendee: the row is read with its room and attendees.
AddFind(r) ==
    /\ At(r, "addAttendee", "find")
    /\ LET b == call[r].resv
       IN  \/ /\ MayManage(call[r])
              /\ seats' = [seats EXCEPT ![r] =
                    [people |-> People(b) + 1, cap |-> room[resv[b].room].cap]]
              /\ Goto(r, "users")
              /\ UNCHANGED <<call, made, snap>>
           \/ ~ MayManage(call[r]) /\ Answer(r, "refused")
    /\ UNCHANGED <<now, store, history>>

\* Mutant of Seated: the invited user is not counted.
SeatedUncounted(r) == seats[r].people <= seats[r].cap + 1

\* assertCapacity on what AddFind read, not on what is there now.
Seated(r) == seats[r].people <= seats[r].cap

\* user.findUnique, then the capacity check.
AddFindUser(r) ==
    /\ At(r, "addAttendee", "users")
    /\ Check(r, call[r].user \in Users /\ Seated(r), "write")
    /\ UNCHANGED <<now, store, history>>

\* reservationAttendee.create: the unique index answers a second invitation.
AddInsert(r) ==
    /\ At(r, "addAttendee", "write")
    /\ LET b == call[r].resv
           u == call[r].user
       IN  \/ /\ u \notin resv[b].guests
              /\ resv' = [resv EXCEPT ![b].guests = @ \cup {u}]
              /\ Answer(r, "ok")
           \/ /\ u \in resv[b].guests
              /\ Answer(r, "refused")
              /\ UNCHANGED resv
    /\ UNCHANGED <<now, room, audit, mail, history>>

\* removeAttendee: no look at the status.
RemoveFind(r) ==
    /\ At(r, "removeAttendee", "find")
    /\ LET b == call[r].resv
       IN  Check(r, b \in Booked /\ resv[b].organizer = call[r].actor, "write")
    /\ UNCHANGED <<now, store, history>>

\* reservationAttendee.deleteMany: deleting nobody is a success.
RemoveDelete(r) ==
    /\ At(r, "removeAttendee", "write")
    /\ resv' = [resv EXCEPT ![call[r].resv].guests = @ \ {call[r].user}]
    /\ Answer(r, "ok")
    /\ UNCHANGED <<now, room, audit, mail, history>>

\* checkIn: reads, asks FinderAI, writes nothing.
CheckInFind(r) ==
    /\ At(r, "checkIn", "find")
    /\ LET b == call[r].resv
       IN  Check(r, MayManage(call[r]) /\ CheckInOpen(now, resv[b].start, resv[b].end),
                 "lookup")
    /\ UNCHANGED <<now, store, history>>

\* lookupLostItems answers within its own timeout and never throws.
CheckInLookup(r) ==
    /\ At(r, "checkIn", "lookup")
    /\ Answer(r, "ok")
    /\ UNCHANGED <<now, store, history>>

\* The mail each operation hands to SendGrid.
Notice(r) ==
    CASE call[r].op = "create" -> [kind |-> "confirmed", resv |-> made[r]]
      [] call[r].op = "cancel" -> [kind |-> "cancelled", resv |-> call[r].resv]
      [] call[r].op = "override" -> [kind |-> "overridden", resv |-> call[r].resv]

\* send: awaited by the handler, and swallowing SendGrid's errors.
SendMail(r) ==
    /\ pc[r] = "mail"
    /\ \/ mail' = mail \cup {Notice(r)}
       \/ Faults /\ UNCHANGED mail
    /\ Answer(r, "ok")
    /\ UNCHANGED <<now, room, resv, audit, history>>

-------------------------------------------------------------------------------
\* The operations as sets of steps of one request.
CreateReservation(r) ==
    CreateFindRoom(r) \/ CreateCountUsers(r) \/ CreateFindOverlap(r) \/ CreateInsert(r)
CloseReservation(r) == CloseFind(r) \/ CancelUpdate(r) \/ OverrideUpdate(r)
AddAttendee(r) == AddFind(r) \/ AddFindUser(r) \/ AddInsert(r)
RemoveAttendee(r) == RemoveFind(r) \/ RemoveDelete(r)
CheckIn(r) == CheckInFind(r) \/ CheckInLookup(r)

ReservationStep(r) ==
    CreateReservation(r) \/ CloseReservation(r) \/ AddAttendee(r)
        \/ RemoveAttendee(r) \/ CheckIn(r)

===============================================================================
