------------------------------- MODULE RoomAdmin -------------------------------
(***************************************************************************)
(* The staff handlers of rooms.service.ts on the Room table.  The image    *)
(* file that deleteRoom also removes is RoomImages' business.              *)
(***************************************************************************)
EXTENDS BookingState

\* createRoom: room.create under a fresh id.
RoomInsert(r) ==
    /\ At(r, "createRoom", "write")
    /\ \E m \in {n \in Rooms : room[n].status = "unborn"} :
          /\ room' = [room EXCEPT ![m] =
                [status |-> call[r].status, cap |-> call[r].cap]]
          /\ peak' = [peak EXCEPT ![m] = call[r].cap]
          /\ call' = [call EXCEPT ![r].room = m]
    /\ Goto(r, "audit")
    /\ UNCHANGED <<now, resv, audit, mail, seats, made, snap, seen, dropped>>

\* getRoomById, the first query of the other three.
RoomFind(r) ==
    /\ \E op \in {"updateRoom", "setRoomStatus", "deleteRoom"} : At(r, op, "find")
    /\ Check(r, RoomExists(call[r].room),
             IF call[r].op = "deleteRoom" THEN "count" ELSE "write")
    /\ UNCHANGED <<now, store, history>>

\* The row a partial update leaves.
Updated(row, c) ==
    [status |-> IF c.status = Keep THEN row.status ELSE c.status,
     cap |-> IF c.cap = KeepCap THEN row.cap ELSE c.cap]

\* room.update: an error when the room was deleted since RoomFind.
RoomUpdate(r) ==
    /\ \E op \in {"updateRoom", "setRoomStatus"} : At(r, op, "write")
    /\ LET m == call[r].room
           row == Updated(room[m], call[r])
       IN  \/ /\ RoomExists(m)
              /\ room' = [room EXCEPT ![m] = row]
              /\ peak' = [peak EXCEPT ![m] = IF row.cap > @ THEN row.cap ELSE @]
              /\ Proceed(r, "audit")
           \/ /\ ~ RoomExists(m)
              /\ Answer(r, "error")
              /\ UNCHANGED <<room, peak>>
    /\ UNCHANGED <<now, resv, audit, mail, seen, dropped>>

\* deleteRoom: reservation.count, of every status.
DeleteCount(r) ==
    /\ At(r, "deleteRoom", "count")
    /\ Check(r, \A b \in Booked : resv[b].room # call[r].room, "write")
    /\ UNCHANGED <<now, store, history>>

\* Mutant of RowDeletable: the count is trusted, there is no foreign key.
RowDeletableByCount(m) == RoomExists(m)

\* The row is there and Reservation_roomId_fkey lets it go.
RowDeletable(m) == RoomExists(m) /\ \A b \in Booked : resv[b].room # m

\* room.delete: an error when the room is gone already, or when the foreign
\* key (ON DELETE RESTRICT) finds a reservation made since the count.
DeleteRoomRow(r) ==
    /\ At(r, "deleteRoom", "write")
    /\ LET m == call[r].room
       IN  \/ /\ RowDeletable(m)
              /\ room' = [room EXCEPT ![m].status = "deleted"]
              /\ Proceed(r, "audit")
           \/ /\ ~ RowDeletable(m)
              /\ Answer(r, "error")
              /\ UNCHANGED room
    /\ UNCHANGED <<now, resv, audit, mail, history>>

-------------------------------------------------------------------------------
DeleteRoom(r) == DeleteCount(r) \/ DeleteRoomRow(r)

RoomStep(r) == RoomInsert(r) \/ RoomFind(r) \/ RoomUpdate(r) \/ DeleteRoom(r)

===============================================================================
