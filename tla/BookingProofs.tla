----------------------------- MODULE BookingProofs -----------------------------
(***************************************************************************)
(* Theorems about Booking for every number of users, rooms, reservations   *)
(* and requests in flight.                                                 *)
(***************************************************************************)
EXTENDS BookingRaces, FiniteSetTheorems, TLAPS

-------------------------------------------------------------------------------
(* The shape of a request's input, by its operation. *)

\* A call of each operation is a record of that operation's type.
LEMMA CallShape ==
    ASSUME NEW c \in Calls \cup {NoCall}
    PROVE  /\ c.op = "create" => c \in CreateCall
           /\ c.op \in {"cancel", "override", "checkIn"} => c \in ResvCall
           /\ c.op \in {"addAttendee", "removeAttendee"} => c \in GuestCall
           /\ c.op = "createRoom" => c \in NewRoomCall
           /\ c.op \in {"updateRoom", "setRoomStatus", "deleteRoom"} => c \in RoomCall
           /\ c.op = "none" <=> c = NoCall
BY DEF Calls, CreateCall, ResvCall, GuestCall, NewRoomCall, RoomCall, NoCall

\* A request that waits at a label is not free, so it holds a real call.
LEMMA AtCall ==
    ASSUME RequestsOK, NEW r \in Reqs, pc[r] \in Labels
    PROVE  call[r] \in Calls /\ call[r] # NoCall
BY DEF RequestsOK, Labels, DbLabels, Free, Answers

-------------------------------------------------------------------------------
(* TypeOK, first the part that follows from how a handler moves on. *)

\* An answer keeps the requests well typed, if no reservation disappeared.
LEMMA AnswerRequestsOK ==
    ASSUME RequestsOK, NEW r \in Reqs, NEW reply \in Free, Answer(r, reply),
           Booked \subseteq Booked'
    PROVE  RequestsOK'
<1>1. /\ pc' \in [Reqs -> Free \cup Labels]
      /\ call' \in [Reqs -> Calls \cup {NoCall}]
      /\ seats' \in [Reqs -> [people : Nat, cap : Nat]]
      /\ made' \in [Reqs -> Resvs \cup {NoId}]
      /\ snap' \in [Reqs -> SUBSET Resvs]
  BY DEF RequestsOK, Answer, NoSeats
<1>2. ASSUME NEW q \in Reqs
      PROVE  (pc'[q] \in Free <=> call'[q] = NoCall) /\ CheckedOK(q)'
  <2>1. CASE q = r
    BY <2>1 DEF RequestsOK, Answer, CheckedOK, At, NoCall, ResvOps, Free, Answers
  <2>2. CASE q # r
    <3>1. pc'[q] = pc[q] /\ call'[q] = call[q] /\ made'[q] = made[q]
      BY <2>2 DEF RequestsOK, Answer
    <3>2. (pc[q] \in Free <=> call[q] = NoCall) /\ CheckedOK(q)
      BY DEF RequestsOK
    <3>3. QED BY <3>1, <3>2 DEF CheckedOK, At, GuestsOf
  <2>3. QED BY <2>1, <2>2
<1>3. QED BY <1>1, <1>2 DEF RequestsOK

\* So does a step to the next query, if what was checked on the way holds.
LEMMA GotoRequestsOK ==
    ASSUME RequestsOK, NEW r \in Reqs, NEW label \in Labels,
           Goto(r, label), CheckedOK(r)', call' = call,
           call[r] # NoCall,
           seats' \in [Reqs -> [people : Nat, cap : Nat]],
           made' \in [Reqs -> Resvs \cup {NoId}],
           snap' \in [Reqs -> SUBSET Resvs],
           \A q \in Reqs \ {r} : made'[q] = made[q],
           Booked \subseteq Booked'
    PROVE  RequestsOK'
<1>1. ASSUME NEW q \in Reqs
      PROVE  (pc'[q] \in Free <=> call'[q] = NoCall) /\ CheckedOK(q)'
  <2>1. CASE q = r
    BY <2>1 DEF RequestsOK, Goto, Free, Answers, Labels, DbLabels
  <2>2. CASE q # r
    <3>1. pc'[q] = pc[q] /\ call'[q] = call[q] /\ made'[q] = made[q]
      BY <2>2 DEF RequestsOK, Goto
    <3>2. (pc[q] \in Free <=> call[q] = NoCall) /\ CheckedOK(q)
      BY DEF RequestsOK
    <3>3. QED BY <3>1, <3>2 DEF CheckedOK, At, GuestsOf
  <2>3. QED BY <2>1, <2>2
<1>2. QED BY <1>1 DEF RequestsOK, Goto

\* The same for a step that keeps every local.
LEMMA ProceedRequestsOK ==
    ASSUME RequestsOK, NEW r \in Reqs, NEW label \in Labels,
           Proceed(r, label), CheckedOK(r)', pc[r] \in Labels,
           Booked \subseteq Booked'
    PROVE  RequestsOK'
BY GotoRequestsOK, AtCall DEF Proceed, locals, RequestsOK

\* The same for a check between two queries.
LEMMA CheckRequestsOK ==
    ASSUME RequestsOK, NEW r \in Reqs, NEW label \in Labels, NEW ok \in BOOLEAN,
           Check(r, ok, label), ok /\ Proceed(r, label) => CheckedOK(r)',
           pc[r] \in Labels, UNCHANGED resv
    PROVE  RequestsOK'
<1>1. Booked \subseteq Booked'
  BY DEF Booked
<1>2. CASE ok /\ Proceed(r, label)
  BY <1>1, <1>2, ProceedRequestsOK
<1>3. CASE Answer(r, "refused")
  BY <1>1, <1>3, AnswerRequestsOK DEF Free, Answers
<1>4. QED BY <1>2, <1>3 DEF Check

\* The number of people of a reservation is a number.
LEMMA PeopleIsNat ==
    ASSUME TypeOK, NEW b \in Booked
    PROVE  /\ IsFiniteSet(resv[b].guests)
           /\ People(b) \in Nat
<1>1. resv[b] \in ResvRow
  BY DEF TypeOK, TablesOK, Booked
<1>2. IsFiniteSet(Users)
  BY BookingAssumption, FS_Subset
<1>3. IsFiniteSet(resv[b].guests)
  BY <1>1, <1>2, FS_Subset DEF ResvRow
<1>4. QED BY <1>3, FS_CardinalityType DEF People

\* Capacities are numbers.
LEMMA CapIsNat ==
    ASSUME TablesOK, NEW m \in Rooms
    PROVE  room[m].cap \in Nat
<1>1. room[m] \in RoomRow
  BY DEF TablesOK
<1>2. room[m].cap \in Capacities \cup {0}
  BY <1>1 DEF RoomRow
<1>3. Capacities \cup {0} \subseteq Nat
  BY BookingAssumption
<1>4. QED BY <1>2, <1>3

\* Closing a reservation keeps the tables well typed.
LEMMA CloseTablesOK ==
    ASSUME TypeOK, NEW r \in Reqs, CancelUpdate(r) \/ OverrideUpdate(r)
    PROVE  TablesOK' /\ Booked \subseteq Booked'
<1> DEFINE b == call[r].resv
<1>1. b \in Booked
  BY DEF CancelUpdate, OverrideUpdate, At, TypeOK, RequestsOK, CheckedOK, ResvOps
<1>2. b \in Resvs /\ resv[b] \in ResvRow
  BY <1>1 DEF TypeOK, TablesOK, Booked
<1>3. PICK row : resv' = [resv EXCEPT ![b] = row] /\ row \in {Cancelled(b), Overridden(b)}
  BY DEF CancelUpdate, OverrideUpdate
<1>4. row \in ResvRow /\ row # NoResv
  BY <1>2, <1>3 DEF Cancelled, Overridden, ResvRow, ResvStatus, NoResv
<1>5. resv' \in [Resvs -> ResvRow \cup {NoResv}]
  BY <1>3, <1>4 DEF TypeOK, TablesOK
<1>6. Booked \subseteq Booked'
  BY <1>2, <1>3, <1>4 DEF TypeOK, TablesOK, Booked
<1>7. QED BY <1>5, <1>6 DEF CancelUpdate, OverrideUpdate, TypeOK, TablesOK

\* Inviting and withdrawing a guest keep the tables well typed.
LEMMA GuestsTablesOK ==
    ASSUME TypeOK, NEW r \in Reqs, AddInsert(r) \/ RemoveDelete(r)
    PROVE  TablesOK' /\ Booked \subseteq Booked'
<1> DEFINE b == call[r].resv
<1>1. b \in Booked
  BY DEF AddInsert, RemoveDelete, At, TypeOK, RequestsOK, CheckedOK, ResvOps
<1>2. b \in Resvs /\ resv[b] \in ResvRow
  BY <1>1 DEF TypeOK, TablesOK, Booked
<1>3. CASE UNCHANGED resv
  BY <1>3 DEF AddInsert, RemoveDelete, TypeOK, TablesOK, Booked
<1>4. CASE resv' # resv
  <2>1. AddInsert(r) => call[r].user \in Users
    BY DEF AddInsert, At, TypeOK, RequestsOK, CheckedOK
  <2>2. PICK guests \in SUBSET Users : resv' = [resv EXCEPT ![b].guests = guests]
    BY <1>2, <1>4, <2>1 DEF AddInsert, RemoveDelete, ResvRow
  <2>3. [resv[b] EXCEPT !.guests = guests] \in ResvRow
    BY <1>2 DEF ResvRow
  <2>4. [resv[b] EXCEPT !.guests = guests] # NoResv
    BY <2>3 DEF ResvRow, ResvStatus, NoResv
  <2>5. QED BY <1>2, <2>2, <2>3, <2>4 DEF AddInsert, RemoveDelete, TypeOK, TablesOK, Booked
<1>5. QED BY <1>3, <1>4

\* The insert of createReservation writes a well-typed row.
LEMMA CreateInsertTypeOK ==
    ASSUME TypeOK, NEW r \in Reqs, CreateInsert(r)
    PROVE  TypeOK'
<1> DEFINE c == call[r]
<1> DEFINE row == [status |-> "CONFIRMED", room |-> c.room, organizer |-> c.actor,
                   start |-> c.start, end |-> c.end, guests |-> GuestsOf(c)]
<1>1. pc[r] = "write" /\ c.op = "create" /\ c \in CreateCall
  BY CallShape DEF CreateInsert, At, TypeOK, RequestsOK
<1>2. GuestsOf(c) \subseteq Users
  BY <1>1 DEF TypeOK, RequestsOK, CheckedOK
<1>3. row \in ResvRow /\ row # NoResv
  BY <1>1, <1>2, BookingAssumption DEF CreateCall, ResvRow, ResvStatus, NoResv
<1>4. CASE Answer(r, "error") /\ UNCHANGED <<resv, seen>>
  <2>1. RequestsOK'
    BY <1>4, AnswerRequestsOK DEF TypeOK, Booked, Free, Answers
  <2>2. QED BY <1>4, <2>1 DEF CreateInsert, TypeOK, TablesOK, HistoryOK
<1>5. CASE /\ \E b \in Resvs \ Booked :
                 /\ resv' = [resv EXCEPT ![b] = row]
                 /\ seen' = [seen EXCEPT ![b] = snap[r]]
                 /\ made' = [made EXCEPT ![r] = b]
           /\ Goto(r, "mail")
           /\ UNCHANGED <<call, seats, snap>>
  <2>1. PICK b \in Resvs \ Booked :
           /\ resv' = [resv EXCEPT ![b] = row]
           /\ seen' = [seen EXCEPT ![b] = snap[r]]
           /\ made' = [made EXCEPT ![r] = b]
    BY <1>5
  <2>2. TablesOK'
    BY <1>3, <2>1 DEF CreateInsert, TypeOK, TablesOK
  <2>3. Booked \subseteq Booked' /\ b \in Booked'
    BY <1>3, <2>1 DEF TypeOK, TablesOK, Booked
  <2>4. made' \in [Reqs -> Resvs \cup {NoId}] /\ made'[r] = b
    BY <2>1 DEF TypeOK, RequestsOK
  <2>5. CheckedOK(r)'
    BY <1>1, <1>5, <2>3, <2>4 DEF CheckedOK, At, Goto, TypeOK, RequestsOK, ResvOps, AuditedOps, RoomOps
  <2>6. RequestsOK'
    BY <1>1, <1>5, <2>1, <2>3, <2>4, <2>5, GotoRequestsOK, AtCall
       DEF TypeOK, RequestsOK, Labels, DbLabels
  <2>7. HistoryOK'
    BY <2>1 DEF CreateInsert, TypeOK, HistoryOK, RequestsOK
  <2>8. QED BY <2>2, <2>6, <2>7 DEF TypeOK
<1>6. QED BY <1>4, <1>5 DEF CreateInsert

\* Every step of a reservation handler keeps the types.
LEMMA ReservationStepTypeOK ==
    ASSUME TypeOK, NEW r \in Reqs, ReservationStep(r)
    PROVE  TypeOK'
<1> USE DEF Labels, DbLabels, Free, Answers, ResvOps, AuditedOps, RoomOps
<1> DEFINE b == call[r].resv
<1>1. CASE CreateFindRoom(r)
  <2>1. Proceed(r, IF GuestsOf(call[r]) = {} THEN "overlap" ELSE "users") => CheckedOK(r)'
    BY <1>1 DEF CreateFindRoom, At, CheckedOK, Proceed, Goto, locals, TypeOK, RequestsOK, GuestsOf
  <2>2. RequestsOK'
    BY <1>1, <2>1, CheckRequestsOK DEF CreateFindRoom, At, TypeOK, store, RoomTakes
  <2>3. QED BY <1>1, <2>2 DEF CreateFindRoom, TypeOK, TablesOK, HistoryOK, store, history
<1>2. CASE CreateCountUsers(r)
  <2>1. CASE Proceed(r, "overlap") /\ GuestsOf(call[r]) \subseteq Users
    <3>1. CheckedOK(r)'
      BY <1>2, <2>1 DEF CreateCountUsers, At, CheckedOK, Proceed, Goto, locals, TypeOK,
                        RequestsOK, GuestsOf
    <3>2. RequestsOK'
      BY <1>2, <2>1, <3>1, ProceedRequestsOK
         DEF CreateCountUsers, At, TypeOK, store, Booked
    <3>3. QED BY <1>2, <3>2 DEF CreateCountUsers, TypeOK, TablesOK, HistoryOK, store, history
  <2>2. CASE Answer(r, "refused")
    <3>1. RequestsOK'
      BY <1>2, <2>2, AnswerRequestsOK DEF CreateCountUsers, TypeOK, store, Booked
    <3>2. QED BY <1>2, <3>1 DEF CreateCountUsers, TypeOK, TablesOK, HistoryOK, store, history
  <2>3. QED BY <1>2, <2>1, <2>2 DEF CreateCountUsers, Check
<1>3. CASE CreateFindOverlap(r)
  <2>1. CASE /\ Goto(r, "write")
             /\ snap' = [snap EXCEPT ![r] = Booked]
             /\ UNCHANGED <<call, seats, made>>
    <3>1. CheckedOK(r)'
      BY <1>3, <2>1 DEF CreateFindOverlap, At, CheckedOK, store, Booked, Goto,
              TypeOK, RequestsOK, GuestsOf
    <3>2. snap' \in [Reqs -> SUBSET Resvs]
      BY <2>1 DEF TypeOK, RequestsOK, Booked
    <3>3. RequestsOK'
      BY <1>3, <2>1, <3>1, <3>2, GotoRequestsOK, AtCall
         DEF CreateFindOverlap, At, TypeOK, RequestsOK, store, Booked
    <3>4. QED BY <1>3, <3>3 DEF CreateFindOverlap, TypeOK, TablesOK, HistoryOK, store, history
  <2>2. CASE Answer(r, "refused")
    <3>1. RequestsOK'
      BY <1>3, <2>2, AnswerRequestsOK DEF CreateFindOverlap, TypeOK, store, Booked
    <3>2. QED BY <1>3, <3>1 DEF CreateFindOverlap, TypeOK, TablesOK, HistoryOK, store, history
  <2>3. QED BY <1>3, <2>1, <2>2 DEF CreateFindOverlap
<1>4. CASE CreateInsert(r)
  BY <1>4, CreateInsertTypeOK
<1>5. CASE CloseFind(r)
  <2>1. MayClose(call[r]) /\ Proceed(r, "write") => CheckedOK(r)'
    BY <1>5 DEF CloseFind, At, CheckedOK, store, Booked, MayClose, Proceed, Goto, locals, TypeOK, RequestsOK
  <2>2. RequestsOK'
    BY <1>5, <2>1, CheckRequestsOK DEF CloseFind, At, TypeOK, store, MayClose
  <2>3. QED BY <1>5, <2>2 DEF CloseFind, TypeOK, TablesOK, HistoryOK, store, history
<1>6. CASE CancelUpdate(r)
  <2>1. TablesOK' /\ Booked \subseteq Booked'
    BY <1>6, CloseTablesOK DEF CancelUpdate, At
  <2>2. CheckedOK(r)'
    BY <1>6, <2>1 DEF CancelUpdate, At, CheckedOK, Proceed, Goto, locals, TypeOK, RequestsOK
  <2>3. RequestsOK'
    BY <1>6, <2>1, <2>2, ProceedRequestsOK DEF CancelUpdate, At, TypeOK
  <2>4. QED BY <1>6, <2>1, <2>3 DEF CancelUpdate, TypeOK, HistoryOK, history
<1>7. CASE OverrideUpdate(r)
  <2>1. TablesOK' /\ Booked \subseteq Booked'
    BY <1>7, CloseTablesOK DEF OverrideUpdate, At
  <2>2. CheckedOK(r)'
    BY <1>7, <2>1 DEF OverrideUpdate, At, CheckedOK, Proceed, Goto, locals, TypeOK, RequestsOK
  <2>3. RequestsOK'
    BY <1>7, <2>1, <2>2, ProceedRequestsOK DEF OverrideUpdate, At, TypeOK
  <2>4. QED BY <1>7, <2>1, <2>3 DEF OverrideUpdate, TypeOK, HistoryOK, history
<1>8. CASE AddFind(r)
  <2>1. CASE /\ MayManage(call[r])
             /\ seats' = [seats EXCEPT ![r] =
                   [people |-> People(b) + 1, cap |-> room[resv[b].room].cap]]
             /\ Goto(r, "users")
             /\ UNCHANGED <<call, made, snap>>
    <3>1. b \in Booked
      BY <2>1 DEF MayManage
    <3>2. resv[b].room \in Rooms
      BY <3>1 DEF TypeOK, TablesOK, Booked, ResvRow
    <3>3. seats' \in [Reqs -> [people : Nat, cap : Nat]]
      <4>1. People(b) + 1 \in Nat /\ room[resv[b].room].cap \in Nat
        BY <3>1, <3>2, PeopleIsNat, CapIsNat DEF TypeOK
      <4>2. seats \in [Reqs -> [people : Nat, cap : Nat]]
        BY DEF TypeOK, RequestsOK
      <4>3. QED BY <2>1, <4>1, <4>2
    <3>4. CheckedOK(r)'
      <4>1. pc'[r] = "users" /\ call'[r] = call[r] /\ call[r].op = "addAttendee"
        BY <1>8, <2>1 DEF AddFind, At, Goto, TypeOK, RequestsOK
      <4>2. b \in Booked'
        BY <1>8, <3>1 DEF AddFind, store, Booked
      <4>3. QED BY <4>1, <4>2 DEF CheckedOK, At
    <3>5. RequestsOK'
      <4>1. RequestsOK /\ Booked' = Booked
        BY <1>8 DEF AddFind, TypeOK, store, Booked
      <4>2. call[r] # NoCall
        BY <1>8, <4>1, AtCall DEF AddFind, At
      <4>3. made' \in [Reqs -> Resvs \cup {NoId}] /\ snap' \in [Reqs -> SUBSET Resvs]
        BY <2>1, <4>1 DEF RequestsOK
      <4>4. QED BY <2>1, <3>3, <3>4, <4>1, <4>2, <4>3, GotoRequestsOK
    <3>6. QED BY <1>8, <3>5 DEF AddFind, TypeOK, TablesOK, HistoryOK, store, history
  <2>2. CASE Answer(r, "refused")
    <3>1. RequestsOK'
      BY <1>8, <2>2, AnswerRequestsOK DEF AddFind, TypeOK, store, Booked
    <3>2. QED BY <1>8, <3>1 DEF AddFind, TypeOK, TablesOK, HistoryOK, store, history
  <2>3. QED BY <1>8, <2>1, <2>2 DEF AddFind
<1>9. CASE AddFindUser(r)
  <2>1. CASE Proceed(r, "write") /\ call[r].user \in Users
    <3>1. CheckedOK(r)'
      BY <1>9, <2>1 DEF AddFindUser, At, CheckedOK, store, Booked, Proceed, Goto, locals, TypeOK, RequestsOK
    <3>2. RequestsOK'
      BY <1>9, <2>1, <3>1, ProceedRequestsOK DEF AddFindUser, At, TypeOK, store, Booked
    <3>3. QED BY <1>9, <3>2 DEF AddFindUser, TypeOK, TablesOK, HistoryOK, store, history
  <2>2. CASE Answer(r, "refused")
    <3>1. RequestsOK'
      BY <1>9, <2>2, AnswerRequestsOK DEF AddFindUser, TypeOK, store, Booked
    <3>2. QED BY <1>9, <3>1 DEF AddFindUser, TypeOK, TablesOK, HistoryOK, store, history
  <2>3. QED BY <1>9, <2>1, <2>2 DEF AddFindUser, Check
<1>10. CASE AddInsert(r)
  <2>1. TablesOK' /\ Booked \subseteq Booked'
    BY <1>10, GuestsTablesOK DEF AddInsert
  <2>2. RequestsOK'
    BY <1>10, <2>1, AnswerRequestsOK DEF AddInsert, TypeOK
  <2>3. QED BY <1>10, <2>1, <2>2 DEF AddInsert, TypeOK, HistoryOK, history
<1>11. CASE RemoveFind(r)
  <2>1. b \in Booked /\ resv[b].organizer = call[r].actor /\ Proceed(r, "write") => CheckedOK(r)'
    BY <1>11 DEF RemoveFind, At, CheckedOK, store, Booked, Proceed, Goto, locals, TypeOK, RequestsOK
  <2>2. RequestsOK'
    BY <1>11, <2>1, CheckRequestsOK DEF RemoveFind, At, TypeOK, store
  <2>3. QED BY <1>11, <2>2 DEF RemoveFind, TypeOK, TablesOK, HistoryOK, store, history
<1>12. CASE RemoveDelete(r)
  <2>1. TablesOK' /\ Booked \subseteq Booked'
    BY <1>12, GuestsTablesOK DEF RemoveDelete
  <2>2. RequestsOK'
    BY <1>12, <2>1, AnswerRequestsOK DEF RemoveDelete, TypeOK
  <2>3. QED BY <1>12, <2>1, <2>2 DEF RemoveDelete, TypeOK, HistoryOK, history
<1>13. CASE CheckInFind(r)
  <2>1. MayManage(call[r]) /\ Proceed(r, "lookup") => CheckedOK(r)'
    BY <1>13 DEF CheckInFind, At, CheckedOK, store, Booked, MayManage,
           Proceed, Goto, locals, TypeOK, RequestsOK
  <2>2. RequestsOK'
    BY <1>13, <2>1, CheckRequestsOK DEF CheckInFind, At, TypeOK, store, MayManage, CheckInOpen
  <2>3. QED BY <1>13, <2>2 DEF CheckInFind, TypeOK, TablesOK, HistoryOK, store, history
<1>14. CASE CheckInLookup(r)
  <2>1. RequestsOK'
    BY <1>14, AnswerRequestsOK DEF CheckInLookup, TypeOK, store, Booked
  <2>2. QED BY <1>14, <2>1 DEF CheckInLookup, TypeOK, TablesOK, HistoryOK, store, history
<1>15. QED
  BY <1>1, <1>2, <1>3, <1>4, <1>5, <1>6, <1>7, <1>8, <1>9, <1>10, <1>11, <1>12,
     <1>13, <1>14
  DEF ReservationStep, CreateReservation, CloseReservation, AddAttendee,
      RemoveAttendee, CheckIn

\* Every step of a room handler keeps the types.
LEMMA RoomStepTypeOK ==
    ASSUME TypeOK, NEW r \in Reqs, RoomStep(r)
    PROVE  TypeOK'
<1> USE DEF Labels, DbLabels, Free, Answers, ResvOps, AuditedOps, RoomOps
<1> DEFINE m == call[r].room
<1>0. call[r] \in Calls \cup {NoCall}
  BY DEF TypeOK, RequestsOK
<1>1. CASE RoomInsert(r)
  <2>1. pc[r] = "write" /\ call[r].op = "createRoom" /\ call[r] \in NewRoomCall
    BY <1>0, <1>1, CallShape DEF RoomInsert, At
  <2>2. call[r].cap \in Capacities /\ call[r].cap \in Nat /\ call[r].status \in RoomStatus
    BY <2>1, BookingAssumption DEF NewRoomCall
  <2>3. PICK n \in Rooms :
           /\ room' = [room EXCEPT ![n] = [status |-> call[r].status, cap |-> call[r].cap]]
           /\ peak' = [peak EXCEPT ![n] = call[r].cap]
           /\ call' = [call EXCEPT ![r].room = n]
    BY <1>1 DEF RoomInsert
  <2>4. TablesOK' /\ HistoryOK'
    BY <1>1, <2>2, <2>3 DEF RoomInsert, TypeOK, TablesOK, HistoryOK, RoomRow
  <2>5. call'[r] \in NewRoomCall /\ call'[r].op = "createRoom"
    BY <2>1, <2>3 DEF NewRoomCall, TypeOK, RequestsOK
  <2>6. call'[r] \in Calls /\ call'[r] # NoCall
    BY <2>5 DEF Calls, NoCall
  <2>7. call' \in [Reqs -> Calls \cup {NoCall}]
    BY <2>3, <2>6 DEF TypeOK, RequestsOK
  <2>8. ASSUME NEW q \in Reqs
        PROVE  (pc'[q] \in Free <=> call'[q] = NoCall) /\ CheckedOK(q)'
    <3>1. CASE q = r
      BY <1>1, <2>5, <2>6, <3>1 DEF RoomInsert, Goto, CheckedOK, At, TypeOK, RequestsOK
    <3>2. CASE q # r
      <4>1. pc'[q] = pc[q] /\ call'[q] = call[q] /\ made'[q] = made[q] /\ Booked' = Booked
        BY <1>1, <2>3, <3>2 DEF RoomInsert, Goto, TypeOK, RequestsOK, Booked
      <4>2. (pc[q] \in Free <=> call[q] = NoCall) /\ CheckedOK(q)
        BY DEF TypeOK, RequestsOK
      <4>3. QED BY <4>1, <4>2 DEF CheckedOK, At, GuestsOf
    <3>3. QED BY <3>1, <3>2
  <2>9. RequestsOK'
    BY <1>1, <2>7, <2>8 DEF RoomInsert, Goto, TypeOK, RequestsOK
  <2>10. QED BY <2>4, <2>9 DEF TypeOK
<1>2. CASE RoomFind(r)
  <2>1. call[r].op \in {"updateRoom", "setRoomStatus", "deleteRoom"} /\ pc[r] = "find"
    BY <1>2 DEF RoomFind, At
  <2> DEFINE label == IF call[r].op = "deleteRoom" THEN "count" ELSE "write"
  <2>2. label \in Labels /\ (Proceed(r, label) => CheckedOK(r)')
    BY <2>1 DEF CheckedOK, At, Proceed, Goto, locals, TypeOK, RequestsOK
  <2> HIDE DEF label
  <2>3. Check(r, RoomExists(m), label) /\ RoomExists(m) \in BOOLEAN /\ UNCHANGED resv
    BY <1>2 DEF RoomFind, store, RoomExists, label
  <2>4. RequestsOK'
    BY <2>1, <2>2, <2>3, CheckRequestsOK DEF TypeOK
  <2>5. QED BY <1>2, <2>4 DEF RoomFind, TypeOK, TablesOK, HistoryOK, store, history
<1>3. CASE RoomUpdate(r)
  <2>1. call[r].op \in {"updateRoom", "setRoomStatus"} /\ pc[r] = "write"
    BY <1>3 DEF RoomUpdate, At
  <2>2. /\ call[r] \in RoomCall /\ call[r].op # "deleteRoom" /\ m \in Rooms
        /\ call[r].cap \in Capacities \cup {KeepCap}
        /\ call[r].status \in RoomStatus \cup {Keep}
    BY <1>0, <2>1, CallShape DEF RoomCall
  <2>3. UNCHANGED resv /\ Booked' = Booked
    BY <1>3 DEF RoomUpdate, Booked
  <2>4. CASE Answer(r, "error") /\ UNCHANGED <<room, peak>>
    <3>1. RequestsOK'
      BY <2>3, <2>4, AnswerRequestsOK DEF TypeOK
    <3>2. QED BY <1>3, <2>4, <3>1 DEF RoomUpdate, TypeOK, TablesOK, HistoryOK
  <2>5. CASE /\ RoomExists(m)
             /\ room' = [room EXCEPT ![m] = Updated(room[m], call[r])]
             /\ peak' = [peak EXCEPT ![m] =
                   IF Updated(room[m], call[r]).cap > @
                   THEN Updated(room[m], call[r]).cap ELSE @]
             /\ Proceed(r, "audit")
    <3>1. CheckedOK(r)'
      BY <2>1, <2>5 DEF CheckedOK, At, Proceed, Goto, locals, TypeOK, RequestsOK
    <3>2. RequestsOK'
      BY <2>1, <2>3, <2>5, <3>1, ProceedRequestsOK DEF TypeOK
    <3>3. room[m] \in RoomRow /\ room[m].status \in RoomStatus
      BY <2>2, <2>5 DEF TypeOK, TablesOK, RoomExists
    <3>4. Updated(room[m], call[r]) \in RoomRow
      BY <2>2, <3>3 DEF Updated, RoomRow, KeepCap
    <3>5. Capacities \cup {0} \subseteq Nat
      BY BookingAssumption
    <3>6. Updated(room[m], call[r]).cap \in Nat
      BY <3>4, <3>5 DEF RoomRow
    <3>7. TablesOK' /\ HistoryOK'
      BY <1>3, <2>2, <2>5, <3>4, <3>6 DEF RoomUpdate, TypeOK, TablesOK, HistoryOK
    <3>8. QED BY <3>2, <3>7 DEF TypeOK
  <2>6. QED BY <1>3, <2>4, <2>5 DEF RoomUpdate
<1>4. CASE DeleteCount(r)
  <2>1. call[r].op = "deleteRoom" /\ pc[r] = "count"
    BY <1>4 DEF DeleteCount, At
  <2>2. Proceed(r, "write") => CheckedOK(r)'
    BY <2>1 DEF CheckedOK, At, Proceed, Goto, locals, TypeOK, RequestsOK
  <2>3. RequestsOK'
    BY <1>4, <2>1, <2>2, CheckRequestsOK DEF DeleteCount, TypeOK, store
  <2>4. QED BY <1>4, <2>3 DEF DeleteCount, TypeOK, TablesOK, HistoryOK, store, history
<1>5. CASE DeleteRoomRow(r)
  <2>1. call[r].op = "deleteRoom" /\ pc[r] = "write"
    BY <1>5 DEF DeleteRoomRow, At
  <2>2. m \in Rooms
    BY <1>0, <2>1, CallShape DEF RoomCall
  <2>3. UNCHANGED resv /\ Booked' = Booked
    BY <1>5 DEF DeleteRoomRow, Booked
  <2>4. CASE Answer(r, "error") /\ UNCHANGED room
    <3>1. RequestsOK'
      BY <2>3, <2>4, AnswerRequestsOK DEF TypeOK
    <3>2. QED BY <1>5, <2>4, <3>1 DEF DeleteRoomRow, TypeOK, TablesOK, HistoryOK, history
  <2>5. CASE room' = [room EXCEPT ![m].status = "deleted"] /\ Proceed(r, "audit")
    <3>1. CheckedOK(r)'
      BY <2>1, <2>5 DEF CheckedOK, At, Proceed, Goto, locals, TypeOK, RequestsOK
    <3>2. RequestsOK'
      BY <2>1, <2>3, <2>5, <3>1, ProceedRequestsOK DEF TypeOK
    <3>3. TablesOK' /\ HistoryOK'
      BY <1>5, <2>2, <2>5 DEF DeleteRoomRow, TypeOK, TablesOK, HistoryOK, history, RoomRow
    <3>4. QED BY <3>2, <3>3 DEF TypeOK
  <2>6. QED BY <1>5, <2>4, <2>5 DEF DeleteRoomRow
<1>6. QED
  BY <1>1, <1>2, <1>3, <1>4, <1>5 DEF RoomStep, DeleteRoom

\* So does every other step of the service.
LEMMA NextTypeOK == TypeOK /\ [Next]_vars => TypeOK'
<1> SUFFICES ASSUME TypeOK, [Next]_vars PROVE TypeOK'
  OBVIOUS
<1> USE DEF Labels, DbLabels, Free, Answers, ResvOps, AuditedOps, RoomOps
<1>1. ASSUME NEW r \in Reqs, Arrive(r)
      PROVE  TypeOK'
  <2>1. PICK c \in Calls :
           /\ call' = [call EXCEPT ![r] = c]
           /\ pc' = [pc EXCEPT ![r] = FirstLabel(c.op)]
           /\ c.op \in Ops /\ (c.op = "createRoom" => c.room = NoId)
    BY <1>1 DEF Arrive, Goto
  <2>2. c # NoCall
    BY DEF Calls, CreateCall, ResvCall, GuestCall, NewRoomCall, RoomCall, NoCall
  <2>3. ASSUME NEW q \in Reqs
        PROVE  (pc'[q] \in Free <=> call'[q] = NoCall) /\ CheckedOK(q)'
    <3>1. CASE q = r
      BY <2>1, <2>2, <3>1 DEF FirstLabel, CheckedOK, At, TypeOK, RequestsOK
    <3>2. CASE q # r
      <4>1. pc'[q] = pc[q] /\ call'[q] = call[q] /\ made'[q] = made[q] /\ Booked' = Booked
        BY <1>1, <2>1, <3>2 DEF Arrive, store, TypeOK, RequestsOK, Booked
      <4>2. (pc[q] \in Free <=> call[q] = NoCall) /\ CheckedOK(q)
        BY DEF TypeOK, RequestsOK
      <4>3. QED BY <4>1, <4>2 DEF CheckedOK, At, GuestsOf
    <3>3. QED BY <3>1, <3>2
  <2>4. RequestsOK'
    BY <1>1, <2>1, <2>3 DEF Arrive, FirstLabel, TypeOK, RequestsOK
  <2>5. QED BY <1>1, <2>4 DEF Arrive, TypeOK, TablesOK, HistoryOK, store, history
<1>2. ASSUME NEW r \in Reqs, TurnAway(r)
      PROVE  TypeOK'
  <2>1. RequestsOK'
    BY <1>2, AnswerRequestsOK DEF TurnAway, TypeOK, store, Booked
  <2>2. QED BY <1>2, <2>1 DEF TurnAway, TypeOK, TablesOK, HistoryOK, store, history
<1>3. ASSUME NEW r \in Reqs, WriteAudit(r)
      PROVE  TypeOK'
  <2>1. Booked' = Booked
    BY <1>3 DEF WriteAudit, Booked
  <2>2. CASE Answer(r, "ok")
    <3>1. RequestsOK'
      BY <2>1, <2>2, AnswerRequestsOK DEF TypeOK
    <3>2. QED BY <1>3, <3>1 DEF WriteAudit, TypeOK, TablesOK, HistoryOK, history
  <2>3. CASE Proceed(r, "mail") /\ call[r].op \notin RoomOps
    <3>1. CheckedOK(r)'
      BY <1>3, <2>1, <2>3
         DEF WriteAudit, CheckedOK, At, Proceed, Goto, locals, TypeOK, RequestsOK
    <3>2. RequestsOK'
      BY <1>3, <2>1, <2>3, <3>1, ProceedRequestsOK DEF WriteAudit, TypeOK
    <3>3. QED BY <1>3, <3>2 DEF WriteAudit, TypeOK, TablesOK, HistoryOK, history
  <2>4. QED BY <1>3, <2>2, <2>3 DEF WriteAudit
<1>4. ASSUME NEW r \in Reqs, SendMail(r)
      PROVE  TypeOK'
  <2>1. RequestsOK'
    BY <1>4, AnswerRequestsOK DEF SendMail, TypeOK, Booked
  <2>2. QED BY <1>4, <2>1 DEF SendMail, TypeOK, TablesOK, HistoryOK, history
<1>5. ASSUME NEW r \in Reqs, DbFails(r)
      PROVE  TypeOK'
  <2>1. RequestsOK'
    BY <1>5, AnswerRequestsOK DEF DbFails, TypeOK, store, Booked
  <2>2. QED BY <1>5, <2>1 DEF DbFails, TypeOK, TablesOK, HistoryOK, store
<1>6. ASSUME Crash
      PROVE  TypeOK'
  BY <1>6 DEF Crash, TypeOK, TablesOK, RequestsOK, HistoryOK, CheckedOK, At, store,
              NoCall, NoSeats
<1>7. ASSUME Tick
      PROVE  TypeOK'
  <2>1. TablesOK'
    BY <1>7, BookingAssumption DEF Tick, TypeOK, TablesOK, store
  <2>2. QED BY <1>7, <2>1 DEF Tick, TypeOK, RequestsOK, HistoryOK, CheckedOK, At,
                              GuestsOf, Booked, store, locals, history
<1>8. CASE UNCHANGED vars
  BY <1>8 DEF vars, TypeOK, TablesOK, RequestsOK, HistoryOK, CheckedOK, At, GuestsOf,
              Booked, store, locals, history
<1>9. QED
  BY <1>1, <1>2, <1>3, <1>4, <1>5, <1>6, <1>7, <1>8,
     ReservationStepTypeOK, RoomStepTypeOK
  DEF Next, Work

\* The initial tables and requests are well typed.
LEMMA InitTypeOK == Init => TypeOK
<1> SUFFICES ASSUME Init PROVE TypeOK
  OBVIOUS
<1>1. TablesOK
  BY BookingAssumption DEF Init, TablesOK, RoomRow, RoomStatus, NoRoom
<1>2. RequestsOK
  BY DEF Init, RequestsOK, CheckedOK, At, NoCall, NoSeats, Free, ResvOps
<1>3. HistoryOK
  <2>1. \A m \in Rooms : room[m].cap \in Nat
    BY <1>1, CapIsNat
  <2>2. QED BY <2>1 DEF Init, HistoryOK
<1>4. QED BY <1>1, <1>2, <1>3 DEF TypeOK

\* THEOREM.  For every set of rooms, reservations, users and slots, the
\* tables and the requests in flight stay well typed: no interleaving,
\* database error or crash makes a handler write what its checks forbid.
THEOREM TypeCorrect == Spec => []TypeOK
BY InitTypeOK, NextTypeOK, PTL DEF Spec

-------------------------------------------------------------------------------
(* Reservations only close. *)

\* A step that leaves the table alone closes nothing.
LEMMA UnchangedCloses ==
    ASSUME UNCHANGED resv
    PROVE  \A b \in Booked : OnlyCloses(b)
BY DEF OnlyCloses, Booked

\* The steps of a reservation handler.
LEMMA ReservationStepCloses ==
    ASSUME TypeOK, NEW r \in Reqs, ReservationStep(r), NEW b \in Booked
    PROVE  OnlyCloses(b)
<1> DEFINE t == call[r].resv
<1>1. b \in Resvs /\ resv[b] \in ResvRow /\ resv[b] # NoResv /\ resv \in [Resvs -> ResvRow \cup {NoResv}]
  BY DEF TypeOK, TablesOK, Booked
<1>2. CASE CreateInsert(r)
  <2>1. resv'[b] = resv[b]
    BY <1>1, <1>2 DEF CreateInsert, Booked
  <2>2. QED BY <1>1, <2>1 DEF OnlyCloses
<1>3. CASE CancelUpdate(r) \/ OverrideUpdate(r)
  <2>1. t \in Booked /\ Booked \subseteq Booked'
    BY <1>3, CloseTablesOK
       DEF CancelUpdate, OverrideUpdate, At, TypeOK, RequestsOK, CheckedOK, ResvOps
  <2>2. resv'[b] = resv[b] \/ resv'[b] = Cancelled(b) \/ resv'[b] = Overridden(b)
    BY <1>1, <1>3, <2>1 DEF CancelUpdate, OverrideUpdate, Booked
  <2>3. QED BY <1>1, <2>1, <2>2 DEF OnlyCloses, Cancelled, Overridden, ResvRow, Booked
<1>4. CASE AddInsert(r) \/ RemoveDelete(r)
  <2>1. t \in Booked /\ Booked \subseteq Booked'
    BY <1>4, GuestsTablesOK
       DEF AddInsert, RemoveDelete, At, TypeOK, RequestsOK, CheckedOK, ResvOps
  <2>2. CASE resv'[b] = resv[b]
    BY <1>1, <2>2 DEF OnlyCloses
  <2>3. CASE resv'[b] # resv[b]
    <3>1. PICK guests : resv'[b] = [resv[b] EXCEPT !.guests = guests]
      <4>1. CASE AddInsert(r)
        <5>1. resv'[b] = [resv[b] EXCEPT !.guests = resv[b].guests \cup {call[r].user}]
          BY <1>1, <2>3, <4>1 DEF AddInsert
        <5>2. QED BY <5>1
      <4>2. CASE RemoveDelete(r)
        <5>1. resv'[b] = [resv[b] EXCEPT !.guests = resv[b].guests \ {call[r].user}]
          BY <1>1, <2>3, <4>2 DEF RemoveDelete
        <5>2. QED BY <5>1
      <4>3. QED BY <1>4, <4>1, <4>2
    <3>2. resv'[b] # NoResv
      BY <2>1 DEF Booked
    <3>3. QED BY <1>1, <3>1, <3>2 DEF OnlyCloses, ResvRow
  <2>4. QED BY <2>2, <2>3
<1>5. CASE UNCHANGED resv
  BY <1>5, UnchangedCloses
<1>6. QED
  BY <1>2, <1>3, <1>4, <1>5
  DEF ReservationStep, CreateReservation, CloseReservation, AddAttendee,
      RemoveAttendee, CheckIn, CreateFindRoom, CreateCountUsers, CreateFindOverlap,
      CloseFind, AddFind, AddFindUser, RemoveFind, CheckInFind, CheckInLookup, store

\* Every step of the service.
LEMMA NextCloses ==
    ASSUME TypeOK, [Next]_vars
    PROVE  \A b \in Booked : OnlyCloses(b)
<1>1. ASSUME NEW r \in Reqs, ReservationStep(r)
      PROVE  \A b \in Booked : OnlyCloses(b)
  BY <1>1, ReservationStepCloses
<1>2. CASE UNCHANGED resv
  BY <1>2, UnchangedCloses
<1>3. ASSUME NEW r \in Reqs,
             \/ Arrive(r) \/ TurnAway(r) \/ RoomStep(r) \/ WriteAudit(r)
             \/ SendMail(r) \/ DbFails(r)
      PROVE  UNCHANGED resv
  BY <1>3 DEF Arrive, TurnAway, RoomStep, RoomInsert, RoomFind, RoomUpdate, DeleteRoom,
              DeleteCount, DeleteRoomRow, WriteAudit, SendMail, DbFails, store
<1>4. Crash \/ Tick \/ UNCHANGED vars => UNCHANGED resv
  BY DEF Crash, Tick, vars, store
<1>5. QED BY <1>1, <1>2, <1>3, <1>4 DEF Next, Work

\* THEOREM.  However handlers interleave and die, a reservation never comes
\* back to CONFIRMED, never disappears, and keeps its room and times.
THEOREM ReservationsClose == Spec => ReservationsOnlyClose
<1>1. TypeOK /\ [Next]_vars => [\A b \in Booked : OnlyCloses(b)]_vars
  BY NextCloses
<1>2. QED BY <1>1, TypeCorrect, PTL DEF Spec, ReservationsOnlyClose

-------------------------------------------------------------------------------
(* A double booking needs two creates that did not see each other. *)

\* What becomes of the rows a request saw, in one step.
SnapKept(q) ==
    /\ snap'[q] = snap[q]
    /\ At(q, "create", "write")' => At(q, "create", "write") /\ call'[q] = call[q]

SnapGone(q) == snap'[q] = {}

\* An answer drops what the request saw.
LEMMA AnswerSnap ==
    ASSUME RequestsOK, NEW r \in Reqs, NEW reply, Answer(r, reply), NEW q \in Reqs
    PROVE  SnapKept(q) \/ SnapGone(q)
<1>1. CASE q = r
  BY <1>1 DEF Answer, RequestsOK, SnapGone
<1>2. CASE q # r
  BY <1>2 DEF Answer, RequestsOK, SnapKept, At
<1>3. QED BY <1>1, <1>2

\* A step to another query keeps it.
LEMMA ProceedSnap ==
    ASSUME RequestsOK, NEW r \in Reqs, NEW label, Proceed(r, label), NEW q \in Reqs,
           label # "write" \/ call[r].op # "create"
    PROVE  SnapKept(q)
BY DEF Proceed, Goto, locals, RequestsOK, SnapKept, At

\* Every step of a reservation handler keeps or drops it, but the overlap query.
LEMMA ReservationStepSnap ==
    ASSUME TypeOK, NEW r \in Reqs, ReservationStep(r), NEW q \in Reqs
    PROVE  SnapKept(q) \/ SnapGone(q) \/ CreateFindOverlap(q)
<1> USE DEF At, TypeOK
<1>1. CASE CreateFindRoom(r) \/ CreateCountUsers(r)
  BY <1>1, AnswerSnap, ProceedSnap DEF CreateFindRoom, CreateCountUsers, Check
<1>2. CASE CreateFindOverlap(r)
  <2>1. CASE q = r
    BY <1>2, <2>1
  <2>2. CASE q # r
    BY <1>2, <2>2, AnswerSnap DEF CreateFindOverlap, SnapKept, Goto, RequestsOK
  <2>3. QED BY <2>1, <2>2
<1>3. CASE CreateInsert(r)
  <2>1. CASE Answer(r, "error")
    BY <2>1, AnswerSnap
  <2>2. CASE Goto(r, "mail") /\ UNCHANGED <<call, seats, snap>>
    BY <2>2 DEF SnapKept, Goto, RequestsOK
  <2>3. QED BY <1>3, <2>1, <2>2 DEF CreateInsert
<1>4. CASE CloseFind(r) \/ RemoveFind(r) \/ CheckInFind(r) \/ AddFindUser(r)
  BY <1>4, AnswerSnap, ProceedSnap DEF CloseFind, RemoveFind, CheckInFind, AddFindUser, Check
<1>5. CASE CancelUpdate(r) \/ OverrideUpdate(r)
  BY <1>5, ProceedSnap DEF CancelUpdate, OverrideUpdate
<1>6. CASE AddFind(r)
  <2>1. CASE Answer(r, "refused")
    BY <2>1, AnswerSnap
  <2>2. CASE Goto(r, "users") /\ UNCHANGED <<call, made, snap>>
    BY <2>2 DEF SnapKept, Goto, RequestsOK
  <2>3. QED BY <1>6, <2>1, <2>2 DEF AddFind
<1>7. CASE AddInsert(r) \/ RemoveDelete(r) \/ CheckInLookup(r)
  BY <1>7, AnswerSnap DEF AddInsert, RemoveDelete, CheckInLookup
<1>8. QED
  BY <1>1, <1>2, <1>3, <1>4, <1>5, <1>6, <1>7
  DEF ReservationStep, CreateReservation, CloseReservation, AddAttendee,
      RemoveAttendee, CheckIn

\* So does every other step.
LEMMA NextSnap ==
    ASSUME TypeOK, [Next]_vars, NEW q \in Reqs
    PROVE  SnapKept(q) \/ SnapGone(q) \/ CreateFindOverlap(q)
<1> USE DEF At, TypeOK
<1>1. ASSUME NEW r \in Reqs, Arrive(r)
      PROVE  SnapKept(q)
  <2>1. pc'[r] # "write" \/ call'[r].op = "createRoom"
    BY <1>1 DEF Arrive, Goto, FirstLabel, RequestsOK
  <2>2. QED BY <1>1, <2>1 DEF Arrive, Goto, SnapKept, RequestsOK
<1>2. ASSUME NEW r \in Reqs, TurnAway(r) \/ SendMail(r) \/ DbFails(r)
      PROVE  SnapKept(q) \/ SnapGone(q)
  BY <1>2, AnswerSnap DEF TurnAway, SendMail, DbFails
<1>3. ASSUME NEW r \in Reqs, WriteAudit(r)
      PROVE  SnapKept(q) \/ SnapGone(q)
  BY <1>3, AnswerSnap, ProceedSnap DEF WriteAudit
<1>4. ASSUME NEW r \in Reqs, RoomStep(r)
      PROVE  SnapKept(q) \/ SnapGone(q)
  <2>1. CASE RoomInsert(r)
    <3>1. call'[r].op = "createRoom" /\ \A p \in Reqs \ {r} : call'[p] = call[p]
      <4>1. PICK m : call' = [call EXCEPT ![r].room = m]
        BY <2>1 DEF RoomInsert
      <4>2. call[r] \in NewRoomCall /\ call[r].op = "createRoom"
        BY <2>1, CallShape DEF RoomInsert, RequestsOK
      <4>3. QED BY <4>1, <4>2 DEF NewRoomCall, RequestsOK
    <3>2. QED BY <2>1, <3>1 DEF RoomInsert, Goto, SnapKept, RequestsOK
  <2>2. CASE RoomFind(r) \/ DeleteCount(r)
    BY <2>2, AnswerSnap, ProceedSnap DEF RoomFind, DeleteCount, Check
  <2>3. CASE RoomUpdate(r) \/ DeleteRoomRow(r)
    BY <2>3, AnswerSnap, ProceedSnap DEF RoomUpdate, DeleteRoomRow
  <2>4. QED BY <1>4, <2>1, <2>2, <2>3 DEF RoomStep, DeleteRoom
<1>5. CASE Crash
  BY <1>5 DEF Crash, SnapGone
<1>6. CASE Tick \/ UNCHANGED vars
  BY <1>6 DEF Tick, vars, locals, SnapKept
<1>7. QED
  BY <1>1, <1>2, <1>3, <1>4, <1>5, <1>6, ReservationStepSnap DEF Next, Work

\* A reservation that did not clash with an input, or with another one, does
\* not start to.
LEMMA ClashOnlyClears ==
    ASSUME TypeOK, [Next]_vars
    PROVE  /\ \A a \in Booked : a \in Booked' /\ (a \in Confirmed' => a \in Confirmed)
           /\ \A c : \A a \in Booked : Clash(a, c)' => Clash(a, c)
           /\ \A a, b \in Booked : DoubleBooked(a, b)' => DoubleBooked(a, b)
<1>1. \A a \in Booked : OnlyCloses(a)
  BY NextCloses
<1>2. \A a \in Booked : a \in Booked' /\ (a \in Confirmed' => a \in Confirmed)
  BY <1>1 DEF OnlyCloses, Booked, Confirmed
<1>3. \A c : \A a \in Booked : Clash(a, c)' => Clash(a, c)
  BY <1>1, <1>2 DEF OnlyCloses, Clash
<1>4. \A a, b \in Booked : DoubleBooked(a, b)' => DoubleBooked(a, b)
  BY <1>1, <1>2 DEF OnlyCloses, DoubleBooked
<1>5. QED BY <1>2, <1>3, <1>4

\* What a request saw stays free of clashes until its insert.
LEMMA SnapInductive ==
    ASSUME TypeOK, SnapOK, [Next]_vars
    PROVE  SnapOK'
<1> SUFFICES ASSUME NEW q \in Reqs
             PROVE  /\ snap'[q] \subseteq Booked'
                    /\ At(q, "create", "write")' =>
                          \A a \in snap'[q] : ~ Clash(a, call[q])'
  BY DEF SnapOK
<1>1. CASE SnapKept(q)
  <2>1. snap[q] \subseteq Booked /\ snap'[q] = snap[q]
    BY <1>1 DEF SnapOK, SnapKept
  <2>2. ASSUME At(q, "create", "write")', NEW a \in snap'[q]
        PROVE  ~ Clash(a, call[q])'
    <3>1. ~ Clash(a, call[q]) /\ call'[q] = call[q]
      BY <1>1, <2>1, <2>2 DEF SnapOK, SnapKept
    <3>2. PICK c : c = call[q] /\ c = call'[q]
      BY <3>1
    <3>3. ~ Clash(a, c)'
      BY <2>1, <2>2, <3>1, <3>2, ClashOnlyClears
    <3>4. QED BY <3>2, <3>3 DEF Clash
  <2>3. QED BY <2>1, <2>2, ClashOnlyClears
<1>2. CASE SnapGone(q)
  BY <1>2 DEF SnapGone
<1>3. CASE CreateFindOverlap(q) /\ ~ SnapGone(q)
  <2>1. /\ \A b \in Resvs : ~ Clash(b, call[q])
        /\ snap'[q] = Booked
        /\ UNCHANGED <<call, resv>>
    BY <1>3 DEF CreateFindOverlap, Answer, SnapGone, TypeOK, RequestsOK, store
  <2>2. QED BY <2>1 DEF Clash, Booked, Confirmed
<1>4. QED BY <1>1, <1>2, <1>3, NextSnap

\* The history of a reservation is written once, by its insert.
LEMMA NextSeen ==
    ASSUME TypeOK, [Next]_vars
    PROVE  seen' = seen \/ \E r \in Reqs : CreateInsert(r)
<1>1. ASSUME NEW r \in Reqs, ReservationStep(r), ~ CreateInsert(r)
      PROVE  seen' = seen
  BY <1>1 DEF ReservationStep, CreateReservation, CloseReservation, AddAttendee,
      RemoveAttendee, CheckIn, CreateFindRoom, CreateCountUsers, CreateFindOverlap,
      CloseFind, CancelUpdate, OverrideUpdate, AddFind, AddFindUser, AddInsert,
      RemoveFind, RemoveDelete, CheckInFind, CheckInLookup, history
<1>2. ASSUME NEW r \in Reqs,
             \/ Arrive(r) \/ TurnAway(r) \/ RoomStep(r) \/ WriteAudit(r)
             \/ SendMail(r) \/ DbFails(r)
      PROVE  seen' = seen
  BY <1>2 DEF Arrive, TurnAway, RoomStep, RoomInsert, RoomFind, RoomUpdate, DeleteRoom,
              DeleteCount, DeleteRoomRow, WriteAudit, SendMail, DbFails, history
<1>3. Crash \/ Tick \/ UNCHANGED vars => seen' = seen
  BY DEF Crash, Tick, vars, history
<1>4. QED BY <1>1, <1>2, <1>3 DEF Next, Work

\* Only createReservation's insert makes a reservation.
LEMMA NextBooks ==
    ASSUME TypeOK, [Next]_vars, ~ \E r \in Reqs : CreateInsert(r)
    PROVE  Booked' \subseteq Booked
<1>1. CASE UNCHANGED resv
  BY <1>1 DEF Booked
<1>2. ASSUME NEW r \in Reqs, CancelUpdate(r) \/ OverrideUpdate(r) \/ AddInsert(r) \/ RemoveDelete(r)
      PROVE  Booked' \subseteq Booked
  <2>1. call[r].resv \in Booked
    BY <1>2 DEF CancelUpdate, OverrideUpdate, AddInsert, RemoveDelete, At,
                TypeOK, RequestsOK, CheckedOK, ResvOps
  <2>2. \A b \in Resvs : b # call[r].resv => resv'[b] = resv[b]
    BY <1>2 DEF CancelUpdate, OverrideUpdate, AddInsert, RemoveDelete, TypeOK, TablesOK
  <2>3. QED BY <2>1, <2>2 DEF Booked
<1>3. ASSUME NEW r \in Reqs, ReservationStep(r),
             ~ (CancelUpdate(r) \/ OverrideUpdate(r) \/ AddInsert(r) \/ RemoveDelete(r))
      PROVE  UNCHANGED resv
  BY <1>3 DEF ReservationStep, CreateReservation, CloseReservation, AddAttendee,
      RemoveAttendee, CheckIn, CreateFindRoom, CreateCountUsers, CreateFindOverlap,
      CloseFind, AddFind, AddFindUser, RemoveFind, CheckInFind, CheckInLookup, store
<1>4. ASSUME NEW r \in Reqs,
             \/ Arrive(r) \/ TurnAway(r) \/ RoomStep(r) \/ WriteAudit(r)
             \/ SendMail(r) \/ DbFails(r)
      PROVE  UNCHANGED resv
  BY <1>4 DEF Arrive, TurnAway, RoomStep, RoomInsert, RoomFind, RoomUpdate, DeleteRoom,
              DeleteCount, DeleteRoomRow, WriteAudit, SendMail, DbFails, store
<1>5. Crash \/ Tick \/ UNCHANGED vars => UNCHANGED resv
  BY DEF Crash, Tick, vars, store
<1>6. QED BY <1>1, <1>2, <1>3, <1>4, <1>5 DEF Next, Work

\* Sharing an instant is symmetric.
LEMMA DoubleBookedSymmetric ==
    ASSUME TypeOK, NEW a \in Resvs, NEW b \in Resvs, DoubleBooked(a, b)
    PROVE  DoubleBooked(b, a)
<1>1. resv[a] \in ResvRow /\ resv[b] \in ResvRow
  BY DEF DoubleBooked, Confirmed, Booked, TypeOK, TablesOK
<1>2. QED BY <1>1 DEF DoubleBooked, Overlaps, ResvRow

\* No reservation comes to be double booked with one its create saw.
LEMMA SeenInductive ==
    ASSUME TypeOK, SnapOK, SeenOK, [Next]_vars
    PROVE  SeenOK'
<1> SUFFICES ASSUME NEW b \in Resvs
             PROVE  /\ seen'[b] \subseteq Booked'
                    /\ \A a \in seen'[b] : ~ DoubleBooked(a, b)'
  BY DEF SeenOK
<1>1. CASE seen'[b] = seen[b] /\ (b \in Booked' => b \in Booked)
  <2>1. seen[b] \subseteq Booked /\ \A a \in seen[b] : ~ DoubleBooked(a, b)
    BY DEF SeenOK
  <2>2. \A a \in seen[b] : DoubleBooked(a, b)' => DoubleBooked(a, b)
    BY <1>1, <2>1, ClashOnlyClears DEF DoubleBooked, Confirmed
  <2>3. QED BY <1>1, <2>1, <2>2, ClashOnlyClears
<1>2. ASSUME NEW r \in Reqs, CreateInsert(r)
      PROVE  \/ seen'[b] = seen[b] /\ (b \in Booked' => b \in Booked)
             \/ /\ seen'[b] \subseteq Booked'
                /\ \A a \in seen'[b] : ~ DoubleBooked(a, b)'
  <2> DEFINE c == call[r]
  <2>1. CASE UNCHANGED <<resv, seen>>
    BY <2>1 DEF Booked
  <2>2. CASE \E n \in Resvs \ Booked :
                /\ resv' = [resv EXCEPT ![n] =
                      [status |-> "CONFIRMED", room |-> c.room, organizer |-> c.actor,
                       start |-> c.start, end |-> c.end, guests |-> GuestsOf(c)]]
                /\ seen' = [seen EXCEPT ![n] = snap[r]]
    <3>1. PICK n \in Resvs \ Booked :
                /\ resv' = [resv EXCEPT ![n] =
                      [status |-> "CONFIRMED", room |-> c.room, organizer |-> c.actor,
                       start |-> c.start, end |-> c.end, guests |-> GuestsOf(c)]]
                /\ seen' = [seen EXCEPT ![n] = snap[r]]
      BY <2>2
    <3>2. CASE n # b
      BY <3>1, <3>2 DEF TypeOK, TablesOK, HistoryOK, Booked
    <3>3. CASE n = b
      <4>1. seen'[b] = snap[r] /\ snap[r] \subseteq Booked
        BY <3>1, <3>3 DEF TypeOK, HistoryOK, SnapOK
      <4>2. ASSUME NEW a \in snap[r]
            PROVE  ~ DoubleBooked(a, b)'
        <5>1. ~ Clash(a, c)
          BY <1>2, <4>2 DEF CreateInsert, SnapOK
        <5>2. a \in Booked /\ a # b /\ resv'[a] = resv[a]
          BY <3>1, <3>3, <4>1, <4>2 DEF TypeOK, TablesOK, Booked
        <5>3. /\ resv'[b].room = c.room
              /\ resv'[b].start = c.start
              /\ resv'[b].end = c.end
          BY <3>1, <3>3 DEF TypeOK, TablesOK
        <5>4. QED
          BY <5>1, <5>2, <5>3 DEF DoubleBooked, Clash, Confirmed
      <4>3. QED BY <4>1, <4>2, ClashOnlyClears
    <3>4. QED BY <3>2, <3>3
  <2>3. QED BY <1>2, <2>1, <2>2 DEF CreateInsert
<1>3. CASE seen' = seen /\ ~ \E r \in Reqs : CreateInsert(r)
  <2>1. b \in Booked' => b \in Booked
    BY <1>3, NextBooks
  <2>2. QED BY <1>1, <1>3, <2>1
<1>4. QED BY <1>1, <1>2, <1>3, NextSeen

\* THEOREM.  Whatever the interleaving, a double booking is always the work of
\* two createReservation calls, neither of whose overlap queries could see the
\* other's row: the query itself never misses.
THEOREM DoubleBookingTakesTwo == Spec => []DoubleBookingNeedsRace
<1>1. Init => SnapOK /\ SeenOK
  BY DEF Init, SnapOK, SeenOK, At
<1>2. TypeOK /\ SnapOK /\ SeenOK /\ [Next]_vars => SnapOK' /\ SeenOK'
  BY SnapInductive, SeenInductive
<1>3. TypeOK /\ SeenOK => DoubleBookingNeedsRace
  BY DoubleBookedSymmetric DEF SeenOK, DoubleBookingNeedsRace
<1>4. QED BY <1>1, <1>2, <1>3, TypeCorrect, PTL DEF Spec

-------------------------------------------------------------------------------
(* Who moves in a step. *)

\* A step of one request.
RequestStep(r) ==
    Arrive(r) \/ TurnAway(r) \/ Work(r) \/ SendMail(r) \/ DbFails(r)

\* What the other requests hold when one moves.
Held(q) ==
    /\ pc'[q] = pc[q]
    /\ call'[q] = call[q]
    /\ seats'[q] = seats[q]
    /\ made'[q] = made[q]

\* An answer moves nobody else.
LEMMA AnswerHolds ==
    ASSUME RequestsOK, NEW r \in Reqs, NEW reply, Answer(r, reply), NEW q \in Reqs \ {r}
    PROVE  Held(q)
BY DEF RequestsOK, Answer, Held

\* Nor does a step to the next query.
LEMMA ProceedHolds ==
    ASSUME RequestsOK, NEW r \in Reqs, NEW label, Proceed(r, label), NEW q \in Reqs \ {r}
    PROVE  Held(q)
BY DEF RequestsOK, Proceed, Goto, locals, Held

\* A request keeps its place and its locals while another one moves.
LEMMA OthersHold ==
    ASSUME TypeOK, NEW r \in Reqs, RequestStep(r), NEW q \in Reqs \ {r}
    PROVE  Held(q)
<1> USE DEF TypeOK
<1>1. CASE Arrive(r)
  BY <1>1 DEF Arrive, Goto, RequestsOK, Held
<1>2. CASE TurnAway(r) \/ SendMail(r) \/ DbFails(r)
  BY <1>2, AnswerHolds DEF TurnAway, SendMail, DbFails
<1>3. CASE WriteAudit(r)
  BY <1>3, AnswerHolds, ProceedHolds DEF WriteAudit
<1>4. CASE RoomStep(r)
  <2>1. CASE RoomInsert(r)
    BY <2>1 DEF RoomInsert, Goto, RequestsOK, Held
  <2>2. CASE RoomFind(r) \/ DeleteCount(r)
    BY <2>2, AnswerHolds, ProceedHolds DEF RoomFind, DeleteCount, Check
  <2>3. CASE RoomUpdate(r) \/ DeleteRoomRow(r)
    BY <2>3, AnswerHolds, ProceedHolds DEF RoomUpdate, DeleteRoomRow
  <2>4. QED BY <1>4, <2>1, <2>2, <2>3 DEF RoomStep, DeleteRoom
<1>5. CASE CreateReservation(r)
  <2>1. CASE CreateFindRoom(r) \/ CreateCountUsers(r)
    BY <2>1, AnswerHolds, ProceedHolds DEF CreateFindRoom, CreateCountUsers, Check
  <2>2. CASE CreateFindOverlap(r)
    BY <2>2, AnswerHolds DEF CreateFindOverlap, Goto, RequestsOK, Held
  <2>3. CASE CreateInsert(r)
    <3>1. CASE Answer(r, "error")
      BY <3>1, AnswerHolds
    <3>2. CASE /\ Goto(r, "mail") /\ UNCHANGED <<call, seats, snap>>
               /\ \E b \in Resvs : made' = [made EXCEPT ![r] = b]
      BY <3>2 DEF Goto, RequestsOK, Held
    <3>3. QED BY <2>3, <3>1, <3>2 DEF CreateInsert
  <2>4. QED BY <1>5, <2>1, <2>2, <2>3 DEF CreateReservation
<1>6. CASE CloseReservation(r) \/ RemoveAttendee(r) \/ CheckIn(r)
  BY <1>6, AnswerHolds, ProceedHolds
     DEF CloseReservation, RemoveAttendee, CheckIn, CloseFind, CancelUpdate, OverrideUpdate,
         RemoveFind, RemoveDelete, CheckInFind, CheckInLookup, Check
<1>7. CASE AddAttendee(r)
  <2>1. CASE AddFind(r)
    BY <2>1, AnswerHolds DEF AddFind, Goto, RequestsOK, Held
  <2>2. CASE AddFindUser(r) \/ AddInsert(r)
    BY <2>2, AnswerHolds, ProceedHolds DEF AddFindUser, AddInsert, Check
  <2>3. QED BY <1>7, <2>1, <2>2 DEF AddAttendee
<1>8. QED
  BY <1>1, <1>2, <1>3, <1>4, <1>5, <1>6, <1>7 DEF RequestStep, Work, ReservationStep

-------------------------------------------------------------------------------
(* No reservation loses its room. *)

\* A row that a handler writes is in service or out of order.
LEMMA UpdatedStands ==
    ASSUME TypeOK, NEW r \in Reqs, NEW row \in RoomRow, row.status \in RoomStatus,
           call[r].op \in {"updateRoom", "setRoomStatus"}
    PROVE  Updated(row, call[r]).status \in RoomStatus
<1>1. call[r] \in RoomCall
  BY CallShape DEF TypeOK, RequestsOK
<1>2. call[r].status \in RoomStatus \cup {Keep}
  BY <1>1 DEF RoomCall
<1>3. QED BY <1>2 DEF Updated

\* A room goes only when no reservation is in it, and never back to unborn.
LEMMA RoomsStay ==
    ASSUME TypeOK, [Next]_vars, NEW m \in Rooms
    PROVE  /\ room[m].status = "deleted" => room'[m].status = "deleted"
           /\ room[m].status # "unborn" => room'[m].status # "unborn"
           /\ RoomExists(m) =>
                 RoomExists(m)' \/ (UNCHANGED resv /\ \A b \in Booked : resv[b].room # m)
<1> USE DEF RoomExists, RoomStatus
<1>1. CASE UNCHANGED room
  BY <1>1
<1>2. ASSUME NEW r \in Reqs, RoomInsert(r)
      PROVE  /\ room[m].status # "unborn" => room'[m] = room[m]
  BY <1>2 DEF RoomInsert, TypeOK, TablesOK
<1>3. ASSUME NEW r \in Reqs, RoomUpdate(r)
      PROVE  room'[m] = room[m] \/ (RoomExists(m) /\ RoomExists(m)')
  <2>1. call[r].op \in {"updateRoom", "setRoomStatus"}
    BY <1>3 DEF RoomUpdate, At
  <2>2. room'[m] = room[m] \/ (RoomExists(m) /\ room'[m] = Updated(room[m], call[r]))
    BY <1>3 DEF RoomUpdate, TypeOK, TablesOK
  <2>3. QED BY <2>1, <2>2, UpdatedStands DEF TypeOK, TablesOK
<1>4. ASSUME NEW r \in Reqs, DeleteRoomRow(r)
      PROVE  \/ room'[m] = room[m]
             \/ /\ RoomExists(m) /\ room'[m].status = "deleted"
                /\ UNCHANGED resv /\ \A b \in Booked : resv[b].room # m
  <2>1. CASE room' = room
    BY <2>1
  <2>2. CASE RowDeletable(call[r].room) /\ room' = [room EXCEPT ![call[r].room].status = "deleted"]
    <3>1. call[r].room # m => room'[m] = room[m]
      BY <2>2 DEF TypeOK, TablesOK
    <3>2. call[r].room = m => room'[m].status = "deleted"
      BY <2>2 DEF TypeOK, TablesOK, RoomRow
    <3>3. QED BY <1>4, <2>2, <3>1, <3>2 DEF RowDeletable, DeleteRoomRow
  <2>3. QED BY <1>4, <2>1, <2>2 DEF DeleteRoomRow
<1>5. ASSUME NEW r \in Reqs, RequestStep(r),
             ~ (RoomInsert(r) \/ RoomUpdate(r) \/ DeleteRoomRow(r))
      PROVE  UNCHANGED room
  BY <1>5 DEF RequestStep, Work, ReservationStep, CreateReservation, CloseReservation,
      AddAttendee, RemoveAttendee, CheckIn, CreateFindRoom, CreateCountUsers,
      CreateFindOverlap, CreateInsert, CloseFind, CancelUpdate, OverrideUpdate, AddFind,
      AddFindUser, AddInsert, RemoveFind, RemoveDelete, CheckInFind, CheckInLookup,
      Arrive, TurnAway, RoomStep, RoomFind, DeleteRoom, DeleteCount, WriteAudit, SendMail,
      DbFails, store
<1>6. Crash \/ Tick \/ UNCHANGED vars => UNCHANGED room
  BY DEF Crash, Tick, vars, store
<1>7. QED
  BY <1>1, <1>2, <1>3, <1>4, <1>5, <1>6 DEF Next, RequestStep

\* What the insert writes; every other step leaves each row's room.
LEMMA BooksInRoom ==
    ASSUME TypeOK, [Next]_vars, NEW b \in Booked'
    PROVE  \/ b \in Booked /\ resv'[b].room = resv[b].room
           \/ \E r \in Reqs :
                 /\ CreateInsert(r) /\ b \notin Booked
                 /\ RoomExists(call[r].room) /\ UNCHANGED room
                 /\ resv'[b] = [status |-> "CONFIRMED", room |-> call[r].room,
                                organizer |-> call[r].actor, start |-> call[r].start,
                                end |-> call[r].end, guests |-> GuestsOf(call[r])]
<1>1. CASE b \in Booked
  BY <1>1, NextCloses DEF OnlyCloses
<1>2. CASE b \notin Booked
  <2>1. PICK r \in Reqs : CreateInsert(r)
    BY <1>2, NextBooks
  <2>2. resv' # resv
    BY <1>2 DEF Booked
  <2>3. PICK a \in Resvs \ Booked :
           /\ RoomExists(call[r].room)
           /\ resv' = [resv EXCEPT ![a] =
                [status |-> "CONFIRMED", room |-> call[r].room, organizer |-> call[r].actor,
                 start |-> call[r].start, end |-> call[r].end, guests |-> GuestsOf(call[r])]]
    BY <2>1, <2>2 DEF CreateInsert
  <2>4. a = b
    BY <1>2, <2>3 DEF Booked, TypeOK, TablesOK
  <2>5. QED BY <1>2, <2>1, <2>3, <2>4 DEF CreateInsert, TypeOK, TablesOK, Booked
<1>3. QED BY <1>1, <1>2

\* A room with reservations is not deleted, and none is made without its room.
LEMMA RoomsInductive ==
    ASSUME TypeOK, RoomOfReservationExists, [Next]_vars
    PROVE  RoomOfReservationExists'
<1> SUFFICES ASSUME NEW b \in Booked' PROVE room'[resv'[b].room].status \in RoomStatus
  BY DEF RoomOfReservationExists, RoomExists
<1>1. CASE b \in Booked /\ resv'[b].room = resv[b].room
  <2>1. resv[b].room \in Rooms
    BY <1>1 DEF TypeOK, TablesOK, Booked, ResvRow
  <2>2. RoomExists(resv[b].room)
    BY <1>1 DEF RoomOfReservationExists
  <2>3. QED BY <1>1, <2>1, <2>2, RoomsStay DEF RoomExists
<1>2. ASSUME NEW r \in Reqs, RoomExists(call[r].room), UNCHANGED room,
             resv'[b] = [status |-> "CONFIRMED", room |-> call[r].room,
                         organizer |-> call[r].actor, start |-> call[r].start,
                         end |-> call[r].end, guests |-> GuestsOf(call[r])]
      PROVE  room'[resv'[b].room].status \in RoomStatus
  BY <1>2 DEF RoomExists
<1>3. QED BY <1>1, <1>2, BooksInRoom, Zenon

\* THEOREM.  The foreign key makes up for deleteRoom's count: whatever is
\* inserted between the count and the delete, no reservation loses its room.
THEOREM RoomsOfReservations == Spec => []RoomOfReservationExists
<1>1. Init => RoomOfReservationExists
  BY DEF Init, RoomOfReservationExists, Booked
<1>2. QED BY <1>1, RoomsInductive, TypeCorrect, PTL DEF Spec

-------------------------------------------------------------------------------
(* The audit log. *)

\* What is recorded, about to be recorded, or lost.
Log == audit \cup Owed \cup dropped

\* What each request is allowed to do, of what it was once checked for.
AllowedOK ==
    \A r \in Reqs :
        /\ call[r].op \in StaffOps => IsStaff(call[r].actor)
        /\ At(r, "cancel", "write") =>
              resv[call[r].resv].organizer = call[r].actor \/ IsStaff(call[r].actor)
        /\ pc[r] = "audit" => IsStaff(call[r].actor)

\* An input lasts as long as its request, but for the id of a new room.
LEMMA CallsStay ==
    ASSUME TypeOK, [Next]_vars, NEW q \in Reqs
    PROVE  \/ call'[q] = call[q]
           \/ call'[q] = NoCall
           \/ Arrive(q)
           \/ /\ RoomInsert(q)
              /\ call'[q].op = "createRoom" /\ call'[q].actor = call[q].actor
              /\ call[q].op = "createRoom"
<1>1. ASSUME NEW r \in Reqs, RequestStep(r), q # r
      PROVE  call'[q] = call[q]
  BY <1>1, OthersHold DEF Held
<1>2. ASSUME RequestStep(q), ~ Arrive(q), ~ RoomInsert(q)
      PROVE  call'[q] = call[q] \/ call'[q] = NoCall
  <2> USE DEF Check, Answer, Proceed, locals
  <2>1. ReservationStep(q) => call' = call \/ call' = [call EXCEPT ![q] = NoCall]
    BY DEF ReservationStep, CreateReservation, CloseReservation,
        AddAttendee, RemoveAttendee, CheckIn, CreateFindRoom, CreateCountUsers,
        CreateFindOverlap, CreateInsert, CloseFind, CancelUpdate, OverrideUpdate, AddFind,
        AddFindUser, AddInsert, RemoveFind, RemoveDelete, CheckInFind, CheckInLookup
  <2>2. RoomStep(q) => call' = call \/ call' = [call EXCEPT ![q] = NoCall]
    BY <1>2 DEF RoomStep, RoomFind, RoomUpdate, DeleteRoomRow, DeleteRoom, DeleteCount
  <2>3. TurnAway(q) \/ WriteAudit(q) \/ SendMail(q) \/ DbFails(q)
           => call' = call \/ call' = [call EXCEPT ![q] = NoCall]
    BY DEF TurnAway, WriteAudit, SendMail, DbFails
  <2>4. call' = call \/ call' = [call EXCEPT ![q] = NoCall]
    BY <1>2, <2>1, <2>2, <2>3 DEF RequestStep, Work
  <2>5. QED BY <2>4 DEF TypeOK, RequestsOK
<1>3. CASE RoomInsert(q)
  <2>1. call[q] \in NewRoomCall
    BY <1>3, CallShape DEF RoomInsert, At, TypeOK, RequestsOK
  <2>2. PICK m : call' = [call EXCEPT ![q].room = m]
    BY <1>3 DEF RoomInsert
  <2>3. QED BY <1>3, <2>1, <2>2 DEF RoomInsert, At, TypeOK, RequestsOK, NewRoomCall
<1>4. Crash => call'[q] = NoCall
  BY DEF Crash
<1>5. Tick \/ UNCHANGED vars => call'[q] = call[q]
  BY DEF Tick, vars, locals
<1>6. QED BY <1>1, <1>2, <1>3, <1>4, <1>5 DEF Next, RequestStep

\* A request comes to a label only by the step that leads there.
LEMMA ReachesAudit ==
    ASSUME TypeOK, [Next]_vars, NEW q \in Reqs, pc'[q] = "audit", pc[q] # "audit"
    PROVE  \/ (CancelUpdate(q) /\ IsStaff(call[q].actor)) \/ OverrideUpdate(q)
           \/ RoomInsert(q) \/ RoomUpdate(q) \/ DeleteRoomRow(q)
<1>1. ASSUME NEW r \in Reqs, RequestStep(r), q # r
      PROVE  FALSE
  BY <1>1, OthersHold DEF Held
<1>2. \A label : Goto(q, label) => pc'[q] = label
  BY DEF Goto, TypeOK, RequestsOK
<1>3. \A reply : Answer(q, reply) => pc'[q] = reply
  BY DEF Answer, TypeOK, RequestsOK
<1>4. CASE RequestStep(q)
  <2>1. ~ (Arrive(q) \/ TurnAway(q) \/ WriteAudit(q) \/ SendMail(q) \/ DbFails(q))
    BY <1>2, <1>3 DEF Arrive, TurnAway, WriteAudit, SendMail, DbFails, FirstLabel, Proceed
  <2>2. ~ (CreateReservation(q) \/ AddAttendee(q) \/ RemoveAttendee(q) \/ CheckIn(q)
            \/ CloseFind(q) \/ RoomFind(q) \/ DeleteCount(q))
    BY <1>2, <1>3 DEF CreateReservation, AddAttendee, RemoveAttendee, CheckIn, CreateFindRoom,
        CreateCountUsers, CreateFindOverlap, CreateInsert, CloseFind, AddFind, AddFindUser,
        AddInsert, RemoveFind, RemoveDelete, CheckInFind, CheckInLookup, RoomFind,
        DeleteCount, Check, Proceed
  <2>3. CancelUpdate(q) => IsStaff(call[q].actor)
    BY <1>2 DEF CancelUpdate, Proceed
  <2>4. QED
    BY <1>4, <2>1, <2>2, <2>3 DEF RequestStep, Work, ReservationStep, CloseReservation,
        RoomStep, DeleteRoom
<1>5. ~ Crash
  BY DEF Crash
<1>6. ~ (Tick \/ UNCHANGED vars)
  BY DEF Tick, vars
<1>7. QED BY <1>1, <1>4, <1>5, <1>6 DEF Next, RequestStep

\* A cancel about to write was let through by the checks on the row.
LEMMA ReachesCancel ==
    ASSUME TypeOK, [Next]_vars, NEW q \in Reqs, At(q, "cancel", "write")'
    PROVE  \/ At(q, "cancel", "write") /\ call'[q] = call[q]
           \/ CloseFind(q) /\ MayClose(call[q]) /\ call'[q] = call[q]
<1> USE DEF At
<1>1. ASSUME NEW r \in Reqs, RequestStep(r), q # r
      PROVE  At(q, "cancel", "write") /\ call'[q] = call[q]
  BY <1>1, OthersHold DEF Held
<1>2. \A label : Goto(q, label) => pc'[q] = label
  BY DEF Goto, TypeOK, RequestsOK
<1>3. \A reply : Answer(q, reply) => pc'[q] = reply
  BY DEF Answer, TypeOK, RequestsOK
<1>4. call'[q] = call[q] \/ Arrive(q)
  BY CallsStay DEF NoCall
<1>5. CASE RequestStep(q)
  <2>1. ~ (Arrive(q) \/ TurnAway(q) \/ WriteAudit(q) \/ SendMail(q) \/ DbFails(q))
    <3>1. ~ Arrive(q)
      BY <1>2 DEF Arrive, FirstLabel, TypeOK, RequestsOK
    <3>2. QED BY <1>2, <1>3, <3>1 DEF TurnAway, WriteAudit, SendMail, DbFails, Proceed, Answers
  <2>2. ~ RoomStep(q)
    BY <1>2, <1>3, <1>4, <2>1 DEF RoomStep, RoomInsert, RoomFind, RoomUpdate, DeleteRoom,
        DeleteCount, DeleteRoomRow
  <2>3. ~ (CreateReservation(q) \/ AddAttendee(q) \/ RemoveAttendee(q) \/ CheckIn(q)
            \/ CancelUpdate(q) \/ OverrideUpdate(q))
    BY <1>2, <1>3, <1>4, <2>1 DEF CreateReservation, AddAttendee, RemoveAttendee, CheckIn,
        CreateFindRoom, CreateCountUsers, CreateFindOverlap, CreateInsert, AddFind,
        AddFindUser, AddInsert, RemoveFind, RemoveDelete, CheckInFind, CheckInLookup,
        CancelUpdate, OverrideUpdate, Proceed
  <2>4. CloseFind(q)
    BY <1>5, <2>1, <2>2, <2>3 DEF RequestStep, Work, ReservationStep, CloseReservation
  <2>5. QED BY <1>3, <1>4, <2>1, <2>4 DEF CloseFind, Check
<1>6. ~ Crash
  BY DEF Crash
<1>7. Tick \/ UNCHANGED vars => At(q, "cancel", "write") /\ call'[q] = call[q]
  BY DEF Tick, vars, locals
<1>8. QED BY <1>1, <1>5, <1>6, <1>7 DEF Next, RequestStep

\* Only staff, or its organizer, get that far.
LEMMA AllowedInductive ==
    ASSUME TypeOK, AllowedOK, [Next]_vars
    PROVE  AllowedOK'
<1> SUFFICES ASSUME NEW q \in Reqs
             PROVE  /\ call'[q].op \in StaffOps => IsStaff(call'[q].actor)
                    /\ At(q, "cancel", "write")' =>
                          resv'[call'[q].resv].organizer = call'[q].actor
                             \/ IsStaff(call'[q].actor)
                    /\ pc'[q] = "audit" => IsStaff(call'[q].actor)
  BY DEF AllowedOK, IsStaff
<1>1. call'[q].op \in StaffOps => IsStaff(call'[q].actor)
  <2>1. CASE Arrive(q)
    BY <2>1 DEF Arrive, Admissible, TypeOK, RequestsOK
  <2>2. QED BY <2>1, CallsStay DEF AllowedOK, NoCall, StaffOps
<1>2. ASSUME At(q, "cancel", "write")'
      PROVE  resv'[call'[q].resv].organizer = call'[q].actor \/ IsStaff(call'[q].actor)
  <2>1. /\ call'[q] = call[q] /\ call[q].resv \in Booked
        /\ resv[call[q].resv].organizer = call[q].actor \/ IsStaff(call[q].actor)
    <3>1. CASE At(q, "cancel", "write") /\ call'[q] = call[q]
      BY <3>1 DEF At, AllowedOK, TypeOK, RequestsOK, CheckedOK, ResvOps
    <3>2. CASE CloseFind(q) /\ MayClose(call[q]) /\ call'[q] = call[q]
      BY <1>2, <3>2 DEF MayClose, At
    <3>3. QED BY <1>2, <3>1, <3>2, ReachesCancel
  <2>2. resv'[call[q].resv].organizer = resv[call[q].resv].organizer
    BY <2>1, NextCloses DEF OnlyCloses
  <2>3. QED BY <2>1, <2>2
<1>3. ASSUME pc'[q] = "audit"
      PROVE  IsStaff(call'[q].actor)
  <2>1. CASE pc[q] = "audit"
    <3>1. call[q].op \in AuditedOps /\ IsStaff(call[q].actor)
      BY <2>1 DEF AllowedOK, TypeOK, RequestsOK, CheckedOK
    <3>2. ~ Arrive(q) /\ call'[q] # NoCall
      BY <1>3, <2>1, NextTypeOK DEF Arrive, TypeOK, RequestsOK, Free, Answers
    <3>3. QED BY <3>1, <3>2, CallsStay
  <2>2. CASE pc[q] # "audit"
    <3>1. \/ (CancelUpdate(q) /\ IsStaff(call[q].actor)) \/ OverrideUpdate(q)
          \/ RoomInsert(q) \/ RoomUpdate(q) \/ DeleteRoomRow(q)
      BY <1>3, <2>2, ReachesAudit
    <3>2. IsStaff(call[q].actor)
      BY <3>1 DEF AllowedOK, StaffOps, At, OverrideUpdate, RoomInsert, RoomUpdate, DeleteRoomRow
    <3>3. ~ Arrive(q) /\ call'[q] # NoCall
      BY <1>3, <3>1, NextTypeOK DEF Arrive, TypeOK, RequestsOK, Free, Answers, CancelUpdate,
         OverrideUpdate, RoomInsert, RoomUpdate, DeleteRoomRow, At
    <3>4. QED BY <3>2, <3>3, CallsStay
  <2>3. QED BY <2>1, <2>2
<1>4. QED BY <1>1, <1>2, <1>3

\* While a row is owed, the request that owes it keeps its input.
LEMMA OwedStays ==
    ASSUME TypeOK, [Next]_vars, NEW q \in Reqs, pc[q] = "audit", pc'[q] = "audit"
    PROVE  call'[q] = call[q]
<1>1. ~ Arrive(q) /\ ~ RoomInsert(q)
  BY DEF Arrive, RoomInsert, At, Free, Answers
<1>2. call'[q] # NoCall
  BY NextTypeOK DEF TypeOK, RequestsOK, Free, Answers
<1>3. QED BY <1>1, <1>2, CallsStay

\* A request that owes its row leaves by writing it or by a fault.
LEMMA OwedLeaves ==
    ASSUME TypeOK, NEW q \in Reqs, pc[q] = "audit", RequestStep(q)
    PROVE  WriteAudit(q) \/ DbFails(q)
BY DEF RequestStep, Work, ReservationStep, CreateReservation, CloseReservation,
    AddAttendee, RemoveAttendee, CheckIn, CreateFindRoom, CreateCountUsers,
    CreateFindOverlap, CreateInsert, CloseFind, CancelUpdate, OverrideUpdate, AddFind,
    AddFindUser, AddInsert, RemoveFind, RemoveDelete, CheckInFind, CheckInLookup,
    Arrive, TurnAway, RoomStep, RoomInsert, RoomFind, RoomUpdate, DeleteRoomRow, DeleteRoom,
    DeleteCount, SendMail, At, Free, Answers

\* What each step writes down.
LEMMA LogSteps ==
    ASSUME TypeOK, [Next]_vars
    PROVE  \/ UNCHANGED <<audit, dropped>>
           \/ \E r \in Reqs : /\ pc[r] = "audit" /\ UNCHANGED dropped
                              /\ WriteAudit(r) /\ audit' = audit \cup {Entry(call[r])}
           \/ \E r \in Reqs : /\ DbFails(r) /\ UNCHANGED audit
                              /\ dropped' = dropped \cup
                                    {Entry(call[q]) : q \in {p \in {r} : pc[p] = "audit"}}
           \/ Crash /\ UNCHANGED audit /\ dropped' = dropped \cup Owed
<1>1. ASSUME NEW r \in Reqs, RequestStep(r), ~ WriteAudit(r), ~ DbFails(r)
      PROVE  UNCHANGED <<audit, dropped>>
  BY <1>1 DEF RequestStep, Work, ReservationStep, CreateReservation, CloseReservation,
      AddAttendee, RemoveAttendee, CheckIn, CreateFindRoom, CreateCountUsers,
      CreateFindOverlap, CreateInsert, CloseFind, CancelUpdate, OverrideUpdate, AddFind,
      AddFindUser, AddInsert, RemoveFind, RemoveDelete, CheckInFind, CheckInLookup,
      Arrive, TurnAway, RoomStep, RoomInsert, RoomFind, RoomUpdate, DeleteRoomRow,
      DeleteRoom, DeleteCount, SendMail, store, history
<1>2. \A r \in Reqs : WriteAudit(r) =>
         pc[r] = "audit" /\ UNCHANGED dropped /\ audit' = audit \cup {Entry(call[r])}
  BY DEF WriteAudit, history
<1>3. \A r \in Reqs : DbFails(r) =>
         /\ UNCHANGED audit
         /\ dropped' = dropped \cup {Entry(call[q]) : q \in {p \in {r} : pc[p] = "audit"}}
  BY DEF DbFails, store
<1>4. Crash => UNCHANGED audit /\ dropped' = dropped \cup Owed
  BY DEF Crash, store
<1>5. Tick \/ UNCHANGED vars => UNCHANGED <<audit, dropped>>
  BY DEF Tick, vars, store, history
<1>6. QED BY <1>1, <1>2, <1>3, <1>4, <1>5 DEF Next, RequestStep

\* Nothing recorded or owed is forgotten.
LEMMA LogGrows ==
    ASSUME TypeOK, [Next]_vars
    PROVE  Log \subseteq Log'
<1>1. audit \subseteq audit' /\ dropped \subseteq dropped'
  BY LogSteps
<1>2. ASSUME NEW q \in Reqs, pc[q] = "audit"
      PROVE  Entry(call[q]) \in Log'
  <2>1. CASE pc'[q] = "audit"
    <3>1. call'[q] = call[q]
      BY <1>2, <2>1, OwedStays
    <3>2. Entry(call'[q]) \in Owed'
      BY <2>1 DEF Owed, Entry, AuditAction
    <3>3. QED BY <3>1, <3>2 DEF Log
  <2>2. CASE pc'[q] # "audit"
    <3>1. WriteAudit(q) \/ DbFails(q) \/ Crash
      <4>1. ASSUME NEW r \in Reqs, RequestStep(r) PROVE r = q
        BY <1>2, <2>2, <4>1, OthersHold DEF Held
      <4>2. ~ (Tick \/ UNCHANGED vars)
        BY <1>2, <2>2 DEF Tick, vars
      <4>3. QED BY <1>2, <4>1, <4>2, OwedLeaves DEF Next, RequestStep
    <3>2. CASE WriteAudit(q)
      BY <3>2 DEF WriteAudit, Log
    <3>3. CASE DbFails(q)
      BY <1>2, <3>3 DEF DbFails, Log
    <3>4. CASE Crash
      BY <1>2, <3>4 DEF Crash, Log, Owed
    <3>5. QED BY <3>1, <3>2, <3>3, <3>4
  <2>3. QED BY <2>1, <2>2
<1>3. QED BY <1>1, <1>2 DEF Log, Owed

\* What it gains is owed by a request that has just changed a table.
LEMMA LogGains ==
    ASSUME TypeOK, [Next]_vars, NEW e \in Log'
    PROVE  \/ e \in Log
           \/ \E q \in Reqs : e = Entry(call'[q]) /\ pc'[q] = "audit" /\ pc[q] # "audit"
<1>1. ASSUME NEW q \in Reqs, pc'[q] = "audit", e = Entry(call'[q])
      PROVE  e \in Log \/ pc[q] # "audit"
  BY <1>1, OwedStays DEF Log, Owed
<1>2. CASE e \in Owed'
  BY <1>1, <1>2 DEF Owed, Entry, AuditAction
<1>3. CASE e \in audit' \cup dropped'
  <2>1. CASE UNCHANGED <<audit, dropped>>
    BY <1>3, <2>1 DEF Log
  <2>2. ASSUME NEW r \in Reqs, pc[r] = "audit", UNCHANGED dropped,
               audit' = audit \cup {Entry(call[r])}
        PROVE  e \in Log
    BY <1>3, <2>2 DEF Log, Owed
  <2>3. ASSUME NEW r \in Reqs, UNCHANGED audit,
               dropped' = dropped \cup {Entry(call[q]) : q \in {p \in {r} : pc[p] = "audit"}}
        PROVE  e \in Log
    BY <1>3, <2>3 DEF Log, Owed
  <2>4. CASE UNCHANGED audit /\ dropped' = dropped \cup Owed
    BY <1>3, <2>4 DEF Log
  <2>5. QED BY <2>1, <2>2, <2>3, <2>4, LogSteps
<1>4. QED BY <1>2, <1>3 DEF Log

\* How a reservation comes to be closed.
LEMMA Closes ==
    ASSUME TypeOK, [Next]_vars, NEW b \in Booked', resv'[b].status # "CONFIRMED"
    PROVE  /\ b \in Booked
           /\ \/ resv'[b].status = resv[b].status
              \/ \E r \in Reqs : /\ CancelUpdate(r) /\ call[r].resv = b
                                 /\ resv'[b].status = "CANCELLED"
              \/ \E r \in Reqs : /\ OverrideUpdate(r) /\ call[r].resv = b
                                 /\ resv'[b].status = "OVERRIDDEN"
<1>1. b \in Booked
  <2>1. ASSUME NEW r \in Reqs,
               resv'[b] = [status |-> "CONFIRMED", room |-> call[r].room,
                                organizer |-> call[r].actor, start |-> call[r].start,
                                end |-> call[r].end, guests |-> GuestsOf(call[r])]
        PROVE  FALSE
    BY <2>1
  <2>2. QED BY <2>1, BooksInRoom, Zenon
<1>2. b \in Resvs /\ resv[b] \in ResvRow /\ resv \in [Resvs -> ResvRow \cup {NoResv}]
  BY <1>1 DEF Booked, TypeOK, TablesOK
<1>3. ASSUME NEW r \in Reqs, CancelUpdate(r), resv'[b] # resv[b]
      PROVE  call[r].resv = b /\ resv'[b].status = "CANCELLED"
  BY <1>2, <1>3 DEF CancelUpdate, Cancelled, ResvRow
<1>4. ASSUME NEW r \in Reqs, OverrideUpdate(r), resv'[b] # resv[b]
      PROVE  call[r].resv = b /\ resv'[b].status = "OVERRIDDEN"
  BY <1>2, <1>4 DEF OverrideUpdate, Overridden, ResvRow
<1>5. ASSUME NEW r \in Reqs, AddInsert(r) \/ RemoveDelete(r), resv'[b] # resv[b]
      PROVE  resv'[b].status = resv[b].status
  <2>1. PICK guests : resv'[b] = [resv[b] EXCEPT !.guests = guests]
    <3>1. CASE AddInsert(r)
      <4>1. resv'[b] = [resv[b] EXCEPT !.guests = resv[b].guests \cup {call[r].user}]
        BY <1>2, <1>5, <3>1 DEF AddInsert
      <4>2. QED BY <4>1
    <3>2. CASE RemoveDelete(r)
      <4>1. resv'[b] = [resv[b] EXCEPT !.guests = resv[b].guests \ {call[r].user}]
        BY <1>2, <1>5, <3>2 DEF RemoveDelete
      <4>2. QED BY <4>1
    <3>3. QED BY <1>5, <3>1, <3>2
  <2>2. QED BY <1>2, <2>1 DEF ResvRow
<1>6. ASSUME NEW r \in Reqs, CreateInsert(r)
      PROVE  resv'[b] = resv[b]
  BY <1>1, <1>2, <1>6 DEF CreateInsert, Booked
<1>7. ASSUME NEW r \in Reqs, RequestStep(r), ~ CreateInsert(r), ~ CancelUpdate(r),
             ~ OverrideUpdate(r), ~ AddInsert(r), ~ RemoveDelete(r)
      PROVE  UNCHANGED resv
  BY <1>7 DEF RequestStep, Work, ReservationStep, CreateReservation, CloseReservation,
      AddAttendee, RemoveAttendee, CheckIn, CreateFindRoom, CreateCountUsers,
      CreateFindOverlap, CloseFind, AddFind, AddFindUser, RemoveFind, CheckInFind,
      CheckInLookup, Arrive, TurnAway, RoomStep, RoomInsert, RoomFind, RoomUpdate,
      DeleteRoomRow, DeleteRoom, DeleteCount, WriteAudit, SendMail, DbFails, store
<1>8. Crash \/ Tick \/ UNCHANGED vars => UNCHANGED resv
  BY DEF Crash, Tick, vars, store
<1>9. QED
  BY <1>1, <1>3, <1>4, <1>5, <1>6, <1>7, <1>8 DEF Next, RequestStep

\* The request that changes a room owes a row that names it.
LEMMA RoomChanges ==
    ASSUME TypeOK, [Next]_vars, NEW m \in Rooms, room'[m] # room[m]
    PROVE  \E r \in Reqs :
              /\ pc[r] = "write" /\ pc'[r] = "audit" /\ call'[r].room = m
              /\ call'[r].actor = call[r].actor
              /\ \/ /\ room'[m].status = "deleted" /\ call'[r].op = "deleteRoom"
                    /\ call[r].op = "deleteRoom"
                 \/ /\ room'[m].status \in RoomStatus
                    /\ call'[r].op \in {"createRoom", "updateRoom", "setRoomStatus"}
                    /\ call[r].op = call'[r].op
<1>1. ASSUME NEW r \in Reqs, RoomInsert(r)
      PROVE  /\ pc[r] = "write" /\ pc'[r] = "audit" /\ call'[r].room = m
             /\ call'[r].actor = call[r].actor
             /\ room'[m].status \in RoomStatus
             /\ call'[r].op = "createRoom" /\ call[r].op = "createRoom"
  <2>1. PICK n \in Rooms : /\ room' = [room EXCEPT ![n] =
                                  [status |-> call[r].status, cap |-> call[r].cap]]
                           /\ call' = [call EXCEPT ![r].room = n]
    BY <1>1 DEF RoomInsert
  <2>2. n = m
    BY <2>1 DEF TypeOK, TablesOK
  <2>3. call[r] \in NewRoomCall
    BY <1>1, CallShape DEF RoomInsert, At, TypeOK, RequestsOK
  <2>4. /\ call'[r] = [call[r] EXCEPT !.room = m]
        /\ room'[m] = [status |-> call[r].status, cap |-> call[r].cap]
    BY <2>1, <2>2 DEF TypeOK, TablesOK, RequestsOK
  <2>5. call'[r].room = m /\ call'[r].actor = call[r].actor /\ call'[r].op = call[r].op
        /\ call[r].status \in RoomStatus
    BY <2>3, <2>4 DEF NewRoomCall
  <2>6. pc[r] = "write" /\ pc'[r] = "audit" /\ call[r].op = "createRoom"
    BY <1>1 DEF RoomInsert, At, Goto, TypeOK, RequestsOK
  <2>7. room'[m].status = call[r].status
    BY <2>4
  <2>8. QED BY <2>5, <2>6, <2>7
<1>2. ASSUME NEW r \in Reqs, RoomUpdate(r)
      PROVE  /\ pc[r] = "write" /\ pc'[r] = "audit" /\ call'[r].room = m
             /\ call'[r] = call[r]
             /\ room'[m].status \in RoomStatus
             /\ call[r].op \in {"updateRoom", "setRoomStatus"}
  <2>1. /\ pc[r] = "write" /\ call[r].op \in {"updateRoom", "setRoomStatus"}
        /\ RoomExists(call[r].room) /\ Proceed(r, "audit")
        /\ room' = [room EXCEPT ![call[r].room] = Updated(room[call[r].room], call[r])]
    BY <1>2 DEF RoomUpdate, At
  <2>2. call[r].room = m /\ room'[m] = Updated(room[m], call[r])
    BY <2>1 DEF TypeOK, TablesOK
  <2>3. room'[m].status \in RoomStatus
    BY <2>1, <2>2, UpdatedStands DEF TypeOK, TablesOK, RoomExists
  <2>4. pc'[r] = "audit" /\ call' = call
    BY <2>1 DEF Proceed, Goto, locals, TypeOK, RequestsOK
  <2>5. QED BY <2>1, <2>2, <2>3, <2>4
<1>3. ASSUME NEW r \in Reqs, DeleteRoomRow(r)
      PROVE  /\ pc[r] = "write" /\ pc'[r] = "audit" /\ call'[r].room = m
             /\ call'[r] = call[r]
             /\ room'[m].status = "deleted"
             /\ call[r].op = "deleteRoom"
  <2>1. /\ pc[r] = "write" /\ call[r].op = "deleteRoom"
        /\ Proceed(r, "audit")
        /\ room' = [room EXCEPT ![call[r].room].status = "deleted"]
    BY <1>3 DEF DeleteRoomRow, At
  <2>2. call[r].room = m /\ room'[m].status = "deleted"
    BY <2>1 DEF TypeOK, TablesOK, RoomRow
  <2>3. pc'[r] = "audit" /\ call' = call
    BY <2>1 DEF Proceed, Goto, locals, TypeOK, RequestsOK
  <2>4. QED BY <2>1, <2>2, <2>3
<1>4. ASSUME NEW r \in Reqs, RequestStep(r),
             ~ (RoomInsert(r) \/ RoomUpdate(r) \/ DeleteRoomRow(r))
      PROVE  UNCHANGED room
  BY <1>4 DEF RequestStep, Work, ReservationStep, CreateReservation, CloseReservation,
      AddAttendee, RemoveAttendee, CheckIn, CreateFindRoom, CreateCountUsers,
      CreateFindOverlap, CreateInsert, CloseFind, CancelUpdate, OverrideUpdate, AddFind,
      AddFindUser, AddInsert, RemoveFind, RemoveDelete, CheckInFind, CheckInLookup,
      Arrive, TurnAway, RoomStep, RoomFind, DeleteRoom, DeleteCount, WriteAudit, SendMail,
      DbFails, store
<1>5. Crash \/ Tick \/ UNCHANGED vars => UNCHANGED room
  BY DEF Crash, Tick, vars, store
<1>6. PICK r \in Reqs : RoomInsert(r) \/ RoomUpdate(r) \/ DeleteRoomRow(r)
  BY <1>4, <1>5 DEF Next, RequestStep
<1>7. QED BY <1>1, <1>2, <1>3, <1>6

\* What a staff member's request has just committed is owed its row.
LEMMA OwedIsRecorded ==
    ASSUME NEW r \in Reqs, pc'[r] = "audit", IsStaff(call'[r].actor), Log \subseteq Log'
    PROVE  Recorded(Log', AuditAction(call'[r].op),
                    IF call'[r].op \in RoomOps THEN call'[r].room ELSE call'[r].resv)
<1>1. Entry(call'[r]) \in Owed'
  BY DEF Owed, Entry, AuditAction
<1>2. Entry(call'[r]) \in Log'
  BY <1>1 DEF Log
<1>3. QED BY <1>2 DEF Entry, Recorded, IsStaff

\* SAFETY.  AuditLostOnlyByFault, however requests interleave, fail and die.
LEMMA AuditInductive ==
    ASSUME TypeOK, AllowedOK, StaffChangesIn(Log), [Next]_vars
    PROVE  StaffChangesIn(Log)'
<1>1. Log \subseteq Log'
  BY LogGrows
<1>2. \A action, entity : Recorded(Log, action, entity) => Recorded(Log', action, entity)
  BY <1>1 DEF Recorded
<1>3. ASSUME NEW b \in Booked', resv'[b].status = "OVERRIDDEN"
      PROVE  Recorded(Log', "RESERVATION_OVERRIDDEN", b)
  <2>1. CASE b \in Booked /\ resv[b].status = resv'[b].status
    BY <1>2, <1>3, <2>1 DEF StaffChangesIn
  <2>2. ASSUME NEW r \in Reqs, OverrideUpdate(r), call[r].resv = b
        PROVE  Recorded(Log', "RESERVATION_OVERRIDDEN", b)
    <3>1. pc'[r] = "audit" /\ call' = call /\ call[r].op = "override"
      BY <2>2 DEF OverrideUpdate, Proceed, Goto, locals, At, TypeOK, RequestsOK
    <3>2. IsStaff(call[r].actor)
      BY <3>1 DEF AllowedOK, StaffOps
    <3>3. QED BY <1>1, <2>2, <3>1, <3>2, OwedIsRecorded DEF AuditAction, RoomOps
  <2>3. QED BY <1>3, <2>1, <2>2, Closes
<1>4. ASSUME NEW b \in Booked', resv'[b].status = "CANCELLED", IsStaff(resv'[b].organizer)
      PROVE  Recorded(Log', "RESERVATION_CANCELLED", b)
  <2>1. b \in Booked /\ resv'[b].organizer = resv[b].organizer
    BY <1>4, Closes, NextCloses DEF OnlyCloses
  <2>2. CASE resv[b].status = resv'[b].status
    BY <1>2, <1>4, <2>1, <2>2 DEF StaffChangesIn
  <2>3. ASSUME NEW r \in Reqs, CancelUpdate(r), call[r].resv = b
        PROVE  Recorded(Log', "RESERVATION_CANCELLED", b)
    <3>1. At(r, "cancel", "write")
      BY <2>3 DEF CancelUpdate
    <3>2. IsStaff(call[r].actor)
      BY <1>4, <2>1, <2>3, <3>1 DEF AllowedOK
    <3>3. pc'[r] = "audit" /\ call' = call /\ call[r].op = "cancel"
      BY <2>3, <3>1, <3>2 DEF CancelUpdate, Proceed, Goto, locals, At, TypeOK, RequestsOK
    <3>4. QED BY <1>1, <2>3, <3>2, <3>3, OwedIsRecorded DEF AuditAction, RoomOps
  <2>4. QED BY <1>4, <2>2, <2>3, Closes
<1>5. ASSUME NEW m \in Rooms, room'[m] # room[m]
      PROVE  \/ room'[m].status = "deleted" /\ Recorded(Log', "ROOM_DELETED", m)
             \/ /\ room'[m].status \in RoomStatus
                /\ \E action \in {"ROOM_CREATED", "ROOM_UPDATED", "ROOM_STATUS_CHANGED"} :
                      Recorded(Log', action, m)
  <2>1. PICK r \in Reqs :
              /\ pc[r] = "write" /\ pc'[r] = "audit" /\ call'[r].room = m
              /\ call'[r].actor = call[r].actor
              /\ \/ /\ room'[m].status = "deleted" /\ call'[r].op = "deleteRoom"
                    /\ call[r].op = "deleteRoom"
                 \/ /\ room'[m].status \in RoomStatus
                    /\ call'[r].op \in {"createRoom", "updateRoom", "setRoomStatus"}
                    /\ call[r].op = call'[r].op
    BY <1>5, RoomChanges
  <2>2. IsStaff(call'[r].actor)
    BY <2>1 DEF AllowedOK, StaffOps
  <2>3. Recorded(Log', AuditAction(call'[r].op), m)
    BY <1>1, <2>1, <2>2, OwedIsRecorded DEF RoomOps
  <2>4. QED BY <2>1, <2>3 DEF AuditAction
<1>6. ASSUME NEW m \in Rooms, room'[m].status = "deleted"
      PROVE  Recorded(Log', "ROOM_DELETED", m)
  BY <1>2, <1>5, <1>6 DEF StaffChangesIn, RoomStatus
<1>7. ASSUME NEW m \in Rooms, room'[m].status = "OUT_OF_ORDER"
      PROVE  \E action \in {"ROOM_CREATED", "ROOM_UPDATED", "ROOM_STATUS_CHANGED"} :
                Recorded(Log', action, m)
  BY <1>2, <1>5, <1>7 DEF StaffChangesIn
<1>8. QED BY <1>3, <1>4, <1>6, <1>7 DEF StaffChangesIn, Recorded, IsStaff

\* THEOREM.  Rule 6 of the service as far as it holds: a change by staff has its
\* audit row, its handler is on the way to it, or a fault stopped that handler
\* between the change and writeAuditLog.
THEOREM AuditOnlyLostByFault == Spec => []AuditLostOnlyByFault
<1>1. Init => AllowedOK /\ StaffChangesIn(Log)
  BY DEF Init, AllowedOK, StaffChangesIn, At, NoCall, StaffOps, Booked, NoRoom
<1>2. Spec => [](AllowedOK /\ StaffChangesIn(Log))
  BY <1>1, AllowedInductive, AuditInductive, TypeCorrect, PTL DEF Spec
<1>3. StaffChangesIn(Log) => AuditLostOnlyByFault
  BY DEF Log, AuditLostOnlyByFault
<1>4. QED BY <1>2, <1>3, PTL

\* Only a fault drops an audit row that is owed.
LEMMA OnlyFaultsDrop ==
    ASSUME ~ Faults, [Next]_vars
    PROVE  dropped' = dropped
<1>1. ASSUME NEW r \in Reqs, ReservationStep(r)
      PROVE  dropped' = dropped
  BY <1>1 DEF ReservationStep, CreateReservation, CloseReservation, AddAttendee,
      RemoveAttendee, CheckIn, CreateFindRoom, CreateCountUsers, CreateFindOverlap, CreateInsert,
      CloseFind, CancelUpdate, OverrideUpdate, AddFind, AddFindUser, AddInsert, RemoveFind,
      RemoveDelete, CheckInFind, CheckInLookup, history
<1>2. ASSUME NEW r \in Reqs,
             Arrive(r) \/ TurnAway(r) \/ RoomStep(r) \/ WriteAudit(r) \/ SendMail(r)
      PROVE  dropped' = dropped
  BY <1>2 DEF Arrive, TurnAway, RoomStep, RoomInsert, RoomFind, RoomUpdate, DeleteRoom,
      DeleteCount, DeleteRoomRow, WriteAudit, SendMail, history
<1>3. ~ Crash /\ \A r \in Reqs : ~ DbFails(r)
  BY DEF Crash, DbFails
<1>4. Tick \/ UNCHANGED vars => dropped' = dropped
  BY DEF Tick, vars, history
<1>5. QED BY <1>1, <1>2, <1>3, <1>4 DEF Next, Work

\* THEOREM.  Rule 6 of the service, in a run without faults: every staff
\* mutation has its audit row, or the handler that made it is about to write it.
THEOREM AuditKeptWithoutFaults ==
    ASSUME ~ Faults
    PROVE  Spec => [](StaffChangesIn(audit \cup Owed))
<1>1. Init => dropped = {}
  BY DEF Init
<1>2. dropped = {} /\ [Next]_vars => (dropped = {})'
  BY OnlyFaultsDrop
<1>3. dropped = {} /\ AuditLostOnlyByFault => StaffChangesIn(audit \cup Owed)
  <2> SUFFICES ASSUME dropped = {}, AuditLostOnlyByFault
               PROVE  StaffChangesIn(audit \cup Owed)
    OBVIOUS
  <2>1. audit \cup Owed \cup dropped = audit \cup Owed
    OBVIOUS
  <2>2. QED BY <2>1 DEF AuditLostOnlyByFault
<1>4. QED BY <1>1, <1>2, <1>3, AuditOnlyLostByFault, PTL DEF Spec

-------------------------------------------------------------------------------
(* Notices tell the truth. *)

\* What an audit row says has happened.
Happened(e) ==
    /\ e.action \in {"RESERVATION_CANCELLED", "RESERVATION_OVERRIDDEN"}
          => e.entity \in Booked \ Confirmed
    /\ e.action = "ROOM_DELETED"
          => e.entity \in Rooms /\ room[e.entity].status = "deleted"
    /\ e.action \in {"ROOM_CREATED", "ROOM_UPDATED", "ROOM_STATUS_CHANGED"}
          => e.entity \in Rooms /\ room[e.entity].status # "unborn"

\* Rows written, owed and lost are true, and so are mails sent and due.
TrueOK ==
    /\ \A e \in Log : Happened(e)
    /\ \A n \in mail : n.resv \in Booked /\ (n.kind # "confirmed" => n.resv \notin Confirmed)
    /\ \A r \in Reqs : pc[r] = "mail" /\ call[r].op # "create" => call[r].resv \notin Confirmed

\* What has happened stays so.
LEMMA HappenedStays ==
    ASSUME TypeOK, [Next]_vars, NEW e, Happened(e)
    PROVE  Happened(e)'
<1>1. e.entity \in Booked \ Confirmed => e.entity \in Booked' \ Confirmed'
  BY ClashOnlyClears
<1>2. e.entity \in Rooms /\ room[e.entity].status = "deleted" => room'[e.entity].status = "deleted"
  BY RoomsStay
<1>3. e.entity \in Rooms /\ room[e.entity].status # "unborn" => room'[e.entity].status # "unborn"
  BY RoomsStay
<1>4. QED BY <1>1, <1>2, <1>3 DEF Happened

\* A closing leaves the reservation closed, and its handler where it was going.
LEMMA ClosingCloses ==
    ASSUME TypeOK, NEW r \in Reqs, CancelUpdate(r) \/ OverrideUpdate(r)
    PROVE  /\ call[r].resv \in Booked' \ Confirmed'
           /\ call' = call
           /\ call[r].op \in {"cancel", "override"}
<1> DEFINE b == call[r].resv
<1>1. b \in Booked /\ call[r].op \in {"cancel", "override"}
  BY DEF CancelUpdate, OverrideUpdate, At, TypeOK, RequestsOK, CheckedOK, ResvOps
<1>2. b \in Resvs /\ resv[b] \in ResvRow
  BY <1>1 DEF TypeOK, TablesOK, Booked
<1>3. PICK row \in {Cancelled(b), Overridden(b)} : resv' = [resv EXCEPT ![b] = row]
  BY DEF CancelUpdate, OverrideUpdate
<1>4. row.status \in {"CANCELLED", "OVERRIDDEN"} /\ resv'[b] = row
  BY <1>2, <1>3 DEF Cancelled, Overridden, ResvRow, TypeOK, TablesOK
<1>5. b \in Booked' /\ call' = call
  BY <1>1, CloseTablesOK DEF CancelUpdate, OverrideUpdate, Proceed, locals
<1>6. QED BY <1>1, <1>4, <1>5 DEF Confirmed

\* What a row says, by the operation it records.
LEMMA EntryShape ==
    ASSUME NEW c
    PROVE  /\ c.op \in {"cancel", "override"} =>
                /\ Entry(c).action \in {"RESERVATION_CANCELLED", "RESERVATION_OVERRIDDEN"}
                /\ Entry(c).entity = c.resv
           /\ c.op = "deleteRoom" =>
                Entry(c).action = "ROOM_DELETED" /\ Entry(c).entity = c.room
           /\ c.op \in {"createRoom", "updateRoom", "setRoomStatus"} =>
                /\ Entry(c).action \in {"ROOM_CREATED", "ROOM_UPDATED", "ROOM_STATUS_CHANGED"}
                /\ Entry(c).entity = c.room
BY DEF Entry, AuditAction, RoomOps

\* The row a handler owes from now on is true.
LEMMA OwedIsTrue ==
    ASSUME TypeOK, [Next]_vars, NEW q \in Reqs, pc'[q] = "audit", pc[q] # "audit",
           NEW e, e = Entry(call'[q])
    PROVE  Happened(e)'
<1> USE EntryShape DEF Happened
<1>1. CASE CancelUpdate(q) \/ OverrideUpdate(q)
  BY <1>1, ClosingCloses
<1>2. CASE RoomInsert(q)
  <2>1. PICK n \in Rooms : /\ room' = [room EXCEPT ![n] =
                                  [status |-> call[q].status, cap |-> call[q].cap]]
                           /\ call' = [call EXCEPT ![q].room = n]
    BY <1>2 DEF RoomInsert
  <2>2. call[q] \in NewRoomCall /\ call[q].op = "createRoom"
    BY <1>2, CallShape DEF RoomInsert, At, TypeOK, RequestsOK
  <2>3. call'[q].room = n /\ call'[q].op = "createRoom"
    BY <2>1, <2>2 DEF TypeOK, RequestsOK, NewRoomCall
  <2>4. room'[n].status \in RoomStatus
    BY <2>1, <2>2 DEF TypeOK, TablesOK, NewRoomCall
  <2>5. QED BY <2>3, <2>4 DEF RoomStatus
<1>3. CASE RoomUpdate(q)
  <2>1. /\ call[q].op \in {"updateRoom", "setRoomStatus"}
        /\ RoomExists(call[q].room) /\ Proceed(q, "audit")
        /\ room' = [room EXCEPT ![call[q].room] = Updated(room[call[q].room], call[q])]
    BY <1>3 DEF RoomUpdate, At, Answer, TypeOK, RequestsOK
  <2>2. call[q].room \in Rooms
    BY <2>1, CallShape DEF RoomCall, TypeOK, RequestsOK
  <2>3. room'[call[q].room].status \in RoomStatus
    BY <2>1, <2>2, UpdatedStands DEF TypeOK, TablesOK, RoomExists
  <2>4. call' = call
    BY <2>1 DEF Proceed, locals
  <2>5. QED BY <2>1, <2>2, <2>3, <2>4 DEF RoomStatus
<1>4. CASE DeleteRoomRow(q)
  <2>1. /\ call[q].op = "deleteRoom"
        /\ Proceed(q, "audit")
        /\ room' = [room EXCEPT ![call[q].room].status = "deleted"]
    BY <1>4 DEF DeleteRoomRow, At, Answer, TypeOK, RequestsOK
  <2>2. call[q].room \in Rooms
    BY <2>1, CallShape DEF RoomCall, TypeOK, RequestsOK
  <2>3. room'[call[q].room].status = "deleted" /\ call' = call
    BY <2>1, <2>2 DEF Proceed, locals, TypeOK, TablesOK, RoomRow
  <2>4. QED BY <2>1, <2>2, <2>3
<1>5. QED BY <1>1, <1>2, <1>3, <1>4, ReachesAudit

\* How a handler comes to the mail it sends.
LEMMA ReachesMail ==
    ASSUME TypeOK, [Next]_vars, NEW q \in Reqs, pc'[q] = "mail"
    PROVE  \/ pc[q] = "mail" /\ call'[q] = call[q]
           \/ WriteAudit(q) /\ call'[q] = call[q] /\ call[q].op \in {"cancel", "override"}
           \/ CancelUpdate(q)
           \/ CreateInsert(q) /\ call'[q] = call[q]
<1>1. ASSUME NEW r \in Reqs, RequestStep(r), q # r
      PROVE  pc[q] = "mail" /\ call'[q] = call[q]
  BY <1>1, OthersHold DEF Held
<1>2. \A label : Goto(q, label) => pc'[q] = label
  BY DEF Goto, TypeOK, RequestsOK
<1>3. \A reply : Answer(q, reply) => pc'[q] = reply
  BY DEF Answer, TypeOK, RequestsOK
<1>4. CASE RequestStep(q)
  <2>1. ~ (Arrive(q) \/ TurnAway(q) \/ SendMail(q) \/ DbFails(q))
    BY <1>2, <1>3 DEF Arrive, TurnAway, SendMail, DbFails, FirstLabel
  <2>2. ~ RoomStep(q)
    BY <1>2, <1>3 DEF RoomStep, RoomInsert, RoomFind, RoomUpdate, DeleteRoom,
        DeleteCount, DeleteRoomRow, Check, Proceed
  <2>3. ~ (CreateFindRoom(q) \/ CreateCountUsers(q) \/ CreateFindOverlap(q) \/ CloseFind(q)
            \/ OverrideUpdate(q) \/ AddAttendee(q) \/ RemoveAttendee(q) \/ CheckIn(q))
    BY <1>2, <1>3 DEF AddAttendee, RemoveAttendee, CheckIn, CreateFindRoom,
        CreateCountUsers, CreateFindOverlap, AddFind, AddFindUser, AddInsert, RemoveFind,
        RemoveDelete, CheckInFind, CheckInLookup, CloseFind, OverrideUpdate, Check, Proceed
  <2>4. CreateInsert(q) => call'[q] = call[q]
    BY <1>3 DEF CreateInsert
  <2>5. WriteAudit(q) => call'[q] = call[q] /\ call[q].op \in {"cancel", "override"}
    BY <1>3 DEF WriteAudit, Proceed, locals, TypeOK, RequestsOK, CheckedOK, AuditedOps
  <2>6. QED
    BY <1>4, <2>1, <2>2, <2>3, <2>4, <2>5
    DEF RequestStep, Work, ReservationStep, CreateReservation, CloseReservation
<1>5. ~ Crash
  BY DEF Crash
<1>6. Tick \/ UNCHANGED vars => pc[q] = "mail" /\ call'[q] = call[q]
  BY DEF Tick, vars, locals
<1>7. QED BY <1>1, <1>4, <1>5, <1>6 DEF Next, RequestStep

\* The mail a handler sends is true.
LEMMA NoticeIsTrue ==
    ASSUME TypeOK, TrueOK, NEW r \in Reqs, pc[r] = "mail"
    PROVE  /\ Notice(r).resv \in Booked
           /\ Notice(r).kind # "confirmed" => Notice(r).resv \notin Confirmed
<1>1. call[r].op \in {"create", "cancel", "override"}
  BY DEF TypeOK, RequestsOK, CheckedOK
<1>2. CASE call[r].op = "create"
  BY <1>2 DEF Notice, At, TypeOK, RequestsOK, CheckedOK
<1>3. CASE call[r].op \in {"cancel", "override"}
  <2>1. call[r].resv \in Booked \ Confirmed
    BY <1>3 DEF TrueOK, TypeOK, RequestsOK, CheckedOK, ResvOps
  <2>2. Notice(r).resv = call[r].resv
    BY <1>3 DEF Notice
  <2>3. QED BY <2>1, <2>2
<1>4. QED BY <1>1, <1>2, <1>3

\* What the audit log and the mails say stays true.
LEMMA TrueInductive ==
    ASSUME TypeOK, TrueOK, [Next]_vars
    PROVE  TrueOK'
<1>1. ASSUME NEW e \in Log'
      PROVE  Happened(e)'
  <2>1. CASE e \in Log
    BY <2>1, HappenedStays DEF TrueOK
  <2>2. ASSUME NEW q \in Reqs, e = Entry(call'[q]), pc'[q] = "audit", pc[q] # "audit"
        PROVE  Happened(e)'
    BY <2>2, OwedIsTrue
  <2>3. QED BY <1>1, <2>1, <2>2, LogGains
<1>2. ASSUME NEW n \in mail'
      PROVE  n.resv \in Booked' /\ (n.kind # "confirmed" => n.resv \notin Confirmed')
  <2>1. CASE n \in mail
    BY <2>1, ClashOnlyClears DEF TrueOK
  <2>2. ASSUME NEW r \in Reqs, SendMail(r), n = Notice(r)
        PROVE  n.resv \in Booked' /\ (n.kind # "confirmed" => n.resv \notin Confirmed')
    <3>1. n.resv \in Booked /\ (n.kind # "confirmed" => n.resv \notin Confirmed)
      BY <2>2, NoticeIsTrue DEF SendMail
    <3>2. QED BY <3>1, ClashOnlyClears
  <2>3. ASSUME NEW r \in Reqs, RequestStep(r), ~ SendMail(r)
        PROVE  UNCHANGED mail
    <3> USE DEF store
    <3>1. ReservationStep(r) => UNCHANGED mail
      BY DEF ReservationStep, CreateReservation, CloseReservation,
        AddAttendee, RemoveAttendee, CheckIn, CreateFindRoom, CreateCountUsers,
        CreateFindOverlap, CreateInsert, CloseFind, CancelUpdate, OverrideUpdate, AddFind,
        AddFindUser, AddInsert, RemoveFind, RemoveDelete, CheckInFind, CheckInLookup
    <3>2. RoomStep(r) => UNCHANGED mail
      BY DEF RoomStep, RoomInsert, RoomFind, RoomUpdate, DeleteRoom, DeleteCount, DeleteRoomRow
    <3>3. Arrive(r) \/ TurnAway(r) \/ WriteAudit(r) \/ DbFails(r) => UNCHANGED mail
      BY DEF Arrive, TurnAway, WriteAudit, DbFails
    <3>4. QED BY <2>3, <3>1, <3>2, <3>3 DEF RequestStep, Work
  <2>4. Crash \/ Tick \/ UNCHANGED vars => UNCHANGED mail
    BY DEF Crash, Tick, vars, store
  <2>5. ASSUME NEW r \in Reqs, SendMail(r), n \notin mail
        PROVE  n = Notice(r)
    BY <1>2, <2>5 DEF SendMail
  <2>6. QED BY <1>2, <2>1, <2>2, <2>3, <2>4, <2>5 DEF Next, RequestStep
<1>3. ASSUME NEW r \in Reqs, pc'[r] = "mail", call'[r].op # "create"
      PROVE  call'[r].resv \notin Confirmed'
  <2>1. CASE pc[r] = "mail" /\ call'[r] = call[r]
    <3>1. call[r].resv \in Booked \ Confirmed
      BY <1>3, <2>1 DEF TrueOK, TypeOK, RequestsOK, CheckedOK, ResvOps
    <3>2. QED BY <2>1, <3>1, ClashOnlyClears
  <2>2. CASE WriteAudit(r) /\ call'[r] = call[r] /\ call[r].op \in {"cancel", "override"}
    <3>1. Entry(call[r]) \in Log
      BY <2>2 DEF WriteAudit, Log, Owed
    <3>2. call[r].resv \in Booked \ Confirmed
      BY <2>2, <3>1 DEF TrueOK, Happened, Entry, AuditAction, RoomOps
    <3>3. QED BY <2>2, <3>2, ClashOnlyClears
  <2>3. CASE CancelUpdate(r)
    BY <2>3, ClosingCloses
  <2>4. CASE CreateInsert(r) /\ call'[r] = call[r]
    BY <1>3, <2>4 DEF CreateInsert, At
  <2>5. QED BY <1>3, <2>1, <2>2, <2>3, <2>4, ReachesMail
<1>4. QED BY <1>1, <1>2, <1>3 DEF TrueOK

\* THEOREM.  What the audit log and the mails say of a reservation or a room has
\* happened, and nothing that happens later takes it back.
THEOREM NoticesTrue == Spec => []NoticesAreTrue
<1>1. Init => TrueOK
  BY DEF Init, TrueOK, Log, Owed, NoCall
<1>2. TrueOK => NoticesAreTrue
  BY DEF TrueOK, Happened, NoticesAreTrue, Log
<1>3. QED BY <1>1, <1>2, TrueInductive, TypeCorrect, PTL DEF Spec

-------------------------------------------------------------------------------
(* How far concurrent invitations overshoot a room. *)

\* The invitations that have read a count they will pass on.
Pending(b) ==
    {r \in Reqs :
        /\ call[r].op = "addAttendee" /\ call[r].resv = b
        /\ pc[r] \in {"users", "write"}
        /\ seats[r].people <= seats[r].cap}

\* Capacities stay below their peak, a create that was let through seats its
\* people below it, and an invitation to be inserted passed its check.
SeatsOK ==
    /\ \A m \in Rooms : room[m].cap <= peak[m]
    /\ \A r \in Reqs :
          /\ call[r].op = "create" /\ pc[r] \in {"users", "overlap", "write"} =>
                /\ room[call[r].room].status # "unborn"
                /\ 1 + Cardinality(GuestsOf(call[r])) <= peak[call[r].room]
          /\ At(r, "addAttendee", "write") => seats[r].people <= seats[r].cap

\* People seated and people about to be.
FilledOK ==
    \A b \in Booked :
        People(b) + Cardinality(Pending(b)) <= peak[resv[b].room] + Cardinality(Reqs) - 1

\* The peak of a room that has been opened only rises.
LEMMA PeaksRise ==
    ASSUME TypeOK, [Next]_vars, \A m \in Rooms : room[m].cap <= peak[m]
    PROVE  /\ \A m \in Rooms : room'[m].cap <= peak'[m]
           /\ \A m \in Rooms : room[m].status # "unborn" => peak[m] <= peak'[m]
<1>1. CASE UNCHANGED <<room, peak>>
  BY <1>1 DEF TypeOK, HistoryOK
<1>2. ASSUME NEW r \in Reqs, RoomInsert(r), NEW m \in Rooms
      PROVE  /\ room'[m].cap <= peak'[m]
             /\ room[m].status # "unborn" => peak[m] <= peak'[m]
  <2>1. PICK n \in Rooms : /\ room[n].status = "unborn"
                           /\ room' = [room EXCEPT ![n] =
                                  [status |-> call[r].status, cap |-> call[r].cap]]
                           /\ peak' = [peak EXCEPT ![n] = call[r].cap]
    BY <1>2 DEF RoomInsert
  <2>2. call[r] \in NewRoomCall
    BY <1>2, CallShape DEF RoomInsert, At, TypeOK, RequestsOK
  <2>3. call[r].cap \in Nat
    BY <2>2, BookingAssumption DEF NewRoomCall
  <2>4. peak \in [Rooms -> Nat] /\ room \in [Rooms -> RoomRow]
    BY DEF TypeOK, HistoryOK, TablesOK
  <2>5. CASE m = n
    <3>1. room'[m].cap = call[r].cap /\ peak'[m] = call[r].cap
      BY <2>1, <2>4, <2>5
    <3>2. QED BY <2>1, <2>3, <2>5, <3>1
  <2>6. CASE m # n
    <3>1. room'[m] = room[m] /\ peak'[m] = peak[m]
      BY <2>1, <2>4, <2>6
    <3>2. QED BY <1>2, <2>4, <3>1
  <2>7. QED BY <2>5, <2>6
<1>3. ASSUME NEW r \in Reqs, RoomUpdate(r), NEW m \in Rooms
      PROVE  room'[m].cap <= peak'[m] /\ peak[m] <= peak'[m]
  <2> DEFINE n == call[r].room
             row == Updated(room[n], call[r])
  <2>1. peak \in [Rooms -> Nat] /\ room \in [Rooms -> RoomRow] /\ peak[m] \in Nat
    BY DEF TypeOK, HistoryOK, TablesOK
  <2>2. CASE UNCHANGED <<room, peak>>
    BY <2>1, <2>2
  <2>3. CASE /\ room' = [room EXCEPT ![n] = row]
             /\ peak' = [peak EXCEPT ![n] = IF row.cap > @ THEN row.cap ELSE @]
    <3>1. call[r] \in RoomCall /\ call[r].op \in {"updateRoom", "setRoomStatus"}
      BY <1>3, CallShape DEF RoomUpdate, At, TypeOK, RequestsOK
    <3>2. n \in Rooms /\ row.cap \in Nat
      <4>1. n \in Rooms /\ call[r].cap \in Capacities \cup {KeepCap}
        BY <3>1 DEF RoomCall
      <4>2. room[n].cap \in Nat
        BY <4>1, CapIsNat DEF TypeOK
      <4>3. QED BY <4>1, <4>2, BookingAssumption DEF Updated, KeepCap
    <3>3. CASE m = n
      <4>1. room'[m] = row /\ peak'[m] = IF row.cap > peak[m] THEN row.cap ELSE peak[m]
        BY <2>1, <2>3, <3>2, <3>3
      <4>2. QED BY <2>1, <3>2, <4>1
    <3>4. CASE m # n
      <4>1. room'[m] = room[m] /\ peak'[m] = peak[m]
        BY <2>1, <2>3, <3>4
      <4>2. QED BY <2>1, <4>1
    <3>5. QED BY <3>3, <3>4
  <2>4. QED BY <1>3, <2>2, <2>3 DEF RoomUpdate
<1>4. ASSUME NEW r \in Reqs, DeleteRoomRow(r), NEW m \in Rooms
      PROVE  room'[m].cap = room[m].cap /\ peak'[m] = peak[m]
  BY <1>4 DEF DeleteRoomRow, TypeOK, TablesOK, RoomRow, history
<1>5. ASSUME NEW r \in Reqs, RequestStep(r),
             ~ (RoomInsert(r) \/ RoomUpdate(r) \/ DeleteRoomRow(r))
      PROVE  UNCHANGED <<room, peak>>
  BY <1>5 DEF RequestStep, Work, ReservationStep, CreateReservation, CloseReservation,
      AddAttendee, RemoveAttendee, CheckIn, CreateFindRoom, CreateCountUsers,
      CreateFindOverlap, CreateInsert, CloseFind, CancelUpdate, OverrideUpdate, AddFind,
      AddFindUser, AddInsert, RemoveFind, RemoveDelete, CheckInFind, CheckInLookup,
      Arrive, TurnAway, RoomStep, RoomFind, DeleteRoom, DeleteCount, WriteAudit, SendMail,
      DbFails, store, history
<1>6. Crash \/ Tick \/ UNCHANGED vars => UNCHANGED <<room, peak>>
  BY DEF Crash, Tick, vars, store, history
<1>7. \A m \in Rooms : peak[m] \in Nat
  BY DEF TypeOK, HistoryOK
<1>8. QED BY <1>1, <1>2, <1>3, <1>4, <1>5, <1>6, <1>7 DEF Next, RequestStep

\* How a create comes to the queries after its first.
LEMMA ReachesCreate ==
    ASSUME TypeOK, [Next]_vars, NEW q \in Reqs,
           call'[q].op = "create", pc'[q] \in {"users", "overlap", "write"}
    PROVE  /\ call'[q] = call[q]
           /\ \/ pc[q] \in {"users", "overlap", "write"}
              \/ CreateFindRoom(q) /\ RoomTakes(call[q])
<1> USE DEF At
<1>1. ASSUME NEW r \in Reqs, RequestStep(r), q # r
      PROVE  call'[q] = call[q] /\ pc[q] \in {"users", "overlap", "write"}
  BY <1>1, OthersHold DEF Held
<1>2. \A label : Goto(q, label) => pc'[q] = label
  BY DEF Goto, TypeOK, RequestsOK
<1>3. \A reply : Answer(q, reply) => pc'[q] = reply
  BY DEF Answer, TypeOK, RequestsOK
<1>4. call'[q] = call[q] \/ Arrive(q)
  BY CallsStay DEF NoCall
<1>5. CASE RequestStep(q)
  <2>1. ~ (Arrive(q) \/ TurnAway(q) \/ WriteAudit(q) \/ SendMail(q) \/ DbFails(q))
    <3>1. ~ Arrive(q)
      BY <1>2 DEF Arrive, FirstLabel, TypeOK, RequestsOK
    <3>2. QED BY <1>2, <1>3, <3>1 DEF TurnAway, WriteAudit, SendMail, DbFails, Proceed, Answers
  <2>2. ~ RoomStep(q)
    BY <1>2, <1>3, <1>4, <2>1 DEF RoomStep, RoomInsert, RoomFind, RoomUpdate, DeleteRoom,
        DeleteCount, DeleteRoomRow
  <2>3. ~ (CloseReservation(q) \/ AddAttendee(q) \/ RemoveAttendee(q) \/ CheckIn(q))
    BY <1>2, <1>3, <1>4, <2>1 DEF CloseReservation, AddAttendee, RemoveAttendee, CheckIn,
        AddFind, AddFindUser, AddInsert, RemoveFind, RemoveDelete, CheckInFind,
        CheckInLookup, CloseFind, CancelUpdate, OverrideUpdate, Proceed
  <2>4. CreateReservation(q)
    BY <1>5, <2>1, <2>2, <2>3 DEF RequestStep, Work, ReservationStep
  <2>5. CreateFindRoom(q) => RoomTakes(call[q])
    BY <1>3 DEF CreateFindRoom, Check
  <2>6. ~ CreateFindRoom(q) => pc[q] \in {"users", "overlap", "write"}
    BY <2>4 DEF CreateReservation, CreateCountUsers, CreateFindOverlap, CreateInsert
  <2>7. QED BY <1>4, <2>1, <2>5, <2>6
<1>6. ~ Crash
  BY DEF Crash
<1>7. Tick \/ UNCHANGED vars => call'[q] = call[q] /\ pc[q] \in {"users", "overlap", "write"}
  BY DEF Tick, vars, locals
<1>8. QED BY <1>1, <1>5, <1>6, <1>7 DEF Next, RequestStep

\* How an invitation comes to the queries after its first.
LEMMA ReachesAdd ==
    ASSUME TypeOK, [Next]_vars, NEW q \in Reqs,
           call'[q].op = "addAttendee", pc'[q] \in {"users", "write"}
    PROVE  /\ call'[q] = call[q]
           /\ \/ pc[q] = pc'[q] /\ seats'[q] = seats[q] /\ ~ AddFind(q) /\ ~ AddInsert(q)
              \/ /\ AddFindUser(q) /\ pc[q] = "users" /\ pc'[q] = "write"
                 /\ seats'[q] = seats[q] /\ Seated(q)
              \/ AddFind(q) /\ pc'[q] = "users" /\ MayManage(call[q])
<1> USE DEF At
<1>1. ASSUME NEW r \in Reqs, RequestStep(r), q # r
      PROVE  call'[q] = call[q] /\ pc'[q] = pc[q] /\ seats'[q] = seats[q]
             /\ ~ AddFind(q) /\ ~ AddInsert(q)
  <2>1. call'[q] = call[q] /\ pc'[q] = pc[q] /\ seats'[q] = seats[q]
    BY <1>1, OthersHold DEF Held
  <2>2. \A label : Goto(q, label) => pc'[q] = label
    BY DEF Goto, TypeOK, RequestsOK
  <2>3. \A reply : Answer(q, reply) => pc'[q] = reply
    BY DEF Answer, TypeOK, RequestsOK
  <2>4. ~ AddFind(q) /\ ~ AddInsert(q)
    BY <2>1, <2>2, <2>3 DEF AddFind, AddInsert
  <2>5. QED BY <2>1, <2>4
<1>2. \A label : Goto(q, label) => pc'[q] = label
  BY DEF Goto, TypeOK, RequestsOK
<1>3. \A reply : Answer(q, reply) => pc'[q] = reply
  BY DEF Answer, TypeOK, RequestsOK
<1>4. call'[q] = call[q] \/ Arrive(q)
  BY CallsStay DEF NoCall
<1>5. CASE RequestStep(q)
  <2>1. ~ (Arrive(q) \/ TurnAway(q) \/ WriteAudit(q) \/ SendMail(q) \/ DbFails(q))
    <3>1. ~ Arrive(q)
      BY <1>2 DEF Arrive, FirstLabel, TypeOK, RequestsOK
    <3>2. QED BY <1>2, <1>3, <3>1 DEF TurnAway, WriteAudit, SendMail, DbFails, Proceed, Answers
  <2>2. ~ RoomStep(q)
    BY <1>2, <1>3, <1>4, <2>1 DEF RoomStep, RoomInsert, RoomFind, RoomUpdate, DeleteRoom,
        DeleteCount, DeleteRoomRow
  <2>3. ~ (CloseReservation(q) \/ CreateReservation(q) \/ RemoveAttendee(q) \/ CheckIn(q))
    BY <1>2, <1>3, <1>4, <2>1 DEF CloseReservation, CreateReservation, RemoveAttendee, CheckIn,
        CreateFindRoom, CreateCountUsers, CreateFindOverlap, CreateInsert, RemoveFind,
        RemoveDelete, CheckInFind, CheckInLookup, CloseFind, CancelUpdate, OverrideUpdate,
        Proceed
  <2>4. AddAttendee(q) /\ ~ AddInsert(q)
    BY <1>3, <1>5, <2>1, <2>2, <2>3 DEF RequestStep, Work, ReservationStep, AddInsert
  <2>5. AddFind(q) => pc'[q] = "users" /\ MayManage(call[q])
    BY <1>2, <1>3 DEF AddFind
  <2>6. AddFindUser(q) => pc[q] = "users" /\ pc'[q] = "write" /\ seats'[q] = seats[q] /\ Seated(q)
    BY <1>2, <1>3 DEF AddFindUser, Check, Proceed, locals
  <2>7. QED BY <1>4, <2>1, <2>4, <2>5, <2>6 DEF AddAttendee
<1>6. ~ Crash
  BY DEF Crash
<1>7. Tick \/ UNCHANGED vars => call'[q] = call[q] /\ pc'[q] = pc[q] /\ seats'[q] = seats[q]
                                  /\ ~ AddFind(q) /\ ~ AddInsert(q)
  <2>1. Tick \/ UNCHANGED vars => UNCHANGED <<pc, call, seats>>
    BY DEF Tick, vars, locals
  <2>2. \A label : Goto(q, label) => pc'[q] = label
    BY DEF Goto, TypeOK, RequestsOK
  <2>3. \A reply : Answer(q, reply) => pc'[q] = reply
    BY DEF Answer, TypeOK, RequestsOK
  <2>4. UNCHANGED <<pc, call, seats>> => ~ AddFind(q) /\ ~ AddInsert(q)
    BY <2>2, <2>3 DEF AddFind, AddInsert, Answers
  <2>5. QED BY <2>1, <2>4
<1>8. QED BY <1>1, <1>5, <1>6, <1>7 DEF Next, RequestStep

\* A create's people are a number.
LEMMA PartyIsNat ==
    ASSUME TypeOK, NEW r \in Reqs, call[r].op = "create"
    PROVE  call[r].room \in Rooms /\ Cardinality(GuestsOf(call[r])) \in Nat
<1>1. call[r] \in CreateCall
  BY CallShape DEF TypeOK, RequestsOK
<1>2. GuestsOf(call[r]) \subseteq Ids
  BY <1>1, BookingAssumption DEF CreateCall, GuestsOf
<1>3. QED
  BY <1>1, <1>2, BookingAssumption, FS_Subset, FS_CardinalityType DEF CreateCall

\* Capacities, and what was read of them, stay below the peak.
LEMMA SeatsInductive ==
    ASSUME TypeOK, SeatsOK, [Next]_vars
    PROVE  SeatsOK'
<1>1. \A m \in Rooms : room'[m].cap <= peak'[m]
  BY PeaksRise DEF SeatsOK
<1>2. ASSUME NEW q \in Reqs, call'[q].op = "create", pc'[q] \in {"users", "overlap", "write"}
      PROVE  /\ room'[call'[q].room].status # "unborn"
             /\ 1 + Cardinality(GuestsOf(call'[q])) <= peak'[call'[q].room]
  <2> DEFINE m == call[q].room
             n == Cardinality(GuestsOf(call[q]))
  <2>1. call'[q] = call[q]
    BY <1>2, ReachesCreate
  <2>2. m \in Rooms /\ n \in Nat
    BY <1>2, <2>1, PartyIsNat
  <2>3. room[m].status # "unborn" /\ 1 + n <= peak[m]
    <3>1. CASE pc[q] \in {"users", "overlap", "write"}
      BY <1>2, <2>1, <3>1 DEF SeatsOK
    <3>2. CASE RoomTakes(call[q])
      <4>1. 1 + n <= room[m].cap /\ room[m].cap <= peak[m]
        BY <2>2, <3>2 DEF RoomTakes, SeatsOK
      <4>2. room[m].cap \in Nat /\ peak[m] \in Nat
        BY <2>2, CapIsNat DEF TypeOK, HistoryOK
      <4>3. QED BY <2>2, <3>2, <4>1, <4>2 DEF RoomTakes, RoomExists, RoomStatus
    <3>3. QED BY <1>2, <3>1, <3>2, ReachesCreate
  <2>4. room'[m].status # "unborn" /\ peak[m] <= peak'[m]
    BY <2>2, <2>3, RoomsStay, PeaksRise DEF SeatsOK
  <2>5. peak[m] \in Nat /\ peak'[m] \in Nat
    BY <2>2, NextTypeOK DEF TypeOK, HistoryOK
  <2>6. 1 + n <= peak'[m]
    BY <2>2, <2>3, <2>4, <2>5
  <2>7. QED BY <2>1, <2>4, <2>6
<1>3. ASSUME NEW q \in Reqs, At(q, "addAttendee", "write")'
      PROVE  seats'[q].people <= seats'[q].cap
  BY <1>3, ReachesAdd DEF At, SeatsOK, Seated
<1>4. QED BY <1>1, <1>2, <1>3 DEF SeatsOK, GuestsOf

\* Only an insert of an invitation seats anyone in a reservation that is there.
LEMMA GuestsChange ==
    ASSUME TypeOK, [Next]_vars, NEW b \in Booked
    PROVE  \/ resv'[b].guests \subseteq resv[b].guests
           \/ \E r \in Reqs : /\ AddInsert(r) /\ call[r].resv = b
                              /\ resv'[b].guests = resv[b].guests \cup {call[r].user}
<1>1. b \in Resvs /\ resv[b] \in ResvRow /\ resv \in [Resvs -> ResvRow \cup {NoResv}]
  BY DEF Booked, TypeOK, TablesOK
<1>2. ASSUME NEW r \in Reqs, CancelUpdate(r) \/ OverrideUpdate(r)
      PROVE  resv'[b].guests = resv[b].guests
  <2>1. resv'[b] = resv[b] \/ resv'[b] = Cancelled(b) \/ resv'[b] = Overridden(b)
    BY <1>1, <1>2 DEF CancelUpdate, OverrideUpdate
  <2>2. QED BY <1>1, <2>1 DEF Cancelled, Overridden, ResvRow
<1>3. ASSUME NEW r \in Reqs, AddInsert(r), resv'[b] # resv[b]
      PROVE  call[r].resv = b /\ resv'[b].guests = resv[b].guests \cup {call[r].user}
  BY <1>1, <1>3 DEF AddInsert, ResvRow
<1>4. ASSUME NEW r \in Reqs, RemoveDelete(r), resv'[b] # resv[b]
      PROVE  resv'[b].guests \subseteq resv[b].guests
  BY <1>1, <1>4 DEF RemoveDelete, ResvRow
<1>5. ASSUME NEW r \in Reqs, CreateInsert(r)
      PROVE  resv'[b] = resv[b]
  BY <1>1, <1>5 DEF CreateInsert, Booked
<1>6. ASSUME NEW r \in Reqs, RequestStep(r), ~ CreateInsert(r), ~ CancelUpdate(r),
             ~ OverrideUpdate(r), ~ AddInsert(r), ~ RemoveDelete(r)
      PROVE  UNCHANGED resv
  BY <1>6 DEF RequestStep, Work, ReservationStep, CreateReservation, CloseReservation,
      AddAttendee, RemoveAttendee, CheckIn, CreateFindRoom, CreateCountUsers,
      CreateFindOverlap, CloseFind, AddFind, AddFindUser, RemoveFind, CheckInFind,
      CheckInLookup, Arrive, TurnAway, RoomStep, RoomInsert, RoomFind, RoomUpdate,
      DeleteRoomRow, DeleteRoom, DeleteCount, WriteAudit, SendMail, DbFails, store
<1>7. Crash \/ Tick \/ UNCHANGED vars => UNCHANGED resv
  BY DEF Crash, Tick, vars, store
<1>8. QED
  BY <1>2, <1>3, <1>4, <1>5, <1>6, <1>7 DEF Next, RequestStep

\* A set of requests is counted by a number, and a part of it by no more.
LEMMA RequestsCount ==
    ASSUME NEW S \in SUBSET Reqs, NEW T \in SUBSET S
    PROVE  /\ Cardinality(S) \in Nat /\ Cardinality(T) \in Nat
           /\ Cardinality(T) <= Cardinality(S)
           /\ S # T => Cardinality(T) + 1 <= Cardinality(S)
<1>1. IsFiniteSet(S) /\ IsFiniteSet(T)
  BY BookingAssumption, FS_Subset
<1>2. Cardinality(S) \in Nat /\ Cardinality(T) \in Nat
  BY <1>1, FS_CardinalityType
<1>3. Cardinality(T) <= Cardinality(S)
  BY <1>1, FS_Subset
<1>4. S # T => Cardinality(T) # Cardinality(S)
  BY <1>1, FS_Subset, Zenon
<1>5. QED BY <1>2, <1>3, <1>4

\* A guest more or fewer.
LEMMA GuestsCount ==
    ASSUME TypeOK, [Next]_vars, NEW b \in Booked
    PROVE  /\ People(b) \in Nat /\ People(b)' \in Nat
           /\ \/ People(b)' <= People(b)
              \/ \E r \in Reqs : AddInsert(r) /\ call[r].resv = b /\ People(b)' <= People(b) + 1
<1>1. IsFiniteSet(resv[b].guests) /\ People(b) \in Nat
  BY PeopleIsNat
<1>2. b \in Booked' /\ TypeOK'
  BY NextTypeOK, ClashOnlyClears
<1>3. resv'[b].guests \subseteq Users
  BY <1>2 DEF TypeOK, TablesOK, Booked, ResvRow
<1>4. IsFiniteSet(resv'[b].guests)
  BY <1>3, BookingAssumption, FS_Subset
<1>5. Cardinality(resv[b].guests) \in Nat /\ Cardinality(resv'[b].guests) \in Nat
  BY <1>1, <1>4, FS_CardinalityType
<1>6. CASE resv'[b].guests \subseteq resv[b].guests
  <2>1. Cardinality(resv'[b].guests) <= Cardinality(resv[b].guests)
    BY <1>1, <1>6, FS_Subset
  <2>2. QED BY <1>5, <2>1 DEF People
<1>7. ASSUME NEW r \in Reqs, resv'[b].guests = resv[b].guests \cup {call[r].user}
      PROVE  People(b)' <= People(b) + 1
  <2>1. Cardinality(resv[b].guests \cup {call[r].user})
          = IF call[r].user \in resv[b].guests THEN Cardinality(resv[b].guests)
            ELSE Cardinality(resv[b].guests) + 1
    BY <1>1, FS_AddElement, Zenon
  <2>2. Cardinality(resv'[b].guests) <= Cardinality(resv[b].guests) + 1
    BY <1>5, <1>7, <2>1
  <2>3. QED BY <1>5, <2>2 DEF People
<1>8. People(b)' \in Nat
  BY <1>5 DEF People
<1>9. QED BY <1>1, <1>6, <1>7, <1>8, GuestsChange

\* The invitations pending on a reservation come from those that were, and
\* from the one that has just read a count it will pass on.
LEMMA PendingComesFrom ==
    ASSUME TypeOK, [Next]_vars, NEW b \in Resvs, NEW q \in Pending(b)'
    PROVE  /\ call'[q] = call[q] /\ call[q].resv = b /\ call[q].op = "addAttendee"
           /\ b \in Booked
           /\ \/ q \in Pending(b) /\ ~ AddInsert(q)
              \/ AddFind(q)
<1>1. /\ q \in Reqs /\ call'[q].op = "addAttendee" /\ call'[q].resv = b
      /\ pc'[q] \in {"users", "write"} /\ seats'[q].people <= seats'[q].cap
  BY DEF Pending
<1>2. CASE pc[q] = pc'[q] /\ call'[q] = call[q] /\ seats'[q] = seats[q] /\ ~ AddInsert(q)
  BY <1>1, <1>2 DEF Pending, TypeOK, RequestsOK, CheckedOK, ResvOps
<1>3. CASE AddFindUser(q) /\ pc[q] = "users" /\ seats'[q] = seats[q] /\ call'[q] = call[q]
  BY <1>1, <1>3 DEF Pending, AddInsert, At, TypeOK, RequestsOK, CheckedOK, ResvOps
<1>4. CASE AddFind(q) /\ MayManage(call[q]) /\ call'[q] = call[q]
  BY <1>1, <1>4 DEF MayManage
<1>5. QED BY <1>1, <1>2, <1>3, <1>4, ReachesAdd

\* An invitation that is inserted was pending: the sum does not rise.
LEMMA FilledInductive ==
    ASSUME TypeOK, RoomOfReservationExists, SeatsOK, FilledOK, [Next]_vars
    PROVE  FilledOK'
<1> SUFFICES ASSUME NEW b \in Booked'
             PROVE  People(b)' + Cardinality(Pending(b)') <= peak'[resv'[b].room] + Cardinality(Reqs) - 1
  BY DEF FilledOK
<1> DEFINE m == resv[b].room
<1>0. Cardinality(Reqs) \in Nat /\ 1 <= Cardinality(Reqs)
  BY RequestsCount, BookingAssumption, FS_EmptySet
<1>1. CASE b \in Booked
  <2>1. m \in Rooms /\ resv'[b].room = m
    BY <1>1, NextCloses DEF OnlyCloses, TypeOK, TablesOK, Booked, ResvRow
  <2>2. peak[m] \in Nat /\ peak'[m] \in Nat /\ peak[m] <= peak'[m]
    <3>1. room[m].status # "unborn"
      BY <1>1 DEF RoomOfReservationExists, RoomExists, RoomStatus
    <3>2. QED BY <2>1, <3>1, NextTypeOK, PeaksRise DEF SeatsOK, TypeOK, HistoryOK
  <2>3. People(b) \in Nat /\ People(b)' \in Nat
    BY <1>1, GuestsCount
  <2>4. /\ Cardinality(Pending(b)) \in Nat /\ Cardinality(Pending(b)') \in Nat
        /\ Cardinality(Pending(b)') <= Cardinality(Reqs)
    <3>1. Pending(b) \subseteq Reqs /\ Pending(b)' \subseteq Reqs
      BY DEF Pending
    <3>2. QED BY <3>1, RequestsCount
  <2>5. People(b) + Cardinality(Pending(b)) <= peak[m] + Cardinality(Reqs) - 1
    BY <1>1 DEF FilledOK
  <2>6. CASE \E q \in Pending(b)' : AddFind(q)
    <3>1. PICK q \in Pending(b)' : AddFind(q)
      BY <2>6
    <3>2. q \in Reqs /\ call[q].resv = b /\ seats'[q].people <= seats'[q].cap
          /\ pc'[q] \in {"users", "write"}
      BY <1>1, <3>1, PendingComesFrom DEF Booked, Pending
    <3>3. seats'[q] = [people |-> People(b) + 1, cap |-> room[m].cap]
      <4>1. ~ Answer(q, "refused")
        BY <3>2 DEF Answer, TypeOK, RequestsOK
      <4>2. QED BY <3>1, <3>2, <4>1 DEF AddFind, TypeOK, RequestsOK
    <3>4. resv' = resv
      BY <3>1 DEF AddFind, store
    <3>5. People(b)' = People(b)
      BY <3>4 DEF People
    <3>6. room[m].cap \in Nat /\ room[m].cap <= peak[m]
      BY <2>1, CapIsNat DEF SeatsOK, TypeOK
    <3>7. People(b) + 1 <= room[m].cap
      BY <3>2, <3>3
    <3>8. QED BY <1>0, <2>1, <2>2, <2>3, <2>4, <3>5, <3>6, <3>7
  <2>7. CASE ~ \E q \in Pending(b)' : AddFind(q)
    <3>1. Pending(b)' \subseteq Pending(b)
          /\ \A r \in Reqs : AddInsert(r) => r \notin Pending(b)'
      <4>1. \A q \in Pending(b)' : q \in Pending(b) /\ ~ AddInsert(q)
        BY <1>1, <2>7, PendingComesFrom DEF Booked
      <4>2. QED BY <4>1
    <3>2. Cardinality(Pending(b)') <= Cardinality(Pending(b))
      <4>1. Pending(b) \subseteq Reqs
        BY DEF Pending
      <4>2. QED BY <3>1, <4>1, RequestsCount
    <3>3. CASE People(b)' <= People(b)
      BY <1>0, <2>1, <2>2, <2>3, <2>4, <2>5, <3>2, <3>3
    <3>4. ASSUME NEW r \in Reqs, AddInsert(r), call[r].resv = b, People(b)' <= People(b) + 1
          PROVE  People(b)' + Cardinality(Pending(b)') <= peak'[m] + Cardinality(Reqs) - 1
      <4>1. r \in Pending(b)
        BY <3>4 DEF AddInsert, At, Pending, SeatsOK
      <4>2. Pending(b) # Pending(b)' /\ Pending(b) \subseteq Reqs
        BY <3>1, <3>4, <4>1 DEF Pending
      <4>3. Cardinality(Pending(b)') + 1 <= Cardinality(Pending(b))
        BY <3>1, <4>2, RequestsCount
      <4>4. QED BY <1>0, <2>2, <2>3, <2>4, <2>5, <3>4, <4>3
    <3>5. QED BY <1>1, <2>1, <3>3, <3>4, GuestsCount
  <2>8. QED BY <2>6, <2>7
<1>2. CASE b \notin Booked
  <2>1. PICK r \in Reqs :
           /\ CreateInsert(r) /\ UNCHANGED room
           /\ resv'[b] = [status |-> "CONFIRMED", room |-> call[r].room,
                          organizer |-> call[r].actor, start |-> call[r].start,
                          end |-> call[r].end, guests |-> GuestsOf(call[r])]
    BY <1>2, BooksInRoom, Zenon
  <2>2. resv'[b].room = call[r].room /\ resv'[b].guests = GuestsOf(call[r])
    BY <2>1
  <2>3. call[r].op = "create" /\ pc[r] = "write" /\ UNCHANGED peak
    BY <2>1 DEF CreateInsert, At
  <2>4. call[r].room \in Rooms /\ Cardinality(GuestsOf(call[r])) \in Nat
    BY <2>3, PartyIsNat
  <2>5. 1 + Cardinality(GuestsOf(call[r])) <= peak[call[r].room]
    BY <2>3 DEF SeatsOK
  <2>6. People(b)' = 1 + Cardinality(GuestsOf(call[r]))
    BY <2>2 DEF People
  <2>7. Pending(b)' = {}
    BY <1>2, PendingComesFrom DEF Booked
  <2>8. Cardinality(Pending(b)') = 0
    BY <2>7, FS_EmptySet
  <2>9. peak[call[r].room] \in Nat
    BY <2>4 DEF TypeOK, HistoryOK
  <2>10. QED BY <1>0, <2>2, <2>3, <2>4, <2>5, <2>6, <2>8, <2>9
<1>3. QED BY <1>1, <1>2

\* THEOREM.  However invitations interleave, a reservation exceeds the largest
\* capacity its room had by less than the number of requests in flight.
THEOREM OvershootIsBounded == Spec => []OvershootBounded
<1>1. Init => SeatsOK /\ FilledOK
  <2> SUFFICES ASSUME Init PROVE SeatsOK /\ FilledOK
    OBVIOUS
  <2>1. TypeOK
    BY InitTypeOK
  <2>2. \A k \in Rooms : room[k].cap <= peak[k]
    BY <2>1, CapIsNat DEF Init, TypeOK
  <2>3. QED BY <2>2 DEF Init, SeatsOK, FilledOK, Booked, NoCall, At
<1>2. TypeOK /\ FilledOK => OvershootBounded
  <2> SUFFICES ASSUME TypeOK, FilledOK, NEW b \in Booked
               PROVE  People(b) < peak[resv[b].room] + Cardinality(Reqs)
    BY DEF OvershootBounded
  <2>1. resv[b].room \in Rooms
    BY DEF TypeOK, TablesOK, Booked, ResvRow
  <2>2. People(b) \in Nat /\ peak[resv[b].room] \in Nat
    BY <2>1, PeopleIsNat DEF TypeOK, HistoryOK
  <2>3. Cardinality(Pending(b)) \in Nat /\ Cardinality(Reqs) \in Nat
    <3>1. Pending(b) \subseteq Reqs
      BY DEF Pending
    <3>2. QED BY <3>1, RequestsCount
  <2>4. QED BY <2>2, <2>3 DEF FilledOK
<1>3. QED
  BY <1>1, <1>2, SeatsInductive, FilledInductive, TypeCorrect, RoomsOfReservations, PTL DEF Spec

-------------------------------------------------------------------------------
(* Races: one handler about to write what another has read and goes on with. *)

\* How a create comes to its insert.
LEMMA ReachesInsert ==
    ASSUME TypeOK, [Next]_vars, NEW q \in Reqs, At(q, "create", "write")'
    PROVE  /\ call'[q] = call[q]
           /\ \/ At(q, "create", "write") /\ ~ CreateInsert(q)
              \/ UNCHANGED resv /\ \A b \in Resvs : ~ Clash(b, call[q])
<1> USE DEF At
<1>1. call'[q] = call[q] /\ call[q].op = "create"
  BY ReachesCreate
<1>2. \A label : Goto(q, label) => pc'[q] = label
  BY DEF Goto, TypeOK, RequestsOK
<1>3. \A reply : Answer(q, reply) => pc'[q] = reply
  BY DEF Answer, TypeOK, RequestsOK
<1>4. ~ CreateInsert(q)
  BY <1>2, <1>3 DEF CreateInsert
<1>5. ASSUME NEW r \in Reqs, RequestStep(r), q # r
      PROVE  At(q, "create", "write")
  BY <1>1, <1>5, OthersHold DEF Held
<1>6. CASE RequestStep(q)
  <2>1. ~ (Arrive(q) \/ TurnAway(q) \/ WriteAudit(q) \/ SendMail(q) \/ DbFails(q))
    <3>1. ~ Arrive(q)
      BY <1>1, <1>2 DEF Arrive, TypeOK, RequestsOK, NoCall
    <3>2. QED BY <1>2, <1>3, <3>1 DEF TurnAway, WriteAudit, SendMail, DbFails, Proceed, Answers
  <2>2. ~ RoomStep(q)
    BY <1>1 DEF RoomStep, RoomInsert, RoomFind, RoomUpdate, DeleteRoom, DeleteCount, DeleteRoomRow
  <2>3. CreateReservation(q)
    BY <1>1, <1>6, <2>1, <2>2
       DEF RequestStep, Work, ReservationStep, CloseReservation, AddAttendee, RemoveAttendee,
           CheckIn, AddFind, AddFindUser, AddInsert, RemoveFind, RemoveDelete, CheckInFind,
           CheckInLookup, CloseFind, CancelUpdate, OverrideUpdate
  <2>4. CreateFindOverlap(q)
    BY <1>2, <1>3, <1>4, <2>3
       DEF CreateReservation, CreateFindRoom, CreateCountUsers, Check, Proceed
  <2>5. QED BY <1>3, <2>4 DEF CreateFindOverlap, store
<1>7. ~ Crash
  BY DEF Crash
<1>8. Tick \/ UNCHANGED vars => At(q, "create", "write")
  BY <1>1 DEF Tick, vars, locals
<1>9. QED BY <1>1, <1>4, <1>5, <1>6, <1>7, <1>8 DEF Next, RequestStep

\* How a cancel or an override comes to its update.
LEMMA ReachesClose ==
    ASSUME TypeOK, [Next]_vars, NEW q \in Reqs, Closing(q)'
    PROVE  /\ call'[q] = call[q]
           /\ \/ Closing(q) /\ ~ CancelUpdate(q) /\ ~ OverrideUpdate(q)
              \/ UNCHANGED resv /\ MayClose(call[q])
<1> USE DEF At, Closing
<1>2. \A label : Goto(q, label) => pc'[q] = label
  BY DEF Goto, TypeOK, RequestsOK
<1>3. \A reply : Answer(q, reply) => pc'[q] = reply
  BY DEF Answer, TypeOK, RequestsOK
<1>1. call'[q] = call[q]
  <2>1. ~ Arrive(q)
    BY <1>2 DEF Arrive, FirstLabel, TypeOK, RequestsOK
  <2>2. QED BY <2>1, CallsStay DEF NoCall
<1>4. ~ CancelUpdate(q) /\ ~ OverrideUpdate(q)
  BY <1>2 DEF CancelUpdate, OverrideUpdate, Proceed
<1>5. ASSUME NEW r \in Reqs, RequestStep(r), q # r
      PROVE  Closing(q)
  BY <1>1, <1>5, OthersHold DEF Held
<1>6. CASE RequestStep(q)
  <2>1. ~ (Arrive(q) \/ TurnAway(q) \/ WriteAudit(q) \/ SendMail(q) \/ DbFails(q))
    <3>1. ~ Arrive(q)
      BY <1>2 DEF Arrive, FirstLabel, TypeOK, RequestsOK
    <3>2. QED BY <1>2, <1>3, <3>1 DEF TurnAway, WriteAudit, SendMail, DbFails, Proceed, Answers
  <2>2. ~ RoomStep(q)
    BY <1>1 DEF RoomStep, RoomInsert, RoomFind, RoomUpdate, DeleteRoom, DeleteCount, DeleteRoomRow
  <2>3. CloseReservation(q)
    BY <1>1, <1>6, <2>1, <2>2
       DEF RequestStep, Work, ReservationStep, CreateReservation, AddAttendee, RemoveAttendee,
           CheckIn, AddFind, AddFindUser, AddInsert, RemoveFind, RemoveDelete, CheckInFind,
           CheckInLookup, CreateFindRoom, CreateCountUsers, CreateFindOverlap, CreateInsert
  <2>4. CloseFind(q)
    BY <1>4, <2>3 DEF CloseReservation
  <2>5. QED BY <1>1, <1>3, <2>4 DEF CloseFind, Check, store
<1>7. ~ Crash
  BY DEF Crash
<1>8. Tick \/ UNCHANGED vars => Closing(q)
  BY <1>1 DEF Tick, vars, locals
<1>9. QED BY <1>1, <1>4, <1>5, <1>6, <1>7, <1>8 DEF Next, RequestStep

\* What an invitation reads.
LEMMA AddFindReads ==
    ASSUME TypeOK, NEW q \in Reqs, AddFind(q), pc'[q] = "users"
    PROVE  /\ seats'[q] = [people |-> People(call[q].resv) + 1,
                           cap |-> room[resv[call[q].resv].room].cap]
           /\ UNCHANGED <<room, resv, peak>>
<1>1. ~ Answer(q, "refused")
  BY DEF Answer, TypeOK, RequestsOK
<1>2. QED BY <1>1 DEF AddFind, TypeOK, RequestsOK, store, history

\* An invitation that goes on was going on, or has just read what it goes on with.
LEMMA ReachesInvite ==
    ASSUME TypeOK, [Next]_vars, NEW q \in Reqs, Inviting(q)'
    PROVE  /\ call'[q] = call[q] /\ call[q].resv \in Booked
           /\ \/ Inviting(q) /\ seats'[q] = seats[q] /\ ~ AddInsert(q)
              \/ /\ MayManage(call[q])
                 /\ seats'[q] = [people |-> People(call[q].resv) + 1,
                                 cap |-> room[resv[call[q].resv].room].cap]
                 /\ UNCHANGED <<room, resv, peak>>
<1>1. call'[q] = call[q] /\ call[q].op = "addAttendee" /\ pc'[q] \in {"users", "write"}
  BY ReachesAdd DEF Inviting
<1>2. CASE pc[q] = pc'[q] /\ seats'[q] = seats[q] /\ ~ AddInsert(q)
  BY <1>1, <1>2 DEF Inviting, TypeOK, RequestsOK, CheckedOK, ResvOps
<1>3. CASE AddFindUser(q) /\ pc[q] = "users" /\ seats'[q] = seats[q]
  <2>1. ~ AddInsert(q)
    BY <1>3 DEF AddInsert, At
  <2>2. QED BY <1>1, <1>3, <2>1 DEF Inviting, TypeOK, RequestsOK, CheckedOK, ResvOps
<1>4. CASE AddFind(q) /\ pc'[q] = "users" /\ MayManage(call[q])
  BY <1>1, <1>4, AddFindReads DEF MayManage
<1>5. QED BY <1>1, <1>2, <1>3, <1>4, ReachesAdd DEF Inviting

\* Who changes a room that has been opened.
LEMMA RoomChangedBy ==
    ASSUME TypeOK, [Next]_vars, NEW m \in Rooms, room[m].status # "unborn"
    PROVE  \/ room'[m] = room[m]
           \/ room'[m].status = "deleted" /\ UNCHANGED resv /\ \A b \in Booked : resv[b].room # m
           \/ \E r \in Reqs : Changing(r, m)
<1>1. ASSUME NEW r \in Reqs, RoomInsert(r)
      PROVE  room'[m] = room[m]
  BY <1>1 DEF RoomInsert, TypeOK, TablesOK
<1>2. ASSUME NEW r \in Reqs, RoomUpdate(r)
      PROVE  room'[m] = room[m] \/ Changing(r, m)
  BY <1>2 DEF RoomUpdate, Changing, At, TypeOK, TablesOK
<1>3. ASSUME NEW r \in Reqs, DeleteRoomRow(r)
      PROVE  \/ room'[m] = room[m]
             \/ room'[m].status = "deleted" /\ UNCHANGED resv /\ \A b \in Booked : resv[b].room # m
  <2>1. CASE room' = room
    BY <2>1
  <2>2. CASE RowDeletable(call[r].room) /\ room' = [room EXCEPT ![call[r].room].status = "deleted"]
    <3>1. call[r].room # m => room'[m] = room[m]
      BY <2>2 DEF TypeOK, TablesOK
    <3>2. call[r].room = m => room'[m].status = "deleted"
      BY <2>2 DEF TypeOK, TablesOK, RoomRow
    <3>3. QED BY <1>3, <2>2, <3>1, <3>2 DEF RowDeletable, DeleteRoomRow
  <2>3. QED BY <1>3, <2>1, <2>2 DEF DeleteRoomRow
<1>4. ASSUME NEW r \in Reqs, RequestStep(r),
             ~ (RoomInsert(r) \/ RoomUpdate(r) \/ DeleteRoomRow(r))
      PROVE  UNCHANGED room
  BY <1>4 DEF RequestStep, Work, ReservationStep, CreateReservation, CloseReservation,
      AddAttendee, RemoveAttendee, CheckIn, CreateFindRoom, CreateCountUsers,
      CreateFindOverlap, CreateInsert, CloseFind, CancelUpdate, OverrideUpdate, AddFind,
      AddFindUser, AddInsert, RemoveFind, RemoveDelete, CheckInFind, CheckInLookup,
      Arrive, TurnAway, RoomStep, RoomFind, DeleteRoom, DeleteCount, WriteAudit, SendMail,
      DbFails, store
<1>5. Crash \/ Tick \/ UNCHANGED vars => UNCHANGED room
  BY DEF Crash, Tick, vars, store
<1>6. QED
  BY <1>1, <1>2, <1>3, <1>4, <1>5 DEF Next, RequestStep

-------------------------------------------------------------------------------
(* What each race can break, and what holds without it. *)

\* A create about to insert clashes with nothing that is there.
FreeOK ==
    \A r \in Reqs : At(r, "create", "write") => \A b \in Resvs : ~ Clash(b, call[r])

\* The room a create was let into takes it, unless it has been deleted: then
\* the foreign key refuses the insert.
TakenOK ==
    \A r \in Reqs : Creating(r) => room[call[r].room].status = "deleted" \/ RoomTakes(call[r])

\* An invitation counted everybody who is there, against a capacity that the
\* room once had, or still has.
CountedOK == \A r \in Reqs : Inviting(r) => People(call[r].resv) < seats[r].people
PeakOK == \A r \in Reqs : Inviting(r) => seats[r].cap <= peak[resv[call[r].resv].room]
RoomyOK == \A r \in Reqs : Inviting(r) => seats[r].cap <= room[resv[call[r].resv].room].cap

\* A reservation about to be closed, or to get a guest, is confirmed.
CloseOK == \A r \in Reqs : Closing(r) => resv[call[r].resv].status = "CONFIRMED"
InviteOK == \A r \in Reqs : Inviting(r) => resv[call[r].resv].status = "CONFIRMED"

\* The times of a create were checked before its first query.
TimesOK ==
    \A r \in Reqs : call[r].op = "create" =>
        call[r].start < call[r].end /\ call[r].end - call[r].start <= MaxDuration

\* Without a race between creates the overlap query's answer stays true.
LEMMA FreeInductive ==
    ASSUME TypeOK, NoBookRace, FreeOK, [Next]_vars
    PROVE  FreeOK'
<1> SUFFICES ASSUME NEW q \in Reqs, At(q, "create", "write")', NEW b \in Resvs, Clash(b, call[q])'
             PROVE  FALSE
  BY DEF FreeOK
<1>1. PICK c : c = call[q] /\ c = call'[q]
  BY ReachesInsert
<1>2. Clash(b, c)'
  BY <1>1 DEF Clash
<1>3. CASE UNCHANGED resv /\ \A a \in Resvs : ~ Clash(a, call[q])
  BY <1>1, <1>2, <1>3 DEF Clash, Confirmed, Booked
<1>4. CASE At(q, "create", "write") /\ ~ CreateInsert(q)
  <2>1. ~ Clash(b, c)
    BY <1>1, <1>4 DEF FreeOK
  <2>2. b \notin Booked /\ b \in Booked'
    BY <1>2, <2>1, ClashOnlyClears DEF Clash, Confirmed
  <2>3. PICK r \in Reqs :
           /\ CreateInsert(r)
           /\ resv'[b] = [status |-> "CONFIRMED", room |-> call[r].room,
                          organizer |-> call[r].actor, start |-> call[r].start,
                          end |-> call[r].end, guests |-> GuestsOf(call[r])]
    BY <2>2, BooksInRoom, Zenon
  <2>4. resv'[b].room = call[r].room /\ resv'[b].start = call[r].start /\ resv'[b].end = call[r].end
    BY <2>3
  <2>5. BookRace(r, q)
    BY <1>1, <1>2, <1>4, <2>3, <2>4 DEF Clash, BookRace, CreateInsert
  <2>6. QED BY <1>4, <2>3, <2>5 DEF NoBookRace
<1>5. QED BY <1>3, <1>4, ReachesInsert

\* A reservation that is inserted clashes with nothing: none is booked twice.
LEMMA ApartInductive ==
    ASSUME TypeOK, FreeOK, NoDoubleBooking, [Next]_vars
    PROVE  NoDoubleBooking'
<1> SUFFICES ASSUME NEW a \in Resvs, NEW b \in Resvs, DoubleBooked(a, b)'
             PROVE  FALSE
  BY DEF NoDoubleBooking
<1>1. a \in Booked' /\ b \in Booked'
  BY DEF DoubleBooked, Confirmed
<1>2. CASE a \in Booked /\ b \in Booked
  BY <1>2, ClashOnlyClears DEF NoDoubleBooking
<1>3. ASSUME NEW x \in Resvs, NEW y \in Resvs, DoubleBooked(x, y)', y \notin Booked
      PROVE  FALSE
  <2>1. y \in Booked' /\ x \in Booked' /\ x # y
    BY <1>3 DEF DoubleBooked, Confirmed
  <2>2. PICK r \in Reqs :
           /\ CreateInsert(r)
           /\ resv'[y] = [status |-> "CONFIRMED", room |-> call[r].room,
                          organizer |-> call[r].actor, start |-> call[r].start,
                          end |-> call[r].end, guests |-> GuestsOf(call[r])]
    BY <1>3, <2>1, BooksInRoom, Zenon
  <2>3. /\ resv'[y].room = call[r].room
        /\ resv'[y].start = call[r].start /\ resv'[y].end = call[r].end
    BY <2>2
  <2>4. resv'[x] = resv[x]
    <3>1. PICK n \in Resvs \ Booked : \E row : resv' = [resv EXCEPT ![n] = row]
      BY <1>3, <2>1, <2>2 DEF CreateInsert, Booked
    <3>2. n = y
      BY <1>3, <2>1, <3>1 DEF Booked, TypeOK, TablesOK
    <3>3. QED BY <2>1, <3>1, <3>2 DEF TypeOK, TablesOK
  <2>5. Clash(x, call[r])
    BY <1>3, <2>3, <2>4 DEF DoubleBooked, Clash, Confirmed, Booked
  <2>6. QED BY <2>2, <2>5 DEF CreateInsert, FreeOK
<1>4. CASE a \notin Booked
  <2>1. DoubleBooked(b, a)'
    <3>1. resv'[a] \in ResvRow /\ resv'[b] \in ResvRow
      BY <1>1, NextTypeOK DEF TypeOK, TablesOK, Booked
    <3>2. QED BY <3>1 DEF DoubleBooked, Overlaps, ResvRow
  <2>2. QED BY <1>3, <1>4, <2>1
<1>5. QED BY <1>2, <1>3, <1>4

\* Without a race with a change of the room, a create's room takes it.
LEMMA TakenInductive ==
    ASSUME TypeOK, SeatsOK, NoRoomRace, TakenOK, [Next]_vars
    PROVE  TakenOK'
<1> SUFFICES ASSUME NEW q \in Reqs, Creating(q)'
             PROVE  room'[call'[q].room].status = "deleted" \/ RoomTakes(call[q])'
  BY DEF TakenOK
<1>1. call'[q] = call[q] /\ call[q].op = "create"
  BY ReachesCreate DEF Creating
<1>2. PICK c : c = call[q] /\ c = call'[q]
  BY <1>1
<1>3. c.room \in Rooms
  BY <1>1, <1>2, PartyIsNat
<1>4. CASE CreateFindRoom(q) /\ RoomTakes(call[q])
  <2>1. UNCHANGED room
    BY <1>4 DEF CreateFindRoom, store
  <2>2. RoomTakes(c)'
    BY <1>2, <1>4, <2>1 DEF RoomTakes, RoomExists, GuestsOf
  <2>3. QED BY <1>2, <2>2 DEF RoomTakes, GuestsOf
<1>5. CASE Creating(q)
  <2>1. room[c.room].status = "deleted" \/ RoomTakes(c)
    BY <1>2, <1>5 DEF TakenOK
  <2>2. room[c.room].status # "unborn"
    BY <1>2, <1>5 DEF SeatsOK, Creating
  <2>3. \A r \in Reqs : ~ Changing(r, c.room)
    BY <1>2, <1>5 DEF NoRoomRace, RoomRace
  <2>4. room'[c.room] = room[c.room] \/ room'[c.room].status = "deleted"
    BY <1>3, <2>2, <2>3, RoomChangedBy
  <2>5. room'[c.room].status = "deleted" \/ RoomTakes(c)'
    BY <2>1, <2>4 DEF RoomTakes, RoomExists, GuestsOf
  <2>6. QED BY <1>2, <2>5 DEF RoomTakes, GuestsOf
<1>6. QED BY <1>1, <1>4, <1>5, ReachesCreate DEF Creating

\* A capacity that was read stays below the peak of its room.
LEMMA PeakInductive ==
    ASSUME TypeOK, RoomOfReservationExists, SeatsOK, PeakOK, [Next]_vars
    PROVE  PeakOK'
<1> SUFFICES ASSUME NEW q \in Reqs, Inviting(q)'
             PROVE  seats'[q].cap <= peak'[resv'[call'[q].resv].room]
  BY DEF PeakOK
<1> DEFINE b == call[q].resv
           m == resv[b].room
<1>1. call'[q] = call[q] /\ b \in Booked
  BY ReachesInvite
<1>2. resv'[b].room = m /\ m \in Rooms
  BY <1>1, NextCloses DEF OnlyCloses, TypeOK, TablesOK, Booked, ResvRow
<1>3. peak[m] \in Nat /\ peak'[m] \in Nat /\ peak[m] <= peak'[m]
  <2>1. room[m].status # "unborn"
    BY <1>1 DEF RoomOfReservationExists, RoomExists, RoomStatus
  <2>2. QED BY <1>2, <2>1, NextTypeOK, PeaksRise DEF SeatsOK, TypeOK, HistoryOK
<1>4. seats'[q].cap \in Nat /\ seats'[q].cap <= peak[m]
  <2>1. CASE Inviting(q) /\ seats'[q] = seats[q]
    BY <1>1, <2>1 DEF PeakOK, TypeOK, RequestsOK
  <2>2. CASE seats'[q] = [people |-> People(b) + 1, cap |-> room[m].cap]
    BY <1>2, <2>2, CapIsNat DEF SeatsOK, TypeOK
  <2>3. QED BY <2>1, <2>2, ReachesInvite
<1>5. QED BY <1>1, <1>2, <1>3, <1>4

\* Without a race between invitations, what one counted stays enough.
LEMMA CountedInductive ==
    ASSUME TypeOK, NoInviteRace, CountedOK, [Next]_vars
    PROVE  CountedOK'
<1> SUFFICES ASSUME NEW q \in Reqs, Inviting(q)'
             PROVE  People(call[q].resv)' < seats'[q].people
  BY DEF CountedOK
<1>1. PICK b : b = call[q].resv /\ b = call'[q].resv
  BY ReachesInvite
<1>2. b \in Booked /\ People(b) \in Nat /\ People(b)' \in Nat
  BY <1>1, ReachesInvite, GuestsCount
<1>3. People(b)' < seats'[q].people
  <2>1. CASE Inviting(q) /\ seats'[q] = seats[q] /\ ~ AddInsert(q)
    <3>1. People(b) < seats'[q].people /\ seats'[q].people \in Nat
      BY <1>1, <2>1 DEF CountedOK, TypeOK, RequestsOK
    <3>2. ASSUME NEW r \in Reqs, AddInsert(r), call[r].resv = b
          PROVE  FALSE
      BY <1>1, <2>1, <3>2 DEF AddInsert, InviteRace, NoInviteRace
    <3>3. People(b)' <= People(b)
      BY <1>2, <3>2, GuestsCount
    <3>4. QED BY <1>2, <3>1, <3>3
  <2>2. CASE seats'[q] = [people |-> People(b) + 1, cap |-> room[resv[b].room].cap] /\ UNCHANGED resv
    BY <1>2, <2>2 DEF People
  <2>3. QED BY <1>1, <2>1, <2>2, ReachesInvite
<1>4. QED BY <1>1, <1>3 DEF People

\* So the people fit the largest capacity the room had.
LEMMA FitInductive ==
    ASSUME TypeOK, RoomOfReservationExists, SeatsOK, PeakOK, CountedOK,
           PeopleWithinCapacity, [Next]_vars
    PROVE  PeopleWithinCapacity'
<1> SUFFICES ASSUME NEW b \in Booked'
             PROVE  People(b)' <= peak'[resv'[b].room]
  BY DEF PeopleWithinCapacity
<1> DEFINE m == resv[b].room
<1>1. CASE b \in Booked
  <2>1. m \in Rooms /\ resv'[b].room = m
    BY <1>1, NextCloses DEF OnlyCloses, TypeOK, TablesOK, Booked, ResvRow
  <2>2. peak[m] \in Nat /\ peak'[m] \in Nat /\ peak[m] <= peak'[m]
    <3>1. room[m].status # "unborn"
      BY <1>1 DEF RoomOfReservationExists, RoomExists, RoomStatus
    <3>2. QED BY <2>1, <3>1, NextTypeOK, PeaksRise DEF SeatsOK, TypeOK, HistoryOK
  <2>3. People(b) \in Nat /\ People(b)' \in Nat
    BY <1>1, GuestsCount
  <2>4. CASE People(b)' <= People(b)
    BY <1>1, <2>1, <2>2, <2>3, <2>4 DEF PeopleWithinCapacity
  <2>5. ASSUME NEW r \in Reqs, AddInsert(r), call[r].resv = b, People(b)' <= People(b) + 1
        PROVE  People(b)' <= peak'[m]
    <3>1. At(r, "addAttendee", "write") /\ Inviting(r)
      BY <2>5 DEF AddInsert, At, Inviting
    <3>2. People(b) < seats[r].people /\ seats[r].people <= seats[r].cap /\ seats[r].cap <= peak[m]
      BY <2>5, <3>1 DEF CountedOK, SeatsOK, PeakOK
    <3>3. seats[r].people \in Nat /\ seats[r].cap \in Nat
      BY DEF TypeOK, RequestsOK
    <3>4. QED BY <2>2, <2>3, <2>5, <3>2, <3>3
  <2>6. QED BY <1>1, <2>1, <2>4, <2>5, GuestsCount
<1>2. CASE b \notin Booked
  <2>1. PICK r \in Reqs :
           /\ CreateInsert(r)
           /\ resv'[b] = [status |-> "CONFIRMED", room |-> call[r].room,
                          organizer |-> call[r].actor, start |-> call[r].start,
                          end |-> call[r].end, guests |-> GuestsOf(call[r])]
    BY <1>2, BooksInRoom, Zenon
  <2>2. resv'[b].room = call[r].room /\ resv'[b].guests = GuestsOf(call[r])
    BY <2>1
  <2>3. call[r].op = "create" /\ pc[r] = "write" /\ UNCHANGED peak
    BY <2>1 DEF CreateInsert, At
  <2>4. 1 + Cardinality(GuestsOf(call[r])) <= peak[call[r].room]
    BY <2>3 DEF SeatsOK
  <2>5. QED BY <2>2, <2>3, <2>4 DEF People
<1>3. QED BY <1>1, <1>2

\* A confirmed reservation stays so but for the handlers that close it.
LEMMA StaysConfirmed ==
    ASSUME TypeOK, [Next]_vars, NEW b \in Confirmed, \A r \in Reqs : Closing(r) => call[r].resv # b
    PROVE  resv'[b].status = "CONFIRMED"
<1>1. b \in Booked' /\ b \in Booked
  BY ClashOnlyClears DEF Confirmed
<1>2. \A r \in Reqs : CancelUpdate(r) \/ OverrideUpdate(r) => Closing(r)
  BY DEF CancelUpdate, OverrideUpdate, Closing, At
<1>3. QED BY <1>1, <1>2, Closes DEF Confirmed

\* Without a race between ends, a handler closes what is still confirmed.
LEMMA CloseInductive ==
    ASSUME TypeOK, NoCloseRace, CloseOK, [Next]_vars
    PROVE  CloseOK'
<1> SUFFICES ASSUME NEW q \in Reqs, Closing(q)'
             PROVE  resv'[call'[q].resv].status = "CONFIRMED"
  BY DEF CloseOK
<1>1. call'[q] = call[q]
  BY ReachesClose
<1>2. CASE UNCHANGED resv /\ MayClose(call[q])
  BY <1>1, <1>2 DEF MayClose
<1>3. CASE Closing(q) /\ ~ CancelUpdate(q) /\ ~ OverrideUpdate(q)
  <2> DEFINE b == call[q].resv
  <2>1. b \in Confirmed
    BY <1>3 DEF Closing, CloseOK, Confirmed, TypeOK, RequestsOK, CheckedOK, ResvOps
  <2>2. b \in Booked' /\ b \in Booked
    BY <2>1, ClashOnlyClears DEF Confirmed
  <2>3. ASSUME NEW r \in Reqs, CancelUpdate(r) \/ OverrideUpdate(r), call[r].resv = b
        PROVE  FALSE
    <3>1. Closing(r)
      BY <2>3 DEF CancelUpdate, OverrideUpdate, Closing, At
    <3>2. QED BY <1>3, <2>3, <3>1 DEF CloseRace, NoCloseRace
  <2>4. resv'[b].status = "CONFIRMED"
    BY <2>1, <2>2, <2>3, Closes DEF Confirmed
  <2>5. QED BY <1>1, <2>4
<1>4. QED BY <1>2, <1>3, ReachesClose

\* So a closed reservation is not closed again.
LEMMA ClosedStaysClosed ==
    ASSUME TypeOK, CloseOK, [Next]_vars, NEW b \in Booked \ Confirmed
    PROVE  resv'[b].status = resv[b].status
<1>1. resv'[b].status # "CONFIRMED" /\ b \in Booked'
  BY ClashOnlyClears, NextCloses DEF Confirmed, OnlyCloses
<1>2. ASSUME NEW r \in Reqs, CancelUpdate(r) \/ OverrideUpdate(r), call[r].resv = b
      PROVE  FALSE
  BY <1>2 DEF CancelUpdate, OverrideUpdate, At, Closing, CloseOK, Confirmed
<1>3. QED BY <1>1, <1>2, Closes

\* Without a late end, a guest is invited to a reservation that stands.
LEMMA InviteInductive ==
    ASSUME TypeOK, NoLateRace, InviteOK, [Next]_vars
    PROVE  InviteOK'
<1> SUFFICES ASSUME NEW q \in Reqs, Inviting(q)'
             PROVE  resv'[call'[q].resv].status = "CONFIRMED"
  BY DEF InviteOK
<1> DEFINE b == call[q].resv
<1>1. call'[q] = call[q] /\ b \in Booked
  BY ReachesInvite
<1>2. CASE UNCHANGED resv /\ MayManage(call[q])
  BY <1>1, <1>2 DEF MayManage
<1>3. CASE Inviting(q)
  <2>1. b \in Confirmed
    BY <1>1, <1>3 DEF InviteOK, Confirmed
  <2>2. \A r \in Reqs : Closing(r) => call[r].resv # b
    BY <1>3 DEF NoLateRace, LateRace
  <2>3. QED BY <1>1, <2>1, <2>2, StaysConfirmed
<1>4. QED BY <1>2, <1>3, ReachesInvite

\* Nor does its room shrink without a race with a change of the room.
LEMMA RoomyInductive ==
    ASSUME TypeOK, RoomOfReservationExists, NoCapacityRace, RoomyOK, [Next]_vars
    PROVE  RoomyOK'
<1> SUFFICES ASSUME NEW q \in Reqs, Inviting(q)'
             PROVE  seats'[q].cap <= room'[resv'[call'[q].resv].room].cap
  BY DEF RoomyOK
<1> DEFINE b == call[q].resv
           m == resv[b].room
<1>1. call'[q] = call[q] /\ b \in Booked
  BY ReachesInvite
<1>2. resv'[b].room = m /\ m \in Rooms
  BY <1>1, NextCloses DEF OnlyCloses, TypeOK, TablesOK, Booked, ResvRow
<1>3. CASE Inviting(q) /\ seats'[q] = seats[q]
  <2>1. \A r \in Reqs : ~ Changing(r, m)
    BY <1>3 DEF NoCapacityRace, CapacityRace
  <2>2. room[m].status # "unborn"
    BY <1>1 DEF RoomOfReservationExists, RoomExists, RoomStatus
  <2>3. room'[m] = room[m]
    BY <1>1, <1>2, <2>1, <2>2, RoomChangedBy
  <2>4. QED BY <1>1, <1>2, <1>3, <2>3 DEF RoomyOK
<1>4. CASE seats'[q] = [people |-> People(b) + 1, cap |-> room[m].cap] /\ UNCHANGED <<room, resv>>
  <2>1. room[m].cap \in Nat
    BY <1>2, CapIsNat DEF TypeOK
  <2>2. QED BY <1>1, <1>4, <2>1
<1>5. QED BY <1>3, <1>4, ReachesInvite

\* A create's times are those it was let in with.
LEMMA TimesInductive ==
    ASSUME TypeOK, TimesOK, [Next]_vars
    PROVE  TimesOK'
<1> SUFFICES ASSUME NEW q \in Reqs, call'[q].op = "create"
             PROVE  call'[q].start < call'[q].end /\ call'[q].end - call'[q].start <= MaxDuration
  BY DEF TimesOK
<1>1. CASE Arrive(q)
  <2>1. PICK c \in Calls : Admissible(c) /\ call' = [call EXCEPT ![q] = c]
    BY <1>1 DEF Arrive
  <2>2. call'[q] = c
    BY <2>1 DEF TypeOK, RequestsOK
  <2>3. c.start \in Int /\ c.end \in Int
    BY <2>2, CallShape, BookingAssumption DEF CreateCall
  <2>4. QED BY <2>1, <2>2, <2>3 DEF Admissible, Bookable
<1>2. CASE call'[q] = call[q]
  BY <1>2 DEF TimesOK
<1>3. QED BY <1>1, <1>2, CallsStay DEF NoCall

\* THEOREM.  Rule 1 of the service breaks by one race only: as long as no two
\* creates that found a room free at overlapping times are both about to
\* insert, no two confirmed reservations of a room overlap, whatever else
\* runs at once.
THEOREM BookedOnceWithoutRace == Spec /\ []NoBookRace => []NoDoubleBooking
<1>1. Init => FreeOK /\ NoDoubleBooking
  BY DEF Init, FreeOK, At, NoDoubleBooking, DoubleBooked, Confirmed, Booked
<1>2. TypeOK /\ NoBookRace /\ FreeOK /\ NoDoubleBooking /\ [Next]_vars
        => FreeOK' /\ NoDoubleBooking'
  BY FreeInductive, ApartInductive
<1>3. QED BY <1>1, <1>2, TypeCorrect, PTL DEF Spec

\* The bounds on capacities hold from the start.
LEMMA SeatsStart == Init => SeatsOK
<1> SUFFICES ASSUME Init PROVE SeatsOK
  OBVIOUS
<1>1. TypeOK
  BY InitTypeOK
<1>2. \A k \in Rooms : room[k].cap <= peak[k]
  BY <1>1, CapIsNat DEF Init, TypeOK
<1>3. QED BY <1>2 DEF Init, SeatsOK, NoCall, At

\* THEOREM.  Rule 2 of the service: only a change of the room between a
\* create's check and its insert lets a reservation into a room out of order.
\* A deletion in between does not: the foreign key refuses the insert.
THEOREM InServiceWithoutRace == Spec /\ []NoRoomRace => BookedInService
<1>1. Init => SeatsOK /\ TakenOK
  BY SeatsStart DEF Init, TakenOK, Creating, NoCall
<1>2. TypeOK /\ SeatsOK /\ TakenOK /\ NoRoomRace /\ [Next]_vars => SeatsOK' /\ TakenOK'
  BY SeatsInductive, TakenInductive
<1>3. TypeOK /\ TakenOK /\ [Next]_vars
        => [\A b \in Resvs \ Booked :
              resv'[b] # NoResv => room[resv'[b].room].status = "AVAILABLE"]_vars
  <2> SUFFICES ASSUME TypeOK, TakenOK, [Next]_vars, NEW b \in Resvs \ Booked, resv'[b] # NoResv
               PROVE  room[resv'[b].room].status = "AVAILABLE"
    OBVIOUS
  <2>1. b \in Booked'
    BY DEF Booked
  <2>2. PICK r \in Reqs :
           /\ CreateInsert(r) /\ RoomExists(call[r].room)
           /\ resv'[b] = [status |-> "CONFIRMED", room |-> call[r].room,
                          organizer |-> call[r].actor, start |-> call[r].start,
                          end |-> call[r].end, guests |-> GuestsOf(call[r])]
    BY <2>1, BooksInRoom, Zenon
  <2>3. resv'[b].room = call[r].room /\ Creating(r)
    BY <2>2 DEF CreateInsert, At, Creating
  <2>4. QED BY <2>2, <2>3 DEF TakenOK, RoomTakes, RoomExists, RoomStatus
<1>4. QED BY <1>1, <1>2, <1>3, TypeCorrect, PTL DEF Spec, BookedInService

\* THEOREM.  Rule 3 of the service: only an invitation inserted between the
\* count of another one and its own insert lets more people in than the room
\* ever seated.  Withdrawals, cancellations and changes of the room do not.
THEOREM PeopleFitWithoutRace == Spec /\ []NoInviteRace => []PeopleWithinCapacity
<1>1. Init => SeatsOK /\ PeakOK /\ CountedOK /\ PeopleWithinCapacity
  BY SeatsStart DEF Init, PeakOK, CountedOK, Inviting, NoCall, PeopleWithinCapacity, Booked
<1>2. TypeOK /\ RoomOfReservationExists /\ NoInviteRace /\ SeatsOK /\ PeakOK /\ CountedOK
        /\ PeopleWithinCapacity /\ [Next]_vars
        => SeatsOK' /\ PeakOK' /\ CountedOK' /\ PeopleWithinCapacity'
  BY SeatsInductive, PeakInductive, CountedInductive, FitInductive
<1>3. QED BY <1>1, <1>2, TypeCorrect, RoomsOfReservations, PTL DEF Spec

\* THEOREM.  The guard `Reservation is not active' fails by one race only: of
\* two handlers that end a reservation both have to pass it before either
\* writes.
THEOREM ClosedOnceWithoutRace == Spec /\ []NoCloseRace => ClosedOnce
<1>1. Init => CloseOK
  BY DEF Init, CloseOK, Closing, NoCall
<1>2. TypeOK /\ NoCloseRace /\ CloseOK /\ [Next]_vars => CloseOK'
  BY CloseInductive
<1>3. TypeOK /\ CloseOK /\ [Next]_vars
        => [\A b \in Booked \ Confirmed : resv'[b].status = resv[b].status]_vars
  BY ClosedStaysClosed
<1>4. QED BY <1>1, <1>2, <1>3, TypeCorrect, PTL DEF Spec, ClosedOnce

-------------------------------------------------------------------------------
(* How many bookings of a room an instant can get. *)

\* The creates that found room m free at an instant and are about to insert.
Landing(m, at) ==
    {r \in Reqs : /\ At(r, "create", "write") /\ call[r].room = m
                  /\ ActiveAt(call[r].start, call[r].end, at)}

\* Bookings that are there and bookings about to be.
LandedOK ==
    \A m \in Rooms, at \in Int :
        /\ IsFiniteSet(ActiveBookings(m, at))
        /\ Cardinality(ActiveBookings(m, at)) + Cardinality(Landing(m, at)) <= Cardinality(Reqs)

\* Every reservation that covers an instant clashes with every create that does.
LEMMA SharedInstantClashes ==
    ASSUME TypeOK, NEW m \in Rooms, NEW at \in Int, NEW b \in ActiveBookings(m, at),
           NEW c \in CreateCall, c.room = m, ActiveAt(c.start, c.end, at)
    PROVE  Clash(b, c)
<1>1. b \in Confirmed /\ resv[b].room = m /\ ActiveAt(resv[b].start, resv[b].end, at)
  BY DEF ActiveBookings
<1>2. resv[b].start \in Int /\ resv[b].end \in Int
  BY <1>1 DEF Confirmed, Booked, TypeOK, TablesOK, ResvRow
<1>3. c.start \in Int /\ c.end \in Int
  BY BookingAssumption DEF CreateCall
<1>4. QED BY <1>1, <1>2, <1>3 DEF Clash, Overlaps, ActiveAt

\* A booking becomes active at an instant only as a create lands.
LEMMA ActiveComesFrom ==
    ASSUME TypeOK, [Next]_vars, NEW m \in Rooms, NEW at \in Int,
           ~ (ActiveBookings(m, at)' \subseteq ActiveBookings(m, at))
    PROVE  \E r \in Landing(m, at), b \in Resvs :
              CreateInsert(r) /\ ActiveBookings(m, at)' \subseteq ActiveBookings(m, at) \cup {b}
<1>1. \A a \in Booked : a \in ActiveBookings(m, at)' => a \in ActiveBookings(m, at)
  <2> SUFFICES ASSUME NEW a \in Booked, a \in ActiveBookings(m, at)'
               PROVE  a \in ActiveBookings(m, at)
    OBVIOUS
  <2>1. OnlyCloses(a) /\ a \in Confirmed
    BY NextCloses, ClashOnlyClears DEF ActiveBookings
  <2>2. QED BY <2>1 DEF OnlyCloses, ActiveBookings
<1>2. PICK b : b \in ActiveBookings(m, at)' /\ b \notin Booked
  BY <1>1
<1>3. b \in Booked' /\ b \in Resvs
  BY <1>2 DEF ActiveBookings, Confirmed, Booked
<1>4. PICK r \in Reqs :
         /\ CreateInsert(r)
         /\ resv'[b] = [status |-> "CONFIRMED", room |-> call[r].room,
                        organizer |-> call[r].actor, start |-> call[r].start,
                        end |-> call[r].end, guests |-> GuestsOf(call[r])]
  BY <1>2, <1>3, BooksInRoom, Zenon
<1>5. /\ resv'[b].room = call[r].room
      /\ resv'[b].start = call[r].start /\ resv'[b].end = call[r].end
  BY <1>4
<1>6. r \in Landing(m, at)
  BY <1>2, <1>4, <1>5 DEF ActiveBookings, Landing, CreateInsert
<1>7. \A a \in Booked' : a \in Booked \/ a = b
  <2>1. PICK n \in Resvs \ Booked : \E row : resv' = [resv EXCEPT ![n] = row]
    BY <1>2, <1>3, <1>4 DEF CreateInsert, Booked
  <2>2. n = b
    BY <1>2, <1>3, <2>1 DEF Booked, TypeOK, TablesOK
  <2>3. QED BY <2>1, <2>2 DEF Booked, TypeOK, TablesOK
<1>8. ActiveBookings(m, at)' \subseteq ActiveBookings(m, at) \cup {b}
  BY <1>1, <1>7 DEF ActiveBookings, Confirmed
<1>9. QED BY <1>3, <1>4, <1>6, <1>8

\* A create about to land was, or has just found the room free.
LEMMA LandingComesFrom ==
    ASSUME TypeOK, [Next]_vars, NEW m \in Rooms, NEW at \in Int, NEW q \in Landing(m, at)'
    PROVE  \/ q \in Landing(m, at) /\ ~ CreateInsert(q)
           \/ UNCHANGED resv /\ ActiveBookings(m, at) = {}
<1>1. /\ q \in Reqs /\ At(q, "create", "write")' /\ call'[q].room = m
      /\ ActiveAt(call'[q].start, call'[q].end, at)
  BY DEF Landing, ActiveAt
<1>2. call'[q] = call[q]
  BY <1>1, ReachesInsert
<1>3. call[q] \in CreateCall
  BY <1>1, <1>2, CallShape DEF At, TypeOK, RequestsOK
<1>4. CASE At(q, "create", "write") /\ ~ CreateInsert(q)
  BY <1>1, <1>2, <1>4 DEF Landing
<1>5. CASE UNCHANGED resv /\ \A b \in Resvs : ~ Clash(b, call[q])
  <2>1. ASSUME NEW b \in ActiveBookings(m, at) PROVE FALSE
    <3>1. Clash(b, call[q])
      BY <1>1, <1>2, <1>3, SharedInstantClashes
    <3>2. b \in Resvs
      BY DEF ActiveBookings, Confirmed, Booked
    <3>3. QED BY <1>5, <3>1, <3>2
  <2>2. QED BY <1>5, <2>1
<1>6. QED BY <1>1, <1>4, <1>5, ReachesInsert

\* So the sum does not rise above the number of handlers.
LEMMA LandedInductive ==
    ASSUME TypeOK, LandedOK, [Next]_vars
    PROVE  LandedOK'
<1> SUFFICES ASSUME NEW m \in Rooms, NEW at \in Int
             PROVE  /\ IsFiniteSet(ActiveBookings(m, at)')
                    /\ Cardinality(ActiveBookings(m, at)') + Cardinality(Landing(m, at)')
                         <= Cardinality(Reqs)
  BY DEF LandedOK
<1> DEFINE A == ActiveBookings(m, at)
           L == Landing(m, at)
<1>1. /\ IsFiniteSet(A) /\ Cardinality(A) \in Nat
      /\ Cardinality(A) + Cardinality(L) <= Cardinality(Reqs)
  BY FS_CardinalityType DEF LandedOK
<1>2. L \subseteq Reqs /\ L' \subseteq Reqs
  BY DEF Landing
<1>3. /\ Cardinality(L) \in Nat /\ Cardinality(L') \in Nat /\ Cardinality(Reqs) \in Nat
      /\ Cardinality(L') <= Cardinality(Reqs)
  BY <1>2, RequestsCount
<1> HIDE DEF A, L
<1>4. CASE UNCHANGED resv /\ A = {}
  <2>1. A' = {}
    BY <1>4 DEF A, ActiveBookings, Confirmed, Booked
  <2>2. IsFiniteSet(A') /\ Cardinality(A') = 0
    BY <2>1, FS_EmptySet
  <2>3. QED BY <1>3, <2>2 DEF A, L
<1>5. CASE ~ (UNCHANGED resv /\ A = {})
  <2>1. \A q \in L' : q \in L /\ ~ CreateInsert(q)
    BY <1>5, LandingComesFrom DEF A, L
  <2>2. Cardinality(L') <= Cardinality(L)
    BY <1>2, <2>1, RequestsCount
  <2>3. CASE A' \subseteq A
    <3>1. IsFiniteSet(A') /\ Cardinality(A') <= Cardinality(A)
      BY <1>1, <2>3, FS_Subset
    <3>2. Cardinality(A') \in Nat
      BY <3>1, FS_CardinalityType
    <3>3. Cardinality(A') + Cardinality(L') <= Cardinality(Reqs)
      BY <1>1, <1>3, <2>2, <3>1, <3>2
    <3>4. QED BY <3>1, <3>3 DEF A, L
  <2>4. CASE ~ (A' \subseteq A)
    <3>1. PICK r \in L, b \in Resvs : CreateInsert(r) /\ A' \subseteq A \cup {b}
      BY <2>4, ActiveComesFrom DEF A, L
    <3>2. Cardinality(L') + 1 <= Cardinality(L)
      <4>1. L' \subseteq L /\ r \notin L'
        BY <2>1, <3>1
      <4>2. QED BY <1>2, <3>1, <4>1, RequestsCount
    <3>3. IsFiniteSet(A \cup {b}) /\ Cardinality(A \cup {b}) \in Nat
          /\ Cardinality(A \cup {b}) <= Cardinality(A) + 1
      <4>1. IsFiniteSet(A \cup {b})
        BY <1>1, FS_AddElement
      <4>2. Cardinality(A \cup {b}) = IF b \in A THEN Cardinality(A) ELSE Cardinality(A) + 1
        BY <1>1, FS_AddElement, Zenon
      <4>3. QED BY <1>1, <4>1, <4>2, FS_CardinalityType
    <3>4. IsFiniteSet(A') /\ Cardinality(A') <= Cardinality(A \cup {b})
      BY <3>1, <3>3, FS_Subset
    <3>5. Cardinality(A') \in Nat
      BY <3>4, FS_CardinalityType
    <3>6. Cardinality(A') + Cardinality(L') <= Cardinality(Reqs)
      BY <1>1, <1>3, <3>2, <3>3, <3>4, <3>5
    <3>7. QED BY <3>4, <3>6 DEF A, L
  <2>5. QED BY <2>3, <2>4
<1>6. QED BY <1>4, <1>5

\* At any instant a room has no more bookings than there are handlers.
BookingsAtOnceBounded ==
    \A m \in Rooms, at \in Int : Cardinality(ActiveBookings(m, at)) <= Cardinality(Reqs)

\* THEOREM.  However creates, cancellations and crashes interleave, and however
\* many reservations a room collects over time, no instant of it is booked by
\* more reservations than there are handlers in flight: a create that starts
\* once a double booking is there adds no third.
THEOREM BookingsAtOnce == Spec => []BookingsAtOnceBounded
<1>1. Init => LandedOK
  <2> SUFFICES ASSUME Init, NEW m \in Rooms, NEW at \in Int
               PROVE  /\ IsFiniteSet(ActiveBookings(m, at))
                      /\ Cardinality(ActiveBookings(m, at)) + Cardinality(Landing(m, at))
                           <= Cardinality(Reqs)
    BY DEF LandedOK
  <2>1. ActiveBookings(m, at) = {} /\ Landing(m, at) = {}
    BY DEF Init, ActiveBookings, Confirmed, Booked, Landing, At
  <2>2. Cardinality(Reqs) \in Nat
    BY RequestsCount
  <2>3. QED BY <2>1, <2>2, FS_EmptySet
<1>2. LandedOK => BookingsAtOnceBounded
  <2> SUFFICES ASSUME LandedOK, NEW m \in Rooms, NEW at \in Int
               PROVE  Cardinality(ActiveBookings(m, at)) <= Cardinality(Reqs)
    BY DEF BookingsAtOnceBounded
  <2>1. Cardinality(ActiveBookings(m, at)) \in Nat
    BY FS_CardinalityType DEF LandedOK
  <2>2. Cardinality(Landing(m, at)) \in Nat /\ Cardinality(Reqs) \in Nat
    <3>1. Landing(m, at) \subseteq Reqs
      BY DEF Landing
    <3>2. QED BY <3>1, RequestsCount
  <2>3. QED BY <2>1, <2>2 DEF LandedOK
<1>3. QED BY <1>1, <1>2, LandedInductive, TypeCorrect, PTL DEF Spec

\* THEOREM.  The peer endpoint: however requests interleave, two bookings of a
\* room are active at one instant only if their creates were blind to each
\* other.
THEOREM SecondActiveTakesRace == Spec => []SecondActiveNeedsRace
<1>1. TypeOK /\ DoubleBookingNeedsRace => SecondActiveNeedsRace
  <2> SUFFICES ASSUME TypeOK, DoubleBookingNeedsRace, NEW m \in Rooms, NEW at \in Instants,
                      NEW a \in ActiveBookings(m, at), NEW b \in ActiveBookings(m, at), a # b
               PROVE  a \notin seen[b] /\ b \notin seen[a]
    BY DEF SecondActiveNeedsRace
  <2>1. a \in Confirmed /\ b \in Confirmed /\ a \in Resvs /\ b \in Resvs
    BY DEF ActiveBookings, Confirmed, Booked
  <2>2. /\ resv[a].start \in Int /\ resv[a].end \in Int
        /\ resv[b].start \in Int /\ resv[b].end \in Int /\ at \in Int
    BY <2>1, BookingAssumption DEF TypeOK, TablesOK, Confirmed, Booked, ResvRow
  <2>3. DoubleBooked(a, b)
    BY <2>1, <2>2 DEF ActiveBookings, ActiveAt, DoubleBooked, Overlaps
  <2>4. QED BY <2>1, <2>3 DEF DoubleBookingNeedsRace
<1>2. QED BY <1>1, TypeCorrect, DoubleBookingTakesTwo, PTL

-------------------------------------------------------------------------------
(* Handlers have no loops. *)

\* A bound on the queries and calls a handler still waits for.
StepsLeft(label) ==
    CASE label = "find" -> 6
      [] label = "users" -> 5
      [] label \in {"overlap", "count"} -> 4
      [] label = "write" -> 3
      [] label = "audit" -> 2
      [] label \in {"mail", "lookup"} -> 1
      [] OTHER -> 0

\* An answered request has none left, and one in flight has some.
LEMMA StepsLeftAre ==
    /\ \A label : StepsLeft(label) \in 0 .. 6
    /\ \A reply \in Free : StepsLeft(reply) = 0
    /\ \A label \in Labels : StepsLeft(label) > 0
<1>1. \A label : StepsLeft(label) \in 0 .. 6
  BY DEF StepsLeft
<1>2. \A reply \in Free : StepsLeft(reply) = 0
  BY DEF StepsLeft, Free, Answers
<1>3. \A label \in Labels : StepsLeft(label) > 0
  BY DEF StepsLeft, Labels, DbLabels
<1>4. QED BY <1>1, <1>2, <1>3

\* Each step of a handler leaves it fewer.
LEMMA WorkAdvances ==
    ASSUME TypeOK, NEW r \in Reqs, Work(r) \/ SendMail(r)
    PROVE  StepsLeft(pc'[r]) < StepsLeft(pc[r])
<1> USE DEF At, Check, Proceed
<1>1. \A label : Goto(r, label) => pc'[r] = label
  BY DEF Goto, TypeOK, RequestsOK
<1>2. ASSUME pc[r] \in Labels, \E reply \in Answers : Answer(r, reply)
      PROVE  StepsLeft(pc'[r]) < StepsLeft(pc[r])
  <2>1. pc'[r] \in Free
    BY <1>2 DEF Answer, TypeOK, RequestsOK, Free
  <2>2. QED BY <1>2, <2>1, StepsLeftAre
<1>3. pc[r] \in Labels /\ \/ \E reply \in Answers : Answer(r, reply)
                          \/ pc[r] = "find" /\ \E l \in {"users", "overlap", "count", "write", "lookup"} : Goto(r, l)
                          \/ pc[r] = "users" /\ \E l \in {"overlap", "write"} : Goto(r, l)
                          \/ pc[r] \in {"overlap", "count"} /\ Goto(r, "write")
                          \/ pc[r] = "write" /\ \E l \in {"audit", "mail"} : Goto(r, l)
                          \/ pc[r] = "audit" /\ Goto(r, "mail")
  <2> USE DEF Labels, DbLabels, Answers
  <2>1. CASE CreateReservation(r)
    BY <2>1 DEF CreateReservation, CreateFindRoom, CreateCountUsers, CreateFindOverlap, CreateInsert
  <2>2. CASE CloseReservation(r)
    BY <2>2 DEF CloseReservation, CloseFind, CancelUpdate, OverrideUpdate
  <2>3. CASE AddAttendee(r) \/ RemoveAttendee(r)
    BY <2>3 DEF AddAttendee, AddFind, AddFindUser, AddInsert, RemoveAttendee, RemoveFind, RemoveDelete
  <2>4. CASE CheckIn(r) \/ WriteAudit(r) \/ SendMail(r)
    BY <2>4 DEF CheckIn, CheckInFind, CheckInLookup, WriteAudit, SendMail
  <2>5. CASE RoomStep(r)
    BY <2>5 DEF RoomStep, RoomInsert, RoomFind, RoomUpdate, DeleteRoom,
        DeleteCount, DeleteRoomRow
  <2>6. QED BY <2>1, <2>2, <2>3, <2>4, <2>5 DEF Work, ReservationStep
<1>4. ASSUME NEW l, Goto(r, l),
             \/ pc[r] = "find" /\ l \in {"users", "overlap", "count", "write", "lookup"}
             \/ pc[r] = "users" /\ l \in {"overlap", "write"}
             \/ pc[r] \in {"overlap", "count"} /\ l = "write"
             \/ pc[r] = "write" /\ l \in {"audit", "mail"}
             \/ pc[r] = "audit" /\ l = "mail"
      PROVE  StepsLeft(pc'[r]) < StepsLeft(pc[r])
  BY <1>1, <1>4 DEF StepsLeft
<1>5. QED BY <1>2, <1>3, <1>4

\* A handler in flight advances with its own steps, and nobody sets it back.
Advances(r) ==
    /\ StepsLeft(pc'[r]) <= StepsLeft(pc[r])
    /\ Work(r) \/ SendMail(r) => StepsLeft(pc'[r]) < StepsLeft(pc[r])

\* THEOREM.  The part of `every request is answered' that is a matter of
\* safety: a request past the middleware takes at most six steps of its own,
\* and no step of another one, fault or crash lengthens what it has left.
THEOREM RequestsAdvance == Spec => [][\A r \in Reqs : pc[r] \notin Free => Advances(r)]_vars
<1>1. TypeOK /\ [Next]_vars => [\A r \in Reqs : pc[r] \notin Free => Advances(r)]_vars
  <2> SUFFICES ASSUME TypeOK, [Next]_vars, NEW r \in Reqs, pc[r] \notin Free
               PROVE  Advances(r)
    OBVIOUS
  <2>1. Work(r) \/ SendMail(r) => Advances(r)
    <3>1. StepsLeft(pc'[r]) \in Int /\ StepsLeft(pc[r]) \in Int
      BY StepsLeftAre
    <3>2. QED BY <3>1, WorkAdvances DEF Advances
  <2> SUFFICES ASSUME ~ (Work(r) \/ SendMail(r))
               PROVE  StepsLeft(pc'[r]) <= StepsLeft(pc[r])
    BY <2>1 DEF Advances
  <2>2. StepsLeft(pc[r]) \in 0 .. 6
    BY StepsLeftAre
  <2>3. CASE pc'[r] = pc[r]
    BY <2>2, <2>3
  <2>4. CASE pc'[r] \in Free
    <3>1. StepsLeft(pc'[r]) = 0
      BY <2>4, StepsLeftAre
    <3>2. QED BY <2>2, <3>1
  <2>5. ASSUME NEW p \in Reqs, RequestStep(p)
        PROVE  pc'[r] = pc[r] \/ pc'[r] \in Free
    <3>1. CASE p # r
      BY <2>5, <3>1, OthersHold DEF Held
    <3>2. CASE p = r
      <4>1. TurnAway(r) \/ DbFails(r)
        BY <2>5, <3>2 DEF RequestStep, Arrive
      <4>2. QED BY <4>1 DEF TurnAway, DbFails, Answer, TypeOK, RequestsOK, Free, Answers
    <3>3. QED BY <3>1, <3>2
  <2>6. Crash => pc'[r] \in Free
    BY DEF Crash, Free
  <2>7. Tick \/ UNCHANGED vars => pc'[r] = pc[r]
    BY DEF Tick, vars
  <2>8. QED BY <2>3, <2>4, <2>5, <2>6, <2>7 DEF Next, RequestStep
<1>2. QED BY <1>1, TypeCorrect, PTL DEF Spec

-------------------------------------------------------------------------------
(* Without races, requests keep the ledger. *)

\* What handlers have read still holds: everything they go on with.
Firm ==
    /\ TimesOK /\ SeatsOK /\ FreeOK /\ TakenOK
    /\ CountedOK /\ RoomyOK /\ CloseOK /\ InviteOK

\* An opened room has a capacity that was asked for.
RoomsFit == \A m \in Rooms : RoomExists(m) => room[m].cap \in Capacities

\* Rooms keep a capacity that was asked for.
LEMMA RoomsFitInductive ==
    ASSUME TypeOK, RoomsFit, [Next]_vars
    PROVE  RoomsFit'
<1> SUFFICES ASSUME NEW m \in Rooms, room'[m].status \in RoomStatus
             PROVE  room'[m].cap \in Capacities
  BY DEF RoomsFit, RoomExists
<1>1. CASE room'[m] = room[m]
  BY <1>1 DEF RoomsFit, RoomExists
<1>2. ASSUME NEW r \in Reqs, RoomInsert(r)
      PROVE  room'[m] = room[m] \/ room'[m].cap \in Capacities
  <2>1. call[r].cap \in Capacities
    BY <1>2, CallShape DEF RoomInsert, At, TypeOK, RequestsOK, NewRoomCall
  <2>2. QED BY <1>2, <2>1 DEF RoomInsert, TypeOK, TablesOK
<1>3. ASSUME NEW r \in Reqs, RoomUpdate(r)
      PROVE  room'[m] = room[m] \/ room'[m].cap \in Capacities
  <2>1. call[r].op \in {"updateRoom", "setRoomStatus"}
    BY <1>3 DEF RoomUpdate, At
  <2>2. call[r] \in RoomCall
    BY <2>1, CallShape DEF TypeOK, RequestsOK
  <2>3. call[r].cap \in Capacities \cup {KeepCap}
    BY <2>1, <2>2 DEF RoomCall
  <2>4. room'[m] = room[m] \/ (RoomExists(m) /\ room'[m] = Updated(room[m], call[r]))
    BY <1>3 DEF RoomUpdate, TypeOK, TablesOK
  <2>5. QED BY <2>3, <2>4 DEF Updated, RoomsFit
<1>4. ASSUME NEW r \in Reqs, DeleteRoomRow(r)
      PROVE  room'[m] = room[m]
  BY <1>4 DEF DeleteRoomRow, RoomStatus, TypeOK, TablesOK, RoomRow
<1>5. ASSUME NEW r \in Reqs, RequestStep(r),
             ~ (RoomInsert(r) \/ RoomUpdate(r) \/ DeleteRoomRow(r))
      PROVE  UNCHANGED room
  BY <1>5 DEF RequestStep, Work, ReservationStep, CreateReservation, CloseReservation,
      AddAttendee, RemoveAttendee, CheckIn, CreateFindRoom, CreateCountUsers,
      CreateFindOverlap, CreateInsert, CloseFind, CancelUpdate, OverrideUpdate, AddFind,
      AddFindUser, AddInsert, RemoveFind, RemoveDelete, CheckInFind, CheckInLookup,
      Arrive, TurnAway, RoomStep, RoomFind, DeleteRoom, DeleteCount, WriteAudit, SendMail,
      DbFails, store
<1>6. Crash \/ Tick \/ UNCHANGED vars => UNCHANGED room
  BY DEF Crash, Tick, vars, store
<1>7. QED
  BY <1>1, <1>2, <1>3, <1>4, <1>5, <1>6 DEF Next, RequestStep

\* Without races, what was read stays so.
LEMMA FirmInductive ==
    ASSUME TypeOK, RoomOfReservationExists, NoRace, Firm, [Next]_vars
    PROVE  Firm'
BY TimesInductive, SeatsInductive, FreeInductive, TakenInductive, CountedInductive,
   RoomyInductive, CloseInductive, InviteInductive
   DEF Firm, NoRace

-------------------------------------------------------------------------------
\* Each change of the tables is a step of the ledger.

\* The ledger counts as the service does.
LEMMA SameCount == \A S : Desk!Cardinality(S) = Cardinality(S)
BY Zenon DEF Desk!Cardinality, Cardinality

\* A reservation that is closed loses nothing else.
LEMMA CloseIsClose ==
    ASSUME TypeOK, Firm, NEW r \in Reqs, CancelUpdate(r) \/ OverrideUpdate(r)
    PROVE  Desk!Close(call[r].resv)
<1> DEFINE b == call[r].resv
<1>1. b \in Booked /\ b \in Resvs /\ resv[b].status = "CONFIRMED" /\ UNCHANGED room
  BY DEF CancelUpdate, OverrideUpdate, At, Firm, CloseOK, Closing, TypeOK, RequestsOK,
         CheckedOK, ResvOps, Booked
<1>2. \/ resv' = [resv EXCEPT ![b] = Cancelled(b)]
      \/ resv' = [resv EXCEPT ![b] = Overridden(b)]
  BY DEF CancelUpdate, OverrideUpdate
<1>3. \E status \in {"CANCELLED", "OVERRIDDEN"} : resv' = [resv EXCEPT ![b].status = status]
  BY <1>2, Zenon DEF Cancelled, Overridden
<1>4. QED BY <1>1, <1>3 DEF Desk!Close, Desk!Written, Booked

\* What it takes to book in the ledger.
LEMMA BookIt ==
    ASSUME NEW b \in Resvs, NEW m \in Rooms, NEW u \in Users, NEW from \in Instants,
           NEW to \in Instants, NEW guests \in SUBSET Users,
           b \notin Desk!Written, UNCHANGED room,
           resv' = [resv EXCEPT ![b] =
                [status |-> "CONFIRMED", room |-> m, organizer |-> u,
                 start |-> from, end |-> to, guests |-> guests]],
           Desk!InService(m),
           from < to /\ to - from <= MaxDuration,
           u \notin guests,
           1 + Desk!Cardinality(guests) <= room[m].cap,
           \A a \in Desk!Written :
                resv[a].status = "CONFIRMED" /\ resv[a].room = m
                    => ~ Desk!Overlaps(resv[a].start, resv[a].end, from, to)
    PROVE  Desk!Book(b)
BY Zenon DEF Desk!Book

\* What an insert writes, the ledger would book.
LEMMA InsertIsBook ==
    ASSUME TypeOK, Firm, NEW r \in Reqs, CreateInsert(r), resv' # resv
    PROVE  \E b \in Resvs : Desk!Book(b)
<1> DEFINE c == call[r]
<1>1. c \in CreateCall /\ c.op = "create" /\ pc[r] = "write"
  BY CallShape DEF CreateInsert, At, TypeOK, RequestsOK
<1>2. /\ c.room \in Rooms /\ c.actor \in Users
      /\ c.start \in Instants /\ c.end \in Instants
  BY <1>1 DEF CreateCall
<1>3. GuestsOf(c) \in SUBSET Users /\ c.actor \notin GuestsOf(c)
  BY <1>1 DEF TypeOK, RequestsOK, CheckedOK, GuestsOf
<1>4. /\ c.start < c.end /\ c.end - c.start <= MaxDuration
      /\ RoomTakes(c)
      /\ \A a \in Resvs : ~ Clash(a, c)
  <2>1. RoomExists(c.room)
    BY DEF CreateInsert
  <2>2. RoomTakes(c)
    BY <1>1, <2>1 DEF Firm, TakenOK, Creating, RoomExists, RoomStatus
  <2>3. QED BY <1>1, <2>2 DEF Firm, TimesOK, FreeOK, At
<1>5. room[c.room].status = "AVAILABLE" /\ 1 + Cardinality(GuestsOf(c)) <= room[c.room].cap
  BY <1>4 DEF RoomTakes, RoomExists, RoomStatus
<1>6. \A a \in Desk!Written :
        resv[a].status = "CONFIRMED" /\ resv[a].room = c.room
            => ~ Desk!Overlaps(resv[a].start, resv[a].end, c.start, c.end)
  BY <1>4 DEF Desk!Written, Desk!Overlaps, Clash, Confirmed, Booked, Overlaps
<1>7. PICK b \in Resvs \ Booked :
        resv' = [resv EXCEPT ![b] =
            [status |-> "CONFIRMED", room |-> c.room, organizer |-> c.actor,
             start |-> c.start, end |-> c.end, guests |-> GuestsOf(c)]]
  BY DEF CreateInsert
<1>8. b \notin Desk!Written /\ UNCHANGED room
  BY <1>7 DEF Desk!Written, Booked, CreateInsert
<1>9. Desk!InService(c.room) /\ 1 + Desk!Cardinality(GuestsOf(c)) <= room[c.room].cap
  BY <1>5, SameCount DEF Desk!InService
<1>10. Desk!Book(b)
  BY <1>2, <1>3, <1>4, <1>6, <1>7, <1>8, <1>9, BookIt
<1>11. QED BY <1>7, <1>10

\* An invitation that is written was counted on what is there now.
LEMMA InviteIsInvite ==
    ASSUME TypeOK, Firm, NEW r \in Reqs, AddInsert(r), resv' # resv
    PROVE  Desk!Invite(call[r].resv)
<1> DEFINE b == call[r].resv
           u == call[r].user
<1>1. b \in Booked /\ u \in Users /\ u \notin resv[b].guests
  BY DEF AddInsert, At, TypeOK, RequestsOK, CheckedOK, ResvOps
<1>2. resv' = [resv EXCEPT ![b].guests = @ \cup {u}] /\ UNCHANGED room
  BY DEF AddInsert
<1>3. /\ resv[b].status = "CONFIRMED"
      /\ People(b) < seats[r].people /\ seats[r].cap <= room[resv[b].room].cap
      /\ seats[r].people <= seats[r].cap
  BY DEF AddInsert, At, Inviting, Firm, InviteOK, CountedOK, RoomyOK, SeatsOK
<1>4. Cardinality(resv[b].guests) + 2 <= room[resv[b].room].cap
  <2>1. IsFiniteSet(resv[b].guests)
    BY <1>1, PeopleIsNat
  <2>2. Cardinality(resv[b].guests) \in Nat
    BY <2>1, FS_CardinalityType
  <2>3. seats[r].people \in Nat /\ seats[r].cap \in Nat
    BY DEF TypeOK, RequestsOK
  <2>4. resv[b].room \in Rooms
    BY <1>1 DEF TypeOK, TablesOK, Booked, ResvRow
  <2>5. room[resv[b].room].cap \in Nat
    BY <2>4, CapIsNat DEF TypeOK
  <2>6. QED BY <1>3, <2>2, <2>3, <2>5 DEF People
<1>5. QED BY <1>1, <1>2, <1>3, <1>4, SameCount, Zenon DEF Desk!Invite, Desk!Written, Booked

\* Deleting somebody is the ledger's Uninvite; deleting nobody is a stutter.
LEMMA RemoveIsUninvite ==
    ASSUME TypeOK, NEW r \in Reqs, RemoveDelete(r), resv' # resv
    PROVE  Desk!Uninvite(call[r].resv)
<1> DEFINE b == call[r].resv
           u == call[r].user
<1>1. b \in Booked /\ resv \in [Resvs -> ResvRow \cup {NoResv}]
  BY DEF RemoveDelete, At, TypeOK, TablesOK, RequestsOK, CheckedOK, ResvOps
<1>2. resv' = [resv EXCEPT ![b].guests = @ \ {u}] /\ UNCHANGED room
  BY DEF RemoveDelete
<1>3. u \in resv[b].guests
  <2>1. SUFFICES ASSUME u \notin resv[b].guests PROVE FALSE
    OBVIOUS
  <2>2. resv[b].guests \ {u} = resv[b].guests
    BY <2>1
  <2>3. resv[b] \in ResvRow
    BY <1>1 DEF Booked
  <2>4. [resv[b] EXCEPT !.guests = @ \ {u}] = resv[b]
    BY <2>2, <2>3 DEF ResvRow
  <2>5. resv' = resv
    BY <1>1, <1>2, <2>4
  <2>6. QED BY <2>5
<1>4. QED BY <1>1, <1>2, <1>3, Zenon DEF Desk!Uninvite, Desk!Written, Booked

\* What staff write of a room, the ledger would.
LEMMA RoomStepIsLedger ==
    ASSUME TypeOK, RoomsFit, NEW r \in Reqs,
           RoomInsert(r) \/ RoomUpdate(r) \/ DeleteRoomRow(r), room' # room
    PROVE  \E m \in Rooms : Desk!SetRoom(m) \/ Desk!RemoveRoom(m)
<1>1. CASE RoomInsert(r)
  <2>1. call[r].cap \in Capacities /\ call[r].status \in {"AVAILABLE", "OUT_OF_ORDER"}
    BY <1>1, CallShape DEF RoomInsert, At, TypeOK, RequestsOK, NewRoomCall, RoomStatus
  <2>2. PICK m \in Rooms :
          /\ room[m].status = "unborn"
          /\ room' = [room EXCEPT ![m] = [status |-> call[r].status, cap |-> call[r].cap]]
    BY <1>1 DEF RoomInsert
  <2>3. UNCHANGED resv
    BY <1>1 DEF RoomInsert
  <2>4. Desk!SetRoom(m)
    BY <2>1, <2>2, <2>3, Zenon DEF Desk!SetRoom
  <2>5. QED BY <2>4
<1>2. CASE RoomUpdate(r)
  <2> DEFINE m == call[r].room
             row == Updated(room[m], call[r])
  <2>1. call[r].op \in {"updateRoom", "setRoomStatus"}
    BY <1>2 DEF RoomUpdate, At
  <2>2. call[r] \in RoomCall
    BY <2>1, CallShape DEF TypeOK, RequestsOK
  <2>3. /\ m \in Rooms /\ call[r].cap \in Capacities \cup {KeepCap}
        /\ call[r].status \in RoomStatus \cup {Keep}
    BY <2>1, <2>2 DEF RoomCall
  <2>4. RoomExists(m) /\ room' = [room EXCEPT ![m] = row] /\ UNCHANGED resv
    BY <1>2 DEF RoomUpdate
  <2>5. row.status \in {"AVAILABLE", "OUT_OF_ORDER"} /\ row.cap \in Capacities
        /\ row = [status |-> row.status, cap |-> row.cap]
    BY <2>3, <2>4 DEF Updated, RoomsFit, RoomExists, RoomStatus
  <2>6. room[m].status # "deleted"
    BY <2>4 DEF RoomExists, RoomStatus
  <2>7. Desk!SetRoom(m)
    <3>1. PICK status, cap : status = row.status /\ cap = row.cap
      OBVIOUS
    <3>2. room' = [room EXCEPT ![m] = [status |-> status, cap |-> cap]]
      BY <2>4, <2>5, <3>1
    <3>3. status \in {"AVAILABLE", "OUT_OF_ORDER"} /\ cap \in Capacities
      BY <2>5, <3>1
    <3>4. QED BY <2>4, <2>6, <3>2, <3>3, Zenon DEF Desk!SetRoom
  <2>8. QED BY <2>3, <2>7
<1>3. CASE DeleteRoomRow(r)
  <2> DEFINE m == call[r].room
  <2>1. call[r] \in RoomCall
    BY <1>3, CallShape DEF DeleteRoomRow, At, TypeOK, RequestsOK
  <2>2. m \in Rooms
    BY <2>1 DEF RoomCall
  <2>3. RowDeletable(m) /\ room' = [room EXCEPT ![m].status = "deleted"] /\ UNCHANGED resv
    BY <1>3 DEF DeleteRoomRow
  <2>4. Desk!RemoveRoom(m)
    BY <2>3 DEF RowDeletable, RoomExists, RoomStatus, Desk!RemoveRoom, Desk!Standing,
        Desk!Written, Booked
  <2>5. QED BY <2>2, <2>4
<1>4. QED BY <1>1, <1>2, <1>3

\* Every step is a step of the ledger, or leaves the tables alone.
LEMMA StepsKeepLedger ==
    ASSUME TypeOK, RoomsFit, Firm, [Next]_vars
    PROVE  [Desk!Next]_(Desk!ledger)
<1> SUFFICES ASSUME ~ UNCHANGED <<room, resv>> PROVE Desk!Next
  BY DEF Desk!ledger
<1>1. ASSUME NEW r \in Reqs, RequestStep(r)
      PROVE  \/ CreateInsert(r) \/ CancelUpdate(r) \/ OverrideUpdate(r) \/ AddInsert(r)
             \/ RemoveDelete(r) \/ RoomInsert(r) \/ RoomUpdate(r) \/ DeleteRoomRow(r)
  BY <1>1 DEF RequestStep, Work, ReservationStep, CreateReservation, CloseReservation,
      AddAttendee, RemoveAttendee, CheckIn, CreateFindRoom, CreateCountUsers,
      CreateFindOverlap, CloseFind, AddFind, AddFindUser, RemoveFind, CheckInFind,
      CheckInLookup, Arrive, TurnAway, RoomStep, RoomFind, DeleteRoom, DeleteCount,
      WriteAudit, SendMail, DbFails, store
<1>2. ~ (Crash \/ Tick \/ UNCHANGED vars)
  BY DEF Crash, Tick, vars, store
<1>3. PICK r \in Reqs : RequestStep(r)
  BY <1>2 DEF Next, RequestStep
<1>4. CASE CancelUpdate(r) \/ OverrideUpdate(r)
  <2>1. call[r].resv \in Resvs
    BY <1>4 DEF CancelUpdate, OverrideUpdate, At, TypeOK, RequestsOK, CheckedOK, ResvOps, Booked
  <2>2. QED BY <1>4, <2>1, CloseIsClose DEF Desk!Next
<1>5. CASE CreateInsert(r)
  <2>1. resv' # resv
    BY <1>5 DEF CreateInsert
  <2>2. QED BY <1>5, <2>1, InsertIsBook DEF Desk!Next
<1>6. CASE AddInsert(r) \/ RemoveDelete(r)
  <2>1. resv' # resv
    BY <1>6 DEF AddInsert, RemoveDelete
  <2>2. call[r].resv \in Resvs
    BY <1>6 DEF AddInsert, RemoveDelete, At, TypeOK, RequestsOK, CheckedOK, ResvOps, Booked
  <2>3. QED BY <1>6, <2>1, <2>2, InviteIsInvite, RemoveIsUninvite DEF Desk!Next
<1>7. CASE RoomInsert(r) \/ RoomUpdate(r) \/ DeleteRoomRow(r)
  <2>1. room' # room
    BY <1>7 DEF RoomInsert, RoomUpdate, DeleteRoomRow
  <2>2. QED BY <1>7, <2>1, RoomStepIsLedger DEF Desk!Next
<1>8. QED BY <1>1, <1>3, <1>4, <1>5, <1>6, <1>7

\* The ledger opens with the tables as they are, and nothing read.
LEMMA LedgerOpens == Init => Desk!Init /\ RoomsFit /\ Firm
<1> SUFFICES ASSUME Init PROVE Desk!Init /\ RoomsFit /\ Firm
  OBVIOUS
<1>1. Desk!Init
  <2>1. room \in [Rooms -> [status : {"unborn"}, cap : {0}]
                             \cup [status : {"AVAILABLE"}, cap : Capacities]]
    BY DEF Init, NoRoom
  <2>2. QED BY <2>1 DEF Init, Desk!Init
<1>2. RoomsFit
  BY DEF Init, RoomsFit, RoomExists, RoomStatus, NoRoom
<1>3. \A r \in Reqs : ~ Creating(r) /\ ~ Inviting(r) /\ ~ Closing(r) /\ call[r].op # "create"
  BY DEF Init, Creating, Inviting, Closing, NoCall
<1>4. Firm
  BY <1>3, SeatsStart DEF Firm, TimesOK, FreeOK, At, TakenOK, CountedOK, RoomyOK, CloseOK, InviteOK
<1>5. QED BY <1>1, <1>2, <1>4

\* THEOREM.  Refinement: the six races are all that separates the service from
\* the ledger.  In a run without them, any number of handlers at once, with
\* their faults and crashes, change the tables only as the single steps of
\* Ledger do.  Withdrawing a guest or deleting a room races with nothing.
THEOREM LedgerKeptWithoutRaces == Spec /\ []NoRace => ImplementsLedger
<1>1. TypeOK /\ RoomOfReservationExists /\ NoRace /\ RoomsFit /\ Firm /\ [Next]_vars
        => RoomsFit' /\ Firm' /\ [Desk!Next]_(Desk!ledger)
  BY RoomsFitInductive, FirmInductive, StepsKeepLedger
<1>2. QED
  BY <1>1, LedgerOpens, TypeCorrect, RoomsOfReservations, PTL
  DEF Spec, ImplementsLedger, Desk!Spec

-------------------------------------------------------------------------------
(* The specification with its history variables is the specification. *)
LEMMA RacesIsSpec == RaceSpec => Spec
<1>1. RaceInit => Init
  BY DEF RaceInit
<1>2. [RaceNext]_raceVars => [Next]_vars
  BY DEF RaceNext, raceVars
<1>3. QED BY <1>1, <1>2, PTL DEF RaceSpec, Spec

\* Nobody races in the first state.
LEMMA NoRaceAtFirst == Init => NoRace
BY DEF Init, NoRace, NoBookRace, NoRoomRace, NoCapacityRace, NoInviteRace, NoCloseRace,
   NoLateRace, BookRace, RoomRace, CapacityRace, InviteRace, CloseRace, LateRace, At,
   Creating, Inviting, Closing, NoCall

\* Until a race is met, nothing a handler read has become untrue.
FirmUntilRaced == ~ raced => NoRace /\ RoomsFit /\ Firm

\* THEOREM.  Refinement, for any number of handlers at once with their faults
\* and crashes: the tables change only as the single steps of Ledger do for as
\* long as no two handlers have met in one of the six races.
THEOREM LedgerKeptUntilRaced == RaceSpec => LedgerUntilRaced
<1>1. RaceInit => Desk!Init /\ FirmUntilRaced
  BY LedgerOpens, NoRaceAtFirst DEF RaceInit, FirmUntilRaced
<1>2. TypeOK /\ RoomOfReservationExists /\ FirmUntilRaced /\ [RaceNext]_raceVars
        => FirmUntilRaced' /\ [~ raced => Desk!Next]_(Desk!ledger)
  <2> SUFFICES ASSUME TypeOK, RoomOfReservationExists, FirmUntilRaced, [RaceNext]_raceVars
               PROVE  FirmUntilRaced' /\ [~ raced => Desk!Next]_(Desk!ledger)
    OBVIOUS
  <2>1. [Next]_vars
    BY DEF RaceNext, raceVars
  <2>2. ~ raced => RoomsFit' /\ Firm' /\ [Desk!Next]_(Desk!ledger)
    BY <2>1, RoomsFitInductive, FirmInductive, StepsKeepLedger DEF FirmUntilRaced
  <2>3. ~ raced' => ~ raced /\ NoRace'
    <3>1. CASE RaceNext
      BY <3>1 DEF RaceNext, Watch
    <3>2. CASE UNCHANGED raceVars
      <4>1. ~ raced => NoRace'
        <5>1. UNCHANGED <<pc, call, resv>>
          BY <3>2 DEF raceVars, vars, store, locals
        <5>2. NoRace => NoRace'
          BY <5>1 DEF NoRace, NoBookRace, NoRoomRace, NoCapacityRace, NoInviteRace,
             NoCloseRace, NoLateRace, BookRace, RoomRace, CapacityRace, InviteRace, CloseRace,
             LateRace, At, Creating, Inviting, Closing, Changing
        <5>3. QED BY <5>2 DEF FirmUntilRaced
      <4>2. QED BY <3>2, <4>1 DEF raceVars
    <3>3. QED BY <3>1, <3>2
  <2>4. QED BY <2>2, <2>3 DEF FirmUntilRaced
<1>3. QED
  BY <1>1, <1>2, RacesIsSpec, TypeCorrect, RoomsOfReservations, PTL
  DEF RaceSpec, LedgerUntilRaced

-------------------------------------------------------------------------------
(* Newcomers. *)

\* How a check-in comes to its look-up.
LEMMA ReachesLookup ==
    ASSUME TypeOK, [Next]_vars, NEW q \in Reqs, At(q, "checkIn", "lookup")'
    PROVE  /\ call'[q] = call[q]
           /\ At(q, "checkIn", "lookup") \/ MayManage(call[q])
<1> USE DEF At
<1>1. \A label : Goto(q, label) => pc'[q] = label
  BY DEF Goto, TypeOK, RequestsOK
<1>2. \A reply : Answer(q, reply) => pc'[q] = reply
  BY DEF Answer, TypeOK, RequestsOK
<1>3. ~ Arrive(q)
  BY <1>1 DEF Arrive, FirstLabel, TypeOK, RequestsOK
<1>4. call'[q] = call[q]
  BY <1>3, CallsStay DEF NoCall
<1>5. ASSUME NEW r \in Reqs, RequestStep(r), q # r
      PROVE  At(q, "checkIn", "lookup")
  BY <1>4, <1>5, OthersHold DEF Held
<1>6. CASE RequestStep(q)
  <2>1. ~ (TurnAway(q) \/ WriteAudit(q) \/ SendMail(q) \/ DbFails(q))
    BY <1>1, <1>2 DEF TurnAway, WriteAudit, SendMail, DbFails, Proceed, Answers
  <2>2. ~ RoomStep(q)
    BY <1>4 DEF NoCall, RoomStep, RoomInsert, RoomFind, RoomUpdate, DeleteRoom, DeleteCount, DeleteRoomRow
  <2>3. CheckIn(q)
    BY <1>3, <1>4, <1>6, <2>1, <2>2
       DEF RequestStep, Work, ReservationStep, CreateReservation, AddAttendee, RemoveAttendee,
           CloseReservation, CreateFindRoom, CreateCountUsers, CreateFindOverlap, CreateInsert,
           CloseFind, CancelUpdate, OverrideUpdate, AddFind, AddFindUser, AddInsert, RemoveFind,
           RemoveDelete
  <2>4. CheckInFind(q)
    BY <1>2, <2>3 DEF CheckIn, CheckInLookup
  <2>5. QED BY <1>2, <1>4, <2>4 DEF CheckInFind, Check
<1>7. ~ Crash
  BY DEF Crash
<1>8. Tick \/ UNCHANGED vars => At(q, "checkIn", "lookup")
  BY <1>4 DEF Tick, vars, locals
<1>9. QED BY <1>4, <1>5, <1>6, <1>7, <1>8 DEF Next, RequestStep

\* What was closed when a request arrived is closed.
ShutOK == shut \in [Reqs -> SUBSET (Booked \ Confirmed)]

\* A closed reservation stays closed.
LEMMA ClosedStays ==
    ASSUME TypeOK, [Next]_vars
    PROVE  Booked \ Confirmed \subseteq (Booked \ Confirmed)'
BY NextCloses DEF OnlyCloses, Booked, Confirmed

LEMMA ShutInductive ==
    ASSUME TypeOK, ShutOK, [RaceNext]_raceVars
    PROVE  ShutOK'
<1>1. [Next]_vars
  BY DEF RaceNext, raceVars
<1>2. Booked \ Confirmed \subseteq (Booked \ Confirmed)'
  BY <1>1, ClosedStays
<1>3. CASE RaceNext
  <2>1. \A r \in Reqs : ShutFor(r) \subseteq Booked \ Confirmed
    BY DEF ShutFor, ShutOK
  <2>2. QED BY <1>2, <1>3, <2>1, Zenon DEF RaceNext, Watch, ShutOK
<1>4. CASE UNCHANGED raceVars
  BY <1>2, <1>4, Zenon DEF raceVars, ShutOK
<1>5. QED BY <1>3, <1>4

\* A request past its guard keeps what was shut for it.
LEMMA ShutHeld ==
    ASSUME TypeOK, ShutOK, [RaceNext]_raceVars, NEW q \in Reqs,
           call'[q] = call[q], call'[q].op # "none", pc'[q] \notin Free
    PROVE  shut'[q] = shut[q]
<1>1. pc[q] \notin Free
  BY DEF TypeOK, RequestsOK, NoCall
<1>2. QED BY <1>1 DEF RaceNext, Watch, ShutFor, raceVars

\* THEOREM.  No request that arrived after a reservation was closed comes to
\* close it again, to invite to it or to check in: what happens to a closed
\* reservation is the doing of handlers that were in flight when it closed.
THEOREM NewcomersAreRefused == RaceSpec => []ClosedToNewcomers
<1>1. RaceInit => ShutOK /\ ClosedToNewcomers
  BY DEF RaceInit, Init, ShutOK, ClosedToNewcomers
<1>2. TypeOK /\ ShutOK /\ ClosedToNewcomers /\ [RaceNext]_raceVars
        => ShutOK' /\ ClosedToNewcomers'
  <2> SUFFICES ASSUME TypeOK, ShutOK, ClosedToNewcomers, [RaceNext]_raceVars, NEW q \in Reqs,
                      (Closing(q) \/ Inviting(q) \/ At(q, "checkIn", "lookup"))'
               PROVE  call'[q].resv \notin shut'[q]
    BY ShutInductive DEF ClosedToNewcomers
  <2>1. [Next]_vars
    BY DEF RaceNext, raceVars
  <2>2. call'[q] = call[q] /\ call'[q].op # "none" /\ pc'[q] \notin Free
    <3>1. call'[q] = call[q]
      BY <2>1, ReachesClose, ReachesInvite, ReachesLookup
    <3>2. call'[q].op \in {"cancel", "override", "addAttendee", "checkIn"}
      BY DEF Closing, Inviting, At
    <3>3. pc'[q] \in {"write", "users", "lookup"}
      BY DEF Closing, Inviting, At
    <3>4. QED BY <3>1, <3>2, <3>3 DEF Free, Answers
  <2>3. \/ Closing(q) \/ Inviting(q) \/ At(q, "checkIn", "lookup")
        \/ call[q].resv \in Confirmed
    BY <2>1, ReachesClose, ReachesInvite, ReachesLookup
       DEF MayClose, MayManage, Confirmed
  <2>4. call[q].resv \notin shut[q]
    BY <2>3 DEF ClosedToNewcomers, ShutOK
  <2>5. QED BY <2>2, <2>4, ShutHeld
<1>3. QED BY <1>1, <1>2, RacesIsSpec, TypeCorrect, PTL DEF RaceSpec

-------------------------------------------------------------------------------
(* What keeping the ledger promises. *)

\* The ledger's reservations: rows of the schema, no two of a room at once.
LedgerOK == resv \in [Resvs -> ResvRow \cup {NoResv}] /\ NoDoubleBooking

\* A row that ends, or whose guests change, is still where and when it was.
LEMMA RowsStay ==
    ASSUME LedgerOK, NEW a \in Resvs, Desk!Close(a) \/ Desk!Invite(a) \/ Desk!Uninvite(a)
    PROVE  /\ resv'[a] \in ResvRow /\ a \in Booked
           /\ resv'[a].room = resv[a].room
           /\ resv'[a].start = resv[a].start /\ resv'[a].end = resv[a].end
           /\ resv'[a].status = "CONFIRMED" => resv[a].status = "CONFIRMED"
           /\ \A b \in Resvs \ {a} : resv'[b] = resv[b]
<1>1. resv \in [Resvs -> ResvRow \cup {NoResv}] /\ a \in Booked /\ resv[a] \in ResvRow
  BY DEF LedgerOK, Desk!Close, Desk!Invite, Desk!Uninvite, Desk!Written, Booked
<1>2. CASE Desk!Close(a)
  BY <1>1, <1>2 DEF Desk!Close, ResvRow, ResvStatus
<1>3. CASE Desk!Invite(a)
  BY <1>1, <1>3 DEF Desk!Invite, ResvRow
<1>4. CASE Desk!Uninvite(a)
  BY <1>1, <1>4 DEF Desk!Uninvite, ResvRow
<1>5. QED BY <1>1, <1>2, <1>3, <1>4

\* A reservation the ledger books is apart from those of its room.
LEMMA BookedRow ==
    ASSUME LedgerOK, NEW a \in Resvs, Desk!Book(a)
    PROVE  /\ resv'[a] \in ResvRow /\ a \notin Booked /\ resv'[a].status = "CONFIRMED"
           /\ room[resv'[a].room].status = "AVAILABLE"
           /\ \A b \in Resvs \ {a} : resv'[b] = resv[b]
           /\ \A b \in Confirmed : resv[b].room = resv'[a].room =>
                ~ Overlaps(resv[b].start, resv[b].end, resv'[a].start, resv'[a].end)
<1>1. PICK m \in Rooms, u \in Users, from, to \in Instants, guests \in SUBSET Users :
        /\ resv' = [resv EXCEPT ![a] =
             [status |-> "CONFIRMED", room |-> m, organizer |-> u,
              start |-> from, end |-> to, guests |-> guests]]
        /\ Desk!InService(m)
        /\ from < to /\ to - from <= MaxDuration
        /\ u \notin guests
        /\ 1 + Desk!Cardinality(guests) <= room[m].cap
        /\ \A b \in Desk!Written :
             resv[b].status = "CONFIRMED" /\ resv[b].room = m
                 => ~ Desk!Overlaps(resv[b].start, resv[b].end, from, to)
  BY DEF Desk!Book
<1>2. resv'[a] = [status |-> "CONFIRMED", room |-> m, organizer |-> u,
                  start |-> from, end |-> to, guests |-> guests]
  BY <1>1 DEF LedgerOK
<1>3. resv'[a] \in ResvRow
  BY <1>2, BookingAssumption DEF ResvRow, ResvStatus
<1>4. a \notin Booked
  BY DEF Desk!Book, Desk!Written, Booked
<1>5. \A b \in Resvs \ {a} : resv'[b] = resv[b]
  BY <1>1 DEF LedgerOK
<1>6. \A b \in Confirmed : resv[b].room = resv'[a].room =>
        ~ Overlaps(resv[b].start, resv[b].end, resv'[a].start, resv'[a].end)
  BY <1>1, <1>2 DEF Desk!Written, Desk!Overlaps, Overlaps, Confirmed, Booked
<1>7. QED BY <1>1, <1>2, <1>3, <1>4, <1>5, <1>6 DEF Desk!InService

\* So its reservations stay apart.
LEMMA LedgerInductive ==
    ASSUME LedgerOK, [Desk!Next]_(Desk!ledger)
    PROVE  LedgerOK'
<1> USE DEF LedgerOK
<1>1. CASE UNCHANGED resv
  BY <1>1 DEF NoDoubleBooking, DoubleBooked, Confirmed, Booked
<1>2. ASSUME NEW a \in Resvs, Desk!Close(a) \/ Desk!Invite(a) \/ Desk!Uninvite(a)
      PROVE  LedgerOK'
  <2>1. resv' \in [Resvs -> ResvRow \cup {NoResv}]
    <3>1. \E row : resv' = [resv EXCEPT ![a] = row]
      BY <1>2, Zenon DEF Desk!Close, Desk!Invite, Desk!Uninvite
    <3>2. QED BY <1>2, <3>1, RowsStay
  <2>2. ASSUME NEW x \in Resvs, NEW y \in Resvs, DoubleBooked(x, y)'
        PROVE  DoubleBooked(x, y)
    BY <1>2, <2>2, RowsStay DEF DoubleBooked, Confirmed, Booked
  <2>3. QED BY <2>1, <2>2 DEF NoDoubleBooking
<1>3. ASSUME NEW a \in Resvs, Desk!Book(a)
      PROVE  LedgerOK'
  <2>1. resv' \in [Resvs -> ResvRow \cup {NoResv}]
    <3>1. \E row : resv' = [resv EXCEPT ![a] = row]
      BY <1>3, Zenon DEF Desk!Book
    <3>2. QED BY <1>3, <3>1, BookedRow
  <2>2. ASSUME NEW x \in Resvs, NEW y \in Resvs, DoubleBooked(x, y)'
        PROVE  FALSE
    <3>1. CASE x # a /\ y # a
      <4>1. DoubleBooked(x, y)
        BY <1>3, <2>2, <3>1, BookedRow DEF DoubleBooked, Confirmed, Booked
      <4>2. QED BY <4>1 DEF NoDoubleBooking
    <3>2. CASE y = a
      <4>1. x # a /\ x \in Confirmed /\ resv'[x] = resv[x]
        BY <1>3, <2>2, <3>2, BookedRow DEF DoubleBooked, Confirmed, Booked
      <4>2. QED BY <1>3, <2>2, <3>2, <4>1, BookedRow DEF DoubleBooked
    <3>3. CASE x = a
      <4>1. y # a /\ y \in Confirmed /\ resv'[y] = resv[y]
        BY <1>3, <2>2, <3>3, BookedRow DEF DoubleBooked, Confirmed, Booked
      <4>2. /\ resv'[y].start \in Int /\ resv'[y].end \in Int
            /\ resv'[a].start \in Int /\ resv'[a].end \in Int
        BY <1>3, <4>1, BookedRow DEF Confirmed, Booked, ResvRow
      <4>3. QED BY <1>3, <2>2, <3>3, <4>1, <4>2, BookedRow DEF DoubleBooked, Overlaps
    <3>4. QED BY <3>1, <3>2, <3>3
  <2>3. QED BY <2>1, <2>2 DEF NoDoubleBooking
<1>4. QED
  BY <1>1, <1>2, <1>3 DEF Desk!Next, Desk!ledger, Desk!SetRoom, Desk!RemoveRoom

\* An empty ledger has none.
LEMMA LedgerStarts == Desk!Init => LedgerOK
BY DEF Desk!Init, LedgerOK, NoDoubleBooking, DoubleBooked, Confirmed, Booked

\* THEOREM.  Rule 1 of the service: a ledger never books a room twice.  With
\* LedgerKeptWithoutRaces, neither does the service in a run that meets no race.
THEOREM LedgerBooksOnce == ImplementsLedger => []NoDoubleBooking
<1>1. LedgerOK => NoDoubleBooking
  BY DEF LedgerOK
<1>2. LedgerOK /\ [Desk!Next]_(Desk!ledger) => LedgerOK'
  BY LedgerInductive
<1>3. QED BY <1>1, <1>2, LedgerStarts, PTL DEF ImplementsLedger, Desk!Spec

\* THEOREM.  The peer endpoint's question has one answer at most, because a
\* ledger has no double booking.
THEOREM LedgerNamesOne == ImplementsLedger => []OneActiveBooking
<1>1. LedgerOK => OneActiveBooking
  <2> SUFFICES ASSUME LedgerOK, NEW m \in Rooms, NEW at \in Instants
               PROVE  Cardinality(ActiveBookings(m, at)) <= 1
    BY DEF OneActiveBooking
  <2>1. \A a, b \in ActiveBookings(m, at) : a = b
    <3>1. SUFFICES ASSUME NEW a \in ActiveBookings(m, at), NEW b \in ActiveBookings(m, at), a # b
                   PROVE  FALSE
      OBVIOUS
    <3>2. a \in Confirmed /\ b \in Confirmed /\ a \in Resvs /\ b \in Resvs
      BY DEF ActiveBookings, Confirmed, Booked
    <3>3. /\ resv[a].start \in Int /\ resv[a].end \in Int
          /\ resv[b].start \in Int /\ resv[b].end \in Int /\ at \in Int
      BY <3>2, BookingAssumption DEF LedgerOK, Confirmed, Booked, ResvRow
    <3>4. DoubleBooked(a, b)
      BY <3>1, <3>2, <3>3 DEF ActiveBookings, ActiveAt, DoubleBooked, Overlaps
    <3>5. QED BY <3>2, <3>4 DEF LedgerOK, NoDoubleBooking
  <2>2. ActiveBookings(m, at) = {} \/ \E x : ActiveBookings(m, at) = {x}
    BY <2>1
  <2>3. CASE ActiveBookings(m, at) = {}
    BY <2>3, FS_EmptySet
  <2>4. CASE \E x : ActiveBookings(m, at) = {x}
    <3>1. PICK x : ActiveBookings(m, at) = {x}
      BY <2>4
    <3>2. Cardinality({x}) = 1
      BY FS_Singleton, Zenon
    <3>3. QED BY <3>1, <3>2
  <2>5. QED BY <2>2, <2>3, <2>4
<1>2. LedgerOK /\ [Desk!Next]_(Desk!ledger) => LedgerOK'
  BY LedgerInductive
<1>3. QED BY <1>1, <1>2, LedgerStarts, PTL DEF ImplementsLedger, Desk!Spec

\* THEOREM.  Rules 2 and 5 of the service: the ledger writes no reservation for
\* a room out of service, and the first cancellation or override stands.
THEOREM LedgerKeepsRules == ImplementsLedger => BookedInService /\ ClosedOnce
<1>1. LedgerOK /\ [Desk!Next]_(Desk!ledger)
        => /\ [\A b \in Resvs \ Booked :
                  resv'[b] # NoResv => room[resv'[b].room].status = "AVAILABLE"]_vars
           /\ [\A b \in Booked \ Confirmed : resv'[b].status = resv[b].status]_vars
  <2> SUFFICES ASSUME LedgerOK, [Desk!Next]_(Desk!ledger)
               PROVE  /\ \A b \in Resvs \ Booked :
                           resv'[b] # NoResv => room[resv'[b].room].status = "AVAILABLE"
                      /\ \A b \in Booked \ Confirmed : resv'[b].status = resv[b].status
    OBVIOUS
  <2>1. CASE UNCHANGED resv
    BY <2>1 DEF Booked
  <2>2. ASSUME NEW a \in Resvs, Desk!Invite(a) \/ Desk!Uninvite(a) \/ Desk!Close(a)
        PROVE  /\ \A b \in Resvs \ Booked : resv'[b] = resv[b]
               /\ \A b \in Booked \ Confirmed : resv'[b].status = resv[b].status
    <3>1. a \in Booked /\ \A b \in Resvs \ {a} : resv'[b] = resv[b]
      BY <2>2, RowsStay
    <3>2. a \notin Confirmed => resv'[a].status = resv[a].status
      <4>1. resv \in [Resvs -> ResvRow \cup {NoResv}] /\ resv[a] \in ResvRow
        BY <3>1 DEF LedgerOK, Booked
      <4>2. QED
        BY <2>2, <3>1, <4>1 DEF Desk!Invite, Desk!Uninvite, Desk!Close, Confirmed, ResvRow
    <3>3. QED BY <3>1, <3>2 DEF Booked
  <2>3. ASSUME NEW a \in Resvs, Desk!Book(a)
        PROVE  /\ \A b \in Resvs \ Booked :
                    resv'[b] # NoResv => room[resv'[b].room].status = "AVAILABLE"
               /\ \A b \in Booked \ Confirmed : resv'[b].status = resv[b].status
    BY <2>3, BookedRow DEF Booked
  <2>4. QED
    BY <2>1, <2>2, <2>3 DEF Desk!Next, Desk!ledger, Desk!SetRoom, Desk!RemoveRoom, Booked
<1>2. LedgerOK /\ [Desk!Next]_(Desk!ledger) => LedgerOK'
  BY LedgerInductive
<1>3. QED
  BY <1>1, <1>2, LedgerStarts, PTL
  DEF ImplementsLedger, Desk!Spec, BookedInService, ClosedOnce

===============================================================================
