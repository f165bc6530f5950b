-------------------------------- MODULE Ledger --------------------------------
(***************************************************************************)
(* What the booking rules promise, as if a clerk with one ledger served    *)
(* one customer at a time: the tables change in single steps, and each     *)
(* step's conditions hold at the moment of the change.  The rules are the  *)
(* conditions of reservations.service.ts and rooms.service.ts, with no     *)
(* query, lock or await left between a condition and its effect.           *)
(***************************************************************************)
EXTENDS Calendar, FiniteSets

CONSTANTS Users, Rooms, Resvs, Capacities, Instants, NoResv
VARIABLES room, resv

ledger == <<room, resv>>

InService(m) == room[m].status = "AVAILABLE"
Standing(m) == room[m].status \in {"AVAILABLE", "OUT_OF_ORDER"}
Written == {b \in Resvs : resv[b] # NoResv}

Init ==
    /\ room \in [Rooms -> [status : {"unborn"}, cap : {0}]
                            \cup [status : {"AVAILABLE"}, cap : Capacities]]
    /\ resv = [b \in Resvs |-> NoResv]

\* A reservation is written for a free interval of a room in service that
\* seats the organizer and the guests.
Book(b) ==
    /\ b \notin Written
    /\ \E m \in Rooms, u \in Users, from, to \in Instants, guests \in SUBSET Users :
          /\ resv' = [resv EXCEPT ![b] =
                [status |-> "CONFIRMED", room |-> m, organizer |-> u,
                 start |-> from, end |-> to, guests |-> guests]]
          /\ InService(m)
          /\ from < to /\ to - from <= MaxDuration
          /\ u \notin guests
          /\ 1 + Cardinality(guests) <= room[m].cap
          /\ \A a \in Written :
                resv[a].status = "CONFIRMED" /\ resv[a].room = m
                    => ~ Overlaps(resv[a].start, resv[a].end, from, to)
    /\ UNCHANGED room

\* A confirmed reservation ends, once.
Close(b) ==
    /\ b \in Written
    /\ resv[b].status = "CONFIRMED"
    /\ \E status \in {"CANCELLED", "OVERRIDDEN"} :
          resv' = [resv EXCEPT ![b].status = status]
    /\ UNCHANGED room

Invite(b) ==
    /\ b \in Written
    /\ resv[b].status = "CONFIRMED"
    /\ Cardinality(resv[b].guests) + 2 <= room[resv[b].room].cap
    /\ \E u \in Users \ resv[b].guests :
          resv' = [resv EXCEPT ![b].guests = @ \cup {u}]
    /\ UNCHANGED room

Uninvite(b) ==
    /\ b \in Written
    /\ \E u \in resv[b].guests : resv' = [resv EXCEPT ![b].guests = @ \ {u}]
    /\ UNCHANGED room

\* Staff open a room under a new id or change one: reservations stay as they are.
SetRoom(m) ==
    /\ room[m].status # "deleted"
    /\ \E status \in {"AVAILABLE", "OUT_OF_ORDER"}, cap \in Capacities :
          room' = [room EXCEPT ![m] = [status |-> status, cap |-> cap]]
    /\ UNCHANGED resv

\* Staff close a room that no reservation mentions.
RemoveRoom(m) ==
    /\ Standing(m)
    /\ \A b \in Written : resv[b].room # m
    /\ room' = [room EXCEPT ![m].status = "deleted"]
    /\ UNCHANGED resv

Next ==
    \/ \E b \in Resvs : Book(b) \/ Close(b) \/ Invite(b) \/ Uninvite(b)
    \/ \E m \in Rooms : SetRoom(m) \/ RemoveRoom(m)

Spec == Init /\ [][Next]_ledger

===============================================================================
