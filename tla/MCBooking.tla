------------------------------- MODULE MCBooking -------------------------------
(***************************************************************************)
(* Small instances of Booking for TLC: named bounds the configurations use.*)
(***************************************************************************)
EXTENDS Booking, TLC

CONSTANTS ann, bob, sam, ghost, m1, b1, b2, r1, r2

NoGuests == {{}}
GhostOrNone == {{}, {ghost}}
SamInvited == {{sam}}

TwoInstants == 1 .. 2
ThreeInstants == 1 .. 3

BookingOps == {"create", "cancel", "override", "checkIn"}
DeskOps ==
    {"create", "override", "addAttendee", "removeAttendee",
     "createRoom", "updateRoom", "deleteRoom"}

Slots == Permutations(Reqs)
SlotsAndResvs == Permutations(Reqs) \cup Permutations(Resvs)
SlotsAndStudents == Permutations(Reqs) \cup Permutations(Users \ Staff)

===============================================================================
