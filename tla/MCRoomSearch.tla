----------------------------- MODULE MCRoomSearch -----------------------------
(* Constants for RoomSearch that a configuration file cannot express. *)
EXTENDS RoomSearch

CONSTANTS north, south, piano

Row(building, capacity, amenities, bookings) ==
    [building |-> building, capacity |-> capacity, amenities |-> amenities,
     bookings |-> bookings, says |-> {building}]

Booking(start, end) == [start |-> start, end |-> end]

\* A free room, one booked on both sides of instant 2, one booked throughout.
MCRows ==
    {Row(north, 1, {}, {}),
     Row(north, 2, {piano}, {Booking(1, 2), Booking(3, 4)}),
     Row(south, 2, {piano}, {Booking(1, 4)})}

Filter(building, capacity, amenities, from, to) ==
    [building |-> building, capacity |-> capacity, amenities |-> amenities,
     from |-> from, to |-> to]

\* No filter; windows that touch, cross and lie inside the bookings, one of
\* them reversed, and the values that are refused: a garbled instant, one before
\* all that the column holds, a capacity beyond it, and a NUL in a text.
MCFilters ==
    {Filter(Any, 0, {}, Absent, Absent), Filter(north, 2, {piano}, Absent, 3),
     Filter(Any, 2, {}, 2, 3), Filter(Any, 0, {piano}, 1, 3),
     Filter(south, 0, {}, 4, 5), Filter(Any, 0, {}, 3, 2),
     Filter(Any, 1, {}, 1, Garbled), Filter(Any, 0, {}, Beyond, 3),
     Filter(Any, MaxCapacity + 1, {}, Absent, Absent),
     Filter(Nul, 0, {}, Absent, Absent)}

\* No filter, a garbled instant, and a party that no room is large enough for.
PlainOrRefused ==
    {Filter(Any, 0, {}, Absent, Absent), Filter(Any, 0, {}, 2, Garbled),
     Filter(Any, MaxCapacity + 1, {}, Absent, Absent)}

MCQueries == {{}, {piano}, {south, Nul}}

===============================================================================
