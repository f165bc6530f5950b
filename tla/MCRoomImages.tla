------------------------------ MODULE MCRoomImages ------------------------------
(***************************************************************************)
(* Small instances of RoomImages for TLC.                                  *)
(***************************************************************************)
EXTENDS RoomImages, TLC

Names == Permutations(Files) \cup Permutations(Reqs) \cup Permutations(Rooms)

===============================================================================
