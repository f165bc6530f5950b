---------------------------- MODULE MCBookingRaces ----------------------------
(***************************************************************************)
(* Small instances of BookingRaces for TLC: what a run has to tell apart.  *)
(***************************************************************************)
EXTENDS BookingRaces, MCBooking

\* How a free slot's last request was answered decides nothing.
Waits == [r \in Reqs |-> IF pc[r] \in Free THEN "idle" ELSE pc[r]]

\* What decides the steps and the properties of a run: only the desk run has
\* faults and asks after races, only the duo run asks what was seen and shut.
DuoView == <<now, room, resv, audit, mail, Waits, locals, seen, shut>>
DeskView == <<now, room, resv, audit \cup dropped, Waits, locals, peak, raced>>

===============================================================================
