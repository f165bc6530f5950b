-------------------------------- MODULE Gallery --------------------------------
(***************************************************************************)
(* What the photo handlers promise of the files on the uploads volume, as  *)
(* if one curator served one request at a time: a file is stored under a   *)
(* name of its own, hangs in one room at most once, and is thrown away     *)
(* only while it hangs nowhere.  What a handler read earlier plays no part *)
(* in any of it.                                                           *)
(***************************************************************************)
CONSTANTS Rooms, Files, NoPhoto, NoRow
VARIABLES
    photo,  \* what each room shows
    disk,   \* the files there are
    used,   \* the names that were ever given out
    shown   \* the files that ever hung in a room

gallery == <<photo, disk, used, shown>>

Hangs(f) == \E m \in Rooms : photo[m] = f

Init ==
    /\ photo \in [Rooms -> {NoPhoto, NoRow}]
    /\ disk = {}
    /\ used = {}
    /\ shown = {}

\* A name is given out once, so a file that is gone never comes back.
Store(f) ==
    /\ f \notin used
    /\ disk' = disk \cup {f}
    /\ used' = used \cup {f}
    /\ UNCHANGED <<photo, shown>>

\* A photo that was replaced or taken down is never hung again.
Hang(m, f) ==
    /\ photo[m] # NoRow
    /\ f \in disk \ shown
    /\ photo' = [photo EXCEPT ![m] = f]
    /\ shown' = shown \cup {f}
    /\ UNCHANGED <<disk, used>>

\* The room loses its photo, or goes and takes it along.
TakeDown(m) ==
    /\ photo[m] # NoRow
    /\ \E nothing \in {NoPhoto, NoRow} : photo' = [photo EXCEPT ![m] = nothing]
    /\ UNCHANGED <<disk, used, shown>>

Discard(f) ==
    /\ f \in disk
    /\ ~ Hangs(f)
    /\ disk' = disk \ {f}
    /\ UNCHANGED <<photo, used, shown>>

Next ==
    \/ \E f \in Files : Store(f) \/ Discard(f)
    \/ \E m \in Rooms : TakeDown(m) \/ \E f \in Files : Hang(m, f)

Spec == Init /\ [][Next]_gallery

===============================================================================
