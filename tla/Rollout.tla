-------------------------------- MODULE Rollout --------------------------------
(***************************************************************************)
(* What deploy.sh promises: the image of record changes to one that has    *)
(* answered a health check, unless there is none to fall back on or a      *)
(* release was cut short.                                                  *)
(***************************************************************************)
CONSTANTS Images, None

VARIABLES
    official,   \* the image of record
    proven,     \* the images that have answered a health check
    cut         \* a release was cut short since the last that was not

Init == official = None /\ proven = {} /\ cut = FALSE

Prove(i) == proven' = proven \cup {i} /\ UNCHANGED <<official, cut>>

Promote(i) == i \in proven /\ official' = i /\ cut' = FALSE /\ UNCHANGED proven

\* Nothing, or nothing trustworthy, was there before: the new image stays.
Start(i) == (official = None \/ cut) /\ official' = i /\ UNCHANGED <<proven, cut>>

\* The old container is gone and the new one did not start.
Lose == official' = None /\ UNCHANGED <<proven, cut>>

\* The script ends in the middle, or its way back fails.
Abandon == official' \in Images \cup {None} /\ cut' = TRUE /\ UNCHANGED proven

Next == (\E i \in Images : Prove(i) \/ Promote(i) \/ Start(i)) \/ Lose \/ Abandon

Spec == Init /\ [][Next]_<<official, proven, cut>>

===============================================================================
