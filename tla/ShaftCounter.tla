----------------------------- MODULE ShaftCounter -----------------------------
(***************************************************************************)
(* What a motor's reader promises of the total it keeps: from the first     *)
(* frame on the total moves by exactly the ticks the rotor moves, in the    *)
(* same direction.  The first frame cannot tell how many turns went before, *)
(* so it may find the rotor in this turn or in the one before.              *)
(***************************************************************************)
EXTENDS Integers

CONSTANTS
  Lap,      (* ticks of a turn                                              *)
  MaxStep   (* the rotor turns at most so far between two frames            *)

VARIABLES shaft, total, heard

Init == shaft \in 0 .. Lap - 1 /\ total = 0 /\ heard = FALSE

FirstFrame ==
  /\ ~heard
  /\ heard' = TRUE
  /\ shaft' = shaft
  /\ total' \in {shaft, shaft - Lap}

Turn(d) ==
  /\ heard
  /\ shaft' = shaft + d
  /\ total' = total + d
  /\ heard' = heard

Next == FirstFrame \/ \E d \in -MaxStep .. MaxStep : Turn(d)

Spec == Init /\ [][Next]_<<shaft, total, heard>>
==============================================================================
