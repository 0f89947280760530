------------------------------ MODULE ByteQueue ------------------------------
(***************************************************************************)
(* What a serial line's receive buffer promises: every byte the line has    *)
(* announced is held until it is taken, and is taken once, in the order it  *)
(* came.  With the order fixed, two counts tell all of it.                  *)
(***************************************************************************)
EXTENDS Integers

CONSTANT Cap   (* bytes there is room for *)

VARIABLES arrived, held

Init == arrived = 0 /\ held = 0

Put(n) == held + n =< Cap /\ arrived' = arrived + n /\ held' = held + n

Take(n) == n =< held /\ held' = held - n /\ arrived' = arrived

Next == \E n \in 1 .. Cap : Put(n) \/ Take(n)

Spec == Init /\ [][Next]_<<arrived, held>>
==============================================================================
