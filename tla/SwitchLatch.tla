----------------------------- MODULE SwitchLatch -----------------------------
(***************************************************************************)
(* What the receiver promises of switches that are only asked for movements *)
(* out of the middle: such a movement is owed until it is reported, once,   *)
(* or until the switch is back in the middle.  Frames move any switches at  *)
(* any time; a movement between the two outer positions is none.            *)
(***************************************************************************)
CONSTANTS
  Switches,   (* the switches                    *)
  Position,   (* where a switch may be           *)
  Middle      (* ... and the position in between *)

VARIABLES
  where,   (* where each switch is                          *)
  owed     (* those that left the middle and were not told  *)

Init == where = [sw \in Switches |-> Middle] /\ owed = {}

Leaves(sw, p) == where[sw] = Middle /\ p[sw] # Middle

Frame(p) ==
  /\ where' = p
  /\ owed' = {sw \in Switches : Leaves(sw, p) \/ (sw \in owed /\ p[sw] # Middle)}

Report(sw) ==
  /\ sw \in owed
  /\ owed' = owed \ {sw}
  /\ where' = where

Next == \/ \E p \in [Switches -> Position] : Frame(p)
        \/ \E sw \in Switches : Report(sw)

Spec == Init /\ [][Next]_<<where, owed>>
==============================================================================
