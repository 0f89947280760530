------------------------------- MODULE FrameBox -------------------------------
(***************************************************************************)
(* What a message box of a CAN device promises its one reader: every frame  *)
(* is held in the order of arrival and given to the reader whole and once.  *)
(* Only a box with a frame in every place, one of them perhaps being read,  *)
(* gives up a frame, and then the oldest that is not being read.            *)
(***************************************************************************)
EXTENDS Naturals, Sequences

CONSTANT Room   (* frames there is room for, the one being read included *)

VARIABLES
  came,    (* frames that have arrived; a frame is its number among them *)
  held,    (* those to be read, oldest first                             *)
  hand,    (* the one being read                                         *)
  given    (* the last that was given to the reader                      *)

None == 0

Init == came = 0 /\ held = <<>> /\ hand = None /\ given = 0

Fits == Len(held) < Room

Crowded == Len(held) + (IF hand = None THEN 0 ELSE 1) >= Room

Arrive ==
  /\ came' = came + 1
  /\ \/ Fits /\ held' = Append(held, came + 1)
     \/ Crowded /\ held' = Append(Tail(held), came + 1)
  /\ UNCHANGED <<hand, given>>

Take ==
  /\ hand = None /\ held # <<>>
  /\ hand' = Head(held) /\ held' = Tail(held)
  /\ UNCHANGED <<came, given>>

Give ==
  /\ hand # None
  /\ given' = hand /\ hand' = None
  /\ UNCHANGED <<came, held>>

Next == Arrive \/ Take \/ Give

Spec == Init /\ [][Next]_<<came, held, hand, given>>
==============================================================================
