----------------------------- MODULE MCGimbalCtl -----------------------------
(* A turn of eight ticks in numbers of 32, so that the difference of two of *)
(* them can leave a short as it can in sixteen bits.                        *)
EXTENDS GimbalCtl

MCAdds == [x \in Axes |-> IF x = "yaw" THEN {-1, 3} ELSE {0, 2}]
==============================================================================
