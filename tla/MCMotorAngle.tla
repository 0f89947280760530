----------------------------- MODULE MCMotorAngle -----------------------------
(* An encoder of eight ticks, with the half turn and about a quarter turn   *)
(* of slack as in the code, geared down by three; two turns each way.       *)
EXTENDS MotorAngle
==============================================================================
