------------------------------ MODULE MCSerialRx ------------------------------
(* A ring of sixteen bytes and frames of three, so that frames meet the end *)
(* of the ring at every offset as the eighteen bytes do in the ring of 128; *)
(* two messages, so that some are lost.                                     *)
EXTENDS SerialRx
==============================================================================
