------------------------------- MODULE MCCanRx -------------------------------
(* A box of three nodes and seven frames: it fills, frames are overwritten  *)
(* while one is being copied, the box is gone through twice, and the thread *)
(* catches up.                                                              *)
EXTENDS CanRx
==============================================================================
