------------------------------- MODULE MCLaunch -------------------------------
(* Three shots to a turn, a tick that wraps after ten.                      *)
EXTENDS Launch
==============================================================================
