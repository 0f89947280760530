------------------------------- MODULE MCRemote -------------------------------
(* A control loop that asks for both switches and for a key, and, as none   *)
(* of the boards does, also for the other movements of S2.                  *)
EXTENDS Remote

MCScript == << [fn |-> "from_middle", on |-> "S1"], [fn |-> "from_middle", on |-> "S2"],
               [fn |-> "to_middle", on |-> "S2"], [fn |-> "key", on |-> "F"] >>
==============================================================================
