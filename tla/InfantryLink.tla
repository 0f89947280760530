----------------------------- MODULE InfantryLink -----------------------------
(***************************************************************************)
(* How the infantry's gimbal board drives its chassis board.  The gimbal's  *)
(* control loop sends a frame with the speed and the mode in every period;  *)
(* the chassis board keeps the last one in ctldata and may use it Limit     *)
(* times, after which it stops.  On the chassis board three threads meet:   *)
(*   - chassis_control, priority 1, which turns motion_data into the speed  *)
(*     of the wheels every 2 ms;                                            *)
(*   - the CAN2 receive thread, priority 2, which refreshes ctldata;        *)
(*   - main(), priority 10, which copies ctldata to motion_data.            *)
(* The first two run to the end of a period before main() continues, so     *)
(* each is one action; main() can be interrupted between any two accesses.  *)
(*                                                                          *)
(* A linear speed is one value for both axes.  The angle to be followed is  *)
(* 0 in every frame the gimbal sends and is left out.                       *)
(***************************************************************************)
EXTENDS Naturals, Sequences

CONSTANTS
  Limit,     (* how often main() uses a frame: 10                           *)
  Speeds,    (* the speeds that the sticks of the remote ask for            *)
  SpinRate,  (* the angular velocity of the spinning mode: 1000             *)
  BusSize    (* bound of the model: frames under way at a time              *)

ASSUME LinkAssumption ==
  /\ Limit \in Nat \ {0}
  /\ Speeds \subseteq Nat
  /\ SpinRate \in Nat \ {0}
  /\ BusSize \in Nat \ {0}

(* sport_mode_e, as far as frames carry it.                                 *)
NO_FOLLOW == 0
FOLLOW_GIMBAL == 1

VARIABLES
  sport_mode,  (* gimbal board: 0 not following, 1 following, 2 spinning    *)
  link,        (* the boards are connected                                  *)
  bus,         (* the frames under way                                      *)
  ctldata,     (* the last command: mode, spin, speed and use (usetime)     *)
  motion_data, (* what main() asks for: mode, spin and speed                *)
  wheels,      (* what chassis_control made of it: follow, spin and speed   *)
  pc,          (* where main() stands                                       *)
  arg,         (* the arguments of chassis_speed_set                        *)
  reg,         (* the value of usetime that main() has loaded               *)
  uses,        (* history: passes of main() that used it, up to Limit+1     *)
  silent       (* history: passes of main() since it came, up to Limit+2    *)

gimbal == <<sport_mode, link>>
main == <<pc, arg, reg>>
history == <<uses, silent>>
vars == <<sport_mode, link, bus, ctldata, motion_data, wheels, pc, arg, reg,
          uses, silent>>

Init ==
  /\ sport_mode = 0 /\ link = TRUE /\ bus = <<>>
  /\ ctldata = [mode |-> NO_FOLLOW, spin |-> 0, speed |-> 0, use |-> 0]
  /\ motion_data = [mode |-> NO_FOLLOW, spin |-> 0, speed |-> 0]
  /\ wheels = [follow |-> FALSE, spin |-> 0, speed |-> 0]
  /\ pc = "test" /\ arg = [spin |-> 0, speed |-> 0] /\ reg = 0
  /\ uses = 0 /\ silent = 0

------------------------------------------------------------------------------
(* The gimbal board: remote_ctrl.                                           *)

(* The frame chassis_ctl sends in each mode.                                *)
Command(m, v) ==
  [mode |-> IF m = 1 THEN FOLLOW_GIMBAL ELSE NO_FOLLOW,
   spin |-> IF m = 2 THEN SpinRate ELSE 0, speed |-> v]

(* Mutant: the mode after the last one.                                     *)
NextMode_NoWrap == sport_mode + 1

(* Switch S2 moved down: the next mode, after the last the first again.     *)
NextMode == IF sport_mode + 1 > 2 THEN 0 ELSE sport_mode + 1

(* A period with or without a movement of the switch, and with the sticks   *)
(* at v.  The frame gets onto the bus or is lost.                           *)
remote_ctrl(moved, v, sent) ==
  /\ sport_mode' = IF moved THEN NextMode ELSE sport_mode
  /\ IF sent THEN link /\ Len(bus) < BusSize /\ bus' = Append(bus, Command(sport_mode', v))
     ELSE bus' = bus
  /\ UNCHANGED <<link, ctldata, motion_data, wheels, main, history>>

(* The gimbal board dies or its cable breaks.                               *)
Disconnect ==
  /\ link /\ link' = FALSE
  /\ UNCHANGED <<sport_mode, bus, ctldata, motion_data, wheels, main, history>>

------------------------------------------------------------------------------
(* The chassis board's receive thread.                                      *)

(* Mutant: a frame is used on top of the uses of the one before it.         *)
Refreshed_KeepUse(f) ==
  [ctldata EXCEPT !.speed = f.speed, !.mode = f.mode,
     !.spin = IF f.mode = NO_FOLLOW THEN f.spin ELSE @]

(* The fifth and sixth byte are an angle or an angular velocity, by mode:   *)
(* a frame with an angle leaves the old angular velocity alone.             *)
Refreshed(f) ==
  [ctldata EXCEPT !.speed = f.speed, !.mode = f.mode, !.use = 0,
     !.spin = IF f.mode = NO_FOLLOW THEN f.spin ELSE @]

refresh_ctldata ==
  /\ bus # <<>>
  /\ ctldata' = Refreshed(Head(bus))
  /\ bus' = Tail(bus)
  /\ uses' = 0 /\ silent' = 0
  /\ UNCHANGED <<gimbal, motion_data, wheels, main>>

------------------------------------------------------------------------------
(* The control thread of the wheels.                                        *)

(* The speed of the wheels: in the following mode the angular velocity is   *)
(* that of the angle loop, not the one asked for.                           *)
Driven(m) == [follow |-> m.mode # NO_FOLLOW,
              spin |-> IF m.mode = NO_FOLLOW THEN m.spin ELSE 0, speed |-> m.speed]

chassis_control ==
  /\ wheels' = Driven(motion_data)
  /\ UNCHANGED <<gimbal, bus, ctldata, motion_data, main, history>>

------------------------------------------------------------------------------
(* main() of the chassis board.                                             *)

(* Mutant: one use too many.                                                *)
Usable_OneMore(u) == u =< Limit

Usable(u) == u < Limit

Step(from, to) == pc = from /\ pc' = to

PassEnds == silent' = IF silent < Limit + 2 THEN silent + 1 ELSE silent

Test ==
  /\ Step("test", IF Usable(ctldata.use) THEN "mode" ELSE "stop_mode")
  /\ UNCHANGED <<gimbal, bus, ctldata, motion_data, wheels, arg, reg, history>>

(* sport_mode_set(ctldata.sport_mode)                                       *)
SetMode ==
  /\ Step("mode", "load_spin")
  /\ motion_data' = [motion_data EXCEPT !.mode = ctldata.mode]
  /\ UNCHANGED <<gimbal, bus, ctldata, wheels, arg, reg, history>>

(* chassis_speed_set: the arguments are loaded ...                          *)
LoadSpin ==
  /\ Step("load_spin", "load_speed")
  /\ arg' = [arg EXCEPT !.spin = ctldata.spin]
  /\ UNCHANGED <<gimbal, bus, ctldata, motion_data, wheels, reg, history>>

LoadSpeed ==
  /\ Step("load_speed", "set_spin")
  /\ arg' = [arg EXCEPT !.speed = ctldata.speed]
  /\ UNCHANGED <<gimbal, bus, ctldata, motion_data, wheels, reg, history>>

(* ... and stored.                                                          *)
SetSpin ==
  /\ Step("set_spin", "set_speed")
  /\ motion_data' = [motion_data EXCEPT !.spin = arg.spin]
  /\ UNCHANGED <<gimbal, bus, ctldata, wheels, arg, reg, history>>

SetSpeed ==
  /\ Step("set_speed", "load_use")
  /\ motion_data' = [motion_data EXCEPT !.speed = arg.speed]
  /\ UNCHANGED <<gimbal, bus, ctldata, wheels, arg, reg, history>>

(* Mutants: an increment that stops short of the limit; uses of a command   *)
(* to follow are not counted.                                               *)
Incremented_Short(u) == IF u + 1 < Limit THEN u + 1 ELSE u
Incremented_NotFollowing(u) == IF ctldata.mode = FOLLOW_GIMBAL THEN u ELSE u + 1

(* usetime++                                                                *)
Incremented(u) == u + 1

LoadUse ==
  /\ Step("load_use", "store_use")
  /\ reg' = ctldata.use
  /\ UNCHANGED <<gimbal, bus, ctldata, motion_data, wheels, arg, history>>

StoreUse ==
  /\ Step("store_use", "test")
  /\ ctldata' = [ctldata EXCEPT !.use = Incremented(reg)]
  /\ uses' = IF uses =< Limit THEN uses + 1 ELSE uses
  /\ PassEnds
  /\ reg' = 0
  /\ UNCHANGED <<gimbal, bus, motion_data, wheels, arg>>

(* The limit is reached: sport_mode_set(NO_FOLLOW), chassis_speed_set(0...) *)
StopMode ==
  /\ Step("stop_mode", "stop_spin")
  /\ motion_data' = [motion_data EXCEPT !.mode = NO_FOLLOW]
  /\ UNCHANGED <<gimbal, bus, ctldata, wheels, arg, reg, history>>

StopSpin ==
  /\ Step("stop_spin", "stop_speed")
  /\ motion_data' = [motion_data EXCEPT !.spin = 0]
  /\ UNCHANGED <<gimbal, bus, ctldata, wheels, arg, reg, history>>

StopSpeed ==
  /\ Step("stop_speed", "test")
  /\ motion_data' = [motion_data EXCEPT !.speed = 0]
  /\ PassEnds
  /\ UNCHANGED <<gimbal, bus, ctldata, wheels, arg, reg, uses>>

------------------------------------------------------------------------------
chassis_main ==
  \/ Test \/ SetMode \/ LoadSpin \/ LoadSpeed \/ SetSpin \/ SetSpeed
  \/ LoadUse \/ StoreUse \/ StopMode \/ StopSpin \/ StopSpeed

gimbal_main == \E moved, sent \in BOOLEAN : \E v \in Speeds : remote_ctrl(moved, v, sent)

Next == gimbal_main \/ Disconnect \/ refresh_ctldata \/ chassis_control \/ chassis_main

Spec == Init /\ [][Next]_vars

(* All threads block at the end of a period, so each gets its turn; a CAN   *)
(* controller repeats a frame until it is acknowledged, so that frames are  *)
(* not lost for ever while the boards are connected.                        *)
Fairness ==
  /\ WF_vars(chassis_main) /\ WF_vars(chassis_control) /\ WF_vars(refresh_ctldata)
  /\ WF_vars(\E moved \in BOOLEAN : \E v \in Speeds : remote_ctrl(moved, v, TRUE))

FairSpec == Spec /\ Fairness

------------------------------------------------------------------------------
StopSteps == {"stop_mode", "stop_spin", "stop_speed"}
UseSteps == {"mode", "load_spin", "load_speed", "set_spin", "set_speed",
             "load_use", "store_use"}
Commands == {Command(m, v) : m \in 0 .. 2, v \in Speeds}

(* Every variable stays in its type; usetime never passes its limit.        *)
TypeOK ==
  /\ sport_mode \in 0 .. 2 /\ link \in BOOLEAN /\ bus \in Seq(Commands)
  /\ ctldata \in [mode : {NO_FOLLOW, FOLLOW_GIMBAL}, spin : {0, SpinRate},
                  speed : Speeds \cup {0}, use : 0 .. Limit]
  /\ motion_data \in [mode : {NO_FOLLOW, FOLLOW_GIMBAL}, spin : {0, SpinRate},
                      speed : Speeds \cup {0}]
  /\ wheels \in [follow : BOOLEAN, spin : {0, SpinRate}, speed : Speeds \cup {0}]
  /\ pc \in {"test"} \cup StopSteps \cup UseSteps
  /\ arg \in [spin : {0, SpinRate}, speed : Speeds \cup {0}] /\ reg \in 0 .. Limit
  /\ uses \in Nat /\ silent \in Nat

(* No command is used more often than the limit says (chassis main.c), even *)
(* if frames arrive between the two halves of usetime++.                    *)
UseLimited == uses =< Limit

Still == [mode |-> NO_FOLLOW, spin |-> 0, speed |-> 0]

(* When the gimbal board falls silent, the chassis is asked to stand still  *)
(* after Limit passes of main() with its last command, the pass that was    *)
(* under way when the command came, and one to stop: whatever main() was    *)
(* interrupted in, and although a refresh of usetime may be overwritten.    *)
StopsInTime == silent > Limit + 1 => motion_data = Still

(* The wheels of a chassis that has lost its gimbal board come to rest.     *)
SilenceStops ==
  <>[](~link) => <>[](wheels = [follow |-> FALSE, spin |-> 0, speed |-> 0])

(* main() asks for the mode that the gimbal board stays in, again and       *)
(* again: frames carry the mode, not its changes, so that no loss matters.  *)
ModeArrives ==
  \A m \in 0 .. 2 :
    <>[](link /\ sport_mode = m)
      => []<>(/\ motion_data.mode = Command(m, 0).mode
              /\ m # 1 => motion_data.spin = Command(m, 0).spin)

(* While main() stops the chassis because the limit is exceeded (chassis    *)
(* main.c: the speed is zeroed), no step of it lets the control thread      *)
(* drive the wheels faster than the step before.                            *)
StoppingNeverSpins ==
  [][(pc \in StopSteps) => Driven(motion_data').spin =< Driven(motion_data).spin]_motion_data
==============================================================================
