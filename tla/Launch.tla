-------------------------------- MODULE Launch --------------------------------
(***************************************************************************)
(* The launcher (public/drv_strike.c) as the gimbal boards of engineer and  *)
(* infantry use it: the control loop sets the speed of the friction wheels  *)
(* and calls strike_fire, which moves the set point of the feeder by one    *)
(* shot, at most once in tick_sleep ticks.  Every 10 ms the position loop   *)
(* (task_10ms_entry) stores that set point back, folded into a turn.        *)
(*                                                                          *)
(* The loop has priority 5 or 10 and can be interrupted anywhere by the     *)
(* 10 ms task (priority 1) and by the feeder's frames (priority 2), which   *)
(* are one action each.  The mode is that of strike_init, the only one a    *)
(* board sets; the jam detection and, where shots are fired, the heat       *)
(* thread have no caller.                                                   *)
(***************************************************************************)
EXTENDS Integers

CONSTANTS
  Lap,     (* ticks of the feeder's angle in a turn: 8192                   *)
  Feed,    (* FIRE_ANGLE in ticks: 1365                                     *)
  Sleep,   (* tick_sleep: 50                                                *)
  Period,  (* of task_10ms: 10                                              *)
  Ticks    (* the values of rt_tick_t: 2^32                                 *)

ASSUME LaunchAssumption ==
  /\ Lap \in Nat /\ Feed \in 1 .. Lap - 1
  /\ Period \in Nat \ {0} /\ Sleep \in Nat /\ Period < Sleep
  /\ Ticks \in Nat /\ Sleep < Ticks

VARIABLES
  now,    (* rt_tick_get()                                                  *)
  due,    (* ticks until task_10ms expires                                  *)
  fast,   (* the speed of the friction wheels is not below 11               *)
  angle,  (* m_launch.dji.angle                                             *)
  set,    (* m_launch.ang.set                                               *)
  tick,   (* the static of strike_fire: when it last fed a shot             *)
  pc,     (* where strike_fire stands                                       *)
  reg,    (* the value it has loaded to store                               *)
  age,    (* history: ticks since the last shot was fed, at most Sleep      *)
  want    (* history: where the shots since the last stop should have       *)
          (* brought the set point, in the turn of the fold                 *)

history == <<age, want>>
vars == <<now, due, fast, angle, set, tick, pc, reg, age, want>>

(* The state strike_init leaves; the tick counts since the board was        *)
(* started and the feeder stands somewhere.                                 *)
Init ==
  /\ now \in 0 .. Ticks - 1 /\ due = Period
  /\ fast = FALSE /\ angle \in 0 .. Lap - 1 /\ set = 0
  /\ tick = 0 /\ pc = "idle" /\ reg = 0
  /\ age = Sleep /\ want = 0

------------------------------------------------------------------------------
(* The time, in ticks.  The tasks run before the next tick.                 *)
Tick ==
  /\ due > 0 /\ due' = due - 1
  /\ now' = IF now + 1 = Ticks THEN 0 ELSE now + 1
  /\ age' = IF age < Sleep THEN age + 1 ELSE age
  /\ UNCHANGED <<fast, angle, set, tick, pc, reg, want>>

(* Mutants: a whole turn; two turns.                                        *)
Folded_Turn(x) == IF x > Lap - 1 THEN x - Lap ELSE x
Folded_Late(x) == IF x > 2 * (Lap - 1) THEN x - (Lap - 1) ELSE x

(* pid_output_motor: the fold of the set point, by one tick less than a     *)
(* turn.                                                                    *)
Folded(x) == IF x > Lap - 1 THEN x - (Lap - 1)
             ELSE IF x < 0 THEN x + (Lap - 1) ELSE x

task_10ms_entry ==
  /\ due = 0 /\ due' = Period
  /\ set' = Folded(set)
  /\ UNCHANGED <<now, fast, angle, tick, pc, reg, history>>

(* A frame of the feeder's motor.                                           *)
motor_readmsg ==
  /\ angle' \in 0 .. Lap - 1
  /\ UNCHANGED <<now, due, fast, set, tick, pc, reg, history>>

------------------------------------------------------------------------------
(* The control loop, between two calls of strike_fire.                      *)
Gun_speed_set ==
  /\ pc = "idle" /\ fast' \in BOOLEAN
  /\ UNCHANGED <<now, due, angle, set, tick, pc, reg, history>>

Step(from, to) == pc = from /\ pc' = to

Call ==
  /\ Step("idle", "speed")
  /\ UNCHANGED <<now, due, fast, angle, set, tick, reg, history>>

(* STRICK_STOP is set or cleared by the speed, and tested.                  *)
TestSpeed ==
  /\ Step("speed", IF fast THEN "gate" ELSE "stop_load")
  /\ UNCHANGED <<now, due, fast, angle, set, tick, reg, history>>

(* Firing is forbidden: the feeder is held where it is.                     *)
StopLoad ==
  /\ Step("stop_load", "stop_store")
  /\ reg' = angle
  /\ UNCHANGED <<now, due, fast, angle, set, tick, history>>

StopStore ==
  /\ Step("stop_store", "idle")
  /\ set' = reg /\ want' = reg % (Lap - 1) /\ reg' = 0
  /\ UNCHANGED <<now, due, fast, angle, tick, age>>

(* rt_tick_get() - tick, without a sign.                                    *)
Between(t, n) == IF n >= t THEN n - t ELSE n - t + Ticks

Elapsed == Between(tick, now)

(* Mutant: the time is compared as an absolute one.                         *)
Rested_Absolute == now >= tick + Sleep \/ now < tick

Rested == Elapsed >= Sleep

Gate ==
  /\ Step("gate", IF Rested THEN "load" ELSE "idle")
  /\ UNCHANGED <<now, due, fast, angle, set, tick, reg, history>>

(* motor_angle_set(motor, FIRE_ANGLE)                                       *)
FeedLoad ==
  /\ Step("load", "store")
  /\ reg' = set
  /\ UNCHANGED <<now, due, fast, angle, set, tick, history>>

FeedStore ==
  /\ Step("store", "stamp")
  /\ set' = reg + Feed /\ reg' = 0
  /\ age' = 0 /\ want' = (want + Feed) % (Lap - 1)
  /\ UNCHANGED <<now, due, fast, angle, tick>>

(* Mutant: when the next shot is due, instead of when the last was fed.     *)
Stamped_Due == now + Sleep

Stamped == now

Stamp ==
  /\ Step("stamp", "idle")
  /\ tick' = Stamped
  /\ UNCHANGED <<now, due, fast, angle, set, reg, history>>

strike_fire == TestSpeed \/ StopLoad \/ StopStore \/ Gate \/ FeedLoad \/ FeedStore \/ Stamp

Next == Tick \/ task_10ms_entry \/ motor_readmsg \/ Gun_speed_set \/ Call \/ strike_fire

Spec == Init /\ [][Next]_vars

------------------------------------------------------------------------------
(* Every variable stays in its type; the set point is never negative.       *)
TypeOK ==
  /\ now \in 0 .. Ticks - 1 /\ due \in 0 .. Period
  /\ fast \in BOOLEAN /\ angle \in 0 .. Lap - 1
  /\ set \in Nat /\ tick \in 0 .. Ticks - 1
  /\ pc \in {"idle", "speed", "stop_load", "stop_store", "gate", "load", "store", "stamp"}
  /\ reg \in Nat
  /\ age \in 0 .. Sleep /\ want \in Nat

(* Two shots are never fed less than tick_sleep ticks apart, whatever       *)
(* strike_fire is interrupted by between its test and its stamp, and when   *)
(* the tick wraps around.                                                   *)
FireInterval == [][pc = "store" /\ pc' = "stamp" => age = Sleep]_vars

(* The set point is never more than one shot beyond the turn: the fold of   *)
(* the position loop, once in 10 ms, is never overtaken by a second shot.   *)
(* One fold is all pid_output_motor does: two shots beyond would leave an   *)
(* error that turns the feeder backwards.                                   *)
SetFolded == set =< Lap - 1 + Feed

(* Every shot moves the set point by FIRE_ANGLE, modulo the fold: none is   *)
(* lost in the interleaving of ang.set += with the 10 ms task's fold.       *)
FeedExact == set % (Lap - 1) = want
==============================================================================
