------------------------------ MODULE MotorAngle ------------------------------
(***************************************************************************)
(* The reader of a DJI motor's CAN frames (public/drv_motor.c): from the    *)
(* encoder angle of one turn and the sign of the speed it keeps the total   *)
(* angle of the rotor, and from the total the angle behind the gearbox.     *)
(* The rotor itself is the environment: between two frames it turns by d    *)
(* ticks, and the frame carries its angle and a speed v.                    *)
(***************************************************************************)
EXTENDS Integers

CONSTANTS
  Lap,      (* ticks of a turn of the rotor: 8192                           *)
  Half,     (* only beyond this angle a lap is counted: 4096                *)
  Slack,    (* a smaller jump of the encoder is taken as noise: 2000        *)
  Width,    (* the number of values of rt_uint32_t                          *)
  P, Q,     (* the gear ratio, P turns behind the gearbox for Q of the rotor*)
  MaxStep,  (* the rotor turns at most so far between two frames            *)
  MaxBase   (* bound of the model: ticks in whole turns, in each direction  *)

ASSUME MotorAssumption ==
  /\ Lap \in Nat /\ Half \in Nat /\ Slack \in Nat /\ Width \in Nat
  /\ MaxStep \in Nat /\ MaxBase \in Nat
  /\ Slack =< Half /\ Half < Lap
  /\ MaxStep < Lap - Half
  /\ MaxBase + Lap + Lap + Lap =< Width
  /\ P \in Nat /\ Q \in Nat /\ Q > 0 /\ P =< Q

VARIABLES
  base,       (* the rotor: ticks of the whole turns made ...               *)
  enc,        (* ... and the encoder angle                                  *)
  heard,      (* a frame has been read                                      *)
  speed,      (* DjiMotor_t.speed, its sign                                 *)
  old_angle,  (* DjiMotor_t.old_angle                                       *)
  all_angle,  (* DjiMotor_t.all_angle                                       *)
  angle       (* DjiMotor_t.angle                                           *)

rotor == <<base, enc>>
vars == <<base, enc, heard, speed, old_angle, all_angle, angle>>

------------------------------------------------------------------------------
(* A signed value where C converts it to rt_uint32_t.                       *)
Unsigned(x) == IF x < 0 THEN x + Width ELSE x

(* Mutants: laps are counted forwards only; without the test of old_angle.  *)
Crossing_Forward(a, v) ==
  IF v >= 0 /\ a < Unsigned(old_angle - Slack) /\ old_angle > Half THEN Lap ELSE 0
Crossing_Unguarded(a, v) ==
  IF v >= 0 THEN IF a < Unsigned(old_angle - Slack) THEN Lap ELSE 0
  ELSE IF a > old_angle + Slack THEN -Lap ELSE 0

(* The lap motor_angle_adjsut counts: forwards when the angle has fallen by *)
(* more than the slack from beyond the half turn, backwards when it has     *)
(* risen by more than the slack to beyond the half turn.                    *)
Crossing(a, v) ==
  IF v >= 0
  THEN IF a < Unsigned(old_angle - Slack) /\ old_angle > Half THEN Lap ELSE 0
  ELSE IF a > old_angle + Slack /\ a > Half THEN -Lap ELSE 0

(* Mutants: the integer part is left in; the gear is applied to one turn.   *)
Geared_Whole(t) == (Unsigned(t) * P) \div Q
Geared_OneTurn(t) == ((Unsigned(t) % Lap) * P) \div Q

(* all_angle + angle is unsigned; the fraction of (t * ratio / 8192) in     *)
(* ticks, its rounding as a float left out.                                 *)
Geared(t) == ((Unsigned(t) * P) \div Q) % Lap

motor_readmsg(a, v) ==
  /\ speed' = v
  /\ all_angle' = all_angle + Crossing(a, v)
  /\ angle' = Geared(all_angle' + a)
  /\ old_angle' = a
  /\ heard' = TRUE

------------------------------------------------------------------------------
Init ==
  /\ base = 0 /\ enc \in 0 .. Lap - 1
  /\ heard = FALSE
  /\ speed = 0 /\ old_angle = 0 /\ all_angle = 0 /\ angle = 0

(* The rotor turns by d, over the end of the encoder's range or not.        *)
Carry(d) == IF enc + d < 0 THEN -Lap ELSE IF enc + d >= Lap THEN Lap ELSE 0

Rotate(d) ==
  /\ base + Carry(d) \in -MaxBase .. MaxBase
  /\ base' = base + Carry(d)
  /\ enc' = enc + d - Carry(d)

First(v) == ~heard /\ UNCHANGED rotor /\ motor_readmsg(enc, v)

Frame(d, v) == heard /\ Rotate(d) /\ motor_readmsg(enc', v)

(* The speed of a frame has the sign of the movement since the last.        *)
Aligned(d, v) == (d > 0 => v >= 0) /\ (d < 0 => v < 0)

Signs == -1 .. 1

AlignedNext ==
  \/ \E v \in Signs : First(v)
  \/ \E d \in -MaxStep .. MaxStep : \E v \in Signs : Aligned(d, v) /\ Frame(d, v)

AlignedSpec == Init /\ [][AlignedNext]_vars

------------------------------------------------------------------------------
total == all_angle + old_angle
shaft == base + enc

(* Every variable stays in its type; the angle behind the gearbox is 0 to   *)
(* 8191, as the function's comment says, whatever the total is.             *)
TypeOK ==
  /\ base \in -MaxBase .. MaxBase /\ enc \in 0 .. Lap - 1
  /\ heard \in BOOLEAN /\ speed \in Signs
  /\ old_angle \in 0 .. Lap - 1 /\ all_angle \in Int
  /\ angle \in 0 .. Lap - 1

(* However often and in whatever order the rotor crosses zero, the total    *)
(* stays on the rotor, in the turn the first frame found or the one before. *)
Tracks == heard => total - shaft \in {0, -Lap}

(* No lap is lost or counted twice: frame by frame the total moves exactly  *)
(* as the rotor does.                                                       *)
Counter == INSTANCE ShaftCounter WITH shaft <- shaft, total <- total
CounterSpec == Counter!Spec

Apart(x, y) == LET m == (x - y) % Lap IN IF m > Lap - m THEN Lap - m ELSE m

(* Behind the gearbox the angle never moves further than the rotor does:    *)
(* no step of it at a zero crossing of the encoder, as long as the total is *)
(* not negative.                                                            *)
GearedContinuous ==
  [][(heard /\ total >= 0 /\ total' >= 0)
       => Apart(angle', angle) =< (IF shaft' > shaft THEN shaft' - shaft
                                   ELSE shaft - shaft')]_vars
==============================================================================
