------------------------------ MODULE GimbalCtl ------------------------------
(***************************************************************************)
(* The set points of the gimbal's two axes (public/drv_gimbal.c).  The      *)
(* control thread, of priority 1, reads both every millisecond and clamps   *)
(* the pitch; the main thread of the board, which it interrupts anywhere,   *)
(* changes them: on the engineer through gimbal_addangle_set, on the        *)
(* infantry at the end of remote_ctrl, from the stick or from the frames of *)
(* the vision computer (public/drv_aimbot.c), which the CAN2 thread of      *)
(* priority 2 brings.  Angles are ticks of a turn.                          *)
(***************************************************************************)
EXTENDS Integers

CONSTANTS
  Lap,        (* ticks of a turn: 8192                                      *)
  Width,      (* values of rt_uint16_t                                      *)
  Every,      (* the angle loop runs in one of so many passes: 6            *)
  PitchMin, PitchMax,   (* PITCH_MIN_ANGLE, PITCH_MAX_ANGLE, plus 4096      *)
  Adds,       (* the increments asked for, per axis                         *)
  MaxCalls,   (* bound of the model: calls that change the set points       *)
  MaxFrames   (* bound of the model: frames of the vision computer          *)

Axes == {"yaw", "pitch"}

ASSUME GimbalAssumption ==
  /\ Lap \in Nat /\ Width \in Nat /\ Every \in Nat /\ PitchMin \in Nat /\ PitchMax \in Nat
  /\ 1 < Lap /\ Lap % 2 = 0 /\ 4 * Lap =< Width /\ Width % Lap = 0
  /\ 0 < Every /\ PitchMin =< PitchMax /\ PitchMax < Lap
  /\ Adds \in [Axes -> SUBSET (-Lap .. Lap)]
  /\ MaxCalls \in Nat /\ MaxFrames \in Nat

VARIABLES
  board,      (* the robot                                                  *)
  set,        (* yaw.setang, pitch.setang                                   *)
  gyro,       (* the angles of the gyroscope, in ticks; 180 degrees are Lap *)
  angle_time, (* the control thread's count of passes                       *)
  err,        (* angpid_gyro.err of both, less what the motors have turned  *)
  pc, reg,    (* the main thread, and a value it has loaded                 *)
  add,        (* yawset and pitchset, yawadd and pitchadd                   *)
  rev,        (* visual_rev.yawadd and pitchadd, with the frame they are of *)
  usetime,    (* visual_rev.yaw_usetime, pitch_usetime                      *)
  rested,     (* a pass of the control thread since the last call           *)
  want,       (* history: the set points asked for,                         *)
  used,       (* ... how often each frame was used for each axis,           *)
  calls, frames   (* ... and how many there were                            *)

motion == <<gyro, err>>
visual == <<rev, usetime, used, frames>>
main == <<pc, reg, add>>
vars == <<board, set, angle_time, motion, main, visual, rested, want, calls>>

------------------------------------------------------------------------------
Clamp(s) == IF s < PitchMin THEN PitchMin ELSE IF s > PitchMax THEN PitchMax ELSE s

(* pid_output_motor: error is rt_int16_t.                                   *)
Short(x) == LET m == x % Width IN IF m >= Width \div 2 THEN m - Width ELSE m

(* Mutants: a turn is taken off on one side only; or the wrong way.         *)
Error_OneWay(s, now) ==
  LET e == Short((IF s > Lap - 1 THEN s - (Lap - 1) ELSE s) - now)
  IN  IF e > Lap \div 2 THEN e - Lap ELSE e
Error_Sign(s, now) ==
  LET e == Short((IF s > Lap - 1 THEN s - (Lap - 1) ELSE s) - now)
  IN  IF e > Lap \div 2 THEN Lap - e ELSE IF e < -(Lap \div 2) THEN e + Lap ELSE e

Error(s, now) ==
  LET e == Short((IF s > Lap - 1 THEN s - (Lap - 1) ELSE s) - now)
  IN  IF e > Lap \div 2 THEN e - Lap ELSE IF e < -(Lap \div 2) THEN e + Lap ELSE e

(* Mutant: the count starts again before the pass of the angle loops.       *)
NextTime_Early == IF angle_time > Every - 2 THEN 1 ELSE angle_time + 1
NextTime == IF angle_time > Every - 1 THEN 1 ELSE angle_time + 1

(* A pass of gimbal_contral_thread: it counts, clamps the pitch, and in one *)
(* pass of Every it runs the angle loops.  The want of the pitch is clamped *)
(* with it.                                                                 *)
gimbal_contral_thread ==
  /\ angle_time' = NextTime
  /\ set' = [set EXCEPT !["pitch"] = Clamp(@)]
  /\ want' = [want EXCEPT !["pitch"] = Clamp(@)]
  /\ IF NextTime > Every - 1
     THEN err' = [x \in Axes |-> Error(set'[x], gyro[x])]
     ELSE UNCHANGED err
  /\ rested' = TRUE
  /\ UNCHANGED <<board, gyro, main, visual, calls>>

(* The motors turn towards the set point of the last angle loop and, until  *)
(* the next one, not beyond it.                                             *)
Up(a) == IF a >= Lap - 1 THEN IF a = Lap THEN {1} ELSE {0, Lap} ELSE {a + 1}
Down(a) == IF a = 0 \/ a = Lap THEN Lap - 1 ELSE a - 1

Turn(x) ==
  /\ \/ err[x] > 0 /\ err' = [err EXCEPT ![x] = @ - 1]
        /\ \E a \in Up(gyro[x]) : gyro' = [gyro EXCEPT ![x] = a]
     \/ err[x] < 0 /\ err' = [err EXCEPT ![x] = @ + 1]
        /\ gyro' = [gyro EXCEPT ![x] = Down(@)]
  /\ UNCHANGED <<board, set, angle_time, main, visual, rested, want, calls>>

------------------------------------------------------------------------------
(* refresh_visual_data, in the CAN2 thread.                                 *)
NoFrame == [frame |-> 0, d |-> 0]

refresh_visual_data(dy, dp) ==
  /\ board = "infantry" /\ frames < MaxFrames
  /\ frames' = frames + 1
  /\ rev' = [x \in Axes |-> [frame |-> frames + 1, d |-> IF x = "yaw" THEN dy ELSE dp]]
  /\ usetime' = [x \in Axes |-> 0]
  /\ UNCHANGED <<board, set, angle_time, motion, main, used, rested, want, calls>>

(* The main thread.  A call comes every 10 or 20 ms: the control thread has *)
(* made a pass since the last ended.                                        *)
Call ==
  /\ pc = "idle" /\ rested /\ calls < MaxCalls
  /\ calls' = calls + 1

(* The engineer: gimbal_addangle_set, from the first statement.             *)
AddYaw(dy, dp) ==
  /\ board = "engineer" /\ Call
  /\ add' = [add EXCEPT !["pitch"] = dp]
  /\ set' = [set EXCEPT !["yaw"] = (@ + dy) % Width]
  /\ want' = [want EXCEPT !["yaw"] = (@ + dy) % Lap]
  /\ pc' = "addPitch"
  /\ UNCHANGED <<board, angle_time, motion, reg, visual, rested>>

(* pitch.setang += pitchset is a load and a store.                          *)
AddPitchLoad ==
  /\ pc = "addPitch"
  /\ reg' = set["pitch"]
  /\ pc' = "addPitch2"
  /\ UNCHANGED <<board, set, angle_time, motion, add, visual, rested, want, calls>>

AddPitch ==
  /\ pc = "addPitch2"
  /\ set' = [set EXCEPT !["pitch"] = (reg + add["pitch"]) % Width]
  /\ want' = [want EXCEPT !["pitch"] = @ + add["pitch"]]
  /\ reg' = 0 /\ add' = [add EXCEPT !["pitch"] = 0]
  /\ pc' = "wrapYaw"
  /\ UNCHANGED <<board, angle_time, motion, visual, rested, calls>>

(* The infantry: remote_ctrl with the stick, an axis that is not moved      *)
(* being left alone ...                                                     *)
StickAdd(dy, dp) ==
  /\ board = "infantry" /\ Call
  /\ add' = [x \in Axes |-> IF x = "yaw" THEN dy ELSE dp]
  /\ pc' = "setPitch"
  /\ UNCHANGED <<board, set, angle_time, motion, reg, visual, want, rested>>

(* ... or with the vision computer: for one axis after the other, if the    *)
(* frame has not been used, get_yaw_add and get_pitch_add count the use,    *)
(* load the increment and clear it.                                         *)
VisualAdd ==
  /\ board = "infantry" /\ Call
  /\ pc' = "useYaw"
  /\ UNCHANGED <<board, set, angle_time, motion, reg, add, visual, want, rested>>

Use(x) == IF x = "yaw" THEN "useYaw" ELSE "usePitch"
LoadOf(x) == IF x = "yaw" THEN "loadYaw" ELSE "loadPitch"
ClearOf(x) == IF x = "yaw" THEN "clearYaw" ELSE "clearPitch"
After(x) == IF x = "yaw" THEN "usePitch" ELSE "setPitch"

SkipUsed(x) ==
  /\ pc = Use(x) /\ usetime[x] >= 1
  /\ pc' = After(x)
  /\ UNCHANGED <<board, set, angle_time, motion, reg, add, visual, rested, want, calls>>

CountUse(x) ==
  /\ pc = Use(x) /\ usetime[x] < 1
  /\ usetime' = [usetime EXCEPT ![x] = @ + 1]
  /\ pc' = LoadOf(x)
  /\ UNCHANGED <<board, set, angle_time, motion, reg, add, rev, used, frames, rested,
                 want, calls>>

LoadAdd(x) ==
  /\ pc = LoadOf(x)
  /\ add' = [add EXCEPT ![x] = rev[x].d]
  /\ used' = [used EXCEPT ![x] =
               [f \in 1 .. MaxFrames |-> IF f = rev[x].frame THEN @[f] + 1 ELSE @[f]]]
  /\ pc' = ClearOf(x)
  /\ UNCHANGED <<board, set, angle_time, motion, reg, rev, usetime, frames, rested,
                 want, calls>>

(* Mutant: the count of uses alone protects a frame from a second use.      *)
Consumed_Kept(x) == rev[x]
Consumed(x) == NoFrame

ClearAdd(x) ==
  /\ pc = ClearOf(x)
  /\ rev' = [rev EXCEPT ![x] = Consumed(x)]
  /\ pc' = After(x)
  /\ UNCHANGED <<board, set, angle_time, motion, reg, add, usetime, used, frames,
                 rested, want, calls>>

(* The increments are added to where the gimbal is now, pitch first, and    *)
(* cleared.                                                                 *)
SetPitch ==
  /\ pc = "setPitch"
  /\ IF add["pitch"] # 0
     THEN /\ set' = [set EXCEPT !["pitch"] = (add["pitch"] + gyro["pitch"]) % Width]
          /\ want' = [want EXCEPT !["pitch"] = add["pitch"] + gyro["pitch"]]
     ELSE UNCHANGED <<set, want>>
  /\ add' = [add EXCEPT !["pitch"] = 0]
  /\ pc' = "setYaw"
  /\ UNCHANGED <<board, angle_time, motion, reg, visual, rested, calls>>

SetYaw ==
  /\ pc = "setYaw"
  /\ IF add["yaw"] # 0
     THEN /\ set' = [set EXCEPT !["yaw"] = (add["yaw"] + gyro["yaw"]) % Width]
          /\ want' = [want EXCEPT !["yaw"] = (add["yaw"] + gyro["yaw"]) % Lap]
     ELSE UNCHANGED <<set, want>>
  /\ add' = [add EXCEPT !["yaw"] = 0]
  /\ pc' = "wrapYaw"
  /\ UNCHANGED <<board, angle_time, motion, reg, visual, rested, calls>>

(* On both boards: yaw.setang %= 8192; pitch.setang %= 8192.                *)
(* Mutants: the remainder by a tick less, and by a tick more, than a turn.  *)
InTurn_Short(s) == s % (Lap - 1)
InTurn_Long(s) == s % (Lap + 1)
InTurn(s) == s % Lap

WrapYaw ==
  /\ pc = "wrapYaw"
  /\ set' = [set EXCEPT !["yaw"] = InTurn(@)]
  /\ pc' = "wrapPitch"
  /\ UNCHANGED <<board, angle_time, motion, reg, add, visual, rested, want, calls>>

WrapPitchLoad ==
  /\ pc = "wrapPitch"
  /\ reg' = set["pitch"]
  /\ pc' = "wrapPitch2"
  /\ UNCHANGED <<board, set, angle_time, motion, add, visual, rested, want, calls>>

WrapPitch ==
  /\ pc = "wrapPitch2"
  /\ set' = [set EXCEPT !["pitch"] = InTurn(reg)]
  /\ reg' = 0
  /\ pc' = "idle"
  /\ rested' = FALSE
  /\ UNCHANGED <<board, angle_time, motion, add, visual, want, calls>>

------------------------------------------------------------------------------
(* gimbal_init, and the gimbal where it happens to stand.                   *)
Init ==
  /\ board \in {"engineer", "infantry"}
  /\ set = [x \in Axes |-> IF x = "yaw" THEN Lap \div 2 - 1 ELSE Lap \div 2]
  /\ gyro \in {[x \in Axes |-> IF x = "yaw" THEN y ELSE Lap \div 2] : y \in 0 .. Lap}
  /\ angle_time = 0
  /\ err = [x \in Axes |-> 0]
  /\ pc = "idle" /\ reg = 0 /\ add = [x \in Axes |-> 0]
  /\ rev = [x \in Axes |-> NoFrame] /\ usetime = [x \in Axes |-> 0]
  /\ rested = TRUE
  /\ want = set
  /\ used = [x \in Axes |-> [f \in 1 .. MaxFrames |-> 0]]
  /\ calls = 0 /\ frames = 0

gimbal_addangle_set == \/ \E dy \in Adds["yaw"], dp \in Adds["pitch"] : AddYaw(dy, dp)
                       \/ AddPitchLoad \/ AddPitch

remote_ctrl ==
  \/ \E dy \in Adds["yaw"], dp \in Adds["pitch"] : StickAdd(dy, dp)
  \/ VisualAdd
  \/ \E x \in Axes : SkipUsed(x) \/ CountUse(x) \/ LoadAdd(x) \/ ClearAdd(x)
  \/ SetPitch \/ SetYaw

Finish == WrapYaw \/ WrapPitchLoad \/ WrapPitch

Next ==
  \/ gimbal_contral_thread
  \/ gimbal_addangle_set \/ remote_ctrl \/ Finish
  \/ \E x \in Axes : Turn(x)
  \/ \E dy \in Adds["yaw"], dp \in Adds["pitch"] : refresh_visual_data(dy, dp)

(* The timer releases the control thread for ever; a call that has begun    *)
(* goes on; the motors turn.                                                *)
Fairness ==
  /\ WF_vars(gimbal_contral_thread)
  /\ WF_vars(pc # "idle" /\ (gimbal_addangle_set \/ remote_ctrl \/ Finish))
  /\ \A x \in Axes : WF_vars(Turn(x))

Spec == Init /\ [][Next]_vars /\ Fairness

------------------------------------------------------------------------------
PcSet == {"idle", "addPitch", "addPitch2", "useYaw", "loadYaw", "clearYaw", "usePitch",
          "loadPitch", "clearPitch", "setPitch", "setYaw", "wrapYaw", "wrapPitch", "wrapPitch2"}

(* Every variable stays in its type; between two calls the set point of the *)
(* yaw is an angle of one turn.                                             *)
TypeOK ==
  /\ board \in {"engineer", "infantry"} /\ pc \in PcSet
  /\ set \in [Axes -> 0 .. Width - 1] /\ gyro \in [Axes -> 0 .. Lap]
  /\ angle_time \in 0 .. Every
  /\ err \in [Axes -> Int]
  /\ reg \in 0 .. Width - 1 /\ add \in [Axes -> Int]
  /\ rev \in [Axes -> [frame : 0 .. MaxFrames, d : Int]] /\ usetime \in [Axes -> 0 .. 1]
  /\ rested \in BOOLEAN /\ want \in [Axes -> Int]
  /\ used \in [Axes -> [1 .. MaxFrames -> Nat]]
  /\ calls \in 0 .. MaxCalls /\ frames \in 0 .. MaxFrames
  /\ pc \notin {"addPitch", "addPitch2", "wrapYaw"} => set["yaw"] < Lap

AngleLoop == angle_time' > Every - 1 /\ angle_time' # angle_time

(* Wherever in a call the control thread runs, the error it controls by is  *)
(* that of the set points asked for so far, the pitch kept in its limits:   *)
(* to a whole turn, and to the tick pid_output_motor loses between the two  *)
(* statements of a call.                                                    *)
Honest ==
  [][AngleLoop => \A x \in Axes : (err'[x] - (want'[x] - gyro[x])) % Lap \in {0, 1}]_vars

(* Unless it runs between the two statements of a call that change the yaw, *)
(* the gimbal goes the shorter way.                                         *)
ShortWay ==
  [][(AngleLoop /\ pc \notin {"addPitch", "addPitch2", "wrapYaw"})
       => \A x \in Axes : 2 * err'[x] =< Lap /\ -Lap =< 2 * err'[x]]_vars

(* No frame of the vision computer moves an axis twice, whenever the next   *)
(* arrives: the increment is cleared although a frame that arrives between  *)
(* the count and the load resets the count.                                 *)
UsedOnce == \A x \in Axes : \A f \in 1 .. MaxFrames : used[x][f] =< 1

(* When no more is asked for, the gimbal comes to stand where it was asked  *)
(* to.                                                                      *)
Settles == \A x \in Axes : <>[]((gyro[x] - want[x]) % Lap = 0)
==============================================================================
