---------------------------- MODULE GimbalCtl_proof ----------------------------
(***************************************************************************)
(* Proofs about GimbalCtl, for every turn, width and number of calls: the   *)
(* variables' types, that the gimbal takes the shorter way, that no frame   *)
(* is used twice, and that it is controlled by what was asked for.          *)
(***************************************************************************)
EXTENDS GimbalCtl, TLAPS

Between == pc \in {"addPitch", "addPitch2", "wrapYaw"}

(* TypeOK by parts: the control thread and the motors; the main thread and  *)
(* its set points; the frames of the vision computer; the counts.           *)
MotionOK ==
  /\ gyro \in [Axes -> 0 .. Lap] /\ angle_time \in 0 .. Every /\ err \in [Axes -> Int]

SetOK ==
  /\ pc \in PcSet
  /\ set \in [Axes -> 0 .. Width - 1] /\ want \in [Axes -> Int]
  /\ reg \in 0 .. Width - 1 /\ add \in [Axes -> Int]

VisualOK ==
  /\ rev \in [Axes -> [frame : 0 .. MaxFrames, d : Int]] /\ usetime \in [Axes -> 0 .. 1]
  /\ used \in [Axes -> [1 .. MaxFrames -> Nat]] /\ frames \in 0 .. MaxFrames

RestOK ==
  /\ board \in {"engineer", "infantry"} /\ rested \in BOOLEAN /\ calls \in 0 .. MaxCalls

Folded == ~Between => set["yaw"] < Lap

Types == MotionOK /\ SetOK /\ VisualOK /\ RestOK /\ Folded

LEMMA Parts == Types <=> TypeOK
BY DEF Types, MotionOK, SetOK, VisualOK, RestOK, Folded, Between, TypeOK

------------------------------------------------------------------------------
(* The remainder by a number of values lies among them.                     *)
LEMMA Remainder == ASSUME NEW a \in Int, NEW n \in Nat, 0 < n PROVE a % n \in 0 .. n - 1
BY SMT

LEMMA ClampIn == ASSUME NEW s \in Int PROVE Clamp(s) \in PitchMin .. PitchMax
BY GimbalAssumption DEF Clamp

(* A difference that fits is what rt_int16_t makes of it.                   *)
LEMMA Fits == ASSUME NEW e \in Int, -Lap =< e, e =< Lap PROVE Short(e) = e
<1>1. CASE 0 =< e
  <2>1. e % Width = e
    BY <1>1, GimbalAssumption, SMT
  <2> QED
    BY <1>1, <2>1, GimbalAssumption DEF Short
<1>2. CASE e < 0
  <2>1. e % Width = e + Width
    BY <1>2, GimbalAssumption, SMT
  <2> QED
    BY <1>2, <2>1, GimbalAssumption DEF Short
<1> QED
  BY <1>1, <1>2

(* The error of a set point within the turn is no more than half a turn.    *)
LEMMA Half == ASSUME NEW s \in 0 .. Lap - 1, NEW now \in 0 .. Lap
              PROVE  2 * Error(s, now) =< Lap /\ -Lap =< 2 * Error(s, now)
<1>1. Short(s - now) = s - now
  BY Fits, GimbalAssumption
<1> QED
  BY <1>1, GimbalAssumption DEF Error

LEMMA ErrorInt == ASSUME NEW s \in Int, NEW now \in Int PROVE Error(s, now) \in Int
<1>1. ASSUME NEW e \in Int PROVE Short(e) \in Int
  BY Remainder, GimbalAssumption DEF Short
<1>2. Short((IF s > Lap - 1 THEN s - (Lap - 1) ELSE s) - now) \in Int
  BY <1>1, GimbalAssumption
<1> QED
  BY <1>2, GimbalAssumption DEF Error

------------------------------------------------------------------------------
(* Type correctness, an action at a time.                                   *)
LEMMA InitTypes == Init => Types
BY GimbalAssumption
   DEF Init, Types, MotionOK, SetOK, VisualOK, RestOK, Folded, Between, PcSet, Axes, NoFrame

LEMMA ControlTypes == Types /\ gimbal_contral_thread => Types'
<1> SUFFICES ASSUME Types, gimbal_contral_thread PROVE Types'
  OBVIOUS
<1>1. Clamp(set["pitch"]) \in 0 .. Width - 1 /\ Clamp(want["pitch"]) \in Int
  BY ClampIn, GimbalAssumption DEF Types, SetOK, Axes
<1>2. SetOK'
  BY <1>1 DEF Types, SetOK, gimbal_contral_thread, main, Axes
<1>3. \A x \in Axes : Error(set'[x], gyro[x]) \in Int
  BY <1>2, ErrorInt, GimbalAssumption DEF Types, MotionOK, SetOK
<1>4. NextTime \in 0 .. Every
  BY GimbalAssumption DEF Types, MotionOK, NextTime
<1>5. MotionOK'
  <2>1. CASE NextTime > Every - 1
    BY <2>1, <1>3, <1>4 DEF Types, MotionOK, gimbal_contral_thread
  <2>2. CASE ~(NextTime > Every - 1)
    BY <2>2, <1>4 DEF Types, MotionOK, gimbal_contral_thread
  <2> QED
    BY <2>1, <2>2
<1>6. VisualOK' /\ RestOK'
  BY DEF Types, VisualOK, RestOK, gimbal_contral_thread, visual
<1>7. Folded'
  BY DEF Types, SetOK, Folded, Between, gimbal_contral_thread, main, Axes
<1> QED
  BY <1>2, <1>5, <1>6, <1>7 DEF Types

LEMMA TurnTypes == ASSUME NEW x \in Axes, Types, Turn(x) PROVE Types'
<1>1. Up(gyro[x]) \subseteq 0 .. Lap /\ Down(gyro[x]) \in 0 .. Lap
  BY GimbalAssumption DEF Types, MotionOK, Up, Down
<1>2. MotionOK'
  <2>1. gyro' \in [Axes -> 0 .. Lap]
    BY <1>1 DEF Types, MotionOK, Turn
  <2>2. err' \in [Axes -> Int]
    BY DEF Types, MotionOK, Turn
  <2> QED
    BY <2>1, <2>2 DEF Types, MotionOK, Turn
<1>3. SetOK' /\ VisualOK' /\ RestOK' /\ Folded'
  BY DEF Types, SetOK, VisualOK, RestOK, Folded, Between, Turn, main, visual
<1> QED
  BY <1>2, <1>3 DEF Types

LEMMA FrameTypes ==
  ASSUME NEW dy \in Int, NEW dp \in Int, Types, refresh_visual_data(dy, dp) PROVE Types'
<1>1. VisualOK'
  BY GimbalAssumption DEF Types, VisualOK, refresh_visual_data, Axes
<1>2. MotionOK' /\ SetOK' /\ RestOK' /\ Folded'
  BY DEF Types, MotionOK, SetOK, RestOK, Folded, Between, refresh_visual_data, motion, main
<1> QED
  BY <1>1, <1>2 DEF Types

(* The steps of the main thread leave the motion alone; those of the set    *)
(* points, also the frames.                                                 *)
LEMMA EngineerTypes ==
  ASSUME NEW dy \in Int, NEW dp \in Int, Types,
         AddYaw(dy, dp) \/ AddPitchLoad \/ AddPitch PROVE Types'
<1>1. MotionOK' /\ VisualOK'
  BY DEF Types, MotionOK, VisualOK, AddYaw, AddPitchLoad, AddPitch, motion, visual
<1>2. RestOK'
  BY GimbalAssumption DEF Types, RestOK, AddYaw, AddPitchLoad, AddPitch, Call
<1>3. SetOK' /\ Folded'
  <2>1. CASE AddYaw(dy, dp)
    <3>1. (set["yaw"] + dy) % Width \in 0 .. Width - 1 /\ (want["yaw"] + dy) % Lap \in Int
      BY Remainder, GimbalAssumption DEF Types, SetOK, Axes
    <3> QED
      BY <2>1, <3>1 DEF Types, SetOK, Folded, Between, AddYaw, Axes, PcSet
  <2>2. CASE AddPitchLoad
    BY <2>2 DEF Types, SetOK, Folded, Between, AddPitchLoad, Axes, PcSet
  <2>3. CASE AddPitch
    <3>1. (reg + add["pitch"]) % Width \in 0 .. Width - 1 /\ want["pitch"] + add["pitch"] \in Int
      BY Remainder, GimbalAssumption DEF Types, SetOK, Axes
    <3> QED
      BY <2>3, <3>1, GimbalAssumption DEF Types, SetOK, Folded, Between, AddPitch, Axes, PcSet
  <2> QED
    BY <2>1, <2>2, <2>3
<1> QED
  BY <1>1, <1>2, <1>3 DEF Types

Visual(x) == SkipUsed(x) \/ CountUse(x) \/ LoadAdd(x) \/ ClearAdd(x)

LEMMA VisualTypes == ASSUME NEW x \in Axes, Types, Visual(x) PROVE Types'
<1>1. MotionOK' /\ RestOK'
  BY DEF Types, MotionOK, RestOK, Visual, SkipUsed, CountUse, LoadAdd, ClearAdd, motion
<1>2. SetOK' /\ Folded'
  <2>1. add' \in [Axes -> Int]
    BY DEF Types, SetOK, VisualOK, Visual, SkipUsed, CountUse, LoadAdd, ClearAdd
  <2>2. UNCHANGED <<set, want, reg>>
    BY DEF Visual, SkipUsed, CountUse, LoadAdd, ClearAdd
  <2>3. pc' \in PcSet /\ ~Between /\ ~Between'
    BY DEF Visual, SkipUsed, CountUse, LoadAdd, ClearAdd, Use, LoadOf, ClearOf, After,
           PcSet, Between
  <2> QED
    BY <2>1, <2>2, <2>3 DEF Types, SetOK, Folded
<1>3. VisualOK'
  <2>1. CASE SkipUsed(x)
    BY <2>1 DEF Types, VisualOK, SkipUsed, visual
  <2>2. CASE CountUse(x)
    <3>1. usetime[x] + 1 \in 0 .. 1
      BY <2>2 DEF Types, VisualOK, CountUse
    <3> QED
      BY <2>2, <3>1 DEF Types, VisualOK, CountUse
  <2>3. CASE LoadAdd(x)
    <3> DEFINE u == [f \in 1 .. MaxFrames |-> IF f = rev[x].frame THEN used[x][f] + 1
                                              ELSE used[x][f]]
    <3>1. u \in [1 .. MaxFrames -> Nat]
      <4>1. used[x] \in [1 .. MaxFrames -> Nat]
        BY DEF Types, VisualOK
      <4>2. \A f \in 1 .. MaxFrames : used[x][f] \in Nat
        BY <4>1
      <4>3. \A f \in 1 .. MaxFrames : used[x][f] + 1 \in Nat
        BY <4>2
      <4> QED
        BY <4>2, <4>3
    <3>2. used' = [used EXCEPT ![x] = u]
      BY <2>3 DEF LoadAdd
    <3> HIDE DEF u
    <3> QED
      BY <2>3, <3>1, <3>2 DEF Types, VisualOK, LoadAdd
  <2>4. CASE ClearAdd(x)
    <3>1. Consumed(x) \in [frame : 0 .. MaxFrames, d : Int]
      BY GimbalAssumption DEF Consumed, NoFrame
    <3> QED
      BY <2>4, <3>1 DEF Types, VisualOK, ClearAdd
  <2> QED
    BY <2>1, <2>2, <2>3, <2>4 DEF Visual
<1> QED
  BY <1>1, <1>2, <1>3 DEF Types

LEMMA InfantryTypes ==
  ASSUME NEW dy \in Int, NEW dp \in Int, Types,
         StickAdd(dy, dp) \/ VisualAdd \/ SetPitch \/ SetYaw PROVE Types'
<1>1. MotionOK' /\ VisualOK'
  BY DEF Types, MotionOK, VisualOK, StickAdd, VisualAdd, SetPitch, SetYaw, motion, visual
<1>2. RestOK'
  BY GimbalAssumption DEF Types, RestOK, StickAdd, VisualAdd, SetPitch, SetYaw, Call
<1>3. SetOK' /\ Folded'
  <2>1. CASE StickAdd(dy, dp) \/ VisualAdd
    BY <2>1 DEF Types, SetOK, Folded, Between, StickAdd, VisualAdd, Call, Axes, PcSet
  <2>2. \A x \in Axes : /\ add[x] + gyro[x] \in Int
                        /\ (add[x] + gyro[x]) % Width \in 0 .. Width - 1
                        /\ (add[x] + gyro[x]) % Lap \in Int
    <3> TAKE x \in Axes
    <3>1. add[x] + gyro[x] \in Int
      BY DEF Types, SetOK, MotionOK
    <3> QED
      BY <3>1, Remainder, GimbalAssumption
  <2>3. CASE SetPitch
    BY <2>3, <2>2 DEF Types, SetOK, Folded, Between, SetPitch, Axes, PcSet
  <2>4. CASE SetYaw
    BY <2>4, <2>2 DEF Types, SetOK, Folded, Between, SetYaw, Axes, PcSet
  <2> QED
    BY <2>1, <2>3, <2>4
<1> QED
  BY <1>1, <1>2, <1>3 DEF Types

LEMMA FinishTypes == ASSUME Types, Finish PROVE Types'
<1>1. MotionOK' /\ VisualOK' /\ RestOK'
  BY DEF Types, MotionOK, VisualOK, RestOK, Finish, WrapYaw, WrapPitchLoad, WrapPitch,
         motion, visual
<1>2. ASSUME NEW s \in Int PROVE InTurn(s) \in 0 .. Width - 1 /\ InTurn(s) < Lap
  BY Remainder, GimbalAssumption DEF InTurn
<1>3. InTurn(set["yaw"]) \in 0 .. Width - 1 /\ InTurn(set["yaw"]) < Lap
  BY <1>2 DEF Types, SetOK, Axes
<1>4. InTurn(reg) \in 0 .. Width - 1
  BY <1>2 DEF Types, SetOK
<1>5. SetOK' /\ Folded'
  <2>1. CASE WrapYaw
    BY <2>1, <1>3 DEF Types, SetOK, Folded, Between, WrapYaw, Axes, PcSet
  <2>2. CASE WrapPitchLoad
    BY <2>2 DEF Types, SetOK, Folded, Between, WrapPitchLoad, Axes, PcSet
  <2>3. CASE WrapPitch
    BY <2>3, <1>4, GimbalAssumption DEF Types, SetOK, Folded, Between, WrapPitch, Axes, PcSet
  <2> QED
    BY <2>1, <2>2, <2>3 DEF Finish
<1> QED
  BY <1>1, <1>5 DEF Types

LEMMA NextTypes == Types /\ [Next]_vars => Types'
<1> SUFFICES ASSUME Types, [Next]_vars PROVE Types'
  OBVIOUS
<1>1. \A x \in Axes : Adds[x] \subseteq Int
  BY GimbalAssumption
<1>2. CASE gimbal_contral_thread
  BY <1>2, ControlTypes
<1>3. CASE gimbal_addangle_set
  BY <1>1, <1>3, EngineerTypes DEF gimbal_addangle_set, Axes
<1>4. CASE remote_ctrl
  BY <1>1, <1>4, InfantryTypes, VisualTypes DEF remote_ctrl, Visual, Axes
<1>5. CASE Finish
  BY <1>5, FinishTypes
<1>6. CASE \E x \in Axes : Turn(x)
  BY <1>6, TurnTypes
<1>7. CASE \E dy \in Adds["yaw"], dp \in Adds["pitch"] : refresh_visual_data(dy, dp)
  BY <1>1, <1>7, FrameTypes DEF Axes
<1>8. CASE UNCHANGED vars
  BY <1>8 DEF vars, motion, main, visual, Types, MotionOK, SetOK, VisualOK, RestOK, Folded,
              Between
<1> QED
  BY <1>2, <1>3, <1>4, <1>5, <1>6, <1>7, <1>8 DEF Next

(* Every variable stays in its type, and between two calls the set point of *)
(* the yaw within the turn, as the comments at the %= of drv_gimbal.c and   *)
(* robocontrol.c say.                                                       *)
THEOREM TypeCorrect == Spec => []TypeOK
BY InitTypes, NextTypes, Parts, PTL DEF Spec

------------------------------------------------------------------------------
(* The shorter way.                                                         *)
LEMMA PassShort ==
  ASSUME Types, [Next]_vars, AngleLoop, ~Between
  PROVE  \A x \in Axes : 2 * err'[x] =< Lap /\ -Lap =< 2 * err'[x]
<1>1. gimbal_contral_thread
  BY DEF AngleLoop, Next, vars, motion, main, visual, gimbal_addangle_set, remote_ctrl, Finish,
         AddYaw, AddPitchLoad, AddPitch, StickAdd, VisualAdd, SkipUsed, CountUse, LoadAdd,
         ClearAdd, SetPitch, SetYaw, WrapYaw, WrapPitchLoad, WrapPitch, Turn,
         refresh_visual_data
<1>2. \A x \in Axes : set'[x] \in 0 .. Lap - 1
  <2>1. set["yaw"] \in 0 .. Lap - 1
    BY GimbalAssumption DEF Types, SetOK, Folded, Axes
  <2>2. Clamp(set["pitch"]) \in 0 .. Lap - 1
    BY ClampIn, GimbalAssumption DEF Types, SetOK, Axes
  <2> QED
    BY <1>1, <2>1, <2>2 DEF gimbal_contral_thread, Types, SetOK, Axes
<1>3. err' = [x \in Axes |-> Error(set'[x], gyro[x])]
  BY <1>1 DEF AngleLoop, gimbal_contral_thread
<1>4. \A x \in Axes : gyro[x] \in 0 .. Lap
  BY DEF Types, MotionOK
<1> QED
  BY <1>2, <1>3, <1>4, Half

(* Whatever was asked for and wherever the gimbal stands, a pass of the     *)
(* control thread that does not come between += and %= drives neither axis  *)
(* by more than half a turn.                                                *)
THEOREM Shorter == Spec => ShortWay
<1>1. Types /\ [Next]_vars =>
        [(AngleLoop /\ pc \notin {"addPitch", "addPitch2", "wrapYaw"})
           => \A x \in Axes : 2 * err'[x] =< Lap /\ -Lap =< 2 * err'[x]]_vars
  BY PassShort DEF Between
<1> QED
  BY <1>1, InitTypes, NextTypes, PTL DEF Spec, ShortWay

------------------------------------------------------------------------------
(* UsedOnce needs to know that a frame used is not in rev any more, unless  *)
(* it is about to be cleared, and that the next has a new number.           *)
Spent ==
  \A x \in Axes : \A f \in 1 .. MaxFrames :
    /\ used[x][f] =< 1
    /\ used[x][f] > 0 => f =< frames /\ (rev[x].frame = f => pc = ClearOf(x))

Consumable == \A x \in Axes : rev[x].frame =< frames

LEMMA InitSpent == Init => Spent /\ Consumable
BY GimbalAssumption DEF Init, Spent, Consumable, NoFrame, Axes

LEMMA Programs ==
  ASSUME NEW x \in Axes, NEW y \in Axes
  PROVE  /\ Use(x) # ClearOf(y) /\ LoadOf(x) # ClearOf(y) /\ After(x) # ClearOf(y)
         /\ ClearOf(x) \notin {"idle", "addPitch", "addPitch2", "setPitch", "setYaw",
                               "wrapYaw", "wrapPitch", "wrapPitch2"}
         /\ x # y => ClearOf(x) # ClearOf(y)
BY DEF Use, LoadOf, ClearOf, After, Axes

LEMMA NextSpent == Types /\ Spent /\ Consumable /\ [Next]_vars => Spent' /\ Consumable'
<1> SUFFICES ASSUME Types, Spent, Consumable, [Next]_vars PROVE Spent' /\ Consumable'
  OBVIOUS
<1>1. CASE UNCHANGED <<rev, used, frames, pc>>
  BY <1>1 DEF Spent, Consumable
<1>2. CASE UNCHANGED <<rev, used, frames>> /\ \A x \in Axes : pc # ClearOf(x)
  BY <1>2 DEF Spent, Consumable
<1>3. ASSUME NEW dy \in Int, NEW dp \in Int, refresh_visual_data(dy, dp)
      PROVE  Spent' /\ Consumable'
  <2>1. \A x \in Axes : rev'[x].frame = frames + 1
    BY <1>3 DEF refresh_visual_data
  <2>2. \A x \in Axes : \A f \in 1 .. MaxFrames : used[x][f] > 0 => f =< frames
    BY DEF Spent
  <2>3. frames \in Nat /\ frames' = frames + 1 /\ UNCHANGED used
    BY <1>3 DEF refresh_visual_data, Types, VisualOK
  <2> QED
    BY <2>1, <2>2, <2>3 DEF Spent, Consumable
<1>4. ASSUME NEW x \in Axes, LoadAdd(x)
      PROVE  Spent' /\ Consumable'
  <2>1. \A f \in 1 .. MaxFrames : used'[x][f] = IF f = rev[x].frame THEN used[x][f] + 1
                                                ELSE used[x][f]
    BY <1>4 DEF LoadAdd, Types, VisualOK
  <2>2. \A y \in Axes : y # x => used'[y] = used[y]
    BY <1>4 DEF LoadAdd, Types, VisualOK
  <2>3. \A y \in Axes : pc # ClearOf(y)
    BY <1>4, Programs DEF LoadAdd
  <2>4. pc' = ClearOf(x) /\ UNCHANGED <<rev, frames>>
    BY <1>4 DEF LoadAdd
  <2>5. \A y \in Axes : \A f \in 1 .. MaxFrames : used[y][f] \in Nat
    BY DEF Types, VisualOK
  <2>6. ASSUME NEW y \in Axes, NEW f \in 1 .. MaxFrames
        PROVE  /\ used'[y][f] =< 1
               /\ used'[y][f] > 0 => f =< frames' /\ (rev'[y].frame = f => pc' = ClearOf(y))
    <3>1. CASE y = x /\ f = rev[x].frame
      <4>1. used[x][f] = 0
        BY <3>1, <2>3, <2>5 DEF Spent
      <4>2. f =< frames
        BY <3>1 DEF Consumable
      <4> QED
        BY <3>1, <4>1, <4>2, <2>1, <2>4
    <3>2. CASE ~(y = x /\ f = rev[x].frame)
      <4>1. used'[y][f] = used[y][f]
        BY <3>2, <2>1, <2>2
      <4> QED
        BY <4>1, <3>2, <2>3, <2>4 DEF Spent
    <3> QED
      BY <3>1, <3>2
  <2> QED
    BY <2>4, <2>6 DEF Spent, Consumable
<1>5. ASSUME NEW x \in Axes, ClearAdd(x)
      PROVE  Spent' /\ Consumable'
  <2>1. rev'[x].frame = 0 /\ \A y \in Axes : y # x => rev'[y] = rev[y]
    BY <1>5 DEF ClearAdd, Consumed, NoFrame, Types, VisualOK
  <2>2. \A y \in Axes : y # x => pc # ClearOf(y)
    BY <1>5, Programs DEF ClearAdd
  <2>3. UNCHANGED <<used, frames>> /\ frames \in Nat
    BY <1>5 DEF ClearAdd, Types, VisualOK
  <2> QED
    BY <2>1, <2>2, <2>3 DEF Spent, Consumable
<1>6. ASSUME NEW x \in Axes, SkipUsed(x) \/ CountUse(x)
      PROVE  UNCHANGED <<rev, used, frames>> /\ \A y \in Axes : pc # ClearOf(y)
  BY <1>6, Programs DEF SkipUsed, CountUse, visual
<1>7. CASE UNCHANGED vars
  BY <1>7, <1>1 DEF vars, main, visual
<1>8. CASE gimbal_contral_thread \/ \E x \in Axes : Turn(x)
  BY <1>8, <1>1 DEF gimbal_contral_thread, Turn, main, visual
<1>9. ASSUME gimbal_addangle_set \/ Finish \/ SetPitch \/ SetYaw \/ VisualAdd
             \/ \E dy \in Adds["yaw"], dp \in Adds["pitch"] : StickAdd(dy, dp)
      PROVE  UNCHANGED <<rev, used, frames>> /\ \A y \in Axes : pc # ClearOf(y)
  BY <1>9, Programs
     DEF gimbal_addangle_set, Finish, AddYaw, AddPitchLoad, AddPitch, StickAdd, VisualAdd, Call,
         SetPitch, SetYaw, WrapYaw, WrapPitchLoad, WrapPitch, visual
<1>10. \A x \in Axes : Adds[x] \subseteq Int
  BY GimbalAssumption
<1>11. CASE \E dy \in Adds["yaw"], dp \in Adds["pitch"] : refresh_visual_data(dy, dp)
  BY <1>11, <1>10, <1>3 DEF Axes
<1>12. CASE \E x \in Axes : SkipUsed(x) \/ CountUse(x) \/ LoadAdd(x) \/ ClearAdd(x)
  BY <1>12, <1>2, <1>4, <1>5, <1>6
<1>13. CASE gimbal_addangle_set \/ Finish
  BY <1>13, <1>2, <1>9
<1>14. CASE remote_ctrl
  BY <1>14, <1>2, <1>9, <1>12 DEF remote_ctrl
<1> QED
  BY <1>7, <1>8, <1>11, <1>13, <1>14 DEF Next

(* No frame of the vision computer moves an axis twice, whenever the next   *)
(* arrives.                                                                 *)
THEOREM FramesUsedOnce == Spec => []UsedOnce
<1>1. Spent => UsedOnce
  BY DEF Spent, UsedOnce
<1> QED
  BY <1>1, InitTypes, NextTypes, InitSpent, NextSpent, PTL DEF Spec

------------------------------------------------------------------------------
(* The error is honest.  Two angles are the same if they differ by whole    *)
(* turns; a remainder by a turn, or by the width of a number, is the same   *)
(* angle.                                                                   *)
Same(a, b) == \E k \in Int : a = b + Lap * k

LEMMA Quotient ==
  ASSUME NEW a \in Int, NEW n \in Nat, 0 < n
  PROVE  a \div n \in Int /\ a % n \in 0 .. n - 1 /\ a = n * (a \div n) + (a % n)
<1>1. a \div n \in Int
  BY SMT
<1>2. a % n \in 0 .. n - 1
  BY SMT
<1>3. a = n * (a \div n) + (a % n)
  BY SMT
<1> QED
  BY <1>1, <1>2, <1>3

LEMMA WholeTurns ==
  ASSUME NEW r \in Int, NEW q \in Int, NEW n \in Nat, 0 =< r, r < n
  PROVE  (n * q + r) % n = r
BY SMT

LEMMA SameAngle ==
  ASSUME NEW a \in Int, NEW b \in Int, NEW c \in Int, Same(a, b)
  PROVE  /\ Same(b, a) /\ Same(a + c, b + c)
         /\ Same(b, c) => Same(a, c)
<1>1. Lap \in Int
  BY GimbalAssumption
<1>2. PICK k \in Int : a = b + Lap * k
  BY DEF Same
<1>3. -k \in Int /\ b = a + Lap * (-k)
  BY <1>1, <1>2
<1>4. a + c = (b + c) + Lap * k
  BY <1>1, <1>2
<1>5. ASSUME NEW j \in Int, b = c + Lap * j PROVE Same(a, c)
  <2>1. k + j \in Int /\ a = c + Lap * (k + j)
    BY <1>1, <1>2, <1>5
  <2> QED
    BY <2>1 DEF Same
<1> QED
  BY <1>3, <1>4, <1>5 DEF Same

LEMMA SameRemainder ==
  ASSUME NEW a \in Int PROVE Same(a % Lap, a) /\ Same(a % Width, a) /\ Same(a, a)
<1>1. Lap \in Nat /\ 0 < Lap /\ Width \in Nat /\ 0 < Width
  BY GimbalAssumption
<1>2. PICK c \in Int : Width = Lap * c
  <2>1. Width = Lap * (Width \div Lap) + (Width % Lap) /\ Width \div Lap \in Int
    BY <1>1, Quotient
  <2>2. Width = Lap * (Width \div Lap)
    BY <2>1, <1>1, GimbalAssumption
  <2> QED
    BY <2>1, <2>2
<1>3. PICK q \in Int, r \in 0 .. Lap - 1 : a = Lap * q + r /\ a % Lap = r
  BY <1>1, Quotient
<1>4. PICK p \in Int, s \in 0 .. Width - 1 : a = Width * p + s /\ a % Width = s
  BY <1>1, Quotient
<1>5. a % Lap = a + Lap * (-q) /\ -q \in Int
  BY <1>1, <1>3
<1>6. a % Width = a + Lap * (-(c * p)) /\ -(c * p) \in Int
  <2>1. Width * p = Lap * (c * p) /\ c * p \in Int
    BY <1>1, <1>2
  <2>2. Lap * (-(c * p)) = -(Lap * (c * p))
    BY <1>1, <2>1
  <2> QED
    BY <1>1, <1>4, <2>1, <2>2
<1>7. a = a + Lap * 0
  BY <1>1
<1> QED
  BY <1>5, <1>6, <1>7 DEF Same

(* What the error leaves out are whole turns, and the tick the first        *)
(* statement of pid_output_motor loses.                                     *)
LEMMA ErrorTrue ==
  ASSUME NEW s \in Int, NEW now \in Int, NEW w \in Int, Same(s, w)
  PROVE  (Error(s, now) - (w - now)) % Lap \in {0, 1}
<1> DEFINE t == IF s > Lap - 1 THEN s - (Lap - 1) ELSE s
           y == t - now
           e == Short(y)
<1>1. Lap \in Nat /\ 1 < Lap /\ Width \in Nat /\ 0 < Width
  BY GimbalAssumption
<1>2. t \in Int /\ y \in Int
  BY <1>1
<1>3. PICK c \in Int : Width = Lap * c
  <2>1. Same(Width, 0)
    <3>1. Width % Lap = 0 /\ Same(Width % Lap, Width)
      BY <1>1, SameRemainder, GimbalAssumption
    <3> QED
      BY <3>1, <1>1, SameAngle
  <2> QED
    BY <2>1, <1>1 DEF Same
<1>4. e \in Int /\ Same(e, y)
  <2>1. PICK k \in Int : y % Width = y + Lap * k
    BY <1>2, SameRemainder DEF Same
  <2>2. e = y % Width \/ e = (y % Width) - Width
    BY DEF Short
  <2>3. Lap * (k - c) = Lap * k - Lap * c
    BY <1>1
  <2>4. e = y + Lap * k \/ e = y + Lap * (k - c)
    BY <1>1, <1>2, <1>3, <2>1, <2>2, <2>3
  <2>5. Lap * k \in Int /\ Lap * (k - c) \in Int /\ k - c \in Int
    BY <1>1
  <2> QED
    BY <1>2, <2>4, <2>5 DEF Same
<1>5. Error(s, now) = IF e > Lap \div 2 THEN e - Lap ELSE IF e < -(Lap \div 2) THEN e + Lap ELSE e
  BY DEF Error
<1> HIDE DEF e, y
<1>6. PICK k \in Int : e = y + Lap * k
  BY <1>4 DEF Same
<1>7. PICK j \in Int : Error(s, now) = y + Lap * j
  <2>1. Lap * (k - 1) = Lap * k - Lap /\ Lap * (k + 1) = Lap * k + Lap /\ Lap * k \in Int
    BY <1>1
  <2>2. \/ Error(s, now) = y + Lap * k
        \/ Error(s, now) = y + Lap * (k - 1)
        \/ Error(s, now) = y + Lap * (k + 1)
    BY <1>1, <1>2, <1>4, <1>5, <1>6, <2>1
  <2> QED
    BY <2>2
<1>8. PICK i \in Int : s = w + Lap * i
  BY DEF Same
<1>9. CASE t = s
  <2>1. Error(s, now) - (w - now) = Lap * (i + j) + 0
    <3>1. Lap * (i + j) = Lap * i + Lap * j /\ Lap * i \in Int /\ Lap * j \in Int
      BY <1>1
    <3> QED
      BY <1>2, <1>7, <1>8, <1>9, <3>1 DEF y
  <2>2. i + j \in Int /\ 0 \in Int /\ 0 =< 0 /\ 0 < Lap
    BY <1>1
  <2>3. (Lap * (i + j) + 0) % Lap = 0
    BY <1>1, <2>2, WholeTurns, Zenon
  <2> QED
    BY <2>1, <2>3
<1>10. CASE t = s - (Lap - 1)
  <2>1. Error(s, now) - (w - now) = Lap * (i + j - 1) + 1
    <3>1. Lap * (i + j - 1) = Lap * i + Lap * j - Lap /\ Lap * i \in Int /\ Lap * j \in Int
      BY <1>1
    <3> QED
      BY <1>1, <1>2, <1>7, <1>8, <1>10, <3>1 DEF y
  <2>2. i + j - 1 \in Int /\ 1 \in Int /\ 0 =< 1 /\ 1 < Lap
    BY <1>1
  <2>3. (Lap * (i + j - 1) + 1) % Lap = 1
    BY <1>1, <2>2, WholeTurns, Zenon
  <2> QED
    BY <2>1, <2>3
<1> QED
  BY <1>9, <1>10

(* The yaw's set point is the angle asked for, at every statement.          *)
YawTrue == Same(set["yaw"], want["yaw"])

LEMMA NextYaw == Types /\ YawTrue /\ [Next]_vars => YawTrue'
<1> SUFFICES ASSUME Types, YawTrue, [Next]_vars PROVE YawTrue'
  OBVIOUS
<1> DEFINE s == set["yaw"]  w == want["yaw"]
<1>1. s \in Int /\ w \in Int /\ "yaw" \in Axes /\ "yaw" # "pitch"
      /\ set \in [Axes -> Int] /\ want \in [Axes -> Int]
  BY GimbalAssumption DEF Types, SetOK, Axes
<1>2. \A x \in Int, y \in Int, z \in Int : Same(x, y) /\ Same(y, z) => Same(x, z)
  BY SameAngle
<1>11. \A x \in Int, y \in Int, c \in Int : Same(x, y) => Same(x + c, y + c)
  BY SameAngle
<1>12. \A x \in Int : /\ x % Lap \in Int /\ Same(x % Lap, x) /\ Same(x, x % Lap)
                      /\ x % Width \in Int /\ Same(x % Width, x)
  <2> TAKE x \in Int
  <2>1. x % Lap \in Int /\ x % Width \in Int
    BY GimbalAssumption, SMT
  <2>2. Same(x % Lap, x) /\ Same(x % Width, x)
    BY SameRemainder
  <2>3. \A a \in Int, b \in Int : Same(a, b) => Same(b, a)
    BY SameAngle
  <2> QED
    BY <2>1, <2>2, <2>3, Zenon
<1>3. CASE UNCHANGED <<set["yaw"], want["yaw"]>>
  BY <1>3 DEF YawTrue
<1>4. ASSUME NEW dy \in Int, NEW dp \in Int, AddYaw(dy, dp) PROVE YawTrue'
  <2>1. set'["yaw"] = (s + dy) % Width /\ want'["yaw"] = (w + dy) % Lap
    BY <1>1, <1>4 DEF AddYaw
  <2>2. s + dy \in Int /\ w + dy \in Int /\ Same(s + dy, w + dy)
    <3>1. s + dy \in Int /\ w + dy \in Int
      BY <1>1
    <3> QED
      BY <1>1, <1>11, <3>1, Zenon DEF YawTrue
  <2>3. /\ (s + dy) % Width \in Int /\ Same((s + dy) % Width, s + dy)
        /\ (w + dy) % Lap \in Int /\ Same(w + dy, (w + dy) % Lap)
    BY <1>12, <2>2, Zenon
  <2>4. Same((s + dy) % Width, w + dy)
    BY <1>2, <2>2, <2>3
  <2> QED
    BY <1>2, <2>1, <2>2, <2>3, <2>4 DEF YawTrue
<1>5. CASE SetYaw
  <2>1. CASE add["yaw"] = 0
    BY <1>5, <2>1, <1>3 DEF SetYaw
  <2>2. CASE add["yaw"] # 0
    <3> DEFINE a == add["yaw"] + gyro["yaw"]
    <3>1. a \in Int
      BY <1>1 DEF Types, SetOK, MotionOK
    <3>2. set'["yaw"] = a % Width /\ want'["yaw"] = a % Lap
      BY <1>1, <1>5, <2>2 DEF SetYaw
    <3> HIDE DEF a
    <3>3. /\ a % Width \in Int /\ Same(a % Width, a) /\ a % Lap \in Int /\ Same(a, a % Lap)
      BY <1>12, <3>1, Zenon
    <3> QED
      BY <1>2, <3>1, <3>2, <3>3 DEF YawTrue
  <2> QED
    BY <2>1, <2>2
<1>6. CASE WrapYaw
  <2>1. set'["yaw"] = s % Lap /\ want'["yaw"] = w
    BY <1>1, <1>6 DEF WrapYaw, InTurn
  <2>2. s % Lap \in Int /\ Same(s % Lap, s)
    BY <1>1, <1>12, Zenon
  <2> QED
    BY <1>1, <1>2, <2>1, <2>2 DEF YawTrue
<1>7. CASE gimbal_contral_thread \/ AddPitch \/ SetPitch \/ WrapPitch
  BY <1>1, <1>3, <1>7 DEF gimbal_contral_thread, AddPitch, SetPitch, WrapPitch
<1>8. ASSUME \/ UNCHANGED vars \/ AddPitchLoad \/ WrapPitchLoad \/ VisualAdd
             \/ \E x \in Axes : Turn(x) \/ SkipUsed(x) \/ CountUse(x) \/ LoadAdd(x) \/ ClearAdd(x)
             \/ \E dy \in Adds["yaw"], dp \in Adds["pitch"] :
                  StickAdd(dy, dp) \/ refresh_visual_data(dy, dp)
      PROVE  UNCHANGED <<set, want>>
  BY <1>8 DEF vars, AddPitchLoad, WrapPitchLoad, VisualAdd, Turn, SkipUsed, CountUse, LoadAdd,
              ClearAdd, StickAdd, refresh_visual_data
<1>9. \A x \in Axes : Adds[x] \subseteq Int
  BY GimbalAssumption
<1>10. CASE \E dy \in Adds["yaw"], dp \in Adds["pitch"] : AddYaw(dy, dp)
  BY <1>4, <1>9, <1>10 DEF Axes
<1> QED
  BY <1>3, <1>5, <1>6, <1>7, <1>8, <1>10
     DEF Next, gimbal_addangle_set, remote_ctrl, Finish

(* The pitch: its limits lie on either side of the middle and no further    *)
(* than half a turn apart, and no increment takes it beyond the turn.       *)
PitchWithin ==
  /\ PitchMin =< Lap \div 2 /\ Lap \div 2 =< PitchMax
  /\ 2 * (PitchMax - PitchMin) =< Lap
  /\ \A d \in Adds["pitch"] : 0 =< PitchMin + d /\ PitchMax + d < Lap

Within(v) == PitchMin =< v /\ v =< PitchMax
InOneTurn(v) == 0 =< v /\ v < Lap

(* The gimbal stays within the limits, and so does the end of its turn.     *)
Steady == Within(gyro["pitch"]) /\ Within(gyro["pitch"] + err["pitch"])

(* Every increment is one that was asked for, or none.                      *)
Asked ==
  add["pitch"] \in Adds["pitch"] \cup {0} /\ rev["pitch"].d \in Adds["pitch"] \cup {0}

(* What the control thread makes of the set point is what it makes of the   *)
(* angle asked for, also of a value that is still to be stored; between     *)
(* calls, and until the engineer's has added, the two are one.              *)
PitchTrue ==
  /\ InOneTurn(set["pitch"]) /\ Clamp(set["pitch"]) = Clamp(want["pitch"])
  /\ ((pc = "idle" /\ rested) \/ pc \in {"addPitch", "addPitch2"})
       => set["pitch"] = want["pitch"] /\ Within(set["pitch"])
  /\ pc = "addPitch2" => reg = set["pitch"]
  /\ pc = "wrapPitch2" => InOneTurn(reg) /\ Clamp(reg) = Clamp(want["pitch"])

Honesty == YawTrue /\ Steady /\ Asked /\ PitchTrue

LEMMA InitHonesty == PitchWithin /\ Init => Honesty
<1> SUFFICES ASSUME PitchWithin, Init PROVE Honesty
  OBVIOUS
<1>1. Lap \div 2 \in Int /\ 0 =< Lap \div 2 /\ Lap \div 2 < Lap
  BY GimbalAssumption
<1>2. /\ set["pitch"] = Lap \div 2 /\ want = set /\ gyro["pitch"] = Lap \div 2
      /\ set["yaw"] = Lap \div 2 - 1
      /\ err["pitch"] = 0 /\ add["pitch"] = 0 /\ rev["pitch"].d = 0 /\ pc = "idle"
  BY DEF Init, Axes, NoFrame
<1>3. YawTrue
  BY <1>1, <1>2, SameRemainder DEF YawTrue
<1>4. Steady /\ Asked /\ PitchTrue
  BY <1>1, <1>2 DEF PitchWithin, Steady, Asked, PitchTrue, Within, InOneTurn
<1> QED
  BY <1>3, <1>4 DEF Honesty

(* Within half a turn the error takes the gimbal to the set point itself.   *)
LEMMA Straight ==
  ASSUME PitchWithin, NEW s \in Int, NEW now \in Int, Within(s), Within(now)
  PROVE  Error(s, now) = s - now
<1>1. Short(s - now) = s - now
  BY Fits, GimbalAssumption DEF PitchWithin, Within
<1> QED
  BY <1>1, GimbalAssumption DEF Error, PitchWithin, Within

LEMMA Clamped ==
  ASSUME NEW v \in Int
  PROVE  /\ Within(Clamp(v)) /\ Clamp(v) \in Int /\ Clamp(Clamp(v)) = Clamp(v)
         /\ InOneTurn(Clamp(v)) /\ (Within(v) => Clamp(v) = v)
BY GimbalAssumption DEF Clamp, Within, InOneTurn

LEMMA NextSteady == PitchWithin /\ Types /\ Steady /\ [Next]_vars => Steady'
<1> SUFFICES ASSUME PitchWithin, Types, Steady, [Next]_vars PROVE Steady'
  OBVIOUS
<1>1. /\ gyro \in [Axes -> Int] /\ err \in [Axes -> Int] /\ "pitch" \in Axes
      /\ set \in [Axes -> Int]
  BY GimbalAssumption DEF Types, MotionOK, SetOK, Axes
<1> DEFINE g == gyro["pitch"]  e == err["pitch"]
<1>2. g \in Int /\ e \in Int /\ Within(g) /\ Within(g + e)
  BY <1>1 DEF Steady
<1>3. CASE UNCHANGED motion
  BY <1>3 DEF motion, Steady
<1>4. CASE gimbal_contral_thread
  <2>1. gyro' = gyro /\ set'["pitch"] = Clamp(set["pitch"])
    BY <1>1, <1>4 DEF gimbal_contral_thread
  <2>2. CASE NextTime > Every - 1
    <3>1. err'["pitch"] = Error(Clamp(set["pitch"]), g)
      BY <1>1, <1>4, <2>1, <2>2 DEF gimbal_contral_thread
    <3>2. err'["pitch"] = Clamp(set["pitch"]) - g /\ Within(Clamp(set["pitch"]))
          /\ Clamp(set["pitch"]) \in Int
      BY <1>1, <1>2, <3>1, Clamped, Straight
    <3>3. g + err'["pitch"] = Clamp(set["pitch"])
      BY <1>2, <3>2
    <3> QED
      BY <1>2, <2>1, <3>2, <3>3 DEF Steady
  <2>3. CASE ~(NextTime > Every - 1)
    BY <1>4, <2>1, <2>3 DEF gimbal_contral_thread, Steady
  <2> QED
    BY <2>2, <2>3
<1>5. ASSUME NEW x \in Axes, Turn(x) PROVE Steady'
  <2>1. CASE x = "pitch" /\ e > 0
    <3>1. err'["pitch"] = e - 1 /\ gyro'["pitch"] \in Up(g)
      BY <1>1, <1>5, <2>1 DEF Turn
    <3>2. ~(g >= Lap - 1)
      BY <1>2, <2>1, GimbalAssumption DEF Within
    <3>3. gyro'["pitch"] = g + 1
      BY <3>1, <3>2 DEF Up
    <3> QED
      BY <1>2, <2>1, <3>1, <3>3, GimbalAssumption DEF Steady, Within
  <2>2. CASE x = "pitch" /\ ~(e > 0)
    <3>1. e < 0 /\ err'["pitch"] = e + 1 /\ gyro'["pitch"] = Down(g)
      BY <1>1, <1>5, <2>2 DEF Turn
    <3>2. g # 0 /\ g # Lap
      BY <1>2, <3>1, GimbalAssumption DEF Within
    <3>3. gyro'["pitch"] = g - 1
      BY <3>1, <3>2 DEF Down
    <3> QED
      BY <1>2, <3>1, <3>3, GimbalAssumption DEF Steady, Within
  <2>3. CASE x # "pitch"
    BY <1>1, <1>5, <2>3 DEF Turn, Steady
  <2> QED
    BY <2>1, <2>2, <2>3
<1>6. ASSUME UNCHANGED vars \/ gimbal_addangle_set \/ remote_ctrl \/ Finish
             \/ \E dy \in Adds["yaw"], dp \in Adds["pitch"] : refresh_visual_data(dy, dp)
      PROVE  UNCHANGED motion
  BY <1>6 DEF vars, gimbal_addangle_set, AddYaw, AddPitchLoad, AddPitch, remote_ctrl, StickAdd,
              VisualAdd, SkipUsed, CountUse, LoadAdd, ClearAdd, SetPitch, SetYaw, Finish, WrapYaw,
              WrapPitchLoad, WrapPitch, refresh_visual_data
<1> QED
  BY <1>3, <1>4, <1>5, <1>6 DEF Next

LEMMA NextAsked == Types /\ Asked /\ [Next]_vars => Asked'
<1> SUFFICES ASSUME Types, Asked, [Next]_vars PROVE Asked'
  OBVIOUS
<1>1. /\ add \in [Axes -> Int] /\ "pitch" \in Axes /\ "yaw" \in Axes
      /\ rev \in [Axes -> [frame : 0 .. MaxFrames, d : Int]]
  BY DEF Types, SetOK, VisualOK, Axes
<1>2. CASE UNCHANGED <<add, rev>>
  BY <1>2 DEF Asked
<1>3. ASSUME NEW dy \in Adds["yaw"], NEW dp \in Adds["pitch"],
             AddYaw(dy, dp) \/ StickAdd(dy, dp)
      PROVE  Asked'
  <2>1. add'["pitch"] = dp /\ rev' = rev
    BY <1>1, <1>3 DEF AddYaw, StickAdd, visual, Axes
  <2> QED
    BY <2>1 DEF Asked
<1>4. ASSUME NEW dy \in Adds["yaw"], NEW dp \in Adds["pitch"], refresh_visual_data(dy, dp)
      PROVE  Asked'
  <2>1. rev'["pitch"].d = dp /\ add' = add
    BY <1>1, <1>4 DEF refresh_visual_data, main
  <2> QED
    BY <2>1 DEF Asked
<1>5. CASE AddPitch \/ SetPitch \/ SetYaw
  <2>1. (add'["pitch"] = 0 \/ add'["pitch"] = add["pitch"]) /\ rev' = rev
    BY <1>1, <1>5 DEF AddPitch, SetPitch, SetYaw, visual
  <2> QED
    BY <2>1 DEF Asked
<1>6. ASSUME NEW x \in Axes, LoadAdd(x) PROVE Asked'
  <2>1. (add'["pitch"] = add["pitch"] \/ add'["pitch"] = rev["pitch"].d) /\ rev' = rev
    BY <1>1, <1>6 DEF LoadAdd
  <2> QED
    BY <2>1 DEF Asked
<1>7. ASSUME NEW x \in Axes, ClearAdd(x) PROVE Asked'
  <2>1. (rev'["pitch"] = rev["pitch"] \/ rev'["pitch"].d = 0) /\ add' = add
    BY <1>1, <1>7 DEF ClearAdd, Consumed, NoFrame
  <2> QED
    BY <2>1 DEF Asked
<1>8. ASSUME \/ UNCHANGED vars \/ gimbal_contral_thread \/ AddPitchLoad \/ VisualAdd \/ Finish
             \/ \E x \in Axes : Turn(x) \/ SkipUsed(x) \/ CountUse(x)
      PROVE  UNCHANGED <<add, rev>>
  BY <1>8 DEF vars, main, visual, gimbal_contral_thread, AddPitchLoad, VisualAdd, Finish, WrapYaw,
              WrapPitchLoad, WrapPitch, Turn, SkipUsed, CountUse
<1> QED
  BY <1>2, <1>3, <1>4, <1>5, <1>6, <1>7, <1>8 DEF Next, gimbal_addangle_set, remote_ctrl

(* A number within the turn fits, and is what is left of it by the turn.    *)
LEMMA NoWrap == ASSUME NEW v \in Int, InOneTurn(v) PROVE v % Width = v /\ v % Lap = v
<1>1. 0 =< v /\ v < Lap /\ v < Width /\ Lap \in Nat /\ Width \in Nat
  BY GimbalAssumption DEF InOneTurn
<1> QED
  BY <1>1, SMT

(* The statements that change the pitch, and those that load it.            *)
LEMMA PitchSteps ==
  ASSUME PitchWithin, Types, Steady, Asked, PitchTrue,
         AddPitchLoad \/ AddPitch \/ SetPitch \/ WrapPitchLoad \/ WrapPitch
  PROVE  PitchTrue'
<1> DEFINE s == set["pitch"]  w == want["pitch"]  a == add["pitch"]  g == gyro["pitch"]
<1>1. /\ s \in Int /\ w \in Int /\ a \in Int /\ g \in Int /\ reg \in Int
      /\ "pitch" \in Axes /\ set \in [Axes -> Int] /\ want \in [Axes -> Int]
  BY GimbalAssumption DEF Types, SetOK, MotionOK, Axes
<1>2. \A v \in Int : Within(v) => InOneTurn(v + a) /\ v + a \in Int
  <2>1. a = 0 \/ (0 =< PitchMin + a /\ PitchMax + a < Lap)
    BY DEF Asked, PitchWithin
  <2> QED
    BY <1>1, <2>1, GimbalAssumption DEF Within, InOneTurn
<1>3. CASE AddPitchLoad
  <2>1. /\ pc = "addPitch" /\ pc' = "addPitch2" /\ reg' = s /\ UNCHANGED <<set, want>>
    BY <1>3 DEF AddPitchLoad
  <2> QED
    BY <2>1 DEF PitchTrue
<1>4. CASE AddPitch
  <2>1. /\ reg = s /\ s = w /\ Within(s) /\ pc' = "wrapYaw"
    BY <1>4 DEF AddPitch, PitchTrue
  <2>2. set'["pitch"] = (s + a) % Width /\ want'["pitch"] = w + a
    BY <1>1, <1>4, <2>1 DEF AddPitch
  <2>3. InOneTurn(s + a) /\ (s + a) % Width = s + a
    BY <1>1, <1>2, <2>1, NoWrap
  <2> QED
    BY <2>1, <2>2, <2>3 DEF PitchTrue
<1>5. CASE SetPitch
  <2>1. pc' = "setYaw"
    BY <1>5 DEF SetPitch
  <2>2. CASE a = 0
    BY <1>5, <2>1, <2>2 DEF SetPitch, PitchTrue
  <2>3. CASE a # 0
    <3>1. set'["pitch"] = (a + g) % Width /\ want'["pitch"] = a + g
      BY <1>1, <1>5, <2>3 DEF SetPitch
    <3>2. Within(g) /\ a + g = g + a /\ a + g \in Int
      BY <1>1 DEF Steady
    <3>3. InOneTurn(a + g) /\ (a + g) % Width = a + g
      BY <1>1, <1>2, <3>2, NoWrap
    <3> QED
      BY <2>1, <3>1, <3>3 DEF PitchTrue
  <2> QED
    BY <2>2, <2>3
<1>6. CASE WrapPitchLoad
  <2>1. /\ pc = "wrapPitch" /\ pc' = "wrapPitch2" /\ reg' = s /\ UNCHANGED <<set, want>>
    BY <1>6 DEF WrapPitchLoad
  <2> QED
    BY <2>1 DEF PitchTrue
<1>7. CASE WrapPitch
  <2>1. /\ InOneTurn(reg) /\ Clamp(reg) = Clamp(w) /\ pc' = "idle" /\ rested' = FALSE
        /\ set'["pitch"] = reg % Lap /\ want' = want
    BY <1>1, <1>7 DEF WrapPitch, PitchTrue, InTurn
  <2>2. reg % Lap = reg
    BY <1>1, <2>1, NoWrap
  <2> QED
    BY <2>1, <2>2 DEF PitchTrue
<1> QED
  BY <1>3, <1>4, <1>5, <1>6, <1>7

LEMMA NextPitch ==
  PitchWithin /\ Types /\ Steady /\ Asked /\ PitchTrue /\ [Next]_vars => PitchTrue'
<1> SUFFICES ASSUME PitchWithin, Types, Steady, Asked, PitchTrue, [Next]_vars PROVE PitchTrue'
  OBVIOUS
<1> DEFINE s == set["pitch"]  w == want["pitch"]
<1>1. /\ s \in Int /\ w \in Int /\ "pitch" \in Axes /\ "yaw" # "pitch"
      /\ set \in [Axes -> Int] /\ want \in [Axes -> Int]
  BY GimbalAssumption DEF Types, SetOK, Axes
<1>2. CASE gimbal_contral_thread
  <2>1. /\ set'["pitch"] = Clamp(s) /\ want'["pitch"] = Clamp(w) /\ UNCHANGED <<pc, reg>>
    BY <1>1, <1>2 DEF gimbal_contral_thread, main
  <2>2. Clamp(s) = Clamp(w) /\ Clamp(Clamp(w)) = Clamp(w) /\ InOneTurn(Clamp(s))
        /\ Within(Clamp(s)) /\ (Within(s) => Clamp(s) = s)
    BY <1>1, Clamped DEF PitchTrue
  <2> QED
    BY <2>1, <2>2 DEF PitchTrue
<1>3. ASSUME NEW dy \in Int, NEW dp \in Int, AddYaw(dy, dp) PROVE PitchTrue'
  <2>1. /\ pc = "idle" /\ rested /\ pc' = "addPitch"
        /\ set'["pitch"] = s /\ want'["pitch"] = w
    BY <1>1, <1>3 DEF AddYaw, Call
  <2> QED
    BY <2>1 DEF PitchTrue
<1>4. CASE \/ UNCHANGED vars \/ \E x \in Axes : Turn(x)
           \/ \E dy \in Adds["yaw"], dp \in Adds["pitch"] : refresh_visual_data(dy, dp)
  <2>1. UNCHANGED <<set, want, pc, reg, rested>>
    BY <1>4 DEF vars, main, Turn, refresh_visual_data
  <2> QED
    BY <2>1 DEF PitchTrue
<1>5. ASSUME \/ SetYaw \/ WrapYaw \/ VisualAdd
             \/ \E dy \in Adds["yaw"], dp \in Adds["pitch"] : StickAdd(dy, dp)
             \/ \E x \in Axes : SkipUsed(x) \/ CountUse(x) \/ LoadAdd(x) \/ ClearAdd(x)
      PROVE  PitchTrue'
  <2>1. set'["pitch"] = s /\ want'["pitch"] = w
    BY <1>1, <1>5 DEF SetYaw, WrapYaw, VisualAdd, StickAdd, SkipUsed, CountUse, LoadAdd, ClearAdd
  <2>2. pc' \notin {"idle", "addPitch", "addPitch2", "wrapPitch2"}
    BY <1>5 DEF SetYaw, WrapYaw, VisualAdd, StickAdd, SkipUsed, CountUse, LoadAdd, ClearAdd,
                After, LoadOf, ClearOf
  <2> QED
    BY <2>1, <2>2 DEF PitchTrue
<1>6. \A x \in Axes : Adds[x] \subseteq Int
  BY GimbalAssumption
<1>7. CASE \E dy \in Adds["yaw"], dp \in Adds["pitch"] : AddYaw(dy, dp)
  BY <1>3, <1>6, <1>7 DEF Axes
<1> QED
  BY <1>2, <1>4, <1>5, <1>7, PitchSteps DEF Next, gimbal_addangle_set, remote_ctrl, Finish

LEMMA NextHonesty == PitchWithin /\ Types /\ Honesty /\ [Next]_vars => Honesty'
BY NextYaw, NextSteady, NextAsked, NextPitch DEF Honesty

(* A pass that runs the angle loops.                                        *)
LEMMA PassHonest ==
  ASSUME Types, Honesty, [Next]_vars, AngleLoop
  PROVE  \A x \in Axes : (err'[x] - (want'[x] - gyro[x])) % Lap \in {0, 1}
<1>1. gimbal_contral_thread
  BY DEF AngleLoop, Next, vars, motion, main, visual, gimbal_addangle_set, remote_ctrl, Finish,
         AddYaw, AddPitchLoad, AddPitch, StickAdd, VisualAdd, SkipUsed, CountUse, LoadAdd,
         ClearAdd, SetPitch, SetYaw, WrapYaw, WrapPitchLoad, WrapPitch, Turn,
         refresh_visual_data
<1>2. \A x \in Axes : err'[x] = Error(set'[x], gyro[x])
  BY <1>1 DEF AngleLoop, gimbal_contral_thread
<1>3. /\ set \in [Axes -> Int] /\ want \in [Axes -> Int]
      /\ \A x \in Axes : gyro[x] \in Int
      /\ "pitch" \in Axes /\ "yaw" \in Axes /\ "yaw" # "pitch"
  BY GimbalAssumption DEF Types, SetOK, MotionOK, Axes
<1>4. set'["yaw"] = set["yaw"] /\ want'["yaw"] = want["yaw"]
      /\ set'["pitch"] = Clamp(set["pitch"]) /\ want'["pitch"] = Clamp(want["pitch"])
  BY <1>1, <1>3 DEF gimbal_contral_thread
<1>5. \A x \in Axes : set'[x] \in Int /\ want'[x] \in Int /\ Same(set'[x], want'[x])
  <2>1. Same(set["yaw"], want["yaw"]) /\ Clamp(set["pitch"]) = Clamp(want["pitch"])
    BY DEF Honesty, YawTrue, PitchTrue
  <2>2. Clamp(want["pitch"]) \in Int /\ Same(Clamp(want["pitch"]), Clamp(want["pitch"]))
    BY <1>3, Clamped, SameRemainder
  <2> QED
    BY <1>3, <1>4, <2>1, <2>2 DEF Axes
<1> QED
  BY <1>2, <1>3, <1>5, ErrorTrue

(* Wherever in a call the control thread runs (gimbal_contral_thread above  *)
(* gimbal_addangle_set and remote_ctrl), it drives both axes by the set     *)
(* points asked for so far, if the increments of the pitch do not take it   *)
(* out of the turn from where it may be.                                    *)
THEOREM HonestPass == PitchWithin => (Spec => Honest)
<1> SUFFICES ASSUME PitchWithin PROVE Spec => Honest
  OBVIOUS
<1>1. Types /\ Honesty /\ [Next]_vars =>
        [AngleLoop => \A x \in Axes : (err'[x] - (want'[x] - gyro[x])) % Lap \in {0, 1}]_vars
  BY PassHonest
<1> QED
  BY <1>1, InitTypes, NextTypes, InitHonesty, NextHonesty, PTL DEF Spec, Honest
==============================================================================
