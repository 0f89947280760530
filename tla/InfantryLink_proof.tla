-------------------------- MODULE InfantryLink_proof --------------------------
(* Proofs about the infantry's chassis command, for every limit, every set  *)
(* of speeds and any number of frames under way.                            *)
EXTENDS InfantryLink, TLAPS

(* The limit is reached and main() has stopped the chassis.                 *)
Resting == ctldata.use = Limit /\ motion_data = Still

(* usetime is at least the number of uses, and only falls behind the passes *)
(* by the one that a command interrupted; main() on its way to stop finds   *)
(* the limit reached or has been overtaken by a command.                    *)
Counts ==
  /\ uses =< ctldata.use
  /\ pc = "store_use" => reg < Limit /\ uses =< reg /\ silent =< reg + 1
  /\ pc \in UseSteps \ {"store_use"} => ctldata.use < Limit /\ silent =< ctldata.use + 1
  /\ pc = "test" => silent =< ctldata.use + 1 \/ Resting
  /\ pc \in StopSteps => \/ ctldata.use = 0 /\ silent = 0
                         \/ ctldata.use = Limit /\ silent =< Limit + 1
                         \/ Resting

(* How far main() has come with stopping.                                   *)
Stopping ==
  /\ pc \in {"stop_spin", "stop_speed"} => motion_data.mode = NO_FOLLOW
  /\ pc = "stop_speed" => motion_data.spin = 0

IInv == TypeOK /\ Counts /\ Stopping

USE DEF NO_FOLLOW, FOLLOW_GIMBAL

(* Commands have the fields, and the values in them, of the type.           *)
LEMMA CommandType ==
  \A f \in Commands : f.mode \in {NO_FOLLOW, FOLLOW_GIMBAL}
                      /\ f.spin \in {0, SpinRate} /\ f.speed \in Speeds
BY DEF Commands, Command

LEMMA InitInvariant == Init => IInv
BY LinkAssumption DEF Init, IInv, TypeOK, Counts, Stopping, UseSteps, StopSteps

(* The gimbal board and the cable touch no state of the chassis board.      *)
LEMMA GimbalStep == IInv /\ (gimbal_main \/ Disconnect) => IInv'
<1>. SUFFICES ASSUME IInv, gimbal_main \/ Disconnect PROVE IInv'
  OBVIOUS
<1>1. sport_mode' \in 0 .. 2 /\ link' \in BOOLEAN /\ bus' \in Seq(Commands)
  <2>1. CASE Disconnect
    BY <2>1 DEF Disconnect, IInv, TypeOK
  <2>2. ASSUME NEW moved \in BOOLEAN, NEW sent \in BOOLEAN, NEW v \in Speeds,
               remote_ctrl(moved, v, sent)
        PROVE  sport_mode' \in 0 .. 2 /\ link' \in BOOLEAN /\ bus' \in Seq(Commands)
    <3>1. sport_mode' \in 0 .. 2 /\ link' \in BOOLEAN
      BY <2>2 DEF remote_ctrl, NextMode, IInv, TypeOK
    <3>2. Command(sport_mode', v) \in Commands
      BY <3>1 DEF Commands
    <3>3. bus' = bus \/ bus' = Append(bus, Command(sport_mode', v))
      BY <2>2 DEF remote_ctrl
    <3>4. bus \in Seq(Commands)
      BY DEF IInv, TypeOK
    <3>. QED
      BY <3>1, <3>2, <3>3, <3>4
  <2>. QED
    BY <2>1, <2>2 DEF gimbal_main
<1>2. UNCHANGED <<ctldata, motion_data, wheels, main, history>>
  BY DEF gimbal_main, remote_ctrl, Disconnect
<1>. QED
  BY <1>1, <1>2 DEF IInv, TypeOK, Counts, Stopping, Resting, main, history

(* A command starts the counts again, wherever main() stands.               *)
LEMMA RefreshStep == IInv /\ refresh_ctldata => IInv'
<1>. SUFFICES ASSUME IInv, refresh_ctldata PROVE IInv'
  OBVIOUS
<1>. DEFINE f == Head(bus)
<1>1. f \in Commands /\ bus' \in Seq(Commands)
  BY DEF refresh_ctldata, IInv, TypeOK
<1>2. /\ ctldata' \in [mode : {NO_FOLLOW, FOLLOW_GIMBAL}, spin : {0, SpinRate},
                       speed : Speeds \cup {0}, use : 0 .. Limit]
      /\ ctldata'.use = 0
  <2>1. f.mode \in {NO_FOLLOW, FOLLOW_GIMBAL} /\ f.spin \in {0, SpinRate} /\ f.speed \in Speeds
    BY <1>1, CommandType
  <2>2. ctldata' = Refreshed(f)
    BY DEF refresh_ctldata
  <2>3. ctldata \in [mode : {NO_FOLLOW, FOLLOW_GIMBAL}, spin : {0, SpinRate},
                    speed : Speeds \cup {0}, use : 0 .. Limit]
    BY DEF IInv, TypeOK
  <2>. HIDE DEF f
  <2>4. CASE f.mode = NO_FOLLOW
    <3>1. ctldata' = [mode |-> f.mode, spin |-> f.spin, speed |-> f.speed, use |-> 0]
      BY <2>2, <2>3, <2>4 DEF Refreshed
    <3>. QED
      BY <2>1, <3>1, LinkAssumption
  <2>5. CASE f.mode # NO_FOLLOW
    <3>1. ctldata' = [mode |-> f.mode, spin |-> ctldata.spin, speed |-> f.speed, use |-> 0]
      BY <2>2, <2>3, <2>5 DEF Refreshed
    <3>. QED
      BY <2>1, <2>3, <3>1, LinkAssumption
  <2>. QED
    BY <2>4, <2>5
<1>3. uses' = 0 /\ silent' = 0 /\ UNCHANGED <<sport_mode, link, motion_data, wheels, pc, arg, reg>>
  BY DEF refresh_ctldata, gimbal, main
<1>. HIDE DEF f
<1>4. TypeOK'
  BY <1>1, <1>2, <1>3 DEF IInv, TypeOK
<1>5. Counts' /\ Stopping'
  BY <1>2, <1>3, LinkAssumption DEF IInv, TypeOK, Counts, Stopping
<1>. QED
  BY <1>4, <1>5 DEF IInv

LEMMA WheelStep == IInv /\ chassis_control => IInv'
<1>. SUFFICES ASSUME IInv, chassis_control PROVE IInv'
  OBVIOUS
<1>1. wheels' \in [follow : BOOLEAN, spin : {0, SpinRate}, speed : Speeds \cup {0}]
  BY DEF chassis_control, Driven, IInv, TypeOK
<1>2. UNCHANGED <<sport_mode, link, bus, ctldata, motion_data, pc, arg, reg, uses, silent>>
  BY DEF chassis_control, gimbal, main, history
<1>. QED
  BY <1>1, <1>2 DEF IInv, TypeOK, Counts, Stopping, Resting

(* The passes of main() that use the command.                               *)
LEMMA UseStep ==
  IInv /\ (SetMode \/ LoadSpin \/ LoadSpeed \/ SetSpin \/ SetSpeed \/ LoadUse) => IInv'
<1>. SUFFICES ASSUME IInv,
                     SetMode \/ LoadSpin \/ LoadSpeed \/ SetSpin \/ SetSpeed \/ LoadUse
              PROVE  IInv'
  OBVIOUS
<1>. USE DEF Step, gimbal, history
<1>1. TypeOK'
  BY DEF IInv, TypeOK, SetMode, LoadSpin, LoadSpeed, SetSpin, SetSpeed, LoadUse, UseSteps
<1>2. Counts'
  BY DEF IInv, TypeOK, Counts, SetMode, LoadSpin, LoadSpeed, SetSpin, SetSpeed, LoadUse,
         UseSteps, StopSteps
<1>3. Stopping'
  BY DEF Stopping, SetMode, LoadSpin, LoadSpeed, SetSpin, SetSpeed, LoadUse
<1>. QED
  BY <1>1, <1>2, <1>3 DEF IInv

LEMMA TestStep == IInv /\ Test => IInv'
<1>. SUFFICES ASSUME IInv, Test PROVE IInv'
  OBVIOUS
<1>. USE DEF Step, gimbal, history
<1>1. TypeOK'
  BY DEF IInv, TypeOK, Test, UseSteps, StopSteps
<1>2. Counts'
  BY LinkAssumption DEF IInv, TypeOK, Counts, Test, Usable, Resting, UseSteps, StopSteps
<1>3. Stopping'
  BY DEF Stopping, Test
<1>. QED
  BY <1>1, <1>2, <1>3 DEF IInv

LEMMA StoreStep == IInv /\ StoreUse => IInv'
<1>. SUFFICES ASSUME IInv, StoreUse PROVE IInv'
  OBVIOUS
<1>1. /\ pc = "store_use" /\ pc' = "test" /\ reg' = 0
      /\ UNCHANGED <<sport_mode, link, bus, motion_data, wheels, arg>>
      /\ ctldata' = [ctldata EXCEPT !.use = reg + 1]
      /\ uses' = IF uses =< Limit THEN uses + 1 ELSE uses
      /\ silent' = IF silent < Limit + 2 THEN silent + 1 ELSE silent
  BY DEF StoreUse, Step, PassEnds, Incremented, gimbal
<1>2. reg \in Nat /\ reg < Limit /\ uses \in Nat /\ uses =< reg /\ silent \in Nat /\ silent =< reg + 1
  BY <1>1 DEF IInv, TypeOK, Counts
<1>3. uses' \in Nat /\ uses' =< reg + 1 /\ silent' \in Nat /\ silent' =< reg + 2
  BY <1>1, <1>2, LinkAssumption
<1>4. /\ ctldata' \in [mode : {NO_FOLLOW, FOLLOW_GIMBAL}, spin : {0, SpinRate},
                       speed : Speeds \cup {0}, use : 0 .. Limit]
      /\ ctldata'.use = reg + 1
  <2>1. ctldata \in [mode : {NO_FOLLOW, FOLLOW_GIMBAL}, spin : {0, SpinRate},
                    speed : Speeds \cup {0}, use : 0 .. Limit]
    BY DEF IInv, TypeOK
  <2>2. ctldata' = [mode |-> ctldata.mode, spin |-> ctldata.spin,
                    speed |-> ctldata.speed, use |-> reg + 1]
    BY <1>1, <2>1
  <2>3. reg + 1 \in 0 .. Limit
    BY <1>2, LinkAssumption
  <2>. QED
    BY <2>1, <2>2, <2>3
<1>5. TypeOK'
  BY <1>1, <1>3, <1>4, LinkAssumption DEF IInv, TypeOK
<1>6. Counts'
  BY <1>1, <1>2, <1>3, <1>4, LinkAssumption DEF Counts, UseSteps, StopSteps
<1>7. Stopping'
  BY <1>1 DEF Stopping
<1>. QED
  BY <1>5, <1>6, <1>7 DEF IInv

(* The passes of main() that stop the chassis.                              *)
LEMMA StopStep == IInv /\ (StopMode \/ StopSpin) => IInv'
<1>. SUFFICES ASSUME IInv, StopMode \/ StopSpin PROVE IInv'
  OBVIOUS
<1>. USE DEF Step, gimbal, history
<1>1. TypeOK'
  BY DEF IInv, TypeOK, StopMode, StopSpin, StopSteps
<1>2. Resting => motion_data' = motion_data
  BY DEF Resting, Still, StopMode, StopSpin
<1>3. Counts'
  BY <1>2 DEF IInv, Counts, StopMode, StopSpin, Resting, UseSteps, StopSteps
<1>4. Stopping'
  BY DEF IInv, TypeOK, Stopping, StopMode, StopSpin
<1>. QED
  BY <1>1, <1>3, <1>4 DEF IInv

LEMMA StoppedStep == IInv /\ StopSpeed => IInv'
<1>. SUFFICES ASSUME IInv, StopSpeed PROVE IInv'
  OBVIOUS
<1>1. /\ pc = "stop_speed" /\ pc' = "test"
      /\ UNCHANGED <<sport_mode, link, bus, ctldata, wheels, arg, reg, uses>>
      /\ motion_data' = [motion_data EXCEPT !.speed = 0]
      /\ silent' = IF silent < Limit + 2 THEN silent + 1 ELSE silent
  BY DEF StopSpeed, Step, PassEnds, gimbal
<1>2. motion_data' = Still
  BY <1>1 DEF IInv, TypeOK, Stopping, Still
<1>3. TypeOK'
  <2>1. Still \in [mode : {NO_FOLLOW, FOLLOW_GIMBAL}, spin : {0, SpinRate},
                  speed : Speeds \cup {0}]
    BY DEF Still
  <2>2. silent' \in Nat
    BY <1>1, LinkAssumption DEF IInv, TypeOK
  <2>. QED
    BY <1>1, <1>2, <2>1, <2>2 DEF IInv, TypeOK
<1>4. Counts'
  BY <1>1, <1>2, LinkAssumption DEF IInv, TypeOK, Counts, Resting, UseSteps, StopSteps
<1>. QED
  BY <1>1, <1>3, <1>4 DEF IInv, Stopping

LEMMA Invariant == Spec => []IInv
<1>1. Init => IInv
  BY InitInvariant
<1>2. IInv /\ [Next]_vars => IInv'
  <2>1. IInv /\ UNCHANGED vars => IInv'
    BY DEF vars, IInv, TypeOK, Counts, Stopping, Resting
  <2>. QED
    BY <2>1, GimbalStep, RefreshStep, WheelStep, UseStep, TestStep, StoreStep, StopStep,
       StoppedStep DEF Next, chassis_main
<1>. QED
  BY <1>1, <1>2, PTL DEF Spec

(* usetime never passes the limit, and nothing leaves its type.             *)
THEOREM TypeCorrect == Spec => []TypeOK
<1>1. IInv => TypeOK
  BY DEF IInv
<1>. QED
  BY <1>1, Invariant, PTL

(* No command is used more often than the limit of main() says, whatever    *)
(* the receive thread writes between its load and its store of usetime.     *)
THEOREM LimitedUse == Spec => []UseLimited
<1>1. IInv => UseLimited
  BY LinkAssumption DEF IInv, TypeOK, Counts, UseLimited
<1>. QED
  BY <1>1, Invariant, PTL

(* After Limit + 2 passes of main() without a command the chassis is asked  *)
(* to stand still, wherever the last command interrupted it.                *)
THEOREM StopInTime == Spec => []StopsInTime
<1>1. IInv => StopsInTime
  BY LinkAssumption DEF IInv, TypeOK, Counts, StopsInTime, Resting, UseSteps, StopSteps
<1>. QED
  BY <1>1, Invariant, PTL
==============================================================================
