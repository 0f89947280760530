----------------------------- MODULE Remote_proof -----------------------------
(* Proofs about the latches of the remote control, for any keys and any     *)
(* calls of the control loop.                                               *)
EXTENDS Remote, TLAPS

Calls(f, x) == Call.fn = f /\ Call.on = x

(* A latched switch is where its latch says.                                *)
LatchTells ==
  \A sw \in Switch : /\ remote_s_data[sw] = 1 => s[sw] # Middle
                     /\ remote_s_data[sw] = 2 => s[sw] = Middle

(* What is latched has moved, unless it has just been reported.             *)
LatchMoved ==
  /\ \A sw \in Switch :
       /\ remote_s_data[sw] = 1 /\ ~(pc = "clear" /\ Calls("from_middle", sw))
            => <<sw, 1>> \in moved
       /\ remote_s_data[sw] = 2 /\ ~(pc = "clear" /\ Calls("to_middle", sw))
            => <<sw, 2>> \in moved
  /\ \A k \in key_change : ~(pc \in {"clear", "store"} /\ Calls("key", k))
                             => <<k, 0>> \in moved

(* What a call knows once it has found its latch set.                       *)
Within ==
  /\ pc \in {"first", "second"} =>
       /\ \A sw \in Switch :
            /\ Calls("from_middle", sw) => remote_s_data[sw] = 1 \/ s[sw] = Middle
            /\ Calls("to_middle", sw) => <<sw, 2>> \in moved
       /\ \A k \in Key : Calls("key", k) => k \in key_change
  /\ pc = "store" /\ Call.fn = "key" => reg \subseteq key_change
  /\ pc \in {"load", "store"} => Call.fn # "from_middle"
  /\ pc = "load" => Call.fn = "to_middle"

IInv == TypeOK /\ LatchTells /\ LatchMoved /\ Within

USE DEF Up, Down, Middle, Position

LEMMA CallType == TypeOK => Call \in Reading
BY RemoteAssumption DEF TypeOK, Call

LEMMA FnType ==
  ASSUME TypeOK
  PROVE  /\ Call.fn \in {"from_middle", "to_middle", "key"}
         /\ Call.fn # "key" => Call.on \in Switch
         /\ Call.fn = "key" => Call.on \in Key
BY CallType DEF Reading

LEMMA InitInvariant == Init => IInv
BY RemoteAssumption DEF Init, IInv, TypeOK, LatchTells, LatchMoved, Within, Movements, Switch

(* A frame, wherever the control loop stands.                               *)
LEMMA FrameStep ==
  ASSUME IInv, NEW p \in [Switch -> Position], NEW k \in SUBSET Key,
         serial_thread_entry(p, k)
  PROVE  IInv'
<1>1. /\ s' = p /\ v' = k /\ UNCHANGED <<at, pc, reg>>
      /\ remote_s_data' = [sw \in Switch |-> Latched(sw, p)]
      /\ temp_s_data' \in {s, temp_s_data}
      /\ key_change' = key_change \cup KeyActions(k)
  BY DEF serial_thread_entry
<1>2. KeyActions(k) \subseteq Key
  BY DEF KeyActions, IInv, TypeOK
<1>3. /\ \A sw \in Switch : <<sw, 1>> \in moved' <=> \/ <<sw, 1>> \in moved /\ ~ToMiddle(sw, p)
                                                     \/ FromMiddle(sw, p)
      /\ \A sw \in Switch : <<sw, 2>> \in moved' <=> <<sw, 2>> \in moved \/ ToMiddle(sw, p)
      /\ \A x \in Key : <<x, 0>> \in moved' <=> <<x, 0>> \in moved \/ x \in KeyActions(k)
  BY DEF serial_thread_entry, FromMiddle, ToMiddle, IInv, TypeOK
<1>4. moved' \subseteq Movements
  BY <1>2 DEF serial_thread_entry, Movements, IInv, TypeOK
<1>5. \A sw \in Switch :
        /\ FromMiddle(sw, p) => remote_s_data'[sw] = 1
        /\ ToMiddle(sw, p) => remote_s_data'[sw] = 2
        /\ ~FromMiddle(sw, p) /\ ~ToMiddle(sw, p) => remote_s_data'[sw] = remote_s_data[sw]
  BY <1>1 DEF Latched, FromMiddle, ToMiddle
<1>6. TypeOK'
  <2>1. remote_s_data' \in [Switch -> 0 .. 2]
    BY <1>1 DEF Latched, IInv, TypeOK
  <2>2. temp_s_data' \in [Switch -> 0 .. 3]
    BY <1>1 DEF IInv, TypeOK
  <2>3. came' \in 0 .. Burst
    BY RemoteAssumption DEF serial_thread_entry, IInv, TypeOK
  <2>. QED
    BY <1>1, <1>2, <1>4, <2>1, <2>2, <2>3 DEF IInv, TypeOK
<1>7. LatchTells'
  BY <1>1, <1>5 DEF FromMiddle, ToMiddle, IInv, TypeOK, LatchTells
<1>8. Call' = Call
  BY <1>1 DEF Call
<1>9. LatchMoved'
  <2>1. \A sw \in Switch :
          /\ remote_s_data'[sw] = 1 /\ ~(pc = "clear" /\ Calls("from_middle", sw))
               => <<sw, 1>> \in moved'
          /\ remote_s_data'[sw] = 2 /\ ~(pc = "clear" /\ Calls("to_middle", sw))
               => <<sw, 2>> \in moved'
    BY <1>3, <1>5 DEF IInv, LatchMoved
  <2>2. \A x \in key_change' : ~(pc \in {"clear", "store"} /\ Calls("key", x))
                                 => <<x, 0>> \in moved'
    BY <1>1, <1>2, <1>3 DEF IInv, LatchMoved, TypeOK
  <2>. QED
    BY <1>1, <1>8, <2>1, <2>2 DEF LatchMoved, Calls
<1>10. Within'
  <2>1. \A sw \in Switch : remote_s_data[sw] = 1 \/ s[sw] = Middle
                             => remote_s_data'[sw] = 1 \/ p[sw] = Middle
    BY <1>5 DEF FromMiddle, ToMiddle
  <2>. QED
    BY <1>1, <1>3, <1>8, <2>1 DEF IInv, Within, Calls
<1>. QED
  BY <1>6, <1>7, <1>9, <1>10 DEF IInv

(* The end of a call.                                                       *)
LEMMA Returned ==
  ASSUME TypeOK, Return
  PROVE  at' \in 1 .. Len(Script) /\ pc' = "latch" /\ reg' = {} /\ came' \in 0 .. Burst
BY RemoteAssumption DEF Return, TypeOK

(* The three tests, which change nothing but what counts as reported.       *)
LEMMA TestStep == IInv /\ (TestLatch \/ TestFirst \/ TestSecond) => IInv'
<1>. SUFFICES ASSUME IInv, TestLatch \/ TestFirst \/ TestSecond PROVE IInv'
  OBVIOUS
<1>1. UNCHANGED <<s, v, remote_s_data, temp_s_data, key_change>>
  BY DEF TestLatch, TestFirst, TestSecond, Ask, latches
<1>2. \/ Return
      \/ UNCHANGED <<at, reg, came>> /\ pc' \in {"first", "second", "clear"}
  BY DEF TestLatch, TestFirst, TestSecond, Ask
<1>3. moved' = moved \/ (pc' = "clear" /\ moved' = moved \ {Subject(Call)})
  BY DEF TestLatch, TestFirst, TestSecond, Ask, Reported
<1>4. TypeOK'
  BY <1>1, <1>2, <1>3, Returned DEF IInv, TypeOK
<1>5. LatchTells'
  BY <1>1 DEF IInv, LatchTells
<1>6. CASE Return
  <2>1. pc' = "latch" /\ moved' = moved
    BY <1>3, <1>6 DEF Return
  <2>2. pc \in {"latch", "first", "second"}
    BY DEF TestLatch, TestFirst, TestSecond, Ask
  <2>. QED
    BY <1>1, <1>4, <1>5, <2>1, <2>2 DEF IInv, LatchMoved, Within
<1>7. CASE UNCHANGED <<at, reg, came>> /\ pc' \in {"first", "second"}
  <2>1. moved' = moved /\ Call' = Call
    BY <1>3, <1>7 DEF Call
  <2>2. pc \in {"first", "second"} \/ (pc = "latch" /\ Pending(Call))
    BY <1>7 DEF TestLatch, TestFirst, TestSecond, Ask, Return
  <2>3. LatchMoved'
    BY <1>1, <1>7, <2>1, <2>2 DEF IInv, LatchMoved, Calls
  <2>4. Within'
    BY <1>1, <1>7, <2>1, <2>2, FnType DEF IInv, Within, LatchMoved, Calls, Pending
  <2>. QED
    BY <1>4, <1>5, <2>3, <2>4 DEF IInv
<1>8. CASE UNCHANGED <<at, reg, came>> /\ pc' = "clear"
  <2>1. moved' = moved \ {Subject(Call)} /\ Call' = Call /\ pc \in {"first", "second"}
    BY <1>8 DEF TestLatch, TestFirst, TestSecond, Ask, Reported, Call, Return
  <2>2. LatchMoved'
    <3>1. /\ \A sw \in Switch : ~Calls("from_middle", sw) => Subject(Call) # <<sw, 1>>
          /\ \A sw \in Switch : ~Calls("to_middle", sw) => Subject(Call) # <<sw, 2>>
          /\ \A k \in Key : ~Calls("key", k) => Subject(Call) # <<k, 0>>
      BY FnType DEF Subject, Calls, IInv
    <3>. QED
      BY <1>1, <1>8, <2>1, <3>1 DEF IInv, TypeOK, LatchMoved, Calls
  <2>3. Within'
    BY <1>8 DEF Within
  <2>. QED
    BY <1>4, <1>5, <2>2, <2>3 DEF IInv
<1>. QED
  BY <1>2, <1>6, <1>7, <1>8

(* The latch of a switch is cleared once its movement has been reported.    *)
LEMMA ClearSwitchStep == IInv /\ ClearSwitch => IInv'
<1>. SUFFICES ASSUME IInv, ClearSwitch PROVE IInv'
  OBVIOUS
<1>1. /\ pc = "clear" /\ Call.fn # "key" /\ Call.on \in Switch
      /\ remote_s_data' = [remote_s_data EXCEPT ![Call.on] = 0]
      /\ UNCHANGED <<s, v, temp_s_data, key_change, moved>>
  BY FnType DEF ClearSwitch, Cleared, IInv
<1>2. \/ Return
      \/ pc' = "load" /\ Call.fn = "to_middle" /\ UNCHANGED <<at, reg, came>>
  BY FnType DEF ClearSwitch, IInv
<1>3. /\ remote_s_data'[Call.on] = 0
      /\ \A sw \in Switch \ {Call.on} : remote_s_data'[sw] = remote_s_data[sw]
      /\ remote_s_data' \in [Switch -> 0 .. 2]
  BY <1>1 DEF IInv, TypeOK
<1>4. TypeOK'
  BY <1>1, <1>2, <1>3, Returned DEF IInv, TypeOK
<1>5. LatchTells'
  BY <1>1, <1>3 DEF IInv, LatchTells
<1>6. LatchMoved'
  <2>1. \A sw \in Switch : /\ remote_s_data'[sw] = 1 => <<sw, 1>> \in moved
                           /\ remote_s_data'[sw] = 2 => <<sw, 2>> \in moved
    <3>1. \A sw \in Switch \ {Call.on} :
            /\ remote_s_data[sw] = 1 => <<sw, 1>> \in moved
            /\ remote_s_data[sw] = 2 => <<sw, 2>> \in moved
      BY DEF IInv, LatchMoved, Calls
    <3>. TAKE sw \in Switch
    <3>2. CASE sw = Call.on
      <4>1. remote_s_data'[sw] = 0
        BY <1>3, <3>2
      <4>. QED
        BY <4>1
    <3>3. CASE sw # Call.on
      BY <1>3, <3>1, <3>3
    <3>. QED
      BY <3>2, <3>3
  <2>2. \A k \in key_change : <<k, 0>> \in moved
    BY <1>1 DEF IInv, LatchMoved, Calls
  <2>. QED
    BY <1>1, <2>1, <2>2 DEF LatchMoved
<1>7. Within'
  <2>1. CASE Return
    BY <2>1 DEF Return, Within
  <2>2. CASE pc' = "load" /\ Call.fn = "to_middle" /\ UNCHANGED <<at, reg, came>>
    BY <2>2 DEF Within, Call
  <2>. QED
    BY <1>2, <2>1, <2>2
<1>. QED
  BY <1>4, <1>5, <1>6, <1>7 DEF IInv

(* The two loads, which move nothing but the register and the step.         *)
LEMMA LoadStep == IInv /\ (LoadTemp \/ LoadKeys) => IInv'
<1>. SUFFICES ASSUME IInv, LoadTemp \/ LoadKeys PROVE IInv'
  OBVIOUS
<1>1. UNCHANGED <<s, v, remote_s_data, temp_s_data, key_change, at, moved, came>>
  BY DEF LoadTemp, LoadKeys, latches
<1>2. pc' = "store" /\ Call' = Call
  BY <1>1 DEF LoadTemp, LoadKeys, Call
<1>3. \/ pc = "load" /\ Call.fn = "to_middle" /\ reg' \subseteq {Call.on}
      \/ pc = "clear" /\ Call.fn = "key" /\ reg' = key_change
  BY DEF LoadTemp, LoadKeys
<1>4. reg' \subseteq Key \cup Switch
  BY <1>3, FnType DEF IInv, TypeOK
<1>5. TypeOK' /\ LatchTells'
  BY <1>1, <1>2, <1>4 DEF IInv, TypeOK, LatchTells
<1>6. LatchMoved'
  BY <1>1, <1>2, <1>3 DEF IInv, LatchMoved, Calls
<1>7. Within'
  BY <1>1, <1>2, <1>3 DEF Within
<1>. QED
  BY <1>5, <1>6, <1>7 DEF IInv

(* The two stores.  A key's bit may be missing although it has an action,   *)
(* never the other way round: what is stored is a part of what was loaded,  *)
(* and bits are only added in between.                                      *)
LEMMA StoreStep == IInv /\ (MaskTemp \/ StoreKeys) => IInv'
<1>. SUFFICES ASSUME IInv, MaskTemp \/ StoreKeys PROVE IInv'
  OBVIOUS
<1>1. UNCHANGED <<s, v, remote_s_data, moved>> /\ Return /\ pc = "store"
  BY DEF MaskTemp, StoreKeys
<1>2. \/ Call.fn = "to_middle" /\ key_change' = key_change
      \/ Call.fn = "key" /\ key_change' = reg \ {Call.on} /\ reg \subseteq key_change
  BY <1>1 DEF MaskTemp, StoreKeys, IInv, Within
<1>3. temp_s_data' \in [Switch -> 0 .. 3]
  BY DEF MaskTemp, StoreKeys, IInv, TypeOK
<1>4. TypeOK' /\ LatchTells'
  BY <1>1, <1>2, <1>3, Returned DEF IInv, TypeOK, LatchTells
<1>5. LatchMoved'
  <2>1. pc' = "latch"
    BY <1>1 DEF Return
  <2>2. \A k \in key_change' : k \in key_change /\ ~Calls("key", k)
    BY <1>2 DEF Calls
  <2>. QED
    BY <1>1, <2>1, <2>2 DEF IInv, LatchMoved
<1>6. Within'
  BY <1>1 DEF Return, Within
<1>. QED
  BY <1>4, <1>5, <1>6 DEF IInv

(* IInv is an invariant.                                                    *)
THEOREM Invariant == Spec => []IInv
<1>1. IInv /\ [Next]_vars => IInv'
  <2>. SUFFICES ASSUME IInv, [Next]_vars PROVE IInv'
    OBVIOUS
  <2>1. CASE \E p \in [Switch -> Position], k \in SUBSET Key : serial_thread_entry(p, k)
    BY <2>1, FrameStep
  <2>2. CASE control_loop
    BY <2>2, TestStep, ClearSwitchStep, LoadStep, StoreStep DEF control_loop
  <2>3. CASE UNCHANGED vars
    <3>1. UNCHANGED <<s, v, remote_s_data, temp_s_data, key_change, at, pc, reg, moved, came>>
      BY <2>3 DEF vars
    <3>2. Call' = Call
      BY <3>1 DEF Call
    <3>. QED
      BY <3>1, <3>2 DEF IInv, TypeOK, LatchTells, LatchMoved, Within, Calls
  <2>. QED
    BY <2>1, <2>2, <2>3 DEF Next
<1>. QED
  BY InitInvariant, <1>1, PTL DEF Spec

(* TypeOK, for any keys and any calls: a latch never leaves its type.       *)
THEOREM TypeCorrect == Spec => []TypeOK
<1>1. IInv => TypeOK
  BY DEF IInv
<1>. QED
  BY <1>1, Invariant, PTL

(* Every report is of a movement that has been made and not been reported,  *)
(* whatever the serial thread does between the accesses of a call.          *)
THEOREM Genuine == Spec => NoPhantom
<1>1. IInv /\ [Next]_vars => [(pc # "clear" /\ pc' = "clear") => Subject(Call) \in moved]_vars
  <2>. SUFFICES ASSUME IInv, Next, pc # "clear", pc' = "clear" PROVE Subject(Call) \in moved
    OBVIOUS
  <2>1. \/ pc = "first" /\ First(Call)
        \/ pc = "second" /\ Second(Call)
    BY DEF Next, serial_thread_entry, control_loop, TestLatch, TestFirst, TestSecond, Ask,
           Return, ClearSwitch, LoadTemp, MaskTemp, LoadKeys, StoreKeys
  <2>2. CASE Call.fn = "from_middle"
    <3>1. Call.on \in Switch /\ s[Call.on] # Middle
      BY <2>1, <2>2, FnType DEF First, Second, IInv
    <3>2. remote_s_data[Call.on] = 1
      BY <2>1, <2>2, <3>1 DEF IInv, Within, Calls
    <3>. QED
      BY <2>2, <3>1, <3>2 DEF IInv, LatchMoved, Calls, Subject
  <2>3. CASE Call.fn = "to_middle"
    BY <2>1, <2>3, FnType DEF IInv, Within, Calls, Subject
  <2>4. CASE Call.fn = "key"
    BY <2>1, <2>4, FnType DEF IInv, Within, LatchMoved, Calls, Subject
  <2>. QED
    BY <2>2, <2>3, <2>4, FnType DEF IInv
<1>. QED
  BY <1>1, Invariant, PTL DEF Spec, NoPhantom

------------------------------------------------------------------------------
(* A movement of a switch out of the middle stays latched until it is       *)
(* reported or taken back.                                                  *)
FromMiddleKept ==
  \A sw \in Switch :
    (OnlyFromMiddle(sw) /\ <<sw, 1>> \in moved) => remote_s_data[sw] = 1

(* FromMiddleKept is inductive together with what holds between a report    *)
(* and the clearing of its latch: the movement reported is no longer owed,  *)
(* and the switch is still out of the middle unless a frame came, which     *)
(* then was the last that can come during the call.                         *)
Told(sw) ==
  pc = "clear" /\ Calls("from_middle", sw)
    => <<sw, 1>> \notin moved /\ (s[sw] = Middle => came >= Burst)

Kept == FromMiddleKept /\ \A sw \in Switch : OnlyFromMiddle(sw) => Told(sw)

LEMMA KeptFrame ==
  ASSUME Burst =< 1, IInv, Kept, NEW p \in [Switch -> Position], NEW k \in SUBSET Key,
         serial_thread_entry(p, k)
  PROVE  Kept'
<1>1. /\ s' = p /\ UNCHANGED <<at, pc>>
      /\ remote_s_data' = [sw \in Switch |-> Latched(sw, p)]
  BY DEF serial_thread_entry
<1>2. \A sw \in Switch : <<sw, 1>> \in moved' => \/ <<sw, 1>> \in moved /\ ~ToMiddle(sw, p)
                                                 \/ FromMiddle(sw, p)
  BY DEF serial_thread_entry, FromMiddle, ToMiddle, IInv, TypeOK
<1>3. FromMiddleKept'
  BY <1>1, <1>2 DEF Kept, FromMiddleKept, OnlyFromMiddle, Latched, FromMiddle, ToMiddle
<1>4. ASSUME NEW sw \in Switch, OnlyFromMiddle(sw), pc = "clear", Calls("from_middle", sw)
      PROVE  <<sw, 1>> \notin moved' /\ came' >= Burst
  <2>1. came < Burst /\ came' = came + 1
    BY <1>4 DEF serial_thread_entry
  <2>2. came' >= Burst /\ ~(came >= Burst)
    BY <2>1, RemoteAssumption DEF IInv, TypeOK
  <2>3. <<sw, 1>> \notin moved /\ s[sw] # Middle
    BY <1>4, <2>2 DEF Kept, Told
  <2>. QED
    BY <1>2, <2>2, <2>3 DEF FromMiddle
<1>5. Call' = Call
  BY <1>1 DEF Call
<1>. QED
  BY <1>1, <1>3, <1>4, <1>5 DEF Kept, Told, OnlyFromMiddle, Calls

LEMMA KeptLoop == IInv /\ Kept /\ control_loop => Kept'
<1>. SUFFICES ASSUME IInv, Kept, control_loop PROVE Kept'
  OBVIOUS
<1>1. CASE TestLatch \/ TestFirst \/ TestSecond
  <2>1. UNCHANGED <<s, remote_s_data>> /\ moved' \subseteq moved
    BY <1>1 DEF TestLatch, TestFirst, TestSecond, Ask, Reported, latches
  <2>2. FromMiddleKept'
    BY <2>1 DEF Kept, FromMiddleKept, OnlyFromMiddle
  <2>3. ASSUME NEW sw \in Switch, pc' = "clear", Calls("from_middle", sw)'
        PROVE  <<sw, 1>> \notin moved' /\ s'[sw] # Middle
    <3>1. /\ moved' = moved \ {Subject(Call)} /\ UNCHANGED at
          /\ \/ First(Call)
             \/ Second(Call)
      BY <1>1, <2>3 DEF TestLatch, TestFirst, TestSecond, Ask, Reported, Return
    <3>2. Calls("from_middle", sw)
      BY <2>3, <3>1 DEF Calls, Call
    <3>. QED
      BY <2>1, <3>1, <3>2 DEF Calls, First, Second, Subject
  <2>. QED
    BY <2>2, <2>3 DEF Kept, Told
<1>2. CASE ClearSwitch
  <2>1. /\ pc = "clear" /\ pc' # "clear" /\ moved' = moved
        /\ remote_s_data' = [remote_s_data EXCEPT ![Call.on] = 0]
    BY <1>2 DEF ClearSwitch, Cleared, Return
  <2>2. ASSUME NEW sw \in Switch, OnlyFromMiddle(sw), <<sw, 1>> \in moved
        PROVE  sw # Call.on
    <3>1. CASE Call.fn = "from_middle"
      BY <2>1, <2>2, <3>1 DEF Kept, Told, Calls
    <3>2. CASE Call.fn = "to_middle"
      <4>1. Call = [fn |-> "to_middle", on |-> Call.on]
        BY <3>2, CallType DEF IInv, Reading
      <4>2. at \in 1 .. Len(Script)
        BY DEF IInv, TypeOK
      <4>. QED
        BY <2>2, <4>1, <4>2 DEF OnlyFromMiddle, Call
    <3>. QED
      BY <1>2, <3>1, <3>2, FnType DEF ClearSwitch, IInv
  <2>3. FromMiddleKept'
    BY <2>1, <2>2 DEF Kept, FromMiddleKept, OnlyFromMiddle, IInv, TypeOK
  <2>. QED
    BY <2>1, <2>3 DEF Kept, Told
<1>3. CASE LoadTemp \/ MaskTemp \/ LoadKeys \/ StoreKeys
  <2>1. UNCHANGED <<remote_s_data, moved>> /\ pc' # "clear"
    BY <1>3 DEF LoadTemp, MaskTemp, LoadKeys, StoreKeys, Return, latches
  <2>. QED
    BY <2>1 DEF Kept, FromMiddleKept, Told, OnlyFromMiddle
<1>. QED
  BY <1>1, <1>2, <1>3 DEF control_loop

LEMMA KeptAlways == ASSUME Burst =< 1 PROVE Spec => []Kept
<1>1. Init => Kept
  BY DEF Init, Kept, FromMiddleKept, Told
<1>2. IInv /\ Kept /\ [Next]_vars => Kept'
  <2>1. ASSUME IInv, Kept, UNCHANGED vars PROVE Kept'
    BY <2>1 DEF vars, Kept, FromMiddleKept, Told, OnlyFromMiddle, Calls, Call
  <2>. QED
    BY <2>1, KeptFrame, KeptLoop DEF Next
<1>. QED
  BY <1>1, <1>2, Invariant, PTL DEF Spec

(* A switch moved out of the middle stays latched until it is reported or   *)
(* taken back (moved), provided that no more than one frame comes during a  *)
(* call of Change_from_middle.                                              *)
THEOREM KeptUntilReported == ASSUME Burst =< 1 PROVE Spec => []FromMiddleKept
<1>1. Kept => FromMiddleKept
  BY DEF Kept
<1>. QED
  BY <1>1, KeptAlways, PTL

------------------------------------------------------------------------------
(* The latches are a SwitchLatch.  A switch is owed while its latch is set, *)
(* but not once a call has found where it is and only has the latch to      *)
(* clear; what Kept says of that call is all that is needed.                *)
Where == [sw \in Unmixed |-> s[sw]]
Owed == {sw \in Unmixed : remote_s_data[sw] = 1 /\ ~Reporting(sw)}

LEMMA InitLatch == Init => Latch!Init
BY DEF Init, Latch!Init, Unmixed

(* A frame is a frame: it sets a latch that no call is about to clear.      *)
LEMMA FrameLatch ==
  ASSUME Burst =< 1, IInv, Kept, NEW p \in [Switch -> Position], NEW k \in SUBSET Key,
         serial_thread_entry(p, k)
  PROVE  \E q \in [Unmixed -> Position] : Latch!Frame(q)
<1>. DEFINE q == [sw \in Unmixed |-> p[sw]]
<1>1. /\ s' = p /\ UNCHANGED <<at, pc>>
      /\ remote_s_data' = [sw \in Switch |-> Latched(sw, p)]
      /\ pc = "clear" => came < Burst
  BY DEF serial_thread_entry
<1>2. q \in [Unmixed -> Position] /\ Unmixed \subseteq Switch
  BY DEF Unmixed
<1>3. Where' = q
  BY <1>1 DEF Where
<1>4. \A sw \in Unmixed : Reporting(sw)' = Reporting(sw)
  BY <1>1 DEF Reporting, Call
<1>5. ASSUME NEW sw \in Unmixed
      PROVE  (Latched(sw, p) = 1 /\ ~Reporting(sw))
             <=> \/ s[sw] = Middle /\ p[sw] # Middle
                 \/ remote_s_data[sw] = 1 /\ ~Reporting(sw) /\ p[sw] # Middle
  <2>1. remote_s_data[sw] = 1 => s[sw] # Middle
    BY <1>2 DEF IInv, LatchTells
  <2>2. s[sw] = Middle => ~Reporting(sw)
    <3>1. Reporting(sw) => (s[sw] = Middle => came >= Burst)
      BY <1>2 DEF Kept, Told, Calls, Reporting, Unmixed
    <3>2. ~(came < Burst /\ came >= Burst)
      BY RemoteAssumption DEF IInv, TypeOK
    <3>. QED
      BY <1>1, <3>1, <3>2 DEF Reporting
  <2>. QED
    BY <2>1, <2>2 DEF Latched, FromMiddle, ToMiddle
<1>6. Owed' = {sw \in Unmixed : \/ s[sw] = Middle /\ p[sw] # Middle
                                \/ sw \in Owed /\ p[sw] # Middle}
  BY <1>1, <1>2, <1>4, <1>5 DEF Owed
<1>7. Latch!Frame(q)
  BY <1>3, <1>6 DEF Latch!Frame, Latch!Leaves, Where, Owed
<1>. QED
  BY <1>2, <1>7

(* A test that holds is the report; one that does not is not seen.          *)
LEMMA TestsLatch ==
  ASSUME IInv, TestLatch \/ TestFirst \/ TestSecond
  PROVE  \/ \E sw \in Unmixed : Latch!Report(sw)
         \/ UNCHANGED <<Where, Owed>>
<1>1. UNCHANGED <<s, remote_s_data>> /\ Where' = Where /\ pc # "clear"
  BY DEF TestLatch, TestFirst, TestSecond, Ask, latches, Where
<1>2. CASE pc' = "clear" /\ Call.fn = "from_middle" /\ Call.on \in Unmixed
  <2>1. /\ at' = at /\ Call.on \in Switch
        /\ \/ pc = "first" /\ First(Call)
           \/ pc = "second" /\ Second(Call)
    BY <1>2 DEF TestLatch, TestFirst, TestSecond, Ask, Return, Unmixed
  <2>2. s[Call.on] # Middle
    BY <1>2, <2>1 DEF First, Second
  <2>3. remote_s_data[Call.on] = 1
    BY <1>2, <2>1, <2>2 DEF IInv, Within, Calls
  <2>4. Call.on \in Owed
    BY <1>1, <1>2, <2>3 DEF Owed, Reporting
  <2>5. \A sw \in Unmixed : ~Reporting(sw) /\ (Reporting(sw)' <=> sw = Call.on)
    BY <1>1, <1>2, <2>1 DEF Reporting, Call
  <2>6. Owed' = Owed \ {Call.on}
    BY <1>1, <2>5 DEF Owed
  <2>. QED
    BY <1>1, <1>2, <2>4, <2>6 DEF Latch!Report, Where, Owed
<1>3. CASE ~(pc' = "clear" /\ Call.fn = "from_middle" /\ Call.on \in Unmixed)
  <2>1. pc' = "clear" => at' = at
    BY DEF TestLatch, TestFirst, TestSecond, Ask, Return
  <2>2. \A sw \in Unmixed : ~Reporting(sw) /\ ~Reporting(sw)'
    BY <1>1, <1>3, <2>1 DEF Reporting, Call
  <2>3. Owed' = Owed
    BY <1>1, <2>2 DEF Owed
  <2>. QED
    BY <1>1, <2>3
<1>. QED
  BY <1>2, <1>3

(* Clearing a latch that was reported is not seen, nor is the rest.         *)
LEMMA ClearsLatch ==
  ASSUME IInv, ClearSwitch
  PROVE  UNCHANGED <<Where, Owed>>
<1>1. /\ pc = "clear" /\ pc' # "clear" /\ s' = s /\ Call.fn # "key"
      /\ remote_s_data' = [remote_s_data EXCEPT ![Call.on] = 0]
      /\ remote_s_data \in [Switch -> 0 .. 2]
  BY DEF ClearSwitch, Cleared, Return, IInv, TypeOK
<1>2. Where' = Where
  BY <1>1 DEF Where
<1>3. Unmixed \subseteq Switch
  BY DEF Unmixed
<1>4. \A sw \in Unmixed : ~Reporting(sw)'
  BY <1>1 DEF Reporting
<1>5. ASSUME NEW sw \in Unmixed, sw = Call.on PROVE Reporting(sw)
  <2>1. Call.fn # "to_middle"
    <3>1. SUFFICES ASSUME Call.fn = "to_middle" PROVE FALSE
      OBVIOUS
    <3>2. Call = [fn |-> "to_middle", on |-> sw] /\ at \in 1 .. Len(Script)
      BY <1>5, <3>1, CallType DEF IInv, Reading, TypeOK
    <3>. QED
      BY <3>2 DEF Unmixed, OnlyFromMiddle, Call
  <2>. QED
    BY <1>1, <1>5, <2>1, FnType DEF Reporting, IInv
<1>6. ASSUME NEW sw \in Unmixed, sw # Call.on
      PROVE  ~Reporting(sw) /\ remote_s_data'[sw] = remote_s_data[sw]
  BY <1>1, <1>3, <1>6 DEF Reporting
<1>7. ASSUME NEW sw \in Unmixed, sw = Call.on PROVE remote_s_data'[sw] = 0
  BY <1>1, <1>3, <1>7
<1>8. Owed' = Owed
  BY <1>4, <1>5, <1>6, <1>7 DEF Owed
<1>. QED
  BY <1>2, <1>8

LEMMA RestLatch ==
  ASSUME IInv, UNCHANGED vars \/ LoadTemp \/ MaskTemp \/ LoadKeys \/ StoreKeys
  PROVE  UNCHANGED <<Where, Owed>>
<1>1. UNCHANGED <<s, remote_s_data>> /\ Where' = Where
  BY DEF vars, LoadTemp, MaskTemp, LoadKeys, StoreKeys, latches, Where
<1>2. CASE UNCHANGED vars
  BY <1>1, <1>2 DEF vars, Owed, Reporting, Call
<1>3. CASE LoadTemp \/ MaskTemp \/ LoadKeys \/ StoreKeys
  <2>1. \A sw \in Unmixed : ~Reporting(sw) /\ ~Reporting(sw)'
    BY <1>3 DEF LoadTemp, MaskTemp, LoadKeys, StoreKeys, Return, Reporting
  <2>. QED
    BY <1>1, <2>1 DEF Owed
<1>. QED
  BY <1>2, <1>3

(* The receiver implements SwitchLatch for the switches that are only asked *)
(* for movements out of the middle, if at most one frame comes during a     *)
(* call: each is reported once, unless it is taken back before              *)
(* (serial_thread_entry, Change_from_middle).                               *)
THEOREM ImplementsLatch == ASSUME Burst =< 1 PROVE Spec => LatchSpec
<1>1. IInv /\ Kept /\ [Next]_vars => [Latch!Next]_<<Where, Owed>>
  <2>. SUFFICES ASSUME IInv, Kept, [Next]_vars PROVE [Latch!Next]_<<Where, Owed>>
    OBVIOUS
  <2>1. CASE \E p \in [Switch -> Position], k \in SUBSET Key : serial_thread_entry(p, k)
    BY <2>1, FrameLatch DEF Latch!Next
  <2>2. CASE control_loop \/ UNCHANGED vars
    BY <2>2, TestsLatch, ClearsLatch, RestLatch DEF control_loop, Latch!Next
  <2>. QED
    BY <2>1, <2>2 DEF Next
<1>. QED
  BY <1>1, InitLatch, KeptAlways, Invariant, PTL
     DEF Spec, LatchSpec, Latch!Spec, Where, Owed
==============================================================================
