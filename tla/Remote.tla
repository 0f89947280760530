-------------------------------- MODULE Remote --------------------------------
(***************************************************************************)
(* The remote control receiver (public/drv_remote.c): from one frame to the *)
(* next the serial thread latches the movements of two switches and of the  *)
(* keys, and a control loop asks for them with Change_from_middle,          *)
(* Change_to_middle and Key_action_read.  The serial thread has priority 1, *)
(* so that a frame is one action; the loop (priority 5 or 10) can be        *)
(* interrupted by it between any two accesses, and reads most of what it    *)
(* looks at more than once.                                                 *)
(*                                                                          *)
(* Between two frames RC_data_last equals RC_data, so that one variable     *)
(* stands for both.  A frame that is not valid leaves RC_data alone and     *)
(* changes nothing here.  Sticks and mouse are left out.                    *)
(***************************************************************************)
EXTENDS Naturals, Sequences, FiniteSets

CONSTANTS
  Key,     (* the keys of the keyboard                                      *)
  Script,  (* the calls of the control loop in each period, in their order  *)
  Burst    (* frames that may come during one call: a frame takes 14 ms     *)

Switch == {"S1", "S2"}
Reading == [fn : {"from_middle", "to_middle"}, on : Switch] \cup [fn : {"key"}, on : Key]

ASSUME RemoteAssumption ==
  /\ Script \in Seq(Reading) /\ Len(Script) > 0
  /\ Burst \in Nat

(* The positions of a switch in a frame.                                    *)
Up == 1
Down == 2
Middle == 3
Position == {Up, Down, Middle}

VARIABLES
  s,              (* RC_data.Remote_Data.s1, s2                             *)
  v,              (* RC_data.v: the keys that are pressed                   *)
  remote_s_data,  (* remote_s1_data, remote_s2_data: 1 from, 2 to the middle *)
  temp_s_data,    (* its two halves: where the switches were                *)
  key_change,     (* the keys with an action                                *)
  at,             (* the call of the control loop                           *)
  pc,             (* where it stands in that call                           *)
  reg,            (* the latches it has loaded, to clear a part of them     *)
  moved,          (* history: movements not yet reported or, out of the     *)
                  (* middle, taken back                                     *)
  came            (* frames that came during the call                       *)

latches == <<remote_s_data, temp_s_data, key_change>>
vars == <<s, v, remote_s_data, temp_s_data, key_change, at, pc, reg, moved, came>>

Call == Script[at]

(* What a movement is called in moved: a switch with its latch, or a key.   *)
Subject(c) == CASE c.fn = "from_middle" -> <<c.on, 1>>
                [] c.fn = "to_middle"   -> <<c.on, 2>>
                [] OTHER                -> <<c.on, 0>>

Init ==
  /\ s = [sw \in Switch |-> Middle] /\ v = {}
  /\ remote_s_data = [sw \in Switch |-> 0]
  /\ temp_s_data = [sw \in Switch |-> 0]
  /\ key_change = {}
  /\ at = 1 /\ pc = "latch" /\ reg = {}
  /\ moved = {} /\ came = 0

------------------------------------------------------------------------------
(* The serial thread: a frame with switches at p and the keys in k pressed. *)

FromMiddle(sw, p) == s[sw] = Middle /\ p[sw] # Middle
ToMiddle(sw, p) == s[sw] # Middle /\ p[sw] = Middle

(* Mutants: a movement is latched only when the last one has been read; the *)
(* movements are counted.                                                   *)
Latched_Counted(sw, p) ==
  IF FromMiddle(sw, p) THEN remote_s_data[sw] + 1
  ELSE IF ToMiddle(sw, p) THEN 2 ELSE remote_s_data[sw]
Latched_WhenRead(sw, p) ==
  IF remote_s_data[sw] # 0 THEN remote_s_data[sw]
  ELSE IF FromMiddle(sw, p) THEN 1 ELSE IF ToMiddle(sw, p) THEN 2 ELSE 0

Latched(sw, p) == IF FromMiddle(sw, p) THEN 1
                  ELSE IF ToMiddle(sw, p) THEN 2 ELSE remote_s_data[sw]

KeyActions(k) == (v \ k) \cup (k \ v)

serial_thread_entry(p, k) ==
  /\ IF pc = "latch" THEN came' = came ELSE came < Burst /\ came' = came + 1
  /\ s' = p /\ v' = k
  /\ remote_s_data' = [sw \in Switch |-> Latched(sw, p)]
  /\ temp_s_data' = IF \E sw \in Switch : ToMiddle(sw, p) THEN s ELSE temp_s_data
  /\ key_change' = key_change \cup KeyActions(k)
  /\ moved' = (moved \ {<<sw, 1>> : sw \in {w \in Switch : ToMiddle(w, p)}})
                \cup {<<sw, 1>> : sw \in {w \in Switch : FromMiddle(w, p)}}
                \cup {<<sw, 2>> : sw \in {w \in Switch : ToMiddle(w, p)}}
                \cup {<<key, 0>> : key \in KeyActions(k)}
  /\ UNCHANGED <<at, pc, reg>>

------------------------------------------------------------------------------
(* The control loop's call, access by access.                               *)

(* The latch says that there is an action ...                               *)
Pending(c) == CASE c.fn = "from_middle" -> remote_s_data[c.on] = 1
                [] c.fn = "to_middle"   -> remote_s_data[c.on] = 2
                [] OTHER                -> c.on \in key_change

(* ... and it is the first that can be reported, or the second.             *)
First(c) == CASE c.fn = "from_middle" -> s[c.on] = Up
              [] c.fn = "to_middle"   -> temp_s_data[c.on] = Up
              [] OTHER                -> c.on \in v

(* Mutant: the first is tested for twice.                                   *)
Second_Copied(c) == First(c)

Second(c) == CASE c.fn = "from_middle" -> s[c.on] = Down
               [] c.fn = "to_middle"   -> temp_s_data[c.on] = Down
               [] OTHER                -> c.on \notin v

Return ==
  /\ pc' = "latch" /\ reg' = {} /\ came' = 0
  /\ at' = IF at = Len(Script) THEN 1 ELSE at + 1

Ask(from, holds, yes, no) ==
  /\ pc = from
  /\ \/ holds /\ pc' = yes /\ UNCHANGED <<at, reg, came>>
     \/ ~holds /\ no # "return" /\ pc' = no /\ UNCHANGED <<at, reg, came>>
     \/ ~holds /\ no = "return" /\ Return
  /\ UNCHANGED <<s, v, latches>>

TestLatch == Ask("latch", Pending(Call), "first", "return") /\ UNCHANGED moved

Reported(holds) == moved' = IF holds THEN moved \ {Subject(Call)} ELSE moved

TestFirst == Ask("first", First(Call), "clear", "second") /\ Reported(First(Call))

(* When neither test held, Change_from_middle returns NO_ACTION, and        *)
(* Key_action_read ends without a value.                                    *)
TestSecond == Ask("second", Second(Call), "clear", "return") /\ Reported(Second(Call))

(* Mutant: the latch is kept.                                               *)
Cleared_Kept(sw) == remote_s_data

Cleared(sw) == [remote_s_data EXCEPT ![sw] = 0]

(* A switch: its latch is cleared, and Change_from_middle returns ...       *)
ClearSwitch ==
  /\ pc = "clear" /\ Call.fn # "key"
  /\ remote_s_data' = Cleared(Call.on)
  /\ IF Call.fn = "from_middle" THEN Return
     ELSE pc' = "load" /\ UNCHANGED <<at, reg, came>>
  /\ UNCHANGED <<s, v, temp_s_data, key_change, moved>>

(* ... but temp_s_data has to be masked, with 0x1100 for S1 and 0x0011 for  *)
(* S2: the other switch's half is cleared, and of its own a 2 but not a 1.  *)
LoadTemp ==
  /\ pc = "load" /\ Call.fn = "to_middle"
  /\ reg' = IF temp_s_data[Call.on] \in {Up, Middle} THEN {Call.on} ELSE {}
  /\ pc' = "store"
  /\ UNCHANGED <<s, v, latches, at, moved, came>>

MaskTemp ==
  /\ pc = "store" /\ Call.fn = "to_middle"
  /\ temp_s_data' = [sw \in Switch |-> IF sw \in reg THEN Up ELSE 0]
  /\ Return
  /\ UNCHANGED <<s, v, remote_s_data, key_change, moved>>

(* A key: its bit is cleared in what was loaded, which is stored.           *)
LoadKeys ==
  /\ pc = "clear" /\ Call.fn = "key"
  /\ reg' = key_change
  /\ pc' = "store"
  /\ UNCHANGED <<s, v, latches, at, moved, came>>

StoreKeys ==
  /\ pc = "store" /\ Call.fn = "key"
  /\ key_change' = reg \ {Call.on}
  /\ Return
  /\ UNCHANGED <<s, v, remote_s_data, temp_s_data, moved>>

------------------------------------------------------------------------------
control_loop == TestLatch \/ TestFirst \/ TestSecond \/ ClearSwitch
                \/ LoadTemp \/ MaskTemp \/ LoadKeys \/ StoreKeys

Next == \/ \E p \in [Switch -> Position], k \in SUBSET Key : serial_thread_entry(p, k)
        \/ control_loop

Spec == Init /\ [][Next]_vars

(* The loop blocks for a period and comes back; the serial thread blocks    *)
(* until the next frame.                                                    *)
FairSpec == Spec /\ WF_vars(control_loop)

------------------------------------------------------------------------------
Movements == (Switch \X {1, 2}) \cup (Key \X {0})

(* Every variable stays in its type.                                        *)
TypeOK ==
  /\ s \in [Switch -> Position] /\ v \subseteq Key
  /\ remote_s_data \in [Switch -> 0 .. 2] /\ temp_s_data \in [Switch -> 0 .. 3]
  /\ key_change \subseteq Key
  /\ at \in 1 .. Len(Script) /\ pc \in {"latch", "first", "second", "clear", "load", "store"}
  /\ reg \subseteq Key \cup Switch
  /\ moved \subseteq Movements /\ came \in 0 .. Burst

(* A call reports only a movement that has been made since the last one it  *)
(* reported, whatever frames come between its accesses to the latches.      *)
NoPhantom == [][(pc # "clear" /\ pc' = "clear") => Subject(Call) \in moved]_vars

(* No call asks for the switch's movements to the middle: no board has one. *)
OnlyFromMiddle(sw) ==
  \A i \in 1 .. Len(Script) : Script[i] # [fn |-> "to_middle", on |-> sw]

Unmixed == {sw \in Switch : OnlyFromMiddle(sw)}

Reporting(sw) == pc = "clear" /\ Call.fn = "from_middle" /\ Call.on = sw

(* The latches are a SwitchLatch, if no more frames come during a call than *)
(* can: a movement of a switch out of the middle stays latched until it is  *)
(* reported or taken back, and is reported once: neither later frames nor   *)
(* the clearing of other movements lose it or bring it back, although the   *)
(* report and the clearing of the latch are apart.                          *)
Latch == INSTANCE SwitchLatch WITH
  Switches <- Unmixed, where <- [sw \in Unmixed |-> s[sw]],
  owed <- {sw \in Unmixed : remote_s_data[sw] = 1 /\ ~Reporting(sw)}
LatchSpec == Latch!Spec

(* A switch that is moved out of the middle and left there is reported.     *)
EventuallyReported ==
  \A sw \in Switch : \A p \in {Up, Down} :
    (OnlyFromMiddle(sw) /\ <>[](s[sw] = p)) => <>[](<<sw, 1>> \notin moved)
==============================================================================
