------------------------------- MODULE Trailer -------------------------------
(***************************************************************************)
(* The rescue trailer of the engineer's chassis board: two arms (left and   *)
(* right), each a geared motor with a position loop.  Four threads touch    *)
(* its state:                                                               *)
(*   - main(), priority 10, which initialises everything and then ends;     *)
(*   - the CAN receive threads, priority 2: CAN1 carries the encoder        *)
(*     readings of the arms, CAN2 the command byte of the gimbal board;     *)
(*   - the position loop trailer_tim_entry, priority 5;                     *)
(*   - the control loop main_thread_entry, priority 5.                      *)
(* A handler of a receive thread runs to completion before any of the       *)
(* others continues, so it is one action.  The two loops share a priority   *)
(* and are time sliced, and either can be preempted by a receive thread     *)
(* between any two accesses, so each read-modify-write of shared state is   *)
(* two actions of theirs.  main() runs only while the loops are blocked.    *)
(***************************************************************************)
EXTENDS Integers

CONSTANTS
  Lap,        (* encoder ticks of a turn: 8192                              *)
  Limit,      (* per side, the largest offset taken as it is: 1000 and 4096 *)
  Still,      (* equal readings after which an arm counts as home: 100      *)
  Prepare,    (* per side, ticks from home to the ready position            *)
  Catch,      (* per side, ticks from there to the closed position          *)
  Readings,   (* per side, the encoder readings that occur                  *)
  CmdBytes,   (* the command bytes the gimbal board may put on the bus      *)
  MaxMoves    (* bound of the model: no command is taken after so many moves *)

Side == {"l", "r"}

ASSUME TrailerAssumption ==
  /\ Lap \in Nat /\ Lap > 1
  /\ Limit \in [Side -> 0 .. Lap - 1]
  /\ Still \in Nat
  /\ Prepare \in [Side -> Int] /\ Catch \in [Side -> Int]
  /\ \A s \in Side : Readings[s] \subseteq 0 .. Lap - 1
  /\ CmdBytes \subseteq 0 .. 255
  /\ MaxMoves \in Nat

VARIABLES
  boot,        (* what main() does next                                     *)
  state,       (* trailer_t.state of each side                              *)
  ratioSet,    (* motor_init has stored the gear ratio (it is 0 before)     *)
  pidReady,    (* pid_init has run for the side's position loop             *)
  calibrated,  (* origin_l_init, origin_r_init                              *)
  origin,      (* origin_anglel, origin_angler                              *)
  encoder,     (* encoder_l, encoder_r: the last reading                    *)
  count,       (* encoderl_count, encoderr_count                            *)
  offset,      (* trailerl_offset, trailerr_offset, in ticks                *)
  set,         (* trailer_motor.ang.set                                     *)
  rescue_cmd,  (* gimbal_ctrl_data.rescue_cmd                               *)
  loop,        (* the position loop: its side, its step, the value it holds *)
  pc,          (* where the control loop stands                             *)
  trailer_cur, (* the side the control loop serves in this period           *)
  reg,         (* the value the control loop has loaded and not yet stored  *)
  accepted,    (* history: requests stored into state, per side             *)
  moved        (* history: requests applied by trailer_go, per side         *)

mainVars == <<pc, trailer_cur, reg>>
canVars  == <<calibrated, origin, encoder, count, offset>>
bootVars == <<boot, ratioSet, pidReady>>
history  == <<accepted, moved>>
vars == <<boot, state, ratioSet, pidReady, calibrated, origin, encoder, count,
          offset, set, rescue_cmd, loop, pc, trailer_cur, reg, accepted, moved>>

------------------------------------------------------------------------------
(* The states of trailer.h, and the latched form trailer_go leaves behind.  *)
rescue_unable   == 1
rescue_prepare  == 2
rescue_going    == 4
rescue_prereset == 8
rescue_goreset  == 16

Requests == {rescue_prepare, rescue_going, rescue_prereset, rescue_goreset}

(* Mutant: the case is left without setting its bit.                        *)
LatchBit_Forgotten(st) == 0

(* The bit trailer_go sets so that it does not enter the same case twice.   *)
LatchBit(st) == CASE st = rescue_prepare  -> 32
                  [] st = rescue_going    -> 64
                  [] st = rescue_prereset -> 128
                  [] OTHER                -> 1

(* state == 0x88 || state == 0x11: the arm is on its way back.              *)
Homing == {136, 17}

Other(s) == IF s = "l" THEN "r" ELSE "l"

(* The offset counts against the left arm's direction and with the right's. *)
ToReady(s) == IF s = "l" THEN Prepare[s] + offset[s] ELSE Prepare[s] - offset[s]

(* What trailer_go adds to the set point for a request.                     *)
Delta(s, st) == CASE st = rescue_prepare  -> ToReady(s)
                  [] st = rescue_going    -> Catch[s]
                  [] st = rescue_prereset -> -ToReady(s)
                  [] OTHER -> -(Catch[s] + ToReady(s))

(* pid_output_motor folds its set point once, by one tick less than a turn. *)
Folded(v) == IF v > Lap - 1 THEN v - (Lap - 1)
             ELSE IF v < 0 THEN v + (Lap - 1) ELSE v

(* Mutant: only a positive distance is corrected.                           *)
Reasonable_OneWay(s, d) == IF d > Limit[s] THEN d - Lap ELSE d

(* The distance from the reading to the origin, an unreasonable one taken   *)
(* the other way round the turn.                                            *)
Reasonable(s, d) == IF d > Limit[s] THEN d - Lap
                    ELSE IF -d > Limit[s] THEN d + Lap ELSE d

(* Mutants: every reading counts; the reading is compared with the origin.  *)
Repeats_Always(s, angle) == TRUE
Repeats_Origin(s, angle) == origin[s] = angle

(* The reading equals the one before it.                                    *)
Repeats(s, angle) == encoder[s] = angle

(* Mutant: one repetition too many is asked for.                            *)
AtRest_OneMore(n) == n > Still + 1

(* So many equal readings mean that the arm stands still.                   *)
AtRest(n) == n > Still

(* Mutants: one arm at home is enough; an arm that is not moving is enough. *)
BothHome_Either == \E s \in Side : state[s] = rescue_unable
BothHome_NotMoving == \A s \in Side : state[s] \notin Requests \cup Homing

(* main_thread_entry takes a command only then.                             *)
BothHome == \A s \in Side : state[s] = rescue_unable

------------------------------------------------------------------------------
Init ==
  /\ boot = "init"
  /\ state = [s \in Side |-> 0]
  /\ ratioSet = [s \in Side |-> FALSE]
  /\ pidReady = [s \in Side |-> FALSE]
  /\ calibrated = [s \in Side |-> FALSE]
  /\ origin = [s \in Side |-> 0]
  /\ encoder = [s \in Side |-> 0]
  /\ count = [s \in Side |-> 0]
  /\ offset = [s \in Side |-> 0]
  /\ set = [s \in Side |-> 0]
  /\ rescue_cmd = 0
  /\ loop = [at |-> "off", step |-> "wait", val |-> 0]
  /\ pc = "off"
  /\ trailer_cur = "l"
  /\ reg = 0
  /\ accepted = [s \in Side |-> 0]
  /\ moved = [s \in Side |-> 0]

------------------------------------------------------------------------------
(* main(): trailer_start for the left side and the right, gimbal_ctrl_init, *)
(* main_thread_init.                                                        *)

LoopsBlocked == loop.step = "wait"

TrailerInit(s) ==
  /\ boot = "init" /\ LoopsBlocked
  /\ ~ratioSet[s] /\ (s = "r" => ratioSet["l"])
  /\ state' = [state EXCEPT ![s] = rescue_unable]
  /\ ratioSet' = [ratioSet EXCEPT ![s] = TRUE]
  /\ boot' = IF s = "r" THEN "pid" ELSE boot
  /\ UNCHANGED <<pidReady, set, rescue_cmd, loop, canVars, mainVars, history>>

PidInit(s) ==
  /\ boot = "pid" /\ LoopsBlocked
  /\ ~pidReady[s] /\ (s = "r" => pidReady["l"])
  /\ set' = [set EXCEPT ![s] = 0]
  /\ pidReady' = [pidReady EXCEPT ![s] = TRUE]
  /\ boot' = IF s = "r" THEN "start" ELSE boot
  /\ UNCHANGED <<state, ratioSet, rescue_cmd, loop, canVars, mainVars, history>>

StartLoop ==
  /\ boot = "start"
  /\ loop' = [loop EXCEPT !.at = "l"]
  /\ boot' = "ctrl"
  /\ UNCHANGED <<state, ratioSet, pidReady, set, rescue_cmd, canVars, mainVars,
                 history>>

gimbal_ctrl_init ==
  /\ boot = "ctrl" /\ LoopsBlocked
  /\ rescue_cmd' = 1
  /\ boot' = "spawn"
  /\ UNCHANGED <<state, ratioSet, pidReady, set, loop, canVars, mainVars, history>>

main_thread_init ==
  /\ boot = "spawn" /\ LoopsBlocked
  /\ pc' = "check"
  /\ boot' = "done"
  /\ UNCHANGED <<state, ratioSet, pidReady, set, rescue_cmd, loop, canVars,
                 trailer_cur, reg, history>>

------------------------------------------------------------------------------
(* The receive threads.                                                     *)

(* CAN1, TRAILER_LEFT or TRAILER_RIGHT, with the encoder at a.  Before      *)
(* motor_init the ratio is 0 and the angle computed from any reading is 0.  *)
can1_rec(s, a) ==
  LET angle == IF ratioSet[s] THEN a ELSE 0
      first == ~calibrated[s] /\ angle # 0
      homing == (calibrated[s] \/ first) /\ state[s] \in Homing
      equal == IF homing /\ Repeats(s, angle) THEN count[s] + 1 ELSE count[s]
      home == homing /\ AtRest(equal)
      from == IF first THEN angle ELSE origin[s]
  IN /\ calibrated' = [calibrated EXCEPT ![s] = @ \/ first]
     /\ set' = [set EXCEPT ![s] = IF first THEN angle ELSE @]
     /\ origin' = [origin EXCEPT ![s] = from]
     /\ offset' = [offset EXCEPT ![s] =
                     IF home THEN Reasonable(s, from - encoder[s]) ELSE @]
     /\ state' = [state EXCEPT ![s] = IF home THEN rescue_unable ELSE @]
     /\ count' = [count EXCEPT ![s] = IF home THEN 0 ELSE equal]
     /\ encoder' = [encoder EXCEPT ![s] = angle]
     /\ UNCHANGED <<rescue_cmd, loop, bootVars, mainVars, history>>

(* CAN2, CHASSIS_CTL: read_gimbal_data stores byte 7 of the frame.          *)
read_gimbal_data(c) ==
  /\ rescue_cmd' = c
  /\ UNCHANGED <<state, set, loop, bootVars, canVars, mainVars, history>>

------------------------------------------------------------------------------
(* The position loop, every tenth period: pid_output_motor receives the set *)
(* point as an argument ...                                                 *)

AngleLoad(s) ==
  /\ loop.at = s /\ loop.step = "wait"
  /\ loop' = [at |-> s, step |-> "store", val |-> set[s]]
  /\ UNCHANGED <<state, set, rescue_cmd, bootVars, canVars, mainVars, history>>

(* ... stores it back, and has done with it if it is within the turn ...    *)
AngleStore(s) ==
  /\ loop.at = s /\ loop.step = "store"
  /\ set' = [set EXCEPT ![s] = loop.val]
  /\ loop' = IF Folded(loop.val) = loop.val
             THEN [at |-> Other(s), step |-> "wait", val |-> 0]
             ELSE [loop EXCEPT !.step = "fold"]
  /\ UNCHANGED <<state, rescue_cmd, bootVars, canVars, mainVars, history>>

(* ... or else folds it, from the register or read from memory again.       *)
AngleFold(s) ==
  /\ loop.at = s /\ loop.step = "fold"
  /\ \E v \in {loop.val, set[s]} : set' = [set EXCEPT ![s] = Folded(v)]
  /\ loop' = [at |-> Other(s), step |-> "wait", val |-> 0]
  /\ UNCHANGED <<state, rescue_cmd, bootVars, canVars, mainVars, history>>

------------------------------------------------------------------------------
(* The control loop.                                                        *)

(* Only when both arms are home is the pending command taken.  Nobody else  *)
(* writes the state of an arm that is home, so both tests are one step.     *)
Check ==
  /\ pc = "check"
  /\ IF BothHome
     THEN /\ accepted["l"] + accepted["r"] < MaxMoves
          /\ pc' = "store_l"
     ELSE pc' = "go"
  /\ UNCHANGED <<state, set, rescue_cmd, loop, bootVars, canVars, trailer_cur,
                 reg, history>>

(* trailer.state = rescue_cmd >> 4, once for each side: the byte is read    *)
(* again for the second store.                                              *)
Store(s) ==
  LET st == rescue_cmd \div 16
  IN /\ pc = (IF s = "l" THEN "store_l" ELSE "store_r")
     /\ state' = [state EXCEPT ![s] = st]
     /\ accepted' = [accepted EXCEPT ![s] = IF st \in Requests THEN @ + 1 ELSE @]
     /\ pc' = IF s = "l" THEN "store_r" ELSE "go"
     /\ UNCHANGED <<set, rescue_cmd, loop, bootVars, canVars, trailer_cur, reg,
                    moved>>

(* trailer_go(s), the cases that match: the set point is loaded ...         *)
GoLoad(s) ==
  /\ pc = "go" /\ trailer_cur = s
  /\ state[s] \in Requests
  /\ reg' = set[s]
  /\ pc' = "add"
  /\ UNCHANGED <<state, set, rescue_cmd, loop, bootVars, canVars, trailer_cur,
                 history>>

(* ... moved and stored by motor_angle_set, the state loaded ...            *)
GoAdd(s) ==
  /\ pc = "add" /\ trailer_cur = s
  /\ set' = [set EXCEPT ![s] = reg + Delta(s, state[s])]
  /\ moved' = [moved EXCEPT ![s] = @ + 1]
  /\ reg' = state[s]
  /\ pc' = "latch"
  /\ UNCHANGED <<state, rescue_cmd, loop, bootVars, canVars, trailer_cur, accepted>>

(* ... and stored with its latch bit.                                       *)
GoLatch(s) ==
  /\ pc = "latch" /\ trailer_cur = s
  /\ state' = [state EXCEPT ![s] = reg + LatchBit(reg)]
  /\ reg' = 0
  /\ trailer_cur' = Other(s)
  /\ pc' = "check"
  /\ UNCHANGED <<set, rescue_cmd, loop, bootVars, canVars, history>>

(* trailer_go(s), the default case.                                         *)
GoNothing(s) ==
  /\ pc = "go" /\ trailer_cur = s
  /\ state[s] \notin Requests
  /\ trailer_cur' = Other(s)
  /\ pc' = "check"
  /\ UNCHANGED <<state, set, rescue_cmd, loop, bootVars, canVars, reg, history>>

------------------------------------------------------------------------------
Boot == \/ \E s \in Side : TrailerInit(s) \/ PidInit(s)
        \/ StartLoop \/ gimbal_ctrl_init \/ main_thread_init

trailer_tim_entry == \E s \in Side : AngleLoad(s) \/ AngleStore(s) \/ AngleFold(s)

main_thread_entry ==
  \/ Check
  \/ \E s \in Side : Store(s) \/ GoLoad(s) \/ GoAdd(s) \/ GoLatch(s) \/ GoNothing(s)

Receive == \/ \E s \in Side : \E a \in Readings[s] : can1_rec(s, a)
           \/ \E c \in CmdBytes : read_gimbal_data(c)

Next == Boot \/ trailer_tim_entry \/ main_thread_entry \/ Receive

(* An arm that has come to rest keeps reporting the same reading a thousand *)
(* times a second, and the receive threads outrank everything else here.    *)
Fairness == \A s \in Side :
              WF_vars(\E a \in Readings[s] : a = encoder[s] /\ can1_rec(s, a))

Spec == Init /\ [][Next]_vars
FairSpec == Spec /\ Fairness

------------------------------------------------------------------------------
PcSet == {"off", "check", "store_l", "store_r", "go", "add", "latch"}

(* Every variable stays in its type: in particular a trailer state is the   *)
(* high half of a command byte, rescue_unable, or a request with its latch  *)
(* bit, and never a mixture left by two writers.                            *)
TypeOK ==
  /\ boot \in {"init", "pid", "start", "ctrl", "spawn", "done"}
  /\ state \in [Side -> 0 .. 15 \cup {r + LatchBit(r) : r \in Requests}]
  /\ ratioSet \in [Side -> BOOLEAN] /\ pidReady \in [Side -> BOOLEAN]
  /\ calibrated \in [Side -> BOOLEAN]
  /\ origin \in [Side -> 0 .. Lap - 1] /\ encoder \in [Side -> 0 .. Lap - 1]
  /\ count \in [Side -> 0 .. Still]
  /\ offset \in [Side -> Int]
  /\ set \in [Side -> Int]
  /\ rescue_cmd \in CmdBytes \cup {0, 1}
  /\ loop \in [at : Side \cup {"off"}, step : {"wait", "store", "fold"}, val : Int]
  /\ pc \in PcSet /\ trailer_cur \in Side /\ reg \in Int
  /\ accepted \in [Side -> Nat] /\ moved \in [Side -> Nat]

(* An accepted request that trailer_go has not yet applied.                 *)
Pending(s) == /\ state[s] \in Requests
              /\ ~(pc = "latch" /\ trailer_cur = s)

(* trailer_go applies each request stored into a side's state once: the     *)
(* latch that keeps it from entering the case again is a non-atomic |= on a *)
(* byte CAN1 writes too, and loses none.  Whether the set point keeps what  *)
(* was added to it is another question: see MovesKept.                      *)
AppliedOnce ==
  \A s \in Side : accepted[s] = moved[s] + (IF Pending(s) THEN 1 ELSE 0)

(* The correction an arm carries into its next move is never longer than    *)
(* the threshold of its side allows: the threshold itself, or what is left  *)
(* of the turn beyond it.                                                   *)
OffsetBounded ==
  \A s \in Side : \/ -Limit[s] =< offset[s] /\ offset[s] =< Limit[s]
                  \/ Limit[s] - Lap < offset[s] /\ offset[s] < Lap - Limit[s]

(* CAN1 declares an arm home only on a reading that repeats the one before, *)
(* after Still repetitions since the reset began, and takes the offset from *)
(* that very reading.                                                       *)
HomeAtRest ==
  [][\A s \in Side :
       (state[s] \in Homing /\ state'[s] = rescue_unable)
         => /\ encoder'[s] = encoder[s] /\ count[s] = Still
            /\ offset'[s] = Reasonable(s, origin[s] - encoder'[s])]_vars

(* A side leaves home for a new request only while the other side is home,  *)
(* or has been given its share of the same command and not begun to move:   *)
(* no arm starts while the other still executes an earlier command.         *)
NewCommandOnlyWhenBothHome ==
  [][\A s \in Side :
       (state[s] = rescue_unable /\ state'[s] \in Requests)
         => \/ state[Other(s)] = rescue_unable
            \/ s = "r" /\ state["l"] \in 0 .. 15]_vars

(* Only a reset ever ends: a side that has been latched in the ready or the *)
(* closed position, or that was given a state trailer.h does not list (0 of *)
(* the initial command byte among them), keeps that state for ever.         *)
OnlyResetsEnd ==
  [][\A s \in Side :
       (boot = "done" /\ state[s] \notin Requests \cup Homing \cup {rescue_unable})
         => state'[s] = state[s]]_vars

(* An arm sent back home never stays on its way for ever: it is declared    *)
(* home, which alone ends homing, once it rests.                            *)
HomingCompletes ==
  \A s \in Side : []<>(calibrated[s] => state[s] \notin Homing)

(* Until its first move a calibrated arm is held where calibration found it *)
(* (can_receive.c stores the origin and the set point together).            *)
CalibratedSetPoint ==
  \A s \in Side : (calibrated[s] /\ accepted[s] = 0) => set[s] = origin[s]

(* An arm that trailer_go has moved is sent back to its origin by           *)
(* trailer_go only: between two moves no step makes the origin its set      *)
(* point again, but by folding it.  The position loop, which stores the set *)
(* point it was called with (pid_output_motor), takes no move back.         *)
MovesKept ==
  [][\A s \in Side :
       (/\ calibrated[s] /\ moved[s] > 0 /\ moved'[s] = moved[s]
        /\ set'[s] = origin[s])
         => Folded(set[s]) = origin[s]]_vars
==============================================================================
