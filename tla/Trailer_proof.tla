---------------------------- MODULE Trailer_proof ----------------------------
(* Proofs about the rescue trailer, for every encoder, threshold, distance  *)
(* and set of command bytes, and any number of moves.                       *)
EXTENDS Trailer, TLAPS

(* Until main() has started the control loop, no arm has a request.         *)
Booting ==
  /\ pc = "off" <=> boot # "done"
  /\ boot # "done" => \A s \in Side : state[s] \in {0, rescue_unable}

(* What the control loop knows of the states at each of its steps, although *)
(* CAN1 may write them in between.                                          *)
Control ==
  /\ pc = "store_l" => \A s \in Side : state[s] = rescue_unable
  /\ pc = "store_r" => state["r"] = rescue_unable /\ state["l"] \in 0 .. 15
  /\ pc = "add" => state[trailer_cur] \in Requests
  /\ pc = "latch" => state[trailer_cur] \in Requests /\ reg = state[trailer_cur]

IInv == TypeOK /\ Booting /\ Control /\ AppliedOnce /\ OffsetBounded

USE DEF rescue_unable, rescue_prepare, rescue_going, rescue_prereset, rescue_goreset

(* A request is none of the states in which an arm is, or is going, home;   *)
(* with its latch bit it is a request no longer.                            *)
LEMMA States ==
  /\ \A st \in Requests : st \notin Homing /\ st # rescue_unable
  /\ \A st \in Requests : st + LatchBit(st) \notin Requests
  /\ \A st \in {0, rescue_unable} : st \notin Requests /\ st \notin Homing
BY DEF Requests, Homing, LatchBit

(* A command byte's high half.                                              *)
LEMMA HighHalf == ASSUME NEW c \in 0 .. 255 PROVE c \div 16 \in 0 .. 15
OBVIOUS

(* The correction of a distance within a turn.                              *)
LEMMA ReasonableBound ==
  ASSUME NEW s \in Side, NEW d \in Int, -Lap < d, d < Lap
  PROVE  LET o == Reasonable(s, d)
         IN /\ o \in Int
            /\ \/ -Limit[s] =< o /\ o =< Limit[s]
               \/ Limit[s] - Lap < o /\ o < Lap - Limit[s]
<1>1. Lap \in Nat /\ Limit[s] \in 0 .. Lap - 1
  BY TrailerAssumption
<1>. DEFINE m == Limit[s]
<1>2. m \in Nat /\ m < Lap
  BY <1>1
<1>. HIDE DEF m
<1>3. CASE d > m
  BY <1>1, <1>2, <1>3 DEF Reasonable, m
<1>4. CASE ~(d > m) /\ -d > m
  BY <1>1, <1>2, <1>4 DEF Reasonable, m
<1>5. CASE ~(d > m) /\ ~(-d > m)
  BY <1>1, <1>2, <1>5 DEF Reasonable, m
<1>. QED
  BY <1>3, <1>4, <1>5

LEMMA InitInvariant == Init => IInv
<1>. SUFFICES ASSUME Init PROVE IInv
  OBVIOUS
<1>1. TypeOK
  BY TrailerAssumption DEF Init, TypeOK, PcSet, Side
<1>2. Booting /\ Control
  BY DEF Init, Booting, Control
<1>3. AppliedOnce
  BY DEF Init, AppliedOnce, Pending, Requests
<1>4. OffsetBounded
  BY TrailerAssumption DEF Init, OffsetBounded
<1>. QED
  BY <1>1, <1>2, <1>3, <1>4 DEF IInv

(* AppliedOnce and OffsetBounded speak of these variables only.             *)
LEMMA Untouched ==
  /\ AppliedOnce /\ UNCHANGED <<state, pc, trailer_cur, accepted, moved>>
       => AppliedOnce'
  /\ OffsetBounded /\ UNCHANGED offset => OffsetBounded'
BY DEF AppliedOnce, Pending, OffsetBounded

LEMMA BootStep == IInv /\ Boot => IInv'
<1>. SUFFICES ASSUME IInv, Boot PROVE IInv'
  OBVIOUS
<1>1. ASSUME NEW s \in Side, TrailerInit(s) PROVE IInv'
  <2>1. /\ boot = "init" /\ boot' \in {"init", "pid"} /\ pc = "off"
        /\ state' = [state EXCEPT ![s] = rescue_unable]
        /\ ratioSet' = [ratioSet EXCEPT ![s] = TRUE]
        /\ UNCHANGED <<pidReady, set, rescue_cmd, loop, canVars, mainVars, history>>
    BY <1>1 DEF TrailerInit, IInv, Booting
  <2>2. TypeOK'
    BY <2>1 DEF IInv, TypeOK, canVars, mainVars, history
  <2>3. Booting' /\ Control'
    BY <2>1 DEF IInv, TypeOK, Booting, Control, mainVars
  <2>4. AppliedOnce'
    BY <2>1, States DEF IInv, TypeOK, Booting, AppliedOnce, Pending, mainVars, history
  <2>. QED
    BY <2>1, <2>2, <2>3, <2>4, Untouched DEF IInv, canVars
<1>2. ASSUME NEW s \in Side, PidInit(s) PROVE IInv'
  <2>1. /\ boot = "pid" /\ boot' \in {"pid", "start"}
        /\ set' = [set EXCEPT ![s] = 0]
        /\ pidReady' = [pidReady EXCEPT ![s] = TRUE]
        /\ UNCHANGED <<state, ratioSet, rescue_cmd, loop, canVars, mainVars, history>>
    BY <1>2 DEF PidInit
  <2>2. TypeOK'
    BY <2>1 DEF IInv, TypeOK, canVars, mainVars, history
  <2>3. Booting' /\ Control'
    BY <2>1 DEF IInv, Booting, Control, mainVars
  <2>. QED
    BY <2>1, <2>2, <2>3, Untouched DEF IInv, canVars, mainVars, history
<1>3. ASSUME StartLoop \/ gimbal_ctrl_init \/ main_thread_init PROVE IInv'
  <2>1. /\ boot \in {"start", "ctrl", "spawn"}
        /\ \/ boot' \in {"ctrl", "spawn"} /\ pc' = pc
           \/ boot' = "done" /\ pc' = "check"
        /\ rescue_cmd' \in {rescue_cmd, 1}
        /\ loop' \in {loop, [loop EXCEPT !.at = "l"]}
        /\ UNCHANGED <<state, ratioSet, pidReady, set, canVars, trailer_cur, reg, history>>
    BY <1>3 DEF StartLoop, gimbal_ctrl_init, main_thread_init, mainVars
  <2>2. TypeOK'
    BY <2>1 DEF IInv, TypeOK, canVars, history, PcSet, Side
  <2>3. Booting' /\ Control'
    BY <2>1 DEF IInv, Booting, Control
  <2>4. AppliedOnce'
    BY <2>1 DEF IInv, Booting, AppliedOnce, Pending, history
  <2>. QED
    BY <2>1, <2>2, <2>3, <2>4, Untouched DEF IInv, canVars
<1>. QED
  BY <1>1, <1>2, <1>3 DEF Boot

(* A reading of CAN1 changes a state only from a way home to home.          *)
LEMMA ReadingStep ==
  ASSUME IInv, NEW s \in Side, NEW a \in Readings[s], can1_rec(s, a)
  PROVE  IInv'
<1>. DEFINE angle == IF ratioSet[s] THEN a ELSE 0
            first == ~calibrated[s] /\ angle # 0
            homing == (calibrated[s] \/ first) /\ state[s] \in Homing
            equal == IF homing /\ Repeats(s, angle) THEN count[s] + 1 ELSE count[s]
            home == homing /\ AtRest(equal)
            from == IF first THEN angle ELSE origin[s]
<1>1. /\ calibrated' = [calibrated EXCEPT ![s] = calibrated[s] \/ first]
      /\ set' = [set EXCEPT ![s] = IF first THEN angle ELSE set[s]]
      /\ origin' = [origin EXCEPT ![s] = from]
      /\ offset' = [offset EXCEPT ![s] =
                       IF home THEN Reasonable(s, from - encoder[s]) ELSE offset[s]]
      /\ state' = [state EXCEPT ![s] = IF home THEN rescue_unable ELSE state[s]]
      /\ count' = [count EXCEPT ![s] = IF home THEN 0 ELSE equal]
      /\ encoder' = [encoder EXCEPT ![s] = angle]
      /\ UNCHANGED <<rescue_cmd, loop, bootVars, mainVars, history>>
  BY DEF can1_rec
<1>2. /\ angle \in 0 .. Lap - 1 /\ origin[s] \in 0 .. Lap - 1
      /\ encoder[s] \in 0 .. Lap - 1 /\ Lap \in Nat
      /\ count[s] \in 0 .. Still /\ Still \in Nat
  BY TrailerAssumption DEF IInv, TypeOK
<1>3. home => homing /\ state[s] \in Homing
  OBVIOUS
<1>4. ~home => equal \in 0 .. Still
  BY <1>2 DEF AtRest
<1>. HIDE DEF home
<1>5. first \in BOOLEAN /\ from \in 0 .. Lap - 1
  BY <1>2
<1>. HIDE DEF angle, homing, equal, first
<1>6. LET o == Reasonable(s, from - encoder[s])
      IN /\ o \in Int
         /\ \/ -Limit[s] =< o /\ o =< Limit[s]
            \/ Limit[s] - Lap < o /\ o < Lap - Limit[s]
  <2>1. from - encoder[s] \in Int /\ -Lap < from - encoder[s] /\ from - encoder[s] < Lap
    BY <1>2, <1>5
  <2>. QED
    BY <2>1, ReasonableBound
<1>. HIDE DEF from
<1>7. TypeOK'
  <2>1. calibrated' \in [Side -> BOOLEAN]
    BY <1>1, <1>5 DEF IInv, TypeOK
  <2>2. /\ set' \in [Side -> Int] /\ origin' \in [Side -> 0 .. Lap - 1]
        /\ encoder' \in [Side -> 0 .. Lap - 1]
    BY <1>1, <1>2, <1>5 DEF IInv, TypeOK
  <2>3. offset' \in [Side -> Int]
    BY <1>1, <1>6 DEF IInv, TypeOK
  <2>4. count' \in [Side -> 0 .. Still]
    BY <1>1, <1>2, <1>4 DEF IInv, TypeOK
  <2>5. state' \in [Side -> 0 .. 15 \cup {r + LatchBit(r) : r \in Requests}]
    BY <1>1 DEF IInv, TypeOK
  <2>. QED
    BY <1>1, <2>1, <2>2, <2>3, <2>4, <2>5
       DEF IInv, TypeOK, bootVars, mainVars, history
<1>8. \A t \in Side :
        \/ state'[t] = state[t]
        \/ state[t] \in Homing /\ state'[t] = rescue_unable
  <2>1. DOMAIN state = Side
    BY DEF IInv, TypeOK
  <2>2. state' = [state EXCEPT ![s] = IF home THEN rescue_unable ELSE state[s]]
    BY <1>1
  <2>3. home => state[s] \in Homing
    BY <1>3
  <2>4. state'[s] = IF home THEN rescue_unable ELSE state[s]
    BY <2>1, <2>2
  <2>5. \A t \in Side : t # s => state'[t] = state[t]
    BY <2>1, <2>2
  <2>. QED
    BY <2>3, <2>4, <2>5
<1>9. Booting' /\ Control'
  <2>1. Booting'
    BY <1>1, <1>8, States DEF IInv, Booting, bootVars, mainVars
  <2>2. trailer_cur \in Side
    BY DEF IInv, TypeOK
  <2>3. Control'
    BY <1>1, <1>8, <2>2, States DEF IInv, Control, mainVars, Side
  <2>. QED
    BY <2>1, <2>3
<1>10. AppliedOnce'
  BY <1>1, <1>8, States DEF IInv, AppliedOnce, Pending, mainVars, history
<1>11. OffsetBounded'
  <2>1. \A t \in Side : offset'[t] = offset[t] \/ (t = s /\ offset'[t] = Reasonable(s, from - encoder[s]))
    BY <1>1 DEF IInv, TypeOK
  <2>. QED
    BY <1>6, <2>1 DEF IInv, OffsetBounded
<1>. QED
  BY <1>7, <1>9, <1>10, <1>11 DEF IInv

(* The command byte and the position loop touch nothing of this.            *)
LEMMA CommandStep ==
  ASSUME IInv, NEW c \in CmdBytes, read_gimbal_data(c) PROVE IInv'
<1>1. rescue_cmd' = c /\ UNCHANGED <<state, set, loop, bootVars, canVars, mainVars, history>>
  BY DEF read_gimbal_data
<1>2. TypeOK'
  BY <1>1 DEF IInv, TypeOK, bootVars, canVars, mainVars, history
<1>3. Booting' /\ Control'
  BY <1>1 DEF IInv, Booting, Control, bootVars, mainVars
<1>. QED
  BY <1>1, <1>2, <1>3, Untouched DEF IInv, canVars, mainVars, history

LEMMA LoopStep == IInv /\ trailer_tim_entry => IInv'
<1>. SUFFICES ASSUME IInv, NEW s \in Side, AngleLoad(s) \/ AngleStore(s) \/ AngleFold(s)
                PROVE  IInv'
  BY DEF trailer_tim_entry
<1>1. UNCHANGED <<state, rescue_cmd, bootVars, canVars, mainVars, history>>
  BY DEF AngleLoad, AngleStore, AngleFold
<1>2. /\ set' \in [Side -> Int]
      /\ loop' \in [at : Side \cup {"off"}, step : {"wait", "store", "fold"}, val : Int]
  <2>1. CASE AngleLoad(s)
    BY <2>1 DEF AngleLoad, IInv, TypeOK
  <2>2. CASE AngleStore(s)
    BY <2>2 DEF AngleStore, IInv, TypeOK, Other, Side
  <2>3. CASE AngleFold(s)
    <3>1. PICK v \in {loop.val, set[s]} : set' = [set EXCEPT ![s] = Folded(v)]
      BY <2>3 DEF AngleFold
    <3>2. Folded(v) \in Int
      BY TrailerAssumption DEF Folded, IInv, TypeOK
    <3>. QED
      BY <2>3, <3>1, <3>2 DEF AngleFold, IInv, TypeOK, Other, Side
  <2>. QED
    BY <1>1, <2>1, <2>2, <2>3
<1>3. TypeOK'
  BY <1>1, <1>2 DEF IInv, TypeOK, bootVars, canVars, mainVars, history
<1>4. Booting' /\ Control'
  BY <1>1 DEF IInv, Booting, Control, bootVars, mainVars
<1>. QED
  BY <1>1, <1>3, <1>4, Untouched DEF IInv, canVars, mainVars, history

(* The control loop, step by step.                                          *)
LEMMA CheckStep == IInv /\ Check => IInv'
<1>. SUFFICES ASSUME IInv, Check PROVE IInv'
  OBVIOUS
<1>1. /\ pc = "check" /\ pc' \in {"store_l", "go"}
      /\ pc' = "store_l" => BothHome
      /\ UNCHANGED <<state, set, rescue_cmd, loop, bootVars, canVars, trailer_cur,
                     reg, history>>
  BY DEF Check
<1>2. TypeOK'
  BY <1>1 DEF IInv, TypeOK, PcSet, bootVars, canVars, history
<1>3. Booting' /\ Control'
  BY <1>1 DEF IInv, Booting, Control, BothHome, bootVars
<1>4. AppliedOnce'
  BY <1>1 DEF IInv, AppliedOnce, Pending, history
<1>. QED
  BY <1>1, <1>2, <1>3, <1>4, Untouched DEF IInv, canVars

(* A request is stored over rescue_unable: it is accepted and pending.      *)
LEMMA StoreStep == ASSUME IInv, NEW s \in Side, Store(s) PROVE IInv'
<1>. DEFINE st == rescue_cmd \div 16
<1>1. /\ pc = (IF s = "l" THEN "store_l" ELSE "store_r")
      /\ state' = [state EXCEPT ![s] = st]
      /\ accepted' = [accepted EXCEPT ![s] =
                        IF st \in Requests THEN accepted[s] + 1 ELSE accepted[s]]
      /\ pc' = IF s = "l" THEN "store_r" ELSE "go"
      /\ UNCHANGED <<set, rescue_cmd, loop, bootVars, canVars, trailer_cur, reg, moved>>
  BY DEF Store
<1>2. st \in 0 .. 15
  <2>1. rescue_cmd \in CmdBytes \cup {0, 1}
    BY DEF IInv, TypeOK
  <2>. QED
    BY <2>1, TrailerAssumption, HighHalf
<1>. HIDE DEF st
<1>3. state[s] = rescue_unable /\ (s = "l" => state["r"] = rescue_unable)
  BY <1>1 DEF IInv, Control, Side
<1>4. TypeOK'
  <2>1. state' \in [Side -> 0 .. 15 \cup {r + LatchBit(r) : r \in Requests}]
    BY <1>1, <1>2 DEF IInv, TypeOK
  <2>2. accepted' \in [Side -> Nat] /\ pc' \in PcSet
    BY <1>1 DEF IInv, TypeOK, PcSet
  <2>. QED
    BY <1>1, <2>1, <2>2 DEF IInv, TypeOK, bootVars, canVars
<1>5. Booting'
  BY <1>1 DEF IInv, Booting, bootVars
<1>6. Control'
  <2>1. state'[s] \in 0 .. 15 /\ (s = "l" => state'["r"] = rescue_unable)
    BY <1>1, <1>2, <1>3 DEF IInv, TypeOK, Side
  <2>2. pc' \in {"store_r", "go"} /\ (pc' = "store_r" => s = "l")
    BY <1>1
  <2>. QED
    BY <2>1, <2>2 DEF Control
<1>7. AppliedOnce'
  <2>1. accepted[s] = moved[s] /\ moved[s] \in Nat
    BY <1>3, States DEF IInv, TypeOK, AppliedOnce, Pending
  <2>2. /\ accepted'[s] = (IF st \in Requests THEN moved[s] + 1 ELSE moved[s])
        /\ state'[s] = st /\ moved' = moved
    BY <1>1, <2>1 DEF IInv, TypeOK
  <2>3. pc # "latch" /\ pc' # "latch"
    BY <1>1
  <2>4. \A t \in Side : t # s => accepted'[t] = accepted[t] /\ state'[t] = state[t]
    BY <1>1 DEF IInv, TypeOK
  <2>5. accepted'[s] = moved'[s] + (IF Pending(s)' THEN 1 ELSE 0)
    BY <2>1, <2>2, <2>3 DEF Pending
  <2>6. ASSUME NEW t \in Side, t # s
        PROVE  accepted'[t] = moved'[t] + (IF Pending(t)' THEN 1 ELSE 0)
    BY <2>2, <2>3, <2>4, <2>6 DEF IInv, AppliedOnce, Pending
  <2>. QED
    BY <2>5, <2>6 DEF AppliedOnce
<1>. QED
  BY <1>1, <1>4, <1>5, <1>6, <1>7, Untouched DEF IInv, canVars

LEMMA GoLoadStep == ASSUME IInv, NEW s \in Side, GoLoad(s) PROVE IInv'
<1>1. /\ pc = "go" /\ pc' = "add" /\ trailer_cur = s /\ state[s] \in Requests
      /\ reg' = set[s]
      /\ UNCHANGED <<state, set, rescue_cmd, loop, bootVars, canVars, trailer_cur, history>>
  BY DEF GoLoad
<1>2. TypeOK'
  BY <1>1 DEF IInv, TypeOK, PcSet, bootVars, canVars, history
<1>3. Booting' /\ Control'
  BY <1>1 DEF IInv, Booting, Control, bootVars
<1>4. AppliedOnce'
  BY <1>1 DEF IInv, AppliedOnce, Pending, history
<1>. QED
  BY <1>1, <1>2, <1>3, <1>4, Untouched DEF IInv, canVars

(* The addition: the request is pending no longer, although its state is.   *)
LEMMA GoAddStep == ASSUME IInv, NEW s \in Side, GoAdd(s) PROVE IInv'
<1>1. /\ pc = "add" /\ pc' = "latch" /\ trailer_cur = s
      /\ set' = [set EXCEPT ![s] = reg + Delta(s, state[s])]
      /\ moved' = [moved EXCEPT ![s] = moved[s] + 1]
      /\ reg' = state[s]
      /\ UNCHANGED <<state, rescue_cmd, loop, bootVars, canVars, trailer_cur, accepted>>
  BY DEF GoAdd
<1>2. state[s] \in Requests
  BY <1>1 DEF IInv, Control
<1>3. TypeOK'
  <2>1. Prepare[s] \in Int /\ Catch[s] \in Int /\ offset[s] \in Int /\ reg \in Int
    BY TrailerAssumption DEF IInv, TypeOK
  <2>2. ToReady(s) \in Int
    BY <2>1 DEF ToReady
  <2>3. Delta(s, state[s]) \in Int
    BY <2>1, <2>2 DEF Delta
  <2>4. set' \in [Side -> Int]
    BY <1>1, <2>1, <2>3 DEF IInv, TypeOK
  <2>5. moved' \in [Side -> Nat] /\ pc' \in PcSet /\ reg' \in Int
    BY <1>1, <1>2 DEF IInv, TypeOK, PcSet, Requests
  <2>. QED
    BY <1>1, <2>4, <2>5 DEF IInv, TypeOK, bootVars, canVars
<1>4. Booting' /\ Control'
  BY <1>1, <1>2 DEF IInv, Booting, Control, bootVars
<1>5. AppliedOnce'
  <2>1. accepted[s] = moved[s] + 1 /\ moved'[s] = moved[s] + 1 /\ accepted' = accepted
    BY <1>1, <1>2 DEF IInv, TypeOK, AppliedOnce, Pending
  <2>2. ~Pending(s)' /\ moved'[s] \in Nat
    BY <1>1, <1>3 DEF Pending, TypeOK
  <2>3. ASSUME NEW t \in Side, t # s
        PROVE  accepted'[t] = moved'[t] + (IF Pending(t)' THEN 1 ELSE 0)
    <3>1. moved'[t] = moved[t] /\ (Pending(t)' <=> Pending(t))
      BY <1>1, <2>3 DEF IInv, TypeOK, Pending
    <3>. QED
      BY <2>1, <3>1 DEF IInv, AppliedOnce
  <2>. QED
    BY <2>1, <2>2, <2>3 DEF AppliedOnce
<1>. QED
  BY <1>1, <1>3, <1>4, <1>5, Untouched DEF IInv, canVars

(* The latch: the state is no request any more.                             *)
LEMMA GoLatchStep == ASSUME IInv, NEW s \in Side, GoLatch(s) PROVE IInv'
<1>1. /\ pc = "latch" /\ pc' = "check" /\ trailer_cur = s /\ trailer_cur' = Other(s)
      /\ state' = [state EXCEPT ![s] = reg + LatchBit(reg)]
      /\ reg' = 0
      /\ UNCHANGED <<set, rescue_cmd, loop, bootVars, canVars, history>>
  BY DEF GoLatch
<1>2. reg \in Requests /\ reg = state[s]
  BY <1>1 DEF IInv, Control
<1>3. TypeOK'
  <2>1. state' \in [Side -> 0 .. 15 \cup {r + LatchBit(r) : r \in Requests}]
    BY <1>1, <1>2 DEF IInv, TypeOK
  <2>. QED
    BY <1>1, <2>1 DEF IInv, TypeOK, PcSet, Other, Side, bootVars, canVars, history
<1>4. Booting' /\ Control'
  BY <1>1 DEF IInv, Booting, Control, bootVars
<1>5. AppliedOnce'
  <2>1. state'[s] \notin Requests
    BY <1>1, <1>2, States DEF IInv, TypeOK
  <2>2. ~Pending(s) /\ ~Pending(s)'
    BY <1>1, <2>1 DEF Pending
  <2>3. \A t \in Side : t # s => (Pending(t)' <=> Pending(t))
    BY <1>1 DEF IInv, TypeOK, Pending
  <2>. QED
    BY <1>1, <2>2, <2>3 DEF IInv, AppliedOnce, history
<1>. QED
  BY <1>1, <1>3, <1>4, <1>5, Untouched DEF IInv, canVars

LEMMA GoNothingStep == ASSUME IInv, NEW s \in Side, GoNothing(s) PROVE IInv'
<1>1. /\ pc = "go" /\ pc' = "check" /\ trailer_cur' = Other(s)
      /\ UNCHANGED <<state, set, rescue_cmd, loop, bootVars, canVars, reg, history>>
  BY DEF GoNothing
<1>2. TypeOK'
  BY <1>1 DEF IInv, TypeOK, PcSet, Other, Side, bootVars, canVars, history
<1>3. Booting' /\ Control'
  BY <1>1 DEF IInv, Booting, Control, bootVars
<1>4. AppliedOnce'
  BY <1>1 DEF IInv, AppliedOnce, Pending, history
<1>. QED
  BY <1>1, <1>2, <1>3, <1>4, Untouched DEF IInv, canVars

LEMMA Invariance == Spec => []IInv
<1>1. IInv /\ UNCHANGED vars => IInv'
  BY DEF vars, IInv, TypeOK, Booting, Control, AppliedOnce, Pending, OffsetBounded
<1>2. IInv /\ [Next]_vars => IInv'
  BY <1>1, BootStep, ReadingStep, CommandStep, LoopStep, CheckStep, StoreStep,
     GoLoadStep, GoAddStep, GoLatchStep, GoNothingStep
     DEF Next, Receive, main_thread_entry
<1>. QED
  BY <1>2, InitInvariant, PTL DEF Spec

(* Every variable stays in its type: a state is half a command byte, or a   *)
(* request with its latch bit, whatever CAN1 and the loops interleave.      *)
THEOREM TypeCorrect == Spec => []TypeOK
BY Invariance, PTL DEF IInv

(* trailer_go applies each accepted request once (its non-atomic latch,     *)
(* beside can1_rec).  It does not say that the set point keeps the move,    *)
(* which the position loop may overwrite.                                   *)
THEOREM RequestsOnce == Spec => []AppliedOnce
BY Invariance, PTL DEF IInv

(* No correction is longer than its side's threshold allows (can1_rec).     *)
THEOREM BoundedOffset == Spec => []OffsetBounded
BY Invariance, PTL DEF IInv

(* Which steps change a state, and from what.                               *)
LEMMA StateChanges ==
  ASSUME IInv, [Next]_vars, NEW s \in Side, state'[s] # state[s]
  PROVE  \/ boot = "init" /\ state'[s] = rescue_unable
         \/ state[s] \in Homing /\ state'[s] = rescue_unable
         \/ state[s] = rescue_unable /\ Store(s)
         \/ state[s] \in Requests /\ state'[s] \notin Requests
<1>1. DOMAIN state = Side
  BY DEF IInv, TypeOK
<1>2. ASSUME NEW t \in Side, TrailerInit(t)
      PROVE  boot = "init" /\ state'[s] = rescue_unable
  BY <1>1, <1>2 DEF TrailerInit
<1>3. ASSUME NEW t \in Side, NEW a \in Readings[t], can1_rec(t, a)
      PROVE  state[s] \in Homing /\ state'[s] = rescue_unable
  BY <1>1, <1>3 DEF can1_rec
<1>4. ASSUME NEW t \in Side, Store(t)
      PROVE  state[s] = rescue_unable /\ Store(s)
  <2>1. state' = [state EXCEPT ![t] = rescue_cmd \div 16]
    BY <1>4 DEF Store
  <2>2. s = t
    BY <1>1, <2>1
  <2>3. state[s] = rescue_unable
    BY <1>4, <2>2 DEF Store, IInv, Control, Side
  <2>. QED
    BY <1>4, <2>2, <2>3
<1>5. ASSUME NEW t \in Side, GoLatch(t)
      PROVE  state[s] \in Requests /\ state'[s] \notin Requests
  <2>1. state' = [state EXCEPT ![t] = reg + LatchBit(reg)]
    BY <1>5 DEF GoLatch
  <2>2. s = t
    BY <1>1, <2>1
  <2>3. reg = state[s] /\ state[s] \in Requests
    BY <1>5, <2>2 DEF GoLatch, IInv, Control
  <2>. QED
    BY <1>1, <2>1, <2>2, <2>3, States
<1>6. CASE UNCHANGED state
  BY <1>6
<1>7. CASE UNCHANGED vars
  BY <1>6, <1>7 DEF vars
<1>8. ASSUME NEW t \in Side,
             PidInit(t) \/ AngleLoad(t) \/ AngleStore(t) \/ AngleFold(t)
               \/ GoLoad(t) \/ GoAdd(t) \/ GoNothing(t)
      PROVE  UNCHANGED state
  BY <1>8 DEF PidInit, AngleLoad, AngleStore, AngleFold, GoLoad, GoAdd, GoNothing
<1>9. ASSUME StartLoop \/ gimbal_ctrl_init \/ main_thread_init \/ Check
      PROVE  UNCHANGED state
  BY <1>9 DEF StartLoop, gimbal_ctrl_init, main_thread_init, Check
<1>10. ASSUME NEW c \in CmdBytes, read_gimbal_data(c) PROVE UNCHANGED state
  BY <1>10 DEF read_gimbal_data
<1>. QED
  BY <1>2, <1>3, <1>4, <1>5, <1>6, <1>7, <1>8, <1>9, <1>10
     DEF Next, Boot, trailer_tim_entry, main_thread_entry, Receive

(* An arm in a state other than a request or a way home stays there: the    *)
(* ready and the closed position and the state 0 are left by no step.       *)
THEOREM NoWayOut == Spec => OnlyResetsEnd
<1>1. IInv /\ [Next]_vars =>
        \A s \in Side :
          (boot = "done" /\ state[s] \notin Requests \cup Homing \cup {rescue_unable})
            => state'[s] = state[s]
  BY StateChanges
<1>. QED
  BY <1>1, Invariance, PTL DEF Spec, OnlyResetsEnd

(* No arm leaves home while the other executes an earlier command           *)
(* (main_thread_entry takes a command only when both are home).             *)
THEOREM CommandsTogether == Spec => NewCommandOnlyWhenBothHome
<1>1. IInv /\ [Next]_vars =>
        \A s \in Side :
          (state[s] = rescue_unable /\ state'[s] \in Requests)
            => \/ state[Other(s)] = rescue_unable
               \/ s = "r" /\ state["l"] \in 0 .. 15
  <2>. SUFFICES ASSUME IInv, [Next]_vars, NEW s \in Side,
                       state[s] = rescue_unable, state'[s] \in Requests
                PROVE  \/ state[Other(s)] = rescue_unable
                       \/ s = "r" /\ state["l"] \in 0 .. 15
    OBVIOUS
  <2>1. Store(s)
    BY StateChanges, States
  <2>2. CASE s = "l"
    BY <2>1, <2>2 DEF Store, IInv, Control, Other, Side
  <2>3. CASE s = "r"
    BY <2>1, <2>3 DEF Store, IInv, Control
  <2>. QED
    BY <2>2, <2>3 DEF Side
<1>. QED
  BY <1>1, Invariance, PTL DEF Spec, NewCommandOnlyWhenBothHome

(* Only a reading of its own encoder brings an arm home.                    *)
LEMMA HomingEnds ==
  ASSUME IInv, [Next]_vars, NEW s \in Side, state[s] \in Homing, state'[s] = rescue_unable
  PROVE  \E a \in Readings[s] : can1_rec(s, a)
<1>1. DOMAIN state = Side /\ state'[s] # state[s]
  BY DEF IInv, TypeOK, Homing
<1>2. ASSUME NEW t \in Side, TrailerInit(t) PROVE FALSE
  BY <1>2, States DEF TrailerInit, IInv, Booting
<1>3. ASSUME NEW t \in Side, NEW a \in Readings[t], can1_rec(t, a)
      PROVE  t = s
  BY <1>1, <1>3 DEF can1_rec
<1>4. ASSUME NEW t \in Side, Store(t) PROVE FALSE
  <2>1. state[t] = rescue_unable /\ state' = [state EXCEPT ![t] = rescue_cmd \div 16]
    BY <1>4 DEF Store, IInv, Control, Side
  <2>2. s = t
    BY <1>1, <2>1
  <2>. QED
    BY <2>1, <2>2 DEF Homing
<1>5. ASSUME NEW t \in Side, GoLatch(t) PROVE FALSE
  <2>1. state[t] \in Requests /\ state' = [state EXCEPT ![t] = reg + LatchBit(reg)]
    BY <1>5 DEF GoLatch, IInv, Control
  <2>2. s = t
    BY <1>1, <2>1
  <2>. QED
    BY <2>1, <2>2, States
<1>6. CASE UNCHANGED state
  BY <1>1, <1>6
<1>7. CASE UNCHANGED vars
  BY <1>6, <1>7 DEF vars
<1>8. ASSUME NEW t \in Side,
             PidInit(t) \/ AngleLoad(t) \/ AngleStore(t) \/ AngleFold(t)
               \/ GoLoad(t) \/ GoAdd(t) \/ GoNothing(t)
      PROVE  UNCHANGED state
  BY <1>8 DEF PidInit, AngleLoad, AngleStore, AngleFold, GoLoad, GoAdd, GoNothing
<1>9. ASSUME StartLoop \/ gimbal_ctrl_init \/ main_thread_init \/ Check
      PROVE  UNCHANGED state
  BY <1>9 DEF StartLoop, gimbal_ctrl_init, main_thread_init, Check
<1>10. ASSUME NEW c \in CmdBytes, read_gimbal_data(c) PROVE UNCHANGED state
  BY <1>10 DEF read_gimbal_data
<1>. QED
  BY <1>2, <1>3, <1>4, <1>5, <1>6, <1>7, <1>8, <1>9, <1>10
     DEF Next, Boot, trailer_tim_entry, main_thread_entry, Receive

(* An arm that is not calibrated has counted nothing, so the reading that   *)
(* calibrates an arm never brings it home.                                  *)
Uncounted == \A s \in Side : ~calibrated[s] => count[s] = 0

LEMMA UncountedStep == IInv /\ Uncounted /\ [Next]_vars /\ Still > 0 => Uncounted'
<1>. SUFFICES ASSUME IInv, Uncounted, [Next]_vars, Still > 0 PROVE Uncounted'
  OBVIOUS
<1>1. CASE UNCHANGED <<calibrated, count>>
  BY <1>1 DEF Uncounted
<1>2. ASSUME NEW t \in Side, NEW a \in Readings[t], can1_rec(t, a)
      PROVE  Uncounted'
  <2>1. \A s \in Side : s # t => calibrated'[s] = calibrated[s] /\ count'[s] = count[s]
    BY <1>2 DEF can1_rec, IInv, TypeOK
  <2>2. ~calibrated'[t] => ~calibrated[t] /\ count'[t] = count[t]
    BY <1>2, TrailerAssumption DEF can1_rec, IInv, TypeOK, AtRest
  <2>. QED
    BY <2>1, <2>2 DEF Uncounted
<1>3. ASSUME NEW t \in Side,
             TrailerInit(t) \/ PidInit(t) \/ AngleLoad(t) \/ AngleStore(t) \/ AngleFold(t)
               \/ Store(t) \/ GoLoad(t) \/ GoAdd(t) \/ GoLatch(t) \/ GoNothing(t)
      PROVE  UNCHANGED <<calibrated, count>>
  BY <1>3 DEF TrailerInit, PidInit, AngleLoad, AngleStore, AngleFold, Store, GoLoad, GoAdd,
              GoLatch, GoNothing, canVars
<1>4. ASSUME StartLoop \/ gimbal_ctrl_init \/ main_thread_init \/ Check
      PROVE  UNCHANGED <<calibrated, count>>
  BY <1>4 DEF StartLoop, gimbal_ctrl_init, main_thread_init, Check, canVars
<1>5. ASSUME NEW c \in CmdBytes, read_gimbal_data(c) PROVE UNCHANGED <<calibrated, count>>
  BY <1>5 DEF read_gimbal_data, canVars
<1>6. CASE UNCHANGED vars
  BY <1>1, <1>6 DEF vars
<1>. QED
  BY <1>1, <1>2, <1>3, <1>4, <1>5, <1>6
     DEF Next, Boot, trailer_tim_entry, main_thread_entry, Receive

LEMMA HomeStep ==
  ASSUME IInv, Uncounted, Still > 0, [Next]_vars, NEW s \in Side,
         state[s] \in Homing, state'[s] = rescue_unable
  PROVE  /\ encoder'[s] = encoder[s] /\ count[s] = Still
         /\ offset'[s] = Reasonable(s, origin[s] - encoder'[s])
<1>1. PICK a \in Readings[s] : can1_rec(s, a)
  BY HomingEnds
<1>. DEFINE angle == IF ratioSet[s] THEN a ELSE 0
            first == ~calibrated[s] /\ angle # 0
            homing == (calibrated[s] \/ first) /\ state[s] \in Homing
            equal == IF homing /\ Repeats(s, angle) THEN count[s] + 1 ELSE count[s]
            home == homing /\ AtRest(equal)
            from == IF first THEN angle ELSE origin[s]
<1>2. /\ offset' = [offset EXCEPT ![s] =
                      IF home THEN Reasonable(s, from - encoder[s]) ELSE offset[s]]
      /\ state' = [state EXCEPT ![s] = IF home THEN rescue_unable ELSE state[s]]
      /\ encoder' = [encoder EXCEPT ![s] = angle]
  BY <1>1 DEF can1_rec
<1>3. /\ s \in DOMAIN offset /\ s \in DOMAIN state /\ s \in DOMAIN encoder
      /\ count[s] \in 0 .. Still /\ Still \in Nat
  BY TrailerAssumption DEF IInv, TypeOK
<1>4. home
  BY <1>2, <1>3 DEF Homing
<1>5. Repeats(s, angle) /\ count[s] = Still
  BY <1>3, <1>4 DEF AtRest
<1>6. ~first
  BY <1>3, <1>5 DEF Uncounted
<1>7. encoder'[s] = angle /\ encoder[s] = angle
  BY <1>2, <1>3, <1>5 DEF Repeats
<1>8. offset'[s] = Reasonable(s, from - encoder[s])
  BY <1>2, <1>3, <1>4
<1>. QED
  BY <1>5, <1>6, <1>7, <1>8

(* CAN1 declares an arm home only on a reading that repeats the one before, *)
(* and takes the offset from it, if it asks for a repetition at all.        *)
THEOREM HomeOnlyAtRest == ASSUME Still > 0 PROVE Spec => HomeAtRest
<1>1. Init => Uncounted
  BY DEF Init, Uncounted
<1>2. IInv /\ Uncounted /\ [Next]_vars => Uncounted'
  BY UncountedStep
<1>3. IInv /\ Uncounted /\ [Next]_vars =>
        [\A s \in Side :
           (state[s] \in Homing /\ state'[s] = rescue_unable)
             => /\ encoder'[s] = encoder[s] /\ count[s] = Still
                /\ offset'[s] = Reasonable(s, origin[s] - encoder'[s])]_vars
  BY HomeStep
<1>. QED
  BY <1>1, <1>2, <1>3, Invariance, PTL DEF Spec, HomeAtRest
==============================================================================
