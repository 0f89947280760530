----------------------------- MODULE Launch_proof -----------------------------
(* Proofs about the launcher, for every length of the turn, of the shot and *)
(* of the rest between two shots.                                           *)
EXTENDS Launch, TLAPS

(* The stamp is never younger than the last shot, but while it is set.      *)
Stamps == pc # "stamp" /\ age < Sleep => Elapsed =< age

(* A shot that is being fed was due.                                        *)
Feeding == pc \in {"load", "store"} => age = Sleep

(* A set point beyond the turn is folded before the next shot is due.       *)
Folding == /\ set =< Lap - 1 + Feed
           /\ set > Lap - 1 => age + due =< Period
           /\ pc \in {"store", "stop_store"} => reg =< Lap - 1

IInv == TypeOK /\ Stamps /\ Feeding /\ Folding

LEMMA Turn == Lap - 1 \in Nat \ {0}
BY LaunchAssumption

LEMMA InitInvariant == Init => IInv
<1>. SUFFICES ASSUME Init PROVE IInv
  OBVIOUS
<1>1. TypeOK
  <2>1. fast \in BOOLEAN
    BY DEF Init
  <2>. QED
    BY <2>1, LaunchAssumption DEF Init, TypeOK
<1>2. Stamps /\ Feeding
  BY LaunchAssumption DEF Init, Stamps, Feeding
<1>3. Folding
  BY LaunchAssumption DEF Init, Folding
<1>. QED
  BY <1>1, <1>2, <1>3 DEF IInv

LEMMA TickStep == IInv /\ Tick => IInv'
<1>. SUFFICES ASSUME IInv, Tick PROVE IInv'
  OBVIOUS
<1>1. UNCHANGED <<fast, angle, set, tick, pc, reg, want>> /\ due > 0
  BY DEF Tick
<1>2. due' = due - 1 /\ due' \in 0 .. Period /\ due' < due
  BY LaunchAssumption DEF Tick, IInv, TypeOK
<1>3. /\ now + 1 = Ticks => now' = 0
      /\ now + 1 # Ticks => now' = now + 1
      /\ now' \in 0 .. Ticks - 1
  BY LaunchAssumption DEF Tick, IInv, TypeOK
<1>4. /\ age < Sleep => age' = age + 1
      /\ ~(age < Sleep) => age' = age
      /\ age' \in 0 .. Sleep
  BY LaunchAssumption DEF Tick, IInv, TypeOK
<1>5. TypeOK'
  BY <1>1, <1>2, <1>3, <1>4 DEF IInv, TypeOK
<1>6. Stamps'
  <2>. SUFFICES ASSUME pc # "stamp", age' < Sleep PROVE Elapsed' =< age'
    BY <1>1 DEF Stamps
  <2>1. age < Sleep /\ age' = age + 1 /\ Elapsed =< age
    BY <1>4 DEF IInv, Stamps, TypeOK
  <2>2. tick' = tick
    BY <1>1
  <2>3. CASE now + 1 = Ticks
    <3>1. Elapsed' = Between(tick, 0)
      BY <1>3, <2>2, <2>3 DEF Elapsed
    <3>. QED
      BY <2>1, <2>3, <3>1, LaunchAssumption DEF Elapsed, Between, IInv, TypeOK
  <2>4. CASE now + 1 # Ticks
    <3>1. Elapsed' = Between(tick, now + 1)
      BY <1>3, <2>2, <2>4 DEF Elapsed
    <3>. QED
      BY <2>1, <3>1, LaunchAssumption DEF Elapsed, Between, IInv, TypeOK
  <2>. QED
    BY <2>3, <2>4
<1>7. Feeding'
  BY <1>1, <1>4 DEF IInv, Feeding, TypeOK
<1>8. Folding'
  BY <1>1, <1>2, <1>4, LaunchAssumption DEF IInv, Folding, TypeOK, Tick
<1>. QED
  BY <1>5, <1>6, <1>7, <1>8 DEF IInv

LEMMA TaskStep == IInv /\ task_10ms_entry => IInv'
<1>. SUFFICES ASSUME IInv, task_10ms_entry PROVE IInv'
  OBVIOUS
<1>1. UNCHANGED <<now, fast, angle, tick, pc, reg, age, want>> /\ due' = Period
  BY DEF task_10ms_entry, history
<1>2. set' = Folded(set)
  BY DEF task_10ms_entry
<1>3. set' \in Nat /\ set' =< Lap - 1
  BY <1>2, LaunchAssumption DEF Folded, IInv, TypeOK, Folding
<1>4. TypeOK'
  BY <1>1, <1>3, LaunchAssumption DEF IInv, TypeOK
<1>. QED
  BY <1>1, <1>3, <1>4, LaunchAssumption
  DEF IInv, Stamps, Elapsed, Feeding, Folding, TypeOK

(* The steps that change neither the set point nor what strike_fire is to   *)
(* store.                                                                   *)
LEMMA OtherStep ==
  ASSUME IInv, motor_readmsg \/ Gun_speed_set \/ Call \/ TestSpeed \/ Gate
  PROVE  IInv'
<1>1. UNCHANGED <<now, due, set, tick, reg, age, want>>
  BY DEF motor_readmsg, Gun_speed_set, Call, TestSpeed, Gate, history
<1>2. TypeOK'
  BY <1>1 DEF motor_readmsg, Gun_speed_set, Call, TestSpeed, Gate, Step, IInv, TypeOK
<1>3. /\ pc' # "stamp" => pc # "stamp"
      /\ pc' = "stop_store" => pc = "stop_store"
      /\ pc' = "store" => pc = "store"
      /\ pc' = "load" => pc = "load" \/ (pc = "gate" /\ Rested)
  BY DEF motor_readmsg, Gun_speed_set, Call, TestSpeed, Gate, Step
<1>4. Elapsed' = Elapsed
  BY <1>1 DEF Elapsed
<1>5. Stamps'
  BY <1>1, <1>3, <1>4 DEF IInv, Stamps
<1>6. Feeding'
  <2>1. pc = "gate" /\ Rested => age = Sleep
    BY LaunchAssumption DEF Rested, Elapsed, Between, IInv, Stamps, TypeOK
  <2>. QED
    BY <1>1, <1>2, <1>3, <2>1 DEF IInv, Feeding, TypeOK
<1>7. Folding'
  BY <1>1, <1>2, <1>3 DEF IInv, Folding, TypeOK
<1>. QED
  BY <1>2, <1>5, <1>6, <1>7 DEF IInv

(* Holding the feeder.                                                      *)
LEMMA StopStep == IInv /\ (StopLoad \/ StopStore) => IInv'
<1>. SUFFICES ASSUME IInv, StopLoad \/ StopStore PROVE IInv'
  OBVIOUS
<1>1. UNCHANGED <<now, due, fast, angle, tick, age>> /\ pc \in {"stop_load", "stop_store"}
      /\ pc' \in {"stop_store", "idle"}
  BY DEF StopLoad, StopStore, Step, history
<1>2. \/ set' = set /\ want' = want /\ reg' = angle
      \/ set' = reg /\ reg' = 0 /\ want' = reg % (Lap - 1) /\ pc = "stop_store" /\ pc' = "idle"
  BY DEF StopLoad, StopStore, Step, history
<1>3. reg % (Lap - 1) \in Nat
  BY Turn, LaunchAssumption DEF IInv, TypeOK
<1>4. TypeOK'
  BY <1>1, <1>2, <1>3, LaunchAssumption DEF IInv, TypeOK
<1>5. Elapsed' = Elapsed
  BY <1>1 DEF Elapsed
<1>6. Stamps' /\ Feeding'
  BY <1>1, <1>5 DEF IInv, Stamps, Feeding
<1>7. Folding'
  BY <1>1, <1>2, LaunchAssumption DEF IInv, Folding, TypeOK
<1>. QED
  BY <1>4, <1>6, <1>7 DEF IInv

(* Feeding a shot.                                                          *)
LEMMA FeedStep == IInv /\ (FeedLoad \/ FeedStore \/ Stamp) => IInv'
<1>1. ASSUME IInv, FeedLoad PROVE IInv'
  <2>1. /\ pc = "load" /\ pc' = "store" /\ reg' = set
        /\ UNCHANGED <<now, due, fast, angle, set, tick, age, want>>
    BY <1>1 DEF FeedLoad, Step, history
  <2>2. set =< Lap - 1
    BY <1>1, <2>1, LaunchAssumption DEF IInv, Feeding, Folding, TypeOK
  <2>. QED
    BY <1>1, <2>1, <2>2 DEF IInv, TypeOK, Stamps, Elapsed, Feeding, Folding
<1>2. ASSUME IInv, FeedStore PROVE IInv'
  <2>1. /\ pc = "store" /\ pc' = "stamp" /\ set' = reg + Feed /\ reg' = 0 /\ age' = 0
        /\ want' = (want + Feed) % (Lap - 1)
        /\ UNCHANGED <<now, due, fast, angle, tick>>
    BY <1>2 DEF FeedStore, Step
  <2>2. (want + Feed) % (Lap - 1) \in Nat
    BY <1>2, Turn, LaunchAssumption DEF IInv, TypeOK
  <2>3. TypeOK'
    BY <1>2, <2>1, <2>2, LaunchAssumption DEF IInv, TypeOK
  <2>. QED
    BY <1>2, <2>1, <2>3, LaunchAssumption DEF IInv, TypeOK, Stamps, Feeding, Folding
<1>3. ASSUME IInv, Stamp PROVE IInv'
  <2>1. /\ pc = "stamp" /\ pc' = "idle" /\ tick' = now
        /\ UNCHANGED <<now, due, fast, angle, set, reg, age, want>>
    BY <1>3 DEF Stamp, Stamped, Step, history
  <2>2. Elapsed' =< age'
    <3>1. Elapsed' = Between(now, now)
      BY <2>1 DEF Elapsed
    <3>. QED
      BY <1>3, <2>1, <3>1 DEF Between, IInv, TypeOK
  <2>. QED
    BY <1>3, <2>1, <2>2 DEF IInv, TypeOK, Stamps, Feeding, Folding
<1>. QED
  BY <1>1, <1>2, <1>3

(* IInv is an invariant.                                                    *)
THEOREM Invariant == Spec => []IInv
<1>1. IInv /\ [Next]_vars => IInv'
  <2>1. ASSUME IInv, UNCHANGED vars PROVE IInv'
    BY <2>1 DEF vars, IInv, TypeOK, Stamps, Elapsed, Feeding, Folding
  <2>. QED
    BY <2>1, TickStep, TaskStep, OtherStep, StopStep, FeedStep DEF Next, strike_fire
<1>. QED
  BY InitInvariant, <1>1, PTL DEF Spec

(* TypeOK, for every turn, shot, rest and range of the tick.                *)
THEOREM TypeCorrect == Spec => []TypeOK
<1>1. IInv => TypeOK
  BY DEF IInv
<1>. QED
  BY <1>1, Invariant, PTL

(* The fold of the 10 ms task is never overtaken by a second shot, for      *)
(* every rest that is longer than the task's period.                        *)
THEOREM NeverOvertaken == Spec => []SetFolded
<1>1. IInv => SetFolded
  BY DEF IInv, Folding, SetFolded
<1>. QED
  BY <1>1, Invariant, PTL

(* Two shots are tick_sleep ticks apart, for every rest that is shorter     *)
(* than the range of the tick, across its wrap.                             *)
THEOREM Interval == Spec => FireInterval
<1>1. IInv /\ [Next]_vars => [pc = "store" /\ pc' = "stamp" => age = Sleep]_vars
  BY DEF IInv, Feeding
<1>. QED
  BY <1>1, Invariant, PTL DEF Spec, FireInterval

------------------------------------------------------------------------------
(* No shot is lost.  What strike_fire has loaded is what the set point is   *)
(* modulo the fold, whatever the task has done to it since.                 *)
Exact == set % (Lap - 1) = want /\ (pc = "store" => reg % (Lap - 1) = want)

(* The remainder of a set point that is not more than two turns.            *)
LEMMA Remainder ==
  ASSUME NEW M \in Nat \ {0}, NEW x \in 0 .. 2 * M
  PROVE  x % M = IF x < M THEN x ELSE IF x < 2 * M THEN x - M ELSE 0
<1>1. CASE x < M
  BY <1>1, SMT
<1>2. CASE M =< x /\ x < 2 * M
  <2>1. x % M = x - M
    BY <1>2, SMT
  <2>. QED
    BY <1>2, <2>1
<1>3. CASE x = 2 * M
  <2>1. x % M = 0
    BY <1>3, SMT
  <2>. QED
    BY <1>3, <2>1
<1>. QED
  BY <1>1, <1>2, <1>3

LEMMA InTurn ==
  ASSUME NEW x \in 0 .. 2 * (Lap - 1)
  PROVE  /\ x < Lap - 1 => x % (Lap - 1) = x
         /\ Lap - 1 =< x /\ x < 2 * (Lap - 1) => x % (Lap - 1) = x - (Lap - 1)
         /\ x = 2 * (Lap - 1) => x % (Lap - 1) = 0
<1>. DEFINE M == Lap - 1
<1>1. M \in Nat \ {0} /\ x \in 0 .. 2 * M
  BY Turn
<1>. SUFFICES /\ x < M => x % M = x
              /\ M =< x /\ x < 2 * M => x % M = x - M
              /\ x = 2 * M => x % M = 0
  OBVIOUS
<1>. HIDE DEF M
<1>2. x % M = IF x < M THEN x ELSE IF x < 2 * M THEN x - M ELSE 0
  BY <1>1, Remainder
<1>. QED
  BY <1>1, <1>2

(* The fold keeps it, and a shot adds to it.                                *)
LEMMA FoldKeeps == ASSUME NEW x \in 0 .. 2 * (Lap - 1)
                   PROVE  Folded(x) % (Lap - 1) = x % (Lap - 1)
<1>1. CASE x =< Lap - 1
  BY <1>1, LaunchAssumption DEF Folded
<1>2. CASE Lap - 1 < x
  <2>1. Folded(x) = x - (Lap - 1) /\ x - (Lap - 1) \in 0 .. Lap - 1
    BY <1>2, LaunchAssumption DEF Folded
  <2>2. CASE x < 2 * (Lap - 1)
    <3>1. x % (Lap - 1) = x - (Lap - 1)
      BY <1>2, <2>2, InTurn, LaunchAssumption
    <3>2. (x - (Lap - 1)) % (Lap - 1) = x - (Lap - 1)
      BY <2>1, <2>2, InTurn, LaunchAssumption
    <3>. QED
      BY <2>1, <3>1, <3>2
  <2>3. CASE x = 2 * (Lap - 1)
    <3>1. x % (Lap - 1) = 0
      BY <2>3, InTurn, LaunchAssumption
    <3>2. x - (Lap - 1) = Lap - 1
      BY <2>3, LaunchAssumption
    <3>3. (Lap - 1) % (Lap - 1) = 0
      BY InTurn, LaunchAssumption
    <3>. QED
      BY <2>1, <3>1, <3>2, <3>3
  <2>. QED
    BY <2>2, <2>3, LaunchAssumption
<1>. QED
  BY <1>1, <1>2, LaunchAssumption

LEMMA ShotAdds == ASSUME NEW x \in 0 .. Lap - 1
                  PROVE  (x + Feed) % (Lap - 1) = ((x % (Lap - 1)) + Feed) % (Lap - 1)
<1>1. CASE x < Lap - 1
  <2>1. x % (Lap - 1) = x
    BY <1>1, Turn, Remainder, LaunchAssumption
  <2>. QED
    BY <2>1
<1>2. CASE x = Lap - 1
  <2>1. (Lap - 1) % (Lap - 1) = 0
    BY InTurn, LaunchAssumption
  <2>2. (Lap - 1 + Feed) % (Lap - 1) = Feed % (Lap - 1)
    <3>1. CASE Feed < Lap - 1
      <4>1. (Lap - 1 + Feed) % (Lap - 1) = Feed
        BY <3>1, InTurn, LaunchAssumption
      <4>2. Feed % (Lap - 1) = Feed
        BY <3>1, InTurn, LaunchAssumption
      <4>. QED
        BY <4>1, <4>2
    <3>2. CASE Feed = Lap - 1
      <4>1. Lap - 1 + Feed = 2 * (Lap - 1) /\ 2 * (Lap - 1) \in 0 .. 2 * (Lap - 1)
        BY <3>2, LaunchAssumption
      <4>2. (2 * (Lap - 1)) % (Lap - 1) = 0
        BY <4>1, InTurn
      <4>. QED
        BY <2>1, <3>2, <4>1, <4>2
    <3>. QED
      BY <3>1, <3>2, LaunchAssumption
  <2>3. 0 + Feed = Feed
    BY LaunchAssumption
  <2>. QED
    BY <1>2, <2>1, <2>2, <2>3
<1>. QED
  BY <1>1, <1>2, LaunchAssumption

LEMMA ExactStep == IInv /\ Exact /\ [Next]_vars => Exact'
<1>. SUFFICES ASSUME IInv, Exact, [Next]_vars PROVE Exact'
  OBVIOUS
<1>1. CASE UNCHANGED <<set, want, reg>> /\ (pc' = "store" => pc = "store")
  BY <1>1 DEF Exact
<1>2. CASE UNCHANGED vars \/ Tick \/ motor_readmsg \/ Gun_speed_set \/ Call \/ TestSpeed
           \/ Gate \/ Stamp
  BY <1>1, <1>2 DEF vars, history, Tick, motor_readmsg, Gun_speed_set, Call, TestSpeed, Gate,
                    Stamp, Step
<1>3. CASE task_10ms_entry
  <2>1. Folded(set) % (Lap - 1) = set % (Lap - 1)
    BY FoldKeeps, LaunchAssumption DEF IInv, TypeOK, Folding
  <2>2. set' = Folded(set) /\ UNCHANGED <<want, reg, pc>>
    BY <1>3 DEF task_10ms_entry, history
  <2>. QED
    BY <2>1, <2>2 DEF Exact
<1>4. CASE StopLoad
  BY <1>4 DEF Exact, StopLoad, Step, history
<1>5. CASE StopStore
  BY <1>5 DEF Exact, StopStore, Step
<1>6. CASE FeedLoad
  BY <1>6 DEF Exact, FeedLoad, Step, history
<1>7. CASE FeedStore
  <2>1. (reg + Feed) % (Lap - 1) = ((reg % (Lap - 1)) + Feed) % (Lap - 1)
    BY <1>7, ShotAdds DEF FeedStore, Step, IInv, TypeOK, Folding
  <2>2. /\ pc = "store" /\ pc' = "stamp" /\ set' = reg + Feed
        /\ want' = (want + Feed) % (Lap - 1)
    BY <1>7 DEF FeedStore, Step
  <2>. QED
    BY <2>1, <2>2 DEF Exact
<1>. QED
  BY <1>2, <1>3, <1>4, <1>5, <1>6, <1>7 DEF Next, strike_fire

(* Every shot moves the set point by FIRE_ANGLE, modulo the fold, whatever  *)
(* the 10 ms task comes between.                                            *)
THEOREM NoShotLost == Spec => []FeedExact
<1>1. Init => Exact
  <2>1. 0 % (Lap - 1) = 0
    BY InTurn, LaunchAssumption
  <2>. QED
    BY <2>1 DEF Init, Exact
<1>2. Exact => FeedExact
  BY DEF Exact, FeedExact
<1>. QED
  BY <1>1, <1>2, ExactStep, Invariant, PTL DEF Spec
==============================================================================
