--------------------------- MODULE MotorAngle_proof ---------------------------
(***************************************************************************)
(* Proofs about the motor reader: the total follows the rotor, and the      *)
(* angle behind the gearbox the total, for every encoder, slack and gear    *)
(* the assumption admits, as long as the speed of a frame has the sign of   *)
(* the movement.                                                            *)
(***************************************************************************)
EXTENDS MotorAngle, TLAPS

(* The inductive invariant: after a frame the reader holds the encoder's    *)
(* angle, and its laps are the rotor's or one less.                         *)
Held ==
  /\ ~heard => base = 0 /\ old_angle = 0 /\ all_angle = 0
  /\ heard => old_angle = enc /\ (all_angle = base \/ all_angle = base - Lap)

IInv == TypeOK /\ Held

(* The angle behind the gearbox is within a turn for every total.           *)
LEMMA GearedRange == ASSUME NEW t \in Int PROVE Geared(t) \in 0 .. Lap - 1
<1>1. Unsigned(t) \in Int
  BY MotorAssumption DEF Unsigned
<1>2. Unsigned(t) * P \in Int
  BY <1>1, MotorAssumption
<1>3. (Unsigned(t) * P) \div Q \in Int
  BY <1>2, MotorAssumption
<1>. QED
  BY <1>3, MotorAssumption DEF Geared

(* A rotation goes over the end of the range at most once, and not against  *)
(* its direction.                                                           *)
LEMMA CarryRange ==
  ASSUME TypeOK, NEW d \in -MaxStep .. MaxStep
  PROVE  /\ Carry(d) \in {-Lap, 0, Lap}
         /\ enc + d - Carry(d) \in 0 .. Lap - 1
         /\ d >= 0 => Carry(d) \in {0, Lap}
         /\ d =< 0 => Carry(d) \in {-Lap, 0}
BY MotorAssumption DEF TypeOK, Carry

(* Where the movement agrees with the speed, the reader counts a lap        *)
(* exactly when the rotor goes over the end of the range.                   *)
LEMMA CrossingExact ==
  ASSUME IInv, heard, NEW d \in -MaxStep .. MaxStep, NEW v \in Signs, Aligned(d, v)
  PROVE  Crossing(enc + d - Carry(d), v) = Carry(d)
<1>1. old_angle = enc /\ enc \in 0 .. Lap - 1 /\ v \in Int
  BY DEF IInv, Held, TypeOK, Signs
<1>2. CASE v >= 0
  <2>1. d \in 0 .. MaxStep
    BY <1>1, <1>2, MotorAssumption DEF Aligned
  <2>2. CASE enc > Half
    <3>1. Unsigned(old_angle - Slack) = enc - Slack
      BY <1>1, <2>2, MotorAssumption DEF Unsigned
    <3>. QED
      BY <1>1, <1>2, <2>1, <2>2, <3>1, MotorAssumption DEF Crossing, Carry
  <2>3. CASE enc =< Half
    BY <1>1, <1>2, <2>1, <2>3, MotorAssumption DEF Crossing, Carry
  <2>. QED
    BY <1>1, <2>2, <2>3, MotorAssumption
<1>3. CASE v < 0
  <2>1. d \in -MaxStep .. 0
    BY <1>1, <1>3, MotorAssumption DEF Aligned
  <2>. QED
    BY <1>1, <1>3, <2>1, MotorAssumption DEF Crossing, Carry
<1>. QED
  BY <1>1, <1>2, <1>3

(* The first frame: no lap, or one backwards.                               *)
LEMMA FirstCrossing ==
  ASSUME IInv, ~heard, NEW v \in Signs
  PROVE  Crossing(enc, v) \in {0, -Lap}
<1>1. old_angle = 0 /\ enc \in 0 .. Lap - 1 /\ v \in -1 .. 1
  BY DEF IInv, Held, TypeOK, Signs
<1>. QED
  BY <1>1, MotorAssumption DEF Crossing, Unsigned

LEMMA Invariance == AlignedSpec => []IInv
<1>1. Init => IInv
  <2>. SUFFICES ASSUME Init PROVE IInv
    OBVIOUS
  <2>1. heard \in BOOLEAN /\ ~heard
    BY Zenon DEF Init
  <2>2. /\ base \in -MaxBase .. MaxBase /\ enc \in 0 .. Lap - 1
        /\ speed \in -1 .. 1 /\ old_angle \in 0 .. Lap - 1 /\ all_angle \in Int
        /\ angle \in 0 .. Lap - 1
    BY MotorAssumption DEF Init
  <2>3. base = 0 /\ old_angle = 0 /\ all_angle = 0
    BY DEF Init
  <2>. QED
    BY Zenon, <2>1, <2>2, <2>3 DEF IInv, TypeOK, Held, Signs
<1>2. IInv /\ [AlignedNext]_vars => IInv'
  <2>. SUFFICES ASSUME IInv, [AlignedNext]_vars PROVE IInv'
    OBVIOUS
  <2>1. ASSUME NEW v \in Signs, First(v) PROVE IInv'
    <3>1. /\ ~heard /\ base' = base /\ enc' = enc /\ heard' = TRUE
          /\ speed' = v /\ old_angle' = enc
          /\ all_angle' = all_angle + Crossing(enc, v)
          /\ angle' = Geared(all_angle' + enc)
      BY <2>1 DEF First, motor_readmsg, rotor
    <3>2. all_angle' \in {0, -Lap}
      BY <3>1, FirstCrossing, MotorAssumption DEF IInv, Held
    <3>3. angle' \in 0 .. Lap - 1
      BY <3>1, <3>2, GearedRange, MotorAssumption DEF IInv, TypeOK
    <3>. QED
      BY <3>1, <3>2, <3>3, MotorAssumption DEF IInv, TypeOK, Held
  <2>2. ASSUME NEW d \in -MaxStep .. MaxStep, NEW v \in Signs,
               Aligned(d, v), Frame(d, v)
        PROVE IInv'
    <3>1. /\ heard /\ heard' = TRUE
          /\ base' = base + Carry(d) /\ enc' = enc + d - Carry(d)
          /\ base + Carry(d) \in -MaxBase .. MaxBase
          /\ speed' = v /\ old_angle' = enc'
          /\ all_angle' = all_angle + Carry(d)
          /\ angle' = Geared(all_angle' + enc')
      BY <2>2, CrossingExact DEF Frame, Rotate, motor_readmsg
    <3>2. /\ enc' \in 0 .. Lap - 1 /\ Carry(d) \in Int
      BY <3>1, CarryRange, MotorAssumption DEF IInv
    <3>3. /\ all_angle \in Int /\ base \in Int
          /\ all_angle = base \/ all_angle = base - Lap
      BY <3>1, MotorAssumption DEF IInv, TypeOK, Held
    <3>4. /\ all_angle + Carry(d) \in Int
          /\ \/ all_angle + Carry(d) = base + Carry(d)
             \/ all_angle + Carry(d) = (base + Carry(d)) - Lap
      BY <3>2, <3>3, MotorAssumption
    <3>5. /\ all_angle' \in Int /\ (all_angle' = base' \/ all_angle' = base' - Lap)
      BY <3>1, <3>4
    <3>6. angle' \in 0 .. Lap - 1
      BY <3>1, <3>2, <3>5, GearedRange, MotorAssumption
    <3>. QED
      BY <2>2, <3>1, <3>2, <3>5, <3>6 DEF IInv, TypeOK, Held
  <2>3. CASE UNCHANGED vars
    BY <2>3 DEF vars, IInv, TypeOK, Held
  <2>. QED
    BY <2>1, <2>2, <2>3 DEF AlignedNext
<1>. QED
  BY <1>1, <1>2, PTL DEF AlignedSpec

(* Every variable of the reader stays in its type, the angle behind the     *)
(* gearbox within a turn (motor_angle_adjsut).                              *)
THEOREM TypeCorrect == AlignedSpec => []TypeOK
BY Invariance, PTL DEF IInv

(* The total never leaves the rotor: it is where the rotor is, in the turn  *)
(* the first frame found or in the one before (motor_angle_adjsut).         *)
THEOREM Tracking == AlignedSpec => []Tracks
<1>1. IInv => Tracks
  BY MotorAssumption DEF IInv, TypeOK, Held, Tracks, total, shaft
<1>. QED
  BY <1>1, Invariance, PTL

(* The reader implements the counter: frame by frame the total moves as the *)
(* rotor does, so no lap is lost or counted twice (motor_angle_adjsut).     *)
THEOREM Counting == AlignedSpec => CounterSpec
<1>1. Init => Counter!Init
  BY MotorAssumption DEF Init, Counter!Init, total, shaft
<1>2. IInv /\ [AlignedNext]_vars => [Counter!Next]_<<shaft, total, heard>>
  <2>. SUFFICES ASSUME IInv, [AlignedNext]_vars
                PROVE  [Counter!Next]_<<shaft, total, heard>>
    OBVIOUS
  <2>1. ASSUME NEW v \in Signs, First(v) PROVE Counter!FirstFrame
    <3>1. /\ ~heard /\ base' = base /\ enc' = enc /\ heard' = TRUE
          /\ old_angle' = enc /\ all_angle' = all_angle + Crossing(enc, v)
      BY <2>1 DEF First, motor_readmsg, rotor
    <3>2. Crossing(enc, v) \in {0, -Lap}
      BY <3>1, FirstCrossing
    <3>. QED
      BY <3>1, <3>2, MotorAssumption
         DEF IInv, TypeOK, Held, Counter!FirstFrame, total, shaft
  <2>2. ASSUME NEW d \in -MaxStep .. MaxStep, NEW v \in Signs,
               Aligned(d, v), Frame(d, v)
        PROVE Counter!Turn(d)
    <3>1. /\ heard /\ heard' = TRUE
          /\ base' = base + Carry(d) /\ enc' = enc + d - Carry(d)
          /\ old_angle' = enc + d - Carry(d) /\ all_angle' = all_angle + Carry(d)
      BY <2>2, CrossingExact DEF Frame, Rotate, motor_readmsg
    <3>2. /\ Carry(d) \in Int /\ base \in Int /\ enc \in Int /\ all_angle \in Int
          /\ old_angle = enc
      BY <3>1, CarryRange, MotorAssumption DEF IInv, TypeOK, Held
    <3>3. /\ (base + Carry(d)) + (enc + d - Carry(d)) = (base + enc) + d
          /\ (all_angle + Carry(d)) + (enc + d - Carry(d)) = (all_angle + enc) + d
      BY <3>2, MotorAssumption
    <3>. QED
      BY <3>1, <3>2, <3>3 DEF Counter!Turn, total, shaft
  <2>3. CASE UNCHANGED vars
    BY <2>3 DEF vars, total, shaft
  <2>. QED
    BY <2>1, <2>2, <2>3 DEF AlignedNext, Counter!Next
<1>. QED
  BY <1>1, <1>2, Invariance, PTL DEF AlignedSpec, CounterSpec, Counter!Spec

------------------------------------------------------------------------------
(* Behind the gearbox.  Quotient and remainder, and the remainder of a sum  *)
(* with whole turns.                                                        *)
LEMMA Quotient ==
  ASSUME NEW a \in Int, NEW n \in Nat, 0 < n
  PROVE  /\ a \div n \in Int /\ a % n \in 0 .. n - 1
         /\ a = n * (a \div n) + (a % n)
<1>1. a \div n \in Int
  BY SMT
<1>2. a % n \in 0 .. n - 1
  BY SMT
<1>3. a = n * (a \div n) + (a % n)
  BY SMT
<1>. QED
  BY <1>1, <1>2, <1>3

LEMMA WholeTurns ==
  ASSUME NEW r \in Int, NEW q \in Int, NEW n \in Nat, 0 =< r, r < n
  PROVE  (n * q + r) % n = r
BY SMT

(* Whole turns do not change a difference of two remainders.                *)
LEMMA Difference ==
  ASSUME NEW a \in Int, NEW b \in Int, NEW n \in Nat, 0 < n
  PROVE  ((b % n) - (a % n)) % n = (b - a) % n
<1>1. PICK p \in Int, r \in 0 .. n - 1 : a = n * p + r /\ a % n = r
  BY Quotient
<1>2. PICK q \in Int, s \in 0 .. n - 1 : b = n * q + s /\ b % n = s
  BY Quotient
<1>3. PICK j \in Int, u \in 0 .. n - 1 : s - r = n * j + u /\ (s - r) % n = u
  <2>1. s - r \in Int
    OBVIOUS
  <2>. QED
    BY <2>1, Quotient
<1>4. b - a = n * (q - p + j) + u
  BY <1>1, <1>2, <1>3
<1>5. (b - a) % n = u
  BY <1>4, WholeTurns
<1>. QED
  BY <1>1, <1>2, <1>3, <1>5

LEMMA ApartInt == ASSUME NEW x \in Int, NEW y \in Int PROVE Apart(x % Lap, y % Lap) \in Int
<1>1. Lap \in Nat /\ 0 < Lap
  BY MotorAssumption
<1>2. x % Lap \in Int /\ y % Lap \in Int
  BY <1>1, Quotient
<1>3. ((x % Lap) - (y % Lap)) % Lap \in Int
  BY <1>1, <1>2, Quotient
<1>. QED
  BY <1>1, <1>3 DEF Apart

(* The distance of two angles of a turn is no more than that of the totals  *)
(* they are of, either way round.                                           *)
LEMMA Nearer ==
  ASSUME NEW a \in Int, NEW b \in Int, a =< b
  PROVE  Apart(b % Lap, a % Lap) =< b - a /\ Apart(a % Lap, b % Lap) =< b - a
<1>1. Lap \in Nat /\ 0 < Lap
  BY MotorAssumption
<1>2. ASSUME NEW x \in Int, NEW y \in Int
      PROVE  \E j \in Int, m \in 0 .. Lap - 1 :
               /\ x - y = Lap * j + m
               /\ Apart(x % Lap, y % Lap) =< m /\ Apart(x % Lap, y % Lap) =< Lap - m
  <2>1. PICK j \in Int, m \in 0 .. Lap - 1 : x - y = Lap * j + m /\ (x - y) % Lap = m
    <3>1. x - y \in Int
      OBVIOUS
    <3>. QED
      BY <1>1, <3>1, Quotient
  <2>2. ((x % Lap) - (y % Lap)) % Lap = m
    BY <1>1, <2>1, Difference
  <2>3. Apart(x % Lap, y % Lap) = IF m > Lap - m THEN Lap - m ELSE m
    BY <2>2 DEF Apart
  <2>4. Apart(x % Lap, y % Lap) =< m /\ Apart(x % Lap, y % Lap) =< Lap - m
    BY <1>1, <2>3
  <2>. QED
    BY <2>1, <2>4
<1>3. Apart(b % Lap, a % Lap) =< b - a
  <2>1. PICK j \in Int, m \in 0 .. Lap - 1 :
          b - a = Lap * j + m /\ Apart(b % Lap, a % Lap) =< m
    BY <1>2
  <2>2. Apart(b % Lap, a % Lap) \in Int
    BY ApartInt
  <2>3. 0 =< j
    BY <1>1, <2>1
  <2>4. m =< b - a
    BY <1>1, <2>1, <2>3
  <2>. QED
    BY <2>1, <2>2, <2>4
<1>4. Apart(a % Lap, b % Lap) =< b - a
  <2>1. PICK j \in Int, m \in 0 .. Lap - 1 :
          /\ a - b = Lap * j + m
          /\ Apart(a % Lap, b % Lap) =< m /\ Apart(a % Lap, b % Lap) =< Lap - m
    BY <1>2
  <2>2. Apart(a % Lap, b % Lap) \in Int
    BY ApartInt
  <2>3. CASE j = 0
    BY <1>1, <2>1, <2>2, <2>3
  <2>4. CASE j =< -1
    <3>1. Lap - m =< b - a
      BY <1>1, <2>1, <2>4
    <3>. QED
      BY <1>1, <2>1, <2>2, <3>1
  <2>5. j =< 0
    BY <1>1, <2>1
  <2>. QED
    BY <2>3, <2>4, <2>5
<1>. QED
  BY <1>3, <1>4

(* A gear that turns no faster than the rotor: its whole ticks neither.     *)
LEMMA Slower ==
  ASSUME NEW x \in Nat, NEW y \in Nat, x =< y
  PROVE  /\ (x * P) \div Q \in Int /\ (y * P) \div Q \in Int
         /\ (x * P) \div Q =< (y * P) \div Q
         /\ ((y * P) \div Q) - ((x * P) \div Q) =< y - x
<1>1. P \in Nat /\ Q \in Nat /\ 0 < Q /\ P =< Q
  BY MotorAssumption
<1>2. x * P \in Int /\ y * P \in Int
  BY <1>1
<1>3. PICK a \in Int, r \in 0 .. Q - 1 : x * P = Q * a + r /\ (x * P) \div Q = a
  BY <1>1, <1>2, Quotient
<1>4. PICK b \in Int, s \in 0 .. Q - 1 : y * P = Q * b + s /\ (y * P) \div Q = b
  BY <1>1, <1>2, Quotient
<1>5. x * P =< y * P /\ y * P =< x * P + Q * (y - x)
  <2>1. PICK k \in Nat : y = x + k
    BY SMT
  <2>2. 0 =< k * P /\ k * P =< Q * k
    BY <1>1
  <2>3. y * P = x * P + k * P
    BY <1>1, <2>1
  <2>4. y - x = k
    BY <2>1
  <2>. QED
    BY <1>1, <1>2, <2>2, <2>3, <2>4
<1>6. a =< b
  BY <1>1, <1>3, <1>4, <1>5
<1>7. b - a =< y - x
  <2>. DEFINE k == y - x
  <2>1. k \in Int /\ Q * b + s =< Q * a + r + Q * k
    BY <1>3, <1>4, <1>5
  <2>. HIDE DEF k
  <2>2. ASSUME b >= a + k + 1 PROVE FALSE
    <3>1. Q * b >= Q * (a + k + 1)
      BY <1>1, <2>1, <2>2
    <3>2. Q * (a + k + 1) = Q * a + Q * k + Q
      BY <1>1, <2>1
    <3>. QED
      BY <1>1, <2>1, <3>1, <3>2
  <2>3. b - a =< k
    BY <2>1, <2>2
  <2>. QED
    BY <2>3 DEF k
<1>. QED
  BY <1>3, <1>4, <1>6, <1>7

(* After a frame the angle is that of the total.                            *)
Behind == heard => angle = Geared(total)

LEMMA NextBehind == [AlignedNext]_vars /\ Behind => Behind'
BY DEF AlignedNext, First, Frame, motor_readmsg, Behind, total, vars

LEMMA GearedOf == ASSUME NEW t \in Nat PROVE Geared(t) = ((t * P) \div Q) % Lap
BY DEF Geared, Unsigned

(* Behind the gearbox the angle never moves further than the rotor, at a    *)
(* zero crossing of the encoder no more than elsewhere                      *)
(* (motor_angle_adjsut), for every gear that turns no faster.               *)
THEOREM Smooth == AlignedSpec => GearedContinuous
<1>1. IInv /\ Behind /\ [AlignedNext]_vars =>
        [(heard /\ total >= 0 /\ total' >= 0)
           => Apart(angle', angle) =< (IF shaft' > shaft THEN shaft' - shaft
                                       ELSE shaft - shaft')]_vars
  <2>. SUFFICES ASSUME IInv, Behind, AlignedNext, heard, total >= 0, total' >= 0
                PROVE  Apart(angle', angle) =< (IF shaft' > shaft THEN shaft' - shaft
                                                ELSE shaft - shaft')
    OBVIOUS
  <2>1. PICK d \in -MaxStep .. MaxStep, v \in Signs : Aligned(d, v) /\ Frame(d, v)
    BY DEF AlignedNext, First
  <2>2. /\ base' = base + Carry(d) /\ enc' = enc + d - Carry(d)
        /\ old_angle' = enc + d - Carry(d) /\ all_angle' = all_angle + Carry(d)
        /\ angle' = Geared(total') /\ angle = Geared(total)
    BY <2>1, CrossingExact DEF Frame, Rotate, motor_readmsg, Behind, total
  <2>3. /\ Carry(d) \in Int /\ base \in Int /\ enc \in Int /\ all_angle \in Int
        /\ old_angle = enc /\ d \in Int
    BY <2>2, CarryRange, MotorAssumption DEF IInv, TypeOK, Held
  <2>4. /\ total \in Nat /\ total' \in Nat /\ total' = total + d
        /\ shaft \in Int /\ shaft' = shaft + d
    BY <2>2, <2>3 DEF total, shaft
  <2>. DEFINE g(t) == (t * P) \div Q
  <2>5. angle = g(total) % Lap /\ angle' = g(total') % Lap
    BY <2>2, <2>4, GearedOf
  <2>6. CASE d >= 0
    <3>1. /\ g(total) \in Int /\ g(total') \in Int
          /\ g(total) =< g(total') /\ g(total') - g(total) =< d
      <4>1. total =< total' /\ total' - total = d
        BY <2>3, <2>4, <2>6
      <4>. QED
        BY <2>4, <4>1, Slower
    <3>2. Apart(angle', angle) =< g(total') - g(total) /\ Apart(angle', angle) \in Int
      BY <2>5, <3>1, Nearer, ApartInt
    <3>. HIDE DEF g
    <3>. QED
      BY <2>3, <2>4, <2>6, <3>1, <3>2
  <2>7. CASE d < 0
    <3>1. /\ g(total) \in Int /\ g(total') \in Int
          /\ g(total') =< g(total) /\ g(total) - g(total') =< -d
      <4>1. total' =< total /\ total - total' = -d
        BY <2>3, <2>4, <2>7
      <4>. QED
        BY <2>4, <4>1, Slower
    <3>2. Apart(angle', angle) =< g(total) - g(total') /\ Apart(angle', angle) \in Int
      BY <2>5, <3>1, Nearer, ApartInt
    <3>. HIDE DEF g
    <3>. QED
      BY <2>3, <2>4, <2>7, <3>1, <3>2
  <2>. QED
    BY <2>3, <2>6, <2>7
<1>2. Init => Behind
  BY DEF Init, Behind
<1>. QED
  BY <1>1, <1>2, NextBehind, Invariance, PTL DEF AlignedSpec, GearedContinuous
==============================================================================
