---------------------------- MODULE SerialRx_proof ----------------------------
(***************************************************************************)
(* Proofs about SerialRx, for every size of ring, frame and queue: the      *)
(* software indices stay with the DMA, no byte announced is left behind,    *)
(* the ring implements the byte queue; no read ends inside a piece of the   *)
(* line if the thread keeps up or the line brings whole frames, and a       *)
(* thread that keeps up takes one piece at a time.                          *)
(***************************************************************************)
EXTENDS SerialRx, SequenceTheorems, FiniteSetTheorems, TLAPS

(* Where the DMA writes next.                                               *)
Pos == BufSz - ndtr

(* Two places of the ring are n bytes apart, round its end or not.          *)
Apart(a, b, n) == a - b = n \/ a - b = n - BufSz

(* The strengthening of InStep.  The distances between the three places of  *)
(* the ring are the differences of the three counts, and these together are *)
(* less than the ring holds; the rest are the types it needs.               *)
Types ==
  /\ ndtr \in 1 .. BufSz
  /\ put_index \in 0 .. BufSz - 1 /\ get_index \in 0 .. BufSz - 1
  /\ line \in Nat /\ announced \in Nat /\ taken \in Nat

Counts == taken =< announced /\ announced =< line /\ line - taken =< MaxHeld

Places ==
  /\ Apart(Pos, put_index, line - announced)
  /\ Apart(put_index, get_index, announced - taken)

Flags == is_full = FALSE

Last == last_index = put_index

IInv == Types /\ Counts /\ Places /\ Flags /\ Last

------------------------------------------------------------------------------
(* What the indices say is held is what the counts say.                     *)
LEMMA Holding == ASSUME IInv PROVE Recved = announced - taken
BY SerialAssumption DEF IInv, Types, Counts, Places, Flags, Apart, Recved

(* The modulo of the ring, once round.                                      *)
LEMMA Wrapping == ASSUME NEW i \in 0 .. 2 * BufSz - 1
                  PROVE  Wrapped(i) = IF i < BufSz THEN i ELSE i - BufSz
<1>1. CASE i < BufSz
  BY <1>1, SerialAssumption DEF Wrapped
<1>2. CASE i >= BufSz
  <2>1. i % BufSz = i - BufSz
    BY <1>2, SerialAssumption, SMT
  <2> QED
    BY <1>2, <2>1, SerialAssumption DEF Wrapped
<1> QED
  BY <1>1, <1>2, SerialAssumption

(* Whatever its sign, the length of an interrupt takes an index to the      *)
(* place the DMA has reached, through 24 bits and through 16.               *)
LEMMA Landing == ASSUME NEW p \in Nat, NEW q \in Nat, p < 32768, q < 32768
                 PROVE  Advanced(p, InEvent(q - p)) = q
<1>1. CASE q >= p
  <2>1. InEvent(q - p) = q - p
    BY <1>1 DEF InEvent
  <2>2. q % 65536 = q
    OBVIOUS
  <2> QED
    BY <2>1, <2>2 DEF Advanced
<1>2. CASE q < p
  <2>1. InEvent(q - p) = (q - p) + 16777216
    BY <1>2 DEF InEvent
  <2>2. p + ((q - p) + 16777216) = q + 16777216
    OBVIOUS
  <2>3. (q + 16777216) % 65536 = q
    OBVIOUS
  <2> QED
    BY <2>1, <2>2, <2>3 DEF Advanced
<1> QED
  BY <1>1, <1>2

------------------------------------------------------------------------------
(* The interrupt: the put index lands where the DMA is, short of the get    *)
(* index, and nothing is taken for an overrun.                              *)
LEMMA Interrupt ==
  ASSUME IInv, uart_isr
  PROVE  /\ announced' = line /\ put_index' = Pos /\ last_index' = Pos
         /\ get_index' = get_index /\ is_full' = FALSE
<1> DEFINE n == Pos - put_index
<1>1. /\ line > announced /\ last_index' = Pos
      /\ n = 0 => announced' = announced
      /\ n # 0 => announced' = line /\ rt_dma_recv_update_put_index(InEvent(n))
  BY DEF uart_isr, IInv, Last, Pos
<1>2. Pos \in 0 .. BufSz - 1 /\ put_index \in 0 .. BufSz - 1 /\ get_index \in 0 .. BufSz - 1
  BY SerialAssumption DEF IInv, Types, Pos
<1>3. n # 0
  BY <1>1, <1>2, SerialAssumption DEF IInv, Types, Counts, Places, Apart
<1>4. Advanced(put_index, InEvent(n)) = Pos
  <2>1. Pos \in Nat /\ put_index \in Nat /\ Pos < 32768 /\ put_index < 32768
    BY <1>2, SerialAssumption
  <2> QED
    BY <2>1, Landing
<1>5. Wrapped(Pos) = Pos
  BY <1>2, SerialAssumption DEF Wrapped
<1>6. ~Overrun(InEvent(n))
  <2>1. CASE get_index =< put_index
    BY <2>1, <1>2, <1>4, SerialAssumption DEF Overrun
  <2>2. CASE ~(get_index =< put_index)
    <3>1. Pos < get_index
      BY <2>2, <1>1, <1>2, SerialAssumption DEF IInv, Types, Counts, Places, Apart
    <3> QED
      BY <2>2, <3>1, <1>2, <1>4, SerialAssumption DEF Overrun
  <2> QED
    BY <2>1, <2>2
<1>7. rt_dma_recv_update_put_index(InEvent(n)) /\ announced' = line
  BY <1>1, <1>3
<1>8. put_index' = Pos
  BY <1>7, <1>4, <1>5 DEF rt_dma_recv_update_put_index
<1>9. is_full' = FALSE
  BY <1>7, <1>6 DEF rt_dma_recv_update_put_index, IInv, Flags
<1>10. get_index' = get_index
  BY <1>7, <1>9 DEF rt_dma_recv_update_put_index
<1> QED
  BY <1>1, <1>7, <1>8, <1>9, <1>10

(* A read: the get index goes on by what is read.                           *)
LEMMA Reading ==
  ASSUME IInv, Read, size \in Nat
  PROVE  /\ ReadLen \in 0 .. announced - taken
         /\ get_index' = Wrapped(get_index + ReadLen) /\ get_index' \in 0 .. BufSz - 1
         /\ Apart(get_index', get_index, ReadLen)
         /\ is_full' = FALSE /\ taken' = taken + ReadLen
<1>1. Recved = announced - taken /\ announced - taken \in 0 .. BufSz - 1
  BY Holding, SerialAssumption DEF IInv, Types, Counts
<1>2. ReadLen \in 0 .. announced - taken /\ ReadLen \in 0 .. BufSz - 1
  BY <1>1, SerialAssumption DEF ReadLen, IInv, Types
<1>3. get_index \in 0 .. BufSz - 1
  BY DEF IInv, Types
<1>4. Wrapped(get_index + ReadLen) = IF get_index + ReadLen < BufSz THEN get_index + ReadLen
                                     ELSE (get_index + ReadLen) - BufSz
  <2>1. get_index + ReadLen \in 0 .. 2 * BufSz - 1
    BY <1>2, <1>3, SerialAssumption
  <2> QED
    BY <2>1, Wrapping
<1>5. get_index' = Wrapped(get_index + ReadLen) /\ taken' = taken + ReadLen
  BY DEF Read
<1>6. is_full' = FALSE
  BY DEF Read, IInv, Flags
<1>7. get_index' \in 0 .. BufSz - 1 /\ Apart(get_index', get_index, ReadLen)
  <2> DEFINE g == get_index'
  <2>1. g = IF get_index + ReadLen < BufSz THEN get_index + ReadLen
            ELSE (get_index + ReadLen) - BufSz
    BY <1>4, <1>5
  <2> HIDE DEF g
  <2>2. g \in 0 .. BufSz - 1 /\ Apart(g, get_index, ReadLen)
    BY <2>1, <1>2, <1>3, SerialAssumption DEF Apart
  <2> QED
    BY <2>2 DEF g
<1> QED
  BY <1>2, <1>5, <1>6, <1>7

------------------------------------------------------------------------------
(* The last message sent covers every byte there was when it was accepted.  *)
(* Messages are read in order, so the last one alone matters.               *)
Due ==
  /\ accepted \in Nat /\ accepted =< announced
  /\ rx_mq \in Seq(Nat) /\ size \in Nat
  /\ rx_mq # <<>> => accepted - taken =< rx_mq[Len(rx_mq)]
  /\ (rx_mq = <<>> /\ pc = "read") => accepted - taken =< size
  /\ (rx_mq = <<>> /\ pc # "read") => accepted =< taken

(* The thread does nothing before it is started.                            *)
Waits == boot # "done" => pc = "off"

Inv == IInv /\ Due /\ Waits

LEMMA InitInv == ASSUME Init PROVE Inv
<1>1. IInv
  BY SerialAssumption DEF Init, IInv, Types, Counts, Places, Flags, Last, Apart, Pos
<1>2. Due
  BY DEF Init, Due
<1> QED
  BY <1>1, <1>2 DEF Inv, Init, Waits

LEMMA LineInv == ASSUME Inv, NEW n \in 1 .. FrameLen, Line(n) PROVE Inv'
<1>1. /\ n \in Nat /\ n > 0 /\ n < BufSz
      /\ line' = line + n /\ line = announced /\ line + n - taken =< MaxHeld
      /\ UNCHANGED <<put_index, get_index, is_full, announced, taken, last_index>>
  BY SerialAssumption DEF Line, ring, thread, Inv, IInv, Types, Counts
<1>2. Types'
  BY <1>1, SerialAssumption DEF Line, Inv, IInv, Types
<1>3. Counts'
  BY <1>1 DEF Inv, IInv, Types, Counts
<1>4. Apart(Pos', put_index, n)
  <2>1. ndtr' = IF ndtr > n THEN ndtr - n ELSE ndtr - n + BufSz
    BY DEF Line
  <2> DEFINE m == ndtr'
  <2>2. m = (IF ndtr > n THEN ndtr - n ELSE ndtr - n + BufSz) /\ Pos' = BufSz - m
    BY <2>1 DEF Pos
  <2> HIDE DEF m
  <2>3. Pos = put_index
    BY <1>1, SerialAssumption DEF Inv, IInv, Types, Places, Apart, Pos
  <2>4. Apart(BufSz - m, put_index, n)
    BY <2>2, <2>3, <1>1, SerialAssumption DEF Inv, IInv, Types, Pos, Apart
  <2> QED
    BY <2>2, <2>4
<1>5. line' - announced' = n
  BY <1>1 DEF Inv, IInv, Types
<1>6. Places'
  BY <1>1, <1>4, <1>5 DEF Inv, IInv, Places, Apart
<1>7. Flags' /\ Last' /\ Due' /\ Waits'
  BY <1>1 DEF Line, thread, Inv, IInv, Flags, Last, Due, Waits
<1> QED
  BY <1>2, <1>3, <1>6, <1>7 DEF Inv, IInv

LEMMA IsrInv == ASSUME Inv, uart_isr PROVE Inv'
<1>1. /\ announced' = line /\ put_index' = Pos /\ last_index' = Pos
      /\ get_index' = get_index /\ is_full' = FALSE
      /\ UNCHANGED <<ndtr, line, taken, pc, size>>
  BY Interrupt DEF Inv, uart_isr, thread
<1>2. Pos \in 0 .. BufSz - 1 /\ line \in Nat /\ taken \in Nat /\ announced \in Nat
      /\ taken =< announced /\ announced =< line /\ line - taken =< MaxHeld
      /\ put_index \in 0 .. BufSz - 1 /\ get_index \in 0 .. BufSz - 1
  BY SerialAssumption DEF Inv, IInv, Types, Counts, Pos
<1>3. Types' /\ Counts'
  BY <1>1, <1>2 DEF Inv, IInv, Types, Counts
<1>4. Apart(Pos, get_index, line - taken) /\ Apart(Pos, Pos, 0)
  BY <1>2, SerialAssumption DEF Inv, IInv, Places, Apart
<1>5. Places'
  <2>1. Pos' = Pos
    BY <1>1 DEF Pos
  <2>2. line' - announced' = 0 /\ announced' - taken' = line - taken
    BY <1>1, <1>2
  <2> QED
    BY <1>1, <1>4, <2>1, <2>2 DEF Places
<1>6. Flags' /\ Last'
  BY <1>1 DEF Flags, Last
<1>7. IInv'
  BY <1>3, <1>5, <1>6 DEF IInv
<1>8. Recved' = line - taken
  <2>1. Recved' = IF Pos = get_index THEN 0 ELSE IF Pos > get_index THEN Pos - get_index
                  ELSE BufSz - (get_index - Pos)
    BY <1>1 DEF Recved
  <2> QED
    BY <1>2, <1>4, <2>1, SerialAssumption DEF Apart
<1>9. Due'
  <2>1. CASE UNCHANGED <<rx_mq, accepted>>
    BY <2>1, <1>1, <1>2 DEF Inv, Due
  <2>2. CASE rx_mq' = Append(rx_mq, Recved') /\ accepted' = announced'
    <3>1. line - taken \in Nat
      BY <1>2
    <3>2. rx_mq' = Append(rx_mq, line - taken) /\ accepted' = line
      BY <2>2, <1>1, <1>8
    <3>3. rx_mq' \in Seq(Nat) /\ rx_mq' # <<>> /\ rx_mq'[Len(rx_mq')] = line - taken
      BY <3>1, <3>2 DEF Inv, Due
    <3> QED
      BY <1>1, <1>2, <3>2, <3>3 DEF Inv, Due
  <2>3. UNCHANGED <<rx_mq, accepted>> \/ (rx_mq' = Append(rx_mq, Recved') /\ accepted' = announced')
    BY DEF uart_isr, uart_input
  <2> QED
    BY <2>1, <2>2, <2>3
<1> QED
  BY <1>7, <1>9 DEF Inv, Waits, uart_isr, thread

(* The last of several messages stays the last when the first is taken.     *)
LEMMA TailLast ==
  ASSUME NEW q \in Seq(Nat), q # <<>>, Len(q) # 1
  PROVE  Tail(q) # <<>> /\ Tail(q)[Len(Tail(q))] = q[Len(q)]
<1>1. /\ Len(q) \in Nat \ {0} /\ Len(Tail(q)) = Len(q) - 1
      /\ \A i \in 1 .. Len(Tail(q)) : Tail(q)[i] = q[i + 1]
  <2>1. \A p \in Seq(Nat) : p # <<>> => Len(p) \in Nat \ {0}
    BY EmptySeq, Zenon
  <2> QED
    BY <2>1, HeadTailProperties, Zenon
<1>2. \A n \in Nat \ {0} : n # 1 => n - 1 # 0 /\ n - 1 \in 1 .. n - 1 /\ (n - 1) + 1 = n
  OBVIOUS
<1>3. /\ Len(q) - 1 # 0 /\ Len(q) - 1 \in 1 .. Len(q) - 1 /\ (Len(q) - 1) + 1 = Len(q)
  BY <1>1, <1>2, Zenon
<1>4. Len(<<>>) = 0
  BY EmptySeq, Zenon
<1> QED
  BY <1>1, <1>3, <1>4, Zenon

LEMMA RecvInv == ASSUME Inv, Recv PROVE Inv'
<1>1. IInv'
  BY DEF Recv, ring, Inv, IInv, Types, Counts, Places, Flags, Last, Apart, Pos
<1>2. rx_mq \in Seq(Nat) /\ rx_mq # <<>> /\ size' = Head(rx_mq) /\ rx_mq' = Tail(rx_mq)
      /\ pc = "recv" /\ pc' = "read" /\ UNCHANGED <<accepted, announced, taken>>
  BY DEF Recv, Inv, Due
<1>3. size' \in Nat /\ rx_mq' \in Seq(Nat)
  BY <1>2
<1>6. Waits'
  BY DEF Recv, Inv, Waits
<1>4. CASE Len(rx_mq) = 1
  <2>1. rx_mq' = <<>> /\ size' = rx_mq[Len(rx_mq)]
    BY <1>2, <1>4
  <2> QED
    BY <1>1, <1>2, <1>3, <1>6, <2>1 DEF Inv, Due
<1>5. CASE Len(rx_mq) # 1
  <2>1. rx_mq' # <<>> /\ rx_mq'[Len(rx_mq')] = rx_mq[Len(rx_mq)]
    BY <1>2, <1>5, TailLast, Zenon
  <2> QED
    BY <1>1, <1>2, <1>3, <1>6, <2>1 DEF Inv, Due
<1> QED
  BY <1>4, <1>5

LEMMA ReadInv == ASSUME Inv, Read PROVE Inv'
<1>1. /\ ReadLen \in 0 .. announced - taken
      /\ get_index' \in 0 .. BufSz - 1 /\ Apart(get_index', get_index, ReadLen)
      /\ is_full' = FALSE /\ taken' = taken + ReadLen
      /\ UNCHANGED <<ndtr, last_index, put_index, rx_mq, size, line, announced, accepted>>
      /\ pc = "read" /\ pc' = "parse"
  <2>1. size \in Nat
    BY DEF Inv, Due
  <2> QED
    BY <2>1, Reading DEF Inv, Read
<1> DEFINE g == get_index'  r == ReadLen  t == taken'
<1>2. /\ r \in 0 .. announced - taken /\ g \in 0 .. BufSz - 1
      /\ Apart(g, get_index, r) /\ t = taken + r
  BY <1>1
<1> HIDE DEF g, r, t
<1>3. /\ t \in Nat /\ t =< announced /\ announced =< line /\ line - t =< MaxHeld /\ taken =< t
  BY <1>2, SerialAssumption DEF Inv, IInv, Types, Counts
<1>4. Apart(put_index, g, announced - t)
  BY <1>2, <1>3, SerialAssumption DEF Inv, IInv, Types, Counts, Places, Apart
<1>5. Types' /\ Counts' /\ Flags' /\ Last'
  BY <1>1, <1>2, <1>3 DEF g, t, Inv, IInv, Types, Counts, Flags, Last
<1>6. Places'
  BY <1>1, <1>4 DEF g, t, Inv, IInv, Places, Pos, Apart
<1>7. Due'
  <2>1. accepted =< announced /\ accepted \in Nat /\ size \in Nat
    BY DEF Inv, Due
  <2>2. r = IF size < announced - taken THEN size ELSE announced - taken
    BY Holding DEF Inv, ReadLen, r
  <2>3. CASE rx_mq = <<>>
    <3>1. accepted - taken =< size
      BY <2>3, <1>1 DEF Inv, Due
    <3>2. accepted =< t
      BY <3>1, <2>1, <2>2, <1>2 DEF Inv, IInv, Types, Counts
    <3> QED
      BY <2>3, <3>2, <1>1 DEF t, Inv, Due
  <2>4. CASE rx_mq # <<>>
    <3>1. accepted - taken =< rx_mq[Len(rx_mq)] /\ rx_mq[Len(rx_mq)] \in Nat
      BY <2>4 DEF Inv, Due
    <3>2. accepted - t =< rx_mq[Len(rx_mq)]
      BY <3>1, <2>1, <1>3 DEF Inv, IInv, Types
    <3> QED
      BY <2>4, <3>2, <1>1 DEF t, Inv, Due
  <2> QED
    BY <2>3, <2>4
<1>8. Waits'
  BY DEF Read, Inv, Waits
<1> QED
  BY <1>5, <1>6, <1>7, <1>8 DEF Inv, IInv

LEMMA RestInv ==
  ASSUME Inv, SetRxIndicate \/ Startup \/ Parse \/ UNCHANGED vars PROVE Inv'
<1>1. UNCHANGED <<ndtr, last_index, ring, rx_mq, size, taken, line, announced, accepted>>
  BY DEF SetRxIndicate, Startup, Parse, vars, thread
<1>2. IInv'
  BY <1>1 DEF ring, Inv, IInv, Types, Counts, Places, Flags, Last, Apart, Pos
<1>3. pc' = "read" => pc = "read"
  BY DEF SetRxIndicate, Startup, Parse, vars, thread
<1>4. (pc = "read" => pc' = "read") /\ Waits'
  BY DEF SetRxIndicate, Startup, Parse, vars, thread, Inv, Waits
<1> QED
  BY <1>1, <1>2, <1>3, <1>4 DEF Inv, Due

LEMMA Invariance == Spec => []Inv
<1>1. ASSUME Inv, [Next]_vars PROVE Inv'
  <2>1. ASSUME NEW n \in 1 .. FrameLen, Line(n) PROVE Inv'
    BY <1>1, <2>1, LineInv
  <2>2. CASE uart_isr
    BY <1>1, <2>2, IsrInv
  <2>3. CASE Recv
    BY <1>1, <2>3, RecvInv
  <2>4. CASE Read
    BY <1>1, <2>4, ReadInv
  <2>5. CASE SetRxIndicate \/ Startup \/ Parse \/ UNCHANGED vars
    BY <1>1, <2>5, RestInv
  <2> QED
    BY <1>1, <2>1, <2>2, <2>3, <2>4, <2>5 DEF Next, serial_thread_entry
<1> QED
  BY <1>1, InitInv, PTL DEF Spec

------------------------------------------------------------------------------
(* The bytes held, by the indices and by the counts.                        *)
Held == Recved = announced - taken

LEMMA InvHeld == Inv => Held
BY Holding DEF Inv, Held

(* The indices of the ring stay with the DMA (uart_isr, serial.c) round     *)
(* every end of the ring, for every size of ring and frame: what they say   *)
(* is held is what was announced and not read, and no overrun is seen.      *)
THEOREM StaysInStep == Spec => []InStep
<1>1. Inv => InStep
  <2> SUFFICES ASSUME Inv PROVE InStep
    OBVIOUS
  <2>1. Recved = announced - taken /\ ~is_full
    BY Holding DEF Inv, IInv, Flags
  <2>2. line = announced => put_index = BufSz - ndtr
    BY SerialAssumption DEF Inv, IInv, Types, Places, Apart, Pos
  <2> QED
    BY <2>1, <2>2 DEF InStep
<1> QED
  BY <1>1, Invariance, PTL

(* However many messages the full queue refused, a thread that has dealt    *)
(* with all there are has read every byte up to the last accepted message   *)
(* (uart_input, serial_thread_entry).                                       *)
THEOREM NothingLeft == Spec => []NoneLeft
<1>1. Inv => NoneLeft
  BY DEF Inv, IInv, Types, Due, NoneLeft
<1> QED
  BY <1>1, Invariance, PTL

(* The driver's ring is a byte queue: every step of the interrupt adds the  *)
(* bytes the line brought, every read takes what is held, and no other step *)
(* changes either.                                                          *)
THEOREM ImplementsQueue == Spec => QueueSpec
<1>1. Init => Queue!Init
  BY DEF Init, Queue!Init, Recved
<1>2. ASSUME Inv, Held, Held', [Next]_vars
      PROVE  [Queue!Next]_<<announced, Recved>>
  <2>1. /\ line \in Nat /\ announced \in Nat /\ taken \in Nat
        /\ taken =< announced /\ announced =< line /\ line - taken < BufSz
    BY <1>2, SerialAssumption DEF Inv, IInv, Types, Counts
  <2>2. CASE uart_isr
    <3> DEFINE n == line - announced
    <3>1. announced' = line /\ taken' = taken /\ line > announced
      BY <1>2, <2>2, Interrupt DEF Inv, uart_isr, thread
    <3>2. n \in 1 .. BufSz /\ announced' = announced + n
      BY <2>1, <3>1, SerialAssumption
    <3>3. Recved' = Recved + n
      <4>1. Recved = announced - taken /\ Recved' = line - taken
        BY <1>2, <3>1 DEF Held
      <4> QED
        BY <4>1, <2>1
    <3>4. Recved + n =< BufSz
      BY <1>2, <2>1, SerialAssumption DEF Held
    <3> QED
      BY <3>2, <3>3, <3>4 DEF Queue!Next, Queue!Put
  <2>3. CASE Read
    <3> DEFINE n == ReadLen
    <3>1. n \in 0 .. announced - taken /\ announced' = announced /\ taken' = taken + n
      BY <1>2, <2>3, Reading DEF Inv, Due, Read
    <3>2. Recved = announced - taken /\ Recved' = announced - (taken + n)
      BY <1>2, <3>1 DEF Held
    <3> HIDE DEF n
    <3>3. CASE n = 0
      BY <2>1, <3>1, <3>2, <3>3
    <3>4. CASE n # 0
      <4>1. n \in 1 .. BufSz /\ n =< Recved /\ Recved' = Recved - n
        BY <2>1, <3>1, <3>2, <3>4, SerialAssumption
      <4> QED
        BY <4>1, <3>1 DEF Queue!Next, Queue!Take
    <3> QED
      BY <3>3, <3>4
  <2>4. CASE (\E n \in 1 .. FrameLen : Line(n)) \/ Recv \/ SetRxIndicate \/ Startup \/ Parse
             \/ UNCHANGED vars
    <3>1. UNCHANGED <<put_index, get_index, is_full, announced>>
      BY <2>4 DEF Line, Recv, SetRxIndicate, Startup, Parse, vars, ring
    <3> QED
      BY <3>1 DEF Recved
  <2> QED
    BY <1>2, <2>2, <2>3, <2>4 DEF Next, serial_thread_entry
<1> QED
  BY <1>1, <1>2, Invariance, InvHeld, PTL DEF Spec, QueueSpec, Queue!Spec

(* Every variable stays in its type, in particular both indices in the ring *)
(* though one is moved by negative lengths (rt_dma_recv_update_put_index).   *)
THEOREM Typed == Spec => []TypeOK
<1> DEFINE Rest == /\ boot \in {"open", "indicate", "done"}
                   /\ pc \in {"off", "recv", "read", "parse"}
                   /\ slow \in BOOLEAN /\ parts \in Nat /\ ends \in SUBSET Nat
                   /\ from \in Nat
                   /\ reads \in 0 .. 2 /\ Len(rx_mq) =< MqMax
<1>1. Init => Rest
  BY SerialAssumption DEF Init
<1>2. ASSUME Inv, Rest, [Next]_vars PROVE Rest'
  <2>1. ASSUME NEW n \in 1 .. FrameLen, Line(n) PROVE Rest'
    <3>1. line + n \in Nat
      BY <1>2 DEF Inv, IInv, Types
    <3>2. parts' \in Nat
      BY <1>2, <2>1 DEF Line
    <3>3. ends' \in SUBSET Nat
      BY <1>2, <2>1, <3>1 DEF Line
    <3> QED
      BY <1>2, <2>1, <3>2, <3>3 DEF Line, thread
  <2>2. CASE uart_isr
    <3>1. Len(rx_mq') =< MqMax
      BY <1>2, <2>2, SerialAssumption DEF uart_isr, uart_input, Inv, Due
    <3> QED
      BY <1>2, <2>2, <3>1 DEF uart_isr, thread
  <2>3. CASE Recv
    <3>1. Len(rx_mq') =< MqMax
      BY <1>2, <2>3, SerialAssumption DEF Recv, Inv, Due
    <3> QED
      BY <1>2, <2>3, <3>1 DEF Recv
  <2>4. CASE Read
    BY <1>2, <2>4 DEF Read, Inv, IInv, Types
  <2>5. CASE SetRxIndicate \/ Startup \/ Parse \/ UNCHANGED vars
    BY <1>2, <2>5 DEF SetRxIndicate, Startup, Parse, vars, thread
  <2> QED
    BY <1>2, <2>1, <2>2, <2>3, <2>4, <2>5 DEF Next, serial_thread_entry
<1>3. Inv /\ Rest => TypeOK
  <2> SUFFICES ASSUME Inv, Rest PROVE TypeOK
    OBVIOUS
  <2>1. Types /\ last_index \in 0 .. BufSz - 1
    BY DEF Inv, IInv, Types, Last
  <2>2. is_full \in BOOLEAN
    BY DEF Inv, IInv, Flags
  <2>3. rx_mq \in Seq(Nat) /\ size \in Nat /\ accepted \in Nat
    BY DEF Inv, Due
  <2> QED
    BY <2>1, <2>2, <2>3 DEF Types, TypeOK
<1> QED
  BY <1>1, <1>2, <1>3, Invariance, PTL DEF Spec

------------------------------------------------------------------------------
(* Reads and the pieces of the line, as long as the line has brought whole  *)
(* frames only, to whatever thread: every count and every message is of     *)
(* whole frames, and every boundary between two frames not yet read is kept *)
(* in ends.                                                                 *)
Whole(x) == x % FrameLen = 0

Frames ==
  /\ \A i \in 1 .. Len(rx_mq) : Whole(rx_mq[i])
  /\ Whole(size) /\ Whole(line) /\ Whole(announced) /\ Whole(taken)
  /\ \A x \in Nat : (taken =< x /\ x =< line /\ Whole(x)) => x \in ends

LEMMA Multiple == ASSUME NEW x \in Nat PROVE Whole(x) <=> \E k \in Nat : x = FrameLen * k
<1>1. FrameLen \in Nat /\ 0 < FrameLen
  BY SerialAssumption
<1>2. ASSUME Whole(x) PROVE \E k \in Nat : x = FrameLen * k
  <2>1. x \div FrameLen \in Nat /\ x = FrameLen * (x \div FrameLen) + (x % FrameLen)
    BY <1>1, SMTT(30)
  <2>2. x = FrameLen * (x \div FrameLen)
    BY <1>2, <2>1, <1>1 DEF Whole
  <2> QED
    BY <2>1, <2>2
<1>3. ASSUME NEW k \in Nat, x = FrameLen * k PROVE Whole(x)
  <2>1. (FrameLen * k + 0) % FrameLen = 0
    BY <1>1, SMTT(30)
  <2>2. FrameLen * k + 0 = x
    BY <1>1, <1>3
  <2> QED
    BY <2>1, <2>2 DEF Whole
<1> QED
  BY <1>2, <1>3

(* Sums and differences of whole frames, and the distance of two of them.   *)
LEMMA WholeFrames ==
  ASSUME NEW a \in Nat, NEW b \in Nat, Whole(a), Whole(b)
  PROVE  /\ Whole(a + b) /\ (b =< a => Whole(a - b)) /\ (a < b => a + FrameLen =< b)
         /\ Whole(a + FrameLen) /\ Whole(0)
<1>1. FrameLen \in Nat /\ 0 < FrameLen
  BY SerialAssumption
<1>2. PICK k \in Nat : a = FrameLen * k
  BY Multiple
<1>3. PICK j \in Nat : b = FrameLen * j
  BY Multiple
<1>4. Whole(a + b)
  <2>1. a + b = FrameLen * (k + j) /\ k + j \in Nat /\ a + b \in Nat
    BY <1>1, <1>2, <1>3
  <2> QED
    BY <2>1, Multiple
<1>5. ASSUME b =< a PROVE Whole(a - b)
  <2>1. j =< k
    BY <1>1, <1>2, <1>3, <1>5
  <2>2. a - b = FrameLen * (k - j) /\ k - j \in Nat /\ a - b \in Nat
    BY <1>1, <1>2, <1>3, <2>1, <1>5
  <2> QED
    BY <2>2, Multiple
<1>6. ASSUME a < b PROVE a + FrameLen =< b
  <2>1. k + 1 =< j
    BY <1>1, <1>2, <1>3, <1>6
  <2>2. FrameLen * (k + 1) =< FrameLen * j /\ FrameLen * (k + 1) = FrameLen * k + FrameLen
    BY <1>1, <2>1
  <2> QED
    BY <1>2, <1>3, <2>2
<1>7. Whole(a + FrameLen)
  <2>1. a + FrameLen = FrameLen * (k + 1) /\ k + 1 \in Nat /\ a + FrameLen \in Nat
    BY <1>1, <1>2
  <2> QED
    BY <2>1, Multiple
<1>8. Whole(0)
  <2>1. 0 = FrameLen * 0
    BY <1>1
  <2> QED
    BY <2>1, Multiple
<1> QED
  BY <1>4, <1>5, <1>6, <1>7, <1>8

(* What the interrupt does to the queue.                                    *)
LEMMA Announcing ==
  ASSUME Inv, Held', uart_isr
  PROVE  /\ announced < line /\ announced' = line /\ line - taken \in Nat
         /\ UNCHANGED <<boot, thread, slow, line, ends>>
         /\ \/ rx_mq' = rx_mq /\ (boot = "open" \/ ~(Len(rx_mq) < MqMax))
            \/ rx_mq' = Append(rx_mq, line - taken) /\ boot # "open"
<1>1. announced < line /\ announced' = line /\ UNCHANGED <<boot, thread, slow, line, ends>>
  BY Interrupt DEF Inv, uart_isr, IInv, Types
<1>2. line - announced > 0 /\ Apart(Pos, put_index, line - announced) /\ last_index = put_index
  BY <1>1 DEF Inv, IInv, Types, Places, Last
<1>3. (BufSz - ndtr) - last_index # 0
  BY <1>2, <1>1, SerialAssumption DEF Inv, IInv, Types, Counts, Apart, Pos
<1>4. Recved' = line - taken
  BY <1>1 DEF Held, thread
<1>5. line - taken \in Nat
  BY DEF Inv, IInv, Types, Counts
<1> QED
  BY <1>1, <1>3, <1>4, <1>5 DEF uart_isr, uart_input

LEMMA InitFrames == Init => Frames
BY WholeFrames, SerialAssumption DEF Init, Frames, Whole

LEMMA NextFrames ==
  ASSUME Inv, Held, Held', parts \in Nat, parts' = 0, Frames, [Next]_vars
  PROVE  Frames'
<1>1. /\ line \in Nat /\ announced \in Nat /\ taken \in Nat
      /\ taken =< announced /\ announced =< line /\ rx_mq \in Seq(Nat) /\ size \in Nat
  BY DEF Inv, IInv, Types, Counts, Due
<1>2. \A i \in 1 .. Len(rx_mq) : rx_mq[i] \in Nat /\ Whole(rx_mq[i])
  BY <1>1 DEF Frames
<1>3. ASSUME NEW n \in 1 .. FrameLen, Line(n) PROVE Frames'
  <2>1. /\ n = FrameLen /\ line' = line + FrameLen /\ ends' = ends \cup {line + FrameLen}
        /\ UNCHANGED <<rx_mq, size, announced, taken>>
    BY <1>3 DEF Line, thread
  <2>2. Whole(line + FrameLen)
    BY <1>1, WholeFrames DEF Frames
  <2>3. ASSUME NEW x \in Nat, taken =< x, x =< line + FrameLen, Whole(x) PROVE x \in ends'
    <3>1. CASE x =< line
      BY <2>1, <2>3, <3>1 DEF Frames
    <3>2. CASE line < x
      <4>1. line + FrameLen =< x
        BY <1>1, <2>3, <3>2, WholeFrames DEF Frames
      <4>2. x = line + FrameLen
        BY <1>1, <2>3, <4>1, SerialAssumption
      <4> QED
        BY <2>1, <4>2
    <3> QED
      BY <1>1, <3>1, <3>2
  <2> QED
    BY <2>1, <2>2, <2>3 DEF Frames
<1>4. CASE uart_isr
  <2>1. /\ announced' = line /\ line - taken \in Nat
        /\ UNCHANGED <<size, taken, line, ends>>
        /\ rx_mq' = rx_mq \/ rx_mq' = Append(rx_mq, line - taken)
    BY <1>4, Announcing DEF thread
  <2>2. Whole(line - taken)
    BY <1>1, WholeFrames DEF Frames
  <2>3. \A i \in 1 .. Len(rx_mq') : Whole(rx_mq'[i])
    <3>1. CASE rx_mq' = rx_mq
      BY <1>2, <3>1
    <3>2. CASE rx_mq' = Append(rx_mq, line - taken)
      BY <1>1, <1>2, <2>1, <2>2, <3>2
    <3> QED
      BY <2>1, <3>1, <3>2
  <2> QED
    BY <2>1, <2>3 DEF Frames
<1>5. CASE Recv
  <2>1. /\ rx_mq # <<>> /\ size' = Head(rx_mq) /\ rx_mq' = Tail(rx_mq)
        /\ UNCHANGED <<line, announced, taken, ends>>
    BY <1>5 DEF Recv
  <2>2. size' = rx_mq[1] /\ 1 \in 1 .. Len(rx_mq)
    BY <1>1, <2>1
  <2>3. \A i \in 1 .. Len(rx_mq') : rx_mq'[i] = rx_mq[i + 1] /\ i + 1 \in 1 .. Len(rx_mq)
    BY <1>1, <2>1
  <2> QED
    BY <1>2, <2>1, <2>2, <2>3 DEF Frames
<1>6. CASE Read
  <2>1. /\ taken' = taken + ReadLen /\ ReadLen \in 0 .. announced - taken
        /\ UNCHANGED <<rx_mq, size, line, announced, ends>>
    BY <1>1, <1>6, Reading DEF Inv, Read
  <2>2. ReadLen = size \/ ReadLen = announced - taken
    BY DEF ReadLen, Held
  <2>3. Whole(announced - taken)
    BY <1>1, WholeFrames DEF Frames
  <2>4. Whole(ReadLen) /\ ReadLen \in Nat
    BY <1>1, <2>1, <2>2, <2>3 DEF Frames
  <2>5. Whole(taken + ReadLen)
    BY <1>1, <2>4, WholeFrames DEF Frames
  <2>6. \A x \in Nat : taken' =< x => taken =< x
    BY <1>1, <2>1, <2>4
  <2> QED
    BY <2>1, <2>5, <2>6 DEF Frames
<1>7. CASE Parse
  BY <1>1, <1>7 DEF Parse, Frames
<1>8. CASE SetRxIndicate \/ Startup \/ UNCHANGED vars
  <2>1. UNCHANGED <<rx_mq, size, line, announced, taken, ends>>
    BY <1>8 DEF SetRxIndicate, Startup, vars, thread
  <2> QED
    BY <2>1 DEF Frames
<1> QED
  BY <1>3, <1>4, <1>5, <1>6, <1>7, <1>8 DEF Next, serial_thread_entry

------------------------------------------------------------------------------
(* A thread that keeps up has two messages to deal with at most: the second *)
(* one of a piece from before its start.  No message is lost once the       *)
(* callback is set, so what a read takes is one piece, but for the first.   *)
Clear(a, b) == \A e \in ends : ~(a < e /\ e < b)

Count == Len(rx_mq) + IF pc = "read" THEN 1 ELSE 0
First == IF pc = "read" THEN size ELSE rx_mq[1]
Pending == IF line > announced THEN 1 ELSE 0

Edges ==
  /\ ends \in SUBSET Nat /\ taken \in ends /\ announced \in ends /\ line \in ends
  /\ \A e \in ends : e =< announced \/ e = line
  /\ reads \in 0 .. 2 /\ Count + Pending =< 2

None == (Count = 0 /\ reads > 0) => taken = announced

One ==
  Count = 1 => /\ announced - taken =< First /\ taken < announced
               /\ First = announced - taken \/ (line = announced /\ boot = "done")
               /\ reads > 0 => Clear(taken, announced)

Two ==
  Count = 2 => /\ taken + First \in ends /\ 0 < First /\ taken + First < announced
               /\ reads > 0 => Clear(taken, taken + First)
               /\ Clear(taken + First, announced)
               /\ announced - (taken + First) =< rx_mq[Len(rx_mq)]

Booting ==
  boot # "done" => /\ pc = "off" /\ reads = 0 /\ (boot = "open" => rx_mq = <<>>)
                   /\ IsFiniteSet(ends) /\ Cardinality(ends) =< 3
                   /\ Count + Pending < Cardinality(ends)

Fresh == pc = "parse" => from < taken /\ (reads > 1 => Clear(from, taken))

Keeping == Edges /\ None /\ One /\ Two /\ Booting /\ Fresh

(* The types they rest on.                                                  *)
LEMMA Numbers ==
  ASSUME Inv
  PROVE  /\ line \in Nat /\ announced \in Nat /\ taken \in Nat
         /\ taken =< announced /\ announced =< line /\ rx_mq \in Seq(Nat) /\ size \in Nat
         /\ Len(rx_mq) \in Nat /\ (Len(rx_mq) = 0 <=> rx_mq = <<>>)
         /\ \A i \in 1 .. Len(rx_mq) : rx_mq[i] \in Nat
         /\ Count \in Nat /\ (pc # "read" => Count = Len(rx_mq))
         /\ (pc = "read" => Count = Len(rx_mq) + 1)
BY DEF Inv, IInv, Types, Counts, Due, Count

LEMMA InitKeeping == Init => Keeping
<1> SUFFICES ASSUME Init PROVE Keeping
  OBVIOUS
<1>1. Len(<<>>) = 0
  BY EmptySeq
<1>2. Count = 0 /\ Pending = 0
  BY <1>1 DEF Init, Count, Pending
<1>3. IsFiniteSet({0}) /\ Cardinality({0}) = 1
  BY FS_Singleton
<1> QED
  BY <1>2, <1>3 DEF Init, Keeping, Edges, None, One, Two, Booting, Fresh

(* A new piece comes when there is nothing to deal with, or before the      *)
(* start.                                                                   *)
LEMMA LineKeeping ==
  ASSUME Inv, Keeping, ~slow, NEW n \in 1 .. FrameLen, Line(n) PROVE Keeping'
<1>1. /\ n \in Nat /\ 0 < n /\ line = announced
      /\ line' = line + n /\ ends' = ends \cup {line + n}
      /\ UNCHANGED <<boot, rx_mq, announced, taken, from, reads, pc, size>>
  BY SerialAssumption DEF Line, thread
<1>2. Pending = 0 /\ Pending' = 1 /\ Count' = Count /\ First' = First
  BY <1>1, Numbers DEF Pending, Count, First
<1>3. \A a, b : a \in Nat /\ b \in Nat /\ b =< announced /\ Clear(a, b) => Clear(a, b)'
  BY <1>1, Numbers DEF Clear
<1>4. boot = "done" => Count = 0
  BY Numbers DEF Line, Lag
<1>5. boot # "done" => Count < 2 /\ Cardinality(ends) =< 2
  <2>1. ASSUME boot # "done" PROVE Cardinality(ends) \in Nat
    BY <2>1, FS_CardinalityType DEF Keeping, Booting
  <2> QED
    BY <1>2, <2>1, Numbers DEF Line, Keeping, Booting
<1>6. line + n \notin ends
  BY <1>1, Numbers DEF Keeping, Edges
<1>7. Booting'
  <2> SUFFICES ASSUME boot # "done" PROVE Booting'
    BY <1>1 DEF Booting
  <2>1. IsFiniteSet(ends') /\ Cardinality(ends') = Cardinality(ends) + 1
    BY <1>1, <1>6, FS_AddElement DEF Keeping, Booting
  <2>2. Cardinality(ends) \in Nat
    BY FS_CardinalityType DEF Keeping, Booting
  <2> QED
    BY <1>1, <1>2, <1>5, <2>1, <2>2, Numbers DEF Keeping, Booting
<1>8. Edges'
  BY <1>1, <1>2, <1>4, <1>5, Numbers DEF Keeping, Edges
<1>9. None' /\ Fresh'
  BY <1>1, <1>2, <1>3, Numbers DEF Keeping, None, Fresh, Edges, Clear
<1>10. One'
  BY <1>1, <1>2, <1>3, <1>4, Numbers DEF Keeping, One, Booting
<1>11. Count # 2
  BY <1>4, <1>5
<1>12. Two'
  BY <1>2, <1>11 DEF Two
<1> QED
  BY <1>7, <1>8, <1>9, <1>10, <1>12 DEF Keeping

(* The interrupt announces the piece.  The message is accepted once the     *)
(* callback is set.                                                         *)
LEMMA IsrKeeping ==
  ASSUME Inv, Held', Keeping, ~slow, 2 =< MqMax, uart_isr PROVE Keeping'
<1>1. /\ announced < line /\ announced' = line
      /\ UNCHANGED <<boot, pc, size, from, taken, reads, line, ends>>
      /\ \/ rx_mq' = rx_mq /\ (boot = "open" \/ ~(Len(rx_mq) < MqMax))
         \/ rx_mq' = Append(rx_mq, line - taken) /\ boot # "open"
      /\ line - taken \in Nat
  BY Announcing DEF thread
<1>2. Pending = 1 /\ Pending' = 0 /\ Count \in 0 .. 1 /\ Count \in Nat
  BY <1>1, Numbers DEF Pending, Keeping, Edges
<1>3. \A a, b : Clear(a, b)' <=> Clear(a, b)
  BY <1>1 DEF Clear
<1>4. Clear(announced, line) /\ Fresh'
  BY <1>1, <1>3, Numbers DEF Keeping, Edges, Fresh, Clear
<1>5. CASE boot = "open"
  <2>1. rx_mq = <<>> /\ rx_mq' = rx_mq /\ pc = "off" /\ reads = 0
    BY <1>1, <1>5 DEF Keeping, Booting
  <2>2. Count' = 0 /\ Count = 0
    BY <1>1, <2>1, Numbers DEF Count
  <2>3. Cardinality(ends) \in Nat
    BY <1>5, FS_CardinalityType DEF Keeping, Booting
  <2> QED
    BY <1>1, <1>2, <1>4, <1>5, <2>1, <2>2, <2>3, Numbers
       DEF Keeping, Edges, None, One, Two, Booting
<1>6. CASE boot # "open"
  <2>1. Len(rx_mq) < MqMax
    BY <1>2, Numbers, SerialAssumption
  <2>2. rx_mq' = Append(rx_mq, line - taken)
    BY <1>1, <1>6, <2>1
  <2>3. /\ Len(rx_mq') = Len(rx_mq) + 1 /\ rx_mq'[Len(rx_mq')] = line - taken
        /\ Len(rx_mq) > 0 => rx_mq'[1] = rx_mq[1]
        /\ Len(rx_mq) = 0 => rx_mq'[1] = line - taken
    BY <1>1, <2>2, Numbers
  <2>4. Count' = Count + 1
    BY <1>1, <2>3, Numbers DEF Count
  <2>5. Booting'
    <3>1. boot # "done" => Cardinality(ends) \in Nat
      BY FS_CardinalityType DEF Keeping, Booting
    <3> QED
      BY <1>1, <1>2, <1>6, <2>4, <3>1 DEF Keeping, Booting
  <2>6. Edges' /\ None'
    BY <1>1, <1>2, <2>4, Numbers DEF Keeping, Edges, None
  <2>7. CASE Count = 0
    <3>1. First' = line - taken /\ Count' = 1
      BY <1>1, <2>3, <2>4, <2>7, Numbers DEF First
    <3>2. reads > 0 => Clear(taken, line)
      BY <1>4, <2>7 DEF Keeping, None
    <3>3. taken < line
      BY <1>1, Numbers
    <3>4. One' /\ Two'
      BY <1>1, <1>3, <3>1, <3>2, <3>3, Numbers DEF One, Two
    <3> QED
      BY <1>4, <2>5, <2>6, <3>4 DEF Keeping
  <2>8. CASE Count = 1
    <3>1. First = announced - taken /\ taken < announced
          /\ (reads > 0 => Clear(taken, announced))
      BY <1>1, <2>8, Numbers DEF Keeping, One
    <3>2. First' = First /\ Count' = 2
      BY <1>1, <2>3, <2>4, <2>8, Numbers DEF First
    <3>3. taken + First = announced /\ 0 < First
      BY <3>1, Numbers
    <3>4. announced \in ends /\ announced < line /\ line - announced =< line - taken
      BY <1>1, <3>1, Numbers DEF Keeping, Edges
    <3>5. (taken + First)' = announced /\ 0 < First'
      BY <1>1, <3>2, <3>3
    <3>6. Two'
      BY <1>1, <1>3, <1>4, <2>3, <3>1, <3>4, <3>5 DEF Two
    <3>7. One'
      BY <3>2 DEF One
    <3> QED
      BY <1>4, <2>5, <2>6, <3>6, <3>7 DEF Keeping
  <2> QED
    BY <1>2, <2>7, <2>8
<1> QED
  BY <1>5, <1>6

(* The thread takes the first message off the queue.                        *)
LEMMA RecvKeeping == ASSUME Inv, Keeping, Recv PROVE Keeping'
<1>1. /\ pc = "recv" /\ pc' = "read" /\ rx_mq # <<>> /\ boot = "done"
      /\ size' = Head(rx_mq) /\ rx_mq' = Tail(rx_mq)
      /\ UNCHANGED <<boot, from, taken, reads, line, ends, announced>>
  BY DEF Recv, Keeping, Booting
<1>2. Len(rx_mq') = Len(rx_mq) - 1 /\ size' = rx_mq[1]
      /\ (Len(rx_mq) # 1 => rx_mq'[Len(rx_mq')] = rx_mq[Len(rx_mq)])
  <2>1. Len(rx_mq) # 1 => rx_mq'[Len(rx_mq')] = rx_mq[Len(rx_mq)]
    BY <1>1, TailLast, Numbers
  <2> QED
    BY <1>1, <2>1, Numbers
<1>3. Count' = Count /\ First' = First /\ Pending' = Pending /\ Count = Len(rx_mq)
  BY <1>1, <1>2, Numbers DEF Count, First, Pending
<1>4. \A a, b : Clear(a, b)' <=> Clear(a, b)
  BY <1>1 DEF Clear
<1>5. Edges' /\ None' /\ Booting' /\ Fresh'
  BY <1>1, <1>3 DEF Keeping, Edges, None, Booting, Fresh
<1>6. One'
  BY <1>1, <1>3, <1>4 DEF Keeping, One
<1>7. Two'
  BY <1>1, <1>2, <1>3, <1>4 DEF Keeping, Two
<1> QED
  BY <1>5, <1>6, <1>7 DEF Keeping

(* A read takes all there is, or the first of two pieces.                   *)
LEMMA ReadKeeping == ASSUME Inv, Held, Keeping, Read PROVE Keeping'
<1>1. /\ pc = "read" /\ pc' = "parse" /\ from' = taken /\ boot = "done"
      /\ reads' = IF reads < 2 THEN reads + 1 ELSE 2
      /\ taken' = taken + ReadLen
      /\ UNCHANGED <<boot, rx_mq, size, line, ends, announced>>
  BY DEF Read, Keeping, Booting
<1>2. ReadLen = (IF size < announced - taken THEN size ELSE announced - taken)
      /\ First = size
  BY <1>1 DEF ReadLen, Held, First
<1>3. reads' \in 0 .. 2 /\ reads' > 0 /\ (reads' > 1 => reads > 0)
  BY <1>1 DEF Keeping, Edges
<1>4. Count' = Len(rx_mq) /\ Count = Len(rx_mq) + 1 /\ Len(rx_mq) \in Nat /\ Pending' = Pending
      /\ Count \in 1 .. 2 /\ Pending \in 0 .. 1
      /\ Count + Pending =< 2
  BY <1>1, Numbers DEF Count, Pending, Keeping, Edges
<1>5. \A a, b : Clear(a, b)' <=> Clear(a, b)
  BY <1>1 DEF Clear
<1>6. Booting'
  BY <1>1 DEF Booting
<1>7. CASE Count = 1
  <2>1. ReadLen = announced - taken /\ taken < announced /\ (reads > 0 => Clear(taken, announced))
    BY <1>2, <1>7, Numbers DEF Keeping, One
  <2>2. taken' = announced /\ Count' = 0
    BY <1>1, <1>4, <1>7, <2>1, Numbers
  <2>3. Edges' /\ None' /\ One' /\ Two'
    BY <1>1, <1>3, <1>4, <2>2 DEF Keeping, Edges, None, One, Two
  <2>4. Fresh'
    BY <1>1, <1>3, <1>5, <2>1, <2>2 DEF Fresh
  <2> QED
    BY <1>6, <2>3, <2>4 DEF Keeping
<1>8. CASE Count = 2
  <2>1. /\ taken + size \in ends /\ 0 < size /\ taken + size < announced
        /\ reads > 0 => Clear(taken, taken + size)
        /\ Clear(taken + size, announced)
        /\ announced - (taken + size) =< rx_mq[Len(rx_mq)]
    BY <1>2, <1>8 DEF Keeping, Two
  <2>2. ReadLen = size
    BY <1>2, <2>1, Numbers
  <2>3. Count' = 1 /\ Len(rx_mq) = 1 /\ First' = rx_mq[1] /\ line = announced
    <3>1. Count' = 1 /\ Len(rx_mq) = 1 /\ Pending = 0
      BY <1>4, <1>8
    <3>2. First' = rx_mq[1]
      BY <1>1 DEF First
    <3>3. line = announced
      BY <3>1, Numbers DEF Pending
    <3> QED
      BY <3>1, <3>2, <3>3
  <2>4. Edges' /\ None' /\ Two'
    BY <1>1, <1>3, <1>4, <2>1, <2>2, <2>3 DEF Keeping, Edges, None, Two
  <2>5. One'
    BY <1>1, <1>5, <2>1, <2>2, <2>3 DEF One
  <2>6. taken < taken + size
    BY <2>1, Numbers
  <2>7. Fresh'
    BY <1>1, <1>3, <1>5, <2>1, <2>2, <2>6 DEF Fresh
  <2> QED
    BY <1>6, <2>4, <2>5, <2>7 DEF Keeping
<1> QED
  BY <1>4, <1>7, <1>8

(* Nothing else touches a message, and ends only loses what has been read.  *)
LEMMA RestKeeping ==
  ASSUME Inv, Keeping, SetRxIndicate \/ Startup \/ Parse \/ UNCHANGED vars PROVE Keeping'
<1>1. /\ UNCHANGED <<rx_mq, size, from, taken, reads, line, announced>>
      /\ pc = "read" <=> pc' = "read"
  BY DEF SetRxIndicate, Startup, Parse, vars, thread, Inv, Waits
<1>2. Count' = Count /\ First' = First /\ Pending' = Pending
  BY <1>1 DEF Count, First, Pending
<1>3. CASE Parse
  <2>1. ends' = {e \in ends : e >= taken} /\ boot' = boot /\ boot = "done" /\ pc' # "parse"
    BY <1>3 DEF Parse, Keeping, Booting
  <2>2. \A a, b : Clear(a, b) => Clear(a, b)'
    BY <2>1 DEF Clear
  <2>3. Edges'
    <3>1. taken \in ends' /\ announced \in ends' /\ line \in ends' /\ ends' \in SUBSET Nat
      <4>1. taken >= taken /\ announced >= taken /\ line >= taken
        BY Numbers
      <4>2. taken \in ends /\ announced \in ends /\ line \in ends /\ ends \in SUBSET Nat
        BY DEF Keeping, Edges
      <4> QED
        BY <2>1, <4>1, <4>2, Zenon
    <3>2. \A e \in ends' : e =< announced \/ e = line
      BY <2>1 DEF Keeping, Edges
    <3>3. reads \in 0 .. 2 /\ Count + Pending =< 2
      BY DEF Keeping, Edges
    <3> QED
      BY <1>1, <1>2, <3>1, <3>2, <3>3 DEF Edges
  <2>6. None' /\ Booting' /\ Fresh'
    BY <1>1, <1>2, <2>1 DEF Keeping, None, Booting, Fresh
  <2>4. One'
    BY <1>1, <1>2, <2>1, <2>2 DEF Keeping, One
  <2>5. Two'
    <3>1. First \in Nat \/ Count # 2
      BY Numbers DEF First
    <3> QED
      BY <1>1, <1>2, <2>1, <2>2, <3>1, Numbers DEF Keeping, Two
  <2> QED
    BY <2>3, <2>4, <2>5, <2>6 DEF Keeping
<1>4. CASE SetRxIndicate \/ Startup \/ UNCHANGED vars
  <2>1. /\ ends' = ends /\ (boot = "done" => boot' = "done") /\ (boot' = "open" => boot = "open")
        /\ pc' # "parse" \/ pc' = pc
        /\ boot' # "done" => pc' = pc
    BY <1>4 DEF SetRxIndicate, Startup, vars, thread
  <2>2. \A a, b : Clear(a, b)' <=> Clear(a, b)
    BY <2>1 DEF Clear
  <2>3. Edges' /\ None' /\ Booting' /\ Fresh'
    BY <1>1, <1>2, <2>1, <2>2 DEF Keeping, Edges, None, Booting, Fresh
  <2>4. One'
    BY <1>1, <1>2, <2>1, <2>2 DEF Keeping, One
  <2>5. Two'
    BY <1>1, <1>2, <2>1, <2>2 DEF Keeping, Two
  <2> QED
    BY <2>3, <2>4, <2>5 DEF Keeping
<1> QED
  BY <1>3, <1>4

LEMMA NextKeeping ==
  ASSUME Inv, Held, Held', Keeping, ~slow, 2 =< MqMax, [Next]_vars PROVE Keeping'
<1>1. ASSUME NEW n \in 1 .. FrameLen, Line(n) PROVE Keeping'
  BY <1>1, LineKeeping
<1>2. CASE uart_isr
  BY <1>2, IsrKeeping
<1>3. CASE Recv
  BY <1>3, RecvKeeping
<1>4. CASE Read
  BY <1>4, ReadKeeping
<1>5. CASE SetRxIndicate \/ Startup \/ Parse \/ UNCHANGED vars
  BY <1>5, RestKeeping
<1> QED
  BY <1>1, <1>2, <1>3, <1>4, <1>5 DEF Next, serial_thread_entry

(* A late thread is brought nothing but frames as long as none of the       *)
(* pieces was a part; one that keeps up stays one.                          *)
Pieces == parts \in Nat /\ (parts = 0 => Frames) /\ (~slow => Keeping)

LEMMA PiecesKept == 2 =< MqMax => (Spec => []Pieces)
<1> SUFFICES ASSUME 2 =< MqMax PROVE Spec => []Pieces
  OBVIOUS
<1>1. Init => Pieces
  <2> SUFFICES ASSUME Init PROVE Pieces
    OBVIOUS
  <2>1. parts \in Nat
    BY DEF Init
  <2> QED
    BY <2>1, InitFrames, InitKeeping DEF Pieces
<1>2. ASSUME Inv, Held, Held', Pieces, [Next]_vars PROVE Pieces'
  <2>1. slow' = slow /\ parts' \in {parts, parts + 1}
    BY <1>2 DEF Next, vars, SetRxIndicate, Startup, Line, uart_isr, serial_thread_entry, Recv,
                Read, Parse
  <2>2. parts \in Nat /\ parts' \in Nat /\ (parts' = 0 => parts = 0)
    BY <1>2, <2>1 DEF Pieces
  <2>3. parts' = 0 => Frames'
    BY <1>2, <2>2, NextFrames DEF Pieces
  <2>4. ~slow' => Keeping'
    BY <1>2, <2>1, NextKeeping DEF Pieces
  <2> QED
    BY <2>2, <2>3, <2>4 DEF Pieces
<1> QED
  BY <1>1, <1>2, Invariance, InvHeld, PTL DEF Spec

(* No read (serial_thread_entry, _serial_dma_rx) ends within a piece of the *)
(* line if the thread keeps up, or if the line has brought whole frames     *)
(* only, however late the thread is: for every ring and frame, any number   *)
(* of parts of a frame in the first case, and a queue with room for two     *)
(* messages (msg_pool has room for 21).  It says nothing of a late thread   *)
(* and a part of a frame.                                                   *)
THEOREM WholePieces == 2 =< MqMax => (Spec => []PieceByPiece)
<1>1. Inv /\ Pieces => PieceByPiece
  <2> SUFFICES ASSUME Inv, Pieces, ~slow \/ parts = 0 PROVE taken \in ends
    BY DEF PieceByPiece
  <2>1. taken =< taken /\ taken =< line /\ taken \in Nat
    BY Numbers
  <2> QED
    BY <2>1 DEF Pieces, Frames, Keeping, Edges
<1> QED
  BY <1>1, PiecesKept, Invariance, PTL

(* Each read of a thread that keeps up finds something and, but for the     *)
(* first, is of one piece of the line only (serial_thread_entry).  Whether  *)
(* that piece is a whole frame it does not say.                             *)
THEOREM OneByOne == 2 =< MqMax => (Spec => []OnePiece)
<1>1. Pieces => OnePiece
  BY DEF Pieces, Keeping, Fresh, Clear, OnePiece
<1> QED
  BY <1>1, PiecesKept, PTL
==============================================================================
