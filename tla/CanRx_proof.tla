----------------------------- MODULE CanRx_proof -----------------------------
(* Proofs about reception on a CAN bus, for a message box of any size above *)
(* one and any number of frames.                                            *)
EXTENDS CanRx, SequenceTheorems, TLAPS

(* What a list holds after a node is appended, and after its head is taken. *)
LEMMA RangeAppend ==
  ASSUME NEW S, NEW s \in Seq(S), NEW e \in S
  PROVE  Range(Append(s, e)) = Range(s) \cup {e}
<1>1. /\ DOMAIN s = 1 .. Len(s) /\ Len(s) \in Nat
      /\ DOMAIN Append(s, e) = 1 .. Len(s) + 1
      /\ \A i \in 1 .. Len(s) : Append(s, e)[i] = s[i]
      /\ Append(s, e)[Len(s) + 1] = e
  OBVIOUS
<1>. QED
  BY <1>1 DEF Range

LEMMA RangeTail ==
  ASSUME NEW S, NEW s \in Seq(S), s # <<>>
  PROVE  Range(s) = {Head(s)} \cup Range(Tail(s))
<1>1. /\ DOMAIN s = 1 .. Len(s) /\ Len(s) \in Nat /\ Len(s) > 0
      /\ DOMAIN Tail(s) = 1 .. Len(s) - 1
      /\ \A i \in 1 .. Len(s) - 1 : Tail(s)[i] = s[i + 1]
      /\ Head(s) = s[1]
  OBVIOUS
<1>2. ASSUME NEW i \in 1 .. Len(s), i # 1
      PROVE  s[i] \in Range(Tail(s))
  <2>1. i - 1 \in 1 .. Len(s) - 1 /\ (i - 1) + 1 = i
    BY <1>1, <1>2
  <2>2. Tail(s)[i - 1] = s[i]
    BY <1>1, <2>1
  <2>. QED
    BY <1>1, <2>1, <2>2 DEF Range
<1>3. ASSUME NEW i \in 1 .. Len(s) - 1
      PROVE  Tail(s)[i] \in Range(s)
  <2>1. i + 1 \in 1 .. Len(s)
    BY <1>1
  <2>. QED
    BY <1>1, <2>1 DEF Range
<1>4. Range(s) \subseteq {Head(s)} \cup Range(Tail(s))
  BY <1>1, <1>2 DEF Range
<1>5. Range(Tail(s)) \subseteq Range(s)
  BY <1>1, <1>3 DEF Range
<1>6. Head(s) \in Range(s)
  BY <1>1 DEF Range
<1>. QED
  BY <1>4, <1>5, <1>6

LEMMA RangeShort == Range(<<>>) = {} /\ \A e : Range(<<e>>) = {e}
BY DEF Range

(* The thread holds a node exactly while it copies from it or gives it back.*)
Holding == listmsg # NoNode <=> rx \in {"copy", "free"}

(* Until can1_init has come to them, nothing is counted and nothing runs.   *)
Setup ==
  /\ stage \in {"closed", "open", "hooked", "halted"} => sem = 0
  /\ stage # "running" => rx = "off"

IInv ==
  /\ TypeOK
  /\ NodesOwnedOnce
  /\ freenumbers = Len(freelist)
  /\ Holding
  /\ Setup
  /\ SemAccounting
  /\ StaleOnlyAfterDrop

(* A box with more than one node never leaves the handler without one.      *)
LEMMA SomeNode == IInv => freelist # <<>> \/ uselist # <<>>
<1>. SUFFICES ASSUME IInv, freelist = <<>>, uselist = <<>> PROVE FALSE
  OBVIOUS
<1>1. Len(freelist) = 0 /\ Len(uselist) = 0
  OBVIOUS
<1>2. Len(InHand) \in {0, 1}
  BY DEF InHand
<1>. QED
  BY <1>1, <1>2, CanAssumption DEF IInv, NodesOwnedOnce

(* What an action on the lists does, in numbers and as sets.                *)
LEMMA Moves ==
  ASSUME NEW s \in Seq(Node), NEW e \in Node
  PROVE  /\ Append(s, e) \in Seq(Node) /\ Len(Append(s, e)) = Len(s) + 1
         /\ Range(Append(s, e)) = Range(s) \cup {e}
         /\ s # <<>> => /\ Tail(s) \in Seq(Node) /\ Head(s) \in Node
                        /\ Len(Tail(s)) = Len(s) - 1 /\ Len(s) > 0
                        /\ Range(s) = {Head(s)} \cup Range(Tail(s))
         /\ Len(s) \in Nat
BY RangeAppend, RangeTail

LEMMA InitInvariant == Init => IInv
<1>. SUFFICES ASSUME Init PROVE IInv
  OBVIOUS
<1>1. /\ freelist \in Seq(Node) /\ Len(freelist) = BoxSize /\ Range(freelist) = Node
      /\ uselist \in Seq(Node) /\ Len(uselist) = 0 /\ Range(uselist) = {}
  <2>1. /\ freelist \in Seq(Node) /\ Len(freelist) = BoxSize
        /\ DOMAIN freelist = Node /\ \A i \in Node : freelist[i] = i
    BY CanAssumption DEF Init, Node
  <2>2. Range(freelist) = Node
    BY <2>1 DEF Range
  <2>3. uselist \in Seq(Node) /\ Len(uselist) = 0 /\ Range(uselist) = {}
    BY RangeShort DEF Init
  <2>. QED
    BY <2>1, <2>2, <2>3
<1>2. Len(InHand) = 0 /\ Range(InHand) = {}
  BY RangeShort DEF Init, InHand
<1>3. TypeOK
  BY <1>1, CanAssumption DEF Init, TypeOK, Node, NoNode
<1>4. NodesOwnedOnce
  BY <1>1, <1>2, CanAssumption DEF NodesOwnedOnce
<1>5. freenumbers = Len(freelist) /\ Holding /\ Setup
  BY <1>1 DEF Init, Holding, Setup
<1>6. SemAccounting /\ StaleOnlyAfterDrop
  BY <1>1 DEF Init, SemAccounting, StaleOnlyAfterDrop, Taken
<1>. QED
  BY <1>3, <1>4, <1>5, <1>6 DEF IInv

(* can1_init touches nothing the lists or the counts are made of.           *)
LEMMA InitSteps == IInv /\ can1_init => IInv'
<1>. SUFFICES ASSUME IInv, can1_init PROVE IInv'
  OBVIOUS
<1>1. /\ UNCHANGED <<box, listmsg, rxmsg, dispatched, history>>
      /\ sem' = sem /\ rx \notin {"read", "copy", "free"}
      /\ rx' \notin {"read", "copy", "free"}
  BY DEF can1_init, rt_device_open, rt_device_set_rx_indicate, rt_sem_init,
         rt_thread_startup, thread, IInv, Setup
<1>2. TypeOK'
  BY <1>1 DEF IInv, TypeOK, box, history, can1_init, rt_device_open, thread,
              rt_device_set_rx_indicate, rt_sem_init, rt_thread_startup
<1>3. NodesOwnedOnce' /\ (freenumbers = Len(freelist))'
  BY <1>1 DEF IInv, NodesOwnedOnce, InHand, box
<1>4. Holding'
  BY <1>1 DEF IInv, Holding
<1>5. Setup'
  BY <1>1 DEF IInv, Setup, can1_init, rt_device_open, thread,
              rt_device_set_rx_indicate, rt_sem_init, rt_thread_startup
<1>6. SemAccounting' /\ StaleOnlyAfterDrop'
  BY <1>1 DEF IInv, SemAccounting, StaleOnlyAfterDrop, Taken, box, history
<1>. QED
  BY <1>2, <1>3, <1>4, <1>5, <1>6 DEF IInv

(* The interrupt handler moves one node to the end of uselist, from         *)
(* freelist or from its front, and announces the frame it then holds.       *)
LEMMA IsrStep == IInv /\ rt_hw_can_isr => IInv'
<1>. SUFFICES ASSUME IInv, rt_hw_can_isr PROVE IInv'
  OBVIOUS
<1>1. /\ freelist \in Seq(Node) /\ uselist \in Seq(Node)
      /\ freenumbers = Len(freelist) /\ freenumbers \in 0 .. BoxSize
      /\ Len(freelist) \in Nat /\ Len(uselist) \in Nat
  BY DEF IInv, TypeOK
<1>2. /\ UNCHANGED <<thread, stale>> /\ InHand' = InHand /\ Taken' = Taken
      /\ Len(InHand) \in Nat
  BY DEF rt_hw_can_isr, InHand, Taken, thread
<1>3. /\ freelist' \in Seq(Node) /\ uselist' \in Seq(Node) /\ Victim \in Node
      /\ Range(freelist') \cup Range(uselist') = Range(freelist) \cup Range(uselist)
      /\ freenumbers' = Len(freelist')
      /\ freenumbers' \in 0 .. BoxSize
      /\ \/ /\ Len(freelist') = Len(freelist) /\ Len(uselist') = Len(uselist)
            /\ dropped' = dropped + 1
         \/ /\ Len(freelist) > 0 /\ Len(freelist') = Len(freelist) - 1
            /\ Len(uselist') = Len(uselist) + 1
            /\ dropped' = dropped
  <2>1. CASE Full
    <3>1. uselist # <<>> /\ Victim = Head(uselist)
      BY <2>1, SomeNode DEF Full, Victim
    <3>2. /\ Victim \in Node /\ Tail(uselist) \in Seq(Node)
          /\ Len(Tail(uselist)) = Len(uselist) - 1
          /\ Range(uselist) = {Victim} \cup Range(Tail(uselist))
      BY <1>1, <3>1, Moves
    <3>3. /\ uselist' = Append(Tail(uselist), Victim) /\ freelist' = freelist
          /\ freenumbers' = freenumbers /\ dropped' = dropped + 1
      BY <2>1 DEF rt_hw_can_isr, Queued, FreeLeft
    <3>4. LET u == Append(Tail(uselist), Victim)
          IN /\ u \in Seq(Node) /\ Range(u) = Range(Tail(uselist)) \cup {Victim}
             /\ Len(u) = Len(Tail(uselist)) + 1
      BY <3>2, Moves
    <3>5. /\ Len(Tail(uselist)) + 1 = Len(uselist)
          /\ Range(Tail(uselist)) \cup {Victim} = Range(uselist)
      BY <1>1, <3>2
    <3>. QED
      BY <1>1, <3>2, <3>3, <3>4, <3>5
  <2>2. CASE ~Full
    <3>1. Victim = Head(freelist) /\ freelist # <<>>
      BY <2>2 DEF Full, Victim
    <3>2. /\ Victim \in Node /\ Tail(freelist) \in Seq(Node)
          /\ Len(Tail(freelist)) = Len(freelist) - 1 /\ Len(freelist) > 0
          /\ Range(freelist) = {Victim} \cup Range(Tail(freelist))
      BY <1>1, <3>1, Moves
    <3>3. /\ uselist' = Append(uselist, Victim) /\ freelist' = Tail(freelist)
          /\ freenumbers' = freenumbers - 1 /\ dropped' = dropped
      BY <2>2 DEF rt_hw_can_isr, Queued, FreeLeft
    <3>4. LET u == Append(uselist, Victim)
          IN u \in Seq(Node) /\ Range(u) = Range(uselist) \cup {Victim}
             /\ Len(u) = Len(uselist) + 1
      BY <1>1, <3>2, Moves
    <3>5. freenumbers - 1 = Len(freelist) - 1 /\ freenumbers - 1 \in 0 .. BoxSize
      BY <1>1, <3>2, CanAssumption
    <3>6. /\ Range(freelist') \cup Range(uselist') = Range(freelist) \cup Range(uselist)
      BY <3>2, <3>3, <3>4
    <3>. QED
      BY <3>2, <3>3, <3>4, <3>5, <3>6
  <2>. QED
    BY <2>1, <2>2
<1>4. TypeOK'
  <2>1. /\ data' \in [Node -> Nat] /\ arrived' \in Nat
    BY <1>3 DEF rt_hw_can_isr, IInv, TypeOK
  <2>2. /\ dropped' \in Nat /\ early' \in Nat /\ sem' \in Nat
        /\ stage' \in {"closed", "open", "hooked", "counting", "running", "halted"}
    BY DEF rt_hw_can_isr, Released, IInv, TypeOK
  <2>. QED
    BY <1>2, <1>3, <2>1, <2>2 DEF IInv, TypeOK, thread
<1>5. NodesOwnedOnce'
  <2>1. Len(freelist) + Len(uselist) = Len(freelist') + Len(uselist')
    BY <1>1, <1>3
  <2>2. Len(freelist') + Len(uselist') + Len(InHand) = BoxSize
    BY <2>1 DEF IInv, NodesOwnedOnce
  <2>. QED
    BY <1>2, <1>3, <2>2 DEF IInv, NodesOwnedOnce
<1>6. Holding' /\ Setup'
  BY <1>2 DEF IInv, Holding, Setup, rt_hw_can_isr, thread
<1>7. SemAccounting'
  <2>1. sem \in Nat /\ early \in Nat /\ stale \in Nat /\ dropped \in Nat /\ Taken \in Nat
    BY DEF IInv, TypeOK, Taken
  <2>2. \/ sem' = sem + 1 /\ early' = early
        \/ sem' = sem /\ early' = early + 1
    BY DEF rt_hw_can_isr, IInv, TypeOK, Released
  <2>3. \/ dropped' = dropped + 1 /\ Len(uselist') = Len(uselist)
        \/ dropped' = dropped /\ Len(uselist') = Len(uselist) + 1
    BY <1>3
  <2>4. sem' + Taken + early' + stale = Len(uselist') + dropped'
    BY <1>1, <2>1, <2>2, <2>3 DEF IInv, SemAccounting
  <2>. QED
    BY <1>2, <2>4 DEF SemAccounting
<1>8. StaleOnlyAfterDrop'
  BY <1>2, <1>3 DEF IInv, TypeOK, StaleOnlyAfterDrop
<1>. QED
  BY <1>3, <1>4, <1>5, <1>6, <1>7, <1>8 DEF IInv

(* The thread's wait takes one count, which stays accounted for until the   *)
(* read.                                                                    *)
LEMMA WaitStep == IInv /\ Wait => IInv'
<1>. SUFFICES ASSUME IInv, Wait PROVE IInv'
  OBVIOUS
<1>1. /\ UNCHANGED <<stage, box, listmsg, rxmsg, dispatched, history>>
      /\ rx = "wait" /\ rx' = "read" /\ sem \in Nat /\ sem > 0 /\ sem' = sem - 1
      /\ stage = "running"
  BY DEF Wait, rt_sem_take, IInv, TypeOK, Setup
<1>2. sem - 1 \in Nat /\ (sem - 1) + 1 = sem
  BY <1>1
<1>3. TypeOK' /\ NodesOwnedOnce' /\ (freenumbers = Len(freelist))'
  BY <1>1, <1>2 DEF IInv, TypeOK, NodesOwnedOnce, InHand, box, history
<1>4. Holding' /\ Setup' /\ StaleOnlyAfterDrop'
  BY <1>1 DEF IInv, Holding, Setup, StaleOnlyAfterDrop, history
<1>5. SemAccounting'
  <2>1. sem + 0 + early + stale = Len(uselist) + dropped
    BY <1>1 DEF IInv, SemAccounting, Taken
  <2>2. (sem - 1) + 1 + early + stale = Len(uselist) + dropped
    BY <1>1, <2>1 DEF IInv, TypeOK
  <2>. QED
    BY <1>1, <2>2 DEF SemAccounting, Taken, box, history
<1>. QED
  BY <1>3, <1>4, <1>5 DEF IInv

(* The head of uselist goes into the thread's hand.                         *)
LEMMA UnlinkStep == IInv /\ Unlink => IInv'
<1>. SUFFICES ASSUME IInv, Unlink PROVE IInv'
  OBVIOUS
<1>1. /\ UNCHANGED <<stage, freelist, data, freenumbers, sem, rxmsg, dispatched, history>>
      /\ rx = "read" /\ rx' = "copy" /\ uselist # <<>>
      /\ listmsg' = Head(uselist) /\ uselist' = Tail(uselist)
  BY DEF Unlink
<1>2. /\ uselist \in Seq(Node) /\ Len(uselist) \in Nat /\ Len(freelist) \in Nat
      /\ listmsg = NoNode /\ stage = "running"
  BY <1>1 DEF IInv, TypeOK, Holding, Setup
<1>3. /\ Head(uselist) \in Node /\ Tail(uselist) \in Seq(Node)
      /\ Len(Tail(uselist)) + 1 = Len(uselist) /\ Len(Tail(uselist)) \in Nat
      /\ Range(uselist) = {Head(uselist)} \cup Range(Tail(uselist))
  BY <1>1, <1>2, Moves
<1>4. Head(uselist) # NoNode
  BY <1>3, CanAssumption DEF Node, NoNode
<1>5. /\ InHand = <<>> /\ InHand' = <<Head(uselist)>>
      /\ Range(InHand) = {} /\ Range(InHand') = {Head(uselist)}
      /\ Len(InHand) = 0 /\ Len(InHand') = 1
  BY <1>1, <1>2, <1>4, RangeShort DEF InHand
<1>6. TypeOK'
  BY <1>1, <1>3 DEF IInv, TypeOK, history
<1>7. NodesOwnedOnce'
  <2>1. Len(freelist) + Len(Tail(uselist)) + 1 = BoxSize
    BY <1>2, <1>3, <1>5 DEF IInv, NodesOwnedOnce
  <2>. QED
    BY <1>1, <1>3, <1>5, <2>1 DEF IInv, NodesOwnedOnce
<1>8. (freenumbers = Len(freelist))' /\ Holding' /\ Setup' /\ StaleOnlyAfterDrop'
  BY <1>1, <1>2, <1>4 DEF IInv, Holding, Setup, StaleOnlyAfterDrop, history
<1>9. SemAccounting'
  <2>1. sem + 1 + early + stale = Len(uselist) + dropped
    BY <1>1 DEF IInv, SemAccounting, Taken
  <2>2. sem + 0 + early + stale = Len(Tail(uselist)) + dropped
    BY <1>3, <2>1 DEF IInv, TypeOK
  <2>. QED
    BY <1>1, <2>2 DEF SemAccounting, Taken, history
<1>. QED
  BY <1>6, <1>7, <1>8, <1>9 DEF IInv

(* A read of the empty list: the count it had taken turns stale, and only   *)
(* an overwritten frame can have left it.                                   *)
LEMMA NoDataStep == IInv /\ NoData => IInv'
<1>. SUFFICES ASSUME IInv, NoData PROVE IInv'
  OBVIOUS
<1>1. /\ UNCHANGED <<stage, box, sem, listmsg, rxmsg, dispatched, arrived, early, dropped>>
      /\ rx = "read" /\ rx' = "dispatch" /\ uselist = <<>> /\ stale' = stale + 1
  BY DEF NoData
<1>2. /\ sem \in Nat /\ early \in Nat /\ stale \in Nat /\ dropped \in Nat
      /\ Len(uselist) = 0 /\ stage = "running"
  BY <1>1 DEF IInv, TypeOK, Setup
<1>3. sem + 1 + early + stale = 0 + dropped
  BY <1>1, <1>2 DEF IInv, SemAccounting, Taken
<1>4. /\ sem + 0 + early + (stale + 1) = 0 + dropped
      /\ stale + 1 =< dropped /\ stale + 1 \in Nat
  BY <1>2, <1>3
<1>5. TypeOK' /\ NodesOwnedOnce' /\ (freenumbers = Len(freelist))'
  BY <1>1, <1>4 DEF IInv, TypeOK, NodesOwnedOnce, InHand, box
<1>6. Holding' /\ Setup'
  BY <1>1, <1>2 DEF IInv, Holding, Setup
<1>7. SemAccounting' /\ StaleOnlyAfterDrop'
  BY <1>1, <1>2, <1>4 DEF SemAccounting, StaleOnlyAfterDrop, Taken, box
<1>. QED
  BY <1>5, <1>6, <1>7 DEF IInv

(* The node in the thread's hand goes to the end of freelist.               *)
LEMMA FreeStep == IInv /\ Free => IInv'
<1>. SUFFICES ASSUME IInv, Free PROVE IInv'
  OBVIOUS
<1>1. /\ UNCHANGED <<stage, uselist, data, sem, rxmsg, dispatched, history>>
      /\ rx = "free" /\ rx' = "dispatch" /\ listmsg' = NoNode
      /\ freelist' = Append(freelist, listmsg) /\ freenumbers' = freenumbers + 1
  BY DEF Free
<1>2. /\ freelist \in Seq(Node) /\ listmsg \in Node /\ listmsg # NoNode
      /\ Len(freelist) \in Nat /\ Len(uselist) \in Nat
      /\ freenumbers = Len(freelist) /\ stage = "running"
  BY <1>1 DEF IInv, TypeOK, Holding, Setup
<1>3. /\ Append(freelist, listmsg) \in Seq(Node)
      /\ Len(Append(freelist, listmsg)) = Len(freelist) + 1
      /\ Range(Append(freelist, listmsg)) = Range(freelist) \cup {listmsg}
  BY <1>2, Moves
<1>4. /\ InHand = <<listmsg>> /\ InHand' = <<>> /\ Len(InHand) = 1 /\ Len(InHand') = 0
      /\ Range(InHand) = {listmsg} /\ Range(InHand') = {}
  BY <1>1, <1>2, RangeShort DEF InHand
<1>5. /\ (Len(freelist) + 1) + Len(uselist) + 0 = BoxSize
      /\ Len(freelist) + 1 \in 0 .. BoxSize
  BY <1>2, <1>4, CanAssumption DEF IInv, NodesOwnedOnce
<1>6. TypeOK'
  BY <1>1, <1>2, <1>3, <1>5 DEF IInv, TypeOK, history
<1>7. NodesOwnedOnce'
  BY <1>1, <1>3, <1>4, <1>5 DEF IInv, NodesOwnedOnce
<1>8. (freenumbers = Len(freelist))' /\ Holding' /\ Setup' /\ StaleOnlyAfterDrop'
  BY <1>1, <1>2, <1>3 DEF IInv, Holding, Setup, StaleOnlyAfterDrop, history
<1>9. SemAccounting'
  BY <1>1 DEF IInv, SemAccounting, Taken, history
<1>. QED
  BY <1>6, <1>7, <1>8, <1>9 DEF IInv

(* Copying and dispatching leave lists and counts alone.                    *)
LEMMA OtherSteps == IInv /\ (Copy \/ Dispatch) => IInv'
<1>. SUFFICES ASSUME IInv, Copy \/ Dispatch PROVE IInv'
  OBVIOUS
<1>1. /\ UNCHANGED <<stage, box, sem, listmsg, history>>
      /\ \/ rx = "copy" /\ rx' = "free"
         \/ rx = "dispatch" /\ rx' = "wait"
  BY DEF Copy, Dispatch
<1>2. stage = "running"
  BY <1>1 DEF IInv, Setup
<1>3. rxmsg' \in Nat /\ dispatched' \in Nat
  <2>1. CASE Copy
    <3>1. listmsg \in Node
      BY <2>1 DEF Copy, IInv, Holding, TypeOK
    <3>. QED
      BY <2>1, <3>1 DEF Copy, IInv, TypeOK
  <2>2. CASE Dispatch
    BY <2>2 DEF Dispatch, IInv, TypeOK
  <2>. QED
    BY <2>1, <2>2
<1>4. TypeOK' /\ NodesOwnedOnce' /\ (freenumbers = Len(freelist))'
  BY <1>1, <1>3 DEF IInv, TypeOK, NodesOwnedOnce, InHand, box, history
<1>5. Holding' /\ Setup' /\ StaleOnlyAfterDrop'
  BY <1>1, <1>2 DEF IInv, Holding, Setup, StaleOnlyAfterDrop, history
<1>6. SemAccounting'
  BY <1>1 DEF IInv, SemAccounting, Taken, box, history
<1>. QED
  BY <1>4, <1>5, <1>6 DEF IInv

LEMMA Invariance == Spec => []IInv
<1>1. IInv /\ UNCHANGED vars => IInv'
  BY DEF vars, box, thread, history, IInv, TypeOK, NodesOwnedOnce, InHand, Holding,
         Setup, SemAccounting, StaleOnlyAfterDrop, Taken
<1>2. IInv /\ [Next]_vars => IInv'
  BY <1>1, InitSteps, IsrStep, WaitStep, UnlinkStep, NoDataStep, FreeStep, OtherSteps
     DEF Next, can1_rx_thread
<1>. QED
  BY <1>2, InitInvariant, PTL DEF Spec

(* Every variable stays in its type, and the assertions of can.c on the     *)
(* number of free nodes hold (rt_hw_can_isr, _can_int_rx).                  *)
THEOREM TypeCorrect == Spec => []TypeOK
BY Invariance, PTL DEF IInv

(* Handler and thread never hold the same node, and none is ever lost.      *)
THEOREM Ownership == Spec => []NodesOwnedOnce
BY Invariance, PTL DEF IInv

(* The semaphore and the list of frames differ by the early frames and the  *)
(* overwritten ones, and by nothing else.                                   *)
THEOREM Accounting == Spec => []SemAccounting
BY Invariance, PTL DEF IInv

(* No frame is dispatched twice unless one has been overwritten.            *)
THEOREM NoRepetition == Spec => []StaleOnlyAfterDrop
BY Invariance, PTL DEF IInv

------------------------------------------------------------------------------
(* The order.  No node is in two places, which NodesOwnedOnce says by       *)
(* counting; the frames to be read ascend; and what was dispatched, what    *)
(* the thread has copied, what it is copying and what is to be read follow  *)
(* one another.                                                             *)
Distinct ==
  /\ \A i, j \in 1 .. Len(freelist) : i # j => freelist[i] # freelist[j]
  /\ \A i \in 1 .. Len(freelist) : freelist[i] # listmsg
  /\ \A k \in 1 .. Len(uselist) : uselist[k] # listmsg
  /\ \A i \in 1 .. Len(freelist) : \A k \in 1 .. Len(uselist) : freelist[i] # uselist[k]

Ascending ==
  \A i, j \in 1 .. Len(uselist) : i < j => data[uselist[i]] < data[uselist[j]]

Above ==
  /\ dispatched =< rxmsg /\ rxmsg =< arrived
  /\ \A i \in 1 .. Len(uselist) : rxmsg =< data[uselist[i]] /\ data[uselist[i]] =< arrived
  /\ rx = "copy" => /\ rxmsg =< data[listmsg] /\ data[listmsg] =< arrived
                    /\ \A i \in 1 .. Len(uselist) : data[listmsg] < data[uselist[i]]

Order == Distinct /\ Ascending /\ Above

LEMMA Items ==
  ASSUME NEW s \in Seq(Node), NEW e \in Node
  PROVE  /\ Len(s) \in Nat /\ Len(Append(s, e)) = Len(s) + 1
         /\ \A i \in 1 .. Len(s) : s[i] \in Node /\ Append(s, e)[i] = s[i]
         /\ Append(s, e)[Len(s) + 1] = e
         /\ s # <<>> => /\ Len(s) > 0 /\ Head(s) = s[1] /\ Len(Tail(s)) = Len(s) - 1
                        /\ \A i \in 1 .. Len(s) - 1 : Tail(s)[i] = s[i + 1]
OBVIOUS

LEMMA InitOrder == Init => Order
<1>. SUFFICES ASSUME Init PROVE Order
  OBVIOUS
<1>1. Len(uselist) = 0 /\ Len(freelist) = BoxSize
  BY CanAssumption DEF Init, Node
<1>2. Distinct
  BY <1>1, CanAssumption DEF Init, Distinct, Node, NoNode
<1>3. Ascending /\ Above
  BY <1>1 DEF Init, Ascending, Above
<1>. QED
  BY <1>2, <1>3 DEF Order

(* Steps that leave the lists alone: the thread's message only grows.       *)
LEMMA QuietOrder ==
  IInv /\ Order /\ (UNCHANGED vars \/ can1_init \/ Wait \/ NoData \/ Copy \/ Dispatch) => Order'
<1>. SUFFICES ASSUME IInv, Order,
                     UNCHANGED vars \/ can1_init \/ Wait \/ NoData \/ Copy \/ Dispatch
              PROVE  Order'
  OBVIOUS
<1>1. UNCHANGED <<freelist, uselist, data, listmsg, arrived>>
  BY DEF vars, box, thread, history, can1_init, rt_device_open, rt_device_set_rx_indicate,
         rt_sem_init, rt_thread_startup, Wait, NoData, Copy, Dispatch
<1>2. Distinct' /\ Ascending'
  BY <1>1 DEF Order, Distinct, Ascending
<1>3. Above'
  <2>1. CASE Copy
    <3>1. rx = "copy" /\ rx' = "free" /\ rxmsg' = data[listmsg] /\ dispatched' = dispatched
      BY <2>1 DEF Copy
    <3>2. listmsg \in Node
      BY <3>1 DEF IInv, TypeOK, Holding
    <3>3. \A i \in 1 .. Len(uselist) : uselist[i] \in Node
      BY <3>2, Items DEF IInv, TypeOK
    <3>4. /\ dispatched \in Nat /\ rxmsg \in Nat /\ arrived \in Nat /\ data[listmsg] \in Nat
          /\ \A i \in 1 .. Len(uselist) : data[uselist[i]] \in Nat
      BY <3>2, <3>3 DEF IInv, TypeOK
    <3>. QED
      BY <1>1, <3>1, <3>4 DEF Order, Above
  <2>2. CASE Dispatch
    <3>1. rx' = "wait" /\ rxmsg' = rxmsg /\ dispatched' = rxmsg /\ rxmsg \in Nat
      BY <2>2 DEF Dispatch, IInv, TypeOK
    <3>. QED
      BY <1>1, <3>1 DEF Order, Above
  <2>3. CASE UNCHANGED vars \/ can1_init \/ Wait \/ NoData
    <3>1. /\ UNCHANGED <<rxmsg, dispatched>>
          /\ rx' = "copy" => rx = "copy"
      BY <2>3 DEF vars, thread, can1_init, rt_device_open, rt_device_set_rx_indicate,
                  rt_sem_init, rt_thread_startup, Wait, NoData
    <3>. QED
      BY <1>1, <3>1 DEF Order, Above
  <2>. QED
    BY <2>1, <2>2, <2>3
<1>. QED
  BY <1>2, <1>3 DEF Order

(* The oldest frame goes into the thread's hand.                            *)
LEMMA UnlinkOrder == IInv /\ Order /\ Unlink => Order'
<1>. SUFFICES ASSUME IInv, Order, Unlink PROVE Order'
  OBVIOUS
<1>1. /\ UNCHANGED <<freelist, data, rxmsg, dispatched, arrived>> /\ rx' = "copy"
      /\ uselist # <<>> /\ listmsg' = Head(uselist) /\ uselist' = Tail(uselist)
      /\ uselist \in Seq(Node)
  BY DEF Unlink, history, IInv, TypeOK
<1>. DEFINE n == Len(uselist)
<1>2. /\ n \in Nat /\ n > 0 /\ listmsg' = uselist[1] /\ Len(uselist') = n - 1
      /\ \A i \in 1 .. n - 1 : uselist'[i] = uselist[i + 1]
      /\ \A i \in 1 .. n : uselist[i] \in Node
  <2>1. 1 \in Node
    BY CanAssumption DEF Node
  <2>. QED
    BY <1>1, <2>1, Items
<1>3. \A i \in 1 .. n : data[uselist[i]] \in Nat
  BY <1>2 DEF IInv, TypeOK
<1>. HIDE DEF n
<1>4. \A i \in 1 .. n - 1 : i + 1 \in 1 .. n /\ 1 < i + 1
  BY <1>2
<1>5. 1 \in 1 .. n
  BY <1>2
<1>6. \A i, j \in 1 .. n : i < j => data[uselist[i]] < data[uselist[j]]
  BY DEF n, Order, Ascending
<1>7. \A i \in 1 .. n - 1 : data[listmsg'] < data[uselist'[i]]
  BY <1>2, <1>4, <1>5, <1>6
<1>8. Distinct'
  <2>1. \A i \in 1 .. n - 1 : uselist'[i] # listmsg'
    BY <1>2, <1>3, <1>4, <1>5, <1>7
  <2>2. \A i \in 1 .. Len(freelist) : \A k \in 1 .. n : freelist[i] # uselist[k]
    BY DEF n, Order, Distinct
  <2>3. \A i \in 1 .. Len(freelist) : freelist[i] # listmsg'
    BY <1>2, <1>5, <2>2
  <2>4. \A i \in 1 .. Len(freelist) : \A k \in 1 .. n - 1 : freelist[i] # uselist'[k]
    BY <1>2, <1>4, <2>2
  <2>. QED
    BY <1>1, <1>2, <2>1, <2>3, <2>4 DEF Order, Distinct
<1>9. Ascending'
  <2>1. \A i, j \in 1 .. n - 1 : i < j => data[uselist'[i]] < data[uselist'[j]]
    <3>1. \A i, j \in 1 .. n - 1 : i < j => i + 1 < j + 1
      BY <1>2
    <3>. QED
      BY <1>2, <1>4, <1>6, <3>1
  <2>. QED
    BY <1>1, <1>2, <2>1 DEF Ascending
<1>10. Above'
  <2>1. \A i \in 1 .. n : rxmsg =< data[uselist[i]] /\ data[uselist[i]] =< arrived
    BY DEF n, Order, Above
  <2>2. \A i \in 1 .. n - 1 : rxmsg =< data[uselist'[i]] /\ data[uselist'[i]] =< arrived
    BY <1>2, <1>4, <2>1
  <2>3. rxmsg =< data[listmsg'] /\ data[listmsg'] =< arrived
    BY <1>2, <1>5, <2>1
  <2>. QED
    BY <1>1, <1>2, <1>7, <2>2, <2>3 DEF Order, Above
<1>. QED
  BY <1>8, <1>9, <1>10 DEF Order

(* The node copied from is free again.                                      *)
LEMMA FreeOrder == IInv /\ Order /\ Free => Order'
<1>. SUFFICES ASSUME IInv, Order, Free PROVE Order'
  OBVIOUS
<1>1. /\ UNCHANGED <<uselist, data, rxmsg, dispatched, arrived>>
      /\ rx' = "dispatch" /\ listmsg' = NoNode /\ freelist' = Append(freelist, listmsg)
      /\ freelist \in Seq(Node) /\ uselist \in Seq(Node) /\ listmsg \in Node
  BY DEF Free, history, IInv, TypeOK, Holding
<1>. DEFINE n == Len(freelist)
<1>2. /\ n \in Nat /\ Len(freelist') = n + 1
      /\ \A i \in 1 .. n : freelist'[i] = freelist[i] /\ freelist[i] \in Node
      /\ freelist'[n + 1] = listmsg
  BY <1>1, Items
<1>3. \A k \in 1 .. Len(uselist) : uselist[k] \in Node
  BY <1>1, Items
<1>. HIDE DEF n
<1>4. 1 .. n + 1 = 1 .. n \cup {n + 1} /\ n + 1 \notin 1 .. n
  BY <1>2
<1>5. \A i, j \in 1 .. n + 1 : i # j => freelist'[i] # freelist'[j]
  <2>1. /\ \A i, j \in 1 .. n : i # j => freelist[i] # freelist[j]
        /\ \A i \in 1 .. n : freelist[i] # listmsg
    BY DEF n, Order, Distinct
  <2>. QED
    BY <1>2, <1>4, <2>1
<1>6. \A i \in 1 .. n + 1 : \A k \in 1 .. Len(uselist) : freelist'[i] # uselist[k]
  <2>1. /\ \A i \in 1 .. n : \A k \in 1 .. Len(uselist) : freelist[i] # uselist[k]
        /\ \A k \in 1 .. Len(uselist) : uselist[k] # listmsg
    BY DEF n, Order, Distinct
  <2>. QED
    BY <1>2, <1>4, <2>1
<1>7. NoNode \notin Node
  BY CanAssumption DEF Node, NoNode
<1>8. \A i \in 1 .. n + 1 : freelist'[i] # NoNode
  BY <1>1, <1>2, <1>4, <1>7
<1>9. Distinct'
  BY <1>1, <1>2, <1>3, <1>5, <1>6, <1>7, <1>8 DEF Distinct
<1>10. Ascending' /\ Above'
  BY <1>1 DEF Order, Ascending, Above
<1>. QED
  BY <1>9, <1>10 DEF Order

(* The lists without the node the handler takes, from the front of either:  *)
(* Order holds of what remains, and the node is nowhere in it.              *)
Rest == IF Full THEN Tail(uselist) ELSE uselist

LEMMA Remaining ==
  ASSUME IInv, Order, rt_hw_can_isr
  PROVE  /\ Victim \in Node /\ Rest \in Seq(Node) /\ Victim # listmsg
         /\ freelist' \in Seq(Node)
         /\ \A i \in 1 .. Len(Rest) : /\ Rest[i] \in Node /\ Rest[i] # Victim /\ Rest[i] # listmsg
                                      /\ \E k \in 1 .. Len(uselist) : Rest[i] = uselist[k]
         /\ \A i, j \in 1 .. Len(Rest) : i < j => data[Rest[i]] < data[Rest[j]]
         /\ \A i \in 1 .. Len(freelist') :
              /\ freelist'[i] # Victim /\ freelist'[i] # listmsg
              /\ \A k \in 1 .. Len(Rest) : freelist'[i] # Rest[k]
         /\ \A i, j \in 1 .. Len(freelist') : i # j => freelist'[i] # freelist'[j]
<1>1. freelist \in Seq(Node) /\ uselist \in Seq(Node) /\ data \in [Node -> Nat]
  BY DEF IInv, TypeOK
<1>2. CASE Full
  <2>. DEFINE n == Len(uselist)
  <2>1. /\ Victim = uselist[1] /\ freelist' = freelist /\ uselist # <<>>
        /\ Rest = Tail(uselist) /\ Rest \in Seq(Node) /\ Victim \in Node
    BY <1>1, <1>2, SomeNode DEF Full, Victim, Rest, rt_hw_can_isr
  <2>2. /\ n \in Nat /\ n > 0 /\ Len(Rest) = n - 1
        /\ \A i \in 1 .. n - 1 : Rest[i] = uselist[i + 1]
        /\ \A i \in 1 .. n : uselist[i] \in Node
    BY <1>1, <2>1, Items
  <2>3. /\ \A i, j \in 1 .. n : i < j => data[uselist[i]] < data[uselist[j]]
        /\ \A i \in 1 .. n : uselist[i] # listmsg
    BY DEF n, Order, Ascending, Distinct
  <2>4. Len(freelist') = 0
    BY <1>2, <2>1 DEF Full
  <2>. HIDE DEF n
  <2>5. /\ \A i \in 1 .. n - 1 : i + 1 \in 1 .. n /\ 1 < i + 1
        /\ \A i, j \in 1 .. n - 1 : i < j => i + 1 < j + 1
        /\ 1 \in 1 .. n
    BY <2>2
  <2>6. \A i \in 1 .. n : data[uselist[i]] \in Nat
    BY <1>1, <2>2
  <2>7. \A i \in 1 .. n - 1 : Rest[i] # Victim
    <3>1. \A i \in 1 .. n - 1 : data[uselist[1]] < data[uselist[i + 1]]
      BY <2>3, <2>5
    <3>. QED
      BY <2>1, <2>2, <2>5, <2>6, <3>1
  <2>8. \A i, j \in 1 .. n - 1 : i < j => data[Rest[i]] < data[Rest[j]]
    BY <2>2, <2>3, <2>5
  <2>9. \A i \in 1 .. n - 1 : /\ Rest[i] \in Node /\ Rest[i] # listmsg
                              /\ \E k \in 1 .. n : Rest[i] = uselist[k]
    BY <2>2, <2>3, <2>5
  <2>10. Victim # listmsg
    BY <2>1, <2>3, <2>5
  <2>. QED
    BY <1>1, <2>1, <2>2, <2>4, <2>7, <2>8, <2>9, <2>10 DEF n
<1>3. CASE ~Full
  <2>. DEFINE n == Len(freelist)
  <2>1. /\ Victim = freelist[1] /\ freelist' = Tail(freelist) /\ freelist # <<>>
        /\ Rest = uselist /\ freelist' \in Seq(Node) /\ Victim \in Node
    BY <1>1, <1>3 DEF Full, Victim, Rest, rt_hw_can_isr
  <2>2. /\ n \in Nat /\ n > 0 /\ Len(freelist') = n - 1
        /\ \A i \in 1 .. n - 1 : freelist'[i] = freelist[i + 1]
        /\ \A i \in 1 .. Len(uselist) : uselist[i] \in Node
    BY <1>1, <2>1, Items
  <2>3. /\ \A i, j \in 1 .. n : i # j => freelist[i] # freelist[j]
        /\ \A i \in 1 .. n : freelist[i] # listmsg
        /\ \A i \in 1 .. n : \A k \in 1 .. Len(uselist) : freelist[i] # uselist[k]
        /\ \A k \in 1 .. Len(uselist) : uselist[k] # listmsg
    BY DEF n, Order, Distinct
  <2>. HIDE DEF n
  <2>4. /\ \A i \in 1 .. n - 1 : i + 1 \in 1 .. n /\ 1 # i + 1
        /\ \A i, j \in 1 .. n - 1 : i # j => i + 1 # j + 1
        /\ 1 \in 1 .. n
    BY <2>2
  <2>5. /\ \A i \in 1 .. n - 1 : freelist'[i] # Victim /\ freelist'[i] # listmsg
        /\ \A i, j \in 1 .. n - 1 : i # j => freelist'[i] # freelist'[j]
        /\ \A i \in 1 .. n - 1 : \A k \in 1 .. Len(uselist) : freelist'[i] # uselist[k]
    BY <2>1, <2>2, <2>3, <2>4
  <2>6. \A k \in 1 .. Len(uselist) : uselist[k] # Victim /\ uselist[k] # listmsg
    BY <2>1, <2>3, <2>4
  <2>7. \A i, j \in 1 .. Len(uselist) : i < j => data[uselist[i]] < data[uselist[j]]
    BY DEF Order, Ascending
  <2>8. Victim # listmsg
    BY <2>1, <2>3, <2>4
  <2>. QED
    BY <1>1, <2>1, <2>2, <2>5, <2>6, <2>7, <2>8
<1>. QED
  BY <1>2, <1>3

(* A new frame is the newest, and goes to the end.                          *)
LEMMA IsrOrder == IInv /\ Order /\ rt_hw_can_isr => Order'
<1>. SUFFICES ASSUME IInv, Order, rt_hw_can_isr PROVE Order'
  OBVIOUS
<1>. DEFINE m == Len(Rest)
<1>1. /\ uselist' = Append(Rest, Victim) /\ data' = [data EXCEPT ![Victim] = arrived + 1]
      /\ arrived' = arrived + 1 /\ UNCHANGED <<rx, listmsg, rxmsg, dispatched>>
      /\ data \in [Node -> Nat] /\ arrived \in Nat /\ rxmsg \in Nat
  BY DEF rt_hw_can_isr, Queued, Rest, thread, IInv, TypeOK
<1>2. /\ m \in Nat /\ Len(uselist') = m + 1
      /\ \A i \in 1 .. m : uselist'[i] = Rest[i]
      /\ uselist'[m + 1] = Victim
  BY <1>1, Remaining, Items
<1>3. /\ Victim \in Node /\ Victim # listmsg
      /\ \A i \in 1 .. m : /\ Rest[i] \in Node /\ Rest[i] # Victim /\ Rest[i] # listmsg
                          /\ \E k \in 1 .. Len(uselist) : Rest[i] = uselist[k]
      /\ \A i, j \in 1 .. m : i < j => data[Rest[i]] < data[Rest[j]]
  BY Remaining
<1>4. /\ \A i \in 1 .. Len(freelist') :
           /\ freelist'[i] # Victim /\ freelist'[i] # listmsg
           /\ \A k \in 1 .. m : freelist'[i] # Rest[k]
      /\ \A i, j \in 1 .. Len(freelist') : i # j => freelist'[i] # freelist'[j]
  BY Remaining
<1>5. /\ rxmsg =< arrived
      /\ \A i \in 1 .. Len(uselist) : rxmsg =< data[uselist[i]] /\ data[uselist[i]] =< arrived
      /\ rx = "copy" => \A i \in 1 .. Len(uselist) : data[listmsg] < data[uselist[i]]
  BY DEF Order, Above
<1>. HIDE DEF m
<1>6. 1 .. m + 1 = 1 .. m \cup {m + 1} /\ \A i \in 1 .. m : i < m + 1
  BY <1>2
<1>7. /\ \A i \in 1 .. m : /\ data'[uselist'[i]] = data[Rest[i]] /\ data[Rest[i]] \in Nat
                          /\ rxmsg =< data[Rest[i]] /\ data[Rest[i]] =< arrived
      /\ data'[uselist'[m + 1]] = arrived + 1
  BY <1>1, <1>2, <1>3, <1>5
<1>num. /\ arrived \in Nat /\ rxmsg \in Nat /\ rxmsg =< arrived /\ dispatched =< rxmsg
        /\ arrived' = arrived + 1 /\ rxmsg' = rxmsg /\ dispatched' = dispatched
        /\ rx' = rx /\ listmsg' = listmsg
  BY <1>1, <1>5 DEF Order, Above
<1>new. \A i \in 1 .. m : /\ data'[uselist'[i]] \in Nat
                         /\ rxmsg =< data'[uselist'[i]] /\ data'[uselist'[i]] =< arrived
  BY <1>7
<1>8. Distinct'
  BY <1>1, <1>2, <1>3, <1>4, <1>6 DEF Distinct
<1>9. Ascending'
  <2>1. \A i, j \in 1 .. m + 1 : i < j => data'[uselist'[i]] < data'[uselist'[j]]
    <3>. SUFFICES ASSUME NEW i \in 1 .. m + 1, NEW j \in 1 .. m + 1, i < j
                  PROVE  data'[uselist'[i]] < data'[uselist'[j]]
      OBVIOUS
    <3>1. i \in 1 .. m
      BY <1>2
    <3>2. CASE j \in 1 .. m
      BY <1>3, <1>7, <3>1, <3>2
    <3>3. CASE j = m + 1
      <4>1. data'[uselist'[j]] = arrived + 1
        BY <1>7, <3>3
      <4>. QED
        BY <1>num, <1>new, <3>1, <4>1
    <3>. QED
      BY <1>6, <3>2, <3>3
  <2>. QED
    BY <1>2, <2>1 DEF Ascending
<1>10. Above'
  <2>1. dispatched' =< rxmsg' /\ rxmsg' =< arrived'
    BY <1>num
  <2>2. \A i \in 1 .. m + 1 : rxmsg =< data'[uselist'[i]] /\ data'[uselist'[i]] =< arrived + 1
    <3>1. \A i \in 1 .. m : rxmsg =< data'[uselist'[i]] /\ data'[uselist'[i]] =< arrived + 1
      BY <1>num, <1>new
    <3>2. rxmsg =< data'[uselist'[m + 1]] /\ data'[uselist'[m + 1]] =< arrived + 1
      <4>1. data'[uselist'[m + 1]] = arrived + 1
        BY <1>7
      <4>. QED
        BY <1>num, <4>1
    <3>. QED
      BY <1>6, <3>1, <3>2
  <2>3. ASSUME rx = "copy"
        PROVE  /\ rxmsg =< data'[listmsg] /\ data'[listmsg] =< arrived + 1
               /\ \A i \in 1 .. m + 1 : data'[listmsg] < data'[uselist'[i]]
    <3>1. listmsg \in Node
      BY <2>3 DEF IInv, TypeOK, Holding
    <3>2. /\ data'[listmsg] = data[listmsg] /\ data[listmsg] \in Nat
          /\ rxmsg =< data[listmsg] /\ data[listmsg] =< arrived
      BY <1>1, <1>3, <2>3, <3>1 DEF Order, Above
    <3>3. \A i \in 1 .. m : data[listmsg] < data[Rest[i]]
      BY <1>3, <1>5, <2>3
    <3>4. /\ \A i \in 1 .. m : data'[listmsg] < data'[uselist'[i]]
          /\ data'[listmsg] < data'[uselist'[m + 1]]
      <4>1. \A i \in 1 .. m : data'[listmsg] < data'[uselist'[i]]
        BY <1>7, <3>2, <3>3
      <4>2. data'[uselist'[m + 1]] = arrived + 1
        BY <1>7
      <4>. QED
        BY <1>num, <3>2, <4>1, <4>2
    <3>. QED
      <4>1. data'[listmsg] \in Nat /\ data'[listmsg] =< arrived /\ rxmsg =< data'[listmsg]
        BY <3>2
      <4>2. data'[listmsg] =< arrived + 1
        BY <1>num, <4>1
      <4>. QED
        BY <1>6, <3>4, <4>1, <4>2
  <2>. QED
    BY <1>2, <1>num, <2>1, <2>2, <2>3 DEF Above
<1>. QED
  BY <1>8, <1>9, <1>10 DEF Order

LEMMA OrderKept == Spec => []Order
<1>1. IInv /\ Order /\ [Next]_vars => Order'
  BY QuietOrder, UnlinkOrder, FreeOrder, IsrOrder DEF Next, can1_rx_thread
<1>. QED
  BY <1>1, Invariance, InitOrder, PTL DEF Spec

(* Frames are dispatched in the order of their arrival, for a box of any    *)
(* size, however often it overflows and wherever the handler interrupts the *)
(* thread's read (can1_rx_thread, rt_hw_can_isr).                           *)
THEOREM Ordered == Spec => [][dispatched' >= dispatched]_dispatched
<1>1. IInv /\ Order /\ [Next]_vars => [dispatched' >= dispatched]_dispatched
  <2>. SUFFICES ASSUME IInv, Order, [Next]_vars, dispatched' # dispatched
                PROVE  dispatched' >= dispatched
    OBVIOUS
  <2>1. dispatched' = rxmsg
    BY DEF Next, vars, thread, can1_init, rt_device_open, rt_device_set_rx_indicate, rt_sem_init,
           rt_thread_startup, rt_hw_can_isr, can1_rx_thread, Wait, Unlink, NoData, Copy, Free,
           Dispatch
  <2>. QED
    BY <2>1 DEF Order, Above, IInv, TypeOK
<1>. QED
  BY <1>1, Invariance, OrderKept, PTL DEF Spec

------------------------------------------------------------------------------
(* The abstract box.  Order allows a frame to be met twice; Once does not:  *)
(* what the thread has copied is older than what is to be read, and newer   *)
(* than what it has dispatched until that is dispatched.                    *)
Once ==
  /\ rx \in {"off", "wait", "read", "copy"} => rxmsg = dispatched
  /\ rx = "free" => dispatched < rxmsg
  /\ rx = "copy" => rxmsg < data[listmsg]
  /\ \A i \in 1 .. Len(uselist) : rxmsg < data[uselist[i]]

Held == [i \in 1 .. Len(uselist) |-> data[uselist[i]]]

LEMMA InitOnce == Init => Once
<1>. SUFFICES ASSUME Init PROVE Once
  OBVIOUS
<1>1. Len(uselist) = 0 /\ rx = "off" /\ rxmsg = 0 /\ dispatched = 0
  BY DEF Init
<1>. QED
  BY <1>1 DEF Once

(* Steps of the initialisation and of the thread, but for its copy.         *)
LEMMA StillOnce ==
  IInv /\ Once /\ (UNCHANGED vars \/ can1_init \/ Wait \/ NoData \/ Dispatch \/ Free) => Once'
<1>. SUFFICES ASSUME IInv, Once,
                     UNCHANGED vars \/ can1_init \/ Wait \/ NoData \/ Dispatch \/ Free
              PROVE  Once'
  OBVIOUS
<1>1. UNCHANGED <<uselist, data, rxmsg>>
  BY DEF vars, box, thread, history, can1_init, rt_device_open, rt_device_set_rx_indicate,
         rt_sem_init, rt_thread_startup, Wait, NoData, Dispatch, Free
<1>2. \A i \in 1 .. Len(uselist') : rxmsg' < data'[uselist'[i]]
  BY <1>1 DEF Once
<1>3. CASE UNCHANGED vars \/ can1_init \/ Wait
  <2>1. /\ dispatched' = dispatched /\ listmsg' = listmsg
        /\ \/ rx' = rx
           \/ rx \in {"off", "wait"} /\ rx' \in {"wait", "read"}
    BY <1>3 DEF vars, thread, can1_init, rt_device_open, rt_device_set_rx_indicate,
                rt_sem_init, rt_thread_startup, Wait, IInv, Setup
  <2>. QED
    BY <1>1, <1>2, <2>1 DEF Once
<1>4. CASE NoData \/ Dispatch \/ Free
  <2>1. \/ rx' = "dispatch"
        \/ rx' = "wait" /\ dispatched' = rxmsg
    BY <1>4 DEF NoData, Dispatch, Free
  <2>. QED
    BY <1>1, <1>2, <2>1 DEF Once
<1>. QED
  BY <1>3, <1>4

(* The oldest frame is taken in hand: the rest are newer, and it is newer   *)
(* than the last.                                                           *)
LEMMA UnlinkOnce == IInv /\ Order /\ Once /\ Unlink => Once'
<1>. SUFFICES ASSUME IInv, Once, Unlink PROVE Once'
  OBVIOUS
<1>1. /\ UNCHANGED <<data, rxmsg, dispatched>> /\ rx = "read" /\ rx' = "copy"
      /\ uselist # <<>> /\ listmsg' = Head(uselist) /\ uselist' = Tail(uselist)
      /\ uselist \in Seq(Node)
  BY DEF Unlink, IInv, TypeOK
<1>. DEFINE n == Len(uselist)
<1>2. /\ n \in Nat /\ n > 0 /\ listmsg' = uselist[1] /\ Len(uselist') = n - 1
      /\ \A i \in 1 .. n - 1 : uselist'[i] = uselist[i + 1]
  <2>1. 1 \in Node
    BY CanAssumption DEF Node
  <2>. QED
    BY <1>1, <2>1, Items
<1>3. \A i \in 1 .. n : rxmsg < data[uselist[i]]
  BY DEF n, Once
<1>. HIDE DEF n
<1>4. 1 \in 1 .. n /\ \A i \in 1 .. n - 1 : i + 1 \in 1 .. n
  BY <1>2
<1>5. rxmsg' < data'[listmsg'] /\ \A i \in 1 .. n - 1 : rxmsg' < data'[uselist'[i]]
  BY <1>1, <1>2, <1>3, <1>4
<1>. QED
  BY <1>1, <1>2, <1>5 DEF Once

(* What is copied is older than what is to be read.                         *)
LEMMA CopyOnce == IInv /\ Order /\ Once /\ Copy => Once'
<1>. SUFFICES ASSUME IInv, Order, Once, Copy PROVE Once'
  OBVIOUS
<1>1. /\ UNCHANGED <<data, uselist, dispatched>> /\ rx = "copy" /\ rx' = "free"
      /\ rxmsg' = data[listmsg]
  BY DEF Copy, box
<1>. QED
  BY <1>1 DEF Once, Order, Above

(* A new frame is newer than everything; the others keep their nodes.       *)
LEMMA IsrOnce == IInv /\ Order /\ Once /\ rt_hw_can_isr => Once'
<1>. SUFFICES ASSUME IInv, Order, Once, rt_hw_can_isr PROVE Once'
  OBVIOUS
<1>. DEFINE m == Len(Rest)
<1>1. /\ uselist' = Append(Rest, Victim) /\ data' = [data EXCEPT ![Victim] = arrived + 1]
      /\ UNCHANGED <<rx, listmsg, rxmsg, dispatched>>
      /\ data \in [Node -> Nat] /\ arrived \in Nat /\ rxmsg \in Nat
  BY DEF rt_hw_can_isr, Queued, Rest, thread, IInv, TypeOK
<1>2. /\ m \in Nat /\ Len(uselist') = m + 1
      /\ \A i \in 1 .. m : uselist'[i] = Rest[i]
      /\ uselist'[m + 1] = Victim
  BY <1>1, Remaining, Items
<1>3. /\ Victim \in Node /\ Victim # listmsg
      /\ \A i \in 1 .. m : /\ Rest[i] \in Node /\ Rest[i] # Victim
                          /\ \E k \in 1 .. Len(uselist) : Rest[i] = uselist[k]
  BY Remaining
<1>. HIDE DEF m
<1>4. 1 .. m + 1 = 1 .. m \cup {m + 1}
  BY <1>2
<1>5. \A i \in 1 .. m : rxmsg < data[Rest[i]]
  BY <1>3 DEF Once
<1>6. \A i \in 1 .. m : rxmsg < data'[uselist'[i]]
  BY <1>1, <1>2, <1>3, <1>5
<1>7. rxmsg < data'[uselist'[m + 1]]
  <2>1. data'[uselist'[m + 1]] = arrived + 1
    BY <1>1, <1>2, <1>3
  <2>2. rxmsg =< arrived /\ rxmsg \in Nat /\ arrived \in Nat
    BY <1>1 DEF Order, Above
  <2>3. rxmsg < arrived + 1
    BY <2>2
  <2>. QED
    BY <2>1, <2>3
<1>8. rx = "copy" => data'[listmsg'] = data[listmsg]
  BY <1>1, <1>3 DEF IInv, TypeOK, Holding
<1>. QED
  BY <1>1, <1>2, <1>4, <1>6, <1>7, <1>8 DEF Once

LEMMA OnceKept == Spec => []Once
<1>1. IInv /\ Order /\ Once /\ [Next]_vars => Once'
  BY StillOnce, UnlinkOnce, CopyOnce, IsrOnce DEF Next, can1_rx_thread
<1>. QED
  BY <1>1, Invariance, OrderKept, InitOnce, PTL DEF Spec

(* The frames in the nodes of a list.                                       *)
LEMMA FramesOf ==
  ASSUME NEW u \in Seq(Node), NEW d \in [Node -> Nat],
         NEW h, h = [i \in 1 .. Len(u) |-> d[u[i]]]
  PROVE  /\ h \in Seq(Nat) /\ Len(h) = Len(u) /\ Len(u) \in Nat
         /\ \A i \in 1 .. Len(u) : h[i] = d[u[i]]
<1>1. Len(u) \in Nat /\ \A i \in 1 .. Len(u) : u[i] \in Node
  OBVIOUS
<1>2. \A i \in 1 .. Len(u) : d[u[i]] \in Nat
  BY <1>1
<1>. QED
  BY <1>1, <1>2

LEMMA HeldFrames ==
  ASSUME IInv
  PROVE  /\ Held \in Seq(Nat) /\ Len(Held) = Len(uselist) /\ Len(uselist) \in Nat
         /\ \A i \in 1 .. Len(uselist) : Held[i] = data[uselist[i]]
<1>1. uselist \in Seq(Node) /\ data \in [Node -> Nat]
  BY DEF IInv, TypeOK
<1>. QED
  BY <1>1, FramesOf DEF Held

LEMMA HeldFramesNext ==
  ASSUME IInv'
  PROVE  /\ Held' \in Seq(Nat) /\ Len(Held') = Len(uselist') /\ Len(uselist') \in Nat
         /\ \A i \in 1 .. Len(uselist') : Held'[i] = data'[uselist'[i]]
<1>1. uselist' \in Seq(Node) /\ data' \in [Node -> Nat]
  BY DEF IInv, TypeOK
<1>. QED
  BY <1>1, FramesOf DEF Held

(* Two sequences of the same length and elements are one.                   *)
LEMMA SameItems ==
  ASSUME NEW a \in Seq(Nat), NEW b \in Seq(Nat), Len(a) = Len(b),
         \A i \in 1 .. Len(a) : a[i] = b[i]
  PROVE  a = b
OBVIOUS

(* A node is in the thread's hand exactly while it reads a frame from it.   *)
LEMMA HandFull ==
  ASSUME IInv, Order, Once, listmsg # NoNode
  PROVE  Hand # 0
<1>1. rx \in {"copy", "free"} /\ dispatched \in Nat /\ rxmsg \in Nat
  BY DEF IInv, Holding, TypeOK
<1>2. rx = "copy" => listmsg \in Node /\ data[listmsg] \in Nat
  BY DEF IInv, TypeOK
<1>. QED
  BY <1>1, <1>2 DEF Hand, Once

(* The handler is an arrival in the abstract box, which is as crowded.      *)
LEMMA Arrives ==
  ASSUME IInv, IInv', Order, Once, rt_hw_can_isr
  PROVE  Mailbox!Arrive
<1>1. /\ uselist' = Append(Rest, Victim) /\ data' = [data EXCEPT ![Victim] = arrived + 1]
      /\ arrived' = arrived + 1 /\ UNCHANGED <<rx, listmsg, rxmsg, dispatched>>
      /\ data \in [Node -> Nat] /\ arrived \in Nat
      /\ uselist \in Seq(Node) /\ freelist \in Seq(Node)
  BY DEF rt_hw_can_isr, Queued, Rest, thread, IInv, TypeOK
<1>2. /\ Victim \in Node /\ Victim # listmsg /\ Rest \in Seq(Node)
      /\ \A i \in 1 .. Len(Rest) : Rest[i] \in Node /\ Rest[i] # Victim
  BY Remaining
<1>3. /\ Len(Rest) \in Nat /\ Len(uselist') = Len(Rest) + 1
      /\ \A i \in 1 .. Len(Rest) : uselist'[i] = Rest[i]
      /\ uselist'[Len(Rest) + 1] = Victim
  BY <1>1, <1>2, Items
<1>4. /\ \A i \in 1 .. Len(Rest) : Held'[i] = data[Rest[i]]
      /\ Held'[Len(Rest) + 1] = arrived + 1
      /\ Len(Held') = Len(Rest) + 1 /\ Held' \in Seq(Nat)
  <2>1. /\ Held' \in Seq(Nat) /\ Len(Held') = Len(uselist')
        /\ \A i \in 1 .. Len(uselist') : Held'[i] = data'[uselist'[i]]
    BY HeldFramesNext
  <2>2. 1 .. Len(Rest) + 1 = 1 .. Len(Rest) \cup {Len(Rest) + 1}
    BY <1>3
  <2>3. \A i \in 1 .. Len(Rest) : data'[uselist'[i]] = data[Rest[i]]
    BY <1>1, <1>2, <1>3
  <2>4. data'[uselist'[Len(Rest) + 1]] = arrived + 1
    BY <1>1, <1>2, <1>3
  <2>. QED
    BY <1>3, <2>1, <2>2, <2>3, <2>4
<1>5. Hand' = Hand
  <2>1. rx = "copy" => data'[listmsg] = data[listmsg]
    BY <1>1, <1>2 DEF IInv, TypeOK, Holding
  <2>. QED
    BY <1>1, <2>1 DEF Hand
<1>6. CASE Full
  <2>1. Rest = Tail(uselist) /\ uselist # <<>>
    BY <1>6, SomeNode DEF Rest, Full
  <2>2. Held # <<>> /\ Held \in Seq(Nat) /\ Len(Held) = Len(uselist)
    BY <2>1, HeldFrames
  <2>3. Held' = Append(Tail(Held), arrived + 1)
    <3>1. /\ Tail(Held) \in Seq(Nat) /\ Len(Tail(Held)) = Len(Rest)
          /\ \A i \in 1 .. Len(Rest) : Tail(Held)[i] = Held[i + 1]
      BY <1>1, <2>1, <2>2
    <3>2. \A i \in 1 .. Len(Rest) : Rest[i] = uselist[i + 1] /\ i + 1 \in 1 .. Len(uselist)
      BY <1>1, <2>1
    <3>3. \A i \in 1 .. Len(Rest) : Tail(Held)[i] = data[Rest[i]]
      BY <3>1, <3>2, HeldFrames
    <3>4. /\ Append(Tail(Held), arrived + 1) \in Seq(Nat)
          /\ Len(Append(Tail(Held), arrived + 1)) = Len(Rest) + 1
          /\ \A i \in 1 .. Len(Rest) : Append(Tail(Held), arrived + 1)[i] = Tail(Held)[i]
          /\ Append(Tail(Held), arrived + 1)[Len(Rest) + 1] = arrived + 1
      BY <1>1, <3>1
    <3>5. \A i \in 1 .. Len(Rest) + 1 : Held'[i] = Append(Tail(Held), arrived + 1)[i]
      BY <1>3, <1>4, <3>3, <3>4
    <3>. QED
      BY <1>4, <3>4, <3>5, SameItems
  <2>4. Mailbox!Crowded
    <3>1. Len(uselist) + Len(InHand) = BoxSize /\ Len(uselist) \in Nat
      BY <1>1, <1>6 DEF IInv, NodesOwnedOnce, Full
    <3>2. CASE listmsg = NoNode
      <4>1. Len(uselist) = BoxSize
        BY <3>1, <3>2 DEF InHand
      <4>. QED
        BY <2>2, <4>1, CanAssumption DEF Mailbox!Crowded, Held
    <3>3. CASE listmsg # NoNode
      <4>1. Len(uselist) + 1 = BoxSize /\ Hand # 0
        BY <3>1, <3>3, HandFull DEF InHand
      <4>. QED
        BY <2>2, <4>1, CanAssumption DEF Mailbox!Crowded, Mailbox!None, Held
    <3>. QED
      BY <3>2, <3>3
  <2>. QED
    BY <1>1, <1>5, <2>3, <2>4 DEF Mailbox!Arrive, Held
<1>7. CASE ~Full
  <2>1. Rest = uselist /\ Held \in Seq(Nat) /\ Len(Held) = Len(uselist)
    BY <1>7, HeldFrames DEF Rest
  <2>2. Held' = Append(Held, arrived + 1)
    <3>1. /\ Append(Held, arrived + 1) \in Seq(Nat)
          /\ Len(Append(Held, arrived + 1)) = Len(Rest) + 1
          /\ \A i \in 1 .. Len(Rest) : Append(Held, arrived + 1)[i] = Held[i]
          /\ Append(Held, arrived + 1)[Len(Rest) + 1] = arrived + 1
      BY <1>1, <2>1
    <3>2. \A i \in 1 .. Len(Rest) : Held[i] = data[Rest[i]]
      BY <2>1, HeldFrames
    <3>3. \A i \in 1 .. Len(Rest) + 1 : Held'[i] = Append(Held, arrived + 1)[i]
      BY <1>3, <1>4, <3>1, <3>2
    <3>. QED
      BY <1>4, <3>1, <3>3, SameItems
  <2>3. Mailbox!Fits
    <3>1. /\ Len(freelist) \in Nat /\ Len(freelist) > 0
          /\ Len(uselist) \in Nat /\ Len(InHand) \in {0, 1}
          /\ Len(freelist) + Len(uselist) + Len(InHand) = BoxSize
      BY <1>1, <1>7 DEF IInv, NodesOwnedOnce, Full, InHand
    <3>2. Len(Held) < BoxSize
      BY <2>1, <3>1, CanAssumption
    <3>. QED
      BY <3>2 DEF Mailbox!Fits, Held
  <2>. QED
    BY <1>1, <1>5, <2>2, <2>3 DEF Mailbox!Arrive, Held
<1>. QED
  BY <1>6, <1>7

(* The thread takes the oldest frame.                                       *)
LEMMA Takes ==
  ASSUME IInv, IInv', Order, Once, Unlink
  PROVE  Mailbox!Take
<1>1. /\ UNCHANGED <<data, rxmsg, dispatched, arrived>> /\ rx = "read" /\ rx' = "copy"
      /\ uselist # <<>> /\ listmsg' = Head(uselist) /\ uselist' = Tail(uselist)
      /\ uselist \in Seq(Node)
  BY DEF Unlink, history, IInv, TypeOK
<1>2. Held # <<>> /\ Held \in Seq(Nat) /\ Len(Held) = Len(uselist) /\ Len(uselist) \in Nat
  BY <1>1, HeldFrames
<1>3. Hand = 0
  BY <1>1 DEF Hand, Once
<1>4. Hand' = Head(Held)
  <2>1. Head(uselist) = uselist[1] /\ Head(Held) = Held[1] /\ 1 \in 1 .. Len(uselist)
    BY <1>1, <1>2
  <2>2. Hand' = data[uselist[1]]
    BY <1>1, <2>1 DEF Hand
  <2>. QED
    BY <2>1, <2>2, HeldFrames
<1>5. Held' = Tail(Held)
  <2>1. /\ Held' \in Seq(Nat) /\ Len(Held') = Len(uselist) - 1
        /\ \A i \in 1 .. Len(uselist) - 1 : Held'[i] = data[Tail(uselist)[i]]
    <3>1. Len(uselist') = Len(uselist) - 1
      BY <1>1
    <3>. QED
      BY <1>1, <3>1, HeldFramesNext
  <2>2. \A i \in 1 .. Len(uselist) - 1 : /\ Tail(uselist)[i] = uselist[i + 1]
                                        /\ i + 1 \in 1 .. Len(uselist)
    BY <1>1
  <2>3. /\ Tail(Held) \in Seq(Nat) /\ Len(Tail(Held)) = Len(uselist) - 1
        /\ \A i \in 1 .. Len(uselist) - 1 : Tail(Held)[i] = Held[i + 1]
    BY <1>2
  <2>4. \A i \in 1 .. Len(uselist) - 1 : Tail(Held)[i] = data[Tail(uselist)[i]]
    BY <2>2, <2>3, HeldFrames
  <2>. QED
    BY <2>1, <2>3, <2>4, SameItems
<1>. QED
  BY <1>1, <1>2, <1>3, <1>4, <1>5 DEF Mailbox!Take, Mailbox!None, Held

(* The dispatch gives the frame in the hand, or the last one again, which   *)
(* the abstract box does not see.                                           *)
LEMMA Gives ==
  ASSUME IInv, Order, Dispatch
  PROVE  \/ Mailbox!Give
         \/ UNCHANGED <<arrived, Held, Hand, dispatched>>
<1>1. /\ UNCHANGED <<uselist, data, rxmsg, arrived>>
      /\ rx = "dispatch" /\ rx' = "wait" /\ dispatched' = rxmsg
  BY DEF Dispatch, box, history
<1>2. Held' = Held /\ Hand' = 0
  BY <1>1 DEF Held, Hand
<1>3. CASE rxmsg = dispatched
  BY <1>1, <1>2, <1>3 DEF Hand
<1>4. CASE rxmsg # dispatched
  <2>1. Hand = rxmsg
    BY <1>1, <1>4 DEF Hand
  <2>2. Hand # 0
    BY <1>4, <2>1 DEF Order, Above, IInv, TypeOK
  <2>. QED
    BY <1>1, <1>2, <2>1, <2>2 DEF Mailbox!Give, Mailbox!None, Held
<1>. QED
  BY <1>3, <1>4

(* Nothing else is seen: the frame stays in the hand when it is copied and  *)
(* when its node is given back.                                             *)
LEMMA Unseen ==
  ASSUME IInv, Once, UNCHANGED vars \/ can1_init \/ Wait \/ NoData \/ Copy \/ Free
  PROVE  UNCHANGED <<arrived, Held, Hand, dispatched>>
<1>1. UNCHANGED <<uselist, data, arrived, dispatched>>
  BY DEF vars, box, thread, history, can1_init, rt_device_open, rt_device_set_rx_indicate,
         rt_sem_init, rt_thread_startup, Wait, NoData, Copy, Free
<1>2. Held' = Held
  BY <1>1 DEF Held
<1>3. CASE UNCHANGED vars \/ can1_init \/ Wait \/ NoData \/ Free
  <2>1. /\ rxmsg' = rxmsg
        /\ \/ rx' = rx /\ listmsg' = listmsg
           \/ rx # "copy" /\ rx' # "copy"
    BY <1>3 DEF vars, thread, can1_init, rt_device_open, rt_device_set_rx_indicate,
                rt_sem_init, rt_thread_startup, Wait, NoData, Free, IInv, Setup
  <2>. QED
    BY <1>1, <1>2, <2>1 DEF Hand
<1>4. CASE Copy
  <2>1. rx = "copy" /\ rx' = "free" /\ rxmsg' = data[listmsg]
    BY <1>4 DEF Copy
  <2>2. rxmsg' # dispatched'
    <3>1. listmsg \in Node /\ data[listmsg] \in Nat /\ rxmsg \in Nat
      BY <2>1 DEF IInv, TypeOK, Holding
    <3>. QED
      BY <1>1, <2>1, <3>1 DEF Once
  <2>. QED
    BY <1>1, <1>2, <2>1, <2>2 DEF Hand
<1>. QED
  BY <1>3, <1>4

(* The device implements FrameBox, for a box of any size: frames are given  *)
(* to can1_rec whole, in order and once, and only a full box loses any, the *)
(* oldest first (rt_hw_can_isr, _can_int_rx, can1_rx_thread).               *)
THEOREM ImplementsBox == Spec => BoxSpec
<1>1. Init => Mailbox!Init
  <2>. SUFFICES ASSUME Init PROVE Mailbox!Init
    OBVIOUS
  <2>1. Len(uselist) = 0 /\ rx = "off" /\ rxmsg = 0 /\ dispatched = 0 /\ arrived = 0
    BY DEF Init
  <2>2. [i \in 1 .. Len(uselist) |-> data[uselist[i]]] = <<>>
    BY <2>1
  <2>. QED
    BY <2>1, <2>2 DEF Mailbox!Init, Mailbox!None, Hand
<1>2. IInv /\ IInv' /\ Order /\ Once /\ [Next]_vars
      => [Mailbox!Next]_<<arrived, Held, Hand, dispatched>>
  BY Arrives, Takes, Gives, Unseen DEF Next, can1_rx_thread, Mailbox!Next
<1>. QED
  BY <1>1, <1>2, Invariance, OrderKept, OnceKept, PTL DEF Spec, BoxSpec, Mailbox!Spec, Held
==============================================================================
