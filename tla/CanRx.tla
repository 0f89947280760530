-------------------------------- MODULE CanRx --------------------------------
(***************************************************************************)
(* Reception on one CAN bus: the interrupt handler and the message box of   *)
(* RT-Thread's CAN device, the semaphore it releases through the callback   *)
(* of public/drv_canthread.c, the thread that waits for it, reads one frame *)
(* and dispatches it, and can1_init (or can2_init), which sets all this up  *)
(* while frames may already arrive.                                         *)
(*                                                                          *)
(* A frame is its number in the order of arrival.  The handler runs to its  *)
(* end before any thread continues, so it is one action; the thread can be  *)
(* interrupted wherever it has not disabled interrupts.  No board connects  *)
(* a filter to a header (RT_CAN_USING_HDR) and the thread reads with        *)
(* rxmsg.hdr = -1: the header lists stay empty and are left out.            *)
(***************************************************************************)
EXTENDS Naturals, Sequences, Functions

CONSTANTS
  BoxSize,    (* msgboxsz, the nodes of the message box: 32                 *)
  MaxFrames   (* bound of the model: frames that arrive                     *)

ASSUME CanAssumption == BoxSize \in Nat /\ BoxSize > 1 /\ MaxFrames \in Nat

Node == 1 .. BoxSize
NoNode == 0

VARIABLES
  stage,        (* how far can1_init has come, or that an assertion failed  *)
  freelist,     (* the nodes without a frame                                *)
  uselist,      (* the nodes with a frame to be read, oldest first          *)
  data,         (* the frame in a node, 0 for none                          *)
  freenumbers,  (* what the device believes the length of freelist to be    *)
  sem,          (* can1_rx_sem.value                                        *)
  rx,           (* where the receive thread stands                          *)
  listmsg,      (* the node the thread copies from                          *)
  rxmsg,        (* the thread's message                                     *)
  dispatched,   (* history: the frame can1_rec was called with last         *)
  arrived,      (* history: frames that have arrived                        *)
  early,        (* history: frames that arrived before the callback was set *)
  dropped,      (* history: frames overwritten in the full box              *)
  stale         (* history: reads that found no frame                       *)

box == <<freelist, uselist, data, freenumbers>>
thread == <<rx, listmsg, rxmsg, dispatched>>
history == <<arrived, early, dropped, stale>>
vars == <<stage, box, sem, thread, history>>

Init ==
  /\ stage = "closed"
  /\ freelist = [i \in Node |-> i] /\ uselist = <<>>
  /\ data = [n \in Node |-> 0] /\ freenumbers = BoxSize
  /\ sem = 0
  /\ rx = "off" /\ listmsg = NoNode /\ rxmsg = 0 /\ dispatched = 0
  /\ arrived = 0 /\ early = 0 /\ dropped = 0 /\ stale = 0

------------------------------------------------------------------------------
(* can1_init, step by step: from the opening of the device on, frames       *)
(* arrive; the semaphore they are counted by comes after the callback.      *)

rt_device_open ==
  /\ stage = "closed" /\ stage' = "open"
  /\ UNCHANGED <<box, sem, thread, history>>

rt_device_set_rx_indicate ==
  /\ stage = "open" /\ stage' = "hooked"
  /\ UNCHANGED <<box, sem, thread, history>>

rt_sem_init ==
  /\ stage = "hooked" /\ stage' = "counting"
  /\ sem' = 0
  /\ UNCHANGED <<box, thread, history>>

rt_thread_startup ==
  /\ stage = "counting" /\ stage' = "running"
  /\ rx' = "wait"
  /\ UNCHANGED <<box, sem, listmsg, rxmsg, dispatched, history>>

------------------------------------------------------------------------------
(* rt_hw_can_isr, RT_CAN_EVENT_RX_IND.                                      *)

Full == freelist = <<>>

(* The node for the new frame: a free one, or the oldest in use.            *)
Victim == IF Full THEN Head(uselist) ELSE Head(freelist)

(* Mutants: the oldest stays in the list; the new frame goes to the front.  *)
Queued_Kept == Append(uselist, Victim)
Queued_Front == <<Victim>> \o (IF Full THEN Tail(uselist) ELSE uselist)

(* The list of frames to be read, with the new one at its end.              *)
Queued == Append(IF Full THEN Tail(uselist) ELSE uselist, Victim)

(* Mutant: the counter goes down whether or not the node was free.          *)
FreeLeft_Always == freenumbers - 1

FreeLeft == IF Full THEN freenumbers ELSE freenumbers - 1

(* Mutant: a frame that replaces another is not announced.                  *)
Released_IfStored == IF Full THEN sem ELSE sem + 1

(* Mutant: only a frame that finds the box empty is announced.              *)
Released_First == IF uselist = <<>> THEN sem + 1 ELSE sem

(* can1_rx_call releases the semaphore once for each frame.                 *)
Released == sem + 1

rt_hw_can_isr ==
  /\ stage \notin {"closed", "halted"} /\ arrived < MaxFrames
  /\ freelist' = IF Full THEN freelist ELSE Tail(freelist)
  /\ freenumbers' = FreeLeft
  /\ uselist' = Queued
  /\ data' = [data EXCEPT ![Victim] = arrived + 1]
  /\ arrived' = arrived + 1
  /\ dropped' = IF Full THEN dropped + 1 ELSE dropped
  /\ early' = IF stage \in {"open", "hooked"} THEN early + 1 ELSE early
  (* Before rt_sem_init the semaphore is no object: RT_ASSERT stops all.    *)
  /\ stage' = IF stage = "hooked" THEN "halted" ELSE stage
  /\ sem' = IF stage \in {"counting", "running"} THEN Released ELSE sem
  /\ UNCHANGED <<thread, stale>>

------------------------------------------------------------------------------
(* can1_rx_thread: wait for the semaphore ...                               *)

(* Mutant: the wait ends by a timeout too.                                  *)
rt_sem_take_Timeout == sem' = IF sem > 0 THEN sem - 1 ELSE sem

rt_sem_take == sem > 0 /\ sem' = sem - 1

Wait ==
  /\ rx = "wait" /\ rt_sem_take
  /\ rx' = "read"
  /\ UNCHANGED <<stage, box, listmsg, rxmsg, dispatched, history>>

(* ... take the oldest frame's node out of the list, or find no frame: the  *)
(* result of the read is ignored, the message keeps what it held ...        *)
Unlink ==
  /\ rx = "read" /\ uselist # <<>>
  /\ listmsg' = Head(uselist) /\ uselist' = Tail(uselist)
  /\ rx' = "copy"
  /\ UNCHANGED <<stage, freelist, data, freenumbers, sem, rxmsg,
                 dispatched, history>>

NoData ==
  /\ rx = "read" /\ uselist = <<>>
  /\ stale' = stale + 1
  /\ rx' = "dispatch"
  /\ UNCHANGED <<stage, box, sem, listmsg, rxmsg, dispatched, arrived,
                 early, dropped>>

(* ... copy the frame, interrupts enabled ...                               *)
Copy ==
  /\ rx = "copy"
  /\ rxmsg' = data[listmsg]
  /\ rx' = "free"
  /\ UNCHANGED <<stage, box, sem, listmsg, dispatched, history>>

(* ... give the node back ...                                               *)
Free ==
  /\ rx = "free"
  /\ freelist' = Append(freelist, listmsg)
  /\ freenumbers' = freenumbers + 1
  /\ listmsg' = NoNode
  /\ rx' = "dispatch"
  /\ UNCHANGED <<stage, uselist, data, sem, rxmsg, dispatched, history>>

(* ... and call can1_rec.                                                   *)
Dispatch ==
  /\ rx = "dispatch"
  /\ dispatched' = rxmsg
  /\ rx' = "wait"
  /\ UNCHANGED <<stage, box, sem, listmsg, rxmsg, history>>

------------------------------------------------------------------------------
can1_init == \/ rt_device_open \/ rt_device_set_rx_indicate \/ rt_sem_init
             \/ rt_thread_startup

can1_rx_thread == Wait \/ Unlink \/ NoData \/ Copy \/ Free \/ Dispatch

Next == can1_init \/ rt_hw_can_isr \/ can1_rx_thread

Spec == Init /\ [][Next]_vars

(* The thread has priority 2; what is above it waits for a timer or a frame *)
(* of its own after every few steps.                                        *)
FairSpec == Spec /\ WF_vars(can1_rx_thread)

------------------------------------------------------------------------------
(* Every variable stays in its type; the counter of free nodes within the   *)
(* box, as the two assertions of can.c ask.                                 *)
TypeOK ==
  /\ stage \in {"closed", "open", "hooked", "counting", "running", "halted"}
  /\ freelist \in Seq(Node) /\ uselist \in Seq(Node)
  /\ data \in [Node -> Nat] /\ freenumbers \in 0 .. BoxSize
  /\ sem \in Nat
  /\ rx \in {"off", "wait", "read", "copy", "free", "dispatch"}
  /\ listmsg \in Node \cup {NoNode} /\ rxmsg \in Nat /\ dispatched \in Nat
  /\ arrived \in Nat /\ early \in Nat /\ dropped \in Nat /\ stale \in Nat

InHand == IF listmsg = NoNode THEN <<>> ELSE <<listmsg>>

(* Handler and thread never share a node: every node of the box is in one   *)
(* place, a list or the thread's hand, and in it once (there are as many    *)
(* places as nodes), although the lists are unlinked and linked in separate *)
(* critical sections.                                                       *)
NodesOwnedOnce ==
  /\ Len(freelist) + Len(uselist) + Len(InHand) = BoxSize
  /\ Node = Range(freelist) \cup Range(uselist) \cup Range(InHand)

Taken == IF rx = "read" THEN 1 ELSE 0

(* The semaphore counts the frames to be read, but for what reception got   *)
(* wrong: it owes one for each frame that came before the callback, and has *)
(* one too many for each frame overwritten and not yet missed by a read.    *)
SemAccounting == sem + Taken + early + stale = Len(uselist) + dropped

(* A read finds nothing, so that an old frame is dispatched again, at most  *)
(* as often as a frame has been overwritten: no loss, no repetition.        *)
StaleOnlyAfterDrop == stale =< dropped

(* What the thread is reading: the frame of the node in its hand, then what *)
(* it has copied, until that is dispatched.                                 *)
Hand == IF rx = "copy" THEN data[listmsg]
        ELSE IF rxmsg # dispatched THEN rxmsg ELSE 0

(* The lists, the nodes and the counter together are a box of frames: each  *)
(* frame is dispatched in the order of arrival and once, but for the oldest *)
(* of a full box; none is torn by the frame that reuses its node while it   *)
(* is copied with interrupts enabled; what a read that finds nothing        *)
(* dispatches again is the last frame and no other.                         *)
Mailbox == INSTANCE FrameBox WITH
  Room <- BoxSize, came <- arrived, given <- dispatched, hand <- Hand,
  held <- [i \in 1 .. Len(uselist) |-> data[uselist[i]]]
BoxSpec == Mailbox!Spec

(* With no early frame, frames do not stay behind in the box: when no more  *)
(* arrive, all of them are read.                                            *)
Drains == (early = 0 /\ stage = "running") ~> (uselist = <<>>)

(* The assertion of rt_sem_release (ipc.c): the callback is given an        *)
(* initialised semaphore.                                                   *)
SemaphoreInitialised == stage # "halted"
==============================================================================
