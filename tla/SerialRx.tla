------------------------------- MODULE SerialRx -------------------------------
(***************************************************************************)
(* How a frame of the remote control reaches RemoteDataProcess: the DMA     *)
(* writes the bytes of the line into a ring, the interrupt of the idle line *)
(* turns the DMA's counter into an advance of the ring's put index and into *)
(* a message, and the thread of drv_remote.c reads as many bytes as the     *)
(* message says.  No byte is copied here: a byte is its number in the order *)
(* of the line, and the history variables count.                            *)
(***************************************************************************)
EXTENDS Integers, Sequences, FiniteSets

CONSTANTS
  BufSz,     (* config.bufsz, the bytes of the ring: 128                    *)
  FrameLen,  (* a frame of the remote control: 18                           *)
  MqMax,     (* messages msg_pool has room for: 21                          *)
  MaxLag,    (* the line brings no more while so many messages wait         *)
  MaxHeld,   (* ... or so many bytes                                        *)
  MaxLine,   (* bound of the model: bytes on the line                       *)
  MaxParts   (* bound of the model: pieces that are part of a frame only    *)

ASSUME SerialAssumption ==
  /\ BufSz \in Nat /\ FrameLen \in Nat /\ MqMax \in Nat
  /\ MaxLag \in Nat /\ MaxHeld \in Nat /\ MaxLine \in Nat
  /\ MaxParts \in Nat
  /\ 0 < FrameLen /\ MaxHeld < BufSz /\ BufSz < 32768

VARIABLES
  boot,        (* how far remote_uart_init has come                         *)
  ndtr,        (* the counter of the DMA: it counts down, and starts again  *)
  last_index,  (* uart->dma.last_index                                      *)
  put_index, get_index, is_full,          (* struct rt_serial_rx_fifo       *)
  rx_mq,       (* the sizes of the messages waiting                         *)
  pc, size,    (* serial_thread_entry and msg.size                          *)
  slow,        (* the thread may be late by more than one piece             *)
  parts,       (* history: pieces the line brought that were not a frame,   *)
  line,        (* ... bytes the line has brought,                           *)
  ends,        (* ... where the pieces not yet processed began and ended,   *)
  announced,   (* ... bytes the interrupt has seen,                         *)
  accepted,    (* ... bytes of them when a message was last accepted,       *)
  from, taken, (* ... the last read, and bytes read in all,                 *)
  reads        (* ... 0, 1 or 2 and more reads                              *)

ring == <<put_index, get_index, is_full>>
thread == <<pc, size, from, taken, reads>>
vars == <<boot, ndtr, last_index, ring, rx_mq, thread, slow, parts, line, ends, announced, accepted>>

------------------------------------------------------------------------------
(* rt_dma_calc_recved_len                                                   *)
Recved ==
  IF put_index = get_index THEN IF is_full THEN BufSz ELSE 0
  ELSE IF put_index > get_index THEN put_index - get_index
  ELSE BufSz - (get_index - put_index)

(* Mutant: a piece past the end of the ring is not counted.                 *)
InEvent_Clipped(n) == IF n < 0 THEN 0 ELSE n

(* The length passes through the upper 24 bits of an int: recv_len << 8 in  *)
(* the interrupt, (event & ~0xff) >> 8 in rt_hw_serial_isr.  A length that  *)
(* is negative, past the end of the ring, keeps its sign there; modulo the  *)
(* width of the index the sign makes no difference.                         *)
InEvent(n) == n % 16777216

(* put_index is rt_uint16_t.                                                *)
Advanced(i, n) == (i + n) % 65536

(* Mutant: an index that reaches the end of the ring stays there.           *)
Wrapped_Late(i) == IF i > BufSz THEN i % BufSz ELSE i

Wrapped(i) == IF i >= BufSz THEN i % BufSz ELSE i

(* Mutant: beyond the end is taken for beyond the get index.                *)
Overrun_AtEnd(n) ==
  LET raw == Advanced(put_index, n) IN
  IF get_index =< put_index THEN Wrapped(raw) =< put_index ELSE raw >= get_index

(* "force overwrite get index"                                              *)
Overrun(n) ==
  LET raw == Advanced(put_index, n) IN
  IF get_index =< put_index THEN raw >= BufSz /\ Wrapped(raw) >= get_index
  ELSE raw >= get_index

rt_dma_recv_update_put_index(n) ==
  /\ put_index' = Wrapped(Advanced(put_index, n))
  /\ is_full' = (is_full \/ Overrun(n))
  /\ get_index' = IF is_full' THEN put_index' ELSE get_index

(* Mutant: a message carries the length of the new bytes only.              *)
uart_input_NewOnly(n) ==
  IF Len(rx_mq) < MqMax
  THEN rx_mq' = Append(rx_mq, announced' - announced) /\ accepted' = announced'
  ELSE UNCHANGED <<rx_mq, accepted>>

(* The length a message carries is that of all bytes held; a message that   *)
(* finds the queue full is lost.                                            *)
uart_input(n) ==
  IF Len(rx_mq) < MqMax
  THEN rx_mq' = Append(rx_mq, n) /\ accepted' = announced'
  ELSE UNCHANGED <<rx_mq, accepted>>

------------------------------------------------------------------------------
Init ==
  /\ boot = "open"
  /\ ndtr = BufSz /\ last_index = 0
  /\ put_index = 0 /\ get_index = 0 /\ is_full = FALSE
  /\ rx_mq = <<>> /\ pc = "off" /\ size = 0
  /\ slow \in BOOLEAN
  /\ parts = 0 /\ line = 0 /\ ends = {0} /\ announced = 0 /\ accepted = 0
  /\ from = 0 /\ taken = 0 /\ reads = 0

(* remote_uart_init once the device is open: the call of                    *)
(* rt_device_set_rx_indicate, then the start of the thread.                 *)
SetRxIndicate ==
  /\ boot = "open"
  /\ boot' = "indicate"
  /\ UNCHANGED <<ndtr, last_index, ring, rx_mq, thread, slow, parts, line, ends, announced, accepted>>

Startup ==
  /\ boot = "indicate"
  /\ boot' = "done" /\ pc' = "recv"
  /\ UNCHANGED <<ndtr, last_index, ring, rx_mq, size, from, taken, reads, slow, parts, line, ends,
                 announced, accepted>>

(* The messages sent and not yet dealt with.                                *)
Lag == Len(rx_mq) + IF pc \in {"read", "parse"} THEN 1 ELSE 0

(* The line brings a piece, a frame or a part of one, and falls idle.  The  *)
(* idle interrupt of the piece before it has run.  The receiver sends a     *)
(* frame every 14 ms: a thread of priority 1 that keeps up has dealt with   *)
(* the one before, a slow one has fewer than MaxLag messages waiting.  Part *)
(* of a frame comes when the transmitter or the board is switched on.  The  *)
(* 2 ms between opening the device and the thread's start, in which the     *)
(* init sends 18 bytes, bring two pieces at most.                           *)
Line(n) ==
  /\ line = announced /\ line + n =< MaxLine
  /\ line + n - taken =< MaxHeld
  /\ IF boot = "done" THEN Lag < (IF slow THEN MaxLag ELSE 1) ELSE Cardinality(ends) =< 2
  /\ parts' = IF n = FrameLen THEN parts ELSE parts + 1
  /\ parts' =< MaxParts
  /\ line' = line + n /\ ends' = ends \cup {line + n}
  /\ ndtr' = IF ndtr > n THEN ndtr - n ELSE ndtr - n + BufSz
  /\ UNCHANGED <<boot, last_index, ring, rx_mq, thread, slow, announced, accepted>>

(* The interrupt of the idle line, with rt_hw_serial_isr and the callback.  *)
uart_isr ==
  /\ line > announced
  /\ LET recv_len == (BufSz - ndtr) - last_index IN
       IF recv_len = 0
       THEN UNCHANGED <<ring, rx_mq, accepted, announced>>
       ELSE /\ announced' = line
            /\ rt_dma_recv_update_put_index(InEvent(recv_len))
            /\ IF boot = "open" THEN UNCHANGED <<rx_mq, accepted>> ELSE uart_input(Recved')
  /\ last_index' = BufSz - ndtr
  /\ UNCHANGED <<boot, ndtr, thread, slow, parts, line, ends>>

(* serial_thread_entry: rt_mq_recv ...                                      *)
Recv ==
  /\ pc = "recv" /\ rx_mq # <<>>
  /\ size' = Head(rx_mq) /\ rx_mq' = Tail(rx_mq)
  /\ pc' = "read"
  /\ UNCHANGED <<boot, ndtr, last_index, ring, from, taken, reads, slow, parts, line, ends,
                 announced, accepted>>

(* Mutant: no further than the end of the ring.                             *)
ReadLen_Straight ==
  CHOOSE n \in {size, Recved, BufSz - get_index} :
    \A m \in {size, Recved, BufSz - get_index} : n =< m

(* ... rt_device_read, which is _serial_dma_rx with interrupts disabled:    *)
(* as much as is held, and no more than was asked for ...                   *)
ReadLen == IF size < Recved THEN size ELSE Recved

Read ==
  /\ pc = "read"
  /\ is_full' = (is_full /\ ReadLen = 0)
  /\ get_index' = Wrapped(get_index + ReadLen)
  /\ from' = taken /\ taken' = taken + ReadLen
  /\ reads' = IF reads < 2 THEN reads + 1 ELSE 2
  /\ pc' = "parse"
  /\ UNCHANGED <<boot, ndtr, last_index, put_index, rx_mq, size, slow, parts, line, ends,
                 announced, accepted>>

(* ... and the processing of the first FrameLen bytes of rx_buffer.         *)
Parse ==
  /\ pc = "parse" /\ pc' = "recv"
  /\ ends' = {e \in ends : e >= taken}
  /\ UNCHANGED <<boot, ndtr, last_index, ring, rx_mq, size, from, taken, reads, slow, parts, line,
                 announced, accepted>>

serial_thread_entry == Recv \/ Read \/ Parse

Next == SetRxIndicate \/ Startup \/ (\E n \in 1 .. FrameLen : Line(n)) \/ uart_isr
        \/ serial_thread_entry

Spec == Init /\ [][Next]_vars

------------------------------------------------------------------------------
(* Every variable stays in its type: the indices in the ring.               *)
TypeOK ==
  /\ boot \in {"open", "indicate", "done"} /\ pc \in {"off", "recv", "read", "parse"}
  /\ ndtr \in 1 .. BufSz /\ last_index \in 0 .. BufSz - 1
  /\ put_index \in 0 .. BufSz - 1 /\ get_index \in 0 .. BufSz - 1 /\ is_full \in BOOLEAN
  /\ rx_mq \in Seq(Nat) /\ Len(rx_mq) =< MqMax /\ size \in Nat
  /\ slow \in BOOLEAN /\ parts \in Nat
  /\ line \in Nat /\ ends \in SUBSET Nat /\ announced \in Nat /\ accepted \in Nat
  /\ from \in Nat /\ taken \in Nat /\ reads \in 0 .. 2

(* The ring's software indices stay with the hardware: after each interrupt *)
(* what the indices say is held is what the line brought less what was      *)
(* read, also when the DMA has passed the end of the ring and the length of *)
(* the interrupt is negative, and no overrun is ever seen where none was.   *)
InStep ==
  /\ Recved = announced - taken
  /\ ~is_full
  /\ line = announced => put_index = BufSz - ndtr

(* Whatever messages were lost, when the thread has dealt with the last one *)
(* it has read every byte there was when a message was last accepted: a     *)
(* lost message, or a frame before the callback was set, is made up for by  *)
(* the next message.                                                        *)
NoneLeft == (rx_mq = <<>> /\ pc \in {"recv", "parse"}) => taken >= accepted

(* In two cases no read ends within a piece of the line, so that the next   *)
(* begins with one: where the thread keeps up, whatever part of a frame the *)
(* line brings, and where the thread is late but the line has brought       *)
(* nothing but frames.  A late thread that meets part of a frame is in      *)
(* neither: the bytes a message announces are then not those of a piece,    *)
(* and a read of so many may end within the next.                           *)
PieceByPiece == (~slow \/ parts = 0) => taken \in ends

(* Every read of a thread that keeps up finds something and, but for the    *)
(* first, which may find more from before the start, is of one piece of the *)
(* line only.  The piece may be part of a frame: what Parse then processes  *)
(* is that part and what earlier reads left in rx_buffer.                   *)
OnePiece ==
  (~slow /\ pc = "parse")
    => from < taken /\ (reads > 1 => \A e \in ends : ~(from < e /\ e < taken))

(* The ring is the queue a serial line promises: every byte of the line is  *)
(* held once the interrupt has run until it is read, and read once.         *)
Queue == INSTANCE ByteQueue WITH Cap <- BufSz, arrived <- announced, held <- Recved
QueueSpec == Queue!Spec
==============================================================================
