---------------------------- MODULE W5500Buffers ----------------------------
(***************************************************************************)
(* The buffers of a socket of the W5500, as src/Ethernet/W5500/w5500.c     *)
(* works on them: the chip shows a size or a pointer as two registers of   *)
(* one byte, which are read one after the other while the chip goes on     *)
(* receiving and sending; a pointer counts modulo 2^16 and the chip finds  *)
(* the cell by its lower bits.                                             *)
(*                                                                         *)
(* W5500Socket takes the reading of a size, and the copying of a packet,   *)
(* as one step each.  Here the callers are reduced to what decides which   *)
(* size is read next, and a connection ends in order or not at all.        *)
(*                                                                         *)
(* The peer numbers its bytes modulo PtrWrap, and so does the caller of    *)
(* send(): a byte's value is its place in the stream.                      *)
(***************************************************************************)
EXTENDS Integers, Sequences

CONSTANTS
  Base,     \* 256: values of a register
  PtrWrap,  \* 2^16: pointers are uint16_t
  Size,     \* the cells of either buffer (4096)
  RecvMax,  \* the size of recv_buffer_ (kRecvBufferSize)
  SendMax   \* the longest packet

ASSUME SizeAssumption ==
  /\ Base \in Nat \ {0} /\ PtrWrap \in Nat
  /\ Size \in Nat \ {0} /\ Size < Base * Base
  /\ Size < PtrWrap /\ PtrWrap % Size = 0
  /\ RecvMax \in Nat \ {0} /\ SendMax \in 1 .. Size

VARIABLES
  sr,       \* Sn_SR, as long as there is a connection
  rx_mem, rx_wr,  \* the receive buffer and the chip's place in it
  rx_rd,    \* Sn_RX_RD, as the host has written it
  rx_free,  \* and as the chip took it at the last RECV
  tx_mem, tx_wr,  \* the transmit buffer and Sn_TX_WR
  tx_end,   \* Sn_TX_WR as the chip took it at the last SEND
  tx_acked, \* how far the peer has acknowledged
  pc,       \* where the host is
  caller,   \* for whom it reads a size
  hi,       \* the upper byte just read
  val1, val,  \* the two readings
  want,     \* bytes socket_recv() asks recv() for, or send() was given
  ptr,      \* ptr in wiz_recv_data() and wiz_send_data()
  done,     \* bytes copied so far
  byte,     \* the byte copied last by wiz_recv_data(), or NoByte
  \* History.
  start,    \* what the size was when its reading began
  said      \* bytes the caller of send() has sent, modulo PtrWrap

chip_vars == <<sr, rx_mem, rx_wr, rx_free, tx_end, tx_acked>>
reading == <<hi, val1, val, start>>
copying == <<rx_rd, tx_mem, tx_wr, ptr, done, byte, said>>
host == <<pc, caller, want, reading, copying>>
vars == <<chip_vars, host>>

NoByte == PtrWrap
Pointers == 0 .. PtrWrap - 1
Cell(p) == (p % PtrWrap) % Size
Least(a, b) == IF a < b THEN a ELSE b

\* Sn_RX_RSR and Sn_TX_FSR.
Received == (rx_wr - rx_free) % PtrWrap
Room == Size - ((tx_end - tx_acked) % PtrWrap)

-----------------------------------------------------------------------------
(* getSn_RX_RSR() and getSn_TX_FSR() *)

SizeFor(c) == IF c \in {"room", "empty"} THEN Room ELSE Received
Sized == SizeFor(caller)

Begin(c) ==
  /\ pc' = "hi1" /\ caller' = c
  /\ hi' = 0 /\ val1' = 0 /\ val' = 0 /\ start' = SizeFor(c)

Return == pc' = "ready" /\ want' = 0 /\ ptr' = 0 /\ done' = 0

\* What is left of the call that has read the size; its variables go.
End(p) ==
  /\ pc' = p
  /\ hi' = 0 /\ val1' = 0 /\ val' = 0 /\ start' = 0
  /\ UNCHANGED caller

ReadHigh ==
  /\ pc \in {"hi1", "hi2"}
  /\ hi' = Sized \div Base
  /\ pc' = IF pc = "hi1" THEN "lo1" ELSE "lo2"
  /\ UNCHANGED <<chip_vars, caller, val1, val, start, want, copying>>

\* Faulty variant: the first reading is believed.
ReadFirst_Once ==
  /\ pc = "lo1"
  /\ val1' = Base * hi + (Sized % Base)
  /\ val' = val1'
  /\ pc' = "sized"
  /\ UNCHANGED <<chip_vars, caller, hi, start, want, copying>>

\* A first reading of zero is not confirmed by a second.
ReadFirst ==
  /\ pc = "lo1"
  /\ val1' = Base * hi + (Sized % Base)
  /\ pc' = IF val1' # 0 THEN "hi2" ELSE IF val1' = val THEN "sized" ELSE "hi1"
  /\ UNCHANGED <<chip_vars, caller, hi, val, start, want, copying>>

\* Faulty variant: the upper byte of the second reading is lost.
ReadSecond_LowOnly ==
  /\ pc = "lo2"
  /\ val' = Sized % Base
  /\ pc' = IF val' = val1 THEN "sized" ELSE "hi1"
  /\ UNCHANGED <<chip_vars, caller, hi, val1, start, want, copying>>

ReadSecond ==
  /\ pc = "lo2"
  /\ val' = Base * hi + (Sized % Base)
  /\ pc' = IF val' = val1 THEN "sized" ELSE "hi1"
  /\ UNCHANGED <<chip_vars, caller, hi, val1, start, want, copying>>

-----------------------------------------------------------------------------
(* socket_recv() and recv() *)

CallRecv ==
  /\ pc = "ready"
  /\ Begin("ask")
  /\ UNCHANGED <<chip_vars, want, copying>>

\* Nothing there: recv() is not called.
Nothing ==
  /\ pc = "sized" /\ caller = "ask" /\ val = 0
  /\ End("ready")
  /\ UNCHANGED <<chip_vars, want, copying>>

Something ==
  /\ pc = "sized" /\ caller = "ask" /\ val # 0
  /\ want' = Least(val, RecvMax)
  /\ Begin("wait")
  /\ UNCHANGED <<chip_vars, copying>>

\* recv() reads the size again, then the status, and waits for data.
Wait ==
  /\ pc = "sized" /\ caller = "wait" /\ val = 0
  /\ Begin(IF sr = "CLOSE_WAIT" THEN "empty" ELSE "wait")
  /\ UNCHANGED <<chip_vars, want, copying>>

\* The peer has closed, nothing to read was seen: recv() closes the socket,
\* once everything sent is acknowledged.
Abandon ==
  /\ pc = "sized" /\ caller = "empty" /\ val = Size
  /\ End("closed")
  /\ UNCHANGED <<chip_vars, want, copying>>

KeepWaiting ==
  /\ pc = "sized" /\ caller = "empty" /\ val # Size
  /\ Begin("wait")
  /\ UNCHANGED <<chip_vars, want, copying>>

\* wiz_recv_data(): fetch the pointer, copy, write the pointer back.
StartLoad ==
  /\ pc = "sized" /\ caller = "wait" /\ val # 0
  /\ want' = Least(val, want)
  /\ End("load") /\ ptr' = rx_rd /\ done' = 0
  /\ UNCHANGED <<chip_vars, rx_rd, tx_mem, tx_wr, byte, said>>

\* One byte of a burst: the chip counts the address up.
BurstIn ==
  /\ byte' = rx_mem[Cell(ptr + done)]
  /\ done' = done + 1

Load ==
  /\ pc = "load" /\ done < want
  /\ BurstIn
  /\ UNCHANGED <<chip_vars, pc, caller, reading, want, rx_rd, tx_mem, tx_wr, ptr, said>>

\* Faulty variant: the pointer is kept within the buffer.
SetRxRd_InBuffer ==
  /\ pc = "load" /\ done = want
  /\ rx_rd' = (ptr + want) % Size
  /\ pc' = "recv"
  /\ UNCHANGED <<chip_vars, caller, reading, want, tx_mem, tx_wr, ptr, done, byte, said>>

SetRxRd ==
  /\ pc = "load" /\ done = want
  /\ rx_rd' = (ptr + want) % PtrWrap
  /\ pc' = "recv"
  /\ UNCHANGED <<chip_vars, caller, reading, want, tx_mem, tx_wr, ptr, done, byte, said>>

\* The RECV command; recv() returns.
Recv ==
  /\ pc = "recv"
  /\ rx_free' = rx_rd
  /\ Return
  /\ UNCHANGED <<sr, rx_mem, rx_wr, tx_end, tx_acked, caller, reading, rx_rd,
                 tx_mem, tx_wr, byte, said>>

-----------------------------------------------------------------------------
(* send() from where it waits for room: SENDOK has been seen, if a packet was
   sent before, which says that it is sent; here it need not be acknowledged. *)

CallSend(n) ==
  /\ pc = "ready"
  /\ want' = n
  /\ Begin("room")
  /\ UNCHANGED <<chip_vars, copying>>

NoRoom ==
  /\ pc = "sized" /\ caller = "room" /\ val < want
  /\ Begin("room")
  /\ UNCHANGED <<chip_vars, want, copying>>

\* wiz_send_data()
StartStore ==
  /\ pc = "sized" /\ caller = "room" /\ val >= want
  /\ End("store") /\ ptr' = tx_wr /\ done' = 0
  /\ UNCHANGED <<chip_vars, want, rx_rd, tx_mem, tx_wr, byte, said>>

\* Faulty variant: every packet is written to the start of the buffer.
Store_FromZero ==
  /\ pc = "store" /\ done < want
  /\ tx_mem' = [tx_mem EXCEPT ![Cell(done)] = (said + done) % PtrWrap]
  /\ done' = done + 1
  /\ UNCHANGED <<chip_vars, pc, caller, reading, want, rx_rd, tx_wr, ptr, byte, said>>

BurstOut ==
  /\ tx_mem' = [tx_mem EXCEPT ![Cell(ptr + done)] = (said + done) % PtrWrap]
  /\ done' = done + 1

Store ==
  /\ pc = "store" /\ done < want
  /\ BurstOut
  /\ UNCHANGED <<chip_vars, pc, caller, reading, want, rx_rd, tx_wr, ptr, byte, said>>

SetTxWr ==
  /\ pc = "store" /\ done = want
  /\ tx_wr' = (ptr + want) % PtrWrap
  /\ pc' = "send"
  /\ UNCHANGED <<chip_vars, caller, reading, want, rx_rd, tx_mem, ptr, done, byte, said>>

\* The SEND command; send() returns.
Send ==
  /\ pc = "send"
  /\ tx_end' = tx_wr /\ said' = (said + want) % PtrWrap
  /\ Return
  /\ UNCHANGED <<sr, rx_mem, rx_wr, rx_free, tx_acked, caller, reading, rx_rd,
                 tx_mem, tx_wr, byte>>

-----------------------------------------------------------------------------
(* The chip, under flow control, and the peer. *)

Arrive ==
  /\ sr = "ESTABLISHED" /\ Received < Size
  /\ rx_mem' = [rx_mem EXCEPT ![Cell(rx_wr)] = rx_wr]
  /\ rx_wr' = (rx_wr + 1) % PtrWrap
  /\ UNCHANGED <<sr, rx_free, tx_end, tx_acked, host>>

Ack ==
  /\ tx_acked # tx_end
  /\ tx_acked' = (tx_acked + 1) % PtrWrap
  /\ UNCHANGED <<sr, rx_mem, rx_wr, rx_free, tx_end, host>>

PeerFin ==
  /\ sr = "ESTABLISHED" /\ sr' = "CLOSE_WAIT"
  /\ UNCHANGED <<rx_mem, rx_wr, rx_free, tx_end, tx_acked, host>>

-----------------------------------------------------------------------------

\* The chip clears its pointers when the socket is opened.
Init ==
  /\ sr = "ESTABLISHED"
  /\ rx_mem = [c \in 0 .. Size - 1 |-> NoByte] /\ rx_wr = 0
  /\ rx_rd = 0 /\ rx_free = 0
  /\ tx_mem = [c \in 0 .. Size - 1 |-> NoByte] /\ tx_wr = 0
  /\ tx_end = 0 /\ tx_acked = 0
  /\ pc = "ready" /\ caller = "ask" /\ hi = 0 /\ val1 = 0 /\ val = 0
  /\ want = 0 /\ ptr = 0 /\ done = 0 /\ byte = NoByte
  /\ start = 0 /\ said = 0

Reading == ReadHigh \/ ReadFirst \/ ReadSecond

\* What the running call does next.
Step == \/ Reading
        \/ Nothing \/ Something \/ Wait \/ Abandon \/ KeepWaiting
        \/ StartLoad \/ Load \/ SetRxRd \/ Recv
        \/ NoRoom \/ StartStore \/ Store \/ SetTxWr \/ Send

Next == \/ CallRecv \/ \E n \in 1 .. SendMax : CallSend(n)
        \/ Step
        \/ Arrive \/ Ack \/ PeerFin

\* A call that has begun goes on, and what is sent is acknowledged in the end:
\* a peer that does not answer is left to W5500Socket.
Spec == Init /\ [][Next]_vars /\ WF_vars(Step) /\ WF_vars(Ack)

-----------------------------------------------------------------------------
(* Properties. *)

\* Type invariant.
TypeOK ==
  /\ sr \in {"ESTABLISHED", "CLOSE_WAIT"}
  /\ rx_mem \in [0 .. Size - 1 -> 0 .. PtrWrap]
  /\ tx_mem \in [0 .. Size - 1 -> 0 .. PtrWrap]
  /\ rx_wr \in Pointers /\ rx_rd \in Pointers /\ rx_free \in Pointers
  /\ tx_wr \in Pointers /\ tx_end \in Pointers /\ tx_acked \in Pointers
  /\ ptr \in Pointers /\ said \in Pointers
  /\ pc \in {"ready", "hi1", "lo1", "hi2", "lo2", "sized", "load", "recv",
             "store", "send", "closed"}
  /\ caller \in {"ask", "wait", "empty", "room"}
  /\ hi \in 0 .. Base - 1
  /\ val1 \in 0 .. Base * Base - 1 /\ val \in 0 .. Base * Base - 1
  /\ start \in 0 .. Size
  /\ want \in 0 .. Size /\ done \in 0 .. want
  /\ byte \in 0 .. PtrWrap

\* A size that is read byte by byte while it grows is one the registers really
\* held during the reading, so recv() hands out nothing that nobody has sent
\* and send() writes over nothing that is not acknowledged.  Zero is the
\* exception: it may be put together from two values and is not confirmed.
SizeReal == TypeOK /\ (pc = "sized" => val = 0 \/ (start <= val /\ val <= Sized))

\* What the chip has taken over for sending and the peer has not yet
\* acknowledged is what the caller gave last, byte for byte.
SentIntact ==
  \A j \in 1 .. Size - Room :
    tx_mem[Cell(tx_end - j)] = (said - j) % PtrWrap

\* The receive buffer is a queue: recv() gets every byte once and in the order
\* of the peer, across the end of the buffer and the wrap of the pointers.  A
\* byte leaves the queue when it is copied.
Unread == Received - (IF pc \in {"load", "recv"} THEN done ELSE 0)

Queue == INSTANCE ByteQueue WITH
  Capacity <- Size,
  Byte <- 0 .. PtrWrap - 1,
  queue <- [i \in 1 .. Unread |-> rx_mem[Cell((rx_wr - Unread) + i - 1)]],
  taken <- byte,
  dropped <- 0

ImplementsQueue == Queue!Spec

\* Every call returns, although the sizes change while they are read.
CallsReturn == pc # "ready" ~> pc \in {"ready", "closed"}
=============================================================================
