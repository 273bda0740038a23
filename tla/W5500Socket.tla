---------------------------- MODULE W5500Socket ----------------------------
(***************************************************************************)
(* The TCP socket calls of src/Ethernet/socket.c that the MQTT client      *)
(* makes, one step per access to the registers of the W5500, interleaved   *)
(* with the chip's own TCP engine, the network and the peer.               *)
(*                                                                         *)
(* The calls are those of blocking mode.  A call runs while at # "ready";  *)
(* ret then holds what it returned.  What the peer sends is a stream of    *)
(* cells; a cell stands for the bytes the chip makes visible together.     *)
(***************************************************************************)
EXTENDS Integers, Sequences

CONSTANTS
  Packets,   \* what the caller sends
  Cells,     \* what the peer sends
  RecvMax,   \* cells that fit into one receive buffer (kRecvBufferSize)
  MaxStream  \* bound: cells the peer sends on one connection

ASSUME SizeAssumption == RecvMax \in Nat \ {0} /\ MaxStream \in Nat

VARIABLES
  sr,          \* Sn_SR, the chip's connection state
  ir,          \* Sn_IR: SENDOK and TIMEOUT
  tx,          \* packets handed to the chip and not yet acknowledged
  arrived,     \* how many of them have reached the peer
  rx,          \* cells in the receive buffer (Sn_RX_RSR is its length)
  net,         \* cells on their way to the chip
  peer,        \* the peer's end: "absent", "open", "closed", "lost"
  is_sending,  \* the socket's bit of sock_is_sending
  at,          \* register access the running call is about to make
  arg,         \* the packet send() was given
  want,        \* the cells recv() was asked for
  ret,         \* result of the last call
  \* History.
  stream,      \* cells the peer has sent on this connection
  taken        \* how many of them recv() has returned

chip == <<sr, ir, tx, arrived, rx, net, peer>>
args == <<arg, want>>
driver == <<is_sending, at, args, ret>>
vars == <<chip, driver, stream, taken>>

\* The states of Sn_SR.
Live == {"ESTABLISHED", "CLOSE_WAIT"}
Leaving == {"FIN_WAIT", "LAST_ACK"}
Status == {"CLOSED", "SYNSENT"} \cup Live \cup Leaving

Places == {"ready", "con_sr", "con_ir", "con_closed", "snd_sr", "snd_ir",
           "snd_free", "snd_go", "rcv_sr", "rcv_go", "dis_sr", "dis_ir"}
Results == {"OK", "BUSY", "TIMEOUT", "CLOSED", "STATUS"}

-----------------------------------------------------------------------------
(* Ends of calls. *)

Return(r) == at' = "ready" /\ ret' = r

\* close(): the CLOSE command, IR and the driver's flags; the buffers go
\* with the connection.
CloseSocket ==
  /\ sr' = "CLOSED" /\ ir' = {} /\ is_sending' = FALSE
  /\ tx' = <<>> /\ arrived' = 0 /\ rx' = <<>> /\ net' = <<>>
  /\ stream' = <<>> /\ taken' = 0
  /\ peer' = "absent"

\* close() and return.
Abandon(r) == CloseSocket /\ Return(r) /\ UNCHANGED args

-----------------------------------------------------------------------------
(* connect() on a socket that socket() has just opened.  The two, and the  *)
(* close() inside socket(), are one step up to the CONNECT command: the    *)
(* network cannot reach a socket that is closed.                           *)

Dial ==
  /\ at = "ready"
  /\ sr' = "SYNSENT" /\ ir' = {} /\ is_sending' = FALSE
  /\ tx' = <<>> /\ arrived' = 0 /\ rx' = <<>> /\ net' = <<>>
  /\ stream' = <<>> /\ taken' = 0
  /\ peer' = "absent"
  /\ at' = "con_sr"
  /\ UNCHANGED <<args, ret>>

\* while (getSn_SR(sn) != SOCK_ESTABLISHED)
ConnectTestSr ==
  /\ at = "con_sr"
  /\ \/ sr = "ESTABLISHED" /\ Return("OK")
     \/ sr # "ESTABLISHED" /\ at' = "con_ir" /\ UNCHANGED ret
  /\ UNCHANGED <<chip, is_sending, args, stream, taken>>

ConnectTestIr ==
  /\ at = "con_ir"
  /\ \/ "TIMEOUT" \in ir /\ ir' = ir \ {"TIMEOUT"} /\ Return("TIMEOUT")
     \/ "TIMEOUT" \notin ir /\ at' = "con_closed" /\ UNCHANGED <<ir, ret>>
  /\ UNCHANGED <<sr, tx, arrived, rx, net, peer, is_sending, args, stream, taken>>

ConnectTestClosed ==
  /\ at = "con_closed"
  /\ \/ sr = "CLOSED" /\ Return("CLOSED")
     \/ sr # "CLOSED" /\ at' = "con_sr" /\ UNCHANGED ret
  /\ UNCHANGED <<chip, is_sending, args, stream, taken>>

-----------------------------------------------------------------------------
(* send() *)

CallSend(p) ==
  /\ at = "ready"
  /\ at' = "snd_sr" /\ arg' = p
  /\ UNCHANGED <<chip, is_sending, want, ret, stream, taken>>

SendTestSr ==
  /\ at = "snd_sr"
  /\ \/ sr \notin Live /\ Return("STATUS")
     \/ sr \in Live /\ is_sending /\ at' = "snd_ir" /\ UNCHANGED ret
     \/ sr \in Live /\ ~is_sending /\ at' = "snd_free" /\ UNCHANGED ret
  /\ UNCHANGED <<chip, is_sending, args, stream, taken>>

\* Faulty variant: a send is taken to be over without its SENDOK.
SendTestIr_AnyIr ==
  /\ at = "snd_ir"
  /\ is_sending' = FALSE /\ at' = "snd_free"
  /\ UNCHANGED <<chip, args, ret, stream, taken>>

\* The previous send has been acknowledged, has failed, or goes on.
SendTestIr ==
  /\ at = "snd_ir"
  /\ \/ /\ "SENDOK" \in ir
        /\ ir' = ir \ {"SENDOK"} /\ is_sending' = FALSE
        /\ at' = "snd_free"
        /\ UNCHANGED <<sr, tx, arrived, rx, net, peer, args, ret, stream, taken>>
     \/ "SENDOK" \notin ir /\ "TIMEOUT" \in ir /\ Abandon("TIMEOUT")
     \/ ir = {} /\ Return("BUSY")
        /\ UNCHANGED <<chip, is_sending, args, stream, taken>>

\* The status is read again while waiting for room.  There is always room:
\* the buffer takes the one packet the driver lets in.
SendTestFree ==
  /\ at = "snd_free"
  /\ \/ sr \notin Live /\ Abandon("STATUS")
     \/ /\ sr \in Live /\ at' = "snd_go"
        /\ UNCHANGED <<chip, is_sending, args, ret, stream, taken>>

\* Write the data and issue SEND.  A socket that has been closed since the
\* last look ignores the command, which send() does not notice.
SendGo ==
  /\ at = "snd_go"
  /\ tx' = IF sr \in Live THEN Append(tx, arg) ELSE tx
  /\ is_sending' = TRUE
  /\ Return("OK")
  /\ UNCHANGED <<sr, ir, arrived, rx, net, peer, args, stream, taken>>

-----------------------------------------------------------------------------
(* recv(), called by socket_recv() *)

\* Faulty variant: recv() is called without asking how much there is.
CallRecv_Blind ==
  /\ at = "ready" /\ at' = "rcv_sr"
  /\ want' = RecvMax
  /\ UNCHANGED <<chip, is_sending, arg, ret, stream, taken>>

\* socket_recv() calls recv() only when the receive buffer is not empty, and
\* for what it then saw in it, up to the size of the caller's buffer.
CallRecv ==
  /\ at = "ready"
  /\ rx # <<>>
  /\ at' = "rcv_sr"
  /\ want' = IF Len(rx) < RecvMax THEN Len(rx) ELSE RecvMax
  /\ UNCHANGED <<chip, is_sending, arg, ret, stream, taken>>

\* Wait for data or the end of the connection.
RecvTestSr ==
  /\ at = "rcv_sr"
  /\ \/ /\ \/ sr \notin Live
           \/ sr = "CLOSE_WAIT" /\ rx = <<>> /\ tx = <<>>
        /\ Abandon("STATUS")
     \/ /\ sr \in Live /\ rx # <<>>
        /\ at' = "rcv_go"
        /\ UNCHANGED <<chip, is_sending, args, ret, stream, taken>>

\* Faulty variant: the RECV command is not issued, the data stay.
RecvGo_Unconfirmed ==
  /\ at = "rcv_go"
  /\ taken' = taken + want
  /\ Return("OK")
  /\ UNCHANGED <<chip, is_sending, args, stream>>

\* Read and release what was asked for; more may have arrived since.
RecvGo ==
  /\ at = "rcv_go"
  /\ rx' = SubSeq(rx, want + 1, Len(rx))
  /\ taken' = taken + want
  /\ Return("OK")
  /\ UNCHANGED <<sr, ir, tx, arrived, net, peer, is_sending, args, stream>>

-----------------------------------------------------------------------------
(* disconnect() *)

\* The DISCON command: a FIN is sent if there is a connection.
CallDisconnect ==
  /\ at = "ready"
  /\ sr' = CASE sr = "ESTABLISHED" -> "FIN_WAIT"
             [] sr = "CLOSE_WAIT"  -> "LAST_ACK"
             [] OTHER              -> sr
  /\ is_sending' = FALSE
  /\ at' = "dis_sr"
  /\ UNCHANGED <<ir, tx, arrived, rx, net, peer, args, ret, stream, taken>>

DisconnectTestSr ==
  /\ at = "dis_sr"
  /\ \/ sr = "CLOSED" /\ Return("OK")
     \/ sr # "CLOSED" /\ at' = "dis_ir" /\ UNCHANGED ret
  /\ UNCHANGED <<chip, is_sending, args, stream, taken>>

DisconnectTestIr ==
  /\ at = "dis_ir"
  /\ \/ "TIMEOUT" \in ir /\ Abandon("TIMEOUT")
     \/ /\ "TIMEOUT" \notin ir /\ at' = "dis_sr"
        /\ UNCHANGED <<chip, is_sending, args, ret, stream, taken>>

\* The step of the running call.
Step == \/ ConnectTestSr \/ ConnectTestIr \/ ConnectTestClosed
        \/ SendTestSr \/ SendTestIr \/ SendTestFree \/ SendGo
        \/ RecvTestSr \/ RecvGo
        \/ DisconnectTestSr \/ DisconnectTestIr

-----------------------------------------------------------------------------
(* The chip, the network and the peer. *)

\* The connection is gone; what has been received can still be read.
Drop(flags) ==
  /\ sr' = "CLOSED" /\ ir' = ir \cup flags
  /\ tx' = <<>> /\ arrived' = 0 /\ net' = <<>> /\ peer' = "absent"
  /\ UNCHANGED <<rx, driver, stream, taken>>

\* The handshake succeeds, is not answered, or is refused.
SynAck ==
  /\ sr = "SYNSENT"
  /\ sr' = "ESTABLISHED" /\ peer' = "open"
  /\ UNCHANGED <<ir, tx, arrived, rx, net, driver, stream, taken>>

SynTimeout == sr = "SYNSENT" /\ Drop({"TIMEOUT"})

SynRefused == sr = "SYNSENT" /\ Drop({})

Handshake == SynAck \/ SynTimeout \/ SynRefused

\* The peer sends a cell.
PeerSend(c) ==
  /\ peer = "open" /\ Len(stream) < MaxStream
  /\ stream' = Append(stream, c) /\ net' = Append(net, c)
  /\ UNCHANGED <<sr, ir, tx, arrived, rx, peer, driver, taken>>

Deliver ==
  /\ net # <<>> /\ sr = "ESTABLISHED" /\ peer = "open"
  /\ rx' = Append(rx, Head(net)) /\ net' = Tail(net)
  /\ UNCHANGED <<sr, ir, tx, arrived, peer, driver, stream, taken>>

\* A packet reaches the peer; everything sent is acknowledged.
Arrive ==
  /\ arrived < Len(tx) /\ peer = "open"
  /\ arrived' = arrived + 1
  /\ UNCHANGED <<sr, ir, tx, rx, net, peer, driver, stream, taken>>

Ack ==
  /\ tx # <<>> /\ arrived = Len(tx) /\ peer \in {"open", "closed"}
  /\ tx' = <<>> /\ arrived' = 0 /\ ir' = ir \cup {"SENDOK"}
  /\ UNCHANGED <<sr, rx, net, peer, driver, stream, taken>>

\* The peer closes its end, behind everything it has sent.
PeerFin ==
  /\ peer = "open" /\ sr = "ESTABLISHED" /\ net = <<>>
  /\ sr' = "CLOSE_WAIT" /\ peer' = "closed"
  /\ UNCHANGED <<ir, tx, arrived, rx, net, driver, stream, taken>>

PeerReset == sr \in Live \cup Leaving /\ Drop({})

\* The peer or the way to it is gone without a word.
Vanish ==
  /\ peer \in {"open", "closed"}
  /\ peer' = "lost"
  /\ UNCHANGED <<sr, ir, tx, arrived, rx, net, driver, stream, taken>>

\* The closing handshake ends.
Left == sr \in Leaving /\ peer # "lost" /\ Drop({})

\* Retransmissions of data or of a FIN are given up.
GiveUp ==
  /\ peer = "lost" /\ (tx # <<>> \/ sr \in Leaving)
  /\ sr \in Live \cup Leaving
  /\ Drop({"TIMEOUT"})

Chip == \/ Handshake \/ Deliver \/ Arrive \/ Ack \/ PeerFin \/ PeerReset
        \/ Vanish \/ Left \/ GiveUp

\* A handshake and the end of a connection are settled in the end.
ChipFairness == WF_vars(Handshake) /\ WF_vars(Left \/ GiveUp)

DriverFairness == WF_vars(Step)

-----------------------------------------------------------------------------
(* The driver on its own, under any caller that dials before it sends. *)

Init ==
  /\ sr = "CLOSED" /\ ir = {} /\ tx = <<>> /\ arrived = 0 /\ rx = <<>>
  /\ net = <<>> /\ peer = "absent"
  /\ is_sending = FALSE /\ at = "ready" /\ arg \in Packets /\ want = 0 /\ ret = "CLOSED"
  /\ stream = <<>> /\ taken = 0

Hangup == at = "ready" /\ Abandon("OK")

Next == \/ Dial \/ Hangup \/ CallRecv \/ CallDisconnect
        \/ \E p \in Packets : CallSend(p)
        \/ \E c \in Cells : PeerSend(c)
        \/ Step
        \/ Chip

Spec == Init /\ [][Next]_vars /\ DriverFairness /\ ChipFairness

-----------------------------------------------------------------------------
(* Properties. *)

\* Type invariant.
TypeOK ==
  /\ sr \in Status /\ ir \subseteq {"SENDOK", "TIMEOUT"}
  /\ tx \in Seq(Packets) /\ arrived \in Nat
  /\ rx \in Seq(Cells) /\ net \in Seq(Cells)
  /\ peer \in {"absent", "open", "closed", "lost"}
  /\ is_sending \in BOOLEAN /\ at \in Places /\ arg \in Packets
  /\ want \in 0..RecvMax /\ ret \in Results
  /\ stream \in Seq(Cells) /\ taken \in Nat

\* The driver never hands the chip a packet while an earlier one is still
\* unacknowledged, although nothing but sock_is_sending and SENDOK tells it.
OneUnacknowledged == Len(tx) <= 1

\* recv() returns every cell of the connection once and in order: what it
\* has returned, the buffer and the network together are the peer's stream.
StreamIntact ==
  sr \in Live \cup Leaving =>
    SubSeq(stream, 1, taken) \o rx \o net = stream

\* recv() never waits for data, since the caller has looked before,
\* disconnect() returns also when the peer no longer answers, and connect()
\* does unless the connection was opened and closed between two of its looks.
CallsReturn ==
  /\ at \in {"rcv_sr", "rcv_go", "dis_sr", "dis_ir"} ~> at = "ready"
  /\ at \in {"con_sr", "con_ir", "con_closed"} ~> (at = "ready" \/ sr = "CLOSE_WAIT")
=============================================================================
