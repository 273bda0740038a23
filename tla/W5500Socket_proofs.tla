------------------------- MODULE W5500Socket_proofs -------------------------
(***************************************************************************)
(* sock_is_sending and the SENDOK flag together keep the driver from       *)
(* having two packets unacknowledged, whatever the chip and the peer do    *)
(* between its register accesses.  recv() loses and repeats no cell of the *)
(* peer's stream, although data arrive between its look and its reading.   *)
(***************************************************************************)
EXTENDS W5500Socket, SequenceTheorems, TLAPS

-----------------------------------------------------------------------------
(* Type correctness: the flags and the program counter, then the data. *)

FlagsOK ==
  /\ sr \in Status /\ ir \subseteq {"SENDOK", "TIMEOUT"}
  /\ peer \in {"absent", "open", "closed", "lost"}
  /\ is_sending \in BOOLEAN /\ at \in Places /\ ret \in Results

DataOK ==
  /\ tx \in Seq(Packets) /\ arrived \in Nat /\ arg \in Packets
  /\ want \in 0..RecvMax
  /\ rx \in Seq(Cells) /\ net \in Seq(Cells)
  /\ stream \in Seq(Cells) /\ taken \in Nat

LEMMA FlagsInit == Init => FlagsOK
  BY DEF Init, FlagsOK, Status, Places, Results, Live, Leaving

LEMMA FlagsNext == FlagsOK /\ [Next]_vars => FlagsOK'
<1> SUFFICES ASSUME FlagsOK, [Next]_vars PROVE FlagsOK'
  OBVIOUS
<1> USE DEF args, FlagsOK, Status, Places, Results, Live, Leaving, Return
<1>1. CASE Dial
  BY <1>1 DEF Dial
<1>2. CASE Hangup
  BY <1>2 DEF Hangup, Abandon, CloseSocket
<1>3. CASE CallRecv
  BY <1>3, SizeAssumption DEF CallRecv, chip
<1>4. CASE CallDisconnect
  BY <1>4 DEF CallDisconnect
<1>5. CASE \E p \in Packets : CallSend(p)
  BY <1>5 DEF CallSend, chip
<1>6. CASE \E c \in Cells : PeerSend(c)
  BY <1>6 DEF PeerSend, driver
<1>7. CASE ConnectTestSr
  BY <1>7 DEF ConnectTestSr, chip
<1>8. CASE ConnectTestIr
  BY <1>8 DEF ConnectTestIr
<1>9. CASE ConnectTestClosed
  BY <1>9 DEF ConnectTestClosed, chip
<1>10. CASE SendTestSr
  BY <1>10 DEF SendTestSr, chip
<1>11. CASE SendTestIr
  BY <1>11 DEF SendTestIr, Abandon, CloseSocket, chip
<1>12. CASE SendTestFree
  BY <1>12 DEF SendTestFree, Abandon, CloseSocket, chip
<1>13. CASE SendGo
  BY <1>13 DEF SendGo
<1>14. CASE RecvTestSr
  BY <1>14 DEF RecvTestSr, Abandon, CloseSocket, chip
<1>15. CASE RecvGo
  BY <1>15 DEF RecvGo
<1>16. CASE DisconnectTestSr
  BY <1>16 DEF DisconnectTestSr, chip
<1>17. CASE DisconnectTestIr
  BY <1>17 DEF DisconnectTestIr, Abandon, CloseSocket, chip
<1>18. CASE SynAck
  BY <1>18 DEF SynAck, driver
<1>19. ASSUME NEW flags \in SUBSET {"SENDOK", "TIMEOUT"}, Drop(flags)
       PROVE  FlagsOK'
  BY <1>19 DEF Drop, driver
<1>20. CASE SynTimeout \/ SynRefused \/ PeerReset \/ Left \/ GiveUp
  BY <1>19, <1>20 DEF SynTimeout, SynRefused, PeerReset, Left, GiveUp
<1>21. CASE Deliver
  BY <1>21 DEF Deliver, driver
<1>22. CASE Arrive
  BY <1>22 DEF Arrive, driver
<1>23. CASE Ack
  BY <1>23 DEF Ack, driver
<1>24. CASE PeerFin
  BY <1>24 DEF PeerFin, driver
<1>25. CASE Vanish
  BY <1>25 DEF Vanish, driver
<1>26. CASE UNCHANGED vars
  BY <1>26 DEF vars, chip, driver
<1> QED  BY <1>1, <1>2, <1>3, <1>4, <1>5, <1>6, <1>7, <1>8, <1>9, <1>10, <1>11,
            <1>12, <1>13, <1>14, <1>15, <1>16, <1>17, <1>18, <1>20, <1>21,
            <1>22, <1>23, <1>24, <1>25, <1>26 DEF Next, Step, Chip, Handshake

LEMMA DataInit == Init => DataOK
<1>1. \A S : <<>> \in Seq(S)
  OBVIOUS
<1> QED  BY <1>1, SizeAssumption DEF Init, DataOK

LEMMA DataNext == DataOK /\ [Next]_vars => DataOK'
<1> SUFFICES ASSUME DataOK, [Next]_vars PROVE DataOK'
  OBVIOUS
<1> USE DEF args, DataOK
<1>e. \A S : <<>> \in Seq(S)
  OBVIOUS
<1>a. ASSUME CloseSocket, UNCHANGED args PROVE DataOK'
  BY <1>e, <1>a DEF CloseSocket
<1>u. ASSUME UNCHANGED <<tx, arrived, args, rx, net, stream, taken>>
      PROVE  DataOK'
  BY <1>u
<1>1. CASE Dial
  BY <1>e, <1>1 DEF Dial
<1>2. CASE Hangup
  BY <1>2, <1>a DEF Hangup, Abandon
<1>3. CASE CallRecv
  BY <1>3, SizeAssumption DEF CallRecv, chip
<1>4. CASE CallDisconnect
  BY <1>4 DEF CallDisconnect
<1>5. CASE \E p \in Packets : CallSend(p)
  BY <1>5 DEF CallSend, chip
<1>6. CASE \E c \in Cells : PeerSend(c)
  BY <1>6 DEF PeerSend, driver
<1>7. CASE ConnectTestSr
  BY <1>7 DEF ConnectTestSr, chip
<1>8. CASE ConnectTestIr
  BY <1>8 DEF ConnectTestIr
<1>9. CASE ConnectTestClosed
  BY <1>9 DEF ConnectTestClosed, chip
<1>10. CASE SendTestSr
  BY <1>10 DEF SendTestSr, chip
<1>11. CASE SendTestIr
  BY <1>11, <1>a, <1>u DEF SendTestIr, Abandon, chip
<1>12. CASE SendTestFree
  BY <1>12, <1>a, <1>u DEF SendTestFree, Abandon, chip
<1>13. CASE SendGo
  <2>1. Append(tx, arg) \in Seq(Packets)
    OBVIOUS
  <2> QED  BY <1>13, <2>1 DEF SendGo
<1>14. CASE RecvTestSr
  BY <1>14, <1>a, <1>u DEF RecvTestSr, Abandon, chip
<1>15. CASE RecvGo
  <2>1. want \in Nat
    BY SizeAssumption
  <2>2. rx' \in Seq(Cells)
    BY <1>15, <2>1 DEF RecvGo
  <2> QED  BY <1>15, <2>1, <2>2 DEF RecvGo
<1>16. CASE DisconnectTestSr
  BY <1>16 DEF DisconnectTestSr, chip
<1>17. CASE DisconnectTestIr
  BY <1>17, <1>a, <1>u DEF DisconnectTestIr, Abandon, chip
<1>18. CASE SynAck
  BY <1>18 DEF SynAck, driver
<1>19. ASSUME NEW flags \in SUBSET {"SENDOK", "TIMEOUT"}, Drop(flags)
       PROVE  DataOK'
  BY <1>e, <1>19 DEF Drop, driver
<1>20. CASE SynTimeout \/ SynRefused \/ PeerReset \/ Left \/ GiveUp
  BY <1>19, <1>20 DEF SynTimeout, SynRefused, PeerReset, Left, GiveUp
<1>21. CASE Deliver
  BY <1>21 DEF Deliver, driver
<1>22. CASE Arrive
  BY <1>22 DEF Arrive, driver
<1>23. CASE Ack
  BY <1>e, <1>23 DEF Ack, driver
<1>24. CASE PeerFin
  BY <1>24 DEF PeerFin, driver
<1>25. CASE Vanish
  BY <1>25 DEF Vanish, driver
<1>26. CASE UNCHANGED vars
  BY <1>26 DEF vars, chip, driver
<1> QED  BY <1>1, <1>2, <1>3, <1>4, <1>5, <1>6, <1>7, <1>8, <1>9, <1>10, <1>11,
            <1>12, <1>13, <1>14, <1>15, <1>16, <1>17, <1>18, <1>20, <1>21,
            <1>22, <1>23, <1>24, <1>25, <1>26 DEF Next, Step, Chip, Handshake

\* Every value stays in its set, for all packets, cells and sizes.
THEOREM TypeCorrect == Spec => []TypeOK
<1>1. FlagsOK /\ DataOK => TypeOK
  BY DEF FlagsOK, DataOK, TypeOK
<1> QED  BY <1>1, FlagsInit, FlagsNext, DataInit, DataNext, PTL DEF Spec

-----------------------------------------------------------------------------
(* The inductive invariant: a packet that is not acknowledged, or whose    *)
(* acknowledgement has not been looked at, is known to the driver, and a   *)
(* send() past its test has found that there is none.                      *)

SendTracked ==
  /\ Len(tx) <= 1
  /\ sr = "SYNSENT" => tx = <<>> /\ "SENDOK" \notin ir
  /\ sr \in Live => /\ tx # <<>> => is_sending /\ "SENDOK" \notin ir
                    /\ "SENDOK" \in ir => is_sending
  /\ at \in {"snd_free", "snd_go"} => ~is_sending

LEMMA TrackedInit == Init => SendTracked
  BY DEF Init, SendTracked, Live

LEMMA TrackedNext == FlagsOK /\ DataOK /\ SendTracked /\ [Next]_vars => SendTracked'
<1> SUFFICES ASSUME FlagsOK, DataOK, SendTracked, [Next]_vars PROVE SendTracked'
  OBVIOUS
<1> USE DEF args, FlagsOK, DataOK, SendTracked, Status, Places, Live, Leaving, Return
<1>1. CASE Dial
  BY <1>1 DEF Dial
<1>2. CASE Hangup
  BY <1>2 DEF Hangup, Abandon, CloseSocket
<1>3. CASE CallRecv \/ CallDisconnect \/ \E p \in Packets : CallSend(p)
  BY <1>3 DEF CallRecv, CallDisconnect, CallSend, chip
<1>4. CASE \E c \in Cells : PeerSend(c)
  BY <1>4 DEF PeerSend, driver
<1>5. CASE ConnectTestSr \/ ConnectTestIr \/ ConnectTestClosed
  BY <1>5 DEF ConnectTestSr, ConnectTestIr, ConnectTestClosed, chip
<1>6. CASE SendTestSr
  BY <1>6 DEF SendTestSr, chip
<1>7. CASE SendTestIr
  BY <1>7 DEF SendTestIr, Abandon, CloseSocket, chip
<1>8. CASE SendTestFree
  BY <1>8 DEF SendTestFree, Abandon, CloseSocket, chip
<1>9. CASE SendGo
  <2>1. ~is_sending
    BY <1>9 DEF SendGo
  <2>2. CASE sr \in Live
    <3>1. tx = <<>> /\ "SENDOK" \notin ir
      BY <2>1, <2>2
    <3>2. Len(tx') = 1 /\ tx' # <<>>
      BY <1>9, <2>2, <3>1 DEF SendGo
    <3> QED  BY <1>9, <2>2, <3>1, <3>2 DEF SendGo
  <2>3. CASE sr \notin Live
    BY <1>9, <2>3 DEF SendGo
  <2> QED  BY <2>2, <2>3
<1>10. CASE RecvTestSr \/ RecvGo
  BY <1>10 DEF RecvTestSr, RecvGo, Abandon, CloseSocket, chip
<1>11. CASE DisconnectTestSr \/ DisconnectTestIr
  BY <1>11 DEF DisconnectTestSr, DisconnectTestIr, Abandon, CloseSocket, chip
<1>12. CASE Handshake \/ Deliver \/ Arrive
  BY <1>12 DEF Handshake, SynAck, SynTimeout, SynRefused, Deliver, Arrive, Drop,
     driver
<1>13. CASE Ack
  BY <1>13 DEF Ack, driver
<1>14. CASE PeerFin \/ PeerReset \/ Vanish \/ Left \/ GiveUp
  BY <1>14 DEF PeerFin, PeerReset, Vanish, Left, GiveUp, Drop, driver
<1>15. CASE UNCHANGED vars
  BY <1>15 DEF vars, chip, driver
<1> QED  BY <1>1, <1>2, <1>3, <1>4, <1>5, <1>6, <1>7, <1>8, <1>9, <1>10, <1>11,
            <1>12, <1>13, <1>14, <1>15 DEF Next, Step, Chip

\* At most one packet is unacknowledged at any time.
THEOREM SendsAreSequential == Spec => []OneUnacknowledged
<1>1. FlagsOK /\ SendTracked => OneUnacknowledged
  BY DEF SendTracked, OneUnacknowledged
<1> QED  BY <1>1, FlagsInit, FlagsNext, DataInit, DataNext, TrackedInit,
            TrackedNext, PTL DEF Spec

-----------------------------------------------------------------------------
(* The stream.  Cell by cell, the receive buffer continues what recv() has *)
(* returned and the network continues the buffer; a recv() that is past    *)
(* its look asks for no more than the buffer holds, which nothing but      *)
(* recv() takes from.                                                      *)

Continues(s, from) == \A i \in 1 .. Len(s) : s[i] = stream[from + i]

StreamSplit ==
  /\ taken + Len(rx) + Len(net) <= Len(stream)
  /\ sr \in Live \cup Leaving => taken + Len(rx) + Len(net) = Len(stream)
  /\ Continues(rx, taken) /\ Continues(net, taken + Len(rx))
  /\ sr = "SYNSENT" => taken = 0 /\ Len(rx) = 0 /\ Len(net) = 0 /\ Len(stream) = 0
  /\ sr \in {"CLOSED", "SYNSENT"} => peer = "absent"
  /\ at \in {"rcv_sr", "rcv_go"} => want <= Len(rx)

LEMMA SplitInit == Init => StreamSplit
  BY DEF Init, StreamSplit, Continues, Live, Leaving

\* A step that leaves the stream where it is keeps the split.
LEMMA SplitKept ==
  ASSUME StreamSplit, UNCHANGED <<taken, rx, net, stream>>,
         sr' \in Live \cup Leaving => sr \in Live \cup Leaving \cup {"SYNSENT"},
         sr' = "SYNSENT" => sr = "SYNSENT",
         sr' \in {"CLOSED", "SYNSENT"} => peer' = "absent",
         at' \in {"rcv_sr", "rcv_go"} => want' <= Len(rx)
  PROVE  StreamSplit'
<1>1. Continues(rx, taken)' /\ Continues(net, taken + Len(rx))'
  BY DEF StreamSplit, Continues
<1> QED  BY <1>1 DEF StreamSplit

\* The chip that gives a connection up forgets what was under way.
LEMMA SplitDrop ==
  ASSUME FlagsOK, DataOK, StreamSplit, NEW flags, Drop(flags)
  PROVE  StreamSplit'
<1>1. /\ sr' = "CLOSED" /\ peer' = "absent" /\ net' = <<>>
      /\ UNCHANGED <<rx, stream, taken, at, want>>
  BY DEF Drop, driver, args
<1>2. Len(rx) \in Nat /\ Len(net) \in Nat /\ Len(stream) \in Nat /\ taken \in Nat
  BY DEF DataOK
<1>3. Continues(rx, taken)' /\ Continues(net, taken + Len(rx))'
  BY <1>1 DEF StreamSplit, Continues
<1> QED  BY <1>1, <1>2, <1>3 DEF StreamSplit, Live, Leaving

\* A socket that is opened or closed starts a new stream.
LEMMA SplitAnew ==
  ASSUME rx' = <<>>, net' = <<>>, stream' = <<>>, taken' = 0, peer' = "absent",
         at' \notin {"rcv_sr", "rcv_go"}
  PROVE  StreamSplit'
  BY DEF StreamSplit, Continues

LEMMA SplitNext ==
  FlagsOK /\ DataOK /\ StreamSplit /\ [Next]_vars => StreamSplit'
<1> SUFFICES ASSUME FlagsOK, DataOK, StreamSplit, [Next]_vars PROVE StreamSplit'
  OBVIOUS
<1>len. /\ Len(rx) \in Nat /\ Len(net) \in Nat /\ Len(stream) \in Nat
        /\ taken \in Nat /\ want \in Nat
  BY SizeAssumption DEF DataOK
<1>at. at \in {"rcv_sr", "rcv_go"} => want <= Len(rx)
  BY DEF StreamSplit
<1>idle. sr \in {"CLOSED", "SYNSENT"} => peer = "absent"
  BY DEF StreamSplit
<1> USE DEF FlagsOK, Status, Live, Leaving, Return
<1>a. ASSUME NEW r, Abandon(r) PROVE StreamSplit'
  BY <1>a, SplitAnew DEF Abandon, CloseSocket
<1>1. CASE Dial
  BY <1>1, SplitAnew DEF Dial
<1>2. CASE Hangup
  BY <1>2, <1>a DEF Hangup
<1>3. CASE CallRecv
  <2>1. want' <= Len(rx)
    BY <1>3, <1>len, SizeAssumption DEF CallRecv
  <2> QED  BY <1>3, <1>idle, <2>1, SplitKept DEF CallRecv, chip
<1>4. CASE CallDisconnect \/ \E p \in Packets : CallSend(p)
  BY <1>4, <1>idle, SplitKept DEF CallDisconnect, CallSend, chip, args
<1>5. CASE ConnectTestSr \/ ConnectTestIr \/ ConnectTestClosed
  BY <1>5, <1>idle, SplitKept DEF ConnectTestSr, ConnectTestIr, ConnectTestClosed, chip, args
<1>6. CASE SendTestSr
  BY <1>6, <1>idle, SplitKept DEF SendTestSr, chip, args
<1>7. CASE SendTestIr
  <2>1. CASE \E r \in Results : Abandon(r)
    BY <2>1, <1>a
  <2>2. CASE ~\E r \in Results : Abandon(r)
    <3>1. UNCHANGED <<sr, peer, taken, rx, net, stream>> /\ at' \in {"snd_free", "ready"}
      BY <1>7, <2>2 DEF SendTestIr, chip, Results
    <3> QED  BY <3>1, <1>idle, SplitKept
  <2> QED  BY <2>1, <2>2
<1>8. CASE SendTestFree
  <2>1. CASE Abandon("STATUS")
    BY <2>1, <1>a
  <2>2. CASE ~Abandon("STATUS")
    BY <1>8, <2>2, <1>idle, SplitKept DEF SendTestFree, chip
  <2> QED  BY <2>1, <2>2
<1>9. CASE SendGo
  BY <1>9, <1>idle, SplitKept DEF SendGo, args
<1>10. CASE RecvTestSr
  <2>1. CASE Abandon("STATUS")
    BY <2>1, <1>a
  <2>2. CASE ~Abandon("STATUS")
    BY <1>10, <2>2, <1>at, <1>idle, SplitKept DEF RecvTestSr, chip, args
  <2> QED  BY <2>1, <2>2
<1>11. CASE RecvGo
  <2>1. want <= Len(rx) /\ rx' = SubSeq(rx, want + 1, Len(rx)) /\ taken' = taken + want
    BY <1>11, <1>at DEF RecvGo
  <2>2. \A i \in want + 1 .. Len(rx) : rx[i] \in Cells
    BY <1>len, ElementOfSeq DEF DataOK
  <2>3. /\ Len(rx') = Len(rx) - want
        /\ \A i \in 1 .. Len(rx) - want : rx'[i] = rx[want + i]
    BY <2>1, <2>2, <1>len, SubSeqProperties
  <2>4. UNCHANGED <<sr, peer, net, stream>> /\ at' = "ready"
    BY <1>11 DEF RecvGo
  <2>5. Continues(rx, taken)'
    <3>1. ASSUME NEW i \in 1 .. Len(rx) - want PROVE rx'[i] = stream[taken + want + i]
      <4>1. want + i \in 1 .. Len(rx) /\ taken + (want + i) = taken + want + i
        BY <2>1, <1>len
      <4>2. rx[want + i] = stream[taken + (want + i)]
        BY <4>1 DEF StreamSplit, Continues
      <4> QED  BY <4>1, <4>2, <2>3
    <3>2. taken' = taken + want /\ stream' = stream /\ Len(rx') = Len(rx) - want
      BY <2>1, <2>3, <2>4
    <3> QED  BY <3>1, <3>2 DEF Continues
  <2>6. taken' + Len(rx') = taken + Len(rx)
    <3>1. taken' = taken + want /\ Len(rx') = Len(rx) - want
      BY <2>1, <2>3
    <3> QED  BY <3>1, <1>len
  <2>7. Continues(net, taken + Len(rx))'
    BY <2>4, <2>6 DEF StreamSplit, Continues
  <2>8. sr = "SYNSENT" => want = 0
    BY <2>1, <1>len DEF StreamSplit
  <2>9. sr = "SYNSENT" => taken' = 0 /\ Len(rx') = 0
    <3>1. taken' = taken + want /\ Len(rx') = Len(rx) - want
      BY <2>1, <2>3
    <3> QED  BY <2>8, <3>1, <1>len DEF StreamSplit
  <2> QED  BY <2>4, <2>5, <2>6, <2>7, <2>9 DEF StreamSplit
<1>12. CASE DisconnectTestSr
  BY <1>12, <1>idle, SplitKept DEF DisconnectTestSr, chip, args
<1>13. CASE DisconnectTestIr
  <2>1. CASE Abandon("TIMEOUT")
    BY <2>1, <1>a
  <2>2. CASE ~Abandon("TIMEOUT")
    BY <1>13, <2>2, <1>idle, SplitKept DEF DisconnectTestIr, chip
  <2> QED  BY <2>1, <2>2
<1>14. ASSUME NEW c \in Cells, PeerSend(c) PROVE StreamSplit'
  <2>1. /\ stream' = Append(stream, c) /\ net' = Append(net, c)
        /\ UNCHANGED <<sr, peer, rx, taken, at, want>> /\ peer = "open"
    BY <1>14 DEF PeerSend, driver, args
  <2>2. /\ Len(stream') = Len(stream) + 1 /\ stream'[Len(stream) + 1] = c
        /\ \A i \in 1 .. Len(stream) : stream'[i] = stream[i]
    BY <2>1, AppendProperties DEF DataOK
  <2>3. /\ Len(net') = Len(net) + 1 /\ net'[Len(net) + 1] = c
        /\ \A i \in 1 .. Len(net) : net'[i] = net[i]
    BY <2>1, AppendProperties DEF DataOK
  <2>4. sr \in Live \cup Leaving
    BY <2>1, <1>idle
  <2>5. taken + Len(rx) + Len(net) = Len(stream)
    BY <2>4 DEF StreamSplit
  <2>6. Continues(rx, taken)'
    BY <2>1, <2>2, <2>5, <1>len DEF StreamSplit, Continues
  <2>7. ASSUME NEW i \in 1 .. Len(net') PROVE net'[i] = stream'[taken + Len(rx) + i]
    <3>1. CASE i \in 1 .. Len(net)
      <4>1. taken + Len(rx) + i \in 1 .. Len(stream)
        BY <3>1, <2>5, <1>len
      <4> QED  BY <3>1, <4>1, <2>2, <2>3 DEF StreamSplit, Continues
    <3>2. CASE i = Len(net) + 1
      <4>1. taken + Len(rx) + i = Len(stream) + 1
        BY <3>2, <2>5, <1>len
      <4> QED  BY <3>2, <4>1, <2>2, <2>3
    <3> QED  BY <3>1, <3>2, <2>3, <1>len
  <2>8. Continues(net, taken + Len(rx))'
    BY <2>1, <2>7 DEF Continues
  <2> QED  BY <2>1, <2>2, <2>3, <2>4, <2>5, <2>6, <2>8, <1>len DEF StreamSplit
<1>15. CASE Handshake
  BY <1>15, <1>at, SplitKept, SplitDrop DEF Handshake, SynAck, SynTimeout, SynRefused, driver, args
<1>16. CASE Deliver
  <2>1. /\ rx' = Append(rx, Head(net)) /\ net' = Tail(net) /\ net # <<>>
        /\ UNCHANGED <<sr, peer, stream, taken, at, want>> /\ sr = "ESTABLISHED"
    BY <1>16 DEF Deliver, driver, args
  <2>2. /\ Head(net) \in Cells /\ Head(net) = net[1] /\ Len(net) >= 1
        /\ Len(net') = Len(net) - 1
        /\ \A i \in 1 .. Len(net) - 1 : net'[i] = net[i + 1]
    BY <2>1, HeadTailProperties DEF DataOK
  <2>3. /\ Len(rx') = Len(rx) + 1 /\ rx'[Len(rx) + 1] = Head(net)
        /\ \A i \in 1 .. Len(rx) : rx'[i] = rx[i]
    BY <2>1, <2>2, AppendProperties DEF DataOK
  <2>4. net[1] = stream[taken + Len(rx) + 1]
    BY <2>2, <1>len DEF StreamSplit, Continues
  <2>5. ASSUME NEW i \in 1 .. Len(rx') PROVE rx'[i] = stream[taken + i]
    <3>1. CASE i \in 1 .. Len(rx)
      BY <3>1, <2>3 DEF StreamSplit, Continues
    <3>2. CASE i = Len(rx) + 1
      <4>1. taken + i = taken + Len(rx) + 1
        BY <3>2, <1>len
      <4> QED  BY <3>2, <4>1, <2>2, <2>3, <2>4
    <3> QED  BY <3>1, <3>2, <2>3, <1>len
  <2>6. ASSUME NEW i \in 1 .. Len(net') PROVE net'[i] = stream[taken + Len(rx') + i]
    <3>1. i + 1 \in 1 .. Len(net) /\ i \in 1 .. Len(net) - 1
      BY <2>2, <1>len
    <3>2. net[i + 1] = stream[taken + Len(rx) + (i + 1)]
      BY <3>1 DEF StreamSplit, Continues
    <3>3. taken + Len(rx) + (i + 1) = taken + Len(rx') + i
      BY <2>3, <3>1, <1>len
    <3> QED  BY <3>1, <3>2, <3>3, <2>2
  <2>7. Continues(rx, taken)' /\ Continues(net, taken + Len(rx))'
    BY <2>1, <2>5, <2>6 DEF Continues
  <2> QED  BY <2>1, <2>2, <2>3, <2>7, <1>at, <1>len DEF StreamSplit
<1>17. CASE Arrive \/ Ack
  BY <1>17, <1>at, <1>idle, SplitKept DEF Arrive, Ack, driver, args
<1>18. CASE PeerFin \/ Vanish
  BY <1>18, <1>at, <1>idle, SplitKept DEF PeerFin, Vanish, driver, args
<1>19. CASE PeerReset \/ Left \/ GiveUp
  BY <1>19, SplitDrop DEF PeerReset, Left, GiveUp
<1>20. CASE UNCHANGED vars
  BY <1>20, <1>at, <1>idle, SplitKept DEF vars, chip, driver, args
<1> QED  BY <1>1, <1>2, <1>3, <1>4, <1>5, <1>6, <1>7, <1>8, <1>9, <1>10, <1>11,
            <1>12, <1>13, <1>14, <1>15, <1>16, <1>17, <1>18, <1>19, <1>20
            DEF Next, Step, Chip

\* Put together again, the parts are the stream.
LEMMA SplitIsStream == DataOK /\ StreamSplit => StreamIntact
<1> SUFFICES ASSUME DataOK, StreamSplit, sr \in Live \cup Leaving
             PROVE  SubSeq(stream, 1, taken) \o rx \o net = stream
  BY DEF StreamIntact
<1> DEFINE front == SubSeq(stream, 1, taken)
<1>1. /\ Len(rx) \in Nat /\ Len(net) \in Nat /\ Len(stream) \in Nat /\ taken \in Nat
      /\ taken + Len(rx) + Len(net) = Len(stream)
  BY DEF DataOK, StreamSplit
<1>2. \A i \in 1 .. taken : stream[i] \in Cells
  BY <1>1, ElementOfSeq DEF DataOK
<1>3. /\ front \in Seq(Cells) /\ Len(front) = taken
      /\ \A i \in 1 .. taken : front[i] = stream[i]
  BY <1>1, <1>2, SubSeqProperties
<1> HIDE DEF front
<1> DEFINE most == front \o rx
<1>4. /\ most \in Seq(Cells) /\ Len(most) = taken + Len(rx)
      /\ \A i \in 1 .. taken + Len(rx) :
           most[i] = IF i <= taken THEN front[i] ELSE rx[i - taken]
  BY <1>3, ConcatProperties DEF DataOK
<1> HIDE DEF most
<1>5. ASSUME NEW i \in 1 .. taken + Len(rx) PROVE most[i] = stream[i]
  <2>0. i \in Int
    OBVIOUS
  <2>1. CASE i <= taken
    <3>1. i \in 1 .. taken
      BY <2>0, <2>1, <1>1
    <3> QED  BY <2>1, <3>1, <1>3, <1>4
  <2>2. CASE ~(i <= taken)
    <3>1. i - taken \in 1 .. Len(rx) /\ taken + (i - taken) = i
      BY <2>0, <2>2, <1>1
    <3>2. rx[i - taken] = stream[taken + (i - taken)]
      BY <3>1 DEF StreamSplit, Continues
    <3> QED  BY <2>2, <3>1, <3>2, <1>4
  <2> QED  BY <2>1, <2>2
<1> DEFINE whole == most \o net
<1>7. /\ whole \in Seq(Cells) /\ Len(whole) = taken + Len(rx) + Len(net)
      /\ \A i \in 1 .. taken + Len(rx) + Len(net) :
           whole[i] = IF i <= taken + Len(rx) THEN most[i] ELSE net[i - (taken + Len(rx))]
  <2>1. net \in Seq(Cells)
    BY DEF DataOK
  <2>2. /\ whole \in Seq(Cells) /\ Len(whole) = Len(most) + Len(net)
        /\ \A i \in 1 .. Len(most) + Len(net) :
             whole[i] = IF i <= Len(most) THEN most[i] ELSE net[i - Len(most)]
    BY <1>4, <2>1, ConcatProperties, Zenon
  <2>3. Len(most) = taken + Len(rx)
    BY <1>4
  <2> QED  BY <2>2, <2>3, Zenon
<1> HIDE DEF whole
<1>8. ASSUME NEW i \in 1 .. Len(stream) PROVE whole[i] = stream[i]
  <2> DEFINE n == taken + Len(rx)
  <2>0. i \in Int /\ n \in Nat /\ i \in 1 .. n + Len(net)
    BY <1>1
  <2>7. whole[i] = IF i <= n THEN most[i] ELSE net[i - n]
    BY <2>0, <1>7
  <2>1. CASE i <= n
    <3>1. i \in 1 .. n
      BY <2>0, <2>1
    <3> QED  BY <2>1, <2>7, <3>1, <1>5
  <2>2. CASE ~(i <= n)
    <3>1. i - n \in 1 .. Len(net) /\ n + (i - n) = i
      BY <2>0, <2>2, <1>1
    <3>2. net[i - n] = stream[n + (i - n)]
      BY <3>1 DEF StreamSplit, Continues
    <3> QED  BY <2>2, <2>7, <3>1, <3>2
  <2> QED  BY <2>1, <2>2
<1>9. whole = stream
  BY <1>1, <1>7, <1>8, SeqEqual DEF DataOK
<1> QED  BY <1>9 DEF whole, most, front

\* recv() returns every cell of the connection once and in order.
THEOREM StreamNeverBroken == Spec => []StreamIntact
<1> QED  BY SplitIsStream, FlagsInit, FlagsNext, DataInit, DataNext, SplitInit,
            SplitNext, PTL DEF Spec
=============================================================================
