---------------------------- MODULE MqttSession ----------------------------
(***************************************************************************)
(* The MQTT client of src/MQTT/MinimalMQTT.cpp on top of the socket driver *)
(* of W5500Socket, with the main loop of app/smart_bell.cpp as its caller  *)
(* and a broker as the peer.                                               *)
(*                                                                         *)
(* mq is where the main program is in the client; a client step that calls *)
(* the driver is followed by the driver's own steps until at = "ready".    *)
(* When a timer fires is left open here (MqttKeepalive counts the time).   *)
(***************************************************************************)
EXTENDS Integers, Sequences, FiniteSets

CONSTANTS RecvMax,   \* cells that fit into recv_buffer_ (kRecvBufferSize)
          MaxStream  \* bound: cells the broker sends on one connection

ASSUME SessionAssumption == RecvMax \in Nat \ {0} /\ MaxStream \in Nat

\* The chimes have the topics <base>/1 and <base>/2.
Topics == {1, 2}

\* What the client sends.
Connect == <<"CONNECT">>
Subscribe(t) == <<"SUBSCRIBE", t>>
Pingreq == <<"PINGREQ">>
Publish == <<"PUBLISH">>
Packets == {Connect, Pingreq, Publish} \cup {Subscribe(t) : t \in Topics}

\* What the broker sends.  A PUBLISH is two cells, the header with the topic
\* and the payload: a buffer may end between them.
Connack(ok) == <<"CONNACK", ok>>
Suback == <<"SUBACK">>
Pingresp == <<"PINGRESP">>
Header(t) == <<"PUBLISH", t>>
Payload(t) == <<"payload", t>>
Cells == {Connack(TRUE), Connack(FALSE), Suback, Pingresp}
         \cup {Header(t) : t \in Topics} \cup {Payload(t) : t \in Topics}

VARIABLES
  sr, ir, tx, arrived, rx, net, peer, is_sending, at, arg, want, ret, stream,
  taken,       \* the socket, see W5500Socket
  state,       \* state_
  slots,       \* topics of the active subscriptions_
  mq,          \* where the main program is in the client
  chime,       \* the chime whose turn it is
  broker,      \* the broker's end of the connection
  \* History.
  commands     \* per topic, commands the callback got on this connection

S == INSTANCE W5500Socket

socket == <<sr, ir, tx, arrived, rx, net, peer, is_sending, at, arg, want, ret,
            stream, taken>>
client == <<state, slots, mq, chime>>
vars == <<socket, client, broker, commands>>

States == {"DISCONNECTED", "CONNECTING", "CONNECTED", "ERROR"}
Points == {"pass", "service", "chimes", "dial", "poll", "sendConnect", "connack", "refused",
           "hangup", "sub", "subscribing", "loop", "receiving", "keep", "ping", "pub"}

NoBroker == [session |-> "none", subs |-> {}, out |-> <<>>]
NoCommands == [t \in Topics |-> 0]

\* What belongs to a connection ends with it.
BrokerKept == broker' = IF peer' = "absent" THEN NoBroker ELSE broker
HistoryKept ==
  /\ commands' = IF stream' = <<>> THEN NoCommands ELSE commands
PeerKept == BrokerKept /\ HistoryKept

Goto(p) == mq' = p /\ UNCHANGED chime
Fail(p) == state' = "ERROR" /\ Goto(p) /\ UNCHANGED slots
Returned == at = "ready"

\* Both chimes take their turn, then the program goes to p.
Turn(again, p) ==
  \/ chime = 1 /\ chime' = 2 /\ mq' = again
  \/ chime = 2 /\ chime' = 1 /\ mq' = p

-----------------------------------------------------------------------------
(* connect(), called at boot, by the retry and after a save.  At most one  *)
(* of the last two is taken in a pass of the main loop.                    *)

\* socket_connect(): the old socket is closed and, if there is a link, a new
\* one dials.
OpenSocket ==
  \/ S!Dial /\ state' = "CONNECTING" /\ Goto("dial")
  \/ S!Hangup /\ state' = "ERROR" /\ Goto("chimes")

\* Faulty variant: the subscriptions of the last session stay.
Begin_KeepsSlots ==
  /\ mq = "service" /\ Returned
  /\ UNCHANGED slots
  /\ OpenSocket
  /\ PeerKept

\* No subscription of the last session is left.
Begin ==
  /\ mq = "service" /\ Returned
  /\ slots' = {}
  /\ OpenSocket
  /\ PeerKept

Dialled ==
  /\ mq = "dial" /\ Returned
  /\ \/ ret = "OK" /\ Goto("poll") /\ UNCHANGED <<socket, state, slots>>
     \/ ret # "OK" /\ S!Hangup /\ Fail("chimes")
  /\ PeerKept

\* The status after connect(): a connection that is closing is not closed.
Poll ==
  /\ mq = "poll"
  /\ \/ /\ sr = "ESTABLISHED" /\ S!CallSend(Connect)
        /\ Goto("sendConnect") /\ UNCHANGED <<state, slots>>
     \/ sr \in {"CLOSED", "CLOSE_WAIT"} /\ Fail("chimes") /\ UNCHANGED socket
  /\ PeerKept

ConnectSent ==
  /\ mq = "sendConnect" /\ Returned
  /\ \/ ret = "OK" /\ Goto("connack") /\ UNCHANGED socket
     \/ ret # "OK" /\ S!CallDisconnect /\ Goto("hangup")
  /\ UNCHANGED <<state, slots>>
  /\ PeerKept

AwaitConnack ==
  /\ mq = "connack" /\ S!CallRecv
  /\ UNCHANGED client
  /\ PeerKept

\* Faulty variant: the answer is awaited without a deadline.
ConnackOverdue_Never == FALSE /\ UNCHANGED vars

\* Five seconds are over.
ConnackOverdue ==
  /\ mq = "connack" /\ Returned
  /\ S!CallDisconnect
  /\ Goto("hangup") /\ UNCHANGED <<state, slots>>
  /\ PeerKept

Refused ==
  /\ mq = "refused"
  /\ S!CallDisconnect
  /\ Goto("hangup") /\ UNCHANGED <<state, slots>>
  /\ PeerKept

HungUp ==
  /\ mq = "hangup" /\ Returned
  /\ S!Hangup
  /\ Fail("chimes")
  /\ PeerKept

-----------------------------------------------------------------------------
(* mqtt_subscribe_topics() after a successful connect(), publish() for a   *)
(* chime, and the passes of the main loop in which nothing is to be done.  *)

CallSubscribe ==
  /\ mq = "sub" /\ S!CallSend(Subscribe(chime))
  /\ Goto("subscribing") /\ UNCHANGED <<state, slots>>
  /\ PeerKept

\* A slot is taken when send() took the packet, and there is no second try.
Subscribed ==
  /\ mq = "subscribing" /\ Returned
  /\ slots' = IF ret = "OK" THEN slots \cup {chime} ELSE slots
  /\ Turn("sub", "chimes")
  /\ UNCHANGED <<socket, state>>
  /\ PeerKept

\* A chime with an event to report publishes it.
CallPublish ==
  /\ mq = "chimes" /\ state = "CONNECTED" /\ S!CallSend(Publish)
  /\ Goto("pub") /\ UNCHANGED <<state, slots>>
  /\ PeerKept

Published ==
  /\ mq = "pub" /\ Returned
  /\ Turn("chimes", "pass") /\ UNCHANGED <<socket, state, slots>>
  /\ PeerKept

NoPublish ==
  /\ mq = "chimes"
  /\ Turn("chimes", "pass") /\ UNCHANGED <<socket, state, slots>>
  /\ PeerKept

\* Neither a retry is due nor has the configuration been saved.
NoConnect ==
  /\ mq = "service"
  /\ Goto("chimes") /\ UNCHANGED <<socket, state, slots>>
  /\ PeerKept

-----------------------------------------------------------------------------
(* loop() *)

\* Faulty variant: the status of the socket is not looked at.
CheckSocket_Blind ==
  /\ mq = "pass"
  /\ \/ state # "CONNECTED" /\ Goto("service") /\ UNCHANGED <<state, slots>>
     \/ state = "CONNECTED" /\ Goto("loop") /\ UNCHANGED <<state, slots>>
  /\ UNCHANGED socket
  /\ PeerKept

\* loop() gives the session up without closing the socket.
CheckSocket ==
  /\ mq = "pass"
  /\ \/ state # "CONNECTED" /\ Goto("service") /\ UNCHANGED <<state, slots>>
     \/ state = "CONNECTED" /\ sr # "ESTABLISHED" /\ Fail("service")
     \/ /\ state = "CONNECTED" /\ sr = "ESTABLISHED"
        /\ Goto("loop") /\ UNCHANGED <<state, slots>>
  /\ UNCHANGED socket
  /\ PeerKept

Receive ==
  /\ mq = "loop"
  /\ \/ S!CallRecv /\ Goto("receiving")
     \/ rx = <<>> /\ Goto("keep") /\ UNCHANGED socket
  /\ UNCHANGED <<state, slots>>
  /\ PeerKept

\* recv() found the connection gone.
NothingReceived ==
  /\ mq = "receiving" /\ Returned
  /\ Goto("keep") /\ UNCHANGED <<socket, state, slots>>
  /\ PeerKept

\* Ping if it is time to, and give up after a long silence.
Keepalive ==
  /\ mq = "keep"
  /\ \/ S!CallSend(Pingreq) /\ Goto("ping") /\ UNCHANGED <<state, slots>>
     \/ Goto("service") /\ UNCHANGED <<socket, state, slots>>
     \/ Fail("service") /\ UNCHANGED socket
  /\ PeerKept

Pinged ==
  /\ mq = "ping" /\ Returned
  /\ \/ Goto("service") /\ UNCHANGED <<state, slots>>
     \/ Fail("service")
  /\ UNCHANGED socket
  /\ PeerKept

\* Faulty variant: the callback of every active subscription is called.
Heard_AnyTopic(buf) ==
  [t \in Topics |->
     IF /\ Len(buf) > 1 /\ \E u \in Topics : buf[1] = Header(u) /\ buf[2] = Payload(u)
        /\ t \in slots
     THEN 1 ELSE 0]

\* process_incoming_packet(): what was received is taken for one packet.  The
\* command is read off the front of the payload, whatever follows it.
Heard(buf) ==
  [t \in Topics |->
     IF /\ buf[1] = Header(t) /\ Len(buf) > 1 /\ buf[2] = Payload(t)
        /\ t \in slots
     THEN 1 ELSE 0]

\* Faulty variant: the return code is not looked at.
Accepted_AnyCode(buf) == buf[1] \in {Connack(TRUE), Connack(FALSE)}

Accepted(buf) == buf[1] = Connack(TRUE)

\* recv() has filled recv_buffer_ and returns to the reader.
Received ==
  /\ S!RecvGo
  /\ LET buf == SubSeq(rx, 1, want) IN
     \/ /\ mq = "receiving"
        /\ commands' = [t \in Topics |-> commands[t] + Heard(buf)[t]]
        /\ Goto("keep") /\ UNCHANGED state
     \/ /\ mq = "connack" /\ Accepted(buf)
        /\ state' = "CONNECTED"
        /\ Goto("sub") /\ UNCHANGED commands
     \/ /\ mq = "connack" /\ ~Accepted(buf) /\ buf[1] = Connack(FALSE)
        /\ Goto("refused") /\ UNCHANGED <<state, commands>>
     \/ /\ mq = "connack" /\ buf[1] \notin {Connack(TRUE), Connack(FALSE)}
        /\ UNCHANGED <<state, mq, chime, commands>>
  /\ UNCHANGED slots
  /\ BrokerKept

\* The driver goes on until it returns.
DriverStep == at # "rcv_go" /\ S!Step /\ UNCHANGED client /\ PeerKept

-----------------------------------------------------------------------------
(* The broker *)

Answer(p, b) ==
  CASE p = Connect /\ b.session = "none" ->
         {[b EXCEPT !.session = IF ok THEN "accepted" ELSE "refused",
                    !.out = Append(@, Connack(ok))] : ok \in BOOLEAN}
    [] p[1] = "SUBSCRIBE" /\ b.session = "accepted" ->
         {[b EXCEPT !.subs = @ \cup {p[2]}, !.out = Append(@, Suback)]}
    [] p = Pingreq /\ b.session = "accepted" ->
         {[b EXCEPT !.out = Append(@, Pingresp)]}
    [] OTHER -> {b}

BrokerReceives ==
  /\ S!Arrive
  /\ Len(stream) + Len(broker.out) < MaxStream
  /\ broker' \in Answer(tx[arrived + 1], broker)
  /\ UNCHANGED <<client, commands>>

\* Somebody publishes a command, or it was retained.
Forward(t) ==
  /\ peer = "open" /\ broker.session = "accepted" /\ t \in broker.subs
  /\ broker.out = <<>> /\ Len(stream) + 2 <= MaxStream
  /\ broker' = [broker EXCEPT !.out = <<Header(t), Payload(t)>>]
  /\ UNCHANGED <<socket, client, commands>>

BrokerSends ==
  /\ broker.out # <<>> /\ S!PeerSend(Head(broker.out))
  /\ broker' = [broker EXCEPT !.out = Tail(@)]
  /\ UNCHANGED <<client, commands>>

ChipStep ==
  /\ \/ S!Handshake \/ S!Deliver \/ S!Ack \/ S!PeerFin \/ S!PeerReset
     \/ S!Vanish \/ S!Left \/ S!GiveUp
  /\ UNCHANGED client
  /\ PeerKept

-----------------------------------------------------------------------------

Init ==
  /\ S!Init /\ arg = Connect
  /\ state = "DISCONNECTED" /\ slots = {} /\ mq = "service" /\ chime = 1
  /\ broker = NoBroker /\ commands = NoCommands

\* What the program does next by itself.
ClientStep ==
  \/ Dialled \/ Poll \/ ConnectSent \/ AwaitConnack \/ Refused \/ HungUp
  \/ CallSubscribe \/ Subscribed
  \/ Published \/ NoPublish \/ NoConnect
  \/ CheckSocket \/ Receive \/ NothingReceived \/ Keepalive \/ Pinged

Next == \/ Begin \/ CallPublish
        \/ ClientStep \/ ConnackOverdue
        \/ Received \/ DriverStep
        \/ BrokerReceives \/ BrokerSends \/ \E t \in Topics : Forward(t)
        \/ ChipStep

\* The program runs on, the deadline for the CONNACK passes, handshakes and
\* ends of connections are settled.
Fairness ==
  /\ WF_vars(ClientStep) /\ WF_vars(ConnackOverdue)
  /\ WF_vars(Received) /\ WF_vars(DriverStep)
  /\ WF_vars(S!Handshake /\ UNCHANGED client /\ PeerKept)
  /\ WF_vars((S!Left \/ S!GiveUp) /\ UNCHANGED client /\ PeerKept)

Spec == Init /\ [][Next]_vars /\ Fairness

-----------------------------------------------------------------------------
(* Properties. *)

\* Type invariant.
TypeOK ==
  /\ S!TypeOK
  /\ state \in States /\ slots \subseteq Topics /\ mq \in Points
  /\ chime \in Topics
  /\ broker \in [session : {"none", "accepted", "refused"}, subs : SUBSET Topics,
                 out : Seq(Cells)]
  /\ commands \in [Topics -> Nat]

\* The client is CONNECTED only when the broker has accepted the CONNECT of
\* the connection it is using, never on an answer from an earlier one.
ConnectedIsAccepted ==
  /\ TypeOK
  /\ state = "CONNECTED" /\ sr \in S!Live /\ peer # "lost"
       => broker.session = "accepted"

\* A subscription is marked active only when its SUBSCRIBE was given to this
\* very connection: it has reached the broker or is on its way.
ActiveIsSubscribed ==
  sr \in S!Live =>
    \A t \in slots : t \in broker.subs \/ \E i \in 1..Len(tx) : tx[i] = Subscribe(t)

\* The commands for a topic in what recv() has returned of the stream.
CommandsFor(t) == {i \in 1..taken : stream[i] = Payload(t)}

\* A chime is commanded at most once for each command that has arrived for
\* it, however the stream is cut into buffers, and never by the other's.
AtMostOnce ==
  \A t \in Topics : commands[t] <= Cardinality(CommandsFor(t))

\* A lost connection is noticed.
LossNoticed == sr = "CLOSED" /\ state = "CONNECTED" ~> state # "CONNECTED"

\* The main loop, with the chimes, always comes back from the client, unless
\* connect() spins on a connection that was closed right after its start.
AlwaysReturns == []<>(mq = "pass") \/ <>[](mq = "dial" /\ sr = "CLOSE_WAIT")

\* The help text (flash_strings.c:13) "Base topic Chime 1&2": once connected,
\* the commands of both chimes are subscribed, not only the first's.
BothSubscribed ==
  mq = "pass" /\ state = "CONNECTED" /\ 1 \in slots => 2 \in slots
=============================================================================
