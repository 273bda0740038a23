------------------------- MODULE MqttClient_proofs --------------------------
(***************************************************************************)
(* The two MQTT clients.  First MqttReconnect, for every width of the      *)
(* clock, every set of intervals and every gap between two calls of        *)
(* try_reconnect().  Then MqttSession: the client's view of its session is *)
(* the broker's.  CONNECTED means an accepted CONNECT, an active slot a    *)
(* SUBSCRIBE that this connection got, and a chime is commanded at most    *)
(* once for a command that has arrived.  What the socket driver guarantees *)
(* is taken from W5500Socket_proofs.                                       *)
(***************************************************************************)
EXTENDS MqttReconnect, MqttSession, SequenceTheorems, FiniteSetTheorems, TLAPS

\* While a reconnection is pending connect() is not running and the client
\* does not take itself for connected, so that disconnect() cannot move the
\* time of the failure.
PendingApart == pending => pc = "idle" /\ status # "kConnected"

\* As long as the clock has not wrapped since the failure, its distance to the
\* noted time is the time that has passed.
ElapsedIsAge == age < Wrap => Elapsed = age

\* What passed since the failure was not due when try_reconnect() was called
\* last.
AgeBounded == pending => age < MaxInterval + gap

Inv ==
  /\ ReconnectTypeOK /\ LossRemembered /\ WatchdogBack /\ DisconnectSticks
  /\ PendingApart /\ ElapsedIsAge /\ AgeBounded

\* The wrap of the clock is not zero.
LEMMA WrapPositive == Wrap \in Nat \ {0}
BY ReconnectAssumption

\* Zero is a reading of the clock and of both counters.
LEMMA Zero == 0 \in 0 .. Wrap - 1 /\ 0 \in 0 .. Wrap /\ 0 \in 0 .. MaxGap
BY ReconnectAssumption

LEMMA InitInv == ReconnectInit => Inv
<1> SUFFICES ASSUME ReconnectInit PROVE Inv
  OBVIOUS
<1>1. ReconnectTypeOK
  BY Zero DEF ReconnectInit, ReconnectTypeOK, Time, MQTTStatus
<1>2. ElapsedIsAge
  BY WrapPositive DEF ReconnectInit, ElapsedIsAge, Elapsed
<1> QED
  BY <1>1, <1>2 DEF ReconnectInit, Inv, LossRemembered, WatchdogBack, DisconnectSticks,
     PendingApart, AgeBounded

\* Where a failure is noted the distance is zero.
LEMMA NotedNow ==
  ASSUME ReconnectTypeOK, since' = now, now' = now, age' = 0
  PROVE  ElapsedIsAge'
BY WrapPositive DEF ReconnectTypeOK, Time, ElapsedIsAge, Elapsed

\* A step that touches neither the clock nor the noted time keeps the distance.
LEMMA ClockKept ==
  ASSUME ElapsedIsAge, since' = since, now' = now, age' = age
  PROVE  ElapsedIsAge'
BY DEF ElapsedIsAge, Elapsed

LEMMA TypeStep == Inv /\ [ReconnectNext]_reconnect_vars => ReconnectTypeOK'
<1> SUFFICES ASSUME Inv, [ReconnectNext]_reconnect_vars PROVE ReconnectTypeOK'
  OBVIOUS
<1> USE DEF Inv, ReconnectTypeOK, Time, MQTTStatus
<1>1. CASE Initialize       BY <1>1 DEF Initialize
<1>2. CASE ClientConnect          BY <1>2 DEF ClientConnect, Dial
<1>3. CASE NetworkFails     BY <1>3, Zero DEF NetworkFails, Failed, client_vars
<1>4. CASE NetworkConnects  BY <1>4 DEF NetworkConnects, client_vars
<1>5. CASE BrokerRefuses    BY <1>5, Zero DEF BrokerRefuses, Failed, client_vars
<1>6. CASE BrokerAccepts    BY <1>6 DEF BrokerAccepts, client_vars
<1>7. CASE Disconnect       BY <1>7, Zero DEF Disconnect, client_vars
<1>8. CASE PublishOrYieldFails
  <2>1. CASE up' /\ UNCHANGED <<status, since, age, pending>>
    BY <1>8, <2>1 DEF PublishOrYieldFails, client_vars
  <2>2. CASE ~up' /\ NoteLoss
    BY <1>8, <2>2, Zero DEF PublishOrYieldFails, NoteLoss, client_vars
  <2> QED  BY <1>8, <2>1, <2>2 DEF PublishOrYieldFails
<1>9. CASE ClientSubscribe        BY <1>9 DEF ClientSubscribe
<1>10. CASE UnsubscribeFails BY <1>10 DEF UnsubscribeFails, client_vars
<1>11. CASE SetInterval     BY <1>11 DEF SetInterval
<1>12. CASE SetHandler      BY <1>12 DEF SetHandler
<1>13. CASE TryReconnect
  <2>1. gap' \in 0 .. MaxGap
    BY <1>13, ReconnectAssumption DEF TryReconnect
  <2>2. CASE RetryDue /\ Dial BY <1>13, <2>1, <2>2 DEF TryReconnect, Dial
  <2>3. CASE ~RetryDue        BY <1>13, <2>1, <2>3 DEF TryReconnect
  <2> QED  BY <1>13, <2>2, <2>3 DEF TryReconnect
<1>14. CASE Tick
  <2>1. now' \in 0 .. Wrap - 1
    BY <1>14, WrapPositive DEF Tick
  <2>2. age' \in 0 .. Wrap /\ gap' \in 0 .. MaxGap
    BY <1>14, ReconnectAssumption DEF Tick
  <2> QED  BY <1>14, <2>1, <2>2 DEF Tick, client_vars
<1>15. CASE UNCHANGED reconnect_vars  BY <1>15 DEF reconnect_vars, client_vars
<1> QED
  BY <1>1, <1>2, <1>3, <1>4, <1>5, <1>6, <1>7, <1>8, <1>9, <1>10, <1>11, <1>12, <1>13, <1>14,
     <1>15 DEF ReconnectNext

\* The parts of the invariant that do not measure time.
StateInv ==
  LossRemembered /\ WatchdogBack /\ DisconnectSticks /\ PendingApart

LEMMA StateStep == Inv /\ [ReconnectNext]_reconnect_vars => StateInv'
<1> SUFFICES ASSUME Inv, [ReconnectNext]_reconnect_vars PROVE StateInv'
  OBVIOUS
<1> USE DEF Inv, ReconnectTypeOK, StateInv, LossRemembered, WatchdogBack, DisconnectSticks,
            PendingApart
<1>1. CASE Initialize       BY <1>1 DEF Initialize
<1>2. CASE ClientConnect          BY <1>2 DEF ClientConnect, Dial
<1>3. CASE NetworkFails     BY <1>3 DEF NetworkFails, Failed, client_vars
<1>4. CASE NetworkConnects  BY <1>4 DEF NetworkConnects, client_vars
<1>5. CASE BrokerRefuses    BY <1>5 DEF BrokerRefuses, Failed, client_vars
<1>6. CASE BrokerAccepts    BY <1>6 DEF BrokerAccepts, client_vars
<1>7. CASE Disconnect       BY <1>7 DEF Disconnect, client_vars
<1>8. CASE PublishOrYieldFails
  BY <1>8 DEF PublishOrYieldFails, NoteLoss, client_vars
<1>9. CASE ClientSubscribe        BY <1>9 DEF ClientSubscribe
<1>10. CASE UnsubscribeFails BY <1>10 DEF UnsubscribeFails, client_vars
<1>11. CASE SetInterval     BY <1>11 DEF SetInterval
<1>12. CASE SetHandler      BY <1>12 DEF SetHandler
<1>13. CASE TryReconnect
  <2>1. CASE RetryDue /\ Dial BY <1>13, <2>1 DEF TryReconnect, Dial, RetryDue
  <2>2. CASE ~RetryDue        BY <1>13, <2>2 DEF TryReconnect
  <2> QED  BY <1>13, <2>1, <2>2 DEF TryReconnect
<1>14. CASE Tick            BY <1>14 DEF Tick, client_vars
<1>15. CASE UNCHANGED reconnect_vars  BY <1>15 DEF reconnect_vars, client_vars
<1> QED
  BY <1>1, <1>2, <1>3, <1>4, <1>5, <1>6, <1>7, <1>8, <1>9, <1>10, <1>11, <1>12, <1>13, <1>14,
     <1>15 DEF ReconnectNext

LEMMA ElapsedStep == Inv /\ [ReconnectNext]_reconnect_vars => ElapsedIsAge'
<1> SUFFICES ASSUME Inv, [ReconnectNext]_reconnect_vars PROVE ElapsedIsAge'
  OBVIOUS
<1>0. ReconnectTypeOK /\ ElapsedIsAge
  BY DEF Inv
<1>1. CASE Tick
  <2>1. Elapsed' = IF Elapsed + 1 < Wrap THEN Elapsed + 1 ELSE 0
    <3>1. now \in 0 .. Wrap - 1 /\ since \in 0 .. Wrap - 1 /\ since' = since
          /\ now' = (now + 1) % Wrap
      BY <1>0, <1>1 DEF Tick, ReconnectTypeOK, Time
    <3> QED  BY <3>1, WrapPositive DEF Elapsed
  <2>2. age \in 0 .. Wrap /\ age' = IF age < Wrap THEN age + 1 ELSE age
    BY <1>0, <1>1 DEF Tick, ReconnectTypeOK
  <2>3. age' < Wrap => Elapsed = age
    BY <1>0, <2>2, WrapPositive DEF ElapsedIsAge
  <2>4. age' < Wrap => Elapsed' = age'
    BY <2>1, <2>2, <2>3, WrapPositive
  <2> QED  BY <2>4 DEF ElapsedIsAge
<1>2. CASE since' = now /\ now' = now /\ age' = 0
  BY <1>0, <1>2, NotedNow
<1>3. CASE since' = since /\ now' = now /\ age' = age
  BY <1>0, <1>3, ClockKept
<1> QED
  BY <1>1, <1>2, <1>3 DEF ReconnectNext, reconnect_vars,
     Initialize, ClientConnect, Dial, NetworkFails, Failed,
     NetworkConnects, BrokerRefuses, BrokerAccepts, Disconnect, PublishOrYieldFails, NoteLoss,
     ClientSubscribe, UnsubscribeFails, SetInterval, SetHandler, TryReconnect

\* A reconnection that is not due has waited less than the longest interval.
LEMMA NotDue ==
  ASSUME Inv, pending, ~RetryDue
  PROVE  age < MaxInterval
<1>1. Elapsed < interval /\ interval <= MaxInterval
  <2>1. Elapsed \in 0 .. Wrap - 1
    BY WrapPositive DEF Inv, ReconnectTypeOK, Time, Elapsed
  <2> QED  BY <2>1, ReconnectAssumption DEF Inv, ReconnectTypeOK, RetryDue
<1>2. age < Wrap
  <2>1. age < MaxInterval + gap /\ gap \in 0 .. MaxGap /\ age \in Nat
    BY DEF Inv, AgeBounded, ReconnectTypeOK
  <2> QED  BY <2>1, ReconnectAssumption
<1>3. Elapsed = age
  BY <1>2 DEF Inv, ElapsedIsAge
<1>4. interval \in Nat /\ age \in Nat
  BY ReconnectAssumption DEF Inv, ReconnectTypeOK
<1> QED  BY <1>1, <1>3, <1>4, ReconnectAssumption

LEMMA AgeStep == Inv /\ [ReconnectNext]_reconnect_vars => AgeBounded'
<1> SUFFICES ASSUME Inv, [ReconnectNext]_reconnect_vars, pending' PROVE (age < MaxInterval + gap)'
  BY DEF AgeBounded
<1>0. age \in 0 .. Wrap /\ gap \in 0 .. MaxGap /\ MaxInterval \in Nat \ {0}
  BY ReconnectAssumption DEF Inv, ReconnectTypeOK
<1>1. CASE age' = 0 /\ gap' = gap
  BY <1>0, <1>1
<1>2. CASE pending /\ age' = age /\ gap' = gap
  BY <1>2 DEF Inv, AgeBounded
<1>3. CASE TryReconnect
  <2>1. ~RetryDue /\ pending /\ age' = age /\ gap' = 0
    BY <1>3 DEF TryReconnect, Dial
  <2> QED  BY <2>1, <1>0, NotDue
<1>4. CASE Tick
  <2>1. pending /\ pc = "idle" /\ gap' = gap + 1
    BY <1>4 DEF Tick, Inv, PendingApart
  <2>2. age' <= age + 1
    BY <1>0, <1>4 DEF Tick
  <2>3. age' \in Nat /\ age < MaxInterval + gap
    BY <1>0, <1>4, <2>1 DEF Tick, Inv, AgeBounded
  <2> QED  BY <1>0, <2>1, <2>2, <2>3
<1> QED
  BY <1>1, <1>2, <1>3, <1>4 DEF ReconnectNext, reconnect_vars,
     Initialize, ClientConnect, Dial, NetworkFails, Failed,
     NetworkConnects, BrokerRefuses, BrokerAccepts, Disconnect, PublishOrYieldFails, NoteLoss,
     ClientSubscribe, UnsubscribeFails, SetInterval, SetHandler

-----------------------------------------------------------------------------

THEOREM ReconnectInvariance == ReconnectSpec => []Inv
<1>1. Inv /\ [ReconnectNext]_reconnect_vars => Inv'
  BY TypeStep, StateStep, ElapsedStep, AgeStep DEF Inv, StateInv
<1> QED  BY <1>1, InitInv, PTL DEF ReconnectSpec

\* Every variable keeps its type, the clock its width.
THEOREM TypeCorrect == ReconnectSpec => []ReconnectTypeOK
BY ReconnectInvariance, PTL DEF Inv

\* connect(), publish() and yield() leave no session the client still believes
\* in, and the watchdog is paused exactly while connect() runs.  A disconnect()
\* that leaves nothing open lasts until the application connects, and one that
\* comes while a retry is pending, or init() has hidden the session, ends
\* neither (MQTTClient.cpp:69-185, 197-235, 292-341).
THEOREM StatusTruths == ReconnectSpec => []StatusTruthful
<1>1. Inv => StatusTruthful
  BY DEF Inv, StatusTruthful
<1> QED  BY <1>1, ReconnectInvariance, PTL

\* A reconnection is tried when its interval has passed, also across the wrap
\* of the clock (MQTTClient.cpp:323-341).
THEOREM RetriesTimely == ReconnectSpec => []RetriesInTime
<1>1. Inv => RetriesInTime
  <2> SUFFICES ASSUME Inv, pending
               PROVE  age < MaxInterval + MaxGap /\ (RetryDue <=> age >= interval)
    BY DEF RetriesInTime
  <2>1. age < MaxInterval + gap /\ gap \in 0 .. MaxGap /\ age \in 0 .. Wrap
    BY DEF Inv, ReconnectTypeOK, AgeBounded
  <2>2. age < MaxInterval + MaxGap
    BY <2>1, ReconnectAssumption
  <2>3. Elapsed = age
    BY <2>1, <2>2, ReconnectAssumption DEF Inv, ElapsedIsAge
  <2> QED  BY <2>2, <2>3 DEF RetryDue
<1> QED  BY <1>1, ReconnectInvariance, PTL

Driver == INSTANCE W5500Socket_proofs

-----------------------------------------------------------------------------
(* The inductive invariant. *)

\* The client's own variables.
ClientOK ==
  /\ state \in States /\ slots \in SUBSET Topics /\ mq \in Points /\ chime \in Topics
  /\ commands \in [Topics -> Nat]

BrokerOK ==
  broker \in [session : {"none", "accepted", "refused"}, subs : SUBSET Topics,
              out : Seq(Cells)]

Connecting == {"con_sr", "con_ir", "con_closed"}
Sending == {"snd_sr", "snd_ir", "snd_free", "snd_go"}
Fetching == {"rcv_sr", "rcv_go"}

\* The call the client waits for at a point of its program.
CallAt(p) ==
  CASE p = "dial" -> Connecting
    [] p \in {"sendConnect", "subscribing", "ping", "pub"} -> Sending
    [] p \in {"connack", "receiving"} -> Fetching
    [] p = "hangup" -> {"dis_sr", "dis_ir"}
    [] OTHER -> {}

\* And the packet it has given to send().
PacketAt(p) ==
  CASE p = "sendConnect" -> Connect
    [] p = "subscribing" -> Subscribe(chime)
    [] p = "ping" -> Pingreq
    [] OTHER -> Publish

\* Client and driver agree on the running call.
InStep ==
  /\ at \in {"ready"} \cup CallAt(mq)
  /\ at \in Sending => arg = PacketAt(mq)
  /\ at \in Fetching => want >= 1

\* A connection begins with nothing left of the one before.
Dialling ==
  sr = "SYNSENT" => /\ mq = "dial" /\ at \in Connecting /\ ir = {}
                    /\ state = "CONNECTING" /\ slots = {}

\* The broker's end exists as long as the connection.
PeerOfConnection ==
  /\ peer = "absent" => sr \in {"CLOSED", "SYNSENT"} /\ broker = NoBroker

\* A broker that has not accepted a CONNECT has not said so.
SaidOnce ==
  peer # "absent" /\ broker.session # "accepted" =>
    /\ \A i \in 1 .. Len(stream) : stream[i] # Connack(TRUE)
    /\ \A i \in 1 .. Len(broker.out) : broker.out[i] # Connack(TRUE)

\* Only an accepted client subscribes.
ConnectedFirst ==
  /\ mq \in {"sub", "subscribing"} => state = "CONNECTED"
  /\ state = "CONNECTED" /\ sr \in S!Live /\ peer # "lost" => broker.session = "accepted"

\* A SUBSCRIBE has been given to this connection.
Given(t) == t \in broker.subs \/ \E i \in 1 .. Len(tx) : tx[i] = Subscribe(t)

\* A SUBSCRIBE under way goes to a broker that will take it, and is taken when
\* it has reached the broker.
SubscribesArrive ==
  /\ arrived <= Len(tx)
  /\ sr \in S!Live =>
       \A i \in 1 .. Len(tx), t \in Topics :
         tx[i] = Subscribe(t) => /\ peer # "lost" => broker.session = "accepted"
                                 /\ i <= arrived => t \in broker.subs

\* When send() has taken a SUBSCRIBE it is on its way or has arrived.
SubscribeGiven ==
  mq = "subscribing" /\ at = "ready" /\ ret = "OK" /\ sr \in S!Live => Given(chime)

IInv ==
  /\ Driver!FlagsOK /\ Driver!DataOK /\ Driver!SendTracked /\ Driver!StreamSplit
  /\ ClientOK /\ BrokerOK
  /\ InStep /\ Dialling /\ PeerOfConnection /\ SaidOnce /\ ConnectedFirst
  /\ SubscribesArrive /\ SubscribeGiven /\ ActiveIsSubscribed /\ AtMostOnce

-----------------------------------------------------------------------------
(* The client and the broker drive the socket as W5500Socket allows.       *)

LEMMA CallsAreDriver ==
  /\ S!Dial => Driver!Dial
  /\ S!Hangup => Driver!Hangup
  /\ S!CallRecv => Driver!CallRecv
  /\ S!CallDisconnect => Driver!CallDisconnect
  /\ \A p : S!CallSend(p) => Driver!CallSend(p)
<1> USE DEF S!chip, Driver!chip, S!args, Driver!args
<1>1. S!Dial => Driver!Dial
  BY DEF S!Dial, Driver!Dial
<1>2. S!Hangup => Driver!Hangup
  BY DEF S!Hangup, Driver!Hangup, S!Abandon, Driver!Abandon, S!CloseSocket,
         Driver!CloseSocket, S!Return, Driver!Return
<1>3. S!CallRecv => Driver!CallRecv
  BY DEF S!CallRecv, Driver!CallRecv
<1>4. S!CallDisconnect => Driver!CallDisconnect
  BY DEF S!CallDisconnect, Driver!CallDisconnect
<1>5. \A p : S!CallSend(p) => Driver!CallSend(p)
  BY DEF S!CallSend, Driver!CallSend
<1> QED  BY <1>1, <1>2, <1>3, <1>4, <1>5

LEMMA StepsAreDriver == S!Step => Driver!Step
<1> USE DEF S!chip, Driver!chip, S!args, Driver!args, S!Live, Driver!Live, S!Return,
            Driver!Return, S!Abandon, Driver!Abandon, S!CloseSocket, Driver!CloseSocket
<1>1. /\ S!ConnectTestSr => Driver!ConnectTestSr
      /\ S!ConnectTestIr => Driver!ConnectTestIr
      /\ S!ConnectTestClosed => Driver!ConnectTestClosed
  BY DEF S!ConnectTestSr, Driver!ConnectTestSr, S!ConnectTestIr, Driver!ConnectTestIr,
         S!ConnectTestClosed, Driver!ConnectTestClosed
<1>2. S!SendTestSr => Driver!SendTestSr
  BY DEF S!SendTestSr, Driver!SendTestSr
<1>3. S!SendTestIr => Driver!SendTestIr
  BY DEF S!SendTestIr, Driver!SendTestIr
<1>4. S!SendTestFree => Driver!SendTestFree
  BY DEF S!SendTestFree, Driver!SendTestFree
<1>5. S!SendGo => Driver!SendGo
  BY DEF S!SendGo, Driver!SendGo
<1>6. S!RecvTestSr => Driver!RecvTestSr
  BY DEF S!RecvTestSr, Driver!RecvTestSr
<1>7. S!RecvGo => Driver!RecvGo
  BY DEF S!RecvGo, Driver!RecvGo
<1>8. S!DisconnectTestSr => Driver!DisconnectTestSr
  BY DEF S!DisconnectTestSr, Driver!DisconnectTestSr
<1>9. S!DisconnectTestIr => Driver!DisconnectTestIr
  BY DEF S!DisconnectTestIr, Driver!DisconnectTestIr
<1> QED  BY <1>1, <1>2, <1>3, <1>4, <1>5, <1>6, <1>7, <1>8, <1>9 DEF S!Step, Driver!Step

LEMMA ChipIsDriver ==
  /\ S!Handshake => Driver!Handshake
  /\ S!Deliver => Driver!Deliver
  /\ S!Arrive => Driver!Arrive
  /\ S!Ack => Driver!Ack
  /\ S!PeerFin => Driver!PeerFin
  /\ S!PeerReset => Driver!PeerReset
  /\ S!Vanish => Driver!Vanish
  /\ S!Left => Driver!Left
  /\ S!GiveUp => Driver!GiveUp
  /\ \A c : S!PeerSend(c) => Driver!PeerSend(c)
<1> USE DEF S!driver, Driver!driver, S!args, Driver!args, S!Drop, Driver!Drop, S!Live,
            Driver!Live, S!Leaving, Driver!Leaving
<1>1. S!Handshake => Driver!Handshake
  BY DEF S!Handshake, Driver!Handshake, S!SynAck, Driver!SynAck, S!SynTimeout,
         Driver!SynTimeout, S!SynRefused, Driver!SynRefused
<1>2. S!Deliver => Driver!Deliver
  BY DEF S!Deliver, Driver!Deliver
<1>3. S!Arrive => Driver!Arrive
  BY DEF S!Arrive, Driver!Arrive
<1>4. S!Ack => Driver!Ack
  BY DEF S!Ack, Driver!Ack
<1>5. S!PeerFin => Driver!PeerFin
  BY DEF S!PeerFin, Driver!PeerFin
<1>6. S!PeerReset => Driver!PeerReset
  BY DEF S!PeerReset, Driver!PeerReset
<1>7. S!Vanish => Driver!Vanish
  BY DEF S!Vanish, Driver!Vanish
<1>8. (S!Left => Driver!Left) /\ (S!GiveUp => Driver!GiveUp)
  BY DEF S!Left, Driver!Left, S!GiveUp, Driver!GiveUp
<1>9. \A c : S!PeerSend(c) => Driver!PeerSend(c)
  BY DEF S!PeerSend, Driver!PeerSend
<1> QED  BY <1>1, <1>2, <1>3, <1>4, <1>5, <1>6, <1>7, <1>8, <1>9

LEMMA NextIsDriver ==
  ASSUME BrokerOK, ClientOK, [Next]_vars
  PROVE  [Driver!Next]_Driver!vars
<1> USE DEF Driver!Next, Driver!Chip
<1>0. CASE UNCHANGED socket
  BY <1>0 DEF socket, Driver!vars, Driver!chip, Driver!driver, Driver!args
<1>1. CASE UNCHANGED vars
  BY <1>0, <1>1 DEF vars
<1>2. CASE Begin \/ Dialled \/ HungUp
  BY <1>0, <1>2, CallsAreDriver DEF Begin, OpenSocket, Dialled, HungUp
<1>3. CASE ConnectSent \/ ConnackOverdue \/ Refused
  BY <1>0, <1>3, CallsAreDriver DEF ConnectSent, ConnackOverdue, Refused
<1>4. CASE Poll \/ CallPublish \/ CallSubscribe \/ Keepalive
  <2>1. Connect \in Packets /\ Publish \in Packets /\ Pingreq \in Packets
        /\ Subscribe(chime) \in Packets
    BY DEF Packets, ClientOK
  <2>2. \A p \in Packets : S!CallSend(p) => Driver!Next
    BY CallsAreDriver
  <2> HIDE DEF Driver!Next
  <2> QED  BY <1>0, <1>4, <2>1, <2>2 DEF Poll, CallPublish, CallSubscribe, Keepalive
<1>5. CASE AwaitConnack \/ Receive
  BY <1>0, <1>5, CallsAreDriver DEF AwaitConnack, Receive
<1>6. CASE \/ Subscribed \/ Published \/ NoPublish \/ NoConnect \/ CheckSocket
           \/ NothingReceived \/ Pinged \/ \E t \in Topics : Forward(t)
  BY <1>0, <1>6 DEF Subscribed, Published, NoPublish, NoConnect, CheckSocket,
     NothingReceived, Pinged, Forward
<1>7. CASE Received \/ DriverStep
  <2>1. S!RecvGo => S!Step
    BY DEF S!Step
  <2> QED  BY <1>7, <2>1, StepsAreDriver DEF Received, DriverStep
<1>8. CASE BrokerReceives \/ ChipStep
  <2> HIDE DEF Driver!Next
  <2>1. Driver!Chip => Driver!Next
    BY DEF Driver!Next
  <2>2. CASE BrokerReceives
    BY <2>1, <2>2, ChipIsDriver, Zenon DEF BrokerReceives
  <2>3. CASE ChipStep
    BY <2>1, <2>3, ChipIsDriver, Zenon DEF ChipStep
  <2> QED  BY <1>8, <2>2, <2>3
<1>9. CASE BrokerSends
  <2>1. Head(broker.out) \in Cells
    BY <1>9 DEF BrokerSends, BrokerOK
  <2> QED  BY <1>9, <2>1, ChipIsDriver DEF BrokerSends
<1> HIDE DEF Driver!Next, Driver!Chip
<1> QED  BY <1>1, <1>2, <1>3, <1>4, <1>5, <1>6, <1>7, <1>8, <1>9 DEF Next, ClientStep

LEMMA DriverNext ==
  ASSUME Driver!FlagsOK, Driver!DataOK, Driver!SendTracked, Driver!StreamSplit,
         BrokerOK, ClientOK, [Next]_vars
  PROVE  Driver!FlagsOK' /\ Driver!DataOK' /\ Driver!SendTracked' /\ Driver!StreamSplit'
<1>1. [Driver!Next]_Driver!vars
  BY NextIsDriver
<1> QED  BY <1>1, SessionAssumption, Driver!FlagsNext, Driver!DataNext, Driver!TrackedNext,
            Driver!SplitNext

-----------------------------------------------------------------------------
(* Types of the client and the broker. *)

LEMMA ClientNext ==
  ASSUME ClientOK, [Next]_vars
  PROVE  ClientOK'
<1> USE DEF ClientOK, States, Points, Topics, Goto, Fail, Turn
<1>k. ASSUME HistoryKept PROVE commands' \in [Topics -> Nat]
  BY <1>k DEF HistoryKept, NoCommands
<1>1. CASE UNCHANGED vars
  BY <1>1 DEF vars, client
<1>2. CASE Begin
  BY <1>2, <1>k DEF Begin, OpenSocket, PeerKept
<1>3. CASE Dialled \/ Poll \/ ConnectSent \/ HungUp
  BY <1>3, <1>k DEF Dialled, Poll, ConnectSent, HungUp, PeerKept
<1>4. CASE AwaitConnack \/ ConnackOverdue \/ Refused
  BY <1>4, <1>k DEF AwaitConnack, ConnackOverdue, Refused, PeerKept, client
<1>5. CASE CallSubscribe \/ CallPublish \/ NoConnect
  BY <1>5, <1>k DEF CallSubscribe, CallPublish, NoConnect, PeerKept
<1>6. CASE Subscribed
  BY <1>6, <1>k DEF Subscribed, PeerKept
<1>7. CASE Published \/ NoPublish
  BY <1>7, <1>k DEF Published, NoPublish, PeerKept
<1>8. CASE CheckSocket \/ Receive \/ NothingReceived
  BY <1>8, <1>k DEF CheckSocket, Receive, NothingReceived, PeerKept
<1>9. CASE Keepalive \/ Pinged
  BY <1>9, <1>k DEF Keepalive, Pinged, PeerKept
<1>10. CASE Received
  <2>1. \A b : \A t \in Topics : Heard(b)[t] \in {0, 1}
    BY DEF Heard
  <2>2. commands' \in [Topics -> Nat]
    <3>1. CASE commands' = [t \in Topics |-> commands[t] + Heard(SubSeq(rx, 1, want))[t]]
      BY <2>1, <3>1
    <3>2. CASE UNCHANGED commands
      BY <3>2
    <3> QED  BY <1>10, <3>1, <3>2 DEF Received
  <2> QED  BY <1>10, <2>2 DEF Received
<1>11. CASE DriverStep \/ ChipStep
  BY <1>11, <1>k DEF DriverStep, ChipStep, client, PeerKept
<1>12. CASE BrokerReceives \/ BrokerSends \/ \E t \in Topics : Forward(t)
  BY <1>12 DEF BrokerReceives, BrokerSends, Forward, client
<1> QED  BY <1>1, <1>2, <1>3, <1>4, <1>5, <1>6, <1>7, <1>8, <1>9, <1>10, <1>11, <1>12
      DEF Next, ClientStep

LEMMA CellsOfBroker ==
  /\ \A ok \in BOOLEAN : Connack(ok) \in Cells
  /\ Suback \in Cells /\ Pingresp \in Cells
  /\ \A t \in Topics : Header(t) \in Cells /\ Payload(t) \in Cells
  BY DEF Cells

\* What the broker makes of a packet: it accepts a CONNECT only as the first,
\* never takes an acceptance or a subscription back, and subscribes only for
\* an accepted client.
LEMMA Answers ==
  ASSUME BrokerOK, NEW p \in Packets, NEW b \in Answer(p, broker)
  PROVE  /\ b \in [session : {"none", "accepted", "refused"}, subs : SUBSET Topics,
                   out : Seq(Cells)]
         /\ broker.session = "accepted" => b.session = "accepted"
         /\ broker.subs \subseteq b.subs
         /\ b.session # "accepted" =>
              \/ b.out = broker.out
              \/ b.out = Append(broker.out, Connack(FALSE))
         /\ \A t \in Topics : p = Subscribe(t) /\ broker.session = "accepted" => t \in b.subs
<1>1. /\ broker.session \in {"none", "accepted", "refused"} /\ broker.subs \in SUBSET Topics
      /\ broker.out \in Seq(Cells)
      /\ broker = [session |-> broker.session, subs |-> broker.subs, out |-> broker.out]
  BY DEF BrokerOK
<1>2. CASE p = Connect /\ broker.session = "none"
  <2>1. PICK ok \in BOOLEAN :
          b = [broker EXCEPT !.session = IF ok THEN "accepted" ELSE "refused",
                             !.out = Append(@, Connack(ok))]
    BY <1>2 DEF Answer
  <2>2. /\ b.session = (IF ok THEN "accepted" ELSE "refused") /\ b.subs = broker.subs
        /\ b.out = Append(broker.out, Connack(ok)) /\ b.out \in Seq(Cells)
    BY <2>1, <1>1, CellsOfBroker
  <2>3. \A t \in Topics : p # Subscribe(t)
    BY <1>2 DEF Connect, Subscribe
  <2>4. b.session # "accepted" => ok = FALSE
    BY <2>2
  <2>5. b \in [session : {"none", "accepted", "refused"}, subs : SUBSET Topics,
               out : Seq(Cells)]
    BY <2>1, <2>2, <1>1
  <2> QED  BY <1>2, <2>2, <2>3, <2>4, <2>5
<1>3. CASE p # Connect \/ broker.session # "none"
  <2>1. CASE p[1] = "SUBSCRIBE" /\ broker.session = "accepted"
    <3>1. b = [broker EXCEPT !.subs = @ \cup {p[2]}, !.out = Append(@, Suback)]
      <4>1. p # Pingreq
        BY <2>1 DEF Pingreq
      <4> QED  BY <1>3, <2>1, <4>1 DEF Answer
    <3>2. p[2] \in Topics
      BY <2>1 DEF Packets, Connect, Pingreq, Publish, Subscribe
    <3>3. /\ b.session = broker.session /\ b.subs = broker.subs \cup {p[2]}
          /\ b.out = Append(broker.out, Suback) /\ b.out \in Seq(Cells)
      BY <3>1, <1>1, CellsOfBroker
    <3>4. \A t \in Topics : p = Subscribe(t) => t = p[2]
      BY DEF Subscribe
    <3>5. b \in [session : {"none", "accepted", "refused"}, subs : SUBSET Topics,
                 out : Seq(Cells)]
      BY <3>1, <3>2, <3>3, <1>1
    <3> QED  BY <2>1, <3>3, <3>4, <3>5
  <2>2. CASE ~(p[1] = "SUBSCRIBE" /\ broker.session = "accepted")
    <3>1. \A t \in Topics : ~(p = Subscribe(t) /\ broker.session = "accepted")
      BY <2>2 DEF Subscribe
    <3>2. b = broker \/ (b = [broker EXCEPT !.out = Append(@, Pingresp)]
                         /\ broker.session = "accepted")
      BY <1>3, <2>2 DEF Answer
    <3>3. /\ b.session = broker.session /\ b.subs = broker.subs /\ b.out \in Seq(Cells)
          /\ b.session # "accepted" => b.out = broker.out
      BY <3>2, <1>1, CellsOfBroker
    <3>4. b \in [session : {"none", "accepted", "refused"}, subs : SUBSET Topics,
                 out : Seq(Cells)]
      BY <3>2, <3>3, <1>1
    <3> QED  BY <3>1, <3>3, <3>4
  <2> QED  BY <2>1, <2>2
<1> QED  BY <1>2, <1>3

\* Who changes what the broker keeps and what it has sent.
LEMMA BrokerMoves ==
  ASSUME [Next]_vars
  PROVE  \/ /\ BrokerKept \/ UNCHANGED <<broker, peer>>
            /\ stream' = stream \/ stream' = <<>>
         \/ BrokerReceives \/ BrokerSends \/ \E t \in Topics : Forward(t)
<1> USE DEF PeerKept
<1>0. CASE UNCHANGED socket
  <2>1. UNCHANGED <<stream, peer>>
    BY <1>0 DEF socket
  <2>2. CASE UNCHANGED vars
    BY <2>1, <2>2 DEF vars
  <2>3. CASE Next
    BY <1>0, <2>1, <2>3 DEF Next, ClientStep, Begin, Dialled, Poll, ConnectSent, AwaitConnack,
       Refused, HungUp, CallSubscribe, CallPublish, Subscribed, Published, NoPublish, NoConnect,
       CheckSocket, Receive, NothingReceived, Keepalive, Pinged, ConnackOverdue, Received,
       DriverStep, ChipStep
  <2> QED  BY <2>2, <2>3
<1>1. CASE UNCHANGED vars
  BY <1>0, <1>1 DEF vars
<1>2. CASE Begin \/ Dialled \/ HungUp
  BY <1>0, <1>2 DEF Begin, OpenSocket, Dialled, HungUp, S!Dial, S!Hangup, S!Abandon,
     S!CloseSocket
<1>3. CASE ConnectSent \/ ConnackOverdue \/ Refused
  BY <1>0, <1>3 DEF ConnectSent, ConnackOverdue, Refused, S!CallDisconnect
<1>4. CASE Poll \/ CallPublish \/ CallSubscribe \/ Keepalive
  BY <1>0, <1>4 DEF Poll, CallPublish, CallSubscribe, Keepalive, S!CallSend
<1>5. CASE AwaitConnack \/ Receive
  BY <1>0, <1>5 DEF AwaitConnack, Receive, S!CallRecv
<1>6. CASE \/ Subscribed \/ Published \/ NoPublish \/ NoConnect \/ CheckSocket
           \/ NothingReceived \/ Pinged
  BY <1>0, <1>6 DEF Subscribed, Published, NoPublish, NoConnect, CheckSocket,
     NothingReceived, Pinged
<1>7. CASE Received
  BY <1>7 DEF Received, S!RecvGo
<1>8. CASE DriverStep
  BY <1>8 DEF DriverStep, S!Step, S!ConnectTestSr, S!ConnectTestIr, S!ConnectTestClosed,
     S!SendTestSr, S!SendTestIr, S!SendTestFree, S!SendGo, S!RecvTestSr, S!RecvGo,
     S!DisconnectTestSr, S!DisconnectTestIr, S!Abandon, S!CloseSocket
<1>9. CASE ChipStep
  BY <1>9 DEF ChipStep, S!Handshake, S!SynAck, S!SynTimeout, S!SynRefused, S!Deliver, S!Ack,
     S!PeerFin, S!PeerReset, S!Vanish, S!Left, S!GiveUp, S!Drop
<1>10. CASE BrokerReceives \/ BrokerSends \/ \E t \in Topics : Forward(t)
  BY <1>10
<1> QED  BY <1>1, <1>2, <1>3, <1>4, <1>5, <1>6, <1>7, <1>8, <1>9, <1>10 DEF Next, ClientStep

LEMMA BrokerNext ==
  ASSUME BrokerOK, Driver!DataOK, [Next]_vars
  PROVE  BrokerOK'
<1>e. \A D : <<>> \in Seq(D)
  OBVIOUS
<1>1. CASE BrokerKept \/ UNCHANGED <<broker, peer>>
  <2>1. NoBroker \in [session : {"none", "accepted", "refused"}, subs : SUBSET Topics,
                      out : Seq(Cells)]
    BY <1>e DEF NoBroker
  <2> QED  BY <1>1, <2>1 DEF BrokerKept, BrokerOK
<1>2. CASE BrokerReceives
  <2>1. tx[arrived + 1] \in Packets
    BY <1>2 DEF BrokerReceives, S!Arrive, Driver!DataOK
  <2> QED  BY <1>2, <2>1, Answers DEF BrokerReceives, BrokerOK
<1>3. CASE BrokerSends
  <2>1. /\ broker.out \in Seq(Cells) /\ broker.out # <<>>
        /\ broker' = [broker EXCEPT !.out = Tail(broker.out)]
    BY <1>3 DEF BrokerSends, BrokerOK
  <2>2. Tail(broker.out) \in Seq(Cells)
    BY <2>1
  <2> QED  BY <2>1, <2>2 DEF BrokerOK
<1>4. ASSUME NEW t \in Topics, Forward(t)
      PROVE  BrokerOK'
  <2>1. <<Header(t), Payload(t)>> \in Seq(Cells)
    BY CellsOfBroker
  <2> QED  BY <1>4, <2>1 DEF Forward, BrokerOK
<1> QED  BY <1>1, <1>2, <1>3, <1>4, BrokerMoves

-----------------------------------------------------------------------------
(* The connection and the broker's end of it. *)

\* A peer appears only when a connection is made, and does not come back when
\* it is lost.
LEMMA PeerMoves ==
  ASSUME Driver!FlagsOK, Driver!StreamSplit, PeerOfConnection, [Driver!Next]_Driver!vars
  PROVE  /\ peer' = "absent" => sr' \in {"CLOSED", "SYNSENT"}
         /\ peer = "absent" /\ peer' # "absent" => sr = "SYNSENT" /\ Driver!SynAck
         /\ peer = "lost" => peer' \in {"lost", "absent"}
<1> USE DEF Driver!args, Driver!FlagsOK, PeerOfConnection, Driver!Status, Driver!Live,
            Driver!Leaving
<1>0. CASE UNCHANGED <<sr, peer>>
  BY <1>0
<1>1. CASE Driver!Dial \/ Driver!Hangup
  BY <1>1 DEF Driver!Dial, Driver!Hangup, Driver!Abandon, Driver!CloseSocket
<1>2. CASE Driver!CallRecv \/ \E p \in Packets : Driver!CallSend(p)
  BY <1>0, <1>2 DEF Driver!CallRecv, Driver!CallSend, Driver!chip
<1>3. CASE Driver!CallDisconnect
  BY <1>3 DEF Driver!CallDisconnect
<1>4. CASE \E c \in Cells : Driver!PeerSend(c)
  BY <1>0, <1>4 DEF Driver!PeerSend
<1>5. CASE Driver!Step
  <2>1. ASSUME NEW r, Driver!Abandon(r) PROVE sr' = "CLOSED" /\ peer' = "absent"
    BY <2>1 DEF Driver!Abandon, Driver!CloseSocket
  <2>2. UNCHANGED <<sr, peer>> \/ \E r : Driver!Abandon(r)
    BY <1>5 DEF Driver!Step, Driver!ConnectTestSr, Driver!ConnectTestIr,
       Driver!ConnectTestClosed, Driver!SendTestSr, Driver!SendTestIr, Driver!SendTestFree,
       Driver!SendGo, Driver!RecvTestSr, Driver!RecvGo, Driver!DisconnectTestSr,
       Driver!DisconnectTestIr, Driver!chip
  <2> QED  BY <1>0, <2>1, <2>2
<1>6. CASE Driver!Chip
  <2>1. ASSUME NEW f, Driver!Drop(f) PROVE sr' = "CLOSED" /\ peer' = "absent"
    BY <2>1 DEF Driver!Drop
  <2>2. CASE Driver!SynAck \/ Driver!PeerFin \/ Driver!Vanish
    <3>1. Driver!SynAck => sr = "SYNSENT" /\ peer' = "open" /\ peer = "absent"
      BY DEF Driver!SynAck, Driver!StreamSplit
    <3>2. Driver!PeerFin => peer = "open" /\ peer' = "closed"
      BY DEF Driver!PeerFin
    <3>3. Driver!Vanish => peer # "absent" /\ peer' = "lost"
      BY DEF Driver!Vanish
    <3> QED  BY <2>2, <3>1, <3>2, <3>3
  <2>3. CASE Driver!Deliver \/ Driver!Arrive \/ Driver!Ack
    BY <1>0, <2>3 DEF Driver!Deliver, Driver!Arrive, Driver!Ack
  <2>4. CASE Driver!SynTimeout \/ Driver!SynRefused \/ Driver!PeerReset \/ Driver!Left
             \/ Driver!GiveUp
    BY <2>1, <2>4 DEF Driver!SynTimeout, Driver!SynRefused, Driver!PeerReset, Driver!Left,
       Driver!GiveUp
  <2> QED  BY <1>6, <2>2, <2>3, <2>4 DEF Driver!Chip, Driver!Handshake
<1>7. CASE UNCHANGED Driver!vars
  BY <1>0, <1>7 DEF Driver!vars, Driver!chip
<1> QED  BY <1>1, <1>2, <1>3, <1>4, <1>5, <1>6, <1>7 DEF Driver!Next

LEMMA PeerOfConnectionNext ==
  ASSUME IInv, [Next]_vars
  PROVE  PeerOfConnection'
<1>1. peer' = "absent" => sr' \in {"CLOSED", "SYNSENT"}
  BY NextIsDriver, PeerMoves DEF IInv
<1>2. peer' = "absent" => broker' = NoBroker
  <2>1. CASE BrokerKept \/ UNCHANGED <<broker, peer>>
    BY <2>1 DEF BrokerKept, IInv, PeerOfConnection
  <2>2. CASE BrokerReceives \/ BrokerSends \/ \E t \in Topics : Forward(t)
    BY <2>2 DEF BrokerReceives, BrokerSends, Forward, S!Arrive, S!PeerSend, socket
  <2> QED  BY <2>1, <2>2, BrokerMoves
<1> QED  BY <1>1, <1>2 DEF PeerOfConnection

LEMMA SaidOnceNext ==
  ASSUME IInv, BrokerOK', [Next]_vars
  PROVE  SaidOnce'
<1> USE DEF IInv
<1>1. CASE /\ BrokerKept \/ UNCHANGED <<broker, peer>>
           /\ stream' = stream \/ stream' = <<>>
  <2> SUFFICES ASSUME peer' # "absent", broker'.session # "accepted"
               PROVE  /\ \A i \in 1 .. Len(stream') : stream'[i] # Connack(TRUE)
                      /\ \A i \in 1 .. Len(broker'.out) : broker'.out[i] # Connack(TRUE)
    BY DEF SaidOnce
  <2>1. broker' = broker
    BY <1>1 DEF BrokerKept
  <2>e. \A q : q = <<>> => \A i \in 1 .. Len(q) : FALSE
    OBVIOUS
  <2>2. CASE peer # "absent"
    <3>1. /\ \A i \in 1 .. Len(stream) : stream[i] # Connack(TRUE)
          /\ \A i \in 1 .. Len(broker.out) : broker.out[i] # Connack(TRUE)
      BY <2>1, <2>2 DEF SaidOnce
    <3>2. \A i \in 1 .. Len(stream') : stream'[i] # Connack(TRUE)
      <4>1. CASE stream' = stream
        BY <3>1, <4>1
      <4>2. CASE stream' = <<>>
        BY <2>e, <4>2, Zenon
      <4> QED  BY <1>1, <4>1, <4>2
    <3> QED  BY <2>1, <3>1, <3>2
  <2>3. CASE peer = "absent"
    <3>1. sr = "SYNSENT"
      BY <2>3, NextIsDriver, PeerMoves
    <3>2. stream' = <<>>
      <4>1. Len(stream) = 0 /\ stream \in Seq(Cells)
        BY <3>1 DEF Driver!StreamSplit, Driver!DataOK
      <4> QED  BY <1>1, <4>1
    <3>3. broker.out = <<>>
      BY <2>3 DEF PeerOfConnection, NoBroker
    <3>4. broker'.out = <<>>
      BY <2>1, <3>3
    <3> QED  BY <2>e, <3>2, <3>4, Zenon
  <2> QED  BY <2>2, <2>3
<1>2. CASE BrokerReceives
  <2>1. UNCHANGED <<stream, peer>> /\ peer = "open"
    BY <1>2 DEF BrokerReceives, S!Arrive
  <2>2. tx[arrived + 1] \in Packets /\ broker' \in Answer(tx[arrived + 1], broker)
    BY <1>2 DEF BrokerReceives, S!Arrive, Driver!DataOK
  <2>3. ASSUME broker'.session # "accepted"
        PROVE  \A i \in 1 .. Len(broker'.out) : broker'.out[i] # Connack(TRUE)
    <3>1. /\ broker.session # "accepted"
          /\ broker'.out = broker.out \/ broker'.out = Append(broker.out, Connack(FALSE))
      BY <2>2, <2>3, Answers
    <3>2. \A i \in 1 .. Len(broker.out) : broker.out[i] # Connack(TRUE)
      BY <2>1, <3>1 DEF SaidOnce
    <3>3. Connack(FALSE) # Connack(TRUE)
      BY DEF Connack
    <3>4. broker.out \in Seq(Cells)
      BY DEF BrokerOK
    <3>5. PICK c \in Cells : c = Connack(FALSE)
      BY CellsOfBroker
    <3>6. c # Connack(TRUE)
      BY <3>3, <3>5
    <3>7. CASE broker'.out = Append(broker.out, c)
      <4>1. /\ Len(broker.out) \in Nat /\ Len(broker'.out) = Len(broker.out) + 1
            /\ broker'.out[Len(broker.out) + 1] = c
            /\ \A i \in 1 .. Len(broker.out) : broker'.out[i] = broker.out[i]
        BY <3>4, <3>7, AppendProperties
      <4>2. \A n \in Nat : \A i \in 1 .. n + 1 : i \in 1 .. n \/ i = n + 1
        OBVIOUS
      <4> QED
        <5> TAKE i \in 1 .. Len(broker'.out)
        <5>1. CASE i \in 1 .. Len(broker.out)
          BY <3>2, <4>1, <5>1, Zenon
        <5>2. CASE i = Len(broker.out) + 1
          BY <3>6, <4>1, <5>2, Zenon
        <5>3. i \in 1 .. Len(broker.out) \/ i = Len(broker.out) + 1
          BY <4>1, <4>2, Zenon
        <5> QED  BY <5>1, <5>2, <5>3, Zenon
    <3>8. broker'.out = broker.out \/ broker'.out = Append(broker.out, c)
      BY <3>1, <3>5
    <3> QED  BY <3>2, <3>7, <3>8
  <2>4. broker'.session # "accepted" => broker.session # "accepted"
    BY <2>2, Answers
  <2> QED  BY <2>1, <2>3, <2>4 DEF SaidOnce
<1>3. CASE BrokerSends
  <2>1. /\ peer' = peer /\ peer = "open" /\ broker.out # <<>>
        /\ stream' = Append(stream, Head(broker.out))
        /\ broker' = [broker EXCEPT !.out = Tail(broker.out)]
        /\ stream \in Seq(Cells) /\ broker.out \in Seq(Cells)
    BY <1>3 DEF BrokerSends, S!PeerSend, BrokerOK, Driver!DataOK
  <2>2. broker'.session = broker.session /\ broker'.out = Tail(broker.out)
    BY <2>1 DEF BrokerOK
  <2>3. ASSUME broker.session # "accepted"
        PROVE  /\ \A i \in 1 .. Len(stream') : stream'[i] # Connack(TRUE)
               /\ \A i \in 1 .. Len(broker'.out) : broker'.out[i] # Connack(TRUE)
    <3>1. /\ \A i \in 1 .. Len(stream) : stream[i] # Connack(TRUE)
          /\ \A i \in 1 .. Len(broker.out) : broker.out[i] # Connack(TRUE)
      BY <2>1, <2>3 DEF SaidOnce
    <3>2. /\ Len(broker.out) \in Nat \ {0} /\ Head(broker.out) = broker.out[1]
          /\ Len(Tail(broker.out)) = Len(broker.out) - 1
          /\ \A i \in 1 .. Len(broker.out) - 1 : Tail(broker.out)[i] = broker.out[i + 1]
      BY <2>1, HeadTailProperties
    <3>3. /\ Len(stream) \in Nat /\ Len(stream') = Len(stream) + 1
          /\ stream'[Len(stream) + 1] = Head(broker.out)
          /\ \A i \in 1 .. Len(stream) : stream'[i] = stream[i]
      BY <2>1, AppendProperties
    <3>4. \A i \in 1 .. Len(stream') : stream'[i] # Connack(TRUE)
      <4>1. \A i \in 1 .. Len(stream') : i \in 1 .. Len(stream) \/ i = Len(stream) + 1
        BY <3>3
      <4>2. 1 \in 1 .. Len(broker.out)
        BY <3>2
      <4>3. Head(broker.out) # Connack(TRUE)
        BY <3>1, <3>2, <4>2, Zenon
      <4> QED  BY <3>1, <3>3, <4>1, <4>3, Zenon
    <3>5. \A i \in 1 .. Len(broker'.out) : broker'.out[i] # Connack(TRUE)
      <4>1. \A i \in 1 .. Len(broker'.out) :
               i \in 1 .. Len(broker.out) - 1 /\ i + 1 \in 1 .. Len(broker.out)
        BY <2>2, <3>2
      <4> QED  BY <2>2, <3>1, <3>2, <4>1, Zenon
    <3> QED  BY <3>4, <3>5
  <2> QED  BY <2>1, <2>2, <2>3 DEF SaidOnce
<1>4. ASSUME NEW t \in Topics, Forward(t)
      PROVE  SaidOnce'
  <2>1. broker'.session = "accepted"
    BY <1>4 DEF Forward, BrokerOK
  <2> QED  BY <2>1 DEF SaidOnce
<1> QED  BY <1>1, <1>2, <1>3, <1>4, BrokerMoves

-----------------------------------------------------------------------------
(* Client and driver. *)

LEMMA InStepNext ==
  ASSUME IInv, [Next]_vars
  PROVE  InStep'
<1> USE DEF IInv, InStep, CallAt, PacketAt, Connecting, Sending, Fetching, Goto, Fail
<1>0. at \in {"ready"} \cup Connecting \cup Sending \cup Fetching \cup {"dis_sr", "dis_ir"}
  OBVIOUS
<1>1. CASE UNCHANGED vars
  BY <1>1 DEF vars, socket, client
<1>2. CASE Begin \/ Dialled \/ HungUp
  BY <1>2 DEF Begin, OpenSocket, Dialled, HungUp, Returned, S!Dial, S!Hangup, S!Abandon,
     S!Return, socket
<1>3. CASE ConnectSent \/ ConnackOverdue \/ Refused
  BY <1>3 DEF ConnectSent, ConnackOverdue, Refused, Returned, S!CallDisconnect, socket
<1>4. CASE Poll \/ CallPublish \/ CallSubscribe \/ Keepalive
  BY <1>4 DEF Poll, CallPublish, CallSubscribe, Keepalive, S!CallSend, socket
<1>5. CASE AwaitConnack \/ Receive
  <2>1. S!CallRecv => want' >= 1 /\ at' = "rcv_sr" /\ at = "ready"
    <3>1. rx # <<>> /\ rx \in Seq(Cells) => Len(rx) >= 1
      OBVIOUS
    <3> QED  BY <3>1, SessionAssumption DEF S!CallRecv, Driver!DataOK
  <2> QED  BY <1>5, <2>1 DEF AwaitConnack, Receive, socket, client
<1>6. CASE \/ Subscribed \/ Published \/ NoPublish \/ NoConnect \/ CheckSocket
           \/ NothingReceived \/ Pinged
  BY <1>6 DEF Subscribed, Published, NoPublish, NoConnect, CheckSocket,
     NothingReceived, Pinged, Returned, Turn, socket
<1>7. CASE Received
  BY <1>7 DEF Received, S!RecvGo, S!Return
<1>8. CASE DriverStep
  BY <1>8 DEF DriverStep, S!Step, S!ConnectTestSr, S!ConnectTestIr, S!ConnectTestClosed,
     S!SendTestSr, S!SendTestIr, S!SendTestFree, S!SendGo, S!RecvTestSr, S!RecvGo,
     S!DisconnectTestSr, S!DisconnectTestIr, S!Abandon, S!CloseSocket, S!Return, S!args,
     client
<1>9. CASE ChipStep
  BY <1>9 DEF ChipStep, S!Handshake, S!SynAck, S!SynTimeout, S!SynRefused, S!Deliver, S!Ack,
     S!PeerFin, S!PeerReset, S!Vanish, S!Left, S!GiveUp, S!Drop, S!driver, S!args, client
<1>10. CASE BrokerReceives \/ BrokerSends \/ \E t \in Topics : Forward(t)
  BY <1>10 DEF BrokerReceives, BrokerSends, Forward, S!Arrive, S!PeerSend, S!driver, S!args,
     socket, client
<1> HIDE DEF IInv, InStep
<1> QED  BY <1>1, <1>2, <1>3, <1>4, <1>5, <1>6, <1>7, <1>8, <1>9, <1>10 DEF Next, ClientStep

LEMMA DiallingNext ==
  ASSUME IInv, [Next]_vars
  PROVE  Dialling'
<1> SUFFICES ASSUME sr' = "SYNSENT" PROVE Dialling'
  BY DEF Dialling
<1> USE DEF IInv, Dialling, Connecting, Goto, Fail
<1>1. CASE UNCHANGED vars
  BY <1>1 DEF vars, socket, client
<1>2. CASE Begin \/ Dialled \/ HungUp
  BY <1>2 DEF Begin, OpenSocket, Dialled, HungUp, Returned, S!Dial, S!Hangup, S!Abandon,
     S!CloseSocket, S!Return, socket
<1>3. CASE ConnectSent \/ ConnackOverdue \/ Refused
  BY <1>3 DEF ConnectSent, ConnackOverdue, Refused, Returned, S!CallDisconnect, socket
<1>4. CASE Poll \/ CallPublish \/ CallSubscribe \/ Keepalive
  BY <1>4 DEF Poll, CallPublish, CallSubscribe, Keepalive, S!CallSend, S!chip, socket
<1>5. CASE AwaitConnack \/ Receive
  BY <1>5 DEF AwaitConnack, Receive, S!CallRecv, S!chip, socket, client
<1>6. CASE \/ Subscribed \/ Published \/ NoPublish \/ NoConnect \/ CheckSocket
           \/ NothingReceived \/ Pinged
  BY <1>6 DEF Subscribed, Published, NoPublish, NoConnect, CheckSocket,
     NothingReceived, Pinged, Returned, Turn, socket
<1>7. CASE Received
  BY <1>7 DEF Received, S!RecvGo
<1>8. CASE DriverStep
  BY <1>8 DEF DriverStep, S!Step, S!ConnectTestSr, S!ConnectTestIr, S!ConnectTestClosed,
     S!SendTestSr, S!SendTestIr, S!SendTestFree, S!SendGo, S!RecvTestSr, S!RecvGo,
     S!DisconnectTestSr, S!DisconnectTestIr, S!Abandon, S!CloseSocket, S!Return, S!args,
     S!chip, client
<1>9. CASE ChipStep
  BY <1>9 DEF ChipStep, S!Handshake, S!SynAck, S!SynTimeout, S!SynRefused, S!Deliver, S!Ack,
     S!PeerFin, S!PeerReset, S!Vanish, S!Left, S!GiveUp, S!Drop, S!driver, S!args, client,
     Driver!SendTracked
<1>10. CASE BrokerReceives \/ BrokerSends \/ \E t \in Topics : Forward(t)
  BY <1>10 DEF BrokerReceives, BrokerSends, Forward, S!Arrive, S!PeerSend, S!driver, S!args,
     socket, client
<1> HIDE DEF IInv, Dialling
<1> QED  BY <1>1, <1>2, <1>3, <1>4, <1>5, <1>6, <1>7, <1>8, <1>9, <1>10 DEF Next, ClientStep

-----------------------------------------------------------------------------
(* The session: CONNECTED means accepted. *)

\* The client becomes CONNECTED only by an answer that accepts it.
LEMMA StateMoves ==
  ASSUME IInv, [Next]_vars
  PROVE  /\ mq' \in {"sub", "subscribing"} => state' = "CONNECTED"
         /\ state' = "CONNECTED" /\ state # "CONNECTED" =>
              Received /\ mq = "connack" /\ Accepted(SubSeq(rx, 1, want))
<1> USE DEF Goto, Fail
<1>i. mq \in {"sub", "subscribing"} => state = "CONNECTED"
  BY DEF IInv, ConnectedFirst
<1>1. CASE UNCHANGED client
  BY <1>1, <1>i DEF client
<1>2. CASE Begin \/ Dialled \/ HungUp
  BY <1>2 DEF Begin, OpenSocket, Dialled, HungUp
<1>3. CASE ConnectSent \/ ConnackOverdue \/ Refused
  BY <1>3 DEF ConnectSent, ConnackOverdue, Refused
<1>4. CASE Poll \/ CallPublish \/ CallSubscribe \/ Keepalive
  BY <1>4, <1>i DEF Poll, CallPublish, CallSubscribe, Keepalive
<1>5. CASE Subscribed \/ Published \/ NoPublish \/ NoConnect
  BY <1>5, <1>i DEF Subscribed, Published, NoPublish, NoConnect, Turn
<1>6. CASE CheckSocket \/ NothingReceived \/ Pinged \/ Receive
  BY <1>6 DEF CheckSocket, NothingReceived, Pinged, Receive
<1>7. CASE Received
  BY <1>7, <1>i DEF Received
<1>8. CASE \/ AwaitConnack \/ DriverStep \/ ChipStep \/ BrokerReceives \/ BrokerSends
           \/ \E t \in Topics : Forward(t)
  BY <1>1, <1>8 DEF AwaitConnack, DriverStep, ChipStep, BrokerReceives, BrokerSends, Forward
<1> QED  BY <1>1, <1>2, <1>3, <1>4, <1>5, <1>6, <1>7, <1>8 DEF Next, ClientStep, vars

\* While the broker's end exists it takes nothing back.
LEMMA BrokerKeeps ==
  ASSUME BrokerOK, Driver!DataOK, [Next]_vars, peer' # "absent"
  PROVE  /\ broker.session = "accepted" => broker'.session = "accepted"
         /\ broker.subs \subseteq broker'.subs
<1>1. CASE BrokerKept \/ UNCHANGED <<broker, peer>>
  BY <1>1 DEF BrokerKept
<1>2. CASE BrokerReceives
  <2>1. tx[arrived + 1] \in Packets /\ broker' \in Answer(tx[arrived + 1], broker)
    BY <1>2 DEF BrokerReceives, S!Arrive, Driver!DataOK
  <2> QED  BY <2>1, Answers
<1>3. CASE BrokerSends \/ \E t \in Topics : Forward(t)
  BY <1>3 DEF BrokerSends, Forward, BrokerOK
<1> QED  BY <1>1, <1>2, <1>3, BrokerMoves

\* A connection lives on, or it is a new one.
LEMMA LiveMoves ==
  ASSUME Driver!FlagsOK, [Driver!Next]_Driver!vars, sr' \in S!Live
  PROVE  sr \in S!Live \/ (sr = "SYNSENT" /\ Driver!SynAck)
<1> USE DEF Driver!args, Driver!FlagsOK, Driver!Status, Driver!Live, S!Live, Driver!Leaving
<1>0. CASE UNCHANGED sr
  BY <1>0
<1>1. CASE Driver!Dial \/ Driver!Hangup
  BY <1>1 DEF Driver!Dial, Driver!Hangup, Driver!Abandon, Driver!CloseSocket
<1>2. CASE Driver!CallRecv \/ \E p \in Packets : Driver!CallSend(p)
  BY <1>0, <1>2 DEF Driver!CallRecv, Driver!CallSend, Driver!chip
<1>3. CASE Driver!CallDisconnect
  BY <1>3 DEF Driver!CallDisconnect
<1>4. CASE \E c \in Cells : Driver!PeerSend(c)
  BY <1>0, <1>4 DEF Driver!PeerSend
<1>5. CASE Driver!Step
  BY <1>0, <1>5 DEF Driver!Step, Driver!ConnectTestSr, Driver!ConnectTestIr,
     Driver!ConnectTestClosed, Driver!SendTestSr, Driver!SendTestIr, Driver!SendTestFree,
     Driver!SendGo, Driver!RecvTestSr, Driver!RecvGo, Driver!DisconnectTestSr,
     Driver!DisconnectTestIr, Driver!chip, Driver!Abandon, Driver!CloseSocket
<1>6. CASE Driver!Chip
  <2>1. CASE Driver!Handshake \/ Driver!PeerFin
    BY <2>1 DEF Driver!Handshake, Driver!SynTimeout, Driver!SynRefused, Driver!PeerFin,
       Driver!Drop, Driver!SynAck
  <2>2. CASE Driver!Deliver \/ Driver!Arrive \/ Driver!Ack \/ Driver!Vanish
    BY <1>0, <2>2 DEF Driver!Deliver, Driver!Arrive, Driver!Ack, Driver!Vanish
  <2>3. CASE Driver!PeerReset \/ Driver!Left \/ Driver!GiveUp
    BY <2>3 DEF Driver!PeerReset, Driver!Left, Driver!GiveUp, Driver!Drop
  <2> QED  BY <1>6, <2>1, <2>2, <2>3 DEF Driver!Chip
<1>7. CASE UNCHANGED Driver!vars
  BY <1>0, <1>7 DEF Driver!vars, Driver!chip
<1> QED  BY <1>1, <1>2, <1>3, <1>4, <1>5, <1>6, <1>7 DEF Driver!Next

LEMMA ConnectedFirstNext ==
  ASSUME IInv, PeerOfConnection', [Next]_vars
  PROVE  ConnectedFirst'
<1>1. mq' \in {"sub", "subscribing"} => state' = "CONNECTED"
  BY StateMoves
<1>2. ASSUME state' = "CONNECTED", sr' \in S!Live, peer' # "lost"
      PROVE  broker'.session = "accepted"
  <2>1. [Driver!Next]_Driver!vars /\ Driver!FlagsOK /\ Driver!StreamSplit /\ PeerOfConnection
    BY NextIsDriver DEF IInv
  <2>2. peer' # "absent"
    BY <1>2 DEF PeerOfConnection, S!Live
  <2>3. BrokerOK /\ Driver!DataOK
    BY DEF IInv
  <2>4. CASE state = "CONNECTED"
    <3>1. sr # "SYNSENT"
      BY <2>4 DEF IInv, Dialling
    <3>2. sr \in S!Live
      BY <1>2, <2>1, <3>1, LiveMoves
    <3>3. peer # "lost"
      BY <1>2, <2>1, <2>2, PeerMoves
    <3>4. broker.session = "accepted"
      BY <2>4, <3>2, <3>3 DEF IInv, ConnectedFirst
    <3> QED  BY <2>2, <2>3, <3>4, BrokerKeeps
  <2>5. CASE state # "CONNECTED"
    <3>1. Received /\ Accepted(SubSeq(rx, 1, want))
      BY <1>2, <2>5, StateMoves
    <3>2. /\ UNCHANGED <<sr, peer, stream>> /\ at = "rcv_go" /\ broker' = broker
      BY <2>2, <3>1 DEF Received, S!RecvGo, BrokerKept
    <3>3. want >= 1 /\ want <= Len(rx) /\ want \in Nat /\ rx \in Seq(Cells) /\ Len(rx) \in Nat
      BY <3>2, SessionAssumption
         DEF IInv, InStep, Fetching, Driver!StreamSplit, Driver!DataOK
    <3>4. SubSeq(rx, 1, want)[1] = rx[1] /\ 1 \in 1 .. Len(rx)
      BY <3>3
    <3>5. rx[1] = Connack(TRUE)
      BY <3>1, <3>4 DEF Accepted
    <3>6. stream[taken + 1] = rx[1]
      BY <3>4, Zenon DEF IInv, Driver!StreamSplit, Driver!Continues
    <3>7. taken + 1 \in 1 .. Len(stream)
      BY <3>3 DEF IInv, Driver!StreamSplit, Driver!DataOK
    <3> QED  BY <2>2, <3>2, <3>5, <3>6, <3>7 DEF IInv, SaidOnce
  <2> QED  BY <2>4, <2>5
<1> QED  BY <1>1, <1>2 DEF ConnectedFirst

-----------------------------------------------------------------------------
(* What is sent: a SUBSCRIBE is taken by the broker of this connection.    *)

\* No more packets have arrived than were sent.
LEMMA ArrivedNext ==
  ASSUME Driver!DataOK, arrived <= Len(tx), [Driver!Next]_Driver!vars
  PROVE  arrived' <= Len(tx')
<1> USE DEF Driver!args
<1>e. \A q : q = <<>> => Len(q) = 0
  OBVIOUS
<1>t. tx \in Seq(Packets) /\ arrived \in Nat /\ Len(tx) \in Nat
  BY DEF Driver!DataOK
<1>0. CASE UNCHANGED <<tx, arrived>>
  BY <1>0
<1>z. CASE tx' = <<>> /\ arrived' = 0
  BY <1>e, <1>z
<1>1. CASE Driver!Dial \/ Driver!Hangup
  BY <1>z, <1>1 DEF Driver!Dial, Driver!Hangup, Driver!Abandon, Driver!CloseSocket
<1>2. CASE Driver!CallRecv \/ \E p \in Packets : Driver!CallSend(p)
  BY <1>0, <1>2 DEF Driver!CallRecv, Driver!CallSend, Driver!chip
<1>3. CASE Driver!CallDisconnect \/ \E c \in Cells : Driver!PeerSend(c)
  BY <1>0, <1>3 DEF Driver!CallDisconnect, Driver!PeerSend
<1>4. CASE Driver!SendGo
  <2>1. arg \in Packets
    BY DEF Driver!DataOK
  <2>2. Len(Append(tx, arg)) = Len(tx) + 1
    BY <1>t, <2>1
  <2> QED  BY <1>t, <1>4, <2>2 DEF Driver!SendGo
<1>5. CASE Driver!Step /\ ~Driver!SendGo
  BY <1>0, <1>z, <1>5 DEF Driver!Step, Driver!ConnectTestSr, Driver!ConnectTestIr,
     Driver!ConnectTestClosed, Driver!SendTestSr, Driver!SendTestIr, Driver!SendTestFree,
     Driver!RecvTestSr, Driver!RecvGo, Driver!DisconnectTestSr,
     Driver!DisconnectTestIr, Driver!chip, Driver!Abandon, Driver!CloseSocket
<1>6. CASE Driver!Chip
  <2>1. ASSUME NEW f, Driver!Drop(f) PROVE tx' = <<>> /\ arrived' = 0
    BY <2>1 DEF Driver!Drop
  <2>2. CASE Driver!Handshake \/ Driver!PeerReset \/ Driver!Left \/ Driver!GiveUp
    BY <1>0, <1>z, <2>1, <2>2 DEF Driver!Handshake, Driver!SynTimeout, Driver!SynRefused,
       Driver!SynAck, Driver!PeerReset, Driver!Left, Driver!GiveUp
  <2>3. CASE Driver!Deliver \/ Driver!PeerFin \/ Driver!Vanish
    BY <1>0, <2>3 DEF Driver!Deliver, Driver!PeerFin, Driver!Vanish
  <2>4. CASE Driver!Ack
    BY <1>z, <2>4 DEF Driver!Ack
  <2>5. CASE Driver!Arrive
    BY <1>t, <2>5 DEF Driver!Arrive
  <2> QED  BY <1>6, <2>2, <2>3, <2>4, <2>5 DEF Driver!Chip
<1>7. CASE UNCHANGED Driver!vars
  BY <1>0, <1>7 DEF Driver!vars, Driver!chip
<1> QED  BY <1>1, <1>2, <1>3, <1>4, <1>5, <1>6, <1>7 DEF Driver!Next

\* What can happen to the packets of a connection that lives on.
LEMMA SendMoves ==
  ASSUME [Next]_vars, sr' \in S!Live, sr \in S!Live
  PROVE  \/ UNCHANGED <<tx, arrived>>
         \/ S!SendGo /\ DriverStep
         \/ tx' = <<>> /\ arrived = Len(tx) /\ arrived' = 0 /\ UNCHANGED client
         \/ BrokerReceives
<1> USE DEF S!Live
<1>0. CASE UNCHANGED <<tx, arrived>>
  BY <1>0
<1>1. CASE UNCHANGED vars
  BY <1>0, <1>1 DEF vars, socket
<1>2. CASE Begin \/ Dialled \/ HungUp
  BY <1>0, <1>2 DEF Begin, OpenSocket, Dialled, HungUp, S!Dial, S!Hangup, S!Abandon,
     S!CloseSocket, socket
<1>3. CASE ConnectSent \/ ConnackOverdue \/ Refused
  BY <1>0, <1>3 DEF ConnectSent, ConnackOverdue, Refused, S!CallDisconnect, socket
<1>4. CASE Poll \/ CallPublish \/ CallSubscribe \/ Keepalive
  BY <1>0, <1>4 DEF Poll, CallPublish, CallSubscribe, Keepalive, S!CallSend, S!chip, socket
<1>5. CASE AwaitConnack \/ Receive
  BY <1>0, <1>5 DEF AwaitConnack, Receive, S!CallRecv, S!chip, socket
<1>6. CASE \/ Subscribed \/ Published \/ NoPublish \/ NoConnect \/ CheckSocket
           \/ NothingReceived \/ Pinged
  BY <1>0, <1>6 DEF Subscribed, Published, NoPublish, NoConnect, CheckSocket,
     NothingReceived, Pinged, socket
<1>7. CASE Received
  BY <1>0, <1>7 DEF Received, S!RecvGo
<1>8. CASE DriverStep
  BY <1>0, <1>8 DEF DriverStep, S!Step, S!ConnectTestSr, S!ConnectTestIr, S!ConnectTestClosed,
     S!SendTestSr, S!SendTestIr, S!SendTestFree, S!RecvTestSr, S!RecvGo,
     S!DisconnectTestSr, S!DisconnectTestIr, S!Abandon, S!CloseSocket, S!chip
<1>9. CASE ChipStep
  BY <1>0, <1>9 DEF ChipStep, S!Handshake, S!SynAck, S!SynTimeout, S!SynRefused, S!Deliver,
     S!Ack, S!PeerFin, S!PeerReset, S!Vanish, S!Left, S!GiveUp, S!Drop
<1>10. CASE BrokerReceives \/ BrokerSends \/ \E t \in Topics : Forward(t)
  BY <1>0, <1>10 DEF BrokerSends, Forward, S!PeerSend, socket
<1> QED  BY <1>1, <1>2, <1>3, <1>4, <1>5, <1>6, <1>7, <1>8, <1>9, <1>10 DEF Next, ClientStep

\* The client takes a slot only when send() has taken its SUBSCRIBE.
LEMMA SlotMoves ==
  ASSUME [Next]_vars, NEW t \in slots'
  PROVE  t \in slots \/ (mq = "subscribing" /\ at = "ready" /\ ret = "OK" /\ t = chime)
<1> USE DEF Goto, Fail, Returned
<1>1. CASE UNCHANGED client
  BY <1>1 DEF client
<1>2. CASE Begin \/ Dialled \/ HungUp
  BY <1>2 DEF Begin, Dialled, HungUp
<1>3. CASE ConnectSent \/ ConnackOverdue \/ Refused
  BY <1>3 DEF ConnectSent, ConnackOverdue, Refused
<1>4. CASE Poll \/ CallPublish \/ CallSubscribe \/ Keepalive
  BY <1>4 DEF Poll, CallPublish, CallSubscribe, Keepalive
<1>5. CASE Subscribed
  BY <1>5 DEF Subscribed
<1>6. CASE \/ Published \/ NoPublish \/ NoConnect \/ CheckSocket \/ NothingReceived
           \/ Pinged \/ Receive \/ Received
  BY <1>6 DEF Published, NoPublish, NoConnect, CheckSocket, NothingReceived, Pinged,
     Receive, Received
<1>7. CASE \/ AwaitConnack \/ DriverStep \/ ChipStep \/ BrokerReceives \/ BrokerSends
           \/ \E u \in Topics : Forward(u)
  BY <1>1, <1>7 DEF AwaitConnack, DriverStep, ChipStep, BrokerReceives, BrokerSends, Forward
<1> QED  BY <1>1, <1>2, <1>3, <1>4, <1>5, <1>6, <1>7 DEF Next, ClientStep, vars

\* send() returns OK for a SUBSCRIBE only after it has put it into the buffer.
LEMMA SubscribingMoves ==
  ASSUME IInv, [Next]_vars, mq' = "subscribing", at' = "ready", ret' = "OK"
  PROVE  /\ mq = "subscribing" /\ chime' = chime
         /\ (at = "ready" /\ ret = "OK") \/ S!SendGo
<1> USE DEF IInv, InStep, CallAt, Connecting, Sending, Fetching, Goto, Fail
<1>1. CASE UNCHANGED vars
  BY <1>1 DEF vars, socket, client
<1>2. CASE Begin \/ Dialled \/ HungUp
  BY <1>2 DEF Begin, OpenSocket, Dialled, HungUp
<1>3. CASE ConnectSent \/ ConnackOverdue \/ Refused
  BY <1>3 DEF ConnectSent, ConnackOverdue, Refused
<1>4. CASE Poll \/ CallPublish \/ CallSubscribe \/ Keepalive
  BY <1>4 DEF Poll, CallPublish, CallSubscribe, Keepalive, S!CallSend
<1>5. CASE \/ Subscribed \/ Published \/ NoPublish \/ NoConnect \/ CheckSocket
           \/ NothingReceived \/ Pinged \/ Receive \/ Received
  BY <1>5 DEF Subscribed, Published, NoPublish, NoConnect, CheckSocket,
     NothingReceived, Pinged, Receive, Received, Turn, S!RecvGo
<1>6. CASE AwaitConnack
  BY <1>6 DEF AwaitConnack, client, S!CallRecv
<1>7. CASE DriverStep
  BY <1>7 DEF DriverStep, S!Step, S!ConnectTestSr, S!ConnectTestIr, S!ConnectTestClosed,
     S!SendTestSr, S!SendTestIr, S!SendTestFree, S!RecvTestSr, S!RecvGo,
     S!DisconnectTestSr, S!DisconnectTestIr, S!Abandon, S!Return, client
<1>8. CASE ChipStep
  BY <1>8 DEF ChipStep, S!Handshake, S!SynAck, S!SynTimeout, S!SynRefused, S!Deliver, S!Ack,
     S!PeerFin, S!PeerReset, S!Vanish, S!Left, S!GiveUp, S!Drop, S!driver, client
<1>9. CASE BrokerReceives \/ BrokerSends \/ \E t \in Topics : Forward(t)
  BY <1>9 DEF BrokerReceives, BrokerSends, Forward, S!Arrive, S!PeerSend, S!driver,
     socket, client
<1> HIDE DEF IInv, InStep
<1> QED  BY <1>1, <1>2, <1>3, <1>4, <1>5, <1>6, <1>7, <1>8, <1>9 DEF Next, ClientStep

\* The peer of a connection that lives on.
LEMMA LivingPeer ==
  ASSUME IInv, PeerOfConnection', [Next]_vars, sr' \in S!Live
  PROVE  /\ sr \in S!Live \/ (sr = "SYNSENT" /\ Driver!SynAck)
         /\ peer' # "absent"
         /\ peer = "lost" => peer' = "lost"
         /\ broker.session = "accepted" => broker'.session = "accepted"
         /\ broker.subs \subseteq broker'.subs
<1>1. [Driver!Next]_Driver!vars /\ Driver!FlagsOK /\ Driver!StreamSplit /\ PeerOfConnection
      /\ BrokerOK /\ Driver!DataOK
  BY NextIsDriver DEF IInv
<1>2. peer' # "absent"
  BY DEF PeerOfConnection, S!Live
<1>3. peer = "lost" => peer' = "lost"
  BY <1>1, <1>2, PeerMoves
<1> QED  BY <1>1, <1>2, <1>3, LiveMoves, BrokerKeeps

\* What has been given to a connection stays given while it lives.
LEMMA GivenKept ==
  ASSUME IInv, PeerOfConnection', [Next]_vars, sr \in S!Live, sr' \in S!Live,
         NEW t \in Topics, Given(t)
  PROVE  Given(t)'
<1>1. broker.subs \subseteq broker'.subs
  BY LivingPeer
<1>2. CASE t \in broker.subs
  BY <1>1, <1>2 DEF Given
<1>3. ASSUME NEW i \in 1 .. Len(tx), tx[i] = Subscribe(t)
      PROVE  Given(t)'
  <2>0. tx \in Seq(Packets) /\ arg \in Packets /\ Len(tx) \in Nat
    BY DEF IInv, Driver!DataOK
  <2>1. CASE UNCHANGED tx
    BY <1>3, <2>1 DEF Given
  <2>2. CASE S!SendGo /\ DriverStep
    <3>1. tx' = Append(tx, arg)
      BY <2>2 DEF S!SendGo
    <3>2. Len(tx') = Len(tx) + 1 /\ tx'[i] = tx[i]
      BY <2>0, <3>1, AppendProperties
    <3>3. i \in 1 .. Len(tx')
      BY <2>0, <3>2
    <3> QED  BY <1>3, <3>2, <3>3 DEF Given
  <2>3. CASE arrived = Len(tx)
    <3>1. i <= arrived
      BY <2>3
    <3>2. t \in broker.subs
      BY <1>3, <3>1 DEF IInv, SubscribesArrive
    <3> QED  BY <1>2, <3>2
  <2>4. CASE BrokerReceives
    BY <2>1, <2>4 DEF BrokerReceives, S!Arrive
  <2> QED  BY <2>1, <2>2, <2>3, <2>4, SendMoves
<1> QED  BY <1>2, <1>3 DEF Given

LEMMA SubscribesArriveNext ==
  ASSUME IInv, PeerOfConnection', [Next]_vars
  PROVE  SubscribesArrive'
<1>d. Driver!DataOK /\ arrived <= Len(tx) /\ [Driver!Next]_Driver!vars /\ BrokerOK
  BY NextIsDriver DEF IInv, SubscribesArrive
<1>t. /\ tx \in Seq(Packets) /\ arg \in Packets /\ Len(tx) \in Nat /\ arrived \in Nat
      /\ arrived <= Len(tx)
  BY <1>d DEF Driver!DataOK
<1>1. arrived' <= Len(tx')
  BY <1>d, ArrivedNext
<1>2. ASSUME sr' \in S!Live, NEW i \in 1 .. Len(tx'), NEW t \in Topics, tx'[i] = Subscribe(t)
      PROVE  /\ peer' # "lost" => broker'.session = "accepted"
             /\ i <= arrived' => t \in broker'.subs
  <2>e. \A q : q = <<>> => \A j \in 1 .. Len(q) : FALSE
    OBVIOUS
  <2>l. /\ sr \in S!Live \/ (sr = "SYNSENT" /\ Driver!SynAck)
        /\ peer' # "absent"
        /\ peer = "lost" => peer' = "lost"
        /\ broker.session = "accepted" => broker'.session = "accepted"
        /\ broker.subs \subseteq broker'.subs
    BY <1>2, LivingPeer
  <2>1. CASE sr = "SYNSENT" /\ Driver!SynAck
    <3>1. tx' = <<>>
      BY <2>1 DEF Driver!SynAck, IInv, Driver!SendTracked
    <3> QED  BY <1>2, <2>e, <3>1, Zenon
  <2>2. ASSUME sr \in S!Live, NEW j \in 1 .. Len(tx), tx[j] = Subscribe(t)
        PROVE  /\ peer # "lost" => broker.session = "accepted"
               /\ j <= arrived => t \in broker.subs
    BY <2>2 DEF IInv, SubscribesArrive
  <2>3. CASE sr \in S!Live /\ UNCHANGED <<tx, arrived>>
    BY <1>2, <2>l, <2>2, <2>3
  <2>4. CASE sr \in S!Live /\ S!SendGo /\ DriverStep
    <3>1. tx' = Append(tx, arg) /\ arrived' = arrived /\ at = "snd_go"
      BY <2>4 DEF S!SendGo
    <3>2. /\ Len(tx') = Len(tx) + 1 /\ tx'[Len(tx) + 1] = arg
          /\ \A j \in 1 .. Len(tx) : tx'[j] = tx[j]
      BY <1>t, <3>1, AppendProperties
    <3>3. CASE i \in 1 .. Len(tx)
      <4>1. tx[i] = Subscribe(t)
        BY <1>2, <3>2, <3>3
      <4> QED  BY <2>l, <2>2, <2>4, <3>1, <3>3, <4>1
    <3>4. CASE i = Len(tx) + 1
      <4>1. ~(i <= arrived')
        BY <1>t, <3>1, <3>4
      <4>2. PacketAt(mq) = Subscribe(t)
        BY <1>2, <3>1, <3>2, <3>4 DEF IInv, InStep, Sending
      <4>3. mq = "subscribing"
        BY <4>2 DEF PacketAt, Connect, Pingreq, Publish, Subscribe
      <4>4. peer # "lost" => broker.session = "accepted"
        BY <2>4, <4>3 DEF IInv, ConnectedFirst
      <4> QED  BY <2>l, <4>1, <4>4
    <3>5. \A n \in Nat : \A j \in 1 .. n + 1 : j \in 1 .. n \/ j = n + 1
      OBVIOUS
    <3>6. i \in 1 .. Len(tx) \/ i = Len(tx) + 1
      BY <1>t, <3>2, <3>5, Zenon
    <3> QED  BY <3>3, <3>4, <3>6
  <2>5. CASE tx' = <<>>
    BY <1>2, <2>e, <2>5, Zenon
  <2>6. CASE sr \in S!Live /\ BrokerReceives
    <3>1. /\ tx' = tx /\ arrived' = arrived + 1 /\ peer = "open"
          /\ tx[arrived + 1] \in Packets /\ broker' \in Answer(tx[arrived + 1], broker)
      BY <1>d, <2>6 DEF BrokerReceives, S!Arrive, Driver!DataOK
    <3>2. /\ broker.session = "accepted"
          /\ i <= arrived => t \in broker.subs
      BY <1>2, <2>2, <2>6, <3>1
    <3>3. CASE i = arrived + 1
      <4>1. t \in broker'.subs
        BY <1>2, <1>d, <3>1, <3>2, <3>3, Answers
      <4> QED  BY <2>l, <3>2, <4>1
    <3>4. CASE i # arrived + 1
      <4>1. i <= arrived' => i <= arrived
        BY <1>t, <3>1, <3>4
      <4> QED  BY <2>l, <3>2, <4>1
    <3> QED  BY <3>3, <3>4
  <2> QED  BY <1>2, <2>l, <2>1, <2>3, <2>4, <2>5, <2>6, SendMoves
<1> QED  BY <1>1, <1>2 DEF SubscribesArrive

LEMMA SubscribeGivenNext ==
  ASSUME IInv, PeerOfConnection', [Next]_vars
  PROVE  SubscribeGiven'
<1> SUFFICES ASSUME mq' = "subscribing", at' = "ready", ret' = "OK", sr' \in S!Live
             PROVE  Given(chime)'
  BY DEF SubscribeGiven
<1>0. chime \in Topics /\ tx \in Seq(Packets) /\ arg \in Packets /\ Len(tx) \in Nat
  BY DEF IInv, ClientOK, Driver!DataOK
<1>1. /\ mq = "subscribing" /\ chime' = chime
      /\ (at = "ready" /\ ret = "OK") \/ S!SendGo
  BY SubscribingMoves
<1>2. sr \in S!Live
  <2>1. sr # "SYNSENT"
    BY <1>1 DEF IInv, Dialling
  <2> QED  BY <2>1, LivingPeer
<1>3. CASE at = "ready" /\ ret = "OK"
  <2>1. Given(chime)
    BY <1>1, <1>2, <1>3 DEF IInv, SubscribeGiven
  <2> QED  BY <1>0, <1>1, <1>2, <2>1, GivenKept DEF Given
<1>4. CASE S!SendGo
  <2>1. tx' = Append(tx, arg) /\ at = "snd_go"
    BY <1>2, <1>4 DEF S!SendGo
  <2>2. Len(tx') = Len(tx) + 1 /\ tx'[Len(tx) + 1] = arg
    BY <1>0, <2>1, AppendProperties
  <2>3. arg = Subscribe(chime)
    BY <1>1, <2>1 DEF IInv, InStep, Sending, PacketAt
  <2>4. Len(tx) + 1 \in 1 .. Len(tx')
    BY <1>0, <2>2
  <2> QED  BY <1>1, <2>2, <2>3, <2>4 DEF Given
<1> QED  BY <1>1, <1>3, <1>4

LEMMA ActiveNext ==
  ASSUME IInv, PeerOfConnection', [Next]_vars
  PROVE  ActiveIsSubscribed'
<1> SUFFICES ASSUME sr' \in S!Live, NEW t \in slots'
             PROVE  Given(t)'
  BY DEF ActiveIsSubscribed, Given
<1>1. t \in slots \/ (mq = "subscribing" /\ at = "ready" /\ ret = "OK" /\ t = chime)
  BY SlotMoves
<1>2. sr \in S!Live
  <2>1. sr # "SYNSENT"
    BY <1>1 DEF IInv, Dialling
  <2> QED  BY <2>1, LivingPeer
<1>3. t \in Topics /\ Given(t)
  <2>1. slots \subseteq Topics /\ chime \in Topics
    BY DEF IInv, ClientOK
  <2> QED  BY <1>1, <1>2, <2>1 DEF IInv, ActiveIsSubscribed, SubscribeGiven, Given
<1> QED  BY <1>2, <1>3, GivenKept

-----------------------------------------------------------------------------
(* Commands. *)

\* The command cells for a topic in the first n cells of a stream.
Among(q, n, t) == {i \in 1 .. n : q[i] = Payload(t)}

LEMMA AmongCounted ==
  ASSUME NEW q, NEW n \in Nat, NEW t
  PROVE  IsFiniteSet(Among(q, n, t)) /\ Cardinality(Among(q, n, t)) \in Nat
<1>1. IsFiniteSet(1 .. n)
  BY FS_Interval
<1>2. Among(q, n, t) \subseteq 1 .. n
  BY DEF Among
<1>3. IsFiniteSet(Among(q, n, t))
  BY <1>1, <1>2, FS_Subset
<1> QED  BY <1>3, FS_CardinalityType

\* A longer piece of the same stream holds no fewer, and one more when there
\* is a command behind the shorter one.
LEMMA AmongGrows ==
  ASSUME NEW q, NEW r, NEW n \in Nat, NEW m \in Nat, NEW t,
         n <= m, \A i \in 1 .. n : r[i] = q[i]
  PROVE  /\ Cardinality(Among(q, n, t)) <= Cardinality(Among(r, m, t))
         /\ n + 2 <= m /\ r[n + 2] = Payload(t) =>
              Cardinality(Among(q, n, t)) + 1 <= Cardinality(Among(r, m, t))
<1> DEFINE A == Among(q, n, t)
           B == Among(r, m, t)
<1>1. A \subseteq B
  BY DEF Among
<1>2. IsFiniteSet(A) /\ IsFiniteSet(B) /\ Cardinality(A) \in Nat /\ Cardinality(B) \in Nat
  BY AmongCounted
<1>3. ASSUME n + 2 <= m, r[n + 2] = Payload(t)
      PROVE  n + 2 \in B /\ n + 2 \notin A
  BY <1>3 DEF Among
<1> HIDE DEF A, B
<1>4. Cardinality(A) <= Cardinality(B)
  BY <1>1, <1>2, FS_Subset
<1>5. ASSUME NEW e \in B, e \notin A
      PROVE  Cardinality(A) + 1 <= Cardinality(B)
  <2>1. Cardinality(A \cup {e}) = Cardinality(A) + 1 /\ IsFiniteSet(A \cup {e})
    BY <1>2, <1>5, FS_AddElement
  <2>2. A \cup {e} \subseteq B
    BY <1>1, <1>5
  <2> QED  BY <1>2, <2>1, <2>2, FS_Subset
<1> QED  BY <1>3, <1>4, <1>5 DEF A, B

\* Who changes the stream, what is taken of it, and the commands.
LEMMA TakenMoves ==
  ASSUME [Next]_vars
  PROVE  \/ stream' = stream /\ taken' = taken /\ commands' \in {commands, NoCommands}
         \/ stream' = <<>> /\ commands' = NoCommands
         \/ BrokerSends \/ Received
<1> USE DEF PeerKept, HistoryKept
<1>0. CASE stream' = stream /\ taken' = taken /\ (commands' = commands \/ HistoryKept)
  BY <1>0
<1>z. CASE stream' = <<>> /\ HistoryKept
  BY <1>z
<1>1. CASE UNCHANGED vars
  BY <1>0, <1>1 DEF vars, socket
<1> HIDE DEF HistoryKept
<1>2. CASE Begin \/ Dialled \/ HungUp
  BY <1>0, <1>z, <1>2 DEF Begin, OpenSocket, Dialled, HungUp, S!Dial, S!Hangup, S!Abandon,
     S!CloseSocket, socket
<1>3. CASE ConnectSent \/ ConnackOverdue \/ Refused
  BY <1>0, <1>3 DEF ConnectSent, ConnackOverdue, Refused, S!CallDisconnect, socket
<1>4. CASE Poll \/ CallPublish \/ CallSubscribe \/ Keepalive
  BY <1>0, <1>4 DEF Poll, CallPublish, CallSubscribe, Keepalive, S!CallSend, S!chip, socket
<1>5. CASE AwaitConnack \/ Receive
  BY <1>0, <1>5 DEF AwaitConnack, Receive, S!CallRecv, S!chip, socket
<1>6. CASE \/ Subscribed \/ Published \/ NoPublish \/ NoConnect \/ CheckSocket
           \/ NothingReceived \/ Pinged
  BY <1>0, <1>6 DEF Subscribed, Published, NoPublish, NoConnect, CheckSocket,
     NothingReceived, Pinged, socket
<1>7. CASE DriverStep
  BY <1>0, <1>z, <1>7 DEF DriverStep, S!Step, S!ConnectTestSr, S!ConnectTestIr,
     S!ConnectTestClosed, S!SendTestSr, S!SendTestIr, S!SendTestFree, S!SendGo,
     S!RecvTestSr, S!RecvGo, S!DisconnectTestSr, S!DisconnectTestIr, S!Abandon,
     S!CloseSocket, S!chip
<1>8. CASE ChipStep
  BY <1>0, <1>z, <1>8 DEF ChipStep, S!Handshake, S!SynAck, S!SynTimeout, S!SynRefused,
     S!Deliver, S!Ack, S!PeerFin, S!PeerReset, S!Vanish, S!Left, S!GiveUp, S!Drop
<1>9. CASE BrokerReceives \/ \E t \in Topics : Forward(t)
  BY <1>0, <1>9 DEF BrokerReceives, Forward, S!Arrive, socket
<1> QED  BY <1>1, <1>2, <1>3, <1>4, <1>5, <1>6, <1>7, <1>8, <1>9 DEF Next, ClientStep

LEMMA AtMostOnceNext ==
  ASSUME IInv, Driver!DataOK', [Next]_vars
  PROVE  AtMostOnce'
<1> SUFFICES ASSUME NEW t \in Topics
             PROVE  commands'[t] <= Cardinality(Among(stream', taken', t))
  BY DEF AtMostOnce, CommandsFor, Among
<1>1. /\ taken \in Nat /\ taken' \in Nat /\ want \in Nat /\ commands \in [Topics -> Nat]
      /\ stream \in Seq(Cells) /\ Len(stream) \in Nat /\ taken <= Len(stream)
      /\ commands[t] <= Cardinality(Among(stream, taken, t)) /\ commands[t] \in Nat
  <2>1. commands \in [Topics -> Nat]
    BY DEF IInv, ClientOK
  <2>2. commands[t] <= Cardinality(Among(stream, taken, t))
    BY DEF IInv, AtMostOnce, CommandsFor, Among
  <2>3. /\ taken \in Nat /\ taken' \in Nat /\ want \in Nat
        /\ stream \in Seq(Cells) /\ Len(stream) \in Nat
    BY SessionAssumption DEF IInv, Driver!DataOK
  <2>4. taken <= Len(stream)
    BY <2>3 DEF IInv, Driver!DataOK, Driver!StreamSplit
  <2> QED  BY <2>1, <2>2, <2>3, <2>4
<1>2. /\ Cardinality(Among(stream, taken, t)) \in Nat
      /\ Cardinality(Among(stream', taken', t)) \in Nat
  BY <1>1, AmongCounted
<1>3. CASE commands' = NoCommands
  BY <1>2, <1>3 DEF NoCommands
<1>4. CASE stream' = stream /\ taken' = taken /\ commands' = commands
  BY <1>1, <1>4
<1>5. CASE BrokerSends
  <2>1. /\ taken' = taken /\ commands' = commands /\ stream' = Append(stream, Head(broker.out))
        /\ Head(broker.out) \in Cells
    BY <1>5 DEF BrokerSends, S!PeerSend, IInv, BrokerOK
  <2>2. \A i \in 1 .. Len(stream) : stream'[i] = stream[i]
    BY <1>1, <2>1, AppendProperties
  <2>3. \A i \in 1 .. taken : stream'[i] = stream[i]
    BY <1>1, <2>2
  <2>4. taken <= taken
    BY <1>1
  <2>5. Cardinality(Among(stream, taken, t)) <= Cardinality(Among(stream', taken, t))
    BY <1>1, <2>3, <2>4, AmongGrows
  <2> QED  BY <1>1, <1>2, <2>1, <2>5
<1>6. CASE Received
  <2> DEFINE buf == SubSeq(rx, 1, want)
  <2>1. /\ stream' = stream /\ taken' = taken + want /\ at = "rcv_go"
        /\ \/ commands' = commands
           \/ commands' = [u \in Topics |-> commands[u] + Heard(buf)[u]]
    BY <1>6 DEF Received, S!RecvGo
  <2>2. want <= Len(rx) /\ rx \in Seq(Cells) /\ Len(rx) \in Nat
    BY <2>1 DEF IInv, Driver!StreamSplit, Driver!DataOK
  <2>3. taken <= taken' /\ \A i \in 1 .. taken : stream[i] = stream[i]
    BY <1>1, <2>1
  <2>4. /\ Cardinality(Among(stream, taken, t)) <= Cardinality(Among(stream, taken', t))
        /\ taken + 2 <= taken' /\ stream[taken + 2] = Payload(t) =>
             Cardinality(Among(stream, taken, t)) + 1 <= Cardinality(Among(stream, taken', t))
    BY <1>1, <2>3, AmongGrows
  <2>5. CASE commands' = commands
    BY <1>1, <1>2, <2>1, <2>4, <2>5
  <2>6. CASE commands' = [u \in Topics |-> commands[u] + Heard(buf)[u]]
    <3>1. commands'[t] = commands[t] + Heard(buf)[t]
      BY <2>6
    <3>2. CASE Heard(buf)[t] = 0
      BY <1>1, <1>2, <2>1, <2>4, <3>1, <3>2
    <3>3. CASE Heard(buf)[t] = 1
      <4>1. Len(buf) > 1 /\ buf[2] = Payload(t)
        <5>1. \A b : Heard(b)[t] = 1 => Len(b) > 1 /\ b[2] = Payload(t)
          BY DEF Heard
        <5> QED  BY <3>3, <5>1
      <4>2. Len(buf) = want
        BY <1>1, <2>2
      <4>3. want >= 2
        BY <1>1, <4>1, <4>2
      <4>4. buf[2] = rx[2]
        <5>1. want \in 1 .. Len(rx) /\ 2 \in 1 .. want
          BY <1>1, <2>2, <4>3
        <5> QED  BY <2>2, <5>1
      <4>5. 2 \in 1 .. Len(rx)
        BY <1>1, <2>2, <4>3
      <4>6. stream[taken + 2] = rx[2]
        BY <4>5, Zenon DEF IInv, Driver!StreamSplit, Driver!Continues
      <4>7. taken + 2 <= taken'
        BY <1>1, <2>1, <4>3
      <4> HIDE DEF buf
      <4>8. stream[taken + 2] = Payload(t)
        BY <4>1, <4>4, <4>6
      <4> QED  BY <1>1, <1>2, <2>1, <2>4, <3>1, <3>3, <4>7, <4>8
    <3>4. Heard(buf)[t] \in {0, 1}
      BY DEF Heard
    <3> QED  BY <3>2, <3>3, <3>4
  <2> QED  BY <2>1, <2>5, <2>6
<1> QED  BY <1>3, <1>4, <1>5, <1>6, TakenMoves

-----------------------------------------------------------------------------
(* The theorems. *)

LEMMA InitIInv == Init => IInv
<1> SUFFICES ASSUME Init PROVE IInv
  OBVIOUS
<1> USE DEF Init, S!Init
<1>e. (\A D : <<>> \in Seq(D)) /\ (\A q : q = <<>> => Len(q) = 0)
  OBVIOUS
<1>1. Driver!Init
  BY DEF Driver!Init, Packets
<1>2. Driver!FlagsOK /\ Driver!DataOK /\ Driver!SendTracked /\ Driver!StreamSplit
  BY <1>1, SessionAssumption, Driver!FlagsInit, Driver!DataInit, Driver!TrackedInit,
     Driver!SplitInit
<1>3. ClientOK /\ BrokerOK
  BY <1>e DEF ClientOK, BrokerOK, States, Topics, Points, NoCommands, NoBroker
<1>4. InStep /\ Dialling /\ PeerOfConnection
  BY DEF InStep, Dialling, PeerOfConnection, Sending, Fetching
<1>5. SaidOnce /\ ConnectedFirst
  BY DEF SaidOnce, ConnectedFirst
<1>6. SubscribesArrive /\ SubscribeGiven /\ ActiveIsSubscribed
  BY <1>e DEF SubscribesArrive, SubscribeGiven, ActiveIsSubscribed, S!Live
<1>7. AtMostOnce
  <2>1. \A t \in Topics : CommandsFor(t) = Among(stream, taken, t)
    BY DEF CommandsFor, Among
  <2>2. \A t \in Topics : Cardinality(Among(stream, taken, t)) \in Nat
    BY AmongCounted
  <2> QED  BY <2>1, <2>2 DEF AtMostOnce, NoCommands
<1> QED  BY <1>2, <1>3, <1>4, <1>5, <1>6, <1>7 DEF IInv

LEMMA NextIInv == IInv /\ [Next]_vars => IInv'
<1> SUFFICES ASSUME IInv, [Next]_vars PROVE IInv'
  OBVIOUS
<1>1. /\ Driver!FlagsOK /\ Driver!DataOK /\ Driver!SendTracked /\ Driver!StreamSplit
      /\ ClientOK /\ BrokerOK
  BY DEF IInv
<1>2. Driver!FlagsOK' /\ Driver!DataOK' /\ Driver!SendTracked' /\ Driver!StreamSplit'
  BY <1>1, DriverNext
<1>3. ClientOK' /\ BrokerOK'
  BY <1>1, ClientNext, BrokerNext
<1>4. InStep' /\ Dialling' /\ PeerOfConnection'
  BY InStepNext, DiallingNext, PeerOfConnectionNext
<1>5. SaidOnce' /\ ConnectedFirst'
  BY <1>3, <1>4, SaidOnceNext, ConnectedFirstNext
<1>6. SubscribesArrive' /\ SubscribeGiven' /\ ActiveIsSubscribed'
  BY <1>4, SubscribesArriveNext, SubscribeGivenNext, ActiveNext
<1>7. AtMostOnce'
  BY <1>2, AtMostOnceNext
<1> QED  BY <1>2, <1>3, <1>4, <1>5, <1>6, <1>7 DEF IInv

\* Every variable keeps its type, and the client stays in step with the driver
\* and the broker.
THEOREM SessionInvariance == Spec => [](IInv /\ TypeOK)
<1>1. IInv => TypeOK
  BY DEF IInv, TypeOK, Driver!FlagsOK, Driver!DataOK, ClientOK, BrokerOK, S!TypeOK,
     S!Status, Driver!Status, S!Live, Driver!Live, S!Leaving, Driver!Leaving, S!Places,
     Driver!Places, S!Results, Driver!Results
<1> QED  BY <1>1, InitIInv, NextIInv, PTL DEF Spec

\* The client is CONNECTED only when the broker has accepted the CONNECT of the
\* connection in use: no answer of an earlier connection can be taken for it.
THEOREM ConnectedMeansAccepted == Spec => []ConnectedIsAccepted
<1>1. IInv /\ TypeOK => ConnectedIsAccepted
  BY DEF IInv, ConnectedFirst, ConnectedIsAccepted
<1> QED  BY <1>1, SessionInvariance, PTL

\* A slot is active only when its SUBSCRIBE was given to this very connection.
THEOREM SlotsAreSubscribed == Spec => []ActiveIsSubscribed
<1>1. IInv => ActiveIsSubscribed
  BY DEF IInv
<1> QED  BY <1>1, SessionInvariance, PTL

\* A chime is commanded at most once for each command that has arrived for it.
THEOREM CommandedAtMostOnce == Spec => []AtMostOnce
<1>1. IInv => AtMostOnce
  BY DEF IInv
<1> QED  BY <1>1, SessionInvariance, PTL

\* The client and the broker move the socket only as W5500Socket lets its
\* caller and its peer: the session is an implementation of the driver's
\* environment.
THEOREM SessionDrivesSocket == Spec => Driver!Init /\ [][Driver!Next]_Driver!vars
<1>1. Init => Driver!Init
  BY DEF Init, S!Init, Driver!Init, Packets
<1>2. IInv /\ [Next]_vars => [Driver!Next]_Driver!vars
  BY NextIsDriver DEF IInv
<1> QED  BY <1>1, <1>2, SessionInvariance, PTL DEF Spec

\* So what is proved of the driver holds under them: a packet at a time is
\* unacknowledged, and recv() returns the broker's stream.
THEOREM SessionStreamIntact == Spec => [](Driver!OneUnacknowledged /\ Driver!StreamIntact)
<1>1. IInv => Driver!StreamIntact
  BY Driver!SplitIsStream, SessionAssumption DEF IInv
<1>2. IInv => Driver!OneUnacknowledged
  BY DEF IInv, Driver!SendTracked, Driver!OneUnacknowledged
<1> QED  BY <1>1, <1>2, SessionInvariance, PTL

=============================================================================
