--------------------------- MODULE MqttKeepalive ---------------------------
(***************************************************************************)
(* The keepalive of src/MQTT/MinimalMQTT.cpp over the millisecond clock:   *)
(* when loop() pings, when it gives the session up, what it takes for      *)
(* activity, and how a send that is still unacknowledged gets in the way.  *)
(*                                                                         *)
(* Time passes in ticks.  A pass of the main loop comes at most MaxGap     *)
(* ticks after the last one, and a broker that is there answers within     *)
(* RoundTrip ticks.  The broker, or the way to it, may be gone at any time *)
(* without a word; that the chip itself gives up is left out, so that the  *)
(* client is shown to notice on its own.                                   *)
(***************************************************************************)
EXTENDS Integers

CONSTANTS
  Wrap,       \* 2^32: the modulus of the clock
  Interval,   \* ticks of the keepalive interval (config_.keepalive)
  MaxGap,     \* ticks between two passes of the main loop
  RoundTrip   \* ticks until a broker that is there has answered

\* loop() computes the two limits from the interval.
PingAfter == (Interval * 3) \div 4
GiveUpAfter == (Interval * 3) \div 2

ASSUME TimeAssumption ==
  /\ Interval \in Nat \ {0} /\ MaxGap \in Nat \ {0} /\ RoundTrip \in Nat
  /\ Wrap \in Nat
  /\ PingAfter + GiveUpAfter + 3 * MaxGap < Wrap
  /\ PingAfter + 2 * RoundTrip + 2 * MaxGap < GiveUpAfter

VARIABLES
  now,            \* TimerService::millis()
  connected,      \* state_ = CONNECTED
  last_activity,  \* last_activity_
  last_ping,      \* last_ping_
  flight,         \* the packet that is not acknowledged, "none" if there is none
  inbox,          \* has the broker sent something loop() has not read?
  alive,          \* is the broker there?
  \* History: ticks since ...
  pass_age,       \* the last pass
  flight_age,     \* the packet in flight was sent, while the broker is there
  heard_age,      \* the broker got a packet, while it is there
  lost_age        \* the broker went

vars == <<now, connected, last_activity, last_ping, flight, inbox, alive,
          pass_age, flight_age, heard_age, lost_age>>

Elapsed(t) == (now - t) % Wrap

\* A sent packet occupies the socket until it is acknowledged: send() is busy.
Free == flight = "none"
Launch(p) == flight' = p /\ flight_age' = 0

-----------------------------------------------------------------------------

Init ==
  /\ now \in {0, Wrap - 1} /\ connected = TRUE
  /\ last_activity = now /\ last_ping = now
  /\ flight = "none" /\ inbox = FALSE /\ alive = TRUE
  /\ pass_age = 0 /\ flight_age = 0 /\ heard_age = 0 /\ lost_age = 0

Succ(n) == IF n < Wrap THEN n + 1 ELSE n

Tick ==
  /\ pass_age < MaxGap
  /\ alive /\ flight # "none" => flight_age < RoundTrip
  /\ now' = (now + 1) % Wrap
  /\ pass_age' = pass_age + 1
  /\ flight_age' = IF alive /\ ~Free THEN Succ(flight_age) ELSE 0
  /\ heard_age' = IF alive THEN Succ(heard_age) ELSE 0
  /\ lost_age' = IF alive THEN 0 ELSE Succ(lost_age)
  /\ UNCHANGED <<connected, last_activity, last_ping, flight, inbox, alive>>

\* Faulty variant: a ping is only sent when nothing has been received either.
Ping_WhenIdle ==
  IF Elapsed(last_activity') > PingAfter /\ Free
  THEN Launch("ping") /\ last_ping' = now
  ELSE UNCHANGED <<flight, flight_age, last_ping>>

\* A PINGREQ that send() does not take is tried again in the next pass.
Ping ==
  IF Elapsed(last_ping) > PingAfter /\ Free
  THEN Launch("ping") /\ last_ping' = now
  ELSE UNCHANGED <<flight, flight_age, last_ping>>

\* Faulty variant: what comes in does not count as activity.
Activity_Never == last_activity' = last_activity

\* process_incoming_packet(): whatever came in is activity.
Activity == last_activity' = IF inbox THEN now ELSE last_activity

Silent(t) == Elapsed(t) > GiveUpAfter

\* loop()
Pass ==
  /\ connected
  /\ Activity
  /\ Ping
  /\ connected' = ~Silent(last_activity')
  /\ inbox' = FALSE
  /\ pass_age' = 0
  /\ UNCHANGED <<now, alive, heard_age, lost_age>>

\* Faulty variant: a publication counts as activity also when it was refused.
Publish_Always ==
  /\ connected /\ pass_age = 0
  /\ last_activity' = now
  /\ IF Free THEN Launch("publish") ELSE UNCHANGED <<flight, flight_age>>
  /\ UNCHANGED <<now, connected, last_ping, inbox, alive, pass_age, heard_age,
                 lost_age>>

\* publish() and subscribe(), after loop(): sent is activity, refused is not.
Publish ==
  /\ connected /\ pass_age = 0
  /\ Free
  /\ Launch("publish") /\ last_activity' = now
  /\ UNCHANGED <<now, connected, last_ping, inbox, alive, pass_age, heard_age,
                 lost_age>>

\* connect() succeeds.
Reconnect ==
  /\ ~connected
  /\ connected' = TRUE /\ last_activity' = now /\ last_ping' = now
  /\ flight' = "none" /\ inbox' = FALSE /\ alive' = TRUE
  /\ pass_age' = 0 /\ flight_age' = 0 /\ heard_age' = 0 /\ lost_age' = 0
  /\ UNCHANGED now

-----------------------------------------------------------------------------
(* The broker *)

\* It gets the packet, the acknowledgement and the answer to a ping go back.
Arrive ==
  /\ alive /\ flight # "none"
  /\ inbox' = (inbox \/ flight = "ping")
  /\ flight' = "none" /\ flight_age' = 0
  /\ heard_age' = 0
  /\ UNCHANGED <<now, connected, last_activity, last_ping, alive, pass_age,
                 lost_age>>

\* It forwards a command.
Forward ==
  /\ alive /\ connected /\ ~inbox
  /\ inbox' = TRUE
  /\ UNCHANGED <<now, connected, last_activity, last_ping, flight, alive,
                 pass_age, flight_age, heard_age, lost_age>>

Vanish ==
  /\ alive /\ connected
  /\ alive' = FALSE /\ flight_age' = 0 /\ heard_age' = 0
  /\ UNCHANGED <<now, connected, last_activity, last_ping, flight, inbox,
                 pass_age, lost_age>>

Next == Tick \/ Pass \/ Publish \/ Reconnect \/ Arrive \/ Forward \/ Vanish

Spec == Init /\ [][Next]_vars

-----------------------------------------------------------------------------
(* Properties. *)

\* Type invariant.
TypeOK ==
  /\ now \in 0 .. Wrap - 1
  /\ last_activity \in 0 .. Wrap - 1 /\ last_ping \in 0 .. Wrap - 1
  /\ connected \in BOOLEAN /\ inbox \in BOOLEAN /\ alive \in BOOLEAN
  /\ flight \in {"none", "ping", "publish"}
  /\ pass_age \in 0 .. MaxGap
  /\ flight_age \in 0 .. Wrap /\ heard_age \in 0 .. Wrap
  /\ lost_age \in 0 .. Wrap

\* A broker that is gone is noticed, although publications keep counting as
\* activity: at the latest one ping interval and one silence after it went,
\* each with the lateness of a pass.
LossNoticed ==
  connected /\ ~alive => lost_age <= PingAfter + GiveUpAfter + 2 * MaxGap

\* A session with a broker that answers is never given up.
NoFalseAlarm == [][connected /\ ~connected' => ~alive]_vars

\* The broker, which waits one and a half intervals, hears from the client in
\* time, so that it does not end the session either.
BrokerHears == connected /\ alive => heard_age <= GiveUpAfter
=============================================================================
