----------------------- MODULE MqttKeepalive_proofs -----------------------
(***************************************************************************)
(* The keepalive for every interval, lateness of the main loop and round   *)
(* trip TimeAssumption admits, and across the wrap of the clock: the only  *)
(* stamp that may be older than the clock can tell is last_ping, when      *)
(* publications keep the socket busy at every pass.                        *)
(***************************************************************************)
EXTENDS MqttKeepalive, TLAPS

\* What the clock says of the two stamps.
ActivityAge == Elapsed(last_activity)
PingAge == Elapsed(last_ping)

\* loop() has not let the silence grow longer.
ActivityRecent == connected => ActivityAge <= GiveUpAfter + pass_age

\* The ages that only count with the broker there, or only without it.
AgesOK ==
  /\ alive => lost_age = 0
  /\ alive /\ ~Free => flight_age <= RoundTrip

\* With the broker there: a publication in flight is recent activity, a ping
\* in flight is answered in time, and a free socket has been used lately.
Answered ==
  connected /\ alive =>
    /\ flight = "publish" => ActivityAge <= flight_age
    /\ flight = "ping" /\ ~inbox =>
         ActivityAge <= PingAfter + RoundTrip + 2 * MaxGap + flight_age
    /\ Free /\ ~inbox =>
         \/ ActivityAge <= RoundTrip + pass_age
         \/ /\ ActivityAge <= PingAge + RoundTrip + MaxGap
            /\ PingAge <= PingAfter + pass_age

\* With the broker there: what it has not heard is on its way, or the next
\* ping is not due.
Heard ==
  connected /\ alive =>
    /\ Free => \/ heard_age <= pass_age
               \/ /\ heard_age <= PingAge + MaxGap
                  /\ PingAge <= PingAfter + pass_age
    /\ ~Free => heard_age <= PingAfter + 2 * MaxGap + flight_age

\* Without the broker: nothing but one buffer of old data and one last packet
\* renews the activity.
Lost ==
  connected /\ ~alive =>
    /\ inbox => lost_age <= pass_age
    /\ Free => lost_age <= ActivityAge + MaxGap
    /\ Free => \/ lost_age <= pass_age
               \/ /\ lost_age <= PingAge + MaxGap
                  /\ PingAge <= PingAfter + pass_age
    /\ ~Free => lost_age <= PingAfter + MaxGap + ActivityAge

\* The inductive invariant.
IInv == TypeOK /\ ActivityRecent /\ AgesOK /\ Answered /\ Heard /\ Lost

-----------------------------------------------------------------------------
(* The clock and the limits. *)

\* The limits of loop() are numbers, and far below the modulus.
LEMMA Limits ==
  /\ PingAfter \in Nat /\ GiveUpAfter \in Nat
  /\ Wrap \in Nat \ {0} /\ MaxGap \in Nat \ {0} /\ RoundTrip \in Nat
  /\ PingAfter + GiveUpAfter + 3 * MaxGap < Wrap
  /\ PingAfter + 2 * RoundTrip + 2 * MaxGap < GiveUpAfter
<1>1. PingAfter \in Nat /\ GiveUpAfter \in Nat
  BY TimeAssumption DEF PingAfter, GiveUpAfter
<1> QED  BY <1>1, TimeAssumption

\* The readings of the clock.
LEMMA AgesType ==
  ASSUME TypeOK
  PROVE  /\ ActivityAge \in 0 .. Wrap - 1 /\ PingAge \in 0 .. Wrap - 1
         /\ Elapsed(now) = 0
<1>1. now \in 0 .. Wrap - 1 /\ last_activity \in 0 .. Wrap - 1
      /\ last_ping \in 0 .. Wrap - 1
  BY DEF TypeOK
<1> QED  BY <1>1, Limits DEF ActivityAge, PingAge, Elapsed

\* A tick ages both stamps.
LEMMA AgesTick ==
  ASSUME TypeOK, Tick
  PROVE  /\ ActivityAge' = IF ActivityAge + 1 < Wrap THEN ActivityAge + 1 ELSE 0
         /\ PingAge' = IF PingAge + 1 < Wrap THEN PingAge + 1 ELSE 0
<1>1. now \in 0 .. Wrap - 1 /\ last_activity \in 0 .. Wrap - 1
      /\ last_ping \in 0 .. Wrap - 1
  BY DEF TypeOK
<1>2. now' = (now + 1) % Wrap /\ last_activity' = last_activity
      /\ last_ping' = last_ping
  BY DEF Tick
<1> QED  BY <1>1, <1>2, Limits DEF ActivityAge, PingAge, Elapsed

-----------------------------------------------------------------------------
(* Type correctness. *)

\* The flags, and the numbers.
Flags ==
  /\ connected \in BOOLEAN /\ inbox \in BOOLEAN /\ alive \in BOOLEAN
  /\ flight \in {"none", "ping", "publish"}

Numbers ==
  /\ now \in 0 .. Wrap - 1
  /\ last_activity \in 0 .. Wrap - 1 /\ last_ping \in 0 .. Wrap - 1
  /\ pass_age \in 0 .. MaxGap
  /\ flight_age \in 0 .. Wrap /\ heard_age \in 0 .. Wrap
  /\ lost_age \in 0 .. Wrap

LEMMA InitType == Init => TypeOK
<1>1. Init => Flags
  BY DEF Init, Flags
<1>2. Init => Numbers
  BY Limits DEF Init, Numbers
<1> QED  BY <1>1, <1>2 DEF TypeOK, Flags, Numbers

LEMMA FlagsNext == Flags /\ [Next]_vars => Flags'
BY DEF Flags, Next, vars, Tick, Pass, Ping, Launch, Silent, Publish, Reconnect,
       Arrive, Forward, Vanish

LEMMA NumbersNext == Numbers /\ [Next]_vars => Numbers'
<1> SUFFICES ASSUME Numbers, [Next]_vars PROVE Numbers'
  OBVIOUS
<1> USE Limits DEF Numbers
<1>1. CASE Tick
  <2>1. now' \in 0 .. Wrap - 1
    BY <1>1 DEF Tick
  <2> QED  BY <1>1, <2>1 DEF Tick, Succ
<1>2. CASE Pass
  BY <1>2 DEF Pass, Activity, Ping, Launch
<1>3. CASE Publish
  BY <1>3 DEF Publish, Launch
<1>4. CASE Reconnect
  BY <1>4 DEF Reconnect
<1>5. CASE Arrive
  BY <1>5 DEF Arrive
<1>6. CASE Forward
  BY <1>6 DEF Forward
<1>7. CASE Vanish
  BY <1>7 DEF Vanish
<1>8. CASE UNCHANGED vars
  BY <1>8 DEF vars
<1> QED  BY <1>1, <1>2, <1>3, <1>4, <1>5, <1>6, <1>7, <1>8 DEF Next

LEMMA NextType == TypeOK /\ [Next]_vars => TypeOK'
<1>1. TypeOK <=> Flags /\ Numbers
  BY DEF TypeOK, Flags, Numbers
<1>2. TypeOK' <=> Flags' /\ Numbers'
  BY DEF TypeOK, Flags, Numbers
<1> QED  BY <1>1, <1>2, FlagsNext, NumbersNext

\* The stamps, ages and flags stay in their sets.
THEOREM TypeCorrect == Spec => []TypeOK
  BY InitType, NextType, PTL DEF Spec

-----------------------------------------------------------------------------
(* The invariant is inductive. *)

\* Every other step leaves a stamp's age as it is or renews it.
LEMMA AgesStill ==
  ASSUME TypeOK, now' = now
  PROVE  /\ last_activity' = last_activity => ActivityAge' = ActivityAge
         /\ last_activity' = now => ActivityAge' = 0
         /\ last_ping' = last_ping => PingAge' = PingAge
         /\ last_ping' = now => PingAge' = 0
<1>1. Elapsed(now) = 0
  BY AgesType
<1> QED  BY <1>1 DEF ActivityAge, PingAge, Elapsed

\* At the start all ages are zero.
LEMMA InitInv == Init => IInv
<1> SUFFICES ASSUME Init PROVE IInv
  OBVIOUS
<1>1. TypeOK
  BY InitType
<1>2. ActivityAge = 0 /\ PingAge = 0
  BY <1>1, AgesType DEF Init, ActivityAge, PingAge
<1>3. /\ alive = TRUE /\ flight = "none"
      /\ pass_age = 0 /\ flight_age = 0 /\ heard_age = 0 /\ lost_age = 0
  BY DEF Init
<1>4. ActivityRecent /\ AgesOK
  BY <1>2, <1>3, Limits DEF ActivityRecent, AgesOK, Free
<1>5. Answered /\ Heard /\ Lost
  BY <1>2, <1>3, Limits DEF Answered, Heard, Lost, Free
<1> QED  BY <1>1, <1>4, <1>5 DEF IInv

\* The parts of the invariant that speak of time.
Timing == ActivityRecent /\ AgesOK /\ Answered /\ Heard /\ Lost

\* Time passes: no age overtakes its bound before the next pass or the
\* answer of the broker, which a tick does not overrun.
LEMMA TickInv == IInv /\ Tick => Timing'
<1> SUFFICES ASSUME IInv, Tick PROVE Timing'
  OBVIOUS
<1>1. Numbers
  BY DEF IInv, TypeOK, Numbers
<1>2. /\ ActivityAge \in 0 .. Wrap - 1 /\ PingAge \in 0 .. Wrap - 1
      /\ ActivityAge' = IF ActivityAge + 1 < Wrap THEN ActivityAge + 1 ELSE 0
      /\ PingAge' = IF PingAge + 1 < Wrap THEN PingAge + 1 ELSE 0
  BY AgesType, AgesTick DEF IInv
<1>3. /\ pass_age < MaxGap /\ pass_age' = pass_age + 1
      /\ alive /\ ~Free => flight_age < RoundTrip
      /\ flight_age' = IF alive /\ ~Free THEN Succ(flight_age) ELSE 0
      /\ heard_age' = IF alive THEN Succ(heard_age) ELSE 0
      /\ lost_age' = IF alive THEN 0 ELSE Succ(lost_age)
      /\ connected' = connected /\ flight' = flight /\ inbox' = inbox
      /\ alive' = alive /\ (Free' <=> Free)
      /\ flight \in {"publish", "ping"} => ~Free
  BY DEF Tick, Free
<1> USE Limits, <1>1, <1>2, <1>3 DEF Numbers, Succ
<1>4. ActivityRecent'
  BY DEF IInv, ActivityRecent
<1>5. AgesOK'
  BY DEF IInv, AgesOK
<1>6. Answered'
  BY DEF IInv, Answered, ActivityRecent
<1>7. Heard'
  BY DEF IInv, Heard
<1>8. Lost'
  BY DEF IInv, Lost, ActivityRecent
<1> QED  BY <1>4, <1>5, <1>6, <1>7, <1>8 DEF Timing

\* A pass renews the activity by what it reads, gives up what has been silent
\* too long, and pings as soon as a ping is due and the socket is free.
LEMMA PassInv == IInv /\ Pass => Timing'
<1> SUFFICES ASSUME IInv, Pass PROVE Timing'
  OBVIOUS
<1>1. Numbers /\ Flags
  BY DEF IInv, TypeOK, Numbers, Flags
<1>2. /\ ActivityAge \in 0 .. Wrap - 1 /\ PingAge \in 0 .. Wrap - 1
      /\ ActivityAge' = IF inbox THEN 0 ELSE ActivityAge
      /\ connected /\ (connected' => ActivityAge' <= GiveUpAfter)
  <2>1. /\ connected /\ now' = now
        /\ connected' => ~(Elapsed(last_activity') > GiveUpAfter)
    BY DEF Pass, Silent
  <2>2. ActivityAge' = Elapsed(last_activity')
    BY <2>1 DEF ActivityAge, Elapsed
  <2>3. ActivityAge' = IF inbox THEN 0 ELSE ActivityAge
    BY <2>1, AgesStill DEF IInv, Pass, Activity
  <2>4. ActivityAge \in 0 .. Wrap - 1 /\ PingAge \in 0 .. Wrap - 1
    BY AgesType DEF IInv
  <2>5. ActivityAge' \in 0 .. Wrap - 1
    BY <2>3, <2>4, Limits
  <2>6. ~(ActivityAge' > GiveUpAfter) => ActivityAge' <= GiveUpAfter
    BY <2>5, Limits
  <2> QED  BY <2>1, <2>2, <2>3, <2>4, <2>6
<1>3. \/ /\ Free /\ PingAge > PingAfter
         /\ flight' = "ping" /\ flight_age' = 0
      \/ /\ ~Free \/ ~(PingAge > PingAfter)
         /\ flight' = flight /\ flight_age' = flight_age
         /\ PingAge' = PingAge
  BY AgesStill DEF IInv, Pass, Ping, Launch, PingAge
<1>4. /\ ~inbox' /\ pass_age' = 0
      /\ alive' = alive /\ heard_age' = heard_age /\ lost_age' = lost_age
      /\ Free' <=> flight' = "none"
      /\ flight' \in {"publish", "ping"} => ~Free'
      /\ flight \in {"publish", "ping"} => ~Free
  BY DEF Pass, Free
<1> USE Limits, <1>1, <1>2, <1>3, <1>4 DEF Numbers, Flags, Free
<1>5. ActivityRecent'
  BY DEF IInv, ActivityRecent
<1>6. AgesOK'
  BY DEF IInv, AgesOK
<1>7. Answered'
  BY DEF IInv, Answered, ActivityRecent
<1>8. Heard'
  BY DEF IInv, Heard
<1>9. Lost'
  BY DEF IInv, Lost, ActivityRecent
<1> QED  BY <1>5, <1>6, <1>7, <1>8, <1>9 DEF Timing

\* A publication that is taken is activity, and only taken at once after a
\* pass.
LEMMA PublishInv == IInv /\ Publish => Timing'
<1> SUFFICES ASSUME IInv, Publish PROVE Timing'
  OBVIOUS
<1>1. Numbers /\ Flags
  BY DEF IInv, TypeOK, Numbers, Flags
<1>2. /\ ActivityAge \in 0 .. Wrap - 1 /\ PingAge \in 0 .. Wrap - 1
      /\ ActivityAge' = 0 /\ PingAge' = PingAge
  BY AgesType, AgesStill DEF IInv, Publish
<1>3. /\ Free /\ ~Free' /\ flight' = "publish" /\ flight_age' = 0
      /\ pass_age = 0 /\ pass_age' = 0 /\ connected' = connected
      /\ inbox' = inbox /\ alive' = alive
      /\ heard_age' = heard_age /\ lost_age' = lost_age
  BY DEF Publish, Launch, Free
<1> USE Limits, <1>1, <1>2, <1>3 DEF Numbers, Flags
<1>4. ActivityRecent'
  BY DEF ActivityRecent
<1>5. AgesOK'
  BY DEF IInv, AgesOK
<1>6. Answered'
  BY DEF Answered
<1>7. Heard'
  BY DEF IInv, Heard
<1>8. Lost'
  BY DEF IInv, Lost
<1> QED  BY <1>4, <1>5, <1>6, <1>7, <1>8 DEF Timing

\* A new session starts with all ages at zero.
LEMMA ReconnectInv == IInv /\ Reconnect => Timing'
<1> SUFFICES ASSUME IInv, Reconnect PROVE Timing'
  OBVIOUS
<1>1. ActivityAge' = 0 /\ PingAge' = 0
  BY AgesStill DEF IInv, Reconnect
<1>2. /\ alive' /\ Free' /\ flight' = "none"
      /\ pass_age' = 0 /\ flight_age' = 0 /\ heard_age' = 0 /\ lost_age' = 0
  BY DEF Reconnect, Free
<1>3. ActivityRecent' /\ AgesOK'
  BY <1>1, <1>2, Limits DEF ActivityRecent, AgesOK
<1>4. Answered' /\ Heard' /\ Lost'
  BY <1>1, <1>2, Limits DEF Answered, Heard, Lost
<1> QED  BY <1>3, <1>4 DEF Timing

\* What arrives at the broker, what it forwards, and its end leave the stamps.
LEMMA BrokerStamps ==
  ASSUME IInv, Arrive \/ Forward \/ Vanish \/ UNCHANGED vars
  PROVE  /\ ActivityAge' = ActivityAge /\ PingAge' = PingAge
         /\ ActivityAge \in 0 .. Wrap - 1 /\ PingAge \in 0 .. Wrap - 1
         /\ pass_age' = pass_age /\ connected' = connected
<1>1. /\ now' = now /\ last_activity' = last_activity /\ last_ping' = last_ping
      /\ pass_age' = pass_age /\ connected' = connected
  BY DEF Arrive, Forward, Vanish, vars
<1> QED  BY <1>1, AgesType, AgesStill DEF IInv

\* The broker hears, and after a ping its answer is on the way.
LEMMA ArriveInv == IInv /\ Arrive => Timing'
<1> SUFFICES ASSUME IInv, Arrive PROVE Timing'
  OBVIOUS
<1>1. Numbers /\ Flags
  BY DEF IInv, TypeOK, Numbers, Flags
<1>2. /\ alive /\ alive' = alive /\ ~Free /\ Free' /\ flight' = "none"
      /\ flight = "ping" => inbox'
      /\ inbox => inbox'
      /\ flight_age' = 0 /\ heard_age' = 0 /\ lost_age' = lost_age
  BY DEF Arrive, Free
<1>3. ~inbox' => ~inbox /\ flight = "publish"
  BY <1>1, <1>2 DEF Flags, Free
<1> USE Limits, BrokerStamps, <1>1, <1>2, <1>3 DEF Numbers
<1>4. ActivityRecent'
  BY DEF IInv, ActivityRecent
<1>5. AgesOK'
  BY DEF IInv, AgesOK
<1>6. Answered'
  <2>1. connected' /\ ~inbox' => ActivityAge <= flight_age /\ flight_age <= RoundTrip
    BY DEF IInv, Answered, AgesOK
  <2>2. connected' /\ ~inbox' => ActivityAge' <= RoundTrip + pass_age'
    BY <2>1
  <2> QED  BY <2>2 DEF Answered
<1>7. Heard' /\ Lost'
  BY DEF Heard, Lost
<1> QED  BY <1>4, <1>5, <1>6, <1>7 DEF Timing

\* The broker forwards: only the inbox fills.
LEMMA ForwardInv == IInv /\ Forward => Timing'
<1> SUFFICES ASSUME IInv, Forward PROVE Timing'
  OBVIOUS
<1>1. /\ alive /\ alive' = alive /\ (Free' <=> Free) /\ flight' = flight /\ inbox'
      /\ flight_age' = flight_age /\ heard_age' = heard_age
      /\ lost_age' = lost_age
  BY DEF Forward, Free
<1> USE BrokerStamps, <1>1
<1>2. ActivityRecent' /\ AgesOK'
  BY DEF IInv, ActivityRecent, AgesOK
<1>3. Answered'
  BY DEF IInv, Answered
<1>4. Heard' /\ Lost'
  BY DEF IInv, Heard, Lost
<1> QED  BY <1>2, <1>3, <1>4 DEF Timing

\* The broker goes: its absence starts at age zero.
LEMMA VanishInv == IInv /\ Vanish => Timing'
<1> SUFFICES ASSUME IInv, Vanish PROVE Timing'
  OBVIOUS
<1>1. Numbers
  BY DEF IInv, TypeOK, Numbers
<1>2. ~alive' /\ lost_age' = lost_age /\ lost_age = 0
  BY DEF IInv, AgesOK, Vanish
<1> USE Limits, BrokerStamps, <1>1, <1>2 DEF Numbers
<1>3. ActivityRecent' /\ AgesOK'
  BY DEF IInv, ActivityRecent, AgesOK
<1>4. Answered' /\ Heard'
  BY DEF Answered, Heard
<1>5. Lost'
  BY DEF Lost
<1> QED  BY <1>3, <1>4, <1>5 DEF Timing

\* Nothing happens.
LEMMA StutterInv == IInv /\ UNCHANGED vars => Timing'
BY DEF IInv, Timing, vars, ActivityRecent, AgesOK, Answered, Heard, Lost,
       ActivityAge, PingAge, Elapsed, Free

\* Every step keeps the invariant.
LEMMA NextInv == IInv /\ [Next]_vars => IInv'
<1> SUFFICES ASSUME IInv, [Next]_vars PROVE IInv'
  OBVIOUS
<1>1. TypeOK'
  BY NextType DEF IInv
<1>2. Timing'
  BY TickInv, PassInv, PublishInv, ReconnectInv, ArriveInv, ForwardInv,
     VanishInv, StutterInv DEF Next
<1> QED  BY <1>1, <1>2 DEF IInv, Timing

\* The inductive invariant holds throughout.
LEMMA Inductive == Spec => []IInv
  BY InitInv, NextInv, PTL DEF Spec

-----------------------------------------------------------------------------
(* What follows. *)

\* A broker that is gone is noticed after at most one ping interval, one
\* silence and the lateness of two passes, whatever is published meanwhile.
THEOREM LossIsNoticed == Spec => []LossNoticed
<1>1. IInv => LossNoticed
  <2> SUFFICES ASSUME IInv, connected, ~alive
               PROVE  lost_age <= PingAfter + GiveUpAfter + 2 * MaxGap
    BY DEF LossNoticed
  <2>1. Numbers
    BY DEF IInv, TypeOK, Numbers
  <2>2. ActivityAge \in 0 .. Wrap - 1 /\ ActivityAge <= GiveUpAfter + pass_age
    BY AgesType DEF IInv, ActivityRecent
  <2>3. lost_age <= ActivityAge + MaxGap \/ lost_age <= PingAfter + MaxGap + ActivityAge
    BY DEF IInv, Lost
  <2> QED  BY <2>1, <2>2, <2>3, Limits DEF Numbers
<1> QED  BY <1>1, Inductive, PTL

\* The broker hears from the client before its own patience ends.
THEOREM BrokerIsServed == Spec => []BrokerHears
<1>1. IInv => BrokerHears
  <2> SUFFICES ASSUME IInv, connected, alive PROVE heard_age <= GiveUpAfter
    BY DEF BrokerHears
  <2>1. Numbers /\ PingAge \in 0 .. Wrap - 1
    BY AgesType DEF IInv, TypeOK, Numbers
  <2>2. CASE Free
    <3>1. \/ heard_age <= pass_age
          \/ heard_age <= PingAge + MaxGap /\ PingAge <= PingAfter + pass_age
      BY <2>2 DEF IInv, Heard
    <3> QED  BY <2>1, <3>1, Limits DEF Numbers
  <2>3. CASE ~Free
    <3>1. heard_age <= PingAfter + 2 * MaxGap + flight_age /\ flight_age <= RoundTrip
      BY <2>3 DEF IInv, Heard, AgesOK
    <3> QED  BY <2>1, <3>1, Limits DEF Numbers
  <2> QED  BY <2>2, <2>3
<1> QED  BY <1>1, Inductive, PTL

\* A session is only given up when the broker is gone: with the broker there,
\* either something has come in, or the silence is shorter than the limit.
THEOREM NoSessionGivenUp == Spec => NoFalseAlarm
<1>1. IInv /\ [Next]_vars => [connected /\ ~connected' => ~alive]_vars
  <2> SUFFICES ASSUME IInv, Next, connected, ~connected', alive PROVE FALSE
    BY DEF vars
  <2>1. Pass
    BY DEF Next, Tick, Publish, Reconnect, Arrive, Forward, Vanish
  <2>2. Numbers /\ Flags
    BY DEF IInv, TypeOK, Numbers, Flags
  <2>3. ActivityAge \in 0 .. Wrap - 1 /\ PingAge \in 0 .. Wrap - 1
    BY AgesType DEF IInv
  <2>4. Elapsed(last_activity') > GiveUpAfter /\ now' = now
    BY <2>1 DEF Pass, Silent
  <2>5. ActivityAge' > GiveUpAfter
    BY <2>4 DEF ActivityAge, Elapsed
  <2>6. ActivityAge' = IF inbox THEN 0 ELSE ActivityAge
    BY <2>1, <2>4, AgesStill DEF IInv, Pass, Activity
  <2>7. ~inbox /\ ActivityAge > GiveUpAfter
    BY <2>5, <2>6, Limits
  <2>8. CASE Free
    <3>1. \/ ActivityAge <= RoundTrip + pass_age
          \/ /\ ActivityAge <= PingAge + RoundTrip + MaxGap
             /\ PingAge <= PingAfter + pass_age
      BY <2>7, <2>8 DEF IInv, Answered
    <3> QED  BY <2>2, <2>3, <2>7, <3>1, Limits DEF Numbers
  <2>9. CASE ~Free
    <3>1. /\ \/ ActivityAge <= flight_age
             \/ ActivityAge <= PingAfter + RoundTrip + 2 * MaxGap + flight_age
          /\ flight_age <= RoundTrip
      BY <2>2, <2>7, <2>9 DEF IInv, Answered, AgesOK, Flags, Free
    <3> QED  BY <2>2, <2>3, <2>7, <3>1, Limits DEF Numbers
  <2> QED  BY <2>8, <2>9
<1> QED  BY <1>1, Inductive, PTL DEF Spec, NoFalseAlarm
=============================================================================
