--------------------------- MODULE SmartBell_proofs ---------------------------
(***************************************************************************)
(* The main loop retries in time, keeps to the saved broker and is bitten  *)
(* by the watchdog for a reason only: for any brokers, conditions of the   *)
(* network and times that TimeAssumption admits.                           *)
(***************************************************************************)
EXTENDS SmartBell, TLAPS

-----------------------------------------------------------------------------
(* The inductive invariant. *)

\* connect() is under way.
Connecting == pc \in {"dial", "connack", "hangup", "spin"}

\* connect() begins by giving the session up, and only it has a caller to go
\* back to.
CallsApart ==
  /\ Connecting \/ pc = "boot" => session = NoBroker /\ offline = 0
  /\ back # "boot" => Connecting

\* A session with another broker than the one to be used is ended by the save
\* flag, at the latest.
SaveEndsSession ==
  /\ ~dirty /\ session # NoBroker /\ live # NoBroker => session = live \/ save_flag
  /\ pc = "chimes" \/ back = "save" => ~save_flag

\* Ticks of this pass up to the call of connect() that is under way, when the
\* network keeps no step waiting longer than ARP does.
Before == IF back = "save" THEN ArpTimeout ELSE 0

\* As long as nothing but ARP is waited for, the watchdog's count is bounded by
\* the place in the pass.
WdtBounded ==
  /\ pc \in {"boot", "enter"} \/ (Connecting /\ back = "boot") => ~wdt_on
  /\ wdt_on /\ ~slow =>
       /\ pc = "retry" => wdt = 0
       /\ pc = "dial" => wdt <= Before + waited /\ waited <= ArpTimeout
       /\ pc \in {"connack", "hangup", "spin"} => wdt <= Before + ArpTimeout
       /\ pc = "saved" => wdt <= ArpTimeout
       /\ pc = "chimes" => wdt <= 2 * ArpTimeout
       /\ pc = "parser" => wdt <= 2 * ArpTimeout + waited /\ waited <= 1
       /\ pc = "top" => wdt <= 2 * ArpTimeout + 1

\* The time without session and try is known from the last retry, but for one
\* tick at which the clock may have come round.
OfflineBounded ==
  /\ session # NoBroker => offline = 0
  /\ offline <= Elapsed(last_retry) + 1
  /\ offline <= RetryEvery + 1
  /\ ~configured => offline <= RetryEvery
  /\ pc \in {"saved", "chimes"} \/ (pc = "parser" /\ waited = 0) =>
       offline = 0 \/ ~configured \/ Elapsed(last_retry) < RetryEvery

IInv == TypeOK /\ CallsApart /\ SaveEndsSession /\ WdtBounded /\ OfflineBounded

-----------------------------------------------------------------------------
LEMMA Times ==
  /\ Wrap \in Nat /\ WdtLimit \in Nat /\ RetryEvery \in Nat
  /\ ArpTimeout \in Nat /\ SynTimeout \in Nat /\ ConnackWait \in Nat
  /\ 2 * ArpTimeout + 1 < WdtLimit /\ ArpTimeout < SynTimeout
  /\ WdtLimit <= ConnackWait /\ WdtLimit <= SynTimeout
  /\ RetryEvery + WdtLimit < Wrap
  BY TimeAssumption

LEMMA Zero ==
  /\ 0 \in 0 .. SynTimeout + ConnackWait /\ 0 \in 0 .. Wrap - 1 /\ 0 \in 0 .. Wrap
  /\ 0 \in 0 .. WdtLimit - 1
  BY Times

LEMMA TypeOKStep ==
  ASSUME IInv, [Next]_vars
  PROVE  TypeOK'
<1> USE Zero DEF IInv, TypeOK, place, watchdog, timers, settings, link
<1>1. CASE Boot
  BY <1>1 DEF Boot, Call, Wait
<1>2. CASE EnterLoop
  BY <1>2 DEF EnterLoop, Wait
<1>3. CASE Top
  BY <1>3 DEF Top, Wait
<1>4. CASE TopLost
  BY <1>4 DEF TopLost, Wait
<1>5. CASE Retry
  BY <1>5 DEF Retry, Call
<1>6. CASE NoRetry
  BY <1>6 DEF NoRetry, Wait
<1>7. CASE Saved
  BY <1>7 DEF Saved, Call, Wait
<1>8. CASE NotSaved
  BY <1>8 DEF NotSaved, Wait
<1>9. CASE Chimes
  BY <1>9 DEF Chimes, Wait
<1>10. CASE EndPass
  BY <1>10 DEF EndPass, Wait
<1>11. CASE DialFails
  BY <1>11 DEF DialFails, Return
<1>12. CASE DialSucceeds
  BY <1>12 DEF DialSucceeds, Wait
<1>13. CASE DialSpins
  BY <1>13 DEF DialSpins, Wait
<1>14. CASE Accepted
  BY <1>14 DEF Accepted, Return
<1>15. CASE NotAccepted
  BY <1>15 DEF NotAccepted, Wait
<1>16. CASE HungUp
  BY <1>16 DEF HungUp, Return
<1>17. ASSUME NEW b \in Brokers \cup {NoBroker}, SetBroker(b) PROVE TypeOK'
  BY <1>17 DEF SetBroker
<1>18. CASE Save
  BY <1>18 DEF Save
<1>19. CASE Reboot
  BY <1>19 DEF Reboot, Restart
<1>20. CASE Bite
  BY <1>20 DEF Bite, Restart
<1>21. CASE Tick
  BY <1>21, Times DEF Tick, Waiting, WdtDue
<1>22. CASE NetChanges
  BY <1>22 DEF NetChanges
<1>23. CASE UNCHANGED vars
  BY <1>23 DEF vars
<1> QED
  BY <1>1, <1>2, <1>3, <1>4, <1>5, <1>6, <1>7, <1>8, <1>9, <1>10, <1>11, <1>12, <1>13,
     <1>14, <1>15, <1>16, <1>17, <1>18, <1>19, <1>20, <1>21, <1>22, <1>23
     DEF Next, MainStep, ConnectStep

LEMMA CallsApartStep ==
  ASSUME IInv, [Next]_vars
  PROVE  CallsApart'
<1> USE Times DEF IInv, TypeOK, CallsApart, Connecting,
    place, watchdog, timers, settings, link
<1>1. CASE Boot
  BY <1>1 DEF Boot, Call, Wait
<1>2. CASE EnterLoop
  BY <1>2 DEF EnterLoop, Wait
<1>3. CASE Top
  BY <1>3 DEF Top, Wait
<1>4. CASE TopLost
  BY <1>4 DEF TopLost, Wait
<1>5. CASE Retry
  BY <1>5 DEF Retry, Call
<1>6. CASE NoRetry
  BY <1>6 DEF NoRetry, Wait
<1>7. CASE Saved
  BY <1>7 DEF Saved, Call, Wait
<1>8. CASE NotSaved
  BY <1>8 DEF NotSaved, Wait
<1>9. CASE Chimes
  BY <1>9 DEF Chimes, Wait
<1>10. CASE EndPass
  BY <1>10 DEF EndPass, Wait
<1>11. CASE DialFails
  BY <1>11 DEF DialFails, Return
<1>12. CASE DialSucceeds
  BY <1>12 DEF DialSucceeds, Wait
<1>13. CASE DialSpins
  BY <1>13 DEF DialSpins, Wait
<1>14. CASE Accepted
  BY <1>14 DEF Accepted, Return
<1>15. CASE NotAccepted
  BY <1>15 DEF NotAccepted, Wait
<1>16. CASE HungUp
  BY <1>16 DEF HungUp, Return
<1>17. ASSUME NEW b \in Brokers \cup {NoBroker}, SetBroker(b) PROVE CallsApart'
  BY <1>17 DEF SetBroker
<1>18. CASE Save
  BY <1>18 DEF Save
<1>19. CASE Reboot
  BY <1>19 DEF Reboot, Restart
<1>20. CASE Bite
  BY <1>20 DEF Bite, Restart
<1>21. CASE Tick
  BY <1>21 DEF Tick, Waiting, WdtDue
<1>22. CASE NetChanges
  BY <1>22 DEF NetChanges
<1>23. CASE UNCHANGED vars
  BY <1>23 DEF vars
<1> QED
  BY <1>1, <1>2, <1>3, <1>4, <1>5, <1>6, <1>7, <1>8, <1>9, <1>10, <1>11, <1>12, <1>13,
     <1>14, <1>15, <1>16, <1>17, <1>18, <1>19, <1>20, <1>21, <1>22, <1>23
     DEF Next, MainStep, ConnectStep

LEMMA SaveEndsSessionStep ==
  ASSUME IInv, [Next]_vars
  PROVE  SaveEndsSession'
<1> USE Times DEF IInv, TypeOK, CallsApart, SaveEndsSession, Connecting,
    place, watchdog, timers, settings, link
<1>1. CASE Boot
  BY <1>1 DEF Boot, Call, Wait
<1>2. CASE EnterLoop
  BY <1>2 DEF EnterLoop, Wait
<1>3. CASE Top
  BY <1>3 DEF Top, Wait
<1>4. CASE TopLost
  BY <1>4 DEF TopLost, Wait
<1>5. CASE Retry
  BY <1>5 DEF Retry, Call
<1>6. CASE NoRetry
  BY <1>6 DEF NoRetry, Wait
<1>7. CASE Saved
  BY <1>7 DEF Saved, Call, Wait
<1>8. CASE NotSaved
  BY <1>8 DEF NotSaved, Wait
<1>9. CASE Chimes
  BY <1>9 DEF Chimes, Wait
<1>10. CASE EndPass
  BY <1>10 DEF EndPass, Wait
<1>11. CASE DialFails
  BY <1>11 DEF DialFails, Return
<1>12. CASE DialSucceeds
  BY <1>12 DEF DialSucceeds, Wait
<1>13. CASE DialSpins
  BY <1>13 DEF DialSpins, Wait
<1>14. CASE Accepted
  BY <1>14 DEF Accepted, Return
<1>15. CASE NotAccepted
  BY <1>15 DEF NotAccepted, Wait
<1>16. CASE HungUp
  BY <1>16 DEF HungUp, Return
<1>17. ASSUME NEW b \in Brokers \cup {NoBroker}, SetBroker(b) PROVE SaveEndsSession'
  BY <1>17 DEF SetBroker
<1>18. CASE Save
  BY <1>18 DEF Save
<1>19. CASE Reboot
  BY <1>19 DEF Reboot, Restart
<1>20. CASE Bite
  BY <1>20 DEF Bite, Restart
<1>21. CASE Tick
  BY <1>21 DEF Tick, Waiting, WdtDue
<1>22. CASE NetChanges
  BY <1>22 DEF NetChanges
<1>23. CASE UNCHANGED vars
  BY <1>23 DEF vars
<1> QED
  BY <1>1, <1>2, <1>3, <1>4, <1>5, <1>6, <1>7, <1>8, <1>9, <1>10, <1>11, <1>12, <1>13,
     <1>14, <1>15, <1>16, <1>17, <1>18, <1>19, <1>20, <1>21, <1>22, <1>23
     DEF Next, MainStep, ConnectStep

LEMMA WdtBoundedStep ==
  ASSUME IInv, [Next]_vars
  PROVE  WdtBounded'
<1> USE Times DEF IInv, TypeOK, CallsApart, WdtBounded, Connecting, Before,
    place, watchdog, timers, settings, link
<1>1. CASE Boot
  BY <1>1 DEF Boot, Call, Wait
<1>2. CASE EnterLoop
  BY <1>2 DEF EnterLoop, Wait
<1>3. CASE Top
  BY <1>3 DEF Top, Wait
<1>4. CASE TopLost
  BY <1>4 DEF TopLost, Wait
<1>5. CASE Retry
  BY <1>5 DEF Retry, Call
<1>6. CASE NoRetry
  BY <1>6 DEF NoRetry, Wait
<1>7. CASE Saved
  BY <1>7 DEF Saved, Call, Wait
<1>8. CASE NotSaved
  BY <1>8 DEF NotSaved, Wait
<1>9. CASE Chimes
  BY <1>9 DEF Chimes, Wait
<1>10. CASE EndPass
  BY <1>10 DEF EndPass, Wait
<1>11. CASE DialFails
  BY <1>11 DEF DialFails, Return
<1>12. CASE DialSucceeds
  BY <1>12 DEF DialSucceeds, Wait
<1>13. CASE DialSpins
  BY <1>13 DEF DialSpins, Wait
<1>14. CASE Accepted
  BY <1>14 DEF Accepted, Return
<1>15. CASE NotAccepted
  BY <1>15 DEF NotAccepted, Wait
<1>16. CASE HungUp
  BY <1>16 DEF HungUp, Return
<1>17. ASSUME NEW b \in Brokers \cup {NoBroker}, SetBroker(b) PROVE WdtBounded'
  BY <1>17 DEF SetBroker
<1>18. CASE Save
  BY <1>18 DEF Save
<1>19. CASE Reboot
  BY <1>19 DEF Reboot, Restart
<1>20. CASE Bite
  BY <1>20 DEF Bite, Restart
<1>21. CASE Tick
  BY <1>21 DEF Tick, Waiting, WdtDue
<1>22. CASE NetChanges
  BY <1>22 DEF NetChanges
<1>23. CASE UNCHANGED vars
  BY <1>23 DEF vars
<1> QED
  BY <1>1, <1>2, <1>3, <1>4, <1>5, <1>6, <1>7, <1>8, <1>9, <1>10, <1>11, <1>12, <1>13,
     <1>14, <1>15, <1>16, <1>17, <1>18, <1>19, <1>20, <1>21, <1>22, <1>23
     DEF Next, MainStep, ConnectStep

\* A tick makes what has passed one longer, until the clock comes round.
LEMMA TickElapsed ==
  ASSUME TypeOK, now' = (now + 1) % Wrap, last_retry' = last_retry,
         Elapsed(last_retry) < RetryEvery
  PROVE  Elapsed(last_retry)' = Elapsed(last_retry) + 1
<1>1. now \in 0 .. Wrap - 1 /\ last_retry \in 0 .. Wrap - 1
  BY DEF TypeOK
<1>2. (now' - last_retry) % Wrap =
        IF ((now - last_retry) % Wrap) + 1 < Wrap THEN ((now - last_retry) % Wrap) + 1 ELSE 0
  BY <1>1, Times
<1>3. (now - last_retry) % Wrap \in 0 .. Wrap - 1
  BY <1>1, Times
<1> QED  BY <1>2, <1>3, Times DEF Elapsed

LEMMA OfflineBoundedStep ==
  ASSUME IInv, [Next]_vars
  PROVE  OfflineBounded'
<1> USE Times DEF IInv, TypeOK, CallsApart, OfflineBounded, Connecting, Elapsed,
    place, watchdog, timers, settings, link
<1>1. CASE Boot
  BY <1>1 DEF Boot, Call, Wait
<1>2. CASE EnterLoop
  BY <1>2 DEF EnterLoop, Wait
<1>3. CASE Top
  BY <1>3 DEF Top, Wait
<1>4. CASE TopLost
  BY <1>4 DEF TopLost, Wait
<1>5. CASE Retry
  BY <1>5 DEF Retry, Call
<1>6. CASE NoRetry
  BY <1>6 DEF NoRetry, Wait, RetryDue
<1>7. CASE Saved
  BY <1>7 DEF Saved, Call, Wait
<1>8. CASE NotSaved
  BY <1>8 DEF NotSaved, Wait
<1>9. CASE Chimes
  BY <1>9 DEF Chimes, Wait
<1>10. CASE EndPass
  BY <1>10 DEF EndPass, Wait
<1>11. CASE DialFails
  BY <1>11 DEF DialFails, Return
<1>12. CASE DialSucceeds
  BY <1>12 DEF DialSucceeds, Wait
<1>13. CASE DialSpins
  BY <1>13 DEF DialSpins, Wait
<1>14. CASE Accepted
  BY <1>14 DEF Accepted, Return
<1>15. CASE NotAccepted
  BY <1>15 DEF NotAccepted, Wait
<1>16. CASE HungUp
  BY <1>16 DEF HungUp, Return
<1>17. ASSUME NEW b \in Brokers \cup {NoBroker}, SetBroker(b) PROVE OfflineBounded'
  BY <1>17 DEF SetBroker
<1>18. CASE Save
  BY <1>18 DEF Save
<1>19. CASE Reboot
  BY <1>19 DEF Reboot, Restart
<1>20. CASE Bite
  BY <1>20 DEF Bite, Restart
<1>21. CASE Tick
  <2>1. UNCHANGED <<pc, session, configured, last_retry>>
    BY <1>21 DEF Tick
  <2>2. CASE pc = "parser" /\ configured /\ session = NoBroker
    <3>1. waited = 0 /\ waited' = 1 /\ offline' <= offline + 1 /\ offline' \in Nat
      BY <1>21, <2>2 DEF Tick, Waiting
    <3>2. offline = 0 \/ Elapsed(last_retry) < RetryEvery
      BY <2>2, <3>1
    <3>3. Elapsed(last_retry) \in Nat /\ Elapsed(last_retry)' \in Nat
      BY <1>21 DEF Tick
    <3>4. Elapsed(last_retry) < RetryEvery => Elapsed(last_retry)' = Elapsed(last_retry) + 1
      BY <1>21, TickElapsed DEF Tick
    <3>5. offline' <= Elapsed(last_retry)' + 1 /\ offline' <= RetryEvery + 1
      BY <3>1, <3>2, <3>3, <3>4
    <3> QED  BY <2>1, <2>2, <3>1, <3>5
  <2>3. CASE ~(pc = "parser" /\ configured /\ session = NoBroker)
    <3>1. offline' = 0 /\ Elapsed(last_retry)' \in Nat
      BY <1>21, <2>3 DEF Tick
    <3> QED  BY <2>1, <3>1
  <2> QED  BY <2>2, <2>3
<1>22. CASE NetChanges
  BY <1>22 DEF NetChanges
<1>23. CASE UNCHANGED vars
  BY <1>23 DEF vars
<1> QED
  BY <1>1, <1>2, <1>3, <1>4, <1>5, <1>6, <1>7, <1>8, <1>9, <1>10, <1>11, <1>12, <1>13,
     <1>14, <1>15, <1>16, <1>17, <1>18, <1>19, <1>20, <1>21, <1>22, <1>23
     DEF Next, MainStep, ConnectStep

-----------------------------------------------------------------------------

LEMMA InitIInv == Init => IInv
<1> SUFFICES ASSUME Init PROVE IInv
  OBVIOUS
<1>1. TypeOK
  BY Zero DEF Init, TypeOK
<1>2. CallsApart /\ SaveEndsSession /\ WdtBounded
  BY DEF Init, CallsApart, SaveEndsSession, WdtBounded, Connecting
<1>3. OfflineBounded
  BY Times DEF Init, OfflineBounded, Elapsed
<1> QED  BY <1>1, <1>2, <1>3 DEF IInv

LEMMA NextIInv == IInv /\ [Next]_vars => IInv'
  BY TypeOKStep, CallsApartStep, SaveEndsSessionStep, WdtBoundedStep, OfflineBoundedStep DEF IInv

\* The invariant holds in every state main() reaches.
THEOREM Invariance == Spec => []IInv
  BY InitIInv, NextIInv, PTL DEF Spec

\* A session that was lost or could not be had is tried again at most
\* RetryEvery ticks of idle passes later, across the wrap of the clock.
THEOREM RetryInTime == Spec => []RetriedInTime
<1>1. IInv => RetriedInTime
  <2> SUFFICES ASSUME IInv, pc = "chimes" PROVE offline <= RetryEvery
    BY DEF IInv, RetriedInTime
  <2>1. offline \in Nat /\ Elapsed(last_retry) \in Nat /\ RetryEvery \in Nat
    BY Times DEF IInv, TypeOK, Elapsed
  <2> QED  BY <2>1 DEF IInv, OfflineBounded
<1> QED  BY <1>1, Invariance, PTL

\* Where the chimes publish, the session is with the saved broker.
THEOREM SessionFollowsSave == Spec => []SessionAsSaved
<1>1. IInv => SessionAsSaved
  BY DEF IInv, SaveEndsSession, SessionAsSaved
<1> QED  BY <1>1, Invariance, PTL

\* Two ARP timeouts and a tick of the console fit into one period of the
\* watchdog, so that only a longer wait ends in a reset.
THEOREM BitesForReason == Spec => NoNeedlessBite
<1>1. IInv /\ [Next]_vars => [Bite => slow]_vars
  <2> SUFFICES ASSUME IInv, Bite, ~slow PROVE FALSE
    OBVIOUS
  <2>1. wdt_on /\ wdt = WdtLimit - 1 /\ Waiting
    BY DEF Bite, WdtDue
  <2>2. Connecting \/ pc = "parser"
    BY <2>1 DEF Waiting, Connecting
  <2>3. wdt <= 2 * ArpTimeout \/ (pc = "parser" /\ wdt <= 2 * ArpTimeout + waited)
    BY <2>1, <2>2, Times DEF IInv, TypeOK, WdtBounded, Before, Connecting
  <2>4. pc = "parser" => waited = 0
    BY <2>1 DEF Waiting
  <2> QED  BY <2>1, <2>3, <2>4, Times
<1> QED  BY <1>1, Invariance, PTL DEF Spec, NoNeedlessBite
=============================================================================
