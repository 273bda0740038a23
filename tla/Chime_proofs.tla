---------------------------- MODULE Chime_proofs ----------------------------
(***************************************************************************)
(* The timing promises of process_chime, proved for every guard, cooldown, *)
(* ring and lateness bound TimeAssumption admits.                          *)
(***************************************************************************)
EXTENDS Chime, TLAPS

-----------------------------------------------------------------------------
(* The clock. *)

\* Subtraction of two 32-bit time stamps is the true distance modulo Wrap.
LEMMA ElapsedIs ==
  ASSUME TypeOK, NEW t \in Time
  PROVE  /\ Elapsed(t) \in Time
         /\ Elapsed(t) = IF now >= t THEN now - t ELSE now - t + Wrap
         /\ Elapsed(now) = 0
<1>1. now \in Time /\ Wrap \in Nat \ {0}
  BY TimeAssumption DEF TypeOK
<1> QED  BY <1>1 DEF Elapsed, Time

\* A tick adds one to every distance, or brings it round to zero.
LEMMA ElapsedTick ==
  ASSUME TypeOK, Tick, NEW t \in Time
  PROVE  (now' - t) % Wrap = IF Elapsed(t) + 1 < Wrap THEN Elapsed(t) + 1 ELSE 0
<1>1. now \in Time /\ Wrap \in Nat \ {0}
  BY TimeAssumption DEF TypeOK
<1>2. now' = (now + 1) % Wrap
  BY DEF Tick
<1> QED  BY <1>1, <1>2 DEF Elapsed, Time

-----------------------------------------------------------------------------
(* What the stages of a pass do to the record of a chime. *)

\* The stages keep the type.
LEMMA StagesType ==
  ASSUME now \in Time, NEW s \in ChimeState, NEW raw \in BOOLEAN
  PROVE  /\ Hold(s, raw) \in ChimeState
         /\ Sample(s, raw) \in ChimeState
         /\ Detect(s) \in ChimeState
         /\ Strike(s) \in ChimeState
         /\ StopRing(s) \in ChimeState
         /\ Processed(s, raw) \in ChimeState
<1>1. \A r \in ChimeState : Sample(r, raw) \in ChimeState
  BY DEF Sample, ChimeState
<1>2. \A r \in ChimeState : Detect(r) \in ChimeState
  BY DEF Detect, ChimeState
<1>3. \A r \in ChimeState : Strike(r) \in ChimeState
  BY DEF Strike, ChimeState
<1>4. \A r \in ChimeState : StopRing(r) \in ChimeState
  BY DEF StopRing, ChimeState
<1>5. Hold(s, raw) \in ChimeState
  BY DEF Hold, ChimeState
<1> QED  BY <1>1, <1>2, <1>3, <1>4, <1>5 DEF Processed

-----------------------------------------------------------------------------
(* Type correctness. *)

\* The caps of the history are natural numbers.
LEMMA Caps == HeldCap \in Nat /\ RingCap \in Nat /\ Wrap \in Nat \ {0}
  BY TimeAssumption DEF HeldCap, Patience, RingCap

LEMMA CappedType ==
  ASSUME NEW cap \in Nat, NEW n \in 0 .. cap
  PROVE  CappedSucc(n, cap) \in 0 .. cap
  BY DEF CappedSucc

Ages == 0 .. 2 * Wrap - 1

\* The clock's view of an age: its remainder by Wrap.
Wrapped(n) == IF n < Wrap THEN n ELSE n - Wrap

LEMMA AgesWrap ==
  ASSUME NEW n \in Ages
  PROVE  /\ Aged(n) \in Ages
         /\ Wrapped(n) \in Time
         /\ Wrapped(n) = n % Wrap
         /\ Wrapped(Aged(n)) = IF Wrapped(n) + 1 < Wrap THEN Wrapped(n) + 1 ELSE 0
<1>1. n \in Nat /\ n < 2 * Wrap /\ Wrap \in Nat \ {0}
  BY Caps DEF Ages
<1>2. CASE n < Wrap
  BY <1>1, <1>2 DEF Aged, Ages, Wrapped, Time
<1>3. CASE n >= Wrap
  <2>1. n - Wrap \in 0 .. Wrap - 1 /\ n = Wrap + (n - Wrap)
    BY <1>1, <1>3
  <2>2. n % Wrap = n - Wrap
    BY <2>1, <1>1
  <2> QED  BY <2>1, <2>2, <1>1, <1>3 DEF Aged, Ages, Wrapped, Time
<1> QED  BY <1>1, <1>2, <1>3

LEMMA InitType == Init => TypeOK
<1> SUFFICES ASSUME Init PROVE TypeOK
  OBVIOUS
<1>1. now \in Time /\ 0 \in Time /\ now \in 0 .. 2 * Wrap - 1
  BY TimeAssumption DEF Init, Time
<1>2. chime \in [Chimes -> ChimeState]
  BY <1>1 DEF Init, ChimeState
<1>3. /\ gap \in [Chimes -> 0 .. MaxGap]
      /\ ring_age \in [Chimes -> 0 .. RingCap]
      /\ event_age \in [Chimes -> 0 .. 2 * Wrap - 1]
      /\ held \in [Chimes -> 0 .. HeldCap]
      /\ noticed \in [Chimes -> BOOLEAN]
      /\ up \in 0 .. 2 * Wrap - 1
  BY <1>1, Caps, TimeAssumption DEF Init
<1> QED  BY <1>1, <1>2, <1>3 DEF Init, TypeOK

LEMMA NoteType ==
  ASSUME TypeOK, NEW c \in Chimes, NEW n \in Nat, Note(c, n)
  PROVE  /\ event_age' \in [Chimes -> 0 .. 2 * Wrap - 1]
         /\ ring_age' \in [Chimes -> 0 .. RingCap]
         /\ publishes' \in [Chimes -> Nat]
<1>1. event_age' \in [Chimes -> 0 .. 2 * Wrap - 1]
  BY Caps DEF TypeOK, Note
<1>2. ring_age' \in [Chimes -> 0 .. RingCap]
  BY Caps DEF TypeOK, Note
<1>3. publishes' \in [Chimes -> Nat]
  BY DEF TypeOK, Note
<1> QED  BY <1>1, <1>2, <1>3

LEMMA NextType == TypeOK /\ [Next]_vars => TypeOK'
<1> SUFFICES ASSUME TypeOK, [Next]_vars PROVE TypeOK'
  OBVIOUS
<1> USE DEF TypeOK
<1>1. CASE Tick
  <2>1. now' \in Time
    BY <1>1, TimeAssumption DEF Tick, Time
  <2>2. gap' \in [Chimes -> 0 .. MaxGap]
    BY <1>1, TimeAssumption DEF Tick
  <2>3. ring_age' \in [Chimes -> 0 .. RingCap]
    BY <1>1, Caps, CappedType DEF Tick
  <2>4. event_age' \in [Chimes -> 0 .. 2 * Wrap - 1] /\ up' \in 0 .. 2 * Wrap - 1
    BY <1>1, AgesWrap DEF Tick, Ages
  <2>5. held' \in [Chimes -> 0 .. HeldCap]
    BY <1>1, Caps, CappedType DEF Tick
  <2> QED  BY <1>1, <2>1, <2>2, <2>3, <2>4, <2>5 DEF Tick
<1>2. ASSUME NEW c \in Chimes, GuardPass(c) PROVE TypeOK'
  <2>1. chime' \in [Chimes -> ChimeState]
    BY <1>2, StagesType DEF GuardPass
  <2>2. gap' \in [Chimes -> 0 .. MaxGap]
    BY <1>2, TimeAssumption DEF GuardPass, PassFrame
  <2>3. noticed' \in [Chimes -> BOOLEAN]
    BY <1>2, <2>1 DEF GuardPass, PassFrame, ChimeState
  <2> QED  BY <1>2, <2>1, <2>2, <2>3 DEF GuardPass, EnterLoop, PassFrame
<1>3. ASSUME NEW c \in Chimes, SilentPass(c) PROVE TypeOK'
  <2>1. chime' \in [Chimes -> ChimeState]
    BY <1>3, StagesType DEF SilentPass
  <2>2. gap' \in [Chimes -> 0 .. MaxGap]
    BY <1>3, TimeAssumption DEF SilentPass, PassFrame
  <2>3. Note(c, 0)
    BY <1>3 DEF SilentPass
  <2>4. noticed' \in [Chimes -> BOOLEAN]
    BY <1>3, <2>1 DEF SilentPass, PassFrame, ChimeState
  <2> QED  BY <1>3, <2>1, <2>2, <2>3, <2>4, NoteType
              DEF SilentPass, EnterLoop, PassFrame
<1>4. ASSUME NEW c \in Chimes, PublishPass(c) PROVE TypeOK'
  <2> DEFINE s == Processed(chime[c], level[c])
  <2>1. s \in ChimeState
    BY StagesType
  <2>2. [s EXCEPT !.mqtt_sent = TRUE] \in ChimeState
    BY <2>1 DEF ChimeState
  <2>3. chime' \in [Chimes -> ChimeState]
    BY <1>4, <2>2 DEF PublishPass
  <2>4. gap' \in [Chimes -> 0 .. MaxGap]
    BY <1>4, TimeAssumption DEF PublishPass, PassFrame
  <2>5. Note(c, 1)
    BY <1>4 DEF PublishPass
  <2>6. noticed' \in [Chimes -> BOOLEAN]
    BY <1>4, <2>3 DEF PublishPass, PassFrame, ChimeState
  <2> QED  BY <1>4, <2>3, <2>4, <2>5, <2>6, NoteType
              DEF PublishPass, EnterLoop, PassFrame
<1>5. ASSUME NEW c \in Chimes, NEW m \in Commands, Message(c, m) PROVE TypeOK'
  <2>1. chime[c] \in ChimeState
    OBVIOUS
  <2>2. /\ [chime[c] EXCEPT !.enabled = TRUE] \in ChimeState
        /\ [chime[c] EXCEPT !.enabled = FALSE] \in ChimeState
        /\ [chime[c] EXCEPT !.trigger_pending = TRUE] \in ChimeState
    BY <2>1 DEF ChimeState
  <2>3. chime' \in [Chimes -> ChimeState]
    <3>1. CASE m = "ON"
      BY <1>5, <3>1, <2>2 DEF Message
    <3>2. CASE m = "OFF"
      BY <1>5, <3>2, <2>2 DEF Message
    <3>3. CASE m = "RING"
      BY <1>5, <3>3, <2>2 DEF Message
    <3> QED  BY <3>1, <3>2, <3>3 DEF Commands
  <2> QED  BY <1>5, <2>3 DEF Message
<1>6. ASSUME NEW c \in Chimes, Press(c) PROVE TypeOK'
  <2>1. held' \in [Chimes -> 0 .. HeldCap]
    BY <1>6, Caps DEF Press
  <2>2. level' \in [Chimes -> BOOLEAN] /\ noticed' \in [Chimes -> BOOLEAN]
    BY <1>6 DEF Press
  <2> QED  BY <1>6, <2>1, <2>2 DEF Press
<1>7. ASSUME NEW c \in Chimes, Release(c) PROVE TypeOK'
  <2>1. held' \in [Chimes -> 0 .. HeldCap]
    BY <1>7, Caps DEF Release
  <2>2. level' \in [Chimes -> BOOLEAN] /\ noticed' \in [Chimes -> BOOLEAN]
    BY <1>7 DEF Release
  <2> QED  BY <1>7, <2>1, <2>2 DEF Release
<1>8. CASE UNCHANGED vars
  BY <1>8 DEF vars, code_vars, history
<1> QED  BY <1>1, <1>2, <1>3, <1>4, <1>5, <1>6, <1>7, <1>8 DEF Next, Pass

\* Every time stamp stays a 32-bit value and every counter inside its bound.
THEOREM TypeCorrect == Spec => []TypeOK
  BY InitType, NextType, PTL DEF Spec

-----------------------------------------------------------------------------
(* The inductive invariant: every time stamp still in use is the history's *)
(* true age of what it stamps, and the reason why a ring is late, if it is.*)

\* The loop's age can be read off the clock, but for the times it has wrapped.
LoopClock ==
  /\ ~is_loop_started => up = 0 /\ \A c \in Chimes : ~chime[c].is_ringing
  /\ is_loop_started => Elapsed(loop_start_ms) = Wrapped(up)

\* So can the age of the last event of chime c.
EventClock(c) == Elapsed(chime[c].last_event_ms) = Wrapped(event_age[c])

\* A ring is younger than RingTime at its last pass, or that pass fell into
\* a guard time that began less than MaxGap after a pass that saw it young.
InTime(c) == ring_age[c] < RingTime + gap[c]

HeldUp(c) ==
  /\ ring_age[c] < RingTime + MaxGap + Elapsed(loop_start_ms)
  /\ Elapsed(loop_start_ms) < Guard + gap[c]

RingClock(c) ==
  chime[c].is_ringing =>
    /\ Elapsed(chime[c].ring_start_ms) = ring_age[c]
    /\ up < Wrap => ring_age[c] + Guard <= up
    /\ InTime(c) \/ HeldUp(c)

\* A trigger that is still pending came in since the last pass.
TriggerFresh(c) == chime[c].trigger_pending => rung[c]

PublishedOnceOf(c) ==
  /\ publishes[c] <= 1
  /\ chime[c].button_pressed => (chime[c].mqtt_sent <=> publishes[c] = 1)

ChimeInv(c) ==
  /\ EventClock(c)
  /\ RingClock(c)
  /\ TriggerFresh(c)
  /\ chime[c].out = chime[c].is_ringing
  /\ PublishedOnceOf(c)

IInv == TypeOK /\ LoopClock /\ \A c \in Chimes : ChimeInv(c)

-----------------------------------------------------------------------------
(* One pass of process_chime, summarised. *)

LEMMA SampleFacts ==
  ASSUME NEW s \in ChimeState, NEW raw \in BOOLEAN
  PROVE  \A f \in {"enabled", "trigger_pending", "is_ringing", "ring_start_ms",
                   "button_pressed", "mqtt_sent", "last_event_ms", "out"} :
           Sample(s, raw)[f] = s[f]
  BY DEF Sample, ChimeState

\* An event respects the cooldown, asks for a ring and for a publication;
\* without one nothing but the button's release is recorded.
LEMMA DetectFacts ==
  ASSUME NEW s \in ChimeState
  PROVE  LET d == Detect(s)
         IN  /\ d.is_ringing = s.is_ringing /\ d.ring_start_ms = s.ring_start_ms
             /\ d.enabled = s.enabled /\ d.out = s.out
             /\ \/ /\ ~s.button_pressed /\ d.button_pressed /\ ~d.mqtt_sent
                   /\ d.last_event_ms = now
                   /\ Elapsed(s.last_event_ms) > Cooldown
                \/ /\ d.last_event_ms = s.last_event_ms
                   /\ d.trigger_pending = s.trigger_pending
                   /\ d.mqtt_sent = s.mqtt_sent
                   /\ d.button_pressed => s.button_pressed
<1>1. CASE IsEvent(s)
  BY <1>1 DEF Detect, IsEvent, ChimeState
<1>2. CASE ~IsEvent(s)
  BY <1>2 DEF Detect, ChimeState
<1> QED  BY <1>1, <1>2

\* A trigger does not survive; a ring that starts, starts now.
LEMMA StrikeFacts ==
  ASSUME NEW s \in ChimeState
  PROVE  LET k == Strike(s)
         IN  /\ ~k.trigger_pending
             /\ k.button_pressed = s.button_pressed /\ k.mqtt_sent = s.mqtt_sent
             /\ k.last_event_ms = s.last_event_ms
             /\ \/ /\ ~s.is_ringing /\ s.trigger_pending
                   /\ k.is_ringing /\ k.out /\ k.ring_start_ms = now
                \/ /\ k.is_ringing = s.is_ringing /\ k.out = s.out
                   /\ k.ring_start_ms = s.ring_start_ms
<1>1. CASE Strikes(s)
  BY <1>1 DEF Strike, Strikes, ChimeState
<1>2. CASE ~Strikes(s)
  BY <1>2 DEF Strike, ChimeState
<1> QED  BY <1>1, <1>2

\* Only a ring that has lasted RingTime is stopped, and one that has is.
LEMMA StopFacts ==
  ASSUME NEW s \in ChimeState
  PROVE  LET p == StopRing(s)
         IN  /\ p.trigger_pending = s.trigger_pending
             /\ p.button_pressed = s.button_pressed /\ p.mqtt_sent = s.mqtt_sent
             /\ p.last_event_ms = s.last_event_ms
             /\ p.ring_start_ms = s.ring_start_ms
             /\ \/ /\ s.is_ringing /\ Elapsed(s.ring_start_ms) >= RingTime
                   /\ ~p.is_ringing /\ ~p.out
                \/ /\ ~(s.is_ringing /\ Elapsed(s.ring_start_ms) >= RingTime)
                   /\ p.is_ringing = s.is_ringing /\ p.out = s.out
<1>1. CASE RingOver(s)
  BY <1>1 DEF StopRing, RingOver, ChimeState
<1>2. CASE ~RingOver(s)
  BY <1>2 DEF StopRing, RingOver, ChimeState
<1> QED  BY <1>1, <1>2

\* The three stages together.
PassSummary(s, p) ==
  /\ ~p.trigger_pending
  /\ s.out = s.is_ringing => p.out = p.is_ringing
  /\ s.is_ringing /\ p.is_ringing =>
       p.ring_start_ms = s.ring_start_ms /\ Elapsed(s.ring_start_ms) < RingTime
  /\ s.is_ringing /\ ~p.is_ringing => Elapsed(s.ring_start_ms) >= RingTime
  /\ ~s.is_ringing /\ p.is_ringing =>
       /\ p.ring_start_ms = now
       /\ s.trigger_pending \/ (~s.button_pressed /\ p.button_pressed)
  /\ ~s.button_pressed /\ p.button_pressed =>
       /\ p.last_event_ms = now /\ ~p.mqtt_sent
       /\ Elapsed(s.last_event_ms) > Cooldown
  /\ s.button_pressed \/ ~p.button_pressed =>
       /\ p.last_event_ms = s.last_event_ms
       /\ p.mqtt_sent = s.mqtt_sent

LEMMA ProcessedFacts ==
  ASSUME TypeOK, NEW s \in ChimeState, NEW raw \in BOOLEAN
  PROVE  PassSummary(s, Processed(s, raw))
<1> DEFINE a == Sample(s, raw)
           d == Detect(a)
           k == Strike(d)
           p == StopRing(k)
<1>1. now \in Time
  BY DEF TypeOK
<1>2. a \in ChimeState /\ d \in ChimeState /\ k \in ChimeState
  BY <1>1, StagesType
<1>3. /\ a.trigger_pending = s.trigger_pending /\ a.is_ringing = s.is_ringing
      /\ a.ring_start_ms = s.ring_start_ms /\ a.out = s.out
      /\ a.button_pressed = s.button_pressed /\ a.mqtt_sent = s.mqtt_sent
      /\ a.last_event_ms = s.last_event_ms
  BY SampleFacts
<1>4. Elapsed(now) = 0 /\ ~(Elapsed(now) >= RingTime)
  BY <1>1, ElapsedIs, TimeAssumption
<1>5. s.ring_start_ms \in Time /\ Elapsed(s.ring_start_ms) \in Time
  BY ElapsedIs DEF ChimeState
<1>6. /\ Elapsed(s.ring_start_ms) >= RingTime
         <=> ~(Elapsed(s.ring_start_ms) < RingTime)
  BY <1>5, TimeAssumption DEF Time
<1>7. /\ d.is_ringing = a.is_ringing /\ d.ring_start_ms = a.ring_start_ms
      /\ d.out = a.out
      /\ \/ /\ ~a.button_pressed /\ d.button_pressed /\ ~d.mqtt_sent
            /\ d.last_event_ms = now
            /\ Elapsed(a.last_event_ms) > Cooldown
         \/ /\ d.last_event_ms = a.last_event_ms
            /\ d.trigger_pending = a.trigger_pending
            /\ d.mqtt_sent = a.mqtt_sent
            /\ d.button_pressed => a.button_pressed
  BY <1>2, DetectFacts
<1>8. /\ ~k.trigger_pending
      /\ k.button_pressed = d.button_pressed /\ k.mqtt_sent = d.mqtt_sent
      /\ k.last_event_ms = d.last_event_ms
      /\ \/ /\ ~d.is_ringing /\ d.trigger_pending
            /\ k.is_ringing /\ k.out /\ k.ring_start_ms = now
         \/ /\ k.is_ringing = d.is_ringing /\ k.out = d.out
            /\ k.ring_start_ms = d.ring_start_ms
  BY <1>2, StrikeFacts
<1>9. /\ p.trigger_pending = k.trigger_pending
      /\ p.button_pressed = k.button_pressed /\ p.mqtt_sent = k.mqtt_sent
      /\ p.last_event_ms = k.last_event_ms
      /\ p.ring_start_ms = k.ring_start_ms
      /\ \/ /\ k.is_ringing /\ Elapsed(k.ring_start_ms) >= RingTime
            /\ ~p.is_ringing /\ ~p.out
         \/ /\ ~(k.is_ringing /\ Elapsed(k.ring_start_ms) >= RingTime)
            /\ p.is_ringing = k.is_ringing /\ p.out = k.out
  BY <1>2, StopFacts
<1>10. Processed(s, raw) = p
  BY DEF Processed
<1>11. p \in ChimeState
  BY <1>1, <1>10, StagesType
<1>12. /\ {s.is_ringing, s.out, a.is_ringing, a.out, d.is_ringing, d.out,
           k.is_ringing, k.out, p.is_ringing, p.out, s.button_pressed,
           a.button_pressed, d.button_pressed, k.button_pressed,
           p.button_pressed, s.trigger_pending, a.trigger_pending,
           d.trigger_pending, k.trigger_pending, p.trigger_pending} \subseteq BOOLEAN
  BY <1>2, <1>11 DEF ChimeState
<1> HIDE DEF a, d, k, p
<1>13. /\ ~p.trigger_pending
       /\ s.out = s.is_ringing => p.out = p.is_ringing
  BY <1>3, <1>7, <1>8, <1>9, <1>12
<1>14. s.is_ringing => k.is_ringing /\ k.ring_start_ms = s.ring_start_ms
  BY <1>3, <1>7, <1>8
<1>15. /\ s.is_ringing /\ p.is_ringing =>
            p.ring_start_ms = s.ring_start_ms /\ Elapsed(s.ring_start_ms) < RingTime
       /\ s.is_ringing /\ ~p.is_ringing => Elapsed(s.ring_start_ms) >= RingTime
  BY <1>14, <1>9, <1>6
<1>16. ~s.is_ringing /\ p.is_ringing =>
         /\ p.ring_start_ms = now
         /\ s.trigger_pending \/ (~s.button_pressed /\ p.button_pressed)
  BY <1>3, <1>7, <1>8, <1>9, <1>12
<1>17. /\ ~s.button_pressed /\ p.button_pressed =>
            /\ p.last_event_ms = now /\ ~p.mqtt_sent
            /\ Elapsed(s.last_event_ms) > Cooldown
       /\ s.button_pressed \/ ~p.button_pressed =>
            /\ p.last_event_ms = s.last_event_ms
            /\ p.mqtt_sent = s.mqtt_sent
  BY <1>3, <1>7, <1>8, <1>9, <1>12
<1> QED  BY <1>10, <1>13, <1>15, <1>16, <1>17 DEF PassSummary

-----------------------------------------------------------------------------
(* The inductive invariant is invariant: what a step of one chime does to  *)
(* the others, then one lemma per kind of step.                            *)

LEMMA InitInv == Init => IInv
<1> SUFFICES ASSUME Init PROVE IInv
  OBVIOUS
<1>1. TypeOK /\ 0 \in Time
  BY InitType, TimeAssumption DEF Time
<1>2. Elapsed(0) = now /\ Wrapped(now) = now
  <2>1. now \in Nat /\ now < Wrap /\ Wrap \in Nat
    BY <1>1, Caps DEF TypeOK, Time
  <2>2. Elapsed(0) = IF now >= 0 THEN now - 0 ELSE now - 0 + Wrap
    BY <1>1, ElapsedIs
  <2> QED  BY <2>1, <2>2 DEF Wrapped
<1>3. LoopClock
  BY DEF Init, LoopClock
<1>4. ASSUME NEW c \in Chimes PROVE ChimeInv(c)
  <2>1. /\ chime[c].last_event_ms = 0 /\ ~chime[c].is_ringing
        /\ chime[c].out = chime[c].is_ringing
        /\ ~chime[c].trigger_pending /\ ~chime[c].button_pressed
        /\ event_age[c] = now /\ publishes[c] = 0
    BY DEF Init
  <2> QED  BY <2>1, <1>2 DEF ChimeInv, EventClock, RingClock, TriggerFresh,
              PublishedOnceOf
<1> QED  BY <1>1, <1>3, <1>4 DEF IInv

\* A pass of c enters the loop and leaves the ages of the others alone.
LEMMA OthersKept ==
  ASSUME IInv, NEW c \in Chimes, EnterLoop, PassFrame(c),
         NEW d \in Chimes \ {c},
         chime'[d] = chime[d], ring_age'[d] = ring_age[d],
         event_age'[d] = event_age[d], publishes'[d] = publishes[d]
  PROVE  ChimeInv(d)'
<1>1. /\ gap'[d] = gap[d] /\ rung'[d] = rung[d] /\ now' = now /\ up' = up
  BY DEF IInv, TypeOK, PassFrame
<1>2. ChimeInv(d) /\ LoopClock
  BY DEF IInv
<1>3. chime[d].is_ringing => loop_start_ms' = loop_start_ms
  BY <1>2 DEF LoopClock, EnterLoop
<1>4. EventClock(d)' /\ TriggerFresh(d)' /\ PublishedOnceOf(d)'
      /\ (chime[d].out = chime[d].is_ringing)'
  BY <1>1, <1>2 DEF ChimeInv, EventClock, TriggerFresh, PublishedOnceOf, Elapsed
<1>5. RingClock(d)'
  BY <1>1, <1>2, <1>3 DEF ChimeInv, RingClock, InTime, HeldUp, Elapsed
<1> QED  BY <1>4, <1>5 DEF ChimeInv

\* Entering the loop, or finding it entered, keeps its age readable.
LEMMA LoopClockKept ==
  ASSUME IInv, NEW c \in Chimes, EnterLoop, PassFrame(c)
  PROVE  /\ is_loop_started'
         /\ Elapsed(loop_start_ms)' = Wrapped(up)
         /\ LoopClock'
<1>1. now' = now /\ up' = up /\ is_loop_started'
  BY DEF PassFrame, EnterLoop
<1>2. LoopClock /\ TypeOK
  BY DEF IInv
<1>3. Elapsed(loop_start_ms)' = Wrapped(up)
  <2>1. CASE is_loop_started
    BY <2>1, <1>1, <1>2 DEF EnterLoop, LoopClock, Elapsed
  <2>2. CASE ~is_loop_started
    <3>1. up = 0 /\ loop_start_ms' = now
      BY <2>2, <1>2 DEF LoopClock, EnterLoop
    <3>2. Elapsed(now) = 0 /\ Wrapped(0) = 0
      BY <1>2, ElapsedIs, Caps DEF TypeOK, Wrapped
    <3> QED  BY <3>1, <3>2, <1>1 DEF Elapsed
  <2> QED  BY <2>1, <2>2
<1> QED  BY <1>1, <1>3 DEF LoopClock, Wrapped

\* A pass in the guard time: a ring it meets is held up, at worst for the
\* first time.
LEMMA GuardPassInv ==
  ASSUME IInv, NEW c \in Chimes, GuardPass(c), TypeOK'
  PROVE  IInv'
<1>1. EnterLoop /\ PassFrame(c)
  BY DEF GuardPass
<1>2. TypeOK /\ LoopClock /\ ChimeInv(c)
  BY DEF IInv
<1> DEFINE h == chime'[c]
<1>3. /\ h.is_ringing = chime[c].is_ringing /\ h.out = chime[c].out
      /\ h.ring_start_ms = chime[c].ring_start_ms
      /\ h.last_event_ms = chime[c].last_event_ms
      /\ ~h.trigger_pending /\ ~h.button_pressed
  BY <1>2 DEF GuardPass, Hold, TypeOK, ChimeState
<1>4. /\ now' = now /\ up' = up /\ gap'[c] = 0 /\ ring_age' = ring_age
      /\ event_age' = event_age /\ publishes' = publishes
  BY <1>2 DEF GuardPass, PassFrame, TypeOK
<1>5. Elapsed(loop_start_ms)' \in Time /\ Elapsed(loop_start_ms)' < Guard
  <2>1. loop_start_ms' \in Time /\ now \in Time /\ Wrap \in Nat \ {0}
    BY <1>2, TimeAssumption DEF TypeOK
  <2>2. Elapsed(loop_start_ms)' = (now - loop_start_ms') % Wrap
    BY <1>4 DEF Elapsed
  <2>3. (now - loop_start_ms') % Wrap \in 0 .. Wrap - 1
    <3> DEFINE b == loop_start_ms'
    <3>1. b \in 0 .. Wrap - 1 /\ now \in 0 .. Wrap - 1
      BY <2>1 DEF Time
    <3>2. (now - b) % Wrap = IF now >= b THEN now - b ELSE now - b + Wrap
      BY <2>1, <3>1
    <3> HIDE DEF b
    <3>3. (now - b) % Wrap \in 0 .. Wrap - 1
      BY <2>1, <3>1, <3>2
    <3> QED  BY <3>3 DEF b
  <2> QED  BY <2>2, <2>3 DEF GuardPass, InGuardTime, Time
<1> HIDE DEF h
<1>6. RingClock(c)'
  <2> SUFFICES ASSUME h.is_ringing PROVE RingClock(c)'
    BY DEF RingClock, h
  <2>1. RingClock(c) /\ chime[c].is_ringing
    BY <1>2, <1>3 DEF ChimeInv
  <2>2. (Elapsed(chime[c].ring_start_ms) = ring_age[c])'
    BY <2>1, <1>3, <1>4 DEF RingClock, Elapsed, h
  <2>3. (up < Wrap => ring_age[c] + Guard <= up)'
    BY <2>1, <1>4 DEF RingClock
  <2>4. loop_start_ms' = loop_start_ms
    BY <2>1, <1>1, <1>2 DEF EnterLoop, LoopClock
  <2>5. Elapsed(loop_start_ms)' = Elapsed(loop_start_ms)
    BY <2>4, <1>4 DEF Elapsed
  <2>6. ring_age[c] < RingTime + MaxGap + Elapsed(loop_start_ms)
    <3>1. gap[c] \in 0 .. MaxGap /\ ring_age[c] \in Nat
      BY <1>2, Caps DEF TypeOK
    <3> QED  BY <2>1, <2>5, <1>5, <3>1, TimeAssumption
                DEF RingClock, InTime, HeldUp, Time
  <2>7. HeldUp(c)'
    BY <2>5, <2>6, <1>4, <1>5, TimeAssumption DEF HeldUp, Time
  <2> QED  BY <2>2, <2>3, <2>7 DEF RingClock
<1>7. ChimeInv(c)'
  BY <1>2, <1>3, <1>4, <1>6
     DEF ChimeInv, EventClock, TriggerFresh, PublishedOnceOf, Elapsed, Wrapped, h
<1>8. ASSUME NEW d \in Chimes \ {c} PROVE ChimeInv(d)'
  BY <1>1, <1>2, <1>4, OthersKept DEF GuardPass, TypeOK
<1> QED  BY <1>1, <1>7, <1>8, LoopClockKept DEF IInv

\* A full pass that leaves the chime in state q, which is p except that an
\* event may have been marked as sent.
LEMMA FullPassInv ==
  ASSUME IInv, TypeOK', NEW c \in Chimes, EnterLoop, ~InGuardTime, PassFrame(c),
         NEW n \in Nat, Note(c, n),
         NEW p, NEW q, PassSummary(chime[c], p),
         chime' = [chime EXCEPT ![c] = q],
         /\ q.trigger_pending = p.trigger_pending /\ q.is_ringing = p.is_ringing
         /\ q.ring_start_ms = p.ring_start_ms /\ q.out = p.out
         /\ q.last_event_ms = p.last_event_ms
         /\ q.button_pressed = p.button_pressed,
         PublishedOnceOf(c)'
  PROVE  IInv'
<1>1. TypeOK /\ LoopClock /\ ChimeInv(c)
  BY DEF IInv
<1>2. chime'[c] = q /\ chime[c] \in ChimeState /\ q \in ChimeState
  BY <1>1 DEF TypeOK
<1>3. now' = now /\ up' = up /\ gap'[c] = 0
  BY <1>1 DEF PassFrame, TypeOK
<1>4. event_age'[c] = IF ~chime[c].button_pressed /\ q.button_pressed
                        THEN 0 ELSE event_age[c]
  BY <1>1, <1>2 DEF Note, ButtonEvent, TypeOK
<1>5. ring_age'[c] = IF chime[c].is_ringing /\ q.is_ringing THEN ring_age[c] ELSE 0
  <2>1. ring_age'[c] = IF chime[c].out /\ q.out THEN ring_age[c] ELSE 0
    BY <1>1, <1>2 DEF Note, TypeOK
  <2>2. chime[c].out = chime[c].is_ringing
    BY <1>1 DEF ChimeInv
  <2>3. q.out = q.is_ringing
    BY <2>2 DEF PassSummary
  <2> QED  BY <2>1, <2>2, <2>3
<1>6. Elapsed(now) = 0 /\ \A t : Elapsed(t)' = (now - t') % Wrap
  BY <1>1, <1>3, ElapsedIs DEF TypeOK, Elapsed
<1>7. EventClock(c)'
  <2>1. CASE ~chime[c].button_pressed /\ q.button_pressed
    <3>1. Wrapped(0) = 0
      BY Caps DEF Wrapped
    <3> QED  BY <2>1, <3>1, <1>2, <1>3, <1>4, <1>6 DEF EventClock, PassSummary, Elapsed, Wrapped
  <2>2. CASE chime[c].button_pressed \/ ~q.button_pressed
    <3>1. q.last_event_ms = chime[c].last_event_ms /\ event_age'[c] = event_age[c]
      BY <2>2, <1>4 DEF PassSummary
    <3> QED  BY <3>1, <1>1, <1>2, <1>3 DEF ChimeInv, EventClock, Elapsed, Wrapped
  <2> QED  BY <2>1, <2>2
<1>8. RingClock(c)'
  <2> SUFFICES ASSUME q.is_ringing PROVE RingClock(c)'
    BY <1>2 DEF RingClock
  <2>1. CASE chime[c].is_ringing
    <3>1. /\ q.ring_start_ms = chime[c].ring_start_ms /\ ring_age'[c] = ring_age[c]
          /\ Elapsed(chime[c].ring_start_ms) < RingTime
      BY <2>1, <1>5 DEF PassSummary
    <3>2. RingClock(c)
      BY <1>1 DEF ChimeInv
    <3>3. InTime(c)'
      BY <2>1, <3>1, <3>2, <1>3, TimeAssumption DEF RingClock, InTime
    <3> QED  BY <2>1, <3>1, <3>2, <3>3, <1>2, <1>3 DEF RingClock, Elapsed
  <2>2. CASE ~chime[c].is_ringing
    <3>1. q.ring_start_ms = now /\ ring_age'[c] = 0
      BY <2>2, <1>5 DEF PassSummary
    <3>2. InTime(c)'
      BY <3>1, <1>3, TimeAssumption DEF InTime
    <3>3. up < Wrap => Guard <= up
      <4>1. up < Wrap => (now - loop_start_ms') % Wrap = up
        BY <1>3, LoopClockKept DEF Elapsed, Wrapped
      <4> QED  BY <4>1, <1>1, Caps, TimeAssumption DEF InGuardTime, TypeOK
    <3> QED  BY <3>1, <3>2, <3>3, <1>2, <1>3, <1>6, TimeAssumption
                DEF RingClock, Elapsed
  <2> QED  BY <2>1, <2>2
<1>9. TriggerFresh(c)' /\ (chime[c].out = chime[c].is_ringing)'
  BY <1>1, <1>2 DEF TriggerFresh, PassSummary, ChimeInv
<1>10. ChimeInv(c)'
  BY <1>7, <1>8, <1>9 DEF ChimeInv
<1>11. ASSUME NEW d \in Chimes \ {c} PROVE ChimeInv(d)'
  BY <1>1, OthersKept DEF Note, TypeOK
<1> QED  BY <1>10, <1>11, LoopClockKept DEF IInv

\* A full pass of either kind.
LEMMA SilentPassInv ==
  ASSUME IInv, NEW c \in Chimes, SilentPass(c), TypeOK'
  PROVE  IInv'
<1> DEFINE p == Processed(chime[c], level[c])
<1>1. TypeOK /\ PublishedOnceOf(c) /\ chime[c] \in ChimeState /\ level[c] \in BOOLEAN
  BY DEF IInv, ChimeInv, TypeOK
<1>2. PassSummary(chime[c], p)
  BY <1>1, ProcessedFacts
<1>3. chime' = [chime EXCEPT ![c] = p] /\ chime'[c] = p
  BY <1>1 DEF SilentPass, TypeOK
<1> HIDE DEF p
<1>4. publishes'[c] = IF ~chime[c].button_pressed /\ p.button_pressed
                        THEN 0 ELSE publishes[c]
  BY <1>1, <1>3 DEF SilentPass, Note, ButtonEvent, TypeOK
<1>5. PublishedOnceOf(c)'
  BY <1>1, <1>2, <1>3, <1>4 DEF PublishedOnceOf, PassSummary
<1> QED  BY <1>2, <1>3, <1>5, FullPassInv DEF SilentPass

LEMMA PublishPassInv ==
  ASSUME IInv, NEW c \in Chimes, PublishPass(c), TypeOK'
  PROVE  IInv'
<1> DEFINE p == Processed(chime[c], level[c])
           q == [p EXCEPT !.mqtt_sent = TRUE]
<1>1. TypeOK /\ PublishedOnceOf(c) /\ chime[c] \in ChimeState /\ level[c] \in BOOLEAN
  BY DEF IInv, ChimeInv, TypeOK
<1>2. PassSummary(chime[c], p) /\ p \in ChimeState
  BY <1>1, ProcessedFacts, StagesType DEF TypeOK
<1>3. chime' = [chime EXCEPT ![c] = q] /\ chime'[c] = q
  BY <1>1 DEF PublishPass, TypeOK
<1>4. p.button_pressed /\ ~p.mqtt_sent
  BY DEF PublishPass, WantsPublish
<1>5. /\ q.trigger_pending = p.trigger_pending /\ q.is_ringing = p.is_ringing
      /\ q.ring_start_ms = p.ring_start_ms /\ q.out = p.out
      /\ q.last_event_ms = p.last_event_ms
      /\ q.button_pressed = p.button_pressed /\ q.mqtt_sent
  BY <1>2 DEF ChimeState
<1>6. EnterLoop /\ ~InGuardTime /\ PassFrame(c) /\ Note(c, 1)
  BY DEF PublishPass
<1> HIDE DEF p, q
<1>7. publishes'[c] = (IF ~chime[c].button_pressed THEN 0 ELSE publishes[c]) + 1
  BY <1>1, <1>3, <1>4, <1>5, <1>6 DEF Note, ButtonEvent, TypeOK
<1>8. chime[c].button_pressed => publishes[c] = 0
  BY <1>1, <1>2, <1>4 DEF PassSummary, PublishedOnceOf, TypeOK
<1>9. PublishedOnceOf(c)'
  BY <1>3, <1>5, <1>7, <1>8 DEF PublishedOnceOf
<1> QED  BY <1>2, <1>3, <1>5, <1>6, <1>9, FullPassInv

\* Time passes: every readable age grows with the history, as long as it is
\* below Wrap.
LEMMA TickInv ==
  ASSUME IInv, Tick, TypeOK'
  PROVE  IInv'
<1>1. TypeOK /\ LoopClock
  BY DEF IInv
<1>2. /\ is_loop_started' = is_loop_started /\ loop_start_ms' = loop_start_ms
      /\ chime' = chime /\ rung' = rung /\ publishes' = publishes
      /\ up' = IF is_loop_started THEN Aged(up) ELSE up
  BY DEF Tick
<1>3. loop_start_ms \in Time /\ up \in Ages /\ Wrap \in Nat \ {0}
  BY <1>1, Caps DEF TypeOK, Ages
<1>4. Elapsed(loop_start_ms)' =
        IF Elapsed(loop_start_ms) + 1 < Wrap THEN Elapsed(loop_start_ms) + 1 ELSE 0
  BY <1>1, <1>2, <1>3, ElapsedTick DEF Elapsed
<1>5. LoopClock'
  <2>1. Wrapped(Aged(up)) = IF Wrapped(up) + 1 < Wrap THEN Wrapped(up) + 1 ELSE 0
    BY <1>3, AgesWrap
  <2> QED  BY <1>1, <1>2, <1>4, <2>1 DEF LoopClock, Wrapped
<1>6. ASSUME NEW c \in Chimes PROVE ChimeInv(c)'
  <2>1. /\ ChimeInv(c)
        /\ chime[c].last_event_ms \in Time /\ chime[c].ring_start_ms \in Time
        /\ event_age[c] \in Ages /\ ring_age[c] \in 0 .. RingCap
        /\ gap[c] \in 0 .. MaxGap /\ gap[c] < MaxGap
    BY <1>1 DEF IInv, TypeOK, ChimeState, Tick, Ages
  <2>2. /\ gap'[c] = gap[c] + 1
        /\ event_age'[c] = Aged(event_age[c])
        /\ chime[c].is_ringing => ring_age'[c] = CappedSucc(ring_age[c], RingCap)
    <3>1. chime[c].out = chime[c].is_ringing
      BY <2>1 DEF ChimeInv
    <3>2. ring_age'[c] = IF chime[c].out THEN CappedSucc(ring_age[c], RingCap) ELSE 0
      BY DEF Tick
    <3>3. chime[c].is_ringing => ring_age'[c] = CappedSucc(ring_age[c], RingCap)
      BY <3>1, <3>2
    <3> QED  BY <3>3 DEF Tick
  <2>3. EventClock(c)'
    <3>1. Elapsed(chime[c].last_event_ms)' =
            IF Elapsed(chime[c].last_event_ms) + 1 < Wrap
              THEN Elapsed(chime[c].last_event_ms) + 1 ELSE 0
      BY <1>1, <1>2, <2>1, ElapsedTick DEF Elapsed
    <3>2. Wrapped(Aged(event_age[c])) =
            IF Wrapped(event_age[c]) + 1 < Wrap THEN Wrapped(event_age[c]) + 1 ELSE 0
      BY <2>1, AgesWrap
    <3> QED  BY <2>1, <2>2, <3>1, <3>2 DEF ChimeInv, EventClock, Wrapped
  <2>4. RingClock(c)'
    <3> SUFFICES ASSUME chime[c].is_ringing PROVE RingClock(c)'
      BY <1>2 DEF RingClock
    <3>1. RingClock(c) /\ is_loop_started
      BY <2>1, <1>1 DEF ChimeInv, LoopClock
    <3>2. ring_age[c] < RingCap
      <4>1. Elapsed(loop_start_ms) \in 0 .. Wrap - 1
        BY <1>1, <1>3, ElapsedIs DEF Time
      <4>2. CASE InTime(c)
        BY <4>2, <2>1, TimeAssumption DEF InTime, RingCap
      <4>3. CASE HeldUp(c)
        BY <4>1, <4>3, <2>1, TimeAssumption DEF HeldUp, RingCap
      <4> QED  BY <3>1, <4>2, <4>3 DEF RingClock
    <3>3. ring_age'[c] = ring_age[c] + 1 /\ ring_age[c] + 1 < Wrap
      BY <2>1, <2>2, <3>2, Caps, TimeAssumption DEF CappedSucc, RingCap
    <3>4. Elapsed(chime[c].ring_start_ms)' = ring_age[c] + 1
      BY <1>1, <1>2, <2>1, <3>1, <3>3, ElapsedTick DEF RingClock, Elapsed
    <3>5. (up < Wrap => ring_age[c] + Guard <= up)'
      BY <1>2, <1>3, <2>1, <3>1, <3>3, TimeAssumption DEF RingClock, Aged, Ages
    <3>6. CASE InTime(c)
      <4>1. InTime(c)'
        BY <3>6, <2>1, <2>2, <3>3, TimeAssumption DEF InTime
      <4> QED  BY <3>3, <3>4, <3>5, <4>1 DEF RingClock
    <3>7. CASE HeldUp(c)
      <4>1. Elapsed(loop_start_ms) \in 0 .. Wrap - 1
        BY <1>1, <1>3, ElapsedIs DEF Time
      <4>2. Elapsed(loop_start_ms)' = Elapsed(loop_start_ms) + 1
        BY <3>7, <1>4, <2>1, <4>1, TimeAssumption DEF HeldUp
      <4>3. HeldUp(c)'
        BY <3>7, <2>1, <2>2, <3>3, <4>1, <4>2, TimeAssumption DEF HeldUp
      <4> QED  BY <3>3, <3>4, <3>5, <4>3 DEF RingClock
    <3> QED  BY <3>1, <3>6, <3>7 DEF RingClock
  <2>5. TriggerFresh(c)' /\ (chime[c].out = chime[c].is_ringing)'
        /\ PublishedOnceOf(c)'
    BY <2>1, <1>2 DEF ChimeInv, TriggerFresh, PublishedOnceOf
  <2> QED  BY <2>3, <2>4, <2>5 DEF ChimeInv
<1> QED  BY <1>5, <1>6 DEF IInv

\* A command changes one flag; the history of the clocks is not touched.
LEMMA MessageInv ==
  ASSUME IInv, NEW c \in Chimes, NEW m \in Commands, Message(c, m)
  PROVE  LoopClock' /\ \A d \in Chimes : ChimeInv(d)'
<1>1. TypeOK /\ LoopClock /\ chime[c] \in ChimeState
  BY DEF IInv, TypeOK
<1>2. /\ now' = now /\ up' = up /\ gap' = gap /\ ring_age' = ring_age
      /\ event_age' = event_age /\ publishes' = publishes
      /\ is_loop_started' = is_loop_started /\ loop_start_ms' = loop_start_ms
      /\ rung'[c] = (rung[c] \/ m = "RING")
  BY <1>1 DEF Message, TypeOK
<1>3. \A d \in Chimes \ {c} : chime'[d] = chime[d] /\ rung'[d] = rung[d]
  BY <1>1 DEF Message, TypeOK
<1>4. /\ chime'[c].is_ringing = chime[c].is_ringing
      /\ chime'[c].out = chime[c].out
      /\ chime'[c].ring_start_ms = chime[c].ring_start_ms
      /\ chime'[c].last_event_ms = chime[c].last_event_ms
      /\ chime'[c].button_pressed = chime[c].button_pressed
      /\ chime'[c].mqtt_sent = chime[c].mqtt_sent
      /\ m # "RING" => chime'[c].trigger_pending = chime[c].trigger_pending
  <2>1. chime'[c] = CASE m = "ON"   -> [chime[c] EXCEPT !.enabled = TRUE]
                      [] m = "OFF"  -> [chime[c] EXCEPT !.enabled = FALSE]
                      [] m = "RING" -> [chime[c] EXCEPT !.trigger_pending = TRUE]
    BY <1>1 DEF Message, TypeOK
  <2>2. CASE m = "ON"
    BY <2>1, <2>2, <1>1 DEF ChimeState
  <2>3. CASE m = "OFF"
    BY <2>1, <2>3, <1>1 DEF ChimeState
  <2>4. CASE m = "RING"
    BY <2>1, <2>4, <1>1 DEF ChimeState
  <2> QED  BY <2>2, <2>3, <2>4 DEF Commands
<1>5. \A d \in Chimes : chime'[d].is_ringing = chime[d].is_ringing
  BY <1>3, <1>4
<1>6. LoopClock'
  BY <1>1, <1>2, <1>5 DEF LoopClock, Elapsed
<1>7. ASSUME NEW d \in Chimes PROVE ChimeInv(d)'
  <2>1. ChimeInv(d)
    BY DEF IInv
  <2>2. CASE d = c
    BY <2>1, <2>2, <1>2, <1>4
       DEF ChimeInv, EventClock, RingClock, InTime, HeldUp, TriggerFresh,
           PublishedOnceOf, Elapsed
  <2>3. CASE d # c
    BY <2>1, <2>3, <1>2, <1>3
       DEF ChimeInv, EventClock, RingClock, InTime, HeldUp, TriggerFresh,
           PublishedOnceOf, Elapsed
  <2> QED  BY <2>2, <2>3
<1> QED  BY <1>6, <1>7

LEMMA NextInv == IInv /\ [Next]_vars => IInv'
<1> SUFFICES ASSUME IInv, [Next]_vars PROVE IInv'
  OBVIOUS
<1>1. TypeOK'
  BY NextType DEF IInv
<1>2. ASSUME /\ UNCHANGED <<now, is_loop_started, loop_start_ms, chime, gap,
                            ring_age, event_age, up, rung, publishes>>
      PROVE  IInv'
  BY <1>1, <1>2 DEF IInv, LoopClock, ChimeInv, EventClock, RingClock, InTime,
     HeldUp, TriggerFresh, PublishedOnceOf, Elapsed
<1>3. CASE Tick
  BY <1>1, <1>3, TickInv
<1>4. ASSUME NEW c \in Chimes, Pass(c) PROVE IInv'
  BY <1>1, <1>4, GuardPassInv, SilentPassInv, PublishPassInv DEF Pass
<1>5. ASSUME NEW c \in Chimes, NEW m \in Commands, Message(c, m) PROVE IInv'
  BY <1>1, <1>5, MessageInv DEF IInv
<1>6. ASSUME NEW c \in Chimes, Press(c) \/ Release(c) PROVE IInv'
  BY <1>2, <1>6 DEF Press, Release
<1>7. CASE UNCHANGED vars
  BY <1>2, <1>7 DEF vars, code_vars, history
<1> QED  BY <1>3, <1>4, <1>5, <1>6, <1>7 DEF Next

THEOREM Invariance == Spec => []IInv
  BY InitInv, NextInv, PTL DEF Spec

-----------------------------------------------------------------------------
(* Safety. *)

\* The output stays on for RingTime plus the lateness of the main loop at
\* most, whatever the commands and the button do; once the guard time can come
\* back, for that much and one late pass more.
THEOREM RingTimeBounded == Spec => []RingBounded
<1>1. IInv => RingBounded
  <2> SUFFICES ASSUME IInv, NEW c \in Chimes, chime[c].out
               PROVE  ring_age[c] < RingTime + gap[c]
                                    + (IF up < Wrap THEN 0 ELSE Guard + MaxGap)
    BY DEF RingBounded
  <2>1. /\ RingClock(c) /\ LoopClock /\ chime[c].is_ringing
        /\ ring_age[c] \in Nat /\ gap[c] \in Nat /\ up \in Nat
        /\ Elapsed(loop_start_ms) \in 0 .. Wrap - 1
    BY ElapsedIs, Caps DEF IInv, ChimeInv, TypeOK, Time
  <2>2. CASE up < Wrap
    <3>1. ring_age[c] + Guard <= up /\ Elapsed(loop_start_ms) = up
      BY <2>1, <2>2 DEF RingClock, LoopClock, Wrapped
    <3> QED  BY <2>1, <2>2, <3>1, TimeAssumption DEF RingClock, InTime, HeldUp
  <2>3. CASE ~(up < Wrap)
    BY <2>1, <2>3, TimeAssumption DEF RingClock, InTime, HeldUp
  <2> QED  BY <2>2, <2>3
<1> QED  BY <1>1, Invariance, PTL

\* mqtt_sent makes the publication of an event happen at most once.
THEOREM PublicationUnique == Spec => []PublishedOnce
<1>1. IInv => PublishedOnce
  BY DEF IInv, ChimeInv, PublishedOnceOf, PublishedOnce
<1> QED  BY <1>1, Invariance, PTL

\* What any step does to the record of any chime, seen from its invariant.
LEMMA StepOfChime ==
  ASSUME IInv, [Next]_vars, NEW c \in Chimes
  PROVE  \/ PassSummary(chime[c], Processed(chime[c], level[c]))
             /\ \/ chime'[c] = Processed(chime[c], level[c])
                \/ chime'[c] = [Processed(chime[c], level[c])
                                  EXCEPT !.mqtt_sent = TRUE]
         \/ /\ chime'[c].is_ringing = chime[c].is_ringing
            /\ chime'[c].button_pressed => chime[c].button_pressed
<1>1. TypeOK /\ chime[c] \in ChimeState /\ level[c] \in BOOLEAN
  BY DEF IInv, TypeOK
<1>2. PassSummary(chime[c], Processed(chime[c], level[c]))
  BY <1>1, ProcessedFacts
<1>3. ASSUME NEW d \in Chimes, GuardPass(d) PROVE chime'[c] = chime[c]
                                                  \/ chime'[c] = Hold(chime[c], level[c])
  BY <1>1, <1>3 DEF GuardPass, TypeOK
<1>4. ASSUME NEW d \in Chimes, SilentPass(d) \/ PublishPass(d)
      PROVE  \/ chime'[c] = chime[c]
             \/ chime'[c] = Processed(chime[c], level[c])
             \/ chime'[c] = [Processed(chime[c], level[c])
                               EXCEPT !.mqtt_sent = TRUE]
  BY <1>1, <1>4 DEF SilentPass, PublishPass, TypeOK
<1>5. ASSUME NEW d \in Chimes, NEW m \in Commands, Message(d, m)
      PROVE  \/ chime'[c] = chime[c]
             \/ chime'[c] = [chime[c] EXCEPT !.enabled = TRUE]
             \/ chime'[c] = [chime[c] EXCEPT !.enabled = FALSE]
             \/ chime'[c] = [chime[c] EXCEPT !.trigger_pending = TRUE]
  <2>1. CASE m = "ON"
    BY <1>1, <1>5, <2>1 DEF Message, TypeOK
  <2>2. CASE m = "OFF"
    BY <1>1, <1>5, <2>2 DEF Message, TypeOK
  <2>3. CASE m = "RING"
    BY <1>1, <1>5, <2>3 DEF Message, TypeOK
  <2> QED  BY <2>1, <2>2, <2>3 DEF Commands
<1>6. \/ chime'[c] = chime[c]
      \/ chime'[c] = Hold(chime[c], level[c])
      \/ chime'[c] = Processed(chime[c], level[c])
      \/ chime'[c] = [Processed(chime[c], level[c]) EXCEPT !.mqtt_sent = TRUE]
      \/ chime'[c] = [chime[c] EXCEPT !.enabled = TRUE]
      \/ chime'[c] = [chime[c] EXCEPT !.enabled = FALSE]
      \/ chime'[c] = [chime[c] EXCEPT !.trigger_pending = TRUE]
  <2>1. CASE UNCHANGED chime
    BY <2>1
  <2>2. CASE \E d \in Chimes : Pass(d)
    BY <2>2, <1>3, <1>4 DEF Pass
  <2>3. CASE \E d \in Chimes : \E m \in Commands : Message(d, m)
    BY <2>3, <1>5
  <2> QED  BY <2>1, <2>2, <2>3 DEF Next, Tick, Press, Release, vars, code_vars
<1> QED  BY <1>1, <1>2, <1>6 DEF Hold, ChimeState

\* Only the ring timer ends a ring, never a command or the guard.
THEOREM NotCutShort == Spec => RingNotCutShort
<1>1. IInv /\ [Next]_vars =>
        [\A c \in Chimes : chime[c].is_ringing /\ ~chime'[c].is_ringing
                              => ring_age[c] >= RingTime]_vars
  <2> SUFFICES ASSUME IInv, [Next]_vars, NEW c \in Chimes,
                      chime[c].is_ringing, ~chime'[c].is_ringing
               PROVE  ring_age[c] >= RingTime
    OBVIOUS
  <2>1. Elapsed(chime[c].ring_start_ms) = ring_age[c]
    BY DEF IInv, ChimeInv, RingClock
  <2>2. Processed(chime[c], level[c]) \in ChimeState
    BY StagesType DEF IInv, TypeOK
  <2> QED  BY <2>1, <2>2, StepOfChime DEF PassSummary, ChimeState
<1> QED  BY <1>1, Invariance, PTL DEF Spec, RingNotCutShort

\* The cooldown holds in true time, across every wrap of the clock.
THEOREM CooldownHolds == Spec => CooldownRespected
<1>1. IInv /\ [Next]_vars =>
        [\A c \in Chimes : ButtonEvent(c) => event_age[c] > Cooldown]_vars
  <2> SUFFICES ASSUME IInv, [Next]_vars, NEW c \in Chimes, ButtonEvent(c)
               PROVE  event_age[c] > Cooldown
    OBVIOUS
  <2>1. EventClock(c) /\ event_age[c] \in Ages
    BY DEF IInv, ChimeInv, TypeOK, Ages
  <2>2. Processed(chime[c], level[c]) \in ChimeState
    BY StagesType DEF IInv, TypeOK
  <2>3. Elapsed(chime[c].last_event_ms) > Cooldown
    BY <2>2, StepOfChime DEF ButtonEvent, PassSummary, ChimeState
  <2> QED  BY <2>1, <2>3, TimeAssumption DEF EventClock, Wrapped, Ages
<1> QED  BY <1>1, Invariance, PTL DEF Spec, CooldownRespected

\* No trigger outlives the pass that looks at it.
THEOREM NoRingFromThePast == Spec => NoStaleRing
<1>1. IInv /\ [Next]_vars =>
        [\A c \in Chimes : ~chime[c].is_ringing /\ chime'[c].is_ringing
                              => rung[c] \/ ButtonEvent(c)]_vars
  <2> SUFFICES ASSUME IInv, [Next]_vars, NEW c \in Chimes,
                      ~chime[c].is_ringing, chime'[c].is_ringing
               PROVE  rung[c] \/ ButtonEvent(c)
    OBVIOUS
  <2>1. TriggerFresh(c)
    BY DEF IInv, ChimeInv
  <2>2. Processed(chime[c], level[c]) \in ChimeState
    BY StagesType DEF IInv, TypeOK
  <2> QED  BY <2>1, <2>2, StepOfChime
              DEF TriggerFresh, ButtonEvent, PassSummary, ChimeState
<1> QED  BY <1>1, Invariance, PTL DEF Spec, NoStaleRing

-----------------------------------------------------------------------------
(* A button held long enough.  A pass that does not take a settled press   *)
(* falls into the guard time or into the cooldown.  Each of the two lets   *)
(* the press get older by its own length, and neither can come back before *)
(* the other one is over.                                                  *)

LoopAge == Elapsed(loop_start_ms)
EventAge(c) == Elapsed(chime[c].last_event_ms)
StampAge(c) == Elapsed(chime[c].last_debounce_ms)

\* When a press is settled, at the latest, and the part of the loop's age in
\* which the guard time, and the debounce time behind it, let none through.
Settling == MaxGap + Debounce
Blocked == Guard + Debounce

\* How old an unnoticed press can be, for a chime whose last pass is g ms back
\* while loop and event are l and e ms old by the clock: as old as it takes to
\* settle, held back by one of the two, or by both, one after the other.
Waiting(h, g, l, e) ==
  \/ h <= Settling + g
  \/ l < Blocked + g /\ h <= Settling + MaxGap + l
  \/ e <= Cooldown + g /\ h <= Settling + MaxGap + e
  \/ /\ l < Blocked + g /\ e > Cooldown + g /\ e <= Cooldown + MaxGap + l
     /\ h <= Settling + 2 * MaxGap + Cooldown + l
  \/ /\ e <= Cooldown + g /\ l >= Blocked + g /\ l < Blocked + MaxGap + e
     /\ h < Settling + 2 * MaxGap + Blocked + e

\* The stamp of a low level that does not count as pressed is young.
StampYoung(c) ==
  ~chime[c].last_raw_state /\ ~chime[c].button_pressed =>
    \/ StampAge(c) <= Debounce + gap[c]
    \/ EventAge(c) <= Cooldown + gap[c] /\ StampAge(c) <= Debounce + MaxGap + EventAge(c)

\* It is as old as the press, but for one pass, or was left by the guard time.
LowLasts(c) ==
  ~level[c] /\ ~chime[c].button_pressed =>
    held[c] <= MaxGap + StampAge(c) \/ LoopAge < Guard + StampAge(c)

\* The first half of PressNotMissed, by the clock.
NotMissed(c) ==
  /\ held[c] > Settling + gap[c]
  /\ LoopAge >= Blocked + gap[c]
  /\ EventAge(c) > Cooldown + gap[c]
  => chime[c].button_pressed

PressInv(c) ==
  /\ level[c] => held[c] = 0
  /\ held[c] > gap[c] => ~chime[c].last_raw_state
  /\ ~is_loop_started => held[c] <= gap[c]
  /\ StampYoung(c) /\ LowLasts(c) /\ NotMissed(c)
  /\ ~level[c] /\ ~noticed[c] => Waiting(held[c], gap[c], LoopAge, EventAge(c))

\* An age of the clock one ms later.
Later(n) == IF n + 1 < Wrap THEN n + 1 ELSE 0

LEMMA WaitingTick ==
  ASSUME NEW h \in Nat, NEW k \in Nat, k <= h + 1, NEW g \in Nat, g < MaxGap,
         NEW l \in Time, NEW e \in Time, Waiting(h, g, l, e)
  PROVE  Waiting(k, g + 1, Later(l), Later(e))
<1> USE TimeAssumption DEF Time, Settling, Blocked
<1>1. CASE h <= Settling + g
  BY <1>1 DEF Waiting
<1>2. CASE l < Blocked + g /\ h <= Settling + MaxGap + l
  <2>1. Later(l) = l + 1
    BY <1>2 DEF Later
  <2> QED  BY <1>2, <2>1 DEF Waiting
<1>3. CASE e <= Cooldown + g /\ h <= Settling + MaxGap + e
  <2>1. Later(e) = e + 1
    BY <1>3 DEF Later
  <2> QED  BY <1>3, <2>1 DEF Waiting
<1>4. CASE /\ l < Blocked + g /\ e > Cooldown + g /\ e <= Cooldown + MaxGap + l
           /\ h <= Settling + 2 * MaxGap + Cooldown + l
  <2>1. Later(l) = l + 1 /\ Later(e) = e + 1
    BY <1>4 DEF Later
  <2> QED  BY <1>4, <2>1 DEF Waiting
<1>5. CASE /\ e <= Cooldown + g /\ l >= Blocked + g /\ l < Blocked + MaxGap + e
           /\ h < Settling + 2 * MaxGap + Blocked + e
  <2>1. Later(l) = l + 1 /\ Later(e) = e + 1
    BY <1>5 DEF Later
  <2> QED  BY <1>5, <2>1 DEF Waiting
<1> QED  BY <1>1, <1>2, <1>3, <1>4, <1>5 DEF Waiting

\* A pass that leaves the press unnoticed, for one of the three reasons.
LEMMA WaitingPass ==
  ASSUME NEW h \in Nat, NEW g \in 0 .. MaxGap, NEW l \in Time, NEW e \in Time,
         Waiting(h, g, l, e),
         h <= Settling \/ l < Blocked \/ e <= Cooldown
  PROVE  Waiting(h, 0, l, e)
<1> USE TimeAssumption DEF Time, Settling, Blocked
<1>1. CASE h <= Settling
  BY <1>1 DEF Waiting
<1>2. CASE l < Blocked
  <2>1. CASE h <= Settling + g
    BY <1>2, <2>1 DEF Waiting
  <2>2. CASE l < Blocked + g /\ h <= Settling + MaxGap + l
    BY <1>2, <2>2 DEF Waiting
  <2>3. CASE e <= Cooldown + g /\ h <= Settling + MaxGap + e
    BY <1>2, <2>3 DEF Waiting
  <2>4. CASE /\ l < Blocked + g /\ e > Cooldown + g /\ e <= Cooldown + MaxGap + l
             /\ h <= Settling + 2 * MaxGap + Cooldown + l
    BY <1>2, <2>4 DEF Waiting
  <2> QED  BY <1>2, <2>1, <2>2, <2>3, <2>4 DEF Waiting
<1>3. CASE e <= Cooldown /\ l >= Blocked
  <2>1. CASE h <= Settling + g
    BY <1>3, <2>1 DEF Waiting
  <2>2. CASE l < Blocked + g /\ h <= Settling + MaxGap + l
    BY <1>3, <2>2 DEF Waiting
  <2>3. CASE e <= Cooldown + g /\ h <= Settling + MaxGap + e
    BY <1>3, <2>3 DEF Waiting
  <2>4. CASE /\ e <= Cooldown + g /\ l >= Blocked + g /\ l < Blocked + MaxGap + e
             /\ h < Settling + 2 * MaxGap + Blocked + e
    BY <1>3, <2>4 DEF Waiting
  <2> QED  BY <1>3, <2>1, <2>2, <2>3, <2>4 DEF Waiting
<1> QED  BY <1>1, <1>2, <1>3

\* A press that is still waiting is not as old as that.
LEMMA WaitingEnds ==
  ASSUME NEW h \in Nat, NEW g \in 0 .. MaxGap, NEW l \in Time, NEW e \in Time,
         Waiting(h, g, l, e)
  PROVE  h - g < Patience
  BY TimeAssumption DEF Waiting, Time, Settling, Blocked, Patience

\* What a full pass makes of the button of a chime.
ButtonSummary(s, raw, p) ==
  /\ p.last_raw_state = raw
  /\ p.last_debounce_ms = IF raw # s.last_raw_state THEN now ELSE s.last_debounce_ms
  /\ p.button_pressed =
       IF s.button_pressed
         THEN ~(Elapsed(p.last_debounce_ms) > Debounce /\ raw)
         ELSE /\ Elapsed(p.last_debounce_ms) > Debounce /\ ~raw
              /\ Elapsed(s.last_event_ms) > Cooldown

LEMMA ButtonFacts ==
  ASSUME TypeOK, NEW s \in ChimeState, NEW raw \in BOOLEAN
  PROVE  ButtonSummary(s, raw, Processed(s, raw))
<1> DEFINE a == Sample(s, raw)
           d == Detect(a)
           k == Strike(d)
           p == StopRing(k)
<1>1. now \in Time
  BY DEF TypeOK
<1>2. a \in ChimeState /\ d \in ChimeState /\ k \in ChimeState
  BY <1>1, StagesType
<1>3. /\ a.last_raw_state = raw /\ a.button_pressed = s.button_pressed
      /\ a.last_event_ms = s.last_event_ms
      /\ a.last_debounce_ms = IF raw # s.last_raw_state THEN now ELSE s.last_debounce_ms
  BY DEF Sample, ChimeState
<1> HIDE DEF a
<1>4. /\ d.last_raw_state = a.last_raw_state /\ d.last_debounce_ms = a.last_debounce_ms
      /\ d.button_pressed = (IsEvent(a) \/ (a.button_pressed /\ ~(Settled(a) /\ a.last_raw_state)))
  <2>1. CASE IsEvent(a)
    BY <1>2, <2>1 DEF Detect, ChimeState
  <2>2. CASE ~IsEvent(a)
    BY <1>2, <2>2 DEF Detect, ChimeState
  <2> QED  BY <2>1, <2>2
<1> HIDE DEF d
<1>5. /\ k.last_raw_state = d.last_raw_state /\ k.last_debounce_ms = d.last_debounce_ms
      /\ k.button_pressed = d.button_pressed
  BY <1>2 DEF Strike, ChimeState
<1> HIDE DEF k
<1>6. /\ p.last_raw_state = k.last_raw_state /\ p.last_debounce_ms = k.last_debounce_ms
      /\ p.button_pressed = k.button_pressed
  BY <1>2 DEF StopRing, ChimeState
<1>7. Processed(s, raw) = p
  BY DEF Processed, a, d, k
<1> HIDE DEF p
<1>8. p.button_pressed = (IsEvent(a) \/ (s.button_pressed /\ ~(Settled(a) /\ raw)))
  BY <1>3, <1>4, <1>5, <1>6
<1>9. p.last_debounce_ms = a.last_debounce_ms /\ p.last_raw_state = raw
  BY <1>3, <1>4, <1>5, <1>6
<1>10. s.button_pressed \in BOOLEAN
  BY DEF ChimeState
<1> QED  BY <1>3, <1>7, <1>8, <1>9, <1>10 DEF IsEvent, Settled, ButtonSummary

LEMMA ClockAges ==
  ASSUME TypeOK, NEW c \in Chimes
  PROVE  LoopAge \in Time /\ EventAge(c) \in Time /\ StampAge(c) \in Time
<1>1. /\ loop_start_ms \in Time /\ chime[c].last_event_ms \in Time
      /\ chime[c].last_debounce_ms \in Time
  BY DEF TypeOK, ChimeState
<1> QED  BY <1>1, ElapsedIs DEF LoopAge, EventAge, StampAge

LEMMA ClockAgesNext ==
  ASSUME TypeOK', NEW c \in Chimes
  PROVE  LoopAge' \in Nat /\ EventAge(c)' \in Nat
<1>1. now' \in Int /\ loop_start_ms' \in Int /\ chime'[c].last_event_ms \in Int
  BY TimeAssumption DEF TypeOK, ChimeState, Time
<1>2. \A a, b \in Int : (a - b) % Wrap \in Nat
  BY TimeAssumption
<1>3. LoopAge' = (now' - loop_start_ms') % Wrap
  BY DEF LoopAge, Elapsed
<1>4. EventAge(c)' = (now' - chime'[c].last_event_ms) % Wrap
  BY DEF EventAge, Elapsed
<1> QED  BY <1>1, <1>2, <1>3, <1>4

LEMMA InitPress ==
  ASSUME Init, NEW c \in Chimes
  PROVE  PressInv(c)
<1>1. TypeOK /\ Elapsed(now) = 0
  BY InitType, ElapsedIs DEF TypeOK
<1>2. /\ held[c] = 0 /\ gap[c] = 0 /\ chime[c].last_debounce_ms = now
  BY DEF Init
<1>3. StampAge(c) = 0
  BY <1>1, <1>2 DEF StampAge
<1> QED  BY <1>2, <1>3, TimeAssumption
         DEF PressInv, StampYoung, LowLasts, NotMissed, Waiting, Settling

\* Nothing PressInv(c) speaks of changes, or the finger has just moved, or
\* another chime's pass enters the loop.
LEMMA PressKept ==
  ASSUME TypeOK, TypeOK', NEW c \in Chimes, PressInv(c), now' = now,
         gap'[c] = gap[c],
         /\ chime'[c].last_raw_state = chime[c].last_raw_state
         /\ chime'[c].last_debounce_ms = chime[c].last_debounce_ms
         /\ chime'[c].last_event_ms = chime[c].last_event_ms
         /\ chime'[c].button_pressed = chime[c].button_pressed,
         \/ level'[c] = level[c] /\ held'[c] = held[c] /\ noticed'[c] = noticed[c]
         \/ held'[c] = 0,
         \/ is_loop_started' = is_loop_started /\ loop_start_ms' = loop_start_ms
         \/ ~is_loop_started /\ is_loop_started'
  PROVE  PressInv(c)'
<1>1. /\ gap[c] \in 0 .. MaxGap /\ held[c] \in Nat /\ LoopAge' \in Nat
      /\ StampAge(c) \in Nat /\ EventAge(c) \in Nat /\ MaxGap \in Nat /\ Settling \in Nat
      /\ gap[c] <= Settling /\ Blocked \in Nat
  BY ClockAges, ClockAgesNext, TimeAssumption, Caps DEF TypeOK, Time, Settling, Blocked
<1>2. StampAge(c)' = StampAge(c) /\ EventAge(c)' = EventAge(c)
  BY DEF StampAge, EventAge, Elapsed
<1>3. StampYoung(c)'
  BY <1>2 DEF PressInv, StampYoung
<1>4. CASE held'[c] <= gap'[c]
  <2>1. LowLasts(c)' /\ NotMissed(c)' /\ Waiting(held[c], gap[c], LoopAge, EventAge(c))'
    BY <1>1, <1>2, <1>4 DEF LowLasts, NotMissed, Waiting
  <2>2. (level[c] => held[c] = 0)'
    BY DEF PressInv
  <2> QED  BY <1>1, <1>3, <1>4, <2>1, <2>2 DEF PressInv
<1>5. CASE ~(held'[c] <= gap'[c])
  <2>1. level'[c] = level[c] /\ held'[c] = held[c] /\ noticed'[c] = noticed[c]
    BY <1>1, <1>5
  <2>2. is_loop_started' = is_loop_started /\ loop_start_ms' = loop_start_ms
    BY <1>5, <2>1 DEF PressInv
  <2>3. LoopAge' = LoopAge
    BY <2>2 DEF LoopAge, Elapsed
  <2> QED  BY <1>2, <1>3, <2>1, <2>2, <2>3 DEF PressInv, LowLasts, NotMissed
<1> QED  BY <1>4, <1>5

LEMMA TickPress ==
  ASSUME TypeOK, Tick, NEW c \in Chimes, PressInv(c)
  PROVE  PressInv(c)'
<1>1. /\ gap[c] \in 0 .. MaxGap /\ held[c] \in Nat /\ HeldCap \in Nat
      /\ LoopAge \in Time /\ EventAge(c) \in Time /\ StampAge(c) \in Time
      /\ LoopAge \in Nat /\ EventAge(c) \in Nat /\ StampAge(c) \in Nat
  BY ClockAges, Caps DEF TypeOK, Time
<1>2. /\ chime' = chime /\ level' = level /\ noticed' = noticed
      /\ gap'[c] = gap[c] + 1 /\ gap[c] < MaxGap
      /\ is_loop_started' = is_loop_started
      /\ held'[c] = IF level[c] THEN 0 ELSE CappedSucc(held[c], HeldCap)
  BY DEF Tick, TypeOK
<1>3. held'[c] \in Nat /\ held'[c] <= held[c] + 1
  BY <1>1, <1>2 DEF CappedSucc
<1>4. /\ LoopAge' = Later(LoopAge) /\ EventAge(c)' = Later(EventAge(c))
      /\ StampAge(c)' = Later(StampAge(c))
  <2>1. /\ loop_start_ms \in Time /\ chime[c].last_event_ms \in Time
        /\ chime[c].last_debounce_ms \in Time /\ loop_start_ms' = loop_start_ms
    BY DEF TypeOK, ChimeState, Tick
  <2> QED  BY <1>2, <2>1, ElapsedTick DEF LoopAge, EventAge, StampAge, Later, Elapsed
<1>5. /\ (level[c] => held[c] = 0)'
      /\ (held[c] > gap[c] => ~chime[c].last_raw_state)'
      /\ (~is_loop_started => held[c] <= gap[c])'
  BY <1>1, <1>2, <1>3 DEF PressInv
<1>6. ~chime[c].last_raw_state /\ ~chime[c].button_pressed =>
        /\ Later(StampAge(c)) = StampAge(c) + 1
        /\ \/ StampAge(c) <= Debounce + gap[c]
           \/ /\ EventAge(c) <= Cooldown + gap[c] /\ Later(EventAge(c)) = EventAge(c) + 1
              /\ StampAge(c) <= Debounce + MaxGap + EventAge(c)
  BY <1>1, <1>2, TimeAssumption DEF PressInv, StampYoung, Later
<1>7. StampYoung(c)'
  BY <1>1, <1>2, <1>4, <1>6, TimeAssumption DEF StampYoung
<1>8. LowLasts(c)'
  <2> SUFFICES ASSUME ~level[c], ~chime[c].button_pressed
               PROVE  held'[c] <= MaxGap + StampAge(c)' \/ LoopAge' < Guard + StampAge(c)'
    BY <1>2 DEF LowLasts
  <2>1. CASE chime[c].last_raw_state
    BY <2>1, <1>1, <1>2, <1>3, <1>4, TimeAssumption DEF PressInv, Later
  <2>2. CASE ~chime[c].last_raw_state
    <3>1. StampAge(c)' = StampAge(c) + 1 /\ LoopAge' <= LoopAge + 1 /\ LoopAge' \in Nat
      BY <2>2, <1>1, <1>4, <1>6 DEF Later
    <3> QED  BY <3>1, <1>1, <1>3, TimeAssumption DEF PressInv, LowLasts
  <2> QED  BY <2>1, <2>2, <1>1, <1>2 DEF TypeOK, ChimeState
<1>9. NotMissed(c)'
  <2> SUFFICES ASSUME held'[c] > Settling + gap'[c], Later(LoopAge) >= Blocked + gap'[c],
                      Later(EventAge(c)) > Cooldown + gap'[c]
               PROVE  chime[c].button_pressed
    BY <1>2, <1>4 DEF NotMissed
  <2>1. /\ held[c] > Settling + gap[c] /\ LoopAge >= Blocked + gap[c]
        /\ EventAge(c) > Cooldown + gap[c]
    BY <1>1, <1>2, <1>3, TimeAssumption DEF Later, Settling, Blocked
  <2> QED  BY <2>1 DEF PressInv, NotMissed
<1>10. (~level[c] /\ ~noticed[c] => Waiting(held[c], gap[c], LoopAge, EventAge(c)))'
  BY <1>1, <1>2, <1>3, <1>4, WaitingTick DEF PressInv
<1> QED  BY <1>5, <1>7, <1>8, <1>9, <1>10 DEF PressInv

\* A pass of c that leaves the press unnoticed was too early for it, or fell
\* into the guard time or into the cooldown.
LEMMA StillWaiting ==
  ASSUME TypeOK, TypeOK', NEW c \in Chimes, PressInv(c), EnterLoop, PassFrame(c),
         ~level[c], ~noticed[c], EventAge(c)' = EventAge(c),
         held[c] <= Settling \/ LoopAge' < Blocked \/ EventAge(c) <= Cooldown
  PROVE  Waiting(held[c], gap[c], LoopAge, EventAge(c))'
<1>1. /\ gap[c] \in 0 .. MaxGap /\ held[c] \in Nat /\ gap'[c] = 0 /\ held' = held /\ now' = now
      /\ LoopAge \in Time /\ LoopAge' \in Nat /\ EventAge(c) \in Time /\ Settling \in Nat
      /\ MaxGap <= Settling /\ MaxGap \in Nat
  BY ClockAges, ClockAgesNext, Caps, TimeAssumption DEF TypeOK, PassFrame, Settling, Time
<1>2. CASE is_loop_started
  <2>1. LoopAge' = LoopAge
    BY <1>1, <1>2 DEF EnterLoop, LoopAge, Elapsed
  <2> QED  BY <1>1, <2>1, WaitingPass DEF PressInv
<1>3. CASE ~is_loop_started
  BY <1>1, <1>3 DEF PressInv, Waiting
<1> QED  BY <1>2, <1>3

\* A pass in the guard time forgets the press, and its own time with it.
LEMMA GuardPress ==
  ASSUME IInv, TypeOK', NEW c \in Chimes, GuardPass(c), PressInv(c)
  PROVE  PressInv(c)'
<1>1. EnterLoop /\ PassFrame(c) /\ TypeOK /\ InGuardTime
  BY DEF GuardPass, IInv
<1>2. /\ chime'[c].last_raw_state = level[c] /\ chime'[c].last_debounce_ms = now
      /\ chime'[c].last_event_ms = chime[c].last_event_ms
      /\ ~chime'[c].button_pressed
  BY <1>1 DEF GuardPass, Hold, TypeOK, ChimeState
<1>3. /\ now' = now /\ level' = level /\ held' = held /\ gap'[c] = 0 /\ is_loop_started'
      /\ noticed'[c] = (~level[c] /\ (noticed[c] \/ chime'[c].button_pressed))
  BY <1>1 DEF PassFrame, EnterLoop, TypeOK
<1>4. StampAge(c)' = 0 /\ EventAge(c)' = EventAge(c)
  BY <1>1, <1>2, <1>3, ElapsedIs DEF StampAge, EventAge, Elapsed, TypeOK
<1>5. LoopAge' < Guard /\ LoopAge' \in Nat
  BY <1>1, <1>3, ClockAgesNext DEF InGuardTime, LoopAge, Elapsed
<1>6. EventAge(c) \in Nat /\ held[c] \in Nat
  BY <1>1, ClockAges, Caps DEF TypeOK, Time
<1>7. StampYoung(c)' /\ LowLasts(c)' /\ NotMissed(c)'
  BY <1>3, <1>4, <1>5, <1>6, TimeAssumption DEF StampYoung, LowLasts, NotMissed, Blocked
<1>8. (~level[c] /\ ~noticed[c] => Waiting(held[c], gap[c], LoopAge, EventAge(c)))'
  <2> SUFFICES ASSUME ~level[c], ~noticed[c]
               PROVE  Waiting(held[c], gap[c], LoopAge, EventAge(c))'
    BY <1>3
  <2>1. LoopAge' < Blocked
    BY <1>5, TimeAssumption DEF Blocked
  <2> QED  BY <2>1, <1>1, <1>4, StillWaiting
<1>9. (level[c] => held[c] = 0)' /\ (held[c] > gap[c] => ~chime[c].last_raw_state)'
  BY <1>2, <1>3, <1>6 DEF PressInv
<1> QED  BY <1>3, <1>7, <1>8, <1>9 DEF PressInv

\* A full pass that leaves the chime in state q.
LEMMA FullPress ==
  ASSUME IInv, TypeOK', NEW c \in Chimes, EnterLoop, ~InGuardTime, PassFrame(c), PressInv(c),
         NEW q, chime' = [chime EXCEPT ![c] = q],
         LET p == Processed(chime[c], level[c])
         IN  /\ q.last_raw_state = p.last_raw_state
             /\ q.last_debounce_ms = p.last_debounce_ms
             /\ q.last_event_ms = p.last_event_ms
             /\ q.button_pressed = p.button_pressed
  PROVE  PressInv(c)'
<1> DEFINE s == chime[c]
           old == StampAge(c)
           new == Elapsed(q.last_debounce_ms)
<1>1. TypeOK /\ s \in ChimeState /\ level[c] \in BOOLEAN
  BY DEF IInv, TypeOK
<1>2. /\ now' = now /\ level' = level /\ held' = held /\ gap'[c] = 0 /\ is_loop_started'
      /\ noticed'[c] = (~level[c] /\ (noticed[c] \/ q.button_pressed))
      /\ chime'[c] = q
  BY <1>1 DEF PassFrame, EnterLoop, TypeOK
<1>3. /\ q.last_raw_state = level[c]
      /\ q.last_debounce_ms = IF level[c] # s.last_raw_state THEN now ELSE s.last_debounce_ms
      /\ q.button_pressed <=>
           IF s.button_pressed THEN ~(new > Debounce /\ level[c])
           ELSE new > Debounce /\ ~level[c] /\ EventAge(c) > Cooldown
      /\ s.button_pressed \/ ~q.button_pressed => q.last_event_ms = s.last_event_ms
  <2> DEFINE r == Processed(s, level[c])
  <2>1. ButtonSummary(s, level[c], r) /\ PassSummary(s, r)
    BY <1>1, ButtonFacts, ProcessedFacts
  <2>2. /\ q.last_raw_state = r.last_raw_state /\ q.last_debounce_ms = r.last_debounce_ms
        /\ q.last_event_ms = r.last_event_ms /\ q.button_pressed = r.button_pressed
    OBVIOUS
  <2> HIDE DEF r
  <2> QED  BY <2>1, <2>2 DEF ButtonSummary, PassSummary, EventAge
<1>4. /\ old \in Nat /\ new \in Nat /\ StampAge(c)' = new
      /\ s.last_raw_state /\ ~level[c] => new = 0
      /\ ~s.last_raw_state /\ ~level[c] => new = old
  <2>1. old \in Nat /\ Elapsed(now) = 0
    BY <1>1, ClockAges, ElapsedIs DEF Time, TypeOK
  <2>2. s.last_raw_state \in BOOLEAN /\ level[c] \in BOOLEAN
    BY <1>1 DEF ChimeState
  <2>3. StampAge(c)' = new
    BY <1>2 DEF Elapsed, StampAge
  <2>4. CASE level[c] # s.last_raw_state
    <3>1. new = 0
      BY <2>1, <2>4, <1>3
    <3> QED  BY <3>1, <2>1, <2>2, <2>3, <2>4
  <2>5. CASE level[c] = s.last_raw_state
    <3>1. new = old
      BY <2>5, <1>3 DEF StampAge
    <3> QED  BY <3>1, <2>1, <2>2, <2>3, <2>5
  <2> QED  BY <2>4, <2>5
<1>5. /\ EventAge(c) \in Nat /\ EventAge(c)' \in Nat /\ held[c] \in Nat /\ gap[c] \in 0 .. MaxGap
      /\ LoopAge' \in Nat
  BY <1>1, ClockAges, ClockAgesNext, Caps DEF TypeOK, Time
<1>6. LoopAge' >= Guard
  BY <1>2, <1>5, TimeAssumption DEF InGuardTime, LoopAge, Elapsed
<1>7. is_loop_started => LoopAge' = LoopAge
  BY <1>2 DEF EnterLoop, LoopAge, Elapsed
<1>8. s.button_pressed \/ ~q.button_pressed => EventAge(c)' = EventAge(c)
  BY <1>2, <1>3 DEF EventAge, Elapsed
<1>9. s.button_pressed \in BOOLEAN /\ s.last_raw_state \in BOOLEAN
  BY <1>1 DEF ChimeState
<1>10. /\ level[c] => held[c] = 0
       /\ held[c] > gap[c] => ~s.last_raw_state
       /\ ~is_loop_started => held[c] <= gap[c]
       /\ ~level[c] /\ ~s.button_pressed => held[c] <= MaxGap + old \/ LoopAge < Guard + old
       /\ ~s.last_raw_state /\ ~s.button_pressed =>
            \/ old <= Debounce + gap[c]
            \/ EventAge(c) <= Cooldown + gap[c] /\ old <= Debounce + MaxGap + EventAge(c)
  BY DEF PressInv, LowLasts, StampYoung, s, old
<1> HIDE DEF s, old, new
\* Why a low level does not count.
<1>11. ASSUME ~level[c], ~q.button_pressed
       PROVE  /\ ~s.button_pressed /\ EventAge(c)' = EventAge(c)
              /\ new <= Debounce \/ EventAge(c) <= Cooldown
              /\ held[c] <= MaxGap + new \/ LoopAge' < Guard + new
  <2>1. ~s.button_pressed /\ (new <= Debounce \/ EventAge(c) <= Cooldown)
    BY <1>3, <1>4, <1>5, <1>9, <1>11, TimeAssumption
  <2>2. ASSUME s.last_raw_state \/ ~is_loop_started
        PROVE  held[c] <= MaxGap + new
    BY <2>2, <1>4, <1>5, <1>9, <1>10, TimeAssumption
  <2>3. ASSUME ~s.last_raw_state, is_loop_started
        PROVE  held[c] <= MaxGap + new \/ LoopAge' < Guard + new
    BY <2>1, <2>3, <1>1, <1>4, <1>7, <1>10, <1>11
  <2> QED  BY <2>1, <2>2, <2>3, <1>8, <1>9, <1>11
<1>12. (level[c] => held[c] = 0)' /\ (held[c] > gap[c] => ~chime[c].last_raw_state)'
  BY <1>2, <1>3, <1>5, <1>10
<1>13. StampYoung(c)'
  <2> SUFFICES ASSUME ~level[c], ~q.button_pressed
               PROVE  \/ new <= Debounce
                      \/ EventAge(c)' <= Cooldown /\ new <= Debounce + MaxGap + EventAge(c)'
    BY <1>2, <1>3, <1>4, TimeAssumption DEF StampYoung
  <2>1. CASE s.last_raw_state
    BY <2>1, <1>4, <1>9, TimeAssumption
  <2>2. CASE ~s.last_raw_state
    BY <2>2, <1>1, <1>4, <1>5, <1>9, <1>10, <1>11, TimeAssumption
  <2> QED  BY <2>1, <2>2
<1>14. LowLasts(c)'
  BY <1>2, <1>4, <1>11 DEF LowLasts
<1>15. ~level[c] /\ ~q.button_pressed =>
         held[c] <= Settling \/ LoopAge' < Blocked \/ EventAge(c) <= Cooldown
  <2>1. new \in Nat
    BY <1>4
  <2> QED  BY <2>1, <1>5, <1>11, TimeAssumption DEF Settling, Blocked
<1>16. NotMissed(c)'
  <2> SUFFICES ASSUME held[c] > Settling, LoopAge' >= Blocked, EventAge(c)' > Cooldown,
                      ~q.button_pressed
               PROVE  FALSE
    <3>1. Settling + 0 = Settling /\ Blocked + 0 = Blocked /\ Cooldown + 0 = Cooldown
      BY TimeAssumption DEF Settling, Blocked
    <3> QED  BY <3>1, <1>2 DEF NotMissed
  <2>1. ~level[c]
    BY <1>1, <1>10, TimeAssumption DEF Settling
  <2> QED  BY <2>1, <1>5, <1>11, <1>15, TimeAssumption DEF Settling, Blocked
<1>17. (~level[c] /\ ~noticed[c] => Waiting(held[c], gap[c], LoopAge, EventAge(c)))'
  <2> SUFFICES ASSUME ~level[c], ~noticed[c], ~q.button_pressed
               PROVE  Waiting(held[c], gap[c], LoopAge, EventAge(c))'
    BY <1>2
  <2> QED  BY <1>1, <1>11, <1>15, StillWaiting
<1> QED  BY <1>2, <1>12, <1>13, <1>14, <1>16, <1>17 DEF PressInv

LEMMA NextPress ==
  IInv /\ TypeOK' /\ (\A c \in Chimes : PressInv(c)) /\ [Next]_vars
    => (\A c \in Chimes : PressInv(c))'
<1> SUFFICES ASSUME IInv, TypeOK', \A d \in Chimes : PressInv(d), [Next]_vars,
                    NEW c \in Chimes
             PROVE  PressInv(c)'
  OBVIOUS
<1>1. TypeOK /\ PressInv(c) /\ chime[c] \in ChimeState
  BY DEF IInv, TypeOK
<1>2. CASE Tick
  BY <1>1, <1>2, TickPress
<1>3. CASE GuardPass(c)
  BY <1>1, <1>3, GuardPress
<1>4. CASE SilentPass(c)
  <2>1. /\ chime' = [chime EXCEPT ![c] = Processed(chime[c], level[c])]
        /\ EnterLoop /\ ~InGuardTime /\ PassFrame(c)
    BY <1>4 DEF SilentPass
  <2> QED  BY <2>1, <1>1, FullPress
<1>5. CASE PublishPass(c)
  <2> DEFINE p == Processed(chime[c], level[c])
             q == [p EXCEPT !.mqtt_sent = TRUE]
  <2>1. chime' = [chime EXCEPT ![c] = q] /\ EnterLoop /\ ~InGuardTime /\ PassFrame(c)
    BY <1>5 DEF PublishPass
  <2>2. p \in ChimeState
    BY <1>1, StagesType DEF TypeOK
  <2>3. /\ q.last_raw_state = p.last_raw_state /\ q.last_debounce_ms = p.last_debounce_ms
        /\ q.last_event_ms = p.last_event_ms /\ q.button_pressed = p.button_pressed
    BY <2>2 DEF ChimeState
  <2> HIDE DEF q
  <2> QED  BY <2>1, <2>3, <1>1, FullPress
<1>6. ASSUME NEW d \in Chimes \ {c}, Pass(d) PROVE PressInv(c)'
  <2>1. /\ chime'[c] = chime[c] /\ gap'[c] = gap[c] /\ noticed'[c] = noticed[c]
        /\ now' = now /\ level' = level /\ held' = held /\ EnterLoop
    BY <1>1, <1>6 DEF Pass, GuardPass, SilentPass, PublishPass, PassFrame, TypeOK
  <2>2. \/ is_loop_started' = is_loop_started /\ loop_start_ms' = loop_start_ms
        \/ ~is_loop_started /\ is_loop_started'
    BY <1>1, <2>1 DEF EnterLoop, TypeOK
  <2> QED  BY <2>1, <2>2, <1>1, PressKept
<1>7. ASSUME NEW d \in Chimes, NEW m \in Commands, Message(d, m) PROVE PressInv(c)'
  <2>1. /\ chime'[c].last_raw_state = chime[c].last_raw_state
        /\ chime'[c].last_debounce_ms = chime[c].last_debounce_ms
        /\ chime'[c].last_event_ms = chime[c].last_event_ms
        /\ chime'[c].button_pressed = chime[c].button_pressed
    <3>1. CASE d = c
      BY <1>1, <1>7, <3>1 DEF Message, Commands, TypeOK, ChimeState
    <3>2. CASE d # c
      BY <1>1, <1>7, <3>2 DEF Message, TypeOK
    <3> QED  BY <3>1, <3>2
  <2>2. /\ now' = now /\ gap' = gap /\ level' = level /\ held' = held /\ noticed' = noticed
        /\ is_loop_started' = is_loop_started /\ loop_start_ms' = loop_start_ms
    BY <1>7 DEF Message
  <2> QED  BY <2>1, <2>2, <1>1, PressKept
<1>8. ASSUME NEW d \in Chimes, Press(d) \/ Release(d) PROVE PressInv(c)'
  <2>1. /\ chime' = chime /\ now' = now /\ gap' = gap
        /\ is_loop_started' = is_loop_started /\ loop_start_ms' = loop_start_ms
        /\ \/ level'[c] = level[c] /\ held'[c] = held[c] /\ noticed'[c] = noticed[c]
           \/ held'[c] = 0
    BY <1>1, <1>8 DEF Press, Release, TypeOK
  <2> QED  BY <2>1, <1>1, PressKept
<1>9. CASE UNCHANGED vars
  BY <1>1, <1>9, PressKept DEF vars, code_vars, history
<1>10. ASSUME NEW d \in Chimes, Pass(d) PROVE PressInv(c)'
  BY <1>3, <1>4, <1>5, <1>6, <1>10 DEF Pass
<1> QED  BY <1>2, <1>7, <1>8, <1>9, <1>10 DEF Next

\* A press that is settled is noticed at the last pass, but for the guard time
\* and the cooldown, and the clock that brings these back holds no press back
\* for longer than the two of them take.
THEOREM PressIsSeen == Spec => []PressNotMissed
<1> DEFINE I == IInv /\ \A c \in Chimes : PressInv(c)
<1>1. Init => I
  BY InitInv, InitPress
<1>2. I /\ [Next]_vars => I'
  <2>1. IInv => TypeOK
    BY DEF IInv
  <2> QED  BY <2>1, NextInv, NextType, NextPress
<1>3. I => PressNotMissed
  <2> SUFFICES ASSUME I, NEW c \in Chimes
               PROVE  /\ /\ held[c] - gap[c] > MaxGap + Debounce
                         /\ (up % Wrap) - gap[c] >= Guard + Debounce
                         /\ (event_age[c] % Wrap) - gap[c] > Cooldown
                         => chime[c].button_pressed
                      /\ held[c] - gap[c] >= Patience => noticed[c]
    BY DEF PressNotMissed
  <2>1. /\ gap[c] \in 0 .. MaxGap /\ held[c] \in Nat /\ up \in Ages /\ event_age[c] \in Ages
        /\ LoopAge \in Time /\ EventAge(c) \in Time
    BY ClockAges, Caps DEF IInv, TypeOK, Ages
  <2>2. /\ EventAge(c) = event_age[c] % Wrap
        /\ is_loop_started => LoopAge = up % Wrap
    BY <2>1, AgesWrap DEF IInv, ChimeInv, EventClock, LoopClock, LoopAge, EventAge
  <2>3. PressInv(c)
    OBVIOUS
  <2>4. held[c] > gap[c] => is_loop_started /\ ~level[c]
    BY <2>1, <2>3 DEF PressInv, IInv, TypeOK
  <2>5. ASSUME held[c] - gap[c] > MaxGap + Debounce, (up % Wrap) - gap[c] >= Guard + Debounce,
               (event_age[c] % Wrap) - gap[c] > Cooldown
        PROVE  chime[c].button_pressed
    <3>1. is_loop_started
      BY <2>1, <2>4, <2>5, TimeAssumption
    <3> QED  BY <2>1, <2>2, <2>3, <2>5, <3>1, TimeAssumption
             DEF PressInv, NotMissed, Settling, Blocked, Time
  <2>6. ASSUME held[c] - gap[c] >= Patience, ~noticed[c] PROVE FALSE
    <3>1. ~level[c]
      BY <2>1, <2>4, <2>6, TimeAssumption DEF Patience
    <3>2. held[c] - gap[c] < Patience
      BY <2>1, <2>3, <2>6, <3>1, WaitingEnds DEF PressInv
    <3> QED  BY <2>1, <2>6, <3>2, Caps, TimeAssumption DEF Patience
  <2> QED  BY <2>5, <2>6
<1> HIDE DEF I
<1> QED  BY <1>1, <1>2, <1>3, PTL DEF Spec
=============================================================================
