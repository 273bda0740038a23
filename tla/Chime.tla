-------------------------------- MODULE Chime --------------------------------
(***************************************************************************)
(* The chime state machines of app/smart_bell.cpp: process_chime(), run    *)
(* by the main loop for each chime, and on_mqtt_message_received(), run    *)
(* from inside MinimalMQTT::loop() between two passes.                     *)
(*                                                                         *)
(* Time is the 32-bit millisecond counter of TimerService, kept modulo     *)
(* Wrap.  The main loop may be held up (a blocking connect, EEPROM writes) *)
(* between two passes; MaxGap bounds by how much.  The button is polled:   *)
(* what it does between two passes is only seen through its level.         *)
(***************************************************************************)
EXTENDS Integers

CONSTANTS
  Chimes,     \* the two chimes
  Wrap,       \* 2^32: the counter's modulus
  BootTimes,  \* values millis() can have when main() enters its loop
  Guard,      \* 3000 ms without processing after the loop was entered
  Debounce,   \* 50 ms
  Cooldown,   \* 3000 ms between two button events
  RingTime,   \* 1500 ms of gong
  MaxGap      \* bound: the longest time between two passes of a chime

\* The code's constants and the watchdog period are far below 2^32 ms.
ASSUME TimeAssumption ==
  /\ Wrap \in Nat /\ Guard \in Nat /\ Debounce \in Nat
  /\ Cooldown \in Nat /\ RingTime \in Nat \ {0} /\ MaxGap \in Nat \ {0}
  /\ Cooldown < Wrap
  /\ RingTime + Guard + 2 * MaxGap < Wrap
  /\ Guard + Debounce + Cooldown + 2 * MaxGap < Wrap
  /\ BootTimes \subseteq 0 .. Wrap - 1

VARIABLES
  now,              \* TimerService::millis()
  is_loop_started,  \* the two static locals of process_chime,
  loop_start_ms,    \*   shared by both chimes
  chime,            \* struct ChimeState of each chime
  level,            \* the input pin of each chime, active low
  \* History, kept in true time; none of it is read by the code.
  gap,              \* ms since the last pass of the chime
  ring_age,         \* ms the gong has been sounding, at most RingCap
  event_age,        \* ms since the last button event, see Aged
  held,             \* ms the button has been down, at most HeldCap
  noticed,          \* it has counted as pressed since it went down
  up,               \* ms since the loop was entered, see Aged
  rung,             \* a RING command came in since the last pass
  publishes         \* successful publishes of the current event

code_vars == <<now, is_loop_started, loop_start_ms, chime, level>>
history == <<gap, ring_age, event_age, held, noticed, up, rung, publishes>>
vars == <<code_vars, history>>

\* At this age, seen from a pass, every press has been noticed.
Patience == Guard + Cooldown + 2 * Debounce + 3 * MaxGap
HeldCap == Patience + MaxGap
RingCap == RingTime + Guard + 2 * MaxGap

Time == 0 .. Wrap - 1

\* struct ChimeState, without its pin masks and topic; out is the port bit.
ChimeState ==
  [enabled : BOOLEAN, trigger_pending : BOOLEAN, is_ringing : BOOLEAN,
   ring_start_ms : Time, button_pressed : BOOLEAN, mqtt_sent : BOOLEAN,
   last_raw_state : BOOLEAN, last_debounce_ms : Time, last_event_ms : Time,
   out : BOOLEAN]

Commands == {"ON", "OFF", "RING"}

\* now - t on uint32_t.
Elapsed(t) == (now - t) % Wrap

CappedSucc(n, cap) == IF n < cap THEN n + 1 ELSE cap

\* An age one ms later.  Of one beyond Wrap only the remainder is kept.
Aged(n) == IF n + 1 < 2 * Wrap THEN n + 1 ELSE Wrap

-----------------------------------------------------------------------------
(* The stages of one pass of process_chime, in program order. *)

\* During the guard time after boot the state only follows the pin.
Hold(s, raw) ==
  [s EXCEPT !.last_raw_state = raw, !.last_debounce_ms = now,
            !.button_pressed = FALSE, !.mqtt_sent = FALSE,
            !.trigger_pending = FALSE]

\* Faulty variant: every low sample restarts the debounce timer.
Sample_RestartsOnLow(s, raw) ==
  [s EXCEPT !.last_raw_state = raw,
            !.last_debounce_ms = IF ~raw THEN now ELSE @]

\* 2. A level change restarts the debounce timer.
Sample(s, raw) ==
  [s EXCEPT !.last_raw_state = raw,
            !.last_debounce_ms = IF raw # s.last_raw_state THEN now ELSE @]

Settled(s) == Elapsed(s.last_debounce_ms) > Debounce

\* Faulty variant: the cooldown is not looked at.
IsEvent_NoCooldown(s) ==
  Settled(s) /\ ~s.last_raw_state /\ ~s.button_pressed

\* A settled low level is an event unless it is still the last one or the
\* cooldown is running; a settled high level re-arms the button.
IsEvent(s) ==
  /\ Settled(s) /\ ~s.last_raw_state
  /\ ~s.button_pressed
  /\ Elapsed(s.last_event_ms) > Cooldown

Detect(s) ==
  IF IsEvent(s)
    THEN [s EXCEPT !.last_event_ms = now, !.button_pressed = TRUE,
                   !.mqtt_sent = FALSE, !.trigger_pending = TRUE]
    ELSE [s EXCEPT !.button_pressed = @ /\ ~(Settled(s) /\ s.last_raw_state)]

\* Faulty variant: a trigger waits until it can start the gong.
Strike_KeepsTrigger(s) ==
  IF s.trigger_pending /\ s.enabled /\ ~s.is_ringing
    THEN [s EXCEPT !.trigger_pending = FALSE, !.is_ringing = TRUE,
                   !.ring_start_ms = now, !.out = TRUE]
    ELSE s

\* 3. A trigger is consumed; it starts the gong of an enabled, silent chime.
Strikes(s) == s.trigger_pending /\ s.enabled /\ ~s.is_ringing

Strike(s) ==
  IF Strikes(s)
    THEN [s EXCEPT !.trigger_pending = FALSE, !.is_ringing = TRUE,
                   !.ring_start_ms = now, !.out = TRUE]
    ELSE [s EXCEPT !.trigger_pending = FALSE]

\* Faulty variant: the end of the ring computed without regard to the wrap.
RingOver_NoWrap(s) == s.is_ringing /\ now >= s.ring_start_ms + RingTime

\* 4. The ring timer.
RingOver(s) == s.is_ringing /\ Elapsed(s.ring_start_ms) >= RingTime

StopRing(s) ==
  IF RingOver(s) THEN [s EXCEPT !.is_ringing = FALSE, !.out = FALSE] ELSE s

\* Stages 2 to 4.
Processed(s, raw) == StopRing(Strike(Detect(Sample(s, raw))))

\* Faulty variant: an event already sent is offered again.
WantsPublish_Again(s) == s.button_pressed

\* 5. An unsent event is offered to the MQTT client, connected or not: the
\* client itself refuses while it is not connected.
WantsPublish(s) == s.button_pressed /\ ~s.mqtt_sent

-----------------------------------------------------------------------------
(* Actions. *)

\* The static initialisers and init_chime(), with the pin at any level.
Init ==
  /\ now \in BootTimes
  /\ is_loop_started = FALSE
  /\ loop_start_ms = 0
  /\ level \in [Chimes -> BOOLEAN]
  /\ chime = [c \in Chimes |->
       [enabled |-> TRUE, trigger_pending |-> FALSE, is_ringing |-> FALSE,
        ring_start_ms |-> 0, button_pressed |-> FALSE, mqtt_sent |-> FALSE,
        last_raw_state |-> level[c], last_debounce_ms |-> now,
        last_event_ms |-> 0, out |-> FALSE]]
  /\ gap = [c \in Chimes |-> 0]
  /\ ring_age = [c \in Chimes |-> 0]
  /\ event_age = [c \in Chimes |-> now]
  /\ held = [c \in Chimes |-> 0]
  /\ noticed = [c \in Chimes |-> FALSE]
  /\ up = 0
  /\ rung = [c \in Chimes |-> FALSE]
  /\ publishes = [c \in Chimes |-> 0]

\* One millisecond passes; no chime waits longer than MaxGap for its pass.
Tick ==
  /\ \A c \in Chimes : gap[c] < MaxGap
  /\ now' = (now + 1) % Wrap
  /\ gap' = [c \in Chimes |-> gap[c] + 1]
  /\ ring_age' = [c \in Chimes |->
       IF chime[c].out THEN CappedSucc(ring_age[c], RingCap) ELSE 0]
  /\ event_age' = [c \in Chimes |-> Aged(event_age[c])]
  /\ held' = [c \in Chimes |->
       IF level[c] THEN 0 ELSE CappedSucc(held[c], HeldCap)]
  /\ up' = IF is_loop_started THEN Aged(up) ELSE up
  /\ UNCHANGED <<is_loop_started, loop_start_ms, chime, level, noticed, rung, publishes>>

\* The static locals are set by the first pass of either chime.
EnterLoop ==
  /\ is_loop_started' = TRUE
  /\ loop_start_ms' = IF is_loop_started THEN loop_start_ms ELSE now

InGuardTime == (now - loop_start_ms') % Wrap < Guard

\* What every pass of chime c leaves alone, and the history it restarts.
PassFrame(c) ==
  /\ gap' = [gap EXCEPT ![c] = 0]
  /\ rung' = [rung EXCEPT ![c] = FALSE]
  /\ noticed' = [noticed EXCEPT ![c] = ~level[c] /\ (@ \/ chime'[c].button_pressed)]
  /\ UNCHANGED <<now, level, held, up>>

GuardPass(c) ==
  /\ EnterLoop
  /\ InGuardTime
  /\ chime' = [chime EXCEPT ![c] = Hold(@, level[c])]
  /\ PassFrame(c)
  /\ UNCHANGED <<ring_age, event_age, publishes>>

\* This step of chime c is a button event.
ButtonEvent(c) == ~chime[c].button_pressed /\ chime'[c].button_pressed

\* History kept by a pass that leads chime c through its stages; n publishes
\* succeed in it.
Note(c, n) ==
  /\ event_age' = [event_age EXCEPT ![c] = IF ButtonEvent(c) THEN 0 ELSE @]
  /\ ring_age' = [ring_age EXCEPT ![c] =
       IF chime[c].out /\ chime'[c].out THEN @ ELSE 0]
  /\ publishes' = [publishes EXCEPT ![c] =
       (IF ButtonEvent(c) THEN 0 ELSE @) + n]

\* A full pass with nothing to publish, or whose publish fails: mqtt_sent
\* stays false and the next pass tries again.
SilentPass(c) ==
  /\ EnterLoop
  /\ ~InGuardTime
  /\ chime' = [chime EXCEPT ![c] = Processed(@, level[c])]
  /\ PassFrame(c)
  /\ Note(c, 0)

\* A full pass whose publish succeeds.
PublishPass(c) ==
  LET s == Processed(chime[c], level[c])
  IN /\ EnterLoop
     /\ ~InGuardTime
     /\ WantsPublish(s)
     /\ chime' = [chime EXCEPT ![c] = [s EXCEPT !.mqtt_sent = TRUE]]
     /\ PassFrame(c)
     /\ Note(c, 1)

Pass(c) == GuardPass(c) \/ SilentPass(c) \/ PublishPass(c)

\* Faulty variant: OFF silences a running gong.
Message_OffSilences(c, m) ==
  /\ chime' = [chime EXCEPT ![c] =
       CASE m = "ON"   -> [@ EXCEPT !.enabled = TRUE]
         [] m = "OFF"  -> [@ EXCEPT !.enabled = FALSE, !.is_ringing = FALSE,
                                    !.out = FALSE]
         [] m = "RING" -> [@ EXCEPT !.trigger_pending = TRUE]]
  /\ rung' = [rung EXCEPT ![c] = @ \/ m = "RING"]
  /\ UNCHANGED <<now, is_loop_started, loop_start_ms, level, gap, ring_age,
                 event_age, held, noticed, up, publishes>>

\* on_mqtt_message_received: the payload's prefix selects the command.
Message(c, m) ==
  /\ chime' = [chime EXCEPT ![c] =
       CASE m = "ON"   -> [@ EXCEPT !.enabled = TRUE]
         [] m = "OFF"  -> [@ EXCEPT !.enabled = FALSE]
         [] m = "RING" -> [@ EXCEPT !.trigger_pending = TRUE]]
  /\ rung' = [rung EXCEPT ![c] = @ \/ m = "RING"]
  /\ UNCHANGED <<now, is_loop_started, loop_start_ms, level, gap,
                 ring_age, event_age, held, noticed, up, publishes>>

\* The finger on the button.
Press(c) ==
  /\ level[c]
  /\ level' = [level EXCEPT ![c] = FALSE]
  /\ held' = [held EXCEPT ![c] = 0]
  /\ noticed' = [noticed EXCEPT ![c] = FALSE]
  /\ UNCHANGED <<now, is_loop_started, loop_start_ms, chime, gap,
                 ring_age, event_age, up, rung, publishes>>

Release(c) ==
  /\ ~level[c]
  /\ level' = [level EXCEPT ![c] = TRUE]
  /\ held' = [held EXCEPT ![c] = 0]
  /\ noticed' = [noticed EXCEPT ![c] = FALSE]
  /\ UNCHANGED <<now, is_loop_started, loop_start_ms, chime, gap,
                 ring_age, event_age, up, rung, publishes>>

Next ==
  \/ Tick
  \/ \E c \in Chimes : \/ Pass(c)
                       \/ \E m \in Commands : Message(c, m)
                       \/ Press(c)
                       \/ Release(c)

Spec == Init /\ [][Next]_vars

-----------------------------------------------------------------------------
(* Properties. *)

\* Type invariant.
TypeOK ==
  /\ now \in Time
  /\ is_loop_started \in BOOLEAN
  /\ loop_start_ms \in Time
  /\ chime \in [Chimes -> ChimeState]
  /\ level \in [Chimes -> BOOLEAN]
  /\ gap \in [Chimes -> 0 .. MaxGap]
  /\ ring_age \in [Chimes -> 0 .. RingCap]
  /\ event_age \in [Chimes -> 0 .. 2 * Wrap - 1]
  /\ held \in [Chimes -> 0 .. HeldCap]
  /\ noticed \in [Chimes -> BOOLEAN]
  /\ up \in 0 .. 2 * Wrap - 1
  /\ rung \in [Chimes -> BOOLEAN]
  /\ publishes \in [Chimes -> Nat]

\* In the first 2^32 ms of operation the output never stays on longer than
\* RingTime plus what the main loop was late, across the wrap of the clock.
\* After that the guard time comes back whenever now - loop_start_ms wraps,
\* and the ring timer is not looked at meanwhile: the bound grows by the guard
\* time and one late pass.
RingBounded ==
  \A c \in Chimes :
    chime[c].out =>
      ring_age[c] < RingTime + gap[c]
                      + (IF up < Wrap THEN 0 ELSE Guard + MaxGap)

\* A gong is never cut short: neither OFF, nor a second RING, nor the
\* guard time ends it early.
RingNotCutShort ==
  [][\A c \in Chimes :
       chime[c].is_ringing /\ ~chime'[c].is_ringing
         => ring_age[c] >= RingTime]_vars

\* Two button events of one chime are more than Cooldown apart in true time,
\* however the clock wraps.
CooldownRespected ==
  [][\A c \in Chimes :
       ButtonEvent(c) => event_age[c] > Cooldown]_vars

\* A gong starts only for a RING received since the last pass or for a
\* button event of this very pass: no trigger survives a pass, so one that
\* came while the chime was off or ringing cannot sound later.
NoStaleRing ==
  [][\A c \in Chimes :
       ~chime[c].is_ringing /\ chime'[c].is_ringing
         => rung[c] \/ ButtonEvent(c)]_vars

\* How long the finger can be down unnoticed.  A press that is settled is
\* noticed at the last pass at the latest, except in the guard time and in the
\* cooldown.  Both come back when their stamp is Wrap ms old, without a boot and
\* without an event: a press that falls into them is held back, and lost if it
\* ends there.  It is not held back for ever: whatever the clock, a press that
\* outlasts one guard time and one cooldown has been noticed.
PressNotMissed ==
  \A c \in Chimes :
    /\ /\ held[c] - gap[c] > MaxGap + Debounce
       /\ (up % Wrap) - gap[c] >= Guard + Debounce
       /\ (event_age[c] % Wrap) - gap[c] > Cooldown
       => chime[c].button_pressed
    /\ held[c] - gap[c] >= Patience => noticed[c]

\* One event is published at most once, however often the publication is
\* retried, and mqtt_sent records exactly that.
PublishedOnce ==
  \A c \in Chimes :
    /\ publishes[c] <= 1
    /\ chime[c].button_pressed => (chime[c].mqtt_sent <=> publishes[c] = 1)
=============================================================================
