---------------------------- MODULE GongApp_proofs ----------------------------
(***************************************************************************)
(* Theorems about the application of src/App for every number of buttons   *)
(* and gongs, every duration and every width of the clock.                 *)
(*                                                                         *)
(* The stop time of a gong is a reading of a clock that wraps, the promise *)
(* is about true time.  The inductive invariant ties the two: as long as a *)
(* gong is at most Late behind its time, the stop time is the clock's      *)
(* reading at that time; and a gong that has outlived the end of a pass    *)
(* did so because the clock wrapped before that pass looked at it.         *)
(***************************************************************************)
EXTENDS GongApp, TLAPS

\* Only the handlers of the operating states are ever interrupted midway.
Place == state \notin Operating => at = "pass"

\* The stop time is the reading of the clock when the gong is due.
OnTime(g) == left[g] >= -Late => gong[g].stop = (now + left[g]) % Wrap

\* A gong that was due before the last pass ended was missed by it.
Missed(g) == left[g] < -gap => gong[g].stop + Late >= Wrap

Sounding == \A g \in Gongs : Active(g) => state \in Operating /\ OnTime(g) /\ Missed(g)

IInv == TypeOK /\ Place /\ Sounding

\* A level that has changed since it was read has raised the interrupt.
Sampled == at = "act" /\ current # pin[cur] => pending[cur]

-----------------------------------------------------------------------------

\* Adding modulo W, without the modulus.
LEMMA Sum ==
  ASSUME NEW W \in Nat \ {0}, NEW a \in 0 .. W - 1, NEW b \in 0 .. W - 1
  PROVE  (a + b) % W = IF a + b < W THEN a + b ELSE a + b - W
<1>1. CASE a + b < W
  BY <1>1
<1>2. CASE a + b >= W
  BY <1>2
<1> QED  BY <1>1, <1>2

\* Looking ahead or back by less than the modulus.
LEMMA Ahead ==
  ASSUME NEW n \in Time, NEW d \in -Late .. MaxDuration
  PROVE  (n + d) % Wrap = IF n + d >= Wrap THEN n + d - Wrap
                          ELSE IF n + d < 0 THEN n + d + Wrap ELSE n + d
<1>1. Wrap \in Nat \ {0} /\ n \in 0 .. Wrap - 1
  BY GongAssumption DEF Time
<1>2. CASE d >= 0
  <2>1. d \in 0 .. Wrap - 1
    BY <1>2, GongAssumption
  <2> DEFINE m == (n + d) % Wrap
  <2>2. m = IF n + d < Wrap THEN n + d ELSE n + d - Wrap
    BY <1>1, <2>1, Sum
  <2> HIDE DEF m
  <2>3. m = IF n + d >= Wrap THEN n + d - Wrap
            ELSE IF n + d < 0 THEN n + d + Wrap ELSE n + d
    BY <1>1, <2>1, <2>2
  <2> QED  BY <2>3 DEF m
<1>3. CASE d < 0
  <2> DEFINE b == -d
  <2>1. b \in 0 .. Wrap - 1 /\ n + d = n - b
    BY <1>1, <1>3, GongAssumption
  <2>2. (n - b) % Wrap = IF n >= b THEN n - b ELSE n - b + Wrap
    BY <1>1, <2>1
  <2> DEFINE m == (n + d) % Wrap
  <2>3. m = IF n >= b THEN n - b ELSE n - b + Wrap
    BY <2>1, <2>2
  <2> HIDE DEF m
  <2>4. m = IF n + d >= Wrap THEN n + d - Wrap
            ELSE IF n + d < 0 THEN n + d + Wrap ELSE n + d
    BY <1>1, <1>3, <2>1, <2>3
  <2> QED  BY <2>4 DEF m
<1>4. d >= 0 \/ d < 0
  BY GongAssumption
<1> QED  BY <1>2, <1>3, <1>4, Zenon

\* What lies ahead stays where it is while the clock ticks from n to k.
LEMMA AheadTick ==
  ASSUME NEW n \in Time, NEW k \in Time, k = (n + 1) % Wrap,
         NEW d \in -Late + 1 .. MaxDuration
  PROVE  (k + (d - 1)) % Wrap = (n + d) % Wrap
<1> DEFINE here == (k + (d - 1)) % Wrap
           there == (n + d) % Wrap
<1>1. k = IF n + 1 < Wrap THEN n + 1 ELSE 0
  BY GongAssumption DEF Time
<1>2. d - 1 \in -Late .. MaxDuration /\ d \in -Late .. MaxDuration
  BY GongAssumption
<1>3. here = IF k + (d - 1) >= Wrap THEN k + (d - 1) - Wrap
             ELSE IF k + (d - 1) < 0 THEN k + (d - 1) + Wrap ELSE k + (d - 1)
  BY <1>2, Ahead
<1>4. there = IF n + d >= Wrap THEN n + d - Wrap ELSE IF n + d < 0 THEN n + d + Wrap ELSE n + d
  BY <1>2, Ahead
<1> HIDE DEF here, there
<1>5. here = there
  BY <1>1, <1>2, <1>3, <1>4, GongAssumption DEF Time
<1> QED  BY <1>5 DEF here, there

\* A gong that has been switched on, and nothing else.
Quiet == [g \in Gongs |-> [enabled |-> TRUE, stop |-> Silent]]

LEMMA QuietGongs == Quiet \in [Gongs -> GongState]
  BY DEF Quiet, GongState

LEMMA InitIInv == Init => IInv
<1> SUFFICES ASSUME Init PROVE IInv
  OBVIOUS
<1>1. TypeOK
  <2>1. gong \in [Gongs -> GongState]
    BY QuietGongs DEF Init, Quiet
  <2>2. left \in [Gongs -> -Late - 1 .. MaxDuration]
    <3>1. 0 \in -Late - 1 .. MaxDuration
      BY GongAssumption
    <3> QED  BY <3>1 DEF Init
  <2>3. duration \in MinDuration .. MaxDuration /\ now \in Time /\ waited \in 0 .. RetryAfter
        /\ gap \in 0 .. Late /\ broker \in Addresses /\ eeprom \in Addresses
    BY GongAssumption DEF Init, Time, Addresses
  <2> QED  BY <2>1, <2>2, <2>3 DEF Init, TypeOK, AppState
<1>2. Place /\ Sounding
  BY DEF Init, Place, Sounding, Active, Silent
<1> QED  BY <1>1, <1>2 DEF IInv

\* Ringing: the gongs that sound are due in time.
LEMMA TriggerSounds ==
  ASSUME TypeOK, Sounding, NEW gs \in SUBSET Gongs, NEW force \in BOOLEAN,
         Trigger(gs, force), UNCHANGED <<now, gap>>, state' \in Operating
  PROVE  /\ gong' \in [Gongs -> GongState]
         /\ left' \in [Gongs -> -Late - 1 .. MaxDuration]
         /\ Sounding'
<1> DEFINE D == Clamped(duration)
<1>1. D \in MinDuration .. MaxDuration
  BY GongAssumption DEF TypeOK, Clamped
<1>2. (now + D) % Wrap \in Time
  <2> DEFINE r == (now + D) % Wrap
  <2>1. D \in -Late .. MaxDuration /\ now \in Time
    BY <1>1, GongAssumption DEF TypeOK
  <2> HIDE DEF D
  <2>2. r = IF now + D >= Wrap THEN now + D - Wrap ELSE IF now + D < 0 THEN now + D + Wrap ELSE now + D
    BY <2>1, Ahead
  <2> HIDE DEF r
  <2>3. r \in Time
    BY <2>1, <2>2, GongAssumption DEF Time
  <2> QED  BY <2>3 DEF r
<1> HIDE DEF D
<1>3. \A g \in Gongs :
        /\ gong'[g] = IF g \in Rings(gs, force) THEN [gong[g] EXCEPT !.stop = (now + D) % Wrap]
                                               ELSE gong[g]
        /\ left'[g] = IF g \in Rings(gs, force) THEN D ELSE left[g]
  BY DEF Trigger, D
<1>4. \A g \in Gongs : gong[g] \in GongState /\ left[g] \in -Late - 1 .. MaxDuration
  BY DEF TypeOK
<1>5. gong' \in [Gongs -> GongState]
  <2>1. \A g \in Gongs : gong'[g] \in GongState
    BY <1>2, <1>3, <1>4 DEF GongState
  <2> QED  BY <2>1 DEF Trigger
<1>6. left' \in [Gongs -> -Late - 1 .. MaxDuration]
  <2>1. \A g \in Gongs : left'[g] \in -Late - 1 .. MaxDuration
    <3>1. D \in -Late - 1 .. MaxDuration
      BY <1>1, GongAssumption
    <3> QED  BY <3>1, <1>3, <1>4
  <2> QED  BY <2>1 DEF Trigger
<1>7. ASSUME NEW g \in Gongs, Active(g)'
      PROVE  OnTime(g)' /\ Missed(g)'
  <2>1. CASE g \in Rings(gs, force)
    <3>1. gong'[g].stop = (now + D) % Wrap /\ left'[g] = D
      BY <1>3, <1>4, <2>1 DEF GongState
    <3> QED  BY <1>1, <3>1, GongAssumption DEF OnTime, Missed, TypeOK
  <2>2. CASE g \notin Rings(gs, force)
    <3>1. gong'[g] = gong[g] /\ left'[g] = left[g]
      BY <1>3, <2>2
    <3>2. Active(g)
      BY <1>7, <3>1 DEF Active
    <3>3. OnTime(g) /\ Missed(g)
      BY <3>2 DEF Sounding
    <3> QED  BY <3>1, <3>3 DEF OnTime, Missed
  <2> QED  BY <2>1, <2>2
<1> QED  BY <1>5, <1>6, <1>7 DEF Sounding

\* update(): what goes on sounding at the end of a pass was not due, or its
\* time was passed over by the clock.
LEMMA UpdateSounds ==
  ASSUME TypeOK, Sounding, Update, now' = now, gap' = 0, state' \in Operating
  PROVE  /\ gong' \in [Gongs -> GongState]
         /\ left' \in [Gongs -> -Late - 1 .. MaxDuration]
         /\ Sounding'
<1>1. \A g \in Gongs :
        /\ gong'[g] = IF Due(g) THEN [gong[g] EXCEPT !.stop = Silent] ELSE gong[g]
        /\ left'[g] = IF Due(g) THEN 0 ELSE left[g]
  BY DEF Update
<1>2. \A g \in Gongs : gong[g] \in GongState /\ left[g] \in -Late - 1 .. MaxDuration
  BY DEF TypeOK
<1>3. gong' \in [Gongs -> GongState]
  <2>1. \A g \in Gongs : gong'[g] \in GongState
    BY <1>1, <1>2 DEF GongState
  <2> QED  BY <2>1 DEF Update
<1>4. left' \in [Gongs -> -Late - 1 .. MaxDuration]
  <2>1. \A g \in Gongs : left'[g] \in -Late - 1 .. MaxDuration
    <3>1. 0 \in -Late - 1 .. MaxDuration
      BY GongAssumption
    <3> QED  BY <3>1, <1>1, <1>2
  <2> QED  BY <2>1 DEF Update
<1>5. ASSUME NEW g \in Gongs, Active(g)'
      PROVE  OnTime(g)' /\ Missed(g)'
  <2>1. Active(g) /\ ~Due(g) /\ gong'[g] = gong[g] /\ left'[g] = left[g]
    BY <1>1, <1>2, <1>5 DEF Active, GongState, Due
  <2>2. OnTime(g) /\ Missed(g)
    BY <2>1 DEF Sounding
  <2>3. OnTime(g)'
    BY <2>1, <2>2 DEF OnTime
  <2>4. now < gong[g].stop /\ gong[g].stop \in Time /\ now \in Time /\ gap \in 0 .. Late
    BY <1>2, <2>1 DEF Due, Active, GongState, TypeOK, Time, Silent
  <2>5. left[g] < 0 => gong[g].stop + Late >= Wrap
    <3>1. CASE left[g] < -gap
      BY <2>2, <3>1 DEF Missed
    <3>2. CASE left[g] < 0 /\ left[g] >= -gap
      <4>1. left[g] \in -Late .. MaxDuration
        BY <1>2, <2>4, <3>2, GongAssumption
      <4> DEFINE s == (now + left[g]) % Wrap
      <4>2. gong[g].stop = s
        BY <2>2, <4>1 DEF OnTime
      <4>3. s = IF now + left[g] >= Wrap THEN now + left[g] - Wrap
                ELSE IF now + left[g] < 0 THEN now + left[g] + Wrap ELSE now + left[g]
        BY <2>4, <4>1, Ahead
      <4> HIDE DEF s
      <4> QED  BY <2>4, <3>2, <4>1, <4>2, <4>3, GongAssumption DEF Time
    <3> QED  BY <1>2, <2>4, <3>1, <3>2
  <2>6. Missed(g)'
    BY <2>1, <2>5 DEF Missed
  <2> QED  BY <2>3, <2>6
<1> QED  BY <1>3, <1>4, <1>5 DEF Sounding

\* The clock and the remaining time move together.
LEMMA TickSounds ==
  ASSUME TypeOK, Sounding, Tick
  PROVE  /\ now' \in Time /\ gap' \in 0 .. Late
         /\ left' \in [Gongs -> -Late - 1 .. MaxDuration]
         /\ Sounding'
<1>1. now' \in Time /\ now' = (now + 1) % Wrap
  BY GongAssumption DEF Tick, TypeOK, Time
<1>2. gap' \in 0 .. Late /\ (state \in Operating => gap' = gap + 1)
  BY GongAssumption DEF Tick, TypeOK
<1>3. \A g \in Gongs :
        left'[g] = IF Active(g) /\ left[g] >= -Late THEN left[g] - 1 ELSE left[g]
  BY DEF Tick
<1>4. \A g \in Gongs : left[g] \in -Late - 1 .. MaxDuration
  BY DEF TypeOK
<1>5. left' \in [Gongs -> -Late - 1 .. MaxDuration]
  <2>1. \A g \in Gongs : left'[g] \in -Late - 1 .. MaxDuration
    BY <1>3, <1>4, GongAssumption
  <2> QED  BY <2>1 DEF Tick
<1>6. ASSUME NEW g \in Gongs, Active(g)'
      PROVE  state' \in Operating /\ OnTime(g)' /\ Missed(g)'
  <2>1. gong' = gong /\ state' = state
    BY DEF Tick
  <2>2. Active(g)
    BY <1>6, <2>1 DEF Active
  <2>3. state \in Operating /\ OnTime(g) /\ Missed(g)
    BY <2>2 DEF Sounding
  <2>4. OnTime(g)'
    <3>1. SUFFICES ASSUME left'[g] >= -Late
                   PROVE  gong'[g].stop = (now' + left'[g]) % Wrap
      BY DEF OnTime
    <3>2. left[g] \in -Late + 1 .. MaxDuration /\ left'[g] = left[g] - 1
      BY <1>3, <1>4, <2>2, <3>1, GongAssumption
    <3>3. (now' + (left[g] - 1)) % Wrap = (now + left[g]) % Wrap
      BY <1>1, <3>2, AheadTick DEF TypeOK
    <3>4. gong[g].stop = (now + left[g]) % Wrap
      BY <2>3, <3>2, GongAssumption DEF OnTime
    <3> QED  BY <2>1, <3>2, <3>3, <3>4
  <2>5. Missed(g)'
    <3>1. SUFFICES ASSUME left'[g] < -gap'
                   PROVE  gong'[g].stop + Late >= Wrap
      BY DEF Missed
    <3>2. gap \in 0 .. Late /\ gap' = gap + 1
      BY <1>2, <2>3 DEF TypeOK
    <3>3. left[g] < -gap
      BY <1>2, <1>3, <1>4, <2>2, <3>1, <3>2, GongAssumption
    <3> QED  BY <2>1, <2>3, <3>3 DEF Missed
  <2> QED  BY <2>1, <2>3, <2>4, <2>5
<1> QED  BY <1>1, <1>2, <1>5, <1>6 DEF Sounding

\* A step that leaves gongs and clock alone.
LEMMA SoundsOn ==
  ASSUME Sounding, UNCHANGED <<gong, left, now, gap>>,
         state \in Operating => state' \in Operating
  PROVE  Sounding'
<1> SUFFICES ASSUME NEW g \in Gongs, Active(g)'
             PROVE  state' \in Operating /\ OnTime(g)' /\ Missed(g)'
  BY DEF Sounding
<1>1. Active(g)
  BY DEF Active
<1>2. state \in Operating /\ OnTime(g) /\ Missed(g)
  BY <1>1 DEF Sounding
<1> QED  BY <1>2 DEF OnTime, Missed

\* Enabling a gong, or a new duration, changes nothing that sounds.
LEMMA HandleSounds ==
  ASSUME TypeOK, Sounding, Handle, UNCHANGED <<now, gap, state>>, state \in Operating
  PROVE  /\ gong' \in [Gongs -> GongState]
         /\ left' \in [Gongs -> -Late - 1 .. MaxDuration]
         /\ duration' \in MinDuration .. MaxDuration
         /\ Sounding'
<1>1. ASSUME NEW gs \in Tests, Trigger(gs, TRUE), UNCHANGED duration
      PROVE  /\ gong' \in [Gongs -> GongState]
             /\ left' \in [Gongs -> -Late - 1 .. MaxDuration]
             /\ duration' \in MinDuration .. MaxDuration
             /\ Sounding'
  <2>1. gs \in SUBSET Gongs
    BY DEF Tests
  <2> QED  BY <1>1, <2>1, TriggerSounds DEF TypeOK
<1>2. ASSUME NEW g \in Gongs, NEW on \in BOOLEAN, SetEnabled(g, on), UNCHANGED <<duration, left>>
      PROVE  /\ gong' \in [Gongs -> GongState]
             /\ left' \in [Gongs -> -Late - 1 .. MaxDuration]
             /\ duration' \in MinDuration .. MaxDuration
             /\ Sounding'
  <2>1. gong' = [gong EXCEPT ![g].enabled = on]
    BY <1>2 DEF SetEnabled
  <2>2. gong' \in [Gongs -> GongState] /\ \A h \in Gongs : gong'[h].stop = gong[h].stop
    BY <2>1 DEF TypeOK, GongState
  <2>3. Sounding'
    BY <1>2, <2>2 DEF Sounding, Active, OnTime, Missed
  <2> QED  BY <1>2, <2>2, <2>3 DEF TypeOK
<1>3. ASSUME NEW n \in Payloads, SetDuration(n), UNCHANGED <<gong, left>>
      PROVE  /\ gong' \in [Gongs -> GongState]
             /\ left' \in [Gongs -> -Late - 1 .. MaxDuration]
             /\ duration' \in MinDuration .. MaxDuration
             /\ Sounding'
  <2>1. duration' \in MinDuration .. MaxDuration
    BY <1>3, GongAssumption DEF SetDuration, Clamped, TypeOK
  <2> QED  BY <1>3, <2>1, SoundsOn DEF TypeOK
<1> QED  BY <1>1, <1>2, <1>3 DEF Handle

-----------------------------------------------------------------------------

\* Every step preserves the invariant.
LEMMA StepIInv == IInv /\ [Next]_vars => IInv'
<1> SUFFICES ASSUME IInv, [Next]_vars PROVE IInv'
  OBVIOUS
<1> USE DEF IInv
<1>1. CASE HandleConfigCheck
  <2>1. TypeOK'
    BY <1>1, GongAssumption DEF HandleConfigCheck, TypeOK, AppState, Addresses, button_vars,
       gong_vars, time_vars
  <2>2. Place' /\ Sounding'
    BY <1>1, SoundsOn DEF HandleConfigCheck, Place, Operating, gong_vars, time_vars
  <2> QED  BY <2>1, <2>2
<1>2. CASE HandleConfigMode
  <2>1. TypeOK'
    BY <1>2 DEF HandleConfigMode, TypeOK, AppState, button_vars, gong_vars, time_vars
  <2>2. Place' /\ Sounding'
    BY <1>2, SoundsOn DEF HandleConfigMode, Place, Operating, gong_vars, time_vars
  <2> QED  BY <2>1, <2>2
<1>3. CASE HandleNetworkInit
  <2>1. TypeOK'
    BY <1>3 DEF HandleNetworkInit, TypeOK, AppState, button_vars, gong_vars, time_vars, config_vars
  <2>2. Place' /\ Sounding'
    BY <1>3, SoundsOn DEF HandleNetworkInit, Place, Operating, gong_vars, time_vars
  <2> QED  BY <2>1, <2>2
<1>4. CASE Dial
  <2>1. TypeOK'
    BY <1>4 DEF Dial, TypeOK, button_vars, gong_vars, time_vars, config_vars
  <2>2. Place' /\ Sounding'
    BY <1>4, SoundsOn DEF Dial, Place, Operating, gong_vars, time_vars
  <2> QED  BY <2>1, <2>2
<1>5. CASE DialSucceeds
  <2>1. TypeOK'
    BY <1>5 DEF DialSucceeds, TypeOK, AppState, button_vars, gong_vars, time_vars, config_vars
  <2>2. Place' /\ Sounding'
    BY <1>5, SoundsOn DEF DialSucceeds, Place, Operating, gong_vars, time_vars
  <2> QED  BY <2>1, <2>2
<1>6. CASE DialFails
  <2>1. TypeOK'
    <3>1. waited' \in 0 .. RetryAfter
      BY <1>6, GongAssumption DEF DialFails
    <3> QED  BY <1>6, <3>1 DEF DialFails, TypeOK, AppState, button_vars, gong_vars, config_vars
  <2>2. Place' /\ Sounding'
    BY <1>6, SoundsOn DEF DialFails, Place, Operating, gong_vars
  <2> QED  BY <2>1, <2>2
<1>7. CASE Listen
  <2>1. state \in Operating /\ UNCHANGED <<state, now, gap>>
    BY <1>7 DEF Listen, Operating, time_vars
  <2>2. /\ gong' \in [Gongs -> GongState]
        /\ left' \in [Gongs -> -Late - 1 .. MaxDuration]
        /\ duration' \in MinDuration .. MaxDuration
        /\ Sounding'
    <3>1. CASE UNCHANGED gong_vars
      BY <2>1, <3>1, SoundsOn DEF gong_vars, TypeOK
    <3>2. CASE Handle
      BY <2>1, <3>2, HandleSounds
    <3> QED  BY <1>7, <3>1, <3>2 DEF Listen
  <2>3. TypeOK'
    BY <1>7, <2>2 DEF Listen, TypeOK, ProcessButtons, time_vars, config_vars
  <2> QED  BY <2>1, <2>2, <2>3 DEF Place
<1>8. CASE Wait
  <2>1. TypeOK'
    BY <1>8, GongAssumption DEF Wait, TypeOK, AppState, ProcessButtons, gong_vars, config_vars
  <2>2. Place' /\ Sounding'
    BY <1>8, SoundsOn DEF Wait, Place, Operating, gong_vars
  <2> QED  BY <2>1, <2>2
<1>9. ASSUME NEW b \in Buttons, TakeFlag(b) PROVE IInv'
  <2>1. TypeOK'
    BY <1>9 DEF TakeFlag, TypeOK, gong_vars, time_vars, config_vars
  <2>2. Place' /\ Sounding'
    BY <1>9, SoundsOn DEF TakeFlag, Place, gong_vars, time_vars
  <2> QED  BY <2>1, <2>2
<1>10. CASE ReadPin
  <2>1. TypeOK'
    BY <1>10 DEF ReadPin, TypeOK, gong_vars, time_vars, config_vars
  <2>2. Place' /\ Sounding'
    BY <1>10, SoundsOn DEF ReadPin, Place, gong_vars, time_vars
  <2> QED  BY <2>1, <2>2
<1>11. CASE Act
  <2>1. state \in Operating /\ UNCHANGED <<state, now, gap>>
    BY <1>11 DEF Act, Place, time_vars
  <2>2. /\ gong' \in [Gongs -> GongState]
        /\ left' \in [Gongs -> -Late - 1 .. MaxDuration]
        /\ duration' \in MinDuration .. MaxDuration
        /\ Sounding'
    <3>1. CASE UNCHANGED gong_vars
      BY <2>1, <3>1, SoundsOn DEF gong_vars, TypeOK
    <3>2. CASE Trigger(Gongs, FALSE) /\ UNCHANGED duration
      BY <2>1, <3>2, TriggerSounds DEF TypeOK
    <3> QED  BY <1>11, <3>1, <3>2 DEF Act
  <2>3. TypeOK'
    BY <1>11, <2>2 DEF Act, TypeOK, time_vars, config_vars
  <2> QED  BY <2>1, <2>2, <2>3 DEF Place
<1>12. CASE EndPass
  <2>1. state' \in Operating /\ state' \in AppState
    BY <1>12 DEF EndPass, Place, CheckConnection, Operating, AppState, TypeOK
  <2>2. Update /\ now' = now /\ gap' = 0 /\ at' = "pass"
    BY <1>12 DEF EndPass
  <2>3. /\ gong' \in [Gongs -> GongState]
        /\ left' \in [Gongs -> -Late - 1 .. MaxDuration]
        /\ Sounding'
    BY <2>1, <2>2, UpdateSounds
  <2>4. waited' \in 0 .. RetryAfter /\ broker' \in Addresses /\ eeprom' \in Addresses
    BY <1>12, GongAssumption DEF EndPass, CheckConnection, Console, TypeOK, config_vars
  <2>5. TypeOK'
    BY <1>12, <2>1, <2>2, <2>3, <2>4, GongAssumption DEF EndPass, Update, TypeOK, button_vars
  <2> QED  BY <2>2, <2>3, <2>5 DEF Place
<1>13. ASSUME NEW b \in Buttons, Edge(b) PROVE IInv'
  <2>1. TypeOK'
    BY <1>13 DEF Edge, Raises, TypeOK, gong_vars, time_vars, config_vars
  <2>2. Place' /\ Sounding'
    BY <1>13, SoundsOn DEF Edge, Place, gong_vars, time_vars
  <2> QED  BY <2>1, <2>2
<1>14. CASE Tick
  <2>1. waited' \in 0 .. RetryAfter
    BY <1>14, GongAssumption DEF Tick, TypeOK
  <2>2. TypeOK'
    BY <1>14, <2>1, TickSounds DEF Tick, TypeOK, button_vars, config_vars
  <2> QED  BY <1>14, <2>2, TickSounds DEF Place, Tick
<1>15. CASE PowerCycle
  <2>1. gong' \in [Gongs -> GongState] /\ \A g \in Gongs : ~Active(g)'
    BY <1>15, QuietGongs DEF PowerCycle, Quiet, Active
  <2>2. left' \in [Gongs -> -Late - 1 .. MaxDuration]
    <3>1. 0 \in -Late - 1 .. MaxDuration
      BY GongAssumption
    <3> QED  BY <1>15, <3>1 DEF PowerCycle
  <2>3. duration' \in MinDuration .. MaxDuration /\ now' \in Time /\ waited' \in 0 .. RetryAfter
        /\ gap' \in 0 .. Late /\ broker' \in Addresses
    BY <1>15, GongAssumption DEF PowerCycle, Time, Addresses
  <2>4. TypeOK'
    BY <1>15, <2>1, <2>2, <2>3 DEF PowerCycle, TypeOK, AppState
  <2> QED  BY <1>15, <2>1, <2>4 DEF PowerCycle, Place, Sounding
<1>16. CASE UNCHANGED vars
  BY <1>16, SoundsOn DEF vars, TypeOK, Place, button_vars, gong_vars, time_vars, config_vars
<1> QED
  BY <1>1, <1>2, <1>3, <1>4, <1>5, <1>6, <1>7, <1>8, <1>9, <1>10, <1>11, <1>12, <1>13, <1>14,
     <1>15, <1>16 DEF Next, Program

\* The inductive invariant holds in every behaviour.
THEOREM Invariance == Spec => []IInv
<1> QED  BY InitIInv, StepIInv, PTL DEF Spec

\* Type correctness of the application.
THEOREM TypeCorrect == Spec => []TypeOK
<1>1. IInv => TypeOK
  BY DEF IInv
<1> QED  BY <1>1, Invariance, PTL

\* A gong that outlasts its time by more than Late has a stop time right
\* before the wrap of the clock.
THEOREM GongsStop == Spec => []GongStops
<1>1. IInv => GongStops
  BY GongAssumption DEF IInv, TypeOK, Sounding, Missed, GongStops
<1> QED  BY <1>1, Invariance, PTL

\* With interrupts on both edges, the application's idea of a button is
\* never wrong without an interrupt on its way.
THEOREM EdgesKept == EdgeType = "kAnyChange" => (Spec => []EdgeNotLost)
<1> SUFFICES ASSUME EdgeType = "kAnyChange" PROVE Spec => []EdgeNotLost
  OBVIOUS
<1> DEFINE Kept == EdgeNotLost /\ Sampled
<1>1. Init => Kept
  BY DEF Init, EdgeNotLost, Sampled
<1>2. TypeOK /\ Kept /\ [Next]_vars => Kept'
  <2> SUFFICES ASSUME TypeOK, Kept, [Next]_vars PROVE Kept'
    OBVIOUS
  <2> USE DEF EdgeNotLost, Sampled, TypeOK
  <2>1. CASE /\ UNCHANGED <<cur, current, pin, pending, last, held>>
             /\ at' = at \/ (at \notin {"read", "act"} /\ at' \notin {"read", "act"})
    BY <2>1
  <2>2. ASSUME NEW b \in Buttons, TakeFlag(b) PROVE Kept'
    BY <2>2 DEF TakeFlag
  <2>3. CASE ReadPin
    BY <2>3 DEF ReadPin
  <2>4. CASE Act
    BY <2>4 DEF Act
  <2>5. ASSUME NEW b \in Buttons, Edge(b) PROVE Kept'
    BY <2>5 DEF Edge, Raises
  <2>6. CASE PowerCycle
    BY <2>6 DEF PowerCycle
  <2> QED
    BY <2>1, <2>2, <2>3, <2>4, <2>5, <2>6
    DEF Next, Program, HandleConfigCheck, HandleConfigMode, HandleNetworkInit, Dial,
        DialSucceeds, DialFails, Listen, Wait, EndPass, Tick, ProcessButtons, vars, button_vars
<1>3. Kept => EdgeNotLost
  OBVIOUS
<1> QED  BY <1>1, <1>2, <1>3, TypeCorrect, PTL DEF Spec

\* A gong that update() switches off has sounded its time, or its stop time
\* lies behind the wrap of the clock.
THEOREM NotCutShort == Spec => GongNotCutShort
<1> DEFINE Kept == \A g \in Gongs :
       Active(g) /\ ~Active(g)' /\ state' # "kConfigCheck"
         => left[g] <= 0 \/ now + left[g] >= Wrap
<1>1. IInv /\ [Next]_vars => [Kept]_vars
  <2> SUFFICES ASSUME IInv, Next, NEW g \in Gongs,
                      Active(g), ~Active(g)', state' # "kConfigCheck"
               PROVE  left[g] <= 0 \/ now + left[g] >= Wrap
    OBVIOUS
  <2> USE DEF Active
  <2>1. CASE UNCHANGED gong
    BY <2>1
  <2>2. ASSUME NEW gs, NEW force, Trigger(gs, force) PROVE FALSE
    <3>1. gong'[g].stop = gong[g].stop \/ gong'[g].stop = (now + Clamped(duration)) % Wrap
      BY <2>2 DEF Trigger, IInv, TypeOK, GongState
    <3>2. Clamped(duration) \in 0 .. Wrap - 1 /\ now \in 0 .. Wrap - 1
      BY GongAssumption DEF Clamped, IInv, TypeOK, Time
    <3>3. (now + Clamped(duration)) % Wrap \in Nat
      BY <3>2, Sum, GongAssumption
    <3> QED  BY <3>1, <3>3 DEF Silent
  <2>3. CASE Handle
    <3>1. CASE \E h \in Gongs, on \in BOOLEAN : SetEnabled(h, on)
      BY <3>1 DEF SetEnabled, IInv, TypeOK, GongState
    <3> QED  BY <2>1, <2>2, <2>3, <3>1 DEF Handle
  <2>4. CASE Update
    <3>1. Due(g)
      BY <2>4 DEF Update
    <3>2. CASE left[g] > 0 /\ now + left[g] < Wrap
      <4>1. gong[g].stop = (now + left[g]) % Wrap /\ left[g] \in 0 .. Wrap - 1 /\ now \in 0 .. Wrap - 1
        BY <3>2, GongAssumption DEF IInv, Sounding, OnTime, TypeOK, Time
      <4>2. gong[g].stop = now + left[g]
        BY <3>2, <4>1, Sum, GongAssumption
      <4> QED  BY <3>1, <3>2, <4>1, <4>2 DEF Due
    <3> QED  BY <3>2, GongAssumption DEF IInv, TypeOK, Time
  <2>5. CASE PowerCycle
    BY <2>5 DEF PowerCycle
  <2> QED
    BY <2>1, <2>2, <2>3, <2>4, <2>5
    DEF Next, Program, HandleConfigCheck, HandleConfigMode, HandleNetworkInit, Dial,
        DialSucceeds, DialFails, Listen, Wait, TakeFlag, ReadPin, Act, EndPass, Edge, Tick, gong_vars
<1> QED  BY <1>1, Invariance, PTL DEF Spec, GongNotCutShort
=============================================================================
