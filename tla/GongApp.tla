------------------------------ MODULE GongApp ------------------------------
(***************************************************************************)
(* The application of src/App: SmartBellApp, the state machine that loop() *)
(* steps, GongController, which it asks to ring and to stop, and           *)
(* UARTCommandParser, which edits the configuration.  No executable of the *)
(* repository creates a SmartBellApp; the model drives it the way its      *)
(* header asks for: init(), then loop() for ever, and                      *)
(* on_button_interrupt() from INT0 and INT1.                               *)
(*                                                                         *)
(* The interrupt may fall between any two steps of the loop.  Time is      *)
(* millis() modulo Wrap; Late bounds the time between the ends of two      *)
(* passes, a connect that blocks included.                                 *)
(***************************************************************************)
EXTENDS Integers

CONSTANTS
  Buttons,      \* ButtonId
  EdgeType,     \* what INT0 and INT1 are set up for; by default kAnyChange
  Gongs,        \* GongId without kBoth
  Wrap,         \* 2^32
  MinDuration, MaxDuration, DefaultDuration,   \* ms: 100, 10000, 2000
  NumberWrap,   \* 2^16: what parsed numbers are kept in
  OctetWrap,    \* 2^8: what the parts of an address are kept in
  Payloads,     \* numbers sent as a new duration, of one digit more at most
  Typed,        \* addresses typed as the broker; one number for its octets
  DefaultBroker,\* what load_defaults() leaves
  RetryAfter,   \* kReconnectIntervalSec
  Late          \* bound: the longest time between the ends of two passes

ASSUME GongAssumption ==
  /\ EdgeType \in {"kFalling", "kRising", "kAnyChange"}
  /\ MinDuration \in Nat \ {0} /\ MaxDuration \in Nat /\ DefaultDuration \in Nat
  /\ MinDuration <= DefaultDuration /\ DefaultDuration <= MaxDuration
  /\ Late \in Nat \ {0} /\ Wrap \in Nat /\ MaxDuration + Late < Wrap
  /\ NumberWrap \in Nat \ {0} /\ OctetWrap \in Nat \ {0}
  /\ Payloads \subseteq 0 .. 10 * MaxDuration + 9 /\ Typed \subseteq Nat
  /\ DefaultBroker \in 0 .. OctetWrap - 1 /\ RetryAfter \in Nat

VARIABLES
  state,      \* state_
  at,         \* where loop() stands: "pass" between two calls
  todo,       \* buttons process_button_events() has not looked at yet
  cur,        \* the button it is looking at
  current,    \* its current_state
  pin,        \* the level of the button's pin, active low
  pending,    \* interrupt_pending
  last,       \* last_state
  gong,       \* GongState of each gong
  duration,   \* default_duration_ms_
  now,        \* TimerService::millis()
  connected,  \* MinimalMQTT::is_connected()
  waited,     \* seconds() - reconnect_start_time_, at most RetryAfter, where it
              \*   is read: in kReconnectWait; elsewhere 0
  broker,     \* mqtt_broker_ip in memory
  eeprom,     \* mqtt_broker_ip of the EEPROM record; 0 also for no valid record,
              \*   which handle_config_check() treats alike
  \* History.
  gap,        \* ms since the last pass ended, in an operating state
  left,       \* ms until a sounding gong is due to stop, in true time; negative
              \*   once it is late, down to -Late - 1
  held        \* the button has been down since power-up

button_vars == <<todo, cur, current, pin, pending, last, held>>
gong_vars == <<gong, duration, left>>
time_vars == <<now, waited, gap>>
config_vars == <<broker, eeprom>>
vars == <<state, at, connected, button_vars, gong_vars, time_vars, config_vars>>

Time == 0 .. Wrap - 1
Addresses == 0 .. OctetWrap - 1

\* AppState without kInit, which init() leaves before the first loop(), and
\* kError, which nothing enters.
AppState == {"kConfigCheck", "kConfigMode", "kNetworkInit", "kMQTTConnecting",
             "kRunning", "kReconnectWait"}
Operating == {"kMQTTConnecting", "kRunning", "kReconnectWait"}

\* active, which is also the output, and stop_time, which is only read while
\* active, are one field: the time, or Silent.
Silent == -1
GongState == [enabled : BOOLEAN, stop : Time \cup {Silent}]
Active(g) == gong[g].stop # Silent

-----------------------------------------------------------------------------
(* GongController *)

\* The clamping of trigger() and set_duration().
Clamped(d) ==
  IF d < MinDuration THEN MinDuration ELSE IF d > MaxDuration THEN MaxDuration ELSE d

\* trigger(): the gongs of gs, when forced or enabled, sound from now on; a
\* gong that is sounding already gets a new stop time.
Rings(gs, force) == {g \in gs : force \/ gong[g].enabled}

\* Faulty variant: a gong that sounds keeps its stop time.
Trigger_KeepsStop(gs, force) ==
  /\ gong' = [g \in Gongs |->
       IF g \in Rings(gs, force) /\ ~Active(g)
         THEN [gong[g] EXCEPT !.stop = (now + Clamped(duration)) % Wrap]
         ELSE gong[g]]
  /\ left' = [g \in Gongs |-> IF g \in Rings(gs, force) THEN Clamped(duration) ELSE left[g]]

Trigger(gs, force) ==
  /\ gong' = [g \in Gongs |->
       IF g \in Rings(gs, force)
         THEN [gong[g] EXCEPT !.stop = (now + Clamped(duration)) % Wrap]
         ELSE gong[g]]
  /\ left' = [g \in Gongs |-> IF g \in Rings(gs, force) THEN Clamped(duration) ELSE left[g]]

\* The check of update(), on absolute times.
Due(g) == Active(g) /\ now >= gong[g].stop

\* update()
Update ==
  /\ gong' = [g \in Gongs |-> IF Due(g) THEN [gong[g] EXCEPT !.stop = Silent] ELSE gong[g]]
  /\ left' = [g \in Gongs |-> IF Due(g) THEN 0 ELSE left[g]]
  /\ UNCHANGED duration

SetEnabled(g, on) == gong' = [gong EXCEPT ![g].enabled = on]

\* The digits are added up in 16 bits and the check for more than 10000 comes
\* after each: a fifth digit may wrap the number into the range.
ParsedDuration(n) == n % NumberWrap

SetDuration(n) ==
  duration' = IF ParsedDuration(n) \in MinDuration .. MaxDuration
                THEN Clamped(ParsedDuration(n)) ELSE duration

\* process_mqtt_message(): a test rings one gong or both, whether they are
\* enabled or not; a status message enables or disables one.
Tests == {{g} : g \in Gongs} \cup {Gongs}

Handle ==
  \/ (\E gs \in Tests : Trigger(gs, TRUE)) /\ UNCHANGED duration
  \/ (\E g \in Gongs, on \in BOOLEAN : SetEnabled(g, on)) /\ UNCHANGED <<duration, left>>
  \/ (\E n \in Payloads : SetDuration(n)) /\ UNCHANGED <<gong, left>>

-----------------------------------------------------------------------------
(* Configuration *)

\* parse_ip(): an octet is a uint8_t, so the check for more than 255 that
\* follows each digit cannot fail.
Parsed(a) == a % OctetWrap

\* process() and execute_command(): at most one line is complete.  It makes
\* the broker b and the record e; a command that is refused, concerns other
\* settings or only prints changes neither, a save may fail.
Executes(b, e) ==
  \/ b = broker /\ e \in {eeprom, broker}
  \/ b \in {Parsed(a) : a \in Typed} /\ e = eeprom

\* The constructor and init(), with the pins at any level.
Init ==
  /\ state = "kConfigCheck" /\ at = "pass" /\ connected = FALSE
  /\ todo = {} /\ cur \in Buttons /\ current = TRUE
  /\ pin \in [Buttons -> BOOLEAN]
  /\ pending = [b \in Buttons |-> FALSE] /\ last = [b \in Buttons |-> TRUE]
  /\ held = [b \in Buttons |-> ~pin[b]]
  /\ gong = [g \in Gongs |-> [enabled |-> TRUE, stop |-> Silent]]
  /\ duration = DefaultDuration /\ left = [g \in Gongs |-> 0]
  /\ now = 0 /\ waited = 0 /\ gap = 0
  /\ broker = 0 /\ eeprom \in Addresses

\* Power loss, a watchdog reset, or the command reboot.
PowerCycle ==
  /\ state' = "kConfigCheck" /\ at' = "pass" /\ connected' = FALSE
  /\ todo' = {} /\ current' = TRUE
  /\ pending' = [b \in Buttons |-> FALSE] /\ last' = [b \in Buttons |-> TRUE]
  /\ held' = [b \in Buttons |-> ~pin[b]]
  /\ gong' = [g \in Gongs |-> [enabled |-> TRUE, stop |-> Silent]]
  /\ duration' = DefaultDuration /\ left' = [g \in Gongs |-> 0]
  /\ now' = 0 /\ waited' = 0 /\ gap' = 0
  /\ broker' = 0
  /\ UNCHANGED <<cur, pin, eeprom>>

\* handle_config_check()
HandleConfigCheck ==
  /\ state = "kConfigCheck"
  /\ \/ /\ eeprom # 0
        /\ broker' = eeprom /\ state' = "kNetworkInit"
     \/ /\ eeprom = 0
        /\ broker' = DefaultBroker /\ state' = "kConfigMode"
  /\ UNCHANGED <<at, connected, button_vars, gong_vars, time_vars, eeprom>>

\* handle_config_mode(): a broker ends it, and what has been entered is
\* saved; whether that worked is not looked at.
HandleConfigMode ==
  /\ state = "kConfigMode"
  /\ \E b \in Addresses, e \in Addresses :
       /\ Executes(b, e)
       /\ broker' = b
       /\ \/ b = 0 /\ eeprom' = e /\ UNCHANGED state
          \/ b # 0 /\ eeprom' \in {e, b} /\ state' = "kNetworkInit"
  /\ UNCHANGED <<at, connected, button_vars, gong_vars, time_vars>>

\* handle_network_init()
HandleNetworkInit ==
  /\ state = "kNetworkInit"
  /\ state' = "kMQTTConnecting"
  /\ UNCHANGED <<at, connected, button_vars, gong_vars, time_vars, config_vars>>

-----------------------------------------------------------------------------
(* handle_mqtt_connecting(): MinimalMQTT::connect() blocks. *)

Dial ==
  /\ state = "kMQTTConnecting" /\ at = "pass"
  /\ at' = "dialing"
  /\ UNCHANGED <<state, connected, button_vars, gong_vars, time_vars, config_vars>>

\* Whether the two subscriptions were sent is not looked at.
DialSucceeds ==
  /\ at = "dialing"
  /\ connected' = TRUE /\ state' = "kRunning" /\ at' = "pass"
  /\ UNCHANGED <<button_vars, gong_vars, time_vars, config_vars>>

DialFails ==
  /\ at = "dialing"
  /\ connected' = FALSE /\ state' = "kReconnectWait" /\ at' = "pass"
  /\ waited' = 0
  /\ UNCHANGED <<button_vars, gong_vars, now, gap, config_vars>>

-----------------------------------------------------------------------------
(* handle_running() and handle_reconnect_wait() *)

ProcessButtons == at' = "buttons" /\ todo' = Buttons

\* MinimalMQTT::loop(): nothing, the loss of the connection, or a message.
\* subscribe_to_topics() asks for two of the test topics only; the others, which
\* the handler is ready for, are let through as with the wildcard its remark
\* considers.
Listen ==
  /\ state = "kRunning" /\ at = "pass"
  /\ ProcessButtons
  /\ \/ UNCHANGED <<connected, gong_vars>>
     \/ connected' = FALSE /\ UNCHANGED gong_vars
     \/ connected /\ Handle /\ UNCHANGED connected
  /\ UNCHANGED <<state, cur, current, pin, pending, last, held, time_vars, config_vars>>

\* Faulty variant: the wait starts anew with each pass.
Wait_Restarts ==
  /\ state = "kReconnectWait" /\ at = "pass"
  /\ waited' = 0
  /\ IF waited >= RetryAfter THEN state' = "kMQTTConnecting" ELSE UNCHANGED state
  /\ ProcessButtons
  /\ UNCHANGED <<connected, cur, current, pin, pending, last, held, gong_vars, now, gap,
                 config_vars>>

Wait ==
  /\ state = "kReconnectWait" /\ at = "pass"
  /\ \/ waited >= RetryAfter /\ state' = "kMQTTConnecting" /\ waited' = 0
     \/ waited < RetryAfter /\ UNCHANGED <<state, waited>>
  /\ ProcessButtons
  /\ UNCHANGED <<connected, cur, current, pin, pending, last, held, gong_vars, now, gap,
                 config_vars>>

\* process_button_events(): the flag is taken before the pin is read.
TakeFlag(b) ==
  /\ at = "buttons" /\ b \in todo
  /\ todo' = todo \ {b}
  /\ \/ /\ pending[b]
        /\ pending' = [pending EXCEPT ![b] = FALSE]
        /\ cur' = b /\ at' = "read"
     \/ ~pending[b] /\ UNCHANGED <<pending, cur, at>>
  /\ UNCHANGED <<state, connected, current, pin, last, held, gong_vars, time_vars, config_vars>>

ReadPin ==
  /\ at = "read"
  /\ current' = pin[cur] /\ at' = "act"
  /\ UNCHANGED <<state, connected, todo, cur, pin, pending, last, held, gong_vars, time_vars,
                 config_vars>>

\* Faulty variant: the flag is cleared once the edge has been dealt with.
Act_ClearsLate ==
  /\ at = "act"
  /\ at' = "buttons"
  /\ last' = [last EXCEPT ![cur] = current]
  /\ pending' = [pending EXCEPT ![cur] = FALSE]
  /\ IF current /\ ~last[cur]
       THEN Trigger(Gongs, FALSE) /\ UNCHANGED duration
       ELSE UNCHANGED gong_vars
  /\ UNCHANGED <<state, connected, todo, cur, current, pin, held, time_vars, config_vars>>

\* A change is published (whether that worked is not looked at), and a
\* release rings the enabled gongs.
Act ==
  /\ at = "act"
  /\ at' = "buttons"
  /\ last' = [last EXCEPT ![cur] = current]
  /\ IF current /\ ~last[cur]
       THEN Trigger(Gongs, FALSE) /\ UNCHANGED duration
       ELSE UNCHANGED gong_vars
  /\ UNCHANGED <<state, connected, todo, cur, current, pin, pending, held, time_vars,
                 config_vars>>

\* gong_controller_.update(), in both states, and what is left of
\* handle_running(): the connection, then the console.
CheckConnection ==
  \/ connected /\ UNCHANGED <<state, waited>>
  \/ ~connected /\ state' = "kReconnectWait" /\ waited' = 0

Console ==
  \E b \in Addresses, e \in Addresses : Executes(b, e) /\ broker' = b /\ eeprom' = e

\* Faulty variant: the gongs are only looked at while there is a broker.
EndPass_ForgetsGongs ==
  /\ at = "buttons" /\ todo = {}
  /\ at' = "pass" /\ gap' = 0
  /\ \/ state = "kRunning" /\ Update /\ CheckConnection /\ Console
     \/ state # "kRunning" /\ UNCHANGED <<gong_vars, state, waited, config_vars>>
  /\ UNCHANGED <<connected, button_vars, now>>

EndPass ==
  /\ at = "buttons" /\ todo = {}
  /\ at' = "pass" /\ gap' = 0
  /\ Update
  /\ \/ state = "kRunning" /\ CheckConnection /\ Console
     \/ state # "kRunning" /\ UNCHANGED <<state, waited, config_vars>>
  /\ UNCHANGED <<connected, button_vars, now>>

-----------------------------------------------------------------------------
(* Interrupts *)

\* setup_INT0(), setup_INT1(): does leaving this level raise the interrupt?
Raises(level) ==
  \/ EdgeType = "kAnyChange"
  \/ EdgeType = "kFalling" /\ level
  \/ EdgeType = "kRising" /\ ~level

\* An edge at the pin; the interrupt runs on_button_interrupt().
Edge(b) ==
  /\ pin' = [pin EXCEPT ![b] = ~@]
  /\ pending' = [pending EXCEPT ![b] = @ \/ Raises(pin[b])]
  /\ held' = [held EXCEPT ![b] = FALSE]
  /\ UNCHANGED <<state, at, connected, todo, cur, current, last, gong_vars, time_vars,
                 config_vars>>

\* Bound: a pass of the operating loop ends at most Late after the one before.
\* Within a pass only a publication, in Act, takes time worth counting.
Tick ==
  /\ at \in {"pass", "dialing", "act"}
  /\ state \in Operating => gap < Late
  /\ now' = (now + 1) % Wrap
  /\ gap' = IF state \in Operating THEN gap + 1 ELSE gap
  /\ waited' = IF state = "kReconnectWait" /\ waited < RetryAfter THEN waited + 1 ELSE waited
  /\ left' = [g \in Gongs |->
       IF Active(g) /\ left[g] >= -Late THEN left[g] - 1 ELSE left[g]]
  /\ UNCHANGED <<state, at, connected, button_vars, gong, duration, config_vars>>

Program ==
  \/ HandleConfigCheck \/ HandleConfigMode \/ HandleNetworkInit
  \/ Dial \/ DialSucceeds \/ DialFails
  \/ Listen \/ Wait
  \/ \E b \in Buttons : TakeFlag(b)
  \/ ReadPin \/ Act \/ EndPass

Next == Program \/ (\E b \in Buttons : Edge(b)) \/ Tick \/ PowerCycle

Spec == Init /\ [][Next]_vars

\* loop() is called for ever, connect() returns, and the clock runs.
FairSpec == Spec /\ WF_vars(Program) /\ SF_vars(Tick)

-----------------------------------------------------------------------------
(* Properties. *)

TypeOK ==
  /\ state \in AppState
  /\ at \in {"pass", "dialing", "buttons", "read", "act"}
  /\ todo \subseteq Buttons /\ cur \in Buttons /\ current \in BOOLEAN
  /\ pin \in [Buttons -> BOOLEAN] /\ pending \in [Buttons -> BOOLEAN]
  /\ last \in [Buttons -> BOOLEAN] /\ held \in [Buttons -> BOOLEAN]
  /\ gong \in [Gongs -> GongState]
  /\ duration \in MinDuration .. MaxDuration
  /\ now \in Time /\ connected \in BOOLEAN
  /\ waited \in 0 .. RetryAfter /\ gap \in 0 .. Late
  /\ broker \in Addresses /\ eeprom \in Addresses
  /\ left \in [Gongs -> -Late - 1 .. MaxDuration]

\* The button's level and what the application believes of it only differ
\* while an interrupt is still to be looked at, in the step that looks at
\* it, or for a button that has been down since power-up.
EdgeNotLost ==
  \A b \in Buttons : pin[b] # last[b] =>
    \/ pending[b] \/ held[b]
    \/ cur = b /\ at = "read"
    \/ cur = b /\ at = "act" /\ current = pin[b]

\* A gong stops at the first update after its time.  Only when the counter
\* wraps between the two, update() does not see that the time has come.
GongStops ==
  \A g \in Gongs : Active(g) /\ left[g] < -Late => gong[g].stop + Late >= Wrap

\* update() stops no gong early, except one whose stop time lies behind the
\* wrap of the counter.
GongNotCutShort ==
  [][\A g \in Gongs :
       Active(g) /\ ~Active(g)' /\ state' # "kConfigCheck"
         => left[g] <= 0 \/ now + left[g] >= Wrap]_vars

\* A button event is looked at whether or not there is a broker.
ButtonsSeen ==
  \A b \in Buttons : (pending[b] /\ state \in Operating) ~> ~pending[b]

\* After a failure the broker is called again.
KeepsTrying == (state = "kReconnectWait") ~> (state # "kReconnectWait")

\* Without a broker the loop goes on serving buttons and calling the broker.
LoopServes == ButtonsSeen /\ KeepsTrying
=============================================================================
