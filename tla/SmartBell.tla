----------------------------- MODULE SmartBell -----------------------------
(***************************************************************************)
(* main() of app/smart_bell.cpp: the boot, the passes of the main loop     *)
(* with the retry, the save flag and the two chimes, the calls of the MQTT *)
(* client that block it, and the watchdog that is only fed where the code  *)
(* calls wdt_reset().                                                      *)
(*                                                                         *)
(* Time passes where the program waits and between two passes.  What the   *)
(* client does on the wire is in MqttSession, what the chimes do in Chime; *)
(* here a call of connect() is as long as the condition of the network     *)
(* makes it.  The record in the EEPROM is reduced to the broker (see       *)
(* Settings).                                                              *)
(***************************************************************************)
EXTENDS Integers

CONSTANTS
  Brokers,      \* the addresses the user may type
  Conditions,   \* what the way to the broker may be like, see below
  Wrap,         \* 2^32: the modulus of the clock
  WdtLimit,     \* 4 s: WDTO_4S
  RetryEvery,   \* 5 s between two retries
  ArpTimeout,   \* 1.8 s: the W5500 finds nobody on the local net
  SynTimeout,   \* 31.8 s: the W5500 gets no answer from beyond
  ConnackWait   \* 5 s: wait_for_connack()

\* "refuses": a RST, no link, or a CONNACK with an error.  "silent": packets
\* get lost.  "mute": TCP works, MQTT does not answer.  "closes": the broker
\* accepts and closes at once, on which connect() spins (see W5500Socket).
AllConditions ==
  {"answers", "refuses", "unreachable", "silent", "mute", "closes"}

ASSUME TimeAssumption ==
  /\ Conditions \subseteq AllConditions
  /\ {Wrap, WdtLimit, RetryEvery} \subseteq Nat
  /\ {ArpTimeout, SynTimeout, ConnackWait} \subseteq Nat
  /\ 2 * ArpTimeout + 1 < WdtLimit
  /\ WdtLimit <= ConnackWait /\ WdtLimit <= SynTimeout
  /\ RetryEvery + WdtLimit < Wrap

\* broker_ip = 0.0.0.0
NoBroker == "none"

VARIABLES
  pc,          \* where main() is
  back,        \* who called connect(): "boot" (or nobody), "retry", "save"
  waited,      \* ticks in the wait main() is in
  now,         \* TimerService::millis()
  wdt_on,      \* is the watchdog enabled?
  wdt,         \* ticks since wdt_reset()
  last_retry,  \* last_mqtt_retry_ms
  configured,  \* mqtt_configured
  live,        \* the broker in config_
  saved,       \* the broker in the EEPROM
  save_flag,   \* save_flag_
  session,     \* the broker the client is CONNECTED to, or NoBroker
  alive,       \* does the broker's end of the session exist?
  net,         \* the way to the broker
  \* History.
  dirty,       \* has the broker been edited since it was saved?
  offline,     \* ticks between passes without session and try
  slow         \* since the watchdog was fed: a wait that ARP does not end

place == <<pc, back, waited>>
watchdog == <<wdt_on, wdt, slow>>
timers == <<now, last_retry, offline>>
settings == <<configured, live, saved, save_flag, dirty>>
link == <<session, alive, net>>
vars == <<place, watchdog, timers, settings, link>>

Elapsed(t) == (now - t) % Wrap

-----------------------------------------------------------------------------
(* connect() and its waits. *)

Call(caller) ==
  /\ pc' = "dial" /\ back' = caller /\ waited' = 0
  /\ session' = NoBroker /\ alive' = FALSE
  /\ offline' = 0

Return ==
  /\ pc' = CASE back = "boot"  -> "enter"
             [] back = "retry" -> "saved"
             [] back = "save"  -> "chimes"
  /\ waited' = 0 /\ back' = "boot"

Wait(p) == pc' = p /\ waited' = 0 /\ UNCHANGED back

\* Faulty variant: the chip's TIMEOUT is not looked at.
DialFails_NoTimeout ==
  /\ pc = "dial"
  /\ live = NoBroker \/ net = "refuses"
  /\ Return
  /\ UNCHANGED <<watchdog, timers, settings, link>>

\* socket_connect(): the chip gives up, or is refused.
DialFails ==
  /\ pc = "dial"
  /\ \/ live = NoBroker
     \/ net = "refuses"
     \/ net = "unreachable" /\ waited >= ArpTimeout
     \/ waited >= SynTimeout
  /\ Return
  /\ UNCHANGED <<watchdog, timers, settings, link>>

\* The loop after ::connect() looks at the status and feeds the watchdog.
DialSucceeds ==
  /\ pc = "dial" /\ live # NoBroker
  /\ net \in {"answers", "refuses", "mute"}
  /\ Wait("connack") /\ wdt' = 0 /\ slow' = FALSE
  /\ UNCHANGED <<timers, settings, link, wdt_on>>

DialSpins ==
  /\ pc = "dial" /\ live # NoBroker
  /\ net = "closes"
  /\ Wait("spin")
  /\ UNCHANGED <<watchdog, timers, settings, link>>

Accepted ==
  /\ pc = "connack" /\ net = "answers"
  /\ session' = live /\ alive' = TRUE
  /\ Return
  /\ UNCHANGED <<watchdog, timers, settings, net>>

\* wait_for_connack() returns false: socket_disconnect().
NotAccepted ==
  /\ pc = "connack"
  /\ net = "refuses" \/ waited >= ConnackWait
  /\ Wait("hangup")
  /\ UNCHANGED <<watchdog, timers, settings, link>>

\* disconnect() waits for the answer to its FIN.
HungUp ==
  /\ pc = "hangup"
  /\ net \notin {"silent", "unreachable"} \/ waited >= SynTimeout
  /\ Return
  /\ UNCHANGED <<watchdog, timers, settings, link>>

ConnectStep ==
  DialFails \/ DialSucceeds \/ DialSpins \/ Accepted \/ NotAccepted \/ HungUp

-----------------------------------------------------------------------------
(* main() *)

\* Up to the first connect(): the watchdog is off.
Boot ==
  /\ pc = "boot"
  /\ live' = saved /\ configured' = (saved # NoBroker)
  /\ IF saved # NoBroker
     THEN Call("boot")
     ELSE Wait("enter") /\ UNCHANGED <<session, alive, offline>>
  /\ UNCHANGED <<watchdog, now, last_retry, saved, save_flag, net, dirty>>

EnterLoop ==
  /\ pc = "enter"
  /\ Wait("top")
  /\ wdt_on' = TRUE /\ wdt' = 0 /\ slow' = FALSE
  /\ UNCHANGED <<timers, settings, link>>

\* Faulty variant: the watchdog is not fed while there is no session.
Top_FedWhenConnected ==
  /\ pc = "top"
  /\ Wait("retry")
  /\ wdt' = IF session # NoBroker THEN 0 ELSE wdt
  /\ slow' = (session = NoBroker /\ slow)
  /\ UNCHANGED <<timers, settings, link, wdt_on>>

\* wdt_reset() and a loop() that finds nothing wrong.
Top ==
  /\ pc = "top"
  /\ Wait("retry")
  /\ wdt' = 0 /\ slow' = FALSE
  /\ UNCHANGED <<timers, settings, link, wdt_on>>

\* wdt_reset() and a loop() that finds the session lost: its end (MqttSession)
\* or its silence (MqttKeepalive) is noticed some time after it.
TopLost ==
  /\ pc = "top"
  /\ session # NoBroker
  /\ ~alive \/ net # "answers"
  /\ session' = NoBroker
  /\ Wait("retry")
  /\ wdt' = 0 /\ slow' = FALSE
  /\ UNCHANGED <<timers, settings, wdt_on, alive, net>>

\* Faulty variant: the sum is not taken modulo the clock.
RetryDue_NoWrap ==
  configured /\ session = NoBroker /\ now >= last_retry + RetryEvery

RetryDue ==
  configured /\ session = NoBroker /\ Elapsed(last_retry) >= RetryEvery

Retry ==
  /\ pc = "retry"
  /\ RetryDue
  /\ last_retry' = now
  /\ Call("retry")
  /\ UNCHANGED <<watchdog, settings, now, net>>

NoRetry ==
  /\ pc = "retry"
  /\ ~RetryDue
  /\ Wait("saved")
  /\ UNCHANGED <<watchdog, timers, settings, link>>

\* Faulty variant: a save connects only when there is no session.
Saved_WhenOffline ==
  /\ pc = "saved" /\ save_flag
  /\ save_flag' = FALSE
  /\ configured' = (live # NoBroker)
  /\ IF live # NoBroker /\ session = NoBroker
     THEN Call("save")
     ELSE Wait("chimes") /\ UNCHANGED <<session, alive, offline>>
  /\ UNCHANGED <<watchdog, now, last_retry, live, saved, net, dirty>>

\* Faulty variant: a broker that is told later is not retried.
Saved_KeepsConfigured ==
  /\ pc = "saved" /\ save_flag
  /\ save_flag' = FALSE
  /\ IF live # NoBroker
     THEN Call("save")
     ELSE Wait("chimes") /\ UNCHANGED <<session, alive, offline>>
  /\ UNCHANGED <<watchdog, now, last_retry, configured, live, saved, net,
                 dirty>>

\* consume_save_flag(): the session is begun anew, unless the broker is 0.0.0.0.
Saved ==
  /\ pc = "saved" /\ save_flag
  /\ save_flag' = FALSE
  /\ configured' = (live # NoBroker)
  /\ IF live # NoBroker
     THEN Call("save")
     ELSE Wait("chimes") /\ UNCHANGED <<session, alive, offline>>
  /\ UNCHANGED <<watchdog, now, last_retry, live, saved, net, dirty>>

NotSaved ==
  /\ pc = "saved" /\ ~save_flag
  /\ Wait("chimes")
  /\ UNCHANGED <<watchdog, timers, settings, link>>

\* process_chime() for both chimes.
Chimes ==
  /\ pc = "chimes"
  /\ Wait("parser")
  /\ UNCHANGED <<watchdog, timers, settings, link>>

\* The console commands, see Settings.
SetBroker(b) ==
  /\ pc = "parser"
  /\ live' = b /\ dirty' = TRUE
  /\ UNCHANGED <<place, watchdog, timers, link, configured, saved, save_flag>>

Save ==
  /\ pc = "parser"
  /\ saved' = live /\ save_flag' = TRUE /\ dirty' = FALSE
  /\ UNCHANGED <<place, watchdog, timers, link, configured, live>>

EndPass ==
  /\ pc = "parser"
  /\ Wait("top")
  /\ UNCHANGED <<watchdog, timers, settings, link>>

MainStep == \/ Boot \/ EnterLoop \/ Top \/ Retry \/ NoRetry \/ Saved \/ NotSaved
            \/ Chimes \/ EndPass

-----------------------------------------------------------------------------
(* Time and the watchdog. *)

Restart ==
  /\ pc' = "boot" /\ back' = "boot" /\ waited' = 0
  /\ now' = 0 /\ wdt_on' = FALSE /\ wdt' = 0 /\ last_retry' = 0
  /\ configured' = FALSE /\ live' = saved /\ save_flag' = FALSE
  /\ session' = NoBroker /\ alive' = FALSE
  /\ dirty' = FALSE /\ offline' = 0 /\ slow' = FALSE
  /\ UNCHANGED <<saved, net>>

\* The reboot command.
Reboot == pc = "parser" /\ Restart

\* Where time may pass; what is not waited for takes none.
Waiting ==
  \/ /\ pc = "dial" /\ live # NoBroker
     /\ \/ net = "silent" /\ waited < SynTimeout
        \/ net = "unreachable" /\ waited < ArpTimeout
  \/ pc = "connack" /\ net \notin {"answers", "refuses"} /\ waited < ConnackWait
  \/ pc = "hangup" /\ net \in {"silent", "unreachable"} /\ waited < SynTimeout
  \/ pc = "spin"
  \/ pc = "parser" /\ waited = 0

WdtDue == wdt_on /\ wdt = WdtLimit - 1

Tick ==
  /\ Waiting /\ ~WdtDue
  /\ now' = (now + 1) % Wrap
  /\ waited' = IF pc = "spin" THEN 0 ELSE waited + 1
  /\ wdt' = IF wdt_on THEN wdt + 1 ELSE 0
  /\ offline' = IF pc = "parser" /\ configured /\ session = NoBroker
                 THEN IF offline < Wrap THEN offline + 1 ELSE Wrap
                 ELSE 0
  /\ slow' = (slow \/ (pc # "parser" /\ (pc = "dial" => net = "silent")))
  /\ UNCHANGED <<settings, link, pc, back, wdt_on, last_retry>>

\* The watchdog resets the controller.
Bite ==
  /\ Waiting /\ WdtDue
  /\ Restart

\* The way to the broker changes; a session survives lost packets only.  A
\* change between two steps that take no time and do not look at the network
\* is no other than one before them.
NetChanges ==
  /\ pc \in {"dial", "connack", "hangup", "spin", "parser"}
  /\ \E c \in Conditions \ {net} : net' = c
  /\ alive' = (alive /\ net' \in {"silent", "unreachable"})
  /\ UNCHANGED <<place, watchdog, timers, settings, session>>

-----------------------------------------------------------------------------

Init ==
  /\ pc = "boot" /\ back = "boot" /\ waited = 0
  /\ now = 0 /\ wdt_on = FALSE /\ wdt = 0 /\ last_retry = 0
  /\ configured = FALSE /\ save_flag = FALSE
  /\ saved \in Brokers \cup {NoBroker} /\ live = saved
  /\ session = NoBroker /\ alive = FALSE /\ net \in Conditions
  /\ dirty = FALSE /\ offline = 0 /\ slow = FALSE

Next ==
  \/ MainStep \/ TopLost \/ ConnectStep
  \/ \E b \in Brokers \cup {NoBroker} : SetBroker(b)
  \/ Save \/ Reboot
  \/ Tick \/ Bite \/ NetChanges

\* The program runs on, time does not stand still, and a lost session is
\* noticed sooner or later.
Spec ==
  /\ Init /\ [][Next]_vars
  /\ WF_vars(MainStep \/ ConnectStep)
  /\ SF_vars(EndPass)
  /\ SF_vars(Tick \/ Bite)
  /\ SF_vars(TopLost)

-----------------------------------------------------------------------------
(* Properties. *)

\* Type invariant.
TypeOK ==
  /\ pc \in {"boot", "dial", "connack", "hangup", "spin", "enter", "top",
             "retry", "saved", "chimes", "parser"}
  /\ back \in {"boot", "retry", "save"}
  /\ waited \in 0 .. SynTimeout + ConnackWait
  /\ now \in 0 .. Wrap - 1 /\ last_retry \in 0 .. Wrap - 1
  /\ wdt_on \in BOOLEAN /\ configured \in BOOLEAN /\ save_flag \in BOOLEAN
  /\ alive \in BOOLEAN /\ dirty \in BOOLEAN /\ slow \in BOOLEAN
  /\ wdt \in 0 .. WdtLimit - 1
  /\ live \in Brokers \cup {NoBroker} /\ saved \in Brokers \cup {NoBroker}
  /\ session \in Brokers \cup {NoBroker}
  /\ net \in Conditions
  /\ offline \in 0 .. Wrap

\* The watchdog only bites when something really keeps the program waiting:
\* a retry and a save in one pass that both find nobody on the local net do
\* not add up to its limit.
NoNeedlessBite == [][Bite => slow]_vars

\* A session that is lost or could not be had is retried in time, across the
\* wrap of the clock.
RetriedInTime == TypeOK /\ (pc = "chimes" => offline <= RetryEvery)

\* After a save the session is with the broker that was saved, until the user
\* types another one.
SessionAsSaved ==
  pc = "chimes" /\ ~dirty /\ session # NoBroker /\ live # NoBroker
    => session = live

\* connect() spins while the watchdog is off: the bell hangs.
Hangs == pc = "spin" /\ ~wdt_on

\* When the broker answers for good, the bell finds its way back to it, also
\* when it was first told of the broker on the console.
ReconnectsForGood ==
  <>[](net = "answers" /\ ~dirty /\ saved # NoBroker)
    => []<>(session # NoBroker \/ Hangs)

\* Without a broker on the local net the buttons are looked at again and
\* again.  (With a silent one they are not: the boot takes so long that the
\* first retry is due before the first look, and ends in the next boot.)
ButtonsServed ==
  <>[](net = "unreachable") => []<>(pc = "chimes" \/ Hangs)
=============================================================================
