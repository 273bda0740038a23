---------------------------- MODULE MqttReconnect ----------------------------
(***************************************************************************)
(* The reconnection logic of src/Network/MQTTClient.cpp, a wrapper of the  *)
(* vendor's MQTT library with its own idea of the connection: status_ and  *)
(* reconnect_pending_ are kept next to the library's isconnected, which    *)
(* is_connected() reads, and they may disagree.  The library is not part   *)
(* of the repository; what it returns is a choice of the environment.      *)
(*                                                                         *)
(* The application calls the operations in any order, and try_reconnect()  *)
(* at least every MaxGap seconds.  Time is TimerService::seconds().        *)
(***************************************************************************)
EXTENDS Integers

CONSTANTS
  Wrap,       \* 2^32
  Intervals,  \* what set_reconnect_interval() may be given
  MaxInterval,\* bound: the longest of them
  Callbacks,  \* MQTTMessageCallback
  None,       \* nullptr
  MaxGap      \* bound: the longest time between two calls of try_reconnect()

ASSUME ReconnectAssumption ==
  /\ Wrap \in Nat /\ MaxInterval \in Nat \ {0} /\ MaxGap \in Nat \ {0}
  /\ MaxInterval + MaxGap < Wrap
  /\ Intervals \subseteq 0 .. MaxInterval /\ Intervals # {}
  /\ None \notin Callbacks

VARIABLES
  initialized,      \* initialized_
  status,           \* status_
  pending,          \* reconnect_pending_
  since,            \* last_disconnect_time_
  interval,         \* reconnect_interval_sec_
  has_credentials,  \* has_credentials_
  handler,          \* default_callback_
  up,               \* the library's isconnected
  wdt,              \* the watchdog: "off", "on", or "paused" by connect()
  pc,               \* where connect() stands; "idle" outside
  now,              \* TimerService::seconds()
  \* History.
  age,              \* seconds since the failure noted last, at most Wrap
  gap,              \* seconds since try_reconnect() was called
  quit,             \* what disconnect() came to, if called since connect()
  unnoticed         \* the session was lost in subscribe() or unsubscribe()

client_vars == <<initialized, interval, has_credentials, handler>>
reconnect_vars ==
  <<client_vars, status, pending, since, up, wdt, pc, now, age, gap, quit, unnoticed>>

Time == 0 .. Wrap - 1
MQTTStatus == {"kDisconnected", "kConnecting", "kConnected", "kError"}

\* now - last_disconnect_time_ on uint32_t.
Elapsed == (now - since) % Wrap

-----------------------------------------------------------------------------

\* The constructor; the default interval is one of Intervals.
ReconnectInit ==
  /\ initialized = FALSE /\ status = "kDisconnected" /\ pending = FALSE
  /\ since = 0 /\ interval \in Intervals /\ has_credentials = FALSE /\ handler = None
  /\ up = FALSE /\ wdt \in {"off", "on"} /\ pc = "idle" /\ now = 0
  /\ age = 0 /\ gap = 0 /\ quit = "no" /\ unnoticed = FALSE

\* init(): may be called again, and then only resets status_.
Initialize ==
  /\ pc = "idle"
  /\ initialized' = TRUE /\ status' = "kDisconnected"
  /\ UNCHANGED <<interval, has_credentials, handler, pending, since, up, wdt, pc, now, age, gap,
                 quit, unnoticed>>

\* connect() up to the call of the library that opens the connection.
Dial ==
  /\ initialized /\ pc = "idle"
  /\ status' = "kConnecting" /\ pending' = FALSE
  /\ wdt' = "paused" /\ pc' = "dial"
  /\ UNCHANGED <<initialized, interval, handler, since, up, now, age>>

ClientConnect ==
  /\ Dial
  /\ has_credentials' \in BOOLEAN
  /\ quit' = "no"
  /\ UNCHANGED <<gap, unnoticed>>

\* What both failures of connect() do.
Failed ==
  /\ status' = "kError" /\ pending' = TRUE
  /\ since' = now /\ age' = 0
  /\ wdt' = "on" /\ pc' = "idle"

\* The network cannot be connected; isconnected is as before.
NetworkFails ==
  /\ pc = "dial"
  /\ Failed
  /\ UNCHANGED <<client_vars, up, now, gap, quit, unnoticed>>

\* MQTTClientInit() resets isconnected.
NetworkConnects ==
  /\ pc = "dial"
  /\ up' = FALSE /\ unnoticed' = FALSE /\ pc' = "connack"
  /\ UNCHANGED <<client_vars, status, pending, since, wdt, now, age, gap, quit>>

BrokerRefuses ==
  /\ pc = "connack"
  /\ Failed
  /\ UNCHANGED <<client_vars, up, now, gap, quit, unnoticed>>

BrokerAccepts ==
  /\ pc = "connack"
  /\ up' = TRUE /\ status' = "kConnected"
  /\ wdt' = "on" /\ pc' = "idle"
  /\ UNCHANGED <<client_vars, pending, since, now, age, gap, quit, unnoticed>>

\* disconnect(), which returns at once unless the client takes itself for
\* connected: a retry that is pending, or a session that init() has hidden, is
\* then left as it is.
Disconnect ==
  /\ pc = "idle"
  /\ \/ /\ status = "kConnected"
        /\ up' = FALSE /\ status' = "kDisconnected"
        /\ since' = now /\ age' = 0
        /\ quit' = "off" /\ unnoticed' = FALSE
     \/ /\ status # "kConnected"
        /\ quit' = IF up \/ pending THEN "ignored" ELSE "off"
        /\ UNCHANGED <<up, status, since, age, unnoticed>>
  /\ UNCHANGED <<client_vars, pending, wdt, pc, now, gap>>

\* Faulty variant: the status is left as it was.
NoteLoss_PendingOnly ==
  /\ since' = now /\ age' = 0
  /\ pending' = TRUE
  /\ UNCHANGED status

NoteLoss ==
  /\ status' = "kDisconnected"
  /\ since' = now /\ age' = 0
  /\ pending' = TRUE

\* publish() and yield(), when they fail: a session that is gone is noted.
\* Without a session they return at once, with one they may succeed; neither
\* changes anything.
PublishOrYieldFails ==
  /\ pc = "idle" /\ up
  /\ up' \in BOOLEAN
  /\ \/ ~up' /\ NoteLoss
     \/ up' /\ UNCHANGED <<status, since, age, pending>>
  /\ UNCHANGED <<client_vars, wdt, pc, now, gap, quit, unnoticed>>

\* subscribe(): the callback is taken over before the broker is asked, for
\* every subscription.  A session lost here is not noted.
ClientSubscribe ==
  /\ pc = "idle" /\ up
  /\ handler' \in Callbacks
  /\ up' \in BOOLEAN
  /\ unnoticed' = ~up'
  /\ UNCHANGED <<initialized, interval, has_credentials, status, pending, since, wdt, pc, now,
                 age, gap, quit>>

\* unsubscribe()
UnsubscribeFails ==
  /\ pc = "idle" /\ up
  /\ up' \in BOOLEAN
  /\ unnoticed' = ~up'
  /\ UNCHANGED <<client_vars, status, pending, since, wdt, pc, now, age, gap, quit>>

\* set_reconnect_interval()
SetInterval ==
  /\ pc = "idle"
  /\ interval' \in Intervals
  /\ UNCHANGED <<initialized, has_credentials, handler, status, pending, since, up, wdt, pc, now,
                 age, gap, quit, unnoticed>>

\* set_default_message_handler()
SetHandler ==
  /\ pc = "idle"
  /\ handler' \in Callbacks \cup {None}
  /\ UNCHANGED <<initialized, interval, has_credentials, status, pending, since, up, wdt, pc, now,
                 age, gap, quit, unnoticed>>

\* Faulty variant: absolute times, which is wrong once the clock wraps.
RetryDue_NoWrap == pending /\ now >= since + interval

RetryDue == pending /\ Elapsed >= interval

\* try_reconnect(): the stored configuration is used again.
TryReconnect ==
  /\ pc = "idle"
  /\ gap' = 0
  /\ \/ RetryDue /\ Dial
     \/ /\ ~RetryDue
        /\ UNCHANGED <<initialized, interval, handler, status, pending, since, up, wdt, pc,
                        now, age>>
  /\ UNCHANGED <<has_credentials, quit, unnoticed>>

\* Bound: outside connect(), try_reconnect() is called every MaxGap seconds.
Tick ==
  /\ pc = "idle" => gap < MaxGap
  /\ now' = (now + 1) % Wrap
  /\ age' = IF age < Wrap THEN age + 1 ELSE age
  /\ gap' = IF pc = "idle" THEN gap + 1 ELSE gap
  /\ UNCHANGED <<client_vars, status, pending, since, up, wdt, pc, quit, unnoticed>>

ReconnectNext ==
  \/ Initialize \/ ClientConnect \/ NetworkFails \/ NetworkConnects
  \/ BrokerRefuses \/ BrokerAccepts
  \/ Disconnect \/ PublishOrYieldFails \/ ClientSubscribe \/ UnsubscribeFails
  \/ SetInterval \/ SetHandler \/ TryReconnect \/ Tick

ReconnectSpec == ReconnectInit /\ [][ReconnectNext]_reconnect_vars

-----------------------------------------------------------------------------
(* Properties. *)

ReconnectTypeOK ==
  /\ initialized \in BOOLEAN /\ status \in MQTTStatus /\ pending \in BOOLEAN
  /\ since \in Time /\ interval \in Intervals /\ has_credentials \in BOOLEAN
  /\ handler \in Callbacks \cup {None} /\ up \in BOOLEAN
  /\ wdt \in {"off", "on", "paused"} /\ pc \in {"idle", "dial", "connack"}
  /\ now \in Time /\ age \in 0 .. Wrap /\ gap \in 0 .. MaxGap
  /\ quit \in {"no", "off", "ignored"} /\ unnoticed \in BOOLEAN

\* Outside connect() the client takes itself for connected only while the
\* library does, unless the session was lost in subscribe() or unsubscribe().
LossRemembered ==
  pc = "idle" /\ status = "kConnected" => up \/ unnoticed

\* The watchdog is paused while connect() runs, and however that ends it is
\* on again.
WatchdogBack == (wdt = "paused") <=> (pc # "idle")

\* A reconnection that is pending is due exactly when the interval has passed
\* since the failure, across the wrap of the clock, and it is tried within the
\* longest interval and the caller's gap.
RetriesInTime ==
  pending /\ pc = "idle" =>
    /\ age < MaxInterval + MaxGap
    /\ RetryDue <=> age >= interval

\* A disconnect() that leaves neither a session nor a retry is only taken back
\* by the application's connect().  One that is ignored ends nothing, now or
\* later: the client goes on retrying by itself, or has a session, unless that
\* is lost unnoticed.
DisconnectSticks ==
  /\ quit = "off" => ~up /\ ~pending /\ pc = "idle"
  /\ quit = "ignored" => up \/ pending \/ pc # "idle" \/ unnoticed

\* Whichever calls, failures and losses came before: what the client believes
\* of its session is true of the library, the watchdog runs outside connect(),
\* and disconnect() lasts unless it came while the client did not take itself
\* for connected.
StatusTruthful == LossRemembered /\ WatchdogBack /\ DisconnectSticks
=============================================================================
