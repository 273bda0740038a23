# smart-bell in TLA+

The firmware of a two-button doorbell (ATmega328P, W5500 Ethernet controller,
MQTT) modelled in TLA+, model-checked with TLC and, where it pays, proved with
TLAPS. Paths and line numbers below are those of the repository.

Contents: 1 the system, 2 what is hard about it, 3 the modules, 4 the runs,
5 fairness, 6 the proofs, 7 what the runs found, 8 further observations,
9 what is not modelled, 10 plan, 11 how to run it.

## 1. The system

The production program is `app/smart_bell.cpp`. `main()` boots the board, makes
one attempt to connect to the broker, switches a 4 s watchdog on and enters the
loop. A pass of the loop runs `MinimalMQTT::loop()`, retries a lost connection,
carries out a save that was asked for on the console, runs `process_chime()`
for both chimes, and feeds the received serial bytes to the console. Beside it
run two interrupts, the 1 ms timer and the UART receiver; a third, SPI, is only
used by a build variant.

The repository also holds an earlier application, `src/App/SmartBellApp.cpp`
with `GongController`, `UARTCommandParser` and `src/Network/MQTTClient.cpp`. No
executable links it; it is modelled as its headers say it is to be driven.

| Component | State | Operations | Talks to |
|---|---|---|---|
| Chime control (`app/smart_bell.cpp:22-210`) | two `ChimeState` records, `is_loop_started`, `loop_start_ms` | `process_chime`, `on_mqtt_message_received` | button pins, relay pins, `millis()`, `MinimalMQTT::publish` |
| Main program (`app/smart_bell.cpp:232-417`) | `last_mqtt_retry_ms`, `mqtt_configured`, save flag, watchdog | boot, pass, retry, save, console | all others |
| MQTT client (`src/MQTT/MinimalMQTT.cpp`) | `state_`, `subscriptions_`, `last_activity_`, `last_ping_`, two buffers | `connect`, `subscribe`, `publish`, `loop` | socket driver, message callback |
| Socket driver (`src/Ethernet/socket.c`) | `sock_is_sending`, `sock_io_mode`, the chip's registers | `socket`, `connect`, `send`, `recv`, `disconnect`, `close` | register access |
| Register access (`src/Ethernet/W5500/w5500.c`, `W5500Interface.cpp`) | ring pointers of the chip | `getSn_RX_RSR`, `getSn_TX_FSR`, `wiz_send_data`, `wiz_recv_data` | SPI |
| Chip set-up (`W5500Interface.cpp`, `wizchip_conf.c`, frames of `w5500.c`) | registers of the chip, `netInfo_`, `initialized_`, SPIF and SPIE | `init`, resets, addresses, modes, timeouts, PHY | SPI, registered callbacks |
| UART receive ring (`src/Serial/UART.cpp`) | `rx_buffer_`, `rx_head_`, `rx_tail_` | `ISR(USART_RX_vect)`, `is_read_data_available`, `read_byte` | console |
| Configuration (`src/Config/LightweightConfig.cpp`) | `config_`, its copy in the EEPROM, an older copy, line buffer | `load`, `save`, migration, console commands | EEPROM, main program |
| Timer service (`src/System/TimerService.cpp`) | `millis_counter_`, 32 bit | `on_1ms_tick`, `millis` | everything that measures time |
| Earlier application (`src/App`, `src/Config/UARTCommandParser.cpp`) | `state_`, buttons with `interrupt_pending`, two `GongState` | `loop` by state, `on_button_interrupt`, `trigger`, `update` | INT0, INT1, EEPROM, MQTT client |
| Earlier MQTT client (`src/Network/MQTTClient.cpp`) | `status_`, `reconnect_pending_`, `last_disconnect_time_` | `connect`, `disconnect`, `publish`, `subscribe`, `yield`, `try_reconnect` | the vendor's MQTT library, watchdog |

`PROJECT.json` lists the remaining parts (wrappers nothing calls, headers
without code, examples and tests).

What makes each component correct:

- **Chime**: a gong sounds for 1.5 s and never much longer, is not cut short,
  does not start for a reason of the past; one event is published at most once,
  and two are more than 3 s apart, wherever the 32-bit clock stands. A wrap of
  that clock may hold a press back for one guard time and one cooldown, and so
  lose a short one (section 8), but a press that outlasts the two is noticed.
- **Main loop**: it comes back to the buttons, retries a lost broker, keeps to
  the broker that was saved, and is not reset by the watchdog without need.
- **MQTT client**: it believes itself connected or subscribed only when it is,
  notices a loss in bounded time, gives up no session that works, and hands
  each command to its own chime at most once.
- **Socket driver**: one packet outstanding, no byte of the stream lost or
  repeated, every busy-wait ends.
- **Register access**: sizes and pointers taken byte by byte are real.
- **Chip set-up**: addresses and PHY stay as configured, whatever resets and
  setters follow one another; the memory of the sockets is what `init()` or a
  reset made it, which is not what the comment says (section 8); an access leaves
  no interrupt behind that nobody handles.
- **UART ring**: a bounded FIFO.
- **Configuration**: what was saved comes back, whatever happens to the power.
- **Earlier application**: no edge of a button is lost, a gong stops at its time
  and not before, buttons and broker are served without a connection.
- **Earlier MQTT client**: its own idea of the session agrees with the
  library's, the watchdog comes back after `connect()`, retries come in time.

## 2. What is hard about it

The hazards are listed, each at its line, in `PROJECT.json`. They fall into five
groups:

- *interrupts* that run between any two memory accesses of the main program
  (UART ring; the clock is read with interrupts off, `TimerService.cpp:22-34`);
- *a chip that goes on working* between two register reads of a driver that
  busy-waits on it (`socket.c:280`, `:306`, `:409`, `w5500.c:188-221`);
- *a network and a broker* that close, reset, vanish or answer late at any of
  those points, and TCP, which cuts the byte stream where it likes;
- *time*: a clock that wraps every 49.7 days, passes that come late, waits
  longer than the watchdog allows;
- *power*: a reset between any two bytes of an EEPROM record.

## 3. The modules

```
 ByteQueue  <--implements--  UartRing          (Console_proofs)
     ^
     +------implements-----  W5500Buffers      (W5500Chip_proofs)
                             W5500Socket       (W5500Socket_proofs)
                                  ^ INSTANCE
                             MqttSession       (MqttClient_proofs)
                             MqttKeepalive     (MqttKeepalive_proofs)
                             Chime             (Chime_proofs)
                             Settings          (Console_proofs)
                             SmartBell         (SmartBell_proofs)
                             ChipSetup         (W5500Chip_proofs)
                             GongApp           (GongApp_proofs)
                             MqttReconnect     (MqttClient_proofs)
```

Three modules of proofs hold two components each: W5500Chip_proofs the chip's
set-up and its buffers, Console_proofs the serial ring and the record behind the
console, MqttClient_proofs the two MQTT clients. ChipSetup, Settings and
MqttReconnect therefore carry their name in `Init`, `Next` and the
specification (`SettingsInit`, ..., `SettingsSpec`).

Each module names the operation of the code in its actions, and `PROJECT.json`
("map") gives the lines of every definition. Definitions called *Faulty
variant* are plausible mistakes; nothing of `Spec` uses them. They show that
the properties notice such a mistake.

**ByteQueue** is the abstract specification of a byte path: `Accept`, `Lose`
(only when full), `Take`.

**UartRing** has one action per access to shared memory: the test of
`is_read_data_available`, the test inside `read_byte`, the load of the byte and
the store of the tail index, with `RxIsr` between any two of them. `rx_buffer_`
is not `volatile`, so the compiler may move the load behind the index store;
both orders are in the module (`FreeLast` / `FreeFirst`). The reader is the
loop of `smart_bell.cpp:389-391`.

**Chime** is `process_chime` as a composition of stages on a `ChimeState`
record (`Sample`, `Detect`, `Strike`, `StopRing`), with `GuardPass` for the
3 s after the loop was entered and `SilentPass` / `PublishPass` for a full pass.
The clock is `now`, modulo `Wrap`; true ages (`ring_age`, `event_age`, `held`,
`gap`, `up`) and `noticed` are history the code does not have. The properties
are stated in them, so that they say something about the code's arithmetic on
the clock. `event_age` and `up` tell an age below `Wrap` from one beyond it; of
the latter they keep the remainder (`Aged`).

**W5500Socket** has one action per register access of `connect`, `send`,
`recv` and `disconnect` in blocking mode, interleaved with the chip's TCP
engine (`Handshake`, `Deliver`, `Ack`, `Drop`, ...), the network and the peer.
`socket()` and the `close()` inside it belong to the first step of `connect()`,
since nothing can reach a closed socket. The chip is external: it is modelled
from the meanings the driver gives to `Sn_SR`, `Sn_IR` and `Sn_CR`. `SENDOK`
is taken to mean that the peer acknowledged the packet.

**W5500Buffers** refines what W5500Socket takes as one step: the two registers
of a size are read one after the other, up to two rounds (`ReadHigh`,
`ReadFirst`, `ReadSecond`), while bytes arrive and acknowledgements come in;
data are copied cell by cell at pointers that wrap at 2^16 in buffers that wrap
at their size. Here a `send()` may start while earlier packets are unacknowledged, so
that the wait for room (`socket.c:355-365`) really waits.

**MqttSession** instantiates W5500Socket and adds `MinimalMQTT`, the main loop
as its caller and a broker. A client action that calls the driver is followed
by the driver's own steps; what `at = "ready"` returns decides the next. A
PUBLISH of the broker is two cells (header, payload) which may fall into
different buffers, as `process_incoming_packet` looks at one buffer at a time.

**MqttKeepalive** is the timing of the client: `loop()` with its ping and its
silence limit, `publish()` as activity, a socket that is busy while a packet
is unacknowledged, and a broker that may vanish without a word.

**Settings** is the record in RAM, its copy in the EEPROM, and the copy an
older firmware left; `save()` and the migration write cell by cell, and the
power may go between two cells. The two bytes of the port are cells of their
own, since a mixture of them could be port 0.

**SmartBell** is `main()`. Time passes only where the program waits, in
`connect()` and between two passes; the watchdog counts where it is on and is
fed where the code calls `wdt_reset()`. The state of the way to the broker
("answers", "refuses", "unreachable", "silent", "mute", "closes") decides how
long `connect()` takes, following what the other modules show of it. "mute"
(TCP works, MQTT does not) is in the module and in no run: with a wait for
CONNACK of 5 s under a watchdog of 4 s it keeps the main loop as "silent" does,
and would multiply the states.

**ChipSetup** writes a call of `W5500Interface` or `ctlwizchip`, `ctlnetwork`
as a list of steps (`SwReset`, `WizchipInit`, `SetPhyConf`, ...), most of them
register accesses, and runs every access as the frame it is: `Select`, `Shift`
of the header, `Shift` of the data, `Deselect`, with SPIF and SPIE. A write of
RST to MR clears all registers, and what survives is what `wizchip_sw_reset`
has read before. `wanted` is the history of what was asked for, `sized` that of
whether `init()` has given out the buffer sizes and no reset has come since.

**GongApp** is the loop of `SmartBellApp` by states; `process_button_events` is
cut at its accesses to shared memory (`TakeFlag`, `ReadPin`, `Act`), with `Edge`
between any two. Gongs keep absolute stop times on the wrapping clock; `left`
is the true time left. `connect()` blocks in `Dial`.

**MqttReconnect** keeps `status_` and `reconnect_pending_` next to the library's
`isconnected` (`up`). `connect()` is two steps (`dial`, `connack`), since the
library may fail at either and the watchdog is paused meanwhile. `disconnect()`
returns at once unless `status_` is `kConnected` (`MQTTClient.cpp:169`); `quit`
tells whether the last call since the application's `connect()` left neither a
session nor a retry ("off") or was ignored in spite of one ("ignored").

## 4. The runs

All bounds are CONSTANTS of the cfg; the modules contain no other.

| Run | Bounds | States | Result |
|---|---|---|---|
| `UartRing` | ring of 4, two byte values, 2 dropped bytes counted | 3,945 | holds |
| `Chime` | one chime; clock of 10 ms, guard 2, debounce 0, cooldown 3, ring 2, lateness 2 | 5.4 M | holds |
| `W5500Socket` | 2 packets, 2 kinds of cells, 3 cells a connection, buffer of 2 | 135,928 | holds |
| `W5500Buffers` | registers of base 3, pointers modulo 8, buffers of 4, 2 bytes a call | 1.2 M | holds |
| `ChipSetup` | one address value, one mode, one timeout, both speeds, hard reset present | 740,629 | holds |
| `MqttSession` | 4 cells a connection, buffer of 2 | 218,331 | holds |
| `MqttKeepalive` | interval 12 (ping after 9, give up after 18), lateness 2, round trip 2, clock of 34 | 1.1 M | holds |
| `Settings` | ports 0, 1, 256; two values per text | 3.9 M | holds |
| `SmartBell` | two brokers, five network conditions, clock of 8, watchdog 4, retry 3, ARP 1, SYN 4, CONNACK 4 | 901,426 | holds |
| `GongApp` | one button, one gong, clock of 7, durations 1 to 3, lateness 3, retry 2 | 474,148 | holds |
| `MqttReconnect` | clock of 8, intervals 2 and 4, gap 2, two callbacks | 86,946 | holds |
| `MqttTopics` | 5 cells, buffer of 2 | - | violated, see 7 |

The type invariant of a module is checked as a conjunct of one of its
properties, or proved and not checked again.

What the passing runs show, and why the bounds suffice:

- **UartRing**: `LoadedSlotStable` (the ISR never writes the slot being loaded,
  in neither order of load and store), `ImplementsQueue`, `Drains`.
  `NoFabricatedByte` (the `return 0` of `read_byte` is never taken, and no
  unwritten slot is loaded) is proved. Four slots have an empty, a full, and two states
  in which the indices have wrapped separately; the proofs cover every size.
- **Chime**: `RingBounded` (the relay is off again after 1.5 s plus the
  lateness; once the clock has wrapped, the boot guard may add its 3 s and one
  pass), `RingNotCutShort`, `CooldownRespected`, `NoStaleRing`,
  `PublishedOnce`, `PressNotMissed`. The last has two halves, neither of which
  leaves a wrap out. Outside the guard time and the cooldown, counted by the
  clock, a settled press counts at the last pass at the latest. And any press,
  whatever guard times and cooldowns a wrap brings back meanwhile, is noticed
  once it is `Patience` old, one of each plus the debouncing and three late
  passes (about 6.1 s plus the passes). The two chimes share only the two statics
  that tell when the loop was entered, so one chime shows what a chime does; the
  proofs cover any number. `Wrap = 10` is just above
  `Guard + Debounce + Cooldown + 2 * MaxGap` and `RingTime + Guard + 2 * MaxGap`,
  so that the clock wraps within a ring, a cooldown, the guard time and a press,
  and guard and cooldown can return one right after the other. A debounce time
  of 0 means that a level counts when a pass at least 1 ms later sees it again;
  two events need 2 ms then, so that a cooldown of 3 makes a difference.
- **W5500Socket**: `OneUnacknowledged`, `StreamIntact`, `CallsReturn`
  (`recv` and `disconnect` return; `connect` does unless the peer closes between
  two of its polls, see 8). Three cells make a stream that is
  partly taken, partly in the buffer and partly under way.
- **W5500Buffers**: `SizeReal` (a size that is not zero lies between what it was
  when its reading began and what it is now), `SentIntact` (no unacknowledged
  byte is overwritten), `ImplementsQueue` (the receive buffer is a FIFO),
  `CallsReturn`. With base 3 a buffer of 4 needs both registers, a size that
  goes from 2 to 3 changes both, and pointers modulo 8 wrap later than
  the buffer does, as 2^16 and the buffers of the chip do.
- **ChipSetup**: `NoStrayInterrupt` (SPIF is clear whenever SPIE is set: the SPI
  interrupt has no handler), `ChipAsConfigured` (between two calls addresses and
  PHY are as they were set last), `BuffersAssigned` (between two calls, after an
  `init()` and no reset since, socket 0 has 4 KB to send and 1 KB to receive, and
  all sockets together 17 KB and 14 KB; otherwise 2 KB each and 16 KB). It states
  what the code does, both faults of section 8 included, and would fail if a
  call left any other sizes. One configured address and the
  unconfigured one tell a kept register from a lost one; the four registers are
  all there.
- **MqttSession**: `ConnectedIsAccepted`, `ActiveIsSubscribed`, `AtMostOnce`,
  `LossNoticed`, `AlwaysReturns`. Four cells are a CONNACK, a SUBACK and one
  PUBLISH in two halves; two of them per buffer give every way to cut it.
- **MqttKeepalive**: `LossNoticed` (a broker that is gone is given up within
  45 + 90 s and two passes), `NoFalseAlarm` (one that answers never is),
  `BrokerHears` (and it hears from the client within its own 90 s).
- **Settings**: `SavedComesBack`, `PortUsable`. Of ports 1 and 256 one has only
  a lower, the other only an upper byte, so that a torn save can mix them to 0
  and to 257.
- **SmartBell**: `RetriedInTime`, `SessionAsSaved`, `NoNeedlessBite` (the
  watchdog bites only when something longer than an ARP timeout kept the
  program), `ReconnectsForGood`, `ButtonsServed`. The order of the limits is the
  code's: two ARP timeouts fit under the watchdog, a SYN timeout and the wait
  for CONNACK do not, and the clock wraps within a few retries. The ratios are
  not to scale; `TimeAssumption` in the module states the order that matters.
- **GongApp**: `EdgeNotLost` (pin and application disagree only while an edge is
  still to be looked at), `GongStops` and `GongNotCutShort` (both with the
  exception of a stop time behind the wrap of the counter, where `update()`
  compares absolute times), `LoopServes` (buttons are looked at and the broker
  is called again, connected or not). A retry of 2 and a lateness of 3 let a
  blocked `connect()` reach over stop times; a second button or gong shares no
  state with the first.
- **MqttReconnect**: `StatusTruthful` (connected only if the library is, apart
  from `subscribe`; the watchdog is on again however `connect()` ends; after a
  `disconnect()` that leaves neither a session nor a retry, only the
  application's `connect()` makes one; one that is ignored ends neither, so that
  a retry goes on to be tried), `RetriesInTime` (a retry is due
  when the interval has passed, across the wrap of the clock, and is tried
  within the caller's gap). The interval may change while a retry is pending.

`CHECK_DEADLOCK FALSE` stands in `W5500Buffers.cfg` only: `Abandon` closes the
socket and the module models one connection.

## 5. Fairness

- UartRing: weak fairness of the reader. Its loop is never blocked, the ISR is
  short; bytes need not arrive.
- W5500Socket, MqttSession: weak fairness of the driver's steps (a busy-wait
  runs), of the chip's handshake (SYN answered, refused or timed out: the chip
  has a retransmission limit) and of the end of a connection that is being
  closed. Nothing forces the peer to answer or data to arrive. MqttSession adds
  the client's steps and `ConnackOverdue`, the 5 s deadline of the code.
- W5500Buffers: weak fairness of the driver's steps, and of `Ack`: what was
  sent is acknowledged in the end. When it is not, the chip times out and the
  status test of `send()` ends the wait; that is W5500Socket's matter.
- SmartBell: weak fairness of the program's steps; strong fairness of
  `EndPass` (the console loop of a pass ends: bytes come slower than they are
  read), of `Tick \/ Bite` (time goes on) and of `TopLost` (a lost session is
  noticed at some pass, which MqttKeepalive bounds). `NetChanges` and the user
  are not fair.
- GongApp: weak fairness of the program (`loop()` is called for ever and
  `connect()` returns), strong fairness of `Tick` (the clock runs). Edges are
  not fair.
- Chime, MqttKeepalive, MqttReconnect, ChipSetup and Settings have safety
  properties only. In Chime, MqttKeepalive and MqttReconnect the promise that a
  pass comes at most `MaxGap` after the last is part of `Tick`, as is `Late` in
  GongApp. The watchdog gives it: a pass that is later resets the board.

## 6. The proofs

TLAPS proves, for every value of the constants that the named assumptions
allow, every safety property the passing runs check (9,653 obligations):

- **Console_proofs**, the serial ring (any ring size): `TypeCorrect`,
  `ByteNeverFabricated`, `LoadedSlotNeverOverwritten`, `RingImplementsQueue`
  (safety: the ring refines `ByteQueue`). The inductive invariant adds to the
  types that the reader, past its test, still has a byte (`ReaderHasByte`: only
  it can empty the ring), that its slot is the tail or the one just freed
  (`SlotTracksTail`), and that every occupied slot, the freed one included,
  holds a byte of the line (`OccupiedWritten`). The last needs the slot the ring
  keeps empty.
- **Console_proofs**, the record (any texts and ports under `InputAssumption`):
  both properties of the run. The invariant says that what is being written
  carries the magic number and a port other than 0 (`Marked`, `PortUsable`), and
  that unless a write was interrupted the EEPROM holds what was saved last
  (`Kept`).
- **Chime_proofs** (any number of chimes, any times under `TimeAssumption`):
  all properties of the run. The invariant says, for every
  time stamp in use, that its distance to the clock *is* the true age
  (`RingClock`: a running gong is younger than a bound that `Wrap` exceeds,
  `InTime`, or `HeldUp` by a returning guard) or, where the code keeps a stamp
  for longer than `Wrap`, its remainder (`LoopClock`, `EventClock`).
  `PressIsSeen` has an invariant of its own (`PressInv`). The debounce stamp of
  a low level that does not count is young, or held by the cooldown
  (`StampYoung`), and as old as the press but for one pass, or left by the guard
  time (`LowLasts`). `Waiting` says how old an unnoticed press can be: as old as
  it takes to settle, or held back by guard or cooldown, or by one after the
  other, never by the same one twice, since `Wrap` is longer than both together.
- **SmartBell_proofs** (any brokers, network conditions and times under
  `TimeAssumption`): `RetryInTime`, `SessionFollowsSave`, `BitesForReason`. Each
  has an invariant of its own besides `TypeOK`: how long the program has been
  offline is read off the retry stamp, but for the one tick at which the clock
  comes round to it (`OfflineBounded`); a save ends the session before anything else is done with
  it (`SaveEndsSession`); between two feedings the watchdog counts at most what
  the waits in between take (`WdtBounded`, `CallsApart`).
- **MqttKeepalive_proofs** (any interval, lateness, round trip under
  `TimeAssumption`, which for 60 s, 4 s and a round trip R reads
  45 + 2R + 8 < 90): `TypeCorrect`, `LossIsNoticed`, `BrokerIsServed`,
  `NoSessionGivenUp`. The invariant `ActivityRecent /\ AgesOK /\ Answered /\
  Heard /\ Lost` relates the ages of the two stamps to what is in flight: a
  packet in flight is either recent activity or a ping that will be answered.
  The only stamp that may outlive the clock is `last_ping_`, when publications
  keep the socket busy at every pass; each part of the invariant has an
  alternative that does without it.
- **MqttClient_proofs**, the session (any bound of the connection and of the
  buffer): `ConnectedMeansAccepted`, `SlotsAreSubscribed`,
  `CommandedAtMostOnce`. The invariant follows a packet through the layers:
  which driver call belongs to which place of the client (`InStep`, `Dialling`),
  that the broker speaks for the connection that is open (`PeerOfConnection`),
  that what it says follows what it has accepted (`SaidOnce`), that only an
  accepted client subscribes (`ConnectedFirst`),
  and that a SUBSCRIBE which was handed over arrives while the connection lives
  (`SubscribeGiven`, `SubscribesArrive`). `SessionDrivesSocket` shows that every
  step of the session is one W5500Socket allows its caller, chip and peer, so
  that the driver's theorems hold in it (`SessionStreamIntact`).
- **MqttClient_proofs**, the earlier client: both properties of MqttReconnect.
  The invariant says that a pending retry excludes a session the client believes
  in, and that the noted time measures the true age of the failure as long as a
  retry is pending. Why an ignored `disconnect()` changes nothing later: what
  takes a retry away is `connect()`, which ends with a session or another retry.
- **W5500Socket_proofs** (any packets, cells, bounds): `TypeCorrect`,
  `SendsAreSequential`, `StreamNeverBroken`. One invariant (`SendTracked`) says
  how `sock_is_sending`, `SENDOK` and the place in `send()` together count the
  packets in the chip. The other (`StreamSplit`) says cell by cell that the
  receive buffer continues what was taken and the network continues the buffer,
  and that a `recv()` under way asks for no more than the buffer holds.
- **W5500Chip_proofs**, the set-up (any addresses, modes, timeouts):
  `InterruptNeverStray`, from the phases of a frame in which SPIF can be set and
  SPIE cannot; `ChipStaysConfigured` and `BuffersStayAssigned`, from an invariant
  about what is still to come (`OnCourse`): the steps left of the running call
  take every address and the PHY to what was asked for, and the buffer sizes to
  the table of `init()` or to what a reset leaves. That `init()` gets past the
  check of its sizes is `TablesFit`, the fold unfolded over its two entries. What a
  list of steps does to a register is an outline (`Runs`): a value before and
  after each step, so that lists can be joined (`RunJoin`) and taken from the
  front (`RunTail`) without an induction. It rests on `"RST" \notin NetModes`
  (`SetupAssumption`): `wizchip_setnetmode` refuses every bit but its own
  (`wizchip_conf.c:884`).
- **W5500Chip_proofs**, the buffers (any base of the registers, any width of the
  pointers that a buffer divides): `SizesAreReal`, `SentStaysIntact`,
  `ReceiveImplementsQueue` (safety: the receive buffer refines `ByteQueue`). A
  size can only grow while it is read (`SizeGrows`), so that an upper byte read
  too early makes a value below the size, which no second reading repeats; flow
  control (`WithinBuffers`) keeps host and chip in different cells, and what is
  copied follows the pointers (`Copying`, `Stored`, `Arrived`).
- **GongApp_proofs** (any buttons and gongs, any times under
  `GongAssumption`): all safety properties of the run. The invariant says of a
  sounding gong that its stop time is the reading the clock will have when
  `left` is 0, and of a button that believes the wrong level which step will
  put it right.

Before a proof was started, TLC checked the invariant on the run's bounds; for
`OnCourse`, whose outlines TLC cannot enumerate, with the steps folded over the
register instead. Attempts that failed showed two flaws of the models:
`ReadFirst` of W5500Buffers had overlapping cases, which made its successor
arbitrary, and `AtMostOnce` counted with a recursive operator.

Only model-checked: the liveness properties (`Drains`, `CallsReturn`,
`LossNoticed` and `AlwaysReturns` of MqttSession, `ReconnectsForGood`,
`ButtonsServed`, `LoopServes`), for which TLAPS has no rule here, and with them
the fairness of section 5; and that `BothSubscribed` is violated.

## 7. What the violated run shows

- **MqttTopics / `BothSubscribed`**: the second SUBSCRIBE is refused as busy
  because the first is not acknowledged yet; `mqtt_subscribe_topics` ignores the
  result (`smart_bell.cpp:121-136`), and chime 2 gets no commands, although
  both topics are configured.

## 8. Further observations

Met while modelling, in the module named where there is one; none has a run of
its own.

The production program:

- With a silent broker the boot's `connect()` takes longer than 5 s, and
  `last_mqtt_retry_ms` starts at 0 (`smart_bell.cpp:333`), so the first pass
  retries before `process_chime` and the watchdog resets the board: the bell
  does not ring while the broker is silent. `ButtonsServed` is therefore stated
  for an unreachable one. (SmartBell)
- `connect()` waits until the status is ESTABLISHED, CLOSED or a timeout
  (`socket.c:280-292`). A peer that accepts and closes between two polls leaves
  CLOSE_WAIT, and the loop never ends. In the main loop the watchdog ends it; at
  boot the watchdog is still off. (W5500Socket)
- A PUBLISH behind another packet in one buffer is never looked at
  (`MinimalMQTT.cpp:455`). (MqttSession)
- The comment at `MinimalMQTT.cpp:306-307` promises a wait of 5 s that feeds the
  watchdog, but the wait happens inside `::connect()`, which takes up to 31.8 s
  without feeding. (SmartBell)
- The wait for CONNACK is 5 s (`MinimalMQTT.cpp:425`), more than the 4 s of the
  watchdog: in the main loop its own end is never reached. (SmartBell)
- `now - loop_start_ms` wraps, so the 3 s guard "exakt 3 Sekunden NACH Eintritt
  in die Loop" (`smart_bell.cpp:148`) returns every 49.7 days and lengthens a
  ring by at most its length; `RingBounded` says by how much. (Chime)
- `now - last_event_ms` wraps too (`smart_bell.cpp:170`): 49.7 days after the last
  event of a chime, and after each wrap, and 49.7 days after power-up without
  one, it is at most 3000 for 3 s, and a press that begins and ends within them
  is lost, although "3 Sekunden Cooldown" have long passed. So is one that begins and
  ends within a returning guard time. `PressNotMissed` says when, and that a
  press which outlasts both is noticed. (Chime)
- The guard time clears `button_pressed` (`smart_bell.cpp:152`). When it returns
  over a button that is held, the same press is an event again afterwards. (Chime)
- The comment at `smart_bell.cpp:167` asks for a real edge; the code tests a
  level, so a button held since power-up counts when the guard ends. (Chime)
- A PINGREQ does not count as activity (`MinimalMQTT.cpp:449`), although
  `MinimalMQTT.h:167` calls `last_activity_` "millis() of last send/recv".
  (MqttKeepalive)
- A save that is interrupted leaves a mixture that the magic number declares
  valid (`LightweightConfig.cpp:187`, "0xBEEFCAFE if valid"
  `LightweightConfig.h:35`); `SavedComesBack` excludes it by `torn`. The
  "One-time migration path" (`LightweightConfig.cpp:173`) is taken again when a
  torn record is invalid: the record of the old firmware comes back. (Settings)
- `reset` leaves the topics alone (`LightweightConfig.cpp:127`), while the help
  (`flash_strings.c:16`) says "Load factory defaults". (Settings)
- A zero that `getSn_RX_RSR` puts together from two readings is not confirmed by
  a second one (`w5500.c:214`). If the peer has closed in between, `recv()`
  takes the buffer for empty and closes the socket over the unread bytes.
  `SizeReal` names the exception. (W5500Buffers)
- Texts and tests that differ from the code: one subscription
  (`tests/MQTT/MinimalMQTT_test.cpp:211`, `README.md:919`) against two slots; a
  reconnect every 30 s (`README.md:438`, `:917`) against 5 s; topics of 24
  characters against a console line of 31 (`smart_bell.cpp:404`).

The chip's set-up (ChipSetup):

- `_WIZCHIP_SOCK_NUM_` is 2 (`wizchip_conf.h:232`) on a chip with eight sockets.
  `ctlwizchip` looks for the RX sizes behind two entries (`wizchip_conf.c:299`),
  so the table of `init()` gives sockets 0 and 1 a receive buffer of 1 KB each,
  not "Socket 0: 4KB TX/RX, remaining sockets: 1KB each"
  (`W5500Interface.cpp:60`). The other six keep 2 KB: 17 KB to send in all, more
  than the 16 KB that `w5500.h:591` allows. `BuffersAssigned` states these sizes.
- `soft_reset()` leaves `initialized_` TRUE: a later `init()` does nothing, and
  the buffers stay at 2 KB, which `BuffersAssigned` states as well.
- `wizchip_setnetmode` can only add modes; `wizphy_setphypmode` at normal power
  sets auto-negotiation, whatever was configured, and fails for a PHY configured
  by its pins.
- A third constructor of `W5500Interface` is declared and not defined.

The earlier application (GongApp, MqttReconnect):

- A press and its release within one blocked `connect()` are no event; the first
  release of a button held at boot is none either. Failed publications are not
  repeated, and a gong sounds on while `connect()` blocks.
- The check for an octet above 255 in `parse_ip` cannot fail (`uint8_t`); a
  duration is parsed modulo 2^16.
- Configuration mode ends as soon as a broker is typed, the result of the save
  is ignored, and commands are only processed there and in `kRunning`: a wrong
  broker that was saved can never be corrected on the console.
- `GongController::init()` has no caller, `kError` is unreachable, two of the
  topics the handler knows are subscribed.
- A session lost in `subscribe()` or `unsubscribe()` is not noted, and nothing
  reconnects. `connect()` over a session whose network fails leaves
  `isconnected` set. `disconnect()` while a retry is pending does nothing
  (`MQTTClient.cpp:169`), and the retries go on; nor does it end a session that a
  second `init()` has hidden by resetting `status_`. `DisconnectSticks` states
  both. One callback serves all subscriptions, although the header
  speaks of one each. `resume()` turns the watchdog on even if it was off.
- The client uses socket 2, where the driver's arrays have two elements
  (`socket.c:85` compares with `>`).

Code no default build uses (not modelled): the buffered `SPI::send_` resets
`tx_rx_done` once for all bytes; `CircularBuffer::push_back` and `pop_front` both
change `num_entries_` (`CircularBuffer.h:32`), which makes it unsafe between an
interrupt and the program (`README.md:64` calls the queue interrupt-safe); the
polling `SPI::send` leaves SPIF set.

## 9. What is not modelled, and why

- The bytes of MQTT packets (lengths, topic strings): the client's control only
  depends on packet kinds, on the topic being one of two, and on where a buffer
  ends.
- The console's line editor, the tokenizer and all printed text.
- The send functions of `SPI.cpp`, polling or buffered, `CircularBuffer` and
  `EmbeddedSocketInterface`: nothing calls them.
- The interrupt masks of the chip, the socket calls the firmware never makes
  (`listen`, UDP, options), and set-up code that writes a hardware register of
  the microcontroller once.
- DHCP and DNS (headers without code) and the vendor's MQTT library (not in the
  repository; MqttReconnect takes its results as choices).
- The setters of `GongApp`'s other settings and the destructor of `MQTTClient`:
  they change nothing the rest depends on.

## 10. Plan

Done: UartRing, Chime, W5500Socket, W5500Buffers, MqttSession, MqttKeepalive,
Settings, SmartBell; the earlier application (GongApp, MqttReconnect); the
chip's set-up and the frame around an access (ChipSetup); proofs of the safety
properties of all of them.

Left, in this order:

1. Proofs between the modules: that `getSn_RX_RSR` and `getSn_TX_FSR` as
   W5500Buffers reads them give W5500Socket what it takes in one step.
2. `CircularBuffer` and the buffered SPI variant, should a build use them: the
   counter both sides change, against `ByteQueue`.
3. The console's line buffer between UartRing and Settings.

## 11. How to run it

```
tlc -workers 2 -config UartRing.cfg UartRing      # any run of section 4
tlc -workers 2 -config MqttTopics.cfg MqttSession
tlapm Chime_proofs.tla                            # and the other *_proofs
```
