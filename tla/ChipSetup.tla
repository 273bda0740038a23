----------------------------- MODULE ChipSetup -----------------------------
(***************************************************************************)
(* Setting up the W5500: the operations of W5500Interface.cpp and of       *)
(* wizchip_conf.c, down to the SPI frames of w5500.c.                      *)
(*                                                                         *)
(* A call is a list of steps, most of them an access of a register in the  *)
(* chip.  An access is one frame: chip select, a header with address and   *)
(* direction, the data, chip deselect.  Every byte is polled for in SPIF.  *)
(* Chip deselect switches the SPI interrupt on, for which the program has  *)
(* no handler, and chip select switches it off.                            *)
(*                                                                         *)
(* A burst of bytes counts as one; a register of several bytes is one      *)
(* value.  The calls are made in any order once init() has been called, as *)
(* main() does first.                                                      *)
(***************************************************************************)
EXTENDS Integers, Sequences, Functions

CONSTANTS
  Zero,          \* the address an unconfigured chip has
  Octets,        \* addresses that are configured
  NetModes,      \* netmode_type, what setnetmode() may be given
  Timeouts,      \* wiz_NetTimeout
  Default,       \* the timeout of a chip after reset
  Speeds,        \* 10 and 100 Mbit/s
  Duplexes,      \* "half" and "full"
  HasHardReset   \* a callback hard_reset was registered

ASSUME SetupAssumption ==
  /\ Zero \notin Octets /\ Default \notin Timeouts /\ "RST" \notin NetModes
  /\ Speeds \subseteq {10, 100} /\ Duplexes \subseteq {"half", "full"}
  /\ HasHardReset \in BOOLEAN

VARIABLES
  chip,         \* the registers of the W5500
  spif, spie,   \* SPIF in SPSR, SPIE in SPCR
  phase,        \* where the frame stands
  todo,         \* what is left of the running call
  local,        \* the local variables of wizchip_conf.c, one for each register
  info,         \* netInfo_
  registered,   \* the callbacks are registered with WIZCHIP
  initialized,  \* initialized_
  \* History.
  wanted,       \* the addresses and the PHY configuration asked for
  sized         \* init() has given out its sizes and no reset came since

setup_vars ==
  <<chip, spif, spie, phase, todo, local, info, registered, initialized, wanted, sized>>

-----------------------------------------------------------------------------
(* The chip. *)

\* In the order in which the code reads and writes them.
AddressSeq == <<"SHAR", "GAR", "SUBR", "SIPR">>
Addresses == Range(AddressSeq)

\* _WIZCHIP_SOCK_NUM_, and how many sockets the chip has.
SocketNum == 2
ChipSockets == 8

TxSizes == <<"Sn_TXBUF_SIZE(0)", "Sn_TXBUF_SIZE(1)">>
RxSizes == <<"Sn_RXBUF_SIZE(0)", "Sn_RXBUF_SIZE(1)">>
DefaultSize == 2

TimeoutRegisters == {"RTR", "RCR"}

\* PHYCFGR: RST (low is reset), OPMD and OPMDC.
PhyRegister == [up: BOOLEAN, by: {"HW", "SW"},
                op: {"ALLA", "PDOWN", "100F", "100H", "10F", "10H"}]
PhyDefault == [up |-> TRUE, by |-> "HW", op |-> "ALLA"]

Registers ==
  Addresses \cup Range(TxSizes) \cup Range(RxSizes) \cup TimeoutRegisters
    \cup {"MR", "PHYCFGR"}

\* All registers after a reset.
Blank ==
  [r \in Registers |-> CASE r \in Addresses -> Zero
                         [] r = "MR" -> {}
                         [] r \in TimeoutRegisters -> Default
                         [] r = "PHYCFGR" -> PhyDefault
                         [] OTHER -> DefaultSize]

\* A write to MR with RST initializes every register.
Written(r, v) == IF r = "MR" /\ "RST" \in v THEN Blank ELSE [chip EXCEPT ![r] = v]

-----------------------------------------------------------------------------
(* The steps of a call. *)

Read(r, to) == [do |-> "read", reg |-> r, at |-> to]
Write(r, v) == [do |-> "write", reg |-> r, val |-> v]
Back(r, from) == [do |-> "back", reg |-> r, at |-> from]    \* writes what was read
Change(r, v) == [do |-> "change", reg |-> r, val |-> v]     \* of a local variable
Modify(r, v) == [do |-> "modify", reg |-> r, val |-> v]     \* of netInfo_
Register == [do |-> "register"]
Initialized == [do |-> "initialized"]

Access(s) == s.do \in {"read", "write", "back"}

ReadAll(to) == [i \in DOMAIN AddressSeq |-> Read(AddressSeq[i], to)]
BackAll(from) == [i \in DOMAIN AddressSeq |-> Back(AddressSeq[i], from)]

\* Faulty variant: the addresses are not read before the reset.
SwReset_Forgets == <<Write("MR", {"RST"}), Read("MR", "local")>> \o BackAll("local")

\* wizchip_sw_reset()
SwReset ==
  ReadAll("local") \o <<Write("MR", {"RST"}), Read("MR", "local")>> \o BackAll("local")

\* memsize of init(), one row behind the other: TX, then RX.
MemSize == [i \in 0 .. 2 * ChipSockets - 1 |-> IF i % ChipSockets = 0 THEN 4 ELSE 1]

TxSize == [i \in 1 .. SocketNum |-> MemSize[i - 1]]
\* ctlwizchip() looks for the second row behind _WIZCHIP_SOCK_NUM_ sizes.
RxSize == [i \in 1 .. SocketNum |-> MemSize[SocketNum + i - 1]]

Fits(size) == FoldFunction(+, 0, size) <= 16
Sizes(registers, size) == [i \in 1 .. SocketNum |-> Write(registers[i], size[i])]

\* Faulty variant: the reset comes after the sizes.
WizchipInit_ResetsLast == Sizes(TxSizes, TxSize) \o Sizes(RxSizes, RxSize) \o SwReset

\* wizchip_init(): the sizes of TX are written before those of RX are looked at.
WizchipInit ==
  SwReset \o (IF Fits(TxSize) THEN Sizes(TxSizes, TxSize) ELSE <<>>)
          \o (IF Fits(TxSize) /\ Fits(RxSize) THEN Sizes(RxSizes, RxSize) ELSE <<>>)

InitSteps ==
  <<Register>> \o SwReset \o WizchipInit
               \o (IF Fits(TxSize) /\ Fits(RxSize) THEN <<Initialized>> ELSE <<>>)

\* wizchip_getnetinfo(), wizchip_setnetinfo(); DNS and DHCP are kept in memory.
GetNetInfo == ReadAll("info")
SetNetInfo == BackAll("info")

\* set_MAC(), set_IP(), set_subnet(), set_gateway()
SetAddress(r, v) == GetNetInfo \o <<Modify(r, v)>> \o SetNetInfo

\* wizchip_getnetmode(), wizchip_gettimeout(); wizphy_getphylink() and its like
\* all look at one register.
GetNetMode == <<Read("MR", "local")>>
GetTimeout == <<Read("RCR", "local"), Read("RTR", "local")>>
GetPhy == <<Read("PHYCFGR", "local")>>

\* wizchip_setnetmode(): a mode is only ever added.
SetNetMode(m) ==
  <<Read("MR", "local"), Change("MR", chip["MR"] \cup {m}), Back("MR", "local")>>

\* wizchip_settimeout()
SetTimeout(t) == <<Write("RCR", t), Write("RTR", t)>>

\* wizphy_reset(), for a register whose other bits are those of p.
PhyReset(p) ==
  <<Read("PHYCFGR", "local"), Change("PHYCFGR", [p EXCEPT !.up = FALSE]), Back("PHYCFGR", "local"),
    Read("PHYCFGR", "local"), Change("PHYCFGR", [p EXCEPT !.up = TRUE]), Back("PHYCFGR", "local")>>

\* wiz_PhyConf
PhyConf == [by: {"HW", "SW"}, mode: {"manual"}, speed: Speeds, duplex: Duplexes]
             \cup [by: {"HW", "SW"}, mode: {"auto"}, speed: {10}, duplex: {"half"}]

\* What wizphy_setphyconf() puts together; RST is not among it.
PhyBits(c) ==
  [up |-> FALSE, by |-> c.by,
   op |-> CASE c.mode = "auto" -> "ALLA"
            [] c.mode = "manual" /\ c.speed = 100 -> IF c.duplex = "full" THEN "100F" ELSE "100H"
            [] c.mode = "manual" /\ c.speed = 10 -> IF c.duplex = "full" THEN "10F" ELSE "10H"]

\* wizphy_setphyconf()
SetPhyConf(c) == <<Write("PHYCFGR", PhyBits(c))>> \o PhyReset(PhyBits(c))

\* wizphy_setphypmode(), which gives up when the PHY is configured by its pins.
SetPhyPower(op) ==
  LET p == [chip["PHYCFGR"] EXCEPT !.op = op]
  IN  <<Read("PHYCFGR", "local")>>
        \o (IF p.by = "SW"
              THEN <<Change("PHYCFGR", p), Back("PHYCFGR", "local")>> \o PhyReset(p)
                     \o <<Read("PHYCFGR", "local")>>
              ELSE <<>>)

\* wizphy_getphyconf()
ConfOf(p) ==
  [by |-> p.by,
   mode |-> IF p.op = "ALLA" THEN "auto" ELSE "manual",
   speed |-> IF p.op \in {"100F", "100H"} THEN 100 ELSE 10,
   duplex |-> IF p.op \in {"100F", "10F"} THEN "full" ELSE "half"]

-----------------------------------------------------------------------------

\* main() has pulsed the reset of the chip; the SPI is enabled, its interrupt
\* is not.
SetupInit ==
  /\ chip = Blank /\ spif = FALSE /\ spie = FALSE /\ phase = "idle" /\ todo = <<>>
  /\ local = Blank /\ info = [r \in Addresses |-> Zero]
  /\ registered = FALSE /\ initialized = FALSE
  /\ wanted = [addresses |-> info, phy |-> ConfOf(PhyDefault), down |-> FALSE]
  /\ sized = FALSE

AtRest == phase = "idle" /\ todo = <<>>

Bus == <<chip, spif, spie, phase, local, info, registered>>

\* init(), which does nothing the second time.
CallInit ==
  /\ AtRest
  /\ IF initialized THEN UNCHANGED <<todo, sized, wanted>>
     ELSE /\ todo' = InitSteps /\ sized' = TRUE
          /\ wanted' = [wanted EXCEPT !.phy = ConfOf(PhyDefault), !.down = FALSE]
  /\ UNCHANGED <<Bus, initialized>>

\* soft_reset(): buffers, modes, timeouts and the PHY lose their configuration.
CallSoftReset ==
  /\ AtRest /\ registered
  /\ todo' = SwReset /\ sized' = FALSE
  /\ wanted' = [wanted EXCEPT !.phy = ConfOf(PhyDefault), !.down = FALSE]
  /\ UNCHANGED <<Bus, initialized>>

\* hard_reset()
CallHardReset ==
  /\ AtRest
  /\ IF HasHardReset
       THEN /\ chip' = Blank
            /\ wanted' = [addresses |-> [r \in Addresses |-> Zero], phy |-> ConfOf(PhyDefault),
                          down |-> FALSE]
            /\ sized' = FALSE
       ELSE UNCHANGED <<chip, wanted, sized>>
  /\ initialized' = FALSE
  /\ UNCHANGED <<spif, spie, phase, todo, local, info, registered>>

CallSetAddress ==
  /\ AtRest /\ registered
  /\ \E r \in Addresses, v \in Octets :
       /\ todo' = SetAddress(r, v)
       /\ wanted' = [wanted EXCEPT !.addresses[r] = v]
  /\ UNCHANGED <<Bus, initialized, sized>>

\* ctlnetwork(), without the addresses; and what is only asked for.
CallNet ==
  /\ AtRest /\ registered
  /\ todo' \in {GetNetInfo, GetNetMode, GetTimeout, GetPhy}
                 \cup {SetNetMode(m) : m \in NetModes} \cup {SetTimeout(t) : t \in Timeouts}
  /\ UNCHANGED <<Bus, initialized, wanted, sized>>

\* CW_SET_PHYCONF
CallSetPhyConf ==
  /\ AtRest /\ registered
  /\ \E c \in PhyConf :
       /\ todo' = SetPhyConf(c)
       /\ wanted' = [wanted EXCEPT !.phy = c, !.down = FALSE]
  /\ UNCHANGED <<Bus, initialized, sized>>

\* CW_SET_PHYPOWMODE: normal power means auto-negotiation.
CallSetPhyPower ==
  /\ AtRest /\ registered
  /\ \E down \in BOOLEAN :
       LET op == IF down THEN "PDOWN" ELSE "ALLA"
           conf == ConfOf([PhyDefault EXCEPT !.by = "SW", !.op = op])
       IN  /\ todo' = SetPhyPower(op)
           /\ wanted' = IF wanted.phy.by = "HW" THEN wanted
                        ELSE [wanted EXCEPT !.phy = conf, !.down = down]
  /\ UNCHANGED <<Bus, initialized, sized>>

-----------------------------------------------------------------------------

\* A step that needs no access.
Compute ==
  /\ phase = "idle" /\ todo # <<>> /\ ~Access(Head(todo))
  /\ LET s == Head(todo)
     IN  /\ local' = IF s.do = "change" THEN [local EXCEPT ![s.reg] = s.val] ELSE local
         /\ info' = IF s.do = "modify" THEN [info EXCEPT ![s.reg] = s.val] ELSE info
         /\ registered' = (registered \/ s.do = "register")
         /\ initialized' = (initialized \/ s.do = "initialized")
  /\ todo' = Tail(todo)
  /\ UNCHANGED <<chip, spif, spie, phase, wanted, sized>>

\* chip_select()
Select ==
  /\ phase = "idle" /\ todo # <<>> /\ Access(Head(todo))
  /\ spie' = FALSE /\ phase' = "header"
  /\ UNCHANGED <<chip, spif, todo, local, info, registered, initialized, wanted, sized>>

\* SPDR is written, and SPIF polled until the bytes are through.
Shift ==
  /\ phase \in {"header", "data"}
  /\ spif' = TRUE
  /\ phase' = IF phase = "header" THEN "headerOut" ELSE "dataOut"
  /\ UNCHANGED <<chip, spie, todo, local, info, registered, initialized, wanted, sized>>

\* SPDR is read, which clears SPIF.
HeaderTaken ==
  /\ phase = "headerOut"
  /\ spif' = FALSE /\ phase' = "data"
  /\ UNCHANGED <<chip, spie, todo, local, info, registered, initialized, wanted, sized>>

\* Faulty variant: SPDR is read for its value only.
Cleared_OnRead(s) == spif' = (s.do # "read")

Cleared(s) == spif' = FALSE

DataTaken ==
  /\ phase = "dataOut"
  /\ phase' = "end"
  /\ LET s == Head(todo)
     IN  /\ Cleared(s)
         /\ chip' = CASE s.do = "read" -> chip
                      [] s.do = "write" -> Written(s.reg, s.val)
                      [] s.do = "back" ->
                           Written(s.reg, IF s.at = "info" THEN info[s.reg] ELSE local[s.reg])
         /\ local' = IF s.do = "read" /\ s.at = "local"
                       THEN [local EXCEPT ![s.reg] = chip[s.reg]] ELSE local
         /\ info' = IF s.do = "read" /\ s.at = "info"
                      THEN [info EXCEPT ![s.reg] = chip[s.reg]] ELSE info
  /\ UNCHANGED <<spie, todo, registered, initialized, wanted, sized>>

\* chip_deselect(); with the last step the local variables are gone.
Deselect ==
  /\ phase = "end"
  /\ spie' = TRUE /\ phase' = "idle" /\ todo' = Tail(todo)
  /\ local' = IF Len(todo) = 1 THEN Blank ELSE local
  /\ UNCHANGED <<chip, spif, info, registered, initialized, wanted, sized>>

SetupNext ==
  \/ CallInit \/ CallSoftReset \/ CallHardReset \/ CallSetAddress \/ CallNet
  \/ CallSetPhyConf \/ CallSetPhyPower
  \/ Compute \/ Select \/ Shift \/ HeaderTaken \/ DataTaken \/ Deselect

SetupSpec == SetupInit /\ [][SetupNext]_setup_vars

-----------------------------------------------------------------------------
(* Properties. *)

SetupTypeOK ==
  /\ \A r \in Addresses : chip[r] \in Octets \cup {Zero} /\ info[r] \in Octets \cup {Zero}
  /\ chip["MR"] \subseteq NetModes /\ chip["PHYCFGR"] \in PhyRegister
  /\ \A r \in TimeoutRegisters : chip[r] \in Timeouts \cup {Default}
  /\ \A r \in Range(TxSizes) \cup Range(RxSizes) : chip[r] \in {1, 2, 4, 8, 16}
  /\ phase \in {"idle", "header", "headerOut", "data", "dataOut", "end"}
  /\ {spif, spie, registered, initialized, sized} \subseteq BOOLEAN

\* The SPI interrupt, which has no handler, never fires: SPIF is clear whenever
\* SPIE is set.  No frame is sent before the callbacks are registered.
NoStrayInterrupt == ~(spie /\ spif) /\ (phase # "idle" => registered)

\* The chip has the addresses that were set: a reset has kept them, and no
\* setter has touched the others.
AddressesKept == \A r \in Addresses : chip[r] = wanted.addresses[r]

\* The PHY is out of reset and works as it was asked to.
PhyAsConfigured ==
  /\ chip["PHYCFGR"].up
  /\ ConfOf(chip["PHYCFGR"]) = wanted.phy
  /\ (chip["PHYCFGR"].op = "PDOWN") = wanted.down

\* Between two calls addresses and PHY are as they were configured, whatever
\* setters and resets came in between.
ChipAsConfigured == SetupTypeOK /\ (AtRest => AddressesKept /\ PhyAsConfigured)

\* What all sockets of the chip together take of its memory for one direction.
Taken(registers) ==
  chip[registers[1]] + chip[registers[2]] + (ChipSockets - SocketNum) * DefaultSize

\* The memory, of 16 KB in either direction, after any calls.  init() gives
\* socket 0 its 4 KB to send but only 1 KB to receive, against the comment
\* "4KB TX/RX", and all sockets together 17 KB to send.  A reset brings back 2 KB
\* for each; after soft_reset() that is so for good, as a later init() does
\* nothing.
BuffersAssigned ==
  AtRest =>
    /\ chip["Sn_TXBUF_SIZE(0)"] = IF sized THEN 4 ELSE DefaultSize
    /\ chip["Sn_RXBUF_SIZE(0)"] = IF sized THEN 1 ELSE DefaultSize
    /\ Taken(TxSizes) = IF sized THEN 17 ELSE 16
    /\ Taken(RxSizes) = IF sized THEN 14 ELSE 16
=============================================================================
