-------------------------- MODULE W5500Chip_proofs --------------------------
(***************************************************************************)
(* The W5500 as the program reaches it.  First ChipSetup, in every order   *)
(* of calls: the SPI interrupt, which the program has no handler for, is   *)
(* never raised, no frame is sent before the callbacks are registered, and *)
(* between two calls addresses and PHY are as they were asked for, and     *)
(* buffers are what init() or a reset gives.  Then W5500Buffers: the sizes *)
(* that are read byte by byte are real, what is sent stays as it was given *)
(* until it is acknowledged, and the receive buffer is a queue, for any    *)
(* width of the registers and pointers and any size of the buffers that    *)
(* SizeAssumption admits.                                                  *)
(***************************************************************************)
EXTENDS ChipSetup, W5500Buffers, SequenceTheorems, TLAPS

-----------------------------------------------------------------------------
(* The steps there are. *)

LEMMA RegisterNames ==
  /\ DOMAIN AddressSeq = 1 .. 4
  /\ AddressSeq[1] = "SHAR" /\ AddressSeq[2] = "GAR" /\ AddressSeq[3] = "SUBR"
  /\ AddressSeq[4] = "SIPR"
  /\ Addresses = {"SHAR", "GAR", "SUBR", "SIPR"}
  /\ Range(TxSizes) = {"Sn_TXBUF_SIZE(0)", "Sn_TXBUF_SIZE(1)"}
  /\ Range(RxSizes) = {"Sn_RXBUF_SIZE(0)", "Sn_RXBUF_SIZE(1)"}
  /\ Registers = {"SHAR", "GAR", "SUBR", "SIPR", "Sn_TXBUF_SIZE(0)", "Sn_TXBUF_SIZE(1)",
                  "Sn_RXBUF_SIZE(0)", "Sn_RXBUF_SIZE(1)", "RTR", "RCR", "MR", "PHYCFGR"}
<1>1. /\ DOMAIN AddressSeq = 1 .. 4
      /\ AddressSeq[1] = "SHAR" /\ AddressSeq[2] = "GAR" /\ AddressSeq[3] = "SUBR"
      /\ AddressSeq[4] = "SIPR"
  BY DEF AddressSeq
<1>2. \A x : x \in 1 .. 4 <=> x \in {1, 2, 3, 4}
  OBVIOUS
<1>3. Addresses = {"SHAR", "GAR", "SUBR", "SIPR"}
  <2>1. Addresses = {AddressSeq[i] : i \in {1, 2, 3, 4}}
    BY <1>1, <1>2 DEF Addresses, Range
  <2> QED  BY <2>1, <1>1
<1>4. \A a, b : Range(<<a, b>>) = {a, b}
  <2> SUFFICES ASSUME NEW a, NEW b PROVE Range(<<a, b>>) = {a, b}
    OBVIOUS
  <2>1. DOMAIN <<a, b>> = {1, 2} /\ <<a, b>>[1] = a /\ <<a, b>>[2] = b
    OBVIOUS
  <2> QED  BY <2>1 DEF Range
<1>5. /\ Range(TxSizes) = {"Sn_TXBUF_SIZE(0)", "Sn_TXBUF_SIZE(1)"}
      /\ Range(RxSizes) = {"Sn_RXBUF_SIZE(0)", "Sn_RXBUF_SIZE(1)"}
  BY <1>4 DEF TxSizes, RxSizes
<1>6. Registers = {"SHAR", "GAR", "SUBR", "SIPR", "Sn_TXBUF_SIZE(0)", "Sn_TXBUF_SIZE(1)",
                   "Sn_RXBUF_SIZE(0)", "Sn_RXBUF_SIZE(1)", "RTR", "RCR", "MR", "PHYCFGR"}
  BY <1>3, <1>5 DEF Registers, TimeoutRegisters
<1> QED  BY <1>1, <1>3, <1>5, <1>6

\* What a register may hold.
RegisterValue(r) ==
  CASE r \in Addresses -> Octets \cup {Zero}
    [] r = "MR" -> SUBSET NetModes
    [] r \in TimeoutRegisters -> Timeouts \cup {Default}
    [] r = "PHYCFGR" -> PhyRegister
    [] OTHER -> {1, 2, 4}

\* What the calls consist of.  Only addresses are kept in netInfo_, and the
\* only write that resets the chip is that of wizchip_sw_reset().
PlainSteps == {Register, Write("MR", {"RST"})}
ReadSteps == {Read(r, "local") : r \in Registers} \cup {Read(r, "info") : r \in Addresses}
BackSteps == {Back(r, "local") : r \in Registers} \cup {Back(r, "info") : r \in Addresses}
WriteSteps == UNION {{Write(r, v) : v \in RegisterValue(r)} : r \in Registers}
ChangeSteps == UNION {{Change(r, v) : v \in RegisterValue(r)} : r \in Registers}
ModifySteps == {Modify(r, v) : r \in Addresses, v \in Octets}

CallStep ==
  PlainSteps \cup ReadSteps \cup BackSteps \cup WriteSteps \cup ChangeSteps \cup ModifySteps

\* Only init() marks the chip as initialized.
SetupStep == CallStep \cup {Initialized}

LEMMA StepsOf ==
  /\ Register \in CallStep /\ Write("MR", {"RST"}) \in CallStep
  /\ \A r \in Registers : Read(r, "local") \in CallStep /\ Back(r, "local") \in CallStep
  /\ \A r \in Addresses : Read(r, "info") \in CallStep /\ Back(r, "info") \in CallStep
  /\ \A r \in Registers : \A v \in RegisterValue(r) :
       Write(r, v) \in CallStep /\ Change(r, v) \in CallStep
  /\ \A r \in Addresses : \A v \in Octets : Modify(r, v) \in CallStep
<1>1. Register \in PlainSteps /\ Write("MR", {"RST"}) \in PlainSteps
  BY DEF PlainSteps
<1>2. /\ \A r \in Registers : Read(r, "local") \in ReadSteps
      /\ \A r \in Addresses : Read(r, "info") \in ReadSteps
  BY DEF ReadSteps
<1>3. /\ \A r \in Registers : Back(r, "local") \in BackSteps
      /\ \A r \in Addresses : Back(r, "info") \in BackSteps
  BY DEF BackSteps
<1>4. ASSUME NEW r \in Registers, NEW v \in RegisterValue(r) PROVE Write(r, v) \in WriteSteps
  <2>1. Write(r, v) \in {Write(r, w) : w \in RegisterValue(r)}
    OBVIOUS
  <2> QED  BY <2>1 DEF WriteSteps
<1>5. ASSUME NEW r \in Registers, NEW v \in RegisterValue(r) PROVE Change(r, v) \in ChangeSteps
  <2>1. Change(r, v) \in {Change(r, w) : w \in RegisterValue(r)}
    OBVIOUS
  <2> QED  BY <2>1 DEF ChangeSteps
<1>6. \A r \in Addresses : \A v \in Octets : Modify(r, v) \in ModifySteps
  BY DEF ModifySteps
<1> QED  BY <1>1, <1>2, <1>3, <1>4, <1>5, <1>6, Zenon DEF CallStep

LEMMA StepCases ==
  \A s \in SetupStep :
    \/ s = Register
    \/ s = Initialized
    \/ s = Write("MR", {"RST"})
    \/ \E r \in Registers : s = Read(r, "local")
    \/ \E r \in Registers : s = Back(r, "local")
    \/ \E r \in Addresses : s = Read(r, "info")
    \/ \E r \in Addresses : s = Back(r, "info")
    \/ \E r \in Registers : \E v \in RegisterValue(r) : s = Write(r, v)
    \/ \E r \in Registers : \E v \in RegisterValue(r) : s = Change(r, v)
    \/ \E r \in Addresses : \E v \in Octets : s = Modify(r, v)
<1> SUFFICES ASSUME NEW s \in SetupStep
             PROVE  \/ s = Register
                    \/ s = Initialized
                    \/ s = Write("MR", {"RST"})
                    \/ \E r \in Registers : s = Read(r, "local")
                    \/ \E r \in Registers : s = Back(r, "local")
                    \/ \E r \in Addresses : s = Read(r, "info")
                    \/ \E r \in Addresses : s = Back(r, "info")
                    \/ \E r \in Registers : \E v \in RegisterValue(r) : s = Write(r, v)
                    \/ \E r \in Registers : \E v \in RegisterValue(r) : s = Change(r, v)
                    \/ \E r \in Addresses : \E v \in Octets : s = Modify(r, v)
  OBVIOUS
<1>1. CASE s \in PlainSteps
  BY <1>1, Zenon DEF PlainSteps
<1>2. CASE s \in ReadSteps
  BY <1>2, Zenon DEF ReadSteps
<1>3. CASE s \in BackSteps
  BY <1>3, Zenon DEF BackSteps
<1>4. CASE s \in WriteSteps
  <2>1. \E r \in Registers : \E v \in RegisterValue(r) : s = Write(r, v)
    BY <1>4 DEF WriteSteps
  <2> QED  BY <2>1
<1>5. CASE s \in ChangeSteps
  <2>1. \E r \in Registers : \E v \in RegisterValue(r) : s = Change(r, v)
    BY <1>5 DEF ChangeSteps
  <2> QED  BY <2>1
<1>6. CASE s \in ModifySteps
  <2>1. \E r \in Addresses : \E v \in Octets : s = Modify(r, v)
    BY <1>6 DEF ModifySteps
  <2> QED  BY <2>1
<1>7. s \in CallStep \/ s = Initialized
  BY DEF SetupStep
<1> QED  BY <1>1, <1>2, <1>3, <1>4, <1>5, <1>6, <1>7, Zenon DEF CallStep

LEMMA CallSteps ==
  \A q \in Seq(CallStep) : q \in Seq(SetupStep) /\ \A i \in 1 .. Len(q) : q[i] # Initialized
<1>1. Initialized \notin CallStep
  <2> SUFFICES ASSUME Initialized \in CallStep PROVE FALSE
    OBVIOUS
  <2>1. \A s \in CallStep : s.do # "initialized"
    <3>1. \A s \in PlainSteps : s.do # "initialized"
      BY DEF PlainSteps, Register, Write
    <3>2. \A s \in ReadSteps \cup BackSteps : s.do # "initialized"
      BY DEF ReadSteps, BackSteps, Read, Back
    <3>3. \A s \in WriteSteps : s.do # "initialized"
      BY DEF WriteSteps, Write
    <3>4. \A s \in ChangeSteps : s.do # "initialized"
      BY DEF ChangeSteps, Change
    <3>5. \A s \in ModifySteps : s.do # "initialized"
      BY DEF ModifySteps, Modify
    <3> QED  BY <3>1, <3>2, <3>3, <3>4, <3>5, Zenon DEF CallStep
  <2>2. Initialized.do = "initialized"
    BY DEF Initialized
  <2> QED  BY <2>1, <2>2
<1>2. \A q \in Seq(CallStep) : q \in Seq(SetupStep) /\ \A i \in 1 .. Len(q) : q[i] \in CallStep
  BY DEF SetupStep
<1> QED  BY <1>1, <1>2

LEMMA ValuesOf ==
  /\ \A r \in Addresses : RegisterValue(r) = Octets \cup {Zero}
  /\ RegisterValue("MR") = SUBSET NetModes
  /\ RegisterValue("RTR") = Timeouts \cup {Default}
  /\ RegisterValue("RCR") = Timeouts \cup {Default}
  /\ RegisterValue("PHYCFGR") = PhyRegister
  /\ \A r \in Range(TxSizes) \cup Range(RxSizes) : RegisterValue(r) = {1, 2, 4}
<1>1. \A r \in Addresses : RegisterValue(r) = Octets \cup {Zero}
  BY RegisterNames DEF RegisterValue, TimeoutRegisters
<1>2. RegisterValue("MR") = SUBSET NetModes
  BY RegisterNames DEF RegisterValue, TimeoutRegisters
<1>3. /\ RegisterValue("RTR") = Timeouts \cup {Default}
      /\ RegisterValue("RCR") = Timeouts \cup {Default}
  BY RegisterNames DEF RegisterValue, TimeoutRegisters
<1>4. RegisterValue("PHYCFGR") = PhyRegister
  BY RegisterNames DEF RegisterValue, TimeoutRegisters
<1>5. \A r \in Range(TxSizes) \cup Range(RxSizes) : RegisterValue(r) = {1, 2, 4}
  BY RegisterNames DEF RegisterValue, TimeoutRegisters
<1> QED  BY <1>1, <1>2, <1>3, <1>4, <1>5

LEMMA BlankValues ==
  /\ \A r \in Addresses : Blank[r] = Zero
  /\ Blank["MR"] = {} /\ Blank["RTR"] = Default /\ Blank["RCR"] = Default
  /\ Blank["PHYCFGR"] = PhyDefault
  /\ \A r \in Range(TxSizes) \cup Range(RxSizes) : Blank[r] = 2
  /\ Blank = [r \in Registers |-> Blank[r]]
  /\ \A r \in Registers : Blank[r] \in RegisterValue(r)
<1>1. \A r \in Addresses : Blank[r] = Zero
  BY RegisterNames DEF Blank, TimeoutRegisters
<1>2. Blank["MR"] = {} /\ Blank["RTR"] = Default /\ Blank["RCR"] = Default
  BY RegisterNames DEF Blank, TimeoutRegisters
<1>3. Blank["PHYCFGR"] = PhyDefault
  BY RegisterNames DEF Blank, TimeoutRegisters
<1>4. \A r \in Range(TxSizes) \cup Range(RxSizes) : Blank[r] = 2
  BY RegisterNames DEF Blank, TimeoutRegisters, DefaultSize
<1>5. Blank = [r \in Registers |-> Blank[r]]
  BY DEF Blank
<1>6. PhyDefault \in PhyRegister
  BY DEF PhyDefault, PhyRegister
<1>7. \A r \in Registers : r \in Addresses \cup Range(TxSizes) \cup Range(RxSizes)
                                 \cup {"MR", "RTR", "RCR", "PHYCFGR"}
  BY DEF Registers, TimeoutRegisters
<1>8. \A r \in Registers : Blank[r] \in RegisterValue(r)
  BY <1>1, <1>2, <1>3, <1>4, <1>6, <1>7, ValuesOf
<1> QED  BY <1>1, <1>2, <1>3, <1>4, <1>5, <1>8

\* The lists the calls are put together from.
LEMMA AllSteps ==
  \A at \in {"local", "info"} :
    /\ ReadAll(at) \in Seq(CallStep) /\ BackAll(at) \in Seq(CallStep)
    /\ Len(ReadAll(at)) = 4 /\ Len(BackAll(at)) = 4
    /\ \A i \in 1 .. 4 : /\ ReadAll(at)[i] = Read(AddressSeq[i], at)
                         /\ BackAll(at)[i] = Back(AddressSeq[i], at)
<1> SUFFICES ASSUME NEW at \in {"local", "info"}
             PROVE  /\ ReadAll(at) \in Seq(CallStep) /\ BackAll(at) \in Seq(CallStep)
                    /\ Len(ReadAll(at)) = 4 /\ Len(BackAll(at)) = 4
                    /\ \A i \in 1 .. 4 : /\ ReadAll(at)[i] = Read(AddressSeq[i], at)
                                         /\ BackAll(at)[i] = Back(AddressSeq[i], at)
  OBVIOUS
<1>1. \A i \in 1 .. 4 : AddressSeq[i] \in Addresses /\ AddressSeq[i] \in Registers
  <2>1. \A i \in 1 .. 4 : i = 1 \/ i = 2 \/ i = 3 \/ i = 4
    OBVIOUS
  <2> QED  BY <2>1, RegisterNames
<1>2. \A i \in 1 .. 4 : /\ Read(AddressSeq[i], at) \in CallStep
                        /\ Back(AddressSeq[i], at) \in CallStep
  <2>1. at = "local" \/ at = "info"
    OBVIOUS
  <2> QED  BY <2>1, <1>1, StepsOf
<1>3. /\ ReadAll(at) = [i \in 1 .. 4 |-> Read(AddressSeq[i], at)]
      /\ BackAll(at) = [i \in 1 .. 4 |-> Back(AddressSeq[i], at)]
  BY RegisterNames DEF ReadAll, BackAll
<1>4. ReadAll(at) \in [1 .. 4 -> CallStep] /\ BackAll(at) \in [1 .. 4 -> CallStep]
  BY <1>2, <1>3
<1>5. ReadAll(at) \in Seq(CallStep) /\ BackAll(at) \in Seq(CallStep)
  BY <1>4, SeqDef
<1>6. Len(ReadAll(at)) = 4 /\ Len(BackAll(at)) = 4
  BY <1>3
<1> QED  BY <1>3, <1>5, <1>6

LEMMA SwResetSteps ==
  /\ <<Write("MR", {"RST"}), Read("MR", "local")>> \in Seq(CallStep)
  /\ ReadAll("local") \o <<Write("MR", {"RST"}), Read("MR", "local")>> \in Seq(CallStep)
  /\ SwReset \in Seq(CallStep)
<1>1. <<Write("MR", {"RST"}), Read("MR", "local")>> \in Seq(CallStep)
  <2>1. Write("MR", {"RST"}) \in CallStep /\ Read("MR", "local") \in CallStep
    BY StepsOf, RegisterNames
  <2> QED  BY <2>1
<1>2. ReadAll("local") \in Seq(CallStep) /\ BackAll("local") \in Seq(CallStep)
  BY AllSteps
<1>3. ReadAll("local") \o <<Write("MR", {"RST"}), Read("MR", "local")>> \in Seq(CallStep)
  BY <1>1, <1>2, ConcatProperties
<1> QED  BY <1>1, <1>2, <1>3, ConcatProperties DEF SwReset

\* The sizes that init() writes: socket 0 sends from 4 KB, both receive into 1.
LEMMA SizesWritten ==
  /\ TxSize[1] = 4 /\ TxSize[2] = 1 /\ RxSize[1] = 1 /\ RxSize[2] = 1
  /\ Sizes(TxSizes, TxSize) \in Seq(CallStep) /\ Sizes(RxSizes, RxSize) \in Seq(CallStep)
  /\ Sizes(TxSizes, TxSize) = <<Write("Sn_TXBUF_SIZE(0)", 4), Write("Sn_TXBUF_SIZE(1)", 1)>>
  /\ Sizes(RxSizes, RxSize) = <<Write("Sn_RXBUF_SIZE(0)", 1), Write("Sn_RXBUF_SIZE(1)", 1)>>
<1>1. \A i \in 0 .. 15 : MemSize[i] = IF i % 8 = 0 THEN 4 ELSE 1
  BY DEF MemSize, ChipSockets
<1>2. TxSize[1] = 4 /\ TxSize[2] = 1 /\ RxSize[1] = 1 /\ RxSize[2] = 1
  <2>1. TxSize[1] = MemSize[0] /\ TxSize[2] = MemSize[1]
    BY DEF TxSize, SocketNum
  <2>2. RxSize[1] = MemSize[2] /\ RxSize[2] = MemSize[3]
    BY DEF RxSize, SocketNum
  <2>3. MemSize[0] = 4 /\ MemSize[1] = 1 /\ MemSize[2] = 1 /\ MemSize[3] = 1
    BY <1>1
  <2> QED  BY <2>1, <2>2, <2>3
<1>3. \A f, g : Sizes(f, g) = <<Write(f[1], g[1]), Write(f[2], g[2])>>
  <2> SUFFICES ASSUME NEW f, NEW g PROVE Sizes(f, g) = <<Write(f[1], g[1]), Write(f[2], g[2])>>
    OBVIOUS
  <2> DEFINE w(i) == Write(f[i], g[i])
  <2>1. Sizes(f, g) = [i \in 1 .. 2 |-> w(i)]
    BY DEF Sizes, SocketNum
  <2> HIDE DEF w
  <2>2. [i \in 1 .. 2 |-> w(i)] = <<w(1), w(2)>>
    OBVIOUS
  <2> QED  BY <2>1, <2>2 DEF w
<1>4. /\ Sizes(TxSizes, TxSize) = <<Write("Sn_TXBUF_SIZE(0)", 4), Write("Sn_TXBUF_SIZE(1)", 1)>>
      /\ Sizes(RxSizes, RxSize) = <<Write("Sn_RXBUF_SIZE(0)", 1), Write("Sn_RXBUF_SIZE(1)", 1)>>
  <2>1. TxSizes[1] = "Sn_TXBUF_SIZE(0)" /\ TxSizes[2] = "Sn_TXBUF_SIZE(1)"
    BY DEF TxSizes
  <2>2. RxSizes[1] = "Sn_RXBUF_SIZE(0)" /\ RxSizes[2] = "Sn_RXBUF_SIZE(1)"
    BY DEF RxSizes
  <2> QED  BY <2>1, <2>2, <1>2, <1>3
<1>5. /\ Write("Sn_TXBUF_SIZE(0)", 4) \in CallStep /\ Write("Sn_TXBUF_SIZE(1)", 1) \in CallStep
      /\ Write("Sn_RXBUF_SIZE(0)", 1) \in CallStep /\ Write("Sn_RXBUF_SIZE(1)", 1) \in CallStep
  <2>1. \A r \in Range(TxSizes) \cup Range(RxSizes) :
          r \in Registers /\ 1 \in RegisterValue(r) /\ 4 \in RegisterValue(r)
    BY ValuesOf, RegisterNames
  <2> QED  BY <2>1, RegisterNames, StepsOf
<1>6. \A a, b \in CallStep : <<a, b>> \in Seq(CallStep)
  OBVIOUS
<1> QED  BY <1>2, <1>4, <1>5, <1>6

LEMMA WizchipInitSteps ==
  /\ WizchipInit \in Seq(CallStep)
  /\ SwReset \o (IF Fits(TxSize) THEN Sizes(TxSizes, TxSize) ELSE <<>>) \in Seq(CallStep)
<1>1. <<>> \in Seq(CallStep)
  OBVIOUS
<1>2. SwReset \o (IF Fits(TxSize) THEN Sizes(TxSizes, TxSize) ELSE <<>>) \in Seq(CallStep)
  BY <1>1, SizesWritten, SwResetSteps, ConcatProperties
<1> QED  BY <1>1, <1>2, SizesWritten, ConcatProperties DEF WizchipInit

\* What init() ends with.
\* A table of two sizes fits when their sum does.
LEMMA FitOfTwo ==
  ASSUME NEW f, DOMAIN f = {1, 2}, f[1] \in Int, f[2] \in Int
  PROVE  Fits(f) <=> f[1] + f[2] <= 16
<1> DEFINE D == {1, 2}
           First(s) == CHOOSE x \in s : TRUE
           Rule(g) == g = [s \in SUBSET D |->
                             IF s = {} THEN 0
                             ELSE LET x == First(s) IN f[x] + g[s \ {x}]]
           w == [s \in SUBSET D |-> IF s = {} THEN 0
                                    ELSE IF s = {1} THEN f[1]
                                    ELSE IF s = {2} THEN f[2] ELSE f[1] + f[2]]
           fold == CHOOSE g : Rule(g)
<1>1. \A s \in SUBSET D : s = {} \/ s = {1} \/ s = {2} \/ s = D
  OBVIOUS
<1>2. /\ First({1}) = 1 /\ First({2}) = 2 /\ First(D) \in D
  OBVIOUS
<1>3. Rule(w)
  <2>1. w[{}] = 0 /\ w[{1}] = f[1] /\ w[{2}] = f[2]
    OBVIOUS
  <2>2. ASSUME NEW s \in SUBSET D
        PROVE  w[s] = IF s = {} THEN 0 ELSE LET x == First(s) IN f[x] + w[s \ {x}]
    <3>1. CASE s = {}
      BY <3>1
    <3>2. CASE s = {1}
      <4>1. s \ {1} = {}
        BY <3>2
      <4> QED  BY <3>2, <4>1, <1>2, <2>1
    <3>3. CASE s = {2}
      <4>1. s \ {2} = {}
        BY <3>3
      <4> QED  BY <3>3, <4>1, <1>2, <2>1
    <3>4. CASE s = D
      <4>1. D \ {1} = {2} /\ D \ {2} = {1} /\ D # {} /\ D # {1} /\ D # {2}
        OBVIOUS
      <4>2. w[D] = f[1] + f[2]
        BY <4>1
      <4>3. f[1] + w[D \ {1}] = f[1] + f[2] /\ f[2] + w[D \ {2}] = f[1] + f[2]
        BY <2>1, <4>1
      <4>4. First(D) = 1 \/ First(D) = 2
        BY <1>2
      <4>5. f[First(D)] + w[D \ {First(D)}] = f[1] + f[2]
        <5>1. CASE First(D) = 1
          BY ONLY <5>1, <4>3
        <5>2. CASE First(D) = 2
          BY ONLY <5>2, <4>3
        <5> QED  BY <5>1, <5>2, <4>4
      <4> QED  BY <3>4, <4>1, <4>2, <4>5
    <3> QED  BY <1>1, <3>1, <3>2, <3>3, <3>4
  <2> QED  BY <2>2
<1>4. Rule(fold)
  <2> HIDE DEF Rule, w
  <2> QED  BY <1>3
<1>5. Fits(f) <=> fold[D] <= 16
  BY DEF Fits, FoldFunction, FoldFunctionOnSet, MapThenFoldSet
<1> HIDE DEF fold
<1>6. fold[{}] = 0
  BY <1>4
<1>7. fold[{1}] = f[1] /\ fold[{2}] = f[2]
  <2>1. {1} \ {1} = {} /\ {2} \ {2} = {} /\ {1} # {} /\ {2} # {}
    OBVIOUS
  <2> QED  BY <1>2, <1>4, <1>6, <2>1
<1>8. fold[D] = f[1] + f[2]
  <2>1. D \ {1} = {2} /\ D \ {2} = {1} /\ D # {}
    OBVIOUS
  <2>2. fold[D] = f[First(D)] + fold[D \ {First(D)}]
    BY <1>4, <2>1
  <2>3. First(D) = 1 \/ First(D) = 2
    BY <1>2
  <2>4. ASSUME First(D) = 1 PROVE fold[D] = f[1] + f[2]
    <3>1. fold[D] = f[1] + fold[{2}]
      BY <2>1, <2>2, <2>4
    <3> QED  BY <3>1, <1>7
  <2>5. ASSUME First(D) = 2 PROVE fold[D] = f[1] + f[2]
    <3>1. fold[D] = f[2] + fold[{1}]
      BY <2>1, <2>2, <2>5
    <3> QED  BY <3>1, <1>7
  <2> QED  BY <2>3, <2>4, <2>5
<1> QED  BY <1>5, <1>8

\* So init() succeeds.
LEMMA TablesFit == Fits(TxSize) /\ Fits(RxSize)
<1>1. /\ DOMAIN TxSize = {1, 2} /\ TxSize[1] = 4 /\ TxSize[2] = 1
      /\ DOMAIN RxSize = {1, 2} /\ RxSize[1] = 1 /\ RxSize[2] = 1
  BY DEF TxSize, RxSize, MemSize, SocketNum, ChipSockets
<1> QED  BY <1>1, FitOfTwo

Mark == IF Fits(TxSize) /\ Fits(RxSize) THEN <<Initialized>> ELSE <<>>

\* W5500Interface::init() registers the callbacks before anything else, and
\* marks the chip last.
LEMMA RegisterFirst ==
  /\ InitSteps = ((<<Register>> \o SwReset) \o WizchipInit) \o Mark
  /\ <<Register>> \o SwReset \in Seq(CallStep)
  /\ (<<Register>> \o SwReset) \o WizchipInit \in Seq(CallStep)
  /\ Mark \in Seq(SetupStep) /\ InitSteps \in Seq(SetupStep)
  /\ InitSteps # <<>> /\ Head(InitSteps) = Register
  /\ Mark = <<>> => InitSteps \in Seq(CallStep)
<1> DEFINE Start == <<Register>> \o SwReset
<1>1. <<Register>> \in Seq(CallStep) /\ Mark \in Seq(SetupStep)
  <2>1. <<Register>> \in Seq(CallStep)
    BY StepsOf
  <2>2. <<Initialized>> \in Seq(SetupStep)
    <3>1. Initialized \in SetupStep
      BY DEF SetupStep
    <3> QED  BY <3>1
  <2> QED  BY <2>1, <2>2 DEF Mark
<1>2. Start \in Seq(CallStep) /\ Len(Start) > 0 /\ Start[1] = Register
  BY <1>1, SwResetSteps, ConcatProperties
<1> HIDE DEF Start
<1>3. /\ Start \o WizchipInit \in Seq(CallStep) /\ Len(Start \o WizchipInit) > 0
      /\ (Start \o WizchipInit)[1] = Register
  BY <1>2, WizchipInitSteps, ConcatProperties
<1>4. /\ (Start \o WizchipInit) \o Mark \in Seq(SetupStep)
      /\ Len((Start \o WizchipInit) \o Mark) > 0
      /\ ((Start \o WizchipInit) \o Mark)[1] = Register
  BY <1>1, <1>3, CallSteps, ConcatProperties
<1>5. InitSteps = (Start \o WizchipInit) \o Mark
  BY DEF InitSteps, Start, Mark
<1>6. Mark = <<>> => InitSteps \in Seq(CallStep)
  BY <1>3, <1>5, ConcatEmptySeq
<1> QED  BY <1>1, <1>2, <1>3, <1>4, <1>5, <1>6 DEF Start

-----------------------------------------------------------------------------
(* The inductive invariant. *)

\* The flag is only up while a byte is on its way to the program, the interrupt
\* only on between two frames; what comes first before the callbacks are
\* registered is to register them.
Inv ==
  /\ spie => phase = "idle"
  /\ spif => phase \in {"headerOut", "dataOut"}
  /\ phase # "idle" => registered
  /\ registered \/ todo = <<>> \/ Head(todo) = Register

LEMMA InvStep == Inv /\ [SetupNext]_setup_vars => Inv'
<1> SUFFICES ASSUME Inv, [SetupNext]_setup_vars PROVE Inv'
  OBVIOUS
<1> USE DEF Inv
<1>1. CASE CallInit
  <2>1. CASE initialized
    BY <1>1, <2>1 DEF CallInit, Bus
  <2>2. CASE ~initialized
    BY <1>1, <2>2, RegisterFirst DEF CallInit, Bus
  <2> QED  BY <2>1, <2>2
<1>2. CASE CallSoftReset \/ CallSetAddress \/ CallNet \/ CallSetPhyConf \/ CallSetPhyPower
  <2>1. registered /\ UNCHANGED <<phase, spif, spie, registered>>
    BY <1>2 DEF CallSoftReset, CallSetAddress, CallNet, CallSetPhyConf, CallSetPhyPower, Bus
  <2> QED  BY <2>1
<1>3. CASE CallHardReset
  BY <1>3 DEF CallHardReset
<1>4. CASE Compute
  <2>1. ~registered => Head(todo).do = "register"
    BY <1>4 DEF Compute, Register
  <2>2. registered' /\ UNCHANGED <<phase, spif, spie>>
    BY <1>4, <2>1 DEF Compute
  <2> QED  BY <2>2
<1>5. CASE Select
  <2>1. registered
    BY <1>5 DEF Select, Access, Register
  <2> QED  BY <1>5, <2>1 DEF Select
<1>6. CASE Shift
  BY <1>6 DEF Shift
<1>7. CASE HeaderTaken
  BY <1>7 DEF HeaderTaken
<1>8. CASE DataTaken
  BY <1>8 DEF DataTaken, Cleared
<1>9. CASE Deselect
  BY <1>9 DEF Deselect
<1>10. CASE UNCHANGED setup_vars
  BY <1>10 DEF setup_vars
<1> QED
  BY <1>1, <1>2, <1>3, <1>4, <1>5, <1>6, <1>7, <1>8, <1>9, <1>10 DEF SetupNext

-----------------------------------------------------------------------------

THEOREM SetupInvariance == SetupSpec => []Inv
<1>1. SetupInit => Inv
  BY DEF SetupInit, Inv
<1> QED  BY <1>1, InvStep, PTL DEF SetupSpec

\* chip_deselect() may switch the SPI interrupt on after every frame, since the
\* callbacks leave no flag behind (W5500Interface.cpp:93-123,
\* smart_bell.cpp:277-284).
THEOREM InterruptNeverStray == SetupSpec => []NoStrayInterrupt
<1>1. Inv => NoStrayInterrupt
  BY DEF Inv, NoStrayInterrupt
<1> QED  BY <1>1, SetupInvariance, PTL

-----------------------------------------------------------------------------
(* What a list of steps makes of a register. *)

\* A register and the two places where the program keeps a copy of it.
Copies(c, l, f) == [chip |-> c, local |-> l, info |-> f]

\* Step s, for register r.
After(r, s, m) ==
  Copies(IF s.do = "write" /\ s.reg = r THEN s.val
         ELSE IF s.do = "write" /\ s.reg = "MR" /\ "RST" \in s.val THEN Blank[r]
         ELSE IF s.do = "back" /\ s.reg = r THEN IF s.at = "info" THEN m.info ELSE m.local
         ELSE m.chip,
         IF s.do = "read" /\ s.reg = r /\ s.at = "local" THEN m.chip
         ELSE IF s.do = "change" /\ s.reg = r THEN s.val ELSE m.local,
         IF s.do = "read" /\ s.reg = r /\ s.at = "info" THEN m.chip
         ELSE IF s.do = "modify" /\ s.reg = r THEN s.val ELSE m.info)

\* The steps of q take r from m to n.
Runs(r, m, q, n) ==
  \E H : H[1] = m /\ H[Len(q) + 1] = n /\ \A i \in 1 .. Len(q) : H[i + 1] = After(r, q[i], H[i])

LEMMA RunNone == \A r, m, n : Runs(r, m, <<>>, n) <=> m = n
<1> SUFFICES ASSUME NEW r, NEW m, NEW n PROVE Runs(r, m, <<>>, n) <=> m = n
  OBVIOUS
<1>1. Len(<<>>) = 0 /\ \A i \in 1 .. 0 : FALSE
  OBVIOUS
<1>2. ASSUME m = n PROVE Runs(r, m, <<>>, n)
  <2> DEFINE H == [i \in 1 .. 1 |-> m]
  <2>1. H[1] = m /\ H[Len(<<>>) + 1] = n
    BY <1>1, <1>2
  <2> QED  BY <2>1, <1>1 DEF Runs
<1> QED  BY <1>1, <1>2 DEF Runs

LEMMA RunOne == \A r, m, s : Runs(r, m, <<s>>, After(r, s, m))
<1> SUFFICES ASSUME NEW r, NEW m, NEW s PROVE Runs(r, m, <<s>>, After(r, s, m))
  OBVIOUS
<1> DEFINE n == After(r, s, m)
           H == [i \in 1 .. 2 |-> IF i = 1 THEN m ELSE n]
<1> HIDE DEF n
<1>1. H[1] = m /\ H[2] = n
  OBVIOUS
<1> HIDE DEF H
<1>2. Len(<<s>>) = 1 /\ <<s>>[1] = s
  OBVIOUS
<1>3. \A i \in 1 .. 1 : H[i + 1] = After(r, <<s>>[i], H[i])
  BY <1>1, <1>2 DEF n
<1> QED  BY <1>1, <1>2, <1>3 DEF Runs, n

LEMMA RunJoin ==
  ASSUME NEW S, NEW q1 \in Seq(S), NEW q2 \in Seq(S), NEW r, NEW l, NEW m, NEW n,
         Runs(r, l, q1, m), Runs(r, m, q2, n)
  PROVE  Runs(r, l, q1 \o q2, n)
<1> DEFINE a == Len(q1)
           b == Len(q2)
<1>1. a \in Nat /\ b \in Nat /\ Len(q1 \o q2) = a + b
  BY ConcatProperties
<1>2. PICK F : F[1] = l /\ F[a + 1] = m /\ \A i \in 1 .. a : F[i + 1] = After(r, q1[i], F[i])
  BY DEF Runs
<1>3. PICK G : G[1] = m /\ G[b + 1] = n /\ \A i \in 1 .. b : G[i + 1] = After(r, q2[i], G[i])
  BY DEF Runs
<1>4. \A i \in 1 .. a + b : (q1 \o q2)[i] = IF i <= a THEN q1[i] ELSE q2[i - a]
  BY ConcatProperties
<1> HIDE DEF a, b
<1> DEFINE H == [i \in 1 .. a + b + 1 |-> IF i <= a THEN F[i] ELSE G[i - a]]
<1>5. /\ \A i \in 1 .. a + 1 : H[i] = F[i]
      /\ \A i \in a + 1 .. a + b + 1 : H[i] = G[i - a]
  <2>1. \A i \in 1 .. a + b + 1 : H[i] = IF i <= a THEN F[i] ELSE G[i - a]
    OBVIOUS
  <2> HIDE DEF H
  <2>2. 1 \in 1 .. a + 1 /\ a + 1 \in 1 .. a + b + 1 /\ ~(a + 1 <= a) /\ (a + 1) - a = 1
    BY <1>1
  <2>3. H[a + 1] = F[a + 1]
    BY <2>1, <2>2, <1>2, <1>3
  <2>4. \A i \in 1 .. a + 1 : (i <= a /\ i \in 1 .. a + b + 1) \/ i = a + 1
    BY <1>1
  <2>5. \A i \in a + 1 .. a + b + 1 : ~(i <= a) /\ i \in 1 .. a + b + 1
    BY <1>1
  <2> QED  BY <2>1, <2>3, <2>4, <2>5
<1> HIDE DEF H
<1>6. H[1] = l /\ H[a + b + 1] = n
  <2>1. 1 \in 1 .. a + 1 /\ a + b + 1 \in a + 1 .. a + b + 1 /\ (a + b + 1) - a = b + 1
    BY <1>1
  <2> QED  BY <2>1, <1>2, <1>3, <1>5
<1>7. ASSUME NEW i \in 1 .. a + b PROVE H[i + 1] = After(r, (q1 \o q2)[i], H[i])
  <2>1. CASE i <= a
    <3>1. i \in 1 .. a /\ i \in 1 .. a + 1 /\ i + 1 \in 1 .. a + 1
      BY <1>1, <2>1
    <3>2. (q1 \o q2)[i] = q1[i]
      BY <1>4, <2>1
    <3> QED  BY <3>1, <3>2, <1>2, <1>5
  <2>2. CASE ~(i <= a)
    <3>1. /\ i \in a + 1 .. a + b + 1 /\ i + 1 \in a + 1 .. a + b + 1
          /\ i - a \in 1 .. b /\ (i + 1) - a = (i - a) + 1
      BY <1>1, <2>2
    <3>2. (q1 \o q2)[i] = q2[i - a]
      BY <1>4, <2>2
    <3>3. H[i + 1] = G[(i - a) + 1] /\ H[i] = G[i - a]
      BY <3>1, <1>5
    <3> QED  BY <3>1, <3>2, <3>3, <1>3
  <2> QED  BY <2>1, <2>2
<1> QED
  <2>1. /\ H[1] = l /\ H[Len(q1 \o q2) + 1] = n
        /\ \A i \in 1 .. Len(q1 \o q2) : H[i + 1] = After(r, (q1 \o q2)[i], H[i])
    BY <1>1, <1>6, <1>7
  <2> QED  BY <2>1 DEF Runs

LEMMA RunTail ==
  ASSUME NEW S, NEW q \in Seq(S), q # <<>>, NEW r, NEW m, NEW n, Runs(r, m, q, n)
  PROVE  Runs(r, After(r, Head(q), m), Tail(q), n)
<1> DEFINE a == Len(Tail(q))
<1>1. a \in Nat /\ Len(q) = a + 1 /\ Head(q) = q[1] /\ \A i \in 1 .. a : Tail(q)[i] = q[i + 1]
  BY HeadTailProperties
<1>2. PICK H : H[1] = m /\ H[Len(q) + 1] = n
               /\ \A i \in 1 .. Len(q) : H[i + 1] = After(r, q[i], H[i])
  BY DEF Runs
<1> HIDE DEF a
<1> DEFINE G == [i \in 1 .. a + 1 |-> H[i + 1]]
<1>3. \A i \in 1 .. a + 1 : G[i] = H[i + 1]
  OBVIOUS
<1> HIDE DEF G
<1>4. G[1] = After(r, Head(q), m) /\ G[a + 1] = n
  BY <1>1, <1>2, <1>3
<1>5. ASSUME NEW i \in 1 .. a PROVE G[i + 1] = After(r, Tail(q)[i], G[i])
  <2>1. i + 1 \in 1 .. Len(q) /\ i \in 1 .. a + 1 /\ i + 1 \in 1 .. a + 1
    BY <1>1
  <2> QED  BY <2>1, <1>1, <1>2, <1>3
<1> QED  BY <1>4, <1>5 DEF Runs, a

\* A list that leaves a register alone.
Spares(r, s) ==
  \/ s.do \in {"register", "initialized"}
  \/ s.reg # r /\ ~(s.do = "write" /\ s.reg = "MR" /\ "RST" \in s.val)

LEMMA RunSparing ==
  ASSUME NEW q, Len(q) \in Nat, NEW r, NEW c, NEW l, NEW f,
         \A i \in 1 .. Len(q) : Spares(r, q[i])
  PROVE  Runs(r, Copies(c, l, f), q, Copies(c, l, f))
<1> DEFINE m == Copies(c, l, f)
           H == [i \in 1 .. Len(q) + 1 |-> m]
<1>1. m.chip = c /\ m.local = l /\ m.info = f
  BY DEF Copies
<1>2. \A s : Spares(r, s) => After(r, s, m) = m
  BY <1>1 DEF Spares, After
<1> HIDE DEF m
<1>3. \A i \in 1 .. Len(q) + 1 : H[i] = m
  OBVIOUS
<1> HIDE DEF H
<1>4. H[1] = m /\ H[Len(q) + 1] = m /\ \A i \in 1 .. Len(q) : H[i + 1] = After(r, q[i], H[i])
  BY <1>2, <1>3
<1> QED  BY <1>4 DEF Runs, m

-----------------------------------------------------------------------------
(* What the calls make of the registers. *)

LEMMA AddressPlace == \A r \in Addresses : \E k \in 1 .. 4 : /\ AddressSeq[k] = r
                        /\ \A i \in 1 .. 4 : AddressSeq[i] = r => i = k
<1>1. \A i \in 1 .. 4 : i = 1 \/ i = 2 \/ i = 3 \/ i = 4
  OBVIOUS
<1> QED  BY <1>1, RegisterNames

\* All four are read, or written back, each once.
LEMMA ReadAllRuns ==
  ASSUME NEW r \in Addresses, NEW c, NEW l, NEW f
  PROVE  /\ Runs(r, Copies(c, l, f), ReadAll("local"), Copies(c, c, f))
         /\ Runs(r, Copies(c, l, f), ReadAll("info"), Copies(c, l, c))
<1>1. PICK k \in 1 .. 4 : AddressSeq[k] = r /\ \A i \in 1 .. 4 : AddressSeq[i] = r => i = k
  BY AddressPlace
<1>2. ASSUME NEW at \in {"local", "info"}, NEW n,
             n = IF at = "local" THEN Copies(c, c, f) ELSE Copies(c, l, c)
      PROVE  Runs(r, Copies(c, l, f), ReadAll(at), n)
  <2> DEFINE m == Copies(c, l, f)
             H == [i \in 1 .. 5 |-> IF i <= k THEN m ELSE n]
  <2>1. After(r, Read(r, at), m) = n
    BY <1>2 DEF After, Read, Copies
  <2>2. \A x : x # r => After(r, Read(x, at), m) = m /\ After(r, Read(x, at), n) = n
    BY <1>2 DEF After, Read, Copies
  <2> HIDE DEF m
  <2>3. Len(ReadAll(at)) = 4 /\ \A i \in 1 .. 4 : ReadAll(at)[i] = Read(AddressSeq[i], at)
    BY AllSteps
  <2>4. H[1] = m /\ H[5] = n
    OBVIOUS
  <2>5. ASSUME NEW i \in 1 .. 4 PROVE H[i + 1] = After(r, ReadAll(at)[i], H[i])
    <3>1. CASE i < k
      <4>1. H[i] = m /\ H[i + 1] = m
        BY <3>1
      <4> QED  BY <4>1, <3>1, <2>2, <2>3, <1>1
    <3>2. CASE i = k
      <4>1. H[i] = m /\ H[i + 1] = n
        BY <3>2
      <4> QED  BY <4>1, <3>2, <2>1, <2>3, <1>1
    <3>3. CASE i > k
      <4>1. H[i] = n /\ H[i + 1] = n
        BY <3>3
      <4> QED  BY <4>1, <3>3, <2>2, <2>3, <1>1
    <3> QED  BY <3>1, <3>2, <3>3
  <2> HIDE DEF H
  <2>6. Runs(r, m, ReadAll(at), n)
    BY <2>3, <2>4, <2>5 DEF Runs
  <2> QED  BY <2>6 DEF m
<1> QED  BY <1>2

LEMMA BackAllRuns ==
  ASSUME NEW r \in Addresses, NEW c, NEW l, NEW f
  PROVE  /\ Runs(r, Copies(c, l, f), BackAll("local"), Copies(l, l, f))
         /\ Runs(r, Copies(c, l, f), BackAll("info"), Copies(f, l, f))
<1>1. PICK k \in 1 .. 4 : AddressSeq[k] = r /\ \A i \in 1 .. 4 : AddressSeq[i] = r => i = k
  BY AddressPlace
<1>2. ASSUME NEW at \in {"local", "info"}, NEW n,
             n = IF at = "local" THEN Copies(l, l, f) ELSE Copies(f, l, f)
      PROVE  Runs(r, Copies(c, l, f), BackAll(at), n)
  <2> DEFINE m == Copies(c, l, f)
             H == [i \in 1 .. 5 |-> IF i <= k THEN m ELSE n]
  <2>1. After(r, Back(r, at), m) = n
    BY <1>2 DEF After, Back, Copies
  <2>2. \A x : x # r => After(r, Back(x, at), m) = m /\ After(r, Back(x, at), n) = n
    BY <1>2 DEF After, Back, Copies
  <2> HIDE DEF m
  <2>3. Len(BackAll(at)) = 4 /\ \A i \in 1 .. 4 : BackAll(at)[i] = Back(AddressSeq[i], at)
    BY AllSteps
  <2>4. H[1] = m /\ H[5] = n
    OBVIOUS
  <2>5. ASSUME NEW i \in 1 .. 4 PROVE H[i + 1] = After(r, BackAll(at)[i], H[i])
    <3>1. CASE i < k
      <4>1. H[i] = m /\ H[i + 1] = m
        BY <3>1
      <4> QED  BY <4>1, <3>1, <2>2, <2>3, <1>1
    <3>2. CASE i = k
      <4>1. H[i] = m /\ H[i + 1] = n
        BY <3>2
      <4> QED  BY <4>1, <3>2, <2>1, <2>3, <1>1
    <3>3. CASE i > k
      <4>1. H[i] = n /\ H[i + 1] = n
        BY <3>3
      <4> QED  BY <4>1, <3>3, <2>2, <2>3, <1>1
    <3> QED  BY <3>1, <3>2, <3>3
  <2> HIDE DEF H
  <2>6. Runs(r, m, BackAll(at), n)
    BY <2>3, <2>4, <2>5 DEF Runs
  <2> QED  BY <2>6 DEF m
<1> QED  BY <1>2

\* No other register is touched.
LEMMA AllSpare ==
  ASSUME NEW r, r \notin Addresses, NEW at \in {"local", "info"}, NEW c, NEW l, NEW f
  PROVE  /\ Runs(r, Copies(c, l, f), ReadAll(at), Copies(c, l, f))
         /\ Runs(r, Copies(c, l, f), BackAll(at), Copies(c, l, f))
<1>1. \A i \in 1 .. 4 : AddressSeq[i] \in Addresses
  <2>1. \A i \in 1 .. 4 : i = 1 \/ i = 2 \/ i = 3 \/ i = 4
    OBVIOUS
  <2> QED  BY <2>1, RegisterNames
<1>2. \A i \in 1 .. 4 : Spares(r, Read(AddressSeq[i], at)) /\ Spares(r, Back(AddressSeq[i], at))
  BY <1>1 DEF Spares, Read, Back
<1>3. /\ Len(ReadAll(at)) = 4 /\ Len(BackAll(at)) = 4
      /\ \A i \in 1 .. 4 : /\ ReadAll(at)[i] = Read(AddressSeq[i], at)
                           /\ BackAll(at)[i] = Back(AddressSeq[i], at)
  BY AllSteps
<1> QED  BY <1>2, <1>3, RunSparing

\* A list of two.
LEMMA RunTwo == \A r, m, s, t : Runs(r, m, <<s, t>>, After(r, t, After(r, s, m)))
<1> SUFFICES ASSUME NEW r, NEW m, NEW s, NEW t
             PROVE  Runs(r, m, <<s, t>>, After(r, t, After(r, s, m)))
  OBVIOUS
<1> DEFINE n == After(r, s, m)
           o == After(r, t, n)
           H == [i \in 1 .. 3 |-> IF i = 1 THEN m ELSE IF i = 2 THEN n ELSE o]
<1> HIDE DEF n, o
<1>1. H[1] = m /\ H[2] = n /\ H[3] = o
  OBVIOUS
<1>2. Len(<<s, t>>) = 2 /\ <<s, t>>[1] = s /\ <<s, t>>[2] = t /\ \A i \in 1 .. 2 : i = 1 \/ i = 2
  OBVIOUS
<1> HIDE DEF H
<1>3. H[2] = After(r, s, H[1]) /\ H[3] = After(r, t, H[2])
  BY <1>1 DEF n, o
<1>4. \A i \in 1 .. 2 : H[i + 1] = After(r, <<s, t>>[i], H[i])
  BY <1>2, <1>3
<1>5. Runs(r, m, <<s, t>>, o)
  BY <1>1, <1>2, <1>4 DEF Runs
<1> QED  BY <1>5 DEF n, o

\* The reset keeps the addresses and nothing else.
LEMMA SwResetRuns ==
  /\ \A r \in Addresses : \A c, l, f : Runs(r, Copies(c, l, f), SwReset, Copies(c, c, f))
  /\ \A r \in Registers \ Addresses : \A c, l, f :
       r # "MR" => Runs(r, Copies(c, l, f), SwReset, Copies(Blank[r], l, f))
<1> DEFINE two == <<Write("MR", {"RST"}), Read("MR", "local")>>
<1>1. \A r, c, l, f : r # "MR" => Runs(r, Copies(c, l, f), two, Copies(Blank[r], l, f))
  <2> SUFFICES ASSUME NEW r, NEW c, NEW l, NEW f, r # "MR"
               PROVE  Runs(r, Copies(c, l, f), two, Copies(Blank[r], l, f))
    OBVIOUS
  <2>1. After(r, Write("MR", {"RST"}), Copies(c, l, f)) = Copies(Blank[r], l, f)
    BY DEF After, Write, Copies
  <2>2. After(r, Read("MR", "local"), Copies(Blank[r], l, f)) = Copies(Blank[r], l, f)
    BY DEF After, Read, Copies
  <2> QED  BY <2>1, <2>2, RunTwo
<1>2. /\ ReadAll("local") \in Seq(CallStep) /\ BackAll("local") \in Seq(CallStep)
      /\ two \in Seq(CallStep) /\ ReadAll("local") \o two \in Seq(CallStep)
  BY AllSteps, SwResetSteps
<1>3. SwReset = (ReadAll("local") \o two) \o BackAll("local")
  BY DEF SwReset
<1> HIDE DEF two
<1>4. ASSUME NEW r \in Addresses, NEW c, NEW l, NEW f
      PROVE  Runs(r, Copies(c, l, f), SwReset, Copies(c, c, f))
  <2>1. r # "MR"
    BY RegisterNames
  <2>2. Runs(r, Copies(c, l, f), ReadAll("local"), Copies(c, c, f))
    BY ReadAllRuns
  <2>3. Runs(r, Copies(c, c, f), two, Copies(Blank[r], c, f))
    BY <1>1, <2>1
  <2>4. Runs(r, Copies(Blank[r], c, f), BackAll("local"), Copies(c, c, f))
    BY BackAllRuns
  <2>5. Runs(r, Copies(c, l, f), ReadAll("local") \o two, Copies(Blank[r], c, f))
    BY <1>2, <2>2, <2>3, RunJoin
  <2>6. Runs(r, Copies(c, l, f), (ReadAll("local") \o two) \o BackAll("local"), Copies(c, c, f))
    BY <1>2, <2>4, <2>5, RunJoin
  <2> QED  BY <2>6, <1>3
<1>5. ASSUME NEW r \in Registers \ Addresses, NEW c, NEW l, NEW f, r # "MR"
      PROVE  Runs(r, Copies(c, l, f), SwReset, Copies(Blank[r], l, f))
  <2>1. Runs(r, Copies(c, l, f), ReadAll("local"), Copies(c, l, f))
    BY AllSpare
  <2>2. Runs(r, Copies(c, l, f), two, Copies(Blank[r], l, f))
    BY <1>1, <1>5
  <2>3. Runs(r, Copies(Blank[r], l, f), BackAll("local"), Copies(Blank[r], l, f))
    BY AllSpare
  <2>4. Runs(r, Copies(c, l, f), ReadAll("local") \o two, Copies(Blank[r], l, f))
    BY <1>2, <2>1, <2>2, RunJoin
  <2>5. Runs(r, Copies(c, l, f), (ReadAll("local") \o two) \o BackAll("local"),
             Copies(Blank[r], l, f))
    BY <1>2, <2>3, <2>4, RunJoin
  <2> QED  BY <2>5, <1>3
<1> QED  BY <1>4, <1>5

\* A setter changes its own address.
LEMMA SetAddressRuns ==
  ASSUME NEW x \in Addresses, NEW v \in Octets
  PROVE  /\ SetAddress(x, v) \in Seq(CallStep)
         /\ \A c, l, f : Runs(x, Copies(c, l, f), SetAddress(x, v), Copies(v, l, v))
         /\ \A r \in Addresses : \A c, l, f :
              r # x => Runs(r, Copies(c, l, f), SetAddress(x, v), Copies(c, l, c))
         /\ \A r \in Registers \ Addresses : \A c, l, f :
              Runs(r, Copies(c, l, f), SetAddress(x, v), Copies(c, l, f))
<1> DEFINE one == <<Modify(x, v)>>
<1>1. SetAddress(x, v) = (ReadAll("info") \o one) \o BackAll("info")
  BY DEF SetAddress, GetNetInfo, SetNetInfo
<1>2. ReadAll("info") \in Seq(CallStep) /\ BackAll("info") \in Seq(CallStep)
  BY AllSteps
<1>3. one \in Seq(CallStep)
  <2>1. Modify(x, v) \in CallStep
    BY StepsOf
  <2> QED  BY <2>1
<1>4. ReadAll("info") \o one \in Seq(CallStep)
  BY <1>2, <1>3, ConcatProperties
<1>5. SetAddress(x, v) \in Seq(CallStep)
  BY <1>1, <1>2, <1>4, ConcatProperties
<1>6. \A r, l, m, n, o :
        Runs(r, l, ReadAll("info"), m) /\ Runs(r, m, one, n) /\ Runs(r, n, BackAll("info"), o)
          => Runs(r, l, SetAddress(x, v), o)
  <2> HIDE DEF one
  <2> SUFFICES ASSUME NEW r, NEW l, NEW m, NEW n, NEW o, Runs(r, l, ReadAll("info"), m),
                      Runs(r, m, one, n), Runs(r, n, BackAll("info"), o)
               PROVE  Runs(r, l, SetAddress(x, v), o)
    OBVIOUS
  <2>1. Runs(r, l, ReadAll("info") \o one, n)
    BY <1>2, <1>3, RunJoin
  <2>2. Runs(r, l, (ReadAll("info") \o one) \o BackAll("info"), o)
    BY <1>2, <1>4, <2>1, RunJoin
  <2> QED  BY <2>2, <1>1
<1>7. ASSUME NEW c, NEW l, NEW f PROVE Runs(x, Copies(c, l, f), SetAddress(x, v), Copies(v, l, v))
  <2>1. After(x, Modify(x, v), Copies(c, l, c)) = Copies(c, l, v)
    BY DEF After, Modify, Copies
  <2>2. Runs(x, Copies(c, l, c), one, Copies(c, l, v))
    BY <2>1, RunOne
  <2>3. Runs(x, Copies(c, l, f), ReadAll("info"), Copies(c, l, c))
    BY ReadAllRuns
  <2>4. Runs(x, Copies(c, l, v), BackAll("info"), Copies(v, l, v))
    BY BackAllRuns
  <2> HIDE DEF one
  <2> QED  BY <2>2, <2>3, <2>4, <1>6
<1>8. ASSUME NEW r \in Addresses, NEW c, NEW l, NEW f, r # x
      PROVE  Runs(r, Copies(c, l, f), SetAddress(x, v), Copies(c, l, c))
  <2>1. After(r, Modify(x, v), Copies(c, l, c)) = Copies(c, l, c)
    BY <1>8 DEF After, Modify, Copies
  <2>2. Runs(r, Copies(c, l, c), one, Copies(c, l, c))
    BY <2>1, RunOne
  <2>3. Runs(r, Copies(c, l, f), ReadAll("info"), Copies(c, l, c))
    BY ReadAllRuns
  <2>4. Runs(r, Copies(c, l, c), BackAll("info"), Copies(c, l, c))
    BY BackAllRuns
  <2> HIDE DEF one
  <2> QED  BY <2>2, <2>3, <2>4, <1>6
<1>9. ASSUME NEW r \in Registers \ Addresses, NEW c, NEW l, NEW f
      PROVE  Runs(r, Copies(c, l, f), SetAddress(x, v), Copies(c, l, f))
  <2>1. After(r, Modify(x, v), Copies(c, l, f)) = Copies(c, l, f)
    BY DEF After, Modify, Copies
  <2>2. Runs(r, Copies(c, l, f), one, Copies(c, l, f))
    BY <2>1, RunOne
  <2>3. /\ Runs(r, Copies(c, l, f), ReadAll("info"), Copies(c, l, f))
        /\ Runs(r, Copies(c, l, f), BackAll("info"), Copies(c, l, f))
    BY AllSpare
  <2> HIDE DEF one
  <2> QED  BY <2>2, <2>3, <1>6
<1> QED  BY <1>5, <1>7, <1>8, <1>9

LEMMA RunSix ==
  ASSUME NEW r, NEW m1, NEW m2, NEW m3, NEW m4, NEW m5, NEW m6, NEW m7,
         NEW s1, NEW s2, NEW s3, NEW s4, NEW s5, NEW s6,
         m2 = After(r, s1, m1), m3 = After(r, s2, m2), m4 = After(r, s3, m3),
         m5 = After(r, s4, m4), m6 = After(r, s5, m5), m7 = After(r, s6, m6)
  PROVE  Runs(r, m1, <<s1, s2, s3, s4, s5, s6>>, m7)
<1> DEFINE H == [i \in 1 .. 7 |-> CASE i = 1 -> m1 [] i = 2 -> m2 [] i = 3 -> m3 [] i = 4 -> m4
                                    [] i = 5 -> m5 [] i = 6 -> m6 [] i = 7 -> m7]
           q == <<s1, s2, s3, s4, s5, s6>>
<1>1. /\ H[1] = m1 /\ H[2] = m2 /\ H[3] = m3 /\ H[4] = m4 /\ H[5] = m5 /\ H[6] = m6 /\ H[7] = m7
  OBVIOUS
<1>2. /\ q[1] = s1 /\ q[2] = s2 /\ q[3] = s3 /\ q[4] = s4 /\ q[5] = s5 /\ q[6] = s6
      /\ Len(q) = 6
  OBVIOUS
<1>3. \A i \in 1 .. 6 : i = 1 \/ i = 2 \/ i = 3 \/ i = 4 \/ i = 5 \/ i = 6
  OBVIOUS
<1> HIDE DEF H, q
<1>4. \A i \in 1 .. 6 : H[i + 1] = After(r, q[i], H[i])
  BY <1>1, <1>2, <1>3
<1>5. Runs(r, m1, q, m7)
  BY <1>1, <1>2, <1>4 DEF Runs
<1> QED  BY <1>5 DEF q

\* The list leaves v in r.
Yields(r, m, q, v) == \E n : Runs(r, m, q, n) /\ n.chip = v

LEMMA YieldsCopies == \A r, m, q, c, l, f : Runs(r, m, q, Copies(c, l, f)) => Yields(r, m, q, c)
BY DEF Yields, Copies

\* The registers the properties are about.
Watched == Addresses \cup Range(TxSizes) \cup Range(RxSizes) \cup {"PHYCFGR"}

LEMMA WatchedNames == \A r \in Watched : r \in Registers /\ r \notin {"MR", "RTR", "RCR"}
BY RegisterNames DEF Watched

\* What init() asks of a buffer.
SizeAsked(r) == IF r = "Sn_TXBUF_SIZE(0)" THEN 4 ELSE 1

LEMMA SizesRuns ==
  ASSUME NEW c, NEW l, NEW f
  PROVE  /\ \A r \in Range(TxSizes) :
              Runs(r, Copies(c, l, f), Sizes(TxSizes, TxSize), Copies(SizeAsked(r), l, f))
         /\ \A r \in Range(RxSizes) :
              Runs(r, Copies(c, l, f), Sizes(RxSizes, RxSize), Copies(SizeAsked(r), l, f))
         /\ \A r \in Registers \ Range(TxSizes) :
              Runs(r, Copies(c, l, f), Sizes(TxSizes, TxSize), Copies(c, l, f))
         /\ \A r \in Registers \ Range(RxSizes) :
              Runs(r, Copies(c, l, f), Sizes(RxSizes, RxSize), Copies(c, l, f))
<1> DEFINE run(r, a, v, b, w) ==
             Runs(r, Copies(c, l, f), <<Write(a, v), Write(b, w)>>,
                  Copies(IF r = b THEN w ELSE IF r = a THEN v ELSE c, l, f))
<1>1. \A r, a, v, b, w : a # "MR" /\ b # "MR" => run(r, a, v, b, w)
  <2> SUFFICES ASSUME NEW r, NEW a, NEW v, NEW b, NEW w, a # "MR", b # "MR"
               PROVE  run(r, a, v, b, w)
    OBVIOUS
  <2> DEFINE n == Copies(IF r = a THEN v ELSE c, l, f)
  <2>1. After(r, Write(a, v), Copies(c, l, f)) = n
    BY DEF After, Write, Copies
  <2>2. After(r, Write(b, w), n) = Copies(IF r = b THEN w ELSE IF r = a THEN v ELSE c, l, f)
    BY DEF After, Write, Copies
  <2> QED  BY <2>1, <2>2, RunTwo
<1> HIDE DEF run
<1>2. \A r : /\ run(r, "Sn_TXBUF_SIZE(0)", 4, "Sn_TXBUF_SIZE(1)", 1)
             /\ run(r, "Sn_RXBUF_SIZE(0)", 1, "Sn_RXBUF_SIZE(1)", 1)
  BY <1>1
<1>3. \A r : Runs(r, Copies(c, l, f), Sizes(TxSizes, TxSize),
                  Copies(IF r = "Sn_TXBUF_SIZE(1)" THEN 1
                         ELSE IF r = "Sn_TXBUF_SIZE(0)" THEN 4 ELSE c, l, f))
  BY <1>2, SizesWritten DEF run
<1>4. \A r : Runs(r, Copies(c, l, f), Sizes(RxSizes, RxSize),
                  Copies(IF r = "Sn_RXBUF_SIZE(1)" THEN 1
                         ELSE IF r = "Sn_RXBUF_SIZE(0)" THEN 1 ELSE c, l, f))
  BY <1>2, SizesWritten DEF run
<1>5. ASSUME NEW r \in Range(TxSizes)
      PROVE  Runs(r, Copies(c, l, f), Sizes(TxSizes, TxSize), Copies(SizeAsked(r), l, f))
  <2>1. (IF r = "Sn_TXBUF_SIZE(1)" THEN 1 ELSE IF r = "Sn_TXBUF_SIZE(0)" THEN 4 ELSE c)
          = SizeAsked(r)
    BY RegisterNames DEF SizeAsked
  <2> QED  BY <2>1, <1>3
<1>6. ASSUME NEW r \in Range(RxSizes)
      PROVE  Runs(r, Copies(c, l, f), Sizes(RxSizes, RxSize), Copies(SizeAsked(r), l, f))
  <2>1. (IF r = "Sn_RXBUF_SIZE(1)" THEN 1 ELSE IF r = "Sn_RXBUF_SIZE(0)" THEN 1 ELSE c)
          = SizeAsked(r)
    BY RegisterNames DEF SizeAsked
  <2> QED  BY <2>1, <1>4
<1>7. ASSUME NEW r \in Registers \ Range(TxSizes)
      PROVE  Runs(r, Copies(c, l, f), Sizes(TxSizes, TxSize), Copies(c, l, f))
  <2>1. (IF r = "Sn_TXBUF_SIZE(1)" THEN 1 ELSE IF r = "Sn_TXBUF_SIZE(0)" THEN 4 ELSE c) = c
    BY RegisterNames
  <2> QED  BY <2>1, <1>3
<1>8. ASSUME NEW r \in Registers \ Range(RxSizes)
      PROVE  Runs(r, Copies(c, l, f), Sizes(RxSizes, RxSize), Copies(c, l, f))
  <2>1. (IF r = "Sn_RXBUF_SIZE(1)" THEN 1 ELSE IF r = "Sn_RXBUF_SIZE(0)" THEN 1 ELSE c) = c
    BY RegisterNames
  <2> QED  BY <2>1, <1>4
<1> QED  BY <1>5, <1>6, <1>7, <1>8

\* wizchip_init() keeps the addresses, too, and the sizes it writes after the
\* reset are there in the end.
LEMMA WizchipInitRuns ==
  ASSUME NEW c, NEW l, NEW f
  PROVE  /\ \A r \in Addresses : Runs(r, Copies(c, l, f), WizchipInit, Copies(c, c, f))
         /\ Runs("PHYCFGR", Copies(c, l, f), WizchipInit, Copies(PhyDefault, l, f))
         /\ Fits(TxSize) /\ Fits(RxSize) =>
              \A r \in Range(TxSizes) \cup Range(RxSizes) :
                Runs(r, Copies(c, l, f), WizchipInit, Copies(SizeAsked(r), l, f))
<1> DEFINE tx == IF Fits(TxSize) THEN Sizes(TxSizes, TxSize) ELSE <<>>
           rx == IF Fits(TxSize) /\ Fits(RxSize) THEN Sizes(RxSizes, RxSize) ELSE <<>>
<1>1. /\ tx \in Seq(CallStep) /\ rx \in Seq(CallStep) /\ SwReset \o tx \in Seq(CallStep)
      /\ SwReset \in Seq(CallStep) /\ WizchipInit = (SwReset \o tx) \o rx
  <2>1. <<>> \in Seq(CallStep)
    OBVIOUS
  <2> QED  BY <2>1, SizesWritten, WizchipInitSteps, SwResetSteps DEF WizchipInit
<1>2. \A r \in Registers \ (Range(TxSizes) \cup Range(RxSizes)) : \A a, b :
        /\ Runs(r, Copies(a, b, f), tx, Copies(a, b, f))
        /\ Runs(r, Copies(a, b, f), rx, Copies(a, b, f))
  BY SizesRuns, RunNone
<1>3. Fits(TxSize) /\ Fits(RxSize) => tx = Sizes(TxSizes, TxSize) /\ rx = Sizes(RxSizes, RxSize)
  OBVIOUS
<1> HIDE DEF tx, rx
<1>4. ASSUME NEW r, NEW k, NEW m, NEW n, NEW o, Runs(r, k, SwReset, m), Runs(r, m, tx, n),
             Runs(r, n, rx, o)
      PROVE  Runs(r, k, WizchipInit, o)
  <2>1. Runs(r, k, SwReset \o tx, n)
    BY <1>1, <1>4, RunJoin
  <2>2. Runs(r, k, (SwReset \o tx) \o rx, o)
    BY <1>1, <1>4, <2>1, RunJoin
  <2> QED  BY <2>2, <1>1
<1>5. ASSUME NEW r \in Addresses PROVE Runs(r, Copies(c, l, f), WizchipInit, Copies(c, c, f))
  <2>1. r \in Registers \ (Range(TxSizes) \cup Range(RxSizes))
    BY RegisterNames
  <2>2. Runs(r, Copies(c, l, f), SwReset, Copies(c, c, f))
    BY SwResetRuns
  <2> QED  BY <2>1, <2>2, <1>2, <1>4
<1>6. Runs("PHYCFGR", Copies(c, l, f), WizchipInit, Copies(PhyDefault, l, f))
  <2>1. "PHYCFGR" \in Registers \ (Range(TxSizes) \cup Range(RxSizes))
        /\ "PHYCFGR" \in Registers \ Addresses /\ "PHYCFGR" # "MR"
    BY RegisterNames
  <2>2. Runs("PHYCFGR", Copies(c, l, f), SwReset, Copies(PhyDefault, l, f))
    BY <2>1, SwResetRuns, BlankValues
  <2> QED  BY <2>1, <2>2, <1>2, <1>4
<1>7. ASSUME Fits(TxSize), Fits(RxSize), NEW r \in Range(TxSizes) \cup Range(RxSizes)
      PROVE  Runs(r, Copies(c, l, f), WizchipInit, Copies(SizeAsked(r), l, f))
  <2>1. /\ r \in Registers \ Addresses /\ r # "MR"
        /\ r \in Range(TxSizes) <=> r \notin Range(RxSizes)
    BY RegisterNames
  <2>2. Runs(r, Copies(c, l, f), SwReset, Copies(Blank[r], l, f))
    BY <2>1, SwResetRuns
  <2>3. CASE r \in Range(TxSizes)
    <3>1. /\ Runs(r, Copies(Blank[r], l, f), tx, Copies(SizeAsked(r), l, f))
          /\ Runs(r, Copies(SizeAsked(r), l, f), rx, Copies(SizeAsked(r), l, f))
      BY <2>1, <2>3, <1>3, <1>7, SizesRuns
    <3> QED  BY <3>1, <2>2, <1>4
  <2>4. CASE r \in Range(RxSizes)
    <3>1. /\ Runs(r, Copies(Blank[r], l, f), tx, Copies(Blank[r], l, f))
          /\ Runs(r, Copies(Blank[r], l, f), rx, Copies(SizeAsked(r), l, f))
      BY <2>1, <2>4, <1>3, <1>7, SizesRuns
    <3> QED  BY <3>1, <2>2, <1>4
  <2> QED  BY <2>3, <2>4
<1> QED  BY <1>5, <1>6, <1>7

\* init(), which marks the chip as initialized only where both sizes fit.
LEMMA InitYields ==
  ASSUME NEW c, NEW l, NEW f
  PROVE  /\ \A r \in Addresses : Yields(r, Copies(c, l, f), InitSteps, c)
         /\ Yields("PHYCFGR", Copies(c, l, f), InitSteps, PhyDefault)
         /\ Mark # <<>> => \A r \in Range(TxSizes) \cup Range(RxSizes) :
                             Yields(r, Copies(c, l, f), InitSteps, SizeAsked(r))
<1> DEFINE one == <<Register>>
<1>1. /\ one \in Seq(SetupStep) /\ SwReset \in Seq(SetupStep) /\ WizchipInit \in Seq(SetupStep)
      /\ Mark \in Seq(SetupStep) /\ one \o SwReset \in Seq(SetupStep)
      /\ (one \o SwReset) \o WizchipInit \in Seq(SetupStep)
      /\ InitSteps = ((one \o SwReset) \o WizchipInit) \o Mark
  <2>1. one \in Seq(CallStep)
    BY StepsOf
  <2> QED  BY <2>1, SwResetSteps, WizchipInitSteps, RegisterFirst, CallSteps
<1>2. \A r, a, b, d : Runs(r, Copies(a, b, d), one, Copies(a, b, d))
  <2>1. \A r, a, b, d : After(r, Register, Copies(a, b, d)) = Copies(a, b, d)
    BY DEF After, Register, Copies
  <2> QED  BY <2>1, RunOne
<1>3. \A r, a, b, d : Runs(r, Copies(a, b, d), Mark, Copies(a, b, d))
  <2>1. \A r, a, b, d : After(r, Initialized, Copies(a, b, d)) = Copies(a, b, d)
    BY DEF After, Initialized, Copies
  <2>2. \A r, a, b, d : Runs(r, Copies(a, b, d), <<Initialized>>, Copies(a, b, d))
    BY <2>1, RunOne
  <2>3. Mark = <<>> \/ Mark = <<Initialized>>
    BY DEF Mark
  <2> QED  BY <2>2, <2>3, RunNone
<1> HIDE DEF one
<1>4. ASSUME NEW r, NEW a, NEW b, NEW d, NEW e,
             Runs(r, Copies(c, l, f), SwReset, Copies(a, b, f)),
             Runs(r, Copies(a, b, f), WizchipInit, Copies(d, e, f))
      PROVE  Yields(r, Copies(c, l, f), InitSteps, d)
  <2>1. Runs(r, Copies(c, l, f), one \o SwReset, Copies(a, b, f))
    BY <1>1, <1>2, <1>4, RunJoin
  <2>2. Runs(r, Copies(c, l, f), (one \o SwReset) \o WizchipInit, Copies(d, e, f))
    BY <1>1, <1>4, <2>1, RunJoin
  <2>3. Runs(r, Copies(d, e, f), Mark, Copies(d, e, f))
    BY <1>3
  <2>4. Runs(r, Copies(c, l, f), ((one \o SwReset) \o WizchipInit) \o Mark, Copies(d, e, f))
    BY <1>1, <2>2, <2>3, RunJoin
  <2> QED  BY <2>4, <1>1, YieldsCopies
<1>5. ASSUME NEW r \in Addresses PROVE Yields(r, Copies(c, l, f), InitSteps, c)
  <2>1. Runs(r, Copies(c, l, f), SwReset, Copies(c, c, f))
    BY SwResetRuns
  <2>2. Runs(r, Copies(c, c, f), WizchipInit, Copies(c, c, f))
    BY WizchipInitRuns
  <2> QED  BY <2>1, <2>2, <1>4
<1>6. \A r \in Watched \ Addresses : Runs(r, Copies(c, l, f), SwReset, Copies(Blank[r], l, f))
  BY SwResetRuns, WatchedNames
<1>7. Yields("PHYCFGR", Copies(c, l, f), InitSteps, PhyDefault)
  <2>1. "PHYCFGR" \in Watched \ Addresses
    BY RegisterNames DEF Watched
  <2>2. Runs("PHYCFGR", Copies(Blank["PHYCFGR"], l, f), WizchipInit, Copies(PhyDefault, l, f))
    BY WizchipInitRuns
  <2> QED  BY <2>1, <2>2, <1>4, <1>6
<1>8. ASSUME Mark # <<>>, NEW r \in Range(TxSizes) \cup Range(RxSizes)
      PROVE  Yields(r, Copies(c, l, f), InitSteps, SizeAsked(r))
  <2>1. r \in Watched \ Addresses
    BY RegisterNames DEF Watched
  <2>2. Fits(TxSize) /\ Fits(RxSize)
    BY <1>8 DEF Mark
  <2>3. Runs(r, Copies(Blank[r], l, f), WizchipInit, Copies(SizeAsked(r), l, f))
    BY <2>2, WizchipInitRuns
  <2> QED  BY <2>1, <2>3, <1>4, <1>6
<1> QED  BY <1>5, <1>7, <1>8

\* wizphy_reset() leaves p and out of reset.
LEMMA PhyResetRuns ==
  ASSUME NEW p \in PhyRegister
  PROVE  /\ PhyReset(p) \in Seq(CallStep)
         /\ \A c, l, f : Runs("PHYCFGR", Copies(c, l, f), PhyReset(p),
                              Copies([p EXCEPT !.up = TRUE], [p EXCEPT !.up = TRUE], f))
         /\ \A r \in Watched \ {"PHYCFGR"} : \A c, l, f :
              Runs(r, Copies(c, l, f), PhyReset(p), Copies(c, l, f))
<1> DEFINE P == "PHYCFGR"
           down == [p EXCEPT !.up = FALSE]
           up == [p EXCEPT !.up = TRUE]
<1>1. down \in PhyRegister /\ up \in PhyRegister
  BY DEF PhyRegister
<1> HIDE DEF down, up
<1>2. PhyReset(p) = <<Read(P, "local"), Change(P, down), Back(P, "local"),
                      Read(P, "local"), Change(P, up), Back(P, "local")>>
  BY DEF PhyReset, down, up
<1>3. PhyReset(p) \in Seq(CallStep)
  <2>1. /\ Read(P, "local") \in CallStep /\ Back(P, "local") \in CallStep
        /\ Change(P, down) \in CallStep /\ Change(P, up) \in CallStep
    BY <1>1, StepsOf, ValuesOf, RegisterNames
  <2>2. \A a, b, c, d \in CallStep : <<a, b, c, a, d, c>> \in Seq(CallStep)
    OBVIOUS
  <2> QED  BY <2>1, <2>2, <1>2
<1>4. ASSUME NEW c, NEW l, NEW f PROVE Runs(P, Copies(c, l, f), PhyReset(p), Copies(up, up, f))
  <2>1. /\ Copies(c, c, f) = After(P, Read(P, "local"), Copies(c, l, f))
        /\ Copies(c, down, f) = After(P, Change(P, down), Copies(c, c, f))
        /\ Copies(down, down, f) = After(P, Back(P, "local"), Copies(c, down, f))
        /\ Copies(down, down, f) = After(P, Read(P, "local"), Copies(down, down, f))
        /\ Copies(down, up, f) = After(P, Change(P, up), Copies(down, down, f))
        /\ Copies(up, up, f) = After(P, Back(P, "local"), Copies(down, up, f))
    BY DEF After, Read, Change, Back, Copies
  <2> QED  BY <2>1, <1>2, RunSix
<1>5. ASSUME NEW r \in Watched \ {P}, NEW c, NEW l, NEW f
      PROVE  Runs(r, Copies(c, l, f), PhyReset(p), Copies(c, l, f))
  <2>1. /\ Copies(c, l, f) = After(r, Read(P, "local"), Copies(c, l, f))
        /\ Copies(c, l, f) = After(r, Change(P, down), Copies(c, l, f))
        /\ Copies(c, l, f) = After(r, Back(P, "local"), Copies(c, l, f))
        /\ Copies(c, l, f) = After(r, Change(P, up), Copies(c, l, f))
    BY DEF After, Read, Change, Back, Copies
  <2> QED  BY <2>1, <1>2, RunSix
<1> QED  BY <1>3, <1>4, <1>5 DEF up

\* CW_SET_PHYCONF
LEMMA SetPhyConfYields ==
  ASSUME NEW x \in PhyConf
  PROVE  /\ SetPhyConf(x) \in Seq(CallStep)
         /\ \A c, l, f : Yields("PHYCFGR", Copies(c, l, f), SetPhyConf(x),
                                [PhyBits(x) EXCEPT !.up = TRUE])
         /\ \A r \in Watched \ {"PHYCFGR"} : \A c, l, f :
              Yields(r, Copies(c, l, f), SetPhyConf(x), c)
<1> DEFINE P == "PHYCFGR"
           p == PhyBits(x)
           one == <<Write(P, p)>>
<1>1. p \in PhyRegister
  <2>1. /\ x.by \in {"HW", "SW"} /\ x.mode \in {"auto", "manual"}
        /\ (x.mode = "manual" => x.speed \in {10, 100})
    BY SetupAssumption DEF PhyConf
  <2> QED  BY <2>1 DEF PhyBits, PhyRegister
<1> HIDE DEF p
<1>2. one \in Seq(CallStep)
  <2>1. Write(P, p) \in CallStep
    BY <1>1, StepsOf, ValuesOf, RegisterNames
  <2> QED  BY <2>1
<1>3. PhyReset(p) \in Seq(CallStep) /\ SetPhyConf(x) = one \o PhyReset(p)
  BY <1>1, PhyResetRuns DEF SetPhyConf, p
<1>4. \A r, c, l, f : Runs(r, Copies(c, l, f), one, Copies(IF r = P THEN p ELSE c, l, f))
  <2>1. \A r, c, l, f : After(r, Write(P, p), Copies(c, l, f))
                          = Copies(IF r = P THEN p ELSE c, l, f)
    BY DEF After, Write, Copies
  <2> QED  BY <2>1, RunOne
<1> HIDE DEF one
<1>5. SetPhyConf(x) \in Seq(CallStep)
  BY <1>2, <1>3, ConcatProperties
<1>6. ASSUME NEW c, NEW l, NEW f
      PROVE  Yields(P, Copies(c, l, f), SetPhyConf(x), [p EXCEPT !.up = TRUE])
  <2> DEFINE up == [p EXCEPT !.up = TRUE]
  <2> HIDE DEF up
  <2>1. Runs(P, Copies(c, l, f), one, Copies(p, l, f))
    BY <1>4
  <2>2. Runs(P, Copies(p, l, f), PhyReset(p), Copies(up, up, f))
    BY <1>1, PhyResetRuns DEF up
  <2>3. Runs(P, Copies(c, l, f), one \o PhyReset(p), Copies(up, up, f))
    BY <1>2, <1>3, <2>1, <2>2, RunJoin
  <2>4. Yields(P, Copies(c, l, f), SetPhyConf(x), up)
    BY <2>3, <1>3, YieldsCopies
  <2> QED  BY <2>4 DEF up
<1>7. ASSUME NEW r \in Watched \ {P}, NEW c, NEW l, NEW f
      PROVE  Yields(r, Copies(c, l, f), SetPhyConf(x), c)
  <2>1. Runs(r, Copies(c, l, f), one, Copies(c, l, f))
    <3>1. r # P
      OBVIOUS
    <3> QED  BY <3>1, <1>4
  <2>2. Runs(r, Copies(c, l, f), PhyReset(p), Copies(c, l, f))
    BY <1>1, PhyResetRuns
  <2>3. Runs(r, Copies(c, l, f), one \o PhyReset(p), Copies(c, l, f))
    BY <1>2, <1>3, <2>1, <2>2, RunJoin
  <2> QED  BY <2>3, <1>3, YieldsCopies
<1> QED  BY <1>5, <1>6, <1>7 DEF p

\* CW_SET_PHYPOWMODE
LEMMA SetPhyPowerYields ==
  ASSUME chip["PHYCFGR"] \in PhyRegister, NEW op \in {"PDOWN", "ALLA"}
  PROVE  /\ SetPhyPower(op) \in Seq(CallStep)
         /\ \A l, f : Yields("PHYCFGR", Copies(chip["PHYCFGR"], l, f), SetPhyPower(op),
                             IF chip["PHYCFGR"].by = "SW"
                               THEN [chip["PHYCFGR"] EXCEPT !.op = op, !.up = TRUE]
                               ELSE chip["PHYCFGR"])
         /\ \A r \in Watched \ {"PHYCFGR"} : \A c, l, f :
              Yields(r, Copies(c, l, f), SetPhyPower(op), c)
<1> DEFINE P == "PHYCFGR"
           p == [chip[P] EXCEPT !.op = op]
           up == [p EXCEPT !.up = TRUE]
           one == <<Read(P, "local")>>
           two == <<Change(P, p), Back(P, "local")>>
           long == (two \o PhyReset(p)) \o one
<1>1. p \in PhyRegister /\ p.by = chip[P].by /\ up = [chip[P] EXCEPT !.op = op, !.up = TRUE]
  BY DEF PhyRegister
<1>2. SetPhyPower(op) = one \o (IF p.by = "SW" THEN long ELSE <<>>)
  BY DEF SetPhyPower
<1>3. one \in Seq(CallStep) /\ two \in Seq(CallStep)
  <2> HIDE DEF p
  <2>1. /\ Read(P, "local") \in CallStep /\ Back(P, "local") \in CallStep
        /\ Change(P, p) \in CallStep
    BY <1>1, StepsOf, ValuesOf, RegisterNames
  <2> QED  BY <2>1
<1>4. \A r, c, l, f : Runs(r, Copies(c, l, f), one, Copies(c, IF r = P THEN c ELSE l, f))
  <2>1. \A r, c, l, f : After(r, Read(P, "local"), Copies(c, l, f))
                          = Copies(c, IF r = P THEN c ELSE l, f)
    BY DEF After, Read, Copies
  <2> QED  BY <2>1, RunOne
<1>5. \A r, c, l, f : Runs(r, Copies(c, l, f), two,
                           Copies(IF r = P THEN p ELSE c, IF r = P THEN p ELSE l, f))
  <2> HIDE DEF p
  <2>1. \A r, c, l, f : After(r, Change(P, p), Copies(c, l, f))
                          = Copies(c, IF r = P THEN p ELSE l, f)
    BY DEF After, Change, Copies
  <2>2. \A r, c, l, f : After(r, Back(P, "local"), Copies(c, l, f))
                          = Copies(IF r = P THEN l ELSE c, l, f)
    BY DEF After, Back, Copies
  <2>3. ASSUME NEW r, NEW c, NEW l, NEW f
        PROVE  After(r, Back(P, "local"), After(r, Change(P, p), Copies(c, l, f)))
                 = Copies(IF r = P THEN p ELSE c, IF r = P THEN p ELSE l, f)
    <3>1. CASE r = P
      BY <2>1, <2>2, <3>1
    <3>2. CASE r # P
      BY <2>1, <2>2, <3>2
    <3> QED  BY <3>1, <3>2
  <2> QED  BY <2>3, RunTwo
<1>6. PhyReset(p) \in Seq(CallStep) /\ two \o PhyReset(p) \in Seq(CallStep)
      /\ long \in Seq(CallStep) /\ <<>> \in Seq(CallStep)
  <2>1. PhyReset(p) \in Seq(CallStep)
    BY <1>1, PhyResetRuns
  <2> HIDE DEF p, one, two
  <2>2. two \o PhyReset(p) \in Seq(CallStep)
    BY <1>3, <2>1, ConcatProperties
  <2>3. long \in Seq(CallStep)
    BY <1>3, <2>2, ConcatProperties
  <2> QED  BY <2>1, <2>2, <2>3
<1> HIDE DEF p, up, one, two
<1>7. SetPhyPower(op) \in Seq(CallStep)
  BY <1>2, <1>3, <1>6, ConcatProperties
<1>8. ASSUME NEW r, NEW k, NEW l, NEW m, NEW n, Runs(r, k, two, l), Runs(r, l, PhyReset(p), m),
             Runs(r, m, one, n)
      PROVE  Runs(r, k, long, n)
  <2>1. Runs(r, k, two \o PhyReset(p), m)
    BY <1>3, <1>6, <1>8, RunJoin
  <2> QED  BY <1>3, <1>6, <1>8, <2>1, RunJoin
<1>9. ASSUME NEW c, NEW l, NEW f PROVE Runs(P, Copies(c, l, f), long, Copies(up, up, f))
  <2>1. /\ Runs(P, Copies(c, l, f), two, Copies(p, p, f))
        /\ Runs(P, Copies(up, up, f), one, Copies(up, up, f))
    BY <1>4, <1>5
  <2>2. Runs(P, Copies(p, p, f), PhyReset(p), Copies(up, up, f))
    BY <1>1, PhyResetRuns DEF up
  <2> QED  BY <2>1, <2>2, <1>8
<1>10. ASSUME NEW r \in Watched \ {P}, NEW c, NEW l, NEW f
       PROVE  Runs(r, Copies(c, l, f), long, Copies(c, l, f))
  <2>1. /\ Runs(r, Copies(c, l, f), two, Copies(c, l, f))
        /\ Runs(r, Copies(c, l, f), one, Copies(c, l, f))
    <3>1. r # P
      OBVIOUS
    <3> QED  BY <3>1, <1>4, <1>5
  <2>2. Runs(r, Copies(c, l, f), PhyReset(p), Copies(c, l, f))
    BY <1>1, PhyResetRuns
  <2> QED  BY <2>1, <2>2, <1>8
<1> HIDE DEF long
<1>11. ASSUME NEW l, NEW f
       PROVE  Yields(P, Copies(chip[P], l, f), SetPhyPower(op), IF p.by = "SW" THEN up ELSE chip[P])
  <2>1. Runs(P, Copies(chip[P], l, f), one, Copies(chip[P], chip[P], f))
    BY <1>4
  <2>2. CASE p.by = "SW"
    <3>1. Runs(P, Copies(chip[P], chip[P], f), long, Copies(up, up, f))
      BY <1>9
    <3>2. Runs(P, Copies(chip[P], l, f), one \o long, Copies(up, up, f))
      BY <1>3, <1>6, <2>1, <3>1, RunJoin
    <3> QED  BY <1>2, <2>2, <3>2, YieldsCopies
  <2>3. CASE p.by # "SW"
    <3>1. Runs(P, Copies(chip[P], chip[P], f), <<>>, Copies(chip[P], chip[P], f))
      BY RunNone
    <3>2. Runs(P, Copies(chip[P], l, f), one \o <<>>, Copies(chip[P], chip[P], f))
      BY <1>3, <1>6, <2>1, <3>1, RunJoin
    <3> QED  BY <1>2, <2>3, <3>2, YieldsCopies
  <2> QED  BY <2>2, <2>3
<1>12. ASSUME NEW r \in Watched \ {P}, NEW c, NEW l, NEW f
       PROVE  Yields(r, Copies(c, l, f), SetPhyPower(op), c)
  <2>1. Runs(r, Copies(c, l, f), one, Copies(c, l, f))
    <3>1. r # P
      OBVIOUS
    <3> QED  BY <3>1, <1>4
  <2>2. Runs(r, Copies(c, l, f), IF p.by = "SW" THEN long ELSE <<>>, Copies(c, l, f))
    BY <1>10, RunNone
  <2>3. Runs(r, Copies(c, l, f), one \o (IF p.by = "SW" THEN long ELSE <<>>), Copies(c, l, f))
    <3>1. (IF p.by = "SW" THEN long ELSE <<>>) \in Seq(CallStep)
      BY <1>6
    <3> QED  BY <1>3, <2>1, <2>2, <3>1, RunJoin
  <2> QED  BY <1>2, <2>3, YieldsCopies
<1> QED  BY <1>1, <1>7, <1>11, <1>12

\* ctlnetwork() without the addresses, and what only reads.
LEMMA NetYields ==
  ASSUME chip["MR"] \in SUBSET NetModes,
         NEW q \in {GetNetInfo, GetNetMode, GetTimeout, GetPhy}
                     \cup {SetNetMode(m) : m \in NetModes} \cup {SetTimeout(t) : t \in Timeouts}
  PROVE  /\ q \in Seq(CallStep)
         /\ \A r \in Watched : \A c, l, f : Yields(r, Copies(c, l, f), q, c)
<1> DEFINE Good(x) == /\ x \in Seq(CallStep)
                      /\ \A r \in Watched : \A c, l, f : Yields(r, Copies(c, l, f), x, c)
<1>1. \A r \in Watched : r # "MR" /\ r # "RTR" /\ r # "RCR"
  BY WatchedNames
<1>2. \A r \in {"MR", "RTR", "RCR", "PHYCFGR"} :
        r \in Registers /\ Read(r, "local") \in CallStep /\ Back(r, "local") \in CallStep
  BY RegisterNames, StepsOf
<1>3. \A r, x, c, l, f : After(r, Read(x, "local"), Copies(c, l, f))
                           = Copies(c, IF r = x THEN c ELSE l, f)
  BY DEF After, Read, Copies
<1>4. Good(GetNetInfo)
  <2>1. ReadAll("info") \in Seq(CallStep)
    BY AllSteps
  <2>2. ASSUME NEW r \in Watched, NEW c, NEW l, NEW f
        PROVE  Yields(r, Copies(c, l, f), ReadAll("info"), c)
    <3>1. Runs(r, Copies(c, l, f), ReadAll("info"), Copies(c, l, c))
            \/ Runs(r, Copies(c, l, f), ReadAll("info"), Copies(c, l, f))
      BY ReadAllRuns, AllSpare
    <3> QED  BY <3>1, YieldsCopies
  <2> QED  BY <2>1, <2>2 DEF GetNetInfo
<1>5. ASSUME NEW x \in {"MR", "PHYCFGR"} PROVE Good(<<Read(x, "local")>>)
  <2>1. <<Read(x, "local")>> \in Seq(CallStep)
    BY <1>2
  <2>2. ASSUME NEW r \in Watched, NEW c, NEW l, NEW f
        PROVE  Yields(r, Copies(c, l, f), <<Read(x, "local")>>, c)
    <3>1. Runs(r, Copies(c, l, f), <<Read(x, "local")>>, Copies(c, IF r = x THEN c ELSE l, f))
      BY <1>3, RunOne
    <3> QED  BY <3>1, YieldsCopies
  <2> QED  BY <2>1, <2>2
<1>6. Good(GetTimeout)
  <2>1. <<Read("RCR", "local"), Read("RTR", "local")>> \in Seq(CallStep)
    <3>1. Read("RCR", "local") \in CallStep /\ Read("RTR", "local") \in CallStep
      BY <1>2
    <3> QED  BY <3>1
  <2>2. ASSUME NEW r \in Watched, NEW c, NEW l, NEW f
        PROVE  Yields(r, Copies(c, l, f), <<Read("RCR", "local"), Read("RTR", "local")>>, c)
    <3>1. r # "RCR" /\ r # "RTR"
      BY <1>1
    <3>2. /\ After(r, Read("RCR", "local"), Copies(c, l, f)) = Copies(c, l, f)
          /\ After(r, Read("RTR", "local"), Copies(c, l, f)) = Copies(c, l, f)
      BY <3>1, <1>3
    <3>3. Runs(r, Copies(c, l, f), <<Read("RCR", "local"), Read("RTR", "local")>>, Copies(c, l, f))
      BY <3>2, RunTwo
    <3> QED  BY <3>3, YieldsCopies
  <2> QED  BY <2>1, <2>2 DEF GetTimeout
<1>7. ASSUME NEW m \in NetModes PROVE Good(SetNetMode(m))
  <2> DEFINE v == chip["MR"] \cup {m}
             x == <<Read("MR", "local"), Change("MR", v), Back("MR", "local")>>
  <2>1. v \in RegisterValue("MR")
    BY ValuesOf
  <2> HIDE DEF v
  <2>2. /\ Read("MR", "local") \in CallStep /\ Change("MR", v) \in CallStep
        /\ Back("MR", "local") \in CallStep
    BY <2>1, <1>2, StepsOf
  <2>3. x \in Seq(CallStep)
    BY <2>2
  <2>4. /\ Len(x) = 3 /\ x[1] = Read("MR", "local") /\ x[2] = Change("MR", v)
        /\ x[3] = Back("MR", "local")
    OBVIOUS
  <2>5. ASSUME NEW r \in Watched, NEW c, NEW l, NEW f PROVE Yields(r, Copies(c, l, f), x, c)
    <3>1. r # "MR"
      BY <1>1
    <3>2. /\ Spares(r, Read("MR", "local")) /\ Spares(r, Change("MR", v))
          /\ Spares(r, Back("MR", "local"))
      BY <3>1 DEF Spares, Read, Change, Back
    <3>3. \A i \in 1 .. 3 : i = 1 \/ i = 2 \/ i = 3
      OBVIOUS
    <3> HIDE DEF x
    <3>4. Len(x) \in Nat /\ \A i \in 1 .. Len(x) : Spares(r, x[i])
      BY <2>4, <3>2, <3>3
    <3>5. Runs(r, Copies(c, l, f), x, Copies(c, l, f))
      BY <3>4, RunSparing
    <3> QED  BY <3>5, YieldsCopies
  <2>6. SetNetMode(m) = x
    BY DEF SetNetMode, v
  <2> HIDE DEF x
  <2> QED  BY <2>3, <2>5, <2>6
<1>8. ASSUME NEW t \in Timeouts PROVE Good(SetTimeout(t))
  <2>1. <<Write("RCR", t), Write("RTR", t)>> \in Seq(CallStep)
    <3>1. Write("RCR", t) \in CallStep /\ Write("RTR", t) \in CallStep
      BY <1>2, StepsOf, ValuesOf
    <3> QED  BY <3>1
  <2>2. ASSUME NEW r \in Watched, NEW c, NEW l, NEW f
        PROVE  Yields(r, Copies(c, l, f), <<Write("RCR", t), Write("RTR", t)>>, c)
    <3>1. r # "RCR" /\ r # "RTR"
      BY <1>1
    <3>2. /\ After(r, Write("RCR", t), Copies(c, l, f)) = Copies(c, l, f)
          /\ After(r, Write("RTR", t), Copies(c, l, f)) = Copies(c, l, f)
      BY <3>1 DEF After, Write, Copies
    <3>3. Runs(r, Copies(c, l, f), <<Write("RCR", t), Write("RTR", t)>>, Copies(c, l, f))
      BY <3>2, RunTwo
    <3> QED  BY <3>3, YieldsCopies
  <2> QED  BY <2>1, <2>2 DEF SetTimeout
<1>9. Good(GetNetMode) /\ Good(GetPhy)
  BY <1>5 DEF GetNetMode, GetPhy
<1> HIDE DEF Good
<1>10. Good(q)
  BY <1>4, <1>6, <1>7, <1>8, <1>9
<1> QED  BY <1>10 DEF Good

-----------------------------------------------------------------------------
(* Where the running call will take the registers. *)

\* What is left to be done to the chip; the last step of a frame only releases it.
Remaining == IF phase = "end" THEN Tail(todo) ELSE todo

CopiesOf(r) == Copies(chip[r], local[r], IF r \in Addresses THEN info[r] ELSE Zero)

Ends(r, v) == Yields(r, CopiesOf(r), Remaining, v)

Phases == {"idle", "header", "headerOut", "data", "dataOut", "end"}

SetupTypes ==
  /\ chip = [r \in Registers |-> chip[r]] /\ \A r \in Registers : chip[r] \in RegisterValue(r)
  /\ local = [r \in Registers |-> local[r]] /\ \A r \in Registers : local[r] \in RegisterValue(r)
  /\ info = [r \in Addresses |-> info[r]] /\ \A r \in Addresses : info[r] \in Octets \cup {Zero}
  /\ todo \in Seq(SetupStep) /\ phase \in Phases
  /\ phase # "idle" => todo # <<>> /\ Access(Head(todo))
  /\ spif \in BOOLEAN /\ spie \in BOOLEAN
  /\ registered \in BOOLEAN /\ initialized \in BOOLEAN /\ sized \in BOOLEAN

WantedTypes ==
  /\ wanted = [addresses |-> wanted.addresses, phy |-> wanted.phy, down |-> wanted.down]
  /\ wanted.addresses = [r \in Addresses |-> wanted.addresses[r]]
  /\ wanted.down \in BOOLEAN

\* The PHY works as it was asked to.
PhyMeets(p) ==
  p \in PhyRegister /\ p.up /\ ConfOf(p) = wanted.phy /\ (p.op = "PDOWN") = wanted.down

\* What a buffer has, from the table of init() or from the last reset.
SizeDue(r) == IF sized THEN SizeAsked(r) ELSE DefaultSize

\* The rest of the call leaves the chip as it was asked for.
AddressesOnCourse == \A r \in Addresses : Ends(r, wanted.addresses[r])
PhyOnCourse == \E p : PhyMeets(p) /\ Ends("PHYCFGR", p)
SizesOnCourse == \A r \in Range(TxSizes) \cup Range(RxSizes) : Ends(r, SizeDue(r))

OnCourse == SetupTypes /\ WantedTypes /\ AddressesOnCourse /\ PhyOnCourse /\ SizesOnCourse

\* Between two calls the chip is where the calls were to take it.
LEMMA EndsAtRest == AtRest => \A r, v : Ends(r, v) <=> chip[r] = v
<1> SUFFICES ASSUME AtRest, NEW r, NEW v PROVE Ends(r, v) <=> chip[r] = v
  OBVIOUS
<1>1. Remaining = <<>>
  BY DEF AtRest, Remaining
<1>2. CopiesOf(r).chip = chip[r]
  BY DEF CopiesOf, Copies
<1> QED  BY <1>1, <1>2, RunNone DEF Ends, Yields

\* The state that the steps work on, typed.
MemoryTypes ==
  /\ chip = [r \in Registers |-> chip[r]] /\ \A r \in Registers : chip[r] \in RegisterValue(r)
  /\ local = [r \in Registers |-> local[r]] /\ \A r \in Registers : local[r] \in RegisterValue(r)
  /\ info = [r \in Addresses |-> info[r]] /\ \A r \in Addresses : info[r] \in Octets \cup {Zero}

LEMMA NextStep ==
  ASSUME SetupTypes, todo # <<>>
  PROVE  Head(todo) \in SetupStep /\ Tail(todo) \in Seq(SetupStep)
BY HeadTailProperties DEF SetupTypes

\* A step without an access changes at most one copy.
LEMMA ComputeEffect ==
  ASSUME SetupTypes, Compute
  PROVE  /\ MemoryTypes'
         /\ \A r \in Watched : CopiesOf(r)' = After(r, Head(todo), CopiesOf(r))
<1> DEFINE s == Head(todo)
<1>1. s \in SetupStep /\ ~Access(s) /\ UNCHANGED chip
  BY NextStep DEF Compute
<1>2. /\ local' = IF s.do = "change" THEN [local EXCEPT ![s.reg] = s.val] ELSE local
      /\ info' = IF s.do = "modify" THEN [info EXCEPT ![s.reg] = s.val] ELSE info
  BY DEF Compute
<1> HIDE DEF s
<1>3. \/ s = Register
      \/ s = Initialized
      \/ \E x \in Registers : \E v \in RegisterValue(x) : s = Change(x, v)
      \/ \E x \in Addresses : \E v \in Octets : s = Modify(x, v)
  BY <1>1, StepCases DEF Access, Read, Back, Write
<1>4. CASE s = Register \/ s = Initialized
  <2>1. UNCHANGED <<chip, local, info>>
    BY <1>1, <1>2, <1>4 DEF Register, Initialized
  <2>2. \A r : CopiesOf(r)' = CopiesOf(r)
    BY <2>1 DEF CopiesOf
  <2>3. \A r : After(r, s, CopiesOf(r)) = CopiesOf(r)
    BY <1>4 DEF After, CopiesOf, Copies, Register, Initialized
  <2> QED  BY <2>1, <2>2, <2>3 DEF MemoryTypes, SetupTypes, s
<1>5. ASSUME NEW x \in Registers, NEW v \in RegisterValue(x), s = Change(x, v)
      PROVE  /\ MemoryTypes'
             /\ \A r \in Watched : CopiesOf(r)' = After(r, s, CopiesOf(r))
  <2>1. local' = [local EXCEPT ![x] = v] /\ UNCHANGED <<chip, info>>
    BY <1>1, <1>2, <1>5 DEF Change
  <2>2. /\ local' = [r \in Registers |-> local'[r]]
        /\ \A r \in Registers : local'[r] = IF r = x THEN v ELSE local[r]
    BY <2>1 DEF SetupTypes
  <2>3. MemoryTypes'
    BY <2>1, <2>2 DEF MemoryTypes, SetupTypes
  <2>4. ASSUME NEW r \in Watched PROVE CopiesOf(r)' = After(r, s, CopiesOf(r))
    <3>1. After(r, s, CopiesOf(r)) = Copies(chip[r], IF r = x THEN v ELSE local[r],
                                            IF r \in Addresses THEN info[r] ELSE Zero)
      BY <1>5 DEF After, CopiesOf, Copies, Change
    <3>2. CopiesOf(r)' = Copies(chip[r], local'[r], IF r \in Addresses THEN info[r] ELSE Zero)
      BY <2>1 DEF CopiesOf
    <3> QED  BY <3>1, <3>2, <2>2, WatchedNames
  <2> QED  BY <2>3, <2>4
<1>6. ASSUME NEW x \in Addresses, NEW v \in Octets, s = Modify(x, v)
      PROVE  /\ MemoryTypes'
             /\ \A r \in Watched : CopiesOf(r)' = After(r, s, CopiesOf(r))
  <2>1. info' = [info EXCEPT ![x] = v] /\ UNCHANGED <<chip, local>>
    BY <1>1, <1>2, <1>6 DEF Modify
  <2>2. /\ info' = [r \in Addresses |-> info'[r]]
        /\ \A r \in Addresses : info'[r] = IF r = x THEN v ELSE info[r]
    BY <2>1 DEF SetupTypes
  <2>3. MemoryTypes'
    BY <2>1, <2>2 DEF MemoryTypes, SetupTypes
  <2>4. ASSUME NEW r \in Watched PROVE CopiesOf(r)' = After(r, s, CopiesOf(r))
    <3>1. After(r, s, CopiesOf(r)) =
            Copies(chip[r], local[r],
                   IF r = x THEN v ELSE IF r \in Addresses THEN info[r] ELSE Zero)
      BY <1>6 DEF After, CopiesOf, Copies, Modify
    <3>2. CopiesOf(r)' = Copies(chip[r], local[r], IF r \in Addresses THEN info'[r] ELSE Zero)
      BY <2>1 DEF CopiesOf
    <3>3. (IF r = x THEN v ELSE IF r \in Addresses THEN info[r] ELSE Zero)
            = (IF r \in Addresses THEN info'[r] ELSE Zero)
      BY <2>2
    <3> QED  BY <3>1, <3>2, <3>3
  <2> QED  BY <2>3, <2>4
<1> QED  BY <1>3, <1>4, <1>5, <1>6 DEF s

\* An access does to the registers what its step says.
LEMMA AccessEffect ==
  ASSUME SetupTypes, DataTaken
  PROVE  /\ MemoryTypes'
         /\ \A r \in Watched : CopiesOf(r)' = After(r, Head(todo), CopiesOf(r))
<1> DEFINE s == Head(todo)
<1>1. s \in SetupStep /\ Access(s)
  <2>1. phase # "idle"
    BY DEF DataTaken
  <2> QED  BY <2>1, NextStep DEF SetupTypes
<1>2. /\ chip' = CASE s.do = "read" -> chip
                   [] s.do = "write" -> Written(s.reg, s.val)
                   [] s.do = "back" ->
                        Written(s.reg, IF s.at = "info" THEN info[s.reg] ELSE local[s.reg])
      /\ local' = IF s.do = "read" /\ s.at = "local"
                    THEN [local EXCEPT ![s.reg] = chip[s.reg]] ELSE local
      /\ info' = IF s.do = "read" /\ s.at = "info"
                   THEN [info EXCEPT ![s.reg] = chip[s.reg]] ELSE info
  BY DEF DataTaken
<1> HIDE DEF s
<1>3. \/ s = Write("MR", {"RST"})
      \/ \E x \in Registers : s = Read(x, "local")
      \/ \E x \in Registers : s = Back(x, "local")
      \/ \E x \in Addresses : s = Read(x, "info")
      \/ \E x \in Addresses : s = Back(x, "info")
      \/ \E x \in Registers : \E v \in RegisterValue(x) : s = Write(x, v)
  BY <1>1, StepCases DEF Access, Register, Initialized, Change, Modify
<1> DEFINE Goal == /\ MemoryTypes'
                   /\ \A r \in Watched : CopiesOf(r)' = After(r, s, CopiesOf(r))
\* Any write but the reset.
<1>4. ASSUME NEW x \in Registers, NEW v \in RegisterValue(x), chip' = Written(x, v),
             UNCHANGED <<local, info>>,
             \A r \in Watched : After(r, s, CopiesOf(r)) =
               Copies(IF r = x THEN v ELSE chip[r], local[r],
                      IF r \in Addresses THEN info[r] ELSE Zero)
      PROVE  Goal
  <2>1. ~(x = "MR" /\ "RST" \in v)
    BY ValuesOf, SetupAssumption
  <2>2. chip' = [chip EXCEPT ![x] = v]
    BY <1>4, <2>1 DEF Written
  <2>3. /\ chip' = [r \in Registers |-> chip'[r]]
        /\ \A r \in Registers : chip'[r] = IF r = x THEN v ELSE chip[r]
    BY <2>2 DEF SetupTypes
  <2>4. MemoryTypes'
    BY <1>4, <2>3 DEF MemoryTypes, SetupTypes
  <2>5. ASSUME NEW r \in Watched PROVE CopiesOf(r)' = After(r, s, CopiesOf(r))
    <3>1. CopiesOf(r)' = Copies(chip'[r], local[r], IF r \in Addresses THEN info[r] ELSE Zero)
      BY <1>4 DEF CopiesOf
    <3> QED  BY <3>1, <2>3, <1>4, WatchedNames
  <2> QED  BY <2>4, <2>5
<1>5. ASSUME s = Write("MR", {"RST"}) PROVE Goal
  <2>1. chip' = Blank /\ UNCHANGED <<local, info>>
    BY <1>2, <1>5 DEF Write, Written
  <2>2. MemoryTypes'
    BY <2>1, BlankValues DEF MemoryTypes, SetupTypes
  <2>3. ASSUME NEW r \in Watched PROVE CopiesOf(r)' = After(r, s, CopiesOf(r))
    <3>1. r # "MR"
      BY WatchedNames
    <3>2. After(r, s, CopiesOf(r)) =
            Copies(Blank[r], local[r], IF r \in Addresses THEN info[r] ELSE Zero)
      BY <1>5, <3>1 DEF After, CopiesOf, Copies, Write
    <3>3. CopiesOf(r)' = Copies(Blank[r], local[r], IF r \in Addresses THEN info[r] ELSE Zero)
      BY <2>1 DEF CopiesOf
    <3> QED  BY <3>2, <3>3
  <2> QED  BY <2>2, <2>3
<1>6. ASSUME NEW x \in Registers, s = Read(x, "local") PROVE Goal
  <2>1. local' = [local EXCEPT ![x] = chip[x]] /\ UNCHANGED <<chip, info>>
    BY <1>2, <1>6 DEF Read
  <2>2. /\ local' = [r \in Registers |-> local'[r]]
        /\ \A r \in Registers : local'[r] = IF r = x THEN chip[x] ELSE local[r]
    BY <2>1 DEF SetupTypes
  <2>3. MemoryTypes'
    BY <2>1, <2>2 DEF MemoryTypes, SetupTypes
  <2>4. ASSUME NEW r \in Watched PROVE CopiesOf(r)' = After(r, s, CopiesOf(r))
    <3>1. After(r, s, CopiesOf(r)) = Copies(chip[r], IF r = x THEN chip[r] ELSE local[r],
                                            IF r \in Addresses THEN info[r] ELSE Zero)
      BY <1>6 DEF After, CopiesOf, Copies, Read
    <3>2. CopiesOf(r)' = Copies(chip[r], local'[r], IF r \in Addresses THEN info[r] ELSE Zero)
      BY <2>1 DEF CopiesOf
    <3> QED  BY <3>1, <3>2, <2>2, WatchedNames
  <2> QED  BY <2>3, <2>4
<1>7. ASSUME NEW x \in Addresses, s = Read(x, "info") PROVE Goal
  <2>1. info' = [info EXCEPT ![x] = chip[x]] /\ UNCHANGED <<chip, local>>
    BY <1>2, <1>7 DEF Read
  <2>2. /\ info' = [r \in Addresses |-> info'[r]]
        /\ \A r \in Addresses : info'[r] = IF r = x THEN chip[x] ELSE info[r]
    BY <2>1 DEF SetupTypes
  <2>3. chip[x] \in Octets \cup {Zero}
    BY RegisterNames, ValuesOf DEF SetupTypes
  <2>4. MemoryTypes'
    BY <2>1, <2>2, <2>3 DEF MemoryTypes, SetupTypes
  <2>5. ASSUME NEW r \in Watched PROVE CopiesOf(r)' = After(r, s, CopiesOf(r))
    <3>1. After(r, s, CopiesOf(r)) =
            Copies(chip[r], local[r],
                   IF r = x THEN chip[r] ELSE IF r \in Addresses THEN info[r] ELSE Zero)
      BY <1>7 DEF After, CopiesOf, Copies, Read
    <3>2. CopiesOf(r)' = Copies(chip[r], local[r], IF r \in Addresses THEN info'[r] ELSE Zero)
      BY <2>1 DEF CopiesOf
    <3>3. (IF r = x THEN chip[r] ELSE IF r \in Addresses THEN info[r] ELSE Zero)
            = (IF r \in Addresses THEN info'[r] ELSE Zero)
      BY <2>2
    <3> QED  BY <3>1, <3>2, <3>3
  <2> QED  BY <2>4, <2>5
<1>8. ASSUME NEW x \in Registers, s = Back(x, "local") PROVE Goal
  <2>1. chip' = Written(x, local[x]) /\ UNCHANGED <<local, info>> /\ local[x] \in RegisterValue(x)
    BY <1>2, <1>8 DEF Back, SetupTypes
  <2>2. \A r : After(r, s, CopiesOf(r)) =
                 Copies(IF r = x THEN local[x] ELSE chip[r], local[r],
                        IF r \in Addresses THEN info[r] ELSE Zero)
    BY <1>8 DEF After, CopiesOf, Copies, Back
  <2> QED  BY <2>1, <2>2, <1>4
<1>9. ASSUME NEW x \in Addresses, s = Back(x, "info") PROVE Goal
  <2>1. chip' = Written(x, info[x]) /\ UNCHANGED <<local, info>>
    BY <1>2, <1>9 DEF Back
  <2>2. x \in Registers /\ info[x] \in RegisterValue(x)
    BY RegisterNames, ValuesOf DEF SetupTypes
  <2>3. \A r : After(r, s, CopiesOf(r)) =
                 Copies(IF r = x THEN info[x] ELSE chip[r], local[r],
                        IF r \in Addresses THEN info[r] ELSE Zero)
    BY <1>9 DEF After, CopiesOf, Copies, Back
  <2> QED  BY <2>1, <2>2, <2>3, <1>4
<1>10. ASSUME NEW x \in Registers, NEW v \in RegisterValue(x), s = Write(x, v) PROVE Goal
  <2>1. chip' = Written(x, v) /\ UNCHANGED <<local, info>>
    BY <1>2, <1>10 DEF Write
  <2>2. ~(x = "MR" /\ "RST" \in v)
    BY ValuesOf, SetupAssumption
  <2>3. \A r \in Watched : After(r, s, CopiesOf(r)) =
                 Copies(IF r = x THEN v ELSE chip[r], local[r],
                        IF r \in Addresses THEN info[r] ELSE Zero)
    BY <1>10, <2>2 DEF After, CopiesOf, Copies, Write
  <2> QED  BY <2>1, <2>3, <1>4
<1> HIDE DEF Goal
<1>11. Goal
  BY <1>3, <1>5, <1>6, <1>7, <1>8, <1>9, <1>10
<1> QED  BY <1>11 DEF Goal, s

-----------------------------------------------------------------------------
(* The steps of a call keep to the course. *)

LEMMA CourseKept ==
  ASSUME AddressesOnCourse, PhyOnCourse, SizesOnCourse, UNCHANGED <<wanted, sized>>,
         \A r \in Watched : \A v : Ends(r, v) => Ends(r, v)'
  PROVE  AddressesOnCourse' /\ PhyOnCourse' /\ SizesOnCourse'
<1>1. AddressesOnCourse'
  <2>1. \A r \in Addresses : r \in Watched
    BY DEF Watched
  <2>2. \A r \in Addresses : Ends(r, wanted.addresses[r])
    BY DEF AddressesOnCourse
  <2>3. ASSUME NEW r \in Addresses PROVE Ends(r, wanted.addresses[r])'
    <3>1. PICK v : v = wanted.addresses[r]
      OBVIOUS
    <3>2. Ends(r, v)'
      BY <2>1, <2>2, <3>1
    <3>3. wanted.addresses[r]' = v
      BY <3>1
    <3> QED  BY <3>2, <3>3 DEF Ends
  <2> QED  BY <2>3 DEF AddressesOnCourse
<1>2. PhyOnCourse'
  <2>1. PICK p : PhyMeets(p) /\ Ends("PHYCFGR", p)
    BY DEF PhyOnCourse
  <2>2. "PHYCFGR" \in Watched
    BY DEF Watched
  <2>3. Ends("PHYCFGR", p)'
    BY <2>1, <2>2
  <2>4. PhyMeets(p)'
    BY <2>1 DEF PhyMeets
  <2> QED  BY <2>3, <2>4 DEF PhyOnCourse
<1>3. SizesOnCourse'
  <2> SUFFICES ASSUME NEW r \in Range(TxSizes) \cup Range(RxSizes)
               PROVE  Ends(r, SizeDue(r))'
    BY DEF SizesOnCourse
  <2>1. r \in Watched
    BY DEF Watched
  <2>2. Ends(r, SizeDue(r))
    BY DEF SizesOnCourse
  <2>3. PICK v : v = SizeDue(r)
    OBVIOUS
  <2>4. Ends(r, v)'
    BY <2>1, <2>2, <2>3
  <2> QED  BY <2>3, <2>4 DEF SizeDue, SizeAsked
<1> QED  BY <1>1, <1>2, <1>3

\* The first step of what remains is made.
LEMMA StepMade ==
  ASSUME SetupTypes, todo # <<>>, Remaining = todo, Remaining' = Tail(todo),
         \A r \in Watched : CopiesOf(r)' = After(r, Head(todo), CopiesOf(r))
  PROVE  \A r \in Watched : \A v : Ends(r, v) => Ends(r, v)'
<1> SUFFICES ASSUME NEW r \in Watched, NEW v, Ends(r, v) PROVE Ends(r, v)'
  OBVIOUS
<1>1. PICK n : Runs(r, CopiesOf(r), todo, n) /\ n.chip = v
  BY DEF Ends, Yields
<1>2. Runs(r, After(r, Head(todo), CopiesOf(r)), Tail(todo), n)
  BY <1>1, RunTail DEF SetupTypes
<1>3. Runs(r, CopiesOf(r)', Remaining', n)
  BY <1>2
<1> QED  BY <1>1, <1>3 DEF Ends, Yields

LEMMA WorkStep ==
  ASSUME OnCourse, Compute \/ Select \/ Shift \/ HeaderTaken \/ DataTaken \/ Deselect
  PROVE  OnCourse'
<1> DEFINE Course == \A r \in Watched : \A v : Ends(r, v) => Ends(r, v)'
<1> USE DEF OnCourse
<1>1. UNCHANGED <<wanted, sized>>
  BY DEF Compute, Select, Shift, HeaderTaken, DataTaken, Deselect
<1>2. CASE Compute
  <2>1. MemoryTypes' /\ \A r \in Watched : CopiesOf(r)' = After(r, Head(todo), CopiesOf(r))
    BY <1>2, ComputeEffect
  <2>2. /\ phase = "idle" /\ phase' = "idle" /\ todo # <<>> /\ todo' = Tail(todo)
        /\ UNCHANGED <<spif, spie, sized>>
        /\ registered' = (registered \/ Head(todo).do = "register")
        /\ initialized' = (initialized \/ Head(todo).do = "initialized")
    BY <1>2 DEF Compute
  <2>3. Remaining = todo /\ Remaining' = Tail(todo)
    BY <2>2 DEF Remaining
  <2>4. Head(todo) \in SetupStep /\ Tail(todo) \in Seq(SetupStep)
    BY <2>2, NextStep
  <2>5. SetupTypes'
    BY <2>1, <2>2, <2>4 DEF SetupTypes, MemoryTypes, Phases
  <2>6. Course
    BY <2>1, <2>2, <2>3, StepMade
  <2> QED  BY <1>1, <2>5, <2>6, CourseKept DEF WantedTypes
<1>3. CASE DataTaken
  <2>1. MemoryTypes' /\ \A r \in Watched : CopiesOf(r)' = After(r, Head(todo), CopiesOf(r))
    BY <1>3, AccessEffect
  <2>2. /\ phase = "dataOut" /\ phase' = "end" /\ todo # <<>>
        /\ spif' = FALSE /\ UNCHANGED <<spie, todo, registered, initialized, sized>>
    BY <1>3 DEF DataTaken, Cleared, SetupTypes
  <2>3. Remaining = todo /\ Remaining' = Tail(todo)
    BY <2>2 DEF Remaining
  <2>4. SetupTypes'
    BY <2>1, <2>2 DEF SetupTypes, MemoryTypes, Phases
  <2>5. Course
    BY <2>1, <2>2, <2>3, StepMade
  <2> QED  BY <1>1, <2>4, <2>5, CourseKept DEF WantedTypes
<1>4. CASE Select \/ Shift \/ HeaderTaken
  <2>1. UNCHANGED <<chip, todo, local, info, registered, initialized, sized>>
    BY <1>4 DEF Select, Shift, HeaderTaken
  <2>2. /\ phase # "end" /\ phase' # "end" /\ phase' \in Phases
        /\ spif' \in BOOLEAN /\ spie' \in BOOLEAN /\ todo # <<>> /\ Access(Head(todo))
    BY <1>4 DEF Select, Shift, HeaderTaken, SetupTypes, Phases
  <2>3. SetupTypes'
    BY <2>1, <2>2 DEF SetupTypes
  <2>4. Remaining' = Remaining /\ \A r : CopiesOf(r)' = CopiesOf(r)
    BY <2>1, <2>2 DEF Remaining, CopiesOf
  <2>5. Course
    BY <2>1, <2>4 DEF Ends
  <2> QED  BY <1>1, <2>3, <2>5, CourseKept DEF WantedTypes
<1>5. CASE Deselect
  <2>1. /\ phase = "end" /\ phase' = "idle" /\ todo' = Tail(todo) /\ spie' = TRUE
        /\ local' = IF Len(todo) = 1 THEN Blank ELSE local
        /\ UNCHANGED <<chip, spif, info, registered, initialized, sized>>
    BY <1>5 DEF Deselect
  <2>2. todo # <<>> /\ Tail(todo) \in Seq(SetupStep)
    BY <2>1, NextStep DEF SetupTypes
  <2>3. /\ local' = [r \in Registers |-> local'[r]]
        /\ \A r \in Registers : local'[r] \in RegisterValue(r)
    BY <2>1, BlankValues DEF SetupTypes
  <2>4. SetupTypes'
    BY <2>1, <2>2, <2>3 DEF SetupTypes, Phases
  <2>5. Remaining = Tail(todo) /\ Remaining' = Tail(todo)
    BY <2>1 DEF Remaining
  <2>6. ASSUME NEW r \in Watched, NEW v, Ends(r, v) PROVE Ends(r, v)'
    <3>1. CASE Len(todo) = 1
      <4>1. Tail(todo) = <<>>
        <5>1. Len(Tail(todo)) = 0
          BY <2>2, <3>1, HeadTailProperties DEF SetupTypes
        <5> QED  BY <2>2, <5>1, EmptySeq
      <4>2. Remaining = <<>> /\ Remaining' = <<>>
        BY <2>5, <4>1
      <4>3. chip[r] = v
        <5>1. PICK n : Runs(r, CopiesOf(r), <<>>, n) /\ n.chip = v
          BY <2>6, <4>2 DEF Ends, Yields
        <5>2. CopiesOf(r).chip = v
          BY <5>1, RunNone
        <5> QED  BY <5>2 DEF CopiesOf, Copies
      <4>4. CopiesOf(r)'.chip = v
        BY <2>1, <4>3 DEF CopiesOf, Copies
      <4> QED  BY <4>2, <4>4, RunNone DEF Ends, Yields
    <3>2. CASE Len(todo) # 1
      <4>1. CopiesOf(r)' = CopiesOf(r)
        BY <2>1, <3>2 DEF CopiesOf
      <4> QED  BY <2>5, <2>6, <4>1 DEF Ends
    <3> QED  BY <3>1, <3>2
  <2>7. Course
    BY <2>6
  <2> QED  BY <1>1, <2>4, <2>7, CourseKept DEF WantedTypes
<1> QED  BY <1>2, <1>3, <1>4, <1>5

-----------------------------------------------------------------------------
(* A call sets out on its course. *)

LEMMA CallMade ==
  ASSUME SetupTypes, AtRest, UNCHANGED <<Bus, initialized>>, sized' \in BOOLEAN,
         todo' \in Seq(SetupStep)
  PROVE  /\ SetupTypes'
         /\ \A r, v : Yields(r, CopiesOf(r), todo', v) => Ends(r, v)'
<1>1. UNCHANGED <<chip, spif, spie, phase, local, info, registered>>
  BY DEF Bus
<1>2. phase = "idle" /\ phase' = "idle"
  BY <1>1 DEF AtRest
<1>3. SetupTypes'
  BY <1>1, <1>2 DEF SetupTypes
<1>4. Remaining' = todo' /\ \A r : CopiesOf(r)' = CopiesOf(r)
  BY <1>1, <1>2 DEF Remaining, CopiesOf
<1> QED  BY <1>3, <1>4 DEF Ends

\* At rest the chip is as it was asked for.
LEMMA RestAsAsked ==
  ASSUME OnCourse, AtRest
  PROVE  /\ \A r \in Addresses : chip[r] = wanted.addresses[r]
         /\ PhyMeets(chip["PHYCFGR"])
         /\ \A r \in Range(TxSizes) \cup Range(RxSizes) : chip[r] = SizeDue(r)
<1> USE DEF OnCourse
<1>1. \A r \in Addresses : chip[r] = wanted.addresses[r]
  BY EndsAtRest DEF AddressesOnCourse
<1>2. PhyMeets(chip["PHYCFGR"])
  <2>1. PICK p : PhyMeets(p) /\ Ends("PHYCFGR", p)
    BY DEF PhyOnCourse
  <2>2. chip["PHYCFGR"] = p
    BY <2>1, EndsAtRest
  <2> QED  BY <2>1, <2>2
<1>3. ASSUME NEW r \in Range(TxSizes) \cup Range(RxSizes)
      PROVE  chip[r] = SizeDue(r)
  <2>1. Ends(r, SizeDue(r))
    BY DEF SizesOnCourse
  <2> QED  BY <2>1, EndsAtRest
<1> QED  BY <1>1, <1>2, <1>3

\* A call that leaves what is asked of buffers alone.
LEMMA OtherCall ==
  ASSUME OnCourse, AtRest, UNCHANGED <<Bus, initialized, sized>>, WantedTypes',
         todo' \in Seq(CallStep),
         \A r \in Addresses : Yields(r, CopiesOf(r), todo', wanted'.addresses[r]),
         NEW p, PhyMeets(p)', Yields("PHYCFGR", CopiesOf("PHYCFGR"), todo', p),
         \A r \in Range(TxSizes) \cup Range(RxSizes) : Yields(r, CopiesOf(r), todo', chip[r])
  PROVE  OnCourse'
<1>1. todo' \in Seq(SetupStep)
  BY CallSteps
<1>2. /\ SetupTypes'
      /\ \A r, v : Yields(r, CopiesOf(r), todo', v) => Ends(r, v)'
  BY <1>1, CallMade DEF OnCourse, SetupTypes
<1>3. AddressesOnCourse'
  <2>1. ASSUME NEW r \in Addresses PROVE Ends(r, wanted.addresses[r])'
    <3>1. PICK v : v = wanted'.addresses[r]
      OBVIOUS
    <3>2. Ends(r, v)'
      BY <3>1, <1>2
    <3> QED  BY <3>1, <3>2 DEF Ends
  <2> QED  BY <2>1 DEF AddressesOnCourse
<1>4. PhyOnCourse'
  BY <1>2 DEF PhyOnCourse
<1>5. SizesOnCourse'
  <2> SUFFICES ASSUME NEW r \in Range(TxSizes) \cup Range(RxSizes)
               PROVE  Ends(r, SizeDue(r))'
    BY DEF SizesOnCourse
  <2>1. chip[r] = SizeDue(r)
    BY RestAsAsked
  <2>2. PICK v : v = chip[r]
    OBVIOUS
  <2>3. Ends(r, v)'
    BY <2>2, <1>2
  <2> QED  BY <2>1, <2>2, <2>3 DEF SizeDue, SizeAsked
<1> QED  BY <1>2, <1>3, <1>4, <1>5 DEF OnCourse

\* A call that sets nothing of what is watched, or one that sets the PHY.
LEMMA PhyCall ==
  ASSUME OnCourse, AtRest, UNCHANGED <<Bus, initialized, sized>>, WantedTypes',
         todo' \in Seq(CallStep), wanted'.addresses = wanted.addresses,
         \A r \in Watched \ {"PHYCFGR"} : \A c, l, f : Yields(r, Copies(c, l, f), todo', c),
         NEW p, PhyMeets(p)', Yields("PHYCFGR", CopiesOf("PHYCFGR"), todo', p)
  PROVE  OnCourse'
<1>1. \A r \in Watched \ {"PHYCFGR"} : Yields(r, CopiesOf(r), todo', chip[r])
  BY DEF CopiesOf
<1>2. /\ \A r \in Addresses : r \in Watched \ {"PHYCFGR"}
      /\ \A r \in Range(TxSizes) \cup Range(RxSizes) : r \in Watched \ {"PHYCFGR"}
  BY RegisterNames DEF Watched
<1>3. \A r \in Addresses : chip[r] = wanted'.addresses[r]
  BY RestAsAsked
<1>4. \A r \in Addresses : Yields(r, CopiesOf(r), todo', wanted'.addresses[r])
  BY <1>1, <1>2, <1>3
<1>5. \A r \in Range(TxSizes) \cup Range(RxSizes) : Yields(r, CopiesOf(r), todo', chip[r])
  BY <1>1, <1>2
<1> QED  BY <1>4, <1>5, OtherCall

LEMMA InitCall == OnCourse /\ CallInit => OnCourse'
<1> SUFFICES ASSUME OnCourse, CallInit PROVE OnCourse'
  OBVIOUS
<1>1. AtRest /\ UNCHANGED <<Bus, initialized>>
  BY DEF CallInit
<1>2. CASE initialized
  <2>1. UNCHANGED setup_vars
    BY <1>1, <1>2 DEF CallInit, Bus, setup_vars
  <2> QED
    BY <2>1 DEF setup_vars, OnCourse, SetupTypes, WantedTypes, AddressesOnCourse, PhyOnCourse,
       SizesOnCourse, SizeDue, PhyMeets, Ends, Remaining, CopiesOf
<1>3. CASE ~initialized
  <2>1. /\ todo' = InitSteps /\ sized' = TRUE
        /\ wanted' = [wanted EXCEPT !.phy = ConfOf(PhyDefault), !.down = FALSE]
    BY <1>3 DEF CallInit
  <2>2. /\ SetupTypes' /\ \A r, v : Yields(r, CopiesOf(r), todo', v) => Ends(r, v)'
    BY <1>1, <2>1, RegisterFirst, CallMade DEF OnCourse
  <2>3. /\ WantedTypes' /\ wanted'.addresses = wanted.addresses
        /\ wanted'.phy = ConfOf(PhyDefault) /\ wanted'.down = FALSE
    BY <2>1 DEF OnCourse, WantedTypes
  <2>4. AddressesOnCourse'
    <3>1. ASSUME NEW r \in Addresses PROVE Ends(r, wanted.addresses[r])'
      <4>1. PICK v : v = chip[r]
        OBVIOUS
      <4>2. Yields(r, CopiesOf(r), InitSteps, v)
        BY <4>1, InitYields DEF CopiesOf
      <4>3. Ends(r, v)'
        BY <4>2, <2>1, <2>2
      <4>4. wanted'.addresses[r] = v
        BY <4>1, <2>3, <1>1, RestAsAsked
      <4> QED  BY <4>3, <4>4 DEF Ends
    <3> QED  BY <3>1 DEF AddressesOnCourse
  <2>5. PhyOnCourse'
    <3>1. Yields("PHYCFGR", CopiesOf("PHYCFGR"), InitSteps, PhyDefault)
      BY InitYields DEF CopiesOf
    <3>2. PICK p : p = PhyDefault
      OBVIOUS
    <3>3. Ends("PHYCFGR", p)'
      BY <3>1, <3>2, <2>1, <2>2
    <3>4. PhyMeets(p)'
      BY <3>2, <2>3 DEF PhyMeets, PhyDefault, PhyRegister
    <3> QED  BY <3>3, <3>4 DEF PhyOnCourse
  <2>6. SizesOnCourse'
    <3> SUFFICES ASSUME NEW r \in Range(TxSizes) \cup Range(RxSizes)
                 PROVE  Ends(r, SizeAsked(r))'
      BY <2>1 DEF SizesOnCourse, SizeDue
    <3>1. Mark # <<>>
      BY TablesFit DEF Mark
    <3>2. Yields(r, CopiesOf(r), InitSteps, SizeAsked(r))
      BY <3>1, InitYields DEF CopiesOf
    <3>3. PICK v : v = SizeAsked(r)
      OBVIOUS
    <3>4. Ends(r, v)'
      BY <3>2, <3>3, <2>1, <2>2
    <3> QED  BY <3>3, <3>4 DEF SizeAsked
  <2> QED  BY <2>2, <2>3, <2>4, <2>5, <2>6 DEF OnCourse
<1> QED  BY <1>2, <1>3

LEMMA SoftResetCall == OnCourse /\ CallSoftReset => OnCourse'
<1> SUFFICES ASSUME OnCourse, CallSoftReset PROVE OnCourse'
  OBVIOUS
<1>1. /\ AtRest /\ UNCHANGED <<Bus, initialized>> /\ todo' = SwReset /\ sized' = FALSE
      /\ wanted' = [wanted EXCEPT !.phy = ConfOf(PhyDefault), !.down = FALSE]
  BY DEF CallSoftReset
<1>2. SwReset \in Seq(SetupStep)
  BY SwResetSteps, CallSteps
<1>3. SetupTypes' /\ \A r, v : Yields(r, CopiesOf(r), todo', v) => Ends(r, v)'
  BY <1>1, <1>2, CallMade DEF OnCourse
<1>4. /\ WantedTypes' /\ wanted'.addresses = wanted.addresses
      /\ wanted'.phy = ConfOf(PhyDefault) /\ wanted'.down = FALSE
  BY <1>1 DEF OnCourse, WantedTypes
<1>5. AddressesOnCourse'
  <2>1. ASSUME NEW r \in Addresses PROVE Ends(r, wanted.addresses[r])'
    <3>1. PICK v : v = chip[r]
      OBVIOUS
    <3>2. Yields(r, CopiesOf(r), SwReset, v)
      BY <3>1, SwResetRuns, YieldsCopies DEF CopiesOf
    <3>3. Ends(r, v)'
      BY <3>2, <1>1, <1>3
    <3>4. wanted'.addresses[r] = v
      BY <3>1, <1>1, <1>4, RestAsAsked
    <3> QED  BY <3>3, <3>4 DEF Ends
  <2> QED  BY <2>1 DEF AddressesOnCourse
<1>6. PhyOnCourse'
  <2>1. "PHYCFGR" \in Registers \ Addresses /\ "PHYCFGR" # "MR"
    BY RegisterNames
  <2>2. Yields("PHYCFGR", CopiesOf("PHYCFGR"), SwReset, PhyDefault)
    BY <2>1, SwResetRuns, BlankValues, YieldsCopies DEF CopiesOf
  <2>3. PICK p : p = PhyDefault
    OBVIOUS
  <2>4. Ends("PHYCFGR", p)'
    BY <2>2, <2>3, <1>1, <1>3
  <2>5. PhyMeets(p)'
    BY <2>3, <1>4 DEF PhyMeets, PhyDefault, PhyRegister
  <2> QED  BY <2>4, <2>5 DEF PhyOnCourse
<1>7. SizesOnCourse'
  <2>1. ASSUME NEW r \in Range(TxSizes) \cup Range(RxSizes) PROVE Ends(r, DefaultSize)'
    <3>1. r \in Registers \ Addresses /\ r # "MR" /\ Blank[r] = DefaultSize
      BY RegisterNames, BlankValues DEF DefaultSize
    <3>2. Yields(r, CopiesOf(r), SwReset, DefaultSize)
      BY <3>1, SwResetRuns, YieldsCopies DEF CopiesOf
    <3>3. PICK v : v = DefaultSize
      OBVIOUS
    <3>4. Ends(r, v)'
      BY <3>2, <3>3, <1>1, <1>3
    <3> QED  BY <3>3, <3>4 DEF DefaultSize
  <2> QED  BY <2>1, <1>1 DEF SizesOnCourse, SizeDue
<1> QED  BY <1>3, <1>4, <1>5, <1>6, <1>7 DEF OnCourse

LEMMA HardResetCall == OnCourse /\ CallHardReset => OnCourse'
<1> SUFFICES ASSUME OnCourse, CallHardReset PROVE OnCourse'
  OBVIOUS
<1>1. /\ AtRest /\ initialized' = FALSE
      /\ UNCHANGED <<spif, spie, phase, todo, local, info, registered>>
  BY DEF CallHardReset
<1>2. \/ /\ chip' = Blank /\ sized' = FALSE
         /\ wanted' = [addresses |-> [r \in Addresses |-> Zero],
                       phy |-> ConfOf(PhyDefault), down |-> FALSE]
      \/ UNCHANGED <<chip, wanted, sized>>
  BY DEF CallHardReset
<1>3. AtRest' /\ Remaining' = <<>>
  BY <1>1 DEF AtRest, Remaining
<1>4. SetupTypes'
  BY <1>1, <1>2, BlankValues DEF OnCourse, SetupTypes
<1>5. WantedTypes'
  <2>1. CASE UNCHANGED <<chip, wanted>>
    BY <2>1 DEF OnCourse, WantedTypes
  <2>2. CASE wanted' = [addresses |-> [r \in Addresses |-> Zero], phy |-> ConfOf(PhyDefault),
                        down |-> FALSE]
    <3>1. /\ wanted'.addresses = [r \in Addresses |-> Zero] /\ wanted'.down = FALSE
          /\ wanted' = [addresses |-> wanted'.addresses, phy |-> wanted'.phy,
                        down |-> wanted'.down]
      BY <2>2
    <3>2. wanted'.addresses = [r \in Addresses |-> wanted'.addresses[r]]
      BY <3>1
    <3> QED  BY <3>1, <3>2 DEF WantedTypes
  <2> QED  BY <2>1, <2>2, <1>2
<1>6. ASSUME NEW r, NEW v, chip'[r] = v PROVE Ends(r, v)'
  <2>1. CopiesOf(r)'.chip = v
    BY <1>6 DEF CopiesOf, Copies
  <2>2. Runs(r, CopiesOf(r)', Remaining', CopiesOf(r)')
    BY <1>3, RunNone
  <2> QED  BY <2>1, <2>2 DEF Ends, Yields
<1>7. \A r \in Addresses : chip'[r] = wanted'.addresses[r]
  BY <1>1, <1>2, BlankValues, RestAsAsked
<1>8. AddressesOnCourse'
  <2>1. ASSUME NEW r \in Addresses PROVE Ends(r, wanted.addresses[r])'
    <3>1. PICK v : v = chip'[r]
      OBVIOUS
    <3> QED  BY <3>1, <1>6, <1>7 DEF Ends
  <2> QED  BY <2>1 DEF AddressesOnCourse
<1>9. PhyOnCourse'
  <2>1. PICK p : p = chip'["PHYCFGR"]
    OBVIOUS
  <2>2. PhyMeets(p)'
    <3>1. CASE UNCHANGED <<chip, wanted>>
      <4>1. PhyMeets(p)
        BY <2>1, <3>1, <1>1, RestAsAsked
      <4> QED  BY <3>1, <4>1 DEF PhyMeets
    <3>2. CASE chip' = Blank /\ wanted' = [addresses |-> [r \in Addresses |-> Zero],
                                          phy |-> ConfOf(PhyDefault), down |-> FALSE]
      <4>1. p = PhyDefault /\ wanted'.phy = ConfOf(PhyDefault) /\ wanted'.down = FALSE
        BY <2>1, <3>2, BlankValues
      <4>2. PhyDefault \in PhyRegister /\ PhyDefault.up /\ PhyDefault.op # "PDOWN"
        BY DEF PhyDefault, PhyRegister
      <4> QED  BY <4>1, <4>2 DEF PhyMeets
    <3> QED  BY <3>1, <3>2, <1>2
  <2> QED  BY <2>1, <2>2, <1>6 DEF PhyOnCourse
<1>10. SizesOnCourse'
  <2>1. ASSUME NEW r \in Range(TxSizes) \cup Range(RxSizes) PROVE Ends(r, SizeDue(r))'
    <3>1. chip[r] = SizeDue(r) /\ Blank[r] = DefaultSize
      BY <1>1, RestAsAsked, RegisterNames, BlankValues DEF DefaultSize
    <3>2. PICK v : v = chip'[r]
      OBVIOUS
    <3>3. SizeDue(r)' = v
      BY <3>1, <3>2, <1>2 DEF SizeDue, SizeAsked
    <3>4. Ends(r, v)'
      BY <3>2, <1>6
    <3> QED  BY <3>3, <3>4
  <2> QED  BY <2>1 DEF SizesOnCourse
<1> QED  BY <1>4, <1>5, <1>8, <1>9, <1>10 DEF OnCourse

LEMMA SetAddressCall == OnCourse /\ CallSetAddress => OnCourse'
<1> SUFFICES ASSUME OnCourse, CallSetAddress PROVE OnCourse'
  OBVIOUS
<1>1. PICK x \in Addresses, v \in Octets :
        todo' = SetAddress(x, v) /\ wanted' = [wanted EXCEPT !.addresses[x] = v]
  BY DEF CallSetAddress
<1>2. AtRest /\ UNCHANGED <<Bus, initialized, sized>>
  BY DEF CallSetAddress
<1>3. /\ WantedTypes' /\ wanted'.phy = wanted.phy /\ wanted'.down = wanted.down
      /\ \A r \in Addresses : wanted'.addresses[r] = IF r = x THEN v ELSE wanted.addresses[r]
  <2>1. wanted' = [addresses |-> [wanted.addresses EXCEPT ![x] = v], phy |-> wanted.phy,
                   down |-> wanted.down]
    BY <1>1 DEF OnCourse, WantedTypes
  <2> QED  BY <2>1 DEF OnCourse, WantedTypes
<1>4. ASSUME NEW r \in Addresses PROVE Yields(r, CopiesOf(r), todo', wanted'.addresses[r])
  <2>1. CASE r = x
    <3>1. Yields(r, CopiesOf(r), SetAddress(x, v), v)
      BY <2>1, SetAddressRuns, YieldsCopies DEF CopiesOf
    <3> QED  BY <3>1, <2>1, <1>1, <1>3
  <2>2. CASE r # x
    <3>1. Yields(r, CopiesOf(r), SetAddress(x, v), chip[r])
      BY <2>2, SetAddressRuns, YieldsCopies DEF CopiesOf
    <3>2. chip[r] = wanted.addresses[r]
      BY <1>2, RestAsAsked
    <3> QED  BY <3>1, <3>2, <2>2, <1>1, <1>3
  <2> QED  BY <2>1, <2>2
<1>5. \A r \in Watched \ Addresses : Yields(r, CopiesOf(r), todo', chip[r])
  BY <1>1, SetAddressRuns, YieldsCopies, WatchedNames DEF CopiesOf
<1>6. /\ "PHYCFGR" \in Watched \ Addresses
      /\ \A r \in Range(TxSizes) \cup Range(RxSizes) : r \in Watched \ Addresses
  BY RegisterNames DEF Watched
<1>7. PICK p : p = chip["PHYCFGR"]
  OBVIOUS
<1>8. PhyMeets(p)
  BY <1>2, <1>7, RestAsAsked
<1>9. PhyMeets(p)'
  BY <1>3, <1>8 DEF PhyMeets
<1>10. todo' \in Seq(CallStep)
  BY <1>1, SetAddressRuns
<1>11. Yields("PHYCFGR", CopiesOf("PHYCFGR"), todo', p)
  BY <1>5, <1>6, <1>7
<1>12. \A r \in Range(TxSizes) \cup Range(RxSizes) : Yields(r, CopiesOf(r), todo', chip[r])
  BY <1>5, <1>6
<1> QED  BY <1>2, <1>3, <1>4, <1>9, <1>10, <1>11, <1>12, OtherCall

LEMMA NetCall == OnCourse /\ CallNet => OnCourse'
<1> SUFFICES ASSUME OnCourse, CallNet PROVE OnCourse'
  OBVIOUS
<1>1. /\ AtRest /\ UNCHANGED <<Bus, initialized, sized>> /\ UNCHANGED wanted
      /\ todo' \in {GetNetInfo, GetNetMode, GetTimeout, GetPhy}
                     \cup {SetNetMode(m) : m \in NetModes} \cup {SetTimeout(t) : t \in Timeouts}
  BY DEF CallNet
<1>2. chip["MR"] \in SUBSET NetModes
  BY RegisterNames, ValuesOf DEF OnCourse, SetupTypes
<1>3. /\ todo' \in Seq(CallStep)
      /\ \A r \in Watched : \A c, l, f : Yields(r, Copies(c, l, f), todo', c)
  <2> SUFFICES ASSUME NEW q, q = todo'
               PROVE  /\ q \in Seq(CallStep)
                      /\ \A r \in Watched : \A c, l, f : Yields(r, Copies(c, l, f), q, c)
    OBVIOUS
  <2> QED  BY <1>1, <1>2, NetYields
<1>4. PICK p : p = chip["PHYCFGR"]
  OBVIOUS
<1>5. PhyMeets(p)'
  <2>1. PhyMeets(p)
    BY <1>1, <1>4, RestAsAsked
  <2> QED  BY <2>1, <1>1 DEF PhyMeets
<1>6. Yields("PHYCFGR", CopiesOf("PHYCFGR"), todo', p)
  BY <1>3, <1>4 DEF CopiesOf, Watched
<1>7. WantedTypes'
  BY <1>1 DEF OnCourse, WantedTypes
<1> QED  BY <1>1, <1>3, <1>5, <1>6, <1>7, PhyCall

\* Everything but RST is as it was asked for, and the reset raises RST.
LEMMA PhyBitsMeet ==
  ASSUME NEW x \in PhyConf
  PROVE  /\ [PhyBits(x) EXCEPT !.up = TRUE] \in PhyRegister
         /\ ConfOf([PhyBits(x) EXCEPT !.up = TRUE]) = x
         /\ [PhyBits(x) EXCEPT !.up = TRUE].op # "PDOWN"
<1> DEFINE p == [PhyBits(x) EXCEPT !.up = TRUE]
<1>1. \/ x \in [by: {"HW", "SW"}, mode: {"manual"}, speed: Speeds, duplex: Duplexes]
      \/ x \in [by: {"HW", "SW"}, mode: {"auto"}, speed: {10}, duplex: {"half"}]
  BY DEF PhyConf
<1>2. CASE x \in [by: {"HW", "SW"}, mode: {"auto"}, speed: {10}, duplex: {"half"}]
  <2>1. PhyBits(x) \in PhyRegister /\ PhyBits(x).by = x.by /\ PhyBits(x).op = "ALLA"
    BY <1>2 DEF PhyBits, PhyRegister
  <2>3. p.by = x.by /\ p.op = "ALLA" /\ p \in PhyRegister
    BY <2>1 DEF PhyRegister
  <2>4. x = [by |-> x.by, mode |-> "auto", speed |-> 10, duplex |-> "half"]
    BY <1>2
  <2> HIDE DEF p
  <2>5. ConfOf(p) = [by |-> x.by, mode |-> "auto", speed |-> 10, duplex |-> "half"]
    BY <2>3 DEF ConfOf
  <2>6. ConfOf(p) = x
    BY <2>4, <2>5
  <2> QED  BY <2>3, <2>6 DEF p
<1>3. CASE x \in [by: {"HW", "SW"}, mode: {"manual"}, speed: Speeds, duplex: Duplexes]
  <2> DEFINE op == IF x.speed = 100 THEN IF x.duplex = "full" THEN "100F" ELSE "100H"
                   ELSE IF x.duplex = "full" THEN "10F" ELSE "10H"
  <2>1. /\ x = [by |-> x.by, mode |-> "manual", speed |-> x.speed, duplex |-> x.duplex]
        /\ x.by \in {"HW", "SW"} /\ x.mode = "manual" /\ x.speed \in {10, 100}
        /\ x.duplex \in {"half", "full"}
    BY <1>3, SetupAssumption
  <2>2. PhyBits(x).by = x.by /\ PhyBits(x).op = op /\ PhyBits(x) \in PhyRegister
    <3>1. CASE x.speed = 100
      BY <2>1, <3>1 DEF PhyBits, PhyRegister
    <3>2. CASE x.speed = 10
      BY <2>1, <3>2 DEF PhyBits, PhyRegister
    <3> QED  BY <2>1, <3>1, <3>2
  <2>3. op \in {"100F", "100H", "10F", "10H"}
    OBVIOUS
  <2>4. (IF op \in {"100F", "100H"} THEN 100 ELSE 10) = x.speed
    BY <2>1
  <2>5. (IF op \in {"100F", "10F"} THEN "full" ELSE "half") = x.duplex
    BY <2>1
  <2> HIDE DEF op
  <2>6. p.by = x.by /\ p.op = op /\ p \in PhyRegister
    BY <2>2 DEF PhyRegister
  <2>7. op # "ALLA" /\ op # "PDOWN"
    BY <2>3
  <2> HIDE DEF p
  <2>8. ConfOf(p) = [by |-> x.by, mode |-> "manual", speed |-> x.speed, duplex |-> x.duplex]
    BY <2>4, <2>5, <2>6, <2>7 DEF ConfOf
  <2>9. ConfOf(p) = x
    BY <2>1, <2>8
  <2> QED  BY <2>6, <2>7, <2>9 DEF p
<1> QED  BY <1>1, <1>2, <1>3

LEMMA SetPhyConfCall == OnCourse /\ CallSetPhyConf => OnCourse'
<1> SUFFICES ASSUME OnCourse, CallSetPhyConf PROVE OnCourse'
  OBVIOUS
<1>1. PICK x \in PhyConf :
        todo' = SetPhyConf(x) /\ wanted' = [wanted EXCEPT !.phy = x, !.down = FALSE]
  BY DEF CallSetPhyConf
<1>2. AtRest /\ UNCHANGED <<Bus, initialized, sized>>
  BY DEF CallSetPhyConf
<1>3. /\ WantedTypes' /\ wanted'.addresses = wanted.addresses
      /\ wanted'.phy = x /\ wanted'.down = FALSE
  BY <1>1 DEF OnCourse, WantedTypes
<1>4. PICK p : p = [PhyBits(x) EXCEPT !.up = TRUE]
  OBVIOUS
<1>5. PhyMeets(p)'
  <2>1. p.up
    BY <1>4 DEF PhyBits
  <2>2. p \in PhyRegister /\ ConfOf(p) = x /\ p.op # "PDOWN"
    BY <1>4, PhyBitsMeet
  <2> QED  BY <2>1, <2>2, <1>3 DEF PhyMeets
<1>6. /\ todo' \in Seq(CallStep)
      /\ \A r \in Watched \ {"PHYCFGR"} : \A c, l, f : Yields(r, Copies(c, l, f), todo', c)
  BY <1>1, SetPhyConfYields
<1>7. Yields("PHYCFGR", CopiesOf("PHYCFGR"), todo', p)
  BY <1>1, <1>4, SetPhyConfYields DEF CopiesOf
<1> QED  BY <1>2, <1>3, <1>5, <1>6, <1>7, PhyCall

LEMMA SetPhyPowerCall == OnCourse /\ CallSetPhyPower => OnCourse'
<1> SUFFICES ASSUME OnCourse, CallSetPhyPower PROVE OnCourse'
  OBVIOUS
<1>1. PICK d \in BOOLEAN, op \in {"PDOWN", "ALLA"} :
        /\ op = (IF d THEN "PDOWN" ELSE "ALLA") /\ todo' = SetPhyPower(op)
        /\ wanted' = IF wanted.phy.by = "HW" THEN wanted
                     ELSE [wanted EXCEPT !.phy = ConfOf([PhyDefault EXCEPT !.by = "SW", !.op = op]),
                                         !.down = d]
  BY DEF CallSetPhyPower
<1>2. AtRest /\ UNCHANGED <<Bus, initialized, sized>>
  BY DEF CallSetPhyPower
<1> DEFINE now == chip["PHYCFGR"]
           conf == ConfOf([PhyDefault EXCEPT !.by = "SW", !.op = op])
<1>3. now \in PhyRegister /\ now.up /\ ConfOf(now) = wanted.phy /\ (now.op = "PDOWN") = wanted.down
  BY <1>2, RestAsAsked DEF PhyMeets
<1>4. wanted.phy.by = now.by /\ now.by \in {"HW", "SW"}
  BY <1>3 DEF ConfOf, PhyRegister
<1>5. PICK p : p = IF now.by = "SW" THEN [now EXCEPT !.op = op, !.up = TRUE] ELSE now
  OBVIOUS
<1>6. /\ todo' \in Seq(CallStep)
      /\ \A r \in Watched \ {"PHYCFGR"} : \A c, l, f : Yields(r, Copies(c, l, f), todo', c)
      /\ Yields("PHYCFGR", CopiesOf("PHYCFGR"), todo', p)
  BY <1>1, <1>3, <1>5, SetPhyPowerYields DEF CopiesOf
<1>7. CASE now.by = "HW"
  <2>1. p = now /\ UNCHANGED wanted
    BY <1>1, <1>4, <1>5, <1>7
  <2>2. PhyMeets(p)'
    BY <2>1, <1>3 DEF PhyMeets
  <2>3. WantedTypes' /\ wanted'.addresses = wanted.addresses
    BY <2>1 DEF OnCourse, WantedTypes
  <2> QED  BY <2>2, <2>3, <1>2, <1>6, PhyCall
<1>8. CASE now.by = "SW"
  <2>1. p = [now EXCEPT !.op = op, !.up = TRUE]
    BY <1>5, <1>8
  <2>2. p \in PhyRegister /\ p.up /\ p.op = op /\ p.by = "SW"
    BY <2>1, <1>3, <1>8 DEF PhyRegister
  <2>3. wanted' = [wanted EXCEPT !.phy = conf, !.down = d]
    BY <1>1, <1>4, <1>8
  <2> HIDE DEF conf
  <2>4. /\ WantedTypes' /\ wanted'.addresses = wanted.addresses
        /\ wanted'.phy = conf /\ wanted'.down = d
    BY <2>3 DEF OnCourse, WantedTypes
  <2>5. conf = ConfOf(p)
    <3> DEFINE q == [PhyDefault EXCEPT !.by = "SW", !.op = op]
    <3>1. q.by = "SW" /\ q.op = op
      BY DEF PhyDefault
    <3> HIDE DEF q
    <3>2. ConfOf(q) = ConfOf(p)
      BY <2>2, <3>1 DEF ConfOf
    <3> QED  BY <3>2 DEF conf, q
  <2>6. (op = "PDOWN") = d
    BY <1>1
  <2>7. PhyMeets(p)'
    BY <2>2, <2>4, <2>5, <2>6 DEF PhyMeets
  <2> QED  BY <2>4, <2>7, <1>2, <1>6, PhyCall
<1> QED  BY <1>4, <1>7, <1>8

-----------------------------------------------------------------------------

LEMMA OnCourseInit == SetupInit => OnCourse
<1> SUFFICES ASSUME SetupInit PROVE OnCourse
  OBVIOUS
<1> USE DEF SetupInit
<1>1. SetupTypes
  <2>1. info = [r \in Addresses |-> info[r]] /\ \A r \in Addresses : info[r] \in Octets \cup {Zero}
    OBVIOUS
  <2>2. /\ chip = [r \in Registers |-> chip[r]] /\ \A r \in Registers : chip[r] \in RegisterValue(r)
        /\ local = [r \in Registers |-> local[r]]
        /\ \A r \in Registers : local[r] \in RegisterValue(r)
    BY BlankValues
  <2>3. todo \in Seq(SetupStep) /\ phase \in Phases /\ phase = "idle"
    BY DEF Phases
  <2>4. /\ spif \in BOOLEAN /\ spie \in BOOLEAN
        /\ registered \in BOOLEAN /\ initialized \in BOOLEAN /\ sized \in BOOLEAN
    OBVIOUS
  <2> HIDE DEF SetupInit
  <2> QED  BY <2>1, <2>2, <2>3, <2>4 DEF SetupTypes
<1>2. /\ wanted.addresses = info /\ wanted.phy = ConfOf(PhyDefault) /\ wanted.down = FALSE
      /\ WantedTypes
  BY DEF WantedTypes
<1>3. \A r, v : Ends(r, v) <=> chip[r] = v
  BY EndsAtRest DEF AtRest
<1>4. AddressesOnCourse
  BY <1>2, <1>3, BlankValues DEF AddressesOnCourse
<1>5. PhyOnCourse
  <2>1. PhyMeets(PhyDefault)
    BY <1>2 DEF PhyMeets, PhyDefault, PhyRegister
  <2> QED  BY <2>1, <1>3, BlankValues DEF PhyOnCourse
<1>6. SizesOnCourse
  BY <1>3, RegisterNames, BlankValues DEF SizesOnCourse, SizeDue, DefaultSize
<1> QED  BY <1>1, <1>2, <1>4, <1>5, <1>6 DEF OnCourse

LEMMA OnCourseStep == OnCourse /\ [SetupNext]_setup_vars => OnCourse'
<1> SUFFICES ASSUME OnCourse, [SetupNext]_setup_vars PROVE OnCourse'
  OBVIOUS
<1>1. CASE UNCHANGED setup_vars
  BY <1>1 DEF setup_vars, OnCourse, SetupTypes, WantedTypes, AddressesOnCourse, PhyOnCourse,
     SizesOnCourse, SizeDue, PhyMeets, Ends, Remaining, CopiesOf
<1>2. CASE \/ CallInit \/ CallSoftReset \/ CallHardReset \/ CallSetAddress \/ CallNet
           \/ CallSetPhyConf \/ CallSetPhyPower
  BY <1>2, InitCall, SoftResetCall, HardResetCall, SetAddressCall, NetCall, SetPhyConfCall,
     SetPhyPowerCall
<1>3. CASE Compute \/ Select \/ Shift \/ HeaderTaken \/ DataTaken \/ Deselect
  BY <1>3, WorkStep
<1> QED  BY <1>1, <1>2, <1>3 DEF SetupNext

\* Every call, run to its end, leaves addresses and PHY as they were asked for
\* and the buffers as init() or a reset sizes them (W5500Interface.cpp:49-91,
\* 125-157, wizchip_conf.c:395-498, 740-907).
THEOREM CallsKeepCourse == SetupSpec => []OnCourse
BY OnCourseInit, OnCourseStep, PTL DEF SetupSpec

LEMMA SetupTypesOK == OnCourse => SetupTypeOK
<1> SUFFICES ASSUME OnCourse PROVE SetupTypeOK
  OBVIOUS
<1> USE DEF OnCourse, SetupTypes
<1>1. \A r \in Addresses : chip[r] \in Octets \cup {Zero} /\ info[r] \in Octets \cup {Zero}
  BY RegisterNames, ValuesOf
<1>2. chip["MR"] \subseteq NetModes /\ chip["PHYCFGR"] \in PhyRegister
  BY RegisterNames, ValuesOf
<1>3. \A r \in TimeoutRegisters : chip[r] \in Timeouts \cup {Default}
  BY RegisterNames, ValuesOf DEF TimeoutRegisters
<1>4. \A r \in Range(TxSizes) \cup Range(RxSizes) : chip[r] \in {1, 2, 4, 8, 16}
  <2>1. \A r \in Range(TxSizes) \cup Range(RxSizes) :
          r \in Registers /\ RegisterValue(r) = {1, 2, 4}
    BY RegisterNames, ValuesOf
  <2> QED  BY <2>1
<1> QED  BY <1>1, <1>2, <1>3, <1>4 DEF SetupTypeOK, Phases

\* Between two calls the chip has its addresses, and its PHY works, as they
\* were set last, whatever setters and resets came in between
\* (W5500Interface.cpp:73-91, 125-157, wizchip_conf.c:395-418, 740-863).
THEOREM ChipStaysConfigured == SetupSpec => []ChipAsConfigured
<1>1. OnCourse => ChipAsConfigured
  BY SetupTypesOK, RestAsAsked DEF ChipAsConfigured, AddressesKept, PhyAsConfigured, PhyMeets
<1> QED  BY <1>1, CallsKeepCourse, PTL

\* What memory the sockets have, after any calls: 4 KB to send and 1 KB to
\* receive for socket 0 and 17 KB to send for all once init() has given it out,
\* 2 KB for each after a reset, for good after soft_reset()
\* (W5500Interface.cpp:49-91, wizchip_conf.c:293-301, 420-498).
THEOREM BuffersStayAssigned == SetupSpec => []BuffersAssigned
<1>1. OnCourse => BuffersAssigned
  <2> SUFFICES ASSUME OnCourse, AtRest PROVE BuffersAssigned
    BY DEF BuffersAssigned
  <2>1. /\ chip["Sn_TXBUF_SIZE(0)"] = IF sized THEN 4 ELSE DefaultSize
        /\ chip["Sn_TXBUF_SIZE(1)"] = IF sized THEN 1 ELSE DefaultSize
        /\ chip["Sn_RXBUF_SIZE(0)"] = IF sized THEN 1 ELSE DefaultSize
        /\ chip["Sn_RXBUF_SIZE(1)"] = IF sized THEN 1 ELSE DefaultSize
    BY RegisterNames, RestAsAsked DEF SizeDue, SizeAsked
  <2>2. /\ TxSizes[1] = "Sn_TXBUF_SIZE(0)" /\ TxSizes[2] = "Sn_TXBUF_SIZE(1)"
        /\ RxSizes[1] = "Sn_RXBUF_SIZE(0)" /\ RxSizes[2] = "Sn_RXBUF_SIZE(1)"
    BY DEF TxSizes, RxSizes
  <2> QED  BY <2>1, <2>2 DEF BuffersAssigned, Taken, ChipSockets, SocketNum, DefaultSize
<1> QED  BY <1>1, CallsKeepCourse, PTL

-----------------------------------------------------------------------------
(* The inductive invariant. *)

\* What has not been acknowledged.
Unacked == (tx_end - tx_acked) % PtrWrap

\* Flow control holds on both sides.
WithinBuffers == Received <= Size /\ Unacked <= Size

\* A size is being read.  While it is, it can only grow.
InReading == pc \in {"hi1", "lo1", "hi2", "lo2", "sized"}

\* The registers held v at some time during the reading.
Held(v) == start <= v /\ v <= Sized

\* A first reading that is not a value the registers held lies below what the
\* upper byte says by now, so that no second reading can confirm it.
SizeGrows ==
  /\ InReading => start <= Sized
  /\ pc = "lo1" => Base * hi <= Sized
  /\ pc = "hi2" => Held(val1) \/ val1 < Base * (Sized \div Base)
  /\ pc = "lo2" => Base * hi <= Sized /\ (Held(val1) \/ val1 < Base * hi)
  /\ pc = "sized" => val = 0 \/ Held(val)

\* Pointers and counters of the copying; while nothing is copied, the host's
\* pointers are those the chip has taken.
Copying ==
  /\ pc \in {"load", "recv"} => want <= Received /\ ptr = rx_free
  /\ pc \in {"store", "send"} => want <= Room /\ ptr = tx_end
  /\ rx_rd = IF pc = "recv" THEN (ptr + want) % PtrWrap ELSE rx_free
  /\ tx_wr = IF pc = "send" THEN (ptr + want) % PtrWrap ELSE tx_end
  /\ done = CASE pc \in {"load", "store"} -> done
              [] pc \in {"recv", "send"}  -> want
              [] OTHER -> 0
  /\ InReading /\ caller = "room" => want > 0

\* What is copied into the transmit buffer is what the caller gave.
Stored ==
  pc \in {"store", "send"} =>
    \A i \in 0 .. done - 1 : tx_mem[Cell(ptr + i)] = (said + i) % PtrWrap

IInv == TypeOK /\ WithinBuffers /\ SizeGrows /\ Copying /\ Stored /\ SentIntact

-----------------------------------------------------------------------------
(* Pointers and cells. *)

LEMMA Widths ==
  /\ Base \in Nat \ {0} /\ PtrWrap \in Nat \ {0} /\ Size \in Nat \ {0}
  /\ Size < PtrWrap /\ Size < Base * Base
  /\ RecvMax \in Nat \ {0} /\ SendMax \in 1 .. Size
<1>1. Size \in Nat \ {0} /\ PtrWrap \in Nat /\ Size < PtrWrap
  BY SizeAssumption
<1>2. PtrWrap \in Nat \ {0}
  BY <1>1
<1> QED  BY <1>1, <1>2, SizeAssumption

\* A number is told from its remainder by a multiple of the modulus.
LEMMA Multiple ==
  ASSUME NEW x \in Int, NEW m \in Nat \ {0}
  PROVE  \E q \in Int : x = m * q + (x % m)
<1>1. x \div m \in Int /\ x % m = x - m * (x \div m)
  OBVIOUS
<1>2. \A a, b, c \in Int : a = b - c => b = c + a
  OBVIOUS
<1>3. m * (x \div m) \in Int /\ x % m \in Int
  BY <1>1
<1>4. x = m * (x \div m) + (x % m)
  BY <1>1, <1>2, <1>3
<1> QED  BY <1>1, <1>4

\* And by no other multiple.
LEMMA Remainder ==
  ASSUME NEW q \in Int, NEW m \in Nat \ {0}, NEW r \in 0 .. m - 1
  PROVE  (m * q + r) % m = r
  OBVIOUS

\* Distances between pointers.
LEMMA Ahead ==
  ASSUME NEW a \in Pointers, NEW b \in Pointers, NEW n \in Nat, ((a - b) % PtrWrap) + n < PtrWrap
  PROVE  (((a + n) % PtrWrap) - b) % PtrWrap = ((a - b) % PtrWrap) + n
  BY Widths DEF Pointers

LEMMA Behind ==
  ASSUME NEW a \in Pointers, NEW b \in Pointers, NEW n \in Nat, n <= (a - b) % PtrWrap
  PROVE  (a - ((b + n) % PtrWrap)) % PtrWrap = ((a - b) % PtrWrap) - n
  BY Widths DEF Pointers

\* Only the place within the buffer decides on the cell.
LEMMA CellIsPlace == \A p \in Int : Cell(p) = p % Size /\ Cell(p) \in 0 .. Size - 1
<1> SUFFICES ASSUME NEW p \in Int PROVE Cell(p) = p % Size /\ Cell(p) \in 0 .. Size - 1
  OBVIOUS
<1>1. PICK k \in Int : PtrWrap = Size * k + (PtrWrap % Size)
  <2>1. PtrWrap \in Int
    BY Widths
  <2> QED  BY <2>1, Widths, Multiple
<1>2. PtrWrap = Size * k
  BY <1>1, SizeAssumption
<1>3. PICK q \in Int : p = PtrWrap * q + (p % PtrWrap)
  BY Widths, Multiple
<1>4. p % PtrWrap \in Int
  BY Widths
<1>5. PICK a \in Int : p % PtrWrap = Size * a + ((p % PtrWrap) % Size)
  BY <1>4, Widths, Multiple
<1> DEFINE r == (p % PtrWrap) % Size
<1>6. r \in 0 .. Size - 1
  BY <1>4, Widths
<1>7. p = Size * (k * q + a) + r
  <2>1. p = (Size * k) * q + (Size * a + r)
    <3>1. p % PtrWrap = Size * a + r
      BY <1>5
    <3>2. PtrWrap * q = (Size * k) * q
      BY <1>2
    <3> HIDE DEF r
    <3> QED  BY <1>3, <3>1, <3>2, Zenon
  <2> HIDE DEF r
  <2>2. (Size * k) * q + (Size * a + r) = Size * (k * q + a) + r
    BY <1>6, Widths
  <2> QED  BY <2>1, <2>2
<1> HIDE DEF r
<1>8. k * q + a \in Int
  OBVIOUS
<1>9. p % Size = r
  BY <1>6, <1>7, <1>8, Widths, Remainder
<1> QED  BY <1>6, <1>9 DEF Cell, r

\* Different places that lie less than a buffer apart have different cells.
LEMMA CellsApart ==
  ASSUME NEW p \in Int, NEW n \in 1 .. Size - 1
  PROVE  Cell(p + n) # Cell(p)
<1>1. PICK q \in Int : p = Size * q + (p % Size)
  BY Widths, Multiple
<1>2. PICK t \in Int : p + n = Size * t + ((p + n) % Size)
  <2>1. p + n \in Int
    OBVIOUS
  <2> QED  BY <2>1, Widths, Multiple
<1>3. CASE p % Size = (p + n) % Size
  <2>1. n = Size * t - Size * q
    BY <1>1, <1>2, <1>3, Widths
  <2>2. CASE t > q
    BY <2>1, <2>2, Widths
  <2>3. CASE t <= q
    BY <2>1, <2>3, Widths
  <2> QED  BY <2>2, <2>3
<1>4. CASE p % Size # (p + n) % Size
  <2>1. Cell(p) = p % Size /\ Cell(p + n) = (p + n) % Size
    BY CellIsPlace
  <2> QED  BY <1>4, <2>1
<1> QED  BY <1>3, <1>4

\* A pointer may be reduced before something is added to it.
LEMMA ReduceFirst ==
  ASSUME NEW p \in Int, NEW n \in Int
  PROVE  ((p % PtrWrap) + n) % PtrWrap = (p + n) % PtrWrap
<1>1. PICK q \in Int : p = PtrWrap * q + (p % PtrWrap)
  BY Widths, Multiple
<1>2. (p % PtrWrap) + n \in Int
  BY Widths
<1> DEFINE r == ((p % PtrWrap) + n) % PtrWrap
<1>3. PICK t \in Int : (p % PtrWrap) + n = PtrWrap * t + r
  BY <1>2, Widths, Multiple
<1>4. r \in 0 .. PtrWrap - 1
  BY <1>2, Widths
<1>5. p + n = PtrWrap * q + PtrWrap * t + r
  <2>1. p % PtrWrap \in Int /\ PtrWrap * q \in Int /\ PtrWrap * t \in Int /\ r \in Int
    BY <1>2, Widths
  <2> HIDE DEF r
  <2>2. \A a, b, c, d \in Int : p = a + b /\ b + n = c + d => p + n = a + c + d
    OBVIOUS
  <2> QED  BY <1>1, <1>3, <2>1, <2>2
<1> HIDE DEF r
<1>6. p + n = PtrWrap * (q + t) + r
  BY <1>4, <1>5, Widths
<1>7. (PtrWrap * (q + t) + r) % PtrWrap = r
  <2>1. q + t \in Int
    OBVIOUS
  <2> QED  BY <1>4, <2>1, Widths, Remainder
<1> QED  BY <1>6, <1>7 DEF r

LEMMA ReducedCell ==
  ASSUME NEW p \in Int, NEW n \in Int
  PROVE  Cell((p % PtrWrap) + n) = Cell(p + n)
  BY ReduceFirst DEF Cell

LEMMA Between ==
  ASSUME NEW a \in Pointers, NEW b \in Pointers
  PROVE  /\ (a - b) % PtrWrap \in Nat
         /\ a # b => (a - b) % PtrWrap >= 1
  BY Widths DEF Pointers

\* A number put together from two bytes.
LEMMA Bytes ==
  ASSUME NEW s \in 0 .. Size
  PROVE  /\ s \div Base \in 0 .. Base - 1 /\ s % Base \in 0 .. Base - 1
         /\ s = Base * (s \div Base) + (s % Base)
<1>1. s \in Nat /\ s < Base * Base
  BY Widths
<1>2. s \div Base \in Int /\ s % Base \in 0 .. Base - 1
  BY <1>1, Widths
<1>3. Base * (s \div Base) <= s /\ s < Base * (s \div Base) + Base
  BY <1>1, Widths
<1>4. s \div Base >= 0 /\ s \div Base < Base
  BY <1>1, <1>2, <1>3, Widths
<1>5. s % Base = s - Base * (s \div Base)
  BY <1>1, Widths
<1>6. \A a, b, c \in Int : a = b - c => b = c + a
  OBVIOUS
<1>7. Base * (s \div Base) \in Int
  BY <1>2, Widths
<1>8. s = Base * (s \div Base) + (s % Base)
  BY <1>1, <1>2, <1>5, <1>6, <1>7
<1>9. s \div Base \in 0 .. Base - 1
  BY <1>2, <1>4, Widths
<1> QED  BY <1>2, <1>8, <1>9

LEMMA Together ==
  ASSUME NEW h \in 0 .. Base - 1, NEW l \in 0 .. Base - 1
  PROVE  Base * h + l \in 0 .. Base * Base - 1
<1>1. h + 1 <= Base /\ h >= 0 /\ Base \in Nat
  BY Widths
<1>2. Base * h >= 0 /\ Base * h + Base <= Base * Base
  BY <1>1
<1> QED  BY <1>1, <1>2, Widths

LEMMA UpperGrows ==
  ASSUME NEW s \in Int, NEW t \in Int, s <= t
  PROVE  Base * (s \div Base) <= Base * (t \div Base)
<1>1. s \div Base \in Int /\ t \div Base \in Int /\ s \div Base <= t \div Base
  BY Widths
<1> QED  BY <1>1, Widths

-----------------------------------------------------------------------------
(* What the sizes are, and how a step changes them. *)

LEMMA Ranges ==
  ASSUME TypeOK, WithinBuffers
  PROVE  /\ Received \in 0 .. Size /\ Unacked \in 0 .. Size
         /\ Room = Size - Unacked /\ Room \in 0 .. Size
         /\ \A c : SizeFor(c) \in 0 .. Size
         /\ Sized \in 0 .. Size
<1>1. Received \in 0 .. Size /\ Unacked \in 0 .. Size
  <2>1. Received \in Nat /\ Unacked \in Nat
    BY Between DEF TypeOK, Received, Unacked
  <2> QED  BY <2>1, Widths DEF WithinBuffers
<1>2. Room = Size - Unacked
  BY DEF Room, Unacked
<1>3. Room \in 0 .. Size
  BY <1>1, <1>2, Widths
<1> QED  BY <1>1, <1>2, <1>3 DEF SizeFor, Sized

\* The chip's own steps let both sizes grow, if they change them.
LEMMA ChipStep ==
  ASSUME IInv, Arrive \/ Ack \/ PeerFin
  PROVE  /\ TypeOK' /\ WithinBuffers'
         /\ UNCHANGED <<host, tx_end, rx_free, tx_mem>>
         /\ Received <= Received' /\ Unacked' <= Unacked
<1> USE DEF IInv
<1>1. CASE Arrive
  <2>1. rx_wr' = (rx_wr + 1) % PtrWrap /\ Received < Size
    BY <1>1 DEF Arrive
  <2>2. Received' = Received + 1
    BY <2>1, <1>1, Ranges, Widths, Ahead DEF Arrive, Received, TypeOK
  <2>3. Cell(rx_wr) \in 0 .. Size - 1 /\ rx_wr' \in Pointers
    <3>1. rx_wr \in Int
      BY Widths DEF TypeOK, Pointers
    <3>2. Cell(rx_wr) \in 0 .. Size - 1
      BY <3>1, CellIsPlace
    <3>3. rx_wr' \in Pointers
      BY <2>1, <3>1, Widths DEF Pointers
    <3> QED  BY <3>2, <3>3
  <2>4. rx_mem' \in [0 .. Size - 1 -> 0 .. PtrWrap]
    BY <1>1, <2>3, Widths DEF Arrive, TypeOK, Pointers
  <2>5. TypeOK'
    BY <1>1, <2>3, <2>4 DEF Arrive, TypeOK, host, reading, copying
  <2>6. Unacked' = Unacked
    BY <1>1 DEF Arrive, Unacked
  <2> QED  BY <1>1, <2>1, <2>2, <2>5, <2>6, Ranges, Widths
        DEF Arrive, WithinBuffers, host, copying
<1>2. CASE Ack
  <2>1. Unacked >= 1 /\ tx_acked' = (tx_acked + 1) % PtrWrap
    BY <1>2, Between DEF Ack, Unacked, TypeOK
  <2>2. Unacked' = Unacked - 1
    BY <1>2, <2>1, Behind DEF Ack, Unacked, TypeOK
  <2>3. tx_acked' \in Pointers
    BY <2>1, Widths DEF TypeOK, Pointers
  <2>4. TypeOK'
    BY <1>2, <2>3 DEF Ack, TypeOK, host, reading, copying
  <2>5. Received' = Received
    BY <1>2 DEF Ack, Received
  <2> QED  BY <1>2, <2>2, <2>4, <2>5, Ranges, Widths DEF Ack, WithinBuffers, host, copying
<1>3. CASE PeerFin
  <2>1. TypeOK'
    BY <1>3 DEF PeerFin, TypeOK, host, reading, copying
  <2>2. Received' = Received /\ Unacked' = Unacked
    BY <1>3 DEF PeerFin, Received, Unacked
  <2> QED  BY <1>3, <2>1, <2>2, Ranges DEF PeerFin, WithinBuffers, host, copying
<1> QED  BY <1>1, <1>2, <1>3

LEMMA RangesNext ==
  ASSUME TypeOK', WithinBuffers'
  PROVE  /\ Received' \in 0 .. Size /\ Unacked' \in 0 .. Size
         /\ Room' = Size - Unacked' /\ Room' \in 0 .. Size
         /\ \A c : SizeFor(c)' \in 0 .. Size
         /\ Sized' \in 0 .. Size
<1>1. Received' \in 0 .. Size /\ Unacked' \in 0 .. Size
  <2>1. Received' \in Nat /\ Unacked' \in Nat
    BY Between DEF TypeOK, Received, Unacked
  <2> QED  BY <2>1, Widths DEF WithinBuffers
<1>2. Room' = Size - Unacked'
  BY DEF Room, Unacked
<1>3. \A u \in 0 .. Size : Size - u \in 0 .. Size
  BY Widths
<1>4. Room' \in 0 .. Size
  BY <1>1, <1>2, <1>3, Zenon
<1> QED  BY <1>1, <1>2, <1>4 DEF SizeFor, Sized

\* A size that is being read can only grow under the host's hands.
LEMMA ChipIInv ==
  ASSUME IInv, Arrive \/ Ack \/ PeerFin
  PROVE  IInv'
<1> USE DEF IInv
<1>1. /\ TypeOK' /\ WithinBuffers'
      /\ UNCHANGED <<host, tx_end, rx_free, tx_mem>>
      /\ Received <= Received' /\ Unacked' <= Unacked
  BY ChipStep
<1>2. UNCHANGED <<pc, caller, want, hi, val1, val, start>>
  BY <1>1 DEF host, reading
<1>3. UNCHANGED <<rx_rd, tx_wr, ptr, done, said>>
  BY <1>1 DEF host, copying
<1>4. Room <= Room'
  <2>1. \A u, v \in 0 .. Size : u <= v => Size - v <= Size - u
    BY Widths
  <2>2. /\ Unacked \in 0 .. Size /\ Room = Size - Unacked
        /\ Unacked' \in 0 .. Size /\ Room' = Size - Unacked'
    BY <1>1, Ranges, RangesNext
  <2> QED  BY <1>1, <2>1, <2>2, Zenon
<1>5. Sized \in 0 .. Size /\ Sized' \in 0 .. Size /\ Sized <= Sized'
  BY <1>1, <1>2, <1>4, Ranges, RangesNext DEF Sized, SizeFor
<1>6. Base * (Sized \div Base) <= Base * (Sized' \div Base)
  BY <1>5, UpperGrows
<1>7. SizeGrows'
  <2>1. /\ start \in Int /\ val1 \in Int /\ val \in Int /\ Base * hi \in Int
        /\ Base * (Sized \div Base) \in Int /\ Base * (Sized' \div Base) \in Int
    BY <1>5, Widths DEF TypeOK
  <2>2. \A v \in Int : Held(v) => Held(v)'
    BY <1>2, <1>5, <2>1 DEF Held
  <2> QED  BY <1>2, <1>5, <1>6, <2>1, <2>2 DEF SizeGrows, InReading
<1>8. Copying'
  <2>1. want \in Int
    BY Widths DEF TypeOK
  <2>2. Received \in Int /\ Received' \in Int /\ Room \in Int /\ Room' \in Int
    BY <1>1, Ranges, RangesNext
  <2>3. /\ pc \in {"load", "recv"} => want <= Received'
        /\ pc \in {"store", "send"} => want <= Room'
    BY <1>1, <1>4, <2>1, <2>2 DEF Copying
  <2> QED  BY <1>1, <1>2, <1>3, <2>3 DEF Copying, InReading
<1>9. Stored'
  BY <1>1, <1>2, <1>3 DEF Stored
<1>10. SentIntact'
  <2>1. ASSUME NEW j \in 1 .. Size - Room'
        PROVE  tx_mem[Cell(tx_end - j)] = (said - j) % PtrWrap
    <3>1. j \in 1 .. Size - Room
      BY <1>4, Ranges, RangesNext, <1>1, Widths
    <3> QED  BY <3>1 DEF SentIntact
  <2> QED  BY <1>1, <1>3, <2>1 DEF SentIntact
<1> QED  BY <1>1, <1>7, <1>8, <1>9, <1>10

-----------------------------------------------------------------------------
(* The reading of a size. *)

LEMMA ReadingTypes ==
  ASSUME TypeOK, WithinBuffers, Reading
  PROVE  TypeOK'
<1>1. UNCHANGED <<chip_vars, caller, start, want, copying>>
  BY DEF Reading, ReadHigh, ReadFirst, ReadSecond
<1>2. Sized \div Base \in 0 .. Base - 1 /\ Sized % Base \in 0 .. Base - 1
  BY Ranges, Bytes
<1>3. Base * hi + (Sized % Base) \in 0 .. Base * Base - 1
  BY <1>2, Together DEF TypeOK
<1>4. /\ hi' \in 0 .. Base - 1
      /\ val1' \in 0 .. Base * Base - 1 /\ val' \in 0 .. Base * Base - 1
  BY <1>2, <1>3 DEF Reading, ReadHigh, ReadFirst, ReadSecond, TypeOK
<1>5. pc' \in {"hi1", "lo1", "hi2", "lo2", "sized"}
  BY DEF Reading, ReadHigh, ReadFirst, ReadSecond
<1> QED  BY <1>1, <1>4, <1>5 DEF TypeOK, chip_vars, copying

\* The bytes of two readings need not belong together, but a first reading
\* that was never true is refuted by the upper byte of the second.
LEMMA ReadingGrows ==
  ASSUME TypeOK, WithinBuffers, SizeGrows, Reading
  PROVE  SizeGrows'
<1>1. UNCHANGED <<chip_vars, caller, start>>
  BY DEF Reading, ReadHigh, ReadFirst, ReadSecond
<1>2. UNCHANGED Sized /\ \A v : Held(v)' = Held(v)
  BY <1>1 DEF Sized, SizeFor, Received, Room, chip_vars, Held
<1> DEFINE h == Sized \div Base
           l == Sized % Base
<1>3. h \in 0 .. Base - 1 /\ l \in 0 .. Base - 1 /\ Sized = Base * h + l /\ Sized \in Nat
  BY Ranges, Bytes
<1> HIDE DEF h, l
<1>4. /\ hi \in Nat /\ Base * hi \in Nat /\ Base * h \in Nat
      /\ val1 \in Nat /\ val \in Nat /\ start \in Nat
  BY <1>3, Widths DEF TypeOK
<1>5. InReading /\ start <= Sized
  BY DEF Reading, ReadHigh, ReadFirst, ReadSecond, InReading, SizeGrows
<1>6. CASE ReadHigh
  BY <1>1, <1>2, <1>3, <1>4, <1>5, <1>6 DEF ReadHigh, SizeGrows, h
<1>7. CASE ReadFirst
  <2>1. val1' = Base * hi + l /\ Base * hi <= Sized
    BY <1>7 DEF ReadFirst, SizeGrows, l
  <2>2. CASE hi = h
    <3>1. val1' = Sized
      BY <1>3, <2>1, <2>2
    <3> QED  BY <1>1, <1>2, <1>3, <1>4, <1>5, <1>7, <3>1 DEF ReadFirst, SizeGrows, Held
  <2>3. CASE hi # h
    <3>1. hi < h
      <4>1. CASE hi > h
        <5>1. Base * hi >= Base * h + Base
          BY <1>3, <1>4, <4>1, Widths
        <5> QED  BY <1>3, <1>4, <2>1, <5>1, Widths
      <4> QED  BY <1>3, <1>4, <2>3, <4>1
    <3>2. Base * hi + Base <= Base * h
      BY <1>3, <1>4, <3>1, Widths
    <3>3. val1' < Base * h
      BY <1>3, <1>4, <2>1, <3>2, Widths
    <3>4. (val1 < Base * (Sized \div Base))'
      BY <1>2, <3>3 DEF h
    <3>5. pc' \in {"hi1", "hi2", "sized"} /\ (pc' = "sized" => val' = 0)
      BY <1>7 DEF ReadFirst
    <3>6. start' <= Sized'
      BY <1>1, <1>2, <1>5
    <3> QED  BY <3>4, <3>5, <3>6 DEF SizeGrows
  <2> QED  BY <2>2, <2>3
<1>8. CASE ReadSecond
  <2>1. val' = Base * hi + l /\ Base * hi <= val'
    BY <1>3, <1>4, <1>8 DEF ReadSecond, l
  <2>2. Held(val1) \/ val1 < Base * hi
    BY <1>8 DEF ReadSecond, SizeGrows
  <2>3. val' = val1 => Held(val')
    BY <1>4, <2>1, <2>2
  <2> QED  BY <1>1, <1>2, <1>5, <1>8, <2>3 DEF ReadSecond, SizeGrows
<1> QED  BY <1>6, <1>7, <1>8 DEF Reading

LEMMA ReadingIInv ==
  ASSUME IInv, Reading
  PROVE  IInv'
<1> USE DEF IInv
<1>1. TypeOK' /\ SizeGrows'
  BY ReadingTypes, ReadingGrows
<1>2. /\ UNCHANGED <<chip_vars, caller, want, copying>>
      /\ InReading /\ pc' \in {"hi1", "lo1", "hi2", "lo2", "sized"}
  BY DEF Reading, ReadHigh, ReadFirst, ReadSecond, InReading
<1>3. UNCHANGED <<Received, Unacked, Room>>
  BY <1>2 DEF chip_vars, Received, Unacked, Room
<1>4. WithinBuffers' /\ SentIntact' /\ Stored'
  BY <1>2, <1>3 DEF WithinBuffers, SentIntact, Stored, chip_vars, copying
<1>5. Copying'
  BY <1>2, <1>3 DEF Copying, InReading, chip_vars, copying
<1> QED  BY <1>1, <1>4, <1>5

-----------------------------------------------------------------------------
(* A reading begins or ends. *)

\* The size that is confirmed is one the buffers have room for.
LEMMA SizedIsHeld ==
  ASSUME TypeOK, WithinBuffers, SizeGrows, pc = "sized", val # 0
  PROVE  val \in 1 .. Sized /\ val \in 1 .. Size
<1>1. Sized \in 0 .. Size /\ val <= Sized
  BY Ranges DEF SizeGrows, Held
<1> QED  BY <1>1, Widths DEF TypeOK

LEMMA BeginIInv ==
  ASSUME IInv, pc \in {"ready", "sized"},
         NEW c \in {"ask", "wait", "empty", "room"}, Begin(c),
         UNCHANGED <<chip_vars, copying>>, want' \in 0 .. Size, c = "room" => want' > 0
  PROVE  IInv'
<1> USE DEF IInv
<1>1. /\ pc' = "hi1" /\ caller' = c /\ hi' = 0 /\ val1' = 0 /\ val' = 0
      /\ start' = SizeFor(c)
  BY DEF Begin
<1>2. done = 0
  BY DEF Copying
<1>3. UNCHANGED <<Received, Unacked, Room>>
  BY DEF chip_vars, Received, Unacked, Room
<1>4. 0 \in 0 .. Base - 1 /\ 0 \in 0 .. Base * Base - 1
  BY Widths
<1>5. start' \in 0 .. Size /\ start' = Sized'
  BY <1>1, <1>3, Ranges DEF SizeFor, Sized
<1>6. TypeOK'
  BY <1>1, <1>2, <1>4, <1>5 DEF TypeOK, chip_vars, copying
<1>7. WithinBuffers' /\ SentIntact' /\ Stored'
  BY <1>1, <1>3 DEF WithinBuffers, SentIntact, Stored, chip_vars, copying
<1>8. SizeGrows'
  BY <1>1, <1>5, Widths DEF SizeGrows
<1>9. Copying'
  BY <1>1, <1>2 DEF Copying, InReading, chip_vars, copying
<1> QED  BY <1>6, <1>7, <1>8, <1>9

LEMMA EndIInv ==
  ASSUME IInv, pc = "sized", NEW p \in {"ready", "closed"}, End(p),
         UNCHANGED <<chip_vars, want, copying>>
  PROVE  IInv'
<1> USE DEF IInv
<1>1. /\ pc' = p /\ caller' = caller /\ hi' = 0 /\ val1' = 0 /\ val' = 0 /\ start' = 0
  BY DEF End
<1>2. 0 \in 0 .. Base - 1 /\ 0 \in 0 .. Base * Base - 1 /\ 0 \in 0 .. Size
  BY Widths
<1>3. UNCHANGED <<Received, Unacked, Room>>
  BY DEF chip_vars, Received, Unacked, Room
<1>4. TypeOK'
  BY <1>1, <1>2 DEF TypeOK, chip_vars, copying
<1>5. WithinBuffers' /\ SentIntact' /\ Stored'
  BY <1>1, <1>3 DEF WithinBuffers, SentIntact, Stored, chip_vars, copying
<1>6. SizeGrows' /\ Copying'
  BY <1>1 DEF SizeGrows, Copying, InReading, chip_vars, copying
<1> QED  BY <1>4, <1>5, <1>6

\* Every reading that begins, and every one after which nothing is copied.
LEMMA CallsIInv ==
  ASSUME IInv,
         \/ CallRecv \/ Something \/ Wait \/ KeepWaiting \/ NoRoom \/ Nothing \/ Abandon
         \/ \E n \in 1 .. SendMax : CallSend(n)
  PROVE  IInv'
<1>1. want \in 0 .. Size
  BY DEF IInv, TypeOK
<1>2. CASE CallRecv
  BY <1>1, <1>2, BeginIInv DEF CallRecv
<1>3. CASE Something
  <2>1. want' \in 0 .. Size
    BY <1>3, SizedIsHeld, Widths DEF Something, Least, IInv
  <2> QED  BY <1>3, <2>1, BeginIInv DEF Something
<1>4. CASE Wait
  BY <1>1, <1>4, BeginIInv DEF Wait
<1>5. CASE KeepWaiting
  BY <1>1, <1>5, BeginIInv DEF KeepWaiting
<1>6. CASE NoRoom
  <2>1. want > 0
    BY <1>6 DEF NoRoom, IInv, Copying, InReading
  <2> QED  BY <1>1, <1>6, <2>1, BeginIInv DEF NoRoom
<1>7. CASE Nothing
  BY <1>7, EndIInv DEF Nothing
<1>8. CASE Abandon
  BY <1>8, EndIInv DEF Abandon
<1>9. ASSUME NEW n \in 1 .. SendMax, CallSend(n)
      PROVE  IInv'
  <2>1. want' \in 0 .. Size /\ want' > 0
    BY <1>9, Widths DEF CallSend
  <2> QED  BY <1>9, <2>1, BeginIInv DEF CallSend
<1> QED  BY <1>2, <1>3, <1>4, <1>5, <1>6, <1>7, <1>8, <1>9

-----------------------------------------------------------------------------
(* The copying. *)

LEMMA StartLoadIInv ==
  ASSUME IInv, StartLoad
  PROVE  IInv'
<1> USE DEF IInv
<1>1. /\ pc = "sized" /\ caller = "wait" /\ val # 0
      /\ want' = Least(val, want) /\ ptr' = rx_rd /\ done' = 0
      /\ pc' = "load" /\ hi' = 0 /\ val1' = 0 /\ val' = 0 /\ start' = 0
      /\ UNCHANGED <<chip_vars, caller, rx_rd, tx_mem, tx_wr, byte, said>>
  BY DEF StartLoad, End
<1>2. UNCHANGED <<Received, Unacked, Room>>
  BY <1>1 DEF chip_vars, Received, Unacked, Room
<1>3. val \in 1 .. Received
  BY <1>1, SizedIsHeld DEF Sized, SizeFor
<1>4. want' \in 0 .. Size /\ want' <= Received
  BY <1>1, <1>3, Ranges, Widths DEF TypeOK, Least
<1>5. 0 \in 0 .. Base - 1 /\ 0 \in 0 .. Base * Base - 1 /\ 0 \in 0 .. Size /\ 0 \in 0 .. want'
  BY <1>4, Widths
<1>6. TypeOK'
  BY <1>1, <1>4, <1>5 DEF TypeOK, chip_vars
<1>7. rx_rd = rx_free /\ tx_wr = tx_end
  BY <1>1 DEF Copying
<1>8. Copying'
  BY <1>1, <1>2, <1>4, <1>7 DEF Copying, InReading, chip_vars
<1>9. WithinBuffers' /\ SentIntact' /\ Stored' /\ SizeGrows'
  BY <1>1, <1>2 DEF WithinBuffers, SentIntact, Stored, SizeGrows, InReading, chip_vars
<1> QED  BY <1>6, <1>8, <1>9

LEMMA StartStoreIInv ==
  ASSUME IInv, StartStore
  PROVE  IInv'
<1> USE DEF IInv
<1>1. /\ pc = "sized" /\ caller = "room" /\ val >= want /\ ptr' = tx_wr /\ done' = 0
      /\ pc' = "store" /\ hi' = 0 /\ val1' = 0 /\ val' = 0 /\ start' = 0
      /\ UNCHANGED <<chip_vars, caller, want, rx_rd, tx_mem, tx_wr, byte, said>>
  BY DEF StartStore, End
<1>2. UNCHANGED <<Received, Unacked, Room>>
  BY <1>1 DEF chip_vars, Received, Unacked, Room
<1>3. want \in Nat /\ want > 0 /\ val \in Nat
  BY <1>1, Widths DEF TypeOK, Copying, InReading
<1>4. val \in 1 .. Room
  BY <1>1, <1>3, SizedIsHeld DEF Sized, SizeFor
<1>5. want <= Room
  BY <1>1, <1>3, <1>4, Ranges
<1>6. 0 \in 0 .. Base - 1 /\ 0 \in 0 .. Base * Base - 1 /\ 0 \in 0 .. Size /\ 0 \in 0 .. want
  BY <1>3, Widths
<1>7. TypeOK'
  BY <1>1, <1>6 DEF TypeOK, chip_vars
<1>8. rx_rd = rx_free /\ tx_wr = tx_end
  BY <1>1 DEF Copying
<1>9. Copying'
  BY <1>1, <1>2, <1>5, <1>8 DEF Copying, InReading, chip_vars
<1>10. Stored'
  <2>1. \A i \in 0 .. 0 - 1 : FALSE
    OBVIOUS
  <2> QED  BY <1>1, <2>1 DEF Stored
<1>11. WithinBuffers' /\ SentIntact' /\ SizeGrows'
  BY <1>1, <1>2 DEF WithinBuffers, SentIntact, SizeGrows, InReading, chip_vars
<1> QED  BY <1>7, <1>9, <1>10, <1>11

LEMMA LoadIInv ==
  ASSUME IInv, Load \/ SetRxRd
  PROVE  IInv'
<1> USE DEF IInv
<1>1. /\ pc = "load" /\ pc' \in {"load", "recv"}
      /\ UNCHANGED <<chip_vars, caller, reading, want, tx_mem, tx_wr, ptr, said>>
  BY DEF Load, SetRxRd, BurstIn
<1>2. UNCHANGED <<Received, Unacked, Room>>
  BY <1>1 DEF chip_vars, Received, Unacked, Room
<1>3. want \in 0 .. Size /\ done \in 0 .. want
  BY DEF TypeOK
<1>4. CASE Load
  <2>1. pc' = "load" /\ rx_rd' = rx_rd /\ done' \in 0 .. want /\ byte' = rx_mem[Cell(ptr + done)]
    BY <1>3, <1>4, Widths DEF Load, BurstIn
  <2>2. Cell(ptr + done) \in 0 .. Size - 1
    <3>1. ptr + done \in Int
      BY <1>3, Widths DEF TypeOK, Pointers
    <3> QED  BY <3>1, CellIsPlace
  <2>3. byte' \in 0 .. PtrWrap
    BY <2>1, <2>2 DEF TypeOK
  <2>4. TypeOK'
    BY <1>1, <2>1, <2>3 DEF TypeOK, chip_vars, reading
  <2>5. Copying'
    BY <1>1, <1>2, <2>1 DEF Copying, InReading, chip_vars
  <2> QED  BY <1>1, <1>2, <2>1, <2>4, <2>5
        DEF WithinBuffers, SentIntact, Stored, SizeGrows, InReading, chip_vars
<1>5. CASE SetRxRd
  <2>1. /\ pc' = "recv" /\ rx_rd' = (ptr + want) % PtrWrap /\ done = want
        /\ UNCHANGED <<done, byte>>
    BY <1>5 DEF SetRxRd
  <2>2. rx_rd' \in Pointers
    BY <1>3, <2>1, Widths DEF TypeOK, Pointers
  <2>3. TypeOK'
    BY <1>1, <2>1, <2>2 DEF TypeOK, chip_vars, reading
  <2>4. Copying'
    BY <1>1, <1>2, <2>1 DEF Copying, InReading, chip_vars
  <2> QED  BY <1>1, <1>2, <2>1, <2>3, <2>4
        DEF WithinBuffers, SentIntact, Stored, SizeGrows, InReading, chip_vars
<1> QED  BY <1>4, <1>5

\* The chip gives up exactly what has been copied.
LEMMA RecvFrees ==
  ASSUME IInv, Recv
  PROVE  Received' = Received - want /\ want <= Received
<1>1. /\ pc = "recv" /\ rx_free' = rx_rd /\ rx_wr' = rx_wr
      /\ rx_rd = (rx_free + want) % PtrWrap /\ want <= Received /\ want \in Nat
  BY Widths DEF Recv, IInv, Copying, TypeOK
<1>2. rx_wr \in Pointers /\ rx_free \in Pointers
  BY DEF IInv, TypeOK
<1>3. (rx_wr - ((rx_free + want) % PtrWrap)) % PtrWrap = ((rx_wr - rx_free) % PtrWrap) - want
  BY <1>1, <1>2, Behind DEF Received
<1> QED  BY <1>1, <1>3 DEF Received

LEMMA RecvIInv ==
  ASSUME IInv, Recv
  PROVE  IInv'
<1> USE DEF IInv
<1>1. /\ pc = "recv" /\ pc' = "ready" /\ want' = 0 /\ ptr' = 0 /\ done' = 0
      /\ rx_free' = rx_rd
      /\ UNCHANGED <<sr, rx_mem, rx_wr, tx_end, tx_acked, caller, reading, rx_rd,
                     tx_mem, tx_wr, byte, said>>
  BY DEF Recv, Return
<1>2. UNCHANGED <<Unacked, Room>>
  BY <1>1 DEF Unacked, Room
<1>3. Received' = Received - want /\ want \in 0 .. Size
  BY RecvFrees DEF TypeOK
<1>4. WithinBuffers'
  BY <1>2, <1>3, Ranges, Widths DEF WithinBuffers
<1>5. 0 \in 0 .. Size /\ 0 \in 0 .. 0 /\ 0 \in Pointers
  BY Widths DEF Pointers
<1>6. TypeOK'
  BY <1>1, <1>5 DEF TypeOK, reading
<1>7. Copying'
  BY <1>1 DEF Copying, InReading
<1>8. SentIntact' /\ Stored' /\ SizeGrows'
  BY <1>1, <1>2 DEF SentIntact, Stored, SizeGrows, InReading, reading
<1> QED  BY <1>4, <1>6, <1>7, <1>8

\* The cell written holds neither a byte of this packet nor one that waits
\* for its acknowledgement.
LEMMA StoreIInv ==
  ASSUME IInv, Store
  PROVE  IInv'
<1> USE DEF IInv
<1> DEFINE new == (said + done) % PtrWrap
           at == Cell(ptr + done)
<1>1. /\ pc = "store" /\ done < want /\ done' = done + 1
      /\ tx_mem' = [tx_mem EXCEPT ![at] = new]
      /\ UNCHANGED <<chip_vars, pc, caller, reading, want, rx_rd, tx_wr, ptr, byte, said>>
  BY DEF Store, BurstOut
<1>2. UNCHANGED <<Received, Unacked, Room>>
  BY <1>1 DEF chip_vars, Received, Unacked, Room
<1>3. /\ want \in 0 .. Size /\ done \in 0 .. want /\ ptr \in Int /\ said \in Int
      /\ ptr = tx_end /\ want <= Room /\ tx_mem \in [0 .. Size - 1 -> 0 .. PtrWrap]
  BY <1>1, Widths DEF TypeOK, Copying, Pointers
<1>4. /\ ptr + done \in Int /\ at \in 0 .. Size - 1
  <2>1. ptr + done \in Int
    BY <1>3, Widths
  <2> QED  BY <2>1, CellIsPlace
<1>5. new \in 0 .. PtrWrap
  BY <1>3, Widths
<1>6. \A n \in 1 .. Size - 1 : Cell(ptr + done - n) \in 0 .. Size - 1 /\ Cell(ptr + done - n) # at
  <2> SUFFICES ASSUME NEW n \in 1 .. Size - 1
               PROVE  Cell(ptr + done - n) \in 0 .. Size - 1 /\ Cell(ptr + done - n) # at
    OBVIOUS
  <2>1. ptr + done - n \in Int /\ (ptr + done - n) + n = ptr + done
    BY <1>3, Widths
  <2> QED  BY <2>1, CellsApart, CellIsPlace
<1> HIDE DEF new, at
<1>7. TypeOK'
  <2>1. done' \in 0 .. want /\ tx_mem' \in [0 .. Size - 1 -> 0 .. PtrWrap]
    BY <1>1, <1>3, <1>4, <1>5
  <2> QED  BY <1>1, <2>1 DEF TypeOK, chip_vars, reading
<1>8. Stored'
  <2>1. ASSUME NEW i \in 0 .. done
        PROVE  tx_mem'[Cell(ptr + i)] = (said + i) % PtrWrap
    <3>1. CASE i = done
      BY <1>1, <1>3, <1>4, <3>1 DEF new, at
    <3>2. CASE i # done
      <4>1. done - i \in 1 .. Size - 1 /\ ptr + done - (done - i) = ptr + i
        BY <1>1, <1>3, <3>2, Widths
      <4>2. Cell(ptr + i) \in 0 .. Size - 1 /\ Cell(ptr + i) # at
        BY <1>6, <4>1
      <4>3. tx_mem[Cell(ptr + i)] = (said + i) % PtrWrap
        BY <1>1, <1>3, <3>2 DEF Stored
      <4> QED  BY <1>1, <1>3, <4>2, <4>3
    <3> QED  BY <3>1, <3>2
  <2>2. 0 .. done' - 1 = 0 .. done
    BY <1>1, <1>3
  <2> QED  BY <1>1, <2>1, <2>2 DEF Stored
<1>9. SentIntact'
  <2>1. ASSUME NEW j \in 1 .. Size - Room
        PROVE  tx_mem'[Cell(tx_end - j)] = (said - j) % PtrWrap
    <3>1. Room \in 0 .. Size
      BY Ranges
    <3>2. done + j \in 1 .. Size - 1 /\ ptr + done - (done + j) = tx_end - j
      BY <1>1, <1>3, <3>1, Widths
    <3>3. Cell(tx_end - j) \in 0 .. Size - 1 /\ Cell(tx_end - j) # at
      BY <1>6, <3>2
    <3> QED  BY <1>1, <1>3, <3>3 DEF SentIntact
  <2> QED  BY <1>1, <1>2, <2>1 DEF SentIntact, chip_vars
<1>10. Copying'
  BY <1>1, <1>2 DEF Copying, InReading, chip_vars
<1>11. WithinBuffers' /\ SizeGrows'
  BY <1>1, <1>2 DEF WithinBuffers, SizeGrows, InReading
<1> QED  BY <1>7, <1>8, <1>9, <1>10, <1>11

LEMMA SetTxWrIInv ==
  ASSUME IInv, SetTxWr
  PROVE  IInv'
<1> USE DEF IInv
<1>1. /\ pc = "store" /\ done = want /\ tx_wr' = (ptr + want) % PtrWrap /\ pc' = "send"
      /\ UNCHANGED <<chip_vars, caller, reading, want, rx_rd, tx_mem, ptr, done, byte, said>>
  BY DEF SetTxWr
<1>2. UNCHANGED <<Received, Unacked, Room>>
  BY <1>1 DEF chip_vars, Received, Unacked, Room
<1>3. tx_wr' \in Pointers
  BY <1>1, Widths DEF TypeOK, Pointers
<1>4. TypeOK'
  BY <1>1, <1>3 DEF TypeOK, chip_vars, reading
<1>5. Copying'
  BY <1>1, <1>2 DEF Copying, InReading, chip_vars
<1> QED  BY <1>1, <1>2, <1>4, <1>5
      DEF WithinBuffers, SentIntact, Stored, SizeGrows, InReading, chip_vars

\* The packet becomes part of what is not acknowledged.
LEMMA SendIInv ==
  ASSUME IInv, Send
  PROVE  IInv'
<1> USE DEF IInv
<1>1. /\ pc = "send" /\ pc' = "ready" /\ want' = 0 /\ ptr' = 0 /\ done' = 0
      /\ tx_end' = tx_wr /\ said' = (said + want) % PtrWrap
      /\ UNCHANGED <<sr, rx_mem, rx_wr, rx_free, tx_acked, caller, reading, rx_rd,
                     tx_mem, tx_wr, byte>>
  BY DEF Send, Return
<1>2. /\ want \in 0 .. Size /\ want <= Room /\ done = want /\ ptr = tx_end
      /\ tx_end' = (tx_end + want) % PtrWrap
      /\ tx_end \in Int /\ said \in Int
  BY <1>1, Widths DEF TypeOK, Copying, Pointers
<1>3. Unacked \in 0 .. Size /\ Room = Size - Unacked
  BY Ranges
<1>4. Unacked + want < PtrWrap /\ Unacked + want <= Size
  BY <1>2, <1>3, Widths
<1>5. Unacked' = Unacked + want
  BY <1>1, <1>2, <1>4, Ahead, Widths DEF Unacked, TypeOK
<1>6. Room' = Size - Unacked' /\ Received' = Received
  BY <1>1 DEF Room, Unacked, Received
<1>7. WithinBuffers'
  BY <1>4, <1>5, <1>6 DEF WithinBuffers
<1>8. tx_end' \in Pointers /\ said' \in Pointers /\ 0 \in Pointers
  BY <1>1, <1>2, Widths DEF Pointers
<1>9. 0 \in 0 .. Size /\ 0 \in 0 .. 0
  BY Widths
<1>10. TypeOK'
  BY <1>1, <1>8, <1>9 DEF TypeOK, reading
<1>11. Copying'
  BY <1>1 DEF Copying, InReading
<1>12. SentIntact'
  <2>1. ASSUME NEW j \in 1 .. Unacked + want
        PROVE  tx_mem[Cell(tx_end' - j)] = (said' - j) % PtrWrap
    <3>1. /\ 0 - j \in Int /\ tx_end + want \in Int /\ said + want \in Int
          /\ tx_end' - j = tx_end' + (0 - j) /\ said' - j = said' + (0 - j)
      BY <1>1, <1>2, <1>3, <1>8, Widths DEF Pointers
    <3>2. Cell(tx_end' - j) = Cell((tx_end + want) + (0 - j))
      BY <1>2, <3>1, ReducedCell
    <3>3. (said' - j) % PtrWrap = ((said + want) + (0 - j)) % PtrWrap
      BY <1>1, <3>1, ReduceFirst
    <3>4. CASE j <= want
      <4>1. /\ want - j \in 0 .. done - 1
            /\ (tx_end + want) + (0 - j) = ptr + (want - j)
            /\ (said + want) + (0 - j) = said + (want - j)
        BY <1>2, <1>3, <3>4
      <4>2. tx_mem[Cell(ptr + (want - j))] = (said + (want - j)) % PtrWrap
        BY <1>1, <4>1 DEF Stored
      <4> QED  BY <3>2, <3>3, <4>1, <4>2
    <3>5. CASE j > want
      <4>1. /\ j - want \in 1 .. Size - Room
            /\ (tx_end + want) + (0 - j) = tx_end - (j - want)
            /\ (said + want) + (0 - j) = said - (j - want)
        BY <1>2, <1>3, <3>5, Widths
      <4>2. tx_mem[Cell(tx_end - (j - want))] = (said - (j - want)) % PtrWrap
        BY <4>1 DEF SentIntact
      <4> QED  BY <3>2, <3>3, <4>1, <4>2
    <3> QED  BY <1>2, <1>3, <3>4, <3>5
  <2>2. Size - Room' = Unacked + want
    BY <1>2, <1>3, <1>5, <1>6, Widths
  <2> QED  BY <1>1, <2>1, <2>2 DEF SentIntact
<1>13. Stored' /\ SizeGrows'
  BY <1>1 DEF Stored, SizeGrows, InReading
<1> QED  BY <1>7, <1>10, <1>11, <1>12, <1>13

-----------------------------------------------------------------------------
(* The theorems. *)

LEMMA InitIInv == Init => IInv
<1> SUFFICES ASSUME Init PROVE IInv
  OBVIOUS
<1>1. /\ 0 \in 0 .. Base - 1 /\ 0 \in 0 .. Base * Base - 1 /\ 0 \in 0 .. Size /\ 0 \in 0 .. 0
      /\ 0 \in Pointers /\ NoByte \in 0 .. PtrWrap
  BY Widths DEF Pointers, NoByte
<1>2. TypeOK
  BY <1>1 DEF Init, TypeOK
<1>3. Received = 0 /\ Unacked = 0 /\ Room = Size
  <2>1. (0 - 0) % PtrWrap = 0
    BY Widths
  <2> QED  BY <2>1, Widths DEF Init, Received, Unacked, Room
<1>4. WithinBuffers /\ SizeGrows /\ Copying /\ Stored
  BY <1>3, Widths DEF Init, WithinBuffers, SizeGrows, Copying, Stored, InReading
<1>5. SentIntact
  <2>1. \A j \in 1 .. Size - Room : FALSE
    BY <1>3, Widths
  <2> QED  BY <2>1 DEF SentIntact
<1> QED  BY <1>2, <1>4, <1>5 DEF IInv

LEMMA NextIInv == IInv /\ [Next]_vars => IInv'
<1> SUFFICES ASSUME IInv, [Next]_vars PROVE IInv'
  OBVIOUS
<1>1. CASE UNCHANGED vars
  <2>1. /\ UNCHANGED <<sr, rx_mem, rx_wr, rx_free, tx_end, tx_acked, pc, caller, want>>
        /\ UNCHANGED <<hi, val1, val, start, rx_rd, tx_mem, tx_wr, ptr, done, byte, said>>
    BY <1>1 DEF vars, chip_vars, host, reading, copying
  <2>2. UNCHANGED <<Received, Unacked, Room>>
    BY <2>1 DEF Received, Unacked, Room
  <2>3. TypeOK' /\ WithinBuffers'
    BY <2>1, <2>2 DEF IInv, TypeOK, WithinBuffers
  <2>4. SizeGrows'
    BY <2>1, <2>2 DEF IInv, SizeGrows, InReading, Held, Sized, SizeFor
  <2>5. Copying' /\ Stored' /\ SentIntact'
    BY <2>1, <2>2 DEF IInv, Copying, Stored, SentIntact, InReading
  <2> QED  BY <2>3, <2>4, <2>5 DEF IInv
<1>2. CASE Next
  BY <1>2, ChipIInv, ReadingIInv, CallsIInv, StartLoadIInv, StartStoreIInv, LoadIInv,
     RecvIInv, StoreIInv, SetTxWrIInv, SendIInv DEF Next, Step
<1> QED  BY <1>1, <1>2

\* Flow control, the two readings of a size and the copying through wrapping
\* pointers keep each other's promises, whatever the widths.
THEOREM BuffersInvariance == Spec => []IInv
  BY InitIInv, NextIInv, PTL DEF Spec

\* A size that the host acts on is one the registers really held, although
\* getSn_RX_RSR() and getSn_TX_FSR() read it byte by byte while it grows.
THEOREM SizesAreReal == Spec => []SizeReal
<1>1. IInv => SizeReal
  BY DEF IInv, SizeGrows, Held, SizeReal
<1> QED  BY BuffersInvariance, <1>1, PTL

\* wiz_send_data() writes over nothing that the peer has not acknowledged.
THEOREM SentStaysIntact == Spec => []SentIntact
<1>1. IInv => SentIntact
  BY DEF IInv
<1> QED  BY BuffersInvariance, <1>1, PTL

-----------------------------------------------------------------------------
(* The receive buffer implements the bounded queue. *)

\* What waits in the receive buffer is what the peer sent last.
Arrived ==
  \A k \in 1 .. Received : rx_mem[Cell(rx_wr - k)] = (rx_wr - k) % PtrWrap

\* Only an arriving byte and the RECV command touch the receive buffer.
LEMMA OthersKeep ==
  ASSUME [Next]_vars, ~Arrive, ~Recv
  PROVE  UNCHANGED <<rx_mem, rx_wr, rx_free, Received>>
<1>1. CASE UNCHANGED vars
  BY <1>1 DEF vars, chip_vars, Received
<1>2. CASE Ack \/ PeerFin
  BY <1>2 DEF Ack, PeerFin, Received
<1>3. CASE Send
  BY <1>3 DEF Send, Received
<1>4. CASE Reading \/ CallRecv \/ Nothing \/ Something \/ Wait \/ Abandon \/ KeepWaiting
  BY <1>4 DEF Reading, ReadHigh, ReadFirst, ReadSecond, CallRecv, Nothing, Something, Wait,
              Abandon, KeepWaiting, chip_vars, Received
<1>5. CASE \/ StartLoad \/ Load \/ SetRxRd \/ NoRoom \/ StartStore \/ Store \/ SetTxWr
           \/ \E n \in 1 .. SendMax : CallSend(n)
  BY <1>5 DEF StartLoad, Load, SetRxRd, NoRoom, StartStore, Store, SetTxWr, CallSend, chip_vars,
              Received
<1> QED  BY <1>1, <1>2, <1>3, <1>4, <1>5 DEF Next, Step

\* A byte that arrives is written to a cell in which nothing waits.
LEMMA ArriveApart ==
  ASSUME IInv, Arrive, NEW k \in 1 .. Received
  PROVE  /\ Cell(rx_wr - k) \in 0 .. Size - 1 /\ Cell(rx_wr) \in 0 .. Size - 1
         /\ Cell(rx_wr - k) # Cell(rx_wr)
         /\ rx_mem'[Cell(rx_wr - k)] = rx_mem[Cell(rx_wr - k)]
<1>1. Received < Size /\ rx_mem' = [rx_mem EXCEPT ![Cell(rx_wr)] = rx_wr]
  BY DEF Arrive
<1>2. /\ k \in 1 .. Size - 1 /\ rx_wr \in Int /\ rx_wr - k \in Int
      /\ (rx_wr - k) + k = rx_wr
  BY <1>1, Ranges, Widths DEF IInv, TypeOK, Pointers
<1>3. Cell(rx_wr - k) \in 0 .. Size - 1 /\ Cell(rx_wr) \in 0 .. Size - 1
  BY <1>2, CellIsPlace
<1>4. Cell(rx_wr - k) # Cell(rx_wr)
  BY <1>2, CellsApart
<1> QED  BY <1>1, <1>3, <1>4 DEF IInv, TypeOK

\* The new byte becomes the first to be counted back from the chip's place.
LEMMA ArriveShifts ==
  ASSUME IInv, Arrive
  PROVE  /\ Received' = Received + 1
         /\ \A n \in Int : /\ Cell(rx_wr' - n) = Cell(rx_wr - (n - 1))
                           /\ (rx_wr' - n) % PtrWrap = (rx_wr - (n - 1)) % PtrWrap
         /\ rx_mem'[Cell(rx_wr)] = rx_wr
<1>1. /\ rx_wr' = (rx_wr + 1) % PtrWrap /\ Received < Size
      /\ rx_mem' = [rx_mem EXCEPT ![Cell(rx_wr)] = rx_wr] /\ rx_free' = rx_free
  BY DEF Arrive
<1>2. rx_wr \in Int /\ rx_wr + 1 \in Int
  BY Widths DEF IInv, TypeOK, Pointers
<1>3. Received' = Received + 1
  BY <1>1, Ranges, Widths, Ahead DEF Received, IInv, TypeOK
<1>4. ASSUME NEW n \in Int
      PROVE  /\ Cell(rx_wr' - n) = Cell(rx_wr - (n - 1))
             /\ (rx_wr' - n) % PtrWrap = (rx_wr - (n - 1)) % PtrWrap
  <2>1. /\ 0 - n \in Int /\ (rx_wr + 1) + (0 - n) = rx_wr - (n - 1)
        /\ rx_wr' - n = ((rx_wr + 1) % PtrWrap) + (0 - n)
    BY <1>1, <1>2, Widths
  <2> QED  BY <1>2, <2>1, ReducedCell, ReduceFirst
<1>5. Cell(rx_wr) \in 0 .. Size - 1
  BY <1>2, CellIsPlace
<1>6. rx_mem'[Cell(rx_wr)] = rx_wr
  BY <1>1, <1>5 DEF IInv, TypeOK
<1> QED  BY <1>3, <1>4, <1>6

LEMMA ArrivedStep ==
  ASSUME IInv, Arrived, [Next]_vars
  PROVE  Arrived'
<1>1. CASE Arrive
  <2>1. ASSUME NEW k \in 1 .. Received + 1
        PROVE  rx_mem'[Cell(rx_wr' - k)] = (rx_wr' - k) % PtrWrap
    <3>1. rx_wr \in 0 .. PtrWrap - 1 /\ k \in Int /\ Received \in Nat
      BY Ranges, Widths DEF IInv, TypeOK, Pointers
    <3>2. /\ Cell(rx_wr' - k) = Cell(rx_wr - (k - 1))
          /\ (rx_wr' - k) % PtrWrap = (rx_wr - (k - 1)) % PtrWrap
      BY <1>1, <3>1, ArriveShifts
    <3>3. CASE k = 1
      <4>1. rx_wr - (k - 1) = rx_wr /\ rx_wr % PtrWrap = rx_wr
        BY <3>1, <3>3, Widths
      <4> QED  BY <1>1, <3>2, <4>1, ArriveShifts
    <3>4. CASE k # 1
      <4>1. k - 1 \in 1 .. Received
        BY <3>1, <3>4
      <4> QED  BY <1>1, <3>2, <4>1, ArriveApart DEF Arrived
    <3> QED  BY <3>3, <3>4
  <2> QED  BY <1>1, <2>1, ArriveShifts DEF Arrived
<1>2. CASE Recv
  <2>1. rx_mem' = rx_mem /\ rx_wr' = rx_wr
    BY <1>2 DEF Recv
  <2>2. Received' \in Int /\ Received' <= Received /\ Received \in Int
    <3>1. want \in Nat /\ Received \in Nat
      BY Ranges, Widths DEF IInv, TypeOK
    <3> QED  BY <1>2, <3>1, RecvFrees
  <2> QED  BY <2>1, <2>2 DEF Arrived
<1>3. CASE ~Arrive /\ ~Recv
  BY <1>3, OthersKeep DEF Arrived
<1> QED  BY <1>1, <1>2, <1>3

\* For the queue: what recv() has yet to hand out is what the peer sent last.
LEMMA ArrivedInvariance == Spec => [](IInv /\ Arrived)
<1>1. Init => Arrived
  <2> SUFFICES ASSUME Init PROVE Arrived
    OBVIOUS
  <2>1. Received = 0
    BY Widths DEF Init, Received
  <2>2. \A k \in 1 .. 0 : FALSE
    OBVIOUS
  <2> QED  BY <2>1, <2>2 DEF Arrived
<1> QED  BY <1>1, ArrivedStep, InitIInv, NextIInv, PTL DEF Spec

\* Append and Tail, written as functions.
LEMMA AppendFunction ==
  ASSUME NEW S, NEW s \in Seq(S), NEW e \in S
  PROVE  Append(s, e) =
           [i \in 1 .. Len(s) + 1 |-> IF i = Len(s) + 1 THEN e ELSE s[i]]
<1> DEFINE f == [i \in 1 .. Len(s) + 1 |->
                  IF i = Len(s) + 1 THEN e ELSE s[i]]
<1>1. Len(s) \in Nat
  BY LenProperties
<1>2. f \in [1 .. Len(s) + 1 -> S]
  BY <1>1, ElementOfSeq
<1>3. f \in Seq(S) /\ Len(f) = Len(s) + 1
  BY <1>1, <1>2
<1>4. \A i \in 1 .. Len(s) + 1 : f[i] = Append(s, e)[i]
  BY <1>1, AppendProperties
<1>5. Append(s, e) \in Seq(S) /\ Len(Append(s, e)) = Len(s) + 1
  BY AppendProperties
<1> QED BY <1>3, <1>4, <1>5, SeqEqual

LEMMA TailFunction ==
  ASSUME NEW S, NEW s \in Seq(S), s # << >>
  PROVE  Tail(s) = [i \in 1 .. Len(s) - 1 |-> s[i + 1]]
<1> DEFINE f == [i \in 1 .. Len(s) - 1 |-> s[i + 1]]
<1>1. Len(s) \in Nat \ {0}
  BY EmptySeq
<1>2. f \in [1 .. Len(s) - 1 -> S]
  BY <1>1, ElementOfSeq
<1>3. f \in Seq(S) /\ Len(f) = Len(s) - 1
  BY <1>1, <1>2
<1>4. Tail(s) \in Seq(S) /\ Len(Tail(s)) = Len(s) - 1
  BY HeadTailProperties
<1>5. \A i \in 1 .. Len(s) - 1 : f[i] = Tail(s)[i]
  BY <1>1, <1>4, HeadTailProperties
<1> QED BY <1>3, <1>4, <1>5, SeqEqual

\* The bytes that wait, the oldest first.
Waiting(i) == rx_mem[Cell((rx_wr - Unread) + i - 1)]
Contents == [i \in 1 .. Unread |-> Waiting(i)]

LEMMA UnreadType ==
  ASSUME IInv
  PROVE  /\ Unread \in Nat /\ Unread <= Received
         /\ done \in Nat /\ rx_wr \in Int /\ Received \in 0 .. Size
<1>1. /\ done \in Nat /\ rx_wr \in Int /\ Received \in 0 .. Size
  BY Ranges, Widths DEF IInv, TypeOK, Pointers
<1>2. pc \in {"load", "recv"} => done <= Received
  BY <1>1, Widths DEF IInv, TypeOK, Copying
<1> QED  BY <1>1, <1>2, Widths DEF Unread

LEMMA ContentsType ==
  ASSUME IInv, Arrived
  PROVE  /\ Contents \in Seq(Pointers)
         /\ Len(Contents) = Unread
         /\ \A i \in 1 .. Unread : Contents[i] = Waiting(i)
<1>1. ASSUME NEW i \in 1 .. Unread
      PROVE  Waiting(i) \in Pointers
  <2>1. /\ Unread - i + 1 \in 1 .. Received
        /\ (rx_wr - Unread) + i - 1 = rx_wr - (Unread - i + 1)
        /\ rx_wr - (Unread - i + 1) \in Int
    BY UnreadType
  <2>2. Waiting(i) = (rx_wr - (Unread - i + 1)) % PtrWrap
    BY <2>1 DEF Arrived, Waiting
  <2> QED  BY <2>1, <2>2, Widths DEF Pointers
<1>2. Contents \in [1 .. Unread -> Pointers]
  BY <1>1 DEF Contents
<1>3. \A n \in Nat : \A f : f \in [1 .. n -> Pointers]
                          => f \in Seq(Pointers) /\ Len(f) = n
  OBVIOUS
<1>4. Contents \in Seq(Pointers) /\ Len(Contents) = Unread
  BY <1>2, <1>3, UnreadType, Zenon
<1> QED  BY <1>4 DEF Contents

\* An arriving byte is appended.
LEMMA ArriveAppends ==
  ASSUME IInv, Arrived, Arrive
  PROVE  Len(Contents) < Size /\ Contents' = Append(Contents, rx_wr)
<1>1. UNCHANGED <<pc, done>> /\ Received < Size
  BY DEF Arrive, host, copying
<1>2. Unread' = Unread + 1
  BY <1>1, ArriveShifts, UnreadType DEF Unread
<1>3. \A i \in 1 .. Unread + 1 :
        Waiting(i)' = rx_mem'[Cell((rx_wr - Unread) + i - 1)]
  <2> SUFFICES ASSUME NEW i \in 1 .. Unread + 1
               PROVE  Waiting(i)' = rx_mem'[Cell((rx_wr - Unread) + i - 1)]
    OBVIOUS
  <2>1. rx_wr' \in Int
    <3>1. rx_wr' = (rx_wr + 1) % PtrWrap
      BY DEF Arrive
    <3> QED  BY <3>1, UnreadType, Widths
  <2>2. /\ Unread + 2 - i \in Int
        /\ (rx_wr' - (Unread + 1)) + i - 1 = rx_wr' - (Unread + 2 - i)
        /\ (rx_wr - Unread) + i - 1 = rx_wr - ((Unread + 2 - i) - 1)
    BY <2>1, UnreadType
  <2>3. Cell(rx_wr' - (Unread + 2 - i)) = Cell(rx_wr - ((Unread + 2 - i) - 1))
    BY <2>2, ArriveShifts
  <2> QED  BY <1>2, <2>2, <2>3 DEF Waiting
<1>4. \A i \in 1 .. Unread : Waiting(i)' = Contents[i]
  <2> SUFFICES ASSUME NEW i \in 1 .. Unread PROVE Waiting(i)' = Contents[i]
    OBVIOUS
  <2>1. /\ Unread - i + 1 \in 1 .. Received /\ i \in 1 .. Unread + 1
        /\ (rx_wr - Unread) + i - 1 = rx_wr - (Unread - i + 1)
    BY UnreadType
  <2>2. rx_mem'[Cell(rx_wr - (Unread - i + 1))] = rx_mem[Cell(rx_wr - (Unread - i + 1))]
    BY <2>1, ArriveApart
  <2>3. Waiting(i)' = rx_mem[Cell((rx_wr - Unread) + i - 1)]
    BY <1>3, <2>1, <2>2
  <2> QED  BY <2>3, ContentsType DEF Waiting
<1>5. rx_mem'[Cell((rx_wr - Unread) + (Unread + 1) - 1)] = rx_wr
  <2>1. (rx_wr - Unread) + (Unread + 1) - 1 = rx_wr /\ Unread + 1 \in 1 .. Unread + 1
    BY UnreadType
  <2> QED  BY <2>1, ArriveShifts
<1>6. Contents' = [i \in 1 .. Unread + 1 |-> Waiting(i)']
  BY <1>2 DEF Contents
<1>7. ASSUME NEW i \in 1 .. Unread + 1
      PROVE  Waiting(i)' = IF i = Unread + 1 THEN rx_wr ELSE Contents[i]
  <2>1. CASE i = Unread + 1
    BY <1>3, <1>5, <2>1, UnreadType
  <2>2. CASE i # Unread + 1
    BY <1>4, <2>2, UnreadType
  <2> QED  BY <2>1, <2>2
<1>8. rx_wr \in Pointers
  BY DEF IInv, TypeOK
<1>9. Append(Contents, rx_wr) =
        [i \in 1 .. Unread + 1 |-> IF i = Unread + 1 THEN rx_wr ELSE Contents[i]]
  <2>1. Contents \in Seq(Pointers) /\ Len(Contents) = Unread
    BY ContentsType
  <2>2. Append(Contents, rx_wr) =
          [i \in 1 .. Len(Contents) + 1 |-> IF i = Len(Contents) + 1 THEN rx_wr
                                                                    ELSE Contents[i]]
    BY <1>8, <2>1, AppendFunction
  <2> QED  BY <2>1, <2>2
<1>10. Len(Contents) < Size
  BY <1>1, ContentsType, UnreadType, Widths
<1> QED  BY <1>6, <1>7, <1>9, <1>10

\* A copied byte is the oldest one that waits.
LEMMA LoadTakes ==
  ASSUME IInv, Arrived, Load
  PROVE  /\ Contents # << >> /\ byte' = Head(Contents)
         /\ Contents' = Tail(Contents)
<1>1. /\ pc = "load" /\ pc' = "load" /\ done < want /\ done' = done + 1
      /\ byte' = rx_mem[Cell(ptr + done)] /\ UNCHANGED <<rx_mem, rx_wr, Received>>
      /\ want <= Received /\ ptr = rx_free /\ want \in 0 .. Size
  BY DEF Load, BurstIn, IInv, TypeOK, Copying, chip_vars, Received
<1>2. Unread = Received - done /\ Unread' = Unread - 1 /\ Unread >= 1
  BY <1>1, UnreadType DEF Unread
<1>3. Contents # << >>
  BY <1>2, ContentsType, UnreadType
<1>4. byte' = Head(Contents)
  <2>1. rx_wr \in Pointers /\ rx_free \in Pointers
    BY DEF IInv, TypeOK
  <2>2. (rx_wr - ((rx_wr - rx_free) % PtrWrap)) % PtrWrap = rx_free
    BY <2>1, Widths DEF Pointers
  <2>3. /\ rx_wr - Received \in Int /\ done \in Int
        /\ (rx_wr - Unread) + 1 - 1 = (rx_wr - Received) + done
    BY <1>2, UnreadType
  <2>4. Cell(((rx_wr - Received) % PtrWrap) + done) = Cell((rx_wr - Received) + done)
    BY <2>3, ReducedCell
  <2>5. (rx_wr - Received) % PtrWrap = ptr
    BY <1>1, <2>2 DEF Received
  <2>6. byte' = Waiting(1)
    BY <1>1, <2>3, <2>4, <2>5 DEF Waiting
  <2>7. 1 \in 1 .. Unread
    BY <1>2, UnreadType
  <2>8. Contents[1] = Waiting(1)
    BY <2>7, ContentsType
  <2>9. Head(Contents) = Contents[1]
    BY <1>3, ContentsType
  <2> QED  BY <2>6, <2>8, <2>9
<1>5. Tail(Contents) = [i \in 1 .. Unread - 1 |-> Contents[i + 1]]
  BY <1>3, ContentsType, TailFunction
<1>6. \A i \in 1 .. Unread - 1 : Waiting(i)' = Contents[i + 1]
  <2> SUFFICES ASSUME NEW i \in 1 .. Unread - 1 PROVE Waiting(i)' = Contents[i + 1]
    OBVIOUS
  <2>1. /\ i + 1 \in 1 .. Unread
        /\ (rx_wr - (Unread - 1)) + i - 1 = (rx_wr - Unread) + (i + 1) - 1
    BY UnreadType
  <2>2. Waiting(i)' = rx_mem[Cell((rx_wr - (Unread - 1)) + i - 1)]
    BY <1>1, <1>2 DEF Waiting
  <2> QED  BY <2>1, <2>2, ContentsType DEF Waiting
<1>7. Contents' = [i \in 1 .. Unread - 1 |-> Waiting(i)']
  BY <1>2 DEF Contents
<1> QED  BY <1>3, <1>4, <1>5, <1>6, <1>7

\* Nothing else in the program changes what waits, RECV included: it frees
\* what has been copied.
LEMMA OthersRefine ==
  ASSUME IInv, [Next]_vars, ~Arrive, ~Load
  PROVE  UNCHANGED <<Contents, byte>>
<1>1. CASE UNCHANGED vars
  BY <1>1 DEF vars, chip_vars, host, copying, Contents, Waiting, Unread, Received
<1>2. CASE Recv
  <2>1. /\ pc = "recv" /\ pc' = "ready" /\ done = want
        /\ UNCHANGED <<rx_mem, rx_wr, byte>>
    BY <1>2 DEF Recv, Return, IInv, Copying
  <2>2. Unread' = Unread
    BY <1>2, <2>1, RecvFrees, UnreadType DEF Unread
  <2> QED  BY <2>1, <2>2 DEF Contents, Waiting
<1>3. CASE Next /\ ~Recv
  <2>1. UNCHANGED <<rx_mem, rx_wr, Received>>
    BY <1>3, OthersKeep
  <2>2. byte' = byte
    BY <1>3 DEF Next, Step, Reading, ReadHigh, ReadFirst, ReadSecond, CallRecv, Nothing,
           Something, Wait, Abandon, KeepWaiting, StartLoad, SetRxRd, NoRoom, StartStore,
           Store, SetTxWr, Send, CallSend, Ack, PeerFin, host, copying
  <2>3. Unread' = Unread
    <3>1. CASE StartLoad
      <4>1. pc = "sized" /\ pc' = "load" /\ done' = 0
        BY <3>1 DEF StartLoad, End
      <4> QED  BY <2>1, <4>1, UnreadType DEF Unread
    <3>2. CASE SetRxRd
      BY <2>1, <3>2 DEF SetRxRd, Unread
    <3>3. CASE Ack \/ PeerFin
      BY <2>1, <3>3 DEF Ack, PeerFin, host, copying, Unread
    <3>4. CASE ~(StartLoad \/ SetRxRd \/ Ack \/ PeerFin)
      <4>1. pc \notin {"load", "recv"} /\ pc' \notin {"load", "recv"}
        BY <1>3, <3>4 DEF Next, Step, Reading, ReadHigh, ReadFirst, ReadSecond, CallRecv,
               Nothing, Something, Wait, Abandon, KeepWaiting, NoRoom, StartStore, Store,
               SetTxWr, Send, CallSend, Begin, End, Return
      <4> QED  BY <2>1, <4>1 DEF Unread
    <3> QED  BY <3>1, <3>2, <3>3, <3>4
  <2> QED  BY <2>1, <2>2, <2>3 DEF Contents, Waiting
<1> QED  BY <1>1, <1>2, <1>3

LEMMA StepRefines ==
  ASSUME IInv, Arrived, [Next]_vars
  PROVE  [Queue!Next]_Queue!vars
<1>1. CASE Arrive
  <2>1. byte' = byte
    BY <1>1 DEF Arrive, host, copying
  <2>2. rx_wr \in 0 .. PtrWrap - 1
    BY DEF IInv, TypeOK, Pointers
  <2>3. Queue!Accept(rx_wr)
    BY <1>1, <2>1, ArriveAppends DEF Queue!Accept, Contents, Waiting
  <2> QED  BY <2>2, <2>3 DEF Queue!Next
<1>2. CASE Load
  BY <1>2, LoadTakes DEF Queue!Next, Queue!Take, Contents, Waiting
<1>3. CASE ~Arrive /\ ~Load
  BY <1>3, OthersRefine DEF Queue!vars, Contents, Waiting
<1> QED  BY <1>1, <1>2, <1>3

\* The receive buffer, as the socket driver reads it through wrapping pointers
\* and in bursts of any length, is a first-in first-out queue of Size bytes
\* that loses nothing.
THEOREM ReceiveImplementsQueue == Spec => ImplementsQueue
<1>1. Init => Queue!Init
  <2> SUFFICES ASSUME Init PROVE Queue!Init
    OBVIOUS
  <2>1. Unread = 0 /\ byte = NoByte
    BY Widths DEF Init, Unread, Received
  <2> QED  BY <2>1 DEF Queue!Init
<1> QED
  BY ArrivedInvariance, <1>1, StepRefines, PTL DEF Spec, ImplementsQueue, Queue!Spec

=============================================================================
