--------------------------- MODULE Console_proofs ---------------------------
(***************************************************************************)
(* The console's record and its bytes.  First Settings: what was saved     *)
(* comes back, and the port is never 0, wherever the power fails while a   *)
(* record is written cell by cell, for any texts and ports.  Then          *)
(* UartRing, for every ring size and every set of byte values: the         *)
(* inductive invariant ties the consumer's program counter to the indices, *)
(* so that the ring cannot become empty while a byte is being read, and    *)
(* every slot between tail and head was written.                           *)
(***************************************************************************)
EXTENDS Settings, UartRing, SequenceTheorems, TLAPS

-----------------------------------------------------------------------------
(* The inductive invariant. *)

\* What is being written will be taken for valid.
Marked == phase \in {"save", "migrate"} => config["magic"] = MAGIC

\* Unless a write was interrupted, the EEPROM holds what was saved last, and
\* that is valid.  While a write is under way nothing is promised.
Kept ==
  ~torn /\ stored # ErasedRecord /\ phase \in {"off", "run"} =>
    eeprom = stored /\ IsValid(stored)

Inv == PortUsable /\ Marked /\ Kept

-----------------------------------------------------------------------------
(* Records and ports. *)

\* The records the program makes by itself.
LEMMA OwnRecords ==
  /\ FactoryConfig \in Records /\ ErasedRecord \in Records
  /\ FactoryConfig["port_high"] = 7 /\ FactoryConfig["port_low"] = 91
<1>1. High(DefaultPort) = 7 /\ Low(DefaultPort) = 91
  BY DEF DefaultPort, High, Low
<1>2. 0 \in Values /\ MAGIC \in Values /\ Erased \in Values
  BY InputAssumption DEF Values
<1>3. FactoryConfig["port_high"] = 7 /\ FactoryConfig["port_low"] = 91
  BY <1>1 DEF FactoryConfig, Cells
<1>4. 0 .. 255 \subseteq Values
  BY DEF Values
<1>5. ASSUME NEW c \in Cells PROVE FactoryConfig[c] \in Values
  <2>1. 7 \in Values /\ 91 \in Values
    BY <1>4
  <2>2. FactoryConfig[c] \in {High(DefaultPort), Low(DefaultPort), MAGIC, 0}
    BY DEF FactoryConfig
  <2> QED  BY <1>1, <1>2, <2>1, <2>2
<1>6. FactoryConfig \in Records
  BY <1>5 DEF FactoryConfig, Records
<1>7. ErasedRecord \in Records
  BY <1>2 DEF ErasedRecord, Records
<1> QED  BY <1>3, <1>6, <1>7

\* A port is not zero if one of its bytes is not.
LEMMA OneByteIsEnough ==
  ASSUME NEW r, NEW high \in 0 .. 255, NEW low \in 0 .. 255, high # 0 \/ low # 0,
         r["port_high"] = high, r["port_low"] = low
  PROVE  PortOf(r) # 0
  BY DEF PortOf

LEMMA DefaultIsUsable ==
  ASSUME NEW r, r["port_high"] = 7, r["port_low"] = 91
  PROVE  PortOf(r) # 0
  BY DEF PortOf

\* A port is two bytes, and not both are zero unless it is.
LEMMA PortParts ==
  ASSUME NEW port \in Ports, port # 0
  PROVE  /\ High(port) \in 0 .. 255 /\ Low(port) \in 0 .. 255
         /\ High(port) # 0 \/ Low(port) # 0
<1>1. port \in Nat /\ port < 65536
  BY InputAssumption
<1>2. High(port) \in 0 .. 255
  BY <1>1 DEF High
<1>3. Low(port) \in 0 .. 255
  BY <1>1 DEF Low
<1>4. High(port) # 0 \/ Low(port) # 0
  BY <1>1 DEF High, Low
<1> QED  BY <1>2, <1>3, <1>4

LEMMA OldAreRecords == OldRecords \subseteq Records
<1> SUFFICES ASSUME NEW r \in OldRecords PROVE r \in Records
  OBVIOUS
<1>1. CASE r = ErasedRecord
  BY <1>1, OwnRecords
<1>2. CASE \E t \in Texts \ {0} :
              r = [FactoryConfig EXCEPT !["broker_ip"] = t, !["topic"] = t]
  <2>1. PICK t \in Texts : r = [FactoryConfig EXCEPT !["broker_ip"] = t, !["topic"] = t]
    BY <1>2
  <2>2. t \in Values
    BY DEF Values
  <2> QED  BY <2>1, <2>2, OwnRecords DEF Records
<1> QED  BY <1>1, <1>2 DEF OldRecords

\* Two records that differ in no cell are the same.
LEMMA NothingTodo ==
  ASSUME SettingsTypeOK, Todo = {}
  PROVE  eeprom = config
<1>1. \A c \in Cells : eeprom[c] = config[c]
  BY DEF Todo
<1> QED  BY <1>1 DEF SettingsTypeOK, Records

-----------------------------------------------------------------------------
(* The invariant is inductive. *)

LEMMA InitInv == SettingsInit => Inv
<1> SUFFICES ASSUME SettingsInit PROVE Inv
  OBVIOUS
<1>1. SettingsTypeOK
  BY OwnRecords, OldAreRecords DEF SettingsInit, SettingsTypeOK
<1> QED  BY <1>1 DEF SettingsInit, Inv, PortUsable, Marked, Kept

\* A command leaves a usable record in memory.
LEMMA EditKeeps ==
  ASSUME Inv, NEW new \in Records, PortOf(new) # 0, Edited(new)
  PROVE  Inv'
  BY DEF Inv, PortUsable, SettingsTypeOK, Marked, Kept, Edited

LEMMA BootKeeps ==
  ASSUME Inv, Boot
  PROVE  Inv'
<1>1. CASE IsValid(eeprom) /\ config' = eeprom /\ phase' = "run"
  BY <1>1 DEF Inv, PortUsable, SettingsTypeOK, Marked, Kept, Boot, IsValid, PortOf
<1>2. CASE IsValid(legacy) /\ config' = legacy /\ phase' = "migrate"
  BY <1>2 DEF Inv, PortUsable, SettingsTypeOK, Marked, Kept, Boot, IsValid, PortOf
<1>3. CASE ~IsValid(eeprom) /\ config' = FactoryConfig /\ phase' = "run"
  <2>1. config'["port_high"] = 7 /\ config'["port_low"] = 91
    BY <1>3, OwnRecords
  <2>2. PortOf(config') # 0
    BY <2>1, DefaultIsUsable
  <2> QED  BY <1>3, <2>2, OwnRecords DEF Inv, PortUsable, SettingsTypeOK, Marked, Kept, Boot
<1> QED  BY <1>1, <1>2, <1>3 DEF Boot

LEMMA WriteCellKeeps ==
  ASSUME Inv, WriteCell
  PROVE  Inv'
<1>1. eeprom' \in Records
  BY DEF Inv, PortUsable, SettingsTypeOK, WriteCell, Todo, Records
<1> QED  BY <1>1 DEF Inv, PortUsable, SettingsTypeOK, Marked, Kept, WriteCell, PortOf

LEMMA WrittenKeeps ==
  ASSUME Inv, Written
  PROVE  Inv'
<1>1. eeprom = config /\ IsValid(config)
  BY NothingTodo DEF Inv, PortUsable, Marked, Written, IsValid
<1> QED  BY <1>1 DEF Inv, PortUsable, SettingsTypeOK, Marked, Kept, Written, PortOf, IsValid

\* An interrupted write is noted as torn; one that has just ended is not.
LEMMA StopKeeps ==
  ASSUME Inv, Stop
  PROVE  Inv'
<1>1. SettingsTypeOK'
  BY OwnRecords DEF Inv, PortUsable, SettingsTypeOK, Stop
<1>2. Kept'
  <2>1. CASE phase \in {"save", "migrate"} /\ Todo = {}
    <3>1. eeprom = config /\ IsValid(config)
      BY <2>1, NothingTodo DEF Inv, PortUsable, Marked, IsValid
    <3> QED  BY <2>1, <3>1 DEF Kept, Stop, IsValid, PortOf
  <2>2. CASE phase \in {"save", "migrate"} /\ Todo # {}
    BY <2>2 DEF Kept, Stop
  <2>3. CASE phase = "run"
    BY <2>3 DEF Inv, Kept, Stop, IsValid, PortOf
  <2> QED  BY <2>1, <2>2, <2>3 DEF Inv, PortUsable, SettingsTypeOK, Stop
<1> QED  BY <1>1, <1>2 DEF Inv, PortUsable, Marked, Stop

LEMMA SaveKeeps ==
  ASSUME Inv, Save
  PROVE  Inv'
<1>1. config' \in Records /\ config'["magic"] = MAGIC /\ PortOf(config') = PortOf(config)
  BY DEF Inv, PortUsable, SettingsTypeOK, Save, Records, Values, Cells, PortOf
<1> QED  BY <1>1 DEF Inv, PortUsable, SettingsTypeOK, Marked, Kept, Save, PortOf, IsValid

LEMMA CommandKeeps ==
  ASSUME Inv, SetDevice \/ FailBroker \/ SetBroker \/ SetTopic \/ Reset
  PROVE  Inv'
<1>1. config \in Records /\ Texts \subseteq Values /\ 0 .. 255 \subseteq Values
  BY DEF Inv, PortUsable, SettingsTypeOK, Values
<1>2. phase = "run" => PortOf(config) # 0
  BY DEF Inv, PortUsable
<1>3. ASSUME NEW t \in Texts, NEW c \in {"device", "broker_ip", "topic"},
             Edited([config EXCEPT ![c] = t])
      PROVE  Inv'
  <2> DEFINE new == [config EXCEPT ![c] = t]
  <2>1. new \in Records /\ PortOf(new) = PortOf(config)
    BY <1>1 DEF Records, Cells, PortOf
  <2> HIDE DEF new
  <2>2. Edited(new) /\ phase = "run"
    BY <1>3 DEF new, Edited
  <2> QED  BY <1>2, <2>1, <2>2, EditKeeps
<1>4. ASSUME NEW ip \in Texts, NEW port \in Ports, Accepted(port),
             Edited([config EXCEPT !["broker_ip"] = ip, !["port_high"] = High(port),
                                   !["port_low"] = Low(port)])
      PROVE  Inv'
  <2>1. /\ High(port) \in 0 .. 255 /\ Low(port) \in 0 .. 255
        /\ High(port) # 0 \/ Low(port) # 0
    BY <1>4, PortParts DEF Accepted
  <2> DEFINE new == [config EXCEPT !["broker_ip"] = ip, !["port_high"] = High(port),
                                   !["port_low"] = Low(port)]
  <2>2. new \in Records
    BY <1>1, <2>1 DEF Records
  <2>3. new["port_high"] = High(port) /\ new["port_low"] = Low(port)
    BY <1>1 DEF Records, Cells
  <2>4. Edited(new)
    BY <1>4
  <2> HIDE DEF new
  <2>5. PortOf(new) # 0
    BY <2>1, <2>3, OneByteIsEnough
  <2> QED  BY <2>2, <2>4, <2>5, EditKeeps
<1>5. CASE Reset
  <2> DEFINE new == [FactoryConfig EXCEPT !["topic"] = config["topic"]]
  <2>1. new \in Records
    BY <1>1, OwnRecords DEF Records, Cells
  <2>2. new["port_high"] = 7 /\ new["port_low"] = 91
    BY OwnRecords DEF Records, Cells
  <2>3. Edited(new)
    BY <1>5 DEF Reset
  <2> HIDE DEF new
  <2>4. PortOf(new) # 0
    BY <2>2, DefaultIsUsable
  <2> QED  BY <2>1, <2>3, <2>4, EditKeeps
<1>6. CASE SetDevice \/ FailBroker \/ SetTopic
  BY <1>3, <1>6 DEF SetDevice, FailBroker, SetTopic
<1>7. CASE SetBroker
  BY <1>4, <1>7 DEF SetBroker
<1> QED  BY <1>5, <1>6, <1>7

LEMMA NextInv == Inv /\ [SettingsNext]_settings_vars => Inv'
<1>1. ASSUME Inv, UNCHANGED settings_vars PROVE Inv'
  <2>1. SettingsTypeOK' /\ Marked' /\ Kept'
    BY <1>1 DEF Inv, PortUsable, SettingsTypeOK, Marked, Kept, settings_vars, IsValid, PortOf
  <2>2. (phase # "off" => PortOf(config) # 0)'
    BY <1>1 DEF Inv, PortUsable, settings_vars, PortOf
  <2> QED  BY <2>1, <2>2 DEF Inv, PortUsable
<1> QED  BY <1>1, BootKeeps, WriteCellKeeps, WrittenKeeps, StopKeeps, SaveKeeps,
         CommandKeeps DEF SettingsNext

-----------------------------------------------------------------------------
(* Safety. *)

\* The type is kept, what is being written is valid, and the EEPROM holds what
\* was saved last, after every step of Next.
THEOREM SettingsInvariance == SettingsSpec => []Inv
  BY InitInv, NextInv, PTL DEF SettingsSpec

\* The client is never given port 0, although an interrupted save may mix the
\* bytes of two ports.
THEOREM PortNeverZero == SettingsSpec => []PortUsable
<1>1. Inv => PortUsable
  BY DEF Inv
<1> QED  BY <1>1, SettingsInvariance, PTL

\* Only Boot leaves "off", and it finds what was saved.
THEOREM SavedReturns == SettingsSpec => SavedComesBack
<1>1. Inv /\ [SettingsNext]_settings_vars =>
        [phase = "off" /\ phase' # "off" /\ ~torn /\ stored # ErasedRecord
           => config' = stored]_settings_vars
  <2> SUFFICES ASSUME Inv, SettingsNext, phase = "off", phase' # "off", ~torn,
                      stored # ErasedRecord
               PROVE  config' = stored
    OBVIOUS
  <2>1. Boot
    BY DEF SettingsNext, WriteCell, Written, Stop, SetDevice, FailBroker, SetBroker, SetTopic,
       Reset, Save, Edited
  <2>2. eeprom = stored /\ IsValid(eeprom)
    BY DEF Inv, Kept
  <2> QED  BY <2>1, <2>2 DEF Boot
<1> QED  BY <1>1, SettingsInvariance, PTL DEF SettingsSpec, SavedComesBack

\* Slot i lies between rx_tail and rx_head.
Occupied(i) ==
  IF rx_tail <= rx_head THEN rx_tail <= i /\ i < rx_head
                        ELSE rx_tail <= i \/ i < rx_head

\* The reader found the ring non-empty and only it can empty it.
ReaderHasByte == pc \in {"test", "fetch", "free"} => rx_tail # rx_head

\* The slot being read is the oldest one, or the one just freed.
SlotTracksTail ==
  /\ pc \in {"fetch", "free"} => slot = rx_tail
  /\ pc = "load" => rx_tail = RingNext(slot)

\* Occupied slots, and the one being read, hold bytes of the line.
OccupiedWritten ==
  /\ \A i \in Slots : Occupied(i) => rx_buffer[i] \in Byte
  /\ pc = "load" => rx_buffer[slot] \in Byte
  /\ pc = "free" => byte = rx_buffer[slot]

\* No byte was made up.
NeverFallsThrough == returned # ZeroByte

IInv ==
  /\ TypeOK
  /\ ReaderHasByte
  /\ SlotTracksTail
  /\ OccupiedWritten
  /\ NeverFallsThrough

\* Advancing an index: the mask is the remainder, so the last slot is
\* followed by slot 0.
LEMMA RingNextCases ==
  ASSUME NEW i \in Slots
  PROVE  /\ RingNext(i) = (IF i = Size - 1 THEN 0 ELSE i + 1)
         /\ RingNext(i) \in Slots
<1>1. CASE i = Size - 1
  <2>1. (i + 1) % Size = 0
    BY <1>1, SizeAssumption DEF Slots
  <2> QED BY <1>1, <2>1, SizeAssumption DEF Slots, RingNext
<1>2. CASE i # Size - 1
  <2>1. (i + 1) % Size = i + 1
    BY <1>2, SizeAssumption DEF Slots
  <2> QED BY <1>2, <2>1, SizeAssumption DEF Slots, RingNext
<1> QED BY <1>1, <1>2

\* The invariant holds initially.
LEMMA InitIInv == Init => IInv
  BY SizeAssumption, NoByteAssumption, MaxDroppedAssumption
  DEF Init, IInv, TypeOK, ReaderHasByte, SlotTracksTail, OccupiedWritten,
      NeverFallsThrough, Occupied, Slots

\* The ISR preserves the invariant: it writes the one slot that is neither
\* occupied nor being read.
LEMMA RxIsrIInv ==
  ASSUME IInv, NEW b \in Byte, RxIsr(b)
  PROVE  IInv'
<1> USE SizeAssumption DEF IInv, Slots
<1>1. rx_head \in Slots /\ rx_tail \in Slots
  BY DEF TypeOK
<1>2. CASE Store(b)
  <2>1. /\ RingNext(rx_head) # rx_tail
        /\ rx_buffer' = [rx_buffer EXCEPT ![rx_head] = b]
        /\ rx_head' = RingNext(rx_head)
        /\ UNCHANGED <<rx_tail, pc, slot, byte, returned, dropped>>
    BY <1>2 DEF Store, RxIsr
  <2>2. /\ RingNext(rx_head) \in Slots
        /\ RingNext(rx_head) = (IF rx_head = Size - 1 THEN 0 ELSE rx_head + 1)
    BY <1>1, RingNextCases
  <2>3. TypeOK'
    BY <2>1, <2>2 DEF TypeOK
  <2>4. ReaderHasByte'
    BY <2>1 DEF ReaderHasByte
  <2>5. SlotTracksTail'
    BY <2>1 DEF SlotTracksTail
  <2>6. OccupiedWritten'
    <3>1. ASSUME NEW i \in Slots, Occupied(i)'
          PROVE  rx_buffer'[i] \in Byte
      <4>1. i = rx_head \/ Occupied(i)
        BY <1>1, <2>1, <2>2, <3>1 DEF Occupied
      <4> QED BY <4>1, <2>1 DEF OccupiedWritten, TypeOK
    <3>2. ASSUME pc' = "load"
          PROVE  rx_buffer'[slot'] \in Byte
      BY <2>1, <3>2 DEF OccupiedWritten, TypeOK
    <3>3. ASSUME pc' = "free"
          PROVE  byte' = rx_buffer'[slot']
      <4>1. slot = rx_tail /\ rx_tail # rx_head
        BY <2>1, <3>3 DEF SlotTracksTail, ReaderHasByte
      <4> QED BY <4>1, <2>1, <3>3, <1>1 DEF OccupiedWritten, TypeOK
    <3> QED BY <3>1, <3>2, <3>3 DEF OccupiedWritten
  <2>7. NeverFallsThrough'
    BY <2>1 DEF NeverFallsThrough
  <2> QED BY <2>3, <2>4, <2>5, <2>6, <2>7
<1>3. CASE Drop
  <2>1. /\ dropped < MaxDropped /\ dropped' = dropped + 1
        /\ UNCHANGED <<rx_head, rx_tail, rx_buffer, pc, slot, byte, returned>>
    BY <1>3 DEF Drop, RxIsr
  <2>2. TypeOK'
    BY <2>1, MaxDroppedAssumption DEF TypeOK
  <2> QED
    BY <2>1, <2>2
    DEF ReaderHasByte, SlotTracksTail, OccupiedWritten, NeverFallsThrough,
        Occupied
<1> QED BY <1>2, <1>3 DEF RxIsr

\* Every step of the reader preserves the invariant.
LEMMA ReaderIInv ==
  ASSUME IInv, Reader
  PROVE  IInv'
<1> USE SizeAssumption DEF IInv, Slots
<1>1. /\ rx_head \in Slots /\ rx_tail \in Slots /\ slot \in Slots
      /\ RingNext(rx_tail) \in Slots
      /\ RingNext(rx_tail) =
           (IF rx_tail = Size - 1 THEN 0 ELSE rx_tail + 1)
  BY RingNextCases DEF TypeOK
<1>2. CASE Poll
  BY <1>2 DEF Poll, TypeOK, ReaderHasByte, SlotTracksTail, OccupiedWritten,
              NeverFallsThrough, Occupied
<1>3. CASE Test
  <2>1. rx_tail # rx_head
    BY <1>3 DEF Test, ReaderHasByte
  <2> QED
    BY <1>1, <1>3, <2>1
    DEF Test, TypeOK, ReaderHasByte, SlotTracksTail, OccupiedWritten,
        NeverFallsThrough, Occupied
<1>4. CASE LoadFirst
  <2>1. slot = rx_tail /\ rx_tail # rx_head
    BY <1>4 DEF LoadFirst, SlotTracksTail, ReaderHasByte
  <2>2. rx_buffer[slot] \in Byte
    BY <1>1, <2>1 DEF OccupiedWritten, Occupied
  <2> QED
    BY <1>1, <1>4, <2>1, <2>2
    DEF LoadFirst, TypeOK, ReaderHasByte, SlotTracksTail, OccupiedWritten,
        NeverFallsThrough, Occupied
<1>5. CASE FreeLast
  <2>1. slot = rx_tail /\ rx_tail # rx_head /\ byte = rx_buffer[slot]
    BY <1>5 DEF FreeLast, SlotTracksTail, ReaderHasByte, OccupiedWritten
  <2>2. byte \in Byte /\ byte # ZeroByte
    BY <1>1, <2>1, NoByteAssumption DEF OccupiedWritten, Occupied
  <2>3. ASSUME NEW i \in Slots, Occupied(i)'
        PROVE  Occupied(i)
    BY <1>1, <1>5, <2>1, <2>3 DEF FreeLast, Occupied
  <2> QED
    BY <1>1, <1>5, <2>2, <2>3
    DEF FreeLast, TypeOK, ReaderHasByte, SlotTracksTail, OccupiedWritten,
        NeverFallsThrough
<1>6. CASE FreeFirst
  <2>1. slot = rx_tail /\ rx_tail # rx_head
    BY <1>6 DEF FreeFirst, SlotTracksTail, ReaderHasByte
  <2>2. rx_buffer[slot] \in Byte
    BY <1>1, <2>1 DEF OccupiedWritten, Occupied
  <2>3. ASSUME NEW i \in Slots, Occupied(i)'
        PROVE  Occupied(i)
    BY <1>1, <1>6, <2>1, <2>3 DEF FreeFirst, Occupied
  <2> QED
    BY <1>1, <1>6, <2>1, <2>2, <2>3
    DEF FreeFirst, TypeOK, ReaderHasByte, SlotTracksTail, OccupiedWritten,
        NeverFallsThrough
<1>7. CASE LoadLast
  <2>1. rx_buffer[slot] \in Byte /\ rx_buffer[slot] # ZeroByte
    BY <1>7, NoByteAssumption DEF LoadLast, OccupiedWritten
  <2> QED
    BY <1>1, <1>7, <2>1
    DEF LoadLast, TypeOK, ReaderHasByte, SlotTracksTail, OccupiedWritten,
        NeverFallsThrough, Occupied
<1> QED BY <1>2, <1>3, <1>4, <1>5, <1>6, <1>7 DEF Reader

\* A step that changes nothing preserves the invariant.
LEMMA StutterIInv == IInv /\ UNCHANGED vars => IInv'
  BY DEF IInv, TypeOK, ReaderHasByte, SlotTracksTail, OccupiedWritten,
         NeverFallsThrough, Occupied, vars

\* The invariant is inductive.
THEOREM IInvInvariant == Spec => []IInv
<1>1. IInv /\ [Next]_vars => IInv'
  BY RxIsrIInv, ReaderIInv, StutterIInv DEF Next
<1> QED BY InitIInv, <1>1, PTL DEF Spec

\* Type correctness of the ring.
THEOREM TypeCorrect == Spec => []TypeOK
<1>1. IInv => TypeOK  BY DEF IInv
<1> QED BY IInvInvariant, <1>1, PTL

\* read_byte() never falls through to its "return 0" in the parser loop and
\* only loads from slots the ISR has written, for every ring size and every
\* interleaving with the receive interrupt.
THEOREM ByteNeverFabricated == Spec => []NoFabricatedByte
<1>1. IInv => NoFabricatedByte
  <2>1. IInv => returned # ZeroByte
    BY DEF IInv, NeverFallsThrough
  <2>2. ASSUME IInv, pc = "fetch" PROVE rx_buffer[slot] \in Byte
    BY <2>2, SizeAssumption
    DEF IInv, TypeOK, ReaderHasByte, SlotTracksTail, OccupiedWritten,
        Occupied, Slots
  <2>3. ASSUME IInv, pc = "load" PROVE rx_buffer[slot] \in Byte
    BY <2>3 DEF IInv, OccupiedWritten
  <2> QED BY <2>1, <2>2, <2>3 DEF NoFabricatedByte
<1> QED BY IInvInvariant, <1>1, PTL

\* No step changes the slot the reader is loading from.
LEMMA LoadedSlotStep ==
  ASSUME IInv, Next, pc \in {"fetch", "load"}
  PROVE  rx_buffer'[slot] = rx_buffer[slot]
<1>1. ASSUME NEW b \in Byte, RxIsr(b)
      PROVE  rx_buffer'[slot] = rx_buffer[slot]
  <2>1. CASE Store(b)
    <3>1. slot # rx_head
      BY <2>1 DEF Store, IInv, TypeOK, ReaderHasByte, SlotTracksTail
    <3> QED BY <2>1, <3>1 DEF Store, IInv, TypeOK
  <2>2. CASE Drop
    BY <2>2 DEF Drop
  <2> QED BY <1>1, <2>1, <2>2 DEF RxIsr
<1>2. CASE Reader
  BY <1>2 DEF Reader, Poll, Test, LoadFirst, FreeLast, FreeFirst, LoadLast
<1> QED BY <1>1, <1>2 DEF Next

\* The slot being loaded is stable under the ISR, in both load orders.
THEOREM LoadedSlotNeverOverwritten == Spec => LoadedSlotStable
<1>1. IInv /\ [Next]_vars =>
        [(pc \in {"fetch", "load"}) => (rx_buffer'[slot] = rx_buffer[slot])]_vars
  BY LoadedSlotStep
<1> QED BY IInvInvariant, <1>1, PTL DEF Spec, LoadedSlotStable

-----------------------------------------------------------------------------
(* The ring implements the bounded queue. *)

\* Append and Tail, written as functions.
LEMMA AppendFunction ==
  ASSUME NEW S, NEW s \in Seq(S), NEW e \in S
  PROVE  Append(s, e) =
           [i \in 1 .. Len(s) + 1 |-> IF i = Len(s) + 1 THEN e ELSE s[i]]
<1> DEFINE f == [i \in 1 .. Len(s) + 1 |->
                  IF i = Len(s) + 1 THEN e ELSE s[i]]
<1>1. Len(s) \in Nat
  BY LenProperties
<1>2. f \in [1 .. Len(s) + 1 -> S]
  BY <1>1, ElementOfSeq
<1>3. f \in Seq(S) /\ Len(f) = Len(s) + 1
  BY <1>1, <1>2
<1>4. \A i \in 1 .. Len(s) + 1 : f[i] = Append(s, e)[i]
  BY <1>1, AppendProperties
<1>5. Append(s, e) \in Seq(S) /\ Len(Append(s, e)) = Len(s) + 1
  BY AppendProperties
<1> QED BY <1>3, <1>4, <1>5, SeqEqual

LEMMA TailFunction ==
  ASSUME NEW S, NEW s \in Seq(S), s # << >>
  PROVE  Tail(s) = [i \in 1 .. Len(s) - 1 |-> s[i + 1]]
<1> DEFINE f == [i \in 1 .. Len(s) - 1 |-> s[i + 1]]
<1>1. Len(s) \in Nat \ {0}
  BY EmptySeq
<1>2. f \in [1 .. Len(s) - 1 -> S]
  BY <1>1, ElementOfSeq
<1>3. f \in Seq(S) /\ Len(f) = Len(s) - 1
  BY <1>1, <1>2
<1>4. Tail(s) \in Seq(S) /\ Len(Tail(s)) = Len(s) - 1
  BY HeadTailProperties
<1>5. \A i \in 1 .. Len(s) - 1 : f[i] = Tail(s)[i]
  BY <1>1, <1>4, HeadTailProperties
<1> QED BY <1>3, <1>4, <1>5, SeqEqual

\* The oldest Count slots are exactly the occupied ones.
LEMMA SlotOfOccupied ==
  ASSUME TypeOK, NEW i \in 1 .. Count
  PROVE  SlotOf(i) \in Slots /\ Occupied(SlotOf(i))
  BY SizeAssumption DEF TypeOK, Slots, Count, SlotOf, Occupied

\* The contents of the ring are a sequence of bytes of the line.
LEMMA ContentsType ==
  ASSUME IInv
  PROVE  /\ Count \in 0 .. Size - 1
         /\ Contents \in Seq(Byte)
         /\ Len(Contents) = Count
         /\ \A i \in 1 .. Count : Contents[i] = rx_buffer[SlotOf(i)]
<1>1. Count \in 0 .. Size - 1
  BY SizeAssumption DEF IInv, TypeOK, Slots, Count
<1>2. \A i \in 1 .. Count : rx_buffer[SlotOf(i)] \in Byte
  BY SlotOfOccupied DEF IInv, OccupiedWritten
<1>3. Contents \in [1 .. Count -> Byte]
  BY <1>2 DEF Contents
<1>4. Contents \in Seq(Byte) /\ Len(Contents) = Count
  BY <1>1, <1>3, SizeAssumption
<1> QED BY <1>1, <1>4 DEF Contents

\* Storing a byte appends it to the contents.
LEMMA StoreAppends ==
  ASSUME IInv, IInv', NEW b \in Byte, Store(b), rx_tail' = rx_tail
  PROVE  /\ Len(Contents) < Size - 1
         /\ Contents' = Append(Contents, b)
<1> USE SizeAssumption DEF Slots
<1>1. /\ rx_head \in Slots /\ rx_tail \in Slots
      /\ rx_buffer \in [Slots -> Byte \cup {NoByte}]
  BY DEF IInv, TypeOK
<1>2. RingNext(rx_head) = (IF rx_head = Size - 1 THEN 0 ELSE rx_head + 1)
  BY <1>1, RingNextCases
<1>3. Count < Size - 1 /\ Count' = Count + 1 /\ Count \in Nat
  BY <1>1, <1>2 DEF Store, Count
<1>4. SlotOf(Count + 1) = rx_head
  BY <1>1 DEF Count, SlotOf
<1>5. \A i \in 1 .. Count + 1 : SlotOf(i)' = SlotOf(i)
  BY DEF SlotOf
<1>6. \A i \in 1 .. Count : SlotOf(i) # rx_head /\ SlotOf(i) \in Slots
  BY <1>1 DEF Count, SlotOf
<1>7. Contents' = [i \in 1 .. Count + 1 |-> rx_buffer'[SlotOf(i)]]
  BY <1>3, <1>5 DEF Contents
<1>8. \A i \in 1 .. Count : rx_buffer'[SlotOf(i)] = Contents[i]
  BY <1>1, <1>6, ContentsType DEF Store
<1>9. rx_buffer'[SlotOf(Count + 1)] = b
  BY <1>1, <1>4 DEF Store
<1>10. Append(Contents, b) =
         [i \in 1 .. Count + 1 |-> IF i = Count + 1 THEN b ELSE Contents[i]]
  BY ContentsType, AppendFunction
<1>11. ASSUME NEW i \in 1 .. Count + 1
       PROVE  rx_buffer'[SlotOf(i)] =
                (IF i = Count + 1 THEN b ELSE Contents[i])
  <2>1. CASE i = Count + 1
    BY <1>9, <2>1
  <2>2. CASE i # Count + 1
    BY <1>3, <1>8, <2>2
  <2> QED BY <2>1, <2>2
<1>12. Len(Contents) < Size - 1
  BY <1>3, ContentsType
<1> QED BY <1>7, <1>10, <1>11, <1>12

\* Freeing the oldest slot removes the oldest byte from the contents.
LEMMA FreeRemoves ==
  ASSUME IInv, rx_tail # rx_head, rx_tail' = RingNext(rx_tail),
         rx_head' = rx_head, rx_buffer' = rx_buffer
  PROVE  /\ Contents # << >>
         /\ Head(Contents) = rx_buffer[rx_tail]
         /\ Contents' = Tail(Contents)
<1> USE SizeAssumption DEF Slots
<1>1. rx_head \in Slots /\ rx_tail \in Slots
  BY DEF IInv, TypeOK
<1>2. RingNext(rx_tail) = (IF rx_tail = Size - 1 THEN 0 ELSE rx_tail + 1)
  BY <1>1, RingNextCases
<1>3. Count \in Nat \ {0} /\ Count' = Count - 1
  BY <1>1, <1>2 DEF Count
<1>4. Contents # << >>
  BY <1>3, ContentsType
<1>5. SlotOf(1) = rx_tail
  BY <1>1 DEF SlotOf
<1>6. Head(Contents) = rx_buffer[rx_tail]
  BY <1>3, <1>4, <1>5, ContentsType
<1>7. \A i \in 1 .. Count - 1 : SlotOf(i)' = SlotOf(i + 1)
  BY <1>1, <1>2, <1>3 DEF Count, SlotOf
<1>8. Contents' = [i \in 1 .. Count - 1 |-> rx_buffer[SlotOf(i + 1)]]
  BY <1>3, <1>7 DEF Contents
<1>9. Tail(Contents) = [i \in 1 .. Count - 1 |-> Contents[i + 1]]
  BY <1>4, ContentsType, TailFunction
<1>10. \A i \in 1 .. Count - 1 : Contents[i + 1] = rx_buffer[SlotOf(i + 1)]
  BY <1>3, ContentsType
<1> QED BY <1>4, <1>6, <1>8, <1>9, <1>10

\* Every step of the ring is a step of the queue or changes nothing it sees.
LEMMA StepRefines ==
  ASSUME IInv, IInv', [Next]_vars
  PROVE  [Queue!Next]_Queue!vars
<1> DEFINE Taken == IF pc = "load" THEN rx_buffer[slot] ELSE returned
<1> SUFFICES \/ Queue!Next
             \/ UNCHANGED <<Contents, Taken, dropped>>
  BY DEF Queue!vars
<1>1. ASSUME NEW b \in Byte, RxIsr(b), Store(b)
      PROVE  Queue!Accept(b)
  <2>1. rx_tail' = rx_tail
    BY <1>1 DEF RxIsr
  <2>2. Len(Contents) < Size - 1 /\ Contents' = Append(Contents, b)
    BY <1>1, <2>1, StoreAppends
  <2>3. pc = "load" => rx_buffer'[slot] = rx_buffer[slot]
    BY <1>1, LoadedSlotStep DEF Next
  <2>4. Taken' = Taken /\ dropped' = dropped
    BY <1>1, <2>3 DEF RxIsr, Store
  <2> QED BY <2>2, <2>4 DEF Queue!Accept
<1>2. ASSUME NEW b \in Byte, RxIsr(b), Drop
      PROVE  Queue!Lose
  <2>1. Contents' = Contents /\ Taken' = Taken
    BY <1>2 DEF RxIsr, Drop, Contents, Count, SlotOf
  <2>2. RingNext(rx_head) = (IF rx_head = Size - 1 THEN 0 ELSE rx_head + 1)
    BY RingNextCases DEF IInv, TypeOK
  <2>3. Count = Size - 1
    BY <1>2, <2>2, SizeAssumption DEF Drop, Count, IInv, TypeOK, Slots
  <2>4. Len(Contents) = Size - 1
    BY <2>3, ContentsType
  <2> QED BY <1>2, <2>1, <2>4 DEF Drop, Queue!Lose
<1>3. CASE Poll
  BY <1>3 DEF Poll, Contents, Count, SlotOf
<1>4. CASE Test
  BY <1>4 DEF Test, IInv, ReaderHasByte, Contents, Count, SlotOf
<1>5. CASE LoadFirst
  BY <1>5 DEF LoadFirst, Contents, Count, SlotOf
<1>6. CASE FreeLast
  <2>1. slot = rx_tail /\ rx_tail # rx_head /\ byte = rx_buffer[slot]
    BY <1>6 DEF FreeLast, IInv, SlotTracksTail, ReaderHasByte,
                OccupiedWritten
  <2>2. /\ Contents # << >> /\ Head(Contents) = rx_buffer[rx_tail]
        /\ Contents' = Tail(Contents)
    BY <1>6, <2>1, FreeRemoves DEF FreeLast
  <2> QED BY <1>6, <2>1, <2>2 DEF FreeLast, Queue!Take, Queue!Next
<1>7. CASE FreeFirst
  <2>1. slot = rx_tail /\ rx_tail # rx_head
    BY <1>7 DEF FreeFirst, IInv, SlotTracksTail, ReaderHasByte
  <2>2. /\ Contents # << >> /\ Head(Contents) = rx_buffer[rx_tail]
        /\ Contents' = Tail(Contents)
    BY <1>7, <2>1, FreeRemoves DEF FreeFirst
  <2> QED BY <1>7, <2>1, <2>2 DEF FreeFirst, Queue!Take, Queue!Next
<1>8. CASE LoadLast
  BY <1>8 DEF LoadLast, Contents, Count, SlotOf
<1>9. CASE UNCHANGED vars
  BY <1>9 DEF vars, Contents, Count, SlotOf
<1> QED
  BY <1>1, <1>2, <1>3, <1>4, <1>5, <1>6, <1>7, <1>8, <1>9
  DEF Next, RxIsr, Reader, Queue!Next

\* The ring of UART.cpp is a first-in first-out queue of Size - 1 bytes that
\* loses a byte only when it is full.
THEOREM RingImplementsQueue == Spec => ImplementsQueue
<1>1. Init => Queue!Init
  BY SizeAssumption DEF Init, Queue!Init, Contents, Count
<1> QED
  BY IInvInvariant, <1>1, StepRefines, PTL
  DEF Spec, ImplementsQueue, Queue!Spec

=============================================================================
