------------------------------ MODULE Settings ------------------------------
(***************************************************************************)
(* The configuration of src/Config/LightweightConfig.cpp: the record in    *)
(* memory that the console commands edit, and its copy in the EEPROM that  *)
(* save() and the migration write cell by cell.  Power may fail, or the    *)
(* watchdog bite, at any time; the EEPROM keeps what has been written.     *)
(*                                                                         *)
(* A cell is written as a whole: the address of the broker, the two bytes  *)
(* of its port, the device (its addresses and its client id, which are all *)
(* edited, reset and stored alike), the topics, and the magic number.      *)
(***************************************************************************)
EXTENDS Integers

CONSTANTS
  Ports,    \* the ports the user may type
  Texts     \* what may stand in a text or an address; 0 is the default

ASSUME InputAssumption ==
  /\ 0 \in Texts /\ Texts \subseteq Nat
  /\ \A port \in Ports : port \in Nat /\ port < 65536

DefaultPort == 1883
High(port) == port \div 256

Low(port) == port % 256

Cells == {"broker_ip", "port_high", "port_low", "device", "topic", "magic"}

\* An erased cell reads as ones, the magic number is no byte.
Erased == 255
MAGIC == 256
Values == Texts \cup 0 .. 255 \cup {MAGIC, Erased}

VARIABLES
  config,  \* config_
  eeprom,  \* the record at EEPROM_ADDR
  legacy,  \* the record an older firmware left at EEPROM_ADDR_LEGACY
  phase,   \* "off", "run", or what is writing: "save", "migrate"
  \* History.
  stored,  \* the last record that was written completely
  torn     \* has a write been interrupted since?

settings_vars == <<config, eeprom, legacy, phase, stored, torn>>

ErasedRecord == [c \in Cells |-> Erased]

\* reset_to_defaults() on the zeros of a static object.
FactoryConfig ==
  [c \in Cells |-> CASE c = "port_high" -> High(DefaultPort)
                     [] c = "port_low" -> Low(DefaultPort)
                     [] c = "magic"  -> MAGIC
                     [] OTHER        -> 0]

PortOf(r) == 256 * r["port_high"] + r["port_low"]

\* Faulty variant: the magic number alone decides.
IsValid_MagicOnly(r) == r["magic"] = MAGIC

\* is_valid_config()
IsValid(r) == r["magic"] = MAGIC /\ PortOf(r) # 0

-----------------------------------------------------------------------------
(* Power up: the constructor and load().                                   *)

Boot ==
  /\ phase = "off"
  /\ \/ IsValid(eeprom) /\ config' = eeprom /\ phase' = "run"
     \/ /\ ~IsValid(eeprom) /\ IsValid(legacy)
        /\ config' = legacy /\ phase' = "migrate"
     \/ /\ ~IsValid(eeprom) /\ ~IsValid(legacy)
        /\ config' = FactoryConfig /\ phase' = "run"
  /\ UNCHANGED <<eeprom, legacy, stored, torn>>

-----------------------------------------------------------------------------
(* Writing: save() or the migration in load().  The order of the cells is  *)
(* the library's; a cell that does not change is not written.              *)

Todo == {c \in Cells : eeprom[c] # config[c]}

WriteCell ==
  /\ phase \in {"save", "migrate"}
  /\ \E c \in Todo : eeprom' = [eeprom EXCEPT ![c] = config[c]]
  /\ UNCHANGED <<config, legacy, phase, stored, torn>>

Written ==
  /\ phase \in {"save", "migrate"} /\ Todo = {}
  /\ phase' = "run"
  /\ stored' = config /\ torn' = FALSE
  /\ UNCHANGED <<config, eeprom, legacy>>

\* Power failure, watchdog or the reboot command.
Stop ==
  /\ phase # "off"
  /\ phase' = "off"
  /\ torn' = (torn \/ (phase \in {"save", "migrate"} /\ Todo # {}))
  /\ stored' = IF phase \in {"save", "migrate"} /\ Todo = {} THEN config ELSE stored
  /\ config' = FactoryConfig
  /\ UNCHANGED <<eeprom, legacy>>

-----------------------------------------------------------------------------
(* process_command() *)

Edited(new) ==
  /\ phase = "run"
  /\ config' = new
  /\ UNCHANGED <<eeprom, legacy, phase, stored, torn>>

\* ip, sn, gw, id.  parse_ip() stores each octet as it goes: an address that turns
\* out to be invalid leaves another one behind, as a valid one does.
SetDevice == \E t \in Texts : Edited([config EXCEPT !["device"] = t])

\* br with an address or a port that is not valid: the address is changed.
FailBroker == \E ip \in Texts : Edited([config EXCEPT !["broker_ip"] = ip])

\* Faulty variant: parse_port_u16() lets zero through.
Accepted_Zero(port) == TRUE

Accepted(port) == port # 0

\* br
SetBroker ==
  \E ip \in Texts, port \in Ports :
    /\ Accepted(port)
    /\ Edited([config EXCEPT !["broker_ip"] = ip,
                             !["port_high"] = High(port), !["port_low"] = Low(port)])

\* input, gong sub
SetTopic == \E t \in Texts \ {0} : Edited([config EXCEPT !["topic"] = t])

\* reset: the topics are not among what reset_to_defaults() assigns.
Reset == Edited([FactoryConfig EXCEPT !["topic"] = config["topic"]])

\* save
Save ==
  /\ phase = "run"
  /\ config' = [config EXCEPT !["magic"] = MAGIC]
  /\ phase' = "save"
  /\ UNCHANGED <<eeprom, legacy, stored, torn>>

-----------------------------------------------------------------------------

\* A record an older firmware has saved, or none.
Records == [Cells -> Values]
OldRecords ==
  {ErasedRecord}
  \cup {[FactoryConfig EXCEPT !["broker_ip"] = t, !["topic"] = t] : t \in Texts \ {0}}

SettingsInit ==
  /\ config = FactoryConfig
  /\ eeprom = ErasedRecord /\ legacy \in OldRecords
  /\ phase = "off" /\ stored = ErasedRecord /\ torn = FALSE

SettingsNext ==
  \/ Boot \/ WriteCell \/ Written \/ Stop
  \/ SetDevice \/ FailBroker \/ SetBroker \/ SetTopic \/ Reset
  \/ Save

SettingsSpec == SettingsInit /\ [][SettingsNext]_settings_vars

-----------------------------------------------------------------------------
(* Properties. *)

\* Type invariant.
SettingsTypeOK ==
  /\ config \in Records /\ eeprom \in Records /\ legacy \in Records
  /\ stored \in Records
  /\ torn \in BOOLEAN
  /\ phase \in {"off", "run", "save", "migrate"}

\* What has been saved comes back after a restart, unless a later save was
\* interrupted; a saved record is never taken for an invalid one.
SavedComesBack ==
  [][phase = "off" /\ phase' # "off" /\ ~torn /\ stored # ErasedRecord
     => config' = stored]_settings_vars

\* The MQTT client is never given port 0, whatever mixture an interrupted
\* save has left behind.
PortUsable == SettingsTypeOK /\ (phase # "off" => PortOf(config) # 0)
=============================================================================
