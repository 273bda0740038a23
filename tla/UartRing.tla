------------------------------- MODULE UartRing -------------------------------
(***************************************************************************)
(* The receive ring of serial::UART (src/Serial/UART.cpp).                 *)
(*                                                                         *)
(* The producer is ISR(USART_RX_vect); it preempts the main program        *)
(* between any two of its instructions and runs to completion, so it is    *)
(* one action.  The consumer is the UART parser loop of main():            *)
(*     while (uart.is_read_data_available()) { c = uart.read_byte(); ... } *)
(* and is split at every access to memory the two share.  rx_head_ and     *)
(* rx_tail_ are volatile, rx_buffer_ is not: the compiler may move the     *)
(* load of rx_buffer_[rx_tail_] behind the store of rx_tail_, and both     *)
(* orders are modelled.                                                    *)
(***************************************************************************)
EXTENDS Naturals, Sequences

CONSTANTS
  Size,        \* kRX_buffer_size (64 in the code, a power of two)
  Byte,        \* the values UDR0 delivers
  NoByte,      \* the reader has not returned a byte yet
  ZeroByte,    \* the 0 read_byte returns when it finds the ring empty
  MaxDropped   \* bound on the number of bytes lost (the code counts nothing)

ASSUME SizeAssumption == Size \in Nat /\ Size >= 2
ASSUME NoByteAssumption ==
  NoByte \notin Byte /\ ZeroByte \notin Byte /\ NoByte # ZeroByte
ASSUME MaxDroppedAssumption == MaxDropped \in Nat

VARIABLES
  rx_head,     \* written by the ISR only
  rx_tail,     \* written by read_byte only
  rx_buffer,
  pc,          \* where the consumer is
  slot,        \* the index read_byte computed its load from
  byte,        \* read_byte's local variable
  returned,    \* what read_byte returned last, NoByte before its first return
  dropped      \* history: bytes the ISR threw away

vars == <<rx_head, rx_tail, rx_buffer, pc, slot, byte, returned, dropped>>

Slots == 0 .. Size - 1

\* (index + 1) & mask with mask = kRX_buffer_size - 1.
RingNext(i) == (i + 1) % Size

Init ==
  /\ rx_head = 0
  /\ rx_tail = 0
  /\ rx_buffer \in [Slots -> {NoByte}]
  /\ pc = "poll"
  /\ slot = 0
  /\ byte = NoByte
  /\ returned = NoByte
  /\ dropped = 0

-----------------------------------------------------------------------------
\* Mutant of Store: no test for a full ring.
Store_NoFullTest(b) ==
  /\ rx_buffer' = [rx_buffer EXCEPT ![rx_head] = b]
  /\ rx_head' = RingNext(rx_head)
  /\ UNCHANGED dropped

(* ISR(USART_RX_vect): store the byte unless the ring is full. *)
Store(b) ==
  /\ RingNext(rx_head) # rx_tail
  /\ rx_buffer' = [rx_buffer EXCEPT ![rx_head] = b]
  /\ rx_head' = RingNext(rx_head)
  /\ UNCHANGED dropped

\* Mutant of Drop: the ring is taken for full one byte too early.
Drop_TooEarly ==
  /\ RingNext(RingNext(rx_head)) = rx_tail
  /\ dropped < MaxDropped
  /\ dropped' = dropped + 1
  /\ UNCHANGED <<rx_buffer, rx_head>>

Drop ==
  /\ RingNext(rx_head) = rx_tail
  /\ dropped < MaxDropped
  /\ dropped' = dropped + 1
  /\ UNCHANGED <<rx_buffer, rx_head>>

RxIsr(b) ==
  /\ Store(b) \/ Drop
  /\ UNCHANGED <<rx_tail, pc, slot, byte, returned>>

-----------------------------------------------------------------------------
(* The consumer. *)

\* Faulty variant: the indices are compared by size instead of for equality.
Poll_BySize ==
  /\ pc = "poll"
  /\ rx_tail < rx_head
  /\ pc' = "test"
  /\ UNCHANGED <<rx_head, rx_tail, rx_buffer, slot, byte, returned, dropped>>

\* is_read_data_available() says there is a byte: the loop body is entered.
Poll ==
  /\ pc = "poll"
  /\ rx_tail # rx_head
  /\ pc' = "test"
  /\ UNCHANGED <<rx_head, rx_tail, rx_buffer, slot, byte, returned, dropped>>

\* read_byte() makes the same test again and fixes the slot it will load;
\* on an empty ring it would return 0, which the parser takes for a byte.
Test ==
  /\ pc = "test"
  /\ IF rx_tail # rx_head
       THEN /\ pc' = "fetch"
            /\ slot' = rx_tail
            /\ UNCHANGED returned
       ELSE /\ pc' = "poll"
            /\ returned' = ZeroByte
            /\ UNCHANGED slot
  /\ UNCHANGED <<rx_head, rx_tail, rx_buffer, byte, dropped>>

\* Source order: load the byte, then free its slot.
LoadFirst ==
  /\ pc = "fetch"
  /\ pc' = "free"
  /\ byte' = rx_buffer[slot]
  /\ UNCHANGED <<rx_head, rx_tail, rx_buffer, slot, returned, dropped>>

FreeLast ==
  /\ pc = "free"
  /\ pc' = "poll"
  /\ rx_tail' = RingNext(rx_tail)
  /\ returned' = byte
  /\ UNCHANGED <<rx_head, rx_buffer, slot, byte, dropped>>

\* The order an optimiser may choose: free the slot, then load from it.
FreeFirst ==
  /\ pc = "fetch"
  /\ pc' = "load"
  /\ rx_tail' = RingNext(rx_tail)
  /\ UNCHANGED <<rx_head, rx_buffer, slot, byte, returned, dropped>>

LoadLast ==
  /\ pc = "load"
  /\ pc' = "poll"
  /\ byte' = rx_buffer[slot]
  /\ returned' = rx_buffer[slot]
  /\ UNCHANGED <<rx_head, rx_tail, rx_buffer, slot, dropped>>

Reader == \/ Poll \/ Test
          \/ LoadFirst \/ FreeLast
          \/ FreeFirst \/ LoadLast

Next == (\E b \in Byte : RxIsr(b)) \/ Reader

\* The main loop keeps polling; bytes need not arrive.
Spec == Init /\ [][Next]_vars /\ WF_vars(Reader)

-----------------------------------------------------------------------------
(* Derived state. *)

\* How many bytes lie between tail and head.
Count == IF rx_head >= rx_tail THEN rx_head - rx_tail
                               ELSE rx_head + Size - rx_tail

\* The slot of the i-th oldest byte in the ring, i = 1 .. Count.
SlotOf(i) == LET k == rx_tail + i - 1 IN IF k < Size THEN k ELSE k - Size

Contents == [i \in 1 .. Count |-> rx_buffer[SlotOf(i)]]

-----------------------------------------------------------------------------
(* Properties. *)

\* Type invariant of the ring and its reader.
TypeOK ==
  /\ rx_head \in Slots
  /\ rx_tail \in Slots
  /\ rx_buffer \in [Slots -> Byte \cup {NoByte}]
  /\ pc \in {"poll", "test", "fetch", "free", "load"}
  /\ slot \in Slots
  /\ byte \in Byte \cup {NoByte}
  /\ returned \in Byte \cup {NoByte, ZeroByte}
  /\ dropped \in 0 .. MaxDropped

\* No byte the line did not carry reaches the command parser: read_byte()
\* called after is_read_data_available() said "yes" never runs into its
\* "return 0", and never loads a slot the ISR has not written, whatever the
\* ISR does in between.
NoFabricatedByte ==
  /\ returned # ZeroByte
  /\ pc \in {"fetch", "load"} => rx_buffer[slot] \in Byte

\* The byte being loaded does not change under the reader, not even after
\* its slot was freed: the one slot the ring keeps empty is what makes the
\* non-volatile load harmless in both orders.
LoadedSlotStable ==
  [][(pc \in {"fetch", "load"}) => (rx_buffer'[slot] = rx_buffer[slot])]_vars

\* The ring implements the bounded queue of module ByteQueue with capacity
\* Size - 1: bytes come out in the order they went in, and one is lost only
\* when Size - 1 others wait.  A byte leaves the queue when its slot is freed.
Queue == INSTANCE ByteQueue WITH
  Capacity <- Size - 1,
  queue <- Contents,
  taken <- IF pc = "load" THEN rx_buffer[slot] ELSE returned

ImplementsQueue == Queue!Spec

\* A byte waiting in the ring is not left there for ever: the reader frees
\* a slot again and again while there is something to read.
Drains == Count > 0 ~> pc \in {"free", "load"}
=============================================================================
