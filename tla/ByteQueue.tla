------------------------------ MODULE ByteQueue ------------------------------
(***************************************************************************)
(* What the receive path of serial::UART promises to the main loop, and    *)
(* the receive buffer of the W5500 to the MQTT client: a bounded           *)
(* first-in first-out queue of bytes.  A byte that arrives while the queue *)
(* is full is counted as lost and changes nothing else; no other byte is   *)
(* lost, duplicated or reordered.                                          *)
(***************************************************************************)
EXTENDS Naturals, Sequences

CONSTANTS
  Capacity,   \* how many bytes the queue holds
  Byte,       \* the values a byte can take here
  NoByte      \* "nothing has been handed out yet"

VARIABLES
  queue,      \* bytes accepted and not yet handed out, oldest first
  taken,      \* the byte handed out last
  dropped     \* how many bytes have been lost

vars == <<queue, taken, dropped>>

Init ==
  /\ queue = << >>
  /\ taken = NoByte
  /\ dropped = 0

Accept(b) ==
  /\ Len(queue) < Capacity
  /\ queue' = Append(queue, b)
  /\ UNCHANGED <<taken, dropped>>

Lose ==
  /\ Len(queue) = Capacity
  /\ dropped' = dropped + 1
  /\ UNCHANGED <<queue, taken>>

Take ==
  /\ queue # << >>
  /\ taken' = Head(queue)
  /\ queue' = Tail(queue)
  /\ UNCHANGED dropped

Next ==
  \/ \E b \in Byte : Accept(b)
  \/ Lose
  \/ Take

Spec == Init /\ [][Next]_vars
=============================================================================
