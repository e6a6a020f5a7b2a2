--------------------------- MODULE TransmitQueue ---------------------------
(***************************************************************************)
(* What the transmit side of the Sequans controller promises its writer: a *)
(* FIFO of bytes.  A byte is either accepted, and then sent once and in    *)
(* order, or refused.                                                      *)
(***************************************************************************)
EXTENDS Naturals, Sequences

CONSTANTS Byte, Capacity, None

VARIABLES
  queue,     \* the accepted bytes not sent yet, oldest first
  offered    \* the byte the writer is appending, or None

Init == queue = <<>> /\ offered = None

Offer ==
  /\ offered = None
  /\ offered' \in Byte
  /\ UNCHANGED queue

Accept ==
  /\ offered # None
  /\ Len(queue) < Capacity
  /\ queue' = Append(queue, offered)
  /\ offered' = None

Refuse ==
  /\ offered # None
  /\ offered' = None
  /\ UNCHANGED queue

Send ==
  /\ queue # <<>>
  /\ queue' = Tail(queue)
  /\ UNCHANGED offered

Next == Offer \/ Accept \/ Refuse \/ Send
Spec == Init /\ [][Next]_<<queue, offered>>
=============================================================================
