----------------------------- MODULE ByteQueue -----------------------------
(***************************************************************************)
(* What the receive ring of the Sequans controller promises its reader: a  *)
(* FIFO of bytes.  A byte that arrives goes to the end; with it, the URC   *)
(* handling may take the newest bytes out again; readByte removes the      *)
(* oldest byte and returns that one.                                       *)
(*                                                                         *)
(* The bytes have Capacity places, used in turn.  Nobody keeps a byte from *)
(* coming when all are taken: it is put in the place of the byte that came *)
(* Capacity bytes before, and is then read for that one too.  The place of *)
(* the byte that readByte has removed but not yet returned is the one      *)
(* before the oldest.                                                      *)
(***************************************************************************)
EXTENDS Naturals, Sequences

CONSTANTS Byte, None, Capacity

VARIABLES
  queue,     \* the unread bytes, oldest first
  promised   \* the byte a readByte in progress has taken, or None

Init == queue = <<>> /\ promised = None

(* The byte that comes next shares the place of the byte in position k.    *)
SharesPlace(k) == (Len(queue) + 1 - k) % Capacity = 0

Receive ==
  \E b \in Byte : \E kept \in 0 .. Len(queue) + 1 :
    /\ queue' = [k \in 1 .. kept |-> IF SharesPlace(k) THEN b ELSE queue[k]]
    /\ promised' = IF promised # None /\ SharesPlace(0) THEN b ELSE promised

Take ==
  /\ promised = None
  /\ queue # <<>>
  /\ promised' = Head(queue)
  /\ queue' = Tail(queue)

Return ==
  /\ promised # None
  /\ promised' = None
  /\ UNCHANGED queue

Clear ==
  /\ promised = None
  /\ queue' = <<>>
  /\ UNCHANGED promised

Next == Receive \/ Take \/ Return \/ Clear
Spec == Init /\ [][Next]_<<queue, promised>>
=============================================================================
