---------------------------- MODULE TxPathProofs ----------------------------
(***************************************************************************)
(* Type correctness of the transmit path, and that its ring implements the *)
(* FIFO of TransmitQueue.tla, for every size of the ring.                  *)
(***************************************************************************)
EXTENDS TxPath, SequenceTheorems, TLAPS

(* Every step of the main program, of the interrupts, of the modem and of  *)
(* the timer keeps the types, and with them that a byte is at hand exactly *)
(* while one is being appended.                                            *)
LEMMA InitType == Init => TypeOK
<1>1. SUFFICES ASSUME Init PROVE TypeOK
  OBVIOUS
<1>2. (CHOOSE b \in Byte : TRUE) \in Byte
  BY TxAssumption
<1>3. tx_buffer \in [Index -> Byte]
  BY <1>1, <1>2 DEF Init
<1>4. 0 \in Index /\ 0 \in Nat /\ 0 \in 0 .. MaxWrites
  BY TxAssumption DEF Index
<1>5. data = NULL /\ pc = "idle" /\ "idle" \notin Appending
  BY <1>1 DEF Init, Appending
<1>6. QED
  BY <1>1, <1>3, <1>4, <1>5 DEF Init, TypeOK, Control

LEMMA MainProgramType == TypeOK /\ MainProgram => TypeOK'
<1> USE TxAssumption
    DEF TypeOK, Control, Appending, Goto, ring, line, call
<1>1. SUFFICES ASSUME TypeOK, MainProgram PROVE TypeOK'
  OBVIOUS
<1>2. CASE AppendByte
  <2>1. PICK b \in Byte : CallAppend(b)
    BY <1>2 DEF AppendByte
  <2>2. data' \in Byte /\ writes' \in 0 .. MaxWrites
    BY <1>1, <2>1 DEF CallAppend
  <2>3. pc' \in {"full", "store"}
    BY <2>1 DEF CallAppend
  <2>4. timed_out' = FALSE /\ UNCHANGED <<ring, dreie, line, overflowed>>
    BY <2>1 DEF CallAppend
  <2>5. QED
    BY <1>1, <2>2, <2>3, <2>4
<1>3. CASE TestRoom
  BY <1>1, <1>3 DEF TestRoom
<1>4. CASE WaitForCts
  BY <1>1, <1>4 DEF WaitForCts
<1>5. CASE ChooseStart
  BY <1>1, <1>5 DEF ChooseStart
<1>6. CASE Start
  BY <1>1, <1>6 DEF Start
<1>7. CASE TimeOut
  BY <1>1, <1>7 DEF TimeOut
<1>8. CASE Pause
  BY <1>1, <1>8 DEF Pause
<1>9. CASE Store
  <2>1. Successor(tx_head_index) \in Index
    BY <1>1 DEF Successor, Index
  <2>2. data \in Byte
    BY <1>1, <1>9 DEF Store
  <2>3. overflowed' \in BOOLEAN
    BY <1>1, <1>9 DEF Store
  <2>4. tx_buffer' \in [Index -> Byte]
    BY <1>1, <1>9, <2>1, <2>2 DEF Store
  <2>5. QED
    BY <1>1, <1>9, <2>1, <2>3, <2>4 DEF Store
<1>10. CASE CallPoll
  BY <1>1, <1>10 DEF CallPoll
<1>11. CASE Poll
  BY <1>1, <1>11 DEF Poll
<1>12. CASE Resume
  BY <1>1, <1>12 DEF Resume
<1>13. QED
  BY <1>1, <1>2, <1>3, <1>4, <1>5, <1>6, <1>7, <1>8, <1>9, <1>10, <1>11,
     <1>12 DEF MainProgram

LEMMA NextType == TypeOK /\ [Next]_vars => TypeOK'
<1> USE TxAssumption DEF TypeOK, ring, line, call
<1>1. SUFFICES ASSUME TypeOK, [Next]_vars PROVE TypeOK'
  OBVIOUS
<1>2. CASE MainProgram
  BY <1>1, <1>2, MainProgramType
<1>3. CASE SendByte
  BY <1>1, <1>3 DEF SendByte, Successor, Index
<1>4. CASE StopSending
  BY <1>1, <1>4 DEF StopSending
<1>5. CASE EnterCtsInterrupt
  BY <1>1, <1>5 DEF EnterCtsInterrupt
<1>6. CASE LeaveCtsInterrupt
  BY <1>1, <1>6 DEF LeaveCtsInterrupt
<1>7. CASE CtsEdge
  BY <1>1, <1>7 DEF CtsEdge
<1>8. CASE Expire
  BY <1>1, <1>8 DEF Expire
<1>9. CASE UNCHANGED vars
  BY <1>1, <1>9 DEF vars
<1>10. QED
  BY <1>1, <1>2, <1>3, <1>4, <1>5, <1>6, <1>7, <1>8, <1>9
     DEF Next, DreInterrupt, CtsInterrupt

(* The indices stay in the ring, the number of bytes never goes below      *)
(* zero, and a byte is at hand exactly while appendDataToTransmitBuffer    *)
(* runs.                                                                   *)
THEOREM TransmitTypeCorrect == Spec => []TypeOK
  BY InitType, NextType, PTL DEF Spec
-----------------------------------------------------------------------------
(* The slot k places behind i, counted around the ring.                    *)
At(i, k) ==
  IF i + k < TX_BUFFER_SIZE THEN i + k ELSE i + k - TX_BUFFER_SIZE

(* What makes the ring a FIFO.  Until a byte has been stored in a full     *)
(* ring, the newest byte is as many slots behind the oldest as there are   *)
(* bytes, and appendDataToTransmitBuffer, which has left its loop, finds   *)
(* no room only if the timer has run out: the interrupt makes room but     *)
(* never takes any.                                                        *)
RingOrder ==
  ~overflowed =>
    /\ tx_num_elements <= TX_BUFFER_SIZE
    /\ tx_head_index = At(tx_tail_index, tx_num_elements)
    /\ (pc \in {"pause", "store"} /\ tx_num_elements = TX_BUFFER_SIZE) =>
         timed_out

RingInvariant == TypeOK /\ RingOrder

LEMMA InitRing == Init => RingInvariant
<1>1. SUFFICES ASSUME Init PROVE RingInvariant
  OBVIOUS
<1>2. TypeOK
  BY <1>1, InitType
<1>3. RingOrder
  BY <1>1, TxAssumption DEF Init, RingOrder, At
<1>4. QED
  BY <1>2, <1>3 DEF RingInvariant

(* A step that leaves the ring, the timer and overflowed alone keeps the   *)
(* order if it does not let a full ring be stored to.                      *)
LEMMA QuietRing ==
  ASSUME RingOrder, UNCHANGED <<ring, overflowed>>,
         \/ pc' \notin {"pause", "store"}
         \/ tx_num_elements # TX_BUFFER_SIZE
         \/ timed_out'
  PROVE  RingOrder'
  BY DEF RingOrder, ring, At

LEMMA StoreRing == RingInvariant /\ Store => RingOrder'
<1>1. SUFFICES ASSUME RingInvariant, Store, ~overflowed'
               PROVE  /\ tx_num_elements' <= TX_BUFFER_SIZE
                      /\ tx_head_index' = At(tx_tail_index', tx_num_elements')
                      /\ pc' \notin {"pause", "store"}
  BY DEF RingOrder
<1>2. tx_num_elements \in Nat /\ tx_tail_index \in Index
  BY <1>1 DEF RingInvariant, TypeOK
<1>3. ~overflowed /\ ~(tx_num_elements >= TX_BUFFER_SIZE)
  BY <1>1 DEF Store
<1>4. tx_num_elements < TX_BUFFER_SIZE
  BY <1>2, <1>3, TxAssumption
<1>5. tx_head_index = At(tx_tail_index, tx_num_elements)
  BY <1>1, <1>3 DEF RingInvariant, RingOrder
<1>6. /\ tx_head_index' = Successor(tx_head_index)
      /\ tx_num_elements' = tx_num_elements + 1
      /\ tx_tail_index' = tx_tail_index
      /\ pc' = "poll"
  BY <1>1 DEF Store
<1>7. QED
  BY <1>2, <1>4, <1>5, <1>6, TxAssumption DEF At, Successor, Index

LEMMA SendRing == RingInvariant /\ SendByte => RingOrder'
<1>1. SUFFICES ASSUME RingInvariant, SendByte, ~overflowed'
               PROVE  /\ tx_num_elements' \in Nat
                      /\ tx_num_elements' < TX_BUFFER_SIZE
                      /\ tx_head_index' = At(tx_tail_index', tx_num_elements')
  BY TxAssumption DEF RingOrder
<1>2. /\ tx_num_elements \in Nat /\ tx_tail_index \in Index
      /\ tx_num_elements > 0 /\ ~overflowed
  BY <1>1 DEF RingInvariant, TypeOK, SendByte
<1>3. /\ tx_num_elements <= TX_BUFFER_SIZE
      /\ tx_head_index = At(tx_tail_index, tx_num_elements)
  BY <1>1, <1>2 DEF RingInvariant, RingOrder
<1>4. /\ tx_head_index' = tx_head_index
      /\ tx_num_elements' = tx_num_elements - 1
      /\ tx_tail_index' = Successor(tx_tail_index)
  BY <1>1 DEF SendByte
<1>5. QED
  BY <1>2, <1>3, <1>4, TxAssumption DEF At, Successor, Index

LEMMA NextRing == RingInvariant /\ [Next]_vars => RingInvariant'
<1>1. SUFFICES ASSUME RingInvariant, [Next]_vars PROVE RingOrder'
  BY NextType DEF RingInvariant
<1>2. RingOrder /\ TypeOK
  BY <1>1 DEF RingInvariant
<1>3. CASE AppendByte
  <2>1. UNCHANGED <<ring, overflowed>>
    BY <1>3 DEF AppendByte, CallAppend, Goto
  <2>2. \/ pc' \notin {"pause", "store"}
        \/ tx_num_elements # TX_BUFFER_SIZE
    BY <1>3 DEF AppendByte, CallAppend, Goto
  <2>3. QED
    BY <1>2, <2>1, <2>2, QuietRing
<1>4. CASE TestRoom
  <2>1. UNCHANGED <<ring, overflowed>>
    BY <1>4 DEF TestRoom, Goto
  <2>2. \/ pc' \notin {"pause", "store"}
        \/ tx_num_elements # TX_BUFFER_SIZE
        \/ timed_out'
    BY <1>4 DEF TestRoom, Goto, call
  <2>3. QED
    BY <1>2, <2>1, <2>2, QuietRing
<1>5. CASE \/ WaitForCts \/ ChooseStart \/ Start \/ TimeOut
           \/ CallPoll \/ Poll \/ Resume
  <2>1. UNCHANGED <<ring, overflowed>> /\ pc' \notin {"pause", "store"}
    BY <1>5 DEF WaitForCts, ChooseStart, Start, TimeOut, CallPoll, Poll,
                Resume, Goto
  <2>2. QED
    BY <1>2, <2>1, QuietRing
<1>6. CASE Pause
  BY <1>2, <1>6 DEF Pause, Goto, call, ring, RingOrder, At
<1>7. CASE Store
  BY <1>1, <1>7, StoreRing
<1>8. CASE SendByte
  BY <1>1, <1>8, SendRing
<1>9. CASE \/ StopSending \/ EnterCtsInterrupt \/ LeaveCtsInterrupt
           \/ CtsEdge \/ UNCHANGED vars
  BY <1>2, <1>9
     DEF StopSending, EnterCtsInterrupt, LeaveCtsInterrupt, CtsEdge, vars,
         ring, line, call, RingOrder, At
<1>10. CASE Expire
  <2>1. UNCHANGED <<ring, overflowed>> /\ timed_out'
    BY <1>10 DEF Expire
  <2>2. QED
    BY <1>2, <2>1, QuietRing
<1>11. QED
  BY <1>1, <1>3, <1>4, <1>5, <1>6, <1>7, <1>8, <1>9, <1>10
     DEF Next, MainProgram, DreInterrupt, CtsInterrupt

LEMMA RingCorrect == Spec => []RingInvariant
  BY InitRing, NextRing, PTL DEF Spec
-----------------------------------------------------------------------------
(* A function on 1 .. n is a sequence of length n.                         *)
LEMMA FunctionIsSequence ==
  ASSUME NEW S, NEW n \in Nat, NEW f \in [1 .. n -> S]
  PROVE  f \in Seq(S) /\ Len(f) = n
<1>1. f \in Seq(S)
  BY SeqDef
<1>2. Len(f) \in Nat /\ 1 .. Len(f) = 1 .. n
  BY <1>1, LenProperties
<1>3. QED
  BY <1>1, <1>2

LEMMA ModuloOnce ==
  ASSUME NEW n \in Nat \ {0}, NEW a \in Nat, a < 2 * n
  PROVE  a % n = IF a < n THEN a ELSE a - n
<1>1. CASE a < n
  <2>1. a % n = a
    BY <1>1
  <2>2. QED
    BY <1>1, <2>1
<1>2. CASE ~(a < n)
  <2>1. a % n = a - n
    BY <1>2
  <2>2. QED
    BY <1>2, <2>1
<1>3. QED
  BY <1>1, <1>2

(* What the ring holds as a sequence, with the remainder of Unsent written *)
(* as At.                                                                  *)
LEMMA ContentsOfRing ==
  ASSUME NEW buffer \in [Index -> Byte], NEW tail \in Index,
         NEW num \in 0 .. TX_BUFFER_SIZE,
         NEW contents,
         contents = [k \in 1 .. num |-> buffer[(tail + k) % TX_BUFFER_SIZE]]
  PROVE  /\ contents \in Seq(Byte)
         /\ Len(contents) = num
         /\ \A k \in 1 .. num : contents[k] = buffer[At(tail, k)]
<1> USE TxAssumption
<1>1. ASSUME NEW k \in 1 .. num
      PROVE  /\ (tail + k) % TX_BUFFER_SIZE = At(tail, k)
             /\ At(tail, k) \in Index
  <2> DEFINE slot == tail + k
             n == TX_BUFFER_SIZE
  <2>1. n \in Nat \ {0} /\ slot \in Nat /\ slot < 2 * n
    BY DEF Index
  <2> HIDE DEF slot, n
  <2>2. slot % n = IF slot < n THEN slot ELSE slot - n
    BY <2>1, ModuloOnce
  <2>3. At(tail, k) \in Index
    BY <2>1 DEF At, Index, slot, n
  <2>4. At(tail, k) = IF slot < n THEN slot ELSE slot - n
    BY <2>1 DEF At, Index, slot, n
  <2>5. (tail + k) % TX_BUFFER_SIZE = slot % n
    BY Zenon DEF slot, n
  <2>6. QED
    BY <2>2, <2>3, <2>4, <2>5, Zenon
<1>2. contents \in [1 .. num -> Byte]
  BY <1>1
<1>3. contents \in Seq(Byte) /\ Len(contents) = num
  BY <1>2, FunctionIsSequence
<1>4. QED
  BY <1>1, <1>3

LEMMA UnsentOfRing ==
  ASSUME tx_buffer \in [Index -> Byte], tx_tail_index \in Index,
         tx_num_elements \in 0 .. TX_BUFFER_SIZE
  PROVE  /\ Unsent \in Seq(Byte) /\ Len(Unsent) = tx_num_elements
         /\ \A k \in 1 .. tx_num_elements :
              Unsent[k] = tx_buffer[At(tx_tail_index, k)]
<1>1. Unsent = [k \in 1 .. tx_num_elements |->
                 tx_buffer[(tx_tail_index + k) % TX_BUFFER_SIZE]]
  BY DEF Unsent
<1>2. QED
  BY <1>1, ContentsOfRing

(* Storing the byte at hand in a ring with room is what the FIFO calls     *)
(* Accept.                                                                 *)
LEMMA StoreAccepts ==
  ASSUME RingInvariant, Store, ~overflowed'
  PROVE  Queue!Accept
<1> USE TxAssumption
<1> DEFINE stored == Successor(tx_head_index)
<1>1. /\ tx_head_index \in Index /\ tx_tail_index \in Index
      /\ tx_num_elements \in Nat /\ tx_buffer \in [Index -> Byte]
  BY DEF RingInvariant, TypeOK
<1>2. /\ pc = "store" /\ ~overflowed
      /\ ~(tx_num_elements >= TX_BUFFER_SIZE)
      /\ tx_num_elements' = tx_num_elements + 1
      /\ tx_buffer' = [tx_buffer EXCEPT ![stored] = data]
      /\ tx_tail_index' = tx_tail_index
      /\ data' = NULL
  BY DEF Store
<1>3. data \in Byte
  BY <1>2 DEF RingInvariant, TypeOK, Appending
<1>4. tx_num_elements < TX_BUFFER_SIZE
  BY <1>1, <1>2
<1>5. tx_head_index = At(tx_tail_index, tx_num_elements)
  BY <1>2 DEF RingInvariant, RingOrder
<1>6. /\ stored = At(tx_tail_index, tx_num_elements + 1)
      /\ stored \in Index
      /\ \A k \in 1 .. tx_num_elements : /\ At(tx_tail_index, k) \in Index
                                         /\ At(tx_tail_index, k) # stored
  BY <1>1, <1>4, <1>5 DEF At, Successor, Index
<1> HIDE DEF stored
<1>7. /\ tx_buffer' \in [Index -> Byte]
      /\ tx_buffer'[stored] = data
      /\ \A i \in Index : i # stored => tx_buffer'[i] = tx_buffer[i]
  BY <1>1, <1>2, <1>3, <1>6
<1>8. /\ tx_num_elements \in 0 .. TX_BUFFER_SIZE
      /\ tx_num_elements + 1 \in 0 .. TX_BUFFER_SIZE
  BY <1>1, <1>4
<1>9. /\ Unsent \in Seq(Byte) /\ Len(Unsent) = tx_num_elements
      /\ \A k \in 1 .. tx_num_elements :
           Unsent[k] = tx_buffer[At(tx_tail_index, k)]
  BY <1>1, <1>8, UnsentOfRing
<1>10. /\ Unsent' \in Seq(Byte) /\ Len(Unsent') = tx_num_elements + 1
       /\ \A k \in 1 .. tx_num_elements + 1 :
            Unsent'[k] = tx_buffer'[At(tx_tail_index, k)]
  <2>1. Unsent' = [k \in 1 .. tx_num_elements + 1 |->
                    tx_buffer'[(tx_tail_index + k) % TX_BUFFER_SIZE]]
    BY <1>2 DEF Unsent
  <2>2. /\ tx_buffer' \in [Index -> Byte] /\ tx_tail_index \in Index
        /\ tx_num_elements + 1 \in 0 .. TX_BUFFER_SIZE
    BY <1>1, <1>7, <1>8
  <2>3. QED
    BY <2>1, <2>2, ContentsOfRing
<1> DEFINE all == Append(Unsent, data)
<1>11. /\ all \in Seq(Byte) /\ Len(all) = tx_num_elements + 1
       /\ \A k \in 1 .. tx_num_elements :
            all[k] = tx_buffer[At(tx_tail_index, k)]
       /\ all[tx_num_elements + 1] = data
  BY <1>3, <1>9, AppendProperties
<1> HIDE DEF all
<1>12. ASSUME NEW k \in 1 .. tx_num_elements + 1
       PROVE  Unsent'[k] = all[k]
  <2>1. CASE k \in 1 .. tx_num_elements
    BY <1>6, <1>7, <1>10, <1>11, <2>1
  <2>2. CASE k = tx_num_elements + 1
    BY <1>6, <1>7, <1>10, <1>11, <2>2
  <2>3. QED
    BY <1>1, <2>1, <2>2
<1>13. Unsent' = all
  BY <1>10, <1>11, <1>12, SeqEqual
<1>14. data # NULL
  BY <1>3
<1>15. QED
  BY <1>2, <1>4, <1>9, <1>13, <1>14 DEF Queue!Accept, all

(* The interrupt sends the oldest byte.                                    *)
LEMMA SendByteSends ==
  ASSUME RingInvariant, SendByte, ~overflowed
  PROVE  Queue!Send
<1> USE TxAssumption
<1>1. /\ tx_tail_index \in Index /\ tx_num_elements \in Nat
      /\ tx_buffer \in [Index -> Byte]
  BY DEF RingInvariant, TypeOK
<1>2. /\ tx_num_elements > 0
      /\ tx_tail_index' = Successor(tx_tail_index)
      /\ tx_num_elements' = tx_num_elements - 1
      /\ tx_buffer' = tx_buffer
      /\ data' = data
  BY DEF SendByte, call
<1>3. tx_num_elements <= TX_BUFFER_SIZE
  BY DEF RingInvariant, RingOrder
<1>4. /\ tx_tail_index' \in Index
      /\ \A k \in 1 .. tx_num_elements - 1 :
           At(tx_tail_index', k) = At(tx_tail_index, k + 1)
  BY <1>1, <1>2, <1>3 DEF Successor, At, Index
<1>5. /\ tx_num_elements \in 0 .. TX_BUFFER_SIZE
      /\ tx_num_elements - 1 \in 0 .. TX_BUFFER_SIZE
  BY <1>1, <1>2, <1>3
<1>6. /\ Unsent \in Seq(Byte) /\ Len(Unsent) = tx_num_elements
      /\ \A k \in 1 .. tx_num_elements :
           Unsent[k] = tx_buffer[At(tx_tail_index, k)]
  BY <1>1, <1>5, UnsentOfRing
<1>7. /\ Unsent' \in Seq(Byte) /\ Len(Unsent') = tx_num_elements - 1
      /\ \A k \in 1 .. tx_num_elements - 1 :
           Unsent'[k] = tx_buffer[At(tx_tail_index', k)]
  <2>1. Unsent' = [k \in 1 .. tx_num_elements - 1 |->
                    tx_buffer[(tx_tail_index' + k) % TX_BUFFER_SIZE]]
    BY <1>2 DEF Unsent
  <2>2. QED
    BY <1>1, <1>4, <1>5, <2>1, ContentsOfRing
<1>8. Unsent # <<>>
  BY <1>2, <1>6, EmptySeq
<1>9. /\ Tail(Unsent) \in Seq(Byte)
      /\ Len(Tail(Unsent)) = tx_num_elements - 1
      /\ \A k \in 1 .. tx_num_elements - 1 : Tail(Unsent)[k] = Unsent[k + 1]
  BY <1>6, <1>8, HeadTailProperties
<1>10. ASSUME NEW k \in 1 .. tx_num_elements - 1
       PROVE  Unsent'[k] = Tail(Unsent)[k]
  <2>1. k + 1 \in 1 .. tx_num_elements
    BY <1>1
  <2>2. Unsent'[k] = tx_buffer[At(tx_tail_index, k + 1)]
    BY <1>4, <1>7
  <2>3. Tail(Unsent)[k] = tx_buffer[At(tx_tail_index, k + 1)]
    BY <1>6, <1>9, <2>1
  <2>4. QED
    BY <2>2, <2>3
<1>11. Unsent' = Tail(Unsent)
  BY <1>7, <1>9, <1>10, SeqEqual
<1>12. QED
  BY <1>2, <1>8, <1>11 DEF Queue!Send

(* Every other step offers a byte, refuses it or does nothing.             *)
LEMMA RefinementStep ==
  ASSUME RingInvariant, [Next]_vars
  PROVE  [overflowed' \/ Queue!Next]_<<Unsent, data>>
<1>1. ASSUME UNCHANGED ring
      PROVE  Unsent' = Unsent
  BY <1>1 DEF ring, Unsent
<1>2. CASE AppendByte
  <2>1. PICK b \in Byte : CallAppend(b)
    BY <1>2 DEF AppendByte
  <2>2. Unsent' = Unsent
    BY <1>1, <2>1 DEF CallAppend, Goto
  <2>3. data = NULL
    BY <2>1 DEF CallAppend, Goto, RingInvariant, TypeOK, Appending
  <2>4. data' \in Byte
    BY <2>1 DEF CallAppend
  <2>5. QED
    BY <2>2, <2>3, <2>4 DEF Queue!Next, Queue!Offer
<1>3. CASE TimeOut
  <2>1. Unsent' = Unsent /\ data' = NULL
    BY <1>1, <1>3 DEF TimeOut, Goto
  <2>2. data # NULL
    BY <1>3 DEF TimeOut, Goto, RingInvariant, TypeOK, Appending
  <2>3. QED
    BY <2>1, <2>2 DEF Queue!Next, Queue!Refuse
<1>4. CASE Store
  BY <1>4, StoreAccepts DEF Queue!Next
<1>5. CASE SendByte
  BY <1>5, SendByteSends DEF SendByte, Queue!Next
<1>6. CASE \/ TestRoom \/ WaitForCts \/ ChooseStart \/ Start \/ Pause
           \/ CallPoll \/ Poll \/ Resume
  <2>1. UNCHANGED ring /\ data' = data
    BY <1>6 DEF TestRoom, WaitForCts, ChooseStart, Start, Pause, CallPoll,
                Poll, Resume, Goto, call
  <2>2. QED
    BY <1>1, <2>1
<1>7. CASE \/ StopSending \/ EnterCtsInterrupt \/ LeaveCtsInterrupt
           \/ CtsEdge \/ Expire \/ UNCHANGED vars
  <2>1. UNCHANGED ring /\ data' = data
    BY <1>7 DEF StopSending, EnterCtsInterrupt, LeaveCtsInterrupt, CtsEdge,
                Expire, vars, call
  <2>2. QED
    BY <1>1, <2>1
<1>8. QED
  BY <1>2, <1>3, <1>4, <1>5, <1>6, <1>7
     DEF Next, MainProgram, DreInterrupt, CtsInterrupt

(* Only Store sets overflowed, and then the ring was full.                 *)
LEMMA OverflowStep ==
  ASSUME RingInvariant, [Next]_vars
  PROVE  [~overflowed /\ overflowed' => timed_out]_vars
<1>1. SUFFICES ASSUME Next, ~overflowed, overflowed' # overflowed
               PROVE  timed_out
  <2>1. ASSUME UNCHANGED vars
        PROVE  [~overflowed /\ overflowed' => timed_out]_vars
    BY <2>1
  <2>2. ASSUME Next
        PROVE  ~overflowed /\ overflowed' => timed_out
    BY <1>1, <2>2
  <2>3. QED
    BY <2>1, <2>2
<1>2. Store
  BY <1>1 DEF Next, MainProgram, DreInterrupt, CtsInterrupt, AppendByte,
              CallAppend, TestRoom, WaitForCts, ChooseStart, Start, TimeOut,
              Pause, CallPoll, Poll, Resume, Goto, SendByte, StopSending,
              EnterCtsInterrupt, LeaveCtsInterrupt, CtsEdge, Expire
<1>3. pc = "store" /\ overflowed' = (tx_num_elements >= TX_BUFFER_SIZE)
  BY <1>1, <1>2 DEF Store
<1>4. /\ tx_num_elements \in Nat /\ overflowed \in BOOLEAN
      /\ tx_num_elements <= TX_BUFFER_SIZE
      /\ tx_num_elements = TX_BUFFER_SIZE => timed_out
  BY <1>1, <1>3 DEF RingInvariant, RingOrder, TypeOK
<1>5. tx_num_elements >= TX_BUFFER_SIZE
  BY <1>1, <1>3, <1>4
<1>6. QED
  BY <1>4, <1>5, TxAssumption

(* The ring implements a FIFO of bytes, however the interrupts, the edges  *)
(* of CTS and the timer fall in appendDataToTransmitBuffer(): each byte    *)
(* stored is sent once and in order, until a byte is stored in a full      *)
(* ring, which only happens when the timer has run out.                    *)
THEOREM SendsInOrderTheorem == Spec => SendsInOrder
<1>1. Init => Queue!Init
  <2>1. SUFFICES ASSUME Init PROVE Queue!Init
    OBVIOUS
  <2>2. Unsent = <<>>
    BY <2>1 DEF Init, Unsent
  <2>3. QED
    BY <2>1, <2>2 DEF Init, Queue!Init
<1>2. RingInvariant /\ [Next]_vars
        => /\ [overflowed' \/ Queue!Next]_<<Unsent, data>>
           /\ [~overflowed /\ overflowed' => timed_out]_vars
  BY RefinementStep, OverflowStep
<1>3. QED
  BY <1>1, <1>2, RingCorrect, PTL DEF Spec, SendsInOrder
=============================================================================
