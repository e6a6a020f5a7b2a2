---------------------------- MODULE RxPathProofs ----------------------------
(***************************************************************************)
(* The receive path, for every size of the ring, every table of URCs and   *)
(* every overshoot of the modem: type correctness, how far the ring fills, *)
(* that RTS is not left HIGH over an empty ring, and that the ring is a    *)
(* FIFO.  Then power save and power down on top of it, for every           *)
(* threshold, waiting time and clock: they use the receive path as RxPath  *)
(* allows, so what is proved of RxPath holds under them; the CPU sleeps    *)
(* only where RING can wake it and RTS holds the modem back; and no return *)
(* path leaves the receive path in power save.                             *)
(***************************************************************************)
EXTENDS LowPower, SequenceTheorems, WellFoundedInduction, TLAPS

(* The search of the URC table ends at a slot that matches.                *)
LEMMA MatchIndexMatches ==
  ASSUME Matching # {}
  PROVE  MatchIndex \in Matching
<1> DEFINE R == OpToRel(<, Nat)
<1>1. Matching \subseteq Nat
  BY TableAssumption DEF Matching, Slot
<1>2. IsWellFoundedOn(R, Nat)
  BY NatLessThanWellFounded
<1>3. PICK i \in Matching : \A j \in Matching : <<j, i>> \notin R
  BY <1>1, <1>2, WFMin, Zenon
<1>4. \A j \in Matching : i <= j
  <2>1. SUFFICES ASSUME NEW j \in Matching, ~(i <= j)
                 PROVE  FALSE
    OBVIOUS
  <2>2. i \in Nat /\ j \in Nat /\ j < i
    BY <1>1, <2>1
  <2>3. <<j, i>> \in R
    BY <2>2 DEF OpToRel
  <2>4. QED
    BY <1>3, <2>3
<1>5. QED
  BY <1>4 DEF MatchIndex

(* An identifier whose end has come is at most IDENTIFIER_SIZE long, and   *)
(* what is taken back is in the ring.                                      *)
LEMMA RewindInRing ==
  ASSUME ParserTypeOK, NEW b \in Byte, NEW num \in Nat
  PROVE  /\ Rewind(b, num) \in Nat
         /\ Rewind(b, num) <= num
         /\ Rewind(b, num) <= RX_BUFFER_SIZE
<1>1. /\ Len(urc_identifier_buffer) \in Nat
      /\ Len(urc_data_buffer) \in Nat
  BY LenProperties DEF ParserTypeOK
<1>2. QED
  BY <1>1, RingAssumption, TableAssumption DEF Rewind, ParserTypeOK

(* Every case of the parser keeps its buffers within their sizes, and      *)
(* looks up no empty identifier.                                           *)
LEMMA ParseInvariant ==
  ASSUME ParserTypeOK, MatchedSlotInUse, NEW b \in Byte, Parse(b)
  PROVE  ParserTypeOK' /\ MatchedSlotInUse'
<1> USE TableAssumption DEF ParserTypeOK, MatchedSlotInUse, UrcParseState
<1>1. CASE LookForStart(b)
  <2>1. CASE b = "+"
    BY <1>1, <2>1 DEF LookForStart
  <2>2. CASE b # "+"
    BY <1>1, <2>2 DEF LookForStart
  <2>3. QED
    BY <2>1, <2>2
<1>2. CASE EvaluateIdentifier(b)
  <2>1. CASE b \in Digit
    BY <1>2, <2>1 DEF EvaluateIdentifier
  <2>2. CASE b \notin Digit
    <3>1. urc_identifier_buffer' = <<b>>
      BY <1>2, <2>2 DEF EvaluateIdentifier
    <3>2. QED
      BY <1>2, <2>2, <3>1 DEF EvaluateIdentifier
  <2>3. QED
    BY <2>1, <2>2
<1>3. CASE LookUpIdentifier(b)
  <2>1. CASE Matches(b)
    <3>1. MatchIndex \in Matching
      BY <2>1, MatchIndexMatches DEF Matches
    <3>2. /\ MatchIndex \in Slot
          /\ urcs[MatchIndex].identifier = urc_identifier_buffer
          /\ urcs[MatchIndex].callback \in Callback
      BY <3>1 DEF Matching, Callback
    <3>3. QED
      BY <1>3, <2>1, <3>2 DEF LookUpIdentifier
  <2>2. CASE ~Matches(b)
    BY <1>3, <2>2 DEF LookUpIdentifier
  <2>3. QED
    BY <2>1, <2>2
<1>4. CASE ExtendIdentifier(b)
  <2>1. CASE Len(urc_identifier_buffer) = IDENTIFIER_SIZE
    BY <1>4, <2>1 DEF ExtendIdentifier
  <2>2. CASE Len(urc_identifier_buffer) # IDENTIFIER_SIZE
    <3>1. /\ Append(urc_identifier_buffer, b) \in Seq(Byte)
          /\ Append(urc_identifier_buffer, b) # <<>>
          /\ Len(Append(urc_identifier_buffer, b))
               = Len(urc_identifier_buffer) + 1
      BY AppendProperties
    <3>2. /\ urc_identifier_buffer' = Append(urc_identifier_buffer, b)
          /\ urc_parse_state' = "PARSING_IDENTIFIER"
          /\ UNCHANGED <<urc_data_buffer, urc_index, urc_current_callback>>
      BY <1>4, <2>2 DEF ExtendIdentifier
    <3>3. Len(urc_identifier_buffer) + 1 <= IDENTIFIER_SIZE
      BY <2>2, LenProperties
    <3>4. QED
      BY <3>1, <3>2, <3>3
  <2>3. QED
    BY <2>1, <2>2
<1>5. CASE CompleteData(b)
  BY <1>5 DEF CompleteData, Completes, Callback
<1>6. CASE ExtendData(b)
  <2>1. CASE Len(urc_data_buffer) = DATA_SIZE
    BY <1>6, <2>1 DEF ExtendData
  <2>2. CASE Len(urc_data_buffer) # DATA_SIZE
    <3>1. /\ Append(urc_data_buffer, b) \in Seq(Byte)
          /\ Len(Append(urc_data_buffer, b)) = Len(urc_data_buffer) + 1
      BY AppendProperties
    <3>2. /\ urc_data_buffer' = Append(urc_data_buffer, b)
          /\ urc_parse_state' = "PARSING_DATA"
          /\ UNCHANGED <<urc_identifier_buffer, urc_index,
                         urc_current_callback>>
      BY <1>6, <2>2 DEF ExtendData
    <3>3. Len(urc_data_buffer) + 1 <= DATA_SIZE
      BY <2>2, LenProperties
    <3>4. QED
      BY <1>6, <3>1, <3>2, <3>3 DEF ExtendData
  <2>3. QED
    BY <2>1, <2>2
<1>7. QED
  BY <1>1, <1>2, <1>3, <1>4, <1>5, <1>6 DEF Parse
-----------------------------------------------------------------------------
(* The index arithmetic stays in the ring.                                 *)
LEMMA IndexArithmetic ==
  /\ \A i \in Index : Successor(i) \in Index
  /\ \A i \in Index, n \in 0 .. RX_BUFFER_SIZE : Back(i, n) \in Index
  /\ \A n \in 0 .. COUNTER_SIZE - 1 :
       /\ Increment(n) \in 0 .. COUNTER_SIZE - 1
       /\ Decrement(n) \in 0 .. COUNTER_SIZE - 1
  BY RingAssumption DEF Index, Successor, Back, Increment, Decrement

(* The parser's invariant and the types are inductive in every mode.       *)
TypeInvariant == TypeOK /\ MatchedSlotInUse

LEMMA InitTypeInvariant == Init => TypeInvariant
<1>1. SUFFICES ASSUME Init PROVE TypeInvariant
  OBVIOUS
<1>2. (CHOOSE b \in Byte : TRUE) \in Byte
  BY ByteAssumption
<1>3. 0 \in Index /\ 0 \in Slot
  BY RingAssumption, TableAssumption DEF Index, Slot
<1>4. ParserTypeOK
  BY <1>1, <1>3, TableAssumption, EmptySeq
  DEF Init, ParserInit, ParserTypeOK, UrcParseState, Callback
<1>5. MatchedSlotInUse
  BY <1>1 DEF Init, ParserInit, MatchedSlotInUse
<1>6. rx_buffer \in [Index -> Byte]
  BY <1>1, <1>2 DEF Init
<1>7. /\ 0 \in 0 .. COUNTER_SIZE - 1 /\ Overshoot \in 0 .. Overshoot
      /\ 0 \in Nat
  BY RingAssumption
<1>8. QED
  BY <1>1, <1>3, <1>4, <1>5, <1>6, <1>7
  DEF TypeInvariant, TypeOK, Init, Control

LEMMA ReceiveByteTypeInvariant ==
  ASSUME TypeInvariant, NEW b \in Byte, ReceiveByte(b)
  PROVE  TypeInvariant'
<1> DEFINE received == Increment(rx_num_elements)
           rewind == Rewind(b, received)
<1>1. ParserTypeOK' /\ MatchedSlotInUse'
  BY ParseInvariant DEF TypeInvariant, TypeOK, ReceiveByte
<1>2. received \in 0 .. COUNTER_SIZE - 1
  BY IndexArithmetic DEF TypeInvariant, TypeOK
<1>3. rewind \in 0 .. RX_BUFFER_SIZE /\ rewind <= received
  BY <1>2, RewindInRing, RingAssumption DEF TypeInvariant, TypeOK
<1>4. Successor(rx_head_index) \in Index
  BY IndexArithmetic DEF TypeInvariant, TypeOK
<1>5. rx_head_index' \in Index
  BY <1>3, <1>4, IndexArithmetic DEF ReceiveByte
<1>6. rx_buffer' \in [Index -> Byte]
  BY <1>4 DEF ReceiveByte, TypeInvariant, TypeOK
<1>7. rx_num_elements' \in 0 .. COUNTER_SIZE - 1
  BY <1>2, <1>3, RingAssumption DEF ReceiveByte
<1>8. rts' \in {"LOW", "HIGH"}
  BY DEF ReceiveByte, TypeInvariant, TypeOK, RtsFor
<1>9. overshoot' \in 0 .. Overshoot
  BY RingAssumption DEF ReceiveByte, TypeInvariant, TypeOK, ModemMaySend
<1>10. late' \in Nat
  BY DEF ReceiveByte, TypeInvariant, TypeOK
<1>11. miscounted' \in BOOLEAN
  BY DEF ReceiveByte, TypeInvariant, TypeOK
<1>12. QED
  BY <1>1, <1>5, <1>6, <1>7, <1>8, <1>9, <1>10, <1>11
  DEF ReceiveByte, TypeInvariant, TypeOK, modes

LEMMA NextTypeInvariant == TypeInvariant /\ [Next]_vars => TypeInvariant'
<1> USE DEF TypeInvariant, Control
<1>1. SUFFICES ASSUME TypeInvariant, [Next]_vars
               PROVE  TypeInvariant'
  OBVIOUS
<1> DEFINE Same == UNCHANGED parser
<1>2. ASSUME Same
      PROVE  ParserTypeOK' /\ MatchedSlotInUse'
  BY <1>1, <1>2 DEF TypeOK, ParserTypeOK, MatchedSlotInUse, parser
<1>3. ASSUME NEW b \in Byte, ReceiveByte(b)
      PROVE  TypeInvariant'
  BY <1>1, <1>3, ReceiveByteTypeInvariant
<1>4. CASE CheckRxReady
  BY <1>1, <1>2, <1>4 DEF TypeOK, CheckRxReady, ring, flow, modes
<1>5. CASE TakeByte
  BY <1>1, <1>2, <1>5, IndexArithmetic DEF TypeOK, TakeByte, modes
<1>6. CASE ClearReceiveBuffer
  BY <1>1, <1>2, <1>6, RingAssumption DEF TypeOK, ClearReceiveBuffer, modes
<1>7. CASE DecideRts
  BY <1>1, <1>2, <1>7 DEF TypeOK, DecideRts, AfterUpdate, ring, flow, modes
<1>8. CASE WriteRts
  BY <1>1, <1>2, <1>8, RingAssumption
  DEF TypeOK, WriteRts, SetRts, AfterUpdate, ring, flow, modes
<1>9. CASE ReturnByte
  BY <1>1, <1>2, <1>9 DEF TypeOK, ReturnByte, ring, flow, modes
<1>10. CASE StartCriticalSection
  BY <1>1, <1>2, <1>10 DEF TypeOK, StartCriticalSection, ring, flow
<1>11. CASE StopCriticalSection
  BY <1>1, <1>2, <1>11 DEF TypeOK, StopCriticalSection, ring, flow
<1>12. CASE ArmRing
  BY <1>1, <1>2, <1>12 DEF TypeOK, ArmRing, ring, flow
<1>13. CASE EnterPowerSave
  BY <1>1, <1>2, <1>13 DEF TypeOK, EnterPowerSave, ring, flow
<1>14. CASE LeavePowerSave
  BY <1>1, <1>2, <1>14 DEF TypeOK, LeavePowerSave, ring, flow
<1>15. CASE RingInterrupt
  <2>1. LeaveByRing
    BY <1>15 DEF RingInterrupt
  <2>2. overshoot' \in 0 .. Overshoot /\ late' \in Nat
    BY <1>1, <2>1, RingAssumption DEF TypeOK, LeaveByRing, SetRts
  <2>3. QED
    BY <1>1, <1>2, <2>1, <2>2 DEF TypeOK, LeaveByRing, SetRts, ring
<1>16. CASE UNCHANGED vars
  BY <1>1, <1>2, <1>16 DEF TypeOK, vars, ring, flow, modes
<1>17. QED
  BY <1>1, <1>3, <1>4, <1>5, <1>6, <1>7, <1>8, <1>9, <1>10, <1>11, <1>12,
     <1>13, <1>14, <1>15, <1>16
  DEF Next, Receiving, ModeChange

(* In every mode and whatever races: every index stays in its buffer, the  *)
(* count fits its 16 bits, and the parser's buffers are never longer than  *)
(* their arrays.                                                           *)
THEOREM TypeCorrect == Spec => []TypeOK
<1>1. Spec => []TypeInvariant
  BY InitTypeInvariant, NextTypeInvariant, PTL DEF Spec
<1>2. TypeInvariant => TypeOK
  BY DEF TypeInvariant
<1>3. QED
  BY <1>1, <1>2, PTL

(* In every mode: the URC whose data is being received is that of a slot   *)
(* in use, and the callback to call at its end is that slot's.             *)
THEOREM MatchedSlotCorrect == Spec => []MatchedSlotInUse
<1>1. Spec => []TypeInvariant
  BY InitTypeInvariant, NextTypeInvariant, PTL DEF Spec
<1>2. TypeInvariant => MatchedSlotInUse
  BY DEF TypeInvariant
<1>3. QED
  BY <1>1, <1>2, PTL
-----------------------------------------------------------------------------
(* The argument for FillBounded.  As long as the count is right, each      *)
(* state of the RTS line bounds what is unread together with what may      *)
(* still come: what the modem has been granted late is an overshoot and    *)
(* one byte for each time, and                                             *)
(*   - LOW: the ring is below ALMOST_FULL but for what was granted late;   *)
(*   - HIGH: at most one overshoot more.                                   *)
(* Only a byte received while RTS is LOW, or a write of LOW, moves the     *)
(* bound; a write of LOW by the main program that has decided so before    *)
(* the ring filled up is one of those that are counted.                    *)
Granted(n) == n * (Overshoot + 1)

LEMMA GrantedIs ==
  /\ Granted(0) = 0
  /\ \A n \in Nat : Granted(n) \in Nat
  /\ \A n \in Nat : Granted(n + 1) = Granted(n) + Overshoot + 1
<1>1. Overshoot \in Nat
  BY RingAssumption
<1>2. \A n, o \in Nat : n * (o + 1) \in Nat /\ (n + 1) * (o + 1)
                                                  = n * (o + 1) + o + 1
  OBVIOUS
<1>3. \A o \in Nat : 0 * (o + 1) = 0
  OBVIOUS
<1>4. QED
  BY <1>1, <1>2, <1>3 DEF Granted

LineBound ==
  LET full == RX_BUFFER_ALMOST_FULL + Granted(late)
  IN  /\ rts = "LOW" => rx_num_elements < full
      /\ rts = "HIGH" => rx_num_elements + overshoot <= full + Overshoot

FlowInvariant ==
  /\ rts = "LOW" => overshoot = Overshoot
  /\ ~miscounted => /\ LineBound
                    /\ pc = "take" => rx_num_elements > 0

FlowTypes == TypeInvariant /\ FlowInvariant

LEMMA InitFlowInvariant == Init => FlowInvariant
BY RingAssumption, GrantedIs DEF Init, FlowInvariant, LineBound

(* A byte is counted: what is unread when it has been stored.              *)
LEMMA ReceivedIs ==
  ASSUME TypeInvariant, NEW b \in Byte, ReceiveByte(b), ~miscounted'
  PROVE  /\ ~miscounted
         /\ Increment(rx_num_elements) = rx_num_elements + 1
         /\ rx_num_elements' \in 0 .. rx_num_elements + 1
         /\ rx_num_elements' = rx_num_elements + 1
                                 - Rewind(b, rx_num_elements + 1)
         /\ Rewind(b, rx_num_elements + 1) \in Nat
         /\ Rewind(b, rx_num_elements + 1) <= rx_num_elements + 1
         /\ pc = "take" => rx_num_elements' > 0
<1> DEFINE received == Increment(rx_num_elements)
           num == received - Rewind(b, received)
<1>1. /\ rx_num_elements' = num
      /\ miscounted' = \/ miscounted
                       \/ rx_num_elements + 1 = COUNTER_SIZE
                       \/ pc = "take" /\ num = 0
  BY DEF ReceiveByte
<1>2. rx_num_elements \in Nat /\ ParserTypeOK
  BY DEF TypeInvariant, TypeOK
<1>3. /\ ~miscounted /\ rx_num_elements + 1 # COUNTER_SIZE
      /\ pc = "take" => num # 0
  BY <1>1
<1>4. received = rx_num_elements + 1
  BY <1>3 DEF Increment
<1>5. /\ Rewind(b, rx_num_elements + 1) \in Nat
      /\ Rewind(b, rx_num_elements + 1) <= rx_num_elements + 1
  BY <1>2, RewindInRing
<1>6. rx_num_elements'
        = rx_num_elements + 1 - Rewind(b, rx_num_elements + 1)
  <2>1. rx_num_elements' = received - Rewind(b, received)
    BY <1>1
  <2> HIDE DEF received
  <2> DEFINE taken == Rewind(b, rx_num_elements + 1)
  <2>2. Rewind(b, received) = taken
    BY <1>4 DEF Rewind
  <2>3. taken \in Nat
    BY <1>5
  <2> HIDE DEF taken
  <2>4. rx_num_elements' = rx_num_elements + 1 - taken
    BY <1>2, <1>4, <2>1, <2>2, <2>3
  <2>5. QED
    BY <2>4 DEF taken
<1>7. rx_num_elements' \in 0 .. rx_num_elements + 1
  BY <1>2, <1>5, <1>6
<1>8. pc = "take" => rx_num_elements' # 0
  BY <1>1, <1>3
<1>9. QED
  BY <1>3, <1>4, <1>5, <1>6, <1>7, <1>8

(* The interrupt: one byte more, less what is taken back, and the line as  *)
(* the ring and the modes then require, behind a callback LOW first.       *)
LEMMA ReceiveByteFlowInvariant ==
  ASSUME FlowTypes, NEW b \in Byte, ReceiveByte(b)
  PROVE  FlowInvariant'
<1>1. TypeInvariant /\ FlowInvariant /\ TypeInvariant'
  BY ReceiveByteTypeInvariant DEF FlowTypes
<1> DEFINE full == RX_BUFFER_ALMOST_FULL
           pulse == Called(b) # NULL
           level == CASE FlowControlled -> RtsFor(rx_num_elements')
                      [] ~FlowControlled /\ pulse -> "LOW"
                      [] OTHER -> rts
<1>2. /\ rts' = level
      /\ overshoot' = IF level = "LOW" \/ pulse THEN Overshoot
                      ELSE IF rts = "LOW" THEN Overshoot ELSE overshoot - 1
      /\ late' = IF rx_num_elements' < full THEN 0
                 ELSE IF pulse \/ (~FlowControlled /\ level = "LOW")
                      THEN late + 1 ELSE late
      /\ ModemMaySend
      /\ UNCHANGED pc
  BY DEF ReceiveByte
<1>3. rts' = "LOW" => overshoot' = Overshoot
  BY <1>2
<1>4. /\ rts \in {"LOW", "HIGH"} /\ overshoot \in 0 .. Overshoot
      /\ rx_num_elements \in Nat /\ late \in Nat /\ full \in Nat
      /\ Overshoot \in Nat
      /\ rts' \in {"LOW", "HIGH"} /\ overshoot' \in 0 .. Overshoot
      /\ rx_num_elements' \in Nat
  BY <1>1, RingAssumption DEF TypeInvariant, TypeOK
<1>5. ASSUME ~miscounted'
      PROVE  LineBound' /\ (pc' = "take" => rx_num_elements' > 0)
  <2>1. ~miscounted /\ rx_num_elements' \in 0 .. rx_num_elements + 1
        /\ (pc = "take" => rx_num_elements' > 0)
    BY <1>1, <1>5, ReceivedIs
  <2>2. LineBound
    BY <1>1, <2>1 DEF FlowInvariant
  <2>3. Granted(late) \in Nat /\ Granted(0) = 0
        /\ Granted(late + 1) = Granted(late) + Overshoot + 1
    BY <1>4, GrantedIs
  <2> DEFINE g == Granted(late)
  <2>4. /\ rts = "LOW" => rx_num_elements < full + g
        /\ rts = "HIGH" => rx_num_elements + overshoot <= full + g + Overshoot
    BY <1>4, <2>2, <2>3 DEF LineBound
  <2>5. \/ rts = "LOW" /\ rx_num_elements' <= full + g
        \/ rts = "HIGH" /\ overshoot > 0
             /\ rx_num_elements' + overshoot <= full + g + Overshoot + 1
    BY <1>2, <1>4, <2>1, <2>3, <2>4 DEF ModemMaySend
  <2> DEFINE h == Granted(late')
  <2>6. /\ rts' = "LOW" => rx_num_elements' < full + h
        /\ rts' = "HIGH" =>
             rx_num_elements' + overshoot' <= full + h + Overshoot
    <3>1. CASE rx_num_elements' < full
      <4>1. late' = 0
        BY <1>2, <3>1
      <4>2. h = 0
        BY <2>3, <4>1, Zenon
      <4> HIDE DEF g, h, full, level, pulse
      <4>3. full + h = full /\ full + h + Overshoot = full + Overshoot
        BY <1>4, <4>2 DEF full
      <4>4. rx_num_elements' + overshoot' <= full + Overshoot
        <5>1. \A a, c, d, e \in Nat : a < c /\ d <= e => a + d <= c + e
          OBVIOUS
        <5>2. overshoot' \in Nat /\ overshoot' <= Overshoot
          BY <1>4
        <5>3. QED
          BY <1>4, <3>1, <5>1, <5>2, Zenon
      <4>5. QED
        BY <3>1, <4>3, <4>4
    <3>2. CASE /\ ~(rx_num_elements' < full)
               /\ pulse \/ (~FlowControlled /\ level = "LOW")
      <4>1. late' = late + 1
        BY <1>2, <3>2
      <4>2. h = g + Overshoot + 1
        BY <2>3, <4>1
      <4> HIDE DEF g, h, full
      <4>3. QED
        BY <1>4, <2>3, <2>5, <4>2 DEF g
    <3>3. CASE /\ ~(rx_num_elements' < full)
               /\ ~(pulse \/ (~FlowControlled /\ level = "LOW"))
      <4>1. late' = late
        BY <1>2, <3>3
      <4>2. level = "HIGH"
        <5>1. CASE FlowControlled
          BY <3>3, <5>1 DEF RtsFor
        <5>2. CASE ~FlowControlled
          BY <1>4, <3>3, <5>2
        <5>3. QED
          BY <5>1, <5>2
      <4>3. /\ rts' = "HIGH"
            /\ overshoot' = IF rts = "LOW" THEN Overshoot ELSE overshoot - 1
        BY <1>2, <3>3, <4>2
      <4>4. h = g
        BY <4>1
      <4> HIDE DEF g, h, full, level, pulse
      <4>5. QED
        BY <1>4, <2>3, <2>5, <4>3, <4>4 DEF g
    <3>4. QED
      BY <3>1, <3>2, <3>3
  <2>7. LineBound'
    <3>1. Granted(late)' = h
      BY DEF Granted
    <3>2. h \in Nat
      BY <1>1, GrantedIs DEF TypeInvariant, TypeOK
    <3> HIDE DEF h
    <3>3. QED
      BY <1>4, <2>6, <3>1, <3>2, RingAssumption DEF LineBound
  <2>8. QED
    BY <1>2, <2>1, <2>7
<1>6. QED
  BY <1>3, <1>5 DEF FlowInvariant

(* A write to RTS, by whoever: LOW over an almost full ring is counted.    *)
LEMMA SetRtsLineBound ==
  ASSUME FlowTypes, NEW level \in {"LOW", "HIGH"}, SetRts(level),
         UNCHANGED <<rx_num_elements, miscounted>>
  PROVE  /\ rts' = "LOW" => overshoot' = Overshoot
         /\ ~miscounted' => LineBound'
<1>1. TypeInvariant /\ FlowInvariant
  BY DEF FlowTypes
<1>2. /\ rts \in {"LOW", "HIGH"} /\ overshoot \in 0 .. Overshoot
      /\ rx_num_elements \in Nat /\ late \in Nat /\ Overshoot \in Nat
      /\ RX_BUFFER_ALMOST_FULL \in Nat
  BY <1>1, RingAssumption DEF TypeInvariant, TypeOK
<1>3. Granted(late) \in Nat
      /\ Granted(late + 1) = Granted(late) + Overshoot + 1
  BY <1>2, GrantedIs
<1>4. ASSUME ~miscounted' PROVE LineBound'
  <2>1. LineBound
    BY <1>1, <1>4 DEF FlowInvariant
  <2>2. CASE level = "LOW" /\ rts = "HIGH" /\ AlmostFull
    <3>1. late' = late + 1 /\ rts' = "LOW"
      BY <2>2 DEF SetRts
    <3>2. Granted(late)' = Granted(late) + Overshoot + 1
      BY <1>3, <3>1 DEF Granted
    <3>3. QED
      BY <1>2, <1>3, <2>1, <2>2, <3>1, <3>2 DEF LineBound
  <2>3. CASE level = "LOW" /\ ~(rts = "HIGH" /\ AlmostFull)
    <3>1. late' = late /\ rts' = "LOW"
      BY <2>3 DEF SetRts
    <3>2. Granted(late)' = Granted(late)
      BY <3>1 DEF Granted
    <3>3. QED
      BY <1>2, <1>3, <2>1, <2>3, <3>1, <3>2 DEF LineBound, AlmostFull
  <2>4. CASE level = "HIGH"
    <3>1. late' = late /\ rts' = "HIGH" /\ overshoot' = overshoot
      BY <2>4 DEF SetRts
    <3>2. Granted(late)' = Granted(late)
      BY <3>1 DEF Granted
    <3>3. QED
      BY <1>1, <1>2, <1>3, <2>1, <3>1, <3>2 DEF LineBound, FlowInvariant
  <2>5. QED
    BY <2>2, <2>3, <2>4
<1>5. rts' = "LOW" => overshoot' = Overshoot
  BY DEF SetRts
<1>6. QED
  BY <1>4, <1>5

(* A step that takes bytes out of the ring for the main program.           *)
LEMMA FewerLineBound ==
  ASSUME FlowTypes, UNCHANGED <<rts, overshoot, miscounted>>, ~miscounted,
         rx_num_elements' \in 0 .. rx_num_elements,
         \/ late' = late
         \/ late' = 0 /\ rx_num_elements' < RX_BUFFER_ALMOST_FULL
  PROVE  LineBound'
<1>1. /\ rts \in {"LOW", "HIGH"} /\ overshoot \in 0 .. Overshoot
      /\ rx_num_elements \in Nat /\ late \in Nat /\ Overshoot \in Nat
      /\ RX_BUFFER_ALMOST_FULL \in Nat
  BY RingAssumption DEF FlowTypes, TypeInvariant, TypeOK
<1>2. Granted(late) \in Nat /\ Granted(0) = 0
  BY <1>1, GrantedIs
<1>3. LineBound
  BY DEF FlowTypes, FlowInvariant
<1>4. CASE late' = late
  <2>1. Granted(late)' = Granted(late)
    BY <1>4 DEF Granted
  <2>2. QED
    BY <1>1, <1>2, <1>3, <2>1 DEF LineBound
<1>5. CASE late' = 0 /\ rx_num_elements' < RX_BUFFER_ALMOST_FULL
  <2>1. Granted(late)' = 0
    BY <1>2, <1>5 DEF Granted
  <2>2. QED
    BY <1>1, <1>5, <2>1 DEF LineBound
<1>6. QED
  BY <1>4, <1>5

LEMMA NextFlowInvariant ==
  ASSUME FlowTypes, [Next]_vars
  PROVE  FlowInvariant'
<1>1. TypeInvariant /\ FlowInvariant
  BY DEF FlowTypes
<1>2. rx_num_elements \in Nat /\ RX_BUFFER_ALMOST_FULL \in Nat
      /\ RX_BUFFER_ALMOST_FULL > 0
  BY <1>1, RingAssumption DEF TypeInvariant, TypeOK
<1>3. ASSUME NEW b \in Byte, ReceiveByte(b)
      PROVE  FlowInvariant'
  BY <1>3, ReceiveByteFlowInvariant
<1>4. ASSUME UNCHANGED <<rx_num_elements, flow, miscounted>>,
             pc' = "take" => pc = "take" \/ rx_num_elements > 0
      PROVE  FlowInvariant'
  <2>1. Granted(late)' = Granted(late)
    BY <1>4 DEF flow, Granted
  <2>2. LineBound' = LineBound
    BY <1>4, <2>1 DEF flow, LineBound
  <2>3. QED
    BY <1>1, <1>4, <2>2 DEF flow, FlowInvariant
<1>5. CASE CheckRxReady
  BY <1>4, <1>5 DEF CheckRxReady, ring
<1>6. CASE TakeByte
  <2>1. /\ UNCHANGED <<rts, overshoot, miscounted>> /\ pc = "take"
        /\ pc' = "update"
        /\ rx_num_elements' = Decrement(rx_num_elements)
        /\ \/ late' = late
           \/ late' = 0 /\ rx_num_elements' < RX_BUFFER_ALMOST_FULL
    BY <1>6 DEF TakeByte
  <2>2. ASSUME ~miscounted PROVE LineBound'
    <3>1. rx_num_elements > 0
      BY <1>1, <2>1, <2>2 DEF FlowInvariant
    <3>2. rx_num_elements' \in 0 .. rx_num_elements
      BY <1>2, <2>1, <3>1 DEF Decrement
    <3>3. QED
      BY <2>1, <2>2, <3>2, FewerLineBound
  <2>3. QED
    BY <1>1, <2>1, <2>2 DEF FlowInvariant
<1>7. CASE ClearReceiveBuffer
  <2>1. /\ UNCHANGED <<rts, overshoot, miscounted>> /\ pc' = "update"
        /\ rx_num_elements' = 0 /\ late' = 0
    BY <1>7 DEF ClearReceiveBuffer
  <2>2. rx_num_elements' \in 0 .. rx_num_elements
    BY <1>2, <2>1
  <2>3. ~miscounted => LineBound'
    BY <1>2, <2>1, <2>2, FewerLineBound
  <2>4. QED
    BY <1>1, <2>1, <2>3 DEF FlowInvariant
<1>8. CASE DecideRts
  BY <1>4, <1>8 DEF DecideRts, AfterUpdate, ring
<1>9. CASE WriteRts
  <2>1. /\ SetRts("LOW") \/ SetRts("HIGH")
        /\ pc' # "take"
        /\ UNCHANGED <<rx_num_elements, miscounted>>
    BY <1>9 DEF WriteRts, AfterUpdate, ring
  <2>2. /\ rts' = "LOW" => overshoot' = Overshoot
        /\ ~miscounted' => LineBound'
    BY <2>1, SetRtsLineBound
  <2>3. QED
    BY <2>1, <2>2 DEF FlowInvariant
<1>10. CASE ReturnByte
  BY <1>4, <1>10 DEF ReturnByte, ring
<1>11. CASE StartCriticalSection \/ StopCriticalSection
  BY <1>4, <1>11 DEF StartCriticalSection, StopCriticalSection, ring
<1>12. CASE ArmRing \/ EnterPowerSave \/ LeavePowerSave
  BY <1>4, <1>12 DEF ArmRing, EnterPowerSave, LeavePowerSave, ring
<1>13. CASE RingInterrupt
  <2>1. SetRts("LOW") /\ UNCHANGED <<rx_num_elements, miscounted, pc>>
    BY <1>13 DEF RingInterrupt, LeaveByRing, ring
  <2>2. /\ rts' = "LOW" => overshoot' = Overshoot
        /\ ~miscounted' => LineBound'
    BY <2>1, SetRtsLineBound
  <2>3. QED
    BY <1>1, <2>1, <2>2 DEF FlowInvariant
<1>14. CASE UNCHANGED vars
  BY <1>4, <1>14 DEF vars, ring
<1>15. QED
  BY <1>3, <1>5, <1>6, <1>7, <1>8, <1>9, <1>10, <1>11, <1>12, <1>13, <1>14
  DEF Next, Receiving, ModeChange

LEMMA FlowCorrect == Spec => []FlowTypes
<1>1. Init => FlowTypes
  BY InitTypeInvariant, InitFlowInvariant DEF FlowTypes
<1>2. FlowTypes /\ [Next]_vars => FlowTypes'
  BY NextTypeInvariant, NextFlowInvariant DEF FlowTypes
<1>3. QED
  BY <1>1, <1>2, PTL DEF Spec

(* How far the ring can fill above RX_BUFFER_ALMOST_FULL, whatever the     *)
(* interleaving of the interrupts with the main program's checks and       *)
(* writes, in every mode, for every size and every overshoot: no           *)
(* assumption keeps it from being overrun.                                 *)
THEOREM FillBoundedTheorem == Spec => []FillBounded
<1>1. ASSUME FlowTypes PROVE FillBounded
  <2>1. /\ rts \in {"LOW", "HIGH"} /\ overshoot \in 0 .. Overshoot
        /\ rx_num_elements \in Nat /\ late \in Nat /\ Overshoot \in Nat
        /\ RX_BUFFER_ALMOST_FULL \in Nat
    BY <1>1, RingAssumption DEF FlowTypes, TypeInvariant, TypeOK
  <2>2. Granted(late) \in Nat
    BY <2>1, GrantedIs
  <2>3. ~miscounted => LineBound
    BY <1>1 DEF FlowTypes, FlowInvariant
  <2>4. ~miscounted => rx_num_elements <= RX_BUFFER_ALMOST_FULL + Overshoot
                                            + Granted(late)
    BY <2>1, <2>2, <2>3 DEF LineBound
  <2>5. QED
    BY <2>4 DEF FillBounded, Granted
<1>2. QED
  BY <1>1, FlowCorrect, PTL
-----------------------------------------------------------------------------
(* The argument for NoStall.  Between the decision to set RTS HIGH and the *)
(* write, URCs may be taken out of the ring; each takes only bytes it      *)
(* brought itself, except the one under way when the decision was made.    *)
(* That one must therefore be shorter than what was unread then.           *)
UrcsFit ==
  IDENTIFIER_SIZE + 1 < RX_BUFFER_ALMOST_FULL
    /\ DATA_SIZE < RX_BUFFER_ALMOST_FULL

(* The bytes of the URC under way that may yet be taken out of the ring.   *)
UnderWay ==
  IF urc_parse_state = "EVALUATING_IDENTIFIER" THEN 1
  ELSE IF urc_parse_state = "PARSING_IDENTIFIER"
       THEN Len(urc_identifier_buffer) + 1
       ELSE IF urc_parse_state = "PARSING_DATA" THEN Len(urc_data_buffer)
            ELSE 0

StallInvariant ==
  ~miscounted /\ FlowControlled =>
    /\ pc = "deassert" => UnderWay < rx_num_elements
    /\ rts = "HIGH" /\ pc \in {"idle", "return"} => rx_num_elements > 0

LEMMA UnderWayBound ==
  ASSUME ParserTypeOK
  PROVE  UnderWay \in Nat /\ UnderWay <= RX_BUFFER_SIZE
         /\ (UrcsFit => UnderWay < RX_BUFFER_ALMOST_FULL)
<1>1. /\ Len(urc_identifier_buffer) \in Nat
      /\ Len(urc_data_buffer) \in Nat
  BY LenProperties DEF ParserTypeOK
<1>2. QED
  BY <1>1, RingAssumption, TableAssumption
  DEF UnderWay, UrcsFit, ParserTypeOK

(* What a byte takes out of the ring was under way, or came with it.       *)
LEMMA TakenWasUnderWay ==
  ASSUME ParserTypeOK, MatchedSlotInUse, NEW b \in Byte, Parse(b),
         NEW received \in Nat
  PROVE  received - 1 - UnderWay
           <= received - Rewind(b, received) - UnderWay'
<1> DEFINE taken == Rewind(b, received)
<1> USE DEF ParserTypeOK, UrcParseState
<1>1. /\ Len(urc_identifier_buffer) \in Nat
      /\ Len(urc_data_buffer) \in Nat
  BY LenProperties
<1>2. ~Matches(b) /\ ~Completes(b) => taken = 0
  BY DEF Rewind
<1>3. CASE LookForStart(b)
  <2>1. taken = 0
    BY <1>2, <1>3 DEF LookForStart, Matches, Completes
  <2>2. UnderWay = 0 /\ (UnderWay' = 0 \/ UnderWay' = 1)
    BY <1>3 DEF LookForStart, UnderWay
  <2>3. QED
    BY <2>1, <2>2
<1>4. CASE EvaluateIdentifier(b)
  <2>1. taken = 0
    BY <1>2, <1>4 DEF EvaluateIdentifier, Matches, Completes
  <2>2. UnderWay = 1 /\ (UnderWay' = 0 \/ UnderWay' = 2)
    <3>1. CASE b \in Digit
      BY <1>4, <3>1 DEF EvaluateIdentifier, UnderWay
    <3>2. CASE b \notin Digit
      <4>1. /\ urc_identifier_buffer' = <<b>>
            /\ urc_parse_state' = "PARSING_IDENTIFIER"
            /\ urc_parse_state = "EVALUATING_IDENTIFIER"
        BY <1>4, <3>2 DEF EvaluateIdentifier, MatchedSlotInUse
      <4>2. QED
        BY <4>1 DEF UnderWay
    <3>3. QED
      BY <3>1, <3>2
  <2>3. QED
    BY <2>1, <2>2
<1>5. CASE LookUpIdentifier(b)
  <2>1. UnderWay = Len(urc_identifier_buffer) + 1
    BY <1>5 DEF LookUpIdentifier, UnderWay
  <2>2. taken \in {0, Len(urc_identifier_buffer) + 2}
    BY <1>5 DEF LookUpIdentifier, Rewind, Completes
  <2>3. UnderWay' = 0
    <3>1. CASE Matches(b)
      BY <1>5, <3>1, EmptySeq DEF LookUpIdentifier, UnderWay
    <3>2. CASE ~Matches(b)
      BY <1>5, <3>2 DEF LookUpIdentifier, UnderWay
    <3>3. QED
      BY <3>1, <3>2
  <2>4. QED
    BY <1>1, <2>1, <2>2, <2>3
<1>6. CASE ExtendIdentifier(b)
  <2>1. taken = 0
    BY <1>2, <1>6 DEF ExtendIdentifier, Matches, Completes
  <2>2. UnderWay = Len(urc_identifier_buffer) + 1
    BY <1>6 DEF ExtendIdentifier, UnderWay
  <2>3. UnderWay' \in {0, Len(urc_identifier_buffer) + 2}
    <3>1. CASE Len(urc_identifier_buffer) = IDENTIFIER_SIZE
      BY <1>6, <3>1 DEF ExtendIdentifier, UnderWay
    <3>2. CASE Len(urc_identifier_buffer) # IDENTIFIER_SIZE
      <4>1. Len(Append(urc_identifier_buffer, b))
              = Len(urc_identifier_buffer) + 1
        BY AppendProperties
      <4>2. /\ urc_identifier_buffer' = Append(urc_identifier_buffer, b)
            /\ urc_parse_state' = "PARSING_IDENTIFIER"
        BY <1>6, <3>2 DEF ExtendIdentifier
      <4>3. QED
        BY <1>1, <4>1, <4>2 DEF UnderWay
    <3>3. QED
      BY <3>1, <3>2
  <2>4. QED
    BY <1>1, <2>1, <2>2, <2>3
<1>7. CASE CompleteData(b)
  <2>1. UnderWay = Len(urc_data_buffer) /\ UnderWay' = 0
    BY <1>7, EmptySeq DEF CompleteData, Completes, UnderWay
  <2>2. taken \in {0, Len(urc_data_buffer)}
    BY <1>7 DEF CompleteData, Completes, Rewind, Matches
  <2>3. QED
    BY <1>1, <2>1, <2>2
<1>8. CASE ExtendData(b)
  <2>1. taken = 0
    BY <1>2, <1>8 DEF ExtendData, Matches, Completes
  <2>2. UnderWay = Len(urc_data_buffer)
    BY <1>8 DEF ExtendData, UnderWay
  <2>3. UnderWay' \in {0, Len(urc_data_buffer) + 1}
    <3>1. CASE Len(urc_data_buffer) = DATA_SIZE
      BY <1>8, <3>1 DEF ExtendData, UnderWay
    <3>2. CASE Len(urc_data_buffer) # DATA_SIZE
      <4>1. Len(Append(urc_data_buffer, b)) = Len(urc_data_buffer) + 1
        BY AppendProperties
      <4>2. /\ urc_data_buffer' = Append(urc_data_buffer, b)
            /\ urc_parse_state' = "PARSING_DATA"
        BY <1>8, <3>2 DEF ExtendData
      <4>3. QED
        BY <1>1, <4>1, <4>2 DEF UnderWay
    <3>3. QED
      BY <3>1, <3>2
  <2>4. QED
    BY <1>1, <2>1, <2>2, <2>3
<1>9. QED
  BY <1>3, <1>4, <1>5, <1>6, <1>7, <1>8 DEF Parse

LEMMA StallStep ==
  ASSUME UrcsFit, FlowTypes, StallInvariant, [Next]_vars
  PROVE  StallInvariant'
<1> USE DEF StallInvariant
<1>1. TypeInvariant /\ FlowInvariant
  BY DEF FlowTypes
<1>2. /\ rx_num_elements \in Nat /\ rts \in {"LOW", "HIGH"}
      /\ ParserTypeOK /\ MatchedSlotInUse
  BY <1>1 DEF TypeInvariant, TypeOK
<1>3. /\ UnderWay \in Nat /\ UnderWay < RX_BUFFER_ALMOST_FULL
      /\ UnderWay' \in Nat
  <2>1. TypeInvariant'
    BY <1>1, NextTypeInvariant
  <2>2. /\ Len(urc_identifier_buffer') \in Nat
        /\ Len(urc_data_buffer') \in Nat
    BY <2>1, LenProperties DEF TypeInvariant, TypeOK, ParserTypeOK
  <2>3. UnderWay' \in Nat
    BY <2>2 DEF UnderWay
  <2>4. QED
    BY <1>2, <2>3, UnderWayBound
<1>4. ASSUME UNCHANGED parser
      PROVE  UnderWay' = UnderWay
  BY <1>4 DEF parser, UnderWay
<1>5. ASSUME UNCHANGED modes
      PROVE  FlowControlled' = FlowControlled
  BY <1>5 DEF modes, FlowControlled
<1>6. ASSUME NEW b \in Byte, ReceiveByte(b), ~miscounted', FlowControlled
      PROVE  StallInvariant'
  <2> DEFINE num == rx_num_elements + 1 - Rewind(b, rx_num_elements + 1)
  <2>1. /\ ~miscounted
        /\ Increment(rx_num_elements) = rx_num_elements + 1
        /\ rx_num_elements' = num
        /\ Rewind(b, rx_num_elements + 1) \in Nat
    BY <1>1, <1>6, ReceivedIs
  <2>2. Parse(b) /\ UNCHANGED pc
    BY <1>6 DEF ReceiveByte
  <2>3. rts' = RtsFor(num)
    BY <1>6, <2>1 DEF ReceiveByte
  <2>4. rx_num_elements - UnderWay <= num - UnderWay'
    <3>1. PICK received \in Nat : received = rx_num_elements + 1
      BY <1>2
    <3>2. received - 1 - UnderWay
            <= received - Rewind(b, received) - UnderWay'
      BY <1>2, <2>2, TakenWasUnderWay
    <3>3. received - 1 - UnderWay = rx_num_elements - UnderWay
      BY <1>2, <1>3, <3>1
    <3> DEFINE taken == Rewind(b, rx_num_elements + 1)
    <3>4. Rewind(b, received) = taken
      BY <3>1 DEF Rewind
    <3>5. num = rx_num_elements + 1 - taken /\ taken \in Nat
      BY <2>1
    <3> HIDE DEF num, taken
    <3>6. received - Rewind(b, received) = num
      BY <1>2, <3>1, <3>4, <3>5
    <3>7. QED
      BY <3>2, <3>3, <3>6, Zenon
  <2>5. QED
    BY <1>2, <1>3, <1>6, <2>1, <2>2, <2>3, <2>4, RingAssumption DEF RtsFor
<1>7. ASSUME NEW b \in Byte, ReceiveByte(b)
      PROVE  StallInvariant'
  <2>1. FlowControlled' = FlowControlled
    BY <1>5, <1>7 DEF ReceiveByte
  <2>2. QED
    BY <1>6, <1>7, <2>1
<1>8. CASE CheckRxReady
  BY <1>4, <1>8 DEF CheckRxReady
<1>9. CASE TakeByte \/ ClearReceiveBuffer
  BY <1>9 DEF TakeByte, ClearReceiveBuffer
<1>10. CASE DecideRts
  <2>1. /\ pc = "update"
        /\ FlowControlled =>
             pc' = IF RtsFor(rx_num_elements) = "LOW" THEN "assert"
                   ELSE "deassert"
        /\ UNCHANGED <<rx_num_elements, rts, miscounted>>
        /\ UnderWay' = UnderWay /\ FlowControlled' = FlowControlled
    BY <1>4, <1>5, <1>10 DEF DecideRts, ring, flow
  <2>2. RtsFor(rx_num_elements) # "LOW" => UnderWay < rx_num_elements
    BY <1>2, <1>3, RingAssumption DEF RtsFor
  <2>3. QED
    BY <2>1, <2>2
<1>11. CASE WriteRts
  <2>1. /\ UNCHANGED <<rx_num_elements, miscounted>>
        /\ FlowControlled' = FlowControlled
        /\ pc' # "deassert"
        /\ rts' = "HIGH" => pc = "deassert"
    BY <1>5, <1>11 DEF WriteRts, SetRts, AfterUpdate, ring
  <2>2. UnderWay < rx_num_elements => rx_num_elements > 0
    BY <1>2, <1>3
  <2>3. QED
    BY <2>1, <2>2
<1>12. CASE ReturnByte
  BY <1>4, <1>5, <1>12 DEF ReturnByte, ring, flow
<1>13. CASE StartCriticalSection \/ EnterPowerSave
  BY <1>13 DEF StartCriticalSection, EnterPowerSave, FlowControlled
<1>14. CASE StopCriticalSection \/ ArmRing \/ LeavePowerSave
  BY <1>14 DEF StopCriticalSection, ArmRing, LeavePowerSave
<1>15. CASE RingInterrupt
  BY <1>15
  DEF RingInterrupt, LeaveByRing, SetRts, EnteringPowerSave, FlowControlled
<1>16. CASE UNCHANGED vars
  BY <1>4, <1>5, <1>16 DEF vars, ring, flow
<1>17. QED
  BY <1>7, <1>8, <1>9, <1>10, <1>11, <1>12, <1>13, <1>14, <1>15, <1>16
  DEF Next, Receiving, ModeChange

(* RTS is not left HIGH over an empty ring, in any mode, however the       *)
(* interrupts' and the main program's writes to it fall and whatever URCs  *)
(* are taken out between them, if the longest URC leaves the ring almost   *)
(* full.                                                                   *)
THEOREM NoStallTheorem == ASSUME UrcsFit PROVE Spec => []NoStall
<1>1. Init => StallInvariant
  BY DEF Init, StallInvariant
<1>2. FlowTypes /\ StallInvariant /\ [Next]_vars => StallInvariant'
  BY StallStep
<1>3. StallInvariant => NoStall
  BY DEF StallInvariant, NoStall
<1>4. QED
  BY <1>1, <1>2, <1>3, FlowCorrect, PTL DEF Spec
-----------------------------------------------------------------------------
(* Modulo the size of the ring the three numbers agree, whatever is        *)
(* overrun: until a race or a wrap-around makes the count wrong, and for   *)
(* ever if the counter wraps around at a multiple of that size.            *)
CounterDivisible == COUNTER_SIZE % RX_BUFFER_SIZE = 0

Congruent ==
  \E q \in Int :
    rx_tail_index + rx_num_elements = rx_head_index + q * RX_BUFFER_SIZE

(* What the index arithmetic does is addition modulo the size ...          *)
LEMMA IndexModulo ==
  /\ \A i \in Index :
       \E q \in Int : Successor(i) = i + 1 + q * RX_BUFFER_SIZE
  /\ \A i \in Index, n \in 0 .. RX_BUFFER_SIZE :
       \E q \in Int : Back(i, n) = i - n + q * RX_BUFFER_SIZE
<1> USE RingAssumption
<1>1. ASSUME NEW i \in Index
      PROVE  \E q \in Int : Successor(i) = i + 1 + q * RX_BUFFER_SIZE
  <2>1. CASE i + 1 = RX_BUFFER_SIZE
    <3>1. Successor(i) = i + 1 + (-1) * RX_BUFFER_SIZE
      BY <2>1 DEF Successor, Index
    <3>2. QED
      BY <3>1
  <2>2. CASE i + 1 # RX_BUFFER_SIZE
    <3>1. Successor(i) = i + 1 + 0 * RX_BUFFER_SIZE
      BY <2>2 DEF Successor, Index
    <3>2. QED
      BY <3>1
  <2>3. QED
    BY <2>1, <2>2
<1>2. ASSUME NEW i \in Index, NEW n \in 0 .. RX_BUFFER_SIZE
      PROVE  \E q \in Int : Back(i, n) = i - n + q * RX_BUFFER_SIZE
  <2>1. CASE n <= i
    <3>1. Back(i, n) = i - n + 0 * RX_BUFFER_SIZE
      BY <2>1 DEF Back, Index
    <3>2. QED
      BY <3>1
  <2>2. CASE ~(n <= i)
    <3>1. Back(i, n) = i - n + 1 * RX_BUFFER_SIZE
      BY <2>2 DEF Back, Index
    <3>2. WITNESS 1 \in Int
    <3>3. QED
      BY <3>1
  <2>3. QED
    BY <2>1, <2>2
<1>3. QED
  BY <1>1, <1>2

(* ... and so is that of the counter, if the size divides its range.       *)
LEMMA CounterModulo ==
  ASSUME CounterDivisible
  PROVE  \A n \in 0 .. COUNTER_SIZE - 1 :
           /\ \E q \in Int : Increment(n) = n + 1 + q * RX_BUFFER_SIZE
           /\ \E q \in Int : Decrement(n) = n - 1 + q * RX_BUFFER_SIZE
<1> USE RingAssumption
<1> DEFINE c == COUNTER_SIZE \div RX_BUFFER_SIZE
<1>1. c \in Int /\ COUNTER_SIZE = c * RX_BUFFER_SIZE
  <2>1. /\ c \in Nat
        /\ COUNTER_SIZE = (RX_BUFFER_SIZE * c)
                           + (COUNTER_SIZE % RX_BUFFER_SIZE)
    OBVIOUS
  <2>2. QED
    BY <2>1 DEF CounterDivisible
<1> HIDE DEF c
<1>2. ASSUME NEW n \in 0 .. COUNTER_SIZE - 1
      PROVE  \E q \in Int : Increment(n) = n + 1 + q * RX_BUFFER_SIZE
  <2>1. CASE n + 1 = COUNTER_SIZE
    <3>1. Increment(n) = n + 1 + (-c) * RX_BUFFER_SIZE
      BY <1>1, <2>1 DEF Increment
    <3>2. QED
      BY <1>1, <3>1
  <2>2. CASE n + 1 # COUNTER_SIZE
    <3>1. Increment(n) = n + 1 + 0 * RX_BUFFER_SIZE
      BY <2>2 DEF Increment
    <3>2. QED
      BY <3>1
  <2>3. QED
    BY <2>1, <2>2
<1>3. ASSUME NEW n \in 0 .. COUNTER_SIZE - 1
      PROVE  \E q \in Int : Decrement(n) = n - 1 + q * RX_BUFFER_SIZE
  <2>1. CASE n = 0
    <3>1. Decrement(n) = n - 1 + c * RX_BUFFER_SIZE
      BY <1>1, <2>1 DEF Decrement
    <3>2. QED
      BY <1>1, <3>1
  <2>2. CASE n # 0
    <3>1. Decrement(n) = n - 1 + 0 * RX_BUFFER_SIZE
      BY <2>2 DEF Decrement
    <3>2. QED
      BY <3>1
  <2>3. QED
    BY <2>1, <2>2
<1>4. QED
  BY <1>2, <1>3

(* A step that counts right, or whose miscounting the size divides.        *)
LEMMA CongruentStep ==
  ASSUME FlowTypes, Congruent, [Next]_vars, CounterDivisible \/ ~miscounted'
  PROVE  Congruent'
<1> USE RingAssumption
<1> DEFINE S == RX_BUFFER_SIZE
<1>1. PICK q \in Int : rx_tail_index + rx_num_elements = rx_head_index + q * S
  BY DEF Congruent
<1>2. /\ rx_head_index \in Index /\ rx_tail_index \in Index
      /\ rx_num_elements \in 0 .. COUNTER_SIZE - 1
  BY DEF FlowTypes, TypeInvariant, TypeOK
<1>3. ASSUME UNCHANGED <<rx_head_index, rx_tail_index, rx_num_elements>>
      PROVE  Congruent'
  BY <1>3 DEF Congruent
<1>4. ASSUME NEW b \in Byte, ReceiveByte(b)
      PROVE  Congruent'
  <2> DEFINE received == Increment(rx_num_elements)
             taken == Rewind(b, received)
             stored == Successor(rx_head_index)
  <2>1. /\ rx_head_index' = Back(stored, taken)
        /\ rx_num_elements' = received - taken
        /\ UNCHANGED rx_tail_index
    BY <1>4 DEF ReceiveByte
  <2>2. received \in 0 .. COUNTER_SIZE - 1 /\ stored \in Index
    BY <1>2, IndexArithmetic
  <2>3. taken \in 0 .. RX_BUFFER_SIZE
    BY <2>2, RewindInRing DEF FlowTypes, TypeInvariant, TypeOK
  <2>4. PICK e \in Int : stored = rx_head_index + 1 + e * S
    BY <1>2, IndexModulo
  <2>5. PICK f \in Int : received = rx_num_elements + 1 + f * S
    <3>1. CASE CounterDivisible
      BY <1>2, <3>1, CounterModulo
    <3>2. CASE ~miscounted'
      <4>1. received = rx_num_elements + 1
        BY <1>4, <3>2, ReceivedIs DEF FlowTypes
      <4> HIDE DEF received
      <4>2. received = rx_num_elements + 1 + 0 * S
        BY <1>2, <4>1
      <4>3. QED
        BY <4>2
    <3>3. QED
      BY <3>1, <3>2
  <2>6. PICK g \in Int : Back(stored, taken) = stored - taken + g * S
    BY <2>2, <2>3, IndexModulo
  <2> HIDE DEF received, taken, stored
  <2>7. rx_tail_index' + rx_num_elements'
          = rx_head_index' + (q + f - e - g) * S
    BY <1>1, <1>2, <2>1, <2>2, <2>3, <2>4, <2>5, <2>6 DEF Index
  <2>8. QED
    BY <2>7 DEF Congruent
<1>5. CASE TakeByte
  <2>1. PICK e \in Int : rx_tail_index' = rx_tail_index + 1 + e * S
    BY <1>2, <1>5, IndexModulo DEF TakeByte
  <2>2. PICK f \in Int : rx_num_elements' = rx_num_elements - 1 + f * S
    <3>1. rx_num_elements' = Decrement(rx_num_elements)
      BY <1>5 DEF TakeByte
    <3>2. CASE CounterDivisible
      BY <1>2, <3>1, <3>2, CounterModulo
    <3>3. CASE ~miscounted'
      <4>1. rx_num_elements > 0
        BY <1>5, <3>3 DEF TakeByte, FlowTypes, FlowInvariant
      <4>2. rx_num_elements' = rx_num_elements - 1 + 0 * S
        BY <1>2, <3>1, <4>1 DEF Decrement
      <4>3. QED
        BY <4>2
    <3>4. QED
      BY <3>2, <3>3
  <2>3. rx_tail_index' + rx_num_elements' = rx_head_index' + (q + e + f) * S
    BY <1>1, <1>2, <1>5, <2>1, <2>2 DEF TakeByte, Index
  <2>4. QED
    BY <2>3 DEF Congruent
<1>6. CASE ClearReceiveBuffer
  <2>1. rx_tail_index' + rx_num_elements' = rx_head_index' + 0 * S
    BY <1>2, <1>6 DEF ClearReceiveBuffer, Index
  <2>2. QED
    BY <2>1 DEF Congruent
<1>7. CASE CheckRxReady \/ DecideRts \/ WriteRts \/ ReturnByte
  BY <1>3, <1>7 DEF CheckRxReady, DecideRts, WriteRts, ReturnByte, ring
<1>8. CASE ModeChange
  BY <1>3, <1>8
  DEF ModeChange, StartCriticalSection, StopCriticalSection, ArmRing,
      EnterPowerSave, LeavePowerSave, RingInterrupt, LeaveByRing, ring
<1>9. CASE UNCHANGED vars
  BY <1>3, <1>9 DEF vars, ring
<1>10. QED
  BY <1>4, <1>5, <1>6, <1>7, <1>8, <1>9 DEF Next, Receiving

LEMMA InitCongruent == Init => Congruent
<1>1. SUFFICES ASSUME Init PROVE Congruent
  OBVIOUS
<1>2. rx_tail_index + rx_num_elements = rx_head_index + 0 * RX_BUFFER_SIZE
  BY <1>1, RingAssumption DEF Init
<1>3. QED
  BY <1>2 DEF Congruent

LEMMA CongruentAgrees ==
  ASSUME TypeInvariant, Congruent PROVE CountsAgree
<1> USE RingAssumption
<1>1. PICK q \in Int :
        rx_tail_index + rx_num_elements = rx_head_index + q * RX_BUFFER_SIZE
  BY DEF Congruent
<1>2. /\ rx_head_index \in Index /\ rx_tail_index \in Index
      /\ rx_num_elements \in Nat
  BY DEF TypeInvariant, TypeOK
<1>3. q \in Nat
  BY <1>1, <1>2 DEF Index
<1>4. (q * RX_BUFFER_SIZE + rx_head_index) % RX_BUFFER_SIZE = rx_head_index
  BY <1>2, <1>3 DEF Index
<1>5. QED
  BY <1>1, <1>2, <1>4 DEF CountsAgree, Index

(* In every mode, through races and overruns: each byte stored, read,      *)
(* cleared or taken back is counted once.                                  *)
THEOREM CountsAgreeTheorem ==
  ASSUME CounterDivisible PROVE Spec => []CountsAgree
<1>1. FlowTypes /\ Congruent /\ [Next]_vars => Congruent'
  BY CongruentStep
<1>2. FlowTypes /\ Congruent => CountsAgree
  BY CongruentAgrees DEF FlowTypes
<1>3. QED
  BY <1>1, <1>2, InitCongruent, FlowCorrect, PTL DEF Spec

(* Whatever the range of the counter, they agree as long as it is right.   *)
Aligned == ~miscounted => Congruent

LEMMA StaysMiscounted ==
  ASSUME [Next]_vars, miscounted PROVE miscounted'
<1>1. ASSUME NEW b \in Byte, ReceiveByte(b) PROVE miscounted'
  BY <1>1 DEF ReceiveByte
<1>2. QED
  BY <1>1
  DEF Next, Receiving, ModeChange, vars, CheckRxReady, TakeByte, ReturnByte,
      ClearReceiveBuffer, DecideRts, WriteRts, StartCriticalSection,
      StopCriticalSection, ArmRing, EnterPowerSave, LeavePowerSave,
      RingInterrupt, LeaveByRing

LEMMA AlignedCorrect == Spec => []Aligned
<1>1. Init => Aligned
  BY InitCongruent DEF Aligned
<1>2. FlowTypes /\ Aligned /\ [Next]_vars => Aligned'
  <2>1. SUFFICES ASSUME FlowTypes, Aligned, [Next]_vars, ~miscounted'
                 PROVE  Congruent'
    BY DEF Aligned
  <2>2. ~miscounted
    BY <2>1, StaysMiscounted
  <2>3. QED
    BY <2>1, <2>2, CongruentStep DEF Aligned
<1>3. QED
  BY <1>1, <1>2, FlowCorrect, PTL DEF Spec
-----------------------------------------------------------------------------
(* readByte() is under way at its own control points and never where the   *)
(* modes change; its decision to set RTS LOW is not out of date about the  *)
(* modes, which only the main program suspends.                            *)
ReadingInvariant ==
  /\ reading \in BOOLEAN
  /\ pc \in {"take", "return"} => reading
  /\ pc \in {"idle", "armed"} => ~reading
  /\ pc = "assert" /\ reading => FlowControlled

LEMMA ReadingStep ==
  ASSUME ReadingInvariant, [Next]_vars
  PROVE  ReadingInvariant'
<1> USE DEF ReadingInvariant, FlowControlled, ring, modes
<1>1. ASSUME NEW b \in Byte, ReceiveByte(b)
      PROVE  ReadingInvariant'
  BY <1>1 DEF ReceiveByte
<1>2. CASE CheckRxReady \/ TakeByte \/ ReturnByte \/ ClearReceiveBuffer
  BY <1>2 DEF CheckRxReady, TakeByte, ReturnByte, ClearReceiveBuffer
<1>3. CASE DecideRts
  BY <1>3 DEF DecideRts, AfterUpdate
<1>4. CASE WriteRts
  BY <1>4 DEF WriteRts, AfterUpdate
<1>5. CASE StartCriticalSection \/ StopCriticalSection
  BY <1>5 DEF StartCriticalSection, StopCriticalSection
<1>6. CASE ArmRing \/ EnterPowerSave \/ LeavePowerSave
  BY <1>6 DEF ArmRing, EnterPowerSave, LeavePowerSave
<1>7. CASE RingInterrupt
  BY <1>7 DEF RingInterrupt, LeaveByRing
<1>8. CASE UNCHANGED vars
  BY <1>8 DEF vars
<1>9. QED
  BY <1>1, <1>2, <1>3, <1>4, <1>5, <1>6, <1>7, <1>8
  DEF Next, Receiving, ModeChange

LEMMA ReadingCorrect == Spec => []ReadingInvariant
<1>1. Init => ReadingInvariant
  BY DEF Init, ReadingInvariant
<1>2. QED
  BY <1>1, ReadingStep, PTL DEF Spec

(* While flow control is suspended, RTS goes LOW only behind a callback,   *)
(* with the RING interrupt, or by the write of a mode function.            *)
Resumes ==
  (/\ power_save_mode = 1 \/ critical_section_enabled
   /\ rts = "HIGH" /\ rts' = "LOW") =>
     \/ urc_current_callback # NULL /\ urc_current_callback' = NULL
     \/ RingInterrupt
     \/ pc = "assert" /\ ~reading

LEMMA ResumesStep ==
  ASSUME TypeInvariant, ReadingInvariant, [Next]_vars
  PROVE  Resumes
<1>1. CASE rts' = rts
  BY <1>1 DEF Resumes
<1>2. ASSUME NEW b \in Byte, ReceiveByte(b), ~FlowControlled,
             rts = "HIGH", rts' = "LOW"
      PROVE  urc_current_callback # NULL /\ urc_current_callback' = NULL
  <2>1. Called(b) # NULL
    BY <1>2 DEF ReceiveByte
  <2>2. Completes(b) /\ urc_current_callback # NULL
    BY <2>1 DEF Called
  <2>3. CompleteData(b)
    BY <1>2, <2>2
    DEF ReceiveByte, Parse, Completes, LookForStart, EvaluateIdentifier,
        LookUpIdentifier, ExtendIdentifier, ExtendData
  <2>4. QED
    BY <2>2, <2>3 DEF CompleteData
<1>3. CASE WriteRts
  BY <1>3
  DEF WriteRts, SetRts, Resumes, ReadingInvariant, FlowControlled
<1>4. CASE RingInterrupt
  BY <1>4 DEF Resumes
<1>5. CASE \/ CheckRxReady \/ TakeByte \/ ReturnByte \/ ClearReceiveBuffer
           \/ DecideRts
  BY <1>1, <1>5
  DEF CheckRxReady, TakeByte, ReturnByte, ClearReceiveBuffer, DecideRts, flow
<1>6. CASE \/ StartCriticalSection \/ StopCriticalSection
           \/ ArmRing \/ EnterPowerSave \/ LeavePowerSave
  BY <1>1, <1>6
  DEF StartCriticalSection, StopCriticalSection, ArmRing, EnterPowerSave,
      LeavePowerSave, flow
<1>7. CASE UNCHANGED vars
  BY <1>1, <1>7 DEF vars, flow
<1>8. power_save_mode = 1 \/ critical_section_enabled => ~FlowControlled
  BY DEF FlowControlled
<1>9. QED
  BY <1>2, <1>3, <1>4, <1>5, <1>6, <1>7, <1>8
  DEF Next, Receiving, ModeChange, Resumes

(* Nothing that reads or receives a byte lets the modem send again in      *)
(* power save or in a critical section, the write that rtsUpdate() makes   *)
(* late included.                                                          *)
THEOREM SuspensionHoldsTheorem == Spec => SuspensionHolds
<1>1. TypeInvariant /\ ReadingInvariant /\ [Next]_vars => [Resumes]_vars
  BY ResumesStep
<1>2. Spec => [][Resumes]_vars
  BY <1>1, InitTypeInvariant, NextTypeInvariant, ReadingCorrect, PTL DEF Spec
<1>3. QED
  BY <1>2 DEF Resumes, SuspensionHolds
-----------------------------------------------------------------------------
(* The ring as a FIFO.  The k-th unread byte is in the cell k behind the   *)
(* tail, around the end of the array perhaps; two bytes have the same cell *)
(* when they are a multiple of the size of the ring apart.                 *)
Cell(tail, k) == (tail + k) % RX_BUFFER_SIZE

LEMMA ModuloUnique ==
  ASSUME NEW n \in Nat \ {0}, NEW q \in Nat, NEW r \in 0 .. n - 1
  PROVE  (n * q + r) % n = r
<1>1. n * q + r \in Nat
  <2>1. n * q \in Nat
    OBVIOUS
  <2>2. QED
    BY <2>1
<1>2. QED
  BY <1>1

LEMMA ModuloSame ==
  ASSUME NEW n \in Nat \ {0}, NEW a \in Nat, NEW d \in Nat
  PROVE  (a + d) % n = a % n <=> d % n = 0
<1>1. PICK x \in Nat, r \in 0 .. n - 1 : a = n * x + r
  <2>1. /\ a \div n \in Nat /\ a % n \in 0 .. n - 1
        /\ a = n * (a \div n) + (a % n)
    OBVIOUS
  <2>2. QED
    BY <2>1
<1>2. PICK y \in Nat, s \in 0 .. n - 1 : d = n * y + s
  <2>1. /\ d \div n \in Nat /\ d % n \in 0 .. n - 1
        /\ d = n * (d \div n) + (d % n)
    OBVIOUS
  <2>2. QED
    BY <2>1
<1>3. a % n = r /\ d % n = s
  BY <1>1, <1>2, ModuloUnique
<1>4. \A u, v, w \in Int : /\ u * (v + w) = u * v + u * w
                          /\ u * (v + 1) = u * v + u
  OBVIOUS
<1>5. (a + d) % n = IF r + s < n THEN r + s ELSE r + s - n
  <2>1. CASE r + s < n
    <3>1. a + d = n * (x + y) + (r + s)
      BY <1>1, <1>2, <1>4
    <3>2. x + y \in Nat /\ r + s \in 0 .. n - 1
      BY <2>1
    <3>3. (n * (x + y) + (r + s)) % n = r + s
      BY <3>2, ModuloUnique
    <3>4. QED
      BY <2>1, <3>1, <3>3
  <2>2. CASE ~(r + s < n)
    <3>1. a + d = n * (x + y + 1) + (r + s - n)
      BY <1>1, <1>2, <1>4
    <3>2. x + y + 1 \in Nat /\ r + s - n \in 0 .. n - 1
      BY <2>2
    <3>3. (n * (x + y + 1) + (r + s - n)) % n = r + s - n
      BY <3>2, ModuloUnique
    <3>4. QED
      BY <2>2, <3>1, <3>3
  <2>3. QED
    BY <2>1, <2>2
<1>6. QED
  BY <1>3, <1>5

LEMMA CellProperties ==
  ASSUME NEW tail \in Index
  PROVE  /\ Cell(tail, 0) = tail
         /\ \A k \in Nat : Cell(tail, k) \in Index
         /\ \A k, m \in Nat :
              k <= m => (Cell(tail, k) = Cell(tail, m)
                           <=> (m - k) % RX_BUFFER_SIZE = 0)
         /\ Cell(tail, 1) = Successor(tail)
         /\ \A k \in Nat : Cell(Successor(tail), k) = Cell(tail, k + 1)
<1> USE RingAssumption
<1> DEFINE S == RX_BUFFER_SIZE
<1>1. S \in Nat \ {0} /\ tail \in Nat /\ tail < S
  BY DEF Index
<1> HIDE DEF S
<1>2. Cell(tail, 0) = tail
  <2>1. (S * 0 + tail) % S = tail
    BY <1>1, ModuloUnique
  <2>2. S * 0 + tail = tail /\ tail + 0 = tail
    BY <1>1
  <2>3. QED
    BY <2>1, <2>2, Zenon DEF Cell, S
<1>3. ASSUME NEW k \in Nat PROVE Cell(tail, k) \in Index
  <2>1. tail + k \in Nat
    BY <1>1
  <2>2. (tail + k) % S \in 0 .. S - 1
    BY <1>1, <2>1
  <2>3. QED
    BY <2>2 DEF Cell, Index, S
<1>4. ASSUME NEW k \in Nat, NEW m \in Nat, k <= m
      PROVE  Cell(tail, k) = Cell(tail, m) <=> (m - k) % S = 0
  <2>1. tail + k \in Nat /\ m - k \in Nat /\ tail + m = (tail + k) + (m - k)
    BY <1>1, <1>4
  <2>2. ((tail + k) + (m - k)) % S = (tail + k) % S <=> (m - k) % S = 0
    BY <1>1, <2>1, ModuloSame
  <2>3. Cell(tail, k) = (tail + k) % S /\ Cell(tail, m) = (tail + m) % S
    BY Zenon DEF Cell, S
  <2>4. QED
    BY <2>1, <2>2, <2>3, Zenon
<1>5. ASSUME NEW k \in Nat
      PROVE  /\ Successor(tail) = Cell(tail, 1)
             /\ Cell(Successor(tail), k) = Cell(tail, k + 1)
  <2>1. CASE tail + 1 = S
    <3>1. Successor(tail) = 0
      BY <2>1 DEF Successor, S
    <3>2. (S * 1 + 0) % S = 0
      BY <1>1, ModuloUnique
    <3>3. S * 1 + 0 = tail + 1 /\ S % S = 0
      BY <1>1, <2>1, <3>2
    <3>4. Cell(tail, 1) = 0
      BY <3>2, <3>3, Zenon DEF Cell, S
    <3>5. (k + S) % S = k % S
      BY <1>1, <3>3, ModuloSame
    <3>6. tail + (k + 1) = k + S /\ 0 + k = k
      BY <1>1, <2>1
    <3>7. QED
      BY <3>1, <3>4, <3>5, <3>6, Zenon DEF Cell, S
  <2>2. CASE tail + 1 # S
    <3>1. Successor(tail) = tail + 1
      BY <2>2 DEF Successor, S
    <3>2. (S * 0 + (tail + 1)) % S = tail + 1
      <4>1. tail + 1 \in 0 .. S - 1
        BY <1>1, <2>2
      <4>2. QED
        BY <1>1, <4>1, ModuloUnique
    <3>3. S * 0 + (tail + 1) = tail + 1
      BY <1>1
    <3>4. tail + (k + 1) = (tail + 1) + k
      BY <1>1
    <3>5. QED
      BY <3>1, <3>2, <3>3, <3>4, Zenon DEF Cell, S
  <2>3. QED
    BY <2>1, <2>2
<1>6. QED
  BY <1>2, <1>3, <1>4, <1>5, Zenon DEF S

LEMMA FunctionIsSequence ==
  ASSUME NEW S, NEW n \in Nat, NEW f \in [1 .. n -> S]
  PROVE  f \in Seq(S) /\ Len(f) = n
<1>1. f \in Seq(S)
  BY SeqDef
<1>2. Len(f) \in Nat /\ 1 .. Len(f) = 1 .. n
  BY <1>1, LenProperties
<1>3. QED
  BY <1>1, <1>2

(* The unread bytes are a sequence of that many bytes.                     *)
LEMMA UnreadProperties ==
  ASSUME TypeInvariant
  PROVE  /\ Unread \in Seq(Byte) /\ Len(Unread) = rx_num_elements
         /\ \A k \in 1 .. rx_num_elements :
              Unread[k] = rx_buffer[Cell(rx_tail_index, k)]
<1>1. /\ rx_tail_index \in Index /\ rx_buffer \in [Index -> Byte]
      /\ rx_num_elements \in Nat
  BY DEF TypeInvariant, TypeOK
<1>2. Unread = [k \in 1 .. rx_num_elements |->
                  rx_buffer[Cell(rx_tail_index, k)]]
  BY Zenon DEF Unread, Cell
<1>3. \A k \in 1 .. rx_num_elements : Cell(rx_tail_index, k) \in Index
  <2>1. \A k \in 1 .. rx_num_elements : k \in Nat
    BY <1>1
  <2>2. QED
    BY <1>1, <2>1, CellProperties
<1>4. Unread \in [1 .. rx_num_elements -> Byte]
  BY <1>1, <1>2, <1>3
<1>5. QED
  BY <1>1, <1>2, <1>4, FunctionIsSequence

(* The interrupt stores a byte in the cell behind the newest.              *)
LEMMA StoredCell ==
  ASSUME TypeInvariant, Congruent
  PROVE  Successor(rx_head_index) = Cell(rx_tail_index, rx_num_elements + 1)
<1> USE RingAssumption
<1> DEFINE S == RX_BUFFER_SIZE
<1>1. PICK q \in Int : rx_tail_index + rx_num_elements = rx_head_index + q * S
  BY DEF Congruent
<1>2. /\ rx_head_index \in Nat /\ rx_head_index < S /\ rx_tail_index \in Nat
      /\ rx_num_elements \in Nat /\ S \in Nat \ {0}
      /\ rx_head_index \in Index
  BY DEF TypeInvariant, TypeOK, Index
<1>3. q \in Nat
  BY <1>1, <1>2
<1>4. rx_tail_index + (rx_num_elements + 1) = S * q + (rx_head_index + 1)
  BY <1>1, <1>2
<1>5. \A u, v \in Int : u * (v + 1) = u * v + u
  OBVIOUS
<1>6. CASE rx_head_index + 1 = S
  <2>1. (S * (q + 1) + 0) % S = 0
    <3>1. q + 1 \in Nat /\ 0 \in 0 .. S - 1
      BY <1>2, <1>3
    <3> HIDE DEF S
    <3>2. QED
      BY <1>2, <3>1, ModuloUnique
  <2>2. S * (q + 1) + 0 = rx_tail_index + (rx_num_elements + 1)
    BY <1>2, <1>3, <1>4, <1>5, <1>6
  <2>3. Successor(rx_head_index) = 0
    BY <1>6 DEF Successor
  <2>4. QED
    BY <2>1, <2>2, <2>3, Zenon DEF Cell
<1>7. CASE rx_head_index + 1 # S
  <2>1. (S * q + (rx_head_index + 1)) % S = rx_head_index + 1
    <3>1. rx_head_index + 1 \in 0 .. S - 1
      BY <1>2, <1>7
    <3> HIDE DEF S
    <3>2. QED
      BY <1>2, <1>3, <3>1, ModuloUnique
  <2>2. Successor(rx_head_index) = rx_head_index + 1
    BY <1>7 DEF Successor
  <2>3. QED
    BY <1>4, <2>1, <2>2, Zenon DEF Cell
<1>8. QED
  BY <1>6, <1>7

(* Storing a byte and taking bytes back is what the FIFO calls Receive:    *)
(* in a full ring too, where the byte that had the cell is lost.           *)
LEMMA ReceivesInOrder ==
  ASSUME FlowTypes, Aligned, NEW b \in Byte, ReceiveByte(b), ~miscounted'
  PROVE  Queue!Receive
<1> DEFINE stored == Successor(rx_head_index)
           num == rx_num_elements
           tail == rx_tail_index
<1>1. /\ rx_buffer' = [rx_buffer EXCEPT ![stored] = b]
      /\ UNCHANGED <<rx_tail_index, pc, reading>>
  BY DEF ReceiveByte
<1>2. /\ tail \in Index /\ rx_buffer \in [Index -> Byte]
      /\ num \in Nat /\ TypeInvariant /\ TypeInvariant'
      /\ rx_head_index \in Index
  BY ReceiveByteTypeInvariant DEF FlowTypes, TypeInvariant, TypeOK
<1>3. ~miscounted /\ num' \in 0 .. num + 1
  BY <1>2, ReceivedIs
<1>4. stored = Cell(tail, num + 1) /\ stored \in Index
  BY <1>2, <1>3, StoredCell, IndexArithmetic DEF Aligned
<1>5. /\ Unread \in Seq(Byte) /\ Len(Unread) = num
      /\ \A k \in 1 .. num : Unread[k] = rx_buffer[Cell(tail, k)]
  BY <1>2, UnreadProperties
<1>6. \A k \in Nat : k <= num + 1 =>
        (Cell(tail, k) = stored <=> Queue!SharesPlace(k))
  <2>1. ASSUME NEW k \in Nat, k <= num + 1
        PROVE  Cell(tail, k) = stored <=> Queue!SharesPlace(k)
    <3>1. num + 1 \in Nat
      BY <1>2
    <3>2. Cell(tail, k) = Cell(tail, num + 1)
            <=> (num + 1 - k) % RX_BUFFER_SIZE = 0
      BY <1>2, <2>1, <3>1, CellProperties
    <3>3. Queue!SharesPlace(k) <=> (num + 1 - k) % RX_BUFFER_SIZE = 0
      BY <1>5, Zenon DEF Queue!SharesPlace
    <3>4. QED
      BY <1>4, <3>2, <3>3, Zenon
  <2>2. QED
    BY <2>1
<1> HIDE DEF stored
<1>7. \A i \in Index : rx_buffer'[i] = IF i = stored THEN b ELSE rx_buffer[i]
  BY <1>1, <1>2, <1>4
<1>8. Unread' = [k \in 1 .. num' |->
                   IF Queue!SharesPlace(k) THEN b ELSE Unread[k]]
  <2>1. Unread' = [k \in 1 .. num' |-> rx_buffer'[Cell(tail, k)]]
    <3>1. Unread' = [k \in 1 .. rx_num_elements' |->
                       rx_buffer'[Cell(rx_tail_index', k)]]
      BY Zenon DEF Unread, Cell
    <3>2. QED
      BY <1>1, <3>1
  <2>2. ASSUME NEW k \in 1 .. num'
        PROVE  rx_buffer'[Cell(tail, k)]
                 = IF Queue!SharesPlace(k) THEN b ELSE Unread[k]
    <3>1. k \in Nat /\ k <= num + 1 /\ (k \in 1 .. num \/ k = num + 1)
      BY <1>2, <1>3
    <3>2. Cell(tail, k) \in Index
      BY <1>2, <3>1, CellProperties
    <3>3. Cell(tail, k) = stored <=> Queue!SharesPlace(k)
      BY <1>6, <3>1, Zenon
    <3>4. k = num + 1 => Cell(tail, k) = stored
      BY <1>4, Zenon
    <3>5. k \in 1 .. num => Unread[k] = rx_buffer[Cell(tail, k)]
      BY <1>5, Zenon
    <3>6. QED
      BY <1>7, <3>1, <3>2, <3>3, <3>4, <3>5, Zenon
  <2>3. QED
    BY <2>1, <2>2, Zenon
<1>9. Promised' = IF Promised # NULL /\ Queue!SharesPlace(0) THEN b
                  ELSE Promised
  <2>1. Cell(tail, 0) = tail
    BY <1>2, CellProperties
  <2>2. tail = stored <=> Queue!SharesPlace(0)
    <3>1. 0 \in Nat /\ 0 <= num + 1
      BY <1>2
    <3>2. QED
      BY <1>6, <2>1, <3>1, Zenon
  <2>3. CASE reading /\ pc # "take"
    <3>1. /\ Promised = rx_buffer[tail] /\ Promised' = rx_buffer'[tail]
      BY <1>1, <2>3 DEF Promised
    <3>2. Promised # NULL
      BY <1>2, <3>1, NullAssumption
    <3>3. QED
      BY <1>2, <1>7, <2>2, <3>1, <3>2, Zenon
  <2>4. CASE ~(reading /\ pc # "take")
    BY <1>1, <2>4 DEF Promised
  <2>5. QED
    BY <2>3, <2>4
<1>10. num' \in 0 .. Len(Unread) + 1
  BY <1>3, <1>5, Zenon
<1>11. QED
  BY <1>8, <1>9, <1>10, Zenon DEF Queue!Receive

(* readByte() takes the oldest byte.                                       *)
LEMMA TakesInOrder ==
  ASSUME FlowTypes, ReadingInvariant, TakeByte, ~miscounted
  PROVE  Queue!Take
<1> DEFINE num == rx_num_elements
           tail == rx_tail_index
<1>1. /\ tail \in Index /\ num \in Nat /\ rx_buffer \in [Index -> Byte]
      /\ TypeInvariant
  BY DEF FlowTypes, TypeInvariant, TypeOK
<1>2. num > 0
  BY DEF FlowTypes, FlowInvariant, TakeByte
<1>3. /\ rx_tail_index' = Successor(tail)
      /\ rx_num_elements' = num - 1
      /\ rx_buffer' = rx_buffer
      /\ pc = "take" /\ pc' = "update" /\ reading /\ reading'
  BY <1>1, <1>2 DEF TakeByte, Decrement, ReadingInvariant
<1>4. /\ Unread \in Seq(Byte) /\ Len(Unread) = num
      /\ \A k \in 1 .. num : Unread[k] = rx_buffer[Cell(tail, k)]
  BY <1>1, UnreadProperties
<1>5. TypeInvariant'
  BY <1>1, NextTypeInvariant DEF Next, Receiving
<1>6. /\ Unread' \in Seq(Byte) /\ Len(Unread') = num - 1
      /\ \A k \in 1 .. num - 1 :
           Unread'[k] = rx_buffer[Cell(Successor(tail), k)]
  <2>1. /\ Unread' \in Seq(Byte) /\ Len(Unread') = rx_num_elements'
        /\ \A k \in 1 .. rx_num_elements' :
             Unread'[k] = rx_buffer'[Cell(rx_tail_index', k)]
    <3>1. /\ rx_tail_index' \in Index /\ rx_buffer' \in [Index -> Byte]
          /\ rx_num_elements' \in Nat
      BY <1>5 DEF TypeInvariant, TypeOK
    <3>2. Unread' = [k \in 1 .. rx_num_elements' |->
                       rx_buffer'[Cell(rx_tail_index', k)]]
      BY Zenon DEF Unread, Cell
    <3>3. \A k \in 1 .. rx_num_elements' : Cell(rx_tail_index', k) \in Index
      <4>1. \A k \in 1 .. rx_num_elements' : k \in Nat
        BY <3>1
      <4>2. QED
        BY <3>1, <4>1, CellProperties
    <3>4. Unread' \in [1 .. rx_num_elements' -> Byte]
      BY <3>1, <3>2, <3>3
    <3>5. QED
      BY <3>1, <3>2, <3>4, FunctionIsSequence
  <2>2. QED
    BY <1>3, <2>1, Zenon
<1>7. Unread # <<>>
  BY <1>2, <1>4, EmptySeq
<1>8. /\ Tail(Unread) \in Seq(Byte) /\ Len(Tail(Unread)) = num - 1
      /\ \A k \in 1 .. num - 1 : Tail(Unread)[k] = Unread[k + 1]
  BY <1>4, <1>7, HeadTailProperties
<1>9. ASSUME NEW k \in 1 .. num - 1
      PROVE  Unread'[k] = Tail(Unread)[k]
  <2>1. k \in Nat /\ k + 1 \in 1 .. num
    BY <1>1
  <2>2. Cell(Successor(tail), k) = Cell(tail, k + 1)
    BY <1>1, <2>1, CellProperties
  <2>3. QED
    BY <1>4, <1>6, <1>8, <2>1, <2>2, Zenon
<1>10. Unread' = Tail(Unread)
  BY <1>6, <1>8, <1>9, SeqEqual
<1>11. Promised = NULL
  BY <1>3 DEF Promised
<1>12. Promised' = Head(Unread)
  <2>1. Promised' = rx_buffer[Cell(tail, 1)]
    <3>1. Successor(tail) = Cell(tail, 1)
      BY <1>1, CellProperties
    <3>2. QED
      BY <1>3, <3>1 DEF Promised
  <2>2. Head(Unread) = Unread[1] /\ 1 \in 1 .. num
    BY <1>1, <1>2, <1>4, <1>7
  <2>3. QED
    BY <1>4, <2>1, <2>2, Zenon
<1>13. QED
  BY <1>7, <1>10, <1>11, <1>12 DEF Queue!Take

LEMMA RefinementStep ==
  ASSUME FlowTypes, Aligned, ReadingInvariant, [Next]_vars
  PROVE  [miscounted' \/ Queue!Next]_<<Unread, Promised>>
<1>1. rx_tail_index \in Index /\ rx_buffer \in [Index -> Byte]
  BY DEF FlowTypes, TypeInvariant, TypeOK
<1>2. ASSUME UNCHANGED ring
      PROVE  Unread' = Unread
  BY <1>2 DEF ring, Unread
<1>3. ASSUME NEW b \in Byte, ReceiveByte(b)
      PROVE  miscounted' \/ Queue!Next
  BY <1>3, ReceivesInOrder DEF Queue!Next
<1>4. CASE CheckRxReady
  <2>1. Unread' = Unread
    BY <1>2, <1>4 DEF CheckRxReady
  <2>2. Promised' = Promised
    BY <1>4 DEF CheckRxReady, Promised, ReadingInvariant
  <2>3. QED
    BY <2>1, <2>2
<1>5. CASE TakeByte
  BY <1>5, TakesInOrder DEF TakeByte, Queue!Next
<1>6. CASE ReturnByte
  <2>1. Unread' = Unread
    BY <1>2, <1>6 DEF ReturnByte
  <2>2. Promised = rx_buffer[rx_tail_index] /\ Promised' = NULL
    BY <1>6 DEF ReturnByte, Promised, ReadingInvariant
  <2>3. Promised # NULL
    BY <1>1, <2>2, NullAssumption
  <2>4. QED
    BY <2>1, <2>2, <2>3 DEF Queue!Next, Queue!Return
<1>7. CASE ClearReceiveBuffer
  <2>1. rx_num_elements' = 0
    BY <1>7 DEF ClearReceiveBuffer
  <2>2. Unread' = <<>>
    BY <2>1 DEF Unread
  <2>3. Promised = NULL /\ Promised' = NULL
    BY <1>7 DEF ClearReceiveBuffer, Promised, ReadingInvariant
  <2>4. QED
    BY <2>2, <2>3 DEF Queue!Next, Queue!Clear
<1>8. CASE DecideRts \/ WriteRts
  <2>1. Unread' = Unread
    BY <1>2, <1>8 DEF DecideRts, WriteRts
  <2>2. pc # "take" /\ pc' # "take"
    BY <1>8 DEF DecideRts, WriteRts, AfterUpdate
  <2>3. Promised' = Promised
    BY <1>8, <2>2 DEF DecideRts, WriteRts, Promised, ring
  <2>4. QED
    BY <2>1, <2>3
<1>9. CASE ModeChange
  <2>1. Unread' = Unread
    BY <1>2, <1>9
    DEF ModeChange, StartCriticalSection, StopCriticalSection, ArmRing,
        EnterPowerSave, LeavePowerSave, RingInterrupt, LeaveByRing
  <2>2. CASE RingInterrupt
    <3>1. Promised' = Promised
      BY <2>2 DEF RingInterrupt, LeaveByRing, Promised, ring
    <3>2. QED
      BY <2>1, <3>1
  <2>3. CASE ~RingInterrupt
    <3>1. pc \in {"idle", "armed"} /\ reading' = reading
      BY <1>9, <2>3
      DEF ModeChange, StartCriticalSection, StopCriticalSection, ArmRing,
          EnterPowerSave, LeavePowerSave
    <3>2. Promised = NULL /\ Promised' = NULL
      BY <3>1 DEF ReadingInvariant, Promised
    <3>3. QED
      BY <2>1, <3>2
  <2>4. QED
    BY <2>2, <2>3
<1>10. CASE UNCHANGED vars
  <2>1. Unread' = Unread
    BY <1>2, <1>10 DEF vars
  <2>2. Promised' = Promised
    BY <1>10 DEF vars, Promised, ring
  <2>3. QED
    BY <2>1, <2>2
<1>11. QED
  BY <1>3, <1>4, <1>5, <1>6, <1>7, <1>8, <1>9, <1>10 DEF Next, Receiving

(* The ring implements a FIFO of bytes: readByte() returns them in the     *)
(* order they came, each once, none missing but those the URC handling     *)
(* took back at the newest end and those overwritten in a full ring,       *)
(* however interrupts and changes of mode fall in its steps, for every     *)
(* size of the ring and every overshoot.                                   *)
THEOREM ReadsInOrderTheorem == Spec => ReadsInOrder
<1>1. Init => Queue!Init
  <2>1. SUFFICES ASSUME Init PROVE Queue!Init
    OBVIOUS
  <2>2. Unread = <<>>
    BY <2>1 DEF Init, Unread
  <2>3. Promised = NULL
    BY <2>1 DEF Init, Promised
  <2>4. QED
    BY <2>2, <2>3 DEF Queue!Init
<1>2. FlowTypes /\ Aligned /\ ReadingInvariant /\ [Next]_vars
        => [miscounted' \/ Queue!Next]_<<Unread, Promised>>
  BY RefinementStep
<1>3. QED
  BY <1>1, <1>2, FlowCorrect, AlignedCorrect, ReadingCorrect, PTL
  DEF Spec, ReadsInOrder
-----------------------------------------------------------------------------
(* Where powerSave() is when it watches RING, and when it may sleep.       *)
Watching == {"armed", "delay", "look", "quiet", "test", "falling", "asleep",
             "woken"}
Outside == {"idle", "down", "dozing", "dozed", "up"}

(* The main program of the receive path runs only what powerSave() calls:  *)
(* it never reads, and it is within setPowerSaveMode(1) only just after    *)
(* the call, with the steps behind the watch waiting for it to return.     *)
CallsReturn ==
  /\ ~reading
  /\ pc = "armed" => save = "armed"
  /\ save = "armed" => pc \in {"armed", "deassert", "idle"}
  /\ save \in Watching \ {"armed"} => pc = "idle"

(* While RING is watched its interrupt is attached, the mode is set and    *)
(* RTS is HIGH: unless RING rang, or a URC was called back.                *)
Guarded ==
  save \in Watching =>
    \/ abrupted
    \/ /\ ring_line_callback
       /\ pc # "armed" => power_save_mode = 1
       /\ pc = "idle" => called \/ rts = "HIGH"

(* The modem is believed to be in power save only from the end of the      *)
(* watch on, and is known to be there when the CPU is about to sleep.      *)
Belief ==
  /\ modem_is_in_power_save \in BOOLEAN
  /\ modem_is_in_power_save => save \in {"test", "falling", "asleep", "woken"}
  /\ save \in {"falling", "asleep"} => abrupted \/ modem_is_in_power_save

(* Every tick seen is counted, or pending in pit_triggered.                *)
TicksCounted ==
  /\ remaining_time_seconds \in 0 .. MaxSeconds
  /\ ticks \in 0 .. MaxSeconds
  /\ pit_triggered \in BOOLEAN
  /\ save \in {"dozing", "dozed"} => remaining_time_seconds > 0
  /\ ticks # 0 => ticks <= remaining_time_seconds
  /\ ticks # 0 /\ pit_triggered => ticks < remaining_time_seconds

PowerInvariant ==
  /\ abrupted \in BOOLEAN /\ called \in BOOLEAN
  /\ CallsReturn /\ Guarded /\ Belief /\ LeavesPowerSave

(* The types of the rest.                                                  *)
RestTypeOK ==
  /\ save \in Point
  /\ ring_line_activity \in BOOLEAN
  /\ retrieved_period \in BOOLEAN
  /\ ring_pin \in {"LOW", "HIGH"}
  /\ millis \in Time /\ timeout_timer \in Time /\ last_time_active \in Time

PowerIInv == PowerInvariant /\ TicksCounted /\ RestTypeOK

LEMMA PowerInitInvariant == PowerInit => PowerIInv
<1>1. SUFFICES ASSUME PowerInit
               PROVE  PowerIInv
  OBVIOUS
<1> USE DEF PowerInit
<1>2. PowerInvariant
  BY <1>1
  DEF Init, PowerInvariant, CallsReturn, Guarded, Belief, LeavesPowerSave,
      Watching
<1>3. TicksCounted
  <2>1. 0 \in 0 .. MaxSeconds
    BY PowerAssumption
  <2>2. QED
    BY <1>1, <2>1 DEF TicksCounted
<1>4. RestTypeOK
  BY <1>1, PowerAssumption DEF RestTypeOK, Point
<1>5. QED
  BY <1>2, <1>3, <1>4 DEF PowerIInv

(* A byte received in power save: RTS goes LOW only behind a callback.     *)
LEMMA ReceiveInPowerSave ==
  ASSUME PowerInvariant, Receive
  PROVE  PowerInvariant'
<1>1. PICK b \in Byte : /\ ReceiveByte(b)
                        /\ called' = (called \/ Called(b) # NULL)
  BY DEF Receive
<1>2. /\ UNCHANGED <<critical_section_enabled, power_save_mode,
                     ring_line_callback, pc, reading>>
      /\ ~FlowControlled /\ Called(b) = NULL => rts' = rts
  BY <1>1 DEF ReceiveByte, modes
<1>3. UNCHANGED <<save, modem_is_in_power_save, abrupted>>
  BY DEF Receive, ringing
<1>4. Guarded'
  <2>1. (called => called') /\ (Called(b) # NULL => called')
    BY <1>1
  <2>2. power_save_mode = 1 => (rts = "HIGH" => called' \/ rts' = "HIGH")
    BY <1>2, <2>1 DEF FlowControlled
  <2>3. QED
    BY <1>2, <1>3, <2>1, <2>2, Zenon DEF PowerInvariant, Guarded
<1>5. CallsReturn' /\ Belief' /\ LeavesPowerSave'
  BY <1>2, <1>3
  DEF PowerInvariant, CallsReturn, Belief, LeavesPowerSave, Watching
<1>6. QED
  BY <1>1, <1>3, <1>4, <1>5 DEF PowerInvariant

(* RING: out of power save when the modem was believed to be there, which  *)
(* is remembered.                                                          *)
LEMMA RingInPowerSave ==
  ASSUME PowerInvariant, RingEdge
  PROVE  PowerInvariant'
<1>1. UNCHANGED called /\ ~Off
  BY DEF RingEdge
<1>2. save' = IF Asleep /\ ring_line_callback THEN "woken" ELSE save
  BY DEF RingEdge
<1>3. CASE UNCHANGED <<vars, modem_is_in_power_save, abrupted>>
  BY <1>1, <1>2, <1>3
  DEF PowerInvariant, CallsReturn, Guarded, Belief, LeavesPowerSave, Watching,
      Asleep, vars, flow, modes
<1>4. CASE ring_line_callback /\ RingCallback
  <2>1. CASE modem_is_in_power_save
    BY <1>1, <1>2, <1>4, <2>1
    DEF RingCallback, LeaveByRing, PowerInvariant, CallsReturn, Guarded,
        Belief, LeavesPowerSave, Watching, Asleep
  <2>2. CASE ~modem_is_in_power_save
    <3>1. UNCHANGED <<vars, abrupted>> /\ modem_is_in_power_save' = FALSE
      BY <1>4, <2>2 DEF RingCallback, PowerInvariant
    <3>2. QED
      BY <1>1, <1>2, <2>2, <3>1
      DEF PowerInvariant, CallsReturn, Guarded, Belief, LeavesPowerSave,
          Watching, Asleep, vars, flow, modes
  <2>3. QED
    BY <2>1, <2>2
<1>5. QED
  BY <1>3, <1>4 DEF RingEdge

LEMMA PowerStepInvariant ==
  ASSUME PowerInvariant, [PowerNext]_powerVars
  PROVE  PowerInvariant'
<1> USE DEF PowerInvariant, CallsReturn, Guarded, Belief, LeavesPowerSave,
            Watching, Goto, vars, modes, ring, flow, ringing, seen
<1>1. CASE Receive
  BY <1>1, ReceiveInPowerSave
<1>2. CASE RingEdge
  BY <1>2, RingInPowerSave
<1>3. CASE ReceivePathStep
  <2>1. UNCHANGED power /\ pc # "idle"
    BY <1>3 DEF ReceivePathStep
  <2>2. CASE EnterPowerSave
    BY <2>1, <2>2 DEF EnterPowerSave, power
  <2>3. CASE DecideRts
    BY <2>1, <2>3 DEF DecideRts, AfterUpdate, power
  <2>4. CASE WriteRts
    BY <2>1, <2>4 DEF WriteRts, SetRts, AfterUpdate, power
  <2>5. QED
    BY <1>3, <2>2, <2>3, <2>4 DEF ReceivePathStep
<1>4. CASE ConfigurePeriodicPowerSave
  BY <1>4 DEF ConfigurePeriodicPowerSave
<1>5. CASE PowerSave
  <2>1. /\ save = "idle" /\ save' \in {"attempt", "idle"}
        /\ abrupted' = FALSE
        /\ UNCHANGED <<modes, reading, modem_is_in_power_save, called>>
        /\ pc = "idle" /\ pc' \in {"idle", "update"}
    BY <1>5 DEF PowerSave, ClearReceiveBuffer
  <2>2. QED
    BY <2>1
<1>6. CASE SuspendPowerSave
  BY <1>6 DEF SuspendPowerSave, LeavePowerSave
<1>7. CASE Drain
  BY <1>7 DEF Drain, ClearReceiveBuffer
<1>8. CASE Drained
  BY <1>8 DEF Drained
<1>9. CASE Arm
  BY <1>9 DEF Arm, ArmRing
<1>10. CASE StartWatch
  BY <1>10 DEF StartWatch
<1>11. CASE Delay
  BY <1>11 DEF Delay
<1>12. CASE Look
  BY <1>12 DEF Look
<1>13. CASE CompareTimes
  <2>1. CASE IsQuiet
    BY <1>13, <2>1 DEF CompareTimes
  <2>2. CASE ~IsQuiet
    <3>1. save = "quiet" /\ save' \in {"leave", "delay"}
      BY <1>13, <2>2 DEF CompareTimes
    <3>2. QED
      BY <1>13, <2>2, <3>1 DEF CompareTimes
  <2>3. QED
    BY <2>1, <2>2
<1>14. CASE TestPowerSave
  BY <1>14 DEF TestPowerSave
<1>15. CASE SleepCpu
  BY <1>15 DEF SleepCpu
<1>16. CASE WakeUp
  BY <1>16 DEF WakeUp
<1>17. CASE Leave
  BY <1>17 DEF Leave, LeavePowerSave
<1>18. CASE PowerDown
  BY <1>18 DEF PowerDown, ClearReceiveBuffer
<1>19. CASE Doze
  BY <1>19 DEF Doze
<1>20. CASE CountSecond
  BY <1>20 DEF CountSecond
<1>21. CASE PowerUp
  BY <1>21 DEF PowerUp
<1>22. CASE ExternalWake
  BY <1>22 DEF ExternalWake, Asleep
<1>23. CASE PitInterrupt
  BY <1>23 DEF PitInterrupt, Off
<1>24. CASE UNCHANGED powerVars
  BY <1>24 DEF powerVars, power
<1>25. QED
  BY <1>1, <1>2, <1>3, <1>4, <1>5, <1>6, <1>7, <1>8, <1>9, <1>10, <1>11,
     <1>12, <1>13, <1>14, <1>15, <1>16, <1>17, <1>18, <1>19, <1>20, <1>21,
     <1>22, <1>23, <1>24
  DEF PowerNext, Main
-----------------------------------------------------------------------------
(* The seconds of powerDown(): only the interrupt lets one pass, and only  *)
(* a pending one is counted.                                               *)
LEMMA TickStepInvariant ==
  ASSUME TicksCounted, [PowerNext]_powerVars
  PROVE  TicksCounted'
<1> USE PowerAssumption DEF TicksCounted, Goto, pit
<1>1. CASE UNCHANGED <<pit, save>>
  BY <1>1
<1>2. CASE \/ ReceivePathStep \/ Receive \/ UNCHANGED powerVars
           \/ ConfigurePeriodicPowerSave
  BY <1>1, <1>2
  DEF ReceivePathStep, Receive, ConfigurePeriodicPowerSave, powerVars, power
<1>3. ASSUME UNCHANGED pit, save' \notin {"dozing", "dozed"}
      PROVE  TicksCounted'
  BY <1>3
<1>4. CASE PowerSave
  <2>1. UNCHANGED pit /\ save' \in {"attempt", "idle"}
    BY <1>4 DEF PowerSave
  <2>2. QED
    BY <1>3, <2>1
<1>5. CASE SuspendPowerSave \/ Drain \/ Arm \/ StartWatch \/ Delay \/ Look
  BY <1>3, <1>5 DEF SuspendPowerSave, Drain, Arm, StartWatch, Delay, Look
<1>6. CASE Drained \/ TestPowerSave \/ SleepCpu \/ WakeUp \/ Leave
  BY <1>3, <1>6 DEF Drained, TestPowerSave, SleepCpu, WakeUp, Leave
<1>7. CASE CompareTimes
  <2>1. UNCHANGED pit /\ save' \in {"test", "leave", "delay"}
    <3>1. CASE IsQuiet
      BY <1>7, <3>1 DEF CompareTimes
    <3>2. CASE ~IsQuiet
      BY <1>7, <3>2 DEF CompareTimes
    <3>3. QED
      BY <3>1, <3>2
  <2>2. QED
    BY <1>3, <2>1
<1>8. CASE RingEdge
  <2>1. UNCHANGED pit /\ (save' = save \/ save' = "woken")
    BY <1>8 DEF RingEdge
  <2>2. QED
    BY <1>1, <1>3, <2>1
<1>9. CASE ExternalWake
  BY <1>9 DEF ExternalWake, Asleep
<1>10. CASE PowerDown
  <2>1. PICK seconds \in 0 .. MaxSeconds :
          remaining_time_seconds' = seconds /\ ticks' = seconds
    BY <1>10 DEF PowerDown
  <2>2. save' = "down" /\ pit_triggered' = FALSE
    BY <1>10 DEF PowerDown
  <2>3. /\ remaining_time_seconds' \in 0 .. MaxSeconds
        /\ ticks' \in 0 .. MaxSeconds
        /\ ticks' <= remaining_time_seconds'
    BY <2>1
  <2>4. QED
    BY <2>2, <2>3
<1>11. CASE PitInterrupt
  <2>1. /\ UNCHANGED remaining_time_seconds
        /\ ticks' = IF ticks = 0 THEN 0 ELSE ticks - 1
        /\ pit_triggered' \in BOOLEAN
        /\ save' \in {"dozing", "dozed"} => save \in {"dozing", "dozed"}
    BY <1>11 DEF PitInterrupt, Off
  <2>2. /\ ticks' \in 0 .. MaxSeconds
        /\ ticks' # 0 => ticks' < remaining_time_seconds'
    BY <2>1
  <2>3. QED
    BY <2>1, <2>2
<1>12. CASE Doze
  BY <1>12 DEF Doze
<1>13. CASE CountSecond
  <2>1. CASE pit_triggered
    <3>1. /\ remaining_time_seconds' = remaining_time_seconds - 1
          /\ UNCHANGED ticks
          /\ pit_triggered' = FALSE
          /\ save = "dozed" /\ save' = "down"
      BY <1>13, <2>1 DEF CountSecond
    <3>2. /\ remaining_time_seconds' \in 0 .. MaxSeconds
          /\ ticks' # 0 => ticks' <= remaining_time_seconds'
      BY <2>1, <3>1
    <3>3. QED
      BY <3>1, <3>2
  <2>2. CASE ~pit_triggered
    BY <1>13, <2>2 DEF CountSecond
  <2>3. QED
    BY <2>1, <2>2
<1>14. CASE PowerUp
  BY <1>3, <1>14 DEF PowerUp
<1>15. QED
  BY <1>2, <1>4, <1>5, <1>6, <1>7, <1>8, <1>9, <1>10, <1>11, <1>12, <1>13,
     <1>14
  DEF PowerNext, Main

(* The other types.                                                        *)
LEMMA RestStepTypeOK ==
  ASSUME RestTypeOK, [PowerNext]_powerVars
  PROVE  RestTypeOK'
<1> USE DEF RestTypeOK, Point, Goto, ringing, clock
<1>1. \A t \in Time : Later(t) \in Time
  BY ClockAssumption DEF Time, Later
<1>2. CASE \/ ReceivePathStep \/ Receive \/ UNCHANGED powerVars
  BY <1>2 DEF ReceivePathStep, Receive, powerVars, power
<1>3. CASE ConfigurePeriodicPowerSave \/ SuspendPowerSave \/ Drain
  BY <1>3 DEF ConfigurePeriodicPowerSave, SuspendPowerSave, Drain
<1>4. CASE PowerSave
  BY <1>4 DEF PowerSave
<1>5. CASE Drained \/ TestPowerSave \/ Doze
  BY <1>5 DEF Drained, TestPowerSave, Doze
<1>6. CASE Arm \/ StartWatch \/ Look
  BY <1>6 DEF Arm, StartWatch, Look
<1>7. CASE Delay
  BY <1>1, <1>7 DEF Delay
<1>8. CASE CompareTimes
  <2>1. CASE IsQuiet
    BY <1>8, <2>1 DEF CompareTimes
  <2>2. CASE ~IsQuiet
    BY <1>8, <2>2 DEF CompareTimes
  <2>3. QED
    BY <2>1, <2>2
<1>9. CASE SleepCpu \/ WakeUp \/ Leave
  BY <1>9 DEF SleepCpu, WakeUp, Leave
<1>10. CASE PowerDown \/ PowerUp
  BY <1>10 DEF PowerDown, PowerUp
<1>11. CASE CountSecond
  BY <1>11 DEF CountSecond
<1>12. CASE RingEdge
  <2>1. /\ save' \in {save, "woken"}
        /\ ring_pin' \in {"LOW", "HIGH"}
        /\ UNCHANGED <<retrieved_period, clock>>
    BY <1>12 DEF RingEdge
  <2>2. ring_line_activity' \in BOOLEAN
    BY <1>12 DEF RingEdge, RingCallback
  <2>3. QED
    BY <2>1, <2>2
<1>13. CASE ExternalWake \/ PitInterrupt
  BY <1>13 DEF ExternalWake, PitInterrupt
<1>14. QED
  BY <1>2, <1>3, <1>4, <1>5, <1>6, <1>7, <1>8, <1>9, <1>10, <1>11, <1>12,
     <1>13
  DEF PowerNext, Main

LEMMA PowerCorrect == PowerSpec => []PowerIInv
<1>1. PowerIInv /\ [PowerNext]_powerVars => PowerIInv'
  BY PowerStepInvariant, TickStepInvariant, RestStepTypeOK DEF PowerIInv
<1>2. QED
  BY <1>1, PowerInitInvariant, PTL DEF PowerSpec
-----------------------------------------------------------------------------
(* Each step of power save and of its interrupts is a step of the receive  *)
(* path, or none of its.  The receive path relies on what powerSave() does *)
(* here: the RING callback changes the mode only when the modem is         *)
(* believed to be in power save, which is not so before setPowerSaveMode() *)
(* has returned.                                                           *)
LEMMA PowerStepImplements ==
  ASSUME PowerInvariant, [PowerNext]_powerVars
  PROVE  [Next]_vars
<1> USE DEF Next, Receiving, ModeChange
<1>1. CASE ReceivePathStep
  BY <1>1 DEF ReceivePathStep
<1>2. CASE ConfigurePeriodicPowerSave \/ Drained \/ StartWatch \/ Delay
  BY <1>2 DEF ConfigurePeriodicPowerSave, Drained, StartWatch, Delay
<1>3. CASE PowerSave
  BY <1>3 DEF PowerSave
<1>4. CASE SuspendPowerSave \/ Leave
  BY <1>4 DEF SuspendPowerSave, Leave
<1>5. CASE Drain \/ PowerDown
  BY <1>5 DEF Drain, PowerDown
<1>6. CASE Arm
  BY <1>6 DEF Arm
<1>7. CASE Look \/ CompareTimes \/ TestPowerSave \/ SleepCpu \/ WakeUp
  BY <1>7 DEF Look, CompareTimes, TestPowerSave, SleepCpu, WakeUp
<1>8. CASE Doze \/ CountSecond \/ PowerUp
  BY <1>8 DEF Doze, CountSecond, PowerUp
<1>9. CASE Receive
  BY <1>9 DEF Receive
<1>10. CASE RingEdge
  <2>1. CASE UNCHANGED vars
    BY <2>1
  <2>2. CASE ring_line_callback /\ LeaveByRing /\ modem_is_in_power_save
    <3>1. pc = "idle"
      BY <2>2 DEF PowerInvariant, Belief, CallsReturn, Watching
    <3>2. RingInterrupt
      BY <2>2, <3>1 DEF RingInterrupt, EnteringPowerSave
    <3>3. QED
      BY <3>2
  <2>3. QED
    BY <1>10, <2>1, <2>2 DEF RingEdge, RingCallback
<1>11. CASE ExternalWake \/ PitInterrupt
  BY <1>11 DEF ExternalWake, PitInterrupt
<1>12. CASE UNCHANGED powerVars
  BY <1>12 DEF powerVars
<1>13. QED
  BY <1>1, <1>2, <1>3, <1>4, <1>5, <1>6, <1>7, <1>8, <1>9, <1>10, <1>11,
     <1>12
  DEF PowerNext, Main

LEMMA PowerUsesRxPath == PowerSpec => Spec
<1>1. PowerInit => Init
  BY DEF PowerInit
<1>2. PowerIInv /\ [PowerNext]_powerVars => [Next]_vars
  BY PowerStepImplements DEF PowerIInv
<1>3. QED
  BY <1>1, <1>2, PowerCorrect, PTL DEF PowerSpec, Spec

(* What is proved of every use of the receive path holds under power save  *)
(* and power down: its types, its parser and how far the ring fills ...    *)
THEOREM ReceivePathSafeInPowerSave ==
  PowerSpec => [](TypeOK /\ MatchedSlotInUse /\ FillBounded)
<1>1. Spec => [](TypeOK /\ MatchedSlotInUse /\ FillBounded)
  BY TypeCorrect, MatchedSlotCorrect, FillBoundedTheorem, PTL
<1>2. QED
  BY <1>1, PowerUsesRxPath, PTL

(* ... and that powerSave(), whichever way it is left and wherever RING    *)
(* comes in it, does not leave RTS HIGH over an empty ring.                *)
THEOREM NoStallInPowerSave == ASSUME UrcsFit PROVE PowerSpec => []NoStall
<1>1. Spec => []NoStall
  BY NoStallTheorem
<1>2. QED
  BY <1>1, PowerUsesRxPath, PTL

(* The types of power save, the receive path's included.                   *)
THEOREM PowerTypeCorrect == PowerSpec => []PowerTypeOK
<1>1. PowerIInv /\ TypeOK => PowerTypeOK
  BY DEF PowerIInv, PowerInvariant, TicksCounted, Belief, RestTypeOK,
         PowerTypeOK
<1>2. QED
  BY <1>1, PowerCorrect, ReceivePathSafeInPowerSave, PTL

(* Wherever RING, a URC or a pin comes in powerSave(), the CPU does not    *)
(* sleep without the RING interrupt: except when RING came between the     *)
(* last test of modem_is_in_power_save and the sleep.                      *)
THEOREM SleepsArmedTheorem == PowerSpec => []SleepsArmed
<1>1. PowerIInv => SleepsArmed
  BY DEF PowerIInv, PowerInvariant, Guarded, Belief, SleepsArmed, Asleep,
         Watching
<1>2. QED
  BY <1>1, PowerCorrect, PTL

(* It sleeps with RTS HIGH, except behind a URC callback or RING.          *)
THEOREM SleepsWithModemHeldTheorem == PowerSpec => []SleepsWithModemHeld
<1>1. PowerIInv => SleepsWithModemHeld
  BY DEF PowerIInv, PowerInvariant, CallsReturn, Guarded, SleepsWithModemHeld,
         Asleep, Watching
<1>2. QED
  BY <1>1, PowerCorrect, PTL

(* Whichever way powerSave() is left, power save is off, RING detached and *)
(* its callback harmless.                                                  *)
THEOREM LeavesPowerSaveTheorem == PowerSpec => []LeavesPowerSave
<1>1. PowerIInv => LeavesPowerSave
  BY DEF PowerIInv, PowerInvariant
<1>2. QED
  BY <1>1, PowerCorrect, PTL

(* powerDown() that no pin wakes lasts for the seconds asked for, however  *)
(* its interrupts fall.                                                    *)
THEOREM DownLongEnoughTheorem == PowerSpec => []DownLongEnough
<1>1. PowerIInv => DownLongEnough
  BY PowerAssumption DEF PowerIInv, TicksCounted, DownLongEnough
<1>2. QED
  BY <1>1, PowerCorrect, PTL
=============================================================================
