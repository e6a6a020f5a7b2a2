--------------------------- MODULE UrcTableProofs ---------------------------
(***************************************************************************)
(* The table of URC callbacks, for every number of slots, identifiers and  *)
(* callbacks: no identifier is in two slots, waitForURC() misses no URC    *)
(* that came in time, and returns the data of no other.                    *)
(***************************************************************************)
EXTENDS UrcTable, SequenceTheorems, FiniteSetTheorems,
        WellFoundedInduction, TLAPS

InUse(s) == urcs[s].identifier_length # 0

(* The main program is writing to slot, for identifier id.                 *)
Choosing == {"identifier", "length", "callback1", "callback2"}

(* What it writes keeps to the slot it chose: nothing else holds id, and   *)
(* no slot before that one has id left over from an earlier use.           *)
Chosen ==
  /\ pc \in Choosing =>
       /\ \A s \in Slot : InUse(s) /\ s # slot => urcs[s].identifier # id
       /\ \A s \in Slot : s < slot => urcs[s].identifier # id
  /\ pc \in {"identifier", "length"} => ~InUse(slot)
  /\ pc \in Choosing \ {"identifier"} => urcs[slot].identifier = id

(* The first slot with an identifier is the one in use with it, if any is. *)
FirstIsInUse ==
  \A s, t \in Slot :
    InUse(t) /\ s < t => urcs[s].identifier # urcs[t].identifier

(* The callback of waitForURC() is in no slot but its own, and only while  *)
(* it waits.                                                               *)
WaitSlot ==
  /\ \A s \in Slot : urcs[s].callback = Wait =>
       /\ pc \in {"waiting", "unregister"} /\ op = "wait" /\ s = slot
  /\ pc = "waiting" \/ (pc = "unregister" /\ op = "wait") =>
       /\ op = "wait"
       /\ urcs[slot].identifier = id
       /\ InUse(slot) => urcs[slot].callback = Wait
       /\ \A s \in Slot : InUse(s) /\ s # slot => urcs[s].identifier # id
       /\ \A s \in Slot : s < slot => urcs[s].identifier # id
  /\ pc \in Choosing \union {"search"} => (op = "wait" <=> callback = Wait)
  /\ pc = "result" => op = "wait"

(* What the interrupt remembers between the two ends of a URC.             *)
Remembered ==
  /\ mine => urc_current_callback = Wait
  /\ answered => got_wait_for_urc_callback
  /\ op = "wait" /\ pc # "idle" /\ ~late =>
       /\ urc_current_callback = Wait /\ parsing # <<>> => parsing = id
       /\ got_wait_for_urc_callback => wait_for_urc_buffer = id

TableInvariant == TypeOK /\ Chosen /\ FirstIsInUse /\ WaitSlot /\ Remembered
-----------------------------------------------------------------------------
(* A search from slot 0 finds the first.                                   *)
LEMMA FirstIsLeast ==
  ASSUME NEW S, S \subseteq Slot, S # {}
  PROVE  First(S) \in S /\ \A t \in S : First(S) <= t
<1> DEFINE R == OpToRel(<, Nat)
<1>1. S \subseteq Nat
  BY SlotAssumption DEF Slot
<1>2. IsWellFoundedOn(R, Nat)
  BY NatLessThanWellFounded
<1>3. PICK i \in S : \A j \in S : <<j, i>> \notin R
  BY <1>1, <1>2, WFMin, Zenon
<1>4. \A j \in S : i <= j
  <2>1. SUFFICES ASSUME NEW j \in S, ~(i <= j)
                 PROVE  FALSE
    OBVIOUS
  <2>2. i \in Nat /\ j \in Nat /\ j < i
    BY <1>1, <2>1
  <2>3. <<j, i>> \in R
    BY <2>2 DEF OpToRel
  <2>4. QED
    BY <1>3, <2>3
<1>5. QED
  BY <1>4 DEF First

Entry == [identifier : Id \union {<<>>}, identifier_length : Nat,
          callback : Callback]

(* What unregistering may change in a table: slots go out of use.          *)
Cleared(new, old) ==
  \A s \in Slot :
    \/ new[s] = old[s]
    \/ /\ new[s].identifier = old[s].identifier
       /\ new[s].identifier_length = 0
       /\ new[s].callback = NULL

LEMMA UnregisterClears ==
  ASSUME NEW t \in [Slot -> Entry], NEW i \in Id
  PROVE  UnregisterIn(t, i) \in [Slot -> Entry] /\ Cleared(UnregisterIn(t, i), t)
<1> DEFINE hits == {s \in Slot : Begins(i, t[s].identifier)}
<1>1. CASE hits = {}
  BY <1>1 DEF UnregisterIn, Cleared
<1>2. CASE hits # {}
  <2> DEFINE f == First(hits)
             unused == [identifier |-> t[f].identifier,
                        identifier_length |-> 0, callback |-> NULL]
  <2>1. f \in Slot /\ t[f] \in Entry
    BY <1>2, FirstIsLeast
  <2>2. UnregisterIn(t, i) = [t EXCEPT ![f].identifier_length = 0,
                                      ![f].callback = NULL]
    BY <1>2 DEF UnregisterIn
  <2> HIDE DEF hits, f
  <2>3. unused \in Entry
    BY <2>1 DEF Entry, Callback
  <2>4. UnregisterIn(t, i) = [t EXCEPT ![f] = unused]
    BY <2>1, <2>2 DEF Entry
  <2> HIDE DEF unused
  <2>5. UnregisterIn(t, i) \in [Slot -> Entry]
    BY <2>1, <2>3, <2>4
  <2>6. \A s \in Slot : UnregisterIn(t, i)[s] = IF s = f THEN unused ELSE t[s]
    BY <2>1, <2>4
  <2>7. Cleared(UnregisterIn(t, i), t)
    BY <2>6 DEF Cleared, unused
  <2>8. QED
    BY <2>5, <2>7
<1>3. QED
  BY <1>1, <1>2

LEMMA MqttEndClears ==
  ASSUME NEW t \in [Slot -> Entry]
  PROVE  MqttEnd(t) \in [Slot -> Entry] /\ Cleared(MqttEnd(t), t)
<1> DEFINE t1 == UnregisterIn(t, MQTT_ON_MESSAGE_URC)
           t2 == UnregisterIn(t1, MQTT_ON_DISCONNECT_URC)
<1>1. t1 \in [Slot -> Entry] /\ Cleared(t1, t)
  BY UnregisterClears, CallbackAssumption
<1> HIDE DEF t1
<1>2. t2 \in [Slot -> Entry] /\ Cleared(t2, t1)
  BY <1>1, UnregisterClears, CallbackAssumption
<1>3. Cleared(t2, t)
  BY <1>1, <1>2 DEF Cleared
<1>4. QED
  BY <1>2, <1>3 DEF t1, MqttEnd

(* An identifier begins only itself, and a slot never used begins with     *)
(* none.                                                                   *)
LEMMA BeginsOnlyItself ==
  ASSUME PrefixFree, NEW i \in Id, NEW text \in Id \union {<<>>}
  PROVE  Begins(i, text) <=> text = i
<1>1. i \in Seq(Byte) /\ i # <<>> /\ Len(i) \in Nat
  BY IdAssumption, LenProperties
<1>2. Begins(i, i)
  BY <1>1, SubSeqFull DEF Begins
<1>3. ~Begins(i, <<>>)
  BY <1>1, EmptySeq DEF Begins
<1>4. QED
  BY <1>2, <1>3 DEF PrefixFree
-----------------------------------------------------------------------------
LEMMA InitInvariant == Init => TableInvariant
<1>1. SUFFICES ASSUME Init
               PROVE  TableInvariant
  OBVIOUS
<1> USE DEF Init
<1>2. 0 \in Slot /\ Len(<<>>) = 0
  BY SlotAssumption, EmptySeq DEF Slot
<1>3. TypeOK
  BY <1>1, <1>2 DEF TypeOK, Callback, Control, Op
<1>4. Chosen /\ FirstIsInUse
  BY <1>1 DEF Chosen, FirstIsInUse, InUse, Choosing
<1>5. WaitSlot
  BY <1>1, CallbackAssumption DEF WaitSlot, Choosing
<1>6. Remembered
  BY <1>1 DEF Remembered
<1>7. QED
  BY <1>3, <1>4, <1>5, <1>6 DEF TableInvariant

(* Types.                                                                  *)
TableTypeOK ==
  /\ urcs \in [Slot -> Entry]
  /\ \A s \in Slot : urcs[s].identifier_length
                       \in {0, Len(urcs[s].identifier)}

RestTypeOK ==
  /\ parsing \in Id \union {<<>>}
  /\ urc_current_callback \in Callback
  /\ got_wait_for_urc_callback \in BOOLEAN
  /\ wait_for_urc_buffer \in Id \union {<<>>}
  /\ pc \in Control /\ op \in Op /\ id \in Id
  /\ callback \in UserCallback \union {Wait}
  /\ slot \in Slot
  /\ cancelled \in BOOLEAN /\ mine \in BOOLEAN
  /\ answered \in BOOLEAN /\ late \in BOOLEAN

LEMMA TypesSplit == TypeOK <=> TableTypeOK /\ RestTypeOK
BY DEF TypeOK, TableTypeOK, RestTypeOK, Entry

LEMMA HoldingInSlots ==
  ASSUME NEW i
  PROVE  /\ Holding(i) \subseteq Slot /\ Empty \subseteq Slot
         /\ Holding(i) # {} => First(Holding(i)) \in Holding(i)
         /\ Empty # {} => /\ First(Empty) \in Empty
                          /\ \A s \in Empty : First(Empty) <= s
<1>1. Holding(i) \subseteq Slot /\ Empty \subseteq Slot
  BY DEF Holding, Empty
<1>2. QED
  BY <1>1, FirstIsLeast

LEMMA RestTypeStep ==
  ASSUME TypeOK, [Next]_vars
  PROVE  RestTypeOK'
<1> USE DEF RestTypeOK, Control, Op, Callback, interrupt, wait, call, history
<1>1. TableTypeOK /\ RestTypeOK
  BY TypesSplit
<1>2. ASSUME NEW i \in Id, CallWait(i) \/ CallUnregister(i)
      PROVE  RestTypeOK'
  BY <1>1, <1>2 DEF CallWait, CallUnregister
<1>3. ASSUME NEW i \in Id, NEW c \in UserCallback, CallRegister(i, c)
      PROVE  RestTypeOK'
  BY <1>1, <1>3 DEF CallRegister
<1>4. CASE FindSlot
  BY <1>1, <1>4, HoldingInSlots DEF FindSlot
<1>5. CASE WriteIdentifier \/ WriteLength \/ WriteCallbackByte
  BY <1>1, <1>5 DEF WriteIdentifier, WriteLength, WriteCallbackByte, Write
<1>6. CASE WriteCallback
  BY <1>1, <1>6 DEF WriteCallback, Write
<1>7. CASE StopWaiting \/ WaitReturns
  BY <1>1, <1>7 DEF StopWaiting, WaitReturns
<1>8. CASE Unregister
  BY <1>1, <1>8 DEF Unregister
<1>9. ASSUME NEW i \in Id, MatchUrc(i)
      PROVE  RestTypeOK'
  <2>1. urcs[First(Holding(i))].callback \in Callback
    BY <1>1, <1>9, HoldingInSlots DEF MatchUrc, TableTypeOK, Entry
  <2>2. mine' \in BOOLEAN
    BY <1>9 DEF MatchUrc
  <2>3. QED
    BY <1>1, <1>9, <2>1, <2>2 DEF MatchUrc
<1>10. CASE CompleteUrc
  <2>1. got_wait_for_urc_callback' \in BOOLEAN
        /\ wait_for_urc_buffer' \in Id \union {<<>>}
    BY <1>1, <1>10 DEF CompleteUrc
  <2>2. cancelled' \in BOOLEAN /\ answered' \in BOOLEAN /\ mine' = FALSE
    BY <1>1, <1>10 DEF CompleteUrc
  <2>3. QED
    BY <1>1, <1>10, <2>1, <2>2 DEF CompleteUrc
<1>11. CASE GiveUpUrc
  <2>1. parsing' \in Id \union {<<>>} /\ mine' \in BOOLEAN
    BY <1>11 DEF GiveUpUrc
  <2>2. QED
    BY <1>1, <1>11, <2>1 DEF GiveUpUrc
<1>12. CASE UNCHANGED vars
  BY <1>1, <1>12 DEF vars
<1>13. QED
  BY <1>2, <1>3, <1>4, <1>5, <1>6, <1>7, <1>8, <1>9, <1>10, <1>11, <1>12
  DEF Next, MainProgram, ReceiveInterrupt
-----------------------------------------------------------------------------
(* A step that only takes slots out of use.                                *)
LEMMA ClearedTable ==
  ASSUME TypeOK, urcs' \in [Slot -> Entry], Cleared(urcs', urcs)
  PROVE  /\ TableTypeOK'
         /\ \A s \in Slot : urcs'[s].identifier = urcs[s].identifier
         /\ \A s \in Slot : InUse(s)' => InUse(s) /\ urcs'[s] = urcs[s]
         /\ \A s \in Slot : urcs'[s].callback = Wait => urcs[s].callback = Wait
<1>1. TableTypeOK
  BY TypesSplit
<1>2. \A s \in Slot :
        \/ urcs'[s] = urcs[s]
        \/ /\ urcs'[s].identifier = urcs[s].identifier
           /\ urcs'[s].identifier_length = 0
           /\ urcs'[s].callback # Wait
  BY CallbackAssumption DEF Cleared
<1>3. TableTypeOK'
  BY <1>1, <1>2 DEF TableTypeOK
<1>4. QED
  BY <1>2, <1>3 DEF InUse

(* A step that writes in the slot chosen.                                  *)
LEMMA WrittenTable ==
  ASSUME TypeOK, NEW from, NEW to, NEW field, Write(from, to, field)
  PROVE  /\ urcs'[slot] = field
         /\ \A s \in Slot : s # slot => urcs'[s] = urcs[s]
         /\ slot' = slot /\ id' = id /\ pc = from /\ pc' = to
         /\ field \in Entry => urcs' \in [Slot -> Entry]
BY TypesSplit DEF Write, TableTypeOK, RestTypeOK, call

(* A step that leaves the table and the choice alone.                      *)
LEMMA SameTable ==
  ASSUME TypeOK, Chosen, FirstIsInUse, urcs' = urcs,
         pc' \notin Choosing \/ (pc' = pc /\ slot' = slot /\ id' = id)
  PROVE  TableTypeOK' /\ Chosen' /\ FirstIsInUse'
<1>1. TableTypeOK'
  BY TypesSplit DEF TableTypeOK
<1>2. FirstIsInUse'
  BY DEF FirstIsInUse, InUse
<1>3. Chosen'
  BY DEF Chosen, InUse, Choosing
<1>4. QED
  BY <1>1, <1>2, <1>3

LEMMA InUseHolds ==
  ASSUME TypeOK, NEW s \in Slot, NEW i \in Id
  PROVE  Holds(s, i) <=> InUse(s) /\ urcs[s].identifier = i
<1>1. i \in Seq(Byte) /\ i # <<>> /\ Len(i) \in Nat
  BY IdAssumption, LenProperties
<1>2. Len(i) # 0
  BY <1>1, EmptySeq
<1>3. urcs[s].identifier_length \in {0, Len(urcs[s].identifier)}
  BY DEF TypeOK
<1>4. QED
  BY <1>2, <1>3 DEF Holds, InUse

LEMMA FindSlotChooses ==
  ASSUME TypeOK, Chosen, FirstIsInUse, FindSlot
  PROVE  Chosen'
<1>1. id \in Id /\ id' = id /\ urcs' = urcs
  BY DEF TypeOK, FindSlot, table, call
<1>2. CASE Holding(id) # {}
  <2>1. slot' = First(Holding(id)) /\ pc' = "callback1"
    BY <1>2 DEF FindSlot
  <2>2. slot' \in Slot /\ InUse(slot') /\ urcs[slot'].identifier = id
    BY <1>1, <1>2, <2>1, HoldingInSlots, InUseHolds DEF Holding
  <2>3. \A s \in Slot : s < slot' => urcs[s].identifier # id
    BY <2>2 DEF FirstIsInUse
  <2>4. ASSUME NEW s \in Slot, InUse(s), s # slot'
        PROVE  urcs[s].identifier # id
    <3>1. s \in Nat /\ slot' \in Nat
      BY <2>2, SlotAssumption DEF Slot
    <3>2. s < slot' \/ slot' < s
      BY <2>4, <3>1
    <3>3. QED
      BY <2>2, <2>3, <2>4, <3>2 DEF FirstIsInUse
  <2>5. QED
    BY <1>1, <2>1, <2>2, <2>3, <2>4 DEF Chosen, InUse, Choosing
<1>3. CASE Holding(id) = {} /\ Empty # {}
  <2>1. slot' = First(Empty) /\ pc' = "identifier"
    BY <1>3 DEF FindSlot
  <2>2. slot' \in Slot /\ ~InUse(slot')
    BY <1>3, <2>1, HoldingInSlots DEF Empty, InUse
  <2>3. \A s \in Slot : InUse(s) => urcs[s].identifier # id
    BY <1>1, <1>3, InUseHolds DEF Holding
  <2>4. ASSUME NEW s \in Slot, s < slot'
        PROVE  InUse(s)
    <3>1. s \in Nat /\ slot' \in Nat
      BY <2>2, SlotAssumption DEF Slot
    <3>2. s \notin Empty
      BY <1>3, <2>1, <2>4, <3>1, HoldingInSlots
    <3>3. QED
      BY <3>2 DEF Empty, InUse
  <2>5. QED
    BY <1>1, <2>1, <2>2, <2>3, <2>4 DEF Chosen, InUse, Choosing
<1>4. CASE Holding(id) = {} /\ Empty = {}
  BY <1>4 DEF FindSlot, Chosen, Choosing
<1>5. QED
  BY <1>2, <1>3, <1>4

(* The table keeps to one slot for each identifier.                        *)
LEMMA StructureStep ==
  ASSUME TypeOK, Chosen, FirstIsInUse, [Next]_vars
  PROVE  TableTypeOK' /\ Chosen' /\ FirstIsInUse'
<1>1. TableTypeOK /\ RestTypeOK
  BY TypesSplit
<1>2. urcs[slot] \in Entry /\ slot \in Slot /\ id \in Id
      /\ urcs[slot].identifier_length \in {0, Len(urcs[slot].identifier)}
  BY <1>1 DEF TableTypeOK, RestTypeOK
<1>3. ASSUME NEW i \in Id,
             \/ CallWait(i) \/ CallUnregister(i) \/ MatchUrc(i)
             \/ \E c \in UserCallback : CallRegister(i, c)
      PROVE  TableTypeOK' /\ Chosen' /\ FirstIsInUse'
  <2>1. urcs' = urcs
    BY <1>3 DEF CallWait, CallUnregister, MatchUrc, CallRegister, table
  <2>2. pc' \in {"search", "unregister"}
        \/ (pc' = pc /\ slot' = slot /\ id' = id)
    BY <1>3 DEF CallWait, CallUnregister, MatchUrc, CallRegister, call
  <2>3. QED
    BY <2>1, <2>2, SameTable DEF Choosing
<1>4. CASE FindSlot
  <2>1. urcs' = urcs
    BY <1>4 DEF FindSlot, table
  <2>2. TableTypeOK' /\ FirstIsInUse'
    BY <1>1, <2>1 DEF TableTypeOK, FirstIsInUse, InUse
  <2>3. QED
    BY <1>4, <2>2, FindSlotChooses
<1>5. CASE WriteIdentifier
  <2> DEFINE field == [urcs[slot] EXCEPT !.identifier = id]
  <2>1. Write("identifier", "length", field)
    BY <1>5 DEF WriteIdentifier
  <2>2. ~InUse(slot) /\ pc = "identifier"
    BY <2>1 DEF Chosen, Write
  <2>3. field \in Entry /\ field.identifier = id
        /\ field.identifier_length = 0
    BY <1>2, <2>2 DEF Entry, InUse
  <2> HIDE DEF field
  <2>4. /\ urcs'[slot] = field
        /\ \A s \in Slot : s # slot => urcs'[s] = urcs[s]
        /\ slot' = slot /\ id' = id /\ pc' = "length"
        /\ urcs' \in [Slot -> Entry]
    BY <2>1, <2>3, WrittenTable
  <2>5. TableTypeOK'
    BY <1>1, <2>3, <2>4 DEF TableTypeOK
  <2>6. Chosen'
    BY <2>2, <2>3, <2>4 DEF Chosen, Choosing, InUse, Slot
  <2>7. FirstIsInUse'
    BY <2>2, <2>3, <2>4 DEF Chosen, Choosing, InUse, FirstIsInUse
  <2>8. QED
    BY <2>5, <2>6, <2>7
<1>6. CASE WriteLength
  <2> DEFINE field == [urcs[slot] EXCEPT !.identifier_length = Len(id)]
  <2>1. Write("length", "callback1", field)
    BY <1>6 DEF WriteLength
  <2>2. urcs[slot].identifier = id /\ pc = "length"
    BY <2>1 DEF Chosen, Write, Choosing
  <2>3. field \in Entry /\ field.identifier = id
        /\ field.identifier_length = Len(id)
    BY <1>2, <2>2, IdAssumption, LenProperties DEF Entry
  <2> HIDE DEF field
  <2>4. /\ urcs'[slot] = field
        /\ \A s \in Slot : s # slot => urcs'[s] = urcs[s]
        /\ slot' = slot /\ id' = id /\ pc' = "callback1"
        /\ urcs' \in [Slot -> Entry]
    BY <2>1, <2>3, WrittenTable
  <2>5. TableTypeOK'
    BY <1>1, <2>3, <2>4 DEF TableTypeOK
  <2>6. Chosen'
    BY <2>2, <2>3, <2>4 DEF Chosen, Choosing, InUse, Slot
  <2>7. FirstIsInUse'
    BY <2>2, <2>3, <2>4 DEF Chosen, Choosing, InUse, FirstIsInUse
  <2>8. QED
    BY <2>5, <2>6, <2>7
<1>7. ASSUME NEW from \in {"callback1", "callback2"}, NEW to,
             NEW c \in Callback,
             Write(from, to, [urcs[slot] EXCEPT !.callback = c]),
             to \notin Choosing \ {"callback2"}
      PROVE  TableTypeOK' /\ Chosen' /\ FirstIsInUse'
  <2> DEFINE field == [urcs[slot] EXCEPT !.callback = c]
  <2>1. urcs[slot].identifier = id
    BY <1>7 DEF Chosen, Write, Choosing
  <2>2. field \in Entry /\ field.identifier = urcs[slot].identifier
        /\ field.identifier_length = urcs[slot].identifier_length
    BY <1>2, <1>7 DEF Entry
  <2> HIDE DEF field
  <2>3. /\ urcs'[slot] = field
        /\ \A s \in Slot : s # slot => urcs'[s] = urcs[s]
        /\ slot' = slot /\ id' = id /\ pc = from /\ pc' = to
        /\ urcs' \in [Slot -> Entry]
    BY <1>7, <2>2, WrittenTable DEF field
  <2>4. TableTypeOK'
    BY <1>1, <1>2, <2>2, <2>3 DEF TableTypeOK
  <2>5. Chosen'
    BY <1>7, <2>1, <2>2, <2>3 DEF Chosen, Choosing, InUse, Slot
  <2>6. FirstIsInUse'
    BY <2>2, <2>3 DEF InUse, FirstIsInUse
  <2>7. QED
    BY <2>4, <2>5, <2>6
<1>8. CASE WriteCallbackByte
  <2> DEFINE c == IF urcs[slot].callback = callback
                  THEN urcs[slot].callback ELSE Torn
  <2>1. Write("callback1", "callback2", [urcs[slot] EXCEPT !.callback = c])
    BY <1>2, <1>8 DEF WriteCallbackByte
  <2>2. c \in Callback
    BY <1>2 DEF Entry, Callback
  <2>3. QED
    BY <1>7, <2>1, <2>2
<1>9. CASE WriteCallback
  <2>1. callback \in Callback
    BY <1>1 DEF RestTypeOK, Callback
  <2>2. QED
    BY <1>7, <1>9, <2>1 DEF WriteCallback, Choosing
<1>10. CASE StopWaiting \/ WaitReturns \/ GiveUpUrc \/ UNCHANGED vars
  <2>1. urcs' = urcs
    BY <1>10 DEF StopWaiting, WaitReturns, GiveUpUrc, vars, table
  <2>2. pc' \in {"unregister", "idle"}
        \/ (pc' = pc /\ slot' = slot /\ id' = id)
    BY <1>10 DEF StopWaiting, WaitReturns, GiveUpUrc, vars, call
  <2>3. QED
    BY <2>1, <2>2, SameTable DEF Choosing
<1>11. CASE Unregister \/ CompleteUrc
  <2>1. urcs' = UnregisterIn(urcs, id) \/ urcs' = MqttEnd(urcs) \/ urcs' = urcs
    BY <1>11 DEF Unregister, CompleteUrc, table
  <2>2. urcs' \in [Slot -> Entry] /\ Cleared(urcs', urcs)
    BY <1>1, <1>2, <2>1, UnregisterClears, MqttEndClears
    DEF TableTypeOK, Cleared
  <2>3. /\ TableTypeOK'
        /\ \A s \in Slot : urcs'[s].identifier = urcs[s].identifier
        /\ \A s \in Slot : InUse(s)' => InUse(s)
    BY <2>2, ClearedTable
  <2>4. pc' \in {"result", "idle"} \/ (pc' = pc /\ slot' = slot /\ id' = id)
    BY <1>11 DEF Unregister, CompleteUrc, call
  <2>5. slot' = slot /\ id' = id
    BY <1>11 DEF Unregister, CompleteUrc, call
  <2>6. FirstIsInUse'
    BY <2>3 DEF FirstIsInUse
  <2>7. Chosen'
    BY <1>2, <2>3, <2>4, <2>5 DEF Chosen, Choosing
  <2>8. QED
    BY <2>3, <2>6, <2>7
<1>12. QED
  BY <1>3, <1>4, <1>5, <1>6, <1>8, <1>9, <1>10, <1>11
  DEF Next, MainProgram, ReceiveInterrupt
-----------------------------------------------------------------------------
(* What WaitSlot says of the slot chosen, once the search has found it.    *)
Alone(s0, i) ==
  /\ urcs[s0].identifier = i
  /\ \A s \in Slot : InUse(s) /\ s # s0 => urcs[s].identifier # i
  /\ \A s \in Slot : s < s0 => urcs[s].identifier # i

(* unregisterCallback() finds the slot of its identifier, when no slot     *)
(* before it has one left over.                                            *)
LEMMA UnregistersOwn ==
  ASSUME PrefixFree, TypeOK, Alone(slot, id)
  PROVE  UnregisterIn(urcs, id)[slot].callback = NULL
<1> DEFINE hits == {s \in Slot : Begins(id, urcs[s].identifier)}
           f == First(hits)
<1>1. /\ urcs \in [Slot -> Entry] /\ slot \in Slot /\ id \in Id
      /\ \A s \in Slot : urcs[s].identifier \in Id \union {<<>>}
  BY TypesSplit DEF TableTypeOK, RestTypeOK, Entry
<1>2. hits = {s \in Slot : urcs[s].identifier = id}
  BY <1>1, BeginsOnlyItself
<1>3. slot \in hits
  BY <1>1, <1>2 DEF Alone
<1>4. f \in hits /\ f <= slot
  BY <1>3, FirstIsLeast
<1>5. f = slot
  <2>1. f \in Nat /\ slot \in Nat
    BY <1>1, <1>4, SlotAssumption DEF Slot
  <2>2. ~(f < slot)
    BY <1>2, <1>4 DEF Alone
  <2>3. QED
    BY <1>4, <2>1, <2>2
<1>6. UnregisterIn(urcs, id) = [urcs EXCEPT ![f].identifier_length = 0,
                                            ![f].callback = NULL]
  BY <1>3 DEF UnregisterIn
<1> HIDE DEF f
<1>7. QED
  BY <1>1, <1>5, <1>6 DEF Entry

(* The callback of waitForURC() is only where and while it waits.          *)
LEMMA WaitSlotStep ==
  ASSUME PrefixFree, TypeOK, Chosen, FirstIsInUse, WaitSlot, [Next]_vars
  PROVE  WaitSlot'
<1>1. /\ urcs \in [Slot -> Entry] /\ urcs[slot] \in Entry
      /\ slot \in Slot /\ id \in Id /\ op \in Op /\ pc \in Control
      /\ callback \in UserCallback \union {Wait}
  BY TypesSplit DEF TableTypeOK, RestTypeOK
<1> USE DEF Choosing
<1>2. ASSUME NEW i \in Id, CallWait(i)
      PROVE  WaitSlot'
  <2>1. urcs' = urcs /\ pc = "idle" /\ pc' = "search" /\ op' = "wait"
        /\ callback' = Wait
    BY <1>2 DEF CallWait, table
  <2>2. QED
    BY <2>1 DEF WaitSlot
<1>3. ASSUME NEW i \in Id, CallUnregister(i)
      PROVE  WaitSlot'
  <2>1. urcs' = urcs /\ pc = "idle" /\ pc' = "unregister"
        /\ op' = "unregister"
    BY <1>3 DEF CallUnregister, table
  <2>2. QED
    BY <2>1 DEF WaitSlot
<1>4. ASSUME NEW i \in Id, NEW c \in UserCallback, CallRegister(i, c)
      PROVE  WaitSlot'
  <2>1. urcs' = urcs /\ pc = "idle" /\ pc' = "search" /\ op' = "register"
        /\ callback' # Wait
    BY <1>4, CallbackAssumption DEF CallRegister, table
  <2>2. QED
    BY <2>1 DEF WaitSlot
<1>5. CASE FindSlot
  <2>1. urcs' = urcs /\ pc = "search" /\ op' = op /\ callback' = callback
        /\ pc' \in {"callback1", "identifier", "idle"}
    BY <1>5 DEF FindSlot, table, call
  <2>2. QED
    BY <2>1 DEF WaitSlot
<1>6. ASSUME NEW from \in {"identifier", "length", "callback1"},
             NEW to \in {"length", "callback1", "callback2"},
             NEW field \in Entry, Write(from, to, field),
             field.callback = Wait => urcs[slot].callback = Wait
      PROVE  WaitSlot'
  <2>1. /\ urcs'[slot] = field
        /\ \A s \in Slot : s # slot => urcs'[s] = urcs[s]
        /\ slot' = slot /\ pc = from /\ pc' = to
    BY <1>6, WrittenTable
  <2>2. op' = op /\ callback' = callback
    BY <1>6 DEF Write, call
  <2>3. \A s \in Slot : urcs[s].callback # Wait
    BY <2>1 DEF WaitSlot
  <2>4. \A s \in Slot : urcs'[s].callback # Wait
    BY <1>1, <1>6, <2>1, <2>3
  <2>5. QED
    BY <2>1, <2>2, <2>4 DEF WaitSlot
<1>7. CASE WriteIdentifier
  BY <1>1, <1>6, <1>7 DEF WriteIdentifier, Entry
<1>8. CASE WriteLength
  BY <1>1, <1>6, <1>8, IdAssumption, LenProperties DEF WriteLength, Entry
<1>9. CASE WriteCallbackByte
  <2> DEFINE c == IF urcs[slot].callback = callback
                  THEN urcs[slot].callback ELSE Torn
             field == [urcs[slot] EXCEPT !.callback = c]
  <2>1. Write("callback1", "callback2", field)
    BY <1>1, <1>9 DEF WriteCallbackByte
  <2>2. field \in Entry /\ field.callback = c
    BY <1>1 DEF Entry, Callback
  <2>3. c = Wait => urcs[slot].callback = Wait
    BY CallbackAssumption
  <2>4. field.callback = Wait => urcs[slot].callback = Wait
    BY <2>2, <2>3
  <2> HIDE DEF field, c
  <2>5. QED
    BY <1>6, <2>1, <2>2, <2>4
<1>10. CASE WriteCallback
  <2> DEFINE field == [urcs[slot] EXCEPT !.callback = callback]
             to == IF op = "wait" THEN "waiting" ELSE "idle"
  <2>1. Write("callback2", to, field)
    BY <1>10 DEF WriteCallback
  <2>2. field \in Entry /\ field.callback = callback
        /\ field.identifier = urcs[slot].identifier
        /\ field.identifier_length = urcs[slot].identifier_length
    BY <1>1 DEF Entry, Callback
  <2> HIDE DEF field
  <2>3. /\ urcs'[slot] = field
        /\ \A s \in Slot : s # slot => urcs'[s] = urcs[s]
        /\ slot' = slot /\ id' = id /\ pc = "callback2" /\ pc' = to
    BY <2>1, WrittenTable
  <2>4. op' = op
    BY <2>1 DEF Write, call
  <2>5. /\ \A s \in Slot : urcs[s].callback # Wait
        /\ op = "wait" <=> callback = Wait
    BY <2>3 DEF WaitSlot
  <2>6. Alone(slot, id)
    BY <2>3 DEF Chosen, Alone
  <2>7. Alone(slot, id)'
    BY <1>1, <2>2, <2>3, <2>6 DEF Alone, InUse, Slot
  <2>8. CASE op = "wait"
    BY <1>1, <2>2, <2>3, <2>4, <2>5, <2>7, <2>8 DEF WaitSlot, Alone
  <2>9. CASE op # "wait"
    <3>1. \A s \in Slot : urcs'[s].callback # Wait
      BY <1>1, <2>2, <2>3, <2>5, <2>9
    <3>2. QED
      BY <2>3, <2>9, <3>1 DEF WaitSlot
  <2>10. QED
    BY <2>8, <2>9
<1>11. CASE StopWaiting
  <2>1. urcs' = urcs /\ pc = "waiting" /\ pc' = "unregister" /\ op' = op
        /\ id' = id /\ slot' = slot
    BY <1>11 DEF StopWaiting, table, call
  <2>2. QED
    BY <2>1 DEF WaitSlot, InUse
<1>12. CASE Unregister
  <2>1. /\ urcs' = UnregisterIn(urcs, id) /\ pc = "unregister"
        /\ pc' = IF op = "wait" THEN "result" ELSE "idle"
        /\ op' = op
    BY <1>12 DEF Unregister, call
  <2>2. urcs' \in [Slot -> Entry] /\ Cleared(urcs', urcs)
    BY <1>1, <2>1, UnregisterClears
  <2>3. \A s \in Slot : urcs'[s].callback = Wait => urcs[s].callback = Wait
    BY <2>2, ClearedTable
  <2>4. \A s \in Slot : urcs'[s].callback # Wait
    <3>1. CASE op = "wait"
      <4>1. Alone(slot, id) /\ \A s \in Slot : urcs[s].callback = Wait => s = slot
        BY <2>1, <3>1 DEF WaitSlot, Alone
      <4>2. urcs'[slot].callback # Wait
        BY <2>1, <4>1, UnregistersOwn, CallbackAssumption
      <4>3. QED
        BY <2>3, <4>1, <4>2
    <3>2. CASE op # "wait"
      BY <2>3, <3>2 DEF WaitSlot
    <3>3. QED
      BY <3>1, <3>2
  <2>5. QED
    BY <2>1, <2>4 DEF WaitSlot
<1>13. CASE WaitReturns
  <2>1. urcs' = urcs /\ pc = "result" /\ pc' = "idle"
    BY <1>13 DEF WaitReturns, table
  <2>2. QED
    BY <2>1 DEF WaitSlot
<1>14. ASSUME UNCHANGED <<pc, op, id, callback, slot>>,
              urcs' \in [Slot -> Entry], Cleared(urcs', urcs)
       PROVE  WaitSlot'
  <2>1. /\ \A s \in Slot : urcs'[s].identifier = urcs[s].identifier
        /\ \A s \in Slot : InUse(s)' => InUse(s) /\ urcs'[s] = urcs[s]
        /\ \A s \in Slot : urcs'[s].callback = Wait => urcs[s].callback = Wait
    BY <1>14, ClearedTable
  <2>2. QED
    BY <1>1, <1>14, <2>1 DEF WaitSlot
<1>15. CASE CompleteUrc
  <2>1. urcs' = MqttEnd(urcs) \/ urcs' = urcs
    BY <1>15 DEF CompleteUrc, table
  <2>2. urcs' \in [Slot -> Entry] /\ Cleared(urcs', urcs)
    BY <1>1, <2>1, MqttEndClears DEF Cleared
  <2>3. QED
    BY <1>14, <1>15, <2>2 DEF CompleteUrc, call
<1>16. CASE GiveUpUrc \/ UNCHANGED vars \/ \E i \in Id : MatchUrc(i)
  <2>1. urcs' = urcs /\ UNCHANGED <<pc, op, id, callback, slot>>
    BY <1>16 DEF GiveUpUrc, MatchUrc, vars, table, call
  <2>2. QED
    BY <1>1, <1>14, <2>1 DEF Cleared
<1>17. QED
  BY <1>2, <1>3, <1>4, <1>5, <1>7, <1>8, <1>9, <1>10, <1>11, <1>12, <1>13,
     <1>15, <1>16
  DEF Next, MainProgram, ReceiveInterrupt

(* What the interrupt remembers of a slot it has found.                    *)
LEMMA RememberedStep ==
  ASSUME TypeOK, WaitSlot, Remembered, [Next]_vars
  PROVE  Remembered'
<1>1. RestTypeOK
  BY TypesSplit
<1> USE DEF interrupt, wait, call, history
<1>2. ASSUME NEW i \in Id, CallWait(i)
      PROVE  Remembered'
  BY <1>2 DEF CallWait, Remembered
<1>3. ASSUME NEW i \in Id,
             CallUnregister(i) \/ \E c \in UserCallback : CallRegister(i, c)
      PROVE  Remembered'
  <2>1. UNCHANGED <<interrupt, wait, mine, answered>> /\ op' # "wait"
    BY <1>3 DEF CallUnregister, CallRegister
  <2>2. QED
    BY <2>1 DEF Remembered
<1>4. CASE \/ FindSlot \/ WriteIdentifier \/ WriteLength
           \/ WriteCallbackByte \/ WriteCallback \/ StopWaiting
           \/ Unregister \/ WaitReturns \/ UNCHANGED vars
  <2>1. UNCHANGED <<interrupt, wait, call, history>>
        /\ (pc = "idle" => pc' = "idle")
    BY <1>4 DEF FindSlot, WriteIdentifier, WriteLength, WriteCallbackByte,
                WriteCallback, Write, StopWaiting, Unregister, WaitReturns,
                vars
  <2>2. QED
    BY <2>1 DEF Remembered
<1>5. ASSUME NEW i \in Id, MatchUrc(i)
      PROVE  Remembered'
  <2> DEFINE f == First(Holding(i))
  <2>1. f \in Slot /\ InUse(f) /\ urcs[f].identifier = i
    BY <1>5, HoldingInSlots, InUseHolds DEF MatchUrc, Holding
  <2>2. /\ parsing' = i /\ urc_current_callback' = urcs[f].callback
        /\ mine' = (op = "wait" /\ id = i /\ pc = "waiting")
        /\ UNCHANGED <<wait, call, pc, answered, late>>
    BY <1>5 DEF MatchUrc
  <2> HIDE DEF f
  <2>3. mine' => urc_current_callback' = Wait
    BY <2>1, <2>2 DEF WaitSlot
  <2>4. op = "wait" /\ pc # "idle" /\ urcs[f].callback = Wait => i = id
    BY <2>1 DEF WaitSlot
  <2>5. QED
    BY <2>2, <2>3, <2>4 DEF Remembered
<1>6. CASE CompleteUrc
  <2>1. /\ parsing # <<>> /\ parsing' = <<>>
        /\ answered' = (answered \/ mine) /\ mine' = FALSE
        /\ UNCHANGED <<call, pc, late>>
    BY <1>6 DEF CompleteUrc
  <2>2. CASE urc_current_callback = Wait
    <3>1. got_wait_for_urc_callback' = TRUE /\ wait_for_urc_buffer' = parsing
      BY <1>6, <2>2 DEF CompleteUrc
    <3>2. QED
      BY <2>1, <2>2, <3>1 DEF Remembered
  <2>3. CASE urc_current_callback # Wait
    <3>1. UNCHANGED wait /\ mine # TRUE
      BY <1>6, <2>3 DEF CompleteUrc, Remembered
    <3>2. answered' => answered
      BY <1>1, <2>1, <3>1 DEF RestTypeOK
    <3>3. QED
      BY <2>1, <3>1, <3>2 DEF Remembered
  <2>4. QED
    BY <2>2, <2>3
<1>7. CASE GiveUpUrc
  BY <1>7 DEF GiveUpUrc, Remembered
<1>8. QED
  BY <1>2, <1>3, <1>4, <1>5, <1>6, <1>7
  DEF Next, MainProgram, ReceiveInterrupt

LEMMA StructureInvariant ==
  ASSUME TypeOK, Chosen, FirstIsInUse, [Next]_vars
  PROVE  TypeOK' /\ Chosen' /\ FirstIsInUse'
<1>1. TableTypeOK' /\ Chosen' /\ FirstIsInUse'
  BY StructureStep
<1>2. RestTypeOK'
  BY RestTypeStep
<1>3. TypeOK'
  BY <1>1, <1>2 DEF TypeOK, TableTypeOK, RestTypeOK, Entry
<1>4. QED
  BY <1>1, <1>3
-----------------------------------------------------------------------------
(* Every variable has its type, and the length of a slot is 0 or that of   *)
(* its identifier (UrcCallback, sequans_controller.cpp).                   *)
THEOREM TableTypeCorrect == Spec => []TypeOK
<1>1. Init => TypeOK /\ Chosen /\ FirstIsInUse
  BY InitInvariant DEF TableInvariant
<1>2. TypeOK /\ Chosen /\ FirstIsInUse /\ [Next]_vars
        => (TypeOK /\ Chosen /\ FirstIsInUse)'
  BY StructureInvariant
<1>3. QED
  BY <1>1, <1>2, PTL DEF Spec

(* registerCallback() never puts an identifier in two slots, whatever a    *)
(* callback unregisters between its search and its last write, and however *)
(* the identifiers relate.                                                 *)
THEOREM IdentifiersUniqueTheorem == Spec => []IdentifiersUnique
<1>1. Init => TypeOK /\ Chosen /\ FirstIsInUse
  BY InitInvariant DEF TableInvariant
<1>2. TypeOK /\ Chosen /\ FirstIsInUse /\ [Next]_vars
        => (TypeOK /\ Chosen /\ FirstIsInUse)'
  BY StructureInvariant
<1>3. TypeOK /\ FirstIsInUse => IdentifiersUnique
  <2>1. SUFFICES ASSUME FirstIsInUse, NEW s \in Slot, NEW t \in Slot, s # t,
                        urcs[s].identifier_length > 0,
                        urcs[t].identifier_length > 0
                 PROVE  urcs[s].identifier # urcs[t].identifier
    BY DEF IdentifiersUnique
  <2>2. InUse(s) /\ InUse(t)
    BY <2>1 DEF InUse
  <2>3. s < t \/ t < s
    BY <2>1, SlotAssumption DEF Slot
  <2>4. QED
    BY <2>1, <2>2, <2>3 DEF FirstIsInUse
<1>4. QED
  BY <1>1, <1>2, <1>3, PTL DEF Spec

LEMMA TableCorrect ==
  ASSUME PrefixFree
  PROVE  Spec => []TableInvariant
<1>1. Init => TableInvariant
  BY InitInvariant
<1>2. TableInvariant /\ [Next]_vars => TableInvariant'
  BY StructureInvariant, WaitSlotStep, RememberedStep
  DEF TableInvariant
<1>3. QED
  BY <1>1, <1>2, PTL DEF Spec

(* waitForURC() returns true when its URC came in time, also when the      *)
(* timer ran out between the end of the data and the test of the flag.     *)
THEOREM WaitNoticesTheorem ==
  ASSUME PrefixFree
  PROVE  Spec => []WaitNoticesUrc
<1>1. TableInvariant => WaitNoticesUrc
  BY DEF TableInvariant, Remembered, WaitNoticesUrc
<1>2. QED
  BY <1>1, TableCorrect, PTL

(* waitForURC() returns the data of the URC it was asked for, unless the   *)
(* interrupt still held the callback of an earlier one when it was called. *)
THEOREM WaitReturnsTheorem ==
  ASSUME PrefixFree
  PROVE  Spec => []WaitReturnsItsUrc
<1>1. TableInvariant => WaitReturnsItsUrc
  BY DEF TableInvariant, WaitSlot, Remembered, WaitReturnsItsUrc
<1>2. QED
  BY <1>1, TableCorrect, PTL
-----------------------------------------------------------------------------
(* The argument for ImplementsMap.  A slot in use has a callback, but for  *)
(* the one being written; and that one is in use unless a callback has     *)
(* unregistered it.                                                        *)
HasCallback ==
  /\ \A s \in Slot : InUse(s) /\ urcs[s].callback = NULL
                       => pc = "callback1" /\ s = slot
  /\ pc \in {"callback1", "callback2"} /\ ~cancelled => InUse(slot)

MapInvariant == TypeOK /\ Chosen /\ FirstIsInUse /\ HasCallback

(* What a look-up finds; the map while nothing is being registered.        *)
Found(i) ==
  IF Holding(i) # {} THEN urcs[First(Holding(i))].callback ELSE NULL

(* Registering() ranges over what FindSlot and the writes follow.          *)
LEMMA RegisteringIs ==
  ASSUME pc \in Control
  PROVE  Registering <=> pc \in Choosing \union {"search"}
BY DEF Control, Registering, Choosing

LEMMA HoldingIs ==
  ASSUME TypeOK, NEW i \in Id
  PROVE  Holding(i) = {s \in Slot : InUse(s) /\ urcs[s].identifier = i}
BY InUseHolds DEF Holding

(* A look-up in a table finds the callback of the slot in use with the     *)
(* identifier.                                                             *)
InUseIn(t, s) == t[s].identifier_length # 0

HoldingIn(t, i) ==
  {s \in Slot : t[s].identifier_length = Len(i) /\ t[s].identifier = i}

FoundIn(t, i) ==
  IF HoldingIn(t, i) # {} THEN t[First(HoldingIn(t, i))].callback ELSE NULL

FirstOf(t) ==
  \A r, s \in Slot :
    InUseIn(t, s) /\ r < s => t[r].identifier # t[s].identifier

LengthsOf(t) ==
  \A s \in Slot : t[s].identifier_length \in {0, Len(t[s].identifier)}

LEMMA HoldingInIs ==
  ASSUME NEW t, LengthsOf(t), NEW i \in Id
  PROVE  HoldingIn(t, i) = {s \in Slot : InUseIn(t, s) /\ t[s].identifier = i}
<1>1. i \in Seq(Byte) /\ i # <<>> /\ Len(i) \in Nat
  BY IdAssumption, LenProperties
<1>2. Len(i) # 0
  BY <1>1, EmptySeq
<1>3. QED
  BY <1>2 DEF HoldingIn, InUseIn, LengthsOf

LEMMA FoundInIs ==
  ASSUME NEW t, LengthsOf(t), FirstOf(t), NEW i \in Id, NEW s \in Slot,
         InUseIn(t, s), t[s].identifier = i
  PROVE  FoundIn(t, i) = t[s].callback
<1> DEFINE H == HoldingIn(t, i)
           f == First(H)
<1>1. s \in H /\ H \subseteq Slot
  BY HoldingInIs
<1>2. f \in H
  BY <1>1, FirstIsLeast
<1>3. f \in Slot /\ InUseIn(t, f) /\ t[f].identifier = i
  BY <1>2, HoldingInIs
<1>4. f = s
  <2> HIDE DEF f
  <2>1. f \in Nat /\ s \in Nat
    BY <1>3, SlotAssumption DEF Slot
  <2>2. ~(f < s) /\ ~(s < f)
    BY <1>3 DEF FirstOf
  <2>3. QED
    BY <2>1, <2>2
<1>5. QED
  BY <1>1, <1>4 DEF FoundIn

LEMMA NotFoundInIs ==
  ASSUME NEW t, LengthsOf(t), NEW i \in Id,
         \A s \in Slot : InUseIn(t, s) => t[s].identifier # i
  PROVE  FoundIn(t, i) = NULL
BY HoldingInIs DEF FoundIn

(* The table of this state, and of the next.                               *)
LEMMA ThisTable ==
  ASSUME TypeOK
  PROVE  /\ LengthsOf(urcs) /\ (FirstIsInUse => FirstOf(urcs))
         /\ \A s : InUse(s) <=> InUseIn(urcs, s)
         /\ \A i : Found(i) = FoundIn(urcs, i)
BY DEF TypeOK, LengthsOf, FirstIsInUse, FirstOf, InUse, InUseIn, Found, FoundIn,
       Holding, Holds, HoldingIn

LEMMA NextTable ==
  ASSUME TypeOK'
  PROVE  /\ LengthsOf(urcs') /\ (FirstIsInUse' => FirstOf(urcs'))
         /\ \A s : InUse(s)' <=> InUseIn(urcs', s)
         /\ \A i : Found(i)' = FoundIn(urcs', i)
BY DEF TypeOK, LengthsOf, FirstIsInUse, FirstOf, InUse, InUseIn, Found, FoundIn,
       Holding, Holds, HoldingIn

(* A change that leaves the slots in use with an identifier alone.         *)
LEMMA FoundSame ==
  ASSUME NEW t, NEW u, LengthsOf(t), LengthsOf(u), NEW i \in Id,
         \A s \in Slot :
           \/ u[s] = t[s]
           \/ /\ ~(InUseIn(t, s) /\ t[s].identifier = i)
              /\ ~(InUseIn(u, s) /\ u[s].identifier = i)
  PROVE  FoundIn(u, i) = FoundIn(t, i)
<1> DEFINE H == HoldingIn(t, i)
<1>1. /\ H = {s \in Slot : InUseIn(t, s) /\ t[s].identifier = i}
      /\ HoldingIn(u, i) = {s \in Slot : InUseIn(u, s) /\ u[s].identifier = i}
  BY HoldingInIs
<1>2. \A s \in Slot : InUseIn(u, s) /\ u[s].identifier = i
        <=> InUseIn(t, s) /\ t[s].identifier = i
  BY DEF InUseIn
<1>3. HoldingIn(u, i) = H
  BY <1>1, <1>2
<1>4. ASSUME H # {}
      PROVE  u[First(H)] = t[First(H)]
  <2>1. H \subseteq Slot
    BY <1>1
  <2>2. First(H) \in H
    BY <1>4, <2>1, FirstIsLeast
  <2> DEFINE f == First(H)
  <2>3. f \in Slot /\ InUseIn(t, f) /\ t[f].identifier = i
    BY <1>1, <2>2
  <2> HIDE DEF f
  <2>4. u[f] = t[f]
    BY <2>3
  <2>5. QED
    BY <2>4 DEF f
<1> HIDE DEF H
<1>5. QED
  BY <1>3, <1>4 DEF FoundIn, H

(* unregisterCallback(): its identifier goes out of use, and no other.     *)
Kept(new, old, I) ==
  \A s \in Slot :
    /\ new[s].identifier = old[s].identifier
    /\ InUseIn(new, s) => new[s] = old[s] /\ old[s].identifier \notin I
    /\ InUseIn(old, s) /\ old[s].identifier \notin I => new[s] = old[s]

LEMMA UnregisterKeeps ==
  ASSUME PrefixFree, NEW t \in [Slot -> Entry], FirstOf(t), NEW i \in Id
  PROVE  Kept(UnregisterIn(t, i), t, {i})
<1> DEFINE hits == {s \in Slot : Begins(i, t[s].identifier)}
           f == First(hits)
           u == UnregisterIn(t, i)
<1>1. \A s \in Slot : t[s] \in Entry /\ t[s].identifier \in Id \union {<<>>}
  BY DEF Entry
<1>2. hits = {s \in Slot : t[s].identifier = i}
  BY <1>1, BeginsOnlyItself
<1>3. CASE hits = {}
  <2>1. u = t
    BY <1>3 DEF UnregisterIn
  <2>2. \A s \in Slot : t[s].identifier # i
    BY <1>2, <1>3
  <2> HIDE DEF u, hits
  <2>3. QED
    BY <2>1, <2>2 DEF Kept, u, InUseIn
<1>4. CASE hits # {}
  <2>1. f \in Slot /\ t[f].identifier = i /\ \A s \in hits : f <= s
    BY <1>2, <1>4, FirstIsLeast
  <2>2. u = [t EXCEPT ![f].identifier_length = 0, ![f].callback = NULL]
    BY <1>4 DEF UnregisterIn
  <2>3. ASSUME NEW s \in Slot, t[s].identifier = i, s # f
        PROVE  t[s].identifier_length = 0
    <3>1. s \in hits
      BY <1>2, <2>3
    <3> HIDE DEF f, hits
    <3>2. f \in Nat /\ s \in Nat /\ f <= s
      BY <2>1, <3>1, SlotAssumption DEF Slot
    <3>3. f < s
      BY <2>3, <3>2
    <3>4. QED
      BY <2>1, <2>3, <3>3 DEF FirstOf, InUseIn
  <2> HIDE DEF f, hits, u
  <2>4. /\ \A s \in Slot : s # f => u[s] = t[s]
        /\ u[f].identifier = i /\ u[f].identifier_length = 0
    BY <1>1, <2>1, <2>2 DEF Entry
  <2>5. ASSUME NEW s \in Slot
        PROVE  /\ u[s].identifier = t[s].identifier
               /\ u[s].identifier_length # 0
                    => u[s] = t[s] /\ t[s].identifier # i
               /\ t[s].identifier_length # 0 /\ t[s].identifier # i
                    => u[s] = t[s]
    <3>1. CASE s = f
      BY <2>1, <2>4, <3>1
    <3>2. CASE s # f
      BY <2>3, <2>4, <3>2
    <3>3. QED
      BY <3>1, <3>2
  <2>6. QED
    BY <2>5 DEF Kept, u, InUseIn
<1>5. QED
  BY <1>3, <1>4

LEMMA MqttEndKeeps ==
  ASSUME PrefixFree, NEW t \in [Slot -> Entry], FirstOf(t)
  PROVE  Kept(MqttEnd(t), t, EndIds)
<1> DEFINE t1 == UnregisterIn(t, MQTT_ON_MESSAGE_URC)
           t2 == UnregisterIn(t1, MQTT_ON_DISCONNECT_URC)
<1>1. t1 \in [Slot -> Entry] /\ Kept(t1, t, {MQTT_ON_MESSAGE_URC})
  BY UnregisterClears, UnregisterKeeps, CallbackAssumption
<1> HIDE DEF t1
<1>2. FirstOf(t1)
  BY <1>1 DEF FirstOf, Kept, InUseIn
<1>3. Kept(t2, t1, {MQTT_ON_DISCONNECT_URC})
  BY <1>1, <1>2, UnregisterKeeps, CallbackAssumption
<1> HIDE DEF t2
<1>4. Kept(t2, t, EndIds)
  BY <1>1, <1>3 DEF Kept, EndIds, InUseIn
<1>5. QED
  BY <1>4 DEF t1, t2, MqttEnd

LEMMA InitHasCallback == Init => HasCallback
<1>1. SUFFICES ASSUME Init PROVE HasCallback
  OBVIOUS
<1>2. QED
  BY <1>1 DEF Init, HasCallback, InUse

(* What a write does to the slot chosen, and that it leaves every other    *)
(* identifier alone.                                                       *)
LEMMA WriteKeepsOthers ==
  ASSUME TypeOK, TypeOK', Chosen,
         NEW from \in Choosing, NEW to, NEW field, Write(from, to, field),
         field.identifier_length # 0 => field.identifier = id,
         NEW j \in Id, j # id
  PROVE  Found(j)' = Found(j)
<1>1. /\ urcs'[slot] = field
      /\ \A s \in Slot : s # slot => urcs'[s] = urcs[s]
      /\ pc = from
  BY WrittenTable
<1>2. InUse(slot) => urcs[slot].identifier = id
  BY <1>1 DEF Chosen, Choosing
<1>3. slot \in Slot
  BY DEF TypeOK
<1>4. \A s \in Slot :
        \/ urcs'[s] = urcs[s]
        \/ /\ ~(InUseIn(urcs, s) /\ urcs[s].identifier = j)
           /\ ~(InUseIn(urcs', s) /\ urcs'[s].identifier = j)
  BY <1>1, <1>2 DEF InUse, InUseIn
<1>5. LengthsOf(urcs) /\ LengthsOf(urcs')
  BY ThisTable, NextTable
<1>6. FoundIn(urcs', j) = FoundIn(urcs, j)
  BY <1>4, <1>5, FoundSame
<1>7. QED
  BY <1>6, ThisTable, NextTable

LEMMA HasCallbackStep ==
  ASSUME PrefixFree, MapInvariant, [Next]_vars
  PROVE  HasCallback'
<1>1. /\ urcs \in [Slot -> Entry] /\ urcs[slot] \in Entry
      /\ slot \in Slot /\ id \in Id /\ pc \in Control
      /\ callback \in UserCallback \union {Wait}
      /\ cancelled \in BOOLEAN
  BY TypesSplit DEF TableTypeOK, RestTypeOK, MapInvariant
<1>2. ASSUME urcs' = urcs, pc \notin {"callback1", "callback2"},
             pc' \notin {"callback1", "callback2"}
      PROVE  HasCallback'
  BY <1>2 DEF MapInvariant, HasCallback, InUse
<1>3. CASE \E i \in Id : \/ CallWait(i) \/ CallUnregister(i)
                         \/ \E c \in UserCallback : CallRegister(i, c)
  BY <1>2, <1>3 DEF CallWait, CallUnregister, CallRegister, table
<1>4. CASE StopWaiting \/ WaitReturns
  BY <1>2, <1>4 DEF StopWaiting, WaitReturns, table
<1>5. CASE FindSlot
  <2>1. urcs' = urcs /\ pc = "search"
    BY <1>5 DEF FindSlot, table
  <2>2. CASE Holding(id) = {}
    BY <1>2, <1>5, <2>1, <2>2 DEF FindSlot
  <2>3. CASE Holding(id) # {}
    <3>1. slot' = First(Holding(id)) /\ pc' = "callback1"
      BY <1>5, <2>3 DEF FindSlot
    <3>2. InUse(slot')
      BY <1>1, <2>3, <3>1, HoldingInSlots, HoldingIs DEF MapInvariant
    <3>3. QED
      BY <2>1, <3>1, <3>2 DEF MapInvariant, HasCallback, InUse
  <2>4. QED
    BY <2>2, <2>3
<1>6. CASE WriteIdentifier
  <2> DEFINE field == [urcs[slot] EXCEPT !.identifier = id]
  <2>1. Write("identifier", "length", field)
    BY <1>6 DEF WriteIdentifier
  <2>2. field.callback = urcs[slot].callback
        /\ field.identifier_length = urcs[slot].identifier_length
    BY <1>1 DEF Entry
  <2> HIDE DEF field
  <2>3. /\ urcs'[slot] = field /\ pc = "identifier" /\ pc' = "length"
        /\ \A s \in Slot : s # slot => urcs'[s] = urcs[s]
    BY <2>1, WrittenTable DEF MapInvariant
  <2>4. QED
    BY <2>2, <2>3 DEF MapInvariant, HasCallback, InUse
<1>7. CASE WriteLength
  <2> DEFINE field == [urcs[slot] EXCEPT !.identifier_length = Len(id)]
  <2>1. Write("length", "callback1", field)
    BY <1>7 DEF WriteLength
  <2>2. field.identifier_length # 0
    <3>1. id \in Seq(Byte) /\ id # <<>> /\ Len(id) # 0
      BY <1>1, IdAssumption, EmptySeq, LenProperties
    <3>2. QED
      BY <1>1, <3>1 DEF Entry
  <2> HIDE DEF field
  <2>3. /\ urcs'[slot] = field /\ pc = "length" /\ pc' = "callback1"
        /\ \A s \in Slot : s # slot => urcs'[s] = urcs[s]
        /\ slot' = slot
    BY <2>1, WrittenTable DEF MapInvariant
  <2>4. QED
    BY <2>2, <2>3 DEF MapInvariant, HasCallback, InUse
<1>8. ASSUME NEW from \in {"callback1", "callback2"}, NEW to,
             NEW c \in Callback, c # NULL, to # "callback1",
             Write(from, to, [urcs[slot] EXCEPT !.callback = c])
      PROVE  HasCallback'
  <2> DEFINE field == [urcs[slot] EXCEPT !.callback = c]
  <2>1. field.callback = c
        /\ field.identifier_length = urcs[slot].identifier_length
    BY <1>1 DEF Entry
  <2> HIDE DEF field
  <2>2. Write(from, to, field)
    BY <1>8 DEF field
  <2>3. /\ urcs'[slot] = field /\ pc = from /\ pc' = to
        /\ \A s \in Slot : s # slot => urcs'[s] = urcs[s]
        /\ slot' = slot
    BY <2>2, WrittenTable DEF MapInvariant
  <2>4. cancelled' = cancelled
    BY <2>2 DEF Write, history
  <2>5. \A s \in Slot : InUse(s)' => urcs'[s].callback # NULL
    BY <1>8, <2>1, <2>3 DEF MapInvariant, HasCallback, InUse
  <2>6. ~cancelled => InUse(slot)'
    BY <1>8, <2>1, <2>3 DEF MapInvariant, HasCallback, InUse
  <2>7. QED
    BY <2>3, <2>4, <2>5, <2>6 DEF HasCallback
<1>9. CASE WriteCallbackByte
  <2> DEFINE c == IF urcs[slot].callback = callback
                  THEN urcs[slot].callback ELSE Torn
  <2>1. Write("callback1", "callback2", [urcs[slot] EXCEPT !.callback = c])
    BY <1>1, <1>9 DEF WriteCallbackByte
  <2>2. c \in Callback /\ c # NULL
    BY <1>1, CallbackAssumption DEF Entry, Callback
  <2>3. QED
    BY <1>8, <2>1, <2>2
<1>10. CASE WriteCallback
  <2>1. callback \in Callback /\ callback # NULL
    BY <1>1, CallbackAssumption DEF Callback
  <2>2. QED
    BY <1>8, <1>10, <2>1 DEF WriteCallback
<1>11. CASE Unregister
  <2>1. urcs' = UnregisterIn(urcs, id) /\ pc' \in {"result", "idle"}
        /\ pc = "unregister"
    BY <1>11 DEF Unregister
  <2>2. Kept(urcs', urcs, {id})
    BY <1>1, <2>1, UnregisterKeeps, ThisTable DEF MapInvariant
  <2>3. QED
    BY <2>1, <2>2 DEF MapInvariant, HasCallback, InUse,
       Kept, InUseIn
<1>12. CASE CompleteUrc
  <2>1. UNCHANGED <<pc, slot, id>>
    BY <1>12 DEF CompleteUrc, call
  <2>2. CASE urc_current_callback = EndCallback
    <3>1. urcs' = MqttEnd(urcs)
          /\ cancelled' = (cancelled \/ (Registering /\ id \in EndIds))
      BY <1>12, <2>2 DEF CompleteUrc
    <3>2. Kept(urcs', urcs, EndIds)
      BY <1>1, <3>1, MqttEndKeeps, ThisTable DEF MapInvariant
    <3>3. \A s \in Slot : InUse(s)' => InUse(s) /\ urcs'[s] = urcs[s]
      BY <3>2 DEF Kept, InUse, InUseIn
    <3>4. ASSUME pc \in {"callback1", "callback2"}, ~cancelled'
          PROVE  InUse(slot)'
      <4>1. Registering
        BY <1>1, <3>4, RegisteringIs DEF Choosing
      <4>2. id \notin EndIds /\ ~cancelled
        BY <1>1, <3>1, <3>4, <4>1
      <4>3. InUse(slot) /\ urcs[slot].identifier = id
        BY <3>4, <4>2 DEF MapInvariant, HasCallback, Chosen, Choosing
      <4>4. urcs'[slot] = urcs[slot]
        BY <1>1, <3>2, <4>2, <4>3 DEF Kept, InUse, InUseIn
      <4>5. QED
        BY <2>1, <4>3, <4>4 DEF InUse
    <3>5. QED
      BY <2>1, <3>3, <3>4 DEF MapInvariant, HasCallback
  <2>3. CASE urc_current_callback # EndCallback
    <3>1. UNCHANGED <<urcs, cancelled>>
      BY <1>12, <2>3 DEF CompleteUrc, table
    <3>2. QED
      BY <2>1, <3>1 DEF MapInvariant, HasCallback, InUse
  <2>4. QED
    BY <2>2, <2>3
<1>13. CASE GiveUpUrc \/ UNCHANGED vars \/ \E i \in Id : MatchUrc(i)
  <2>1. UNCHANGED <<urcs, pc, slot, cancelled>>
    BY <1>13 DEF GiveUpUrc, MatchUrc, vars, table, history
  <2>2. QED
    BY <2>1 DEF MapInvariant, HasCallback, InUse
<1>14. QED
  BY <1>3, <1>4, <1>5, <1>6, <1>7, <1>9, <1>10, <1>11, <1>12, <1>13
  DEF Next, MainProgram, ReceiveInterrupt

LEMMA MapInvariantStep ==
  ASSUME PrefixFree, MapInvariant, [Next]_vars
  PROVE  MapInvariant'
BY StructureInvariant, HasCallbackStep DEF MapInvariant

(* A full table holds as many identifiers as it has slots.                 *)
LEMMA FullIsFull ==
  ASSUME MapInvariant, pc = "search", Holding(id) = {}, Empty = {}
  PROVE  Map!Full(id)
<1> DEFINE K == {i \in Id \ {id} : CallbackOf(i) # NULL}
           f == [s \in Slot |-> urcs[s].identifier]
<1>1. TypeOK /\ id \in Id /\ pc \in Control
  BY DEF MapInvariant, TypeOK
<1>2. \A s \in Slot : /\ InUse(s)
                      /\ urcs[s].identifier \in Id \ {id}
                      /\ urcs[s].callback # NULL
  <2>1. SUFFICES ASSUME NEW s \in Slot
                 PROVE  /\ InUse(s)
                        /\ urcs[s].identifier \in Id \ {id}
                        /\ urcs[s].callback # NULL
    OBVIOUS
  <2>2. InUse(s)
    BY DEF Empty, InUse
  <2>3. urcs[s].callback # NULL
    BY <2>2 DEF MapInvariant, HasCallback
  <2>4. urcs[s].identifier # id
    BY <1>1, <2>2, HoldingIs
  <2>5. urcs[s].identifier # <<>>
    BY <1>1, <2>2, EmptySeq DEF TypeOK, InUse
  <2>6. QED
    BY <1>1, <2>2, <2>3, <2>4, <2>5, TypesSplit DEF TableTypeOK, Entry
<1>3. \A i \in Id \ {id} : CallbackOf(i) = Found(i)
  BY DEF CallbackOf, Found
<1>4. \A s \in Slot : urcs[s].identifier \in K
  <2>1. SUFFICES ASSUME NEW s \in Slot PROVE urcs[s].identifier \in K
    OBVIOUS
  <2>2. Found(urcs[s].identifier) = urcs[s].callback
    BY <1>1, <1>2, ThisTable, FoundInIs DEF MapInvariant
  <2>3. QED
    BY <1>2, <1>3, <2>2
<1>5. \A i \in K : \E s \in Slot : urcs[s].identifier = i
  <2>1. SUFFICES ASSUME NEW i \in K PROVE \E s \in Slot : urcs[s].identifier = i
    OBVIOUS
  <2>2. Found(i) # NULL /\ i \in Id
    BY <1>3
  <2>3. QED
    BY <1>1, <2>2, ThisTable, NotFoundInIs
<1>6. \A r, s \in Slot : urcs[r].identifier = urcs[s].identifier => r = s
  <2>1. SUFFICES ASSUME NEW r \in Slot, NEW s \in Slot,
                        urcs[r].identifier = urcs[s].identifier, r # s
                 PROVE  FALSE
    OBVIOUS
  <2>2. r \in Nat /\ s \in Nat
    BY SlotAssumption DEF Slot
  <2>3. r < s \/ s < r
    BY <2>1, <2>2
  <2>4. QED
    BY <1>2, <2>1, <2>3 DEF MapInvariant, FirstIsInUse
<1> HIDE DEF K
<1>7. f \in Bijection(Slot, K)
  <2>1. f \in [Slot -> K]
    BY <1>4
  <2>2. \A r, s \in Slot : f[r] = f[s] => r = s
    BY <1>6
  <2>3. \A i \in K : \E s \in Slot : f[s] = i
    BY <1>5
  <2> HIDE DEF f
  <2>4. QED
    BY <2>1, <2>2, <2>3 DEF Bijection, Injection, Surjection, IsInjective
<1>8. ExistsBijection(Slot, K)
  BY <1>7 DEF ExistsBijection
<1>9. IsFiniteSet(Slot) /\ Cardinality(Slot) = MAX_CALLBACKS
  <2>1. 0 \in Int /\ MAX_CALLBACKS - 1 \in Int /\ ~(0 > MAX_CALLBACKS - 1)
    BY SlotAssumption
  <2>2. IsFiniteSet(0 .. MAX_CALLBACKS - 1)
        /\ Cardinality(0 .. MAX_CALLBACKS - 1) = MAX_CALLBACKS - 1 - 0 + 1
    BY <2>1, FS_Interval
  <2>3. MAX_CALLBACKS - 1 - 0 + 1 = MAX_CALLBACKS
    BY SlotAssumption
  <2>4. QED
    BY <2>2, <2>3 DEF Slot
<1>10. Cardinality(K) = MAX_CALLBACKS
  BY <1>8, <1>9, FS_Bijection
<1>11. K = {i \in Id \ {id} : [j \in Id |-> CallbackOf(j)][i] # NULL}
  BY DEF K
<1>12. Map!Cardinality(K) = Cardinality(K)
  BY Zenon DEF Map!Cardinality, Cardinality
<1>13. QED
  BY <1>10, <1>11, <1>12, SlotAssumption DEF Map!Full

(* The variables of UrcMap.                                                *)
MapVars == <<[i \in Id |-> CallbackOf(i)], id, callback,
             IF parsing = <<>> THEN NULL ELSE urc_current_callback>>

(* The map at an identifier.                                               *)
LEMMA CallbackIs ==
  ASSUME NEW i
  PROVE  /\ ~(Registering /\ id = i) => CallbackOf(i) = Found(i)
         /\ Registering /\ id = i
              => CallbackOf(i) = IF cancelled THEN "Cancelled" ELSE "Changing"
BY DEF CallbackOf, Found

LEMMA FoundIsCallback ==
  ASSUME TypeOK, NEW i \in Id
  PROVE  Found(i) \in Callback /\ Found(i) \notin {"Changing", "Cancelled"}
<1>1. Found(i) \in Callback
  <2>1. NULL \in Callback /\ \A s \in Slot : urcs[s].callback \in Callback
    BY TypesSplit DEF TableTypeOK, Entry, Callback
  <2>2. QED
    BY <2>1, HoldingInSlots DEF Found
<1>2. QED
  BY <1>1, MapAssumption

LEMMA RegisteringInMap ==
  ASSUME TypeOK, NEW i \in Id
  PROVE  Map!Registering(i) <=> Registering /\ id = i
BY CallbackIs, FoundIsCallback DEF Map!Registering

(* The map stays what it is, if what is found does, apart from the         *)
(* identifier being registered.                                            *)
LEMMA MapSame ==
  ASSUME Registering' = Registering, id' = id, cancelled' = cancelled,
         \A i \in Id : (Registering /\ id = i) \/ Found(i)' = Found(i)
  PROVE  \A i \in Id : CallbackOf(i)' = CallbackOf(i)
BY DEF CallbackOf, Found

LEMMA MapStep ==
  ASSUME PrefixFree, MapInvariant, [Next]_vars
  PROVE  [Map!Next]_MapVars
<1> DEFINE M == [i \in Id |-> CallbackOf(i)]
           P == IF parsing = <<>> THEN NULL ELSE urc_current_callback
<1>1. /\ urcs \in [Slot -> Entry] /\ urcs[slot] \in Entry
      /\ slot \in Slot /\ id \in Id /\ pc \in Control
      /\ callback \in UserCallback \union {Wait}
      /\ urc_current_callback \in Callback /\ NULL \in Callback
      /\ callback \in Callback
  BY TypesSplit DEF TableTypeOK, RestTypeOK, MapInvariant, Callback
<1>2. MapInvariant'
  BY MapInvariantStep
<1>3. /\ TypeOK /\ Chosen /\ FirstIsInUse
      /\ TypeOK' /\ Chosen' /\ FirstIsInUse'
  BY <1>2 DEF MapInvariant
<1>4. pc' \in Control /\ id' \in Id
  BY <1>3 DEF TypeOK
<1>5. /\ Registering <=> pc \in Choosing \union {"search"}
      /\ Registering' <=> pc' \in Choosing \union {"search"}
  BY <1>1, <1>4, RegisteringIs DEF Control, Registering, Choosing
<1>6. ASSUME \A i \in Id : CallbackOf(i)' = CallbackOf(i)
      PROVE  M' = M
  BY <1>6
<1>7. ASSUME urcs' = urcs
      PROVE  \A i : Found(i)' = Found(i)
  BY <1>7 DEF Found, Holding, Holds
<1>8. ASSUME NEW i \in Id, NEW c \in Callback,
             CallRegister(i, c) \/ (CallWait(i) /\ c = Wait)
      PROVE  Map!Request(i)
  <2>1. /\ urcs' = urcs /\ pc = "idle" /\ pc' = "search" /\ id' = i
        /\ cancelled' = FALSE /\ callback' = c /\ P' = P
    BY <1>8 DEF CallRegister, CallWait, table, interrupt
  <2>2. ~Registering /\ Registering'
    BY <1>5, <2>1 DEF Choosing
  <2>3. CallbackOf(i)' = "Changing"
    BY <2>1, <2>2 DEF CallbackOf
  <2>4. ASSUME NEW j \in Id, j # i PROVE CallbackOf(j)' = CallbackOf(j)
    BY <1>7, <2>1, <2>2, <2>4 DEF CallbackOf, Found
  <2>5. M' = [M EXCEPT ![i] = "Changing"]
    BY <2>3, <2>4
  <2>6. ~Map!Registering(id)
    BY <1>1, <1>3, <2>2, RegisteringInMap
  <2> HIDE DEF M, P
  <2>7. QED
    BY <1>1, <2>1, <2>5, <2>6 DEF Map!Request, M, P
<1>9. ASSUME NEW i \in Id, CallUnregister(i)
      PROVE  Map!Request(i)
  <2>1. /\ urcs' = urcs /\ pc = "idle" /\ pc' = "unregister" /\ id' = i
        /\ callback' = callback /\ P' = P
    BY <1>9 DEF CallUnregister, table, interrupt
  <2>2. ~Registering /\ ~Registering'
    BY <1>5, <2>1 DEF Choosing
  <2>3. M' = M
    BY <1>6, <1>7, <2>1, <2>2 DEF CallbackOf, Found
  <2>4. ~Map!Registering(id)
    BY <1>1, <1>3, <2>2, RegisteringInMap
  <2> HIDE DEF M, P
  <2>5. QED
    BY <1>1, <2>1, <2>3, <2>4 DEF Map!Request, M, P
<1>10. ASSUME UNCHANGED <<id, callback, cancelled>>, P' = P,
              Registering' = Registering,
              \A i \in Id : (Registering /\ id = i) \/ Found(i)' = Found(i)
       PROVE  UNCHANGED MapVars
  BY <1>6, <1>10, MapSame DEF MapVars
<1>11. CASE StopWaiting \/ WaitReturns \/ UNCHANGED vars
  <2>1. /\ urcs' = urcs /\ UNCHANGED <<id, callback, cancelled>> /\ P' = P
        /\ \/ pc' = pc
           \/ /\ pc \in {"waiting", "result"}
              /\ pc' \in {"unregister", "idle"}
    BY <1>11 DEF StopWaiting, WaitReturns, vars, table, call, history,
                 interrupt
  <2>2. Registering' = Registering
    BY <1>5, <2>1 DEF Choosing, Registering
  <2> HIDE DEF P
  <2>3. QED
    BY <1>7, <1>10, <2>1, <2>2
<1>12. CASE FindSlot
  <2>1. /\ urcs' = urcs /\ pc = "search" /\ P' = P
        /\ UNCHANGED <<id, callback, cancelled>>
    BY <1>12 DEF FindSlot, table, call, history, interrupt
  <2>2. CASE pc' = "idle"
    <3>1. Registering /\ ~Registering'
      BY <1>5, <2>1, <2>2 DEF Choosing
    <3>2. Holding(id) = {} /\ Empty = {}
      BY <1>12, <2>2 DEF FindSlot
    <3>3. Map!Full(id)
      BY <2>1, <3>2, FullIsFull
    <3>4. Found(id)' = NULL
      BY <1>7, <2>1, <3>2 DEF Found
    <3>5. CallbackOf(id)' = NULL
      BY <2>1, <3>1, <3>4 DEF CallbackOf, Found
    <3>6. ASSUME NEW j \in Id, j # id PROVE CallbackOf(j)' = CallbackOf(j)
      BY <1>7, <2>1, <3>6 DEF CallbackOf, Found
    <3>7. M' = [M EXCEPT ![id] = NULL]
      BY <1>1, <2>1, <3>5, <3>6
    <3>8. Map!Registering(id)
      BY <1>1, <1>3, <3>1, RegisteringInMap
    <3> HIDE DEF M, P
    <3>9. Map!FinishRegister
      BY <2>1, <3>3, <3>7, <3>8 DEF Map!FinishRegister, M, P
    <3>10. QED
      BY <3>9 DEF Map!Next
  <2>3. CASE pc' # "idle"
    <3>1. pc' \in {"callback1", "identifier"}
      BY <1>12, <2>3 DEF FindSlot
    <3>2. Registering' = Registering
      BY <2>1, <3>1 DEF Registering, Control
    <3> HIDE DEF P
    <3>3. QED
      BY <1>7, <1>10, <2>1, <3>2
  <2>4. QED
    BY <2>2, <2>3
<1>13. ASSUME NEW from \in Choosing, NEW to \in Choosing, NEW field,
              Write(from, to, field),
              field.identifier_length # 0 => field.identifier = id
       PROVE  UNCHANGED MapVars
  <2>1. /\ UNCHANGED <<id, callback, cancelled>> /\ P' = P
        /\ pc = from /\ pc' = to
    BY <1>13 DEF Write, call, history, interrupt
  <2>2. Registering /\ Registering'
    BY <1>5, <2>1
  <2>3. \A i \in Id : i = id \/ Found(i)' = Found(i)
    BY <1>3, <1>13, WriteKeepsOthers
  <2> HIDE DEF P
  <2>4. QED
    BY <1>10, <2>1, <2>2, <2>3
<1>14. CASE WriteIdentifier
  <2> DEFINE field == [urcs[slot] EXCEPT !.identifier = id]
  <2>1. Write("identifier", "length", field) /\ field.identifier = id
    BY <1>1, <1>14 DEF WriteIdentifier, Entry
  <2> HIDE DEF field
  <2>2. QED
    BY <1>13, <2>1 DEF Choosing
<1>15. CASE WriteLength
  <2> DEFINE field == [urcs[slot] EXCEPT !.identifier_length = Len(id)]
  <2>1. Write("length", "callback1", field)
    BY <1>15 DEF WriteLength
  <2>2. urcs[slot].identifier = id
    BY <1>3, <2>1 DEF Chosen, Choosing, Write
  <2>3. field.identifier = id
    BY <1>1, <2>2 DEF Entry
  <2> HIDE DEF field
  <2>4. QED
    BY <1>13, <2>1, <2>3 DEF Choosing
<1>16. CASE WriteCallbackByte
  <2> DEFINE field == [urcs[slot] EXCEPT !.callback =
                         IF @ = callback THEN @ ELSE Torn]
  <2>1. Write("callback1", "callback2", field)
    BY <1>16 DEF WriteCallbackByte
  <2>2. urcs[slot].identifier = id
    BY <1>3, <2>1 DEF Chosen, Choosing, Write
  <2>3. field.identifier = id
    BY <1>1, <2>2 DEF Entry
  <2> HIDE DEF field
  <2>4. QED
    BY <1>13, <2>1, <2>3 DEF Choosing
<1>17. CASE WriteCallback
  <2> DEFINE field == [urcs[slot] EXCEPT !.callback = callback]
             to == IF op = "wait" THEN "waiting" ELSE "idle"
  <2>1. Write("callback2", to, field)
    BY <1>17 DEF WriteCallback
  <2>2. urcs[slot].identifier = id
    BY <1>3, <2>1 DEF Chosen, Choosing, Write
  <2>3. field.identifier = id /\ field.callback = callback
        /\ field.identifier_length = urcs[slot].identifier_length
    BY <1>1, <2>2 DEF Entry
  <2>4. /\ UNCHANGED <<id, callback, cancelled>> /\ P' = P
        /\ pc = "callback2" /\ pc' \in {"waiting", "idle"}
        /\ slot' = slot
    BY <2>1 DEF Write, call, history, interrupt
  <2>5. Registering /\ ~Registering'
    BY <1>5, <2>4 DEF Choosing
  <2> HIDE DEF field
  <2>6. ASSUME NEW j \in Id, j # id PROVE CallbackOf(j)' = CallbackOf(j)
    <3>1. Found(j)' = Found(j)
      BY <1>3, <2>1, <2>3, <2>6, WriteKeepsOthers DEF Choosing
    <3>2. QED
      BY <2>4, <2>5, <2>6, <3>1 DEF CallbackOf, Found
  <2>7. /\ urcs'[slot] = field
        /\ \A s \in Slot : s # slot => urcs'[s] = urcs[s]
    BY <1>3, <2>1, WrittenTable
  <2>8. CallbackOf(id)' = Found(id)'
    BY <2>4, <2>5 DEF CallbackOf, Found
  <2>9. Map!Registering(id)
    BY <1>1, <1>3, <2>5, RegisteringInMap
  <2>10. CASE InUse(slot)
    <3>1. InUse(slot)' /\ urcs'[slot].identifier = id
          /\ urcs'[slot].callback = callback
      BY <2>3, <2>4, <2>7, <2>10 DEF InUse
    <3>2. Found(id)' = callback
      <4>1. InUseIn(urcs', slot)
        BY <1>3, <2>4, <3>1, NextTable DEF InUse, InUseIn
      <4>2. FoundIn(urcs', id) = callback
        BY <1>1, <1>3, <3>1, <4>1, NextTable, FoundInIs
      <4>3. QED
        BY <1>3, <2>4, <4>2, NextTable
    <3>3. M' = [M EXCEPT ![id] = callback]
      BY <1>1, <2>4, <2>6, <2>8, <3>2
    <3> HIDE DEF M, P
    <3>4. Map!FinishRegister
      BY <2>4, <2>9, <3>3 DEF Map!FinishRegister, M, P
    <3>5. QED
      BY <3>4 DEF Map!Next
  <2>11. CASE ~InUse(slot)
    <3>1. cancelled
      BY <2>4, <2>11 DEF MapInvariant, HasCallback
    <3>2. M[id] = "Cancelled"
      BY <1>1, <2>5, <3>1 DEF CallbackOf
    <3>3. \A s \in Slot : InUseIn(urcs', s) => urcs'[s].identifier # id
      BY <1>3, <2>3, <2>4, <2>7, <2>11 DEF Chosen, Choosing, InUse, InUseIn
    <3>4. Found(id)' = NULL
      <4>1. FoundIn(urcs', id) = NULL
        BY <1>1, <1>3, <3>3, NextTable, NotFoundInIs
      <4>2. QED
        BY <1>3, <2>4, <4>1, NextTable
    <3>5. M' = [M EXCEPT ![id] = NULL]
      BY <1>1, <2>4, <2>6, <2>8, <3>4
    <3> HIDE DEF M, P
    <3>6. Map!FinishRegister
      BY <2>4, <2>9, <3>2, <3>5 DEF Map!FinishRegister, M, P
    <3>7. QED
      BY <3>6 DEF Map!Next
  <2>12. QED
    BY <2>10, <2>11
<1>18. ASSUME NEW I \in SUBSET Id, Kept(urcs', urcs, I), NEW i \in Id
       PROVE  Found(i)' = IF i \in I THEN NULL ELSE Found(i)
  <2>1. CASE i \in I
    <3>1. \A s \in Slot : InUseIn(urcs', s) => urcs'[s].identifier # i
      BY <1>18, <2>1 DEF Kept
    <3>2. FoundIn(urcs', i) = NULL
      BY <1>3, <3>1, NextTable, NotFoundInIs
    <3>3. QED
      BY <1>3, <2>1, <3>2, NextTable
  <2>2. CASE i \notin I
    <3>1. \A s \in Slot :
            \/ urcs'[s] = urcs[s]
            \/ /\ ~(InUseIn(urcs, s) /\ urcs[s].identifier = i)
               /\ ~(InUseIn(urcs', s) /\ urcs'[s].identifier = i)
      BY <1>18, <2>2 DEF Kept
    <3>2. LengthsOf(urcs) /\ LengthsOf(urcs')
      BY <1>3, ThisTable, NextTable
    <3>3. FoundIn(urcs', i) = FoundIn(urcs, i)
      BY <3>1, <3>2, FoundSame
    <3>4. QED
      BY <1>3, <2>2, <3>3, ThisTable, NextTable
  <2>3. QED
    BY <2>1, <2>2
<1>19. FirstOf(urcs)
  BY <1>3, ThisTable
<1>20. CASE Unregister
  <2>1. /\ urcs' = UnregisterIn(urcs, id) /\ pc' \in {"result", "idle"}
        /\ pc = "unregister" /\ P' = P
        /\ UNCHANGED <<id, callback, cancelled>>
    BY <1>20 DEF Unregister, call, history, interrupt
  <2>2. ~Registering /\ ~Registering'
    BY <1>5, <2>1 DEF Choosing
  <2>3. Kept(urcs', urcs, {id})
    BY <1>1, <1>19, <2>1, UnregisterKeeps
  <2>4. \A i \in Id : CallbackOf(i)' = IF i = id THEN NULL ELSE CallbackOf(i)
    BY <1>1, <1>18, <2>2, <2>3 DEF CallbackOf, Found
  <2>5. M' = [M EXCEPT ![id] = NULL]
    BY <2>4
  <2>6. ~Map!Registering(id)
    BY <1>1, <1>3, <2>2, RegisteringInMap
  <2> HIDE DEF M, P
  <2>7. Map!Unregister
    BY <2>1, <2>5, <2>6 DEF Map!Unregister, M, P
  <2>8. QED
    BY <2>7 DEF Map!Next
<1>21. ASSUME NEW i \in Id, MatchUrc(i)
       PROVE  Map!Match(i)
  <2>1. /\ urcs' = urcs /\ UNCHANGED <<pc, id, callback, cancelled>>
        /\ parsing' = i /\ Holding(i) # {}
        /\ urc_current_callback' = urcs[First(Holding(i))].callback
    BY <1>21 DEF MatchUrc, table, call
  <2>2. P' = Found(i)
    <3>1. i # <<>>
      BY IdAssumption
    <3>2. QED
      BY <2>1, <3>1 DEF Found
  <2>3. M' = M
    BY <1>6, <1>7, <2>1, MapSame DEF Registering
  <2>4. P' \in IF Map!Registering(i) THEN Callback ELSE {M[i]}
    BY <1>3, <2>2, RegisteringInMap, CallbackIs, FoundIsCallback
  <2> HIDE DEF M, P
  <2>5. QED
    BY <2>1, <2>3, <2>4 DEF Map!Match, M, P
<1>22. CASE CompleteUrc
  <2>1. /\ UNCHANGED <<pc, id, callback>> /\ P' = NULL
        /\ P = urc_current_callback
    BY <1>22 DEF CompleteUrc, call
  <2>2. Registering' = Registering
    BY <2>1 DEF Registering
  <2>3. CASE urc_current_callback = EndCallback
    <3>1. urcs' = MqttEnd(urcs)
          /\ cancelled' = (cancelled \/ (Registering /\ id \in EndIds))
      BY <1>22, <2>3 DEF CompleteUrc
    <3>2. Kept(urcs', urcs, EndIds) /\ EndIds \in SUBSET Id
      BY <1>1, <1>19, <3>1, MqttEndKeeps, CallbackAssumption DEF EndIds
    <3>3. ASSUME NEW i \in Id
          PROVE  CallbackOf(i)' = IF i \notin EndIds THEN M[i]
                                  ELSE IF Map!Registering(i) THEN "Cancelled"
                                  ELSE NULL
      <4>1. Map!Registering(i) <=> Registering /\ id = i
        BY <1>3, RegisteringInMap
      <4>2. CASE Registering /\ id = i
        <5>1. CallbackOf(i)' = IF cancelled' THEN "Cancelled" ELSE "Changing"
          BY <2>1, <2>2, <4>2 DEF CallbackOf
        <5>2. CallbackOf(i) = IF cancelled THEN "Cancelled" ELSE "Changing"
          BY <4>2 DEF CallbackOf
        <5>3. QED
          BY <3>1, <4>1, <4>2, <5>1, <5>2
      <4>3. CASE ~(Registering /\ id = i)
        <5>1. CallbackOf(i)' = Found(i)' /\ CallbackOf(i) = Found(i)
          BY <2>1, <2>2, <4>3 DEF CallbackOf, Found
        <5>2. QED
          BY <1>18, <3>2, <4>1, <4>3, <5>1
      <4>4. QED
        BY <4>2, <4>3
    <3>4. M' = [i \in Id |-> IF i \notin EndIds THEN M[i]
                             ELSE IF Map!Registering(i) THEN "Cancelled"
                             ELSE NULL]
      BY <3>3
    <3> HIDE DEF M, P
    <3>5. Map!Complete
      BY <2>1, <2>3, <3>4 DEF Map!Complete, M, P
    <3>6. QED
      BY <3>5 DEF Map!Next
  <2>4. CASE urc_current_callback # EndCallback
    <3>1. UNCHANGED <<urcs, cancelled>>
      BY <1>22, <2>4 DEF CompleteUrc, table
    <3>2. M' = M
      BY <1>6, <1>7, <2>1, <2>2, <3>1, MapSame
    <3> HIDE DEF M, P
    <3>3. Map!Complete
      BY <2>1, <2>4, <3>2 DEF Map!Complete, M, P
    <3>4. QED
      BY <3>3 DEF Map!Next
  <2>5. QED
    BY <2>3, <2>4
<1>23. CASE GiveUpUrc
  <2>1. urcs' = urcs /\ UNCHANGED <<pc, id, callback, cancelled>> /\ P' = NULL
    BY <1>23 DEF GiveUpUrc, table, call
  <2>2. M' = M
    BY <1>6, <1>7, <2>1, MapSame DEF Registering
  <2> HIDE DEF M, P
  <2>3. Map!GiveUp
    BY <2>1, <2>2 DEF Map!GiveUp, M, P
  <2>4. QED
    BY <2>3 DEF Map!Next
<1>24. ASSUME MainProgram PROVE [Map!Next]_MapVars
  <2>1. CASE \E i \in Id : \/ CallWait(i) \/ CallUnregister(i)
                           \/ \E c \in UserCallback : CallRegister(i, c)
    <3>1. Wait \in Callback /\ UserCallback \subseteq Callback
      BY DEF Callback
    <3>2. \E i \in Id : Map!Request(i)
      BY <1>8, <1>9, <2>1, <3>1
    <3>3. QED
      BY <3>2 DEF Map!Next
  <2>2. QED
    BY <1>11, <1>12, <1>14, <1>15, <1>16, <1>17, <1>20, <1>24, <2>1
    DEF MainProgram
<1>25. ASSUME ReceiveInterrupt PROVE [Map!Next]_MapVars
  <2>1. CASE \E i \in Id : MatchUrc(i)
    BY <1>21, <2>1 DEF Map!Next
  <2>2. QED
    BY <1>22, <1>23, <1>25, <2>1 DEF ReceiveInterrupt
<1>26. QED
  BY <1>11, <1>24, <1>25 DEF Next

(* The table implements a map from identifiers to callbacks: a URC finds   *)
(* the callback registered last for its identifier, whatever is written    *)
(* field by field and whatever callbacks unregister in between.            *)
THEOREM ImplementsMapTheorem ==
  ASSUME PrefixFree
  PROVE  Spec => ImplementsMap
<1>1. Init => MapInvariant
  BY InitInvariant, InitHasCallback DEF TableInvariant, MapInvariant
<1>2. MapInvariant /\ [Next]_vars => MapInvariant'
  BY MapInvariantStep
<1>3. Init => Map!Init
  <2>1. SUFFICES ASSUME Init PROVE Map!Init
    OBVIOUS
  <2>2. ~Registering /\ parsing = <<>> /\ id \in Id /\ callback = Wait
    BY <2>1 DEF Init, Registering
  <2>3. \A i \in Id : CallbackOf(i) = NULL
    <3>1. \A s \in Slot : ~InUseIn(urcs, s)
      BY <2>1 DEF Init, InUseIn
    <3>2. TypeOK
      BY <2>1, InitInvariant DEF TableInvariant
    <3>3. \A i \in Id : Found(i) = NULL
      BY <3>1, <3>2, ThisTable, NotFoundInIs
    <3>4. QED
      BY <2>2, <3>3 DEF CallbackOf, Found
  <2>4. Wait \in Callback
    BY DEF Callback
  <2>5. [i \in Id |-> CallbackOf(i)] = [i \in Id |-> NULL]
    BY <2>3
  <2>6. QED
    BY <2>2, <2>4, <2>5 DEF Map!Init
<1>4. MapInvariant /\ [Next]_vars => [Map!Next]_MapVars
  BY MapStep
<1>5. QED
  BY <1>1, <1>2, <1>3, <1>4, PTL DEF Spec, ImplementsMap, Map!Spec, MapVars
=============================================================================
