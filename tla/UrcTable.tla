------------------------------ MODULE UrcTable ------------------------------
(***************************************************************************)
(* The table of URC callbacks of sequans_controller.cpp and waitForURC(),  *)
(* which registers a callback of its own, waits for it to be called or for *)
(* a timeout, and unregisters it.                                          *)
(*                                                                         *)
(* The main program writes the fields of a slot one after the other with   *)
(* interrupts enabled, a callback pointer in two bytes; the receive        *)
(* interrupt looks a slot up when the identifier of a URC has arrived, and *)
(* calls the callback it found there when the data has arrived, after the  *)
(* main program has gone on.  A callback may itself unregister URCs: that  *)
(* of +CEREG calls MqttClient.end() (lte.cpp:69).                          *)
(*                                                                         *)
(* The data of a URC is abstracted to the identifier it came with.         *)
(***************************************************************************)
EXTENDS Naturals, Sequences

CONSTANTS
  Byte,          \* the bytes of identifiers
  Id,            \* the identifiers in use, sequences of them
  MAX_CALLBACKS, \* MAX_URC_CALLBACKS
  UserCallback,  \* callbacks given to registerCallback()
  EndCallback,   \* the one of them that calls MqttClient.end()
  MQTT_ON_MESSAGE_URC, MQTT_ON_DISCONNECT_URC, \* what that unregisters
  Wait,          \* waitForUrcCallback
  Torn,          \* a pointer with one byte of the old and one of the new value
  NULL

ASSUME IdAssumption == Id \subseteq Seq(Byte) \ {<<>>}
ASSUME SlotAssumption == MAX_CALLBACKS \in Nat \ {0}
ASSUME CallbackAssumption ==
  /\ EndCallback \in UserCallback
  /\ Wait \notin UserCallback /\ Wait # Torn /\ Wait # NULL /\ Torn # NULL
  /\ Torn \notin UserCallback /\ NULL \notin UserCallback
  /\ {MQTT_ON_MESSAGE_URC, MQTT_ON_DISCONNECT_URC} \subseteq Id

Slot == 0 .. MAX_CALLBACKS - 1
Callback == UserCallback \union {Wait, Torn, NULL}
ASSUME MapAssumption == Callback \intersect {"Changing", "Cancelled"} = {}
EndIds == {MQTT_ON_MESSAGE_URC, MQTT_ON_DISCONNECT_URC}

VARIABLES
  urcs,      \* slot -> [identifier, identifier_length, callback]
  parsing,   \* identifier of the URC whose data is being received, or <<>>
  urc_current_callback,
  got_wait_for_urc_callback,
  wait_for_urc_buffer,  \* the identifier its data came with, or <<>>
  pc, op, id, callback, slot,  \* the main program: see Control
  cancelled, \* history: a callback unregistered id during its registration
  mine,      \* history: the URC being received found this waitForURC's slot
  answered,  \* history: and its data has arrived
  late       \* history: another URC had found the slot of an earlier
             \* waitForURC when this one was called

table == <<urcs>>
history == <<cancelled, mine, answered, late>>
interrupt == <<parsing, urc_current_callback>>
wait == <<got_wait_for_urc_callback, wait_for_urc_buffer>>
call == <<op, id, callback>>
vars == <<table, interrupt, wait, call, pc, slot, history>>

(* idle, then for registerCallback search, identifier, length, callback1   *)
(* and callback2 (the two bytes of the pointer); waiting is the loop of    *)
(* waitForURC, unregister the search and the writes of unregisterCallback, *)
(* result the last test of waitForURC.  should_clear, which is written     *)
(* last, is left out: no property here depends on it.                      *)
Control == {"idle", "search", "identifier", "length", "callback1",
            "callback2", "waiting", "unregister", "result"}
Op == {"register", "unregister", "wait"}
Registering == pc \in Control \ {"idle", "waiting", "unregister", "result"}

TypeOK ==
  /\ urcs \in [Slot -> [identifier : Id \union {<<>>},
                        identifier_length : Nat, callback : Callback]]
  /\ \A s \in Slot : urcs[s].identifier_length
                       \in {0, Len(urcs[s].identifier)}
  /\ parsing \in Id \union {<<>>}
  /\ urc_current_callback \in Callback
  /\ got_wait_for_urc_callback \in BOOLEAN
  /\ wait_for_urc_buffer \in Id \union {<<>>}
  /\ pc \in Control /\ op \in Op /\ id \in Id
  /\ callback \in UserCallback \union {Wait}
  /\ slot \in Slot
  /\ {cancelled, mine, answered, late} \subseteq BOOLEAN

Init ==
  /\ urcs = [s \in Slot |-> [identifier |-> <<>>, identifier_length |-> 0,
                             callback |-> NULL]]
  /\ parsing = <<>>
  /\ urc_current_callback = NULL
  /\ got_wait_for_urc_callback = FALSE
  /\ wait_for_urc_buffer = <<>>
  /\ pc = "idle" /\ op = "unregister" /\ id \in Id
  /\ callback = Wait /\ slot = 0
  /\ cancelled = FALSE /\ mine = FALSE /\ answered = FALSE /\ late = FALSE
-----------------------------------------------------------------------------
First(S) == CHOOSE s \in S : \A t \in S : s <= t

(* A slot is in use when its length is not 0.  The interrupt and the       *)
(* search for a slot to override compare length and bytes ...              *)
Holds(s, i) ==
  urcs[s].identifier_length = Len(i) /\ urcs[s].identifier = i
Holding(i) == {s \in Slot : Holds(s, i)}
Empty == {s \in Slot : urcs[s].identifier_length = 0}

(* ... unregisterCallback compares as many bytes as the identifier it is   *)
(* given has, in slots in use and in slots no longer in use.               *)
Begins(i, text) ==
  Len(i) <= Len(text) /\ SubSeq(text, 1, Len(i)) = i

(* That tells identifiers apart if none of them begins another.            *)
PrefixFree == \A i, j \in Id : Begins(i, j) => i = j

(* Mutants, here and below: a definition as a plausible bug would have it. *)
UnregisterIn_KeepsLength(t, i) ==
  LET hits == {s \in Slot : Begins(i, t[s].identifier)}
  IN  IF hits = {} THEN t ELSE [t EXCEPT ![First(hits)].callback = NULL]

(* unregisterCallback(i): the length, then the callback; with the length 0 *)
(* the interrupt does not look at the callback any more.                   *)
UnregisterIn(t, i) ==
  LET hits == {s \in Slot : Begins(i, t[s].identifier)}
  IN  IF hits = {} THEN t
      ELSE [t EXCEPT ![First(hits)].identifier_length = 0,
                     ![First(hits)].callback = NULL]

(* MqttClient.end()                                                        *)
MqttEnd(t) ==
  UnregisterIn(UnregisterIn(t, MQTT_ON_MESSAGE_URC), MQTT_ON_DISCONNECT_URC)
-----------------------------------------------------------------------------
(* registerCallback(i, c)                                                  *)
CallRegister(i, c) ==
  /\ pc = "idle"
  /\ pc' = "search"
  /\ op' = "register" /\ id' = i /\ callback' = c
  /\ cancelled' = FALSE
  /\ UNCHANGED <<table, interrupt, wait, slot, mine, answered, late>>

CallWait_KeepsFlag(i) ==
  /\ pc = "idle"
  /\ pc' = "search"
  /\ op' = "wait" /\ id' = i /\ callback' = Wait
  /\ cancelled' = FALSE /\ mine' = FALSE /\ answered' = FALSE
  /\ late' = (urc_current_callback = Wait)
  /\ UNCHANGED <<table, interrupt, wait, slot>>

(* waitForURC(i): the flag is cleared before the callback is registered.   *)
CallWait(i) ==
  /\ pc = "idle"
  /\ got_wait_for_urc_callback' = FALSE
  /\ pc' = "search"
  /\ op' = "wait" /\ id' = i /\ callback' = Wait
  /\ cancelled' = FALSE /\ mine' = FALSE /\ answered' = FALSE
  /\ late' = (urc_current_callback = Wait)
  /\ UNCHANGED <<table, interrupt, wait_for_urc_buffer, slot>>

CallUnregister(i) ==
  /\ pc = "idle"
  /\ pc' = "unregister"
  /\ op' = "unregister" /\ id' = i
  /\ UNCHANGED <<table, interrupt, wait, callback, slot, history>>

FindSlot_NoOverride ==
  /\ pc = "search"
  /\ \/ Empty # {} /\ slot' = First(Empty) /\ pc' = "identifier"
     \/ Empty = {} /\ pc' = "idle" /\ UNCHANGED slot
  /\ UNCHANGED <<table, interrupt, wait, call, history>>

(* Override the slot of the identifier, or take the first empty one; when  *)
(* there is none, return false (and waitForURC does, too).                 *)
FindSlot ==
  /\ pc = "search"
  /\ \/ /\ Holding(id) # {}
        /\ slot' = First(Holding(id))
        /\ pc' = "callback1"
     \/ /\ Holding(id) = {} /\ Empty # {}
        /\ slot' = First(Empty)
        /\ pc' = "identifier"
     \/ /\ Holding(id) = {} /\ Empty = {}
        /\ pc' = "idle"
        /\ UNCHANGED slot
  /\ UNCHANGED <<table, interrupt, wait, call, history>>

Write(from, to, field) ==
  /\ pc = from
  /\ urcs' = [urcs EXCEPT ![slot] = field]
  /\ pc' = to
  /\ UNCHANGED <<interrupt, wait, call, slot, history>>

StopWaiting_ClearsFlag ==
  /\ pc = "waiting"
  /\ pc' = "unregister"
  /\ got_wait_for_urc_callback' = FALSE
  /\ UNCHANGED <<table, interrupt, wait_for_urc_buffer, call, slot, history>>

WriteIdentifier ==
  Write("identifier", "length", [urcs[slot] EXCEPT !.identifier = id])
WriteLength ==
  Write("length", "callback1",
        [urcs[slot] EXCEPT !.identifier_length = Len(id)])
WriteCallbackByte ==
  Write("callback1", "callback2",
        [urcs[slot] EXCEPT !.callback = IF @ = callback THEN @ ELSE Torn])
WriteCallback ==
  Write("callback2", IF op = "wait" THEN "waiting" ELSE "idle",
        [urcs[slot] EXCEPT !.callback = callback])

(* The loop of waitForURC ends with the flag or with the timer.            *)
StopWaiting ==
  /\ pc = "waiting"
  /\ pc' = "unregister"
  /\ UNCHANGED <<table, interrupt, wait, call, slot, history>>

Unregister ==
  /\ pc = "unregister"
  /\ urcs' = UnregisterIn(urcs, id)
  /\ pc' = IF op = "wait" THEN "result" ELSE "idle"
  /\ UNCHANGED <<interrupt, wait, call, slot, history>>

(* waitForURC returns true with wait_for_urc_buffer, or false.             *)
WaitReturns ==
  /\ pc = "result"
  /\ pc' = "idle"
  /\ UNCHANGED <<table, interrupt, wait, call, slot, history>>
-----------------------------------------------------------------------------
(* The receive interrupt at the end of identifier i: the first slot that   *)
(* holds it.  (UrcParser.tla is about the bytes.)                          *)
MatchUrc(i) ==
  /\ parsing = <<>>
  /\ Holding(i) # {}
  /\ parsing' = i
  /\ urc_current_callback' = urcs[First(Holding(i))].callback
  /\ mine' = (op = "wait" /\ id = i /\ pc = "waiting")
  /\ UNCHANGED <<table, wait, call, pc, slot, cancelled, answered, late>>

(* ... and at the end of its data: the callback is called.                 *)
CompleteUrc ==
  /\ parsing # <<>>
  /\ parsing' = <<>>
  /\ urc_current_callback' = NULL
  /\ IF urc_current_callback = Wait
     THEN got_wait_for_urc_callback' = TRUE /\ wait_for_urc_buffer' = parsing
     ELSE UNCHANGED wait
  /\ IF urc_current_callback = EndCallback
     THEN /\ urcs' = MqttEnd(urcs)
          /\ cancelled' = (cancelled \/ (Registering /\ id \in EndIds))
     ELSE UNCHANGED <<table, cancelled>>
  /\ answered' = (answered \/ mine)
  /\ mine' = FALSE
  /\ UNCHANGED <<call, pc, slot, late>>

(* ... or its data is longer than the buffer and it is given up.           *)
GiveUpUrc ==
  /\ parsing # <<>>
  /\ parsing' = <<>>
  /\ mine' = FALSE
  /\ UNCHANGED <<table, urc_current_callback, wait, call, pc, slot,
                 cancelled, answered, late>>
-----------------------------------------------------------------------------
MainProgram ==
  \/ \E i \in Id : \/ CallWait(i) \/ CallUnregister(i)
                   \/ \E c \in UserCallback : CallRegister(i, c)
  \/ FindSlot
  \/ WriteIdentifier \/ WriteLength \/ WriteCallbackByte \/ WriteCallback
  \/ StopWaiting \/ Unregister \/ WaitReturns

ReceiveInterrupt ==
  \/ \E i \in Id : MatchUrc(i)
  \/ CompleteUrc
  \/ GiveUpUrc

Next == MainProgram \/ ReceiveInterrupt
Spec == Init /\ [][Next]_vars
-----------------------------------------------------------------------------
(* No identifier is in two slots, whatever the main program and a callback *)
(* register and unregister in between: the second would never be found.    *)
IdentifiersUnique ==
  \A s, t \in Slot :
    (s # t /\ urcs[s].identifier_length > 0 /\ urcs[t].identifier_length > 0)
      => urcs[s].identifier # urcs[t].identifier

(* A URC that arrives once waitForURC has registered its callback, and     *)
(* ends before it returns, is what it returns true for: also when the      *)
(* timer runs out between the two.                                         *)
WaitNoticesUrc ==
  (pc = "result" /\ answered) => got_wait_for_urc_callback

(* When waitForURC returns true, the data it returns is that of the URC it *)
(* was asked for, unless the interrupt was still receiving the URC of an   *)
(* earlier waitForURC, which had timed out, when this one was called: it   *)
(* remembers the callback, which is the same for all of them, and calls it *)
(* whenever that URC ends.                                                 *)
WaitReturnsItsUrc ==
  (pc = "result" /\ got_wait_for_urc_callback /\ ~late) =>
    wait_for_urc_buffer = id

(* The table implements a map.                                             *)
CallbackOf(i) ==
  IF Registering /\ id = i THEN (IF cancelled THEN "Cancelled" ELSE "Changing")
  ELSE IF Holding(i) # {} THEN urcs[First(Holding(i))].callback
  ELSE NULL

Map == INSTANCE UrcMap
         WITH map <- [i \in Id |-> CallbackOf(i)],
              subject <- id, requested <- callback,
              pending <- IF parsing = <<>> THEN NULL ELSE urc_current_callback,
              Capacity <- MAX_CALLBACKS,
              Changing <- "Changing", Cancelled <- "Cancelled"

ImplementsMap == Map!Spec
=============================================================================
