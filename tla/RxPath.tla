------------------------------- MODULE RxPath -------------------------------
(***************************************************************************)
(* The receive path of sequans_controller.cpp: the ring buffer the USART   *)
(* receive interrupt fills and the main program reads, the RTS line that   *)
(* holds the modem back, and the modes in which RTS is not updated (a      *)
(* critical section, power save).                                          *)
(*                                                                         *)
(* One step of an interrupt is a whole interrupt: interrupts do not nest.  *)
(* The main program is cut where an interrupt can change what it uses: at  *)
(* the checks it makes with interrupts enabled, around its cli()/sei()     *)
(* blocks and before every write to the RTS line.                          *)
(*                                                                         *)
(* The modem may send while RTS is asserted (line LOW), and at most        *)
(* Overshoot more bytes after it has been de-asserted.                     *)
(***************************************************************************)
EXTENDS UrcParser

CONSTANTS
  RX_BUFFER_SIZE,
  RX_BUFFER_ALMOST_FULL,
  COUNTER_SIZE,     \* rx_num_elements counts modulo this: 2^16
  Overshoot         \* bytes the modem may send after RTS went HIGH

ASSUME RingAssumption ==
  /\ RX_BUFFER_SIZE \in Nat \ {0}
  /\ RX_BUFFER_ALMOST_FULL \in 1 .. RX_BUFFER_SIZE
  /\ COUNTER_SIZE \in Nat /\ COUNTER_SIZE > RX_BUFFER_SIZE
  /\ Overshoot \in Nat
  /\ IDENTIFIER_SIZE + 2 <= RX_BUFFER_SIZE
  /\ DATA_SIZE <= RX_BUFFER_SIZE
ASSUME NullAssumption == NULL \notin Byte

VARIABLES
  rx_buffer,
  rx_head_index,            \* slot of the newest byte
  rx_tail_index,            \* slot before the oldest unread byte
  rx_num_elements,          \* number of unread bytes
  rts,                      \* level of the RTS line: LOW lets the modem send
  overshoot,                \* bytes the modem may still send while it is HIGH
  critical_section_enabled,
  power_save_mode,
  ring_line_callback,       \* is the RING interrupt attached?
  pc,                       \* what the main program does next
  reading,                  \* is it in readByte?
  late,       \* history: how often the modem was let send although the ring
              \* was almost full, since it last was not
  miscounted  \* history: rx_num_elements no longer counts the unread bytes

ring == <<rx_buffer, rx_head_index, rx_tail_index, rx_num_elements>>
modes == <<critical_section_enabled, power_save_mode, ring_line_callback>>
flow == <<rts, overshoot, late>>
vars == <<parser, ring, flow, modes, pc, reading, miscounted>>

Index == 0 .. RX_BUFFER_SIZE - 1

(* The control points of the main program:                                 *)
(*   idle      outside the functions below                                 *)
(*   take      readByte: isRxReady() was true, cli() comes next            *)
(*   update    rtsUpdate() comes next                                      *)
(*   assert    rtsUpdate() or one of the mode changes sets RTS LOW next    *)
(*   deassert  ... HIGH next                                               *)
(*   return    readByte: return rx_buffer[next_tail_index] comes next      *)
(*   armed     setPowerSaveMode(1): the RING interrupt has been attached   *)
Control == {"idle", "take", "update", "assert", "deassert", "return", "armed"}

TypeOK ==
  /\ ParserTypeOK
  /\ rx_buffer \in [Index -> Byte]
  /\ rx_head_index \in Index
  /\ rx_tail_index \in Index
  /\ rx_num_elements \in 0 .. COUNTER_SIZE - 1
  /\ rts \in {"LOW", "HIGH"}
  /\ overshoot \in 0 .. Overshoot
  /\ critical_section_enabled \in BOOLEAN
  /\ power_save_mode \in {0, 1}
  /\ ring_line_callback \in BOOLEAN
  /\ pc \in Control
  /\ reading \in BOOLEAN
  /\ late \in Nat
  /\ miscounted \in BOOLEAN

Init ==
  /\ ParserInit
  /\ rx_buffer \in [Index -> {CHOOSE b \in Byte : TRUE}]
  /\ rx_head_index = 0
  /\ rx_tail_index = 0
  /\ rx_num_elements = 0
  /\ rts = "LOW"
  /\ overshoot = Overshoot
  /\ critical_section_enabled = FALSE
  /\ power_save_mode = 0
  /\ ring_line_callback = FALSE
  /\ pc = "idle"
  /\ reading = FALSE
  /\ late = 0
  /\ miscounted = FALSE
-----------------------------------------------------------------------------
(* Mutants, here and below: a definition as a plausible bug would have it. *)
Successor_NoWrap(i) == i + 1
Back_Forgotten(i, n) == i
FlowControlled_InCriticalSection == power_save_mode = 0
FlowControlled_InPowerSave == ~critical_section_enabled
RtsFor_OffByOne(num) == IF num <= RX_BUFFER_ALMOST_FULL THEN "LOW" ELSE "HIGH"

(* Index arithmetic of the ring: (i + 1) & RX_BUFFER_MASK and              *)
(* (i - n) & RX_BUFFER_MASK, and that of the 16-bit counter.               *)
Successor(i) == IF i + 1 = RX_BUFFER_SIZE THEN 0 ELSE i + 1
Back(i, n) == IF n <= i THEN i - n ELSE i + RX_BUFFER_SIZE - n
Increment(n) == IF n + 1 = COUNTER_SIZE THEN 0 ELSE n + 1
Decrement(n) == IF n = 0 THEN COUNTER_SIZE - 1 ELSE n - 1

(* rtsUpdate(): nothing in power save or in a critical section.            *)
FlowControlled == power_save_mode = 0 /\ ~critical_section_enabled
RtsFor(num) == IF num < RX_BUFFER_ALMOST_FULL THEN "LOW" ELSE "HIGH"

AlmostFull == rx_num_elements >= RX_BUFFER_ALMOST_FULL

(* A write to the RTS line by the main program or the RING interrupt.      *)
SetRts(level) ==
  /\ rts' = level
  /\ overshoot' = IF level = "LOW" THEN Overshoot ELSE overshoot
  /\ late' = IF level = "LOW" /\ rts = "HIGH" /\ AlmostFull THEN late + 1
             ELSE late

ModemMaySend == rts = "LOW" \/ overshoot > 0

(* ISR(USART1_RXC_vect): store the byte, parse it, take a URC's bytes back *)
(* out of the ring, call its callback with RTS HIGH and set RTS LOW behind *)
(* it, then rtsUpdate(), which may set RTS HIGH again: the modem has seen  *)
(* it LOW in between.                                                      *)
ReceiveByte(b) ==
  LET received == Increment(rx_num_elements)
      rewind == Rewind(b, received)
      num == received - rewind
      pulse == Called(b) # NULL
      budget == IF rts = "LOW" THEN Overshoot ELSE overshoot - 1
      level == CASE FlowControlled -> RtsFor(num)
                 [] ~FlowControlled /\ pulse -> "LOW"
                 [] OTHER -> rts
  IN  /\ ModemMaySend
      /\ Parse(b)
      /\ rx_buffer' = [rx_buffer EXCEPT ![Successor(rx_head_index)] = b]
      /\ rx_head_index' = Back(Successor(rx_head_index), rewind)
      /\ rx_num_elements' = num
      /\ rts' = level
      /\ overshoot' = IF level = "LOW" \/ pulse THEN Overshoot ELSE budget
      /\ late' = IF num < RX_BUFFER_ALMOST_FULL THEN 0
                 ELSE IF pulse \/ (~FlowControlled /\ level = "LOW")
                      THEN late + 1
                      ELSE late
      /\ miscounted' = \/ miscounted
                       \/ rx_num_elements + 1 = COUNTER_SIZE
                       \/ pc = "take" /\ num = 0
      /\ UNCHANGED <<rx_tail_index, modes, pc, reading>>

(* RingInterrupt() with the callback low_power.cpp registers, which calls  *)
(* setPowerSaveMode(0, NULL) ...                                           *)
LeaveByRing ==
  /\ ring_line_callback' = FALSE
  /\ power_save_mode' = 0
  /\ SetRts("LOW")
  /\ UNCHANGED <<parser, ring, critical_section_enabled, pc, reading,
                 miscounted>>

(* ... only when setPowerSaveMode(1) has returned: before that the         *)
(* callback does nothing (LowPower.RingCallback; RxPathProofs shows that   *)
(* this is so).                                                            *)
EnteringPowerSave ==
  pc = "armed" \/ (pc = "deassert" /\ ~critical_section_enabled)

RingInterrupt ==
  /\ ring_line_callback
  /\ ~EnteringPowerSave
  /\ LeaveByRing
-----------------------------------------------------------------------------
(* readByte(): isRxReady(), with interrupts enabled.                       *)
CheckRxReady ==
  /\ pc = "idle"
  /\ rx_num_elements > 0
  /\ pc' = "take"
  /\ reading' = TRUE
  /\ UNCHANGED <<parser, ring, flow, modes, miscounted>>

TakeByte_NotCounted ==
  /\ pc = "take"
  /\ rx_tail_index' = Successor(rx_tail_index)
  /\ pc' = "update"
  /\ UNCHANGED <<parser, rx_buffer, rx_head_index, rx_num_elements, flow,
                 modes, reading, miscounted>>

ClearReceiveBuffer_KeepsTail ==
  /\ pc = "idle"
  /\ rx_num_elements' = 0
  /\ pc' = "update"
  /\ UNCHANGED <<parser, rx_buffer, rx_head_index, rx_tail_index, flow,
                 modes, reading, miscounted>>

DecideRts_Skipped ==
  /\ pc = "update"
  /\ pc' = IF reading THEN "return" ELSE "idle"
  /\ UNCHANGED <<parser, ring, flow, modes, reading, miscounted>>

(* readByte(): from cli() to sei().                                        *)
TakeByte ==
  /\ pc = "take"
  /\ rx_tail_index' = Successor(rx_tail_index)
  /\ rx_num_elements' = Decrement(rx_num_elements)
  /\ late' = IF rx_num_elements' < RX_BUFFER_ALMOST_FULL THEN 0 ELSE late
  /\ pc' = "update"
  /\ UNCHANGED <<parser, rx_buffer, rx_head_index, rts, overshoot, modes,
                 reading, miscounted>>

(* clearReceiveBuffer(): from cli() to sei().                              *)
ClearReceiveBuffer ==
  /\ pc = "idle"
  /\ rx_num_elements' = 0
  /\ rx_tail_index' = rx_head_index
  /\ late' = 0
  /\ pc' = "update"
  /\ UNCHANGED <<parser, rx_buffer, rx_head_index, rts, overshoot, modes,
                 reading, miscounted>>

(* rtsUpdate() called by the main program: the decision, and then the      *)
(* write to the line, an interrupt later perhaps.                          *)
AfterUpdate == IF reading THEN "return" ELSE "idle"

DecideRts ==
  /\ pc = "update"
  /\ pc' = CASE ~FlowControlled -> AfterUpdate
             [] FlowControlled /\ RtsFor(rx_num_elements) = "LOW" -> "assert"
             [] OTHER -> "deassert"
  /\ UNCHANGED <<parser, ring, flow, modes, reading, miscounted>>

WriteRts ==
  /\ \/ pc = "assert" /\ SetRts("LOW")
     \/ pc = "deassert" /\ SetRts("HIGH")
  /\ pc' = AfterUpdate
  /\ UNCHANGED <<parser, ring, modes, reading, miscounted>>

(* readByte(): return rx_buffer[next_tail_index].                          *)
ReturnByte ==
  /\ pc = "return"
  /\ pc' = "idle"
  /\ reading' = FALSE
  /\ UNCHANGED <<parser, ring, flow, modes, miscounted>>
-----------------------------------------------------------------------------
(* startCriticalSection() and stopCriticalSection(): the flag, then RTS.   *)
StartCriticalSection ==
  /\ pc = "idle"
  /\ critical_section_enabled' = TRUE
  /\ pc' = "deassert"
  /\ UNCHANGED <<parser, ring, flow, power_save_mode,
                 ring_line_callback, reading, miscounted>>

StopCriticalSection ==
  /\ pc = "idle"
  /\ critical_section_enabled
  /\ critical_section_enabled' = FALSE
  /\ pc' = "assert"
  /\ UNCHANGED <<parser, ring, flow, power_save_mode,
                 ring_line_callback, reading, miscounted>>

(* setPowerSaveMode(1, callback): attach the RING interrupt, then set the  *)
(* mode, then RTS HIGH.                                                    *)
ArmRing ==
  /\ pc = "idle"
  /\ ring_line_callback' = TRUE
  /\ pc' = "armed"
  /\ UNCHANGED <<parser, ring, flow, critical_section_enabled,
                 power_save_mode, reading, miscounted>>

EnterPowerSave ==
  /\ pc = "armed"
  /\ power_save_mode' = 1
  /\ pc' = "deassert"
  /\ UNCHANGED <<parser, ring, flow, critical_section_enabled,
                 ring_line_callback, reading, miscounted>>

(* setPowerSaveMode(0, NULL) called by the main program.                   *)
LeavePowerSave ==
  /\ pc = "idle"
  /\ ring_line_callback' = FALSE
  /\ power_save_mode' = 0
  /\ pc' = "assert"
  /\ UNCHANGED <<parser, ring, flow, critical_section_enabled,
                 reading, miscounted>>
-----------------------------------------------------------------------------
(* Receiving and reading ...                                               *)
Receiving ==
  \/ \E b \in Byte : ReceiveByte(b)
  \/ CheckRxReady \/ TakeByte \/ ReturnByte
  \/ ClearReceiveBuffer
  \/ DecideRts \/ WriteRts

(* ... with every mode change between them.                                *)
ModeChange ==
  \/ StartCriticalSection \/ StopCriticalSection
  \/ ArmRing \/ EnterPowerSave \/ LeavePowerSave
  \/ RingInterrupt

Next == Receiving \/ ModeChange
Spec == Init /\ [][Next]_vars
-----------------------------------------------------------------------------
(* RTS bounds how far the ring fills, until a URC is taken out of it       *)
(* between the isRxReady() of readByte, which comes with interrupts on,    *)
(* and its cli(), or the count wraps around at its 16 bits: one overshoot  *)
(* above RX_BUFFER_ALMOST_FULL, and one overshoot and one byte more for    *)
(* every time that RTS is LOW although the ring is that full, be it        *)
(* written LOW behind a callback, by the main program after the interrupt  *)
(* has set it HIGH, or at the end of a suspension of flow control, or left *)
(* LOW in one.  (Where that bound is below RX_BUFFER_SIZE, no byte is      *)
(* overwritten before it is returned: with 510 of 512, for an Overshoot of *)
(* at most 1 and none of those times, or an Overshoot of 0 and one.)       *)
FillBounded ==
  miscounted \/
    rx_num_elements <=
      RX_BUFFER_ALMOST_FULL + Overshoot + late * (Overshoot + 1)

(* RTS is not left HIGH with nothing to read: readByte of an empty ring    *)
(* does not update RTS, so nobody else would let the modem send again.     *)
NoStall ==
  (rts = "HIGH" /\ pc = "idle" /\ FlowControlled) =>
    (miscounted \/ rx_num_elements > 0)

(* Whatever happens, overruns and races included, head, tail and count     *)
(* agree modulo the size of the ring: every byte stored, read, cleared or  *)
(* taken back is counted once.                                             *)
CountsAgree ==
  (rx_tail_index + rx_num_elements) % RX_BUFFER_SIZE = rx_head_index

(* While flow control is suspended only three things set RTS LOW: the end  *)
(* of a URC callback, the RING interrupt, and a mode function's own write  *)
(* (readByte does not).                                                    *)
SuspensionHolds ==
  [][(/\ power_save_mode = 1 \/ critical_section_enabled
      /\ rts = "HIGH" /\ rts' = "LOW") =>
        \/ urc_current_callback # NULL /\ urc_current_callback' = NULL
        \/ RingInterrupt
        \/ pc = "assert" /\ ~reading]_vars

(* The ring implements a FIFO of bytes, of which it keeps the last         *)
(* RX_BUFFER_SIZE.                                                         *)
Unread ==
  [k \in 1 .. rx_num_elements |->
     rx_buffer[(rx_tail_index + k) % RX_BUFFER_SIZE]]
Promised ==
  IF reading /\ pc # "take" THEN rx_buffer[rx_tail_index] ELSE NULL

Queue == INSTANCE ByteQueue
           WITH Capacity <- RX_BUFFER_SIZE, None <- NULL,
                queue <- Unread, promised <- Promised

ReadsInOrder ==
  Queue!Init /\ [][miscounted' \/ Queue!Next]_<<Unread, Promised>>
=============================================================================
