------------------------------- MODULE TxPath -------------------------------
(***************************************************************************)
(* The transmit path of sequans_controller.cpp: the ring buffer that       *)
(* appendDataToTransmitBuffer() fills and the data register empty          *)
(* interrupt (DRE) sends from, and the CTS line with which the modem stops *)
(* and starts that interrupt.                                              *)
(*                                                                         *)
(* The main program is cut at every test of CTS, of the timer and of the   *)
(* number of bytes, and at every write to DREIE.  CTSInterrupt() is cut    *)
(* once: it reads the line first and clears the flag of the pin last, so   *)
(* an edge that comes in between is lost.  Interrupts do not nest.         *)
(*                                                                         *)
(* A read-modify-write of CTRLA is one step: DREIE is the only bit of it   *)
(* that changes here, and it is written to a fixed value.                  *)
(***************************************************************************)
EXTENDS Integers, Sequences

CONSTANTS
  Byte,
  TX_BUFFER_SIZE,
  MaxWrites,   \* bound on the bytes appended, for TLC
  NULL

ASSUME TxAssumption ==
  /\ Byte # {}
  /\ TX_BUFFER_SIZE \in Nat \ {0}
  /\ MaxWrites \in Nat
  /\ NULL \notin Byte

VARIABLES
  tx_buffer,
  tx_head_index,     \* slot of the newest byte
  tx_tail_index,     \* slot before the oldest byte not sent
  tx_num_elements,   \* number of bytes not sent
  dreie,             \* is the DRE interrupt enabled?
  cts,               \* level of the CTS line: LOW lets us send
  cts_int,           \* the flag of the pin: an edge has been seen
  in_isr,            \* CTSInterrupt() is running
  pc,                \* what the main program does next
  data,              \* the byte being appended, or NULL
  timed_out,         \* has timeout_timer run out?
  writes,            \* bytes appended so far, up to MaxWrites
  overflowed         \* history: a byte was stored in a full ring

ring == <<tx_buffer, tx_head_index, tx_tail_index, tx_num_elements>>
line == <<cts, cts_int, in_isr>>
call == <<data, timed_out, writes>>
vars == <<ring, dreie, line, pc, call, overflowed>>

Index == 0 .. TX_BUFFER_SIZE - 1

(* The control points of the main program:                                 *)
(*   idle     outside these functions                                      *)
(*   full     the condition of the outer while loop                        *)
(*   stopped  the inner while loop: CTS is HIGH and the timer runs         *)
(*   choose   the if after it                                              *)
(*   start    enable DREIE                                                 *)
(*   pause    disable DREIE, after the loop                                *)
(*   store    from cli() to sei()                                          *)
(*   poll     the condition of ctsUpdate()                                 *)
(*   resume   enable DREIE in ctsUpdate()                                  *)
Appending == {"full", "stopped", "choose", "start", "pause", "store"}
Control == Appending \union {"idle", "poll", "resume"}

TypeOK ==
  /\ tx_buffer \in [Index -> Byte]
  /\ tx_head_index \in Index
  /\ tx_tail_index \in Index
  /\ tx_num_elements \in Nat
  /\ dreie \in BOOLEAN
  /\ cts \in {"LOW", "HIGH"} /\ cts_int \in BOOLEAN /\ in_isr \in BOOLEAN
  /\ pc \in Control
  /\ data \in Byte \union {NULL}
  /\ (data # NULL) <=> (pc \in Appending)
  /\ timed_out \in BOOLEAN
  /\ writes \in 0 .. MaxWrites
  /\ overflowed \in BOOLEAN

(* As begin() leaves it.                                                   *)
Init ==
  /\ tx_buffer \in [Index -> {CHOOSE b \in Byte : TRUE}]
  /\ tx_head_index = 0
  /\ tx_tail_index = 0
  /\ tx_num_elements = 0
  /\ dreie = TRUE
  /\ cts \in {"LOW", "HIGH"} /\ cts_int = FALSE /\ in_isr = FALSE
  /\ pc = "idle"
  /\ data = NULL /\ timed_out = FALSE /\ writes = 0
  /\ overflowed = FALSE

Successor(i) == IF i + 1 = TX_BUFFER_SIZE THEN 0 ELSE i + 1
-----------------------------------------------------------------------------
(* Mutants, here and below: a definition as a plausible bug would have it. *)
SendByte_KeepsTail ==
  /\ dreie /\ ~in_isr
  /\ tx_num_elements > 0
  /\ tx_num_elements' = tx_num_elements - 1
  /\ UNCHANGED <<tx_buffer, tx_head_index, tx_tail_index, dreie, line, pc,
                 call, overflowed>>

WaitForCts_NoTimer ==
  /\ pc = "stopped"
  /\ cts = "LOW"
  /\ pc' = "choose"
  /\ UNCHANGED <<ring, dreie, line, call, overflowed>>

Poll_TrustsInterrupt ==
  /\ pc = "poll"
  /\ pc' = "idle"
  /\ UNCHANGED <<ring, dreie, line, call, overflowed>>

(* ISR(USART1_DRE_vect): send a byte, or stop when there is none.          *)
SendByte ==
  /\ dreie /\ ~in_isr
  /\ tx_num_elements > 0
  /\ tx_tail_index' = Successor(tx_tail_index)
  /\ tx_num_elements' = tx_num_elements - 1
  /\ UNCHANGED <<tx_buffer, tx_head_index, dreie, line, pc, call, overflowed>>

StopSending ==
  /\ dreie /\ ~in_isr
  /\ tx_num_elements = 0
  /\ dreie' = FALSE
  /\ UNCHANGED <<ring, line, pc, call, overflowed>>

(* CTSInterrupt(): DREIE follows the line, and then the flag is cleared.   *)
EnterCtsInterrupt ==
  /\ cts_int /\ ~in_isr
  /\ in_isr' = TRUE
  /\ dreie' = (cts = "LOW")
  /\ UNCHANGED <<ring, cts, cts_int, pc, call, overflowed>>

LeaveCtsInterrupt ==
  /\ in_isr
  /\ in_isr' = FALSE
  /\ cts_int' = FALSE
  /\ UNCHANGED <<ring, dreie, cts, pc, call, overflowed>>

(* The modem: an edge on CTS sets the flag of the pin.                     *)
CtsEdge ==
  /\ cts' = IF cts = "LOW" THEN "HIGH" ELSE "LOW"
  /\ cts_int' = TRUE
  /\ UNCHANGED <<ring, dreie, in_isr, pc, call, overflowed>>
-----------------------------------------------------------------------------
(* A step of the main program from one control point to another, that      *)
(* leaves the ring alone.                                                  *)
Goto(from, to) ==
  /\ pc = from /\ ~in_isr
  /\ pc' = to
  /\ UNCHANGED <<ring, line, overflowed>>

(* appendDataToTransmitBuffer(b)                                           *)
CallAppend(b) ==
  /\ writes < MaxWrites
  /\ Goto("idle", IF tx_num_elements = TX_BUFFER_SIZE THEN "full" ELSE "store")
  /\ data' = b
  /\ timed_out' = FALSE
  /\ writes' = writes + 1
  /\ UNCHANGED dreie

(* while (tx_num_elements == TX_BUFFER_SIZE && !hasTimedOut())             *)
TestRoom ==
  /\ Goto("full",
          IF tx_num_elements = TX_BUFFER_SIZE /\ ~timed_out
          THEN "stopped" ELSE "pause")
  /\ UNCHANGED <<dreie, call>>

(* while (VPORTC.IN & CTS_PIN_bm && !hasTimedOut())                        *)
WaitForCts ==
  /\ cts = "LOW" \/ timed_out
  /\ Goto("stopped", "choose")
  /\ UNCHANGED <<dreie, call>>

(* CTS LOW before the timer has run out: let the interrupt send ...        *)
ChooseStart ==
  /\ ~timed_out
  /\ Goto("choose", IF cts = "LOW" THEN "start" ELSE "full")
  /\ UNCHANGED <<dreie, call>>

Start ==
  /\ Goto("start", "full")
  /\ dreie' = TRUE
  /\ UNCHANGED call

(* ... and otherwise return -1.                                            *)
TimeOut ==
  /\ timed_out
  /\ Goto("choose", "idle")
  /\ data' = NULL
  /\ UNCHANGED <<dreie, timed_out, writes>>

Pause ==
  /\ Goto("pause", "store")
  /\ dreie' = FALSE
  /\ UNCHANGED call

(* From cli() to sei(); ctsUpdate() and return 0 follow.                   *)
Store ==
  /\ pc = "store" /\ ~in_isr
  /\ pc' = "poll"
  /\ tx_head_index' = Successor(tx_head_index)
  /\ tx_buffer' = [tx_buffer EXCEPT ![Successor(tx_head_index)] = data]
  /\ tx_num_elements' = tx_num_elements + 1
  /\ data' = NULL
  /\ overflowed' = (overflowed \/ tx_num_elements >= TX_BUFFER_SIZE)
  /\ UNCHANGED <<tx_tail_index, dreie, line, timed_out, writes>>

(* ctsUpdate(), also called by the loops that wait for an answer: the      *)
(* falling edge of CTS may have been missed.                               *)
CallPoll ==
  /\ Goto("idle", "poll")
  /\ UNCHANGED <<dreie, call>>

Poll ==
  /\ Goto("poll",
          IF ~dreie /\ cts = "LOW" /\ tx_num_elements > 0
          THEN "resume" ELSE "idle")
  /\ UNCHANGED <<dreie, call>>

Resume ==
  /\ Goto("resume", "idle")
  /\ dreie' = TRUE
  /\ UNCHANGED call

(* timeout_timer(1000) of appendDataToTransmitBuffer() runs out: between   *)
(* two tests of it, and not before the first one, which comes within a     *)
(* second of its start.                                                    *)
Expire ==
  /\ pc \in {"stopped", "choose", "start"}
  /\ ~timed_out
  /\ timed_out' = TRUE
  /\ UNCHANGED <<ring, dreie, line, pc, data, writes, overflowed>>
-----------------------------------------------------------------------------
AppendByte == \E b \in Byte : CallAppend(b)

MainProgram ==
  \/ AppendByte
  \/ TestRoom \/ WaitForCts \/ ChooseStart \/ Start \/ TimeOut \/ Pause
  \/ Store
  \/ CallPoll \/ Poll \/ Resume

DreInterrupt == SendByte \/ StopSending
CtsInterrupt == EnterCtsInterrupt \/ LeaveCtsInterrupt

Next == MainProgram \/ DreInterrupt \/ CtsInterrupt \/ CtsEdge \/ Expire

(* A pending interrupt is served, the processor executes an instruction of *)
(* the main program between two of them, the timer runs out, and the main  *)
(* program goes on: it polls while it waits for the modem's answers.       *)
(* Nothing is assumed of the modem.                                        *)
Fairness ==
  /\ WF_vars(DreInterrupt)
  /\ WF_vars(CtsInterrupt)
  /\ SF_vars(MainProgram)
  /\ SF_vars(Expire)

Spec == Init /\ [][Next]_vars /\ Fairness
-----------------------------------------------------------------------------
(* The ring implements a FIFO of bytes: each byte stored is sent once and  *)
(* in order, for as long as no byte is stored in a full ring, which only   *)
(* happens when the timer has run out and the loop has not noticed.        *)
Unsent ==
  [k \in 1 .. tx_num_elements |->
     tx_buffer[(tx_tail_index + k) % TX_BUFFER_SIZE]]

Queue == INSTANCE TransmitQueue
           WITH queue <- Unsent, offered <- data,
                Capacity <- TX_BUFFER_SIZE, None <- NULL

SendsInOrder ==
  /\ Queue!Init
  /\ [][overflowed' \/ Queue!Next]_<<Unsent, data>>
  /\ [][~overflowed /\ overflowed' => timed_out]_vars

(* appendDataToTransmitBuffer always returns, whatever the modem does with *)
(* CTS: the loops end with the timer.                                      *)
AppendReturns == (pc \in Appending) ~> (pc = "idle")

(* Once the modem accepts data for good, the bytes in the ring get sent,   *)
(* although edges of CTS have been missed and DREIE has been switched off  *)
(* by either interrupt or by the main program: ctsUpdate() makes up for    *)
(* it.                                                                     *)
RingDrains == <>[](cts = "LOW") => []<>(tx_num_elements = 0)
=============================================================================
