-------------------------- MODULE CommandResponse --------------------------
(***************************************************************************)
(* writeCommand() and readResponse() of sequans_controller.cpp: send an AT *)
(* command, read what comes until OK or ERROR ends it, and try again when  *)
(* it did not end with OK.                                                 *)
(*                                                                         *)
(* A buffer is a sequence of cells, each for a run of bytes: NL is a CR LF *)
(* pair, OK, ERROR and TEXT what may stand in a line (TEXT is also a lone  *)
(* CR or LF), NUL the end of a C string.  A response ends with the cells   *)
(* NL OK NL or NL ERROR NL; it is cut there by a NUL written over the      *)
(* first of them, and the cells behind the NUL stay.  The receive path is  *)
(* the FIFO of ByteQueue.tla, with room for MaxRx cells.                   *)
(***************************************************************************)
EXTENDS Integers, SequencesExt

CONSTANTS
  COMMAND_NUM_RETRIES,
  PLACEHOLDER_SIZE,  \* cells in placeholder_buffer
  RESULT_SIZE,       \* cells in a caller's result_buffer
  MaxOutstanding,    \* bound on the commands the modem has yet to answer
  MaxRx              \* room in the receive path

ASSUME CommandAssumption ==
  /\ {COMMAND_NUM_RETRIES, MaxOutstanding, MaxRx} \subseteq Nat
  /\ {PLACEHOLDER_SIZE, RESULT_SIZE} \subseteq Nat \ {0}

VARIABLES
  rx,            \* the cells received and not read yet
  outstanding,   \* how many commands the modem has yet to answer
  pc,            \* writeCommand: idle, send, read or check
  with_result,   \* is result_buffer not NULL?
  buffer,        \* result_buffer or placeholder_buffer
  retry_count,
  response,      \* what the last readResponse returned
  received,      \* history: the cells it read
  arrived,       \* history: an OK arrived since this command was called
  overread       \* history: strstr searched a buffer without a NUL

modem == <<rx, outstanding>>
history == <<received, arrived, overread>>
vars == <<modem, pc, with_result, buffer, retry_count, response, history>>

Cell == {"NL", "OK", "ERROR", "TEXT", "START"}
Result == {"NONE", "OK", "ERROR", "TIMEOUT", "BUFFER_OVERFLOW"}

(* What the modem answers to a command, and the other lines it sends.      *)
End(word) == <<"NL", word, "NL">>
Line == <<"NL", "TEXT", "NL">>
Answers == {End("OK"), End("ERROR"), Line \o End("OK")}

BufferSize == IF with_result THEN RESULT_SIZE ELSE PLACEHOLDER_SIZE
Zeros(n) == [k \in 1 .. n |-> "NUL"]

TypeOK ==
  /\ rx \in Seq(Cell) /\ Len(rx) <= MaxRx
  /\ outstanding \in 0 .. MaxOutstanding
  /\ pc \in {"idle", "send", "read", "check"}
  /\ with_result \in BOOLEAN
  /\ buffer \in [1 .. BufferSize -> Cell \union {"NUL"}]
  /\ retry_count \in 0 .. COMMAND_NUM_RETRIES
  /\ response \in Result
  /\ received \in Seq(Cell) /\ Len(received) <= BufferSize
  /\ arrived \in BOOLEAN /\ overread \in BOOLEAN

Init ==
  /\ rx = <<>> /\ outstanding = 0
  /\ pc = "idle" /\ with_result = FALSE
  /\ buffer = Zeros(PLACEHOLDER_SIZE)
  /\ retry_count = 0 /\ response = "NONE"
  /\ received = <<>> /\ arrived = FALSE /\ overread = FALSE
-----------------------------------------------------------------------------
(* The C string in a buffer, and the first place of a word's end in it.    *)
Nuls(b) == {k \in DOMAIN b : b[k] = "NUL"}
First(S) == CHOOSE k \in S : \A j \in S : k <= j
CString(b) == IF Nuls(b) = {} THEN b ELSE SubSeq(b, 1, First(Nuls(b)) - 1)
Places(b, word) ==
  {k \in 1 .. Len(CString(b)) - 2 : SubSeq(CString(b), k, k + 2) = End(word)}
Cut(b, word) == [b EXCEPT ![First(Places(b, word))] = "NUL"]

(* Mutants, here and below: a definition as a plausible bug would have it. *)
Call_KeepsInput(with) ==
  /\ pc = "idle"
  /\ pc' = "send"
  /\ with_result' = with
  /\ buffer' = Zeros(IF with THEN RESULT_SIZE ELSE PLACEHOLDER_SIZE)
  /\ retry_count' = 0
  /\ received' = <<>> /\ arrived' = FALSE /\ overread' = FALSE
  /\ UNCHANGED <<modem, response>>

Send_KeepsPlaceholder ==
  /\ pc = "send"
  /\ \/ outstanding < MaxOutstanding /\ outstanding' = outstanding + 1
     \/ UNCHANGED outstanding
  /\ buffer' = [buffer EXCEPT ![BufferSize] = "NUL"]
  /\ received' = <<>>
  /\ pc' = "read"
  /\ UNCHANGED <<rx, with_result, retry_count, response, arrived, overread>>

(* writeCommand: clearReceiveBuffer().  Its caller's buffer is empty.      *)
Call(with) ==
  /\ pc = "idle"
  /\ rx' = <<>>
  /\ pc' = "send"
  /\ with_result' = with
  /\ buffer' = Zeros(IF with THEN RESULT_SIZE ELSE PLACEHOLDER_SIZE)
  /\ retry_count' = 0
  /\ received' = <<>> /\ arrived' = FALSE /\ overread' = FALSE
  /\ UNCHANGED <<outstanding, response>>

(* Write the command and enter readResponse: a new placeholder_buffer, or  *)
(* result_buffer with a NUL at its end only.  The modem may not get the    *)
(* whole command: errors of appendDataToTransmitBuffer are ignored.        *)
Send ==
  /\ pc = "send"
  /\ \/ outstanding < MaxOutstanding /\ outstanding' = outstanding + 1
     \/ UNCHANGED outstanding
  /\ buffer' = IF with_result THEN [buffer EXCEPT ![RESULT_SIZE] = "NUL"]
               ELSE Zeros(PLACEHOLDER_SIZE)
  /\ received' = <<>>
  /\ pc' = "read"
  /\ UNCHANGED <<rx, with_result, retry_count, response, arrived, overread>>

(* readResponse returns r.                                                 *)
Respond(r) == response' = r /\ pc' = "check"

(* ... or reads on, until the buffer is full.                              *)
ReadOn(b) ==
  /\ buffer' = b
  /\ IF Len(received) + 1 = BufferSize
     THEN Respond("BUFFER_OVERFLOW")
     ELSE UNCHANGED <<response, pc>>

(* One round of the loop of readResponse that finds a byte: after each NL  *)
(* the string in the buffer, and what follows it in memory when there is   *)
(* no NUL in the buffer, is searched for OK and then for ERROR.            *)
ReadCell ==
  LET b == [buffer EXCEPT ![Len(received) + 1] = Head(rx)]
      search == Head(rx) = "NL"
      oks == Places(b, "OK")
      errors == Places(b, "ERROR")
      beyond == search /\ oks = {} /\ Nuls(b) = {}
  IN  /\ pc = "read" /\ rx # <<>>
      /\ rx' = Tail(rx)
      /\ received' = Append(received, Head(rx))
      /\ overread' = (overread \/ beyond)
      /\ CASE search /\ oks # {} ->
                buffer' = Cut(b, "OK") /\ Respond("OK")
           [] search /\ oks = {} /\ errors # {} ->
                \/ buffer' = Cut(b, "ERROR") /\ Respond("ERROR")
                \/ beyond /\ buffer' = b /\ Respond("OK")
           [] OTHER ->
                \/ ReadOn(b)
                \/ /\ beyond /\ buffer' = b
                   /\ Respond("OK") \/ Respond("ERROR")
      /\ UNCHANGED <<outstanding, with_result, retry_count, arrived>>

(* READ_TIMEOUT_MS without a byte.                                         *)
TimeOut ==
  /\ pc = "read" /\ rx = <<>>
  /\ Respond("TIMEOUT")
  /\ UNCHANGED <<modem, with_result, buffer, retry_count, history>>

(* The end of the loop of writeCommand: try again, or return, with an      *)
(* empty result when it did not fit.                                       *)
Overflowed == response = "BUFFER_OVERFLOW" /\ with_result

Retry ==
  /\ pc = "check"
  /\ response # "OK" /\ ~Overflowed
  /\ retry_count < COMMAND_NUM_RETRIES
  /\ retry_count' = retry_count + 1
  /\ pc' = "send"
  /\ UNCHANGED <<modem, with_result, buffer, response, history>>

Return ==
  /\ pc = "check"
  /\ response = "OK" \/ Overflowed \/ retry_count = COMMAND_NUM_RETRIES
  /\ buffer' = IF Overflowed THEN [buffer EXCEPT ![1] = "NUL"] ELSE buffer
  /\ pc' = "idle"
  /\ UNCHANGED <<modem, with_result, retry_count, response, history>>
-----------------------------------------------------------------------------
(* The modem answers a command, however late, or sends another line.       *)
Receive(cells) ==
  /\ Len(rx) + Len(cells) <= MaxRx
  /\ rx' = rx \o cells
  /\ UNCHANGED <<pc, with_result, buffer, retry_count, response, received,
                 overread>>

Answer ==
  \E a \in Answers :
    /\ outstanding > 0
    /\ outstanding' = outstanding - 1
    /\ arrived' = (arrived \/ "OK" \in ToSet(a))
    /\ Receive(a)

OtherLine ==
  /\ Receive(Line)
  /\ UNCHANGED <<outstanding, arrived>>

MainProgram ==
  \/ \E with \in BOOLEAN : Call(with)
  \/ Send \/ ReadCell \/ TimeOut \/ Retry \/ Return

Next == MainProgram \/ Answer \/ OtherLine

Spec == Init /\ [][Next]_vars
-----------------------------------------------------------------------------
(* When readResponse returns OK, OK has ended what it read, no earlier     *)
(* than at its end, and the result is all that came before it, whatever a  *)
(* former try has left in the buffer.                                      *)
OkEndsResponse ==
  (pc = "check" /\ response = "OK" /\ ~overread) =>
    received = CString(buffer) \o End("OK")

(* The same of ERROR ("ERROR if read was successfull but result was        *)
(* terminated by ERROR", sequans_controller.h:126).                        *)
ErrorEndsResponse ==
  (pc = "check" /\ response = "ERROR" /\ ~overread) =>
    received = CString(buffer) \o End("ERROR")

(* ... which does hold for a command whose result is not asked for.        *)
PlainErrorEndsResponse == ~with_result => ErrorEndsResponse

(* writeCommand returns OK only if an OK has arrived since it was called:  *)
(* an answer to an earlier command that came in before is not taken for    *)
(* its own.                                                                *)
OkHasArrived ==
  (pc = "idle" /\ response = "OK" /\ ~overread) => arrived
=============================================================================
