----------------------------- MODULE ReadPayload -----------------------------
(***************************************************************************)
(* HttpClient.readBody() and MqttClient.readMessage(): what the modem      *)
(* keeps for the program is asked for with a command of its own, and read  *)
(* by readResponse() into the buffer of the caller, which may hold what an *)
(* earlier call has left there, or anything: the functions that return a   *)
(* String have it on the stack.                                            *)
(*                                                                         *)
(* readBody() sends AT first, then the request, and waits for three '<'    *)
(* without a timer.  readMessage() clears the ring, sends the request and  *)
(* waits for CR LF for a tenth of a second.  Neither tries again.          *)
(*                                                                         *)
(* Cells and commands are those of CommandResponse.tla; buffers have the   *)
(* size RESULT_SIZE, which is one that both functions accept.              *)
(***************************************************************************)
EXTENDS CommandResponse

CONSTANTS
  Payload, \* the bodies and messages there may be, sequences of cells
  Buffer,  \* what the caller's buffer may hold before
  NULL

ASSUME PayloadAssumption ==
  /\ Payload \subseteq Seq(Cell)
  /\ Buffer \subseteq [1 .. RESULT_SIZE -> Cell \union {"NUL"}]
  /\ NULL \notin Payload /\ NULL \notin Buffer
  /\ NULL \notin {"body", "message"}
  \* the request limits what the modem sends to the size of the buffer
  /\ \A p \in Payload : Len(p) <= RESULT_SIZE

VARIABLES
  call,        \* command, wake (the AT of readBody), body or message
  start_bytes, \* how many '<' readBody still waits for
  asked,       \* the request the modem has yet to answer, or NULL
  due,         \* the cells it has still to send of its answer
  payload,     \* history: what this call is sent, or NULL
  before,      \* history: what the buffer of this call held before
  late,        \* history: an answer to an earlier request was still due
  mixed        \* history: another line came before what was asked for

request == <<asked, due>>
past == <<payload, before, late, mixed>>
callVars == <<call, start_bytes>>
readVars == <<vars, callVars, request, past>>

Control == {"idle", "send", "read", "check", "start"}

ReadTypeOK ==
  /\ rx \in Seq(Cell) /\ Len(rx) <= MaxRx
  /\ pc \in Control
  /\ call \in {"command", "wake", "body", "message"}
  /\ start_bytes \in 0 .. 3
  /\ asked \in {"body", "message", NULL}
  /\ due \in Seq(Cell)
  /\ payload \in Payload \union {NULL}
  /\ before \in Buffer \union {NULL}
  /\ late \in BOOLEAN /\ mixed \in BOOLEAN

ReadInit ==
  /\ Init
  /\ call = "command" /\ start_bytes = 0
  /\ asked = NULL /\ due = <<>>
  /\ payload = NULL /\ before = NULL /\ late = FALSE /\ mixed = FALSE
-----------------------------------------------------------------------------
AnswerDue == asked # NULL \/ due # <<>>

(* writeCommand(), called by anyone; readResponse() is used by all.        *)
Command ==
  /\ \/ /\ call # "wake"
        /\ \E with \in BOOLEAN : Call(with)
        /\ call' = "command"
        /\ late' = AnswerDue
     \/ /\ call \in {"command", "wake"}
        /\ Send \/ Retry \/ Return
        /\ UNCHANGED <<call, late>>
     \/ (ReadCell \/ TimeOut) /\ UNCHANGED <<call, late>>
  /\ UNCHANGED <<start_bytes, request, payload, before, mixed>>

(* readBody(): writeCommand("AT"), whose result is ignored, ...            *)
ReadBody ==
  /\ call # "wake" /\ Call(FALSE)
  /\ call' = "wake"
  /\ late' = AnswerDue
  /\ UNCHANGED <<start_bytes, request, payload, before, mixed>>

(* The request is written; it may get lost.  The modem has at most one to  *)
(* answer.                                                                 *)
Ask(what) ==
  /\ \/ asked = NULL /\ asked' = what
     \/ UNCHANGED asked
  /\ payload' = NULL
  /\ mixed' = FALSE
  /\ overread' = FALSE
  /\ call' = what
  /\ pc' = "start"
  /\ UNCHANGED <<outstanding, due, with_result, buffer, retry_count, response,
                 received, arrived, before>>

(* Mutant: one '<' is forgotten.                                           *)
START_BYTES_Two == 2
START_BYTES == 3

(* ... and the request, which writeString() may fail to write.             *)
AskForBody ==
  /\ pc = "idle" /\ call = "wake"
  /\ \/ /\ Ask("body")
        /\ start_bytes' = START_BYTES
        /\ late' = (AnswerDue \/ "START" \in ToSet(rx))
        /\ UNCHANGED rx
     \/ /\ call' = "command"
        /\ UNCHANGED <<vars, start_bytes, request, past>>

(* readMessage()                                                           *)
ReadMessage ==
  /\ pc = "idle" /\ call # "wake"
  /\ rx' = <<>>
  /\ Ask("message")
  /\ late' = AnswerDue
  /\ UNCHANGED start_bytes

(* readResponse() begins: a NUL is written to the end of the buffer only.  *)
StartReading ==
  /\ pc' = "read"
  /\ with_result' = TRUE
  /\ \E b \in Buffer : /\ buffer' = [b EXCEPT ![RESULT_SIZE] = "NUL"]
                       /\ before' = b
  /\ received' = <<>>

(* The loops that wait for the start of what was asked for.                *)
AwaitStart ==
  /\ pc = "start" /\ rx # <<>>
  /\ rx' = Tail(rx)
  /\ start_bytes' = IF call = "body" /\ Head(rx) = "START"
                    THEN start_bytes - 1 ELSE start_bytes
  /\ IF IF call = "body" THEN start_bytes' = 0 ELSE Head(rx) = "NL"
     THEN StartReading
     ELSE UNCHANGED <<pc, with_result, buffer, received, before>>
  /\ UNCHANGED <<outstanding, retry_count, response, arrived, overread, call,
                 request, payload, late, mixed>>

(* Mutant: the timer is looked at only when a byte is there.               *)
StartTimesOut_OnByte ==
  /\ pc = "start" /\ call = "message" /\ rx # <<>>
  /\ pc' = "idle"
  /\ UNCHANGED <<modem, with_result, buffer, retry_count, response, history,
                 callVars, request, past>>

(* waitForByte() of readMessage() has a timer.                             *)
StartTimesOut ==
  /\ pc = "start" /\ call = "message"
  /\ pc' = "idle"
  /\ UNCHANGED <<modem, with_result, buffer, retry_count, response, history,
                 callVars, request, past>>

(* readBody() returns the length of the string, or 0; readMessage() true   *)
(* or false.                                                               *)
Finished == pc = "check" /\ call \in {"body", "message"}

ReadReturns ==
  /\ Finished
  /\ pc' = "idle"
  /\ UNCHANGED <<modem, with_result, buffer, retry_count, response, history,
                 call, start_bytes, request, past>>
-----------------------------------------------------------------------------
(* The modem does one thing after the other: it answers a command or sends *)
(* a line, ...                                                             *)
SendLine ==
  /\ due = <<>>
  /\ Answer \/ OtherLine
  /\ mixed' = (mixed \/ (pc # "idle" /\ call = "message" /\ payload = NULL))
  /\ UNCHANGED <<callVars, request, payload, before, late>>

(* ... or what was asked for, in as many pieces as it likes; ...           *)
StartOf(what) == IF what = "body" THEN <<"START", "START", "START">>
                 ELSE <<"NL">>

AnswerRequest ==
  /\ asked # NULL /\ due = <<>>
  /\ asked' = NULL
  /\ \E p \in Payload :
       /\ due' = StartOf(asked) \o p \o End("OK")
       /\ payload' = IF pc = "start" /\ asked = call THEN p ELSE payload
  /\ UNCHANGED <<vars, callVars, before, late, mixed>>

SendPiece ==
  /\ \E n \in 1 .. Len(due) :
       /\ Receive(SubSeq(due, 1, n))
       /\ due' = SubSeq(due, n + 1, Len(due))
       /\ arrived' = (arrived \/ "OK" \in ToSet(SubSeq(due, 1, n)))
  /\ UNCHANGED <<outstanding, callVars, asked, past>>

(* ... or there is nothing to send.                                        *)
RefuseRequest ==
  /\ asked # NULL /\ due = <<>>
  /\ asked' = NULL
  /\ \E word \in {"ERROR"} \union (IF asked = "body" THEN {} ELSE {"OK"}) :
       Receive(End(word)) /\ arrived' = (arrived \/ word = "OK")
  /\ UNCHANGED <<outstanding, callVars, due, past>>

Program ==
  \/ Command
  \/ ReadBody \/ AskForBody \/ ReadMessage
  \/ AwaitStart \/ StartTimesOut \/ ReadReturns

ReadNext ==
  Program \/ SendLine \/ AnswerRequest \/ SendPiece \/ RefuseRequest

(* What the modem has begun to send it sends to the end.                   *)
ReadSpec == /\ ReadInit /\ [][ReadNext]_readVars
            /\ WF_readVars(Program) /\ WF_readVars(SendPiece)
-----------------------------------------------------------------------------
(* What CommandResponse.tla says of commands holds with such calls before, *)
(* between and behind them: when readResponse returns OK or ERROR, that is *)
(* what has ended what was read.  With a result buffer this takes that no  *)
(* answer to an earlier request is still to come: a part of it ending in   *)
(* OK, read by a retry, may meet the CR LF that a former try has left.     *)
ResponseEndsCommand ==
  call \in {"command", "wake"} =>
    (~with_result \/ ~late => OkEndsResponse) /\ PlainErrorEndsResponse

(* ... and OK has arrived since the command was sent.                      *)
OkHasArrivedForCommand == call \in {"command", "wake"} => OkHasArrived

(* What the buffer of this call held before.                               *)
Used == before # Zeros(RESULT_SIZE)
HoldsOk(b) == \E k \in 1 .. Len(b) - 2 : SubSeq(b, k, k + 2) = End("OK")

(* The payload is the first thing in its answer that looks like an end.    *)
Unambiguous(p) ==
  /\ Places(p \o End("OK"), "OK") = {Len(p) + 1}
  /\ Places(p \o End("OK"), "ERROR") = {}

(* What readBody() and readMessage() give as read is what the modem sent   *)
(* for this call, from its beginning, and all of it if there was room for  *)
(* the OK as well, if it has no line that reads OK or ERROR, and if the    *)
(* buffer had not been used.  With a used one it may be cut short by the   *)
(* rest of an earlier OK behind it, and a refusal may pass for a message;  *)
(* one with a whole OK line in it may be handed out up to there.           *)
(* Nothing tells an answer to an earlier request from this one, nor, for   *)
(* readMessage(), another line from the one that begins the answer.        *)
PayloadIsReturned ==
  (Finished /\ response = "OK" /\ ~overread /\ ~late /\ ~mixed) =>
    IF payload = NULL THEN Used
    ELSE /\ ~HoldsOk(before) => IsPrefix(CString(buffer), payload)
         /\ (~Used /\ Unambiguous(payload)) => CString(buffer) = payload

(* Every call returns, but readBody() only if the modem has a body to      *)
(* send: there is no timer on the wait for its first bytes.                *)
Returned == pc = "idle" /\ call # "wake"
NoBody == pc = "start" /\ call = "body" /\ payload = NULL
CallsReturn ==
  /\ []<>(Returned \/ NoBody)
  /\ (pc = "start" /\ payload # NULL) ~> Returned

(* readBody() returns the "bytes read from receive buffer"                 *)
(* (http_client.h:185), "so if the data is larger than that, multiple      *)
(* calls to this function has to be made" (http_client.h:179): when it has *)
(* read a body of the size it asked for, it says so.                       *)
BytesRead == IF response = "OK" THEN Len(CString(buffer)) ELSE 0
FullBodyIsReturned ==
  (Finished /\ call = "body" /\ response # "TIMEOUT" /\ ~late /\ ~overread
     /\ payload # NULL /\ Len(payload) = RESULT_SIZE /\ received = payload)
    => BytesRead > 0
=============================================================================
