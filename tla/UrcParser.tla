----------------------------- MODULE UrcParser -----------------------------
(***************************************************************************)
(* The parser of unsolicited result codes (URCs) inside the USART receive  *)
(* interrupt of sequans_controller.cpp.  It looks at every byte the modem  *)
(* sends, recognises                                                       *)
(*     + identifier (: or CR) data (CR or LF)                              *)
(* for the identifiers of the table urcs, and calls their callbacks.  It   *)
(* also says how many of the newest bytes of the receive ring the          *)
(* interrupt takes back for a URC registered with should_clear.            *)
(*                                                                         *)
(* The buffers of the C code are sequences here, their length fields are   *)
(* Len.  The table is a constant of this module; UrcTable.tla is about its *)
(* changes.                                                                *)
(***************************************************************************)
EXTENDS Naturals, Sequences

CONSTANTS
  Byte,             \* the bytes the modem may send
  Digit,            \* those of them that are '0' .. '9'
  IDENTIFIER_SIZE,  \* URC_IDENTIFIER_BUFFER_SIZE
  DATA_SIZE,        \* URC_DATA_BUFFER_SIZE
  MAX_CALLBACKS,    \* MAX_URC_CALLBACKS
  urcs,             \* the table: slot -> [identifier, should_clear, callback]
  NULL              \* the callback of a slot without one

Slot == 0 .. MAX_CALLBACKS - 1
Callback == {urcs[i].callback : i \in Slot} \union {NULL}

ASSUME ByteAssumption ==
  /\ {"+", "CR"} \subseteq Byte
  /\ Digit \subseteq Byte
ASSUME TableAssumption ==
  /\ MAX_CALLBACKS \in Nat \ {0}
  /\ IDENTIFIER_SIZE \in Nat \ {0}
  /\ DATA_SIZE \in Nat
  /\ \A i \in Slot :
        /\ urcs[i].identifier \in Seq(Byte)
        /\ urcs[i].should_clear \in BOOLEAN

VARIABLES
  urc_parse_state,        \* state of the parser
  urc_identifier_buffer,  \* identifier received so far
  urc_data_buffer,        \* data received so far
  urc_index,              \* slot of the URC whose data is being received
  urc_current_callback    \* its callback, remembered when it matched

parser == <<urc_parse_state, urc_identifier_buffer, urc_data_buffer,
            urc_index, urc_current_callback>>

UrcParseState == {"NOT_PARSING", "EVALUATING_IDENTIFIER",
                  "PARSING_IDENTIFIER", "PARSING_DATA"}

ParserTypeOK ==
  /\ urc_parse_state \in UrcParseState
  /\ urc_identifier_buffer \in Seq(Byte)
  /\ Len(urc_identifier_buffer) <= IDENTIFIER_SIZE
  /\ urc_data_buffer \in Seq(Byte)
  /\ Len(urc_data_buffer) <= DATA_SIZE
  /\ urc_index \in Slot
  /\ urc_current_callback \in Callback

(* The interrupt tells the slots of the table in use from the empty ones   *)
(* only by identifier_length: an empty slot, with length 0, would match an *)
(* empty identifier.  There is none when the identifier is looked up, so   *)
(* the URC being received is always that of a slot in use, and the         *)
(* callback remembered is the one of that slot.                            *)
MatchedSlotInUse ==
  /\ urc_parse_state = "EVALUATING_IDENTIFIER" => urc_identifier_buffer = <<>>
  /\ urc_parse_state = "PARSING_IDENTIFIER" => urc_identifier_buffer # <<>>
  /\ urc_parse_state = "PARSING_DATA" =>
       /\ urcs[urc_index].identifier # <<>>
       /\ urc_current_callback = urcs[urc_index].callback

ParserInit ==
  /\ urc_parse_state = "NOT_PARSING"
  /\ urc_identifier_buffer = <<>>
  /\ urc_data_buffer = <<>>
  /\ urc_index = 0
  /\ urc_current_callback = NULL
-----------------------------------------------------------------------------
EndsIdentifier(b) == b \in {":", "CR"}
EndsData(b) == b \in {"CR", "LF"}

(* The slots whose identifier has the length and the bytes received; the   *)
(* search stops at the first.                                              *)
Matching == {i \in Slot : urcs[i].identifier = urc_identifier_buffer}
MatchIndex == CHOOSE i \in Matching : \A j \in Matching : i <= j

Matches(b) ==
  /\ urc_parse_state = "PARSING_IDENTIFIER"
  /\ EndsIdentifier(b)
  /\ Matching # {}

Completes(b) ==
  /\ urc_parse_state = "PARSING_DATA"
  /\ EndsData(b)

(* How far byte b takes the head of the receive ring back, when num bytes  *)
(* (b included) are unread: the start character, the identifier and its    *)
(* end when an identifier matches; as many bytes as there is data, of      *)
(* which b is not one, when the data ends.                                 *)
Rewind(b, num) ==
  IF /\ Matches(b)
     /\ urcs[MatchIndex].should_clear
     /\ num >= Len(urc_identifier_buffer) + 2
  THEN Len(urc_identifier_buffer) + 2
  ELSE IF /\ Completes(b)
          /\ urcs[urc_index].should_clear
          /\ num >= Len(urc_data_buffer)
       THEN Len(urc_data_buffer)
       ELSE 0

(* The callback that byte b calls, with urc_data_buffer as its argument.   *)
Called(b) == IF Completes(b) THEN urc_current_callback ELSE NULL

-----------------------------------------------------------------------------
(* Mutants: a case of the switch as a plausible bug would have it.         *)
EvaluateIdentifier_Drops(b) ==
  /\ urc_parse_state = "EVALUATING_IDENTIFIER"
  /\ urc_parse_state' = IF b \in Digit THEN "NOT_PARSING"
                        ELSE "PARSING_IDENTIFIER"
  /\ UNCHANGED <<urc_identifier_buffer, urc_data_buffer, urc_index,
                 urc_current_callback>>

LookUpIdentifier_KeepsData(b) ==
  /\ urc_parse_state = "PARSING_IDENTIFIER"
  /\ EndsIdentifier(b)
  /\ IF Matches(b)
     THEN /\ urc_index' = MatchIndex
          /\ urc_current_callback' = urcs[MatchIndex].callback
          /\ urc_parse_state' = "PARSING_DATA"
     ELSE /\ urc_parse_state' = "NOT_PARSING"
          /\ UNCHANGED <<urc_index, urc_current_callback>>
  /\ urc_identifier_buffer' = <<>>
  /\ UNCHANGED urc_data_buffer

LookUpIdentifier_Continues(b) ==
  /\ urc_parse_state = "PARSING_IDENTIFIER"
  /\ EndsIdentifier(b)
  /\ IF Matches(b)
     THEN /\ urc_index' = MatchIndex
          /\ urc_current_callback' = urcs[MatchIndex].callback
          /\ urc_parse_state' = "PARSING_DATA"
          /\ urc_data_buffer' = <<>>
     ELSE UNCHANGED <<urc_parse_state, urc_index, urc_current_callback,
                      urc_data_buffer>>
  /\ urc_identifier_buffer' = <<>>

(* case URC_NOT_PARSING *)
LookForStart(b) ==
  /\ urc_parse_state = "NOT_PARSING"
  /\ IF b = "+"
     THEN /\ urc_identifier_buffer' = <<>>
          /\ urc_parse_state' = "EVALUATING_IDENTIFIER"
     ELSE UNCHANGED <<urc_identifier_buffer, urc_parse_state>>
  /\ UNCHANGED <<urc_data_buffer, urc_index, urc_current_callback>>

(* case URC_EVALUATING_IDENTIFIER: a number after the + is not a URC *)
EvaluateIdentifier(b) ==
  /\ urc_parse_state = "EVALUATING_IDENTIFIER"
  /\ IF b \in Digit
     THEN /\ urc_parse_state' = "NOT_PARSING"
          /\ UNCHANGED urc_identifier_buffer
     ELSE /\ urc_parse_state' = "PARSING_IDENTIFIER"
          /\ urc_identifier_buffer' = Append(urc_identifier_buffer, b)
  /\ UNCHANGED <<urc_data_buffer, urc_index, urc_current_callback>>

(* case URC_PARSING_IDENTIFIER, the end of the identifier *)
LookUpIdentifier(b) ==
  /\ urc_parse_state = "PARSING_IDENTIFIER"
  /\ EndsIdentifier(b)
  /\ IF Matches(b)
     THEN /\ urc_index' = MatchIndex
          /\ urc_current_callback' = urcs[MatchIndex].callback
          /\ urc_parse_state' = "PARSING_DATA"
          /\ urc_data_buffer' = <<>>
     ELSE /\ urc_parse_state' = "NOT_PARSING"
          /\ UNCHANGED <<urc_index, urc_current_callback, urc_data_buffer>>
  /\ urc_identifier_buffer' = <<>>

(* case URC_PARSING_IDENTIFIER, one more byte of it or too many *)
ExtendIdentifier(b) ==
  /\ urc_parse_state = "PARSING_IDENTIFIER"
  /\ ~EndsIdentifier(b)
  /\ IF Len(urc_identifier_buffer) = IDENTIFIER_SIZE
     THEN /\ urc_parse_state' = "NOT_PARSING"
          /\ UNCHANGED urc_identifier_buffer
     ELSE /\ urc_identifier_buffer' = Append(urc_identifier_buffer, b)
          /\ UNCHANGED urc_parse_state
  /\ UNCHANGED <<urc_data_buffer, urc_index, urc_current_callback>>

(* case URC_PARSING_DATA, the end of the data; the callback is Called(b) *)
CompleteData(b) ==
  /\ Completes(b)
  /\ urc_current_callback' = NULL
  /\ urc_parse_state' = "NOT_PARSING"
  /\ urc_data_buffer' = <<>>
  /\ UNCHANGED <<urc_identifier_buffer, urc_index>>

(* case URC_PARSING_DATA, one more byte of it or too many *)
ExtendData(b) ==
  /\ urc_parse_state = "PARSING_DATA"
  /\ ~EndsData(b)
  /\ IF Len(urc_data_buffer) = DATA_SIZE
     THEN /\ urc_parse_state' = "NOT_PARSING"
          /\ UNCHANGED urc_data_buffer
     ELSE /\ urc_data_buffer' = Append(urc_data_buffer, b)
          /\ UNCHANGED urc_parse_state
  /\ UNCHANGED <<urc_identifier_buffer, urc_index, urc_current_callback>>

(* The switch of the receive interrupt on byte b. *)
Parse(b) ==
  \/ LookForStart(b)
  \/ EvaluateIdentifier(b)
  \/ LookUpIdentifier(b)
  \/ ExtendIdentifier(b)
  \/ CompleteData(b)
  \/ ExtendData(b)
=============================================================================
