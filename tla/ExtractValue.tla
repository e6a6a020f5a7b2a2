---------------------------- MODULE ExtractValue ----------------------------
(***************************************************************************)
(* extractValueFromCommandResponse() (sequans_controller.cpp:902): the     *)
(* value at an index of a response, which the modem separates by commas    *)
(* after an identifier and a colon.  The caller gives response, index,     *)
(* start character and the size of its buffer; here they are whatever the  *)
(* bounds allow.                                                           *)
(*                                                                         *)
(* A pointer into the copy of the response is a position; the position     *)
(* behind the last character is that of the terminating zero.              *)
(***************************************************************************)
EXTENDS Naturals, Sequences, FiniteSets

CONSTANTS
  Character,            \* the characters of a response
  RESPONSE_DELIMITER, SPACE_CHARACTER, CARRIAGE_RETURN, START_CHARACTER,
  NULL,                 \* no position, no start character
  MaxResponse,          \* bounds of the response, the index and the buffer
  MaxIndex,
  MaxSize

ASSUME CharacterAssumption ==
  /\ {RESPONSE_DELIMITER, SPACE_CHARACTER, CARRIAGE_RETURN, START_CHARACTER}
       \subseteq Character
  /\ Cardinality({RESPONSE_DELIMITER, SPACE_CHARACTER, CARRIAGE_RETURN,
                  START_CHARACTER}) = 4
  /\ NULL \notin Character \union Nat
ASSUME BoundAssumption ==
  MaxResponse \in Nat /\ MaxIndex \in Nat /\ MaxSize \in Nat

VARIABLES
  response, index, start_character, destination_buffer_size,
  pc,
  start_value_ptr, end_value_ptr, value_index,
  destination_buffer    \* what was copied to it, or NULL

arguments == <<response, index, start_character, destination_buffer_size>>
vars == <<arguments, pc, start_value_ptr, end_value_ptr, value_index,
          destination_buffer>>

Text == UNION {[1 .. n -> Character] : n \in 0 .. MaxResponse}
Position == 1 .. MaxResponse + 1

TypeOK ==
  /\ response \in Text /\ index \in 0 .. MaxIndex
  /\ start_character \in {START_CHARACTER, NULL}
  /\ destination_buffer_size \in 1 .. MaxSize
  /\ pc \in {"start", "search", "found", "not_found"}
  /\ start_value_ptr \in Position
  /\ end_value_ptr \in Position \union {NULL}
  /\ value_index \in 1 .. MaxIndex + 1
  /\ destination_buffer \in Text \union {NULL}

Init ==
  /\ response \in Text /\ index \in 0 .. MaxIndex
  /\ start_character \in {START_CHARACTER, NULL}
  /\ destination_buffer_size \in 1 .. MaxSize
  /\ pc = "start"
  /\ start_value_ptr = 1 /\ end_value_ptr = NULL /\ value_index = 1
  /\ destination_buffer = NULL
-----------------------------------------------------------------------------
Least(S) == CHOOSE x \in S : \A y \in S : x <= y

(* strchr() from a position on: a position or NULL.                        *)
Strchr(text, from, c) ==
  LET found == {i \in from .. Len(text) : text[i] = c}
  IN  IF found = {} THEN NULL ELSE Least(found)

(* Where the data starts: behind the first start character and all start   *)
(* characters and spaces that follow it.                                   *)
DataStart ==
  IF start_character = NULL THEN 1
  ELSE Least({i \in Strchr(response, 1, start_character)
                      .. Len(response) + 1 :
                i = Len(response) + 1
                  \/ response[i] \notin {start_character, SPACE_CHARACTER}})

(* Mutant: a response without delimiters has no values.                    *)
Absent_DelimiterNeeded(end) == end = NULL
Absent(end) == end = NULL /\ index > 0

(* The first value, unless there is no data or it is the only one and      *)
(* another one is asked for.                                               *)
Split ==
  /\ pc = "start"
  /\ LET at == IF start_character = NULL THEN 1
               ELSE Strchr(response, 1, start_character)
         end == Strchr(response, DataStart, RESPONSE_DELIMITER)
     IN  IF at = NULL \/ Absent(end)
         THEN /\ pc' = "not_found"
              /\ UNCHANGED <<start_value_ptr, end_value_ptr>>
         ELSE /\ pc' = "search"
              /\ start_value_ptr' = DataStart /\ end_value_ptr' = end
  /\ UNCHANGED <<arguments, value_index, destination_buffer>>

(* Mutant: the loop runs once too often.                                   *)
More_Once == end_value_ptr # NULL /\ value_index <= index + 1
More == end_value_ptr # NULL /\ value_index <= index

(* An iteration of the loop.                                               *)
NextValue ==
  /\ pc = "search" /\ More
  /\ start_value_ptr' = end_value_ptr + 1
  /\ end_value_ptr' = Strchr(response, start_value_ptr', RESPONSE_DELIMITER)
  /\ value_index' = value_index + 1
  /\ UNCHANGED <<arguments, pc, destination_buffer>>

(* The value ends at the delimiter or with the response, and at the first  *)
(* carriage return in it.                                                  *)
Value ==
  LET end == IF end_value_ptr = NULL THEN Len(response)
             ELSE end_value_ptr - 1
      line == SubSeq(response, start_value_ptr, end)
      cr == Strchr(line, 1, CARRIAGE_RETURN)
  IN  IF cr = NULL THEN line ELSE SubSeq(line, 1, cr - 1)

Fits(value) == Len(value) < destination_buffer_size

CopyValue ==
  /\ pc = "search" /\ ~More
  /\ IF Fits(Value)
     THEN pc' = "found" /\ destination_buffer' = Value
     ELSE pc' = "not_found" /\ UNCHANGED destination_buffer
  /\ UNCHANGED <<arguments, start_value_ptr, end_value_ptr, value_index>>

Next == Split \/ NextValue \/ CopyValue
Spec == Init /\ [][Next]_vars
-----------------------------------------------------------------------------
(* What a value is, without a loop and without pointers: the characters    *)
(* that have as many delimiters before them as the index says, up to a     *)
(* carriage return.                                                        *)
HasStart == start_character = NULL \/ \E i \in DOMAIN response :
                                        response[i] = start_character

(* The characters behind the identifier, the start character and spaces.   *)
Payload ==
  {i \in DOMAIN response :
     \/ start_character = NULL
     \/ \E j \in 1 .. i :
          /\ response[j] \notin {start_character, SPACE_CHARACTER}
          /\ \E k \in 1 .. j - 1 : response[k] = start_character}

Delimiters == {i \in Payload : response[i] = RESPONSE_DELIMITER}
FieldOf(i) == Cardinality({d \in Delimiters : d < i})
InField(n) == {i \in Payload \ Delimiters :
                 /\ FieldOf(i) = n
                 /\ \A j \in 1 .. i : j \in Payload /\ FieldOf(j) = n
                                        => response[j] # CARRIAGE_RETURN}

(* The buffer holds the value of index n and nothing else, with its        *)
(* terminating zero: neither the identifier nor a neighbouring value, a    *)
(* line end or a delimiter is in it.                                       *)
Returned(n) ==
  /\ Len(destination_buffer) < destination_buffer_size
  /\ Len(destination_buffer) = Cardinality(InField(n))
  /\ \A i \in InField(n) :
       destination_buffer[Cardinality({j \in InField(n) : j <= i})]
         = response[i]

(* For every index that the response has, the function returns true only   *)
(* with the value of that index.                                           *)
InRangeIsValue ==
  (pc = "found" /\ index <= Cardinality(Delimiters)) => Returned(index)

(* It returns false only if there is no data, if there are not that many   *)
(* values, or if the value does not fit.                                   *)
NotFoundOnlyIfAbsent ==
  pc = "not_found" =>
    \/ ~HasStart
    \/ index > Cardinality(Delimiters)
    \/ Cardinality(InField(index)) >= destination_buffer_size

(* What sequans_controller.h:169 says, "a value at one index in the        *)
(* response", and what the callers take it for that use a failure for      *)
(* "absent" (mqtt_client.cpp:169): true is only returned with the value of *)
(* that index.  It is not so: behind the last value the loop ends with     *)
(* that one, and it is returned for any index beyond it.                   *)
FoundIsValue ==
  pc = "found" => index <= Cardinality(Delimiters) /\ Returned(index)
=============================================================================
