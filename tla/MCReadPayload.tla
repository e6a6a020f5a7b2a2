---------------------------- MODULE MCReadPayload ----------------------------
(* Payloads that are empty, that have a line end or a '<' in them, that    *)
(* have a line OK in them, and that fill the buffer.                       *)
EXTENDS ReadPayload

MCPayload ==
  {<<>>, <<"START", "NL">>, <<"NL", "OK", "NL">>,
   [k \in 1 .. RESULT_SIZE |-> "TEXT"]}

(* A buffer of zeros, one in which a payload of one cell was, and one that *)
(* has a line OK in it.                                                    *)
Filled(s) ==
  [k \in 1 .. RESULT_SIZE |-> IF k <= Len(s) THEN s[k] ELSE "NUL"]
MCBuffer ==
  {Filled(<<>>), Filled(<<"TEXT", "NUL", "OK", "NL">>),
   Filled(<<"TEXT", "NL", "OK", "NL">>)}

(* Two states are one if they differ only in values that will be written   *)
(* before they are read.                                                   *)
Reading == call \in {"body", "message"}
Unless(dead, value) == IF dead THEN NULL ELSE value
DeadValuesAside ==
  <<modem, request, pc, call,
    Unless(pc \in {"idle", "start"}, <<with_result, buffer>>),
    Unless(pc \in {"idle", "start", "send"}, received),
    Unless(pc \in {"idle", "start"} \/ Reading, retry_count),
    Unless(pc \in {"start", "send", "read"} \/ (pc = "idle" /\ Reading),
           response),
    Unless(Reading, arrived),
    Unless(pc = "idle" /\ Reading, overread),
    Unless(~Reading \/ pc \in {"idle", "start"}, before),
    Unless(~Reading \/ pc = "idle", <<payload, mixed>>),
    Unless(pc = "idle" \/ (~Reading /\ ~with_result), late),
    Unless(~Reading \/ pc # "start", start_bytes)>>
=============================================================================
