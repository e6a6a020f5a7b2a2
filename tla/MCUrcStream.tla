---------------------------- MODULE MCUrcStream ----------------------------
(* Two identifiers, one a prefix of the other, and an empty slot.          *)
EXTENDS UrcStream, TLC

MCUrcs == 0 :> [identifier |-> <<"A">>, should_clear |-> TRUE,
                callback |-> "onA"]
       @@ 1 :> [identifier |-> <<"A", "A">>, should_clear |-> FALSE,
                callback |-> "onAA"]
       @@ 2 :> [identifier |-> <<>>, should_clear |-> FALSE,
                callback |-> "NULL"]

ASSUME TableIsReceivable == Receivable
=============================================================================
