------------------------------ MODULE MCRxPath ------------------------------
(* Two bytes are enough to tell the order of bytes apart and to send both  *)
(* kinds of URC: "+" starts one, is the identifier of the one whose bytes  *)
(* are cleared and may be data, and CR ends an identifier and the data.    *)
EXTENDS RxPath, TLC

CONSTANT MaxLate   \* how often the modem is let send too late

(* CR ends an identifier, but it is taken for one as the first byte behind *)
(* the "+".                                                                *)
MCUrcs ==
  0 :> [identifier |-> <<"+">>, should_clear |-> TRUE,
        callback |-> "onPlus"] @@
  1 :> [identifier |-> <<"CR">>, should_clear |-> FALSE,
        callback |-> "onReturn"]

FewLate == late <= MaxLate
=============================================================================
