----------------------------- MODULE MCLowPower -----------------------------
(* The URC of MCRxPath, and millis() close to its end at first.            *)
EXTENDS LowPower, TLC

MCUrcs == 0 :> [identifier |-> <<"+">>, should_clear |-> TRUE,
                callback |-> "onPlus"]

(* No step asks which bytes are in the ring or in which of its slots, or   *)
(* how often RTS was LOW late, of the times only differences matter, and   *)
(* the seconds of powerDown() are set when it begins.                      *)
Differences ==
  <<Elapsed(millis, timeout_timer), Elapsed(millis, last_time_active)>>
Seconds == IF Off THEN pit ELSE <<>>
SlotsAndTimesAside ==
  <<parser, rx_num_elements, rts, overshoot, modes, pc, miscounted, save,
    ringing, retrieved_period, Differences, Seconds, seen>>
=============================================================================
