---------------------------- MODULE TimeoutTimer ----------------------------
(***************************************************************************)
(* timeout_timer.cpp, and the same arithmetic where it is written out:     *)
(* millis() counts modulo 2^32 and so does the difference of two times.    *)
(* A deadline is met correctly although millis() wraps, as long as the     *)
(* timer is looked at before it has gone all the way round.                *)
(***************************************************************************)
EXTENDS Naturals

CONSTANT CLOCK_SIZE       \* millis() counts modulo this: 2^32

ASSUME ClockAssumption == CLOCK_SIZE \in Nat \ {0}

Time == 0 .. CLOCK_SIZE - 1

Later(t) == IF t + 1 = CLOCK_SIZE THEN 0 ELSE t + 1

(* millis() - start_ms, unsigned.                                          *)
Elapsed(t, since) == IF since <= t THEN t - since ELSE t + CLOCK_SIZE - since

(* Mutant: the time is compared with the end of the interval.              *)
HasTimedOut_Deadline(t, start_ms, interval_ms) == t > start_ms + interval_ms

(* hasTimedOut(): strictly more than the interval has passed.              *)
HasTimedOut(t, start_ms, interval_ms) == Elapsed(t, start_ms) > interval_ms
=============================================================================
