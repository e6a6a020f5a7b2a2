------------------------------ MODULE LowPower ------------------------------
(***************************************************************************)
(* powerSave() of low_power.cpp on top of the receive path: the modem is   *)
(* held back with RTS, its RING line is watched until it has been quiet    *)
(* for a while, and then the CPU sleeps until RING wakes it.  Interrupts   *)
(* come between any two steps: received bytes, and edges of RING, whose    *)
(* callback leaves power save again.                                       *)
(*                                                                         *)
(* powerDown(), which sleeps for a number of ticks of the periodic         *)
(* interrupt timer with the modem shut down, is at the end.                *)
(*                                                                         *)
(* A step of the receive path is a step of RxPath; its main program (pc)   *)
(* finishes what powerSave() calls before powerSave() goes on (save).      *)
(***************************************************************************)
EXTENDS RxPath, TimeoutTimer

CONSTANTS
  STABLE,       \* PSM_RING_LINE_STABLE_THRESHOLD_MS, in rounds of 50 ms
  WAITING_TIME, \* waiting_time_ms of the attempt, in rounds of 50 ms
  FirstTime,    \* millis() when the library is first used
  MaxSeconds    \* the longest power_down_time_seconds

ASSUME PowerAssumption ==
  /\ STABLE \in Nat
  /\ WAITING_TIME \in Nat
  /\ MaxSeconds \in Nat
  /\ FirstTime \in Time
  /\ STABLE < WAITING_TIME
  /\ WAITING_TIME + 1 < CLOCK_SIZE

VARIABLES
  save,                     \* what powerSave() or powerDown() does next
  ring_line_activity,
  modem_is_in_power_save,
  retrieved_period,
  ring_pin,                 \* level of the RING line
  millis,
  timeout_timer,            \* start of the timer of the attempt
  last_time_active,
  pit_triggered,
  remaining_time_seconds,
  abrupted, \* history: RING made the modem leave power save during this one
  called,   \* history: a URC callback was called since power save began
  ticks     \* history: seconds that powerDown() has yet to see pass

clock == <<millis, timeout_timer, last_time_active>>
pit == <<pit_triggered, remaining_time_seconds, ticks>>
ringing == <<ring_line_activity, modem_is_in_power_save, ring_pin>>
seen == <<abrupted, called>>
power == <<save, ringing, retrieved_period, clock, pit, seen>>
powerVars == <<vars, power>>

(* idle; for powerSave() in order:                                         *)
(*   attempt  setPowerSaveMode(0) comes next                               *)
(*   drain    the loop that empties the receive buffer; drained: its test  *)
(*   arm      setPowerSaveMode(1) comes next; armed: it has been called    *)
(*   delay    the loop that watches RING: wait 50 ms, look at RING,        *)
(*   look     compare the times (quiet)                                    *)
(*   quiet                                                                 *)
(*   test     if (modem_is_in_power_save)                                  *)
(*   falling  on the way to sleep_cpu(); asleep: in it; woken: behind it   *)
(*   leave    the last setPowerSaveMode(0)                                 *)
(* for powerDown():                                                        *)
(*   down     at the head of the loop; dozing: in sleep_cpu(); up: behind  *)
Point == {"idle", "attempt", "drain", "drained", "arm", "armed", "delay",
          "look", "quiet", "test", "falling", "asleep", "woken", "leave",
          "down", "dozing", "dozed", "up"}

PowerTypeOK ==
  /\ TypeOK
  /\ save \in Point
  /\ ring_line_activity \in BOOLEAN
  /\ modem_is_in_power_save \in BOOLEAN
  /\ retrieved_period \in BOOLEAN
  /\ ring_pin \in {"LOW", "HIGH"}
  /\ millis \in Time /\ timeout_timer \in Time /\ last_time_active \in Time
  /\ pit_triggered \in BOOLEAN
  /\ remaining_time_seconds \in 0 .. MaxSeconds
  /\ ticks \in 0 .. MaxSeconds
  /\ abrupted \in BOOLEAN
  /\ called \in BOOLEAN

PowerInit ==
  /\ Init
  /\ save = "idle"
  /\ ring_line_activity = FALSE
  /\ modem_is_in_power_save = FALSE
  /\ retrieved_period = FALSE
  /\ ring_pin = "LOW"
  /\ millis = FirstTime
  /\ timeout_timer = millis
  /\ last_time_active = millis
  /\ pit_triggered = FALSE
  /\ remaining_time_seconds = 0
  /\ ticks = 0
  /\ abrupted = FALSE
  /\ called = FALSE
-----------------------------------------------------------------------------
(* Mutants, here and below: a definition as a plausible bug would have it. *)
RingCallback_Always ==
  /\ ring_line_activity' = TRUE
  /\ LeaveByRing
  /\ modem_is_in_power_save' = FALSE
  /\ abrupted' = (abrupted \/ modem_is_in_power_save)

(* ring_line_callback(): the RING interrupt's setPowerSaveMode(0) only     *)
(* when the modem is believed to be in power save.                         *)
RingCallback ==
  /\ ring_line_activity' = TRUE
  /\ IF modem_is_in_power_save
     THEN LeaveByRing
     ELSE UNCHANGED vars
  /\ modem_is_in_power_save' = FALSE
  /\ abrupted' = (abrupted \/ modem_is_in_power_save)

Off == save \in {"down", "dozing", "dozed"}
Asleep == save = "asleep"

(* An edge of the RING line.  RingInterrupt() calls the callback only when *)
(* a pin is HIGH, selected by a pin number used as a bit mask              *)
(* (VPORTC.IN & RING_PIN): which pin that is depends on the board package, *)
(* so the outcome of the test is free.  The interrupt wakes the CPU.       *)
RingEdge ==
  /\ ~Off
  /\ ring_pin' = IF ring_pin = "LOW" THEN "HIGH" ELSE "LOW"
  /\ save' = IF Asleep /\ ring_line_callback THEN "woken" ELSE save
  /\ \/ ring_line_callback /\ RingCallback
     \/ UNCHANGED <<vars, ring_line_activity, modem_is_in_power_save,
                    abrupted>>
  /\ UNCHANGED <<retrieved_period, clock, pit, called>>

(* The CPU is woken by a pin it was left sensitive to (a button).          *)
ExternalWake ==
  /\ save \in {"asleep", "dozing"}
  /\ save' = IF Asleep THEN "woken" ELSE "dozed"
  /\ UNCHANGED <<vars, ringing, retrieved_period, clock, pit, seen>>

(* The receive interrupt; not while the CPU sleeps or the modem is off.    *)
Receive ==
  /\ ~Off /\ ~Asleep
  /\ \E b \in Byte :
       /\ ReceiveByte(b)
       /\ called' = (called \/ Called(b) # NULL)
  /\ UNCHANGED <<save, ringing, retrieved_period, clock, pit, abrupted>>

(* The receive path functions that powerSave() calls go on.                *)
ReceivePathStep ==
  /\ pc # "idle"
  /\ EnterPowerSave \/ DecideRts \/ WriteRts
  /\ UNCHANGED power
-----------------------------------------------------------------------------
(* Goto(p, q): powerSave() gets from control point p to q.                 *)
Goto(p, q) == save = p /\ pc = "idle" /\ save' = q

ConfigurePeriodicPowerSave ==
  /\ Goto("idle", "idle")
  /\ retrieved_period' = FALSE
  /\ UNCHANGED <<vars, ringing, clock, pit, seen>>

(* powerSave(): the operator's period is asked for, with a cleared receive *)
(* buffer, until it is known; nothing is done before that.                 *)
PowerSave ==
  /\ \/ Goto("idle", "attempt") /\ retrieved_period /\ UNCHANGED vars
     \/ Goto("idle", "attempt") /\ ~retrieved_period /\ ClearReceiveBuffer
     \/ Goto("idle", "idle") /\ ~retrieved_period /\ ClearReceiveBuffer
  /\ retrieved_period' = (save' = "attempt")
  /\ abrupted' = FALSE
  /\ UNCHANGED <<ringing, clock, pit, called>>

SuspendPowerSave ==
  /\ Goto("attempt", "drain")
  /\ LeavePowerSave
  /\ UNCHANGED <<ringing, retrieved_period, clock, pit, seen>>

Drain ==
  /\ Goto("drain", "drained")
  /\ ClearReceiveBuffer
  /\ UNCHANGED <<ringing, retrieved_period, clock, pit, seen>>

Drained ==
  /\ Goto("drained", IF rx_num_elements > 0 THEN "drain" ELSE "arm")
  /\ UNCHANGED <<vars, ringing, retrieved_period, clock, pit, seen>>

Arm ==
  /\ Goto("arm", "armed")
  /\ ArmRing
  /\ called' = FALSE
  /\ UNCHANGED <<ringing, retrieved_period, clock, pit, abrupted>>

(* ring_line_activity = false and the two times.                           *)
StartWatch ==
  /\ Goto("armed", "delay")
  /\ ring_line_activity' = FALSE
  /\ timeout_timer' = millis
  /\ last_time_active' = millis
  /\ UNCHANGED <<vars, modem_is_in_power_save, ring_pin, retrieved_period,
                 millis, pit, abrupted, called>>

Delay ==
  /\ Goto("delay", "look")
  /\ millis' = Later(millis)
  /\ UNCHANGED <<vars, ringing, retrieved_period, timeout_timer,
                 last_time_active, pit, abrupted, called>>

(* if (ring_line_activity || RING_PORT.IN & RING_PIN_bm) ...               *)
Look ==
  /\ Goto("look", "quiet")
  /\ IF ring_line_activity \/ ring_pin = "HIGH"
     THEN /\ last_time_active' = millis
          /\ ring_line_activity' = FALSE
     ELSE UNCHANGED <<last_time_active, ring_line_activity>>
  /\ UNCHANGED <<vars, modem_is_in_power_save, ring_pin, retrieved_period,
                 millis, timeout_timer, pit, abrupted, called>>

(* Quiet for long enough: return true; or timed out: return false.         *)
IsQuiet == Elapsed(millis, last_time_active) > STABLE

CompareTimes ==
  /\ Goto("quiet", CASE IsQuiet -> "test"
                     [] ~IsQuiet /\ HasTimedOut(millis, timeout_timer,
                                                WAITING_TIME) -> "leave"
                     [] OTHER -> "delay")
  /\ modem_is_in_power_save' = (modem_is_in_power_save \/ IsQuiet)
  /\ UNCHANGED <<vars, ring_line_activity, ring_pin, retrieved_period, clock,
                 pit, seen>>

(* if (modem_is_in_power_save) of powerSave() ...                          *)
TestPowerSave ==
  /\ Goto("test", IF modem_is_in_power_save THEN "falling" ELSE "leave")
  /\ UNCHANGED <<vars, ringing, retrieved_period, clock, pit, seen>>

(* ... and sleep_cpu(), a tenth of a second later.                         *)
SleepCpu ==
  /\ Goto("falling", "asleep")
  /\ UNCHANGED <<vars, ringing, retrieved_period, clock, pit, seen>>

WakeUp_KeepsBelief ==
  /\ Goto("woken", "leave")
  /\ UNCHANGED <<vars, ringing, retrieved_period, clock, pit, seen>>

WakeUp ==
  /\ Goto("woken", "leave")
  /\ modem_is_in_power_save' = FALSE
  /\ UNCHANGED <<vars, ring_line_activity, ring_pin, retrieved_period, clock,
                 pit, seen>>

(* The times of the attempt and the histories end here.                    *)
Leave ==
  /\ Goto("leave", "idle")
  /\ LeavePowerSave
  /\ timeout_timer' = millis
  /\ last_time_active' = millis
  /\ abrupted' = FALSE
  /\ called' = FALSE
  /\ UNCHANGED <<ringing, retrieved_period, millis, pit>>
-----------------------------------------------------------------------------
(* powerDown(): Lte.end() shuts the modem down and empties the ring.  The  *)
(* first tick of the timer is waited for and taken back.                   *)
PowerDown ==
  /\ Goto("idle", "down")
  /\ ClearReceiveBuffer
  /\ \E seconds \in 0 .. MaxSeconds :
       remaining_time_seconds' = seconds /\ ticks' = seconds
  /\ pit_triggered' = FALSE
  /\ UNCHANGED <<ringing, retrieved_period, clock, seen>>

(* ISR(RTC_PIT_vect), once a second; it wakes the CPU.                     *)
PitInterrupt ==
  /\ Off
  /\ pit_triggered' = TRUE
  /\ ticks' = IF ticks = 0 THEN 0 ELSE ticks - 1
  /\ save' = IF save = "dozing" THEN "dozed" ELSE save
  /\ UNCHANGED <<vars, ringing, retrieved_period, clock,
                 remaining_time_seconds, seen>>

Doze ==
  /\ Goto("down", IF remaining_time_seconds > 0 THEN "dozing" ELSE "up")
  /\ UNCHANGED <<vars, ringing, retrieved_period, clock, pit, seen>>

CountSecond_KeepsTick ==
  /\ Goto("dozed", IF pit_triggered THEN "down" ELSE "up")
  /\ remaining_time_seconds' =
       IF pit_triggered THEN remaining_time_seconds - 1
                        ELSE remaining_time_seconds
  /\ UNCHANGED <<vars, ringing, retrieved_period, clock, pit_triggered,
                 ticks, seen>>

(* A tick is counted, anything else ends the power down.                   *)
CountSecond ==
  /\ Goto("dozed", IF pit_triggered THEN "down" ELSE "up")
  /\ remaining_time_seconds' =
       IF pit_triggered THEN remaining_time_seconds - 1
                        ELSE remaining_time_seconds
  /\ pit_triggered' = FALSE
  /\ UNCHANGED <<vars, ringing, retrieved_period, clock, ticks, seen>>

(* Lte.begin() has succeeded: the modem is on again.                       *)
PowerUp ==
  /\ Goto("up", "idle")
  /\ UNCHANGED <<vars, ringing, retrieved_period, clock, pit, seen>>
-----------------------------------------------------------------------------
Main ==
  \/ ReceivePathStep
  \/ ConfigurePeriodicPowerSave \/ PowerSave
  \/ SuspendPowerSave \/ Drain \/ Drained \/ Arm \/ StartWatch
  \/ Delay \/ Look \/ CompareTimes
  \/ TestPowerSave \/ SleepCpu \/ WakeUp \/ Leave
  \/ PowerDown \/ Doze \/ CountSecond \/ PowerUp

PowerNext ==
  Main \/ Receive \/ RingEdge \/ ExternalWake \/ PitInterrupt

(* The main program gets on between two interrupts however many come, the  *)
(* timer ticks, and at the end of its period the modem rings.              *)
PowerFairness ==
  /\ SF_powerVars(Main)
  /\ WF_powerVars(PitInterrupt)
  /\ WF_powerVars(RingEdge /\ Asleep)

PowerSpec == PowerInit /\ [][PowerNext]_powerVars /\ PowerFairness
-----------------------------------------------------------------------------
(* The CPU sleeps with the RING interrupt attached, so that the modem can  *)
(* wake it, unless RING came after the last test of                        *)
(* modem_is_in_power_save: its callback detaches the interrupt.            *)
SleepsArmed ==
  Asleep => abrupted \/ (ring_line_callback /\ modem_is_in_power_save)

(* It sleeps with RTS HIGH, without which the modem does not stay asleep,  *)
(* unless a URC was completed by bytes the modem still sent: the receive   *)
(* interrupt sets RTS LOW behind a callback.                               *)
SleepsWithModemHeld == Asleep => abrupted \/ called \/ rts = "HIGH"

(* Outside powerSave() the receive path is never left in power save, with  *)
(* the RING interrupt attached or with a RING callback that changes modes. *)
LeavesPowerSave ==
  save \in {"idle", "down", "dozing", "dozed", "up"} =>
    power_save_mode = 0 /\ ~ring_line_callback /\ ~modem_is_in_power_save

(* powerDown() that is not woken by a pin lasts for the time asked for.    *)
DownLongEnough ==
  (save = "down" /\ remaining_time_seconds = 0) => ticks = 0

(* powerSave() returns, if the modem is ever silent for as long as it takes *)
(* to drain it, or sleeps without the RING interrupt.                      *)
PowerSaveReturns ==
  <>[][~Receive]_powerVars =>
    (save = "attempt" ~> save = "idle" \/ (Asleep /\ ~ring_line_callback))
=============================================================================
