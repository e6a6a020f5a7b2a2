SPECIFICATION PowerSpec
VIEW SlotsAndTimesAside
CONSTANTS
  Byte = {"+", "CR"}
  Digit = {}
  IDENTIFIER_SIZE = 1
  DATA_SIZE = 1
  MAX_CALLBACKS = 1
  urcs <- MCUrcs
  NULL = "NULL"
  RX_BUFFER_SIZE = 5
  RX_BUFFER_ALMOST_FULL = 3
  COUNTER_SIZE = 10
  Overshoot = 1
  CLOCK_SIZE = 4
  FirstTime = 3
  STABLE = 1
  WAITING_TIME = 2
  MaxSeconds = 2
INVARIANTS
  NoStall
  SleepsArmed
  SleepsWithModemHeld
  LeavesPowerSave
  DownLongEnough
PROPERTY
  PowerSaveReturns
