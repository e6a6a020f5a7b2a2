SPECIFICATION ReadSpec
CONSTANTS
  COMMAND_NUM_RETRIES = 2
  PLACEHOLDER_SIZE = 5
  RESULT_SIZE = 6
  MaxOutstanding = 1
  MaxRx = 4
  Payload <- MCPayload
  Buffer <- MCBuffer
  NULL = NULL
INVARIANTS
  ResponseEndsCommand
  OkHasArrivedForCommand
  PayloadIsReturned
PROPERTY
  CallsReturn
VIEW DeadValuesAside
