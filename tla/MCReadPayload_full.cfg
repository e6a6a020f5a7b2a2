SPECIFICATION ReadSpec
CONSTANTS
  COMMAND_NUM_RETRIES = 1
  PLACEHOLDER_SIZE = 5
  RESULT_SIZE = 6
  MaxOutstanding = 1
  MaxRx = 5
  Payload <- MCPayload
  Buffer <- MCBuffer
  NULL = NULL
INVARIANT FullBodyIsReturned
