SPECIFICATION Spec
CONSTANTS
  COMMAND_NUM_RETRIES = 2
  PLACEHOLDER_SIZE = 5
  RESULT_SIZE = 8
  MaxOutstanding = 2
  MaxRx = 7
INVARIANT ErrorEndsResponse
