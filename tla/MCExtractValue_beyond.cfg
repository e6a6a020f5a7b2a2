SPECIFICATION Spec
CHECK_DEADLOCK FALSE
CONSTANTS
  Character = {",", " ", "CR", ":", "v"}
  RESPONSE_DELIMITER = ","
  SPACE_CHARACTER = " "
  CARRIAGE_RETURN = "CR"
  START_CHARACTER = ":"
  NULL = NULL
  MaxResponse = 5
  MaxIndex = 2
  MaxSize = 3
INVARIANT FoundIsValue
