SPECIFICATION Spec
CONSTANTS
  Byte = {"A", "B"}
  TX_BUFFER_SIZE = 2
  MaxWrites = 5
  NULL = "NULL"
PROPERTIES
  SendsInOrder
  AppendReturns
  RingDrains
