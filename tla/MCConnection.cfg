SPECIFICATION Spec
VIEW DeadValuesAside
CONSTANTS
  MaxSent = 2
  Message = Message
  NULL = NULL
INVARIANTS
  NetworkBelief
  BrokerBelief
  StatusOfThisConnect
  PublishedIsConfirmed
  ResponseIsOfRequest
  EndLeavesNothing
PROPERTIES
  CallsReturn
