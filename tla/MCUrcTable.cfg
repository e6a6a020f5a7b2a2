SPECIFICATION Spec
CONSTANTS
  Byte = {"A", "B", "C"}
  Id <- MCId
  MAX_CALLBACKS = 2
  UserCallback = {"onEnd"}
  EndCallback = "onEnd"
  MQTT_ON_MESSAGE_URC <- MCOnMessage
  MQTT_ON_DISCONNECT_URC <- MCOnDisconnect
  Wait = "Wait"
  Torn = "Torn"
  NULL = "NULL"
INVARIANTS
  IdentifiersUnique
  WaitNoticesUrc
  WaitReturnsItsUrc
PROPERTY
  ImplementsMap
