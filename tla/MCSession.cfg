SPECIFICATION Spec
CONSTANTS
  MaxId = 3
  MaxWire = 2
  Settings <- SomeSettings
  Waiting = 3
  New = 1
  MaxAge = 3
  Period = 3
  Expiry = 19
  MaxPass = 1
  Answer = 1
  Stored <- SomeMessages
  MaxItems = 3
  MaxSize = 4
INVARIANTS
  SessionTypeOK
  
  SizeKept
  CounterExact
  NoneExpires
PROPERTIES
  ImplementsLibrary
  Delivers
  HandshakesEnd
CHECK_DEADLOCK FALSE
