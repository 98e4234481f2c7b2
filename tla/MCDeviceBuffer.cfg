SPECIFICATION Spec
CONSTANTS
  Tasks = {1, 2, 3}
  AppWaits = TRUE
  Settings <- Clients
  Stream <- SomeMessages
  Strays <- SomeStrays
  Buffer = 8
  Pauses = {TRUE, FALSE}
  MaxConnections = 2
  Half = 7
  MaxPass = 2
  Answer = 1
  Backlog = 1
  Requests <- Secure
  Uris = {}
  Properties = {}
  Failing <- NoBuffer
  Careful = TRUE
  MaxCalls = 1
  Steps <- Board
  Troubles <- SomeTroubles
  CarefulDevices = TRUE
  Trees <- MCTrees
  Instances <- MCInstances
  MaxIndex = 5
  TreeCount = 10
  Classes = 5
INVARIANT
  NoFault
CHECK_DEADLOCK FALSE
