\* Every handler, with the parsers the examples have.
SPECIFICATION Spec
CONSTANTS
  Nil = Nil
  small = small
  large = large
  Bodies <- MCBodies
  SizeVT <- MCSizeVT
  BufSize = 64
  Parsers <- MCParsers
  BufSizes = {0, 8}
  Payloads <- MCPayloads
  InfoLists <- MCInfoLists
  Checks <- MCChecks
INVARIANTS
  TypeOK
  ResultStopsTraversal
  DeliveredExactly
  SideMatchesMessage
  StatusPreserved
  OnePayload
  CheckAnswer
PROPERTIES
  DefaultsStayOut
  
  PromiseKept
