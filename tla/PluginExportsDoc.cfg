\* Results that an abort without an error never hands over.
SPECIFICATION Spec
CONSTANTS
  Nil = Nil
  small = small
  large = large
  Bodies <- MCBodies
  SizeVT <- MCSizeVT
  BufSize = 64
  Parsers <- MCParsers
  BufSizes = {0, 8}
  Payloads <- MCPayloads
  InfoLists <- MCInfoLists
  Checks <- MCChecks
PROPERTY AbortWritesResult
