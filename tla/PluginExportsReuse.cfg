\* A parser that returns the same Response object every time.
SPECIFICATION Spec
CONSTANTS
  Nil = Nil
  small = small
  large = large
  Bodies <- MCBodies
  SizeVT <- MCSizeVT
  BufSize = 64
  Parsers <- MCReusing
  BufSizes = {0, 8}
  Payloads <- MCPayloads
  InfoLists <- MCInfoLists
  Checks <- MCChecks
INVARIANT StatusPreserved
