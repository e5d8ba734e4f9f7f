\* serializeL7ProtocolInfo over lists of at most three infos. A call returns,
\* so its behaviour ends.
SPECIFICATION Spec
CONSTANTS
  Nil = Nil
  tiny = tiny
  half = half
  full = full
  over = over
  Bodies <- MCBodies
  SizeVT <- MCSizeVT
  BufSize = 65536
  InfoLists <- MCInfoLists
INVARIANTS
  TypeOK
  FramesTile
  WritesInBuffer
  AllOrNothing
CHECK_DEADLOCK FALSE
