\* The merge request of an info, looked for in what the host receives.
SPECIFICATION Spec
CONSTANTS
  Nil = Nil
  tiny = tiny
  half = half
  full = full
  over = over
  Bodies <- MCBodies
  SizeVT <- MCSizeVT
  BufSize = 65536
  InfoLists <- MCInfoLists
INVARIANT MergeIsAnnounced
CHECK_DEADLOCK FALSE
