\* The option of demo.proto, ".;pb", and its neighbours.
SPECIFICATION Spec
CONSTANTS
  Nil = Nil
  FileLists <- MCFileLists
CHECK_DEADLOCK FALSE
INVARIANT PartBeforeSemicolon
