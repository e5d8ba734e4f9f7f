\* Each plugin with all its inputs; most of them return after one call.
SPECIFICATION Spec
CONSTANTS
  Nil = Nil
  Text = Text
  f1 = f1
  f2 = f2
  m1 = m1
  m2 = m2
  i1 = i1
  i2 = i2
  Flows <- MCFlows
  MaxTime = 2
  MaxTokens = 2
  LineLens = {0, 1, 2}
  Word64 = 16
  HttpCodes <- MCHttpCodes
  Failures = {"FAIL"}
  Word32 = 128
  Lengths <- MCLengths
  MaxHave = 24
  RetCodes <- MCRetCodes
  BodyCodes <- MCBodyCodes
  Methods <- MCMethods
  Inboxes <- MCInboxes
  FileLists <- MCFileLists
CHECK_DEADLOCK FALSE
INVARIANTS
  TypeOK
  ReportIsOfItsAnswer
  EntriesAreOpen
  FailuresSurface
  KeyAndValueArrived
  OnlyBadLengthsPanic
  SidesAreRight
  AnswersFindTheirCall
  ReferencesResolve
