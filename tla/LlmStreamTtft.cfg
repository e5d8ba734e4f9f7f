\* A request on a flow whose last answer was never seen to end.
SPECIFICATION Spec
CONSTANTS
  Nil = Nil
  f1 = f1
  Flows <- MCFlows
  MaxTime = 2
  MaxTokens = 2
  LineLens = {0, 1, 2}
  Word = 16
INVARIANT TtftIsADelay
