\* A success whose body is cut inside the value.
SPECIFICATION Spec
CONSTANTS
  Nil = Nil
  Codes <- MCCodes
  Failures <- MCFailures
CHECK_DEADLOCK FALSE
INVARIANT SuccessStaysSuccess
