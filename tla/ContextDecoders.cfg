\* Every cut of every message. A call returns, so its behaviour ends.
SPECIFICATION Spec
CONSTANTS
  Nil = Nil
  CtxSent <- MCCtxSent
  ReqSent <- MCReqSent
  RespSent <- MCRespSent
  MsgSent <- MCMsgSent
  PageSize = 16
  Word = 64
CHECK_DEADLOCK FALSE
INVARIANTS
  TypeOK
  InBounds
  DecodesWhatWasSent
  PanicsOnlyOnWrap
