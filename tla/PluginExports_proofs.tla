------------------------ MODULE PluginExports_proofs ------------------------
(***************************************************************************)
(* What the exports promise for every parser, every list of infos and      *)
(* every behaviour of the host: the results proved here are the ones the   *)
(* run on MCPluginExports checks on an instance.                           *)
(***************************************************************************)
EXTENDS PluginExports, Foundations

------------------------------------------------------------------------------
(* What a serialisation returns *)

\* A message has exactly the shape of an AppInfo, whatever the direction.
LEMMA ToAppInfoType ==
  ASSUME NEW info \in L7ProtocolInfo, NEW d \in Direction
  PROVE  ToAppInfo(info, d) \in AppInfo
<1>1. Side(info, d) \in {"req", "resp", "none"}
  BY DEF Side
<1>2. ASSUME Side(info, d) = "resp" PROVE info.resp \in Response
  BY <1>2 DEF Side, L7ProtocolInfo
<1>3. ASSUME NEW s \in StatusValue \cup {Nil} PROVE PbStatus(s) \in RespStatus
  BY DEF PbStatus, RespStatus, RespStatusOk, RespStatusUnknown
<1>4. ASSUME Side(info, d) = "resp"
      PROVE  PbStatus(info.resp.status) \in RespStatus
  <2>1. info.resp.status \in StatusValue \cup {Nil}
    BY <1>2, <1>4 DEF Response
  <2> QED BY <2>1, <1>3
<1>5. info.body \in Bodies
  BY DEF L7ProtocolInfo
<1> QED BY <1>1, <1>4, <1>5 DEF ToAppInfo, AppInfo

\* The result of a serialisation is a list of messages, one per info or none.
LEMMA SerializedType ==
  ASSUME NEW infos \in Seq(L7ProtocolInfo), NEW d \in Direction
  PROVE  /\ Serialized(infos, d) \in Seq(AppInfo)
         /\ Serialized(infos, d) # <<>> =>
              /\ Len(Serialized(infos, d)) = Len(infos)
              /\ infos # <<>>
              /\ \A k \in 1..Len(infos) :
                   Serialized(infos, d)[k].body = infos[k].body
<1> DEFINE msgs == [k \in 1..Len(infos) |-> ToAppInfo(infos[k], d)]
<1>1. \A k \in 1..Len(infos) : infos[k] \in L7ProtocolInfo
  OBVIOUS
<1>2. \A k \in 1..Len(infos) : ToAppInfo(infos[k], d) \in AppInfo
  BY <1>1, ToAppInfoType
<1>3. msgs \in Seq(AppInfo) /\ Len(msgs) = Len(infos)
  BY <1>2
<1>4. \A k \in 1..Len(infos) : msgs[k].body = infos[k].body
  BY DEF ToAppInfo
<1>5. Serialized(infos, d) = msgs \/ Serialized(infos, d) = <<>>
  BY DEF Serialized
<1>6. <<>> \in Seq(AppInfo)
  OBVIOUS
<1>7. msgs # <<>> => infos # <<>>
  BY <1>3
<1> HIDE DEF msgs
<1> QED BY <1>3, <1>4, <1>5, <1>6, <1>7

\* What is serialised at all is the message of every info.
LEMMA SerializedMessages ==
  ASSUME NEW infos \in Seq(L7ProtocolInfo), NEW d \in Direction,
         Serialized(infos, d) # <<>>
  PROVE  /\ Len(Serialized(infos, d)) = Len(infos)
         /\ \A k \in 1..Len(infos) :
              Serialized(infos, d)[k] = ToAppInfo(infos[k], d)
<1> DEFINE msgs == [k \in 1..Len(infos) |-> ToAppInfo(infos[k], d)]
<1>1. Serialized(infos, d) = msgs
  BY DEF Serialized
<1>2. msgs \in Seq(AppInfo)
  BY ToAppInfoType
<1>3. Len(msgs) = Len(infos)
  OBVIOUS
<1> QED BY <1>1, <1>3

------------------------------------------------------------------------------
(* The invariant *)

\* What a handler knows of itself at each of its steps.
Phases ==
  /\ pc = "read_info" => hook \in WithInfo
  /\ pc \in {"serialize", "send"} => hook # "check_payload"
  /\ pc # "idle" => hook \in Handlers /\ answer = "none" /\ code = 0
  /\ pc \notin {"idle", "read_ctx"} => vmParser # Nil
  /\ pc \in {"dispatch", "callback", "result", "serialize", "send", "leave"} =>
       ctx # Nil

\* What is left of an Action once the handler goes on with its infos.
ActionKept ==
  /\ act # Nil => (act.infos # <<>> => act.isAbort)
  /\ pc \in {"serialize", "send", "leave"} /\ hook # "check_payload" =>
       act # Nil /\ ~act.err /\ ~TooMany
  /\ pc \in {"send", "leave"} /\ hook # "check_payload" => act.infos # <<>>

\* The handler changes no more of the callback's Action than a status.
GivenKept ==
  /\ act = Nil <=> given = Nil
  /\ act # Nil =>
       /\ given.err = act.err
       /\ Len(given.infos) = Len(act.infos)
       /\ \A k \in 1..Len(act.infos) : given.infos[k].body = act.infos[k].body

\* When something has been handed to the host, and by which kind of handler.
OutputsLast ==
  /\ pc \notin {"leave", "idle"} => delivered = <<>> /\ name = Nil
  /\ hook = "check_payload" => delivered = <<>>
  /\ hook # "check_payload" => name = Nil
  /\ pc = "leave" /\ hook = "check_payload" => name # Nil /\ check.protoNum # 0

IInv ==
  /\ TypeOK
  /\ Phases
  /\ ActionKept
  /\ GivenKept
  /\ OutputsLast
  /\ ResultStopsTraversal
  /\ DeliveredExactly
  /\ OnePayload
  /\ CheckAnswer

------------------------------------------------------------------------------
(* The values that go round *)

\* Every Action a callback can return is well formed, and one that carries a
\* result aborts.
LEMMA ReturnedShape ==
  ASSUME NEW p \in Parsers, NEW s \in StatusValue \cup {Nil},
         NEW a \in Returned(p, s), a # Nil
  PROVE  a \in Act /\ (a.infos # <<>> => a.isAbort)
<1>1. ASSUME NEW infos \in Seq(L7ProtocolInfo), NEW held \in BOOLEAN
      PROVE  /\ [AbortWith(infos) EXCEPT !.held = held] \in Act
             /\ AbortWith(infos) \in Act
             /\ [AbortWith(infos) EXCEPT !.held = held].isAbort
             /\ AbortWith(infos).isAbort
  BY DEF AbortWith, ActionAbort, Act
<1>2. ASSUME NEW req \in BOOLEAN, NEW resp \in Response \cup {Nil}, NEW b \in Bodies
      PROVE  <<Info(req, resp, b)>> \in Seq(L7ProtocolInfo)
  BY DEF Info, L7ProtocolInfo
<1>3. \A t \in StatusValue \cup {Nil} : [status |-> t] \in Response
  BY DEF Response
<1>4. CASE a \in {ActionAbort, ActionNext} \cup {ActionAbortWithErr(err) : err \in BOOLEAN}
  <2>1. <<>> \in Seq(L7ProtocolInfo)
    OBVIOUS
  <2>2. ActionAbort \in Act /\ ActionAbort.infos = <<>>
    BY <2>1 DEF ActionAbort, Act
  <2>3. ActionNext \in Act /\ ActionNext.infos = <<>>
    BY <2>2 DEF ActionNext, Act
  <2>4. ASSUME NEW err \in BOOLEAN
        PROVE  ActionAbortWithErr(err) \in Act /\ ActionAbortWithErr(err).infos = <<>>
    BY <2>2 DEF ActionAbortWithErr, Act
  <2> QED BY <1>4, <2>2, <2>3, <2>4
<1>5. CASE a \in {HttpReqActionAbortWithResult(b) : b \in Bodies}
  BY <1>1, <1>2, <1>5 DEF HttpReqActionAbortWithResult
<1>6. CASE a \in {HttpRespActionAbortWithResult(t, b) :
                    t \in StatusValue \cup {Nil}, b \in Bodies}
  <2>1. PICK t \in StatusValue \cup {Nil}, b \in Bodies :
          a = HttpRespActionAbortWithResult(t, b)
    BY <1>6
  <2>2. <<Info(FALSE, [status |-> t], b)>> \in Seq(L7ProtocolInfo)
    BY <1>2, <1>3
  <2> QED BY <1>1, <2>1, <2>2 DEF HttpRespActionAbortWithResult
<1>7. CASE a \in {CustomMessageActionAbortWithResult(b) : b \in Bodies}
  BY <1>1, <1>2, <1>3, <1>7 DEF CustomMessageActionAbortWithResult
<1>8. CASE a \in {ParseActionAbortWithL7Info(l) : l \in InfoLists}
  BY <1>1, <1>8, InputsAssumption DEF ParseActionAbortWithL7Info
<1>9. CASE a \in {HeldResponseAction(s, b) : b \in IF p.reuses THEN Bodies ELSE {}}
  <2>1. PICK b \in Bodies : a = HeldResponseAction(s, b)
    BY <1>9
  <2>2. <<Info(FALSE, [status |-> s], b)>> \in Seq(L7ProtocolInfo)
    BY <1>2, <1>3
  <2> QED BY <1>1, <2>1, <2>2 DEF HeldResponseAction, HttpRespActionAbortWithResult
<1> QED BY <1>4, <1>5, <1>6, <1>7, <1>8, <1>9 DEF Returned

\* Filling in the status keeps the list what it was but for that status.
LEMMA FillStatusType ==
  ASSUME NEW infos \in Seq(L7ProtocolInfo), infos # <<>>,
         NEW s \in StatusValue \cup {Nil}
  PROVE  /\ FillStatus(infos, s) \in Seq(L7ProtocolInfo)
         /\ FillStatus(infos, s) # <<>>
         /\ Len(FillStatus(infos, s)) = Len(infos)
         /\ \A k \in 1..Len(infos) : FillStatus(infos, s)[k].body = infos[k].body
<1> DEFINE filled == [infos[1] EXCEPT !.resp = [status |-> s]]
<1>1. infos[1] \in L7ProtocolInfo
  OBVIOUS
<1>2. filled \in L7ProtocolInfo /\ filled.body = infos[1].body
  BY <1>1 DEF L7ProtocolInfo, Response
<1>3. FillStatus(infos, s) = [infos EXCEPT ![1] = filled]
  BY DEF FillStatus
<1> HIDE DEF filled
<1>4. 1 \in 1..Len(infos)
  OBVIOUS
<1>5. [infos EXCEPT ![1] = filled] \in Seq(L7ProtocolInfo)
  BY <1>2
<1>6. Len([infos EXCEPT ![1] = filled]) = Len(infos)
  OBVIOUS
<1>7. \A k \in 1..Len(infos) : [infos EXCEPT ![1] = filled][k].body = infos[k].body
  BY <1>2
<1> QED BY <1>3, <1>4, <1>5, <1>6, <1>7

LEMMA InitIInv == Init => IInv
<1> SUFFICES ASSUME Init PROVE IInv
  OBVIOUS
<1>1. NoCheck \in Check
  BY DEF NoCheck, Check, Uint8
<1>2. TypeOK
  BY <1>1 DEF Init, TypeOK, States
<1> QED BY <1>2 DEF Init, IInv, Phases, ActionKept, GivenKept, OutputsLast,
      ResultStopsTraversal, DeliveredExactly, OnePayload, CheckAnswer, outputs

------------------------------------------------------------------------------
(* The three ways a call ends *)

\* Answering is safe where nothing was handed over, or where the answer stops.
LEMMA ReturnBoolStep ==
  ASSUME IInv, NEW b \in BOOLEAN, ReturnBool(b), hook # "check_payload",
         delivered # <<>> => b
  PROVE  IInv'
<1> USE DEF ReturnBool, config, outputs
<1>1. TypeOK'
  BY DEF IInv, TypeOK, States
<1>2. Phases' /\ ActionKept' /\ GivenKept' /\ OutputsLast'
  BY DEF IInv, Phases, ActionKept, GivenKept, OutputsLast
<1>3. ResultStopsTraversal' /\ DeliveredExactly' /\ OnePayload' /\ CheckAnswer'
  BY DEF IInv, ResultStopsTraversal, DeliveredExactly, OnePayload, CheckAnswer,
         OutputsLast
<1> QED BY <1>1, <1>2, <1>3 DEF IInv

LEMMA ReturnCodeStep ==
  ASSUME IInv, NEW n \in Nat, ReturnCode(n), hook = "check_payload",
         IF name = Nil THEN n = 0
         ELSE /\ check.protoNum # 0
              /\ n = check.direction * 256 + check.protoNum
  PROVE  IInv'
<1> USE DEF ReturnCode, config, outputs
<1>1. TypeOK'
  BY DEF IInv, TypeOK, States
<1>2. Phases' /\ ActionKept' /\ GivenKept' /\ OutputsLast'
  BY DEF IInv, Phases, ActionKept, GivenKept, OutputsLast
<1>3. name # Nil => n # 0
  BY DEF IInv, TypeOK, Check, Uint8
<1>4. ResultStopsTraversal'
  BY <1>3 DEF IInv, ResultStopsTraversal, OutputsLast
<1>5. DeliveredExactly' /\ OnePayload' /\ CheckAnswer'
  BY DEF IInv, DeliveredExactly, OnePayload, CheckAnswer, OutputsLast
<1> QED BY <1>1, <1>2, <1>4, <1>5 DEF IInv

LEMMA ReturnNothingStep ==
  ASSUME IInv, ReturnNothing, pc \notin {"idle", "leave"}
  PROVE  IInv'
<1>1. delivered = <<>> /\ name = Nil
  BY DEF IInv, OutputsLast
<1>2. CASE hook = "check_payload"
  BY <1>1, <1>2, ReturnCodeStep DEF ReturnNothing
<1>3. CASE hook # "check_payload"
  BY <1>1, <1>3, ReturnBoolStep DEF ReturnNothing
<1> QED BY <1>2, <1>3

LEMMA PanicStep ==
  ASSUME IInv, Panic, pc \notin {"idle", "leave"}
  PROVE  IInv'
<1> USE DEF Panic, config, outputs
<1>1. TypeOK'
  BY DEF IInv, TypeOK, States
<1>2. Phases' /\ ActionKept' /\ GivenKept' /\ OutputsLast'
  BY DEF IInv, Phases, ActionKept, GivenKept, OutputsLast
<1>3. ResultStopsTraversal' /\ DeliveredExactly' /\ OnePayload' /\ CheckAnswer'
  BY DEF IInv, ResultStopsTraversal, DeliveredExactly, OnePayload, CheckAnswer,
         OutputsLast
<1> QED BY <1>1, <1>2, <1>3 DEF IInv

------------------------------------------------------------------------------
(* The steps *)

LEMMA BetweenCalls ==
  ASSUME IInv, \/ \E p \in Parsers \cup {Nil} : SetParser(p)
               \/ \E h \in Handlers : Invoke(h)
  PROVE  IInv'
<1>1. ASSUME NEW p \in Parsers \cup {Nil}, SetParser(p) PROVE IInv'
  <2> USE <1>1 DEF SetParser, outputs
  <2>1. TypeOK'
    BY DEF IInv, TypeOK
  <2>2. Phases' /\ ActionKept' /\ GivenKept' /\ OutputsLast'
    BY DEF IInv, Phases, ActionKept, GivenKept, OutputsLast, TooMany
  <2>3. ResultStopsTraversal' /\ DeliveredExactly' /\ OnePayload' /\ CheckAnswer'
    BY DEF IInv, ResultStopsTraversal, DeliveredExactly, OnePayload, CheckAnswer
  <2> QED BY <2>1, <2>2, <2>3 DEF IInv
<1>2. ASSUME NEW h \in Handlers, Invoke(h) PROVE IInv'
  <2> USE <1>2 DEF Invoke, outputs
  <2>1. NoCheck \in Check
    BY DEF NoCheck, Check, Uint8
  <2>2. TypeOK'
    BY <2>1 DEF IInv, TypeOK, States
  <2>3. Phases' /\ ActionKept' /\ GivenKept' /\ OutputsLast'
    BY DEF Phases, ActionKept, GivenKept, OutputsLast
  <2>4. ResultStopsTraversal' /\ DeliveredExactly' /\ OnePayload' /\ CheckAnswer'
    BY DEF ResultStopsTraversal, DeliveredExactly, OnePayload, CheckAnswer
  <2> QED BY <2>2, <2>3, <2>4 DEF IInv
<1> QED BY <1>1, <1>2

\* The steps that read, decode and dispatch hand nothing over and keep no
\* Action yet.
LEMMA ReadSteps == IInv /\ Read => IInv'
<1> SUFFICES ASSUME IInv, Read PROVE IInv'
  OBVIOUS
<1>1. CASE NoParser \/ CtxBaseRefused \/ Undecodable
  BY <1>1, ReturnNothingStep DEF NoParser, CtxBaseRefused, Undecodable
<1>2. CASE InfoRefused
  <2>1. hook # "check_payload" /\ delivered = <<>>
    BY <1>2 DEF InfoRefused, IInv, Phases, OutputsLast, WithInfo
  <2> QED BY <1>2, <2>1, ReturnBoolStep DEF InfoRefused
<1>3. CASE ReadCtxBase
  <2> USE <1>3 DEF ReadCtxBase, config, outputs
  <2>1. ctx' \in Ctx \cup {Nil}
    <3>1. ASSUME NEW d \in Direction, NEW n \in BufSizes
          PROVE  [direction |-> d, bufSize |-> n, status |-> Nil, nats |-> FALSE] \in Ctx
      BY DEF Ctx
    <3> QED BY <3>1
  <2>2. TypeOK'
    BY <2>1 DEF IInv, TypeOK, States
  <2>3. Phases' /\ ActionKept' /\ GivenKept' /\ OutputsLast'
    BY DEF IInv, Phases, ActionKept, GivenKept, OutputsLast
  <2>4. ResultStopsTraversal' /\ DeliveredExactly' /\ OnePayload' /\ CheckAnswer'
    BY DEF IInv, ResultStopsTraversal, DeliveredExactly, OnePayload, CheckAnswer
  <2> QED BY <2>2, <2>3, <2>4 DEF IInv
<1>4. CASE ReadInfo
  <2> USE <1>4 DEF ReadInfo, config, outputs
  <2>1. ctx' \in Ctx \cup {Nil}
    <3>1. ctx \in Ctx \cup {Nil}
      BY DEF IInv, TypeOK
    <3>2. ASSUME ctx \in Ctx, NEW s \in RespStatus
          PROVE  [ctx EXCEPT !.status = s] \in Ctx
      BY <3>2 DEF Ctx
    <3>3. ASSUME ctx \in Ctx, NEW b \in BOOLEAN
          PROVE  [ctx EXCEPT !.nats = b] \in Ctx
      BY <3>3 DEF Ctx
    <3> QED BY <3>1, <3>2, <3>3
  <2>2. TypeOK'
    BY <2>1 DEF IInv, TypeOK, States
  <2>3. Phases' /\ ActionKept' /\ GivenKept' /\ OutputsLast'
    BY DEF IInv, Phases, ActionKept, GivenKept, OutputsLast
  <2>4. ResultStopsTraversal' /\ DeliveredExactly' /\ OnePayload' /\ CheckAnswer'
    BY DEF IInv, ResultStopsTraversal, DeliveredExactly, OnePayload, CheckAnswer
  <2> QED BY <2>2, <2>3, <2>4 DEF IInv
<1>5. CASE Decode
  <2> USE <1>5 DEF Decode, config, outputs
  <2>1. TypeOK'
    BY DEF IInv, TypeOK, States
  <2>2. Phases' /\ ActionKept' /\ GivenKept' /\ OutputsLast'
    BY DEF IInv, Phases, ActionKept, GivenKept, OutputsLast
  <2>3. ResultStopsTraversal' /\ DeliveredExactly' /\ OnePayload' /\ CheckAnswer'
    BY DEF IInv, ResultStopsTraversal, DeliveredExactly, OnePayload, CheckAnswer
  <2> QED BY <2>1, <2>2, <2>3 DEF IInv
<1> QED BY <1>1, <1>2, <1>3, <1>4, <1>5 DEF Read

LEMMA CallbackSteps == IInv /\ Callback => IInv'
<1> SUFFICES ASSUME IInv, Callback PROVE IInv'
  OBVIOUS
<1>1. CASE UnwiredNats
  BY <1>1, PanicStep DEF UnwiredNats
<1>2. CASE EnterCallback
  <2> USE <1>2 DEF EnterCallback, config, outputs
  <2>1. TypeOK'
    BY DEF IInv, TypeOK, States
  <2>2. Phases' /\ ActionKept' /\ GivenKept' /\ OutputsLast'
    BY DEF IInv, Phases, ActionKept, GivenKept, OutputsLast
  <2>3. ResultStopsTraversal' /\ DeliveredExactly' /\ OnePayload' /\ CheckAnswer'
    BY DEF IInv, ResultStopsTraversal, DeliveredExactly, OnePayload, CheckAnswer
  <2> QED BY <2>1, <2>2, <2>3 DEF IInv
<1>3. ASSUME pc \in {"dispatch", "callback"}, pc' = "result",
             check' \in Check, act' \in Act \cup {Nil}, given' = act',
             act' # Nil => (act'.infos # <<>> => act'.isAbort),
             UNCHANGED <<config, ctx, payload, seen, outputs, answer, code>>
      PROVE  IInv'
  <2> USE <1>3 DEF config, outputs
  <2>1. TypeOK'
    BY DEF IInv, TypeOK, States
  <2>2. Phases' /\ ActionKept' /\ GivenKept' /\ OutputsLast'
    BY DEF IInv, Phases, ActionKept, GivenKept, OutputsLast
  <2>3. ResultStopsTraversal' /\ DeliveredExactly' /\ OnePayload' /\ CheckAnswer'
    BY DEF IInv, ResultStopsTraversal, DeliveredExactly, OnePayload, CheckAnswer,
           OutputsLast
  <2> QED BY <2>1, <2>2, <2>3 DEF IInv
<1>4. CASE DefaultCallback
  <2>1. ActionNext \in Act /\ ActionNext.infos = <<>>
    <3>1. ActionAbort \in Act /\ ActionAbort.infos = <<>>
      BY DEF ActionAbort, Act
    <3> QED BY <3>1 DEF ActionNext, Act
  <2>2. act' = Nil \/ act' = ActionNext
    BY <1>4 DEF DefaultCallback
  <2>3. check \in Check
    BY DEF IInv, TypeOK
  <2> QED BY <1>3, <1>4, <2>1, <2>2, <2>3 DEF DefaultCallback
<1>5. CASE CallbackReturns /\ hook = "check_payload"
  <2>1. check' \in Check
    BY <1>5, InputsAssumption DEF CallbackReturns
  <2>2. act = Nil \/ act \in Act
    BY DEF IInv, TypeOK
  <2> USE <1>5 DEF CallbackReturns, config, outputs
  <2>3. TypeOK'
    BY <2>1 DEF IInv, TypeOK, States
  <2>4. Phases' /\ ActionKept' /\ GivenKept' /\ OutputsLast'
    BY DEF IInv, Phases, ActionKept, GivenKept, OutputsLast
  <2>5. ResultStopsTraversal' /\ DeliveredExactly' /\ OnePayload' /\ CheckAnswer'
    BY DEF IInv, ResultStopsTraversal, DeliveredExactly, OnePayload, CheckAnswer,
           OutputsLast
  <2> QED BY <2>3, <2>4, <2>5 DEF IInv
<1>6. CASE CallbackReturns /\ hook # "check_payload"
  <2>1. vmParser \in Parsers
    BY <1>6 DEF CallbackReturns, IInv, TypeOK, Phases
  <2>2. act' = Nil \/ (act' \in Act /\ (act'.infos # <<>> => act'.isAbort))
    BY <1>6, <2>1, ReturnedShape DEF CallbackReturns, IInv, TypeOK
  <2>3. check \in Check
    BY DEF IInv, TypeOK
  <2> QED BY <1>3, <1>6, <2>2, <2>3 DEF CallbackReturns
<1> QED BY <1>1, <1>2, <1>4, <1>5, <1>6 DEF Callback

\* The payload is the only thing a read of it changes.
LEMMA PayloadSteps == IInv /\ Payload => IInv'
<1> SUFFICES ASSUME IInv, Payload PROVE IInv'
  OBVIOUS
<1>1. CASE EmptyBuffer
  BY <1>1, PanicStep DEF EmptyBuffer, HasPayload
<1>2. CASE ReadPayloadFails
  <2> USE <1>2 DEF ReadPayloadFails, vars
  <2>1. TypeOK' /\ Phases' /\ ActionKept' /\ GivenKept' /\ OutputsLast'
    BY DEF IInv, TypeOK, Phases, ActionKept, GivenKept, OutputsLast, TooMany
  <2>2. ResultStopsTraversal' /\ DeliveredExactly' /\ OnePayload' /\ CheckAnswer'
    BY DEF IInv, ResultStopsTraversal, DeliveredExactly, OnePayload, CheckAnswer,
           outputs
  <2> QED BY <2>1, <2>2 DEF IInv
<1>3. CASE GetCachedPayload \/ ReadPayload
  <2> USE <1>3 DEF GetCachedPayload, ReadPayload, HasPayload, Cached, config, outputs
  <2>1. payload' \in Payloads /\ seen' \subseteq Payloads /\ seen' \subseteq {payload'}
    BY PayloadsAssumption DEF IInv, TypeOK, OnePayload
  <2>2. TypeOK'
    BY <2>1 DEF IInv, TypeOK, States
  <2>3. Phases' /\ ActionKept' /\ GivenKept' /\ OutputsLast'
    BY DEF IInv, Phases, ActionKept, GivenKept, OutputsLast
  <2>4. ResultStopsTraversal' /\ DeliveredExactly' /\ OnePayload' /\ CheckAnswer'
    BY <2>1 DEF IInv, ResultStopsTraversal, DeliveredExactly, OnePayload, CheckAnswer
  <2> QED BY <2>2, <2>3, <2>4 DEF IInv
<1> QED BY <1>1, <1>2, <1>3 DEF Payload

LEMMA FinishSteps == IInv /\ Finish => IInv'
<1> SUFFICES ASSUME IInv, Finish PROVE IInv'
  OBVIOUS
<1> USE DEF WithAction
<1>a. act # Nil => act \in Act /\ act.isAbort \in BOOLEAN /\ act.infos \in Seq(L7ProtocolInfo)
  BY DEF IInv, TypeOK, Act
<1>b. pc \in {"result", "serialize"} => delivered = <<>>
  BY DEF IInv, OutputsLast
<1>c. pc \in {"serialize", "send", "leave"} /\ hook # "check_payload" => act # Nil
  BY DEF IInv, ActionKept
<1>d. pc \in {"serialize", "send"} => hook # "check_payload"
  BY DEF IInv, Phases
<1>1. CASE NoAction
  BY <1>1, <1>b, ReturnBoolStep DEF NoAction
<1>2. CASE ActionFailed \/ MultiInfo
  BY <1>2, <1>a, <1>b, ReturnBoolStep DEF ActionFailed, MultiInfo
<1>3. CASE NoResponse
  BY <1>3, PanicStep DEF NoResponse
<1>4. CASE NothingToSend
  BY <1>4, <1>a, <1>b, <1>c, <1>d, ReturnBoolStep DEF NothingToSend
<1>5. CASE Leave
  <2>1. act.isAbort = TRUE
    BY <1>5, <1>a DEF Leave, IInv, ActionKept
  <2> QED BY <1>5, <2>1, ReturnBoolStep DEF Leave
<1>6. CASE PreserveStatus
  <2> USE <1>6 DEF PreserveStatus, outputs
  <2>1. ctx.status \in StatusValue \cup {Nil}
    BY DEF IInv, TypeOK, Phases, Ctx, StatusValue
  <2>2. act.infos # <<>> /\ act.isAbort
    BY DEF LooksAtStatus, IInv, ActionKept
  <2>3. /\ act' \in Act /\ act' # Nil
        /\ act'.isAbort /\ act'.err = act.err
        /\ act'.infos # <<>> /\ Len(act'.infos) = Len(act.infos)
        /\ \A k \in 1..Len(act.infos) : act'.infos[k].body = act.infos[k].body
    <3>1. CASE act' = act
      BY <1>a, <2>2, <3>1
    <3>2. CASE act' = [act EXCEPT !.infos = FillStatus(act.infos, ctx.status)]
      <4> DEFINE filled == FillStatus(act.infos, ctx.status)
      <4>1. /\ filled \in Seq(L7ProtocolInfo) /\ filled # <<>>
            /\ Len(filled) = Len(act.infos)
            /\ \A k \in 1..Len(act.infos) : filled[k].body = act.infos[k].body
        BY <1>a, <2>1, <2>2, FillStatusType
      <4> HIDE DEF filled
      <4>2. /\ act' \in Act /\ act'.infos = filled /\ act'.isAbort = act.isAbort
            /\ act'.err = act.err
        BY <1>a, <3>2, <4>1 DEF Act, filled
      <4>3. act'.infos # <<>> /\ act'.isAbort
        BY <2>2, <4>1, <4>2
      <4> QED BY <4>1, <4>2, <4>3, NilIsNoValue
    <3> QED BY <3>1, <3>2
  <2>4. heldStatus' \in StatusValue \cup {Nil}
    BY <2>1 DEF IInv, TypeOK
  <2>5. TypeOK'
    BY <2>3, <2>4 DEF IInv, TypeOK, States
  <2>6. Phases' /\ OutputsLast'
    BY DEF IInv, Phases, OutputsLast
  <2>7. ActionKept'
    BY <2>3 DEF ActionKept, TooMany
  <2>8. GivenKept'
    BY <2>3 DEF IInv, GivenKept
  <2>9. ResultStopsTraversal' /\ DeliveredExactly' /\ OnePayload' /\ CheckAnswer'
    BY <1>b DEF IInv, ResultStopsTraversal, DeliveredExactly, OnePayload, CheckAnswer
  <2> QED BY <2>5, <2>6, <2>7, <2>8, <2>9 DEF IInv
<1>7. CASE KeepInfos
  <2> USE <1>7 DEF KeepInfos, config, outputs
  <2>1. TypeOK'
    BY DEF IInv, TypeOK, States
  <2>2. Phases' /\ ActionKept' /\ GivenKept' /\ OutputsLast'
    BY DEF IInv, Phases, ActionKept, GivenKept, OutputsLast, TooMany
  <2>3. ResultStopsTraversal' /\ DeliveredExactly' /\ OnePayload' /\ CheckAnswer'
    BY DEF IInv, ResultStopsTraversal, DeliveredExactly, OnePayload, CheckAnswer
  <2> QED BY <2>1, <2>2, <2>3 DEF IInv
<1>e. ASSUME act # Nil, pc \in {"serialize", "send"}
      PROVE  /\ Data \in Seq(AppInfo)
             /\ Data # <<>> =>
                  /\ act.infos # <<>> /\ Len(Data) = Len(act.infos)
                  /\ \A k \in 1..Len(act.infos) : Data[k].body = act.infos[k].body
  <2>1. SendDirection \in Direction
    <3>1. ctx.direction \in Direction
      BY <1>e DEF IInv, TypeOK, Phases, Ctx
    <3> QED BY <3>1 DEF SendDirection, Direction, DirectionRequest, DirectionResponse
  <2> QED BY <1>a, <1>e, <2>1, SerializedType DEF Data
<1>8. CASE Serialize
  <2> USE <1>8 DEF Serialize, config, outputs
  <2>1. TypeOK'
    BY DEF IInv, TypeOK, States
  <2>2. Phases' /\ GivenKept' /\ OutputsLast'
    BY DEF IInv, Phases, GivenKept, OutputsLast
  <2>3. act.infos # <<>>
    BY <1>c, <1>d, <1>e
  <2>4. ActionKept'
    BY <2>3 DEF IInv, ActionKept, TooMany
  <2>5. ResultStopsTraversal' /\ DeliveredExactly' /\ OnePayload' /\ CheckAnswer'
    BY <1>b DEF IInv, ResultStopsTraversal, DeliveredExactly, OnePayload, CheckAnswer
  <2> QED BY <2>1, <2>2, <2>4, <2>5 DEF IInv
<1>9. CASE HostReadL7ProtocolInfo
  <2> USE <1>9 DEF HostReadL7ProtocolInfo, config, outputs
  <2>1. delivered' \in Seq(AppInfo)
    BY <1>c, <1>e DEF IInv, TypeOK
  <2>2. TypeOK'
    BY <2>1 DEF IInv, TypeOK, States
  <2>3. Phases' /\ ActionKept' /\ GivenKept' /\ OutputsLast'
    BY DEF IInv, Phases, ActionKept, GivenKept, OutputsLast, TooMany
  <2>4. DeliveredExactly'
    <3>1. CASE delivered' = <<>>
      BY <3>1 DEF DeliveredExactly
    <3>2. CASE delivered' = Data /\ Data # <<>>
      <4>1. act # Nil /\ ~act.err /\ ~TooMany /\ given.err = act.err
        BY DEF IInv, ActionKept, GivenKept
      <4>2. /\ Len(given.infos) = Len(act.infos)
            /\ \A k \in 1..Len(act.infos) : given.infos[k].body = act.infos[k].body
        BY <4>1 DEF IInv, GivenKept
      <4>3. given' = given /\ hook' = hook
        OBVIOUS
      <4> HIDE DEF HostReadL7ProtocolInfo
      <4>4. /\ act.infos # <<>> /\ Len(Data) = Len(act.infos)
            /\ \A k \in 1..Len(act.infos) : Data[k].body = act.infos[k].body
        BY <1>e, <3>2, <4>1 DEF HostReadL7ProtocolInfo
      <4>5. ASSUME hook \in WithInfo PROVE Len(act.infos) = 1
        <5>1. Len(act.infos) \in Nat /\ Len(act.infos) # 0
          BY <1>a, <4>1, <4>4
        <5>2. ~(Len(act.infos) > 1)
          BY <4>1, <4>5 DEF TooMany
        <5>3. ASSUME NEW m \in Nat, m # 0, ~(m > 1) PROVE m = 1
          BY <5>3
        <5> QED BY <5>1, <5>2, <5>3
      <4> DEFINE n == Len(act.infos)
      <4>6. Len(delivered') = n /\ Len(given'.infos) = n
        BY <3>2, <4>2, <4>3, <4>4
      <4>7. \A k \in 1..n : delivered'[k].body = given'.infos[k].body
        BY <3>2, <4>2, <4>3, <4>4
      <4>8. ~given'.err /\ (hook' \in WithInfo => n = 1)
        BY <4>1, <4>3, <4>5
      <4> HIDE DEF n
      <4> QED BY <4>6, <4>7, <4>8 DEF DeliveredExactly
    <3>3. delivered = <<>>
      BY DEF IInv, OutputsLast
    <3> QED BY <3>1, <3>2, <3>3
  <2>5. ResultStopsTraversal' /\ OnePayload' /\ CheckAnswer'
    BY DEF IInv, ResultStopsTraversal, OnePayload, CheckAnswer
  <2> QED BY <2>2, <2>3, <2>4, <2>5 DEF IInv
<1> QED BY <1>1, <1>2, <1>3, <1>4, <1>5, <1>6, <1>7, <1>8, <1>9 DEF Finish

LEMMA FinishCheckSteps == IInv /\ FinishCheck => IInv'
<1> SUFFICES ASSUME IInv, FinishCheck PROVE IInv'
  OBVIOUS
<1> USE DEF WithCheck
<1>1. CASE NotMine \/ NameRefused
  <2>1. name = Nil
    BY <1>1 DEF NotMine, NameRefused, IInv, OutputsLast
  <2> QED BY <1>1, <2>1, ReturnCodeStep DEF NotMine, NameRefused
<1>2. CASE LeaveCheck
  <2>1. name # Nil /\ check.protoNum # 0
    BY <1>2 DEF LeaveCheck, IInv, OutputsLast
  <2>2. CheckCode(check) \in Nat
    BY DEF CheckCode, IInv, TypeOK, Check, Uint8
  <2>3. CheckCode(check) = check.direction * 256 + check.protoNum
    BY DEF CheckCode
  <2> QED BY <1>2, <2>1, <2>2, <2>3, ReturnCodeStep DEF LeaveCheck
<1>3. CASE HostReadStrResult
  <2> USE <1>3 DEF HostReadStrResult, config, outputs
  <2>1. name' \in 0..16 /\ name' # Nil
    BY NilIsNoValue, SMTT(30) DEF ShortName, IInv, TypeOK, Check
  <2>2. TypeOK'
    BY <2>1 DEF IInv, TypeOK, States
  <2>3. Phases' /\ ActionKept' /\ GivenKept' /\ OutputsLast'
    BY <2>1 DEF IInv, Phases, ActionKept, GivenKept, OutputsLast
  <2>4. ResultStopsTraversal' /\ DeliveredExactly' /\ OnePayload' /\ CheckAnswer'
    BY DEF IInv, ResultStopsTraversal, DeliveredExactly, OnePayload, CheckAnswer,
           OutputsLast
  <2> QED BY <2>2, <2>3, <2>4 DEF IInv
<1> QED BY <1>1, <1>2, <1>3 DEF FinishCheck

LEMMA StepIInv == IInv /\ [Next]_vars => IInv'
<1> SUFFICES ASSUME IInv, [Next]_vars PROVE IInv'
  OBVIOUS
<1>1. CASE Next
  BY <1>1, BetweenCalls, ReadSteps, CallbackSteps, PayloadSteps, FinishSteps,
     FinishCheckSteps DEF Next
<1>2. CASE UNCHANGED vars
  <2> USE <1>2 DEF vars
  <2>1. TypeOK' /\ Phases' /\ ActionKept' /\ GivenKept' /\ OutputsLast'
    BY DEF IInv, TypeOK, Phases, ActionKept, GivenKept, OutputsLast, TooMany
  <2>2. ResultStopsTraversal' /\ DeliveredExactly' /\ OnePayload' /\ CheckAnswer'
    BY DEF IInv, ResultStopsTraversal, DeliveredExactly, OnePayload, CheckAnswer,
           outputs
  <2> QED BY <2>1, <2>2 DEF IInv
<1> QED BY <1>1, <1>2

------------------------------------------------------------------------------
(* The theorems *)

\* Everything the handlers know of themselves holds at every step of every call.
THEOREM ExportsInvariant == Spec => []IInv
<1>1. Init => IInv
  BY InitIInv
<1>2. IInv /\ [Next]_vars => IInv'
  BY StepIInv
<1> QED BY <1>1, <1>2, PTL DEF Spec

\* The state keeps its types: what reaches the host is a list of AppInfo
\* messages or a name of at most 16 bytes (abi_export.go:55-59, 168-176).
THEOREM ExportsTypeCorrect == Spec => []TypeOK
<1>1. IInv => TypeOK
  BY DEF IInv
<1> QED BY <1>1, ExportsInvariant, PTL

\* A call that handed something to the host answers so that the agent stops
\* (parser.go:106), whatever the parser returned and the host answered.
THEOREM ResultsStop == Spec => []ResultStopsTraversal
<1>1. IInv => ResultStopsTraversal
  BY DEF IInv
<1> QED BY <1>1, ExportsInvariant, PTL

\* The host gets the callback's infos all, in order and unmixed, and never
\* those of an Action with an error (abi_export.go:202-218).
THEOREM ResultsDeliveredExactly == Spec => []DeliveredExactly
<1>1. IInv => DeliveredExactly
  BY DEF IInv
<1> QED BY <1>1, ExportsInvariant, PTL

\* GetPayload gives a call one payload, though the host may answer every read
\* differently (host.go:108-122).
THEOREM PayloadIsStable == Spec => []OnePayload
<1>1. IInv => OnePayload
  BY DEF IInv
<1> QED BY <1>1, ExportsInvariant, PTL

\* check_payload encodes the parser's answer exactly when the host took the
\* name, and returns 0 otherwise (abi_export.go:167-180).
THEOREM CheckAnswersRight == Spec => []CheckAnswer
<1>1. IInv => CheckAnswer
  BY DEF IInv
<1> QED BY <1>1, ExportsInvariant, PTL

------------------------------------------------------------------------------
(* What becomes of the callback's infos *)

\* on_http_resp has looked at the status: the one the callback left is kept, a
\* missing one is the message's.
StatusFilled ==
  /\ act.infos[1].resp # Nil
  /\ act.infos[1].resp.status =
       IF given.infos[1].resp.status = Nil THEN ctx.status
       ELSE given.infos[1].resp.status

\* No info gains or loses a half, and what the host has is what serialising
\* the infos for this handler's direction gives.
ResultKept ==
  /\ act # Nil =>
       \A k \in 1..Len(act.infos) :
         /\ act.infos[k].req = given.infos[k].req
         /\ act.infos[k].resp = Nil <=> given.infos[k].resp = Nil
  /\ pc = "result" /\ hook # "check_payload" => act = given
  /\ hook = "on_http_resp" /\ pc \in {"serialize", "send", "leave"}
       /\ act.infos # <<>> => StatusFilled
  /\ delivered # <<>> =>
       /\ ctx # Nil /\ act # Nil /\ hook \in Handlers
       /\ delivered = Data
       /\ hook = "on_http_resp" => StatusFilled

\* Filling in the status touches the Response of the first info only.
LEMMA FillStatusHalves ==
  ASSUME NEW infos \in Seq(L7ProtocolInfo), infos # <<>>, infos[1].resp # Nil,
         NEW s \in StatusValue \cup {Nil}
  PROVE  /\ FillStatus(infos, s)[1].resp = [status |-> s]
         /\ \A k \in 1..Len(infos) :
              /\ FillStatus(infos, s)[k].req = infos[k].req
              /\ FillStatus(infos, s)[k].resp = Nil <=> infos[k].resp = Nil
<1> DEFINE filled == [infos[1] EXCEPT !.resp = [status |-> s]]
<1>1. infos[1] \in L7ProtocolInfo /\ 1 \in 1..Len(infos)
  OBVIOUS
<1>2. filled.resp = [status |-> s] /\ filled.req = infos[1].req
  BY <1>1 DEF L7ProtocolInfo
<1>3. [status |-> s] # Nil
  BY NilIsNoResponse DEF Response
<1>4. FillStatus(infos, s) = [infos EXCEPT ![1] = filled]
  BY DEF FillStatus
<1> HIDE DEF filled
<1>5. \A k \in 1..Len(infos) :
        [infos EXCEPT ![1] = filled][k] = IF k = 1 THEN filled ELSE infos[k]
  OBVIOUS
<1> QED BY <1>1, <1>2, <1>3, <1>4, <1>5

\* A step that leaves the Action, the outputs and what they were made for alone.
LEMMA ResultKeptStays ==
  ASSUME ResultKept, UNCHANGED <<act, given, delivered>>,
         \/ delivered = <<>>
         \/ UNCHANGED <<hook, ctx>>,
         \/ pc' \notin {"result", "serialize", "send", "leave"}
         \/ UNCHANGED <<pc, hook, ctx>>
  PROVE  ResultKept'
  BY DEF ResultKept, StatusFilled, Data, SendDirection

LEMMA PreserveStatusKeeps ==
  ASSUME IInv, ResultKept, PreserveStatus
  PROVE  ResultKept'
<1> USE DEF PreserveStatus, WithAction, LooksAtStatus, outputs
<1>1. act = given /\ hook = "on_http_resp" /\ delivered = <<>>
  BY DEF ResultKept, IInv, OutputsLast
<1>2. act \in Act /\ act.infos \in Seq(L7ProtocolInfo) /\ act.infos # <<>>
  BY DEF IInv, TypeOK, Act
<1>3. act.infos[1] \in L7ProtocolInfo /\ act.infos[1].resp # Nil
  BY <1>2
<1>4. UNCHANGED <<hook, ctx, given, delivered>> /\ pc' = "serialize"
  OBVIOUS
<1>5. CASE StatusMissing(act.infos[1])
  <2>1. act'.infos = FillStatus(act.infos, ctx.status)
    BY <1>2, <1>5 DEF Act
  <2>2. ctx.status \in StatusValue \cup {Nil}
    BY DEF IInv, TypeOK, Phases, Ctx, StatusValue
  <2>3. /\ act'.infos[1].resp = [status |-> ctx.status]
        /\ Len(act'.infos) = Len(act.infos)
        /\ \A k \in 1..Len(act.infos) :
             /\ act'.infos[k].req = act.infos[k].req
             /\ act'.infos[k].resp = Nil <=> act.infos[k].resp = Nil
    BY <1>2, <1>3, <2>1, <2>2, FillStatusHalves, FillStatusType
  <2>4. act'.infos[1].resp # Nil
    BY <2>2, <2>3, NilIsNoResponse DEF Response
  <2>5. given.infos[1].resp.status = Nil
    BY <1>1, <1>5 DEF StatusMissing
  <2> QED BY <1>1, <1>4, <2>3, <2>4, <2>5 DEF ResultKept, StatusFilled
<1>6. CASE ~StatusMissing(act.infos[1])
  <2>1. act' = act
    BY <1>6
  <2> HIDE DEF PreserveStatus
  <2> QED BY <1>1, <1>3, <1>4, <1>6, <2>1
          DEF ResultKept, StatusFilled, StatusMissing
<1> QED BY <1>5, <1>6

LEMMA StepResultKept ==
  ASSUME IInv, ResultKept, [Next]_vars
  PROVE  ResultKept'
<1> USE DEF config, outputs
<1>1. CASE UNCHANGED vars
  BY <1>1, ResultKeptStays DEF vars
<1>2. ASSUME NEW p \in Parsers \cup {Nil}, SetParser(p) PROVE ResultKept'
  BY <1>2, ResultKeptStays DEF SetParser
<1>3. ASSUME NEW h \in Handlers, Invoke(h) PROVE ResultKept'
  BY <1>3 DEF Invoke, ResultKept
<1>4. CASE Read
  <2>1. delivered = <<>>
    BY <1>4 DEF Read, NoParser, CtxBaseRefused, ReadCtxBase, InfoRefused,
       ReadInfo, Undecodable, Decode, IInv, OutputsLast
  <2>2. /\ UNCHANGED <<act, given, delivered>>
        /\ pc' \notin {"result", "serialize", "send", "leave"}
    BY <1>4 DEF Read, NoParser, CtxBaseRefused, ReadCtxBase, InfoRefused,
       ReadInfo, Undecodable, Decode, ReturnNothing, ReturnBool, ReturnCode
  <2> QED BY <2>1, <2>2, ResultKeptStays
<1>5. CASE EnterCallback \/ UnwiredNats
  BY <1>5, ResultKeptStays DEF EnterCallback, UnwiredNats, Panic
<1>6. CASE DefaultCallback \/ CallbackReturns
  <2>1. /\ \/ given' = act'
           \/ UNCHANGED <<act, given>> /\ hook = "check_payload"
        /\ pc' = "result" /\ UNCHANGED <<hook, delivered>>
        /\ pc \in {"dispatch", "callback"}
    BY <1>6 DEF DefaultCallback, CallbackReturns
  <2>2. delivered = <<>>
    BY <2>1 DEF IInv, OutputsLast
  <2> QED BY <2>1, <2>2 DEF ResultKept
<1>7. CASE Payload
  BY <1>7, ResultKeptStays DEF Payload, HasPayload, GetCachedPayload,
     ReadPayloadFails, ReadPayload, EmptyBuffer, Panic, vars
<1>8. CASE NoAction \/ ActionFailed \/ MultiInfo \/ NoResponse \/ NothingToSend
             \/ Leave \/ NotMine \/ NameRefused \/ LeaveCheck
  BY <1>8, ResultKeptStays DEF NoAction, ActionFailed, MultiInfo, NoResponse,
     NothingToSend, Leave, NotMine, NameRefused, LeaveCheck, ReturnBool,
     ReturnCode, Panic
<1>9. CASE PreserveStatus
  BY <1>9, PreserveStatusKeeps
<1>10. CASE KeepInfos \/ Serialize \/ HostReadStrResult
  <2>1. /\ UNCHANGED <<hook, ctx, act, given, delivered>>
        /\ pc' \in {"serialize", "send", "leave"}
        /\ \/ pc = "serialize"
           \/ ~LooksAtStatus
           \/ hook = "check_payload"
    BY <1>10 DEF KeepInfos, Serialize, HostReadStrResult, WithCheck
  <2> QED BY <2>1 DEF ResultKept, StatusFilled, LooksAtStatus, Data, SendDirection
<1>11. CASE HostReadL7ProtocolInfo
  <2>1. /\ UNCHANGED <<hook, ctx, act, given>>
        /\ delivered' \in {Data, delivered} /\ pc = "send" /\ pc' = "leave"
        /\ hook # "check_payload"
    BY <1>11 DEF HostReadL7ProtocolInfo
  <2>2. /\ delivered = <<>> /\ ctx # Nil /\ act # Nil /\ act.infos # <<>>
        /\ hook \in Handlers
    BY <2>1 DEF IInv, Phases, OutputsLast, ActionKept
  <2>3. Data' = Data
    BY <2>1 DEF Data, SendDirection
  <2> QED BY <2>1, <2>2, <2>3 DEF ResultKept, StatusFilled
<1> QED BY <1>1, <1>2, <1>3, <1>4, <1>5, <1>6, <1>7, <1>8, <1>9, <1>10, <1>11
        DEF Next, Callback, Finish, FinishCheck

LEMMA AlwaysResultKept == Spec => [](IInv /\ ResultKept)
<1>1. Init => ResultKept
  BY DEF Init, ResultKept
<1>2. IInv /\ ResultKept /\ [Next]_vars => ResultKept'
  BY StepResultKept
<1> QED BY <1>1, <1>2, ExportsInvariant, PTL DEF Spec

\* What was delivered, message by message.
LEMMA DeliveredMessages ==
  ASSUME IInv, ResultKept, delivered # <<>>
  PROVE  /\ act \in Act /\ act.infos \in Seq(L7ProtocolInfo)
         /\ ctx.direction \in Direction
         /\ SendDirection \in Direction
         /\ Len(delivered) = Len(act.infos)
         /\ \A k \in 1..Len(delivered) :
              delivered[k] = ToAppInfo(act.infos[k], SendDirection)
<1>1. act \in Act /\ act.infos \in Seq(L7ProtocolInfo) /\ delivered = Data
  BY DEF ResultKept, IInv, TypeOK, Act
<1>2. ctx.direction \in Direction
  BY DEF ResultKept, IInv, TypeOK, Ctx
<1>3. SendDirection \in Direction
  BY <1>2 DEF SendDirection, Direction, DirectionRequest, DirectionResponse
<1> DEFINE d == SendDirection
<1>4. d \in Direction
  BY <1>3
<1> HIDE DEF d
<1>5. Serialized(act.infos, d) = delivered
  BY <1>1 DEF Data, d
<1>6. /\ Len(delivered) = Len(act.infos)
      /\ \A k \in 1..Len(delivered) : delivered[k] = ToAppInfo(act.infos[k], d)
  BY <1>1, <1>4, <1>5, SerializedMessages
<1> QED BY <1>1, <1>2, <1>3, <1>6 DEF d

\* Of a two-sided info the host gets the half of the message it is working on
\* (abi_export.go:63, 115; serde.go:384-404).
THEOREM RightSideSent == Spec => []SideMatchesMessage
<1>1. IInv /\ ResultKept => SideMatchesMessage
  <2> SUFFICES ASSUME IInv, ResultKept, NEW k \in 1..Len(delivered),
                      given.infos[k].req, given.infos[k].resp # Nil
               PROVE  delivered[k].side = "req"
                        <=> \/ hook = "on_http_req"
                            \/ /\ hook # "on_http_resp"
                               /\ ctx.direction = DirectionRequest
    BY DEF SideMatchesMessage
  <2>1. delivered # <<>>
    OBVIOUS
  <2>2. /\ delivered[k] = ToAppInfo(act.infos[k], SendDirection)
        /\ k \in 1..Len(act.infos) /\ ctx.direction \in Direction
    BY <2>1, DeliveredMessages
  <2>3. act # Nil
    BY <2>1 DEF ResultKept
  <2>4. act.infos[k].req /\ act.infos[k].resp # Nil
    BY <2>2, <2>3 DEF ResultKept
  <2>5. delivered[k].side = "req" <=> SendDirection = DirectionRequest
    BY <2>2, <2>4 DEF ToAppInfo, Side
  <2> QED BY <2>2, <2>5 DEF SendDirection, DirectionRequest, DirectionResponse, Direction
<1> QED BY <1>1, AlwaysResultKept, PTL

\* No Response belongs to the parser when none reuses its own.
LEMMA ReturnedNotHeld ==
  ASSUME NEW p \in Parsers, ~p.reuses, NEW s \in StatusValue \cup {Nil},
         NEW a \in Returned(p, s), a # Nil
  PROVE  ~a.held
<1> USE DEF ActionAbort, AbortWith
<1>1. ASSUME NEW infos PROVE ~AbortWith(infos).held
  OBVIOUS
<1>2. ~ActionAbort.held /\ ~ActionNext.held
  BY DEF ActionNext
<1>3. ASSUME NEW err \in BOOLEAN PROVE ~ActionAbortWithErr(err).held
  BY DEF ActionAbortWithErr
<1> HIDE DEF ActionAbort, AbortWith
<1>4. CASE a \in {ActionAbort, ActionNext}
                  \cup {ActionAbortWithErr(err) : err \in BOOLEAN}
  BY <1>2, <1>3, <1>4
<1>5. CASE a \in {HttpReqActionAbortWithResult(b) : b \in Bodies}
  BY <1>1, <1>5 DEF HttpReqActionAbortWithResult
<1>6. CASE a \in {HttpRespActionAbortWithResult(t, b) :
                    t \in StatusValue \cup {Nil}, b \in Bodies}
  <2>1. PICK t \in StatusValue \cup {Nil}, b \in Bodies :
          a = HttpRespActionAbortWithResult(t, b)
    BY <1>6
  <2> QED BY <1>1, <2>1 DEF HttpRespActionAbortWithResult
<1>7. CASE a \in {CustomMessageActionAbortWithResult(b) : b \in Bodies}
  BY <1>1, <1>7 DEF CustomMessageActionAbortWithResult
<1>8. CASE a \in {ParseActionAbortWithL7Info(l) : l \in InfoLists}
  BY <1>1, <1>8 DEF ParseActionAbortWithL7Info
<1> QED BY <1>4, <1>5, <1>6, <1>7, <1>8 DEF Returned

\* "preserve the status if not rewrite" (abi_export.go:99) holds for every
\* parser that makes a Response of its own for each message, whatever lists of
\* infos, statuses and answers of the host there are.  exports_reuse shows what
\* the hypothesis is for.
THEOREM StatusAlwaysPreserved ==
  ASSUME \A p \in Parsers : ~p.reuses
  PROVE  Spec => []StatusPreserved
<1> DEFINE NotHeld == given # Nil => ~given.held
<1>1. Init => NotHeld
  BY DEF Init
<1>2. IInv /\ NotHeld /\ [Next]_vars => NotHeld'
  <2> SUFFICES ASSUME IInv, NotHeld, [Next]_vars PROVE NotHeld'
    OBVIOUS
  <2>1. CASE CallbackReturns /\ given' # given
    <3>1. vmParser \in Parsers /\ heldStatus \in StatusValue \cup {Nil}
      BY <2>1 DEF CallbackReturns, IInv, TypeOK, Phases
    <3>2. given' \in Returned(vmParser, heldStatus)
      BY <2>1 DEF CallbackReturns
    <3> QED BY <3>1, <3>2, ReturnedNotHeld
  <2>2. CASE DefaultCallback
    <3>1. ~ActionNext.held
      BY DEF ActionNext, ActionAbort
    <3> QED BY <2>2, <3>1 DEF DefaultCallback
  <2>3. CASE \E h \in Handlers : Invoke(h)
    BY <2>3 DEF Invoke
  <2>4. CASE given' = given
    BY <2>4
  <2>5. ASSUME Next, given' # given,
               ~DefaultCallback, ~CallbackReturns, ~\E h \in Handlers : Invoke(h)
        PROVE  FALSE
    BY <2>5 DEF Next, SetParser, Read, NoParser, CtxBaseRefused, ReadCtxBase,
       InfoRefused, ReadInfo, Undecodable, Decode, ReturnNothing, ReturnBool,
       ReturnCode, Panic, Callback, EnterCallback, UnwiredNats, Payload,
       GetCachedPayload, ReadPayloadFails, ReadPayload, EmptyBuffer, vars, Finish,
       NoAction, ActionFailed, MultiInfo, NoResponse, PreserveStatus, KeepInfos,
       NothingToSend, Serialize, HostReadL7ProtocolInfo, Leave, FinishCheck,
       NotMine, NameRefused, HostReadStrResult, LeaveCheck
  <2> QED BY <2>1, <2>2, <2>3, <2>4, <2>5 DEF vars
<1>3. IInv /\ ResultKept /\ NotHeld => StatusPreserved
  <2> SUFFICES ASSUME IInv, ResultKept, NotHeld,
                      hook = "on_http_resp", delivered # <<>>
               PROVE  delivered[1].status =
                        PbStatus(IF given.infos[1].resp.status = Nil
                                 THEN ctx.status
                                 ELSE given.infos[1].resp.status)
    <3>1. ASSUME IInv, ResultKept, delivered # <<>> PROVE given # Nil
      BY <3>1 DEF ResultKept, IInv, GivenKept
    <3> QED BY <3>1 DEF StatusPreserved
  <2>1. StatusFilled
    BY DEF ResultKept
  <2>2. 1 \in 1..Len(delivered)
    BY DEF IInv, TypeOK
  <2>3. delivered[1] = ToAppInfo(act.infos[1], SendDirection)
    BY <2>2, DeliveredMessages
  <2>4. act.infos[1].req \in BOOLEAN
    <3>1. act.infos \in Seq(L7ProtocolInfo) /\ 1 \in 1..Len(act.infos)
      BY <2>2, DeliveredMessages
    <3>2. act.infos[1] \in L7ProtocolInfo
      BY <3>1
    <3> QED BY <3>2 DEF L7ProtocolInfo
  <2>5. SendDirection = DirectionResponse
    BY DEF SendDirection
  <2>6. Side(act.infos[1], DirectionResponse) = "resp"
    BY <2>1, <2>4 DEF StatusFilled, Side, DirectionRequest, DirectionResponse
  <2>7. delivered[1].status = PbStatus(act.infos[1].resp.status)
    BY <2>3, <2>5, <2>6 DEF ToAppInfo
  <2> QED BY <2>1, <2>7 DEF StatusFilled
<1> HIDE DEF NotHeld
<1> QED BY <1>1, <1>2, <1>3, AlwaysResultKept, PTL DEF Spec

------------------------------------------------------------------------------
(* Parsers stay out of the hooks they do not override *)

\* Where an uninvolved parser's call can be: never in a callback of its own,
\* never past a result to send, and with what DefaultParser returned.
StayOut ==
  /\ pc \in {"read_ctx", "read_info", "decode", "dispatch"} => check = NoCheck
  /\ vmParser # Nil /\ ~Involved =>
       /\ pc \notin {"callback", "send", "leave"}
       /\ pc \in {"result", "serialize"} =>
            IF hook = "check_payload" THEN check = NoCheck ELSE act = ActionNext

\* The defaults' Action has neither an error nor a result, and does not abort.
LEMMA ActionNextShape ==
  /\ ActionNext \in Act /\ ActionNext # Nil
  /\ ActionNext.isAbort = FALSE /\ ActionNext.err = FALSE /\ ActionNext.infos = <<>>
<1>1. <<>> \in Seq(L7ProtocolInfo)
  OBVIOUS
<1>2. ActionAbort \in Act /\ ActionAbort.err = FALSE /\ ActionAbort.infos = <<>>
  BY <1>1 DEF ActionAbort, Act
<1> QED BY <1>2, NilIsNoValue DEF ActionNext, Act

LEMMA StepStayOut ==
  ASSUME IInv, StayOut, [Next]_vars
  PROVE  StayOut'
<1> USE DEF config, outputs, WithAction
<1>1. CASE UNCHANGED vars
  BY <1>1 DEF vars, StayOut, Involved, Overrides, ToNats
<1>2. CASE pc' = "idle"
  BY <1>2 DEF StayOut
<1>3. ASSUME NEW h \in Handlers, Invoke(h) PROVE StayOut'
  BY <1>3 DEF Invoke, StayOut
<1>4. CASE ReadCtxBase \/ ReadInfo \/ Decode
  BY <1>4 DEF ReadCtxBase, ReadInfo, Decode, StayOut
<1>5. CASE EnterCallback
  <2>1. Involved /\ UNCHANGED <<vmParser, hook, ctx>> /\ pc' = "callback"
    BY <1>5 DEF EnterCallback, Involved, IInv, Phases
  <2> QED BY <2>1 DEF StayOut, Involved, Overrides, ToNats
<1>6. CASE DefaultCallback
  BY <1>6 DEF DefaultCallback, StayOut
<1>7. CASE CallbackReturns \/ GetCachedPayload \/ ReadPayloadFails \/ ReadPayload
  <2>1. Involved /\ UNCHANGED <<vmParser, hook, ctx>>
        /\ pc' \in {"callback", "result"}
    BY <1>7 DEF CallbackReturns, GetCachedPayload, ReadPayloadFails, ReadPayload,
       HasPayload, StayOut, IInv, Phases, vars
  <2> QED BY <2>1 DEF StayOut, Involved, Overrides, ToNats
<1>8. CASE PreserveStatus
  <2>1. Involved \/ vmParser = Nil
    BY <1>8, ActionNextShape DEF PreserveStatus, LooksAtStatus, StayOut
  <2> QED BY <1>8, <2>1 DEF PreserveStatus, StayOut, Involved, Overrides, ToNats
<1>9. CASE KeepInfos
  BY <1>9 DEF KeepInfos, StayOut, Involved, Overrides, ToNats
<1>10. CASE Serialize
  <2>1. act.infos # <<>>
    <3>1. act \in Act /\ act.infos \in Seq(L7ProtocolInfo) /\ ctx # Nil
      BY <1>10 DEF Serialize, IInv, ActionKept, Phases, TypeOK, Act
    <3>2. SendDirection \in Direction
      BY <3>1 DEF IInv, TypeOK, Ctx, SendDirection, Direction, DirectionRequest,
         DirectionResponse
    <3> QED BY <1>10, <3>1, <3>2, SerializedType DEF Serialize, Data
  <2>2. hook # "check_payload"
    BY <1>10 DEF Serialize, IInv, Phases
  <2>3. Involved \/ vmParser = Nil
    BY <1>10, <2>1, <2>2, ActionNextShape DEF Serialize, StayOut
  <2> QED BY <1>10, <2>3 DEF Serialize, StayOut, Involved, Overrides, ToNats
<1>11. CASE HostReadL7ProtocolInfo
  BY <1>11 DEF HostReadL7ProtocolInfo, StayOut, Involved, Overrides, ToNats
<1>12. CASE HostReadStrResult
  <2>1. Involved \/ vmParser = Nil
    BY <1>12 DEF HostReadStrResult, WithCheck, StayOut, NoCheck
  <2> QED BY <1>12, <2>1 DEF HostReadStrResult, StayOut, Involved, Overrides, ToNats
<1>13. ASSUME \/ NoParser \/ CtxBaseRefused \/ InfoRefused \/ Undecodable
              \/ UnwiredNats \/ EmptyBuffer \/ NoAction \/ ActionFailed \/ MultiInfo
              \/ NoResponse \/ NothingToSend \/ Leave \/ NotMine \/ NameRefused
              \/ LeaveCheck \/ \E p \in Parsers \cup {Nil} : SetParser(p)
       PROVE  pc' = "idle"
  BY <1>13 DEF NoParser, CtxBaseRefused, InfoRefused, Undecodable, UnwiredNats,
     EmptyBuffer, NoAction, ActionFailed, MultiInfo, NoResponse, NothingToSend,
     Leave, NotMine, NameRefused, LeaveCheck, SetParser, ReturnNothing,
     ReturnBool, ReturnCode, Panic
<1> QED BY <1>1, <1>2, <1>3, <1>4, <1>5, <1>6, <1>7, <1>8, <1>9, <1>10, <1>11,
           <1>12, <1>13 DEF Next, Read, Callback, Payload, Finish, FinishCheck

\* An uninvolved parser's call ends without an answer of its own.
LEMMA StayOutEnds ==
  ASSUME IInv, StayOut, Next, pc # "idle", pc' = "idle", vmParser # Nil, ~Involved
  PROVE  answer' # "true" /\ code' = 0 /\ outputs = <<<<>>, Nil>>
<1> USE DEF config, WithAction, WithCheck
<1>1. pc \notin {"callback", "send", "leave"} /\ code = 0
  BY DEF StayOut, IInv, Phases
<1>2. outputs = <<<<>>, Nil>>
  BY <1>1 DEF IInv, OutputsLast, outputs
<1>3. CASE NoParser \/ CtxBaseRefused \/ InfoRefused \/ Undecodable
  BY <1>1, <1>2, <1>3 DEF NoParser, CtxBaseRefused, InfoRefused, Undecodable,
     ReturnNothing, ReturnBool, ReturnCode
<1>4. CASE UnwiredNats \/ NoResponse
  BY <1>1, <1>2, <1>4 DEF UnwiredNats, NoResponse, Panic
<1>5. CASE NoAction \/ ActionFailed \/ MultiInfo \/ NothingToSend
  <2>1. hook # "check_payload" /\ pc \in {"result", "serialize"}
    BY <1>5 DEF NoAction, ActionFailed, MultiInfo, NothingToSend, IInv, Phases
  <2>2. act.isAbort = FALSE
    BY <2>1, ActionNextShape DEF StayOut
  <2> QED BY <1>1, <1>2, <1>5, <2>2 DEF NoAction, ActionFailed, MultiInfo,
          NothingToSend, ReturnBool
<1>6. CASE NotMine \/ NameRefused
  BY <1>1, <1>2, <1>6 DEF NotMine, NameRefused, ReturnCode
<1>7. CASE EmptyBuffer \/ Leave \/ LeaveCheck
  BY <1>1, <1>7 DEF EmptyBuffer, HasPayload, Leave, LeaveCheck
<1>8. ASSUME \/ ReadCtxBase \/ ReadInfo \/ Decode \/ EnterCallback
             \/ DefaultCallback \/ CallbackReturns \/ GetCachedPayload
             \/ ReadPayloadFails \/ ReadPayload \/ PreserveStatus \/ KeepInfos
             \/ Serialize \/ HostReadL7ProtocolInfo \/ HostReadStrResult
             \/ \E h \in Handlers : Invoke(h)
             \/ \E p \in Parsers \cup {Nil} : SetParser(p)
      PROVE  FALSE
  BY <1>8 DEF ReadCtxBase, ReadInfo, Decode, EnterCallback, DefaultCallback,
     CallbackReturns, HasPayload, GetCachedPayload, ReadPayloadFails, ReadPayload,
     PreserveStatus, KeepInfos, Serialize, HostReadL7ProtocolInfo,
     HostReadStrResult, Invoke, SetParser, vars
<1> QED BY <1>3, <1>4, <1>5, <1>6, <1>7, <1>8
        DEF Next, Read, Callback, Payload, Finish, FinishCheck

\* A parser never stops the traversal for, nor hands anything over from, a hook
\* that it leaves to DefaultParser (parser.go:122-157).
THEOREM DefaultsAlwaysStayOut == Spec => DefaultsStayOut
<1>1. Init => StayOut
  BY DEF Init, StayOut
<1>2. IInv /\ StayOut /\ [Next]_vars => StayOut'
  BY StepStayOut
<1>3. IInv /\ StayOut /\ [Next]_vars =>
        [ pc # "idle" /\ pc' = "idle" /\ vmParser # Nil /\ ~Involved =>
            /\ answer' # "true"
            /\ code' = 0
            /\ outputs = <<<<>>, Nil>> ]_vars
  BY StayOutEnds
<1> QED BY <1>1, <1>2, <1>3, ExportsInvariant, PTL DEF Spec, DefaultsStayOut

------------------------------------------------------------------------------
(* How a call ends *)

\* The callback's word on the traversal is kept, and there is none before it
\* has returned, nor ever from check_payload.
WordKept ==
  /\ act # Nil => given # Nil /\ act.isAbort = given.isAbort
  /\ pc \in {"read_ctx", "read_info", "decode", "dispatch", "callback"} => given = Nil
  /\ pc # "idle" /\ hook = "check_payload" => given = Nil

LEMMA StepWordKept ==
  ASSUME IInv, ResultKept, WordKept, [Next]_vars
  PROVE  WordKept'
<1> USE DEF config, outputs
<1>1. CASE UNCHANGED vars
  BY <1>1 DEF vars, WordKept
<1>2. CASE Read
  BY <1>2 DEF Read, NoParser, CtxBaseRefused, ReadCtxBase, InfoRefused, ReadInfo,
     Undecodable, Decode, ReturnNothing, ReturnBool, ReturnCode, WordKept
<1>3. CASE EnterCallback \/ UnwiredNats
  BY <1>3 DEF EnterCallback, UnwiredNats, Panic, WordKept
<1>4. CASE DefaultCallback \/ CallbackReturns
  <2>1. /\ pc' = "result" /\ hook' = hook
        /\ \/ hook # "check_payload" /\ given' = act'
           \/ hook = "check_payload" /\ given' = given /\ act' = act
           \/ hook = "check_payload" /\ given' = Nil /\ act' = Nil
    BY <1>4 DEF DefaultCallback, CallbackReturns
  <2> QED BY <1>4, <2>1 DEF WordKept, DefaultCallback, CallbackReturns
<1>5. CASE Payload
  BY <1>5 DEF Payload, HasPayload, GetCachedPayload, ReadPayloadFails, ReadPayload,
     EmptyBuffer, Panic, WordKept, vars
<1>6. CASE NoAction \/ ActionFailed \/ MultiInfo \/ NoResponse \/ NothingToSend
             \/ Leave \/ NotMine \/ NameRefused \/ LeaveCheck
  BY <1>6 DEF NoAction, ActionFailed, MultiInfo, NoResponse, NothingToSend, Leave,
     NotMine, NameRefused, LeaveCheck, ReturnBool, ReturnCode, Panic, WordKept
<1>7. CASE PreserveStatus
  <2>1. act \in Act /\ UNCHANGED <<hook, given>> /\ pc' = "serialize"
    BY <1>7 DEF PreserveStatus, WithAction, IInv, TypeOK
  <2>2. act'.isAbort = act.isAbort
    BY <1>7, <2>1 DEF PreserveStatus, Act
  <2> QED BY <1>7, <2>1, <2>2 DEF PreserveStatus, WithAction, WordKept
<1>8. CASE KeepInfos \/ Serialize \/ HostReadStrResult \/ HostReadL7ProtocolInfo
  BY <1>8 DEF KeepInfos, Serialize, HostReadStrResult, HostReadL7ProtocolInfo,
     WithAction, WithCheck, WordKept
<1>9. ASSUME NEW h \in Handlers, Invoke(h) PROVE WordKept'
  BY <1>9 DEF Invoke, WordKept
<1>10. ASSUME NEW p \in Parsers \cup {Nil}, SetParser(p) PROVE WordKept'
  BY <1>10 DEF SetParser, WordKept
<1> QED BY <1>1, <1>2, <1>3, <1>4, <1>5, <1>6, <1>7, <1>8, <1>9, <1>10
        DEF Next, Callback, Finish, FinishCheck

\* A result that gets as far as being serialised has the Response it needs.
LEMMA NoHalfIsSerialised ==
  ASSUME IInv, ResultKept, pc \in {"serialize", "leave"}, hook # "check_payload"
  PROVE  ~HalfResult
<1> SUFFICES ASSUME HalfResult PROVE FALSE
  OBVIOUS
<1>1. act # Nil /\ Len(given.infos) = Len(act.infos)
  BY DEF IInv, ActionKept, GivenKept
<1>2. Len(act.infos) = 1 /\ act.infos # <<>>
  <2>1. act.infos \in Seq(L7ProtocolInfo)
    BY <1>1 DEF IInv, TypeOK, Act
  <2> QED BY <1>1, <2>1 DEF HalfResult
<1>3. act.infos[1].resp # Nil
  BY <1>2 DEF ResultKept, StatusFilled, HalfResult
<1>4. given.infos[1].resp # Nil
  <2>1. 1 \in 1..Len(act.infos)
    BY <1>2
  <2> QED BY <1>1, <1>3, <2>1 DEF ResultKept
<1> QED BY <1>4 DEF HalfResult

LEMMA CallEnds ==
  ASSUME IInv, ResultKept, WordKept, Next, pc # "idle", pc' = "idle"
  PROVE  IF given = Nil
         THEN answer' # "true" /\ (answer' = "trap" => CallbackPanics)
         ELSE answer' = IF HalfResult THEN "trap"
                        ELSE IF given.isAbort THEN "true" ELSE "false"
<1> USE DEF WithAction, WithCheck
<1>1. CASE NoParser \/ CtxBaseRefused \/ InfoRefused \/ Undecodable
  <2>1. given = Nil
    BY <1>1 DEF NoParser, CtxBaseRefused, InfoRefused, Undecodable, WordKept
  <2>2. answer' \in {"false", "code"}
    BY <1>1 DEF NoParser, CtxBaseRefused, InfoRefused, Undecodable,
       ReturnNothing, ReturnBool, ReturnCode
  <2> QED BY <2>1, <2>2
<1>2. CASE UnwiredNats \/ EmptyBuffer
  <2>1. given = Nil /\ answer' = "trap"
    BY <1>2 DEF UnwiredNats, EmptyBuffer, HasPayload, Panic, WordKept
  <2>2. CallbackPanics
    BY <1>2 DEF UnwiredNats, EmptyBuffer, HasPayload, CallbackPanics, IInv, Phases
  <2> QED BY <2>1, <2>2
<1>3. CASE NotMine \/ NameRefused \/ LeaveCheck
  <2>1. given = Nil /\ answer' = "code"
    BY <1>3 DEF NotMine, NameRefused, LeaveCheck, ReturnCode, WordKept
  <2> QED BY <2>1
<1>4. CASE NoAction
  <2>1. given = Nil /\ answer' = "false"
    BY <1>4 DEF NoAction, ReturnBool, IInv, GivenKept
  <2> QED BY <2>1
<1>5. CASE NoResponse
  <2>1. act = given /\ given # Nil /\ answer' = "trap"
    BY <1>5 DEF NoResponse, Panic, ResultKept, WordKept
  <2>2. given.infos \in Seq(L7ProtocolInfo)
    BY <2>1 DEF IInv, TypeOK, Act
  <2>3. hook = "on_http_resp" /\ ~given.err /\ given.infos[1].resp = Nil
    BY <1>5, <2>1 DEF NoResponse, LooksAtStatus
  <2>4. Len(given.infos) = 1
    <3>1. given.infos # <<>> /\ ~(Len(given.infos) > 1)
      BY <1>5, <2>1 DEF NoResponse, LooksAtStatus, TooMany, WithInfo
    <3>2. Len(given.infos) \in Nat /\ Len(given.infos) # 0
      BY <2>2, <3>1
    <3>3. ASSUME NEW m \in Nat, m # 0, ~(m > 1) PROVE m = 1
      BY <3>3
    <3> QED BY <3>1, <3>2, <3>3
  <2> QED BY <2>1, <2>3, <2>4 DEF HalfResult
<1>6. ASSUME act # Nil, ~HalfResult, answer' = IF act.isAbort THEN "true" ELSE "false"
      PROVE  /\ given # Nil
             /\ answer' = IF HalfResult THEN "trap"
                          ELSE IF given.isAbort THEN "true" ELSE "false"
  BY <1>6 DEF WordKept
<1>7. CASE ActionFailed \/ MultiInfo
  <2>1. act # Nil /\ answer' = IF act.isAbort THEN "true" ELSE "false"
    BY <1>7 DEF ActionFailed, MultiInfo, ReturnBool
  <2>2. act = given
    BY <1>7 DEF ActionFailed, MultiInfo, ResultKept
  <2>3. given.err \/ Len(given.infos) > 1
    BY <1>7, <2>2 DEF ActionFailed, MultiInfo, TooMany
  <2>4. ~HalfResult
    <3>1. CASE given.err
      BY <3>1 DEF HalfResult
    <3>2. ASSUME Len(given.infos) > 1 PROVE Len(given.infos) # 1
      <4>1. ~(1 > 1)
        OBVIOUS
      <4> QED BY <3>2, <4>1, Zenon
    <3> QED BY <2>3, <3>1, <3>2 DEF HalfResult
  <2> QED BY <1>6, <2>1, <2>4
<1>8. CASE NothingToSend \/ Leave
  <2>1. /\ pc \in {"serialize", "leave"} /\ hook # "check_payload"
        /\ answer' = IF act.isAbort THEN "true" ELSE "false"
    BY <1>8 DEF NothingToSend, Leave, ReturnBool, IInv, Phases
  <2>2. act # Nil
    BY <2>1 DEF IInv, ActionKept
  <2> QED BY <1>6, <2>1, <2>2, NoHalfIsSerialised
<1>9. ASSUME \/ ReadCtxBase \/ ReadInfo \/ Decode \/ EnterCallback
             \/ DefaultCallback \/ CallbackReturns \/ GetCachedPayload
             \/ ReadPayloadFails \/ ReadPayload \/ PreserveStatus \/ KeepInfos
             \/ Serialize \/ HostReadL7ProtocolInfo \/ HostReadStrResult
             \/ \E h \in Handlers : Invoke(h)
             \/ \E p \in Parsers \cup {Nil} : SetParser(p)
      PROVE  FALSE
  BY <1>9 DEF ReadCtxBase, ReadInfo, Decode, EnterCallback, DefaultCallback,
     CallbackReturns, HasPayload, GetCachedPayload, ReadPayloadFails, ReadPayload,
     PreserveStatus, KeepInfos, Serialize, HostReadL7ProtocolInfo,
     HostReadStrResult, Invoke, SetParser, vars
<1> QED BY <1>1, <1>2, <1>3, <1>4, <1>5, <1>7, <1>8, <1>9
        DEF Next, Read, Callback, Payload, Finish, FinishCheck

\* Whatever the infos, their sizes and the host's answers, a call stops the
\* traversal exactly if its Action said so, and panics for the three reasons
\* there are and no other (abi_export.go:88-220, host.go:116, parser.go:143).
THEOREM AnswersAreTheActions == Spec => AnswerIsTheActions
<1>1. Init => WordKept
  BY DEF Init, WordKept
<1>2. IInv /\ ResultKept /\ WordKept /\ [Next]_vars => WordKept'
  BY StepWordKept
<1>3. IInv /\ ResultKept /\ WordKept /\ [Next]_vars =>
        [ pc # "idle" /\ pc' = "idle" =>
            IF given = Nil
            THEN answer' # "true" /\ (answer' = "trap" => CallbackPanics)
            ELSE answer' = IF HalfResult THEN "trap"
                           ELSE IF given.isAbort THEN "true" ELSE "false" ]_vars
  BY CallEnds
<1> QED BY <1>1, <1>2, <1>3, AlwaysResultKept, PTL DEF Spec, AnswerIsTheActions

------------------------------------------------------------------------------
(* The refinement *)

\* What a step does to the outputs, the answer and the phase, all the abstract
\* specification sees.
Nothing == outputs = <<<<>>, Nil>>

LEMMA StepOutputs ==
  ASSUME IInv, Next, pc # "idle"
  PROVE  /\ hook' = hook
         /\ pc' # "idle" => outputs' = outputs \/ Nothing
         /\ pc' = "idle" => /\ outputs' = outputs
                            /\ \/ answer' \in {"true", "false", "code"}
                               \/ answer' = "trap" /\ Nothing
<1> USE DEF outputs, config, Nothing
<1>1. pc # "leave" => Nothing
  BY DEF IInv, OutputsLast
<1>2. CASE Read
  BY <1>2 DEF Read, NoParser, CtxBaseRefused, ReadCtxBase, InfoRefused, ReadInfo,
     Undecodable, Decode, ReturnNothing, ReturnBool, ReturnCode
<1>3. CASE Callback
  BY <1>1, <1>3 DEF Callback, EnterCallback, UnwiredNats, DefaultCallback,
     CallbackReturns, Panic
<1>4. CASE Payload
  BY <1>1, <1>4 DEF Payload, HasPayload, GetCachedPayload, ReadPayloadFails,
     ReadPayload, EmptyBuffer, Panic, vars
<1>5. CASE NoAction \/ ActionFailed \/ MultiInfo \/ NothingToSend \/ Leave
  BY <1>5 DEF NoAction, ActionFailed, MultiInfo, NothingToSend, Leave, ReturnBool
<1>6. CASE NoResponse
  BY <1>1, <1>6 DEF NoResponse, WithAction, Panic
<1>7. CASE PreserveStatus \/ KeepInfos \/ Serialize
  BY <1>7 DEF PreserveStatus, KeepInfos, Serialize
<1>8. CASE HostReadL7ProtocolInfo \/ HostReadStrResult
  BY <1>1, <1>8 DEF HostReadL7ProtocolInfo, HostReadStrResult, WithCheck
<1>9. CASE NotMine \/ NameRefused \/ LeaveCheck
  BY <1>9 DEF NotMine, NameRefused, LeaveCheck, ReturnCode
<1>10. ~(\E p \in Parsers \cup {Nil} : SetParser(p)) /\ ~(\E h \in Handlers : Invoke(h))
  BY DEF SetParser, Invoke
<1> QED BY <1>2, <1>3, <1>4, <1>5, <1>6, <1>7, <1>8, <1>9, <1>10
        DEF Next, Finish, FinishCheck

LEMMA StepPromise ==
  ASSUME IInv, IInv', [Next]_vars
  PROVE  [Promise!HookNext]_Promise!hookVars
<1> USE DEF Promise!hookVars
<1>1. CASE UNCHANGED vars
  BY <1>1 DEF vars, outputs, Verdict
<1>2. ASSUME NEW p \in Parsers \cup {Nil}, SetParser(p)
      PROVE  UNCHANGED Promise!hookVars
  BY <1>2 DEF SetParser, outputs, Verdict
<1>3. ASSUME NEW h \in Handlers, Invoke(h) PROVE Promise!HookNext
  <2>1. Promise!Call(h)
    BY <1>3 DEF Invoke, Promise!Call, outputs, Verdict
  <2> QED BY <2>1 DEF Promise!HookNext
<1>4. CASE Next /\ pc # "idle" /\ pc' # "idle"
  <2>1. answer = "none" /\ answer' = "none"
    BY <1>4 DEF IInv, Phases
  <2>2. Verdict = "none" /\ Verdict' = "none"
    BY <2>1 DEF Verdict
  <2>3. CASE outputs' = outputs
    BY <1>4, <2>2, <2>3, StepOutputs
  <2>4. CASE outputs' # outputs
    <3>1. Promise!HandOver
      BY <1>4, <2>2, <2>4, StepOutputs DEF Promise!HandOver, Nothing
    <3> QED BY <3>1 DEF Promise!HookNext
  <2> QED BY <2>3, <2>4
<1>5. CASE Next /\ pc # "idle" /\ pc' = "idle"
  <2>1. outputs' = outputs /\ hook' = hook
    BY <1>5, StepOutputs
  <2>2. CASE answer' = "trap" /\ Nothing
    <3>1. Promise!Trap
      BY <1>5, <2>1, <2>2 DEF Promise!Trap, Nothing, Verdict
    <3> QED BY <3>1 DEF Promise!HookNext, Promise!EndCall
  <2>3. CASE answer' \in {"true", "false", "code"}
    <3>1. Verdict' \in {"stop", "next"}
      BY <2>3 DEF Verdict
    <3>2. outputs # <<<<>>, Nil>> => Verdict' = "stop"
      BY <1>5, <2>1 DEF IInv, ResultStopsTraversal, Verdict
    <3>3. Promise!Return(Verdict')
      BY <1>5, <2>1, <3>2 DEF Promise!Return
    <3> QED BY <3>1, <3>3 DEF Promise!HookNext, Promise!EndCall, Promise!Answers
  <2> QED BY <1>5, <2>2, <2>3, StepOutputs
<1>6. CASE Next /\ pc = "idle"
  <2>1. \/ \E p \in Parsers \cup {Nil} : SetParser(p)
        \/ \E h \in Handlers : Invoke(h)
    BY <1>6 DEF Next, Read, NoParser, CtxBaseRefused, ReadCtxBase, InfoRefused,
       ReadInfo, Undecodable, Decode, Callback, EnterCallback, UnwiredNats,
       DefaultCallback, CallbackReturns, Payload, HasPayload, GetCachedPayload,
       ReadPayloadFails, ReadPayload, EmptyBuffer, Finish, WithAction, NoAction,
       ActionFailed, MultiInfo, NoResponse, PreserveStatus, KeepInfos,
       NothingToSend, Serialize, HostReadL7ProtocolInfo, Leave, FinishCheck,
       WithCheck, NotMine, NameRefused, HostReadStrResult, LeaveCheck
  <2> QED BY <1>2, <1>3, <2>1
<1> QED BY <1>1, <1>4, <1>5, <1>6

\* The exports implement HookCall, its fairness aside: every step of a handler
\* is a step of the promise or none.
THEOREM PromiseSafety ==
  Spec => Promise!HookInit /\ [][Promise!HookNext]_Promise!hookVars
<1>1. Init => Promise!HookInit
  BY DEF Init, Promise!HookInit, outputs, Verdict
<1>2. IInv /\ IInv' /\ [Next]_vars => [Promise!HookNext]_Promise!hookVars
  BY StepPromise
<1> QED BY <1>1, <1>2, ExportsInvariant, PTL DEF Spec

==============================================================================
