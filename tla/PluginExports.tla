---------------------------- MODULE PluginExports ----------------------------
(***************************************************************************)
(* The functions a plugin exports to the agent (sdk/abi_export.go), the    *)
(* parser behind them (sdk/parser.go, ParseCtx in sdk/host.go) and the     *)
(* host functions they call (sdk/abi_import.go, external).                 *)
(*                                                                         *)
(* A WebAssembly instance runs one call at a time; its steps are the host  *)
(* calls, the decoding, the parser's callback with the payload reads it    *)
(* makes, and what the handler does with the Action it gets back.  The     *)
(* five handlers share these steps; an operator named for the difference   *)
(* says where they part.                                                   *)
(***************************************************************************)
EXTENDS L7Info

CONSTANTS
  Parsers,    \* the values SetParser may be given besides nil
  BufSizes,   \* ParseCtx.BufSize
  Payloads,   \* what vm_read_payload may leave in the buffer, <<>> for 0 bytes
  InfoLists,  \* the lists given to ParseActionAbortWithL7Info
  Checks      \* what OnCheckPayload may return

Handlers == {"on_http_req", "on_http_resp", "on_custom_message",
             "check_payload", "parse_payload"}

\* The handlers that read a second buffer from the host, which are also the
\* ones that refuse more than one info.
WithInfo == {"on_http_req", "on_http_resp", "on_custom_message"}

MethodOf == [ h \in Handlers |->
  CASE h = "on_http_req"       -> "OnHttpReq"
    [] h = "on_http_resp"      -> "OnHttpResp"
    [] h = "on_custom_message" -> "OnCustomMessage"
    [] h = "check_payload"     -> "OnCheckPayload"
    [] h = "parse_payload"     -> "OnParsePayload" ]

Methods == {MethodOf[h] : h \in Handlers} \cup {"OnNatsMessage"}

\* A parser embeds DefaultParser and overrides some of its methods; the
\* embedded Parser field is set by hand (wired) or left nil.  A parser that
\* keeps one Response object and returns it every time reuses it.
Parser == [own: SUBSET Methods, wired: BOOLEAN, reuses: BOOLEAN]

Uint8 == {n \in Nat : n < 256}
Check == [protoNum: Uint8, len: Nat, direction: Uint8]
NoCheck == [protoNum |-> 0, len |-> 0, direction |-> 0]

ASSUME ParsersAssumption == Parsers \subseteq Parser /\ Nil \notin Parsers
ASSUME PayloadsAssumption == Nil \notin Payloads /\ <<>> \in Payloads
ASSUME InputsAssumption == /\ BufSizes \subseteq Nat
                           /\ InfoLists \subseteq Seq(L7ProtocolInfo)
                           /\ Checks \subseteq Check

------------------------------------------------------------------------------
(* Actions: only the constructors of parser.go can make one, its methods   *)
(* being unexported.  held: the info's Response is the parser's own object.*)

Act == [ isAbort: BOOLEAN, err: BOOLEAN, infos: Seq(L7ProtocolInfo),
         held: BOOLEAN ]

ActionAbort == [isAbort |-> TRUE, err |-> FALSE, infos |-> <<>>, held |-> FALSE]

\* The error given may be nil.
ActionAbortWithErr(err) == [ActionAbort EXCEPT !.err = err]

\* A mutant: the zero value of a Go bool read as true.
ActionNextAborts == ActionAbort

ActionNext == [ActionAbort EXCEPT !.isAbort = FALSE]

\* A mutant: the constructors of results forget isAbort.
NextWith(infos) == [ActionNext EXCEPT !.infos = infos]

AbortWith(infos) == [ActionAbort EXCEPT !.infos = infos]

Info(req, resp, body) ==
  [req |-> req, resp |-> resp, protocolMerge |-> FALSE, isEnd |-> FALSE,
   body |-> body]

HttpReqActionAbortWithResult(body) == AbortWith(<<Info(TRUE, Nil, body)>>)

HttpRespActionAbortWithResult(status, body) ==
  AbortWith(<<Info(FALSE, [status |-> status], body)>>)

CustomMessageActionAbortWithResult(body) ==
  AbortWith(<<Info(TRUE, [status |-> Nil], body)>>)

ParseActionAbortWithL7Info(infos) == AbortWith(infos)

\* The same constructor given the object the parser keeps, in the state the
\* last call left it.
HeldResponseAction(status, body) ==
  [HttpRespActionAbortWithResult(status, body) EXCEPT !.held = TRUE]

\* Whatever a callback may return, Go's nil included.
Returned(p, heldStatus) ==
  {Nil, ActionAbort, ActionNext}
    \cup {ActionAbortWithErr(err) : err \in BOOLEAN}
    \cup {HttpReqActionAbortWithResult(b) : b \in Bodies}
    \cup {HttpRespActionAbortWithResult(s, b) :
            s \in StatusValue \cup {Nil}, b \in Bodies}
    \cup {CustomMessageActionAbortWithResult(b) : b \in Bodies}
    \cup {ParseActionAbortWithL7Info(l) : l \in InfoLists}
    \cup {HeldResponseAction(heldStatus, b) :
            b \in IF p.reuses THEN Bodies ELSE {}}

ASSUME NilIsNoValue == Nil \notin Act /\ Nil \notin Nat

------------------------------------------------------------------------------
VARIABLES
  vmParser,   \* the package variable, Nil before SetParser
  heldStatus, \* the Status of the Response object a parser keeps
  pc,         \* what the running handler does next, "idle" between calls
  hook,       \* the handler called last
  ctx,        \* the context being built, Nil when its bytes do not decode
  payload,    \* ParseCtx.payload
  seen,       \* the payloads GetPayload returned in this call
  act,        \* the Action the callback returned
  given,      \* that Action as the callback left it (a history variable)
  check,      \* what OnCheckPayload returned
  delivered,  \* what host_read_l7_protocol_info accepted in this call
  name,       \* the length of what host_read_str_result accepted, or Nil
  answer,     \* "none" during a call; "true", "false", "code" or "trap"
  code        \* the int32 check_payload returned

vars == <<vmParser, heldStatus, pc, hook, ctx, payload, seen, act, given,
          check, delivered, name, answer, code>>

config  == <<vmParser, heldStatus, hook>>
outputs == <<delivered, name>>

\* status and nats are what the second buffer adds: the status of
\* HttpRespCtx, and CheckParseProtocol(PROTOCOL_NATS, true) of
\* CustomMessageCtx.
Ctx == [ direction: Direction, bufSize: BufSizes,
         status: RespStatus \cup {Nil}, nats: BOOLEAN ]

States == {"idle", "read_ctx", "read_info", "decode", "dispatch", "callback",
           "result", "serialize", "send", "leave"}

TypeOK ==
  /\ vmParser \in Parsers \cup {Nil}
  /\ heldStatus \in StatusValue \cup {Nil}
  /\ pc \in States
  /\ hook \in Handlers \cup {"none"}
  /\ ctx \in Ctx \cup {Nil}
  /\ payload \in Payloads \cup {Nil}
  /\ seen \subseteq Payloads
  /\ act \in Act \cup {Nil}
  /\ given \in Act \cup {Nil}
  /\ check \in Check
  /\ delivered \in Seq(AppInfo)
  /\ name \in 0..16 \cup {Nil}
  /\ answer \in {"none", "true", "false", "code", "trap"}
  /\ code \in Nat

Init ==
  /\ vmParser = Nil
  /\ heldStatus = Nil
  /\ pc = "idle"
  /\ hook = "none"
  /\ ctx = Nil
  /\ payload = Nil
  /\ seen = {}
  /\ act = Nil
  /\ given = Nil
  /\ check = NoCheck
  /\ delivered = <<>>
  /\ name = Nil
  /\ answer = "none"
  /\ code = 0

------------------------------------------------------------------------------
(* Before a call *)

SetParser(p) ==
  /\ pc = "idle"
  /\ vmParser' = p
  /\ heldStatus' = Nil
  /\ UNCHANGED <<pc, hook, ctx, payload, seen, act, given, check, delivered,
                 name, answer, code>>

Invoke(h) ==
  /\ pc = "idle"
  /\ pc' = "read_ctx"
  /\ hook' = h
  /\ ctx' = Nil /\ payload' = Nil /\ seen' = {}
  /\ act' = Nil /\ given' = Nil /\ check' = NoCheck
  /\ delivered' = <<>> /\ name' = Nil
  /\ answer' = "none" /\ code' = 0
  /\ UNCHANGED <<vmParser, heldStatus>>

------------------------------------------------------------------------------
(* The ends of a call *)

ReturnBool(b) ==
  /\ pc' = "idle"
  /\ answer' = IF b THEN "true" ELSE "false"
  /\ UNCHANGED <<config, ctx, payload, seen, act, given, check, outputs, code>>

ReturnCode(n) ==
  /\ pc' = "idle"
  /\ answer' = "code"
  /\ code' = n
  /\ UNCHANGED <<config, ctx, payload, seen, act, given, check, outputs>>

\* Every early return before the callback: false, or 0 from check_payload.
ReturnNothing ==
  IF hook = "check_payload" THEN ReturnCode(0) ELSE ReturnBool(FALSE)

Panic ==
  /\ pc' = "idle"
  /\ answer' = "trap"
  /\ UNCHANGED <<config, ctx, payload, seen, act, given, check, outputs, code>>

------------------------------------------------------------------------------
(* Reading what the host knows of the message *)

NoParser == pc = "read_ctx" /\ vmParser = Nil /\ ReturnNothing

\* vm_read_ctx_base (external) returns 0, or bytes that decode or do not.
CtxBaseRefused == pc = "read_ctx" /\ vmParser # Nil /\ ReturnNothing

ReadCtxBase ==
  /\ pc = "read_ctx"
  /\ vmParser # Nil
  /\ \/ ctx' = Nil
     \/ \E d \in Direction, n \in BufSizes :
          ctx' = [direction |-> d, bufSize |-> n, status |-> Nil, nats |-> FALSE]
  /\ pc' = IF hook \in WithInfo THEN "read_info" ELSE "decode"
  /\ UNCHANGED <<config, payload, seen, act, given, check, outputs, answer, code>>

\* vm_read_http_req_info and its two siblings return 0.
InfoRefused == pc = "read_info" /\ ReturnBool(FALSE)

ReadInfo ==
  /\ pc = "read_info"
  /\ \/ ctx' = Nil
     \/ /\ ctx # Nil
        /\ \/ hook = "on_http_req" /\ ctx' = ctx
           \/ /\ hook = "on_http_resp"
              /\ \E s \in RespStatus : ctx' = [ctx EXCEPT !.status = s]
           \/ /\ hook = "on_custom_message"
              /\ \E b \in BOOLEAN : ctx' = [ctx EXCEPT !.nats = b]
  /\ pc' = "decode"
  /\ UNCHANGED <<config, payload, seen, act, given, check, outputs, answer, code>>

Undecodable == pc = "decode" /\ ctx = Nil /\ ReturnNothing

Decode ==
  /\ pc = "decode"
  /\ ctx # Nil
  /\ pc' = "dispatch"
  /\ UNCHANGED <<config, ctx, payload, seen, act, given, check, outputs,
                 answer, code>>

------------------------------------------------------------------------------
(* The callback *)

\* Go finds the parser's own method first, the promoted one of DefaultParser
\* otherwise.
Overrides(h) == MethodOf[h] \in vmParser.own

\* DefaultParser.OnCustomMessage hands a NATS message to the Parser field.
ToNats == hook = "on_custom_message" /\ ~Overrides(hook) /\ ctx.nats

EnterCallback ==
  /\ pc = "dispatch"
  /\ Overrides(hook) \/ (ToNats /\ vmParser.wired
                                /\ "OnNatsMessage" \in vmParser.own)
  /\ pc' = "callback"
  /\ UNCHANGED <<config, ctx, payload, seen, act, given, check, outputs,
                 answer, code>>

\* The call through the nil Parser field.
UnwiredNats == pc = "dispatch" /\ ToNats /\ ~vmParser.wired /\ Panic

DefaultCallback ==
  /\ pc = "dispatch"
  /\ ~Overrides(hook)
  /\ ToNats => vmParser.wired /\ "OnNatsMessage" \notin vmParser.own
  /\ act' = IF hook = "check_payload" THEN Nil ELSE ActionNext
  /\ given' = act'
  /\ pc' = "result"
  /\ UNCHANGED <<config, ctx, payload, seen, check, outputs, answer, code>>

\* OnNatsMessage gets no context.
HasPayload == pc = "callback" /\ Overrides(hook)

\* A mutant: an empty payload does not count as read.
CachedIfNotEmpty == payload \notin {Nil, <<>>}

Cached == payload # Nil

GetCachedPayload ==
  /\ HasPayload
  /\ Cached
  /\ seen' = seen \cup {payload}
  /\ UNCHANGED <<config, pc, ctx, payload, act, given, check, outputs, answer,
                 code>>

\* vm_read_payload (external) returns a size below 0: nothing is cached and
\* the parser may try again.
ReadPayloadFails ==
  /\ HasPayload
  /\ ~Cached
  /\ ctx.bufSize > 0
  /\ UNCHANGED vars

ReadPayload ==
  /\ HasPayload
  /\ ~Cached
  /\ ctx.bufSize > 0
  /\ \E p \in Payloads : payload' = p /\ seen' = seen \cup {p}
  /\ UNCHANGED <<config, pc, ctx, act, given, check, outputs, answer, code>>

\* &payload[0] of a slice of BufSize = 0 bytes.
EmptyBuffer == HasPayload /\ ~Cached /\ ctx.bufSize = 0 /\ Panic

CallbackReturns ==
  /\ pc = "callback"
  /\ \/ /\ hook = "check_payload"
        /\ check' \in Checks
        /\ UNCHANGED <<act, given>>
     \/ /\ hook # "check_payload"
        /\ act' \in Returned(vmParser, heldStatus)
        /\ given' = act'
        /\ UNCHANGED check
  /\ pc' = "result"
  /\ UNCHANGED <<config, ctx, payload, seen, outputs, answer, code>>

------------------------------------------------------------------------------
(* What a handler does with an Action *)

WithAction == pc = "result" /\ hook # "check_payload"

NoAction == WithAction /\ act = Nil /\ ReturnBool(FALSE)

ActionFailed == WithAction /\ act # Nil /\ act.err /\ ReturnBool(act.isAbort)

\* A mutant: the check on the length is missing.
NeverTooMany == FALSE

TooMany == hook \in WithInfo /\ Len(act.infos) > 1

MultiInfo ==
  WithAction /\ act # Nil /\ ~act.err /\ TooMany /\ ReturnBool(act.isAbort)

\* on_http_resp looks at the Response of the one info, if there is one.
LooksAtStatus == hook = "on_http_resp" /\ act.infos # <<>>

\* info[0].Resp.Status of an info that has no Response.
NoResponse ==
  /\ WithAction /\ act # Nil /\ ~act.err /\ ~TooMany
  /\ LooksAtStatus
  /\ act.infos[1].resp = Nil
  /\ Panic

\* A mutant: the status of the message replaces the parser's.
AlwaysMissing(info) == TRUE

StatusMissing(info) == info.resp.status = Nil

\* info[0].Resp.Status = &ctx.Status
FillStatus(infos, status) == [infos EXCEPT ![1].resp = [status |-> status]]

\* The assignment goes through the parser's pointer: an object it keeps has
\* the status from now on.
PreserveStatus ==
  /\ WithAction /\ act # Nil /\ ~act.err /\ ~TooMany
  /\ LooksAtStatus
  /\ act.infos[1].resp # Nil
  /\ IF StatusMissing(act.infos[1])
     THEN /\ act' = [act EXCEPT !.infos = FillStatus(act.infos, ctx.status)]
          /\ heldStatus' = IF act.held THEN ctx.status ELSE heldStatus
     ELSE UNCHANGED <<act, heldStatus>>
  /\ pc' = "serialize"
  /\ UNCHANGED <<vmParser, hook, ctx, payload, seen, given, check, outputs,
                 answer, code>>

KeepInfos ==
  /\ WithAction /\ act # Nil /\ ~act.err /\ ~TooMany
  /\ ~LooksAtStatus
  /\ pc' = "serialize"
  /\ UNCHANGED <<config, ctx, payload, seen, act, given, check, outputs,
                 answer, code>>

\* A mutant: on_custom_message and parse_payload ignore their context.
SendDirectionOfHook ==
  IF hook = "on_http_resp" THEN DirectionResponse ELSE DirectionRequest

\* The direction a handler serialises for.
SendDirection ==
  CASE hook = "on_http_req"  -> DirectionRequest
    [] hook = "on_http_resp" -> DirectionResponse
    [] OTHER                 -> ctx.direction

Data == Serialized(act.infos, SendDirection)

NothingToSend == pc = "serialize" /\ Data = <<>> /\ ReturnBool(act.isAbort)

Serialize ==
  /\ pc = "serialize"
  /\ Data # <<>>
  /\ pc' = "send"
  /\ UNCHANGED <<config, ctx, payload, seen, act, given, check, outputs,
                 answer, code>>

\* host_read_l7_protocol_info (external) answers whether it took the bytes;
\* no handler looks at the answer.
HostReadL7ProtocolInfo ==
  /\ pc = "send"
  /\ hook # "check_payload"
  /\ \E accepted \in BOOLEAN :
       delivered' = IF accepted THEN Data ELSE delivered
  /\ pc' = "leave"
  /\ UNCHANGED <<config, ctx, payload, seen, act, given, check, name, answer,
                 code>>

\* A mutant: a handler that returns the host's answer, here a refusal.
LeaveFalse == pc = "leave" /\ hook # "check_payload" /\ ReturnBool(FALSE)

\* A mutant: a result that the host refused does not stop the traversal.
LeaveIfAccepted ==
  pc = "leave" /\ hook # "check_payload" /\ ReturnBool(act.isAbort /\ delivered # <<>>)

Leave == pc = "leave" /\ hook # "check_payload" /\ ReturnBool(act.isAbort)

------------------------------------------------------------------------------
(* What check_payload does with the three values *)

WithCheck == pc = "result" /\ hook = "check_payload"

NotMine == WithCheck /\ check.protoNum = 0 /\ ReturnCode(0)

\* A mutant: one byte too many.
ShortNameOff(len) == IF len > 17 THEN 16 ELSE len

ShortName(len) == IF len > 16 THEN 16 ELSE len

NameRefused == WithCheck /\ check.protoNum # 0 /\ ReturnCode(0)

HostReadStrResult ==
  /\ WithCheck
  /\ check.protoNum # 0
  /\ name' = ShortName(check.len)
  /\ pc' = "leave"
  /\ UNCHANGED <<config, ctx, payload, seen, act, given, check, delivered,
                 answer, code>>

\* A mutant: the two bytes swapped.
CodeSwapped(c) == c.protoNum * 256 + c.direction

CheckCode(c) == c.direction * 256 + c.protoNum

LeaveCheck ==
  pc = "leave" /\ hook = "check_payload" /\ ReturnCode(CheckCode(check))

------------------------------------------------------------------------------
Read == \/ NoParser \/ CtxBaseRefused \/ ReadCtxBase
        \/ InfoRefused \/ ReadInfo \/ Undecodable \/ Decode

Callback == EnterCallback \/ UnwiredNats \/ DefaultCallback \/ CallbackReturns

Payload == GetCachedPayload \/ ReadPayloadFails \/ ReadPayload \/ EmptyBuffer

Finish == \/ NoAction \/ ActionFailed \/ MultiInfo \/ NoResponse
          \/ PreserveStatus \/ KeepInfos \/ NothingToSend \/ Serialize
          \/ HostReadL7ProtocolInfo \/ Leave

FinishCheck == NotMine \/ NameRefused \/ HostReadStrResult \/ LeaveCheck

Next == \/ \E p \in Parsers \cup {Nil} : SetParser(p)
        \/ \E h \in Handlers : Invoke(h)
        \/ Read \/ Callback \/ Payload \/ Finish \/ FinishCheck

\* Straight-line code runs on, and a callback is assumed to return; nothing
\* makes the agent call or a parser read the payload.
Spec == /\ Init /\ [][Next]_vars
        /\ WF_vars(Read \/ Callback \/ Finish \/ FinishCheck)

------------------------------------------------------------------------------
(* Properties *)

\* A call that handed something to the host stops the traversal: no later
\* plugin gets to answer for the same message (parser.go:106).
ResultStopsTraversal ==
  pc = "idle" /\ outputs # <<<<>>, Nil>> =>
    answer = "true" \/ (answer = "code" /\ code # 0)

\* What the host got is what the callback returned, every info in its order
\* and only without an error, and for the hooks of a single message only one.
DeliveredExactly ==
  delivered # <<>> =>
    /\ ~given.err
    /\ hook \in WithInfo => Len(delivered) = 1
    /\ Len(delivered) = Len(given.infos)
    /\ \A k \in 1..Len(delivered) : delivered[k].body = given.infos[k].body

\* The half of a two-sided info that goes out is the one of the message the
\* host is working on.
SideMatchesMessage ==
  \A k \in 1..Len(delivered) :
    given.infos[k].req /\ given.infos[k].resp # Nil =>
      (delivered[k].side = "req"
         <=> \/ hook = "on_http_req"
             \/ hook # "on_http_resp" /\ ctx.direction = DirectionRequest)

\* "preserve the status if not rewrite" (abi_export.go:99): the status of an
\* HTTP response is the one its parser wrote for it, or else the message's.
StatusPreserved ==
  hook = "on_http_resp" /\ delivered # <<>> =>
    LET wrote == IF given.held THEN Nil ELSE given.infos[1].resp.status
    IN delivered[1].status = PbStatus(IF wrote = Nil THEN ctx.status ELSE wrote)

\* Whatever the host's buffer holds meanwhile, one call sees one payload: all
\* that GetPayload returned is what it cached first (host.go:108-122).
OnePayload == seen \subseteq {payload}

\* check_payload answers for the parser's protocol and direction if the host
\* took the name, and 0 in every other case.
CheckAnswer ==
  pc = "idle" /\ answer = "code" =>
    IF name = Nil THEN code = 0
    ELSE check.protoNum # 0 /\ code = check.direction * 256 + check.protoNum

\* A parser stays out of the hooks it does not override: they neither stop the
\* traversal nor hand anything over, except for a NATS message dispatched to
\* an OnNatsMessage of its own (parser.go:122-157).
Involved ==
  \/ Overrides(hook)
  \/ ctx # Nil /\ ToNats /\ "OnNatsMessage" \in vmParser.own

DefaultsStayOut ==
  [][ pc # "idle" /\ pc' = "idle" /\ vmParser # Nil /\ ~Involved =>
        /\ answer' # "true"
        /\ code' = 0
        /\ outputs = <<<<>>, Nil>> ]_vars

\* The payload read into no bytes, and the call through the Parser field a
\* plugin has to set by hand.
CallbackPanics ==
  /\ vmParser # Nil /\ ctx # Nil
  /\ \/ Overrides(hook) /\ ctx.bufSize = 0
     \/ ToNats /\ ~vmParser.wired

\* The result of an HTTP response that is one info without a Response.
HalfResult ==
  /\ hook = "on_http_resp"
  /\ ~given.err /\ Len(given.infos) = 1
  /\ given.infos[1].resp = Nil

\* "abort will abort the traversal" (parser.go:106): whether a call stops it is
\* for the callback's Action to say, be it an error, more infos or more bytes
\* than can be sent, or refused by the host (abi_export.go:209-220), and
\* without an Action nothing stops.  A call panics for three reasons only: an
\* empty buffer (host.go:116), a NATS message without a parser for it
\* (parser.go:143), and the missing Response of a result (abi_export.go:98).
AnswerIsTheActions ==
  [][ pc # "idle" /\ pc' = "idle" =>
        IF given = Nil
        THEN answer' # "true" /\ (answer' = "trap" => CallbackPanics)
        ELSE answer' = IF HalfResult THEN "trap"
                       ELSE IF given.isAbort THEN "true" ELSE "false" ]_vars

\* "abort with no error will write the result to host" (parser.go:106): a call
\* that returns true for such a result has been to the host with it.
AbortWritesResult ==
  [][ /\ pc # "idle" /\ pc' = "idle" /\ answer' = "true"
      /\ given # Nil
      /\ ~given.err /\ given.infos # <<>>
      => pc = "leave" ]_vars

\* The exports keep the promise of HookCall: one result at most, never one
\* without a stop, and every call ends.
Verdict ==
  CASE answer = "true"  -> "stop"
    [] answer = "false" -> "next"
    [] answer = "code"  -> IF code = 0 THEN "next" ELSE "stop"
    [] OTHER            -> answer

Promise == INSTANCE HookCall WITH
  Hooks  <- Handlers,
  phase  <- IF pc = "idle" THEN "idle" ELSE "running",
  handed <- outputs # <<<<>>, Nil>>,
  answer <- Verdict

PromiseKept == Promise!HookSpec

=============================================================================
