--------------------------- MODULE ContextDecoders ---------------------------
(***************************************************************************)
(* The four decoders of sdk/serde.go side by side, as a handler meets      *)
(* them: on one buffer of its own, the base context of a message or the    *)
(* context of its hook.  A decoder keeps nothing for the next, so one call *)
(* of any of them is a behaviour, and the decoders share their variables;  *)
(* the ones a decoder has no use for are Nil.                              *)
(***************************************************************************)
EXTENDS Integers, Sequences

CONSTANTS
  Nil,
  CtxSent, ReqSent, RespSent, MsgSent,  \* what an agent sends to each
  PageSize, Word                        \* the sizes of CustomMessageDecoder

VARIABLES decoder, sent, buf, baseOk, pc, off, ctx, touched, i, strings, arrived

Base == INSTANCE ParseCtxDecoder WITH Sent <- CtxSent
Req  == INSTANCE HttpReqDecoder WITH Sent <- ReqSent
Resp == INSTANCE HttpRespDecoder WITH Sent <- RespSent
Msg  == INSTANCE CustomMessageDecoder WITH Sent <- MsgSent

ASSUME SizesAssumption == Msg!SizesOk
ASSUME NilIsNoContext == Nil \notin Resp!HttpRespCtx

vars == <<decoder, sent, buf, baseOk, pc, off, ctx, touched, i, strings, arrived>>

Init ==
  \/ /\ decoder = "base" /\ Base!Init
     /\ baseOk = Nil /\ i = Nil /\ strings = Nil /\ arrived = Nil
  \/ /\ decoder = "http_req" /\ Req!Init
     /\ ctx = Nil /\ arrived = Nil
  \/ /\ decoder = "http_resp" /\ Resp!Init
     /\ off = Nil /\ i = Nil /\ strings = Nil /\ arrived = Nil
  \/ /\ decoder = "custom_message" /\ Msg!Init
     /\ buf = Nil /\ off = Nil /\ touched = Nil /\ i = Nil /\ strings = Nil

Next ==
  /\ UNCHANGED decoder
  /\ \/ /\ decoder = "base" /\ Base!Next
        /\ UNCHANGED <<baseOk, i, strings, arrived>>
     \/ /\ decoder = "http_req" /\ Req!Next
        /\ UNCHANGED <<ctx, arrived>>
     \/ /\ decoder = "http_resp" /\ Resp!Next
        /\ UNCHANGED <<off, i, strings, arrived>>
     \/ /\ decoder = "custom_message" /\ Msg!Next
        /\ UNCHANGED <<buf, off, touched, i, strings>>

Spec == Init /\ [][Next]_vars

------------------------------------------------------------------------------
(* Properties *)

TypeOK ==
  /\ decoder = "base"           => Base!TypeOK
  /\ decoder = "http_req"       => Req!TypeOK
  /\ decoder = "http_resp"      => Resp!TypeOK
  /\ decoder = "custom_message" => Msg!TypeOK

\* No index or slice expression of the three decoders of a host buffer goes
\* past the bytes the host gave, wherever a message is cut (serde.go:79-329).
InBounds ==
  /\ decoder = "base"      => Base!InBounds
  /\ decoder = "http_req"  => Req!InBounds
  /\ decoder = "http_resp" => Resp!InBounds

\* A context arrives as it was sent or not at all: the base context and the
\* four strings of a request (serde.go:79-198, 244-283), code and status of a
\* response whose endpoint is missing or cut, of which no part passes for all
\* of it (serde.go:318-326), and the payload of a custom message, never with
\* the zeros of the page behind it (serde.go:219-226).
DecodesWhatWasSent ==
  /\ decoder = "base"           => Base!DecodesWhatWasSent
  /\ decoder = "http_req"       => Req!DecodesWhatWasSent
  /\ decoder = "http_resp"      => Resp!EndpointWholeOrNone
  /\ decoder = "custom_message" => Msg!NothingPastTheMessage

\* The slice of a custom message panics for the lengths that wrap the uint32
\* sum, and for no other (serde.go:222-226).
PanicsOnlyOnWrap == decoder = "custom_message" => Msg!PanicsOnlyOnWrap

==============================================================================
