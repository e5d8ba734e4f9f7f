------------------------------- MODULE L7Info -------------------------------
(***************************************************************************)
(* The values the SDK moves between a parser and the host: L7ProtocolInfo  *)
(* (sdk/host.go), its image AppInfo (sdk/WasmPluginApi.proto), and what    *)
(* serializeL7ProtocolInfo (sdk/serde.go) makes of a list of them.         *)
(*                                                                         *)
(* The fields that serializeL7ProtocolInfo copies one for one and nothing  *)
(* else looks at (ReqLen, RequestID, Trace, Kv, Biz..., the texts of       *)
(* Request and Response) are one opaque value, the body of the info.       *)
(***************************************************************************)
EXTENDS Integers, Sequences

CONSTANTS
  Nil,      \* Go's nil, for the pointers the code tests
  Bodies,   \* the opaque part of an L7ProtocolInfo
  SizeVT,   \* [Bodies -> Nat], the encoded size of the whole AppInfo
  BufSize   \* L7_INFO_BUF_SIZE, the bytes of the output buffer

DirectionRequest  == 0
DirectionResponse == 1
Direction == {DirectionRequest, DirectionResponse}

RespStatusOk      == 0
RespStatusUnknown == 5
RespStatus        == {0, 2, 3, 4, 5}
\* RespStatus is a uint8, so a parser can also hold a value no constant names.
StatusValue       == RespStatus \cup {1}

ASSUME NilAssumption == Nil \notin StatusValue
ASSUME SizeAssumption == SizeVT \in [Bodies -> Nat]
\* The 16-bit length of a frame is what makes 2^16 the largest useful buffer.
ASSUME BufAssumption == BufSize \in Nat /\ BufSize <= 65536

\* A Response is reduced to its Status pointer; the rest of it is in the body.
Response == [status: StatusValue \cup {Nil}]

ASSUME NilIsNoResponse == Nil \notin Response

L7ProtocolInfo ==
  [ req: BOOLEAN, resp: Response \cup {Nil},
    protocolMerge: BOOLEAN, isEnd: BOOLEAN, body: Bodies ]

\* A mutant: the two halves tested without looking at the direction.
SideReqFirst(info, direction) ==
  IF info.req THEN "req" ELSE IF info.resp # Nil THEN "resp" ELSE "none"

\* The oneof of AppInfo: exactly which half of the info goes on the wire.
Side(info, direction) ==
  IF info.req /\ (info.resp = Nil \/ direction = DirectionRequest) THEN "req"
  ELSE IF info.resp # Nil /\ (~info.req \/ direction = DirectionResponse)
       THEN "resp" ELSE "none"

\* A mutant: the number copied without the switch.
PbStatusCopied(status) == IF status = Nil THEN RespStatusUnknown ELSE status

\* The switch has no default: an undefined status leaves the zero value.
PbStatus(status) ==
  IF status = Nil THEN RespStatusUnknown
  ELSE IF status \in RespStatus THEN status ELSE RespStatusOk

\* Nothing assigns is_end: ProtocolMerge and IsEnd do not reach the message.
ToAppInfo(info, direction) ==
  LET side == Side(info, direction)
  IN [ side   |-> side,
       status |-> IF side = "resp" THEN PbStatus(info.resp.status) ELSE Nil,
       isEnd  |-> Nil,
       body   |-> info.body ]

AppInfo ==
  [ side: {"req", "resp", "none"}, status: RespStatus \cup {Nil},
    isEnd: {Nil}, body: Bodies ]

\* Two bytes of length and the two bytes "PB" go before every message.
HeaderLen == 4

\* The offset behind the first k of the given infos, and whether all fit.
EndOffset(infos) ==
  LET end[k \in 0..Len(infos)] ==
        IF k = 0 THEN 0 ELSE end[k-1] + HeaderLen + SizeVT[infos[k].body]
  IN end

Fits(infos) == EndOffset(infos)[Len(infos)] <= BufSize

\* What serializeL7ProtocolInfo returns; <<>> stands for nil and for buf[:0],
\* which no caller tells apart (len(data) == 0).
Serialized(infos, direction) ==
  IF Fits(infos)
  THEN [k \in 1..Len(infos) |-> ToAppInfo(infos[k], direction)]
  ELSE <<>>

=============================================================================
