----------------------------- MODULE VtMessages -----------------------------
(***************************************************************************)
(* The generated marshalling of sdk/pb/WasmPluginApi_vtproto.pb.go:        *)
(* SizeVT, MarshalVT, MarshalVTStrict and EqualVT of the seven messages.   *)
(*                                                                         *)
(* A message is a function from the names of the fields it has to their    *)
(* values.  A field with a pointer is in the domain when the pointer is    *)
(* not nil; lists, bytes and fields without a pointer are always there,    *)
(* empty unless set; a oneof is at most one of its names.  Text is a       *)
(* sequence of bytes.  "unknown" is unknownFields.                         *)
(***************************************************************************)
EXTENDS Integers, Sequences, SequencesExt

CONSTANTS
  Nil,       \* a nil pointer in a list or in a oneof
  Word32,    \* 2^32
  Word64,    \* 2^64
  MaxGroups  \* bytes of a varint before its shift reaches 64: 10

\* 2^(7k), what a group of seven bits counts with k groups before it.
Weight[k \in Nat] == IF k = 0 THEN 1 ELSE 128 * Weight[k - 1]

ASSUME WordsAssumption ==
  /\ Word32 \in Nat /\ Word64 \in Nat /\ MaxGroups \in Nat \ {0}
  /\ Word32 > 512 /\ Word64 >= Word32 /\ Word64 <= Weight[MaxGroups]
  /\ Word32 % 2 = 0 /\ Word64 % Word32 = 0

Byte == {b \in Nat : b < 256}

Types == {"AppRequest", "AppResponse", "AppTrace", "KeyVal", "AppInfo",
          "NatsMessage", "ZmtpMessage"}

\* What new(T) has in its domain.
Empty(type) ==
  CASE type \in {"AppRequest", "AppResponse"} -> [unknown |-> <<>>]
    [] type = "AppTrace" -> [trace_ids |-> <<>>, unknown |-> <<>>]
    [] type = "KeyVal" -> [key |-> <<>>, val |-> <<>>, unknown |-> <<>>]
    [] type = "AppInfo" -> [attributes |-> <<>>, unknown |-> <<>>]
    [] type = "NatsMessage" ->
         [subject |-> <<>>, reply_to |-> <<>>, payload |-> <<>>, unknown |-> <<>>]
    [] type = "ZmtpMessage" -> [payload |-> <<>>, unknown |-> <<>>]

Present(m, names) == names \cap DOMAIN m

Counts == {"status", "code", "req_len", "resp_len", "request_id", "biz_type"}
Flags == {"is_end", "is_async", "is_reversed"}
Nested == {"req", "resp", "trace", "attributes"}

\* What the fields of a struct can hold: numbers, flags, lists of texts, texts.
IsFlat(type, m) ==
  /\ DOMAIN Empty(type) \subseteq DOMAIN m
  /\ \A f \in DOMAIN m :
       /\ f \in Counts => m[f] \in Int
       /\ f \in Flags => m[f] \in BOOLEAN
       /\ f = "trace_ids" => m[f] \in Seq(Seq(Byte))
       /\ f \notin Counts \cup Flags \cup Nested \cup {"trace_ids"} => m[f] \in Seq(Byte)

\* Messages stand in the fields of an AppInfo, one at most in its oneof.
IsMessage(type, m) ==
  /\ IsFlat(type, m)
  /\ type = "AppInfo" =>
       /\ ~({"req", "resp"} \subseteq DOMAIN m)
       /\ "req" \in DOMAIN m => m.req = Nil \/ IsFlat("AppRequest", m.req)
       /\ "resp" \in DOMAIN m => m.resp = Nil \/ IsFlat("AppResponse", m.resp)
       /\ "trace" \in DOMAIN m => IsFlat("AppTrace", m.trace)
       /\ m.attributes \in Seq(Range(m.attributes))
       /\ \A k \in DOMAIN m.attributes :
            m.attributes[k] = Nil \/ IsFlat("KeyVal", m.attributes[k])

------------------------------------------------------------------------------
(* Varints, of protohelpers. *)

VarintBytes[n \in Nat] ==
  IF n < 128 THEN <<n>> ELSE <<(n % 128) + 128>> \o VarintBytes[n \div 128]

\* Of uint64(v), which a negative v reaches with its sign extended.
EncodeVarint(v) == VarintBytes[v % Word64]

SizeOfVarint(v) == CHOOSE n \in 1..MaxGroups :
                     /\ v % Word64 < Weight[n]
                     /\ n > 1 => v % Word64 >= Weight[n - 1]

------------------------------------------------------------------------------
(* SizeVT.  Each call names the bytes the code counts for the tag. *)

Delimited(tag, len) == tag + len + SizeOfVarint(len)

TextSize(m, tag, f) ==
  IF f \in DOMAIN m THEN Delimited(tag, Len(m[f])) ELSE 0

\* A field without a pointer.
NonEmptySize(m, f) == IF m[f] # <<>> THEN Delimited(1, Len(m[f])) ELSE 0

IntSize(m, tag, f) ==
  IF f \in DOMAIN m THEN tag + SizeOfVarint(m[f]) ELSE 0

BoolSize(m, f) == IF f \in DOMAIN m THEN 3 ELSE 0

ListSize(sizes, tag) ==
  LET n[k \in 0..Len(sizes)] ==
        IF k = 0 THEN 0 ELSE n[k - 1] + Delimited(tag, sizes[k])
  IN  n[Len(sizes)]

AppRequest_SizeVT(m) ==
  TextSize(m, 1, "version") + TextSize(m, 1, "type") + TextSize(m, 1, "domain")
    + TextSize(m, 1, "resource") + TextSize(m, 1, "endpoint") + Len(m.unknown)

AppResponse_SizeVT(m) ==
  IntSize(m, 1, "status") + IntSize(m, 1, "code") + TextSize(m, 1, "exception")
    + TextSize(m, 1, "result") + TextSize(m, 1, "type") + TextSize(m, 1, "endpoint")
    + Len(m.unknown)

AppTrace_SizeVT(m) ==
  TextSize(m, 1, "trace_id") + TextSize(m, 1, "span_id")
    + TextSize(m, 1, "parent_span_id") + TextSize(m, 1, "x_request_id")
    + TextSize(m, 1, "http_proxy_client")
    + ListSize([k \in DOMAIN m.trace_ids |-> Len(m.trace_ids[k])], 1)
    + Len(m.unknown)

KeyVal_SizeVT(m) ==
  IF m = Nil THEN 0
  ELSE NonEmptySize(m, "key") + NonEmptySize(m, "val") + Len(m.unknown)

\* The wrappers of a oneof: with a nil inside they take no bytes.
AppInfo_Req_SizeVT(m) ==
  IF m = Nil THEN 0 ELSE Delimited(1, AppRequest_SizeVT(m))

AppInfo_Resp_SizeVT(m) ==
  IF m = Nil THEN 0 ELSE Delimited(1, AppResponse_SizeVT(m))

\* A mutant: the type is counted with a tag of one byte, as the lengths are.
BizSizeShortTag(m) ==
  IntSize(m, 1, "biz_type") + TextSize(m, 2, "biz_code")
    + TextSize(m, 2, "biz_scenario") + TextSize(m, 2, "biz_response_code")

BizSize(m) ==
  IntSize(m, 2, "biz_type") + TextSize(m, 2, "biz_code")
    + TextSize(m, 2, "biz_scenario") + TextSize(m, 2, "biz_response_code")

InfoSize(m) ==
  (IF "req" \in DOMAIN m THEN AppInfo_Req_SizeVT(m.req) ELSE 0)
    + (IF "resp" \in DOMAIN m THEN AppInfo_Resp_SizeVT(m.resp) ELSE 0)

\* Fields 12 to 35.
RestSize(m) ==
  (IF "trace" \in DOMAIN m THEN Delimited(1, AppTrace_SizeVT(m.trace)) ELSE 0)
    + TextSize(m, 1, "protocol_str")
    + BoolSize(m, "is_end") + BoolSize(m, "is_async") + BoolSize(m, "is_reversed")
    + ListSize([k \in DOMAIN m.attributes |-> KeyVal_SizeVT(m.attributes[k])], 2)
    + BizSize(m)

AppInfo_SizeVT(m) ==
  IntSize(m, 1, "req_len") + IntSize(m, 1, "resp_len") + IntSize(m, 1, "request_id")
    + InfoSize(m) + RestSize(m) + Len(m.unknown)

NatsMessage_SizeVT(m) ==
  NonEmptySize(m, "subject") + NonEmptySize(m, "reply_to")
    + NonEmptySize(m, "payload") + Len(m.unknown)

\* A string in a oneof is counted even when it is empty.
ZmtpMessage_MatchPattern_SizeVT(s) == Delimited(1, Len(s))

ZmtpMessage_SizeVT(m) ==
  (IF "match_pattern" \in DOMAIN m
     THEN ZmtpMessage_MatchPattern_SizeVT(m.match_pattern) ELSE 0)
    + NonEmptySize(m, "payload") + Len(m.unknown)

------------------------------------------------------------------------------
(* MarshalToSizedBufferVT, as the bytes it writes: backwards from the end  *)
(* of the buffer, so the order here is the reverse of the code's.          *)

Tag(num, wireType) == EncodeVarint(8 * num + wireType)

Prefixed(num, bytes) == Tag(num, 2) \o EncodeVarint(Len(bytes)) \o bytes

Text(m, num, f) == IF f \in DOMAIN m THEN Prefixed(num, m[f]) ELSE <<>>

NonEmpty(m, num, f) == IF m[f] # <<>> THEN Prefixed(num, m[f]) ELSE <<>>

Number(m, num, f) ==
  IF f \in DOMAIN m THEN Tag(num, 0) \o EncodeVarint(m[f]) ELSE <<>>

Bool(m, num, f) ==
  IF f \in DOMAIN m THEN Tag(num, 0) \o <<IF m[f] THEN 1 ELSE 0>> ELSE <<>>

AppRequest_MarshalVT(m) ==
  Text(m, 1, "version") \o Text(m, 2, "type") \o Text(m, 3, "domain")
    \o Text(m, 4, "resource") \o Text(m, 5, "endpoint") \o m.unknown

AppResponse_MarshalVT(m) ==
  Number(m, 1, "status") \o Number(m, 2, "code") \o Text(m, 3, "exception")
    \o Text(m, 4, "result") \o Text(m, 5, "type") \o Text(m, 6, "endpoint")
    \o m.unknown

AppTrace_MarshalVT(m) ==
  Text(m, 1, "trace_id") \o Text(m, 2, "span_id") \o Text(m, 3, "parent_span_id")
    \o Text(m, 4, "x_request_id") \o Text(m, 5, "http_proxy_client")
    \o FlattenSeq([k \in DOMAIN m.trace_ids |-> Prefixed(6, m.trace_ids[k])])
    \o m.unknown

KeyVal_MarshalVT(m) ==
  IF m = Nil THEN <<>>
  ELSE NonEmpty(m, 1, "key") \o NonEmpty(m, 2, "val") \o m.unknown

AppInfo_Req_MarshalVT(m) ==
  IF m = Nil THEN <<>> ELSE Prefixed(10, AppRequest_MarshalVT(m))

AppInfo_Resp_MarshalVT(m) ==
  IF m = Nil THEN <<>> ELSE Prefixed(11, AppResponse_MarshalVT(m))

Info(m) ==
  CASE "req" \in DOMAIN m -> AppInfo_Req_MarshalVT(m.req)
    [] "resp" \in DOMAIN m -> AppInfo_Resp_MarshalVT(m.resp)
    [] OTHER -> <<>>

\* Fields 1 to 3, and 12 to 35.
Lengths(m) == Number(m, 1, "req_len") \o Number(m, 2, "resp_len") \o Number(m, 3, "request_id")

Rest(m) ==
  (IF "trace" \in DOMAIN m THEN Prefixed(12, AppTrace_MarshalVT(m.trace)) ELSE <<>>)
    \o Text(m, 13, "protocol_str")
    \o Bool(m, 21, "is_end") \o Bool(m, 22, "is_async") \o Bool(m, 23, "is_reversed")
    \o FlattenSeq([k \in DOMAIN m.attributes |->
                     Prefixed(31, KeyVal_MarshalVT(m.attributes[k]))])
    \o Number(m, 32, "biz_type") \o Text(m, 33, "biz_code")
    \o Text(m, 34, "biz_scenario") \o Text(m, 35, "biz_response_code")

\* The oneof behind all other fields.
AppInfo_MarshalVT(m) == Lengths(m) \o Rest(m) \o Info(m) \o m.unknown

\* The oneof at its number.
AppInfo_MarshalVTStrict(m) == Lengths(m) \o Info(m) \o Rest(m) \o m.unknown

NatsMessage_MarshalVT(m) ==
  NonEmpty(m, 1, "subject") \o NonEmpty(m, 2, "reply_to")
    \o NonEmpty(m, 3, "payload") \o m.unknown

\* A mutant: an empty pattern is left out, as an empty plain string is.
ZmtpMessage_MatchPattern_OmitEmpty(s) == IF s = <<>> THEN <<>> ELSE Prefixed(1, s)

ZmtpMessage_MatchPattern_MarshalVT(s) == Prefixed(1, s)

Subscription(m) ==
  IF "match_pattern" \in DOMAIN m
  THEN ZmtpMessage_MatchPattern_MarshalVT(m.match_pattern) ELSE <<>>

ZmtpMessage_MarshalVT(m) == NonEmpty(m, 2, "payload") \o Subscription(m) \o m.unknown

ZmtpMessage_MarshalVTStrict(m) ==
  Subscription(m) \o NonEmpty(m, 2, "payload") \o m.unknown

SizeVT(type, m) ==
  CASE type = "AppRequest" -> AppRequest_SizeVT(m)
    [] type = "AppResponse" -> AppResponse_SizeVT(m)
    [] type = "AppTrace" -> AppTrace_SizeVT(m)
    [] type = "KeyVal" -> KeyVal_SizeVT(m)
    [] type = "AppInfo" -> AppInfo_SizeVT(m)
    [] type = "NatsMessage" -> NatsMessage_SizeVT(m)
    [] type = "ZmtpMessage" -> ZmtpMessage_SizeVT(m)

\* The strict writers of the messages without a oneof do what the others do.
Written(type, strict, m) ==
  CASE type = "AppRequest" -> AppRequest_MarshalVT(m)
    [] type = "AppResponse" -> AppResponse_MarshalVT(m)
    [] type = "AppTrace" -> AppTrace_MarshalVT(m)
    [] type = "KeyVal" -> KeyVal_MarshalVT(m)
    [] type = "AppInfo" ->
         IF strict THEN AppInfo_MarshalVTStrict(m) ELSE AppInfo_MarshalVT(m)
    [] type = "NatsMessage" -> NatsMessage_MarshalVT(m)
    [] type = "ZmtpMessage" ->
         IF strict THEN ZmtpMessage_MarshalVTStrict(m) ELSE ZmtpMessage_MarshalVT(m)

\* A buffer of SizeVT bytes is filled from its end and as many bytes are
\* returned from its start.  One that is too small panics: nothing comes.
MarshalVT(type, strict, m) ==
  LET bytes == Written(type, strict, m)
      gap   == SizeVT(type, m) - Len(bytes)
  IN  IF gap < 0 THEN <<>>
      ELSE SubSeq([k \in 1..gap |-> 0] \o bytes, 1, Len(bytes))

------------------------------------------------------------------------------
(* EqualVT *)

\* Pointers: both nil, or both there and the same behind them.
Same(p, q, names) ==
  /\ Present(p, names) = Present(q, names)
  /\ \A f \in Present(p, names) : p[f] = q[f]

\* A nil in a list or a oneof counts as an empty message.
OrEmpty(m, type) == IF m = Nil THEN Empty(type) ELSE m

AppRequest_EqualVT(p, q) ==
  /\ Same(p, q, {"version", "type", "domain", "resource", "endpoint"})
  /\ p.unknown = q.unknown

AppResponse_EqualVT(p, q) ==
  /\ Same(p, q, {"status", "code", "exception", "result", "type", "endpoint"})
  /\ p.unknown = q.unknown

AppTrace_EqualVT(p, q) ==
  /\ Same(p, q, {"trace_id", "span_id", "parent_span_id", "x_request_id",
                 "http_proxy_client", "trace_ids"})
  /\ p.unknown = q.unknown

KeyVal_EqualVT(p, q) == Same(p, q, {"key", "val"}) /\ p.unknown = q.unknown

AppInfo_Req_EqualVT(p, q) ==
  AppRequest_EqualVT(OrEmpty(p, "AppRequest"), OrEmpty(q, "AppRequest"))

AppInfo_Resp_EqualVT(p, q) ==
  AppResponse_EqualVT(OrEmpty(p, "AppResponse"), OrEmpty(q, "AppResponse"))

AppInfo_EqualVT(p, q) ==
  /\ Same(p, q, {"req_len", "resp_len", "request_id", "protocol_str", "is_end",
                 "is_async", "is_reversed", "biz_type", "biz_code",
                 "biz_scenario", "biz_response_code"})
  /\ Present(p, {"req", "resp", "trace"}) = Present(q, {"req", "resp", "trace"})
  /\ "req" \in DOMAIN p => AppInfo_Req_EqualVT(p.req, q.req)
  /\ "resp" \in DOMAIN p => AppInfo_Resp_EqualVT(p.resp, q.resp)
  /\ "trace" \in DOMAIN p => AppTrace_EqualVT(p.trace, q.trace)
  /\ Len(p.attributes) = Len(q.attributes)
  /\ \A k \in DOMAIN p.attributes :
       KeyVal_EqualVT(OrEmpty(p.attributes[k], "KeyVal"),
                      OrEmpty(q.attributes[k], "KeyVal"))
  /\ p.unknown = q.unknown

\* A mutant: the unknown fields are not compared.
NatsMessage_EqualVTKnown(p, q) == Same(p, q, {"subject", "reply_to", "payload"})

NatsMessage_EqualVT(p, q) ==
  Same(p, q, {"subject", "reply_to", "payload"}) /\ p.unknown = q.unknown

ZmtpMessage_MatchPattern_EqualVT(p, q) == p = q

ZmtpMessage_EqualVT(p, q) ==
  /\ Present(p, {"match_pattern"}) = Present(q, {"match_pattern"})
  /\ "match_pattern" \in DOMAIN p =>
       ZmtpMessage_MatchPattern_EqualVT(p.match_pattern, q.match_pattern)
  /\ p.payload = q.payload
  /\ p.unknown = q.unknown

EqualVT(type, p, q) ==
  CASE type = "AppRequest" -> AppRequest_EqualVT(p, q)
    [] type = "AppResponse" -> AppResponse_EqualVT(p, q)
    [] type = "AppTrace" -> AppTrace_EqualVT(p, q)
    [] type = "KeyVal" -> KeyVal_EqualVT(p, q)
    [] type = "AppInfo" -> AppInfo_EqualVT(p, q)
    [] type = "NatsMessage" -> NatsMessage_EqualVT(p, q)
    [] type = "ZmtpMessage" -> ZmtpMessage_EqualVT(p, q)

==============================================================================
