----------------------------- MODULE VtUnmarshal -----------------------------
(***************************************************************************)
(* UnmarshalVT and UnmarshalVTUnsafe of the messages of VtMessages, a loop *)
(* over the fields in a buffer that may be cut anywhere, and CloneVT of    *)
(* what they leave.                                                        *)
(*                                                                         *)
(* A field that is a message is decoded by a nested call on a slice of the *)
(* buffer; `stack` holds the calls, the innermost last, and positions are  *)
(* those of the whole buffer.  The unsafe decoder leaves text where it is: *)
(* a byte of a string is then not a value but a Place of the buffer, and   *)
(* changes when somebody writes there.                                     *)
(***************************************************************************)
EXTENDS VtMessages

CONSTANTS
  Sent,  \* [type, messages]: what is sent, one encoding behind the other
  Raw    \* [type, bytes]: encodings no writer of this schema makes

ASSUME InputAssumption ==
  /\ \A s \in Sent :
       /\ s.type \in Types
       /\ s.messages \in Seq(Range(s.messages))
       /\ \A k \in DOMAIN s.messages : IsMessage(s.type, s.messages[k])
  /\ \A r \in Raw : r.type \in Types /\ r.bytes \in Seq(Byte)

VARIABLES
  sent,    \* what is sent, messages = <<>> for one of Raw
  cut,     \* does something of it not arrive?
  buf,     \* dAtA
  unsafe,  \* UnmarshalVTUnsafe?
  pc,      \* "tag", "field", "done", "error" or "reused"
  iNdEx,   \* the position, bytes before it being read
  field,   \* the tag just read and where it began
  ends,    \* where the slice of each call ends, its l
  stack,   \* the calls and the messages they fill
  clone    \* CloneVT of the decoded message, no fields before

vars == <<sent, cut, buf, unsafe, pc, iNdEx, field, ends, stack, clone>>

inputVars == <<sent, cut, unsafe>>

------------------------------------------------------------------------------
(* Text, in place or not *)

Place(k) == 256 + k

ByteAt(c) == IF c >= 256 THEN buf[c - 256] ELSE c

Bytes(s) == [k \in DOMAIN s |-> ByteAt(s[k])]

Slice(lo, hi) == [k \in 1..(hi - lo) |-> IF unsafe THEN Place(lo + k) ELSE buf[lo + k]]

\* A message with its text as it reads now.
ReadFlat(m) ==
  [f \in DOMAIN m |->
     IF f \in Counts \cup Flags \cup Nested THEN m[f]
     ELSE IF f = "trace_ids" THEN [k \in DOMAIN m[f] |-> Bytes(m[f][k])]
     ELSE Bytes(m[f])]

Read(m) ==
  [f \in DOMAIN m |->
     IF f \in {"req", "resp", "trace"} THEN ReadFlat(m[f])
     ELSE IF f = "attributes" THEN [k \in DOMAIN m[f] |-> ReadFlat(m[f][k])]
     ELSE ReadFlat(m)[f]]

------------------------------------------------------------------------------
(* What the cases of each switch do: a kind and the field they set.        *)

Strings(names) == [n \in DOMAIN names |-> <<"string", names[n]>>]

AppRequest_UnmarshalVT ==
  Strings(<<"version", "type", "domain", "resource", "endpoint">>)

AppResponse_UnmarshalVT ==
  <<<<"int32", "status">>, <<"int32", "code">>>>
    \o Strings(<<"exception", "result", "type", "endpoint">>)

AppTrace_UnmarshalVT ==
  Strings(<<"trace_id", "span_id", "parent_span_id", "x_request_id",
            "http_proxy_client">>) \o <<<<"strings", "trace_ids">>>>

KeyVal_UnmarshalVT == Strings(<<"key", "val">>)

AppInfo_UnmarshalVT ==
  [n \in 1..3 \cup 10..13 \cup 21..23 \cup 31..35 |->
     CASE n = 1 -> <<"uint32", "req_len">>
       [] n = 2 -> <<"uint32", "resp_len">>
       [] n = 3 -> <<"uint32", "request_id">>
       [] n = 10 -> <<"oneof", "req">>
       [] n = 11 -> <<"oneof", "resp">>
       [] n = 12 -> <<"message", "trace">>
       [] n = 13 -> <<"string", "protocol_str">>
       [] n = 21 -> <<"bool", "is_end">>
       [] n = 22 -> <<"bool", "is_async">>
       [] n = 23 -> <<"bool", "is_reversed">>
       [] n = 31 -> <<"messages", "attributes">>
       [] n = 32 -> <<"uint32", "biz_type">>
       [] n = 33 -> <<"string", "biz_code">>
       [] n = 34 -> <<"string", "biz_scenario">>
       [] n = 35 -> <<"string", "biz_response_code">>]

NatsMessage_UnmarshalVT == Strings(<<"subject", "reply_to", "payload">>)

ZmtpMessage_UnmarshalVT == Strings(<<"match_pattern", "payload">>)

Cases(type) ==
  CASE type = "AppRequest" -> AppRequest_UnmarshalVT
    [] type = "AppResponse" -> AppResponse_UnmarshalVT
    [] type = "AppTrace" -> AppTrace_UnmarshalVT
    [] type = "KeyVal" -> KeyVal_UnmarshalVT
    [] type = "AppInfo" -> AppInfo_UnmarshalVT
    [] type = "NatsMessage" -> NatsMessage_UnmarshalVT
    [] type = "ZmtpMessage" -> ZmtpMessage_UnmarshalVT

TypeOf == [req |-> "AppRequest", resp |-> "AppResponse", trace |-> "AppTrace",
           attributes |-> "KeyVal"]

------------------------------------------------------------------------------
(* CloneVT.  Pointers are copied with what they point to, but a string     *)
(* shares its bytes with the one it was copied from; payload and           *)
(* unknownFields get bytes of their own.                                   *)

Copies(m, shared, own) ==
  [f \in Present(m, shared \cup own) |-> IF f \in own THEN Bytes(m[f]) ELSE m[f]]

AppRequest_CloneVT(m) ==
  Copies(m, {"version", "type", "domain", "resource", "endpoint"}, {"unknown"})

AppResponse_CloneVT(m) ==
  Copies(m, {"status", "code", "exception", "result", "type", "endpoint"}, {"unknown"})

AppTrace_CloneVT(m) ==
  Copies(m, {"trace_id", "span_id", "parent_span_id", "x_request_id",
             "http_proxy_client", "trace_ids"}, {"unknown"})

KeyVal_CloneVT(m) == Copies(m, {"key", "val"}, {"unknown"})

AppInfo_CloneVT(m) ==
  LET flat == Copies(m, {"req_len", "resp_len", "request_id", "protocol_str", "is_end",
                         "is_async", "is_reversed", "biz_type", "biz_code",
                         "biz_scenario", "biz_response_code"}, {"unknown"})
  IN  [f \in DOMAIN flat \cup Present(m, Nested) |->
         CASE f = "req" -> AppRequest_CloneVT(m.req)
           [] f = "resp" -> AppResponse_CloneVT(m.resp)
           [] f = "trace" -> AppTrace_CloneVT(m.trace)
           [] f = "attributes" ->
                [k \in DOMAIN m.attributes |-> KeyVal_CloneVT(m.attributes[k])]
           [] OTHER -> flat[f]]

\* A mutant: the clone shares the payload.
NatsMessage_CloneVTShallow(m) ==
  Copies(m, {"subject", "reply_to", "payload"}, {"unknown"})

NatsMessage_CloneVT(m) == Copies(m, {"subject", "reply_to"}, {"payload", "unknown"})

ZmtpMessage_CloneVT(m) == Copies(m, {"match_pattern"}, {"payload", "unknown"})

CloneVT(type, m) ==
  CASE type = "AppRequest" -> AppRequest_CloneVT(m)
    [] type = "AppResponse" -> AppResponse_CloneVT(m)
    [] type = "AppTrace" -> AppTrace_CloneVT(m)
    [] type = "KeyVal" -> KeyVal_CloneVT(m)
    [] type = "AppInfo" -> AppInfo_CloneVT(m)
    [] type = "NatsMessage" -> NatsMessage_CloneVT(m)
    [] type = "ZmtpMessage" -> ZmtpMessage_CloneVT(m)

------------------------------------------------------------------------------
(* The loop *)

top == stack[Len(stack)]

l == ends[Len(ends)]

NoField == [num |-> 0, wire |-> 0, pre |-> 0]

\* The bytes before the last of a varint at p, if it has a last byte before
\* the end of the data and before its shift is 64.
Groups(p) ==
  {k \in 0..MaxGroups - 1 :
     /\ p + k < l /\ buf[p + k + 1] < 128
     /\ \A j \in 0..k - 1 : buf[p + j + 1] >= 128}

VarintOk(p) == Groups(p) # {}

LastGroup(p) == CHOOSE k \in Groups(p) : TRUE

After(p) == p + LastGroup(p) + 1

Varint(p) ==
  LET value[k \in 0..MaxGroups] ==
        IF k > LastGroup(p) THEN 0
        ELSE (buf[p + k + 1] % 128) * Weight[k] + value[k + 1]
  IN  value[0] % Word64

Signed32(v) == LET w == v % Word32 IN IF w < Word32 \div 2 THEN w ELSE w - Word32

\* Encodings one behind the other, as many bytes of them as arrive.
Init ==
  /\ \/ \E s \in Sent, strict \in BOOLEAN :
          LET all == FlattenSeq([k \in DOMAIN s.messages |->
                                   MarshalVT(s.type, strict, s.messages[k])])
          IN  \E n \in 0..Len(all) :
                /\ sent = s
                /\ cut = (n < Len(all))
                /\ buf = SubSeq(all, 1, n)
     \/ \E r \in Raw :
          /\ sent = [type |-> r.type, messages |-> <<>>]
          /\ cut = FALSE
          /\ buf = r.bytes
  /\ unsafe \in BOOLEAN
  /\ pc = "tag"
  /\ iNdEx = 0
  /\ field = NoField
  /\ ends = <<Len(buf)>>
  /\ stack = <<[type |-> sent.type, into |-> "", inPlace |-> TRUE,
                msg |-> Empty(sent.type)]>>
  /\ clone = <<>>

Put(m, f, v) == [g \in DOMAIN m \cup {f} |-> IF g = f THEN v ELSE m[g]]

\* A mutant: the other case of the oneof stays.
AttachKeeping(m, f, child) ==
  IF f = "attributes" THEN [m EXCEPT !.attributes = Append(Front(@), child)]
  ELSE Put(m, f, child)

\* The message m with child in its field f.
Attach(m, f, child) ==
  CASE f = "attributes" -> [m EXCEPT !.attributes = Append(Front(@), child)]
    [] f \in {"req", "resp"} ->
         Put([g \in DOMAIN m \ {"req", "resp"} |-> m[g]], f, child)
    [] OTHER -> Put(m, f, child)

SetTop(m) == stack' = [stack EXCEPT ![Len(stack)].msg = m]

\* A mutant: an error empties the message.
FailEmpty ==
  /\ pc' = "error"
  /\ ends' = <<ends[1]>>
  /\ stack' = <<[stack[1] EXCEPT !.msg = Empty(sent.type)]>>
  /\ UNCHANGED <<inputVars, buf, iNdEx, field, clone>>

\* An error goes through every call.  What is decoded so far stays, except
\* for a message of the oneof that was not there before.
Fail ==
  /\ pc' = "error"
  /\ ends' = <<ends[1]>>
  /\ stack' = IF Len(stack) = 1 THEN stack
              ELSE IF top.inPlace
              THEN <<[stack[1] EXCEPT !.msg = Attach(@, top.into, top.msg)]>>
              ELSE <<stack[1]>>
  /\ UNCHANGED <<inputVars, buf, iNdEx, field, clone>>

TagNum == Signed32(Varint(iNdEx) \div 8)
TagWire == Varint(iNdEx) % 8

TagOk == VarintOk(iNdEx) /\ TagWire # 4 /\ TagNum > 0

BadTag ==
  /\ pc = "tag" /\ iNdEx < l
  /\ ~TagOk
  /\ Fail

ReadTag ==
  /\ pc = "tag" /\ iNdEx < l
  /\ TagOk
  /\ field' = [num |-> TagNum, wire |-> TagWire, pre |-> iNdEx]
  /\ iNdEx' = After(iNdEx)
  /\ pc' = "field"
  /\ UNCHANGED <<inputVars, buf, ends, stack, clone>>

------------------------------------------------------------------------------
(* The cases *)

Known == pc = "field" /\ field.num \in DOMAIN Cases(top.type)

kind == Cases(top.type)[field.num][1]
name == Cases(top.type)[field.num][2]

WireType(k) == IF k \in {"int32", "uint32", "bool"} THEN 0 ELSE 2

NextField(p) ==
  /\ iNdEx' = p
  /\ pc' = "tag"
  /\ UNCHANGED <<inputVars, buf, field, clone>>

WrongWireType == Known /\ field.wire # WireType(kind) /\ Fail

Expected == Known /\ field.wire = WireType(kind)

BadVarint == Expected /\ ~VarintOk(iNdEx) /\ Fail

\* Bits that do not fit are shifted out.
NumberOf(v) ==
  CASE kind = "uint32" -> v % Word32
    [] kind = "int32" -> Signed32(v)
    [] kind = "bool" -> v % Word32 # 0

ReadNumber ==
  /\ Expected /\ WireType(kind) = 0 /\ VarintOk(iNdEx)
  /\ SetTop(Put(top.msg, name, NumberOf(Varint(iNdEx))))
  /\ UNCHANGED ends
  /\ NextField(After(iNdEx))

\* Length and first byte of what a length stands in front of.
length == Signed32(Varint(iNdEx))
start == After(iNdEx)

\* A mutant: the length is held against the whole buffer.
LengthOkInBuffer == length \in 0..(Len(buf) - start)

\* A negative length, a postIndex that overflows and one behind the end of
\* the slice are errors.
LengthOk == length \in 0..(l - start)

Counted == Expected /\ WireType(kind) = 2 /\ VarintOk(iNdEx)

BadLength == Counted /\ ~LengthOk /\ Fail

ReadText ==
  /\ Counted /\ LengthOk
  /\ kind \in {"string", "strings"}
  /\ LET s == Slice(start, start + length)
     IN  SetTop(Put(top.msg, name, IF kind = "strings" THEN Append(top.msg[name], s)
                                   ELSE s))
  /\ UNCHANGED ends
  /\ NextField(start + length)

\* A trace, and a oneof of the same case, are merged into; an attribute is
\* added, empty at first; another case of the oneof is decoded apart.
EnterMessage ==
  /\ Counted /\ LengthOk
  /\ kind \in {"message", "messages", "oneof"}
  /\ LET there == kind # "messages" /\ name \in DOMAIN top.msg
         outer == IF kind = "messages"
                  THEN Put(top.msg, name, Append(top.msg[name], Empty("KeyVal")))
                  ELSE top.msg
         call  == [type    |-> TypeOf[name],
                   into    |-> name,
                   inPlace |-> there \/ kind # "oneof",
                   msg     |-> IF there THEN top.msg[name] ELSE Empty(TypeOf[name])]
     IN  stack' = Append([stack EXCEPT ![Len(stack)].msg = outer], call)
  /\ ends' = Append(ends, start + length)
  /\ NextField(start)

LeaveMessage ==
  /\ pc = "tag" /\ iNdEx = l /\ Len(ends) = 2
  /\ ends' = <<ends[1]>>
  /\ stack' = <<[stack[1] EXCEPT !.msg = Attach(@, top.into, top.msg)]>>
  /\ NextField(iNdEx)

Unknown == pc = "field" /\ field.num \notin DOMAIN Cases(top.type)

\* protohelpers.Skip: the end of the field that begins at p, groups and all,
\* or -1.
Skip(p) ==
  LET skip[q \in 0..Len(buf)] ==
        LET wire == Varint(q) % 8
            next == After(q)
            to(r, d) == IF d = 0 THEN r ELSE IF r >= l THEN -1 ELSE skip[r][d]
            end(depth) ==
              CASE wire = 0 -> IF VarintOk(next) THEN to(After(next), depth) ELSE -1
                [] wire = 1 -> to(next + 8, depth)
                [] wire = 2 -> IF VarintOk(next) /\ Signed32(Varint(next)) >= 0
                               THEN to(After(next) + Signed32(Varint(next)), depth)
                               ELSE -1
                [] wire = 3 -> to(next, depth + 1)
                [] wire = 4 -> IF depth = 0 THEN -1 ELSE to(next, depth - 1)
                [] wire = 5 -> to(next + 4, depth)
                [] OTHER -> -1
        IN  [depth \in Nat |-> IF q >= l \/ ~VarintOk(q) THEN -1 ELSE end(depth)]
  IN  skip[p][0]

\* A mutant: the position goes back to the tag and stays there.
SkipUnknownStaying ==
  /\ Unknown /\ Skip(field.pre) \in field.pre..l
  /\ UNCHANGED <<ends, stack>>
  /\ NextField(field.pre)

SkipUnknown ==
  /\ Unknown /\ Skip(field.pre) \in field.pre..l
  /\ SetTop([top.msg EXCEPT !.unknown =
               @ \o SubSeq(buf, field.pre + 1, Skip(field.pre))])
  /\ UNCHANGED ends
  /\ NextField(Skip(field.pre))

BadUnknown == Unknown /\ Skip(field.pre) \notin field.pre..l /\ Fail

Return ==
  /\ pc = "tag" /\ iNdEx = l /\ Len(ends) = 1
  /\ pc' = "done"
  /\ clone' = CloneVT(top.type, top.msg)
  /\ UNCHANGED <<inputVars, buf, iNdEx, field, ends, stack>>

Decode ==
  \/ BadTag \/ ReadTag \/ WrongWireType \/ BadVarint \/ ReadNumber
  \/ BadLength \/ ReadText \/ EnterMessage \/ LeaveMessage
  \/ SkipUnknown \/ BadUnknown \/ Return

\* The owner of the buffer fills it with something else.
Reuse ==
  /\ pc = "done"
  /\ pc' = "reused"
  /\ buf' = [k \in DOMAIN buf |-> 255 - buf[k]]
  /\ UNCHANGED <<inputVars, iNdEx, field, ends, stack, clone>>

Next == Decode \/ Reuse

\* A call runs to its end.
Spec == Init /\ [][Next]_vars /\ WF_vars(Decode)

------------------------------------------------------------------------------
(* Properties *)

\* A message has fields of its own type only, and one case of its oneof.
Fits(type, m) ==
  /\ DOMAIN Empty(type) \subseteq DOMAIN m
  /\ DOMAIN m \subseteq {Cases(type)[n][2] : n \in DOMAIN Cases(type)} \cup {"unknown"}
  /\ ~({"req", "resp"} \subseteq DOMAIN m)

TypeOK ==
  /\ cut \in BOOLEAN /\ unsafe \in BOOLEAN
  /\ \A k \in DOMAIN buf : buf[k] \in Byte
  /\ pc \in {"tag", "field", "done", "error", "reused"}
  /\ field \in [num: Nat, wire: 0..7, pre: Nat]
  /\ Len(stack) \in {1, 2} /\ Len(ends) = Len(stack)
  /\ pc \in {"done", "error", "reused"} => Len(stack) = 1
  /\ \A k \in DOMAIN stack : Fits(stack[k].type, stack[k].msg)
  /\ (clone # <<>>) = (pc \in {"done", "reused"})

\* No byte behind the slice a call was given is read, wherever the message is
\* cut and whatever its lengths say: the position stays within the innermost
\* call, and that one within its caller's bytes
\* (WasmPluginApi_vtproto.pb.go:2840-3317).
InBounds ==
  /\ iNdEx \in 0..l
  /\ \A k \in DOMAIN ends : ends[k] <= (IF k = 1 THEN Len(buf) ELSE ends[k - 1])

\* SizeVT is what MarshalToSizedBufferVT writes, in either order of fields:
\* one more and the bytes returned begin with zeros, one less and it panics
\* (WasmPluginApi_vtproto.pb.go:897-906, serde.go:441-449).
SizeIsExact ==
  iNdEx = 0 /\ pc = "tag" /\ ~cut =>
    \A k \in DOMAIN sent.messages, strict \in BOOLEAN :
      SizeVT(sent.type, sent.messages[k])
        = Len(Written(sent.type, strict, sent.messages[k]))

\* No nil inside a oneof, which is equal to an empty message there and yet
\* takes no bytes.
Whole(m) == \A f \in {"req", "resp"} \cap DOMAIN m : m[f] # Nil

\* A decoded message is equal to another exactly when the two are the same on
\* the wire (WasmPluginApi_vtproto.pb.go:305-632).
EqualOnTheWire ==
  pc = "done" /\ ~cut =>
    \A s \in Sent : \A m \in Range(s.messages) :
      s.type = sent.type /\ Whole(m) =>
        (EqualVT(s.type, Read(top.msg), m)
           <=> Written(s.type, FALSE, Read(top.msg)) = Written(s.type, FALSE, m))

\* What encodings one behind the other mean: the last value of a field, lists
\* one behind the other, a trace merged, and a oneof merged while its case is
\* the same.
Plain == {"key", "val", "subject", "reply_to", "payload"}

MergeFlat(p, q) ==
  [f \in DOMAIN p \cup DOMAIN q |->
     CASE f \in {"trace_ids", "attributes", "unknown"} -> p[f] \o q[f]
       [] f \notin DOMAIN q -> p[f]
       [] f \notin DOMAIN p -> q[f]
       [] OTHER -> IF f \in Plain /\ q[f] = <<>> THEN p[f] ELSE q[f]]

Merge(p, q) ==
  LET replaced == IF {"req", "resp"} \cap DOMAIN q = {} THEN {}
                  ELSE {"req", "resp"} \ DOMAIN q
      old == [f \in DOMAIN p \ replaced |-> p[f]]
      m   == MergeFlat(old, q)
  IN  [f \in DOMAIN m |-> IF f \in {"req", "resp", "trace"} \cap DOMAIN old \cap DOMAIN q
                          THEN MergeFlat(old[f], q[f]) ELSE m[f]]

Meaning == FoldLeft(Merge, Empty(sent.type), sent.messages)

Judged == sent.messages # <<>> /\ \A m \in Range(sent.messages) : Whole(m)

\* A message that arrives as a whole is decoded without an error and is equal
\* to what was sent, whichever writer and decoder are used; one behind another
\* is merged into it; what this schema does not know is kept
\* (WasmPluginApi_vtproto.pb.go:2840-3317, 4454-4947).
DecodesWhatWasSent ==
  Judged /\ ~cut =>
    /\ pc # "error"
    /\ pc = "done" => EqualVT(sent.type, Read(top.msg), Meaning)

\* Each field of m is one of w as it was sent, a list or a message perhaps not
\* all of it.
PartFlat(m, w) ==
  \A f \in DOMAIN m :
    IF f \in {"trace_ids", "unknown"} THEN IsPrefix(m[f], w[f])
    ELSE (f \in DOMAIN w /\ m[f] = w[f]) \/ (f \in Plain /\ m[f] = <<>>)

PartOf(m, w) ==
  /\ PartFlat([f \in DOMAIN m \ {"req", "resp", "trace", "attributes"} |-> m[f]], w)
  /\ \A f \in {"req", "resp", "trace"} \cap DOMAIN m :
       f \in DOMAIN w /\ PartFlat(m[f], w[f])
  /\ "attributes" \in DOMAIN m =>
       /\ Len(m.attributes) <= Len(w.attributes)
       /\ \A k \in DOMAIN m.attributes :
            PartFlat(m.attributes[k], OrEmpty(w.attributes[k], "KeyVal"))

\* The first n fields of a NATS message.
FirstFields(m, n) ==
  [f \in DOMAIN m |-> IF f \in Range(SubSeq(<<"subject", "reply_to", "payload">>, 1, n))
                      THEN m[f] ELSE <<>>]

\* Of a message that is cut, only whole fields arrive, with and without an
\* error, and a NATS message, the error of whose decoder is ignored, has every
\* field that did (parser.go:141-143).
OnlyWholeFields ==
  Judged /\ Len(sent.messages) = 1 /\ pc \in {"done", "error"} =>
    /\ PartOf(Read(top.msg), sent.messages[1])
    /\ sent.type = "NatsMessage" =>
         \A n \in 1..3 :
           NatsMessage_SizeVT(FirstFields(sent.messages[1], n)) <= Len(buf)
             => PartFlat(FirstFields(sent.messages[1], n), Read(top.msg))

\* Whoever reuses the buffer changes nothing in a message of the safe decoder,
\* nor in the payload and the unknown fields of a clone of one of the unsafe
\* decoder (WasmPluginApi_vtproto.pb.go:247-290, 5049-5101).
SurvivesReuse ==
  Judged /\ ~cut /\ pc = "reused" =>
    /\ ~unsafe => /\ EqualVT(sent.type, Read(top.msg), Meaning)
                  /\ EqualVT(sent.type, Read(clone), Meaning)
    /\ Bytes(clone.unknown) = Meaning.unknown
    /\ "payload" \in DOMAIN clone => Bytes(clone.payload) = Meaning.payload

\* Every loop over fields ends, on bytes that no writer makes too
\* (WasmPluginApi_vtproto.pb.go:2843-3311).
DecodingEnds == <>(pc \in {"done", "error", "reused"})

==============================================================================
