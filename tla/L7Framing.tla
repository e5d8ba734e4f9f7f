------------------------------ MODULE L7Framing ------------------------------
(***************************************************************************)
(* The loop of serializeL7ProtocolInfo (sdk/serde.go), one step per info:  *)
(* the offsets it computes in its fixed buffer, the 16-bit length it       *)
(* writes before each message, and the early return that drops everything. *)
(* One behaviour is one call.                                              *)
(*                                                                         *)
(* The error of MarshalToVT has no action: the generated marshallers have  *)
(* no path that returns one.                                               *)
(***************************************************************************)
EXTENDS L7Info

CONSTANTS InfoLists   \* the lists a parser may return

ASSUME InfoListsAssumption == InfoLists \subseteq Seq(L7ProtocolInfo)

VARIABLES
  infos,      \* the argument
  direction,  \* the argument
  i,          \* index of the next info
  off,        \* write offset in the buffer
  frames,     \* what the bytes below off hold, as [start, len, msg]
  result      \* "running", then "bytes" or "nil"

vars == <<infos, direction, i, off, frames, result>>

Uint16 == {n \in Nat : n < 65536}
Frame == [start: Nat, len: Uint16, msg: AppInfo]

TypeOK ==
  /\ infos \in InfoLists
  /\ direction \in Direction
  /\ i \in 1..Len(infos) + 1
  /\ off \in Nat
  /\ frames \in Seq(Frame)
  /\ result \in {"running", "bytes", "nil"}

Init ==
  /\ infos \in InfoLists
  /\ direction \in Direction
  /\ i = 1
  /\ off = 0
  /\ frames = <<>>
  /\ result = "running"

\* A mutant: the magic is forgotten.
FrameLenOfBody(size) == size % 65536

\* uint16(serSize+2): the length counts the magic and the message.
FrameLen(size) == (size + 2) % 65536

\* A mutant: checkLen called before the header was reserved.
CheckLenBeforeHeader(at, size) == at - HeaderLen + size <= BufSize

\* checkLen, called when off already stands behind the header.
CheckLen(at, size) == at + size <= BufSize

WriteInfo ==
  LET info == infos[i]
      body == off + HeaderLen
      size == SizeVT[info.body]
  IN /\ result = "running"
     /\ i <= Len(infos)
     /\ CheckLen(body, size)
     /\ frames' = Append(frames, [ start |-> off, len |-> FrameLen(size),
                                   msg |-> ToAppInfo(info, direction) ])
     /\ off' = body + size
     /\ i' = i + 1
     /\ UNCHANGED <<infos, direction, result>>

\* A mutant: an info that does not fit is skipped.
SkipTooLarge ==
  /\ result = "running"
  /\ i <= Len(infos)
  /\ ~CheckLen(off + HeaderLen, SizeVT[infos[i].body])
  /\ i' = i + 1
  /\ UNCHANGED <<infos, direction, off, frames, result>>

\* The whole result is nil, however many infos were already written.
TooLarge ==
  /\ result = "running"
  /\ i <= Len(infos)
  /\ ~CheckLen(off + HeaderLen, SizeVT[infos[i].body])
  /\ result' = "nil"
  /\ UNCHANGED <<infos, direction, i, off, frames>>

Finish ==
  /\ result = "running"
  /\ i > Len(infos)
  /\ result' = "bytes"
  /\ UNCHANGED <<infos, direction, i, off, frames>>

Next == WriteInfo \/ TooLarge \/ Finish

Spec == Init /\ [][Next]_vars

------------------------------------------------------------------------------
(* Properties *)

\* The host walks the result by its lengths alone: every frame ends where the
\* next one starts and the last one at off, so no length was truncated to 16
\* bits and no message overlaps the next header (serde.go:344-454).
FramesTile ==
  /\ frames # <<>> => frames[1].start = 0
  /\ \A k \in 1..Len(frames) :
       frames[k].start + 2 + frames[k].len
         = IF k = Len(frames) THEN off ELSE frames[k+1].start

\* No write goes past the end of the 64 KiB array, header included
\* (serde.go:335-341, 346): buf[start:], buf[off:] and buf[:off] never panic.
WritesInBuffer == off <= BufSize

\* The call returns every info in its order or nothing, and nothing only when
\* the infos do not fit together (serde.go:443-445): the loop computes what
\* Serialized says of the whole list.
AllOrNothing ==
  /\ result = "bytes" =>
       [k \in 1..Len(frames) |-> frames[k].msg] = Serialized(infos, direction)
  /\ result = "nil" => ~Fits(infos)

\* An info that has a half is never sent empty, and of two halves the one of
\* the message's direction is sent (serde.go:370-382).
SideFollowsDirection ==
  \A k \in 1..Len(frames) :
    LET info == infos[k] IN
    /\ (info.req \/ info.resp # Nil) => frames[k].msg.side # "none"
    /\ (info.req /\ info.resp # Nil) =>
         frames[k].msg.side = IF direction = DirectionRequest
                              THEN "req" ELSE "resp"

\* "a null `is_end` means no need for protocol merge" (WasmPluginApi.proto:58)
\* and ProtocolMerge asks for it (host.go:158), so an info that asks for the
\* merge should reach the host with an is_end.
MergeIsAnnounced ==
  \A k \in 1..Len(frames) :
    infos[k].protocolMerge => frames[k].msg.isEnd # Nil

==============================================================================
