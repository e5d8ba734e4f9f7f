--------------------------- MODULE L7Framing_proofs ---------------------------
(***************************************************************************)
(* What L7Framing promises for every list of infos and every buffer size   *)
(* up to 2^16: the frames tile the written prefix of the buffer and the    *)
(* writes stay inside it.                                                  *)
(***************************************************************************)
EXTENDS L7Framing, Foundations

------------------------------------------------------------------------------
(* Messages, and the offsets of the loop *)

\* A message has exactly the shape of an AppInfo, whatever the direction.
LEMMA ToAppInfoType ==
  ASSUME NEW info \in L7ProtocolInfo, NEW d \in Direction
  PROVE  ToAppInfo(info, d) \in AppInfo
<1>1. Side(info, d) \in {"req", "resp", "none"}
  BY DEF Side
<1>2. ASSUME Side(info, d) = "resp" PROVE info.resp \in Response
  BY <1>2 DEF Side, L7ProtocolInfo
<1>3. ASSUME NEW s \in StatusValue \cup {Nil} PROVE PbStatus(s) \in RespStatus
  BY DEF PbStatus, RespStatus, RespStatusOk, RespStatusUnknown
<1>4. ASSUME Side(info, d) = "resp"
      PROVE  PbStatus(info.resp.status) \in RespStatus
  <2>1. info.resp.status \in StatusValue \cup {Nil}
    BY <1>2, <1>4 DEF Response
  <2> QED BY <2>1, <1>3
<1>5. info.body \in Bodies
  BY DEF L7ProtocolInfo
<1> QED BY <1>1, <1>4, <1>5 DEF ToAppInfo, AppInfo

\* EndOffset is the function its recursive equation describes: there is one.
LEMMA EndOffsetDef ==
  ASSUME NEW list \in Seq(L7ProtocolInfo)
  PROVE  EndOffset(list) =
           [k \in 0..Len(list) |->
              IF k = 0 THEN 0
              ELSE EndOffset(list)[k-1] + HeaderLen + SizeVT[list[k].body]]
<1> DEFINE Step(g, k) == IF k = 0 THEN 0
                         ELSE g[k-1] + HeaderLen + SizeVT[list[k].body]
           T == {m \in Nat : \E g : g = [k \in 0..m |-> Step(g, k)]}
<1>1. 0 \in T
  <2>1. [k \in 0..0 |-> 0] = [k \in 0..0 |-> Step([j \in 0..0 |-> 0], k)]
    OBVIOUS
  <2> QED BY <2>1
<1>2. ASSUME NEW m \in Nat, m \in T PROVE m + 1 \in T
  <2>1. PICK g : g = [k \in 0..m |-> Step(g, k)]
    BY <1>2
  <2> DEFINE h == [k \in 0..m+1 |-> IF k = m + 1 THEN Step(g, m + 1) ELSE g[k]]
  <2>2. ASSUME NEW k \in 0..m+1 PROVE h[k] = Step(h, k)
    <3>1. CASE k = m + 1
      BY <3>1
    <3>2. CASE k # m + 1
      <4>1. k \in 0..m /\ h[k] = g[k]
        BY <3>2
      <4>2. g[k] = Step(g, k)
        BY <2>1, <4>1
      <4>3. k = 0 \/ (k-1 \in 0..m /\ h[k-1] = g[k-1])
        BY <4>1
      <4> QED BY <4>1, <4>2, <4>3
    <3> QED BY <3>1, <3>2
  <2>3. h = [k \in 0..m+1 |-> Step(h, k)]
    BY <2>2
  <2> HIDE DEF h, Step
  <2> QED BY <2>3
<1>3. Len(list) \in T
  <2> HIDE DEF T
  <2> QED BY <1>1, <1>2, NaturalInduction
<1>4. \E g : g = [k \in 0..Len(list) |-> Step(g, k)]
  BY <1>3
<1> QED BY <1>4 DEF EndOffset

\* Every info of a list has a size.
LEMMA SizeOfInfo ==
  ASSUME NEW list \in Seq(L7ProtocolInfo), NEW k \in 1..Len(list)
  PROVE  SizeVT[list[k].body] \in Nat
<1>1. list[k] \in L7ProtocolInfo
  OBVIOUS
<1>2. list[k].body \in Bodies
  BY <1>1 DEF L7ProtocolInfo
<1> QED BY <1>2, SizeAssumption

\* The offsets are numbers that grow by a header and a message.
LEMMA EndOffsetStep ==
  ASSUME NEW list \in Seq(L7ProtocolInfo)
  PROVE  /\ EndOffset(list) \in [0..Len(list) -> Nat]
         /\ EndOffset(list)[0] = 0
         /\ \A k \in 1..Len(list) :
              EndOffset(list)[k] =
                EndOffset(list)[k-1] + HeaderLen + SizeVT[list[k].body]
<1> DEFINE end == EndOffset(list)
           T == {k \in 0..Len(list) : end[k] \in Nat}
<1>1. /\ end = [k \in 0..Len(list) |-> end[k]]
      /\ end[0] = 0
      /\ \A k \in 1..Len(list) :
           end[k] = end[k-1] + HeaderLen + SizeVT[list[k].body]
  <2> HIDE DEF end
  <2> QED BY EndOffsetDef DEF end
<1>2. \A k \in 1..Len(list) : SizeVT[list[k].body] \in Nat
  BY SizeOfInfo
<1> HIDE DEF end
<1>3. 0 \in T
  BY <1>1
<1>4. ASSUME NEW k \in 0..(Len(list) - 1), k \in T PROVE k + 1 \in T
  <2>1. k + 1 \in 1..Len(list) /\ (k + 1) - 1 = k
    OBVIOUS
  <2>2. end[k + 1] = end[k] + HeaderLen + SizeVT[list[k + 1].body]
    BY <1>1, <2>1
  <2>3. SizeVT[list[k + 1].body] \in Nat
    BY <1>2, <2>1
  <2> QED BY <1>4, <2>1, <2>2, <2>3 DEF HeaderLen
<1>5. \A k \in 0..Len(list) : k \in T
  <2> HIDE DEF T
  <2> QED BY <1>3, <1>4, BoundedInduction
<1>6. \A k \in 0..Len(list) : end[k] \in Nat
  BY <1>5
<1> QED BY <1>1, <1>6 DEF end

\* No prefix ends behind the whole list.
LEMMA EndOffsetGrows ==
  ASSUME NEW list \in Seq(L7ProtocolInfo), NEW j \in 0..Len(list)
  PROVE  EndOffset(list)[j] <= EndOffset(list)[Len(list)]
<1> DEFINE end == EndOffset(list)
           n == Len(list) - j
           T == {k \in 0..n : end[j] <= end[j + k]}
<1>1. end \in [0..Len(list) -> Nat]
  BY EndOffsetStep
<1>2. ASSUME NEW k \in 1..Len(list) PROVE end[k-1] <= end[k]
  <2>1. end[k] = end[k-1] + HeaderLen + SizeVT[list[k].body]
    BY EndOffsetStep
  <2>2. SizeVT[list[k].body] \in Nat
    BY SizeOfInfo
  <2> HIDE DEF end
  <2>3. end[k-1] \in Nat
    BY <1>1
  <2> QED BY <2>1, <2>2, <2>3 DEF HeaderLen
<1> HIDE DEF end
<1>3. 0 \in T
  BY <1>1
<1>4. ASSUME NEW k \in 0..(n - 1), k \in T PROVE k + 1 \in T
  <2>1. j + (k + 1) \in 1..Len(list) /\ (j + (k + 1)) - 1 = j + k
    OBVIOUS
  <2>2. end[j + k] <= end[j + (k + 1)]
    BY <1>2, <2>1
  <2>3. end[j] \in Nat /\ end[j + k] \in Nat /\ end[j + (k + 1)] \in Nat
    BY <1>1, <2>1
  <2> QED BY <1>4, <2>2, <2>3
<1>5. n \in Nat
  OBVIOUS
<1>6. \A k \in 0..n : k \in T
  <2> HIDE DEF T, n
  <2> QED BY <1>3, <1>4, <1>5, BoundedInduction
<1>7. n \in T /\ j + n = Len(list)
  BY <1>5, <1>6
<1> QED BY <1>7 DEF end

------------------------------------------------------------------------------
(* The invariant *)

\* The inductive invariant: TypeOK, and how the frames written so far relate
\* to the infos consumed so far and to the offset.
FrameOf(k) ==
  /\ frames[k].len = SizeVT[infos[k].body] + 2
  /\ frames[k].msg = ToAppInfo(infos[k], direction)

IInv ==
  /\ TypeOK
  /\ Len(frames) = i - 1
  /\ \A k \in 1..Len(frames) : FrameOf(k)
  /\ frames = <<>> => off = 0
  /\ FramesTile
  /\ WritesInBuffer

\* The 16-bit length is not truncated for a message that passed checkLen.
LEMMA FrameLenExact ==
  ASSUME NEW at \in Nat, NEW size \in Nat, CheckLen(at + HeaderLen, size)
  PROVE  /\ FrameLen(size) = size + 2
         /\ FrameLen(size) \in Uint16
<1>1. size + 2 \in Nat /\ size + 2 < 65536
  BY BufAssumption DEF CheckLen, HeaderLen
<1>2. FrameLen(size) = size + 2
  BY <1>1 DEF FrameLen
<1> QED BY <1>1, <1>2 DEF Uint16

LEMMA InitIInv == Init => IInv
<1> SUFFICES ASSUME Init PROVE IInv
  OBVIOUS
<1>1. frames = <<>> /\ Len(frames) = 0 /\ frames \in Seq(Frame)
  BY DEF Init
<1>2. infos \in Seq(L7ProtocolInfo)
  BY InfoListsAssumption DEF Init
<1> QED BY <1>1, <1>2, BufAssumption
     DEF Init, IInv, TypeOK, FramesTile, WritesInBuffer, FrameOf

\* One info written: a frame is appended where the last one ended.
LEMMA WriteInfoIInv == IInv /\ WriteInfo => IInv'
<1> SUFFICES ASSUME IInv, WriteInfo PROVE IInv'
  OBVIOUS
<1> DEFINE info == infos[i]
           size == SizeVT[info.body]
           frame == [start |-> off, len |-> FrameLen(size),
                     msg |-> ToAppInfo(info, direction)]
<1>1. /\ i \in 1..Len(infos) /\ info \in L7ProtocolInfo /\ size \in Nat
      /\ off \in Nat /\ direction \in Direction /\ frames \in Seq(Frame)
      /\ infos \in Seq(L7ProtocolInfo)
  <2>1. infos \in Seq(L7ProtocolInfo) /\ i \in 1..Len(infos)
    BY InfoListsAssumption DEF IInv, TypeOK, WriteInfo
  <2>2. info \in L7ProtocolInfo
    BY <2>1
  <2>3. info.body \in Bodies
    BY <2>2 DEF L7ProtocolInfo
  <2> QED BY <2>1, <2>2, <2>3, SizeAssumption DEF IInv, TypeOK
<1>2. CheckLen(off + HeaderLen, size)
  BY DEF WriteInfo
<1>3. FrameLen(size) = size + 2 /\ FrameLen(size) \in Uint16
  BY <1>1, <1>2, FrameLenExact
<1>4. frame \in Frame
  BY <1>1, <1>3, ToAppInfoType DEF Frame
<1>5. /\ frames' = Append(frames, frame)
      /\ off' = off + HeaderLen + size
      /\ i' = i + 1
      /\ UNCHANGED <<infos, direction, result>>
  BY DEF WriteInfo
<1>6. /\ frames' \in Seq(Frame)
      /\ Len(frames') = Len(frames) + 1
      /\ \A k \in 1..Len(frames) : frames'[k] = frames[k]
      /\ frames'[Len(frames) + 1] = frame
  BY <1>1, <1>4, <1>5
<1>7. TypeOK'
  BY <1>1, <1>5, <1>6 DEF IInv, TypeOK, HeaderLen
<1>8. Len(frames') = i' - 1
  BY <1>1, <1>5, <1>6 DEF IInv
<1>9. \A k \in 1..Len(frames') : FrameOf(k)'
  <2> SUFFICES ASSUME NEW k \in 1..Len(frames') PROVE FrameOf(k)'
    OBVIOUS
  <2>1. CASE k \in 1..Len(frames)
    BY <2>1, <1>5, <1>6 DEF IInv, FrameOf
  <2>2. CASE k = Len(frames) + 1
    <3>1. k = i
      BY <2>2, <1>1 DEF IInv
    <3> QED BY <3>1, <2>2, <1>3, <1>5, <1>6 DEF FrameOf
  <2> QED BY <2>1, <2>2, <1>6
<1>10. (frames = <<>> => off = 0)'
  BY <1>6
<1>11. FramesTile'
  <2>1. frames'[1].start = 0
    <3>1. CASE frames = <<>>
      BY <3>1, <1>6 DEF IInv
    <3>2. CASE frames # <<>>
      BY <3>2, <1>1, <1>6 DEF IInv, FramesTile
    <3> QED BY <3>1, <3>2
  <2>2. ASSUME NEW k \in 1..Len(frames')
        PROVE  frames'[k].start + 2 + frames'[k].len
                 = IF k = Len(frames') THEN off' ELSE frames'[k+1].start
    <3>1. CASE k = Len(frames) + 1
      <4>1. frames'[k] = frame /\ k = Len(frames')
        BY <3>1, <1>6
      <4>2. frame.start = off /\ frame.len = size + 2
        BY <1>3
      <4>3. off + 2 + (size + 2) = off'
        <5> HIDE DEF info, size
        <5>1. off \in Nat /\ size \in Nat
          BY <1>1
        <5>2. off' = off + HeaderLen + size
          BY <1>5
        <5> QED BY <5>1, <5>2 DEF HeaderLen
      <4> QED BY <4>1, <4>2, <4>3
    <3>2. CASE k = Len(frames) /\ k # 0
      <4>1. k \in 1..Len(frames) /\ frames'[k] = frames[k]
        BY <3>2, <1>1, <1>6
      <4>2. frames[k].start + 2 + frames[k].len = off
        BY <4>1, <3>2 DEF IInv, FramesTile
      <4>3. frames'[k+1].start = off /\ k # Len(frames')
        BY <3>2, <1>1, <1>6
      <4> QED BY <4>1, <4>2, <4>3
    <3>3. CASE k \in 1..Len(frames) - 1
      BY <3>3, <1>1, <1>6 DEF IInv, FramesTile
    <3> QED BY <3>1, <3>2, <3>3, <1>6, <1>1
  <2> QED BY <2>1, <2>2 DEF FramesTile
<1>12. WritesInBuffer'
  BY <1>1, <1>2, <1>5 DEF CheckLen, WritesInBuffer
<1> QED BY <1>7, <1>8, <1>9, <1>10, <1>11, <1>12 DEF IInv

\* The two ways to stop change only the result.
LEMMA StopIInv == IInv /\ (TooLarge \/ Finish \/ UNCHANGED vars) => IInv'
  BY DEF IInv, TypeOK, FramesTile, WritesInBuffer, FrameOf,
         TooLarge, Finish, vars

\* The inductive invariant holds in every state of every call.
THEOREM IInvHolds == Spec => []IInv
<1>1. Init => IInv
  BY InitIInv
<1>2. IInv /\ [Next]_vars => IInv'
  BY WriteInfoIInv, StopIInv DEF Next
<1> QED BY <1>1, <1>2, PTL DEF Spec

\* Type correctness of the loop, for every list of infos.
THEOREM TypeCorrect == Spec => []TypeOK
<1>1. IInv => TypeOK
  BY DEF IInv
<1> QED BY <1>1, IInvHolds, PTL

\* serializeL7ProtocolInfo writes a sequence of frames the host can walk by
\* their lengths: no length is truncated, none overlaps the next.
THEOREM FramesAlwaysTile == Spec => []FramesTile
<1>1. IInv => FramesTile
  BY DEF IInv
<1> QED BY <1>1, IInvHolds, PTL

\* No slice of the buffer is out of range.
THEOREM WritesAlwaysInBuffer == Spec => []WritesInBuffer
<1>1. IInv => WritesInBuffer
  BY DEF IInv
<1> QED BY <1>1, IInvHolds, PTL

\* The half that is sent is the one of the direction.
THEOREM SideAlwaysFollowsDirection == Spec => []SideFollowsDirection
<1>1. IInv => SideFollowsDirection
  <2> SUFFICES ASSUME IInv, NEW k \in 1..Len(frames)
               PROVE  LET info == infos[k] IN
                      /\ (info.req \/ info.resp # Nil) => frames[k].msg.side # "none"
                      /\ (info.req /\ info.resp # Nil) =>
                           frames[k].msg.side = IF direction = DirectionRequest
                                                THEN "req" ELSE "resp"
    BY DEF SideFollowsDirection
  <2>1. frames[k].msg.side = Side(infos[k], direction)
    <3>1. frames[k].msg = ToAppInfo(infos[k], direction)
      BY DEF IInv, FrameOf
    <3>2. ToAppInfo(infos[k], direction).side = Side(infos[k], direction)
      BY DEF ToAppInfo
    <3> QED BY <3>1, <3>2
  <2>2. direction \in Direction
    BY DEF IInv, TypeOK
  <2> QED BY <2>1, <2>2 DEF Side, Direction, DirectionRequest, DirectionResponse
<1> QED BY <1>1, IInvHolds, PTL

------------------------------------------------------------------------------
(* The loop computes Serialized *)

\* The offset is the one EndOffset gives for the infos written so far, so the
\* loop stops early only for a list that cannot fit.
LoopInv ==
  /\ off = EndOffset(infos)[i - 1]
  /\ result = "bytes" => i = Len(infos) + 1
  /\ result = "nil" => ~Fits(infos)

LEMMA InfosAreInfos == ASSUME IInv PROVE infos \in Seq(L7ProtocolInfo)
  BY InfoListsAssumption DEF IInv, TypeOK

LEMMA StepLoopInv ==
  ASSUME IInv, LoopInv, [Next]_vars
  PROVE  LoopInv'
<1>t. /\ infos \in Seq(L7ProtocolInfo) /\ i \in 1..Len(infos) + 1 /\ off \in Nat
      /\ EndOffset(infos) \in [0..Len(infos) -> Nat]
  BY InfosAreInfos, EndOffsetStep DEF IInv, TypeOK
<1>1. ASSUME result = "running", i <= Len(infos)
      PROVE  /\ i \in 1..Len(infos)
             /\ EndOffset(infos)[i] = off + HeaderLen + SizeVT[infos[i].body]
  <2>1. i \in 1..Len(infos)
    BY <1>t, <1>1
  <2> QED BY <1>t, <2>1, EndOffsetStep DEF LoopInv
<1>2. CASE WriteInfo
  <2>1. /\ off' = off + HeaderLen + SizeVT[infos[i].body]
        /\ i' = i + 1 /\ infos' = infos /\ result' = result
        /\ result = "running" /\ i <= Len(infos)
    BY <1>2 DEF WriteInfo
  <2>2. i' - 1 = i
    BY <1>t, <2>1
  <2> QED BY <1>1, <2>1, <2>2 DEF LoopInv
<1>3. CASE TooLarge
  <2>1. /\ UNCHANGED <<infos, i, off>> /\ result' = "nil"
        /\ result = "running" /\ i <= Len(infos)
        /\ ~(off + HeaderLen + SizeVT[infos[i].body] <= BufSize)
    BY <1>3 DEF TooLarge, CheckLen
  <2>2. ~(EndOffset(infos)[i] <= BufSize) /\ i \in 0..Len(infos)
    BY <1>1, <2>1
  <2>3. EndOffset(infos)[i] <= EndOffset(infos)[Len(infos)]
    BY <1>t, <2>2, EndOffsetGrows
  <2>4. EndOffset(infos)[i] \in Nat /\ EndOffset(infos)[Len(infos)] \in Nat
    BY <1>t, <2>2
  <2>5. ~Fits(infos)
    BY <2>2, <2>3, <2>4, BufAssumption DEF Fits
  <2> QED BY <2>1, <2>5 DEF LoopInv
<1>4. CASE Finish
  BY <1>4, <1>t DEF Finish, LoopInv
<1>5. CASE UNCHANGED vars
  BY <1>5 DEF vars, LoopInv
<1> QED BY <1>2, <1>3, <1>4, <1>5 DEF Next

\* serializeL7ProtocolInfo returns all of its infos or nothing, and nothing only
\* for a list that does not fit its buffer: the loop and its early return
\* compute Serialized (serde.go:343-456), which the exports send.
THEOREM AlwaysAllOrNothing == Spec => []AllOrNothing
<1>1. Init => LoopInv
  <2> SUFFICES ASSUME Init PROVE LoopInv
    OBVIOUS
  <2>1. infos \in Seq(L7ProtocolInfo)
    BY InfoListsAssumption DEF Init
  <2> QED BY <2>1, EndOffsetStep DEF Init, LoopInv
<1>2. IInv /\ LoopInv /\ [Next]_vars => LoopInv'
  BY StepLoopInv
<1>3. IInv /\ LoopInv => AllOrNothing
  <2> SUFFICES ASSUME IInv, LoopInv, result = "bytes"
               PROVE  [k \in 1..Len(frames) |-> frames[k].msg]
                        = Serialized(infos, direction)
    BY DEF LoopInv, AllOrNothing
  <2>1. Len(infos) \in Nat /\ i = Len(infos) + 1 /\ Len(frames) = Len(infos)
    BY InfosAreInfos DEF LoopInv, IInv
  <2>2. off = EndOffset(infos)[Len(infos)]
    BY <2>1 DEF LoopInv
  <2>3. Fits(infos)
    BY <2>2 DEF IInv, WritesInBuffer, Fits
  <2>4. \A k \in 1..Len(infos) : frames[k].msg = ToAppInfo(infos[k], direction)
    BY <2>1 DEF IInv, FrameOf
  <2> QED BY <2>1, <2>3, <2>4 DEF Serialized
<1> QED BY <1>1, <1>2, <1>3, IInvHolds, PTL DEF Spec

===============================================================================
