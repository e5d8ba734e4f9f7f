--------------------------- MODULE ParseCtxDecoder ---------------------------
(***************************************************************************)
(* deserializeParseCtx (sdk/serde.go): the context of a message, read from *)
(* the bytes of vm_read_ctx_base.  One step per length check; offsets are  *)
(* the code's, counted from 0.  The agent's encoding is external and       *)
(* written from the format comment above the function.                     *)
(***************************************************************************)
EXTENDS Integers, Sequences

CONSTANTS
  Nil,    \* Go's nil
  Sent    \* the contexts the agent encodes, undefined codes included

UDP == 17
TCP == 6
EbpfTypes  == {0, 1, 2, 5, 8, 255}
Directions == {0, 1}

Byte8  == {b \in Nat : b < 256}
Uint16 == {n \in Nat : n < 65536}

\* What the encoding can express, 64-bit numbers as their bytes.
Context ==
  [ srcIP: Seq(Byte8), dstIP: Seq(Byte8), srcPort: Uint16, dstPort: Uint16,
    l4: Byte8, l7: Byte8, ebpfType: Byte8, time: Seq(Byte8), direction: Byte8,
    procName: Seq(Byte8), flowID: Seq(Byte8), bufSize: Uint16 ]

Encodable(c) ==
  /\ c \in Context
  /\ Len(c.srcIP) \in {4, 16} /\ Len(c.dstIP) = Len(c.srcIP)
  /\ Len(c.time) = 8 /\ Len(c.flowID) = 8
  /\ Len(c.procName) < 256

VARIABLES
  sent,     \* what the agent encoded (a history variable)
  buf,      \* the bytes that arrived: some first bytes of it, or one too many
  pc,       \* the field read next
  off,      \* the code's off
  ctx,      \* the context so far, Nil once refused
  touched   \* the bytes below the highest index read so far (a history variable)

vars == <<sent, buf, pc, off, ctx, touched>>

\* A ParseCtx.
ParseCtx ==
  [ srcIP: Seq(Byte8), dstIP: Seq(Byte8), srcPort: Uint16, dstPort: Uint16,
    l4: {0, UDP, TCP}, l7: Byte8, ebpfType: EbpfTypes, time: Seq(Byte8),
    direction: Directions, procName: Seq(Byte8), flowID: Seq(Byte8),
    bufSize: Uint16 ]

Fields == {"ip_type", "address", "fixed", "proc_name", "flow_id", "buf_size"}

TypeOK ==
  /\ sent \in Sent
  /\ buf \in Seq(Byte8)
  /\ pc \in Fields \cup {"done"}
  /\ off \in Nat
  /\ ctx \in ParseCtx \cup {Nil}
  /\ touched \in Nat

Uint16Bytes(n) == <<n \div 256, n % 256>>

Encode(c) ==
  <<IF Len(c.srcIP) = 4 THEN 4 ELSE 6>> \o c.srcIP \o c.dstIP
    \o Uint16Bytes(c.srcPort) \o Uint16Bytes(c.dstPort)
    \o <<c.l4, c.l7, c.ebpfType>> \o c.time \o <<c.direction>>
    \o <<Len(c.procName)>> \o c.procName \o c.flowID \o Uint16Bytes(c.bufSize)

\* &ParseCtx{}
EmptyCtx ==
  [ srcIP |-> <<>>, dstIP |-> <<>>, srcPort |-> 0, dstPort |-> 0, l4 |-> 0,
    l7 |-> 0, ebpfType |-> 0, time |-> <<>>, direction |-> 0,
    procName |-> <<>>, flowID |-> <<>>, bufSize |-> 0 ]

Init ==
  /\ sent \in {c \in Sent : Encodable(c)}
  /\ \E n \in 0..Len(Encode(sent)) + 1 :
       buf = SubSeq(Encode(sent) \o <<0>>, 1, n)
  /\ pc = "ip_type"
  /\ off = 0
  /\ ctx = EmptyCtx
  /\ touched = 0

------------------------------------------------------------------------------
\* b[k]; an index behind the end would panic, which touched shows.
Byte(k) == IF k < Len(buf) THEN buf[k+1] ELSE 0
Slice(from, to) == [k \in 1..to - from |-> Byte(from + k - 1)]

BigEndian16(k) == Byte(k) * 256 + Byte(k+1)

AddressLen == IF Byte(0) = 4 THEN 4 ELSE 16

\* The bytes a length check asks for before the field is read, and a mutant
\* that forgets the length of the process name.
NeedOneLess ==
  CASE pc = "ip_type"   -> 1
    [] pc = "address"   -> 2 * AddressLen + 4
    [] pc = "fixed"     -> 12
    [] pc = "proc_name" -> Byte(off - 1)
    [] pc = "flow_id"   -> 8
    [] OTHER            -> 2

Need ==
  CASE pc = "ip_type"   -> 1
    [] pc = "address"   -> 2 * AddressLen + 4
    [] pc = "fixed"     -> 13
    [] pc = "proc_name" -> Byte(off - 1)
    [] pc = "flow_id"   -> 8
    [] OTHER            -> 2

\* The codes a field may hold.
Known ==
  /\ pc = "ip_type" => Byte(0) \in {4, 6}
  /\ pc = "fixed" => /\ Byte(off) \in {UDP, TCP}
                     /\ Byte(off + 2) \in EbpfTypes
                     /\ Byte(off + 11) \in Directions

Accepted == off + Need <= Len(buf) /\ Known

\* Every failed check returns nil.
Refuse ==
  /\ pc # "done"
  /\ ~Accepted
  /\ pc' = "done"
  /\ ctx' = Nil
  /\ UNCHANGED <<sent, buf, off, touched>>

\* A field of n bytes has been read.
Consume(field, next, n) ==
  /\ pc = field
  /\ Accepted
  /\ pc' = next
  /\ off' = off + n
  /\ touched' = off + n
  /\ UNCHANGED <<sent, buf>>

IpType == Consume("ip_type", "address", 1) /\ UNCHANGED ctx

Address ==
  /\ Consume("address", "fixed", 2 * AddressLen + 4)
  /\ LET dst == 1 + AddressLen
         port == 1 + 2 * AddressLen
     IN ctx' = [ctx EXCEPT !.srcIP = Slice(1, dst), !.dstIP = Slice(dst, port),
                           !.srcPort = BigEndian16(port),
                           !.dstPort = BigEndian16(port + 2)]

Fixed ==
  /\ Consume("fixed", "proc_name", 2 + 1 + 8 + 1 + 1)
  /\ ctx' = [ctx EXCEPT !.l4 = Byte(off), !.l7 = Byte(off + 1),
                        !.ebpfType = Byte(off + 2),
                        !.time = Slice(off + 3, off + 11),
                        !.direction = Byte(off + 11)]

ProcName ==
  /\ Consume("proc_name", "flow_id", Byte(off - 1))
  /\ ctx' = [ctx EXCEPT !.procName = Slice(off, off + Byte(off - 1))]

FlowID ==
  /\ Consume("flow_id", "buf_size", 8)
  /\ ctx' = [ctx EXCEPT !.flowID = Slice(off, off + 8)]

BufferSize ==
  /\ Consume("buf_size", "done", 2)
  /\ ctx' = [ctx EXCEPT !.bufSize = BigEndian16(off)]

Next == \/ Refuse
        \/ IpType \/ Address \/ Fixed \/ ProcName \/ FlowID \/ BufferSize

Spec == Init /\ [][Next]_vars

------------------------------------------------------------------------------
(* Properties *)

\* No index or slice expression goes past the end of what the host gave, so
\* the function does not panic on a truncated context (serde.go:79-198).
InBounds == touched <= Len(buf)

\* A context arrives as it was sent or not at all: not from fewer bytes than
\* were sent and not with a code the SDK does not know.  Bytes behind it do
\* not matter (an agent may append fields).
Decodable(c) == /\ c.l4 \in {UDP, TCP}
                /\ c.ebpfType \in EbpfTypes
                /\ c.direction \in Directions

DecodesWhatWasSent ==
  pc = "done" =>
    ctx = IF Decodable(sent) /\ Len(buf) >= Len(Encode(sent)) THEN sent ELSE Nil

==============================================================================
