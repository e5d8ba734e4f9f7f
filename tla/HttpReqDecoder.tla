--------------------------- MODULE HttpReqDecoder ---------------------------
(***************************************************************************)
(* deserializeHttpReqCtx (sdk/serde.go): the four strings of an HTTP       *)
(* request, one step per turn of its loop.  The base context it decodes    *)
(* first is ParseCtxDecoder's; here it only succeeds or not.               *)
(***************************************************************************)
EXTENDS Integers, Sequences

CONSTANTS
  Nil,    \* Go's nil
  Sent    \* the lists of four strings the agent encodes, each of bytes

Byte8 == {b \in Nat : b < 256}

Encodable(t) ==
  /\ t \in [1..4 -> Seq(Byte8)]
  /\ \A k \in 1..4 : Len(t[k]) < 65536

VARIABLES
  sent,     \* what the agent encoded (a history variable)
  buf,      \* the bytes that arrived: some first bytes of it, or up to two more
  baseOk,   \* does the base context decode?
  pc,       \* "start", "loop" or "done"
  i,        \* the next string, counted from 1
  off,      \* the code's off
  strings,  \* the code's s, Nil once the result is nil
  touched   \* the bytes below the highest index read so far (a history variable)

vars == <<sent, buf, baseOk, pc, i, off, strings, touched>>

TypeOK ==
  /\ sent \in Sent
  /\ buf \in Seq(Byte8)
  /\ baseOk \in BOOLEAN
  /\ pc \in {"start", "loop", "done"}
  /\ i \in 1..5
  /\ off \in Nat
  /\ strings \in [1..4 -> Seq(Byte8)] \cup {Nil}
  /\ touched \in Nat

EncodeString(s) == <<Len(s) \div 256, Len(s) % 256>> \o s

Encode(t) == EncodeString(t[1]) \o EncodeString(t[2])
               \o EncodeString(t[3]) \o EncodeString(t[4])

Init ==
  /\ sent \in {t \in Sent : Encodable(t)}
  /\ \E n \in 0..Len(Encode(sent)) + 2 :
       buf = SubSeq(Encode(sent) \o <<0, 0>>, 1, n)
  /\ baseOk \in BOOLEAN
  /\ pc = "start"
  /\ i = 1
  /\ off = 0
  /\ strings = [k \in 1..4 |-> <<>>]
  /\ touched = 0

------------------------------------------------------------------------------
\* b[k]; an index behind the end would panic, which touched shows.
Byte(k) == IF k < Len(buf) THEN buf[k+1] ELSE 0
Slice(from, to) == [k \in 1..to - from |-> Byte(from + k - 1)]

StrLen == Byte(off) * 256 + Byte(off + 1)

More == i <= 4

HasString == off + 2 <= Len(buf) /\ off + 2 + StrLen <= Len(buf)

GiveUp ==
  /\ pc' = "done"
  /\ strings' = Nil
  /\ UNCHANGED <<sent, buf, baseOk, i, off, touched>>

\* Four empty strings already take eight bytes; the base context comes next.
Refuse == pc = "start" /\ (Len(buf) < 8 \/ ~baseOk) /\ GiveUp

Start ==
  /\ pc = "start"
  /\ Len(buf) >= 8
  /\ baseOk
  /\ pc' = "loop"
  /\ UNCHANGED <<sent, buf, baseOk, i, off, strings, touched>>

Truncated == pc = "loop" /\ More /\ ~HasString /\ GiveUp

\* A mutant: the offset of an empty string is forgotten by the continue.
ReadStringSkipping ==
  /\ pc = "loop"
  /\ More
  /\ HasString
  /\ strings' = [strings EXCEPT ![i] = Slice(off + 2, off + 2 + StrLen)]
  /\ off' = IF StrLen = 0 THEN off ELSE off + 2 + StrLen
  /\ touched' = off + 2 + StrLen
  /\ i' = i + 1
  /\ UNCHANGED <<sent, buf, baseOk, pc>>

\* The continue of an empty string leaves s[i] and off as the rest would.
ReadString ==
  /\ pc = "loop"
  /\ More
  /\ HasString
  /\ strings' = [strings EXCEPT ![i] = Slice(off + 2, off + 2 + StrLen)]
  /\ off' = off + 2 + StrLen
  /\ touched' = off + 2 + StrLen
  /\ i' = i + 1
  /\ UNCHANGED <<sent, buf, baseOk, pc>>

Finish ==
  /\ pc = "loop"
  /\ ~More
  /\ pc' = "done"
  /\ UNCHANGED <<sent, buf, baseOk, i, off, strings, touched>>

Next == Refuse \/ Start \/ Truncated \/ ReadString \/ Finish

Spec == Init /\ [][Next]_vars

------------------------------------------------------------------------------
(* Properties *)

\* No slice goes past the end of what the host gave (serde.go:260-276).
InBounds == touched <= Len(buf)

\* The four strings arrive as they were sent, each in its place, or the whole
\* context is refused: a cut anywhere is noticed, an empty string is not
\* mistaken for the end, and bytes behind the last one do not matter.
DecodesWhatWasSent ==
  pc = "done" =>
    strings = IF baseOk /\ Len(buf) >= Len(Encode(sent)) THEN sent ELSE Nil

==============================================================================
