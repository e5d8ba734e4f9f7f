--------------------------- MODULE HttpRespDecoder ---------------------------
(***************************************************************************)
(* deserializeHttpRespCtx (sdk/serde.go): the code and the status of an    *)
(* HTTP response and the endpoint a newer agent appends.  The base context *)
(* is ParseCtxDecoder's; here it only succeeds or not.                     *)
(***************************************************************************)
EXTENDS Integers, Sequences

CONSTANTS
  Nil,    \* Go's nil; as an endpoint: an older agent, which sends none
  Sent    \* the responses the agent encodes, unknown statuses included

Byte8      == {b \in Nat : b < 256}
Uint16     == {n \in Nat : n < 65536}
RespStatus == {0, 2, 3, 4, 5}

Encodable(m) ==
  /\ m.code \in Uint16
  /\ m.status \in Byte8
  /\ m.endpoint # Nil => m.endpoint \in Seq(Byte8) /\ Len(m.endpoint) < 65536

VARIABLES
  sent,     \* what the agent encoded (a history variable)
  buf,      \* the bytes that arrived: some first bytes of it, or one too many
  baseOk,   \* does the base context decode?
  pc,       \* "header", "endpoint" or "done"
  ctx,      \* the HttpRespCtx without its base, Nil once refused
  touched   \* the bytes below the highest index read so far (a history variable)

vars == <<sent, buf, baseOk, pc, ctx, touched>>

HttpRespCtx == [code: Uint16, status: RespStatus, endpoint: Seq(Byte8)]

TypeOK ==
  /\ sent \in Sent
  /\ buf \in Seq(Byte8)
  /\ baseOk \in BOOLEAN
  /\ pc \in {"header", "endpoint", "done"}
  /\ ctx \in HttpRespCtx \cup {Nil}
  /\ pc = "endpoint" => ctx # Nil
  /\ touched \in Nat

Uint16Bytes(n) == <<n \div 256, n % 256>>

Encode(m) ==
  Uint16Bytes(m.code) \o <<m.status>>
    \o IF m.endpoint = Nil THEN <<>>
       ELSE Uint16Bytes(Len(m.endpoint)) \o m.endpoint

Init ==
  /\ sent \in {m \in Sent : Encodable(m)}
  /\ \E n \in 0..Len(Encode(sent)) + 1 :
       buf = SubSeq(Encode(sent) \o <<0>>, 1, n)
  /\ baseOk \in BOOLEAN
  /\ pc = "header"
  /\ ctx = Nil
  /\ touched = 0

------------------------------------------------------------------------------
Byte(k) == IF k < Len(buf) THEN buf[k+1] ELSE 0
Slice(from, to) == [k \in 1..to - from |-> Byte(from + k - 1)]
BigEndian16(k) == Byte(k) * 256 + Byte(k+1)

\* A mutant: a status the SDK does not know is let through.
LongEnough == Len(buf) >= 3 /\ baseOk

HeaderOk == Len(buf) >= 3 /\ Byte(2) \in RespStatus /\ baseOk

Refuse ==
  /\ pc = "header"
  /\ ~HeaderOk
  /\ pc' = "done"
  /\ UNCHANGED <<sent, buf, baseOk, ctx, touched>>

ReadHeader ==
  /\ pc = "header"
  /\ HeaderOk
  /\ pc' = "endpoint"
  /\ ctx' = [code |-> BigEndian16(0), status |-> Byte(2), endpoint |-> <<>>]
  /\ touched' = 3
  /\ UNCHANGED <<sent, buf, baseOk>>

EndpointLen == BigEndian16(3)

\* A mutant: the check of the endpoint's length is off by one.
HasOneMore ==
  /\ 5 <= Len(buf)
  /\ EndpointLen > 0
  /\ 5 + EndpointLen < Len(buf)

HasEndpoint ==
  /\ 5 <= Len(buf)
  /\ EndpointLen > 0
  /\ 5 + EndpointLen <= Len(buf)

\* An endpoint that is missing, empty or cut short is left out.
NoEndpoint ==
  /\ pc = "endpoint"
  /\ ~HasEndpoint
  /\ pc' = "done"
  /\ touched' = IF 5 <= Len(buf) THEN 5 ELSE touched
  /\ UNCHANGED <<sent, buf, baseOk, ctx>>

ReadEndpoint ==
  /\ pc = "endpoint"
  /\ HasEndpoint
  /\ pc' = "done"
  /\ ctx' = [ctx EXCEPT !.endpoint = Slice(5, 5 + EndpointLen)]
  /\ touched' = 5 + EndpointLen
  /\ UNCHANGED <<sent, buf, baseOk>>

Next == Refuse \/ ReadHeader \/ NoEndpoint \/ ReadEndpoint

Spec == Init /\ [][Next]_vars

------------------------------------------------------------------------------
(* Properties *)

\* No index or slice expression goes past the end of what the host gave, for
\* an older agent's three bytes as for a message cut short (serde.go:294-328).
InBounds == touched <= Len(buf)

\* Code and status arrive as sent, and with them the whole endpoint or none:
\* an older agent's response is not refused for the endpoint it lacks, a cut
\* endpoint does not cost the response its status, and no part of an endpoint
\* is taken for all of it (serde.go:318-326).
EndpointWholeOrNone ==
  pc = "done" =>
    IF ~baseOk \/ Len(buf) < 3 \/ sent.status \notin RespStatus THEN ctx = Nil
    ELSE ctx = [ code |-> sent.code, status |-> sent.status,
                 endpoint |-> IF sent.endpoint # Nil /\ Len(buf) >= Len(Encode(sent))
                              THEN sent.endpoint ELSE <<>> ]

==============================================================================
