------------------------------ MODULE FlowPlugins ------------------------------
(***************************************************************************)
(* The two example plugins that find their own protocol: Kuaishou RPC      *)
(* (example/krpc/krpc.go) and DNS (example/dns/dns.go).                    *)
(*                                                                         *)
(* The agent shows OnCheckPayload the packets of a flow until one is taken *)
(* for a request.  From then on the end that sent it is the client, and    *)
(* OnParsePayload is called for every packet, the one that was taken       *)
(* first, with the direction this gives: the packet itself is not asked    *)
(* again which side it is of.                                              *)
(***************************************************************************)
EXTENDS Integers

CONSTANTS
  Nil,
  Codes  \* krpc codes; 0 is success

FlowAssumption == 0 \in Codes /\ Codes \subseteq Int

VARIABLES
  claimant,  \* who is taken for the client, Nil before a plugin claims the flow
  taken,     \* the packet that was claimed
  packet,    \* the packet of the last call
  report     \* how the last call ended

vars == <<claimant, taken, packet, report>>

Ends == {"client", "server"}

\* The fields of KrpcMeta, in the order they are written.
KrpcFields == <<"direction", "ids", "retCode", "trace">>

\* magic: eight bytes that begin with KR; inside: headLen fits the payload;
\* sound: UnmarshalVT has no error; fields: how many it sets, all of them when
\* it saw the whole of a sound header; trace: the last holds an id, in front of
\* what breaks if it is broken itself.  Each end plays one part.  Of what is
\* not krpc, or cannot be read, nothing else counts.
KrpcPackets ==
  { p \in [plugin: {"krpc"}, from: Ends, l4: {"tcp", "udp"}, readable: BOOLEAN,
           magic: BOOLEAN, inside: BOOLEAN, sound: BOOLEAN, fields: 0..4,
           direction: {0, 1, 2}, retCode: Codes, trace: BOOLEAN] :
      /\ p.direction # 0 => p.direction = (IF p.from = "client" THEN 1 ELSE 2)
      /\ p.direction = 1 => p.retCode = 0
      /\ p.inside /\ p.sound => p.fields = 4
      /\ ~(p.readable /\ p.magic) => p.fields = 0 /\ p.direction = 0 /\ ~p.trace }

\* dst53: sent to port 53, as an answer to a resolver is too; unpacks: is a
\* whole DNS message; wanted: has a question or an answer of type A or AAAA.
DnsPackets ==
  { p \in [plugin: {"dns"}, from: Ends, l4: {"tcp", "udp"}, readable: BOOLEAN,
           dst53: BOOLEAN, unpacks: BOOLEAN, Response: BOOLEAN, wanted: BOOLEAN] :
      p.Response = (p.from = "server") }

Packets == KrpcPackets \cup DnsPackets

Report ==
  [tag: {"none", "next", "abort", "error"}]
    \cup [tag: {"info"}, side: {"req"}, trace: BOOLEAN]
    \cup [tag: {"info"}, side: {"resp"}, trace: BOOLEAN,
          status: {"ok", "server_error"}, code: Codes]

TypeOK ==
  /\ claimant \in Ends \cup {Nil}
  /\ taken \in Packets \cup {Nil} /\ packet \in Packets \cup {Nil}
  /\ report \in Report

Outcome(tag) == [tag |-> tag]

Init == claimant = Nil /\ taken = Nil /\ packet = Nil /\ report = Outcome("none")

------------------------------------------------------------------------------
(* krpc *)

\* The fields a decoder that fails, or is shown half a header, did not set are
\* zero.
direction(p) == IF p.fields >= 1 THEN p.direction ELSE 0
retCode(p) == IF p.fields >= 3 THEN p.retCode ELSE 0

\* The decoder keeps a trace it fails inside of, with what it set; one that is
\* cut off it does not begin.
traced(p) == p.trace /\ (p.fields = 4 \/ (p.fields = 3 /\ ~p.sound))

\* parse and fillFromPb; only a check asks for all of the header.
parse(p, check) ==
  /\ p.magic
  /\ check => p.inside /\ p.sound
  /\ direction(p) \in {1, 2}

\* A mutant: answers are claimed too.
KrpcCheckAnySide(p) == p.readable /\ p.l4 = "tcp" /\ parse(p, TRUE)

KrpcCheck(p) ==
  p.readable /\ p.l4 = "tcp" /\ parse(p, TRUE) /\ direction(p) = 1

\* A mutant: every answer that has a code is a success.
StatusOfPresent(code) == "ok"

Status(code) == IF code = 0 THEN "ok" ELSE "server_error"

KrpcParse(p, dir) ==
  CASE ~p.readable -> Outcome("error")
    [] p.readable /\ ~parse(p, FALSE) -> Outcome("abort")
    [] OTHER ->
         IF dir = "req" THEN [tag |-> "info", side |-> "req", trace |-> traced(p)]
         ELSE [tag |-> "info", side |-> "resp", trace |-> traced(p),
               status |-> Status(retCode(p)), code |-> retCode(p)]

------------------------------------------------------------------------------
(* dns *)

DnsCheck(p) ==
  p.l4 = "udp" /\ p.dst53 /\ p.readable /\ p.unpacks /\ ~p.Response

\* An answer to a request of another type is dropped.
DnsParse(p, dir) ==
  CASE p.l4 # "udp" -> Outcome("next")
    [] p.l4 = "udp" /\ ~(p.readable /\ p.unpacks) -> Outcome("error")
    [] p.l4 = "udp" /\ p.readable /\ p.unpacks /\ ~p.wanted -> Outcome("abort")
    [] OTHER ->
         IF dir = "req" THEN [tag |-> "info", side |-> "req", trace |-> FALSE]
         ELSE [tag |-> "info", side |-> "resp", trace |-> FALSE,
               status |-> "ok", code |-> 0]

------------------------------------------------------------------------------
OnCheckPayload(p) == IF p.plugin = "krpc" THEN KrpcCheck(p) ELSE DnsCheck(p)

OnParsePayload(p, dir) ==
  IF p.plugin = "krpc" THEN KrpcParse(p, dir) ELSE DnsParse(p, dir)

\* All packets of a flow are of one protocol and one transport.
OfTheFlow(p) == taken # Nil => p.plugin = taken.plugin /\ p.l4 = taken.l4

Check(p) ==
  /\ claimant = Nil
  /\ IF OnCheckPayload(p) THEN claimant' = p.from /\ taken' = p
     ELSE UNCHANGED <<claimant, taken>>
  /\ packet' = p
  /\ report' = Outcome("none")

Direction(p) == IF p.from = claimant THEN "req" ELSE "resp"

Parse(p) ==
  /\ claimant # Nil
  /\ OfTheFlow(p)
  /\ packet' = p
  /\ report' = OnParsePayload(p, Direction(p))
  /\ UNCHANGED <<claimant, taken>>

\* A packet of a flow another plugin has claimed: its L7 is not this one's.
NotMine(p) ==
  /\ claimant = Nil
  /\ packet' = p
  /\ report' = Outcome("next")
  /\ UNCHANGED <<claimant, taken>>

Next == \E p \in Packets : Check(p) \/ Parse(p) \/ NotMine(p)

Spec == Init /\ [][Next]_vars

------------------------------------------------------------------------------
(* Properties *)

\* A flow is claimed at a request and nothing else, whatever was seen or lost
\* before, so that every packet is reported as the side it is, and the packet
\* the flow was claimed for is reported or is a question of another type
\* (krpc.go:136-146, dns.go:47-66).
SidesAreRight ==
  /\ report.tag = "info" =>
       report.side = (IF packet.from = "client" THEN "req" ELSE "resp")
  /\ claimant # Nil /\ report.tag # "none" /\ packet = taken =>
       report.tag = "info" \/ (report.tag = "abort" /\ packet.plugin = "dns")

\* A krpc answer whose code arrived is reported with that code, as an error
\* exactly when it is not 0, be the rest of its header cut or broken
\* (krpc.go:46, 75-79).
FailuresSurface ==
  report.tag = "info" /\ report.side = "resp" /\ packet.plugin = "krpc"
    /\ packet.fields >= 3
  => /\ report.code = packet.retCode
     /\ report.status = (IF packet.retCode = 0 THEN "ok" ELSE "server_error")

==============================================================================
