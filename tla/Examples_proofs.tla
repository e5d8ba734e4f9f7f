---------------------------- MODULE Examples_proofs ----------------------------
(* What the example plugins report, for every set of methods, inboxes,      *)
(* codes, flows and lengths, and what the generator makes of every set of   *)
(* files.                                                                   *)
EXTENDS Examples, Foundations, SequenceTheorems, TLAPS

\* Every step of Examples is one of the plugin chosen at the start.
LEMMA OnlyOwnSteps ==
  ASSUME Next
  PROVE  /\ plugin' = plugin
         /\ plugin = "nats" => Nats!Next
         /\ plugin = "flow" => Flow!Next
         /\ plugin = "llm" => Llm!Next
         /\ plugin = "uprobe" => Uprobe!Next
         /\ plugin = "rewrite" => Rewrite!Next
         /\ plugin = "message" => Message!Next
         /\ plugin = "generator" => Gen!Next
BY DEF Next

------------------------------------------------------------------------------
(* NATS: the table holds the inboxes of the requests seen, each with a      *)
(* function that was called on it.                                          *)

InboxesOf(cs) == {c[2] : c \in cs}

TableInv ==
  /\ seen \subseteq calls /\ calls \subseteq Nats!Calls
  /\ DOMAIN kv = InboxesOf(seen)
  /\ \A i \in DOMAIN kv : kv[i] \in Nats!CalledOn(seen, i)

NatsInv == plugin = "nats" => TableInv /\ Nats!AnswersFindTheirCall

LEMMA CalledIffSeen ==
  ASSUME NEW cs, NEW i
  PROVE  Nats!CalledOn(cs, i) = {} <=> i \notin InboxesOf(cs)
BY DEF Nats!CalledOn, InboxesOf

\* A request that is seen as a whole puts its inbox into the table
\* (nats.go:47-50).
LEMMA RequestsAreKept ==
  ASSUME TableInv, NEW c \in calls, seen' = seen \cup {c}, calls' = calls,
         kv' = Nats!Remember([subject |-> c[1], reply_to |-> c[2]])
  PROVE  TableInv'
<1>1. kv' = [i \in DOMAIN kv \cup {c[2]} |-> IF i = c[2] THEN c[1] ELSE kv[i]]
  BY DEF Nats!Remember
<1>2. DOMAIN kv' = InboxesOf(seen)'
  BY <1>1 DEF TableInv, InboxesOf
<1>3. ASSUME NEW i \in DOMAIN kv'
      PROVE  kv'[i] \in Nats!CalledOn(seen', i)
  <2>1. CASE i = c[2]
    BY <1>1, <2>1 DEF Nats!CalledOn
  <2>2. CASE i # c[2]
    <3>1. i \in DOMAIN kv /\ kv'[i] = kv[i]
      BY <1>1, <1>3, <2>2
    <3>2. kv[i] \in Nats!CalledOn(seen, i)
      BY <3>1 DEF TableInv
    <3>3. QED
      BY <3>1, <3>2 DEF Nats!CalledOn
  <2>3. QED
    BY <2>1, <2>2
<1>4. seen' \subseteq calls' /\ calls' \subseteq Nats!Calls
  BY DEF TableInv
<1>5. QED
  BY <1>2, <1>3, <1>4 DEF TableInv, Nats!Calls

\* A message without a reply subject is looked up and nothing else
\* (nats.go:52-59).
LEMMA AnswersAreLookedUp ==
  ASSUME TableInv, NEW s, UNCHANGED seen,
         Nats!OnNatsMessage([subject |-> s, reply_to |-> Nil])
  PROVE  TableInv' /\ Nats!AnswersFindTheirCall'
<1>. DEFINE m == [subject |-> s, reply_to |-> Nil]
<1>1. m.subject = s /\ m.reply_to = Nil
  OBVIOUS
<1>2. /\ message' = m /\ calls' = calls
      /\ Nats!OnAnswer(m) \/ Nats!OnOther(m)
  BY <1>1 DEF Nats!OnNatsMessage, Nats!OnRequest
<1>3. kv' = kv
  BY <1>2 DEF Nats!OnAnswer, Nats!OnOther
<1>4. TableInv'
  BY <1>2, <1>3 DEF TableInv, InboxesOf, Nats!CalledOn, Nats!Calls
<1>5. CASE Nats!OnAnswer(m)
  <2>1. /\ s \in DOMAIN kv
        /\ report' = [function |-> kv[s], callId |-> s, isRequest |-> FALSE]
    BY <1>1, <1>5 DEF Nats!OnAnswer
  <2>2. kv[s] \in Nats!CalledOn(seen, s)
    BY <2>1 DEF TableInv
  <2>3. PICK c \in seen : kv[s] = c[1] /\ s = c[2]
    BY <2>2 DEF Nats!CalledOn
  <2>4. kv[s] \in Methods /\ s \in Inboxes
    BY <2>3 DEF TableInv, Nats!Calls
  <2>5. report' \in Nats!Report
    BY <2>1, <2>4 DEF Nats!Report
  <2>6. report' # Nil
    BY <2>5, ExamplesAssumption DEF Nats!NatsAssumption
  <2>7. /\ report'.function = kv[s] /\ report'.callId = s /\ report'.isRequest = FALSE
    BY <2>1
  <2>8. message'.subject = s /\ message'.reply_to = Nil
    BY <1>1, <1>2
  <2>9. seen' = seen
    OBVIOUS
  <2>10. Nats!AnswersFindTheirCall'
    BY <2>2, <2>6, <2>7, <2>8, <2>9 DEF Nats!AnswersFindTheirCall, Nats!CalledOn
  <2>11. QED
    BY <1>4, <2>10
<1>6. CASE Nats!OnOther(m)
  <2>1. s \notin DOMAIN kv /\ report' = Nil
    BY <1>1, <1>6 DEF Nats!OnOther
  <2>2. Nats!CalledOn(seen, s) = {}
    BY <2>1, CalledIffSeen DEF TableInv
  <2>3. message'.subject = s
    BY <1>1, <1>2
  <2>4. QED
    BY <1>4, <2>1, <2>2, <2>3 DEF Nats!AnswersFindTheirCall, Nats!CalledOn
<1>7. QED
  BY <1>2, <1>5, <1>6

LEMMA NatsStep ==
  ASSUME TableInv, Nats!AnswersFindTheirCall, Nats!Next
  PROVE  TableInv' /\ Nats!AnswersFindTheirCall'
<1>1. ASSUME NEW c \in Nats!Calls, Nats!Call(c)
      PROVE  TableInv' /\ Nats!AnswersFindTheirCall'
  <2>1. UNCHANGED <<kv, seen, message, report>> /\ calls' = calls \cup {c}
    BY <1>1 DEF Nats!Call
  <2>2. QED
    BY <2>1 DEF TableInv, InboxesOf, Nats!CalledOn, Nats!Calls, Nats!AnswersFindTheirCall
<1>2. ASSUME NEW c \in Nats!Calls, Nats!SeeRequest(c)
      PROVE  TableInv' /\ Nats!AnswersFindTheirCall'
  <2>. DEFINE m == [subject |-> c[1], reply_to |-> c[2]]
  <2>1. CASE Nats!OnNatsMessage(m) /\ seen' = seen \cup {c}
    <3>1. c[2] \in Inboxes
      BY DEF Nats!Calls
    <3>2. m.reply_to # Nil
      BY <3>1, ExamplesAssumption DEF Nats!NatsAssumption
    <3>3. kv' = Nats!Remember(m) /\ message' = m /\ calls' = calls
      BY <2>1, <3>2 DEF Nats!OnNatsMessage, Nats!OnRequest, Nats!OnAnswer, Nats!OnOther
    <3>4. c \in calls
      BY <1>2 DEF Nats!SeeRequest
    <3>5. TableInv'
      BY <2>1, <3>3, <3>4, RequestsAreKept
    <3>6. message'.reply_to # Nil
      BY <3>2, <3>3
    <3>7. QED
      BY <3>5, <3>6 DEF Nats!AnswersFindTheirCall
  <2>2. ASSUME NEW s, Nats!OnNatsMessage([subject |-> s, reply_to |-> Nil]),
               seen' = seen
        PROVE  TableInv' /\ Nats!AnswersFindTheirCall'
    BY <2>2, AnswersAreLookedUp
  <2>3. QED
    BY <1>2, <2>1, <2>2 DEF Nats!SeeRequest
<1>3. ASSUME NEW c \in Nats!Calls, Nats!SeeAnswer(c)
      PROVE  TableInv' /\ Nats!AnswersFindTheirCall'
  BY <1>3, AnswersAreLookedUp DEF Nats!SeeAnswer
<1>4. ASSUME NEW s \in Methods, Nats!SeePublished(s)
      PROVE  TableInv' /\ Nats!AnswersFindTheirCall'
  BY <1>4, AnswersAreLookedUp DEF Nats!SeePublished
<1>5. QED
  BY <1>1, <1>2, <1>3, <1>4 DEF Nats!Next

LEMMA NatsInit == Init => NatsInv
<1>. SUFFICES ASSUME Init, plugin = "nats"
              PROVE  TableInv /\ Nats!AnswersFindTheirCall
  BY DEF NatsInv
<1>1. Nats!Init
  BY DEF Init
<1>2. QED
  BY <1>1 DEF Nats!Init, TableInv, InboxesOf, Nats!AnswersFindTheirCall

LEMMA NatsNext == NatsInv /\ [Next]_vars => NatsInv'
<1>. SUFFICES ASSUME NatsInv, [Next]_vars, plugin' = "nats"
              PROVE  TableInv' /\ Nats!AnswersFindTheirCall'
  BY DEF NatsInv
<1>1. CASE Next
  BY <1>1, OnlyOwnSteps, NatsStep DEF NatsInv
<1>2. CASE UNCHANGED vars
  <2>1. UNCHANGED <<plugin, kv, calls, seen, message, report>>
    BY <1>2 DEF vars, natsVars
  <2>2. TableInv /\ Nats!AnswersFindTheirCall
    BY <2>1 DEF NatsInv
  <2>3. QED
    BY <2>1, <2>2 DEF TableInv, InboxesOf, Nats!CalledOn, Nats!AnswersFindTheirCall
<1>3. QED
  BY <1>1, <1>2

\* Whatever is called, lost, cut, repeated or reordered, an answer is reported
\* with a function called on its inbox and nothing else is taken for one
\* (nats.go:44-63).
THEOREM AnswersAlwaysFindTheirCall == Spec => []AnswersFindTheirCall
<1>1. NatsInv /\ [Next]_vars => NatsInv'
  BY NatsNext
<1>2. NatsInv => AnswersFindTheirCall
  BY DEF NatsInv, AnswersFindTheirCall
<1>3. QED
  BY NatsInit, <1>1, <1>2, PTL DEF Spec

------------------------------------------------------------------------------
(* Flows: the client of a claimed flow is the end that asked.               *)

ClaimInv ==
  claimant # Nil =>
    claimant = "client" /\ taken \in Flow!Packets /\ Flow!OnCheckPayload(taken)

FlowInv == plugin = "flow" => ClaimInv /\ Flow!SidesAreRight

\* A packet that is claimed comes from a client (krpc.go:142, dns.go:63).
LEMMA OnlyRequestsAreClaimed ==
  ASSUME NEW p \in Flow!Packets, Flow!OnCheckPayload(p)
  PROVE  p.from = "client"
<1>1. CASE p \in Flow!KrpcPackets
  <2>1. p.plugin = "krpc"
    BY <1>1 DEF Flow!KrpcPackets
  <2>2. Flow!direction(p) = 1
    BY <2>1 DEF Flow!OnCheckPayload, Flow!KrpcCheck
  <2>3. p.direction = 1
    BY <2>2 DEF Flow!direction
  <2>4. p.direction # 0 => p.direction = (IF p.from = "client" THEN 1 ELSE 2)
    BY <1>1 DEF Flow!KrpcPackets
  <2>5. QED
    BY <2>3, <2>4
<1>2. CASE p \in Flow!DnsPackets
  <2>1. p.plugin = "dns" /\ p.from \in Flow!Ends /\ p.Response = (p.from = "server")
    BY <1>2 DEF Flow!DnsPackets
  <2>2. ~p.Response
    BY <2>1 DEF Flow!OnCheckPayload, Flow!DnsCheck
  <2>3. QED
    BY <2>1, <2>2 DEF Flow!Ends
<1>3. QED
  BY <1>1, <1>2 DEF Flow!Packets

\* What a plugin reports is of the side it was told (krpc.go:168-182,
\* dns.go:88-126).
LEMMA ReportsTheSideGiven ==
  ASSUME NEW p, NEW dir \in {"req", "resp"}, Flow!OnParsePayload(p, dir).tag = "info"
  PROVE  Flow!OnParsePayload(p, dir).side = dir
<1>1. CASE p.plugin = "krpc"
  BY <1>1 DEF Flow!OnParsePayload, Flow!KrpcParse, Flow!Outcome
<1>2. CASE p.plugin # "krpc"
  BY <1>2 DEF Flow!OnParsePayload, Flow!DnsParse, Flow!Outcome
<1>3. QED
  BY <1>1, <1>2

\* The packet a flow was claimed for can be parsed, too.
LEMMA TakenIsReported ==
  ASSUME NEW p \in Flow!Packets, NEW dir, Flow!OnCheckPayload(p)
  PROVE  \/ Flow!OnParsePayload(p, dir).tag = "info"
         \/ Flow!OnParsePayload(p, dir).tag = "abort" /\ p.plugin = "dns"
<1>1. CASE p \in Flow!KrpcPackets
  <2>1. p.plugin = "krpc"
    BY <1>1 DEF Flow!KrpcPackets
  <2>2. p.readable /\ Flow!parse(p, FALSE)
    BY <2>1 DEF Flow!OnCheckPayload, Flow!KrpcCheck, Flow!parse
  <2>3. QED
    BY <2>1, <2>2 DEF Flow!OnParsePayload, Flow!KrpcParse, Flow!Outcome
<1>2. CASE p \in Flow!DnsPackets
  <2>1. p.plugin = "dns"
    BY <1>2 DEF Flow!DnsPackets
  <2>2. p.l4 = "udp" /\ p.readable /\ p.unpacks
    BY <2>1 DEF Flow!OnCheckPayload, Flow!DnsCheck
  <2>3. QED
    BY <2>1, <2>2 DEF Flow!OnParsePayload, Flow!DnsParse, Flow!Outcome
<1>3. QED
  BY <1>1, <1>2 DEF Flow!Packets

LEMMA FlowStep ==
  ASSUME ClaimInv, Flow!Next
  PROVE  ClaimInv' /\ Flow!SidesAreRight'
<1>1. ASSUME NEW p \in Flow!Packets, Flow!Check(p)
      PROVE  ClaimInv' /\ Flow!SidesAreRight'
  <2>1. report'.tag = "none"
    BY <1>1 DEF Flow!Check, Flow!Outcome
  <2>2. CASE Flow!OnCheckPayload(p)
    <3>1. claimant' = p.from /\ taken' = p
      BY <1>1, <2>2 DEF Flow!Check
    <3>2. ClaimInv'
      BY <2>2, <3>1, OnlyRequestsAreClaimed DEF ClaimInv
    <3>3. QED
      BY <2>1, <3>2 DEF Flow!SidesAreRight
  <2>3. CASE ~Flow!OnCheckPayload(p)
    <3>1. UNCHANGED <<claimant, taken>>
      BY <1>1, <2>3 DEF Flow!Check
    <3>2. QED
      BY <2>1, <3>1 DEF ClaimInv, Flow!SidesAreRight
  <2>4. QED
    BY <2>2, <2>3
<1>2. ASSUME NEW p \in Flow!Packets, Flow!Parse(p)
      PROVE  ClaimInv' /\ Flow!SidesAreRight'
  <2>. DEFINE dir == Flow!Direction(p)
  <2>1. /\ claimant = "client" /\ taken \in Flow!Packets /\ Flow!OnCheckPayload(taken)
        /\ packet' = p /\ UNCHANGED <<claimant, taken>>
        /\ report' = Flow!OnParsePayload(p, dir)
    BY <1>2 DEF Flow!Parse, ClaimInv
  <2>2. dir = (IF p.from = "client" THEN "req" ELSE "resp")
    BY <2>1 DEF Flow!Direction
  <2>3. ClaimInv'
    BY <2>1 DEF ClaimInv
  <2>4. report'.tag = "info" => report'.side = dir
    BY <2>1, <2>2, ReportsTheSideGiven
  <2>5. p = taken => \/ report'.tag = "info"
                     \/ report'.tag = "abort" /\ p.plugin = "dns"
    BY <2>1, TakenIsReported
  <2>. HIDE DEF dir
  <2>6. QED
    BY <2>1, <2>2, <2>3, <2>4, <2>5 DEF Flow!SidesAreRight
<1>3. ASSUME NEW p \in Flow!Packets, Flow!NotMine(p)
      PROVE  ClaimInv' /\ Flow!SidesAreRight'
  <2>1. claimant' = Nil /\ report'.tag = "next"
    BY <1>3 DEF Flow!NotMine, Flow!Outcome
  <2>2. QED
    BY <2>1 DEF ClaimInv, Flow!SidesAreRight
<1>4. QED
  BY <1>1, <1>2, <1>3 DEF Flow!Next

LEMMA FlowInit == Init => FlowInv
<1>. SUFFICES ASSUME Init, plugin = "flow"
              PROVE  ClaimInv /\ Flow!SidesAreRight
  BY DEF FlowInv
<1>1. Flow!Init
  BY DEF Init
<1>2. QED
  BY <1>1 DEF Flow!Init, ClaimInv, Flow!SidesAreRight, Flow!Outcome

LEMMA FlowNext == FlowInv /\ [Next]_vars => FlowInv'
<1>. SUFFICES ASSUME FlowInv, [Next]_vars, plugin' = "flow"
              PROVE  ClaimInv' /\ Flow!SidesAreRight'
  BY DEF FlowInv
<1>1. CASE Next
  BY <1>1, OnlyOwnSteps, FlowStep DEF FlowInv
<1>2. CASE UNCHANGED vars
  <2>1. UNCHANGED <<plugin, claimant, taken, packet, report>>
    BY <1>2 DEF vars, flowVars
  <2>2. ClaimInv /\ Flow!SidesAreRight
    BY <2>1 DEF FlowInv
  <2>3. QED
    BY <2>1, <2>2 DEF ClaimInv, Flow!SidesAreRight
<1>3. QED
  BY <1>1, <1>2

\* Whatever packets of a krpc or DNS flow are lost before it is claimed or
\* after, each report is of the side its packet is of (krpc.go:136-146,
\* dns.go:47-66).
THEOREM SidesAreAlwaysRight == Spec => []SidesAreRight
<1>1. FlowInv /\ [Next]_vars => FlowInv'
  BY FlowNext
<1>2. FlowInv => SidesAreRight
  BY DEF FlowInv, SidesAreRight
<1>3. QED
  BY FlowInit, <1>1, <1>2, PTL DEF Spec

------------------------------------------------------------------------------
(* LLM: the entry of a flow fits the answer under way on it.                *)

\* Entry e at time t, for an answer a on a flow whose earlier answers ended.
Fits(e, a, t) ==
  a.clean =>
    /\ a.first = Nil => e.flag = 0 /\ e.totalToken = 0 /\ a.tokens = 0
    /\ a.first # Nil => /\ e.flag = 1 /\ e.respFirstChunkedTime = a.first
                        /\ e.totalToken = a.tokens /\ a.first <= t
    /\ a.req # Nil => e.reqTime = a.req /\ a.req <= t
    /\ a.req # Nil /\ a.first # Nil => a.req <= a.first

StreamInv ==
  /\ httpStream \in [Flows -> Llm!StreamInfo \cup {Nil}]
  /\ traffic \in [Flows -> Llm!Traffic]
  /\ now \in Llm!Times
  /\ \A f \in Flows : Fits(Llm!Entry(f), traffic[f], now)

LlmInv == plugin = "llm" => StreamInv /\ Llm!ReportIsOfItsAnswer

LEMMA LlmConstants ==
  /\ MaxTime \in Nat /\ MaxTokens \in Nat /\ LineLens \subseteq Nat
  /\ Word64 \in Nat /\ MaxTime < Word64
  /\ Nil \notin Llm!Times /\ Nil \notin Llm!StreamInfo /\ Nil \notin Llm!Report
  /\ \A t \in Llm!Times : t \in Nat /\ t <= MaxTime
  /\ \A n \in Llm!Tokens : n \in Nat /\ n <= MaxTokens
  /\ 0 \in Llm!Times /\ 0 \in Llm!Tokens
BY ExamplesAssumption DEF Llm!LlmAssumption, Llm!Times, Llm!Tokens

LEMMA NoTimeIsEntry == Llm!NoTime \in Llm!StreamInfo
BY LlmConstants DEF Llm!NoTime, Llm!StreamInfo

LEMMA QuietIsTraffic == Llm!Quiet \in Llm!Traffic
BY LlmConstants DEF Llm!Quiet, Llm!Traffic

LEMMA QuietFits == \A t : Fits(Llm!NoTime, Llm!Quiet, t)
BY DEF Fits, Llm!NoTime, Llm!Quiet

LEMMA EntryTyped ==
  ASSUME StreamInv, NEW f \in Flows
  PROVE  Llm!Entry(f) \in Llm!StreamInfo /\ traffic[f] \in Llm!Traffic
BY NoTimeIsEntry DEF StreamInv, Llm!Entry

LEMMA TimeGoesOn ==
  ASSUME StreamInv, NEW t, Llm!At(t)
  PROVE  t \in Llm!Times /\ now' = t /\ now <= t
<1>1. now \in Nat /\ MaxTime \in Nat
  BY LlmConstants DEF StreamInv
<1>2. t \in now..MaxTime /\ now' = t
  BY DEF Llm!At
<1>3. QED
  BY <1>1, <1>2 DEF Llm!Times

LEMMA FitsLater ==
  ASSUME NEW e, NEW a \in Llm!Traffic, NEW t \in Llm!Times, NEW u \in Llm!Times,
         t <= u, Fits(e, a, t)
  PROVE  Fits(e, a, u)
<1>1. /\ a.first # Nil => a.first \in Llm!Times
      /\ a.req # Nil => a.req \in Llm!Times
  BY DEF Llm!Traffic
<1>2. /\ a.first # Nil => a.first \in Nat
      /\ a.req # Nil => a.req \in Nat
      /\ t \in Nat /\ u \in Nat
  BY <1>1, LlmConstants
<1>3. QED
  BY <1>2 DEF Fits

\* A message of one flow leaves the others as they are.
LEMMA OneFlow ==
  ASSUME StreamInv, NEW f \in Flows, NEW t, Llm!At(t),
         NEW x \in Llm!StreamInfo \cup {Nil}, NEW y \in Llm!Traffic,
         Llm!Put(f, x), traffic' = [traffic EXCEPT ![f] = y],
         Fits(IF x = Nil THEN Llm!NoTime ELSE x, y, t)
  PROVE  StreamInv'
<1>1. httpStream' = [httpStream EXCEPT ![f] = x]
  BY DEF Llm!Put
<1>2. /\ httpStream' \in [Flows -> Llm!StreamInfo \cup {Nil}]
      /\ traffic' \in [Flows -> Llm!Traffic]
  BY <1>1 DEF StreamInv
<1>3. t \in Llm!Times /\ now' = t /\ now <= t /\ now \in Llm!Times
  BY TimeGoesOn DEF StreamInv
<1>4. ASSUME NEW g \in Flows
      PROVE  Fits(Llm!Entry(g)', traffic'[g], t)
  <2>1. CASE g = f
    <3>1. httpStream'[g] = x /\ traffic'[g] = y
      BY <1>1, <2>1 DEF StreamInv
    <3>2. Llm!Entry(g)' = IF x = Nil THEN Llm!NoTime ELSE x
      BY <3>1 DEF Llm!Entry, Llm!NoTime
    <3>3. QED
      BY <3>1, <3>2
  <2>2. CASE g # f
    <3>1. httpStream'[g] = httpStream[g] /\ traffic'[g] = traffic[g]
      BY <1>1, <2>2 DEF StreamInv
    <3>2. Llm!Entry(g)' = Llm!Entry(g)
      BY <3>1 DEF Llm!Entry, Llm!NoTime
    <3>3. Fits(Llm!Entry(g), traffic[g], now) /\ traffic[g] \in Llm!Traffic
      BY EntryTyped DEF StreamInv
    <3>4. QED
      BY <1>3, <3>1, <3>2, <3>3, FitsLater
  <2>3. QED
    BY <2>1, <2>2
<1>5. QED
  BY <1>2, <1>3, <1>4 DEF StreamInv

LEMMA RequestStep ==
  ASSUME StreamInv, NEW f \in Flows, NEW t, Llm!Request(f, t)
  PROVE  StreamInv'
<1>. DEFINE e == Llm!Entry(f)
            a == traffic[f]
            x == [e EXCEPT !.reqTime = t]
            y == [Llm!Quiet EXCEPT !.req = t, !.clean = a.first = Nil /\ a.clean]
<1>1. e \in Llm!StreamInfo /\ a \in Llm!Traffic /\ Fits(e, a, now)
  BY EntryTyped DEF StreamInv
<1>2. Llm!At(t) /\ Llm!Put(f, x) /\ traffic' = [traffic EXCEPT ![f] = y]
  BY DEF Llm!Request
<1>3. t \in Llm!Times /\ t \in Nat /\ t # Nil
  BY <1>2, TimeGoesOn, LlmConstants
<1>4. x \in Llm!StreamInfo /\ x # Nil
  BY <1>1, <1>3, LlmConstants DEF Llm!StreamInfo
<1>5. y \in Llm!Traffic
  BY <1>3, QuietIsTraffic DEF Llm!Traffic
<1>6. /\ y.req = t /\ y.first = Nil /\ y.tokens = 0
      /\ y.clean = (a.first = Nil /\ a.clean)
  BY DEF Llm!Quiet
<1>7. x.reqTime = t /\ x.flag = e.flag /\ x.totalToken = e.totalToken
  BY <1>1 DEF Llm!StreamInfo
<1>8. Fits(x, y, t)
  <2>. SUFFICES ASSUME y.clean
                PROVE  x.flag = 0 /\ x.totalToken = 0
    BY <1>3, <1>6, <1>7 DEF Fits
  <2>1. a.clean /\ a.first = Nil
    BY <1>6
  <2>2. QED
    BY <1>1, <1>7, <2>1 DEF Fits
<1>. HIDE DEF x, y
<1>9. QED
  BY <1>2, <1>4, <1>5, <1>8, OneFlow

LEMMA NothingToCountStep ==
  ASSUME StreamInv, NEW f \in Flows, NEW t, Llm!NothingToCount(f, t)
  PROVE  StreamInv'
<1>1. /\ Llm!At(t) /\ Llm!Put(f, Llm!Entry(f))
      /\ traffic' = [traffic EXCEPT ![f] = traffic[f]]
  BY DEF Llm!NothingToCount, StreamInv
<1>2. /\ Llm!Entry(f) \in Llm!StreamInfo /\ traffic[f] \in Llm!Traffic
      /\ Fits(Llm!Entry(f), traffic[f], now)
  BY EntryTyped DEF StreamInv
<1>3. t \in Llm!Times /\ now \in Llm!Times /\ now <= t
  BY <1>1, TimeGoesOn DEF StreamInv
<1>4. Fits(Llm!Entry(f), traffic[f], t) /\ Llm!Entry(f) # Nil
  BY <1>2, <1>3, FitsLater, LlmConstants
<1>5. QED
  BY <1>1, <1>2, <1>4, OneFlow

\* The first chunk of an answer, or another, adds its bytes to the entry and
\* to the answer alike (llm.go:184-190).
LEMMA ChunkStep ==
  ASSUME StreamInv, NEW f \in Flows, NEW t, NEW n \in LineLens,
         Llm!FirstChunk(f, t, n) \/ Llm!NextChunk(f, t, n)
  PROVE  StreamInv'
<1>. DEFINE e == Llm!Entry(f)
            a == traffic[f]
            y == Llm!Seen(f, t, n)
<1>1. e \in Llm!StreamInfo /\ a \in Llm!Traffic /\ Fits(e, a, now)
  BY EntryTyped DEF StreamInv
<1>2. /\ Llm!At(t) /\ traffic' = [traffic EXCEPT ![f] = y]
      /\ e.totalToken + n <= MaxTokens /\ a.tokens + n <= MaxTokens
  BY DEF Llm!FirstChunk, Llm!NextChunk, Llm!Counts
<1>3. t \in Llm!Times /\ t \in Nat /\ now \in Nat /\ now <= t /\ t # Nil
  BY <1>2, TimeGoesOn, LlmConstants DEF StreamInv
<1>4. /\ n \in Nat /\ e.totalToken \in Nat /\ a.tokens \in Nat
      /\ a.req # Nil => a.req \in Nat
      /\ a.first # Nil => a.first \in Nat
      /\ MaxTokens \in Nat /\ a.clean \in BOOLEAN
  BY <1>1, LlmConstants DEF Llm!StreamInfo, Llm!Traffic
<1>5. a.tokens + n \in Llm!Tokens /\ e.totalToken + n \in Llm!Tokens /\ n \in Llm!Tokens
  BY <1>2, <1>4 DEF Llm!Tokens
<1>6. y \in Llm!Traffic
  BY <1>1, <1>3, <1>5 DEF Llm!Seen, Llm!Traffic
<1>7. /\ y.req = a.req /\ y.clean = a.clean /\ y.tokens = a.tokens + n
      /\ y.first = IF a.first = Nil THEN t ELSE a.first
  BY <1>1 DEF Llm!Seen, Llm!Traffic
<1>. HIDE DEF y
<1>8. CASE Llm!FirstChunk(f, t, n)
  <2>. DEFINE x == [e EXCEPT !.flag = 1, !.respFirstChunkedTime = t, !.totalToken = n]
  <2>1. Llm!Put(f, x) /\ e.flag = 0
    BY <1>8 DEF Llm!FirstChunk
  <2>2. x \in Llm!StreamInfo /\ x # Nil
    BY <1>1, <1>3, <1>5, LlmConstants DEF Llm!StreamInfo
  <2>3. /\ x.flag = 1 /\ x.respFirstChunkedTime = t /\ x.totalToken = n
        /\ x.reqTime = e.reqTime
    BY <1>1 DEF Llm!StreamInfo
  <2>. HIDE DEF x
  <2>4. Fits(x, y, t)
    <3>. SUFFICES ASSUME y.clean
                  PROVE  /\ y.first = t /\ y.tokens = n
                         /\ y.req # Nil => x.reqTime = y.req /\ y.req <= t
      BY <1>3, <2>3 DEF Fits
    <3>1. a.first = Nil /\ a.tokens = 0
      BY <1>1, <1>7, <2>1 DEF Fits
    <3>2. a.req # Nil => e.reqTime = a.req /\ a.req <= now
      BY <1>1, <1>7 DEF Fits
    <3>3. QED
      BY <1>3, <1>4, <1>7, <2>3, <3>1, <3>2
  <2>5. QED
    BY <1>2, <1>6, <2>1, <2>2, <2>4, OneFlow
<1>9. CASE Llm!NextChunk(f, t, n)
  <2>. DEFINE x == [e EXCEPT !.totalToken = @ + n]
  <2>1. Llm!Put(f, x) /\ e.flag = 1
    BY <1>9 DEF Llm!NextChunk
  <2>2. x \in Llm!StreamInfo /\ x # Nil
    BY <1>1, <1>5, LlmConstants DEF Llm!StreamInfo
  <2>3. /\ x.flag = 1 /\ x.respFirstChunkedTime = e.respFirstChunkedTime
        /\ x.totalToken = e.totalToken + n /\ x.reqTime = e.reqTime
    BY <1>1, <2>1 DEF Llm!StreamInfo
  <2>. HIDE DEF x
  <2>4. Fits(x, y, t)
    <3>. SUFFICES ASSUME y.clean
                  PROVE  /\ y.first # Nil /\ x.respFirstChunkedTime = y.first
                         /\ x.totalToken = y.tokens /\ y.first <= t
                         /\ y.req # Nil => x.reqTime = y.req /\ y.req <= t
                         /\ y.req # Nil => y.req <= y.first
      BY <2>3 DEF Fits
    <3>1. /\ a.first # Nil /\ e.respFirstChunkedTime = a.first
          /\ e.totalToken = a.tokens /\ a.first <= now
      BY <1>1, <1>7, <2>1 DEF Fits
    <3>2. a.req # Nil => e.reqTime = a.req /\ a.req <= now /\ a.req <= a.first
      BY <1>1, <1>7, <3>1 DEF Fits
    <3>3. QED
      BY <1>3, <1>4, <1>7, <2>3, <3>1, <3>2
  <2>5. QED
    BY <1>2, <1>6, <2>1, <2>2, <2>4, OneFlow
<1>10. QED
  BY <1>8, <1>9

\* An answer that ends leaves nothing behind (llm.go:172-175, 194-198).
LEMMA EndStep ==
  ASSUME StreamInv, NEW f \in Flows, NEW t,
         Llm!End(f, t) \/ \E n \in LineLens : Llm!LastLine(f, t, n)
  PROVE  StreamInv'
<1>1. /\ Llm!At(t) /\ Llm!Put(f, Nil)
      /\ traffic' = [traffic EXCEPT ![f] = Llm!Quiet]
  BY DEF Llm!End, Llm!LastLine
<1>2. QED
  BY <1>1, QuietIsTraffic, QuietFits, OneFlow

LEMMA EndWithoutTokensStep ==
  ASSUME StreamInv, NEW f \in Flows, NEW t, Llm!EndWithoutTokens(f, t)
  PROVE  StreamInv'
<1>. DEFINE e == Llm!Entry(f)
            y == [Llm!Quiet EXCEPT !.clean = e.flag = 0]
<1>1. /\ Llm!At(t) /\ Llm!Put(f, e) /\ e.totalToken = 0
      /\ traffic' = [traffic EXCEPT ![f] = y]
  BY DEF Llm!EndWithoutTokens
<1>2. e \in Llm!StreamInfo /\ e # Nil
  BY EntryTyped, LlmConstants
<1>3. y \in Llm!Traffic
  BY QuietIsTraffic DEF Llm!Traffic
<1>4. Fits(e, y, t)
  BY <1>1 DEF Fits, Llm!Quiet
<1>. HIDE DEF e, y
<1>5. QED
  BY <1>1, <1>2, <1>3, <1>4, OneFlow

\* The difference of two times in order is no more than the later: nothing
\* wraps.
LEMMA NoWrap ==
  ASSUME NEW p \in Llm!Times, NEW q \in Llm!Times, q <= p
  PROVE  Llm!Minus(p, q) = p - q
<1>1. p \in Nat /\ q \in Nat /\ p <= MaxTime /\ MaxTime < Word64 /\ Word64 \in Nat
      /\ MaxTime \in Nat
  BY LlmConstants
<1>2. p - q \in 0..Word64 - 1
  BY <1>1
<1>3. (p - q) % Word64 = p - q
  BY <1>1, <1>2
<1>4. QED
  BY <1>3 DEF Llm!Minus

LEMMA QuotientBounds ==
  ASSUME NEW a \in Nat, NEW b \in Nat, b > 0
  PROVE  a \div b \in 0..a
OBVIOUS

LEMMA ReportTyped ==
  ASSUME StreamInv, NEW f \in Flows, NEW t, Llm!At(t), Llm!Entry(f).totalToken > 0
  PROVE  Llm!ReportOf(Llm!Entry(f), t) \in Llm!Report
<1> DEFINE e == Llm!Entry(f)
<1>1. e \in Llm!StreamInfo /\ e.totalToken > 0
  BY EntryTyped DEF StreamInv
<1>2. /\ e.respFirstChunkedTime \in Nat /\ e.reqTime \in Nat
      /\ e.totalToken \in Llm!Tokens /\ e.totalToken \in Nat
      /\ Word64 \in Nat /\ Word64 > 0
  BY <1>1, LlmConstants DEF Llm!StreamInfo
<1>3. t \in Nat
  BY TimeGoesOn, LlmConstants DEF StreamInv
<1>4. \A x, y \in Nat : Llm!Minus(x, y) \in 0..Word64 - 1
  BY <1>2 DEF Llm!Minus
<1> HIDE DEF e
<1> DEFINE a == Llm!Minus(e.respFirstChunkedTime, e.reqTime)
           b == Llm!Minus(t, e.respFirstChunkedTime)
<1>5. a \in 0..Word64 - 1 /\ b \in 0..Word64 - 1
  BY <1>2, <1>3, <1>4
<1>6. Llm!ReportOf(e, t) =
        [ttft |-> a, tpot |-> b \div e.totalToken, tokens |-> e.totalToken]
  BY DEF Llm!ReportOf
<1> HIDE DEF a, b
<1> DEFINE q == b \div e.totalToken
<1>7. q \in 0..b
  BY <1>1, <1>2, <1>5, QuotientBounds
<1> HIDE DEF q
<1>8. q \in 0..Word64 - 1
  BY <1>2, <1>5, <1>7
<1>9. [ttft |-> a, tpot |-> q, tokens |-> e.totalToken] \in Llm!Report
  BY <1>2, <1>5, <1>8 DEF Llm!Report
<1> QED BY <1>6, <1>9 DEF q, e

\* The end of an answer whose parts were seen reports just these
\* (llm.go:147-175).
LEMMA EndReports ==
  ASSUME StreamInv, NEW f \in Flows, NEW t, Llm!At(t), Llm!Whole(f)
  PROVE  /\ Llm!Entry(f).totalToken > 0
         /\ Llm!ReportOf(Llm!Entry(f), t).ttft = Llm!Truth(f).ttft
         /\ Llm!ReportOf(Llm!Entry(f), t).tokens = Llm!Truth(f).tokens
         /\ Llm!Truth(f) \in Llm!Expected
<1>. DEFINE e == Llm!Entry(f)
            a == traffic[f]
<1>1. a.clean /\ a.req # Nil /\ a.first # Nil /\ a.tokens > 0
  BY DEF Llm!Whole
<1>2. a \in Llm!Traffic /\ Fits(e, a, now)
  BY EntryTyped DEF StreamInv
<1>3. /\ e.respFirstChunkedTime = a.first /\ e.reqTime = a.req
      /\ e.totalToken = a.tokens
      /\ a.req <= a.first
  BY <1>1, <1>2 DEF Fits
<1>4. a.first \in Llm!Times /\ a.req \in Llm!Times /\ a.tokens \in Llm!Tokens
  BY <1>1, <1>2 DEF Llm!Traffic
<1>5. Llm!Minus(a.first, a.req) = a.first - a.req
  BY <1>3, <1>4, NoWrap
<1>6. a.first - a.req \in 0..Word64 - 1
  <2>1. /\ a.first \in Nat /\ a.req \in Nat /\ a.first <= MaxTime
        /\ MaxTime \in Nat /\ Word64 \in Nat /\ MaxTime < Word64
    BY <1>4, LlmConstants
  <2>. QED
    BY <1>3, <2>1
<1>7. Llm!Truth(f) \in Llm!Expected
  BY <1>4, <1>6 DEF Llm!Truth, Llm!Expected
<1>8. QED
  BY <1>1, <1>3, <1>5, <1>7 DEF Llm!ReportOf, Llm!Truth

LEMMA LlmStep ==
  ASSUME StreamInv, Llm!Next
  PROVE  StreamInv' /\ Llm!ReportIsOfItsAnswer'
<1>1. CASE Llm!NotMine \/ Llm!PayloadFails
  <2>1. UNCHANGED <<httpStream, now, traffic>> /\ expected' = Nil
    BY <1>1 DEF Llm!NotMine, Llm!PayloadFails, Llm!Passes
  <2>2. \A f \in Flows : Llm!Entry(f)' = Llm!Entry(f)
    BY <2>1 DEF Llm!Entry, Llm!NoTime
  <2>3. QED
    BY <2>1, <2>2 DEF StreamInv, Llm!ReportIsOfItsAnswer
<1>2. ASSUME NEW f \in Flows, NEW t, Llm!OnParsePayload(f, t)
      PROVE  StreamInv' /\ Llm!ReportIsOfItsAnswer'
  <2>1. StreamInv'
    BY <1>2, RequestStep, NothingToCountStep, ChunkStep, EndStep, EndWithoutTokensStep
    DEF Llm!OnParsePayload
  <2>2. CASE \/ Llm!Request(f, t) \/ Llm!NothingToCount(f, t)
             \/ \E n \in LineLens :
                  \/ Llm!FirstChunk(f, t, n) \/ Llm!NextChunk(f, t, n)
                  \/ Llm!LastLine(f, t, n)
    <3>1. expected' = Nil
      BY <2>2 DEF Llm!Request, Llm!NothingToCount, Llm!FirstChunk, Llm!NextChunk,
                  Llm!LastLine, Llm!Passes
    <3>2. QED
      BY <2>1, <3>1 DEF Llm!ReportIsOfItsAnswer
  <2>3. CASE Llm!End(f, t)
    <3>1. /\ Llm!At(t) /\ report' = Llm!ReportOf(Llm!Entry(f), t)
          /\ Llm!Entry(f).totalToken > 0
          /\ expected' = IF Llm!Whole(f) THEN Llm!Truth(f) ELSE Nil
      BY <2>3 DEF Llm!End
    <3>2. report' # Nil
      BY <3>1, ReportTyped, LlmConstants
    <3>3. Llm!Whole(f) =>
            /\ expected' = Llm!Truth(f)
            /\ report'.ttft = Llm!Truth(f).ttft
            /\ report'.tokens = Llm!Truth(f).tokens
      BY <3>1, EndReports
    <3>4. QED
      BY <2>1, <3>1, <3>2, <3>3 DEF Llm!ReportIsOfItsAnswer
  <2>4. CASE Llm!EndWithoutTokens(f, t)
    <3>1. /\ Llm!At(t) /\ Llm!Entry(f).totalToken = 0
          /\ expected' = IF Llm!Whole(f) THEN Llm!Truth(f) ELSE Nil
      BY <2>4 DEF Llm!EndWithoutTokens
    <3>2. ~Llm!Whole(f)
      BY <3>1, EndReports
    <3>3. QED
      BY <2>1, <3>1, <3>2 DEF Llm!ReportIsOfItsAnswer
  <2>5. QED
    BY <1>2, <2>2, <2>3, <2>4 DEF Llm!OnParsePayload
<1>3. QED
  BY <1>1, <1>2 DEF Llm!Next

LEMMA LlmInit == Init => LlmInv
<1>. SUFFICES ASSUME Init, plugin = "llm"
              PROVE  StreamInv /\ Llm!ReportIsOfItsAnswer
  BY DEF LlmInv
<1>1. Llm!Init
  BY DEF Init
<1>2. \A f \in Flows : Llm!Entry(f) = Llm!NoTime /\ traffic[f] = Llm!Quiet
  BY <1>1 DEF Llm!Init, Llm!Entry
<1>3. QED
  BY <1>1, <1>2, LlmConstants, QuietIsTraffic, QuietFits
  DEF Llm!Init, StreamInv, Llm!ReportIsOfItsAnswer

LEMMA LlmNext == LlmInv /\ [Next]_vars => LlmInv'
<1>. SUFFICES ASSUME LlmInv, [Next]_vars, plugin' = "llm"
              PROVE  StreamInv' /\ Llm!ReportIsOfItsAnswer'
  BY DEF LlmInv
<1>1. CASE Next
  BY <1>1, OnlyOwnSteps, LlmStep DEF LlmInv
<1>2. CASE UNCHANGED vars
  <2>1. UNCHANGED <<plugin, httpStream, now, traffic, report, expected>>
    BY <1>2 DEF vars, llmVars
  <2>2. StreamInv /\ Llm!ReportIsOfItsAnswer
    BY <2>1 DEF LlmInv
  <2>3. \A f \in Flows : Llm!Entry(f)' = Llm!Entry(f)
    BY <2>1 DEF Llm!Entry, Llm!NoTime
  <2>4. QED
    BY <2>1, <2>2, <2>3 DEF StreamInv, Llm!ReportIsOfItsAnswer
<1>3. QED
  BY <1>1, <1>2

\* On any number of flows whose messages interleave and get lost, the end of an
\* answer that was seen reports its own delays and all its bytes
\* (llm.go:113-190).
THEOREM ReportsAreOfTheirAnswers == Spec => []ReportIsOfItsAnswer
<1>1. LlmInv /\ [Next]_vars => LlmInv'
  BY LlmNext
<1>2. LlmInv => ReportIsOfItsAnswer
  BY DEF LlmInv, ReportIsOfItsAnswer
<1>3. QED
  BY LlmInit, <1>1, <1>2, PTL DEF Spec

\* An entry that has counted something belongs to the answer under way on its
\* flow (llm.go:172, 195).
THEOREM EntriesAreAlwaysOpen == Spec => []EntriesAreOpen
<1>1. LlmInv /\ [Next]_vars => LlmInv'
  BY LlmNext
<1>2. LlmInv => EntriesAreOpen
  <2>. SUFFICES ASSUME StreamInv, NEW f \in Flows, httpStream[f] # Nil,
                       httpStream[f].flag = 1, traffic[f].clean
                PROVE  traffic[f].first = httpStream[f].respFirstChunkedTime
    BY DEF LlmInv, EntriesAreOpen, Llm!EntriesAreOpen
  <2>1. Llm!Entry(f) = httpStream[f]
    BY DEF Llm!Entry
  <2>2. Fits(httpStream[f], traffic[f], now)
    BY <2>1 DEF StreamInv
  <2>3. QED
    BY <2>2 DEF Fits
<1>3. QED
  BY LlmInit, <1>1, <1>2, PTL DEF Spec

------------------------------------------------------------------------------
(* Uprobe: what is cut out of a record, and which lengths panic.            *)

H == Uprobe!Half

RecordInv ==
  /\ rec \in Uprobe!Record /\ rec.have <= rec.cap
  /\ kind \in Uprobe!Kinds

UprobeInv ==
  plugin = "uprobe" =>
    RecordInv /\ Uprobe!KeyAndValueArrived /\ Uprobe!OnlyBadLengthsPanic

LEMMA UprobeConstants ==
  /\ Word32 \in Nat /\ MaxHave \in Nat /\ H \in Nat /\ Word32 = 2 * H /\ MaxHave + 32 < H
  /\ Lengths \subseteq 0..Word32 - 1
<1>1. /\ Word32 \in Nat /\ MaxHave \in Nat /\ Word32 = 2 * H /\ MaxHave + 32 < H
      /\ Lengths \subseteq 0..Word32 - 1
  BY ExamplesAssumption DEF Uprobe!UprobeAssumption, H
<1>2. H \in Nat
  BY <1>1 DEF H, Uprobe!Half
<1>3. QED
  BY <1>1, <1>2

\* What the sums of at most two lengths and the sixteen bytes become.
LEMMA WrapValues ==
  ASSUME NEW n \in Int
  PROVE  /\ 0 <= n /\ n < H => Uprobe!Wrap(n) = n
         /\ H <= n /\ n < Word32 => Uprobe!Wrap(n) = n - Word32
         /\ Word32 <= n /\ n < Word32 + H => Uprobe!Wrap(n) = n - Word32
         /\ -H <= n /\ n < 0 => Uprobe!Wrap(n) = n
<1>. USE UprobeConstants
<1>1. \A k \in Int : Uprobe!Signed(k) = IF k < H THEN k ELSE k - Word32
  BY DEF Uprobe!Signed, H
<1>2. Uprobe!Wrap(n) = Uprobe!Signed(n % Word32)
  BY DEF Uprobe!Wrap
<1>. HIDE DEF H
<1>3. CASE n \in 0..Word32 - 1
  <2>1. n % Word32 = n
    BY <1>3
  <2>2. QED
    BY <1>1, <1>2, <1>3, <2>1
<1>4. CASE n \in Word32..Word32 + H - 1
  <2>1. n % Word32 = n - Word32
    BY <1>4
  <2>2. QED
    BY <1>1, <1>2, <1>4, <2>1
<1>5. CASE -H <= n /\ n < 0
  <2>1. n % Word32 = n + Word32
    BY <1>5
  <2>2. QED
    BY <1>1, <1>2, <1>5, <2>1
<1>6. QED
  BY <1>3, <1>4, <1>5

LEMMA RecordTypes ==
  ASSUME RecordInv
  PROVE  /\ rec.have \in Nat /\ rec.cap \in Nat
         /\ rec.have <= MaxHave /\ rec.have <= rec.cap
         /\ rec.keyLen \in 0..Word32 - 1 /\ rec.valLen \in 0..Word32 - 1
         /\ Uprobe!keyLen = (IF rec.keyLen < H THEN rec.keyLen ELSE rec.keyLen - Word32)
         /\ Uprobe!valLen = (IF rec.valLen < H THEN rec.valLen ELSE rec.valLen - Word32)
<1>1. /\ rec.have \in 0..MaxHave /\ rec.cap \in 0..MaxHave + 1 /\ rec.have <= rec.cap
      /\ rec.keyLen \in Lengths /\ rec.valLen \in Lengths
  BY DEF RecordInv, Uprobe!Record
<1>2. rec.keyLen \in 0..Word32 - 1 /\ rec.valLen \in 0..Word32 - 1
  BY <1>1, UprobeConstants
<1>3. /\ Uprobe!keyLen = (IF rec.keyLen < H THEN rec.keyLen ELSE rec.keyLen - Word32)
      /\ Uprobe!valLen = (IF rec.valLen < H THEN rec.valLen ELSE rec.valLen - Word32)
  BY DEF Uprobe!keyLen, Uprobe!valLen, Uprobe!Signed, H
<1>4. /\ rec.have \in Nat /\ rec.cap \in Nat
      /\ rec.have <= MaxHave /\ rec.have <= rec.cap
  BY <1>1, UprobeConstants
<1>5. QED
  BY <1>2, <1>3, <1>4

\* Slices that Go accepts begin and end where the lengths of the record say
\* (go_http2_uprobe.go:168-171).
LEMMA SlicesAreTheLengths ==
  ASSUME RecordInv, Uprobe!HeaderFits,
         Uprobe!SliceOk(Uprobe!Key[1], Uprobe!Key[2]),
         Uprobe!SliceOk(Uprobe!Val[1], Uprobe!Val[2])
  PROVE  /\ Uprobe!Key = <<16, 16 + rec.keyLen>>
         /\ Uprobe!Val = <<16 + rec.keyLen, 16 + rec.keyLen + rec.valLen>>
         /\ 16 + rec.keyLen + rec.valLen <= rec.have
<1>. DEFINE k == rec.keyLen
            w == rec.valLen
            v == Uprobe!valLen
<1>. USE UprobeConstants
<1>1. k \in Int /\ 0 <= k /\ k < H /\ Uprobe!keyLen = k
  BY RecordTypes DEF Uprobe!HeaderFits
<1>2. w \in 0..Word32 - 1 /\ v = (IF w < H THEN w ELSE w - Word32)
  BY RecordTypes
<1>3. /\ Uprobe!Key = <<16, Uprobe!Wrap(16 + k)>>
      /\ Uprobe!Val = <<Uprobe!Wrap(16 + k), Uprobe!Wrap(16 + k + v)>>
  BY <1>1 DEF Uprobe!Key, Uprobe!Val
<1>4. /\ 16 <= Uprobe!Wrap(16 + k)
      /\ Uprobe!Wrap(16 + k) <= Uprobe!Wrap(16 + k + v)
      /\ Uprobe!Wrap(k + v + 16) <= rec.have
  BY <1>1, <1>3 DEF Uprobe!SliceOk, Uprobe!HeaderFits
<1>. HIDE DEF k, w, v
<1>5. 16 + k < H /\ Uprobe!Wrap(16 + k) = 16 + k
  <2>1. 16 + k \in Int /\ 16 + k \in 0..Word32 - 1
    BY <1>1
  <2>2. CASE 16 + k \in 0..H - 1
    BY <1>1, <2>2, WrapValues
  <2>3. CASE 16 + k \in H..Word32 - 1
    <3>. DEFINE n == 16 + k
    <3>1. n \in Int /\ H <= n /\ n < Word32
      BY <2>1, <2>3
    <3>. HIDE DEF n
    <3>2. Uprobe!Wrap(n) = n - Word32
      BY <3>1, WrapValues
    <3>3. 16 <= Uprobe!Wrap(n)
      BY <1>4 DEF n
    <3>4. QED
      BY <3>1, <3>2, <3>3
  <2>4. QED
    BY <1>1, <2>1, <2>2, <2>3
<1>6. v = w /\ 16 + k + w < H /\ Uprobe!Wrap(16 + k + w) = 16 + k + w
  <2>1. v \in Int /\ 16 + k + v \in Int
    BY <1>1, <1>2
  <2>2. CASE w >= H /\ 16 + k + v < 0
    <3>1. Uprobe!Wrap(16 + k + v) = 16 + k + v
      BY <1>1, <1>2, <2>1, <2>2, WrapValues
    <3>2. QED
      BY <1>1, <1>2, <1>4, <1>5, <2>2, <3>1
  <2>3. CASE w >= H /\ 16 + k + v >= 0
    <3>1. v < 0 /\ 16 + k + v \in 0..H - 1
      BY <1>1, <1>2, <1>5, <2>3
    <3>2. Uprobe!Wrap(16 + k + v) = 16 + k + v
      BY <2>1, <3>1, WrapValues
    <3>3. QED
      BY <1>1, <1>2, <1>4, <1>5, <3>1, <3>2
  <2>4. CASE w < H /\ 16 + k + w < H
    <3>1. v = w /\ 16 + k + w \in 0..H - 1
      BY <1>1, <1>2, <2>4
    <3>2. QED
      BY <2>1, <2>4, <3>1, WrapValues
  <2>5. CASE w < H /\ 16 + k + w >= H
    <3>. DEFINE n == 16 + k + w
    <3>1. v = w /\ n \in Int /\ H <= n /\ n < Word32
      BY <1>1, <1>2, <1>5, <2>5
    <3>2. 16 + k <= Uprobe!Wrap(n)
      BY <1>4, <1>5, <3>1
    <3>. HIDE DEF n
    <3>3. Uprobe!Wrap(n) = n - Word32
      BY <3>1, WrapValues
    <3>4. QED
      BY <1>1, <3>1, <3>2, <3>3
  <2>6. QED
    BY <1>1, <1>2, <2>1, <2>2, <2>3, <2>4, <2>5
<1>7. k + v + 16 = 16 + k + w
  BY <1>1, <1>2, <1>6
<1>8. 16 + k + w <= rec.have
  BY <1>4, <1>6, <1>7
<1>9. QED
  BY <1>3, <1>5, <1>6, <1>8 DEF k, w

\* Lengths whose sum does not reach the sign bit are what they seem.
LEMMA SmallLengths ==
  ASSUME RecordInv, rec.valLen < H, rec.keyLen + rec.valLen + 16 < H
  PROVE  /\ Uprobe!HeaderFits <=> rec.keyLen + rec.valLen + 16 <= rec.have
         /\ Uprobe!HeaderFits => /\ Uprobe!SliceOk(Uprobe!Key[1], Uprobe!Key[2])
                                 /\ Uprobe!SliceOk(Uprobe!Val[1], Uprobe!Val[2])
<1>. DEFINE k == rec.keyLen
            w == rec.valLen
<1>1. k \in Nat /\ w \in Nat /\ k + w + 16 < H /\ H \in Nat
  BY RecordTypes, UprobeConstants
<1>2. Uprobe!keyLen = k /\ Uprobe!valLen = w
  BY <1>1, RecordTypes
<1>3. /\ Uprobe!HeaderFits <=> k >= 0 /\ Uprobe!Wrap(k + w + 16) <= rec.have
      /\ Uprobe!Key = <<16, Uprobe!Wrap(16 + k)>>
      /\ Uprobe!Val = <<Uprobe!Wrap(16 + k), Uprobe!Wrap(16 + k + w)>>
  BY <1>2 DEF Uprobe!HeaderFits, Uprobe!Key, Uprobe!Val
<1>4. rec.have \in Nat /\ rec.cap \in Nat /\ rec.have <= rec.cap
  BY RecordTypes
<1>. HIDE DEF k, w
<1>5. Uprobe!Wrap(k + w + 16) = k + w + 16
  BY <1>1, WrapValues
<1>6. Uprobe!Wrap(16 + k) = 16 + k
  BY <1>1, WrapValues
<1>7. Uprobe!Wrap(16 + k + w) = 16 + k + w
  BY <1>1, WrapValues
<1>8. Uprobe!HeaderFits <=> k + w + 16 <= rec.have
  BY <1>1, <1>3, <1>5
<1>9. Uprobe!Key[1] = 16 /\ Uprobe!Key[2] = 16 + k
      /\ Uprobe!Val[1] = 16 + k /\ Uprobe!Val[2] = 16 + k + w
  BY <1>3, <1>6, <1>7
<1>10. Uprobe!HeaderFits => /\ Uprobe!SliceOk(Uprobe!Key[1], Uprobe!Key[2])
                            /\ Uprobe!SliceOk(Uprobe!Val[1], Uprobe!Val[2])
  BY <1>1, <1>4, <1>8, <1>9 DEF Uprobe!SliceOk
<1>11. QED
  BY <1>8, <1>10 DEF k, w

LEMMA HeaderStep ==
  ASSUME RecordInv, Uprobe!ParseHeader
  PROVE  Uprobe!KeyAndValueArrived' /\ Uprobe!OnlyBadLengthsPanic'
<1>1. kind = "header" /\ kind' = kind /\ rec' = rec
  BY DEF Uprobe!ParseHeader
<1>2. Uprobe!Half' = Uprobe!Half /\ H = Uprobe!Half
  BY DEF Uprobe!Half, H
<1>3. rec.keyLen \in Nat /\ rec.valLen \in Nat /\ rec.have \in Nat
      /\ rec.have <= MaxHave /\ H \in Nat /\ MaxHave \in Nat /\ MaxHave < H
  BY RecordTypes, UprobeConstants
<1>4. CASE /\ rec.have < 16 \/ ~Uprobe!HeaderFits
           /\ result' = Uprobe!Outcome("error")
  <2>1. rec.keyLen + rec.valLen + 16 > rec.have
    <3>1. CASE rec.have < 16
      BY <1>3, <3>1
    <3>2. CASE rec.valLen >= H \/ rec.keyLen + rec.valLen + 16 >= H
      BY <1>3, <3>2
    <3>3. CASE rec.valLen < H /\ rec.keyLen + rec.valLen + 16 < H /\ ~Uprobe!HeaderFits
      BY <1>3, <3>3, SmallLengths
    <3>4. QED
      BY <1>3, <1>4, <3>1, <3>2, <3>3
  <2>2. result'.tag = "error"
    BY <1>4 DEF Uprobe!Outcome
  <2>3. QED
    BY <1>1, <2>1, <2>2 DEF Uprobe!KeyAndValueArrived, Uprobe!OnlyBadLengthsPanic
<1>5. CASE /\ Uprobe!HeaderFits
           /\ ~ /\ Uprobe!SliceOk(Uprobe!Key[1], Uprobe!Key[2])
                /\ Uprobe!SliceOk(Uprobe!Val[1], Uprobe!Val[2])
           /\ result' = Uprobe!Outcome("trap")
  <2>1. rec.valLen >= H \/ rec.keyLen + rec.valLen + 16 >= H
    BY <1>3, <1>5, SmallLengths
  <2>2. result'.tag = "trap"
    BY <1>5 DEF Uprobe!Outcome
  <2>3. QED
    BY <1>1, <1>2, <2>1, <2>2 DEF Uprobe!KeyAndValueArrived, Uprobe!OnlyBadLengthsPanic
<1>6. ASSUME NEW tag \in {"header", "badStatus"}, Uprobe!HeaderFits,
             Uprobe!SliceOk(Uprobe!Key[1], Uprobe!Key[2]),
             Uprobe!SliceOk(Uprobe!Val[1], Uprobe!Val[2]),
             result' = [tag |-> tag, key |-> Uprobe!Key, val |-> Uprobe!Val]
      PROVE  Uprobe!KeyAndValueArrived' /\ Uprobe!OnlyBadLengthsPanic'
  <2>1. /\ result'.key = <<16, 16 + rec.keyLen>>
        /\ result'.val = <<16 + rec.keyLen, 16 + rec.keyLen + rec.valLen>>
        /\ 16 + rec.keyLen + rec.valLen <= rec.have
    BY <1>6, SlicesAreTheLengths
  <2>2. result'.val[2] <= rec.have
    BY <2>1
  <2>3. result'.tag \notin {"trap", "error"}
    BY <1>6
  <2>4. QED
    BY <1>1, <2>1, <2>2, <2>3 DEF Uprobe!KeyAndValueArrived, Uprobe!OnlyBadLengthsPanic
<1>7. QED
  BY <1>4, <1>5, <1>6 DEF Uprobe!ParseHeader

\* A data record is cut out up to the end of the payload, which is always there
\* (go_http2_uprobe.go:181-192).
LEMMA DataStep ==
  ASSUME RecordInv, Uprobe!ParseData
  PROVE  Uprobe!KeyAndValueArrived' /\ Uprobe!OnlyBadLengthsPanic'
<1>1. kind = "data" /\ kind' = kind
  BY DEF Uprobe!ParseData
<1>2. rec.have \in Nat /\ rec.cap \in Nat /\ rec.have <= rec.cap
  BY RecordTypes
<1>3. Uprobe!DataLongEnough => Uprobe!SliceOk(Uprobe!Data[1], Uprobe!Data[2])
  BY <1>2 DEF Uprobe!DataLongEnough, Uprobe!SliceOk, Uprobe!Data
<1>4. result'.tag \in {"error", "data", "undecodable"}
  BY <1>3 DEF Uprobe!ParseData, Uprobe!Outcome
<1>5. QED
  BY <1>1, <1>4 DEF Uprobe!KeyAndValueArrived, Uprobe!OnlyBadLengthsPanic

LEMMA UprobeInit == Init => UprobeInv
<1>. SUFFICES ASSUME Init, plugin = "uprobe"
              PROVE  /\ RecordInv
                     /\ Uprobe!KeyAndValueArrived /\ Uprobe!OnlyBadLengthsPanic
  BY DEF UprobeInv
<1>1. Uprobe!Init
  BY DEF Init
<1>2. RecordInv
  <2>1. rec \in Uprobe!Record /\ rec.cap \in rec.have..rec.have + 1
    BY <1>1 DEF Uprobe!Init
  <2>2. rec.have \in 0..MaxHave
    BY <2>1 DEF Uprobe!Record
  <2>3. rec.have <= rec.cap
    BY <2>1, <2>2, UprobeConstants
  <2>4. QED
    BY <1>1, <2>1, <2>3 DEF RecordInv, Uprobe!Init
<1>3. result.tag = "running"
  BY <1>1 DEF Uprobe!Init, Uprobe!Outcome
<1>4. QED
  BY <1>2, <1>3 DEF Uprobe!KeyAndValueArrived, Uprobe!OnlyBadLengthsPanic

LEMMA UprobeNext == UprobeInv /\ [Next]_vars => UprobeInv'
<1>. SUFFICES ASSUME UprobeInv, [Next]_vars, plugin' = "uprobe"
              PROVE  /\ RecordInv'
                     /\ Uprobe!KeyAndValueArrived' /\ Uprobe!OnlyBadLengthsPanic'
  BY DEF UprobeInv
<1>1. CASE Next
  <2>1. RecordInv /\ Uprobe!Next
    BY <1>1, OnlyOwnSteps DEF UprobeInv
  <2>2. UNCHANGED <<kind, rec>>
    BY <2>1 DEF Uprobe!Next, Uprobe!PayloadFails, Uprobe!ParseHeader,
                Uprobe!ParseData, Uprobe!NotOurs, Uprobe!NoSuchRecord, Uprobe!Passes
  <2>3. RecordInv'
    BY <2>1, <2>2 DEF RecordInv, Uprobe!Record
  <2>4. CASE Uprobe!PayloadFails \/ Uprobe!NotOurs \/ Uprobe!NoSuchRecord
    <3>1. result'.tag \in {"unread", "next"}
      BY <2>4 DEF Uprobe!PayloadFails, Uprobe!NotOurs, Uprobe!NoSuchRecord, Uprobe!Passes,
                  Uprobe!Outcome
    <3>2. QED
      BY <2>3, <3>1 DEF Uprobe!KeyAndValueArrived, Uprobe!OnlyBadLengthsPanic
  <2>5. CASE Uprobe!ParseHeader \/ Uprobe!ParseData
    BY <2>1, <2>3, <2>5, HeaderStep, DataStep
  <2>6. QED
    BY <2>1, <2>4, <2>5 DEF Uprobe!Next
<1>2. CASE UNCHANGED vars
  <2>1. UNCHANGED <<plugin, kind, rec, result>>
    BY <1>2 DEF vars, uprobeVars
  <2>2. RecordInv /\ Uprobe!KeyAndValueArrived /\ Uprobe!OnlyBadLengthsPanic
    BY <2>1 DEF UprobeInv
  <2>3. QED
    BY <2>1, <2>2 DEF RecordInv, Uprobe!Record, Uprobe!KeyAndValueArrived,
                      Uprobe!OnlyBadLengthsPanic, Uprobe!Half
<1>3. QED
  BY <1>1, <1>2

\* For every pair of 32-bit lengths, a key and a value that are reported are
\* the bytes behind the sixteen of the record, and they arrived
\* (go_http2_uprobe.go:164-171).
THEOREM KeysAndValuesAlwaysArrived == Spec => []KeyAndValueArrived
<1>1. UprobeInv /\ [Next]_vars => UprobeInv'
  BY UprobeNext
<1>2. UprobeInv => KeyAndValueArrived
  BY DEF UprobeInv, KeyAndValueArrived
<1>3. QED
  BY UprobeInit, <1>1, <1>2, PTL DEF Spec

\* For every pair of 32-bit lengths, only those beyond the sign bit panic and
\* none that fit are refused (go_http2_uprobe.go:165-192).
THEOREM OnlyBadLengthsEverPanic == Spec => []OnlyBadLengthsPanic
<1>1. UprobeInv /\ [Next]_vars => UprobeInv'
  BY UprobeNext
<1>2. UprobeInv => OnlyBadLengthsPanic
  BY DEF UprobeInv, OnlyBadLengthsPanic
<1>3. QED
  BY UprobeInit, <1>1, <1>2, PTL DEF Spec

------------------------------------------------------------------------------
(* Failures: of HTTP bodies, of krpc headers and of Dubbo values.           *)

RewriteInv ==
  plugin = "rewrite" =>
    /\ code \in HttpCodes
    /\ Rewrite!FailuresSurface

FlowFailuresInv == plugin = "flow" => Flow!FailuresSurface

MessageInv ==
  plugin = "message" => message \in Message!Messages /\ Message!FailuresSurface

\* What the body tells of is what the plugin finds in it.
LEMMA ToldIsFound ==
  ASSUME Rewrite!Next, NEW w \in Failures \cup {"SUCCESS"}, Rewrite!Told(w)
  PROVE  Rewrite!Rewritten /\ Rewrite!status = w
<1>1. /\ w \notin {Nil, "number", ""} /\ Nil # "number"
      /\ body.written = w /\ body.arrived # "empty"
  BY ExamplesAssumption DEF Rewrite!RewriteAssumption, Rewrite!Told
<1>2. CASE body.arrived = "whole"
  <2>1. Rewrite!FromJson = w
    BY <1>1, <1>2 DEF Rewrite!FromJson
  <2>2. ~Rewrite!Scans /\ Rewrite!FromJson # "number" /\ Rewrite!status = w
    BY <1>1, <2>1 DEF Rewrite!Scans, Rewrite!status
  <2>. QED
    BY <1>1, <2>2 DEF Rewrite!Next, Rewrite!NoBody, Rewrite!NotAString, Rewrite!NotOurs
<1>3. CASE body.arrived = "closed" /\ body.starts
  <2>1. Rewrite!FromJson = Nil /\ Rewrite!Scans /\ Rewrite!HasStart
    BY <1>3 DEF Rewrite!FromJson, Rewrite!Scans, Rewrite!HasStart
  <2>2. Rewrite!status = w
    BY <1>1, <1>3, <2>1 DEF Rewrite!status, Rewrite!Scanned
  <2>3. ~Rewrite!NoBody /\ ~Rewrite!NotAString /\ ~Rewrite!NotOurs
    BY <1>1, <2>1 DEF Rewrite!NoBody, Rewrite!NotAString, Rewrite!NotOurs
  <2>. QED
    BY <2>2, <2>3 DEF Rewrite!Next
<1>4. QED
  BY <1>2, <1>3 DEF Rewrite!Told

LEMMA RewriteStep ==
  ASSUME code \in HttpCodes, Rewrite!Next
  PROVE  code' = code /\ Rewrite!FailuresSurface'
<1>1. UNCHANGED <<code, body>>
  BY DEF Rewrite!Next, Rewrite!NoBody, Rewrite!NotAString, Rewrite!NotOurs,
         Rewrite!Rewritten, Rewrite!NormalResp
<1>2. code \in Nat /\ "SUCCESS" \notin Failures
  BY ExamplesAssumption DEF Rewrite!RewriteAssumption
<1>. DEFINE R == Rewrite!Rewrite(code)
<1>3. R \in Nat /\ (code >= 200 /\ code < 300 => R = 500)
  BY <1>2 DEF Rewrite!Rewrite
<1>. HIDE DEF R
<1>4. \E c \in {code, R}, withBody \in BOOLEAN : report' = Rewrite!Report(c, withBody)
  BY DEF Rewrite!Next, Rewrite!NoBody, Rewrite!NotAString, Rewrite!NotOurs,
         Rewrite!Rewritten, Rewrite!NormalResp, R
<1>5. ASSUME NEW w \in Failures, Rewrite!Told(w)
      PROVE  report'.result /\ report'.code = R
  <2>1. report' = Rewrite!Report(R, TRUE)
    BY <1>2, <1>5, ToldIsFound DEF Rewrite!Rewritten, R
  <2>. QED
    BY <2>1 DEF Rewrite!Report
<1>6. ASSUME Rewrite!Told("SUCCESS")
      PROVE  ~report'.result /\ report'.code = code
  <2>1. report' = Rewrite!Report(code, FALSE)
    BY <1>6, ToldIsFound DEF Rewrite!Rewritten
  <2>. QED
    BY <2>1 DEF Rewrite!Report
<1>7. /\ report'.status = "ok" <=> report'.code >= 200 /\ report'.code < 400
      /\ report'.status = "client_error" <=> report'.code >= 400 /\ report'.code < 500
  <2>1. PICK c \in {code, R} : report'.code = c /\ report'.status = Rewrite!getStatus(c)
    BY <1>4 DEF Rewrite!Report
  <2>2. c \in Nat
    BY <1>2, <1>3
  <2>. QED
    BY <2>1, <2>2 DEF Rewrite!getStatus
<1>8. \A w : Rewrite!Told(w)' = Rewrite!Told(w)
  BY <1>1 DEF Rewrite!Told
<1>9. QED
  BY <1>1, <1>3, <1>5, <1>6, <1>7, <1>8 DEF Rewrite!FailuresSurface

LEMMA FlowFailuresStep ==
  ASSUME Flow!Next
  PROVE  Flow!FailuresSurface'
<1>1. ASSUME NEW p, Flow!Check(p) \/ Flow!NotMine(p)
      PROVE  Flow!FailuresSurface'
  BY <1>1 DEF Flow!Check, Flow!NotMine, Flow!Outcome, Flow!FailuresSurface
<1>2. ASSUME NEW p \in Flow!Packets, Flow!Parse(p)
      PROVE  Flow!FailuresSurface'
  <2>1. packet' = p /\ report' = Flow!OnParsePayload(p, Flow!Direction(p))
    BY <1>2 DEF Flow!Parse
  <2>2. CASE p.plugin = "krpc" /\ report'.tag = "info" /\ Flow!Direction(p) # "req"
    <3>1. report'.code = Flow!retCode(p) /\ report'.status = Flow!Status(Flow!retCode(p))
      BY <2>1, <2>2 DEF Flow!OnParsePayload, Flow!KrpcParse, Flow!Outcome
    <3>2. QED
      BY <2>1, <3>1 DEF Flow!FailuresSurface, Flow!retCode, Flow!Status
  <2>3. CASE p.plugin = "krpc" /\ report'.tag = "info" /\ Flow!Direction(p) = "req"
    <3>1. report'.side = "req"
      BY <2>1, <2>3 DEF Flow!OnParsePayload, Flow!KrpcParse, Flow!Outcome
    <3>2. QED
      BY <3>1 DEF Flow!FailuresSurface
  <2>4. QED
    BY <2>1, <2>2, <2>3 DEF Flow!FailuresSurface
<1>3. QED
  BY <1>1, <1>2 DEF Flow!Next

LEMMA DubboStep ==
  ASSUME message \in Message!Messages, Message!Next
  PROVE  message' = message /\ Message!FailuresSurface'
<1>1. message' = message
  BY DEF Message!Next, Message!OnCustomReq, Message!EmptyValue, Message!OnCustomResp,
         Message!onZMTPMessage, Message!OnHttpReq, Message!OnHttpResp, Message!Return
<1>. SUFFICES ASSUME message.plugin = "dubbo", report'.tag = "info"
              PROVE  Message!FailuresSurface'
  BY <1>1 DEF Message!FailuresSurface
<1>2. Message!OnCustomResp
  BY DEF Message!Next, Message!OnCustomReq, Message!EmptyValue, Message!onZMTPMessage,
         Message!OnHttpReq, Message!OnHttpResp, Message!Return, Message!Outcome
<1>. DEFINE c == IF Message!Exists(message, message.code) THEN Message!GetInt(message)
                 ELSE 0
<1>3. report'.code = c /\ report'.status = Message!DubboStatus(c)
  BY <1>2 DEF Message!OnCustomResp, Message!Return
<1>4. 0 \in BodyCodes /\ BodyCodes \subseteq Int /\ Nil \notin BodyCodes
  BY ExamplesAssumption DEF Message!MessageAssumption
<1>5. c \in Int
  BY <1>4 DEF Message!GetInt
<1>6. message.json /\ message.code \in BodyCodes => c = message.code
  BY <1>4 DEF Message!Exists, Message!GetInt
<1>. HIDE DEF c
<1>7. /\ (report'.status = "server_error") = (c >= 500)
      /\ (report'.status = "client_error") = (c \in 400..499)
  BY <1>3, <1>5 DEF Message!DubboStatus
<1>8. QED
  BY <1>1, <1>3, <1>6, <1>7 DEF Message!FailuresSurface

LEMMA FailuresInit == Init => RewriteInv /\ FlowFailuresInv /\ MessageInv
<1>. SUFFICES ASSUME Init PROVE RewriteInv /\ FlowFailuresInv /\ MessageInv
  OBVIOUS
<1>1. RewriteInv
  BY DEF Init, Rewrite!Init, RewriteInv, Rewrite!FailuresSurface
<1>2. FlowFailuresInv
  BY DEF Init, Flow!Init, Flow!Outcome, FlowFailuresInv, Flow!FailuresSurface
<1>3. MessageInv
  BY DEF Init, Message!Init, MessageInv, Message!FailuresSurface
<1>4. QED
  BY <1>1, <1>2, <1>3

LEMMA FailuresNext ==
  RewriteInv /\ FlowFailuresInv /\ MessageInv /\ [Next]_vars
    => (RewriteInv /\ FlowFailuresInv /\ MessageInv)'
<1>. SUFFICES ASSUME RewriteInv, FlowFailuresInv, MessageInv, [Next]_vars
              PROVE  RewriteInv' /\ FlowFailuresInv' /\ MessageInv'
  OBVIOUS
<1>1. CASE Next
  <2>1. RewriteInv'
    BY <1>1, OnlyOwnSteps, RewriteStep DEF RewriteInv
  <2>2. FlowFailuresInv'
    BY <1>1, OnlyOwnSteps, FlowFailuresStep DEF FlowFailuresInv
  <2>3. MessageInv'
    <3>1. CASE plugin = "message"
      <4>1. message' = message /\ Message!FailuresSurface' /\ message \in Message!Messages
        BY <1>1, <3>1, OnlyOwnSteps, DubboStep DEF MessageInv
      <4>2. Message!Messages' = Message!Messages
        BY DEF Message!Messages, Message!DubboMessage, Message!ZmtpMessage,
               Message!HttpReq, Message!HttpResp
      <4>3. QED
        BY <4>1, <4>2 DEF MessageInv
    <3>2. CASE plugin # "message"
      BY <1>1, <3>2, OnlyOwnSteps DEF MessageInv
    <3>3. QED
      BY <3>1, <3>2
  <2>4. QED
    BY <2>1, <2>2, <2>3
<1>2. CASE UNCHANGED vars
  <2>1. UNCHANGED <<plugin, code, body, report, packet, message>>
    BY <1>2 DEF vars, rewriteVars, flowVars
  <2>2. RewriteInv'
    BY <2>1 DEF RewriteInv, Rewrite!FailuresSurface, Rewrite!Told
  <2>3. FlowFailuresInv'
    BY <2>1 DEF FlowFailuresInv, Flow!FailuresSurface
  <2>4. MessageInv'
    BY <2>1 DEF MessageInv, Message!FailuresSurface, Message!Messages,
                Message!DubboMessage, Message!ZmtpMessage, Message!HttpReq,
                Message!HttpResp
  <2>5. QED
    BY <2>2, <2>3, <2>4
<1>3. QED
  BY <1>1, <1>2

\* Whatever the codes: a failure told by an HTTP body goes out with that body,
\* from a 2xx as a 500, and every HTTP code with the status it has, so that the
\* failure of a code outside 2xx keeps code and status
\* (http_status_rewrite.go:165-189); a krpc code that arrived is reported, as an
\* error unless it is 0 (krpc.go:75-79), and so is the code in a Dubbo value,
\* as an error from 400 on (dubbo.go:79-89).
THEOREM FailuresAlwaysSurface == Spec => []FailuresSurface
<1>. DEFINE I == RewriteInv /\ FlowFailuresInv /\ MessageInv
<1>1. Init => I
  BY FailuresInit
<1>2. I /\ [Next]_vars => I'
  BY FailuresNext
<1>3. I => FailuresSurface
  BY DEF RewriteInv, FlowFailuresInv, MessageInv, FailuresSurface
<1>4. QED
  BY <1>1, <1>2, <1>3, PTL DEF Spec

------------------------------------------------------------------------------
(* The generator: the package of a reference is the longest beginning of    *)
(* its name that is one, for a declared name is none.                       *)

LEMMA BeginningOf ==
  ASSUME NEW S, NEW s \in Seq(S), NEW n \in 0..Len(s)
  PROVE  /\ SubSeq(s, 1, n) \in Seq(S)
         /\ Len(SubSeq(s, 1, n)) = n
         /\ \A k \in 1..n : SubSeq(s, 1, n)[k] = s[k]
OBVIOUS

LEMMA BeginningOfBeginning ==
  ASSUME NEW S, NEW s \in Seq(S), NEW n \in 0..Len(s), NEW m \in 0..n
  PROVE  SubSeq(SubSeq(s, 1, n), 1, m) = SubSeq(s, 1, m)
<1> DEFINE t == SubSeq(s, 1, n)
           u == SubSeq(t, 1, m)
           v == SubSeq(s, 1, m)
<1>0. m \in 0..Len(s) /\ \A k \in 1..m : k \in 1..n
  OBVIOUS
<1>1. t \in Seq(S) /\ Len(t) = n /\ \A k \in 1..n : t[k] = s[k]
  BY BeginningOf
<1>2. u \in Seq(S) /\ Len(u) = m /\ \A k \in 1..m : u[k] = t[k]
  BY <1>1, BeginningOf
<1>3. v \in Seq(S) /\ Len(v) = m /\ \A k \in 1..m : v[k] = s[k]
  BY <1>0, BeginningOf
<1> HIDE DEF t, u, v
<1>4. \A k \in 1..Len(u) : u[k] = v[k]
  BY <1>0, <1>1, <1>2, <1>3
<1>5. u = v
  BY <1>2, <1>3, <1>4, SeqEqual
<1> QED BY <1>5 DEF u, v, t

\* The beginning of a concatenation that goes into its second part.
LEMMA BeginningOfWhole ==
  ASSUME NEW S, NEW s \in Seq(S), NEW t \in Seq(S), NEW n \in 0..Len(t)
  PROVE  SubSeq(s \o t, 1, Len(s) + n) = s \o SubSeq(t, 1, n)
<1> DEFINE w == s \o t
           p == SubSeq(t, 1, n)
           u == SubSeq(w, 1, Len(s) + n)
           v == s \o p
           m == Len(s)
<1>0. n \in Nat /\ m \in Nat /\ Len(t) \in Nat /\ n <= Len(t)
  OBVIOUS
<1>1. /\ w \in Seq(S) /\ Len(w) = m + Len(t)
      /\ \A k \in 1..m + Len(t) : w[k] = IF k <= m THEN s[k] ELSE t[k - m]
  BY ConcatProperties
<1>2. p \in Seq(S) /\ Len(p) = n /\ \A k \in 1..n : p[k] = t[k]
  BY BeginningOf
<1>3. u \in Seq(S) /\ Len(u) = m + n /\ \A k \in 1..m + n : u[k] = w[k]
  <2> HIDE DEF w
  <2>1. m + n \in 0..Len(w)
    BY <1>0, <1>1
  <2> QED BY <2>1, <1>1, BeginningOf
<1>4. /\ v \in Seq(S) /\ Len(v) = m + n
      /\ \A k \in 1..m + n : v[k] = IF k <= m THEN s[k] ELSE p[k - m]
  <2> HIDE DEF p
  <2> QED BY <1>2, ConcatProperties
<1> HIDE DEF w, p, u, v, m
<1>5. ASSUME NEW k \in 1..Len(u) PROVE u[k] = v[k]
  <2>1. k \in 1..m + n /\ k \in 1..m + Len(t) /\ (~(k <= m) => k - m \in 1..n)
    BY <1>0, <1>3
  <2>2. u[k] = IF k <= m THEN s[k] ELSE t[k - m]
    BY <2>1, <1>1, <1>3, Zenon
  <2>3. v[k] = IF k <= m THEN s[k] ELSE p[k - m]
    BY <2>1, <1>4, Zenon
  <2>4. CASE k <= m
    BY <2>2, <2>3, <2>4
  <2>5. CASE ~(k <= m)
    <3>1. p[k - m] = t[k - m]
      BY <2>1, <2>5, <1>2, Zenon
    <3> QED BY <3>1, <2>2, <2>3, <2>5
  <2> QED BY <2>4, <2>5, Zenon
<1>6. u = v
  BY <1>3, <1>4, <1>5, SeqEqual
<1> QED BY <1>6 DEF u, v, w, p, m

\* One place further: what was left begins with it.
LEMMA OneFurther ==
  ASSUME NEW S, NEW s \in Seq(S), NEW n \in 0..Len(s) - 1
  PROVE  /\ SubSeq(s, n + 1, Len(s)) # <<>>
         /\ Append(SubSeq(s, 1, n), Head(SubSeq(s, n + 1, Len(s)))) = SubSeq(s, 1, n + 1)
         /\ Tail(SubSeq(s, n + 1, Len(s))) = SubSeq(s, (n + 1) + 1, Len(s))
<1> DEFINE p == SubSeq(s, 1, n)
           r == SubSeq(s, n + 1, Len(s))
           q == SubSeq(s, 1, n + 1)
<1>0. /\ n \in Nat /\ Len(s) \in Nat /\ n \in 0..Len(s) /\ n + 1 \in 1..Len(s)
      /\ Len(s) \in n + 1 .. Len(s) /\ n + 1 \in 1..n + 1 /\ (n + 1) - 1 = n
  OBVIOUS
<1>1. Head(r) = s[n + 1] /\ Tail(r) = SubSeq(s, (n + 1) + 1, Len(s))
  BY <1>0, HeadTailOfSubSeq, Zenon
<1>2. q = SubSeq(s, 1, n) \o <<s[n + 1]>>
  <2>1. 1 \in 1..Len(s) /\ n + 1 \in 1..Len(s)
    BY <1>0
  <2>2. q = SubSeq(s, 1, (n + 1) - 1) \o <<s[n + 1]>>
    BY <2>1, SubSeqRecursiveSecond
  <2> QED BY <2>2, <1>0, Zenon
<1>3. s[n + 1] \in S /\ p \in Seq(S)
  BY <1>0, ElementOfSeq, BeginningOf
<1>4. Append(p, s[n + 1]) = p \o <<s[n + 1]>>
  BY <1>3, AppendIsConcat, Zenon
<1>5. r # <<>>
  <2>1. Len(r) = Len(s) - n
    BY <1>0
  <2>2. Len(r) # 0
    <3> HIDE DEF r
    <3> QED BY <2>1, <1>0
  <2> QED BY <2>2, EmptySeq, Zenon
<1> QED BY <1>1, <1>2, <1>4, <1>5, Zenon

\* With a nested message all those around it are declared.
LEMMA OuterMessages ==
  ASSUME NEW M, M \subseteq Seq(STRING) \ {<<>>},
         \A x \in M : Len(x) > 1 => Gen!Front(x) \in M,
         NEW m \in M, NEW n \in 1..Len(m)
  PROVE  SubSeq(m, 1, n) \in M
<1> DEFINE T == {k \in Nat : k < Len(m) => SubSeq(m, 1, Len(m) - k) \in M}
<1>0. m \in Seq(STRING) /\ Len(m) \in Nat /\ n \in Nat
  OBVIOUS
<1>1. 0 \in T
  <2>1. SubSeq(m, 1, Len(m)) = m
    BY <1>0
  <2>2. Len(m) - 0 = Len(m)
    BY <1>0
  <2>3. SubSeq(m, 1, Len(m) - 0) \in M
    BY <2>1, <2>2, Zenon
  <2> QED BY <2>3
<1>2. ASSUME NEW k \in Nat, k \in T PROVE k + 1 \in T
  <2> SUFFICES ASSUME k + 1 < Len(m) PROVE SubSeq(m, 1, Len(m) - (k + 1)) \in M
    OBVIOUS
  <2> DEFINE j == Len(m) - k
             x == SubSeq(m, 1, j)
  <2>1. j \in 0..Len(m) /\ j - 1 \in 0..j /\ j > 1 /\ Len(m) - (k + 1) = j - 1
    BY <1>0
  <2>2. x \in M
    BY <1>0, <1>2
  <2> HIDE DEF j
  <2>3. Len(x) = j
    BY <1>0, <2>1, BeginningOf
  <2>4. Gen!Front(x) \in M
    <3> HIDE DEF x
    <3> QED BY <2>1, <2>2, <2>3
  <2>5. Gen!Front(x) = SubSeq(x, 1, j - 1)
    <3> HIDE DEF x
    <3> QED BY <2>3 DEF Gen!Front
  <2>6. SubSeq(x, 1, j - 1) = SubSeq(m, 1, j - 1)
    BY <1>0, <2>1, BeginningOfBeginning
  <2> QED BY <2>1, <2>4, <2>5, <2>6
<1>3. \A k \in Nat : k \in T
  <2> HIDE DEF T
  <2> QED BY <1>1, <1>2, NaturalInduction
<1>4. Len(m) - n \in Nat /\ Len(m) - n < Len(m) /\ Len(m) - (Len(m) - n) = n
  BY <1>0
<1> QED BY <1>3, <1>4

Home == files[ref.file]

\* What protoc accepted, and a reference into it.
RefInv ==
  /\ files \in FileLists /\ Gen!Legal(files)
  /\ ref.file \in DOMAIN files /\ ref.message \in Home.messages

\* No beginning longer than the package tried is a package.
TryInv ==
  /\ pkgpath = SubSeq(Gen!Name, 1, Len(pkgpath))
  /\ Len(pkgpath) \in 0..Len(Gen!Name) - 1
  /\ pc = "package" =>
       /\ path = Gen!Name /\ d = <<>> /\ fd = Nil
       /\ Len(pkgpath) = 0 => Len(Gen!Name) = 1
       /\ \A n \in Len(pkgpath) + 1 .. Len(Gen!Name) - 1 :
            Gen!InPackage(SubSeq(Gen!Name, 1, n)) = {}

\* The first file of the package, and how far the message is looked up there.
Found ==
  /\ fd \in DOMAIN files /\ fd <= ref.file
  /\ files[fd].package = Home.package
  /\ Len(d) \in 0..Len(ref.message)
  /\ d = SubSeq(ref.message, 1, Len(d))
  /\ path = SubSeq(ref.message, Len(d) + 1, Len(ref.message))
  /\ d # <<>> => d \in files[fd].messages

Excused ==
  \/ \E k \in 1..ref.file - 1 : files[k].package = Home.package
  \/ Home.package = <<>> /\ Len(ref.message) > 1
  \/ Len(Home.goPackage) > 2

SearchInv ==
  /\ RefInv /\ TryInv
  /\ pc \in {"package", "message", "done", "fatal"}
  /\ pc \in {"message", "done"} => Found
  /\ pc = "done" => Len(d) = Len(ref.message)
  /\ pc = "fatal" => (fd = Nil \/ Found) /\ Excused

GenInv == plugin = "generator" => SearchInv

LEMMA NamesAreTyped ==
  ASSUME RefInv
  PROVE  /\ Len(files) \in Nat /\ DOMAIN files = 1..Len(files)
         /\ \A k \in DOMAIN files :
              /\ files[k].package \in Seq(STRING)
              /\ files[k].messages \subseteq Seq(STRING) \ {<<>>}
              /\ \A x \in files[k].messages : Len(x) > 1 => Gen!Front(x) \in files[k].messages
         /\ Home.package \in Seq(STRING) /\ Len(Home.package) \in Nat
         /\ ref.message \in Seq(STRING) /\ Len(ref.message) \in Nat \ {0}
         /\ Gen!Name = Home.package \o ref.message
         /\ Gen!Name \in Seq(STRING) /\ Len(Gen!Name) \in Nat
         /\ Len(Gen!Name) = Len(Home.package) + Len(ref.message)
         /\ Gen!Front(Gen!Name) = SubSeq(Gen!Name, 1, Len(Gen!Name) - 1)
         /\ Home.package = SubSeq(Gen!Name, 1, Len(Home.package))
         /\ ref.message = SubSeq(Gen!Name, Len(Home.package) + 1, Len(Gen!Name))
<1> DEFINE N == Gen!Name
           p == Home.package
           m == ref.message
<1>1. files \in Seq(Gen!File)
  BY ExamplesAssumption DEF Gen!GenAssumption, RefInv
<1>2. Len(files) \in Nat /\ DOMAIN files = 1..Len(files)
  BY <1>1
<1>3. ASSUME NEW k \in DOMAIN files
      PROVE  /\ files[k].package \in Seq(STRING)
             /\ files[k].messages \subseteq Seq(STRING) \ {<<>>}
             /\ \A x \in files[k].messages : Len(x) > 1 => Gen!Front(x) \in files[k].messages
  <2>1. files[k] \in Gen!File
    BY <1>1, <1>2, ElementOfSeq
  <2>2. /\ files[k].package \in Seq(STRING)
        /\ files[k].messages \subseteq Seq(STRING) \ {<<>>}
    BY <2>1 DEF Gen!File
  <2>3. \A x \in files[k].messages : Len(x) > 1 => Gen!Front(x) \in files[k].messages
    BY DEF RefInv, Gen!Legal
  <2> QED BY <2>2, <2>3
<1>4. ref.file \in DOMAIN files /\ m \in Home.messages
  BY DEF RefInv
<1>5. p \in Seq(STRING) /\ m \in Seq(STRING) /\ m # <<>>
  BY <1>3, <1>4 DEF Home
<1>6. Len(p) \in Nat /\ Len(m) \in Nat \ {0}
  BY <1>5, EmptySeq, LenProperties
<1>7. N = p \o m
  BY DEF Gen!Name, Gen!FullName, Home
<1> HIDE DEF N, p, m
<1>8. N \in Seq(STRING) /\ Len(N) \in Nat /\ Len(N) = Len(p) + Len(m)
  BY <1>5, <1>7, ConcatProperties, LenProperties
<1>9. Gen!Front(N) = SubSeq(N, 1, Len(N) - 1)
  BY DEF Gen!Front
<1>10. p = SubSeq(N, 1, Len(p))
  <2>1. SubSeq(p \o m, 1, Len(p) + 0) = p \o SubSeq(m, 1, 0)
    BY <1>5, <1>6, BeginningOfWhole
  <2>2. SubSeq(m, 1, 0) = <<>> /\ Len(p) + 0 = Len(p)
    BY <1>5, <1>6
  <2>3. p \o <<>> = p
    BY <1>5, ConcatEmptySeq
  <2> QED BY <1>7, <2>1, <2>2, <2>3, Zenon
<1>11. m = SubSeq(N, Len(p) + 1, Len(N))
  <2>1. /\ Len(p) + 1 \in Len(p) + 1 .. Len(p) + Len(m)
        /\ Len(p) + Len(m) \in Len(p) + 1 .. Len(p) + Len(m)
        /\ (Len(p) + 1) - Len(p) = 1 /\ (Len(p) + Len(m)) - Len(p) = Len(m)
    BY <1>6
  <2>2. SubSeq(p \o m, Len(p) + 1, Len(p) + Len(m))
          = SubSeq(m, (Len(p) + 1) - Len(p), (Len(p) + Len(m)) - Len(p))
    BY <2>1, <1>5, SubSeqOfConcat2
  <2>3. SubSeq(m, 1, Len(m)) = m
    BY <1>5, SubSeqFull
  <2> QED BY <1>7, <1>8, <2>1, <2>2, <2>3, Zenon
<1> QED BY <1>2, <1>3, <1>5, <1>6, <1>7, <1>8, <1>9, <1>10, <1>11 DEF N, p, m

LEMMA RefStays ==
  ASSUME RefInv, UNCHANGED <<files, ref>>
  PROVE  /\ RefInv' /\ Gen!Name' = Gen!Name /\ Home' = Home
         /\ \A p : Gen!InPackage(p)' = Gen!InPackage(p)
<1>1. files' = files /\ ref' = ref
  OBVIOUS
<1>2. Gen!Name' = Gen!Name /\ Home' = Home
  BY <1>1 DEF Gen!Name, Gen!FullName, Home
<1>3. Gen!Legal(files)'
  <2>1. Gen!Legal(files)
    BY DEF RefInv
  <2> QED BY <1>1, <2>1
<1>4. RefInv'
  BY <1>1, <1>2, <1>3 DEF RefInv
<1> QED BY <1>1, <1>2, <1>4 DEF Gen!InPackage

LEMMA TryBounds ==
  ASSUME RefInv, TryInv
  PROVE  /\ Len(pkgpath) \in Nat /\ Len(Home.package) \in Nat
         /\ Len(ref.message) \in Nat \ {0}
         /\ Len(Gen!Name) = Len(Home.package) + Len(ref.message)
         /\ Len(pkgpath) <= Len(Gen!Name) - 1
<1>1. /\ Len(Home.package) \in Nat /\ Len(ref.message) \in Nat \ {0}
      /\ Len(Gen!Name) = Len(Home.package) + Len(ref.message)
      /\ Len(Gen!Name) \in Nat
  BY NamesAreTyped, Zenon
<1>2. Len(pkgpath) \in 0..Len(Gen!Name) - 1
  BY DEF TryInv
<1>3. Len(pkgpath) \in Nat /\ Len(pkgpath) <= Len(Gen!Name) - 1
  <2> DEFINE n == Len(pkgpath)
             b == Len(Gen!Name)
  <2>1. n \in 0..b - 1 /\ b \in Nat
    BY <1>1, <1>2, Zenon
  <2> HIDE DEF n, b
  <2>2. n \in Nat /\ n <= b - 1
    BY <2>1
  <2> QED BY <2>2 DEF n, b
<1> QED BY <1>1, <1>3, Zenon

LEMMA FirstOfPackage ==
  ASSUME RefInv, NEW p, Gen!InPackage(p) # {}
  PROVE  /\ Gen!lookupFileDescriptor(p) \in DOMAIN files
         /\ files[Gen!lookupFileDescriptor(p)].package = p
         /\ \A k \in DOMAIN files :
              files[k].package = p => Gen!lookupFileDescriptor(p) <= k
<1>1. Gen!InPackage(p) \in SUBSET Nat
  BY NamesAreTyped DEF Gen!InPackage
<1>2. \E k \in Gen!InPackage(p) : \A j \in Gen!InPackage(p) : k <= j
  BY <1>1, LeastNatural
<1>3. /\ Gen!lookupFileDescriptor(p) \in Gen!InPackage(p)
      /\ \A j \in Gen!InPackage(p) : Gen!lookupFileDescriptor(p) <= j
  BY <1>2 DEF Gen!lookupFileDescriptor
<1> QED BY <1>3 DEF Gen!InPackage

\* The package of the name is tried before a shorter one.
LEMMA HomeIsNotPassed ==
  ASSUME RefInv, TryInv, pc = "package"
  PROVE  Len(Home.package) <= Len(pkgpath)
<1> DEFINE n == Len(pkgpath)
           h == Len(Home.package)
<1>1. SUFFICES ASSUME ~(h <= n) PROVE FALSE
  OBVIOUS
<1>2. n \in Nat /\ h \in Nat /\ Len(Gen!Name) = h + Len(ref.message) /\ Len(ref.message) \in Nat \ {0}
  BY TryBounds, Zenon
<1>3. h \in n + 1 .. Len(Gen!Name) - 1
  <2> HIDE DEF n, h
  <2> QED BY <1>1, <1>2
<1>4. Gen!InPackage(SubSeq(Gen!Name, 1, h)) = {}
  BY <1>3 DEF TryInv
<1>5. Home.package = SubSeq(Gen!Name, 1, h) /\ ref.file \in DOMAIN files
  BY NamesAreTyped DEF RefInv
<1> QED BY <1>4, <1>5 DEF Gen!InPackage, Home

\* What the name begins with is no package when it is longer than its own, for
\* it is a message around the one referred to.
LEMMA PackageIsHome ==
  ASSUME RefInv, TryInv, pc = "package", NEW k \in DOMAIN files,
         files[k].package = pkgpath
  PROVE  /\ pkgpath = Home.package
         /\ SubSeq(path, Len(pkgpath) + 1, Len(path)) = ref.message
<1> DEFINE n == Len(pkgpath)
           h == Len(Home.package)
           N == Gen!Name
           x == SubSeq(ref.message, 1, n - h)
<1>1. /\ n \in Nat /\ h \in Nat /\ Len(ref.message) \in Nat
      /\ Len(N) = h + Len(ref.message) /\ n <= Len(N) - 1
  BY TryBounds
<1>2. h <= n
  BY HomeIsNotPassed
<1>3. n = h
  <2>1. SUFFICES ASSUME h < n PROVE FALSE
    <3> HIDE DEF n, h
    <3> QED BY <1>1, <1>2
  <2>2. n - h \in 1..Len(ref.message) /\ n - h \in 0..Len(ref.message) /\ h + (n - h) = n
    <3> HIDE DEF n, h, N
    <3> QED BY <1>1, <2>1
  <2>3. /\ Home.messages \subseteq Seq(STRING) \ {<<>>}
        /\ \A y \in Home.messages : Len(y) > 1 => Gen!Front(y) \in Home.messages
        /\ ref.message \in Home.messages /\ ref.file \in DOMAIN files
    BY NamesAreTyped DEF RefInv, Home
  <2>4. x \in Home.messages
    <3> HIDE DEF n, h
    <3> QED BY <2>2, <2>3, OuterMessages
  <2>5. SubSeq(Home.package \o ref.message, 1, h + (n - h)) = Home.package \o x
    <3>1. Home.package \in Seq(STRING) /\ ref.message \in Seq(STRING)
      BY NamesAreTyped
    <3> HIDE DEF n
    <3> QED BY <3>1, <2>2, BeginningOfWhole
  <2>6. pkgpath = SubSeq(N, 1, n) /\ N = Home.package \o ref.message
    BY NamesAreTyped DEF TryInv
  <2>7. pkgpath = Gen!FullName(files[ref.file], x)
    <3>1. pkgpath = Home.package \o x
      <4> HIDE DEF x
      <4> QED BY <2>2, <2>5, <2>6, Zenon
    <3> QED BY <3>1 DEF Gen!FullName, Home
  <2>8. ~Gen!IsPrefix(pkgpath, files[k].package)
    <3>1. pkgpath \in {Gen!FullName(files[ref.file], m) : m \in files[ref.file].messages}
      BY <2>4, <2>7 DEF Home
    <3> QED BY <3>1, <2>3 DEF RefInv, Gen!Legal
  <2>9. Gen!IsPrefix(pkgpath, pkgpath)
    BY <1>1 DEF Gen!IsPrefix
  <2> QED BY <2>8, <2>9
<1>4. pkgpath = Home.package
  BY <1>3, NamesAreTyped DEF TryInv
<1>5. path = N /\ ref.message = SubSeq(N, h + 1, Len(N))
  BY NamesAreTyped DEF TryInv
<1> QED BY <1>3, <1>4, <1>5

LEMMA FindPackageStep ==
  ASSUME SearchInv, Gen!FindPackage
  PROVE  SearchInv'
<1>1. /\ pc = "package" /\ pc' = "message"
      /\ UNCHANGED <<files, ref, pkgpath, d>>
      /\ fd' = Gen!lookupFileDescriptor(pkgpath)
      /\ path' = SubSeq(path, Len(pkgpath) + 1, Len(path))
      /\ Gen!InPackage(pkgpath) # {}
  BY DEF Gen!FindPackage
<1>2. RefInv /\ TryInv /\ d = <<>>
  BY <1>1 DEF SearchInv, TryInv
<1>3. /\ fd' \in DOMAIN files /\ files[fd'].package = pkgpath
      /\ \A k \in DOMAIN files : files[k].package = pkgpath => fd' <= k
  BY <1>1, <1>2, FirstOfPackage
<1>4. pkgpath = Home.package /\ path' = ref.message
  BY <1>1, <1>2, <1>3, PackageIsHome
<1>5. fd' <= ref.file
  BY <1>2, <1>3, <1>4 DEF RefInv, Home
<1>6. RefInv' /\ TryInv'
  BY <1>1, <1>2, RefStays DEF TryInv
<1>7. /\ Len(d) = 0 /\ 0 \in 0..Len(ref.message) /\ d = SubSeq(ref.message, 1, Len(d))
      /\ ref.message = SubSeq(ref.message, Len(d) + 1, Len(ref.message))
  <2>1. ref.message \in Seq(STRING) /\ Len(ref.message) \in Nat
    BY <1>2, NamesAreTyped
  <2>2. Len(d) = 0
    BY <1>2
  <2>3. SubSeq(ref.message, 1, 0) = <<>>
    BY <2>1
  <2>4. SubSeq(ref.message, 0 + 1, Len(ref.message)) = ref.message
    BY <2>1
  <2> QED BY <2>1, <2>2, <2>3, <2>4, <1>2
<1>8. Found'
  BY <1>1, <1>2, <1>3, <1>4, <1>5, <1>7 DEF Found, Home
<1> QED BY <1>1, <1>6, <1>8 DEF SearchInv

LEMMA DropTokenStep ==
  ASSUME SearchInv, Gen!DropToken
  PROVE  SearchInv'
<1> DEFINE n == Len(pkgpath)
           N == Gen!Name
<1>1. /\ pc = "package" /\ pc' = "package"
      /\ UNCHANGED <<files, ref, fd, path, d>>
      /\ pkgpath' = Gen!Front(pkgpath) /\ n > 1
      /\ Gen!InPackage(pkgpath) = {}
  BY DEF Gen!DropToken
<1>2. RefInv /\ TryInv
  BY DEF SearchInv
<1>3. pkgpath = SubSeq(N, 1, n) /\ n \in 0..Len(N) - 1 /\ N \in Seq(STRING) /\ Len(N) \in Nat
  <2>1. N \in Seq(STRING) /\ Len(N) \in Nat
    BY <1>2, NamesAreTyped, Zenon
  <2> QED BY <2>1, <1>2 DEF TryInv
<1>4. n - 1 \in 0..n /\ n \in 0..Len(N) /\ n - 1 \in 0..Len(N)
  BY <1>1, <1>3
<1>5. Gen!Front(pkgpath) = SubSeq(pkgpath, 1, n - 1)
  BY DEF Gen!Front
<1>6. pkgpath' = SubSeq(N, 1, n - 1)
  <2>1. SubSeq(SubSeq(N, 1, n), 1, n - 1) = SubSeq(N, 1, n - 1)
    <3> HIDE DEF n, N
    <3> QED BY <1>3, <1>4, BeginningOfBeginning
  <2> QED BY <1>1, <1>3, <1>5, <2>1, Zenon
<1>7. Len(pkgpath') = n - 1
  <2>1. Len(SubSeq(N, 1, n - 1)) = n - 1
    <3> HIDE DEF n, N
    <3> QED BY <1>3, <1>4, BeginningOf
  <2> QED BY <1>6, <2>1, Zenon
<1>8. ASSUME NEW j \in (n - 1) + 1 .. Len(N) - 1
      PROVE  Gen!InPackage(SubSeq(N, 1, j)) = {}
  <2>1. j = n \/ j \in n + 1 .. Len(N) - 1
    <3> HIDE DEF n, N
    <3> QED BY <1>3
  <2> QED BY <2>1, <1>1, <1>2, <1>3 DEF TryInv
<1>9. N' = N /\ \A p : Gen!InPackage(p)' = Gen!InPackage(p)
  BY <1>1, <1>2, RefStays
<1>10. RefInv'
  BY <1>1, <1>2, RefStays
<1>11. TryInv'
  <2>1. /\ pkgpath' = SubSeq(N, 1, Len(pkgpath'))
        /\ Len(pkgpath') \in 0..Len(N) - 1
    <3>1. n - 1 \in 0..Len(N) - 1
      BY <1>1, <1>3
    <3> QED BY <1>6, <1>7, <3>1
  <2>2. path' = N /\ d' = <<>> /\ fd' = Nil
    BY <1>1, <1>2 DEF TryInv
  <2>3. Len(pkgpath') # 0
    BY <1>1, <1>3, <1>7
  <2>4. \A j \in Len(pkgpath') + 1 .. Len(N) - 1 : Gen!InPackage(SubSeq(N, 1, j))' = {}
    BY <1>1, <1>7, <1>8, <1>9
  <2> HIDE DEF N
  <2>5. N' = N
    BY <1>9
  <2> QED BY <2>1, <2>2, <2>3, <2>4, <2>5 DEF TryInv, N
<1> QED BY <1>1, <1>10, <1>11 DEF SearchInv

LEMMA NoPackageStep ==
  ASSUME SearchInv, Gen!NoPackage
  PROVE  SearchInv'
<1> DEFINE h == Len(Home.package)
<1>1. /\ pc = "package" /\ pc' = "fatal"
      /\ UNCHANGED <<files, ref, pkgpath, fd, path, d>>
      /\ Len(pkgpath) = 1 /\ Gen!InPackage(pkgpath) = {}
  BY DEF Gen!NoPackage, Gen!Fatal
<1>2. RefInv /\ TryInv /\ fd = Nil
  BY <1>1 DEF SearchInv, TryInv
<1>3. /\ h \in Nat /\ Len(ref.message) \in Nat
      /\ 1 <= (h + Len(ref.message)) - 1
  <2>1. Len(pkgpath) <= Len(Gen!Name) - 1 /\ Len(Gen!Name) = h + Len(ref.message)
    BY <1>2, TryBounds
  <2> QED BY <2>1, <1>1, <1>2, TryBounds
<1>4. h = 0
  <2>1. h <= 1
    BY <1>1, <1>2, HomeIsNotPassed
  <2>2. CASE h = 1
    <3>1. Home.package = pkgpath
      BY <1>1, <1>2, <2>2, NamesAreTyped DEF TryInv
    <3>2. ref.file \in Gen!InPackage(pkgpath)
      BY <1>2, <3>1 DEF Gen!InPackage, Home, RefInv
    <3> QED BY <1>1, <3>2
  <2> HIDE DEF h
  <2> QED BY <2>1, <2>2, <1>3
<1>5. Home.package = <<>>
  BY <1>2, <1>4, NamesAreTyped, EmptySeq
<1>6. Len(ref.message) > 1
  <2> HIDE DEF h
  <2> QED BY <1>3, <1>4
<1>7. RefInv' /\ TryInv'
  BY <1>1, <1>2, RefStays DEF TryInv
<1>8. Excused'
  BY <1>1, <1>5, <1>6 DEF Excused, Home
<1> QED BY <1>1, <1>2, <1>7, <1>8 DEF SearchInv

\* While something of the message is left, its next part is a message at home.
LEMMA NextIsDeclared ==
  ASSUME RefInv, Found, path # <<>>
  PROVE  /\ Len(d) \in 0..Len(ref.message) - 1
         /\ Append(d, Head(path)) = SubSeq(ref.message, 1, Len(d) + 1)
         /\ Tail(path) = SubSeq(ref.message, (Len(d) + 1) + 1, Len(ref.message))
         /\ Append(d, Head(path)) \in Home.messages
<1> DEFINE n == Len(d)
           m == ref.message
<1>1. m \in Seq(STRING) /\ Len(m) \in Nat
  BY NamesAreTyped
<1>2. n \in 0..Len(m) /\ d = SubSeq(m, 1, n) /\ path = SubSeq(m, n + 1, Len(m))
  BY DEF Found
<1> HIDE DEF n, m
<1>3. n \in 0..Len(m) - 1
  <2>1. n # Len(m)
    <3>1. SUFFICES ASSUME n = Len(m) PROVE FALSE
      OBVIOUS
    <3>2. SubSeq(m, Len(m) + 1, Len(m)) = <<>>
      BY <1>1
    <3> QED BY <3>1, <3>2, <1>2
  <2> QED BY <2>1, <1>1, <1>2
<1>4. /\ Append(d, Head(path)) = SubSeq(m, 1, n + 1)
      /\ Tail(path) = SubSeq(m, (n + 1) + 1, Len(m))
  <2>1. /\ Append(SubSeq(m, 1, n), Head(SubSeq(m, n + 1, Len(m)))) = SubSeq(m, 1, n + 1)
        /\ Tail(SubSeq(m, n + 1, Len(m))) = SubSeq(m, (n + 1) + 1, Len(m))
    BY <1>1, <1>3, OneFurther
  <2> QED BY <2>1, <1>2, Zenon
<1>5. SubSeq(m, 1, n + 1) \in Home.messages
  <2>1. /\ Home.messages \subseteq Seq(STRING) \ {<<>>}
        /\ \A y \in Home.messages : Len(y) > 1 => Gen!Front(y) \in Home.messages
        /\ m \in Home.messages
    BY NamesAreTyped DEF RefInv, Home, m
  <2>2. n + 1 \in 1..Len(m)
    BY <1>1, <1>3
  <2> QED BY <2>1, <2>2, OuterMessages
<1> QED BY <1>3, <1>4, <1>5 DEF n, m

LEMMA FindMessageStep ==
  ASSUME SearchInv, Gen!FindMessage
  PROVE  SearchInv'
<1> DEFINE n == Len(d)
           m == ref.message
<1>1. /\ pc = "message" /\ path # <<>>
      /\ UNCHANGED <<files, ref, pc, pkgpath, fd>>
      /\ Append(d, Head(path)) \in files[fd].messages
      /\ d' = Append(d, Head(path)) /\ path' = Tail(path)
  BY DEF Gen!FindMessage
<1>2. RefInv /\ TryInv /\ Found
  BY <1>1 DEF SearchInv
<1>3. /\ n \in 0..Len(m) - 1
      /\ d' = SubSeq(m, 1, n + 1)
      /\ path' = SubSeq(m, (n + 1) + 1, Len(m))
  BY <1>1, <1>2, NextIsDeclared
<1>4. m \in Seq(STRING) /\ Len(m) \in Nat
  BY <1>2, NamesAreTyped
<1>5. Len(d') = n + 1 /\ n + 1 \in 0..Len(m)
  <2> HIDE DEF n, m
  <2>1. n + 1 \in 0..Len(m)
    BY <1>3, <1>4
  <2> QED BY <2>1, <1>3, <1>4, BeginningOf
<1>6. Found'
  <2>1. /\ fd' \in DOMAIN files' /\ fd' <= ref'.file
        /\ files'[fd'].package = Home'.package
    BY <1>1, <1>2 DEF Found, Home
  <2>2. /\ Len(d') \in 0..Len(m)
        /\ d' = SubSeq(m, 1, Len(d'))
        /\ path' = SubSeq(m, Len(d') + 1, Len(m))
    BY <1>3, <1>5, Zenon
  <2>3. d' \in files'[fd'].messages /\ m' = m
    BY <1>1
  <2> QED BY <2>1, <2>2, <2>3 DEF Found
<1>7. RefInv' /\ TryInv'
  BY <1>1, <1>2, RefStays DEF TryInv
<1> QED BY <1>1, <1>6, <1>7 DEF SearchInv

LEMMA NoSuchTypeStep ==
  ASSUME SearchInv, Gen!NoSuchType
  PROVE  SearchInv'
<1>1. /\ pc = "message" /\ path # <<>> /\ pc' = "fatal"
      /\ UNCHANGED <<files, ref, pkgpath, fd, path, d>>
      /\ Append(d, Head(path)) \notin files[fd].messages
  BY DEF Gen!NoSuchType, Gen!Fatal
<1>2. RefInv /\ TryInv /\ Found
  BY <1>1 DEF SearchInv
<1>3. fd # ref.file
  BY <1>1, <1>2, NextIsDeclared DEF Home
<1>4. /\ fd \in 1..Len(files) /\ ref.file \in 1..Len(files) /\ Len(files) \in Nat
      /\ fd <= ref.file /\ files[fd].package = Home.package
  BY <1>2, NamesAreTyped DEF Found, RefInv
<1>5. fd \in 1..ref.file - 1
  BY <1>3, <1>4
<1>6. Excused'
  BY <1>1, <1>4, <1>5 DEF Excused, Home
<1>7. RefInv' /\ TryInv' /\ Found'
  BY <1>1, <1>2, RefStays DEF TryInv, Found
<1> QED BY <1>1, <1>6, <1>7 DEF SearchInv

\* When nothing of the path is left, the whole message has been found.
LEMMA WholeMessage ==
  ASSUME RefInv, Found, path = <<>>
  PROVE  Len(d) = Len(ref.message)
<1> DEFINE n == Len(d)
           m == ref.message
<1>1. m \in Seq(STRING) /\ Len(m) \in Nat /\ n \in 0..Len(m)
  BY NamesAreTyped DEF Found
<1>2. path = SubSeq(m, n + 1, Len(m))
  BY DEF Found
<1>3. SUFFICES ASSUME n # Len(m) PROVE FALSE
  OBVIOUS
<1> HIDE DEF n, m
<1>4. n \in 0..Len(m) - 1
  BY <1>1, <1>3
<1>5. SubSeq(m, n + 1, Len(m)) # <<>>
  BY <1>1, <1>4, OneFurther, Zenon
<1> QED BY <1>2, <1>5

LEMMA ReturnStep ==
  ASSUME SearchInv, Gen!Return
  PROVE  SearchInv'
<1>1. /\ pc = "message" /\ path = <<>> /\ pc' = "done"
      /\ UNCHANGED <<files, ref, pkgpath, fd, path, d>>
  BY DEF Gen!Return
<1>2. RefInv /\ TryInv /\ Found
  BY <1>1 DEF SearchInv
<1>3. Len(d) = Len(ref.message)
  BY <1>1, <1>2, WholeMessage
<1>4. RefInv' /\ TryInv' /\ Found'
  BY <1>1, <1>2, RefStays DEF TryInv, Found
<1> QED BY <1>1, <1>3, <1>4 DEF SearchInv

\* No two files declare one name.
LEMMA OnlyOneFile ==
  ASSUME RefInv, Found, Len(d) = Len(ref.message)
  PROVE  fd = ref.file /\ d = ref.message
<1> DEFINE m == ref.message
<1>1. m \in Seq(STRING) /\ m # <<>>
  BY NamesAreTyped, EmptySeq
<1>2. d = m
  BY <1>1, SubSeqFull DEF Found
<1>3. m \in files[fd].messages /\ m \in files[ref.file].messages
  BY <1>1, <1>2 DEF Found, RefInv, Home
<1>4. files[fd].package = files[ref.file].package /\ fd \in DOMAIN files /\ ref.file \in DOMAIN files
  BY DEF Found, RefInv, Home
<1> DEFINE Declared(k) == {Gen!FullName(files[k], x) : x \in files[k].messages}
<1>5. Gen!FullName(files[fd], m) = Gen!FullName(files[ref.file], m)
  BY <1>4 DEF Gen!FullName
<1>6. Gen!FullName(files[fd], m) \in Declared(fd) /\ Gen!FullName(files[fd], m) \in Declared(ref.file)
  BY <1>3, <1>5
<1>7. fd # ref.file => Declared(fd) \cap Declared(ref.file) = {}
  BY <1>4 DEF RefInv, Gen!Legal
<1> QED BY <1>2, <1>6, <1>7

\* A go_package of one or two parts names a package.
LEMMA NoNameOfTooManyParts ==
  ASSUME NEW f \in Gen!File, Gen!getGoPackage(f) = Nil
  PROVE  Len(f.goPackage) > 2
<1> DEFINE g == f.goPackage
<1>1. g \in Seq(STRING) /\ g # <<>> /\ Len(g) \in Nat
  BY DEF Gen!File
<1>2. Nil \notin STRING
  BY ExamplesAssumption DEF Gen!GenAssumption
<1>3. Len(g) # 0
  BY <1>1, EmptySeq
<1> DEFINE n == Len(g)
<1>4. n # 1
  <2>1. n = 1 => Gen!getGoPackage(f) = g[1]
    BY DEF Gen!getGoPackage
  <2>2. n = 1 => g[1] \in STRING
    BY <1>1
  <2> QED BY <1>2, <2>1, <2>2
<1>5. n # 2
  <2>1. n = 2 => Gen!getGoPackage(f) = g[2]
    BY DEF Gen!getGoPackage
  <2>2. n = 2 => g[2] \in STRING
    BY <1>1
  <2> QED BY <1>2, <2>1, <2>2
<1>6. n \in Nat /\ n # 0
  BY <1>1, <1>3
<1> HIDE DEF n
<1>7. n > 2
  BY <1>4, <1>5, <1>6
<1> QED BY <1>7 DEF n

LEMMA TooManyPartsStep ==
  ASSUME SearchInv, Gen!TooManyParts
  PROVE  SearchInv'
<1>1. /\ pc = "message" /\ path = <<>> /\ pc' = "fatal"
      /\ UNCHANGED <<files, ref, pkgpath, fd, path, d>>
      /\ Gen!getGoPackage(files[fd]) = Nil
  BY DEF Gen!TooManyParts, Gen!Fatal
<1>2. RefInv /\ TryInv /\ Found
  BY <1>1 DEF SearchInv
<1>3. fd = ref.file
  BY <1>1, <1>2, WholeMessage, OnlyOneFile
<1>4. Home \in Gen!File
  <2>1. files \in Seq(Gen!File) /\ ref.file \in DOMAIN files
    BY <1>2, ExamplesAssumption DEF Gen!GenAssumption, RefInv
  <2> QED BY <2>1 DEF Home
<1>5. Len(Home.goPackage) > 2
  BY <1>1, <1>3, <1>4, NoNameOfTooManyParts DEF Home
<1>6. Excused'
  BY <1>1, <1>5 DEF Excused, Home
<1>7. RefInv' /\ TryInv' /\ Found'
  BY <1>1, <1>2, RefStays DEF TryInv, Found
<1> QED BY <1>1, <1>6, <1>7 DEF SearchInv

LEMMA SearchInit == Init => GenInv
<1> SUFFICES ASSUME Init, plugin = "generator" PROVE SearchInv
  BY DEF GenInv
<1>1. Gen!Init
  BY DEF Init
<1>2. RefInv
  <2>1. files \in FileLists /\ Gen!Legal(files)
    BY <1>1 DEF Gen!Init
  <2>2. PICK k \in DOMAIN files : \E m \in files[k].messages : ref = [file |-> k, message |-> m]
    BY <1>1 DEF Gen!Init
  <2>3. ref.file = k /\ ref.message \in files[k].messages
    BY <2>2
  <2> QED BY <2>1, <2>3 DEF RefInv, Home
<1> DEFINE N == Gen!Name
<1>3. /\ pkgpath = SubSeq(N, 1, Len(N) - 1) /\ pc = "package"
      /\ path = N /\ d = <<>> /\ fd = Nil
  BY <1>1, <1>2, NamesAreTyped DEF Gen!Init
<1>4. N \in Seq(STRING) /\ Len(N) \in Nat /\ Len(N) > 0
  <2>1. /\ N \in Seq(STRING) /\ Len(N) = Len(Home.package) + Len(ref.message)
        /\ Len(Home.package) \in Nat /\ Len(ref.message) \in Nat \ {0}
    BY <1>2, NamesAreTyped, Zenon
  <2> DEFINE h == Len(Home.package)
             m == Len(ref.message)
             n == Len(N)
  <2>2. N \in Seq(STRING) /\ n = h + m /\ h \in Nat /\ m \in Nat \ {0}
    BY <2>1, Zenon
  <2> HIDE DEF N, h, m, n
  <2>3. n \in Nat /\ n > 0
    BY <2>2
  <2> QED BY <2>2, <2>3, Zenon DEF n
<1> HIDE DEF N
<1>5. Len(N) - 1 \in 0..Len(N) /\ Len(N) - 1 \in 0..Len(N) - 1
  BY <1>4
<1>6. Len(pkgpath) = Len(N) - 1
  BY <1>3, <1>4, <1>5, BeginningOf
<1>7. /\ pkgpath = SubSeq(N, 1, Len(pkgpath)) /\ Len(pkgpath) \in 0..Len(N) - 1
      /\ Len(pkgpath) = 0 => Len(N) = 1
  BY <1>3, <1>4, <1>5, <1>6
<1>8. Len(pkgpath) + 1 .. Len(N) - 1 = {}
  BY <1>4, <1>6
<1>9. TryInv
  BY <1>3, <1>7, <1>8 DEF TryInv, N
<1> QED BY <1>2, <1>3, <1>9 DEF SearchInv

LEMMA SearchNext == GenInv /\ [Next]_vars => GenInv'
<1> SUFFICES ASSUME GenInv, [Next]_vars, plugin' = "generator" PROVE SearchInv'
  BY DEF GenInv
<1>1. CASE Next
  <2>1. plugin = "generator" /\ Gen!Next
    BY <1>1, OnlyOwnSteps
  <2>2. SearchInv
    BY <2>1 DEF GenInv
  <2> QED BY <2>1, <2>2, FindPackageStep, DropTokenStep, NoPackageStep,
             FindMessageStep, NoSuchTypeStep, ReturnStep, TooManyPartsStep
          DEF Gen!Next, Gen!getGoType, Gen!lookupMessageType
<1>2. CASE UNCHANGED vars
  <2>1. UNCHANGED <<plugin, files, ref, pc, pkgpath, fd, path, d>>
    BY <1>2 DEF vars, genVars
  <2>2. SearchInv
    BY <2>1 DEF GenInv
  <2>3. /\ RefInv' /\ Gen!Name' = Gen!Name /\ Home' = Home
        /\ \A p : Gen!InPackage(p)' = Gen!InPackage(p)
    BY <2>1, <2>2, RefStays DEF SearchInv
  <2>4. TryInv'
    BY <2>1, <2>2, <2>3 DEF SearchInv, TryInv
  <2>5. (Found' <=> Found) /\ (Excused' <=> Excused)
    BY <2>1, <2>3 DEF Found, Excused
  <2> QED BY <2>1, <2>2, <2>3, <2>4, <2>5 DEF SearchInv
<1> QED BY <1>1, <1>2

\* Whatever the files protoc accepts, a reference is resolved to the message it
\* names or the generator stops, and it stops only because the package is spread
\* over files, the message is nested and in no package, or the go_package of its
\* file has more than two parts (protoc-gen-demo/main.go:19-32, 102-157).
THEOREM ReferencesAlwaysResolve == Spec => []ReferencesResolve
<1>1. GenInv => ReferencesResolve
  <2> SUFFICES ASSUME GenInv, plugin = "generator" PROVE Gen!ReferencesResolve
    BY DEF ReferencesResolve
  <2>1. pc = "done" => fd = ref.file /\ d = ref.message
    BY OnlyOneFile DEF GenInv, SearchInv
  <2>2. pc = "fatal" => Excused
    BY DEF GenInv, SearchInv
  <2> QED BY <2>1, <2>2 DEF Gen!ReferencesResolve, Excused, Home
<1> QED BY SearchInit, SearchNext, <1>1, PTL DEF Spec

------------------------------------------------------------------------------
(* Types: with what is known of each plugin, every call returns one of the  *)
(* answers it can return.                                                   *)

LEMMA LlmTypes ==
  ASSUME StreamInv, Llm!ReportIsOfItsAnswer', Llm!TypeOK, Llm!Next, StreamInv'
  PROVE  Llm!TypeOK'
<1>1. answer' \in {"next", "abort", "error", "trap"}
  BY ZenonT(40)
     DEF Llm!Next, Llm!NotMine, Llm!PayloadFails, Llm!OnParsePayload, Llm!Passes,
         Llm!Request, Llm!NothingToCount, Llm!FirstChunk, Llm!NextChunk,
         Llm!LastLine, Llm!End, Llm!EndWithoutTokens
<1>2. CASE \E f \in Flows, t \in Llm!Times : Llm!End(f, t)
  <2>1. PICK f \in Flows, t \in Llm!Times : Llm!End(f, t)
    BY <1>2
  <2>2. /\ Llm!At(t) /\ Llm!Entry(f).totalToken > 0
        /\ report' = Llm!ReportOf(Llm!Entry(f), t)
        /\ expected' = IF Llm!Whole(f) THEN Llm!Truth(f) ELSE Nil
    BY <2>1 DEF Llm!End
  <2>3. report' \in Llm!Report
    BY <2>2, ReportTyped
  <2>4. expected' \in Llm!Expected \cup {Nil}
    BY <2>2, EndReports
  <2> QED BY <1>1, <2>3, <2>4 DEF StreamInv, Llm!TypeOK
<1>3. CASE ~\E f \in Flows, t \in Llm!Times : Llm!End(f, t)
  <2>1. report' = Nil
    BY <1>3, ZenonT(40)
       DEF Llm!Next, Llm!NotMine, Llm!PayloadFails, Llm!OnParsePayload,
         Llm!Passes, Llm!Request, Llm!NothingToCount, Llm!FirstChunk,
         Llm!NextChunk, Llm!LastLine, Llm!EndWithoutTokens
  <2>2. expected' = Nil
    BY <2>1 DEF Llm!ReportIsOfItsAnswer
  <2> QED BY <1>1, <2>1, <2>2 DEF StreamInv, Llm!TypeOK
<1> QED BY <1>2, <1>3

LEMMA RewriteTypes ==
  ASSUME Rewrite!TypeOK, Rewrite!Next
  PROVE  Rewrite!TypeOK'
<1>1. HttpCodes \subseteq Nat
  BY ExamplesAssumption DEF Rewrite!RewriteAssumption
<1>2. ASSUME NEW c \in Nat, NEW b \in BOOLEAN
      PROVE  Rewrite!Report(c, b) \in [code: Nat, status: Rewrite!Status, result: BOOLEAN]
  BY DEF Rewrite!Report, Rewrite!getStatus, Rewrite!Status
<1>3. code \in HttpCodes /\ code \in Nat /\ Rewrite!Rewrite(code) \in Nat
  BY <1>1 DEF Rewrite!TypeOK, Rewrite!Rewrite
<1>4. UNCHANGED <<code, body>>
  BY DEF Rewrite!Next, Rewrite!NoBody, Rewrite!NotAString, Rewrite!NotOurs,
         Rewrite!Rewritten, Rewrite!NormalResp
<1>5. \/ report' = Rewrite!Report(code, FALSE)
      \/ report' = Rewrite!Report(Rewrite!Rewrite(code), TRUE)
  BY DEF Rewrite!Next, Rewrite!NoBody, Rewrite!NotAString, Rewrite!NotOurs,
         Rewrite!Rewritten, Rewrite!NormalResp
<1>6. report' \in [code: Nat, status: Rewrite!Status, result: BOOLEAN]
  BY <1>2, <1>3, <1>5
<1>7. Rewrite!Body' = Rewrite!Body /\ Rewrite!Status' = Rewrite!Status
  BY DEF Rewrite!Body, Rewrite!Written, Rewrite!Arrived, Rewrite!Status
<1> QED BY <1>4, <1>6, <1>7 DEF Rewrite!TypeOK

LEMMA FlowTypes ==
  ASSUME Flow!TypeOK, Flow!Next
  PROVE  Flow!TypeOK'
<1>1. PICK p \in Flow!Packets : Flow!Check(p) \/ Flow!Parse(p) \/ Flow!NotMine(p)
  BY DEF Flow!Next
<1>2. 0 \in RetCodes
  BY ExamplesAssumption DEF Flow!FlowAssumption
<1>3. ASSUME NEW dir \in {"req", "resp"} PROVE Flow!OnParsePayload(p, dir) \in Flow!Report
  <2>0. ASSUME NEW tag \in {"none", "next", "abort", "error"}
        PROVE  Flow!Outcome(tag) \in Flow!Report
    BY DEF Flow!Outcome, Flow!Report
  <2>1. ASSUME NEW x \in BOOLEAN
        PROVE  [tag |-> "info", side |-> "req", trace |-> x] \in Flow!Report
    BY DEF Flow!Report
  <2>2. ASSUME NEW x \in BOOLEAN, NEW s \in {"ok", "server_error"}, NEW c \in RetCodes
        PROVE  [tag |-> "info", side |-> "resp", trace |-> x, status |-> s, code |-> c]
                 \in Flow!Report
    BY DEF Flow!Report
  <2>3. CASE p.plugin = "krpc"
    <3>1. p \in Flow!KrpcPackets
      BY <2>3 DEF Flow!Packets, Flow!DnsPackets
    <3>2. p.trace \in BOOLEAN /\ p.retCode \in RetCodes
      BY <3>1 DEF Flow!KrpcPackets
    <3>3. Flow!traced(p) \in BOOLEAN
      BY <3>2, Zenon DEF Flow!traced
    <3>4. Flow!retCode(p) \in RetCodes
      BY <1>2, <3>2 DEF Flow!retCode
    <3>5. Flow!Status(Flow!retCode(p)) \in {"ok", "server_error"}
      BY DEF Flow!Status
    <3>6. Flow!KrpcParse(p, dir) \in Flow!Report
      BY <2>0, <2>1, <2>2, <3>3, <3>4, <3>5 DEF Flow!KrpcParse
    <3> QED BY <2>3, <3>6 DEF Flow!OnParsePayload
  <2>4. CASE p.plugin # "krpc"
    <3>1. Flow!DnsParse(p, dir) \in Flow!Report
      BY <1>2, <2>0, <2>1, <2>2 DEF Flow!DnsParse
    <3> QED BY <2>4, <3>1 DEF Flow!OnParsePayload
  <2> QED BY <2>3, <2>4
<1>4. report' \in Flow!Report
  <2>1. CASE Flow!Check(p) \/ Flow!NotMine(p)
    BY <2>1 DEF Flow!Check, Flow!NotMine, Flow!Outcome, Flow!Report
  <2>2. CASE Flow!Parse(p)
    BY <2>2, <1>3 DEF Flow!Parse, Flow!Direction
  <2> QED BY <1>1, <2>1, <2>2
<1>5. packet' = p /\ taken' \in {taken, p} /\ claimant' \in {claimant, p.from}
  BY <1>1 DEF Flow!Check, Flow!Parse, Flow!NotMine
<1>6. p.from \in Flow!Ends
  BY DEF Flow!Packets, Flow!KrpcPackets, Flow!DnsPackets
<1> QED BY <1>4, <1>5, <1>6 DEF Flow!TypeOK

LEMMA NatsTypes ==
  ASSUME TableInv, TableInv', Nats!TypeOK, Nats!Next
  PROVE  Nats!TypeOK'
<1>1. ASSUME NEW cs, cs \subseteq Nats!Calls
      PROVE  InboxesOf(cs) \subseteq Inboxes
  BY <1>1 DEF InboxesOf, Nats!Calls
<1>2. /\ calls' \subseteq Nats!Calls /\ seen' \subseteq calls'
      /\ DOMAIN kv' \subseteq Inboxes
      /\ \A i \in DOMAIN kv' : kv'[i] \in Methods
  <2>1. seen' \subseteq calls' /\ calls' \subseteq Nats!Calls /\ DOMAIN kv' = InboxesOf(seen')
    BY DEF TableInv, InboxesOf, Nats!Calls
  <2>2. DOMAIN kv' \subseteq Inboxes
    BY <1>1, <2>1
  <2>3. ASSUME NEW i \in DOMAIN kv' PROVE kv'[i] \in Methods
    <3>1. kv'[i] \in Nats!CalledOn(seen', i)
      BY DEF TableInv, Nats!CalledOn
    <3> QED BY <2>1, <3>1 DEF Nats!CalledOn, Nats!Calls
  <2> QED BY <2>1, <2>2, <2>3
<1>3. ASSUME NEW m \in Nats!Message, m.reply_to # Nil => m.subject \in Methods,
             Nats!OnNatsMessage(m)
      PROVE  message' \in Nats!Message /\ report' \in Nats!Report \cup {Nil}
  <2>1. CASE Nats!OnRequest(m)
    BY <1>3, <2>1 DEF Nats!OnNatsMessage, Nats!OnRequest, Nats!Message, Nats!Report
  <2>2. CASE Nats!OnAnswer(m)
    <3>1. m.subject \in DOMAIN kv /\ m.subject \in Inboxes /\ kv[m.subject] \in Methods
      BY <2>2 DEF Nats!OnAnswer, Nats!TypeOK
    <3> QED BY <1>3, <2>2, <3>1 DEF Nats!OnNatsMessage, Nats!OnAnswer, Nats!Report
  <2>3. CASE Nats!OnOther(m)
    BY <1>3, <2>3 DEF Nats!OnNatsMessage, Nats!OnOther
  <2> QED BY <1>3, <2>1, <2>2, <2>3 DEF Nats!OnNatsMessage
<1>4. message' \in Nats!Message \cup {Nil} /\ report' \in Nats!Report \cup {Nil}
  <2>1. ASSUME NEW c \in Nats!Calls, Nats!Call(c)
        PROVE  UNCHANGED <<message, report>>
    BY <2>1 DEF Nats!Call
  <2>2. ASSUME NEW s \in Methods \cup Inboxes \cup {Nil}
        PROVE  [subject |-> s, reply_to |-> Nil] \in Nats!Message
    BY DEF Nats!Message
  <2>3. ASSUME NEW s \in Methods \cup Inboxes \cup {Nil},
               Nats!OnNatsMessage([subject |-> s, reply_to |-> Nil])
        PROVE  message' \in Nats!Message /\ report' \in Nats!Report \cup {Nil}
    BY <1>3, <2>2, <2>3
  <2>4. ASSUME NEW c \in Nats!Calls, Nats!SeeRequest(c)
        PROVE  message' \in Nats!Message /\ report' \in Nats!Report \cup {Nil}
    <3>1. c[1] \in Methods /\ c[2] \in Inboxes
      BY DEF Nats!Calls
    <3>2. [subject |-> c[1], reply_to |-> c[2]] \in Nats!Message
      BY <3>1 DEF Nats!Message
    <3>3. CASE Nats!OnNatsMessage([subject |-> c[1], reply_to |-> c[2]])
      BY <1>3, <3>1, <3>2, <3>3
    <3>4. CASE \E s \in {c[1], Nil} : Nats!OnNatsMessage([subject |-> s, reply_to |-> Nil])
      BY <2>3, <3>1, <3>4
    <3> QED BY <2>4, <3>3, <3>4 DEF Nats!SeeRequest
  <2>5. ASSUME NEW c \in Nats!Calls, Nats!SeeAnswer(c)
        PROVE  message' \in Nats!Message /\ report' \in Nats!Report \cup {Nil}
    BY <2>3, <2>5 DEF Nats!SeeAnswer, Nats!Calls
  <2>6. ASSUME NEW s \in Methods, Nats!SeePublished(s)
        PROVE  message' \in Nats!Message /\ report' \in Nats!Report \cup {Nil}
    BY <2>3, <2>6 DEF Nats!SeePublished
  <2>7. message \in Nats!Message \cup {Nil} /\ report \in Nats!Report \cup {Nil}
    BY DEF Nats!TypeOK
  <2> QED BY <2>1, <2>4, <2>5, <2>6, <2>7 DEF Nats!Next
<1>5. /\ Nats!Calls' = Nats!Calls /\ Nats!Message' = Nats!Message
      /\ Nats!Report' = Nats!Report
  BY DEF Nats!Calls, Nats!Message, Nats!Report
<1> QED BY <1>2, <1>4, <1>5 DEF Nats!TypeOK

LEMMA MessageTypes ==
  ASSUME Message!TypeOK, Message!Next
  PROVE  Message!TypeOK'
<1> DEFINE Outcomes == [tag: {"next", "abort", "error"}]
           Infos == [tag: {"info"}, code: BodyCodes \cup {Nil},
                     status: {"ok", "client_error", "server_error", Nil}, trace: BOOLEAN]
<1>1. 0 \in BodyCodes
  BY ExamplesAssumption DEF Message!MessageAssumption
<1>2. ASSUME NEW tag \in {"next", "abort", "error"}
      PROVE  Message!Outcome(tag) \in Outcomes
  BY DEF Message!Outcome
<1>3. ASSUME NEW c \in BodyCodes \cup {Nil},
             NEW s \in {"ok", "client_error", "server_error", Nil}, NEW x \in BOOLEAN
      PROVE  [tag |-> "info", code |-> c, status |-> s, trace |-> x] \in Infos
  OBVIOUS
<1> HIDE DEF Outcomes, Infos
<1>4. message' = message
  BY DEF Message!Next, Message!OnCustomReq, Message!EmptyValue, Message!OnCustomResp,
         Message!onZMTPMessage, Message!OnHttpReq, Message!OnHttpResp, Message!Return
<1>5. CASE Message!OnCustomReq \/ Message!EmptyValue
  <2>1. report' \in Outcomes
    BY <1>2, <1>5 DEF Message!OnCustomReq, Message!EmptyValue, Message!Return
  <2> QED BY <1>4, <2>1 DEF Message!TypeOK, Outcomes
<1>6. CASE Message!OnCustomResp
  <2>1. Message!GetInt(message) \in BodyCodes
    BY <1>1 DEF Message!GetInt
  <2>0. FALSE \in BOOLEAN
    OBVIOUS
  <2>5. PICK c \in BodyCodes :
          report' = [tag |-> "info", code |-> c, status |-> Message!DubboStatus(c),
                     trace |-> FALSE]
    BY <1>1, <1>6, <2>1 DEF Message!OnCustomResp, Message!Return
  <2>2. \A cc : Message!DubboStatus(cc) \in {"ok", "client_error", "server_error", Nil}
    BY DEF Message!DubboStatus
  <2>3. report' \in Infos
    BY <1>3, <2>0, <2>2, <2>5
  <2> QED BY <1>4, <2>3 DEF Message!TypeOK, Infos
<1>7. CASE Message!onZMTPMessage
  <2>1. report' \in Outcomes \/ report' \in Infos
    BY <1>2, <1>3, <1>7 DEF Message!onZMTPMessage, Message!Return
  <2> QED BY <1>4, <2>1 DEF Message!TypeOK, Outcomes, Infos
<1>8. CASE Message!OnHttpReq
  <2>1. message \in Message!HttpReq
    BY <1>8 DEF Message!TypeOK, Message!OnHttpReq, Message!Messages, Message!DubboMessage,
                Message!ZmtpMessage, Message!HttpResp
  <2>2. message.traceId \in BOOLEAN /\ message.spanId \in BOOLEAN
    BY <2>1 DEF Message!HttpReq
  <2>3. (message.traceId /\ message.spanId) \in BOOLEAN
    BY <2>2, Zenon
  <2>4. report' \in Outcomes \/ report' \in Infos
    BY <1>2, <1>3, <1>8, <2>3 DEF Message!OnHttpReq, Message!Return
  <2> QED BY <1>4, <2>4 DEF Message!TypeOK, Outcomes, Infos
<1>9. CASE Message!OnHttpResp
  <2>1. report' \in Outcomes \/ report' \in Infos
    BY <1>2, <1>3, <1>9 DEF Message!OnHttpResp, Message!Return
  <2> QED BY <1>4, <2>1 DEF Message!TypeOK, Outcomes, Infos
<1> QED BY <1>5, <1>6, <1>7, <1>8, <1>9 DEF Message!Next

LEMMA UprobeTypes ==
  ASSUME RecordInv, Uprobe!KeyAndValueArrived', Uprobe!TypeOK, Uprobe!Next
  PROVE  Uprobe!TypeOK'
<1>1. UNCHANGED <<kind, rec>>
  BY DEF Uprobe!Next, Uprobe!PayloadFails, Uprobe!ParseHeader, Uprobe!ParseData,
         Uprobe!NotOurs, Uprobe!NoSuchRecord, Uprobe!Passes
<1>2. ASSUME NEW tag \in {"running", "next", "unread", "error", "trap"}
      PROVE  Uprobe!Outcome(tag) \in Uprobe!Result
  BY DEF Uprobe!Outcome, Uprobe!Result
<1>3. /\ rec.keyLen \in Nat /\ rec.valLen \in Nat /\ rec.have \in 0..MaxHave
      /\ MaxHave \in Nat
  <2>1. /\ rec.keyLen \in Lengths /\ rec.valLen \in Lengths /\ rec.have \in 0..MaxHave
    BY DEF RecordInv, Uprobe!Record
  <2>2. MaxHave \in Nat /\ Lengths \subseteq Nat
    BY UprobeConstants
  <2> QED BY <2>1, <2>2
<1>4. ASSUME Uprobe!ParseHeader PROVE result' \in Uprobe!Result
  <2>1. CASE result' = Uprobe!Outcome("error") \/ result' = Uprobe!Outcome("trap")
    BY <1>2, <2>1
  <2>2. CASE \E tag \in {"header", "badStatus"} :
               result' = [tag |-> tag, key |-> Uprobe!Key, val |-> Uprobe!Val]
    <3>1. PICK tag \in {"header", "badStatus"} :
               result' = [tag |-> tag, key |-> Uprobe!Key, val |-> Uprobe!Val]
      BY <2>2
    <3>2. /\ result'.key = <<16, 16 + rec.keyLen>>
          /\ result'.val = <<16 + rec.keyLen, 16 + rec.keyLen + rec.valLen>>
          /\ result'.val[2] <= rec.have
      BY <1>1, <3>1 DEF Uprobe!KeyAndValueArrived
    <3>3. result' = [tag |-> tag, key |-> <<16, 16 + rec.keyLen>>,
                     val |-> <<16 + rec.keyLen, 16 + rec.keyLen + rec.valLen>>]
      BY <3>1, <3>2
    <3>4. /\ 16 \in 0..MaxHave /\ 16 + rec.keyLen \in 0..MaxHave
          /\ 16 + rec.keyLen + rec.valLen \in 0..MaxHave
      BY <1>3, <3>2
    <3> QED BY <3>3, <3>4 DEF Uprobe!Result, Uprobe!Offsets
  <2> QED BY <1>4, <2>1, <2>2 DEF Uprobe!ParseHeader
<1>5. ASSUME Uprobe!ParseData PROVE result' \in Uprobe!Result
  <2>1. CASE result' = Uprobe!Outcome("error") \/ result' = Uprobe!Outcome("trap")
    BY <1>2, <2>1
  <2>2. CASE Uprobe!DataLongEnough /\ \E tag \in {"data", "undecodable"} :
               result' = [tag |-> tag, data |-> Uprobe!Data]
    <3>1. 13 \in 0..MaxHave
      BY <1>3, <2>2 DEF Uprobe!DataLongEnough
    <3>2. Uprobe!Data \in Uprobe!Offsets
      BY <1>3, <3>1 DEF Uprobe!Data, Uprobe!Offsets
    <3> QED BY <2>2, <3>2 DEF Uprobe!Result
  <2> QED BY <1>5, <2>1, <2>2 DEF Uprobe!ParseData
<1>6. result' \in Uprobe!Result
  BY <1>2, <1>4, <1>5 DEF Uprobe!Next, Uprobe!PayloadFails, Uprobe!NotOurs,
                          Uprobe!NoSuchRecord, Uprobe!Passes
<1> QED BY <1>1, <1>6 DEF Uprobe!TypeOK, Uprobe!Record, Uprobe!Result, Uprobe!Offsets

\* A resolved part and what is left of the name are the name.
LEMMA GenTypes ==
  ASSUME SearchInv
  PROVE  Gen!TypeOK
<1>0. RefInv /\ TryInv
  BY DEF SearchInv
<1> DEFINE N == Gen!Name
           n == Len(pkgpath)
           F == Gen!Front(N)
<1>1. /\ N \in Seq(STRING) /\ Len(N) \in Nat /\ F = SubSeq(N, 1, Len(N) - 1)
      /\ pkgpath = SubSeq(N, 1, n) /\ n \in 0..Len(N) - 1 /\ Len(N) > 0
  <2>1. N \in Seq(STRING) /\ Len(N) \in Nat /\ F = SubSeq(N, 1, Len(N) - 1)
    BY <1>0, NamesAreTyped, Zenon
  <2>2. pkgpath = SubSeq(N, 1, n) /\ n \in 0..Len(N) - 1
    BY <1>0 DEF TryInv
  <2> HIDE DEF N, n, F
  <2> QED BY <2>1, <2>2
<1>2. Gen!IsPrefix(pkgpath, F)
  <2> HIDE DEF N, n, F
  <2>1. Len(N) - 1 \in 0..Len(N) /\ n \in 0..Len(N) - 1 /\ n <= Len(N) - 1 /\ n \in 0..Len(N)
    BY <1>1
  <2>2. Len(F) = Len(N) - 1 /\ SubSeq(F, 1, n) = SubSeq(N, 1, n)
    BY <1>1, <2>1, BeginningOf, BeginningOfBeginning
  <2>3. SubSeq(pkgpath, 1, n) = SubSeq(N, 1, n)
    BY <1>1, <2>1, BeginningOfBeginning
  <2> QED BY <2>1, <2>2, <2>3 DEF Gen!IsPrefix, n
<1>3. fd \in DOMAIN files \cup {Nil} /\ (fd # Nil => Found)
  BY <1>0 DEF SearchInv, TryInv, Found
<1>4. ASSUME Found PROVE N = files[fd].package \o d \o path
  <2> DEFINE m == ref.message
             k == Len(d)
             p == Home.package
  <2>1. m \in Seq(STRING) /\ p \in Seq(STRING) /\ Len(m) \in Nat /\ N = p \o m
    BY <1>0, NamesAreTyped
  <2>2. /\ k \in 0..Len(m) /\ d = SubSeq(m, 1, k) /\ path = SubSeq(m, k + 1, Len(m))
        /\ files[fd].package = p
    BY <1>4 DEF Found
  <2> HIDE DEF m, k, p, N
  <2>3. d \in Seq(STRING) /\ path \in Seq(STRING)
    BY <2>1, <2>2
  <2>4. d \o path = m
    <3>1. 1 \in 1..Len(m) + 1 /\ k \in 1 - 1 .. Len(m) /\ Len(m) \in k..Len(m)
      BY <2>1, <2>2
    <3>2. SubSeq(m, 1, k) \o SubSeq(m, k + 1, Len(m)) = SubSeq(m, 1, Len(m))
      BY <2>1, <3>1, ConcatAdjacentSubSeq, Zenon
    <3>3. SubSeq(m, 1, Len(m)) = m
      BY <2>1, SubSeqFull
    <3> QED BY <2>2, <3>2, <3>3, Zenon
  <2>5. (p \o d) \o path = p \o (d \o path)
    BY <2>1, <2>3, ConcatAssociative, SMTT(30)
  <2> QED BY <2>1, <2>2, <2>4, <2>5, Zenon
<1> QED BY <1>0, <1>2, <1>3, <1>4 DEF SearchInv, RefInv, Home, Gen!TypeOK

KnownInv == LlmInv /\ NatsInv /\ UprobeInv /\ GenInv

\* The types of the generator follow from its invariant.
PluginTypes ==
  /\ plugin = "llm"     => Llm!TypeOK
  /\ plugin = "rewrite" => Rewrite!TypeOK
  /\ plugin = "uprobe"  => Uprobe!TypeOK
  /\ plugin = "flow"    => Flow!TypeOK
  /\ plugin = "nats"    => Nats!TypeOK
  /\ plugin = "message" => Message!TypeOK

LEMMA TypesInit == Init => PluginTypes
<1> SUFFICES ASSUME Init PROVE PluginTypes
  OBVIOUS
<1>1. ASSUME plugin = "llm" PROVE Llm!TypeOK
  <2>1. Llm!Init
    BY <1>1 DEF Init
  <2> QED BY <2>1, LlmConstants, QuietIsTraffic DEF Llm!Init, Llm!TypeOK
<1>2. ASSUME plugin = "rewrite" PROVE Rewrite!TypeOK
  <2>1. Rewrite!Init
    BY <1>2 DEF Init
  <2> QED BY <2>1 DEF Rewrite!Init, Rewrite!TypeOK
<1>3. ASSUME plugin = "uprobe" PROVE Uprobe!TypeOK
  <2>1. Uprobe!Init
    BY <1>3 DEF Init
  <2> QED BY <2>1 DEF Uprobe!Init, Uprobe!TypeOK, Uprobe!Outcome, Uprobe!Result
<1>4. ASSUME plugin = "flow" PROVE Flow!TypeOK
  <2>1. Flow!Init
    BY <1>4 DEF Init
  <2> QED BY <2>1 DEF Flow!Init, Flow!TypeOK, Flow!Outcome, Flow!Report
<1>5. ASSUME plugin = "nats" PROVE Nats!TypeOK
  <2>1. Nats!Init
    BY <1>5 DEF Init
  <2> QED BY <2>1 DEF Nats!Init, Nats!TypeOK
<1>6. ASSUME plugin = "message" PROVE Message!TypeOK
  <2>1. Message!Init
    BY <1>6 DEF Init
  <2> QED BY <2>1 DEF Message!Init, Message!TypeOK
<1> QED BY <1>1, <1>2, <1>3, <1>4, <1>5, <1>6 DEF PluginTypes

LEMMA TypesNext ==
  ASSUME KnownInv, KnownInv', PluginTypes, Next
  PROVE  PluginTypes'
<1> USE OnlyOwnSteps
<1>1. ASSUME plugin' = "llm" PROVE Llm!TypeOK'
  BY <1>1, LlmTypes DEF KnownInv, LlmInv, PluginTypes
<1>2. ASSUME plugin' = "rewrite" PROVE Rewrite!TypeOK'
  BY <1>2, RewriteTypes DEF PluginTypes
<1>3. ASSUME plugin' = "uprobe" PROVE Uprobe!TypeOK'
  BY <1>3, UprobeTypes DEF KnownInv, UprobeInv, PluginTypes
<1>4. ASSUME plugin' = "flow" PROVE Flow!TypeOK'
  BY <1>4, FlowTypes DEF PluginTypes
<1>5. ASSUME plugin' = "nats" PROVE Nats!TypeOK'
  BY <1>5, NatsTypes DEF KnownInv, NatsInv, PluginTypes
<1>6. ASSUME plugin' = "message" PROVE Message!TypeOK'
  BY <1>6, MessageTypes DEF PluginTypes
<1> QED BY <1>1, <1>2, <1>3, <1>4, <1>5, <1>6 DEF PluginTypes

LEMMA KnownInit == Init => KnownInv
BY LlmInit, NatsInit, UprobeInit, SearchInit DEF KnownInv

LEMMA KnownNext == KnownInv /\ [Next]_vars => KnownInv'
BY LlmNext, NatsNext, UprobeNext, SearchNext DEF KnownInv

\* Whatever the constants, every plugin's state is well typed and every call
\* returns one of the answers it can return: codes, delays and offsets stay in
\* their range (llm.go:113-190, http_status_rewrite.go:154-189,
\* go_http2_uprobe.go:129-225, krpc.go:120-150, nats.go:44-63, dubbo.go:62-99).
THEOREM ExamplesAreTyped == Spec => []TypeOK
<1>1. KnownInv /\ KnownInv' /\ PluginTypes /\ [Next]_vars => PluginTypes'
  <2> SUFFICES ASSUME KnownInv, KnownInv', PluginTypes, [Next]_vars PROVE PluginTypes'
    OBVIOUS
  <2>1. CASE Next
    BY <2>1, TypesNext
  <2>2. CASE UNCHANGED vars
    <3> USE <2>2 DEF PluginTypes, vars
    <3>1. (plugin = "llm" => Llm!TypeOK)'
      BY DEF Llm!TypeOK, llmVars
    <3>2. (plugin = "rewrite" => Rewrite!TypeOK)'
      BY DEF Rewrite!TypeOK, rewriteVars, Rewrite!Body, Rewrite!Written,
             Rewrite!Arrived, Rewrite!Status
    <3>3. (plugin = "uprobe" => Uprobe!TypeOK)'
      BY DEF Uprobe!TypeOK, uprobeVars, Uprobe!Record, Uprobe!Result, Uprobe!Offsets
    <3>4. (plugin = "flow" => Flow!TypeOK)'
      BY DEF Flow!TypeOK, flowVars
    <3>5. (plugin = "nats" => Nats!TypeOK)'
      BY DEF Nats!TypeOK, natsVars, Nats!Calls, Nats!Message, Nats!Report
    <3>6. (plugin = "message" => Message!TypeOK)'
      BY DEF Message!TypeOK
    <3> QED BY <3>1, <3>2, <3>3, <3>4, <3>5, <3>6
  <2> QED BY <2>1, <2>2
<1>2. KnownInv /\ PluginTypes => TypeOK
  BY GenTypes DEF KnownInv, GenInv, PluginTypes, TypeOK
<1> QED BY KnownInit, KnownNext, TypesInit, <1>1, <1>2, PTL DEF Spec

==============================================================================
