---------------------------- MODULE MessagePlugins ----------------------------
(***************************************************************************)
(* The example plugins that look at one message at a time: Dubbo           *)
(* (example/dubbo/dubbo.go), ZMTP (example/zmtp/zmtp.go) and HTTP          *)
(* (example/http/http.go).  The JSON, HTTP and protobuf libraries are      *)
(* external: a payload is what its sender wrote and whether it arrived to  *)
(* the end.                                                                *)
(***************************************************************************)
EXTENDS Integers

CONSTANTS
  Nil,   \* absent
  Text,  \* a code that is no number
  Codes  \* the numbers a body gives as its code

MessageAssumption == 0 \in Codes /\ Codes \subseteq Int /\ Nil \notin Codes

VARIABLES
  message,  \* the message of the call
  report    \* what came of it, Nil before

vars == <<message, report>>

\* short: less than the header and the type of the value; json: the body
\* arrived and is JSON; code: Text when it is there but no number.
DubboMessage ==
  [plugin: {"dubbo"}, Direction: {"req", "resp"}, readable: BOOLEAN,
   short: BOOLEAN, json: BOOLEAN, code: Codes \cup {Text, Nil}]

\* ours: parse hook and protocol ZMTP; outer, inner: the two decodings.
ZmtpMessage ==
  [plugin: {"zmtp"}, ours: BOOLEAN, outer: BOOLEAN, inner: BOOLEAN]

\* here: the port and, of a request, the path; parses: http.ReadRequest or
\* http.ReadResponse; body: io.ReadAll has no error.
HttpReq ==
  [plugin: {"http_req"}, here: BOOLEAN, readable: BOOLEAN, parses: BOOLEAN,
   traceId: BOOLEAN, spanId: BOOLEAN]

HttpResp ==
  [plugin: {"http_resp"}, here: BOOLEAN, readable: BOOLEAN, parses: BOOLEAN,
   body: BOOLEAN, json: BOOLEAN, code: Codes \cup {Text, Nil}, data: BOOLEAN]

Messages == DubboMessage \cup ZmtpMessage \cup HttpReq \cup HttpResp

TypeOK ==
  /\ message \in Messages
  /\ report = Nil
     \/ report \in [tag: {"next", "abort", "error"}]
     \/ report \in [tag: {"info"}, code: Codes \cup {Nil},
                    status: {"ok", "client_error", "server_error", Nil},
                    trace: BOOLEAN]

Init == message \in Messages /\ report = Nil

Return(r) == report = Nil /\ report' = r /\ UNCHANGED message

Outcome(tag) == [tag |-> tag]

------------------------------------------------------------------------------
(* What fastjson makes of a body *)

Exists(m, v) == m.json /\ v # Nil

\* GetInt of what is not a number.
GetInt(m) == IF m.json /\ m.code \in Codes THEN m.code ELSE 0

------------------------------------------------------------------------------
OnCustomReq ==
  /\ message.plugin = "dubbo" /\ message.Direction = "req"
  /\ Return(Outcome(IF message.readable THEN "abort" ELSE "error"))

EmptyValue ==
  /\ message.plugin = "dubbo" /\ message.Direction = "resp"
  /\ ~message.readable \/ message.short
  /\ Return(Outcome(IF message.readable THEN "abort" ELSE "error"))

\* A mutant: the two kinds of error overlap the other way.
DubboStatusClientFirst(c) ==
  IF c >= 400 THEN "client_error" ELSE IF c >= 500 THEN "server_error" ELSE "ok"

DubboStatus(c) ==
  IF c >= 500 THEN "server_error" ELSE IF c >= 400 THEN "client_error" ELSE "ok"

OnCustomResp ==
  /\ message.plugin = "dubbo" /\ message.Direction = "resp"
  /\ message.readable /\ ~message.short
  /\ LET code == IF Exists(message, message.code) THEN GetInt(message) ELSE 0
     IN  Return([tag |-> "info", code |-> code, status |-> DubboStatus(code),
                 trace |-> FALSE])

onZMTPMessage ==
  /\ message.plugin = "zmtp"
  /\ IF message.ours /\ message.outer /\ message.inner
     THEN Return([tag |-> "info", code |-> Nil, status |-> Nil, trace |-> FALSE])
     ELSE Return(Outcome("next"))

OnHttpReq ==
  /\ message.plugin = "http_req"
  /\ CASE ~message.here -> Return(Outcome("next"))
       [] message.here /\ ~(message.readable /\ message.parses) -> Return(Outcome("error"))
       [] OTHER -> Return([tag |-> "info", code |-> Nil, status |-> Nil,
                           trace |-> message.traceId /\ message.spanId])

OnHttpResp ==
  /\ message.plugin = "http_resp"
  /\ CASE ~message.here -> Return(Outcome("next"))
       [] message.here /\ ~(message.readable /\ message.parses /\ message.body) ->
            Return(Outcome("error"))
       [] OTHER ->
            IF Exists(message, message.code) /\ message.data /\ GetInt(message) = 0
            THEN Return([tag |-> "info", code |-> Nil, status |-> Nil, trace |-> FALSE])
            ELSE Return(Outcome("abort"))

Next == OnCustomReq \/ EmptyValue \/ OnCustomResp \/ onZMTPMessage
          \/ OnHttpReq \/ OnHttpResp

Spec == Init /\ [][Next]_vars

------------------------------------------------------------------------------
(* Properties *)

\* A Dubbo answer whose value arrived is reported with the code in it, and is
\* a success exactly when that is below 400; one without a code, with a text
\* for it or cut short is a success with the code 0 (dubbo.go:79-99).
FailuresSurface ==
  report # Nil /\ message.plugin = "dubbo" /\ report.tag = "info"
    => /\ message.json /\ message.code \in Codes => report.code = message.code
       /\ (report.status = "server_error") = (report.code >= 500)
       /\ (report.status = "client_error") = (report.code \in 400..499)

==============================================================================
