---------------------------- MODULE MCVtUnmarshal ----------------------------
(* Instance of VtUnmarshal: messages with every kind of field, absent,     *)
(* empty and set, alone and one behind the other, and bytes no writer      *)
(* makes.                                                                  *)
EXTENDS VtUnmarshal

a == <<97>>
bc == <<98, 99>>

\* Field 40 with a varint, field 41 with text, field 42 with a group and
\* fields 43 and 44 of fixed width, as a newer schema may have them.
Newer == { <<192, 2, 5>>, <<202, 2, 1, 9>>, <<211, 2, 8, 7, 212, 2>>,
           <<221, 2, 1, 2, 3, 4>>, <<225, 2, 1, 2, 3, 4, 5, 6, 7, 8>> }

With(m, fields) == fields @@ m

Requests ==
  { Empty("AppRequest"),
    With(Empty("AppRequest"), [version |-> a, endpoint |-> <<>>]),
    With(Empty("AppRequest"), [type |-> bc, domain |-> a, resource |-> a,
                               unknown |-> <<192, 2, 5>>]) }

Responses ==
  { With(Empty("AppResponse"), [status |-> 0, code |-> -1]),
    With(Empty("AppResponse"), [status |-> 3, code |-> 404, exception |-> a]),
    With(Empty("AppResponse"), [result |-> bc, type |-> <<>>, endpoint |-> a]) }

Traces ==
  { With(Empty("AppTrace"), [trace_id |-> a, trace_ids |-> <<a, <<>>>>]),
    With(Empty("AppTrace"), [span_id |-> a, parent_span_id |-> bc,
                             trace_ids |-> <<bc>>]),
    With(Empty("AppTrace"), [x_request_id |-> a, http_proxy_client |-> a]) }

KeyVals ==
  { With(Empty("KeyVal"), [key |-> k, val |-> v, unknown |-> u]) :
      k \in {<<>>, a}, v \in {<<>>, bc}, u \in {<<>>} \cup Newer }

Infos ==
  { Empty("AppInfo"),
    With(Empty("AppInfo"),
         [req_len |-> 0, resp_len |-> 200, request_id |-> Word32 - 1,
          req |-> With(Empty("AppRequest"), [version |-> a]),
          biz_type |-> 1, biz_code |-> a]),
    With(Empty("AppInfo"),
         [request_id |-> 300, req |-> With(Empty("AppRequest"), [type |-> bc]),
          trace |-> With(Empty("AppTrace"), [trace_id |-> a, trace_ids |-> <<a>>]),
          is_end |-> TRUE, is_async |-> FALSE, unknown |-> <<192, 2, 5>>]),
    With(Empty("AppInfo"),
         [resp |-> With(Empty("AppResponse"), [code |-> -2, result |-> a]),
          trace |-> With(Empty("AppTrace"), [span_id |-> bc, trace_ids |-> <<bc>>]),
          attributes |-> <<With(Empty("KeyVal"), [key |-> a]), Nil>>,
          is_reversed |-> TRUE, biz_scenario |-> <<>>, biz_response_code |-> bc]),
    With(Empty("AppInfo"),
         [protocol_str |-> a, resp |-> Empty("AppResponse"),
          attributes |-> <<With(Empty("KeyVal"), [key |-> a, val |-> bc])>>]) }

\* A oneof with a nil inside, which only its size and bytes are compared of.
NilInfos == { With(Empty("AppInfo"), [req |-> Nil]),
              With(Empty("AppInfo"), [resp |-> Nil, req_len |-> 1]) }

Nats ==
  { With(Empty("NatsMessage"), [subject |-> s, reply_to |-> r, payload |-> p]) :
      s \in {<<>>, bc}, r \in {<<>>, a}, p \in {<<>>, <<1, 2, 3>>} }
    \cup { With(Empty("NatsMessage"), [payload |-> a, unknown |-> u]) : u \in Newer }

Zmtps ==
  { With(Empty("ZmtpMessage"), [payload |-> p]) : p \in {<<>>, bc} }
    \cup { With(Empty("ZmtpMessage"), [match_pattern |-> p, payload |-> a,
                                       unknown |-> <<192, 2, 5>>]) : p \in {<<>>, bc} }

\* Longer than a length of one byte counts.
Long == With(Empty("ZmtpMessage"), [payload |-> [k \in 1..130 |-> k]])

Singles(type, ms) == {[type |-> type, messages |-> <<m>>] : m \in ms}
Pairs(type, ms) == {[type |-> type, messages |-> <<m, n>>] : m, n \in ms}

MCSent ==
  Singles("AppRequest", Requests) \cup Pairs("AppRequest", Requests)
    \cup Singles("AppResponse", Responses) \cup Singles("AppTrace", Traces)
    \cup Pairs("AppTrace", Traces) \cup Singles("KeyVal", KeyVals)
    \cup Singles("AppInfo", Infos \cup NilInfos) \cup Pairs("AppInfo", Infos)
    \cup Singles("NatsMessage", Nats) \cup Pairs("NatsMessage", Nats)
    \cup Singles("ZmtpMessage", Zmtps) \cup Pairs("ZmtpMessage", Zmtps)
    \cup {[type |-> "ZmtpMessage", messages |-> <<Long>>]}

\* A tag of ten bytes and more, no field number, the end of a group, wire
\* types that do not fit, numbers wider than the field, lengths that are
\* negative, overflow or lie, and groups that do not close.
MCRaw ==
  { [type |-> "NatsMessage", bytes |-> b] :
      b \in { <<138, 128, 128, 128, 0>>, <<128, 128, 128, 128>>, <<2, 1, 1>>, <<12>>,
              <<8, 1>>, <<10, 255, 63, 1>>, <<10, 255, 127, 1>>, <<10, 255, 31, 1>>,
              <<10, 128, 128, 128, 128>>, <<10, 1, 97, 18, 5, 98>>,
              <<211, 2, 8, 7>>, <<211, 2, 204, 2>>, <<202, 2, 255, 127, 1>>,
              <<199, 2, 1>> } }
    \cup { [type |-> "AppInfo", bytes |-> b] :
             b \in { <<8, 255, 255, 127>>, <<10, 1, 97>>, <<90, 2, 16, 255>>,
                     <<90, 4, 16, 255, 255, 127>>, <<98, 3, 10, 3, 97, 98, 99, 8, 1>>,
                     <<82, 0, 250, 1, 2, 10, 9>>, <<168, 1, 128, 128, 4>>,
                     <<82, 3, 10, 1, 97, 82, 2, 10, 9>>, <<90, 3, 26, 1, 97, 82, 2, 10, 9>> } }
=============================================================================
