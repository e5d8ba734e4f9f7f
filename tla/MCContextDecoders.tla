------------------------- MODULE MCContextDecoders -------------------------
(* Instance of ContextDecoders: messages of every kind, each cut at every  *)
(* length.                                                                 *)
EXTENDS ContextDecoders

Bytes(n, first) == [k \in 1..n |-> first + k]

\* Contexts of both address lengths, with and without a process name, at the
\* ends of the byte and with unknown codes.
MCCtx == [ srcIP |-> Bytes(4, 10), dstIP |-> Bytes(4, 20), srcPort |-> 53000,
           dstPort |-> 80, l4 |-> 6, l7 |-> 20, ebpfType |-> 0,
           time |-> Bytes(8, 30), direction |-> 0, procName |-> <<>>,
           flowID |-> Bytes(8, 40), bufSize |-> 65535 ]

MCCtxSent ==
  { [MCCtx EXCEPT !.l4 = l, !.ebpfType = e, !.direction = d, !.procName = p] :
      l \in {6, 17, 1}, e \in {0, 255, 3}, d \in {0, 1, 2},
      p \in {<<>>, <<97, 98>>} }
  \cup { [MCCtx EXCEPT !.srcIP = Bytes(16, 50), !.dstIP = Bytes(16, 70),
                       !.procName = p] : p \in {<<>>, Bytes(3, 96)} }

\* Empty, short and over-one-byte-long strings in every place.
MCLong == [k \in 1..258 |-> k % 256]

MCReqSent == [1..4 -> {<<>>, <<7>>, <<0, 1, 2>>}]
               \cup {<<MCLong, <<>>, <<9>>, <<>>>>, <<<<>>, <<9>>, <<>>, MCLong>>}

\* Every known status and two unknown ones; no, an empty, a short and a
\* two-byte-long endpoint.
MCRespSent ==
  [ code: {200, 504}, status: {0, 1, 2, 3, 4, 5, 255},
    endpoint: {Nil, <<>>, <<47>>, <<47, 97, 0>>} ]
  \cup [ code: {200}, status: {0}, endpoint: {[k \in 1..257 |-> k % 256]} ]

\* With a page of 16 bytes and 2^32 scaled to 64: lengths that fit, that lie
\* by one, and around the ones that wrap.
MCMsgSent ==
  [ hook: {1}, type: {7}, length: {0, 1, 2, 3, 6, 7, 16, 53, 54, 55, 63},
    payload: {<<>>, <<9>>, <<9, 8, 7>>, <<9, 8, 7, 6, 5, 4>>} ]
=============================================================================
