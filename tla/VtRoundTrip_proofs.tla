-------------------------- MODULE VtRoundTrip_proofs --------------------------
(***************************************************************************)
(* What MarshalVT writes, UnmarshalVT reads: the bytes of every message    *)
(* that can be sent are a list of fields, and the message they lead to is  *)
(* that message merged into the one they were read into.  With what        *)
(* VtUnmarshal_proofs shows of the decoders: what was sent is what is      *)
(* decoded, it survives a reuse of the buffer, and of a message that was   *)
(* cut only whole fields are read.                                         *)
(*                                                                         *)
(* The other way round, different messages are written as different bytes, *)
(* so that a decoded message is equal to another one exactly when the two  *)
(* are the same on the wire.                                               *)
(***************************************************************************)
EXTENDS VtUnmarshal_proofs

------------------------------------------------------------------------------
(* Part of one message read into another *)

\* What grows: each field is read behind what is there.
Lists == {"trace_ids", "attributes", "unknown"}

\* The fields a message always has.
LEMMA AlwaysHeld ==
  ASSUME NEW type \in Types, NEW f \in Names(type), f \in Plain \cup Lists
  PROVE  f \in DOMAIN Empty(type)
<1> USE NamesOfTypes DEF Plain, Lists, Empty
<1>1. CASE type = "AppRequest"
  BY <1>1
<1>2. CASE type = "AppResponse"
  BY <1>2
<1>3. CASE type = "AppTrace"
  BY <1>3
<1>4. CASE type = "KeyVal"
  BY <1>4
<1>5. CASE type = "AppInfo"
  BY <1>5
<1>6. CASE type = "NatsMessage"
  BY <1>6
<1>7. CASE type = "ZmtpMessage"
  BY <1>7
<1> QED BY <1>1, <1>2, <1>3, <1>4, <1>5, <1>6, <1>7 DEF Types

\* The other case of the oneof leaves once one of q is read.
Gone(q, F) ==
  IF {"req", "resp"} \cap F \cap DOMAIN q = {} THEN {} ELSE {"req", "resp"} \ DOMAIN q

\* What is in a field f of q once it is read into p.
Grown(p, q, f) ==
  IF f \notin DOMAIN p THEN q[f]
  ELSE IF f \in Inner THEN MergeFlat(p[f], q[f])
  ELSE IF f \in Plain /\ q[f] = <<>> THEN p[f] ELSE q[f]

\* Of q are read into p: the fields F, k of a list, u bytes of unknownFields.
PartField(p, q, F, k, u, f) ==
  IF f = "unknown" THEN p[f] \o SubSeq(q[f], 1, u)
  ELSE IF f \in Lists THEN p[f] \o SubSeq(q[f], 1, k)
  ELSE IF f \in F \cap DOMAIN q THEN Grown(p, q, f)
  ELSE p[f]

\* What p is when the fields F of q, k members of its lists and u of its
\* unknown bytes were read into it.
Partial(p, q, F, k, u) ==
  [f \in (DOMAIN p \ Gone(q, F)) \cup (F \cap DOMAIN q) |-> PartField(p, q, F, k, u, f)]

\* p and q are messages of the type.
Meet(type, p, q) == type \in Types /\ Good(Byte, type, p) /\ Good(Byte, type, q)

\* What two messages must be for one to be read into the other.
LEMMA MeetSays ==
  ASSUME NEW type, NEW p, NEW q, Meet(type, p, q)
  PROVE  /\ type \in Types /\ IsAFunction(p) /\ IsAFunction(q)
         /\ DOMAIN p \subseteq Names(type) /\ DOMAIN q \subseteq Names(type)
         /\ \A f \in Plain \cup Lists : f \in Names(type) => f \in DOMAIN p /\ f \in DOMAIN q
         /\ "unknown" \in DOMAIN p /\ "unknown" \in DOMAIN q
         /\ p.unknown \in Seq(Byte) /\ q.unknown \in Seq(Byte)
         /\ "trace_ids" \in DOMAIN p => p.trace_ids \in Seq(Seq(Byte)) /\ q.trace_ids \in Seq(Seq(Byte))
         /\ "attributes" \in DOMAIN p =>
              type = "AppInfo" /\ IsSequence(p.attributes) /\ IsSequence(q.attributes)
         /\ ~({"req", "resp"} \subseteq DOMAIN p) /\ ~({"req", "resp"} \subseteq DOMAIN q)
         /\ type = "AppInfo" => /\ \A f \in Inner \cap DOMAIN p : GoodFlat(Byte, TypeOf[f], p[f])
                                /\ \A f \in Inner \cap DOMAIN q : GoodFlat(Byte, TypeOf[f], q[f])
                                /\ "attributes" \in DOMAIN p /\ "attributes" \in DOMAIN q
                                /\ \A k \in DOMAIN q.attributes : GoodFlat(Byte, "KeyVal", q.attributes[k])
         /\ type # "AppInfo" => DOMAIN p \cap Nested = {} /\ DOMAIN q \cap Nested = {}
<1>1. /\ type \in Types /\ GoodFlat(Byte, type, p) /\ GoodFlat(Byte, type, q)
      /\ Good(Byte, type, p) /\ Good(Byte, type, q)
  BY DEF Meet, Good
<1>2. /\ Fits(type, p) /\ Fits(type, q) /\ TextGood(Byte, p) /\ TextGood(Byte, q)
  BY <1>1 DEF GoodFlat
<1>3. DOMAIN p \subseteq Names(type) /\ DOMAIN q \subseteq Names(type)
  BY <1>2 DEF Fits, Names
<1>4. \A f \in Plain \cup Lists : f \in Names(type) => f \in DOMAIN p /\ f \in DOMAIN q
  BY <1>1, <1>2, AlwaysHeld DEF Fits
<1>5. "unknown" \in DOMAIN p /\ "unknown" \in DOMAIN q
  BY <1>1, <1>2, AlwaysUnknown
<1>6. p.unknown \in Seq(Byte) /\ q.unknown \in Seq(Byte) /\ IsAFunction(p) /\ IsAFunction(q)
  BY <1>2, <1>5 DEF TextGood
<1>7. ASSUME "trace_ids" \in DOMAIN p
      PROVE  p.trace_ids \in Seq(Seq(Byte)) /\ q.trace_ids \in Seq(Seq(Byte))
  <2>1. "trace_ids" \in DOMAIN q
    BY <1>3, <1>4, <1>7 DEF Lists
  <2> QED BY <1>2, <1>7, <2>1 DEF TextGood
<1>8. type # "AppInfo" => DOMAIN p \cap Nested = {} /\ DOMAIN q \cap Nested = {}
  BY <1>1, <1>2, NothingNested
<1>9. type = "AppInfo" => /\ \A f \in Inner \cap DOMAIN p : GoodFlat(Byte, TypeOf[f], p[f])
                          /\ \A f \in Inner \cap DOMAIN q : GoodFlat(Byte, TypeOf[f], q[f])
                          /\ "attributes" \in DOMAIN p /\ "attributes" \in DOMAIN q
                          /\ IsSequence(p.attributes) /\ IsSequence(q.attributes)
                          /\ \A k \in DOMAIN q.attributes : GoodFlat(Byte, "KeyVal", q.attributes[k])
  BY <1>1, <1>2, AlwaysAttributes DEF Good
<1>10. "attributes" \in DOMAIN p => type = "AppInfo"
  BY <1>8 DEF Nested
<1>11. ~({"req", "resp"} \subseteq DOMAIN p) /\ ~({"req", "resp"} \subseteq DOMAIN q)
  BY <1>2 DEF Fits
<1> QED BY <1>1, <1>3, <1>4, <1>5, <1>6, <1>7, <1>8, <1>9, <1>10, <1>11

\* Behind an empty part nothing is new.
LEMMA NothingOf ==
  ASSUME NEW S, NEW a \in Seq(S), NEW T, NEW b \in Seq(T)
  PROVE  a \o SubSeq(b, 1, 0) = a
<1>1. SubSeq(b, 1, 0) = <<>>
  OBVIOUS
<1>2. a \o <<>> = a
  OBVIOUS
<1> QED BY <1>1, <1>2, Zenon

\* The lists of both.
LEMMA ListsAre ==
  ASSUME NEW type, NEW p, NEW q, Meet(type, p, q), NEW f \in Lists, f \in DOMAIN p \cup DOMAIN q
  PROVE  /\ IsSequence(p[f]) /\ IsSequence(q[f]) /\ f \in DOMAIN p /\ f \in DOMAIN q
         /\ p[f] \in Seq(Range(p[f])) /\ q[f] \in Seq(Range(q[f])) /\ Len(q[f]) \in Nat
<1>1. f \in DOMAIN p /\ f \in DOMAIN q
  BY MeetSays
<1>2. f = "unknown" \/ f = "trace_ids" \/ f = "attributes"
  BY DEF Lists
<1>3. IsSequence(p[f]) /\ IsSequence(q[f])
  <2>1. CASE f = "unknown"
    BY <2>1, MeetSays, SeqsAre
  <2>2. CASE f = "trace_ids"
    BY <1>1, <2>2, MeetSays, SeqsAre
  <2>3. CASE f = "attributes"
    BY <1>1, <2>3, MeetSays
  <2> QED BY <1>2, <2>1, <2>2, <2>3
<1> QED BY <1>1, <1>3 DEF IsSequence

\* Nothing is read yet.
LEMMA PartialNone ==
  ASSUME NEW type, NEW p, NEW q, Meet(type, p, q)
  PROVE  Partial(p, q, {}, 0, 0) = p
<1>1. (DOMAIN p \ Gone(q, {})) \cup ({} \cap DOMAIN q) = DOMAIN p
  BY DEF Gone
<1>2. ASSUME NEW f \in DOMAIN p PROVE PartField(p, q, {}, 0, 0, f) = p[f]
  <2>1. CASE f \in Lists
    <3>1. p[f] \o SubSeq(q[f], 1, 0) = p[f]
      BY <2>1, ListsAre, NothingOf
    <3> QED BY <2>1, <3>1 DEF PartField
  <2>2. CASE f \notin Lists
    BY <2>2 DEF PartField, Lists
  <2> QED BY <2>1, <2>2
<1>3. Partial(p, q, {}, 0, 0) = [f \in DOMAIN p |-> PartField(p, q, {}, 0, 0, f)]
  BY <1>1 DEF Partial
<1>4. [f \in DOMAIN p |-> PartField(p, q, {}, 0, 0, f)] = [f \in DOMAIN p |-> p[f]]
  BY <1>2
<1> QED BY <1>3, <1>4, MeetSays, Zenon DEF IsAFunction

\* A field q does not have.
LEMMA PartialWithout ==
  ASSUME NEW p, NEW q, NEW F, NEW k, NEW u, NEW f, f \notin DOMAIN q
  PROVE  Partial(p, q, F \cup {f}, k, u) = Partial(p, q, F, k, u)
<1>1. (F \cup {f}) \cap DOMAIN q = F \cap DOMAIN q
  OBVIOUS
<1>2. Gone(q, F \cup {f}) = Gone(q, F)
  BY DEF Gone
<1>3. \A g : PartField(p, q, F \cup {f}, k, u, g) = PartField(p, q, F, k, u, g)
  BY <1>1 DEF PartField
<1> QED BY <1>1, <1>2, <1>3 DEF Partial

\* A field of a value.
LEMMA PartialPut ==
  ASSUME NEW p, NEW q, NEW F, NEW k, NEW u, NEW f \in DOMAIN q, f \notin Lists, f \notin Nested
  PROVE  Put(Partial(p, q, F, k, u), f, Grown(p, q, f)) = Partial(p, q, F \cup {f}, k, u)
<1> DEFINE G == F \cup {f}
           n == Partial(p, q, F, k, u)
           D == (DOMAIN p \ Gone(q, F)) \cup (F \cap DOMAIN q)
           E == (DOMAIN p \ Gone(q, G)) \cup (G \cap DOMAIN q)
           v == Grown(p, q, f)
<1>1. Gone(q, G) = Gone(q, F)
  BY DEF Gone, Nested
<1>2. E = D \cup {f}
  <2>1. G \cap DOMAIN q = (F \cap DOMAIN q) \cup {f}
    OBVIOUS
  <2> HIDE DEF G
  <2> QED BY <1>1, <2>1
<1>3. n = [g \in D |-> PartField(p, q, F, k, u, g)]
  BY DEF Partial
<1>4. Partial(p, q, G, k, u) = [g \in E |-> PartField(p, q, G, k, u, g)]
  BY DEF Partial
<1>5. \A g : g # f => PartField(p, q, G, k, u, g) = PartField(p, q, F, k, u, g)
  <2>1. \A g : g # f => (g \in G \cap DOMAIN q <=> g \in F \cap DOMAIN q)
    OBVIOUS
  <2> HIDE DEF G
  <2> QED BY <2>1 DEF PartField
<1>6. PartField(p, q, G, k, u, f) = v
  BY DEF PartField, Lists
<1>7. Put(n, f, v) = [g \in DOMAIN n \cup {f} |-> IF g = f THEN v ELSE n[g]]
  BY DEF Put
<1> HIDE DEF D, E, G, n, v
<1>8. DOMAIN n = D /\ \A g \in D : n[g] = PartField(p, q, F, k, u, g)
  BY <1>3
<1>9. ASSUME NEW g \in E PROVE PartField(p, q, G, k, u, g) = IF g = f THEN v ELSE n[g]
  BY <1>2, <1>5, <1>6, <1>8
<1>10. Partial(p, q, G, k, u) = [g \in E |-> IF g = f THEN v ELSE n[g]]
  BY <1>4, <1>9
<1>11. Put(n, f, v) = Partial(p, q, G, k, u)
  BY <1>2, <1>7, <1>8, <1>10
<1> QED BY <1>11 DEF n, v, G

\* An empty field that is not sent.
LEMMA PartialPlain ==
  ASSUME NEW p, NEW q, NEW F, NEW k, NEW u, NEW f \in Plain, f \in DOMAIN p, q[f] = <<>>
  PROVE  Partial(p, q, F \cup {f}, k, u) = Partial(p, q, F, k, u)
<1>0. f \notin Lists /\ f \notin Nested /\ f \notin Inner
  BY DEF Plain, Lists, Nested, Inner
<1>1. CASE f \notin DOMAIN q
  BY <1>1, PartialWithout
<1>2. CASE f \in DOMAIN q
  <2> DEFINE n == Partial(p, q, F, k, u)
             v == Grown(p, q, f)
  <2>1. v = p[f]
    BY <1>0 DEF Grown
  <2>2. f \in DOMAIN n /\ n[f] = p[f]
    <3>1. f \in (DOMAIN p \ Gone(q, F)) \cup (F \cap DOMAIN q)
      BY <1>0 DEF Gone, Nested
    <3>2. PartField(p, q, F, k, u, f) = p[f]
      BY <1>0, <2>1 DEF PartField, Lists
    <3> QED BY <3>1, <3>2 DEF Partial
  <2>3. n = [g \in DOMAIN n |-> n[g]]
    BY DEF Partial
  <2> HIDE DEF n, v
  <2>4. Put(n, f, v) = n
    <3>1. Put(n, f, v) = [g \in DOMAIN n \cup {f} |-> IF g = f THEN v ELSE n[g]]
      BY DEF Put
    <3>2. DOMAIN n \cup {f} = DOMAIN n /\ \A g \in DOMAIN n : (IF g = f THEN v ELSE n[g]) = n[g]
      BY <2>1, <2>2
    <3>3. Put(n, f, v) = [g \in DOMAIN n |-> n[g]]
      BY <3>1, <3>2
    <3> QED BY <2>3, <3>3, Zenon
  <2> QED BY <1>0, <1>2, <2>4, PartialPut DEF n, v
<1> QED BY <1>1, <1>2

\* r is the part with the field f of q besides.
Besides(r, p, q, F, k, u, f) ==
  /\ IsAFunction(r)
  /\ DOMAIN r = (DOMAIN p \ Gone(q, F \cup {f})) \cup (F \cap DOMAIN q) \cup {f}
  /\ \A g \in DOMAIN r :
       r[g] = IF g = f THEN Grown(p, q, f) ELSE PartField(p, q, F, k, u, g)

\* One field more.
LEMMA PartialSet ==
  ASSUME NEW p, NEW q, NEW F, NEW k, NEW u, NEW f \in DOMAIN q, f \notin Lists, NEW r,
         Besides(r, p, q, F, k, u, f)
  PROVE  r = Partial(p, q, F \cup {f}, k, u)
<1> DEFINE G == F \cup {f}
           E == (DOMAIN p \ Gone(q, G)) \cup (G \cap DOMAIN q)
<1>0. /\ IsAFunction(r)
      /\ DOMAIN r = (DOMAIN p \ Gone(q, G)) \cup (F \cap DOMAIN q) \cup {f}
      /\ \A g \in DOMAIN r :
           r[g] = IF g = f THEN Grown(p, q, f) ELSE PartField(p, q, F, k, u, g)
  BY DEF Besides
<1>1. E = DOMAIN r
  <2>1. G \cap DOMAIN q = (F \cap DOMAIN q) \cup {f}
    OBVIOUS
  <2> HIDE DEF G
  <2> QED BY <1>0, <2>1
<1>2. \A g : g # f => PartField(p, q, G, k, u, g) = PartField(p, q, F, k, u, g)
  <2>1. \A g : g # f => (g \in G \cap DOMAIN q <=> g \in F \cap DOMAIN q)
    OBVIOUS
  <2> HIDE DEF G
  <2> QED BY <2>1 DEF PartField
<1>3. PartField(p, q, G, k, u, f) = Grown(p, q, f)
  BY DEF PartField, Lists
<1>4. Partial(p, q, G, k, u) = [g \in E |-> PartField(p, q, G, k, u, g)]
  BY DEF Partial
<1> HIDE DEF E, G
<1>5. \A g \in DOMAIN r : r[g] = PartField(p, q, G, k, u, g)
  BY <1>0, <1>2, <1>3
<1>6. r = [g \in DOMAIN r |-> PartField(p, q, G, k, u, g)]
  BY <1>0, <1>5 DEF IsAFunction
<1> QED BY <1>1, <1>4, <1>6 DEF G

\* What a nested decoder begins with, and what comes of it.
InnerBegins(p, f) == IF f \in DOMAIN p THEN p[f] ELSE Empty(TypeOf[f])

\* One nested message more.
LEMMA PartialInner ==
  ASSUME NEW p, NEW q, Meet("AppInfo", p, q), NEW F, NEW k, NEW u,
         NEW f \in Inner \cap DOMAIN q, f \notin F
  PROVE  /\ Attach(Partial(p, q, F, k, u), f, Grown(p, q, f)) = Partial(p, q, F \cup {f}, k, u)
         /\ f \in DOMAIN Partial(p, q, F, k, u) <=> f \in DOMAIN p
         /\ f \in DOMAIN p => Partial(p, q, F, k, u)[f] = p[f]
<1> DEFINE n == Partial(p, q, F, k, u)
           D == (DOMAIN p \ Gone(q, F)) \cup (F \cap DOMAIN q)
           v == Grown(p, q, f)
           r == Attach(n, f, v)
<1>1. ~({"req", "resp"} \subseteq DOMAIN p) /\ ~({"req", "resp"} \subseteq DOMAIN q)
  BY MeetSays
<1>2. f \in {"req", "resp", "trace"} /\ f \notin Lists /\ f # "attributes"
  BY DEF Inner, Lists
<1>3. DOMAIN n = D /\ \A g \in D : n[g] = PartField(p, q, F, k, u, g)
  BY DEF Partial
<1>4. f \notin Gone(q, F)
  BY DEF Gone
<1>5. f \in DOMAIN n <=> f \in DOMAIN p
  BY <1>3, <1>4
<1>6. f \in DOMAIN p => n[f] = p[f]
  <2>1. PartField(p, q, F, k, u, f) = p[f]
    BY <1>2 DEF PartField, Lists
  <2> HIDE DEF n
  <2> QED BY <1>3, <1>4, <2>1
<1> HIDE DEF n, v
<1>7. CASE f = "trace"
  <2>1. r = Put(n, f, v)
    BY <1>7 DEF Attach
  <2>2. Gone(q, F \cup {f}) = Gone(q, F)
    BY <1>7 DEF Gone
  <2>3. IsPut(r, n, f, v)
    BY <2>1, PutSays, Zenon
  <2> HIDE DEF r
  <2>4. DOMAIN r = (DOMAIN p \ Gone(q, F \cup {f})) \cup (F \cap DOMAIN q) \cup {f}
    BY <1>3, <2>2, <2>3 DEF IsPut
  <2>5. \A g \in DOMAIN r : r[g] = IF g = f THEN v ELSE PartField(p, q, F, k, u, g)
    BY <1>3, <2>3 DEF IsPut
  <2>6. r = Partial(p, q, F \cup {f}, k, u)
    <3>1. Besides(r, p, q, F, k, u, f)
      BY <2>3, <2>4, <2>5 DEF IsPut, Besides, v
    <3> QED BY <1>2, <3>1, PartialSet
  <2> QED BY <1>5, <1>6, <2>6 DEF r, n, v
<1>8. CASE f # "trace"
  <2> DEFINE m == [g \in DOMAIN n \ {"req", "resp"} |-> n[g]]
  <2>0. f \in {"req", "resp"}
    BY <1>2, <1>8
  <2>1. r = Put(m, f, v)
    BY <2>0 DEF Attach
  <2>2. IsPut(r, m, f, v)
    BY <2>1, PutSays, Zenon
  <2> HIDE DEF r
  <2>3. Gone(q, F \cup {f}) = {"req", "resp"} \ {f}
    BY <1>1, <2>0 DEF Gone
  <2>4. Gone(q, F) = {}
    BY <1>1, <2>0 DEF Gone
  <2>5. F \cap DOMAIN q \cap {"req", "resp"} = {}
    BY <1>1, <2>0
  <2>6. DOMAIN r = (DOMAIN n \ {"req", "resp"}) \cup {f}
    BY <2>2 DEF IsPut
  <2>7. DOMAIN r = (DOMAIN p \ Gone(q, F \cup {f})) \cup (F \cap DOMAIN q) \cup {f}
    BY <1>3, <2>0, <2>3, <2>4, <2>5, <2>6
  <2>8. \A g \in DOMAIN r : r[g] = IF g = f THEN v ELSE PartField(p, q, F, k, u, g)
    BY <1>3, <2>2 DEF IsPut
  <2>9. r = Partial(p, q, F \cup {f}, k, u)
    <3>1. Besides(r, p, q, F, k, u, f)
      BY <2>2, <2>7, <2>8 DEF IsPut, Besides, v
    <3> QED BY <1>2, <3>1, PartialSet
  <2> QED BY <1>5, <1>6, <2>9 DEF r, n, v
<1> QED BY <1>7, <1>8

\* One more element of the list.
LEMMA OneMore ==
  ASSUME NEW s, IsSequence(s), NEW t, IsSequence(t), NEW k \in Nat, k < Len(t)
  PROVE  s \o SubSeq(t, 1, k + 1) = Append(s \o SubSeq(t, 1, k), t[k + 1])
<1> DEFINE S == Range(s) \cup Range(t)
<1>1. s \in Seq(Range(s)) /\ t \in Seq(Range(t))
  BY DEF IsSequence
<1>2. s \in Seq(S) /\ t \in Seq(S)
  <2>1. s \in [1..Len(s) -> Range(s)] /\ t \in [1..Len(t) -> Range(t)] /\ Len(s) \in Nat /\ Len(t) \in Nat
    BY <1>1
  <2> QED BY <2>1
<1> HIDE DEF S
<1> QED BY <1>2

\* One more element of a list.
LEMMA PartialMore ==
  ASSUME NEW type, NEW p, NEW q, Meet(type, p, q), NEW F, NEW k \in Nat, NEW u,
         NEW f \in {"trace_ids", "attributes"}, f \in DOMAIN q, k < Len(q[f])
  PROVE  /\ f \in DOMAIN Partial(p, q, F, k, u)
         /\ IsSequence(Partial(p, q, F, k, u)[f])
         /\ Put(Partial(p, q, F, k, u), f, Append(Partial(p, q, F, k, u)[f], q[f][k + 1]))
              = Partial(p, q, F, k + 1, u)
<1> DEFINE n == Partial(p, q, F, k, u)
           o == Partial(p, q, F, k + 1, u)
           D == (DOMAIN p \ Gone(q, F)) \cup (F \cap DOMAIN q)
           x == Append(n[f], q[f][k + 1])
           r == Put(n, f, x)
<1>1. f \in Lists /\ f # "unknown" /\ f \notin Nested \ {"attributes"}
  BY DEF Lists, Nested
<1>2. IsSequence(p[f]) /\ IsSequence(q[f]) /\ f \in DOMAIN p
  BY <1>1, ListsAre
<1>3. f \in D
  BY <1>2 DEF Gone
<1>4. DOMAIN n = D /\ DOMAIN o = D /\ n = [g \in D |-> PartField(p, q, F, k, u, g)]
      /\ o = [g \in D |-> PartField(p, q, F, k + 1, u, g)]
  BY DEF Partial
<1>5. n[f] = p[f] \o SubSeq(q[f], 1, k) /\ o[f] = p[f] \o SubSeq(q[f], 1, k + 1)
  BY <1>1, <1>3 DEF PartField, Partial
<1>6. o[f] = x
  <2>1. p[f] \o SubSeq(q[f], 1, k + 1) = Append(p[f] \o SubSeq(q[f], 1, k), q[f][k + 1])
    BY <1>2, OneMore
  <2> QED BY <1>5, <2>1
<1>7. ASSUME NEW g \in D, g # f PROVE n[g] = o[g]
  <2>1. CASE g = "unknown" \/ g \notin Lists
    <3>1. PartField(p, q, F, k, u, g) = PartField(p, q, F, k + 1, u, g)
      BY <2>1 DEF PartField
    <3> QED BY <1>4, <3>1
  <2>2. CASE g # "unknown" /\ g \in Lists
    <3>1. g \in DOMAIN p \cup DOMAIN q
      OBVIOUS
    <3>2. {"trace_ids", "attributes"} \subseteq DOMAIN p
      BY <1>1, <1>2, <1>7, <2>2, <3>1, ListsAre DEF Lists
    <3>3. type = "AppInfo"
      BY <3>2, MeetSays
    <3>4. "trace_ids" \in Names("AppInfo")
      BY <3>2, <3>3, MeetSays
    <3> QED BY <3>4, NamesOfTypes
  <2> QED BY <2>1, <2>2
<1>8. IsSequence(n[f])
  <2> DEFINE S == Range(p[f]) \cup Range(q[f])
  <2>1. p[f] \in Seq(Range(p[f])) /\ q[f] \in Seq(Range(q[f]))
    BY <1>2 DEF IsSequence
  <2>2. p[f] \in Seq(S) /\ q[f] \in Seq(S)
    <3>1. p[f] \in [1..Len(p[f]) -> Range(p[f])] /\ q[f] \in [1..Len(q[f]) -> Range(q[f])]
          /\ Len(p[f]) \in Nat /\ Len(q[f]) \in Nat
      BY <2>1
    <3> QED BY <3>1
  <2> HIDE DEF S
  <2>3. SubSeq(q[f], 1, k) \in Seq(S)
    BY <2>2
  <2>4. n[f] \in Seq(S)
    BY <1>5, <2>2, <2>3
  <2> QED BY <2>4, SeqsAre
<1> HIDE DEF n, o, x
<1>9. r = o
  <2>1. r = [g \in DOMAIN n \cup {f} |-> IF g = f THEN x ELSE n[g]]
    BY DEF Put
  <2>2. DOMAIN n \cup {f} = D /\ \A g \in D : (IF g = f THEN x ELSE n[g]) = o[g]
    BY <1>3, <1>4, <1>6, <1>7
  <2>3. o = [g \in D |-> o[g]]
    BY <1>4
  <2> QED BY <2>1, <2>2, <2>3
<1> QED BY <1>3, <1>4, <1>8, <1>9 DEF n, o, x

\* The next of the unknown fields.
LEMMA PartialKept ==
  ASSUME NEW type, NEW p, NEW q, Meet(type, p, q), NEW F, NEW k,
         NEW u \in Nat, NEW w \in Nat, u <= w, w <= Len(q.unknown)
  PROVE  Keeping(Partial(p, q, F, k, u), SubSeq(q.unknown, u + 1, w)) = Partial(p, q, F, k, w)
<1> DEFINE n == Partial(p, q, F, k, u)
           o == Partial(p, q, F, k, w)
           s == SubSeq(q.unknown, u + 1, w)
           D == (DOMAIN p \ Gone(q, F)) \cup (F \cap DOMAIN q)
<1>1. p.unknown \in Seq(Byte) /\ q.unknown \in Seq(Byte) /\ "unknown" \in DOMAIN p
  BY MeetSays
<1>2. DOMAIN n = D /\ DOMAIN o = D /\ n = [g \in D |-> PartField(p, q, F, k, u, g)]
      /\ o = [g \in D |-> PartField(p, q, F, k, w, g)]
  BY DEF Partial
<1>3. "unknown" \in D
  BY <1>1 DEF Gone
<1>4. n.unknown = p.unknown \o SubSeq(q.unknown, 1, u)
      /\ o.unknown = p.unknown \o SubSeq(q.unknown, 1, w)
  BY <1>3 DEF Partial, PartField
<1>5. n.unknown \o s = o.unknown
  <2>1. SubSeq(q.unknown, 1, u) \o SubSeq(q.unknown, u + 1, w) = SubSeq(q.unknown, 1, w)
    BY <1>1
  <2>2. SubSeq(q.unknown, 1, u) \in Seq(Byte) /\ s \in Seq(Byte)
    BY <1>1
  <2> DEFINE a == p.unknown
             b == SubSeq(q.unknown, 1, u)
  <2>3. a \in Seq(Byte) /\ b \in Seq(Byte) /\ s \in Seq(Byte)
    BY <1>1, <2>2
  <2> HIDE DEF a, b, s
  <2>4. (a \o b) \o s = a \o (b \o s)
    BY <2>3
  <2> QED BY <1>4, <2>1, <2>4 DEF a, b, s
<1>6. ASSUME NEW g \in D, g # "unknown" PROVE n[g] = o[g]
  <2>1. PartField(p, q, F, k, u, g) = PartField(p, q, F, k, w, g)
    BY <1>6 DEF PartField
  <2> QED BY <1>2, <2>1
<1> HIDE DEF n, o, s
<1>7. Keeping(n, s) = [g \in D |-> IF g = "unknown" THEN n.unknown \o s ELSE n[g]]
  BY <1>2, <1>3 DEF Keeping
<1>8. \A g \in D : (IF g = "unknown" THEN n.unknown \o s ELSE n[g]) = o[g]
  BY <1>5, <1>6
<1>9. o = [g \in D |-> o[g]]
  BY <1>2
<1>10. Keeping(n, s) = o
  BY <1>7, <1>8, <1>9
<1> QED BY <1>10 DEF n, o, s

\* The whole of a list.
LEMMA WholeList ==
  ASSUME NEW s, IsSequence(s)
  PROVE  SubSeq(s, 1, Len(s)) = s
<1>1. s \in Seq(Range(s))
  BY DEF IsSequence
<1> QED BY <1>1

\* All fields are read: q is merged into p.
LEMMA PartialAll ==
  ASSUME NEW type, NEW p, NEW q, Meet(type, p, q), NEW F, DOMAIN q \subseteq F \cup Lists,
         NEW k, \A f \in {"trace_ids", "attributes"} \cap DOMAIN q : k = Len(q[f])
  PROVE  Partial(p, q, F, k, Len(q.unknown)) = Merge(p, q)
<1> DEFINE u == Len(q.unknown)
           gone == IF {"req", "resp"} \cap DOMAIN q = {} THEN {} ELSE {"req", "resp"} \ DOMAIN q
           old == [f \in DOMAIN p \ gone |-> p[f]]
           m == MergeFlat(old, q)
           D == (DOMAIN p \ Gone(q, F)) \cup (F \cap DOMAIN q)
           V(f) == IF f \in {"req", "resp", "trace"} \cap DOMAIN old \cap DOMAIN q
                   THEN MergeFlat(old[f], q[f]) ELSE m[f]
<1>1. Merge(p, q) = [f \in DOMAIN m |-> V(f)]
  BY DEF Merge
<1>2. Gone(q, F) = gone
  <2>1. {"req", "resp"} \cap F \cap DOMAIN q = {"req", "resp"} \cap DOMAIN q
    BY DEF Lists
  <2> QED BY <2>1 DEF Gone
<1>3. gone \cap DOMAIN q = {} /\ gone \cap Lists = {}
  BY DEF Lists
<1>4. \A f \in Lists : f \in DOMAIN p <=> f \in DOMAIN q
  BY ListsAre
<1> HIDE DEF gone
<1>5. DOMAIN old = DOMAIN p \ gone /\ \A f \in DOMAIN old : old[f] = p[f]
  OBVIOUS
<1>6. DOMAIN m = DOMAIN old \cup DOMAIN q
  BY DEF MergeFlat
<1>7. D = DOMAIN m
  BY <1>2, <1>3, <1>4, <1>5, <1>6
<1>8. ASSUME NEW f \in DOMAIN m PROVE PartField(p, q, F, k, u, f) = V(f)
  <2>0. m[f] = CASE f \in {"trace_ids", "attributes", "unknown"} -> old[f] \o q[f]
                 [] f \notin DOMAIN q -> old[f]
                 [] f \notin DOMAIN old -> q[f]
                 [] OTHER -> IF f \in Plain /\ q[f] = <<>> THEN old[f] ELSE q[f]
    BY <1>6 DEF MergeFlat
  <2>1. CASE f \in Lists
    <3>1. f \in DOMAIN p /\ f \in DOMAIN q /\ IsSequence(q[f])
      BY <1>3, <1>5, <1>6, <2>1, ListsAre
    <3>2. f \in DOMAIN old
      BY <1>3, <1>5, <2>1, <3>1
    <3>3. m[f] = p[f] \o q[f]
      BY <1>5, <2>0, <2>1, <3>1, <3>2 DEF Lists
    <3>4. SubSeq(q[f], 1, Len(q[f])) = q[f]
      BY <3>1, WholeList
    <3>5. PartField(p, q, F, k, u, f) = p[f] \o SubSeq(q[f], 1, Len(q[f]))
      BY <2>1, <3>1 DEF PartField, Lists
    <3>6. f \notin {"req", "resp", "trace"}
      BY <2>1 DEF Lists
    <3> QED BY <3>3, <3>4, <3>5, <3>6
  <2>2. CASE f \notin Lists /\ f \notin DOMAIN q
    <3>1. f \in DOMAIN old
      BY <1>6, <2>2
    <3>2. m[f] = p[f]
      BY <1>5, <2>0, <2>2, <3>1 DEF Lists
    <3>3. PartField(p, q, F, k, u, f) = p[f]
      BY <2>2 DEF PartField, Lists
    <3> QED BY <2>2, <3>2, <3>3
  <2>3. CASE f \notin Lists /\ f \in DOMAIN q
    <3>1. PartField(p, q, F, k, u, f) = Grown(p, q, f)
      BY <2>3 DEF PartField, Lists
    <3>2. f \in DOMAIN old <=> f \in DOMAIN p
      BY <1>3, <1>5, <2>3
    <3>3. CASE f \notin DOMAIN old
      <4>1. m[f] = q[f]
        BY <2>0, <2>3, <3>3 DEF Lists
      <4> QED BY <3>1, <3>2, <3>3, <4>1 DEF Grown
    <3>4. CASE f \in DOMAIN old
      <4>1. m[f] = IF f \in Plain /\ q[f] = <<>> THEN p[f] ELSE q[f]
        BY <1>5, <2>0, <2>3, <3>4 DEF Lists
      <4>2. old[f] = p[f] /\ f \in DOMAIN p
        BY <1>5, <3>4
      <4> HIDE DEF m, old
      <4> QED BY <2>3, <3>1, <3>4, <4>1, <4>2 DEF Grown, Inner
    <3> QED BY <3>3, <3>4
  <2> QED BY <2>1, <2>2, <2>3
<1>9. Partial(p, q, F, k, u) = [f \in D |-> PartField(p, q, F, k, u, f)]
  BY DEF Partial
<1> HIDE DEF m, D, V, u
<1>10. [f \in D |-> PartField(p, q, F, k, u, f)] = [f \in DOMAIN m |-> V(f)]
  BY <1>7, <1>8
<1> QED BY <1>1, <1>9, <1>10 DEF u

\* Without messages in them.
LEMMA MergesFlat ==
  ASSUME NEW type, type # "AppInfo", NEW p, NEW q, Meet(type, p, q)
  PROVE  Merge(p, q) = MergeFlat(p, q)
<1>1. DOMAIN p \cap Nested = {} /\ DOMAIN q \cap Nested = {} /\ IsAFunction(p)
  BY MeetSays
<1>2. {"req", "resp"} \cap DOMAIN q = {} /\ {"req", "resp", "trace"} \cap DOMAIN q = {}
  BY <1>1 DEF Nested
<1> DEFINE m == MergeFlat(p, q)
<1>3. Merge(p, q) = [f \in DOMAIN m |-> m[f]]
  <2>1. [f \in DOMAIN p \ {} |-> p[f]] = p
    BY <1>1 DEF IsAFunction
  <2> QED BY <1>2, <2>1 DEF Merge
<1>4. m = [f \in DOMAIN m |-> m[f]]
  BY DEF MergeFlat
<1> QED BY <1>3, <1>4

\* The empty message has empty fields.
LEMMA EmptyFields ==
  ASSUME NEW type \in Types
  PROVE  \A f \in DOMAIN Empty(type) : Empty(type)[f] = <<>>
BY DEF Types, Empty

\* Into a new message.
LEMMA MergedIntoEmpty ==
  ASSUME NEW type \in Types, type # "AppInfo", NEW q, GoodFlat(Byte, type, q)
  PROVE  MergeFlat(Empty(type), q) = q
<1> DEFINE e == Empty(type)
           m == MergeFlat(e, q)
<1>1. Fits(type, q) /\ TextGood(Byte, q) /\ IsAFunction(q)
  BY DEF GoodFlat, TextGood
<1>2. DOMAIN e \subseteq DOMAIN q /\ DOMAIN q \subseteq Names(type)
  BY <1>1 DEF Fits, Names
<1>3. \A f \in DOMAIN e : e[f] = <<>>
  BY EmptyFields
<1> HIDE DEF e
<1>4. DOMAIN m = DOMAIN q
  BY <1>2 DEF MergeFlat
<1>5. ASSUME NEW f \in DOMAIN q PROVE m[f] = q[f]
  <2>0. m[f] = CASE f \in {"trace_ids", "attributes", "unknown"} -> e[f] \o q[f]
                 [] f \notin DOMAIN q -> e[f]
                 [] f \notin DOMAIN e -> q[f]
                 [] OTHER -> IF f \in Plain /\ q[f] = <<>> THEN e[f] ELSE q[f]
    BY <1>4 DEF MergeFlat
  <2>1. CASE f \in {"trace_ids", "unknown"}
    <3>1. f \in DOMAIN e
      BY <1>2, <2>1, AlwaysHeld DEF Lists, e
    <3>2. \E S : q[f] \in Seq(S)
      BY <1>1, <2>1 DEF TextGood
    <3>3. <<>> \o q[f] = q[f]
      BY <3>2
    <3> QED BY <1>3, <2>0, <2>1, <3>1, <3>3
  <2>2. CASE f \notin {"trace_ids", "unknown"} /\ f # "attributes"
    <3>1. CASE f \notin DOMAIN e
      BY <2>0, <2>2, <3>1
    <3>2. CASE f \in DOMAIN e
      BY <1>3, <2>0, <2>2, <3>2
    <3> QED BY <3>1, <3>2
  <2>3. CASE f = "attributes"
    <3>1. DOMAIN q \cap Nested = {}
      BY <1>1, NothingNested
    <3> QED BY <2>3, <3>1 DEF Nested
  <2> QED BY <2>1, <2>2, <2>3
<1> HIDE DEF m
<1>6. m = [f \in DOMAIN m |-> m[f]]
  BY DEF m, MergeFlat
<1> QED BY <1>1, <1>4, <1>5, <1>6 DEF m, e, IsAFunction

------------------------------------------------------------------------------
(* What the decoders make of what the writers wrote *)

\* Fields of a newer schema one behind the other.
KeptFields(type, u) ==
  \E D : /\ Spans(u, D)
         /\ \A p \in D \ {Len(u)} : \E v, body, q :
              Framed(u, D, p, v, body, q) /\ NewerField(type, v, body)

\* A message as Go can hold it, no text of it 2^31 bytes long: no decoder
\* takes a longer one.
SendableFlat(type, m) ==
  /\ GoodFlat(Byte, type, m) /\ m # Nil
  /\ \A f \in DOMAIN m :
       /\ f \in {"status", "code"} => m[f] \in -Half..(Half - 1)
       /\ f \in Counts \ {"status", "code"} => m[f] \in 0..(Word32 - 1)
       /\ f \in Flags => m[f] \in BOOLEAN
       /\ Other(f) /\ f # "unknown" => Len(m[f]) < Half
  /\ "trace_ids" \in DOMAIN m => \A k \in DOMAIN m.trace_ids : Len(m.trace_ids[k]) < Half
  /\ KeptFields(type, m.unknown)

\* A message whose bytes the decoders can read: its lengths are int32.
Sendable(type, m) ==
  /\ SendableFlat(type, m) /\ Good(Byte, type, m)
  /\ type = "AppInfo" =>
       /\ \A f \in Inner \cap DOMAIN m :
            /\ SendableFlat(TypeOf[f], m[f])
            /\ Len(Written(TypeOf[f], FALSE, m[f])) < Half
       /\ \A k \in DOMAIN m.attributes :
            /\ SendableFlat("KeyVal", m.attributes[k])
            /\ Len(Written("KeyVal", FALSE, m.attributes[k])) < Half

\* How many elements its list has.
Count(q) ==
  IF "trace_ids" \in DOMAIN q THEN Len(q.trace_ids)
  ELSE IF "attributes" \in DOMAIN q THEN Len(q.attributes) ELSE 0

\* c.new is read into c.old, a message of c.type, from the point where the
\* fields c.read are; from there on the message stays between c.lows and
\* c.highs.
Held(c, F, k, u) == Partial(c.old, c.new, F, k, u)

\* A call c reads the message new into the message old.
Ready(c) ==
  /\ Meet(c.type, c.old, c.new) /\ Sendable(c.type, c.new)
  /\ \A F : c.read \subseteq F =>
       \A k \in 0..Count(c.new) : \A u \in 0..Len(c.new.unknown) :
         Between(c.lows, c.highs, Held(c, F, k, u))

\* Reading the bytes adds fields and elements of the list.
Goes(c, bytes, F, k, G, j) ==
  /\ bytes \in Seq(Byte)
  /\ Leads(c.lows, c.highs, c.type, bytes, Held(c, F, k, 0), Held(c, G, j, 0))

\* From F to G and on to H.
LEMMA GoesThen ==
  ASSUME NEW c, NEW b, NEW F, NEW k, NEW G, NEW j, Goes(c, b, F, k, G, j),
         NEW d, NEW H, NEW i, Goes(c, d, G, j, H, i)
  PROVE  Goes(c, b \o d, F, k, H, i)
<1>1. b \in Seq(Byte) /\ d \in Seq(Byte)
  BY DEF Goes
<1>2. Leads(c.lows, c.highs, c.type, b \o d, Held(c, F, k, 0), Held(c, H, i, 0))
  BY <1>1, LeadsThen DEF Goes
<1> QED BY <1>1, <1>2 DEF Goes

\* What is passed on the way is within the bounds of the call.
LEMMA ReadyBetween ==
  ASSUME NEW c, Ready(c), NEW F, c.read \subseteq F, NEW k \in 0..Count(c.new)
  PROVE  Between(c.lows, c.highs, Held(c, F, k, 0))
<1>1. 0 \in 0..Len(c.new.unknown)
  <2>1. c.new.unknown \in Seq(Byte)
    BY MeetSays DEF Ready
  <2> QED BY <2>1
<1> QED BY <1>1 DEF Ready

\* A field that is not written leads nowhere.
LEMMA GoesNowhere ==
  ASSUME NEW c, Ready(c), NEW F, c.read \subseteq F, NEW k \in 0..Count(c.new),
         NEW G, Held(c, G, k, 0) = Held(c, F, k, 0)
  PROVE  Goes(c, <<>>, F, k, G, k)
<1>1. Between(c.lows, c.highs, Held(c, F, k, 0))
  BY ReadyBetween
<1> QED BY <1>1, LeadsNothing DEF Goes

\* A field leads where its step goes.
LEMMA GoesStep ==
  ASSUME NEW c, Ready(c), NEW F, c.read \subseteq F, NEW k \in 0..Count(c.new),
         NEW G, c.read \subseteq G, NEW j \in 0..Count(c.new),
         NEW v \in 0..(Word64 - 1), NEW body \in Seq(Byte),
         Step(c.type, Held(c, F, k, 0), v, body, Held(c, G, j, 0))
  PROVE  Goes(c, Encoded(v, body), F, k, G, j)
<1>1. Between(c.lows, c.highs, Held(c, F, k, 0)) /\ Between(c.lows, c.highs, Held(c, G, j, 0))
  BY ReadyBetween
<1>2. Encoded(v, body) \in Seq(Byte)
  BY HalfWord, EncodedIs
<1> QED BY <1>1, <1>2, LeadsStep DEF Goes

\* A length and what it stands in front of, as a field.
LEMMA PrefixedIs ==
  ASSUME NEW num \in 1..35, NEW s \in Seq(Byte)
  PROVE  /\ Prefixed(num, s) = Encoded(8 * num + 2, EncodeVarint(Len(s)) \o s)
         /\ EncodeVarint(Len(s)) \o s \in Seq(Byte)
         /\ 8 * num + 2 \in 0..(Word64 - 1)
<1> DEFINE t == EncodeVarint(8 * num + 2)
           n == EncodeVarint(Len(s))
<1>1. t \in Seq(Byte) /\ n \in Seq(Byte)
  BY SizeOfVarintIsExact DEF Sized
<1>2. 8 * num + 2 \in 0..(Word64 - 1)
  <2>1. 2 \in 0..7
    OBVIOUS
  <2> QED BY <2>1, TagNumbers, Zenon
<1> HIDE DEF t, n
<1>3. (t \o n) \o s = t \o (n \o s) /\ n \o s \in Seq(Byte)
  BY <1>1
<1>4. Prefixed(num, s) = (t \o n) \o s
  BY DEF Prefixed, Tag, t, n
<1> QED BY <1>2, <1>3, <1>4 DEF Encoded, t, n

\* Case num of the decoder sets f, of the kind w.
IsCase(type, num, w, f) ==
  num \in DOMAIN Cases(type) /\ KindOf(type, num) = w /\ NameOf(type, num) = f

\* What a case of the switch is for.
LEMMA CaseSays ==
  ASSUME NEW type \in Types, NEW num, NEW w, NEW f, IsCase(type, num, w, f)
  PROVE  /\ num \in 1..35 /\ CaseFits(type, <<w, f>>) /\ f \in Names(type)
         /\ w = "string" => Other(f) /\ f \notin Lists /\ f \notin Nested
                            /\ f \notin Inner /\ f # "unknown"
         /\ w \in Scalars => f \in Counts \cup Flags /\ f \notin Lists /\ f \notin Nested
                            /\ f \notin Inner /\ f \notin Plain
<1>1. num \in 1..35
  BY CaseNumbers DEF IsCase
<1>2. CaseFits(type, Cases(type)[num])
  BY CasesFit DEF IsCase
<1>3. Cases(type)[num][1] = w /\ Cases(type)[num][2] = f
  BY DEF IsCase, KindOf, NameOf
<1>4. CaseFits(type, <<w, f>>)
  BY <1>2, <1>3 DEF CaseFits
<1>5. f \in Names(type)
  BY <1>3 DEF Names, IsCase
<1>6. w = "string" => Other(f) /\ f # "unknown"
  BY <1>4 DEF CaseFits
<1>7. w \in Scalars => f \in Counts \cup Flags
  BY <1>4 DEF CaseFits
<1>8. Other(f) /\ f # "unknown" => f \notin Lists /\ f \notin Nested /\ f \notin Inner
  BY DEF Other, Lists, Nested, Inner
<1>9. f \in Counts \cup Flags =>
        f \notin Lists /\ f \notin Nested /\ f \notin Inner /\ f \notin Plain
  BY DEF Counts, Flags, Lists, Nested, Inner, Plain
<1> QED BY <1>1, <1>4, <1>5, <1>6, <1>7, <1>8, <1>9

\* A text that is there, and not one that an empty text leaves as it was.
LEMMA TextIsRead ==
  ASSUME NEW c, Ready(c), NEW F, c.read \subseteq F, NEW k \in 0..Count(c.new),
         NEW num, NEW f, IsCase(c.type, num, "string", f), f \in DOMAIN c.new,
         f \notin Plain \/ c.new[f] # <<>>
  PROVE  Goes(c, Prefixed(num, c.new[f]), F, k, F \cup {f}, k)
<1> DEFINE q == c.new
           s == q[f]
           n == Held(c, F, k, 0)
           o == Held(c, F \cup {f}, k, 0)
           body == EncodeVarint(Len(s)) \o s
           v == 8 * num + 2
<1>1. c.type \in Types /\ SendableFlat(c.type, q) /\ GoodFlat(Byte, c.type, q)
  BY DEF Ready, Meet, Sendable, SendableFlat
<1>2. /\ num \in 1..35 /\ Other(f) /\ f \notin Lists /\ f \notin Nested
      /\ f \notin Inner /\ f # "unknown"
  BY <1>1, CaseSays
<1>3. s \in Seq(Byte) /\ Len(s) < Half
  BY <1>1, <1>2 DEF SendableFlat, GoodFlat, TextGood
<1>4. Grown(c.old, q, f) = s
  BY <1>2 DEF Grown
<1>5. Put(n, f, s) = o
  <2>1. Put(n, f, Grown(c.old, q, f)) = o
    BY <1>2, PartialPut DEF Held
  <2> QED BY <1>4, <2>1
<1>6. Prefixed(num, s) = Encoded(v, body) /\ body \in Seq(Byte) /\ v \in 0..(Word64 - 1)
  BY <1>2, <1>3, PrefixedIs
<1> HIDE DEF s, n, o, body, v
<1>7. FlatStep(c.type, n, v, body, o)
  <2>1. /\ num \in DOMAIN Cases(c.type) /\ KindOf(c.type, num) = "string"
        /\ NameOf(c.type, num) = f
    BY DEF IsCase
  <2>2. v = 8 * num + 2 /\ body = EncodeVarint(Len(s)) \o s
    BY DEF v, body
  <2> QED BY <1>3, <1>5, <2>1, <2>2 DEF FlatStep
<1>8. Step(c.type, n, v, body, o)
  BY <1>7 DEF Step
<1>9. Goes(c, Encoded(v, body), F, k, F \cup {f}, k)
  BY <1>6, <1>8, GoesStep DEF n, o
<1> QED BY <1>6, <1>9 DEF s

\* A text that is always written.
LEMMA TextGoes ==
  ASSUME NEW c, Ready(c), NEW F, c.read \subseteq F, NEW k \in 0..Count(c.new),
         NEW num, NEW f, IsCase(c.type, num, "string", f), f \notin Plain
  PROVE  Goes(c, Text(c.new, num, f), F, k, F \cup {f}, k)
<1>1. CASE f \in DOMAIN c.new
  <2>1. Goes(c, Prefixed(num, c.new[f]), F, k, F \cup {f}, k)
    BY <1>1, TextIsRead
  <2> QED BY <1>1, <2>1 DEF Text
<1>2. CASE f \notin DOMAIN c.new
  <2>1. Held(c, F \cup {f}, k, 0) = Held(c, F, k, 0)
    BY <1>2, PartialWithout DEF Held
  <2>2. Goes(c, <<>>, F, k, F \cup {f}, k)
    BY <2>1, GoesNowhere
  <2> QED BY <1>2, <2>2 DEF Text
<1> QED BY <1>1, <1>2

\* A text that is written when it is not empty.
LEMMA NonEmptyGoes ==
  ASSUME NEW c, Ready(c), NEW F, c.read \subseteq F, NEW k \in 0..Count(c.new),
         NEW num, NEW f, IsCase(c.type, num, "string", f), f \in Plain
  PROVE  Goes(c, NonEmpty(c.new, num, f), F, k, F \cup {f}, k)
<1>1. f \in DOMAIN c.new /\ f \in DOMAIN c.old
  <2>1. Meet(c.type, c.old, c.new) /\ c.type \in Types
    BY DEF Ready, Meet
  <2>2. f \in Names(c.type)
    BY <2>1, CaseSays
  <2> QED BY <2>1, <2>2, MeetSays
<1>2. CASE c.new[f] # <<>>
  <2>1. Goes(c, Prefixed(num, c.new[f]), F, k, F \cup {f}, k)
    BY <1>1, <1>2, TextIsRead
  <2> QED BY <1>2, <2>1 DEF NonEmpty
<1>3. CASE c.new[f] = <<>>
  <2>1. Held(c, F \cup {f}, k, 0) = Held(c, F, k, 0)
    BY <1>1, <1>3, PartialPlain DEF Held
  <2>2. Goes(c, <<>>, F, k, F \cup {f}, k)
    BY <2>1, GoesNowhere
  <2> QED BY <1>3, <2>2 DEF NonEmpty
<1> QED BY <1>2, <1>3

\* A number as it comes out of its varint.
LEMMA NumberIsRead ==
  ASSUME NEW c, Ready(c), NEW F, c.read \subseteq F, NEW k \in 0..Count(c.new),
         NEW num, NEW w \in Scalars, NEW f, IsCase(c.type, num, w, f), f \in DOMAIN c.new,
         NEW x \in Int, NumberAs(w, x % Word64) = c.new[f]
  PROVE  Goes(c, Tag(num, 0) \o EncodeVarint(x), F, k, F \cup {f}, k)
<1> DEFINE q == c.new
           n == Held(c, F, k, 0)
           o == Held(c, F \cup {f}, k, 0)
           body == EncodeVarint(x)
           v == 8 * num
<1>1. c.type \in Types
  BY DEF Ready, Meet
<1>2. num \in DOMAIN Cases(c.type) /\ KindOf(c.type, num) = w /\ NameOf(c.type, num) = f
  BY DEF IsCase
<1>3. num \in 1..35 /\ f \notin Lists /\ f \notin Nested /\ f \notin Inner /\ f \notin Plain
  BY <1>1, CaseSays
<1>4. v \in 0..(Word64 - 1)
  BY <1>1, <1>2, TagsOfCases
<1>5. Tag(num, 0) \o EncodeVarint(x) = Encoded(v, body)
  <2>1. 8 * num + 0 = 8 * num
    BY <1>3
  <2> QED BY <2>1, Zenon DEF Tag, Encoded
<1>6. body \in Seq(Byte)
  BY SizeOfVarintIsExact DEF Sized
<1>7. Grown(c.old, q, f) = NumberAs(w, x % Word64)
  BY <1>3 DEF Grown
<1>8. Put(n, f, NumberAs(w, x % Word64)) = o
  <2>1. Put(n, f, Grown(c.old, q, f)) = o
    BY <1>3, PartialPut DEF Held
  <2> QED BY <1>7, <2>1
<1> HIDE DEF n, o
<1>9. FlatStep(c.type, n, v, body, o)
  BY <1>2, <1>8 DEF FlatStep
<1> HIDE DEF body, v
<1>10. Step(c.type, n, v, body, o)
  BY <1>9 DEF Step
<1>11. Goes(c, Encoded(v, body), F, k, F \cup {f}, k)
  BY <1>4, <1>6, <1>10, GoesStep DEF n, o
<1> QED BY <1>5, <1>11

\* A number.
LEMMA NumberGoes ==
  ASSUME NEW c, Ready(c), NEW F, c.read \subseteq F, NEW k \in 0..Count(c.new),
         NEW num, NEW w, NEW f, IsCase(c.type, num, w, f),
         \/ w = "int32" /\ f \in {"status", "code"}
         \/ w = "uint32" /\ f \in Counts \ {"status", "code"}
  PROVE  Goes(c, Number(c.new, num, f), F, k, F \cup {f}, k)
<1>1. CASE f \in DOMAIN c.new
  <2> DEFINE x == c.new[f]
  <2>1. SendableFlat(c.type, c.new) /\ w \in Scalars
    BY DEF Ready, Sendable, Scalars
  <2>2. CASE w = "int32" /\ f \in {"status", "code"}
    <3>1. x \in -Half..(Half - 1)
      BY <1>1, <2>1, <2>2 DEF SendableFlat
    <3>2. x \in Int
      BY <3>1, HalfWord
    <3> HIDE DEF x
    <3>3. NumberAs(w, x % Word64) = x
      BY <2>2, <3>1, SignedBack DEF NumberAs
    <3>4. Goes(c, Tag(num, 0) \o EncodeVarint(x), F, k, F \cup {f}, k)
      BY <1>1, <2>1, <3>2, <3>3, NumberIsRead DEF x
    <3> QED BY <1>1, <3>4 DEF x, Number
  <2>3. CASE w = "uint32" /\ f \in Counts \ {"status", "code"}
    <3>1. x \in 0..(Word32 - 1)
      BY <1>1, <2>1, <2>3 DEF SendableFlat
    <3>2. x \in Int
      BY <3>1, HalfWord
    <3> HIDE DEF x
    <3>3. NumberAs(w, x % Word64) = x
      BY <2>3, <3>1, WordBack DEF NumberAs
    <3>4. Goes(c, Tag(num, 0) \o EncodeVarint(x), F, k, F \cup {f}, k)
      BY <1>1, <2>1, <3>2, <3>3, NumberIsRead DEF x
    <3> QED BY <1>1, <3>4 DEF x, Number
  <2> QED BY <2>2, <2>3
<1>2. CASE f \notin DOMAIN c.new
  <2>1. Held(c, F \cup {f}, k, 0) = Held(c, F, k, 0)
    BY <1>2, PartialWithout DEF Held
  <2>2. Goes(c, <<>>, F, k, F \cup {f}, k)
    BY <2>1, GoesNowhere
  <2> QED BY <1>2, <2>2 DEF Number
<1> QED BY <1>1, <1>2

\* A flag takes one byte.
LEMMA FlagIs ==
  ASSUME NEW x \in {0, 1}
  PROVE  EncodeVarint(x) = <<x>> /\ (x % Word64) % Word32 = x
<1>1. x \in 0..(Word32 - 1)
  BY HalfWord
<1>2. x % Word64 = x /\ (x % Word64) % Word32 = x
  BY <1>1, WordBack
<1>3. VarintBytes[x] = <<x>>
  <2>1. x \in Nat /\ x < 128
    OBVIOUS
  <2> QED BY <2>1, VarintBytesStep
<1> QED BY <1>2, <1>3 DEF EncodeVarint

\* A flag.
LEMMA BoolGoes ==
  ASSUME NEW c, Ready(c), NEW F, c.read \subseteq F, NEW k \in 0..Count(c.new),
         NEW num, NEW f \in Flags, IsCase(c.type, num, "bool", f)
  PROVE  Goes(c, Bool(c.new, num, f), F, k, F \cup {f}, k)
<1>1. CASE f \in DOMAIN c.new
  <2> DEFINE x == IF c.new[f] THEN 1 ELSE 0
  <2>1. SendableFlat(c.type, c.new) /\ "bool" \in Scalars
    BY DEF Ready, Sendable, Scalars
  <2>2. c.new[f] \in BOOLEAN
    BY <1>1, <2>1 DEF SendableFlat
  <2>3. x \in {0, 1} /\ x \in Int
    OBVIOUS
  <2>4. EncodeVarint(x) = <<x>> /\ (x % Word64) % Word32 = x
    <3> HIDE DEF x
    <3> QED BY <2>3, FlagIs
  <2> HIDE DEF x
  <2>7. NumberAs("bool", x % Word64) = c.new[f]
    <3>1. CASE c.new[f] = TRUE
      <4>1. x = 1
        BY <3>1 DEF x
      <4>2. NumberAs("bool", x % Word64) = (x # 0)
        BY <2>4 DEF NumberAs
      <4>3. (x # 0) = TRUE
        BY <4>1
      <4> QED BY <3>1, <4>2, <4>3, Zenon
    <3>2. CASE c.new[f] = FALSE
      <4>1. x = 0
        BY <3>2 DEF x
      <4>2. NumberAs("bool", x % Word64) = (x # 0)
        BY <2>4 DEF NumberAs
      <4>3. (x # 0) = FALSE
        BY <4>1
      <4> QED BY <3>2, <4>2, <4>3, Zenon
    <3> QED BY <2>2, <3>1, <3>2, Zenon
  <2>8. Goes(c, Tag(num, 0) \o EncodeVarint(x), F, k, F \cup {f}, k)
    BY <1>1, <2>1, <2>3, <2>7, NumberIsRead
  <2>9. Bool(c.new, num, f) = Tag(num, 0) \o <<x>>
    BY <1>1 DEF Bool, x
  <2> QED BY <2>4, <2>8, <2>9
<1>2. CASE f \notin DOMAIN c.new
  <2>1. Held(c, F \cup {f}, k, 0) = Held(c, F, k, 0)
    BY <1>2, PartialWithout DEF Held
  <2>2. Goes(c, <<>>, F, k, F \cup {f}, k)
    BY <2>1, GoesNowhere
  <2> QED BY <1>2, <2>2 DEF Bool
<1> QED BY <1>1, <1>2

\* What a newer schema has is kept, field by field.
LEMMA UnknownGoes ==
  ASSUME NEW c, Ready(c), NEW F, c.read \subseteq F, NEW k \in 0..Count(c.new)
  PROVE  /\ Leads(c.lows, c.highs, c.type, c.new.unknown, Held(c, F, k, 0),
                  Held(c, F, k, Len(c.new.unknown)))
         /\ c.new.unknown \in Seq(Byte)
<1> DEFINE u == c.new.unknown
<1>1. Meet(c.type, c.old, c.new) /\ KeptFields(c.type, u)
  BY DEF Ready, Sendable, SendableFlat
<1>2. u \in Seq(Byte)
  BY <1>1, MeetSays
<1>3. PICK D : /\ Spans(u, D)
               /\ \A p \in D \ {Len(u)} : \E v, body, q :
                    Framed(u, D, p, v, body, q) /\ NewerField(c.type, v, body)
  BY <1>1 DEF KeptFields
<1> DEFINE M == [p \in D |-> Held(c, F, k, p)]
<1>4. D \subseteq 0..Len(u) /\ 0 \in D /\ Len(u) \in D /\ Len(u) \in Nat
  BY <1>2, <1>3 DEF Spans
<1> HIDE DEF u
<1>5. ASSUME NEW p \in D \ {Len(u)}
      PROVE  \E v, body, q : Framed(u, D, p, v, body, q) /\ Step(c.type, M[p], v, body, M[q])
  <2>1. PICK v, body, q : Framed(u, D, p, v, body, q) /\ NewerField(c.type, v, body)
    BY <1>3
  <2> DEFINE e == Encoded(v, body)
  <2>2. /\ v \in 0..(Word64 - 1) /\ body \in Seq(Byte) /\ q = p + Len(e) /\ q \in D
        /\ StandsAt(u, p, e)
    BY <2>1 DEF Framed
  <2>3. e \in Seq(Byte)
    BY <2>2, EncodedIs, HalfWord
  <2> HIDE DEF e
  <2>4. p \in Nat /\ q \in Nat /\ p <= q /\ q <= Len(u) /\ q - p = Len(e)
    BY <1>4, <2>2, <2>3
  <2>5. SubSeq(u, p + 1, q) = e
    <3>1. SubSeq(u, p + 1, q) \in Seq(Byte) /\ Len(SubSeq(u, p + 1, q)) = Len(e)
      BY <1>2, <2>3, <2>4
    <3>2. ASSUME NEW i \in 1..Len(e) PROVE SubSeq(u, p + 1, q)[i] = e[i]
      <4>1. p + i <= Len(u) /\ i \in Nat
        BY <2>3, <2>4, <1>4
      <4>2. SubSeq(u, p + 1, q)[i] = u[p + i]
        BY <1>2, <2>3, <2>4
      <4>3. u[p + i] = e[i]
        BY <2>2, <4>1 DEF StandsAt
      <4> QED BY <4>2, <4>3
    <3> DEFINE t == SubSeq(u, p + 1, q)
    <3> HIDE DEF t
    <3>3. t \in Seq(Byte) /\ Len(t) = Len(e) /\ \A i \in 1..Len(e) : t[i] = e[i]
      BY <3>1, <3>2 DEF t
    <3>4. t = e
      BY <2>3, <3>3
    <3> QED BY <3>4 DEF t
  <2>6. Keeping(M[p], e) = M[q]
    <3>1. q <= Len(c.new.unknown) /\ SubSeq(c.new.unknown, p + 1, q) = e
      BY <2>4, <2>5 DEF u
    <3>2. Keeping(Partial(c.old, c.new, F, k, p), SubSeq(c.new.unknown, p + 1, q))
            = Partial(c.old, c.new, F, k, q)
      BY <1>1, <2>4, <3>1, PartialKept
    <3> QED BY <2>2, <3>1, <3>2 DEF Held
  <2> HIDE DEF M
  <2>7. FlatStep(c.type, M[p], v, body, M[q])
    BY <2>1, <2>6 DEF FlatStep, e
  <2> QED BY <2>1, <2>7 DEF Step
<1>6. DOMAIN M = D /\ \A p \in D : M[p] = Held(c, F, k, p)
  OBVIOUS
<1> HIDE DEF M
<1>7. Marks(c.type, u, M)
  BY <1>3, <1>5, <1>6 DEF Marks
<1>8. \A p \in D : Between(c.lows, c.highs, M[p])
  BY <1>4, <1>6 DEF Ready, u
<1>9. Leads(c.lows, c.highs, c.type, u, Held(c, F, k, 0), Held(c, F, k, Len(u)))
  BY <1>4, <1>6, <1>7, <1>8 DEF Leads, Reaches
<1> QED BY <1>2, <1>9 DEF u

\* A list, element by element.
LEMMA ListGoes ==
  ASSUME NEW c, Ready(c), NEW F, c.read \subseteq F,
         NEW n \in Nat, Count(c.new) = n, NEW e \in [1..n -> Seq(Byte)],
         \A k \in 1..n : Goes(c, e[k], F, k - 1, F, k)
  PROVE  Goes(c, FlattenSeq(e), F, 0, F, n)
<1>1. PICK r \in [Nat -> Seq(Byte)] : Joins(r, e, n) /\ FlattenSeq(e) = r[n]
  BY FlattenDef, Zenon
<1>2. r[0] = <<>> /\ \A k \in 1..n : r[k] = r[k - 1] \o e[k]
  BY <1>1 DEF Joins
<1> DEFINE T == {k \in 0..n : Goes(c, r[k], F, 0, F, k)}
<1>3. 0 \in T
  <2>1. 0 \in 0..Count(c.new)
    OBVIOUS
  <2>2. Goes(c, <<>>, F, 0, F, 0)
    BY <2>1, GoesNowhere
  <2> QED BY <1>2, <2>1, <2>2
<1>4. ASSUME NEW k \in 0..(n - 1), k \in T PROVE k + 1 \in T
  <2>1. k + 1 \in 1..n /\ (k + 1) - 1 = k
    OBVIOUS
  <2>2. Goes(c, e[k + 1], F, (k + 1) - 1, F, k + 1) /\ r[k + 1] = r[(k + 1) - 1] \o e[k + 1]
    BY <1>2, <2>1
  <2>3. Goes(c, r[k], F, 0, F, k)
    BY <1>4
  <2>4. Goes(c, r[k] \o e[k + 1], F, 0, F, k + 1)
    BY <2>1, <2>2, <2>3, GoesThen
  <2>5. Goes(c, r[k + 1], F, 0, F, k + 1) /\ k + 1 \in 0..n
    <3>1. r[k + 1] = r[k] \o e[k + 1]
      BY <2>1, <2>2, Zenon
    <3> QED BY <2>1, <2>4, <3>1
  <2> DEFINE i == k + 1
  <2> HIDE DEF i
  <2>6. i \in T
    BY <2>5 DEF i
  <2> QED BY <2>6 DEF i
<1> HIDE DEF T
<1>5. n \in T
  <2>1. \A k \in 0..n : k \in T
    BY <1>3, <1>4, BoundedInduction
  <2> QED BY <2>1
<1> QED BY <1>1, <1>5 DEF T

\* The list of a trace.
LEMMA TraceIdsGo ==
  ASSUME NEW c, Ready(c), c.type = "AppTrace", NEW F, c.read \subseteq F
  PROVE  Goes(c, FlattenSeq([k \in DOMAIN c.new.trace_ids |-> Prefixed(6, c.new.trace_ids[k])]),
              F, 0, F, Count(c.new))
<1> DEFINE q == c.new
           n == Count(q)
           s == q.trace_ids
           e == [k \in DOMAIN s |-> Prefixed(6, s[k])]
<1>1. Meet(c.type, c.old, q) /\ SendableFlat(c.type, q)
  BY DEF Ready, Sendable
<1>2. "trace_ids" \in DOMAIN q /\ "trace_ids" \in DOMAIN c.old /\ s \in Seq(Seq(Byte))
  <2>1. "trace_ids" \in Names("AppTrace")
    BY NamesOfTypes
  <2> QED BY <1>1, <2>1, MeetSays DEF Lists
<1>3. n = Len(s) /\ n \in Nat /\ DOMAIN s = 1..n
  BY <1>2 DEF Count
<1>4. \A k \in 1..n : s[k] \in Seq(Byte) /\ Len(s[k]) < Half
  <2>1. \A k \in DOMAIN s : Len(s[k]) < Half
    BY <1>1, <1>2 DEF SendableFlat
  <2> DEFINE S == Seq(Byte)
  <2> HIDE DEF n, s
  <2>2. s \in Seq(S)
    BY <1>2
  <2> HIDE DEF S
  <2>3. \A k \in 1..n : s[k] \in S
    BY <1>3, <2>2
  <2> QED BY <1>3, <2>1, <2>3 DEF S
<1>5. 6 \in 1..35 /\ 6 \in DOMAIN Cases(c.type) /\ KindOf(c.type, 6) = "strings"
      /\ NameOf(c.type, 6) = "trace_ids"
  BY TraceCases DEF Cases, KindOf, NameOf
<1> HIDE DEF s, n
<1>6. ASSUME NEW k \in 1..n
      PROVE  Goes(c, Prefixed(6, s[k]), F, k - 1, F, k) /\ Prefixed(6, s[k]) \in Seq(Byte)
  <2> DEFINE i == k - 1
             t == s[k]
             body == EncodeVarint(Len(t)) \o t
             v == 8 * 6 + 2
             m == Held(c, F, i, 0)
             o == Held(c, F, k, 0)
  <2>1. i \in 0..Count(q) /\ k \in 0..Count(q) /\ i \in Nat /\ i + 1 = k /\ i < Len(s)
    BY <1>3 DEF n
  <2>2. t \in Seq(Byte) /\ Len(t) < Half
    BY <1>4
  <2>3. Prefixed(6, t) = Encoded(v, body) /\ body \in Seq(Byte) /\ v \in 0..(Word64 - 1)
    BY <1>5, <2>2, PrefixedIs, Zenon
  <2> HIDE DEF i
  <2>4. Put(m, "trace_ids", Append(m["trace_ids"], t)) = o
    <3>1. Put(Partial(c.old, q, F, i, 0), "trace_ids",
              Append(Partial(c.old, q, F, i, 0)["trace_ids"], q["trace_ids"][i + 1]))
            = Partial(c.old, q, F, i + 1, 0)
      BY <1>1, <1>2, <2>1, PartialMore DEF s
    <3> QED BY <2>1, <3>1 DEF Held, s
  <2> HIDE DEF m, o, t
  <2>5. FlatStep(c.type, m, v, body, o)
    BY <1>5, <2>2, <2>4 DEF FlatStep
  <2> HIDE DEF body, v
  <2>6. Step(c.type, m, v, body, o)
    BY <2>5 DEF Step
  <2>7. Goes(c, Encoded(v, body), F, i, F, k)
    BY <2>1, <2>3, <2>6, GoesStep DEF m, o
  <2>8. Goes(c, Prefixed(6, t), F, i, F, k)
    BY <2>3, <2>7
  <2> QED BY <2>8 DEF Goes, i, t
<1>7. e \in [1..n -> Seq(Byte)] /\ \A k \in 1..n : Goes(c, e[k], F, k - 1, F, k)
  BY <1>3, <1>6
<1> HIDE DEF e
<1>8. Goes(c, FlattenSeq(e), F, 0, F, n)
  BY <1>3, <1>7, ListGoes DEF n
<1> QED BY <1>8 DEF e, s, n

\* How long the one list of a message is.
LEMMA CountIs ==
  ASSUME NEW type, NEW p, NEW q, Meet(type, p, q)
  PROVE  /\ \A f \in {"trace_ids", "attributes"} \cap DOMAIN q : Count(q) = Len(q[f])
         /\ Count(q) \in Nat
<1>1. \A f \in {"trace_ids", "attributes"} \cap DOMAIN q : Len(q[f]) \in Nat
  BY ListsAre DEF Lists
<1>2. ~({"trace_ids", "attributes"} \subseteq DOMAIN q)
  <2>1. ASSUME "attributes" \in DOMAIN q PROVE type = "AppInfo"
    <3>1. "attributes" \in DOMAIN p
      BY <2>1, ListsAre DEF Lists
    <3> QED BY <3>1, MeetSays
  <2>2. DOMAIN q \subseteq Names(type)
    BY MeetSays
  <2>3. "trace_ids" \notin Names("AppInfo")
    BY NamesOfTypes
  <2> QED BY <2>1, <2>2, <2>3
<1> QED BY <1>1, <1>2 DEF Count

\* Reading the bytes brings all of the new message.
Brings(c, b) ==
  b \in Seq(Byte) /\ Leads(c.lows, c.highs, c.type, b, c.old, Merge(c.old, c.new))

\* All fields are read, then what a newer schema has.
LEMMA ReadWhole ==
  ASSUME NEW c, Ready(c), NEW b, NEW F, c.read \subseteq F, DOMAIN c.new \subseteq F \cup Lists,
         Goes(c, b, {}, 0, F, Count(c.new))
  PROVE  Brings(c, b \o c.new.unknown)
<1> DEFINE q == c.new
           n == Count(q)
           w == Held(c, F, n, Len(q.unknown))
<1>1. Meet(c.type, c.old, q)
  BY DEF Ready
<1>2. n \in Nat /\ \A f \in {"trace_ids", "attributes"} \cap DOMAIN q : n = Len(q[f])
  BY <1>1, CountIs
<1>3. Held(c, {}, 0, 0) = c.old
  BY <1>1, PartialNone DEF Held
<1> HIDE DEF n
<1>4. w = Merge(c.old, q)
  BY <1>1, <1>2, PartialAll DEF Held
<1> HIDE DEF w
<1>5. n \in 0..Count(q)
  BY <1>2 DEF n
<1>6. Leads(c.lows, c.highs, c.type, q.unknown, Held(c, F, n, 0), w) /\ q.unknown \in Seq(Byte)
  BY <1>5, UnknownGoes DEF w
<1>7. b \in Seq(Byte) /\ Leads(c.lows, c.highs, c.type, b, c.old, Held(c, F, n, 0))
  BY <1>3 DEF Goes, n
<1>8. Leads(c.lows, c.highs, c.type, b \o q.unknown, c.old, w)
  BY <1>6, <1>7, LeadsThen
<1>9. b \o q.unknown \in Seq(Byte)
  BY <1>6, <1>7
<1> QED BY <1>4, <1>8, <1>9 DEF Brings

\* Where a writer starts.
LEMMA FromNothing ==
  ASSUME NEW c, Ready(c)
  PROVE  0 \in 0..Count(c.new)
<1>1. Count(c.new) \in Nat
  BY CountIs DEF Ready
<1> QED BY <1>1

\* The decoder of each type reads what its writer wrote.
LEMMA RequestReads ==
  ASSUME NEW c, Ready(c), c.type = "AppRequest", c.read = {}
  PROVE  Brings(c, AppRequest_MarshalVT(c.new))
<1> DEFINE q == c.new
           F1 == {} \cup {"version"}
           F2 == F1 \cup {"type"}
           F3 == F2 \cup {"domain"}
           F4 == F3 \cup {"resource"}
           F5 == F4 \cup {"endpoint"}
           b1 == Text(q, 1, "version")
           b2 == b1 \o Text(q, 2, "type")
           b3 == b2 \o Text(q, 3, "domain")
           b4 == b3 \o Text(q, 4, "resource")
           b5 == b4 \o Text(q, 5, "endpoint")
<1>1. /\ IsCase(c.type, 1, "string", "version")
      /\ IsCase(c.type, 2, "string", "type")
      /\ IsCase(c.type, 3, "string", "domain")
      /\ IsCase(c.type, 4, "string", "resource")
      /\ IsCase(c.type, 5, "string", "endpoint")
  BY RequestCases DEF Cases, KindOf, NameOf, IsCase
<1>2. 0 \in 0..Count(q)
  BY FromNothing
<1>3. /\ c.read \subseteq {}
      /\ c.read \subseteq F1
      /\ c.read \subseteq F2
      /\ c.read \subseteq F3
      /\ c.read \subseteq F4
      /\ c.read \subseteq F5
  OBVIOUS
<1>4. DOMAIN q \subseteq F5 \cup Lists
  <2>1. DOMAIN q \subseteq Names(c.type)
    BY MeetSays DEF Ready
  <2> QED BY <2>1, NamesOfTypes DEF Lists
<1>5. /\ "version" \notin Plain
      /\ "type" \notin Plain
      /\ "domain" \notin Plain
      /\ "resource" \notin Plain
      /\ "endpoint" \notin Plain
  BY DEF Plain
<1> HIDE DEF F1, F2, F3, F4, F5, q
<1>6. Goes(c, Text(q, 1, "version"), {}, 0, F1, 0)
  BY <1>1, <1>2, <1>3, <1>5, TextGoes DEF F1, q
<1>7. Goes(c, Text(q, 2, "type"), F1, 0, F2, 0)
  BY <1>1, <1>2, <1>3, <1>5, TextGoes DEF F2, q
<1>8. Goes(c, Text(q, 3, "domain"), F2, 0, F3, 0)
  BY <1>1, <1>2, <1>3, <1>5, TextGoes DEF F3, q
<1>9. Goes(c, Text(q, 4, "resource"), F3, 0, F4, 0)
  BY <1>1, <1>2, <1>3, <1>5, TextGoes DEF F4, q
<1>10. Goes(c, Text(q, 5, "endpoint"), F4, 0, F5, 0)
  BY <1>1, <1>2, <1>3, <1>5, TextGoes DEF F5, q
<1>11. Goes(c, b1, {}, 0, F1, 0)
  BY <1>6
<1>12. Goes(c, b2, {}, 0, F2, 0)
  <2> HIDE DEF b1
  <2> QED BY <1>11, <1>7, GoesThen
<1>13. Goes(c, b3, {}, 0, F3, 0)
  <2> HIDE DEF b2
  <2> QED BY <1>12, <1>8, GoesThen
<1>14. Goes(c, b4, {}, 0, F4, 0)
  <2> HIDE DEF b3
  <2> QED BY <1>13, <1>9, GoesThen
<1>15. Goes(c, b5, {}, 0, F5, 0)
  <2> HIDE DEF b4
  <2> QED BY <1>14, <1>10, GoesThen
<1>16. Count(q) = 0
  <2>1. "trace_ids" \notin Names(c.type) /\ "attributes" \notin Names(c.type)
    BY NamesOfTypes
  <2>2. DOMAIN q \subseteq Names(c.type)
    BY MeetSays DEF Ready, q
  <2> QED BY <2>1, <2>2 DEF Count
<1> HIDE DEF b5
<1>17. Goes(c, b5, {}, 0, F5, Count(q))
  BY <1>15, <1>16
<1>18. Brings(c, (b5) \o q.unknown)
  BY <1>3, <1>4, <1>17, ReadWhole DEF q
<1> QED BY <1>18 DEF b1, b2, b3, b4, b5, q, AppRequest_MarshalVT

LEMMA ResponseReads ==
  ASSUME NEW c, Ready(c), c.type = "AppResponse", c.read = {}
  PROVE  Brings(c, AppResponse_MarshalVT(c.new))
<1> DEFINE q == c.new
           F1 == {} \cup {"status"}
           F2 == F1 \cup {"code"}
           F3 == F2 \cup {"exception"}
           F4 == F3 \cup {"result"}
           F5 == F4 \cup {"type"}
           F6 == F5 \cup {"endpoint"}
           b1 == Number(q, 1, "status")
           b2 == b1 \o Number(q, 2, "code")
           b3 == b2 \o Text(q, 3, "exception")
           b4 == b3 \o Text(q, 4, "result")
           b5 == b4 \o Text(q, 5, "type")
           b6 == b5 \o Text(q, 6, "endpoint")
<1>1. /\ IsCase(c.type, 1, "int32", "status")
      /\ IsCase(c.type, 2, "int32", "code")
      /\ IsCase(c.type, 3, "string", "exception")
      /\ IsCase(c.type, 4, "string", "result")
      /\ IsCase(c.type, 5, "string", "type")
      /\ IsCase(c.type, 6, "string", "endpoint")
  BY ResponseCases DEF Cases, KindOf, NameOf, IsCase
<1>2. 0 \in 0..Count(q)
  BY FromNothing
<1>3. /\ c.read \subseteq {}
      /\ c.read \subseteq F1
      /\ c.read \subseteq F2
      /\ c.read \subseteq F3
      /\ c.read \subseteq F4
      /\ c.read \subseteq F5
      /\ c.read \subseteq F6
  OBVIOUS
<1>4. DOMAIN q \subseteq F6 \cup Lists
  <2>1. DOMAIN q \subseteq Names(c.type)
    BY MeetSays DEF Ready
  <2> QED BY <2>1, NamesOfTypes DEF Lists
<1>5. /\ "exception" \notin Plain
      /\ "result" \notin Plain
      /\ "type" \notin Plain
      /\ "endpoint" \notin Plain
  BY DEF Plain
<1> HIDE DEF F1, F2, F3, F4, F5, F6, q
<1>6. Goes(c, Number(q, 1, "status"), {}, 0, F1, 0)
  BY <1>1, <1>2, <1>3, <1>5, NumberGoes DEF F1, q
<1>7. Goes(c, Number(q, 2, "code"), F1, 0, F2, 0)
  BY <1>1, <1>2, <1>3, <1>5, NumberGoes DEF F2, q
<1>8. Goes(c, Text(q, 3, "exception"), F2, 0, F3, 0)
  BY <1>1, <1>2, <1>3, <1>5, TextGoes DEF F3, q
<1>9. Goes(c, Text(q, 4, "result"), F3, 0, F4, 0)
  BY <1>1, <1>2, <1>3, <1>5, TextGoes DEF F4, q
<1>10. Goes(c, Text(q, 5, "type"), F4, 0, F5, 0)
  BY <1>1, <1>2, <1>3, <1>5, TextGoes DEF F5, q
<1>11. Goes(c, Text(q, 6, "endpoint"), F5, 0, F6, 0)
  BY <1>1, <1>2, <1>3, <1>5, TextGoes DEF F6, q
<1>12. Goes(c, b1, {}, 0, F1, 0)
  BY <1>6
<1>13. Goes(c, b2, {}, 0, F2, 0)
  <2> HIDE DEF b1
  <2> QED BY <1>12, <1>7, GoesThen
<1>14. Goes(c, b3, {}, 0, F3, 0)
  <2> HIDE DEF b2
  <2> QED BY <1>13, <1>8, GoesThen
<1>15. Goes(c, b4, {}, 0, F4, 0)
  <2> HIDE DEF b3
  <2> QED BY <1>14, <1>9, GoesThen
<1>16. Goes(c, b5, {}, 0, F5, 0)
  <2> HIDE DEF b4
  <2> QED BY <1>15, <1>10, GoesThen
<1>17. Goes(c, b6, {}, 0, F6, 0)
  <2> HIDE DEF b5
  <2> QED BY <1>16, <1>11, GoesThen
<1>18. Count(q) = 0
  <2>1. "trace_ids" \notin Names(c.type) /\ "attributes" \notin Names(c.type)
    BY NamesOfTypes
  <2>2. DOMAIN q \subseteq Names(c.type)
    BY MeetSays DEF Ready, q
  <2> QED BY <2>1, <2>2 DEF Count
<1> HIDE DEF b6
<1>19. Goes(c, b6, {}, 0, F6, Count(q))
  BY <1>17, <1>18
<1>20. Brings(c, (b6) \o q.unknown)
  BY <1>3, <1>4, <1>19, ReadWhole DEF q
<1> QED BY <1>20 DEF b1, b2, b3, b4, b5, b6, q, AppResponse_MarshalVT

LEMMA TraceReads ==
  ASSUME NEW c, Ready(c), c.type = "AppTrace", c.read = {}
  PROVE  Brings(c, AppTrace_MarshalVT(c.new))
<1> DEFINE q == c.new
           F1 == {} \cup {"trace_id"}
           F2 == F1 \cup {"span_id"}
           F3 == F2 \cup {"parent_span_id"}
           F4 == F3 \cup {"x_request_id"}
           F5 == F4 \cup {"http_proxy_client"}
           b1 == Text(q, 1, "trace_id")
           b2 == b1 \o Text(q, 2, "span_id")
           b3 == b2 \o Text(q, 3, "parent_span_id")
           b4 == b3 \o Text(q, 4, "x_request_id")
           b5 == b4 \o Text(q, 5, "http_proxy_client")
           t == FlattenSeq([k \in DOMAIN q.trace_ids |-> Prefixed(6, q.trace_ids[k])])
<1>1. /\ IsCase(c.type, 1, "string", "trace_id")
      /\ IsCase(c.type, 2, "string", "span_id")
      /\ IsCase(c.type, 3, "string", "parent_span_id")
      /\ IsCase(c.type, 4, "string", "x_request_id")
      /\ IsCase(c.type, 5, "string", "http_proxy_client")
  BY TraceCases DEF Cases, KindOf, NameOf, IsCase
<1>2. 0 \in 0..Count(q)
  BY FromNothing
<1>3. /\ c.read \subseteq {}
      /\ c.read \subseteq F1
      /\ c.read \subseteq F2
      /\ c.read \subseteq F3
      /\ c.read \subseteq F4
      /\ c.read \subseteq F5
  OBVIOUS
<1>4. DOMAIN q \subseteq F5 \cup Lists
  <2>1. DOMAIN q \subseteq Names(c.type)
    BY MeetSays DEF Ready
  <2> QED BY <2>1, NamesOfTypes DEF Lists
<1>5. /\ "trace_id" \notin Plain
      /\ "span_id" \notin Plain
      /\ "parent_span_id" \notin Plain
      /\ "x_request_id" \notin Plain
      /\ "http_proxy_client" \notin Plain
  BY DEF Plain
<1> HIDE DEF F1, F2, F3, F4, F5, q
<1>6. Goes(c, Text(q, 1, "trace_id"), {}, 0, F1, 0)
  BY <1>1, <1>2, <1>3, <1>5, TextGoes DEF F1, q
<1>7. Goes(c, Text(q, 2, "span_id"), F1, 0, F2, 0)
  BY <1>1, <1>2, <1>3, <1>5, TextGoes DEF F2, q
<1>8. Goes(c, Text(q, 3, "parent_span_id"), F2, 0, F3, 0)
  BY <1>1, <1>2, <1>3, <1>5, TextGoes DEF F3, q
<1>9. Goes(c, Text(q, 4, "x_request_id"), F3, 0, F4, 0)
  BY <1>1, <1>2, <1>3, <1>5, TextGoes DEF F4, q
<1>10. Goes(c, Text(q, 5, "http_proxy_client"), F4, 0, F5, 0)
  BY <1>1, <1>2, <1>3, <1>5, TextGoes DEF F5, q
<1>11. Goes(c, b1, {}, 0, F1, 0)
  BY <1>6
<1>12. Goes(c, b2, {}, 0, F2, 0)
  <2> HIDE DEF b1
  <2> QED BY <1>11, <1>7, GoesThen
<1>13. Goes(c, b3, {}, 0, F3, 0)
  <2> HIDE DEF b2
  <2> QED BY <1>12, <1>8, GoesThen
<1>14. Goes(c, b4, {}, 0, F4, 0)
  <2> HIDE DEF b3
  <2> QED BY <1>13, <1>9, GoesThen
<1>15. Goes(c, b5, {}, 0, F5, 0)
  <2> HIDE DEF b4
  <2> QED BY <1>14, <1>10, GoesThen
<1>16. Goes(c, t, F5, 0, F5, Count(q))
  BY <1>3, TraceIdsGo DEF q
<1> HIDE DEF b5, t
<1>17. Goes(c, b5 \o t, {}, 0, F5, Count(q))
  BY <1>15, <1>16, GoesThen
<1>18. Brings(c, (b5 \o t) \o q.unknown)
  BY <1>3, <1>4, <1>17, ReadWhole DEF q
<1> QED BY <1>18 DEF b1, b2, b3, b4, b5, t, q, AppTrace_MarshalVT

LEMMA NatsReads ==
  ASSUME NEW c, Ready(c), c.type = "NatsMessage", c.read = {}
  PROVE  Brings(c, NatsMessage_MarshalVT(c.new))
<1> DEFINE q == c.new
           F1 == {} \cup {"subject"}
           F2 == F1 \cup {"reply_to"}
           F3 == F2 \cup {"payload"}
           b1 == NonEmpty(q, 1, "subject")
           b2 == b1 \o NonEmpty(q, 2, "reply_to")
           b3 == b2 \o NonEmpty(q, 3, "payload")
<1>1. /\ IsCase(c.type, 1, "string", "subject")
      /\ IsCase(c.type, 2, "string", "reply_to")
      /\ IsCase(c.type, 3, "string", "payload")
  BY NatsCases DEF Cases, KindOf, NameOf, IsCase
<1>2. 0 \in 0..Count(q)
  BY FromNothing
<1>3. /\ c.read \subseteq {}
      /\ c.read \subseteq F1
      /\ c.read \subseteq F2
      /\ c.read \subseteq F3
  OBVIOUS
<1>4. DOMAIN q \subseteq F3 \cup Lists
  <2>1. DOMAIN q \subseteq Names(c.type)
    BY MeetSays DEF Ready
  <2> QED BY <2>1, NamesOfTypes DEF Lists
<1>5. /\ "subject" \in Plain
      /\ "reply_to" \in Plain
      /\ "payload" \in Plain
  BY DEF Plain
<1> HIDE DEF F1, F2, F3, q
<1>6. Goes(c, NonEmpty(q, 1, "subject"), {}, 0, F1, 0)
  BY <1>1, <1>2, <1>3, <1>5, NonEmptyGoes DEF F1, q
<1>7. Goes(c, NonEmpty(q, 2, "reply_to"), F1, 0, F2, 0)
  BY <1>1, <1>2, <1>3, <1>5, NonEmptyGoes DEF F2, q
<1>8. Goes(c, NonEmpty(q, 3, "payload"), F2, 0, F3, 0)
  BY <1>1, <1>2, <1>3, <1>5, NonEmptyGoes DEF F3, q
<1>9. Goes(c, b1, {}, 0, F1, 0)
  BY <1>6
<1>10. Goes(c, b2, {}, 0, F2, 0)
  <2> HIDE DEF b1
  <2> QED BY <1>9, <1>7, GoesThen
<1>11. Goes(c, b3, {}, 0, F3, 0)
  <2> HIDE DEF b2
  <2> QED BY <1>10, <1>8, GoesThen
<1>12. Count(q) = 0
  <2>1. "trace_ids" \notin Names(c.type) /\ "attributes" \notin Names(c.type)
    BY NamesOfTypes
  <2>2. DOMAIN q \subseteq Names(c.type)
    BY MeetSays DEF Ready, q
  <2> QED BY <2>1, <2>2 DEF Count
<1> HIDE DEF b3
<1>13. Goes(c, b3, {}, 0, F3, Count(q))
  BY <1>11, <1>12
<1>14. Brings(c, (b3) \o q.unknown)
  BY <1>3, <1>4, <1>13, ReadWhole DEF q
<1> QED BY <1>14 DEF b1, b2, b3, q, NatsMessage_MarshalVT

LEMMA ZmtpReads ==
  ASSUME NEW c, Ready(c), c.type = "ZmtpMessage", c.read = {}
  PROVE  Brings(c, ZmtpMessage_MarshalVT(c.new))
<1> DEFINE q == c.new
           F1 == {} \cup {"payload"}
           F2 == F1 \cup {"match_pattern"}
           b1 == NonEmpty(q, 2, "payload")
           b2 == b1 \o Text(q, 1, "match_pattern")
<1>1. /\ IsCase(c.type, 2, "string", "payload")
      /\ IsCase(c.type, 1, "string", "match_pattern")
  BY ZmtpCases DEF Cases, KindOf, NameOf, IsCase
<1>2. 0 \in 0..Count(q)
  BY FromNothing
<1>3. /\ c.read \subseteq {}
      /\ c.read \subseteq F1
      /\ c.read \subseteq F2
  OBVIOUS
<1>4. DOMAIN q \subseteq F2 \cup Lists
  <2>1. DOMAIN q \subseteq Names(c.type)
    BY MeetSays DEF Ready
  <2> QED BY <2>1, NamesOfTypes DEF Lists
<1>5. /\ "payload" \in Plain
      /\ "match_pattern" \notin Plain
  BY DEF Plain
<1> HIDE DEF F1, F2, q
<1>6. Goes(c, NonEmpty(q, 2, "payload"), {}, 0, F1, 0)
  BY <1>1, <1>2, <1>3, <1>5, NonEmptyGoes DEF F1, q
<1>7. Goes(c, Text(q, 1, "match_pattern"), F1, 0, F2, 0)
  BY <1>1, <1>2, <1>3, <1>5, TextGoes DEF F2, q
<1>8. Goes(c, b1, {}, 0, F1, 0)
  BY <1>6
<1>9. Goes(c, b2, {}, 0, F2, 0)
  <2> HIDE DEF b1
  <2> QED BY <1>8, <1>7, GoesThen
<1>10. Count(q) = 0
  <2>1. "trace_ids" \notin Names(c.type) /\ "attributes" \notin Names(c.type)
    BY NamesOfTypes
  <2>2. DOMAIN q \subseteq Names(c.type)
    BY MeetSays DEF Ready, q
  <2> QED BY <2>1, <2>2 DEF Count
<1> HIDE DEF b2
<1>11. Goes(c, b2, {}, 0, F2, Count(q))
  BY <1>9, <1>10
<1>12. Brings(c, (b2) \o q.unknown)
  BY <1>3, <1>4, <1>11, ReadWhole DEF q
<1> QED BY <1>12 DEF b1, b2, q, ZmtpMessage_MarshalVT, Text, Subscription, ZmtpMessage_MatchPattern_MarshalVT

LEMMA ZmtpReadsStrict ==
  ASSUME NEW c, Ready(c), c.type = "ZmtpMessage", c.read = {}
  PROVE  Brings(c, ZmtpMessage_MarshalVTStrict(c.new))
<1> DEFINE q == c.new
           F1 == {} \cup {"match_pattern"}
           F2 == F1 \cup {"payload"}
           b1 == Text(q, 1, "match_pattern")
           b2 == b1 \o NonEmpty(q, 2, "payload")
<1>1. /\ IsCase(c.type, 1, "string", "match_pattern")
      /\ IsCase(c.type, 2, "string", "payload")
  BY ZmtpCases DEF Cases, KindOf, NameOf, IsCase
<1>2. 0 \in 0..Count(q)
  BY FromNothing
<1>3. /\ c.read \subseteq {}
      /\ c.read \subseteq F1
      /\ c.read \subseteq F2
  OBVIOUS
<1>4. DOMAIN q \subseteq F2 \cup Lists
  <2>1. DOMAIN q \subseteq Names(c.type)
    BY MeetSays DEF Ready
  <2> QED BY <2>1, NamesOfTypes DEF Lists
<1>5. /\ "payload" \in Plain
      /\ "match_pattern" \notin Plain
  BY DEF Plain
<1> HIDE DEF F1, F2, q
<1>6. Goes(c, Text(q, 1, "match_pattern"), {}, 0, F1, 0)
  BY <1>1, <1>2, <1>3, <1>5, TextGoes DEF F1, q
<1>7. Goes(c, NonEmpty(q, 2, "payload"), F1, 0, F2, 0)
  BY <1>1, <1>2, <1>3, <1>5, NonEmptyGoes DEF F2, q
<1>8. Goes(c, b1, {}, 0, F1, 0)
  BY <1>6
<1>9. Goes(c, b2, {}, 0, F2, 0)
  <2> HIDE DEF b1
  <2> QED BY <1>8, <1>7, GoesThen
<1>10. Count(q) = 0
  <2>1. "trace_ids" \notin Names(c.type) /\ "attributes" \notin Names(c.type)
    BY NamesOfTypes
  <2>2. DOMAIN q \subseteq Names(c.type)
    BY MeetSays DEF Ready, q
  <2> QED BY <2>1, <2>2 DEF Count
<1> HIDE DEF b2
<1>11. Goes(c, b2, {}, 0, F2, Count(q))
  BY <1>9, <1>10
<1>12. Brings(c, (b2) \o q.unknown)
  BY <1>3, <1>4, <1>11, ReadWhole DEF q
<1> QED BY <1>12 DEF b1, b2, q, ZmtpMessage_MarshalVTStrict, Text, Subscription, ZmtpMessage_MatchPattern_MarshalVT

LEMMA KeyValReads ==
  ASSUME NEW c, Ready(c), c.type = "KeyVal", c.read = {}
  PROVE  Brings(c, KeyVal_MarshalVT(c.new))
<1> DEFINE q == c.new
           F1 == {} \cup {"key"}
           F2 == F1 \cup {"val"}
           b1 == NonEmpty(q, 1, "key")
           b2 == b1 \o NonEmpty(q, 2, "val")
<1>1. /\ IsCase(c.type, 1, "string", "key")
      /\ IsCase(c.type, 2, "string", "val")
  BY KeyValCases DEF Cases, KindOf, NameOf, IsCase
<1>2. 0 \in 0..Count(q)
  BY FromNothing
<1>3. /\ c.read \subseteq {}
      /\ c.read \subseteq F1
      /\ c.read \subseteq F2
  OBVIOUS
<1>4. DOMAIN q \subseteq F2 \cup Lists
  <2>1. DOMAIN q \subseteq Names(c.type)
    BY MeetSays DEF Ready
  <2> QED BY <2>1, NamesOfTypes DEF Lists
<1>5. /\ "key" \in Plain
      /\ "val" \in Plain
  BY DEF Plain
<1> HIDE DEF F1, F2, q
<1>6. Goes(c, NonEmpty(q, 1, "key"), {}, 0, F1, 0)
  BY <1>1, <1>2, <1>3, <1>5, NonEmptyGoes DEF F1, q
<1>7. Goes(c, NonEmpty(q, 2, "val"), F1, 0, F2, 0)
  BY <1>1, <1>2, <1>3, <1>5, NonEmptyGoes DEF F2, q
<1>8. Goes(c, b1, {}, 0, F1, 0)
  BY <1>6
<1>9. Goes(c, b2, {}, 0, F2, 0)
  <2> HIDE DEF b1
  <2> QED BY <1>8, <1>7, GoesThen
<1>10. Count(q) = 0
  <2>1. "trace_ids" \notin Names(c.type) /\ "attributes" \notin Names(c.type)
    BY NamesOfTypes
  <2>2. DOMAIN q \subseteq Names(c.type)
    BY MeetSays DEF Ready, q
  <2> QED BY <2>1, <2>2 DEF Count
<1> HIDE DEF b2
<1>11. Goes(c, b2, {}, 0, F2, Count(q))
  BY <1>9, <1>10
<1>12. Brings(c, (b2) \o q.unknown)
  BY <1>3, <1>4, <1>11, ReadWhole DEF q
<1>20. q # Nil
  BY DEF Ready, Sendable, SendableFlat, q
<1> QED BY <1>20, <1>12 DEF b1, b2, q, KeyVal_MarshalVT

\* Every decoder of a message that nests none.
LEMMA FlatReads ==
  ASSUME NEW c, Ready(c), c.type # "AppInfo", c.read = {}, NEW strict \in BOOLEAN
  PROVE  Brings(c, Written(c.type, strict, c.new))
<1>1. c.type \in Types
  BY DEF Ready, Meet
<1>2. CASE c.type = "AppRequest"
  BY <1>2, RequestReads DEF Written
<1>3. CASE c.type = "AppResponse"
  BY <1>3, ResponseReads DEF Written
<1>4. CASE c.type = "AppTrace"
  BY <1>4, TraceReads DEF Written
<1>5. CASE c.type = "KeyVal"
  BY <1>5, KeyValReads DEF Written
<1>6. CASE c.type = "NatsMessage"
  BY <1>6, NatsReads DEF Written
<1>7. CASE c.type = "ZmtpMessage"
  BY <1>7, ZmtpReads, ZmtpReadsStrict DEF Written
<1> QED BY <1>1, <1>2, <1>3, <1>4, <1>5, <1>6, <1>7 DEF Types

\* A message in a field: what its decoder makes of it.
NestedReads(type, b, m, n) ==
  /\ b \in Seq(Byte)
  /\ \E N : FlatMarks(type, b, N) /\ N[0] = m /\ N[Len(b)] = n

\* A nested message reads into the one that was there.
LEMMA MessageReads ==
  ASSUME NEW type \in Types, type # "AppInfo", NEW m, GoodFlat(Byte, type, m),
         NEW w, SendableFlat(type, w)
  PROVE  NestedReads(type, Written(type, FALSE, w), m, MergeFlat(m, w))
<1> DEFINE c == [type |-> type, old |-> m, new |-> w, read |-> {}, lows |-> {}, highs |-> {}]
           b == Written(type, FALSE, w)
<1>1. /\ c.type = type /\ c.old = m /\ c.new = w /\ c.read = {} /\ c.lows = {} /\ c.highs = {}
  OBVIOUS
<1>2. Meet(type, m, w)
  BY DEF Meet, Good, SendableFlat
<1>3. Sendable(type, w)
  BY DEF Sendable, SendableFlat, Good
<1> HIDE DEF c, b
<1>4. Ready(c)
  <2>1. \A n : Between(c.lows, c.highs, n)
    BY <1>1 DEF Between
  <2> QED BY <1>1, <1>2, <1>3, <2>1 DEF Ready
<1>5. Brings(c, b)
  BY <1>1, <1>4, FlatReads DEF b
<1>6. b \in Seq(Byte) /\ Leads({}, {}, type, b, m, Merge(m, w))
  BY <1>1, <1>5 DEF Brings
<1>7. PICK N : Reaches({}, {}, type, b, m, Merge(m, w), N)
  BY <1>6 DEF Leads
<1>8. Marks(type, b, N) /\ N[0] = m /\ N[Len(b)] = MergeFlat(m, w)
  BY <1>2, <1>7, MergesFlat DEF Reaches
<1>9. FlatMarks(type, b, N)
  BY <1>8, FlatTypes
<1> QED BY <1>6, <1>8, <1>9 DEF NestedReads, b

\* A request, a response or a trace in its field of an AppInfo.
LEMMA InnerReads ==
  ASSUME NEW p, NEW q, Meet("AppInfo", p, q), NEW f \in Inner \cap DOMAIN q,
         SendableFlat(TypeOf[f], q[f])
  PROVE  NestedReads(TypeOf[f], Written(TypeOf[f], FALSE, q[f]), InnerBegins(p, f), Grown(p, q, f))
<1> DEFINE t == TypeOf[f]
           m == InnerBegins(p, f)
<1>1. t \in Types /\ t # "AppInfo"
  BY DEF Types, TypeOf, Inner
<1>2. GoodFlat(Byte, t, m)
  <2>1. CASE f \in DOMAIN p
    BY <2>1, MeetSays DEF InnerBegins
  <2>2. CASE f \notin DOMAIN p
    <3>1. Good(Byte, t, Empty(t))
      BY <1>1, EmptyGood
    <3> QED BY <2>2, <3>1 DEF InnerBegins, Good
  <2> QED BY <2>1, <2>2
<1> HIDE DEF t, m
<1>3. NestedReads(t, Written(t, FALSE, q[f]), m, MergeFlat(m, q[f]))
  BY <1>1, <1>2, MessageReads DEF t
<1>4. MergeFlat(m, q[f]) = Grown(p, q, f)
  <2>1. CASE f \in DOMAIN p
    BY <2>1 DEF m, InnerBegins, Grown
  <2>2. CASE f \notin DOMAIN p
    <3>1. MergeFlat(Empty(t), q[f]) = q[f]
      BY <1>1, MergedIntoEmpty DEF SendableFlat, t
    <3> QED BY <2>2, <3>1 DEF m, t, InnerBegins, Grown
  <2> QED BY <2>1, <2>2
<1> QED BY <1>3, <1>4 DEF t, m

\* The bytes of a message in a field.
LEMMA NestedGoes ==
  ASSUME NEW c, Ready(c), NEW F, c.read \subseteq F, NEW k \in 0..Count(c.new),
         NEW G, c.read \subseteq G, NEW j \in 0..Count(c.new),
         NEW num, NEW w \in {"message", "messages", "oneof"}, NEW f, IsCase(c.type, num, w, f),
         NEW s, Len(s) < Half, NEW n, NEW child,
         NestedReads(TypeOf[f], s, Begun(c.type, num, Held(c, F, k, 0)), child),
         Attach(Opened(c.type, num, Held(c, F, k, 0)), f, child) = Held(c, G, j, 0)
  PROVE  Goes(c, Prefixed(num, s), F, k, G, j)
<1> DEFINE m == Held(c, F, k, 0)
           o == Held(c, G, j, 0)
           body == EncodeVarint(Len(s)) \o s
           v == 8 * num + 2
<1>1. num \in DOMAIN Cases(c.type) /\ KindOf(c.type, num) = w /\ NameOf(c.type, num) = f
  BY DEF IsCase
<1>2. num \in 1..35
  BY CaseSays DEF Ready, Meet
<1>3. s \in Seq(Byte)
  BY DEF NestedReads
<1>4. PICK N : /\ FlatMarks(TypeOf[f], s, N) /\ N[0] = Begun(c.type, num, m) /\ N[Len(s)] = child
  BY DEF NestedReads
<1>5. Prefixed(num, s) = Encoded(v, body) /\ body \in Seq(Byte) /\ v \in 0..(Word64 - 1)
  BY <1>2, <1>3, PrefixedIs
<1>6. o = Attach(Opened(c.type, num, m), f, N[Len(s)])
  BY <1>4
<1> HIDE DEF m, o
<1>7. NestedStep(c.type, m, v, body, o)
  BY <1>1, <1>3, <1>4, <1>6 DEF NestedStep
<1> HIDE DEF v, body
<1>8. Step(c.type, m, v, body, o)
  BY <1>7 DEF Step
<1>9. Goes(c, Encoded(v, body), F, k, G, j)
  BY <1>5, <1>8, GoesStep DEF m, o
<1> QED BY <1>5, <1>9

\* A request, a response or a trace.
LEMMA InnerGoes ==
  ASSUME NEW c, Ready(c), c.type = "AppInfo", NEW F, c.read \subseteq F, NEW k \in 0..Count(c.new),
         NEW num, NEW w \in {"message", "oneof"}, NEW f \in Inner \cap DOMAIN c.new, f \notin F,
         IsCase(c.type, num, w, f)
  PROVE  Goes(c, Prefixed(num, Written(TypeOf[f], FALSE, c.new[f])), F, k, F \cup {f}, k)
<1> DEFINE q == c.new
           m == Held(c, F, k, 0)
           s == Written(TypeOf[f], FALSE, q[f])
           v == Grown(c.old, q, f)
<1>1. Meet("AppInfo", c.old, q) /\ Sendable("AppInfo", q)
  BY DEF Ready
<1>2. SendableFlat(TypeOf[f], q[f]) /\ Len(s) < Half
  BY <1>1 DEF Sendable
<1>3. NestedReads(TypeOf[f], s, InnerBegins(c.old, f), v)
  BY <1>1, <1>2, InnerReads
<1>4. /\ Attach(m, f, v) = Held(c, F \cup {f}, k, 0)
      /\ f \in DOMAIN m <=> f \in DOMAIN c.old
      /\ f \in DOMAIN c.old => m[f] = c.old[f]
  BY <1>1, PartialInner DEF Held
<1>5. KindOf(c.type, num) = w /\ NameOf(c.type, num) = f /\ w # "messages"
  BY DEF IsCase
<1> HIDE DEF m, s, v
<1>6. Begun(c.type, num, m) = InnerBegins(c.old, f)
  BY <1>4, <1>5 DEF Begun, InnerBegins
<1>7. Opened(c.type, num, m) = m
  BY <1>5 DEF Opened
<1>8. NestedReads(TypeOf[f], s, Begun(c.type, num, m), v)
  BY <1>3, <1>6
<1>9. Attach(Opened(c.type, num, m), f, v) = Held(c, F \cup {f}, k, 0)
  BY <1>4, <1>7
<1>10. c.read \subseteq F \cup {f}
  OBVIOUS
<1> DEFINE G == F \cup {f}
<1> HIDE DEF G
<1>11. Goes(c, Prefixed(num, s), F, k, G, k)
  BY <1>2, <1>8, <1>9, <1>10, NestedGoes DEF m, G
<1> QED BY <1>11 DEF s, G

\* What was opened is replaced by what comes.
LEMMA OpenedAndFilled ==
  ASSUME NEW m, "attributes" \in DOMAIN m, IsSequence(m["attributes"]), NEW e, NEW x
  PROVE  Attach(Put(m, "attributes", Append(m["attributes"], e)), "attributes", x)
           = Put(m, "attributes", Append(m["attributes"], x))
<1> DEFINE a == m["attributes"]
           n == Put(m, "attributes", Append(a, e))
<1>1. DOMAIN n = DOMAIN m /\ n["attributes"] = Append(a, e)
      /\ \A g \in DOMAIN m : g # "attributes" => n[g] = m[g]
  BY DEF Put
<1>2. Front(Append(a, e)) = a
  <2> DEFINE S == Range(a) \cup {e}
  <2>1. a \in Seq(Range(a))
    BY DEF IsSequence
  <2>2. a \in Seq(S) /\ e \in S
    <3>1. a \in [1..Len(a) -> Range(a)] /\ Len(a) \in Nat
      BY <2>1
    <3> QED BY <3>1
  <2> HIDE DEF S, a
  <2>3. SubSeq(Append(a, e), 1, Len(Append(a, e)) - 1) = a
    BY <2>2
  <2> QED BY <2>3 DEF Front
<1> HIDE DEF n
<1>3. Attach(n, "attributes", x) = [n EXCEPT !.attributes = Append(Front(@), x)]
  BY DEF Attach
<1>4. [n EXCEPT !.attributes = Append(Front(@), x)]
        = [g \in DOMAIN m |-> IF g = "attributes" THEN Append(a, x) ELSE m[g]]
  BY <1>1, <1>2
<1>5. Put(m, "attributes", Append(a, x))
        = [g \in DOMAIN m |-> IF g = "attributes" THEN Append(a, x) ELSE m[g]]
  <2>1. DOMAIN m \cup {"attributes"} = DOMAIN m
    OBVIOUS
  <2> QED BY <2>1 DEF Put
<1> QED BY <1>3, <1>4, <1>5 DEF n

\* The attributes.
LEMMA AttributesGo ==
  ASSUME NEW c, Ready(c), c.type = "AppInfo", NEW F, c.read \subseteq F
  PROVE  Goes(c, FlattenSeq([k \in DOMAIN c.new.attributes |->
                               Prefixed(31, KeyVal_MarshalVT(c.new.attributes[k]))]),
              F, 0, F, Count(c.new))
<1> DEFINE q == c.new
           n == Count(q)
           s == q.attributes
           e == [k \in DOMAIN s |-> Prefixed(31, KeyVal_MarshalVT(s[k]))]
<1>1. Meet(c.type, c.old, q) /\ Sendable("AppInfo", q) /\ Meet("AppInfo", c.old, q)
  BY DEF Ready
<1>2. "attributes" \in DOMAIN q /\ "attributes" \in DOMAIN c.old /\ IsSequence(s)
  BY <1>1, MeetSays
<1>3. n = Len(s) /\ n \in Nat /\ DOMAIN s = 1..n
  <2>1. s \in Seq(Range(s))
    BY <1>2 DEF IsSequence
  <2>2. n = Len(s)
    BY <1>1, <1>2, CountIs
  <2> QED BY <2>1, <2>2
<1>4. \A k \in 1..n : SendableFlat("KeyVal", s[k]) /\ Len(Written("KeyVal", FALSE, s[k])) < Half
  BY <1>1, <1>3 DEF Sendable
<1>5. IsCase(c.type, 31, "messages", "attributes") /\ TypeOf["attributes"] = "KeyVal"
  BY InfoCases DEF Cases, KindOf, NameOf, IsCase, TypeOf
<1> HIDE DEF s, n
<1>6. ASSUME NEW k \in 1..n
      PROVE  Goes(c, Prefixed(31, KeyVal_MarshalVT(s[k])), F, k - 1, F, k)
  <2> DEFINE i == k - 1
             t == s[k]
             b == Written("KeyVal", FALSE, t)
             m == Held(c, F, i, 0)
  <2>1. i \in 0..Count(q) /\ k \in 0..Count(q) /\ i \in Nat /\ i + 1 = k /\ i < Len(s)
    BY <1>3 DEF n
  <2>2. SendableFlat("KeyVal", t) /\ Len(b) < Half
    BY <1>4
  <2>3. b = KeyVal_MarshalVT(t)
    BY DEF Written
  <2> HIDE DEF i, b, t
  <2>4. "KeyVal" \in Types /\ "KeyVal" # "AppInfo"
    BY DEF Types
  <2>5. NestedReads("KeyVal", b, Empty("KeyVal"), t)
    <3>1. GoodFlat(Byte, "KeyVal", Empty("KeyVal"))
      BY <2>4, EmptyGood DEF Good
    <3>2. NestedReads("KeyVal", b, Empty("KeyVal"), MergeFlat(Empty("KeyVal"), t))
      BY <2>2, <2>4, <3>1, MessageReads DEF b
    <3>3. MergeFlat(Empty("KeyVal"), t) = t
      BY <2>2, <2>4, MergedIntoEmpty DEF SendableFlat
    <3> QED BY <3>2, <3>3
  <2>6. /\ "attributes" \in DOMAIN m /\ IsSequence(m["attributes"])
        /\ Put(m, "attributes", Append(m["attributes"], t)) = Held(c, F, k, 0)
    <3>1. /\ "attributes" \in DOMAIN Partial(c.old, q, F, i, 0)
          /\ IsSequence(Partial(c.old, q, F, i, 0)["attributes"])
          /\ Put(Partial(c.old, q, F, i, 0), "attributes",
                 Append(Partial(c.old, q, F, i, 0)["attributes"], q["attributes"][i + 1]))
               = Partial(c.old, q, F, i + 1, 0)
      BY <1>1, <1>2, <2>1, PartialMore DEF s
    <3> QED BY <2>1, <3>1 DEF Held, s, t
  <2> HIDE DEF m
  <2>7. Begun(c.type, 31, m) = Empty("KeyVal")
        /\ Opened(c.type, 31, m) = Put(m, "attributes", Append(m["attributes"], Empty("KeyVal")))
    BY <1>5 DEF Begun, Opened, IsCase
  <2>8. Attach(Opened(c.type, 31, m), "attributes", t) = Held(c, F, k, 0)
    BY <2>6, <2>7, OpenedAndFilled
  <2>9. NestedReads(TypeOf["attributes"], b, Begun(c.type, 31, m), t)
    BY <1>5, <2>5, <2>7
  <2>10. Goes(c, Prefixed(31, b), F, i, F, k)
    BY <1>5, <2>1, <2>2, <2>8, <2>9, NestedGoes DEF m
  <2> QED BY <2>3, <2>10 DEF i, t
<1>7. e \in [1..n -> Seq(Byte)] /\ \A k \in 1..n : Goes(c, e[k], F, k - 1, F, k)
  BY <1>3, <1>6 DEF Goes
<1> HIDE DEF e
<1>8. Goes(c, FlattenSeq(e), F, 0, F, n)
  BY <1>3, <1>7, ListGoes DEF n
<1> QED BY <1>8 DEF e, s, n

\* The fields Lengths and Rest write.
LengthsNames == {"req_len", "resp_len", "request_id"}

RestNames ==
  {"trace", "protocol_str", "is_end", "is_async", "is_reversed", "biz_type", "biz_code",
   "biz_scenario", "biz_response_code"}

\* The oneof, wherever it stands.
LEMMA InfoGoes ==
  ASSUME NEW c, Ready(c), c.type = "AppInfo", NEW F, c.read \subseteq F,
         {"req", "resp"} \cap F = {}, NEW k \in 0..Count(c.new)
  PROVE  Goes(c, Info(c.new), F, k, F \cup {"req", "resp"}, k)
<1> DEFINE q == c.new
           G == F \cup {"req", "resp"}
<1>1. Meet("AppInfo", c.old, q) /\ Sendable("AppInfo", q)
  BY DEF Ready
<1>2. ~({"req", "resp"} \subseteq DOMAIN q)
  BY <1>1, MeetSays
<1>3. /\ IsCase(c.type, 10, "oneof", "req") /\ IsCase(c.type, 11, "oneof", "resp")
      /\ TypeOf["req"] = "AppRequest" /\ TypeOf["resp"] = "AppResponse"
  BY InfoCases DEF Cases, KindOf, NameOf, IsCase, TypeOf
<1>4. \A f \in Inner \cap DOMAIN q : q[f] # Nil
  BY <1>1 DEF Sendable, SendableFlat
<1>5. c.read \subseteq G /\ "req" \in Inner /\ "resp" \in Inner
  BY DEF Inner
<1> HIDE DEF q
<1>6. CASE "req" \in DOMAIN q
  <2>1. Goes(c, Prefixed(10, Written(TypeOf["req"], FALSE, q["req"])), F, k, F \cup {"req"}, k)
    BY <1>3, <1>5, <1>6, InnerGoes DEF q
  <2>2. Held(c, G, k, 0) = Held(c, F \cup {"req"}, k, 0)
    <3>1. "resp" \notin DOMAIN c.new
      BY <1>2, <1>6 DEF q
    <3>2. Partial(c.old, c.new, (F \cup {"req"}) \cup {"resp"}, k, 0)
            = Partial(c.old, c.new, F \cup {"req"}, k, 0)
      BY <3>1, PartialWithout
    <3>3. G = (F \cup {"req"}) \cup {"resp"}
      OBVIOUS
    <3> QED BY <3>2, <3>3 DEF Held
  <2>3. Goes(c, Prefixed(10, Written(TypeOf["req"], FALSE, q["req"])), F, k, G, k)
    BY <2>1, <2>2 DEF Goes
  <2>4. Info(q) = Prefixed(10, Written(TypeOf["req"], FALSE, q["req"]))
    <3>1. q["req"] # Nil /\ "resp" \notin DOMAIN q
      BY <1>2, <1>4, <1>5, <1>6
    <3> QED BY <1>3, <1>6, <3>1 DEF Info, AppInfo_Req_MarshalVT, Written
  <2> QED BY <2>3, <2>4 DEF q
<1>7. CASE "resp" \in DOMAIN q
  <2>0. "req" \notin DOMAIN q
    BY <1>2, <1>7
  <2>1. Goes(c, Prefixed(11, Written(TypeOf["resp"], FALSE, q["resp"])), F, k, F \cup {"resp"}, k)
    BY <1>3, <1>5, <1>7, InnerGoes DEF q
  <2>2. Held(c, G, k, 0) = Held(c, F \cup {"resp"}, k, 0)
    <3>2. Partial(c.old, c.new, (F \cup {"resp"}) \cup {"req"}, k, 0)
            = Partial(c.old, c.new, F \cup {"resp"}, k, 0)
      BY <2>0, PartialWithout DEF q
    <3>3. G = (F \cup {"resp"}) \cup {"req"}
      OBVIOUS
    <3> QED BY <3>2, <3>3 DEF Held
  <2>3. Goes(c, Prefixed(11, Written(TypeOf["resp"], FALSE, q["resp"])), F, k, G, k)
    BY <2>1, <2>2 DEF Goes
  <2>4. Info(q) = Prefixed(11, Written(TypeOf["resp"], FALSE, q["resp"]))
    <3>1. q["resp"] # Nil
      BY <1>4, <1>5, <1>7
    <3> QED BY <1>3, <1>7, <2>0, <3>1 DEF Info, AppInfo_Resp_MarshalVT, Written
  <2> QED BY <2>3, <2>4 DEF q
<1>8. CASE "req" \notin DOMAIN q /\ "resp" \notin DOMAIN q
  <2>1. Held(c, G, k, 0) = Held(c, F, k, 0)
    <3>1. Partial(c.old, c.new, F \cup {"req"}, k, 0) = Partial(c.old, c.new, F, k, 0)
      BY <1>8, PartialWithout DEF q
    <3>2. Partial(c.old, c.new, (F \cup {"req"}) \cup {"resp"}, k, 0)
            = Partial(c.old, c.new, F \cup {"req"}, k, 0)
      BY <1>8, PartialWithout DEF q
    <3>3. G = (F \cup {"req"}) \cup {"resp"}
      OBVIOUS
    <3> QED BY <3>1, <3>2, <3>3 DEF Held
  <2>2. Goes(c, <<>>, F, k, G, k)
    BY <2>1, GoesNowhere
  <2>3. Info(q) = <<>>
    BY <1>8 DEF Info
  <2> QED BY <2>2, <2>3 DEF q
<1> QED BY <1>6, <1>7, <1>8

\* The trace of an AppInfo.
LEMMA TraceGoes ==
  ASSUME NEW c, Ready(c), c.type = "AppInfo", NEW F, c.read \subseteq F, "trace" \notin F,
         NEW k \in 0..Count(c.new)
  PROVE  Goes(c, IF "trace" \in DOMAIN c.new
                 THEN Prefixed(12, AppTrace_MarshalVT(c.new.trace)) ELSE <<>>,
              F, k, F \cup {"trace"}, k)
<1> DEFINE q == c.new
<1>1. IsCase(c.type, 12, "message", "trace") /\ TypeOf["trace"] = "AppTrace" /\ "trace" \in Inner
  BY InfoCases DEF Cases, KindOf, NameOf, IsCase, TypeOf, Inner
<1>2. CASE "trace" \in DOMAIN q
  <2>1. Goes(c, Prefixed(12, Written(TypeOf["trace"], FALSE, q["trace"])), F, k,
             F \cup {"trace"}, k)
    BY <1>1, <1>2, InnerGoes
  <2>2. Written(TypeOf["trace"], FALSE, q["trace"]) = AppTrace_MarshalVT(q.trace)
    BY <1>1 DEF Written
  <2> QED BY <1>2, <2>1, <2>2
<1>3. CASE "trace" \notin DOMAIN q
  <2>1. Held(c, F \cup {"trace"}, k, 0) = Held(c, F, k, 0)
    BY <1>3, PartialWithout DEF Held
  <2>2. Goes(c, <<>>, F, k, F \cup {"trace"}, k)
    BY <2>1, GoesNowhere
  <2> QED BY <1>3, <2>2
<1> QED BY <1>2, <1>3

\* Its lengths and its request id.
LEMMA LengthsGo ==
  ASSUME NEW c, Ready(c), c.type = "AppInfo", NEW F, c.read \subseteq F
  PROVE  Goes(c, Lengths(c.new), F, 0, F \cup LengthsNames, 0)
<1> DEFINE q == c.new
           n == Count(q)
           t1 == Number(q, 1, "req_len")
           F1 == F \cup {"req_len"}
           t2 == Number(q, 2, "resp_len")
           F2 == F1 \cup {"resp_len"}
           t3 == Number(q, 3, "request_id")
           F3 == F2 \cup {"request_id"}
           b1 == t1
           b2 == b1 \o t2
           b3 == b2 \o t3
<1>1. /\ IsCase(c.type, 1, "uint32", "req_len")
      /\ IsCase(c.type, 2, "uint32", "resp_len")
      /\ IsCase(c.type, 3, "uint32", "request_id")
  BY InfoCases DEF Cases, KindOf, NameOf, IsCase
<1>2. 0 \in 0..n /\ n \in 0..n
  <2>1. n \in Nat
    BY CountIs DEF Ready
  <2> HIDE DEF n
  <2> QED BY <2>1
<1>3. /\ c.read \subseteq F
      /\ c.read \subseteq F1
      /\ c.read \subseteq F2
      /\ c.read \subseteq F3
  OBVIOUS
<1>4. /\ "req_len" \in Counts \ {"status", "code"}
      /\ "resp_len" \in Counts \ {"status", "code"}
      /\ "request_id" \in Counts \ {"status", "code"}
  BY DEF Plain, Counts, Flags
<1>5. F3 = F \cup LengthsNames
  BY DEF LengthsNames
<1> HIDE DEF F1, F2, F3, n
<1>6. Goes(c, t1, F, 0, F1, 0)
  BY <1>1, <1>2, <1>3, <1>4, NumberGoes DEF F1, n
<1>7. Goes(c, t2, F1, 0, F2, 0)
  BY <1>1, <1>2, <1>3, <1>4, NumberGoes DEF F2, n
<1>8. Goes(c, t3, F2, 0, F3, 0)
  BY <1>1, <1>2, <1>3, <1>4, NumberGoes DEF F3, n
<1> HIDE DEF t1, t2, t3, q
<1>9. Goes(c, b1, F, 0, F1, 0)
  BY <1>6
<1>10. Goes(c, b2, F, 0, F2, 0)
  <2> HIDE DEF b1
  <2> QED BY <1>9, <1>7, GoesThen
<1>11. Goes(c, b3, F, 0, F3, 0)
  <2> HIDE DEF b2
  <2> QED BY <1>10, <1>8, GoesThen
<1>12. Lengths(q) = b3
  BY DEF Lengths, t1, t2, t3
<1> HIDE DEF b3
<1> QED BY <1>5, <1>11, <1>12 DEF q, n

\* Its other fields.
LEMMA RestGoes ==
  ASSUME NEW c, Ready(c), c.type = "AppInfo", NEW F, c.read \subseteq F, "trace" \notin F
  PROVE  Goes(c, Rest(c.new), F, 0, F \cup RestNames, Count(c.new))
<1> DEFINE q == c.new
           n == Count(q)
           t1 == IF "trace" \in DOMAIN q THEN Prefixed(12, AppTrace_MarshalVT(q.trace)) ELSE <<>>
           F1 == F \cup {"trace"}
           t2 == Text(q, 13, "protocol_str")
           F2 == F1 \cup {"protocol_str"}
           t3 == Bool(q, 21, "is_end")
           F3 == F2 \cup {"is_end"}
           t4 == Bool(q, 22, "is_async")
           F4 == F3 \cup {"is_async"}
           t5 == Bool(q, 23, "is_reversed")
           F5 == F4 \cup {"is_reversed"}
           t6 == FlattenSeq([k \in DOMAIN q.attributes |-> Prefixed(31, KeyVal_MarshalVT(q.attributes[k]))])
           t7 == Number(q, 32, "biz_type")
           F6 == F5 \cup {"biz_type"}
           t8 == Text(q, 33, "biz_code")
           F7 == F6 \cup {"biz_code"}
           t9 == Text(q, 34, "biz_scenario")
           F8 == F7 \cup {"biz_scenario"}
           t10 == Text(q, 35, "biz_response_code")
           F9 == F8 \cup {"biz_response_code"}
           b1 == t1
           b2 == b1 \o t2
           b3 == b2 \o t3
           b4 == b3 \o t4
           b5 == b4 \o t5
           b6 == b5 \o t6
           b7 == b6 \o t7
           b8 == b7 \o t8
           b9 == b8 \o t9
           b10 == b9 \o t10
<1>1. /\ IsCase(c.type, 13, "string", "protocol_str")
      /\ IsCase(c.type, 21, "bool", "is_end")
      /\ IsCase(c.type, 22, "bool", "is_async")
      /\ IsCase(c.type, 23, "bool", "is_reversed")
      /\ IsCase(c.type, 32, "uint32", "biz_type")
      /\ IsCase(c.type, 33, "string", "biz_code")
      /\ IsCase(c.type, 34, "string", "biz_scenario")
      /\ IsCase(c.type, 35, "string", "biz_response_code")
  BY InfoCases DEF Cases, KindOf, NameOf, IsCase
<1>2. 0 \in 0..n /\ n \in 0..n
  <2>1. n \in Nat
    BY CountIs DEF Ready
  <2> HIDE DEF n
  <2> QED BY <2>1
<1>3. /\ c.read \subseteq F
      /\ c.read \subseteq F1
      /\ c.read \subseteq F2
      /\ c.read \subseteq F3
      /\ c.read \subseteq F4
      /\ c.read \subseteq F5
      /\ c.read \subseteq F6
      /\ c.read \subseteq F7
      /\ c.read \subseteq F8
      /\ c.read \subseteq F9
  OBVIOUS
<1>4. /\ "protocol_str" \notin Plain
      /\ "is_end" \in Flags
      /\ "is_async" \in Flags
      /\ "is_reversed" \in Flags
      /\ "biz_type" \in Counts \ {"status", "code"}
      /\ "biz_code" \notin Plain
      /\ "biz_scenario" \notin Plain
      /\ "biz_response_code" \notin Plain
  BY DEF Plain, Counts, Flags
<1>5. F9 = F \cup RestNames
  BY DEF RestNames
<1> HIDE DEF F1, F2, F3, F4, F5, F6, F7, F8, F9, n
<1>6. Goes(c, t1, F, 0, F1, 0)
  BY <1>1, <1>2, <1>3, <1>4, TraceGoes DEF F1, n
<1>7. Goes(c, t2, F1, 0, F2, 0)
  BY <1>1, <1>2, <1>3, <1>4, TextGoes DEF F2, n
<1>8. Goes(c, t3, F2, 0, F3, 0)
  BY <1>1, <1>2, <1>3, <1>4, BoolGoes DEF F3, n
<1>9. Goes(c, t4, F3, 0, F4, 0)
  BY <1>1, <1>2, <1>3, <1>4, BoolGoes DEF F4, n
<1>10. Goes(c, t5, F4, 0, F5, 0)
  BY <1>1, <1>2, <1>3, <1>4, BoolGoes DEF F5, n
<1>11. Goes(c, t6, F5, 0, F5, n)
  BY <1>1, <1>2, <1>3, <1>4, AttributesGo DEF n
<1>12. Goes(c, t7, F5, n, F6, n)
  BY <1>1, <1>2, <1>3, <1>4, NumberGoes DEF F6, n
<1>13. Goes(c, t8, F6, n, F7, n)
  BY <1>1, <1>2, <1>3, <1>4, TextGoes DEF F7, n
<1>14. Goes(c, t9, F7, n, F8, n)
  BY <1>1, <1>2, <1>3, <1>4, TextGoes DEF F8, n
<1>15. Goes(c, t10, F8, n, F9, n)
  BY <1>1, <1>2, <1>3, <1>4, TextGoes DEF F9, n
<1> HIDE DEF t1, t2, t3, t4, t5, t6, t7, t8, t9, t10, q
<1>16. Goes(c, b1, F, 0, F1, 0)
  BY <1>6
<1>17. Goes(c, b2, F, 0, F2, 0)
  <2> HIDE DEF b1
  <2> QED BY <1>16, <1>7, GoesThen
<1>18. Goes(c, b3, F, 0, F3, 0)
  <2> HIDE DEF b2
  <2> QED BY <1>17, <1>8, GoesThen
<1>19. Goes(c, b4, F, 0, F4, 0)
  <2> HIDE DEF b3
  <2> QED BY <1>18, <1>9, GoesThen
<1>20. Goes(c, b5, F, 0, F5, 0)
  <2> HIDE DEF b4
  <2> QED BY <1>19, <1>10, GoesThen
<1>21. Goes(c, b6, F, 0, F5, n)
  <2> HIDE DEF b5
  <2> QED BY <1>20, <1>11, GoesThen
<1>22. Goes(c, b7, F, 0, F6, n)
  <2> HIDE DEF b6
  <2> QED BY <1>21, <1>12, GoesThen
<1>23. Goes(c, b8, F, 0, F7, n)
  <2> HIDE DEF b7
  <2> QED BY <1>22, <1>13, GoesThen
<1>24. Goes(c, b9, F, 0, F8, n)
  <2> HIDE DEF b8
  <2> QED BY <1>23, <1>14, GoesThen
<1>25. Goes(c, b10, F, 0, F9, n)
  <2> HIDE DEF b9
  <2> QED BY <1>24, <1>15, GoesThen
<1>26. Rest(q) = b10
  BY DEF Rest, t1, t2, t3, t4, t5, t6, t7, t8, t9, t10
<1> HIDE DEF b10
<1> QED BY <1>5, <1>25, <1>26 DEF q, n

\* The decoder of an AppInfo reads what its writer wrote.
LEMMA InfoReads ==
  ASSUME NEW c, Ready(c), c.type = "AppInfo", c.read = {}, NEW strict \in BOOLEAN
  PROVE  Brings(c, Written(c.type, strict, c.new))
<1> DEFINE q == c.new
           n == Count(q)
           A == {} \cup LengthsNames
           B == A \cup RestNames
           C == A \cup {"req", "resp"}
           D == B \cup {"req", "resp"}
<1>1. n \in Nat /\ 0 \in 0..n /\ n \in 0..n
  <2>1. n \in Nat
    BY CountIs DEF Ready
  <2> HIDE DEF n
  <2> QED BY <2>1
<1>2. D = C \cup RestNames
  OBVIOUS
<1>3. DOMAIN q \subseteq D \cup Lists
  <2>1. DOMAIN q \subseteq Names("AppInfo")
    BY MeetSays DEF Ready
  <2> QED BY <2>1, NamesOfTypes DEF Lists, LengthsNames, RestNames
<1>4. /\ {"req", "resp"} \cap B = {} /\ {"req", "resp"} \cap A = {}
      /\ "trace" \notin A /\ "trace" \notin C
  BY DEF LengthsNames, RestNames
<1> HIDE DEF A, B, C, D, n
<1>5. c.read \subseteq A /\ c.read \subseteq B /\ c.read \subseteq C /\ c.read \subseteq D
      /\ c.read \subseteq {}
  OBVIOUS
<1>6. Goes(c, Lengths(q), {}, 0, A, 0)
  BY <1>5, LengthsGo DEF A
<1>7. CASE strict
  <2>1. Goes(c, Info(q), A, 0, C, 0)
    BY <1>1, <1>4, <1>5, InfoGoes DEF C, n
  <2>2. Goes(c, Rest(q), C, 0, D, n)
    BY <1>2, <1>4, <1>5, RestGoes DEF n
  <2>3. Goes(c, Lengths(q) \o Info(q), {}, 0, C, 0)
    BY <1>6, <2>1, GoesThen
  <2>4. Goes(c, (Lengths(q) \o Info(q)) \o Rest(q), {}, 0, D, n)
    BY <2>2, <2>3, GoesThen
  <2>5. Brings(c, ((Lengths(q) \o Info(q)) \o Rest(q)) \o q.unknown)
    BY <1>3, <1>5, <2>4, ReadWhole DEF n
  <2> QED BY <1>7, <2>5 DEF Written, AppInfo_MarshalVTStrict
<1>8. CASE ~strict
  <2>1. Goes(c, Rest(q), A, 0, B, n)
    BY <1>4, <1>5, RestGoes DEF B, n
  <2>2. Goes(c, Info(q), B, n, D, n)
    BY <1>1, <1>4, <1>5, InfoGoes DEF D, n
  <2>3. Goes(c, Lengths(q) \o Rest(q), {}, 0, B, n)
    BY <1>6, <2>1, GoesThen
  <2>4. Goes(c, (Lengths(q) \o Rest(q)) \o Info(q), {}, 0, D, n)
    BY <2>2, <2>3, GoesThen
  <2>5. Brings(c, ((Lengths(q) \o Rest(q)) \o Info(q)) \o q.unknown)
    BY <1>3, <1>5, <2>4, ReadWhole DEF n
  <2> QED BY <1>8, <2>5 DEF Written, AppInfo_MarshalVT
<1> QED BY <1>7, <1>8

\* Whichever of the writers wrote it: what is read into a message is merged.
THEOREM WhatWasWrittenIsRead ==
  ASSUME NEW c, Ready(c), c.read = {}, NEW strict \in BOOLEAN
  PROVE  Brings(c, Written(c.type, strict, c.new))
BY FlatReads, InfoReads

------------------------------------------------------------------------------
(* One message behind the other *)

\* Merge, field by field.
LEMMA MergeIs ==
  ASSUME NEW type, NEW p, NEW q, Meet(type, p, q)
  PROVE  /\ IsAFunction(Merge(p, q))
         /\ DOMAIN Merge(p, q) = (DOMAIN p \ Gone(q, DOMAIN q)) \cup DOMAIN q
         /\ \A f \in DOMAIN Merge(p, q) :
              Merge(p, q)[f] = IF f \in Lists THEN p[f] \o q[f]
                               ELSE IF f \in DOMAIN q THEN Grown(p, q, f) ELSE p[f]
<1> DEFINE F == DOMAIN q
           k == Count(q)
           u == Len(q.unknown)
           r == Partial(p, q, F, k, u)
<1>1. \A f \in {"trace_ids", "attributes"} \cap DOMAIN q : k = Len(q[f])
  BY CountIs
<1>2. Merge(p, q) = r
  BY <1>1, PartialAll, Zenon
<1>3. DOMAIN r = (DOMAIN p \ Gone(q, DOMAIN q)) \cup DOMAIN q
  BY DEF Partial
<1>4. ASSUME NEW f \in DOMAIN r
      PROVE  r[f] = IF f \in Lists THEN p[f] \o q[f]
                    ELSE IF f \in DOMAIN q THEN Grown(p, q, f) ELSE p[f]
  <2>1. r[f] = PartField(p, q, F, k, u, f)
    BY DEF Partial
  <2>2. CASE f = "unknown"
    <3>1. SubSeq(q.unknown, 1, u) = q.unknown
      <4>1. q.unknown \in Seq(Byte)
        BY MeetSays
      <4> QED BY <4>1
    <3> QED BY <2>1, <2>2, <3>1 DEF PartField, Lists
  <2>3. CASE f \in Lists /\ f # "unknown"
    <3>1. f \in DOMAIN p \cup DOMAIN q
      BY <1>3
    <3>2. f \in DOMAIN q /\ IsSequence(q[f])
      BY <2>3, <3>1, ListsAre
    <3>3. k = Len(q[f])
      BY <1>1, <2>3, <3>2 DEF Lists
    <3>4. SubSeq(q[f], 1, k) = q[f]
      BY <3>2, <3>3, WholeList
    <3> HIDE DEF k, F
    <3> QED BY <2>1, <2>3, <3>4 DEF PartField
  <2>4. CASE f \notin Lists
    BY <2>1, <2>4 DEF PartField, Lists
  <2> QED BY <2>2, <2>3, <2>4
<1>5. IsAFunction(r)
  BY DEF Partial, IsAFunction
<1> QED BY <1>2, <1>3, <1>4, <1>5, Zenon

\* The fields of the type, and text that is text.
LEMMA MergeGoodFlat ==
  ASSUME NEW type, NEW p, NEW q, Meet(type, p, q)
  PROVE  GoodFlat(Byte, type, Merge(p, q))
<1> DEFINE r == Merge(p, q)
<1>1. /\ IsAFunction(r)
      /\ DOMAIN r = (DOMAIN p \ Gone(q, DOMAIN q)) \cup DOMAIN q
      /\ \A f \in DOMAIN r : r[f] = IF f \in Lists THEN p[f] \o q[f]
                                    ELSE IF f \in DOMAIN q THEN Grown(p, q, f) ELSE p[f]
  BY MergeIs, Zenon
<1> HIDE DEF r
<1>2. Fits(type, r)
  <2>1. Fits(type, p) /\ Fits(type, q)
    BY DEF Meet, Good, GoodFlat
  <2>2. DOMAIN Empty(type) \subseteq DOMAIN r
    BY <1>1, <2>1 DEF Fits
  <2>3. DOMAIN r \subseteq {Cases(type)[n][2] : n \in DOMAIN Cases(type)} \cup {"unknown"}
    BY <1>1, <2>1, Zenon DEF Fits
  <2>4. ~({"req", "resp"} \subseteq DOMAIN r)
    <3>1. ~({"req", "resp"} \subseteq DOMAIN p) /\ ~({"req", "resp"} \subseteq DOMAIN q)
      BY MeetSays
    <3> QED BY <1>1, <3>1 DEF Gone
  <2> QED BY <2>2, <2>3, <2>4 DEF Fits
<1>3. TextGood(Byte, p) /\ TextGood(Byte, q)
  BY DEF Meet, Good, GoodFlat
<1>4. "unknown" \in DOMAIN r => r.unknown \in Seq(Byte)
  <2>1. "unknown" \in DOMAIN r => r.unknown = p.unknown \o q.unknown
    BY <1>1 DEF Lists
  <2>2. p.unknown \in Seq(Byte) /\ q.unknown \in Seq(Byte)
    BY MeetSays
  <2> DEFINE a == p.unknown
             b == q.unknown
             c == r.unknown
  <2> HIDE DEF a, b, c
  <2>3. a \in Seq(Byte) /\ b \in Seq(Byte) => a \o b \in Seq(Byte)
    OBVIOUS
  <2> QED BY <2>1, <2>2, <2>3 DEF a, b, c
<1>5. ASSUME NEW f \in DOMAIN r, Other(f) PROVE r[f] \in Seq(Byte)
  <2>1. CASE f = "unknown"
    BY <1>4, <1>5, <2>1
  <2>2. CASE f # "unknown"
    <3>1. f \notin Lists /\ f \notin Inner
      BY <1>5, <2>2 DEF Other, Lists, Inner, Nested
    <3>2. f \in DOMAIN p => p[f] \in Seq(Byte)
      BY <1>3, <1>5 DEF TextGood
    <3>3. f \in DOMAIN q => q[f] \in Seq(Byte)
      BY <1>3, <1>5 DEF TextGood
    <3>4. CASE f \in DOMAIN q
      <4>1. r[f] = Grown(p, q, f)
        BY <1>1, <3>1, <3>4
      <4> QED BY <3>1, <3>2, <3>3, <3>4, <4>1 DEF Grown
    <3>5. CASE f \notin DOMAIN q
      <4>1. r[f] = p[f] /\ f \in DOMAIN p
        BY <1>1, <1>5, <3>1, <3>5
      <4> QED BY <3>2, <4>1
    <3> QED BY <3>4, <3>5
  <2> QED BY <2>1, <2>2
<1>6. ASSUME "trace_ids" \in DOMAIN r PROVE r.trace_ids \in Seq(Seq(Byte))
  <2>1. "trace_ids" \in Lists /\ "trace_ids" \in DOMAIN p \cup DOMAIN q
    BY <1>1, <1>6 DEF Lists
  <2>2. "trace_ids" \in DOMAIN p /\ "trace_ids" \in DOMAIN q
    BY <2>1, ListsAre
  <2> DEFINE S == Seq(Byte)
  <2>3. p.trace_ids \in Seq(S) /\ q.trace_ids \in Seq(S)
    BY <2>2, MeetSays
  <2>4. r.trace_ids = p.trace_ids \o q.trace_ids
    BY <1>1, <1>6, <2>1
  <2> HIDE DEF S
  <2>5. r.trace_ids \in Seq(S)
    BY <2>3, <2>4
  <2> QED BY <2>5 DEF S
<1>7. TextGood(Byte, r)
  BY <1>1, <1>4, <1>5, <1>6 DEF TextGood
<1> QED BY <1>2, <1>7 DEF GoodFlat, r

\* Two nested messages can be merged.
LEMMA FlatMeet ==
  ASSUME NEW type \in Types, type # "AppInfo", NEW p, NEW q,
         GoodFlat(Byte, type, p), GoodFlat(Byte, type, q)
  PROVE  /\ Meet(type, p, q) /\ GoodFlat(Byte, type, MergeFlat(p, q))
<1>1. Meet(type, p, q)
  BY DEF Meet, Good
<1>2. Merge(p, q) = MergeFlat(p, q)
  BY <1>1, MergesFlat
<1>3. GoodFlat(Byte, type, Merge(p, q))
  BY <1>1, MergeGoodFlat
<1> QED BY <1>1, <1>2, <1>3

\* What is merged is a message again.
LEMMA MergeGood ==
  ASSUME NEW type, NEW p, NEW q, Meet(type, p, q)
  PROVE  Good(Byte, type, Merge(p, q))
<1> DEFINE r == Merge(p, q)
<1>1. GoodFlat(Byte, type, r)
  BY MergeGoodFlat
<1>2. /\ DOMAIN r = (DOMAIN p \ Gone(q, DOMAIN q)) \cup DOMAIN q
      /\ \A f \in DOMAIN r : r[f] = IF f \in Lists THEN p[f] \o q[f]
                                    ELSE IF f \in DOMAIN q THEN Grown(p, q, f) ELSE p[f]
  BY MergeIs, Zenon
<1> HIDE DEF r
<1> SUFFICES ASSUME type = "AppInfo"
             PROVE  /\ \A f \in Inner \cap DOMAIN r : GoodFlat(Byte, TypeOf[f], r[f])
                    /\ IsSequence(r.attributes)
                    /\ \A k \in DOMAIN r.attributes : GoodFlat(Byte, "KeyVal", r.attributes[k])
  BY <1>1 DEF Good, r
<1>3. ASSUME NEW f \in Inner \cap DOMAIN r PROVE GoodFlat(Byte, TypeOf[f], r[f])
  <2>1. f \notin Lists /\ TypeOf[f] \in Types /\ TypeOf[f] # "AppInfo"
    BY DEF Lists, Inner, TypeOf, Types
  <2>2. f \in DOMAIN p => GoodFlat(Byte, TypeOf[f], p[f])
    BY MeetSays
  <2>3. f \in DOMAIN q => GoodFlat(Byte, TypeOf[f], q[f])
    BY MeetSays
  <2>4. CASE f \in DOMAIN q /\ f \in DOMAIN p
    <3>1. r[f] = MergeFlat(p[f], q[f])
      BY <1>2, <2>1, <2>4 DEF Grown
    <3>2. GoodFlat(Byte, TypeOf[f], MergeFlat(p[f], q[f]))
      BY <2>1, <2>2, <2>3, <2>4, FlatMeet
    <3> QED BY <3>1, <3>2
  <2>5. CASE f \in DOMAIN q /\ f \notin DOMAIN p
    BY <1>2, <2>1, <2>3, <2>5 DEF Grown
  <2>6. CASE f \notin DOMAIN q
    <3>1. f \in DOMAIN p /\ r[f] = p[f]
      BY <1>2, <2>1, <2>6
    <3> QED BY <2>2, <3>1
  <2> QED BY <2>4, <2>5, <2>6
<1> DEFINE a == p.attributes
           b == q.attributes
           S == Range(a) \cup Range(b)
<1>4. IsSequence(a) /\ IsSequence(b) /\ "attributes" \in DOMAIN q
  BY MeetSays
<1>5. r.attributes = a \o b
  BY <1>2, <1>4 DEF Lists
<1>6. /\ \A k \in DOMAIN a : GoodFlat(Byte, "KeyVal", a[k])
      /\ \A k \in DOMAIN b : GoodFlat(Byte, "KeyVal", b[k])
  BY DEF Meet, Good
<1> HIDE DEF a, b
<1>7. a \in Seq(S) /\ b \in Seq(S)
  <2>1. a \in Seq(Range(a)) /\ b \in Seq(Range(b))
    BY <1>4 DEF IsSequence
  <2> DEFINE A == Range(a)
             B == Range(b)
  <2> HIDE DEF A, B
  <2>2. a \in Seq(A \cup B) /\ b \in Seq(A \cup B)
    BY <2>1 DEF A, B
  <2> QED BY <2>2 DEF A, B
<1> HIDE DEF S
<1>8. IsSequence(a \o b)
  <2>1. a \o b \in Seq(S)
    BY <1>7
  <2> QED BY <2>1, SeqsAre
<1>9. ASSUME NEW k \in DOMAIN (a \o b) PROVE GoodFlat(Byte, "KeyVal", (a \o b)[k])
  <2>1. /\ Len(a) \in Nat /\ Len(b) \in Nat /\ DOMAIN a = 1..Len(a) /\ DOMAIN b = 1..Len(b)
        /\ k \in 1..(Len(a) + Len(b))
        /\ (a \o b)[k] = IF k <= Len(a) THEN a[k] ELSE b[k - Len(a)]
    BY <1>7
  <2>2. CASE k <= Len(a)
    BY <1>6, <2>1, <2>2
  <2>3. CASE k > Len(a)
    <3>1. k - Len(a) \in DOMAIN b
      BY <2>1, <2>3
    <3>2. (a \o b)[k] = b[k - Len(a)]
      BY <2>1, <2>3
    <3> QED BY <1>6, <3>1, <3>2
  <2> QED BY <2>1, <2>2, <2>3
<1> QED BY <1>3, <1>5, <1>8, <1>9

------------------------------------------------------------------------------
(* A nil among the attributes, which arrives as an empty one *)

\* A message as it arrives: a nil among the attributes is an empty one.
Solid(m) ==
  [f \in DOMAIN m |-> IF f = "attributes"
                      THEN [k \in DOMAIN m[f] |-> OrEmpty(m[f][k], "KeyVal")]
                      ELSE m[f]]

\* The fields of m are those of the type, its attributes a list.
Listed(type, m) ==
  /\ type \in Types /\ IsAFunction(m) /\ "unknown" \in DOMAIN m
  /\ "attributes" \in DOMAIN m <=> type = "AppInfo"
  /\ "trace_ids" \in DOMAIN m <=> type = "AppTrace"
  /\ "attributes" \in DOMAIN m => IsSequence(m.attributes)

\* Field by field.
LEMMA SolidIs ==
  ASSUME NEW m
  PROVE  /\ DOMAIN Solid(m) = DOMAIN m /\ IsAFunction(Solid(m))
         /\ \A f \in DOMAIN m : f # "attributes" => Solid(m)[f] = m[f]
         /\ "attributes" \in DOMAIN m =>
              Solid(m).attributes = [k \in DOMAIN m.attributes |-> OrEmpty(m.attributes[k], "KeyVal")]
BY DEF Solid, IsAFunction

\* Only an AppInfo has attributes.
LEMMA SolidIsSame ==
  ASSUME NEW type, NEW m, Listed(type, m), type # "AppInfo"
  PROVE  Solid(m) = m
<1>1. "attributes" \notin DOMAIN m /\ m = [f \in DOMAIN m |-> m[f]]
  BY DEF Listed, IsAFunction
<1>2. Solid(m) = [f \in DOMAIN m |-> m[f]]
  BY <1>1 DEF Solid
<1> QED BY <1>1, <1>2

\* A nil is written as an empty one is.
LEMMA NilIsNothing ==
  ASSUME NEW x
  PROVE  KeyVal_MarshalVT(OrEmpty(x, "KeyVal")) = KeyVal_MarshalVT(x)
<1>1. CASE x = Nil
  <2> DEFINE e == Empty("KeyVal")
  <2>1. e = [key |-> <<>>, val |-> <<>>, unknown |-> <<>>]
    BY DEF Empty
  <2>2. NonEmpty(e, 1, "key") = <<>> /\ NonEmpty(e, 2, "val") = <<>> /\ e.unknown = <<>>
    BY <2>1 DEF NonEmpty
  <2> HIDE DEF e
  <2>3. <<>> \o <<>> = <<>>
    OBVIOUS
  <2>4. KeyVal_MarshalVT(e) = <<>>
    BY <2>2, <2>3, Zenon DEF KeyVal_MarshalVT
  <2>5. KeyVal_MarshalVT(x) = <<>>
    BY <1>1 DEF KeyVal_MarshalVT
  <2>6. OrEmpty(x, "KeyVal") = e
    BY <1>1 DEF OrEmpty, e
  <2> QED BY <2>4, <2>5, <2>6
<1>2. CASE x # Nil
  BY <1>2 DEF OrEmpty
<1> QED BY <1>1, <1>2

\* It takes the bytes of an empty one.
LEMMA SolidIsWritten ==
  ASSUME NEW type, NEW m, Listed(type, m), NEW strict \in BOOLEAN
  PROVE  Written(type, strict, Solid(m)) = Written(type, strict, m)
<1>1. CASE type # "AppInfo"
  BY <1>1, SolidIsSame
<1>2. CASE type = "AppInfo"
  <2> DEFINE s == Solid(m)
             D == DOMAIN m.attributes
             A == [k \in D |-> Prefixed(31, KeyVal_MarshalVT(m.attributes[k]))]
             B == [k \in DOMAIN s.attributes |-> Prefixed(31, KeyVal_MarshalVT(s.attributes[k]))]
  <2>1. /\ DOMAIN s = DOMAIN m
        /\ \A f \in DOMAIN m : f # "attributes" => s[f] = m[f]
        /\ s.attributes = [k \in D |-> OrEmpty(m.attributes[k], "KeyVal")]
        /\ "unknown" \in DOMAIN m
    BY <1>2, SolidIs DEF Listed
  <2>2. A = B
    <3>1. DOMAIN s.attributes = D /\ \A k \in D : s.attributes[k] = OrEmpty(m.attributes[k], "KeyVal")
      BY <2>1
    <3> HIDE DEF D, s
    <3>2. \A k \in D : KeyVal_MarshalVT(s.attributes[k]) = KeyVal_MarshalVT(m.attributes[k])
      BY <3>1, NilIsNothing
    <3> QED BY <3>1, <3>2
  <2> HIDE DEF s, D
  <2>3. ASSUME NEW num, NEW f, f # "attributes"
        PROVE  Number(s, num, f) = Number(m, num, f) /\ Text(s, num, f) = Text(m, num, f)
               /\ Bool(s, num, f) = Bool(m, num, f)
    BY <2>1, <2>3 DEF Number, Text, Bool
  <2>4. Lengths(s) = Lengths(m)
    BY <2>3 DEF Lengths
  <2>5. Info(s) = Info(m)
    BY <2>1 DEF Info
  <2>6. Rest(s) = Rest(m)
    <3> DEFINE T(x) == IF "trace" \in DOMAIN x THEN Prefixed(12, AppTrace_MarshalVT(x.trace)) ELSE <<>>
               V(x, y) == T(x)
    \o Text(x, 13, "protocol_str")
    \o Bool(x, 21, "is_end") \o Bool(x, 22, "is_async") \o Bool(x, 23, "is_reversed")
    \o FlattenSeq(y)
    \o Number(x, 32, "biz_type") \o Text(x, 33, "biz_code")
    \o Text(x, 34, "biz_scenario") \o Text(x, 35, "biz_response_code")
    <3>1. T(s) = T(m)
      BY <2>1
    <3>2. Rest(s) = V(s, B) /\ Rest(m) = V(m, A)
      BY DEF Rest, D
    <3> HIDE DEF T, A, B
    <3>3. V(s, B) = V(m, A)
      BY <2>2, <2>3, <3>1
    <3> QED BY <3>2, <3>3
  <2>7. s.unknown = m.unknown
    BY <2>1
  <2>8. Written("AppInfo", strict, s) = Written("AppInfo", strict, m)
    BY <2>4, <2>5, <2>6, <2>7 DEF Written, AppInfo_MarshalVT, AppInfo_MarshalVTStrict
  <2> QED BY <1>2, <2>8 DEF s
<1> QED BY <1>1, <1>2

\* A concatenation, member by member.
LEMMA ConcatIs ==
  ASSUME NEW S, NEW a \in Seq(S), NEW b \in Seq(S)
  PROVE  /\ a \o b \in [1..(Len(a) + Len(b)) -> S] /\ a \o b \in Seq(S)
         /\ Len(a) \in Nat /\ Len(b) \in Nat /\ Len(a \o b) = Len(a) + Len(b)
         /\ DOMAIN a = 1..Len(a) /\ DOMAIN b = 1..Len(b)
         /\ DOMAIN (a \o b) = 1..(Len(a) + Len(b))
         /\ \A k \in 1..(Len(a) + Len(b)) :
              (a \o b)[k] = IF k <= Len(a) THEN a[k] ELSE b[k - Len(a)]
<1>1. /\ Len(a) \in Nat /\ Len(b) \in Nat /\ DOMAIN a = 1..Len(a) /\ DOMAIN b = 1..Len(b)
      /\ a \in [1..Len(a) -> S] /\ b \in [1..Len(b) -> S]
  OBVIOUS
<1>2. a \o b \in Seq(S) /\ Len(a \o b) = Len(a) + Len(b)
  OBVIOUS
<1>3. DOMAIN (a \o b) = 1..(Len(a) + Len(b))
  BY <1>2
<1>4. \A k \in 1..(Len(a) + Len(b)) :
        (a \o b)[k] = IF k <= Len(a) THEN a[k] ELSE b[k - Len(a)]
  BY <1>1
<1>5. a \o b \in [1..(Len(a) + Len(b)) -> S]
  <2> DEFINE c == a \o b
             n == Len(a) + Len(b)
  <2> HIDE DEF c, n
  <2>1. c \in Seq(S) /\ Len(c) = n
    BY <1>2 DEF c, n
  <2>2. c \in [1..n -> S]
    BY <2>1
  <2> QED BY <2>2 DEF c, n
<1> QED BY <1>1, <1>2, <1>3, <1>4, <1>5

\* What arrives of two messages is what arrives of each, merged.
LEMMA SolidMerge ==
  ASSUME NEW type, NEW p, NEW q, Listed(type, p), Listed(type, q)
  PROVE  /\ Solid(Merge(p, q)) = Merge(Solid(p), Solid(q))
         /\ Listed(type, Merge(p, q))
<1> DEFINE R(x) == IF {"req", "resp"} \cap DOMAIN x = {} THEN {} ELSE {"req", "resp"} \ DOMAIN x
           Old(x, y) == [f \in DOMAIN x \ R(y) |-> x[f]]
           V(x, y, f) == IF f \in {"req", "resp", "trace"} \cap DOMAIN x \cap DOMAIN y
                         THEN MergeFlat(x[f], y[f]) ELSE MergeFlat(x, y)[f]
           a == Solid(p)
           b == Solid(q)
           o == Old(p, q)
           oo == Old(a, b)
           D == DOMAIN o \cup DOMAIN q
<1>1. \A x, y : DOMAIN MergeFlat(x, y) = DOMAIN x \cup DOMAIN y
  BY DEF MergeFlat
<1>2. ASSUME NEW x, NEW y
      PROVE Merge(x, y) = [f \in DOMAIN Old(x, y) \cup DOMAIN y |-> V(Old(x, y), y, f)]
  BY <1>1 DEF Merge
<1>3. /\ DOMAIN a = DOMAIN p /\ DOMAIN b = DOMAIN q
      /\ \A f \in DOMAIN p : f # "attributes" => a[f] = p[f]
      /\ \A f \in DOMAIN q : f # "attributes" => b[f] = q[f]
  BY SolidIs
<1>4. R(a) = R(p) /\ R(b) = R(q)
  BY <1>3
<1>5. /\ DOMAIN o = DOMAIN p \ R(q) /\ DOMAIN oo = DOMAIN o
      /\ \A f \in DOMAIN o : o[f] = p[f] /\ oo[f] = a[f]
      /\ \A f \in {"attributes", "unknown", "trace_ids"} : f \notin R(q)
  BY <1>3, <1>4
<1>6. /\ Merge(p, q) = [f \in D |-> V(o, q, f)]
      /\ Merge(a, b) = [f \in D |-> V(oo, b, f)]
  BY <1>2, <1>3, <1>5
<1> HIDE DEF R, o, oo, a, b, Old
<1>7. ASSUME NEW f \in D, f # "attributes"
      PROVE  V(oo, b, f) = V(o, q, f)
  <2>1. f \in DOMAIN o => oo[f] = o[f]
    BY <1>3, <1>5, <1>7
  <2>2. f \in DOMAIN q => b[f] = q[f]
    BY <1>3, <1>7
  <2>3. MergeFlat(oo, b)[f] = MergeFlat(o, q)[f]
    <3>1. (f = "trace_ids" \/ f = "unknown") => oo[f] \o b[f] = o[f] \o q[f]
      <4>1. (f = "trace_ids" \/ f = "unknown") => f \in DOMAIN o /\ f \in DOMAIN q
        BY <1>5 DEF Listed
      <4> QED BY <2>1, <2>2, <4>1
    <3> QED BY <1>3, <1>5, <1>7, <2>1, <2>2, <3>1 DEF MergeFlat
  <2> QED BY <1>3, <1>5, <2>1, <2>2, <2>3
<1>8. ASSUME "attributes" \in D
      PROVE  /\ IsSequence(V(o, q, "attributes"))
             /\ V(oo, b, "attributes")
                  = [k \in DOMAIN V(o, q, "attributes") |-> OrEmpty(V(o, q, "attributes")[k], "KeyVal")]
  <2> DEFINE s == p.attributes
             t == q.attributes
             ss == [k \in DOMAIN s |-> OrEmpty(s[k], "KeyVal")]
             tt == [k \in DOMAIN t |-> OrEmpty(t[k], "KeyVal")]
             st == [k \in DOMAIN (s \o t) |-> OrEmpty((s \o t)[k], "KeyVal")]
  <2>1. "attributes" \in DOMAIN p /\ "attributes" \in DOMAIN q /\ "attributes" \in DOMAIN o
    BY <1>5, <1>8 DEF Listed
  <2>2. IsSequence(s) /\ IsSequence(t)
    BY <2>1 DEF Listed
  <2>3. a.attributes = ss /\ b.attributes = tt
    BY <2>1, SolidIs DEF a, b
  <2>4. V(o, q, "attributes") = s \o t
    BY <1>5, <1>8, <2>1 DEF MergeFlat
  <2>5. V(oo, b, "attributes") = ss \o tt
    BY <1>3, <1>5, <1>8, <2>1, <2>3 DEF MergeFlat
  <2>6. /\ s \in Seq(Range(s)) /\ t \in Seq(Range(t))
        /\ Len(s) \in Nat /\ Len(t) \in Nat /\ DOMAIN s = 1..Len(s) /\ DOMAIN t = 1..Len(t)
    BY <2>2 DEF IsSequence
  <2> DEFINE A == Range(s)
             B == Range(t)
             W == {OrEmpty(x, "KeyVal") : x \in A \cup B}
  <2> HIDE DEF s, t
  <2>7. IsSequence(s \o t) /\ Len(s \o t) = Len(s) + Len(t) /\ DOMAIN (s \o t) = 1..(Len(s) + Len(t))
        /\ \A k \in 1..(Len(s) + Len(t)) :
             (s \o t)[k] = IF k <= Len(s) THEN s[k] ELSE t[k - Len(s)]
    <3> HIDE DEF A, B
    <3>1. s \in Seq(A) /\ t \in Seq(B)
      BY <2>6 DEF A, B
    <3>2. s \in Seq(A \cup B) /\ t \in Seq(A \cup B)
      BY <3>1
    <3> DEFINE C == A \cup B
    <3> HIDE DEF C
    <3>3. s \o t \in Seq(C)
      BY <3>2, ConcatIs DEF C
    <3>4. IsSequence(s \o t)
      BY <3>3, SeqsAre
    <3> QED BY <3>2, <3>4, ConcatIs
  <2>8. ss \o tt = st
    <3>1. ss \in Seq(W) /\ tt \in Seq(W)
      <4>1. ss \in [1..Len(s) -> W]
        <5>1. \A k \in 1..Len(s) : s[k] \in A
          BY <2>6
        <5> HIDE DEF A
        <5> QED BY <2>6, <5>1
      <4>2. tt \in [1..Len(t) -> W]
        <5>1. \A k \in 1..Len(t) : t[k] \in B
          BY <2>6
        <5> HIDE DEF B
        <5> QED BY <2>6, <5>1
      <4> HIDE DEF W, ss, tt
      <4>3. ss \in Seq(W)
        BY <2>6, <4>1
      <4>4. tt \in Seq(W)
        BY <2>6, <4>2
      <4> QED BY <4>3, <4>4
    <3>2. /\ Len(ss) = Len(s) /\ Len(tt) = Len(t)
          /\ \A k \in 1..Len(s) : ss[k] = OrEmpty(s[k], "KeyVal")
          /\ \A k \in 1..Len(t) : tt[k] = OrEmpty(t[k], "KeyVal")
      <4>1. DOMAIN ss = 1..Len(s) /\ DOMAIN tt = 1..Len(t)
        BY <2>6
      <4>2. Len(ss) = Len(s) /\ Len(tt) = Len(t)
        BY <2>6, <3>1, <4>1
      <4> QED BY <2>6, <4>2
    <3> DEFINE n == Len(s) + Len(t)
               st2 == [k \in 1..n |-> OrEmpty((s \o t)[k], "KeyVal")]
    <3>3. st = st2
      BY <2>7
    <3> HIDE DEF ss, tt, st, W
    <3>4. /\ DOMAIN (ss \o tt) = 1..n
          /\ \A k \in 1..n : (ss \o tt)[k] = IF k <= Len(s) THEN ss[k] ELSE tt[k - Len(s)]
          /\ ss \o tt \in [1..n -> W]
      <4>1. /\ DOMAIN (ss \o tt) = 1..(Len(ss) + Len(tt))
            /\ \A k \in 1..(Len(ss) + Len(tt)) :
                 (ss \o tt)[k] = IF k <= Len(ss) THEN ss[k] ELSE tt[k - Len(ss)]
            /\ ss \o tt \in [1..(Len(ss) + Len(tt)) -> W]
        BY <3>1, ConcatIs
      <4>2. Len(ss) = Len(s) /\ Len(tt) = Len(t)
        BY <3>2
      <4> QED BY <4>1, <4>2, Zenon
    <3>5. ASSUME NEW k \in 1..n PROVE (ss \o tt)[k] = OrEmpty((s \o t)[k], "KeyVal")
      <4>1. CASE k <= Len(s)
        BY <2>6, <2>7, <3>2, <3>4, <4>1
      <4>2. CASE k > Len(s)
        <5>1. k - Len(s) \in 1..Len(t)
          BY <2>6, <4>2
        <5>2. (ss \o tt)[k] = tt[k - Len(s)] /\ (s \o t)[k] = t[k - Len(s)]
          BY <2>6, <2>7, <3>4, <4>2
        <5> QED BY <3>2, <5>1, <5>2
      <4>3. k <= Len(s) \/ k > Len(s)
        BY <2>6
      <4> QED BY <4>1, <4>2, <4>3
    <3>6. ss \o tt = st2
      BY <3>4, <3>5
    <3> QED BY <3>3, <3>6
  <2> HIDE DEF ss, tt, V
  <2> QED BY <2>4, <2>5, <2>7, <2>8
<1> DEFINE m == Merge(p, q)
<1> HIDE DEF V
<1>9. DOMAIN m = D /\ IsAFunction(m) /\ \A f \in D : m[f] = V(o, q, f)
  BY <1>6 DEF IsAFunction
<1>10. Solid(m) = [f \in D |-> V(oo, b, f)]
  <2> HIDE DEF m, D
  <2>1. Solid(m) = [f \in D |-> IF f = "attributes"
                                THEN [k \in DOMAIN m[f] |-> OrEmpty(m[f][k], "KeyVal")] ELSE m[f]]
    BY <1>9 DEF Solid
  <2>2. ASSUME NEW f \in D
        PROVE  (IF f = "attributes" THEN [k \in DOMAIN m[f] |-> OrEmpty(m[f][k], "KeyVal")] ELSE m[f])
                 = V(oo, b, f)
    <3>1. CASE f = "attributes"
      BY <1>8, <1>9, <2>2, <3>1
    <3>2. CASE f # "attributes"
      BY <1>7, <1>9, <2>2, <3>2
    <3> QED BY <3>1, <3>2
  <2> QED BY <2>1, <2>2
<1>11. Solid(m) = Merge(a, b)
  BY <1>6, <1>10
<1>12. Listed(type, m)
  <2>1. D = (DOMAIN p \ R(q)) \cup DOMAIN q
    BY <1>5
  <2>2. /\ "attributes" \in D <=> type = "AppInfo"
        /\ "trace_ids" \in D <=> type = "AppTrace"
        /\ "unknown" \in D
    BY <1>5, <2>1 DEF Listed
  <2>3. "attributes" \in D => IsSequence(m.attributes)
    BY <1>8, <1>9
  <2> HIDE DEF m, D
  <2> QED BY <1>9, <2>2, <2>3 DEF Listed
<1> QED BY <1>11, <1>12 DEF a, b

\* It is equal to one without the nil.
LEMMA SolidIsEqual ==
  ASSUME NEW type, NEW m, Listed(type, m)
  PROVE  EqualVT(type, Solid(m), m)
<1>1. type \in Types
  BY DEF Listed
<1>2. CASE type # "AppInfo"
  <2>1. Solid(m) = m
    BY <1>2, SolidIsSame
  <2>2. EqualVT(type, m, m)
    <3> USE DEF EqualVT, Same
    <3>1. CASE type = "AppRequest"
      BY <3>1 DEF AppRequest_EqualVT
    <3>2. CASE type = "AppResponse"
      BY <3>2 DEF AppResponse_EqualVT
    <3>3. CASE type = "AppTrace"
      BY <3>3 DEF AppTrace_EqualVT
    <3>4. CASE type = "KeyVal"
      BY <3>4 DEF KeyVal_EqualVT
    <3>5. CASE type = "NatsMessage"
      BY <3>5 DEF NatsMessage_EqualVT
    <3>6. CASE type = "ZmtpMessage"
      BY <3>6 DEF ZmtpMessage_EqualVT, ZmtpMessage_MatchPattern_EqualVT
    <3> QED BY <1>1, <1>2, <3>1, <3>2, <3>3, <3>4, <3>5, <3>6 DEF Types
  <2> QED BY <2>1, <2>2
<1>3. CASE type = "AppInfo"
  <2> DEFINE s == Solid(m)
  <2>1. /\ DOMAIN s = DOMAIN m
        /\ \A f \in DOMAIN m : f # "attributes" => s[f] = m[f]
        /\ s.attributes = [k \in DOMAIN m.attributes |-> OrEmpty(m.attributes[k], "KeyVal")]
        /\ "unknown" \in DOMAIN m
    BY <1>3, SolidIs DEF Listed
  <2> DEFINE N == {"req_len", "resp_len", "request_id", "protocol_str", "is_end", "is_async",
                   "is_reversed", "biz_type", "biz_code", "biz_scenario", "biz_response_code"}
  <2> HIDE DEF s
  <2>2. Same(s, m, N)
    BY <2>1 DEF Same, Present
  <2>3. Present(s, {"req", "resp", "trace"}) = Present(m, {"req", "resp", "trace"})
    BY <2>1 DEF Present
  <2>4. /\ "req" \in DOMAIN s => AppInfo_Req_EqualVT(s.req, m.req)
        /\ "resp" \in DOMAIN s => AppInfo_Resp_EqualVT(s.resp, m.resp)
        /\ "trace" \in DOMAIN s => AppTrace_EqualVT(s.trace, m.trace)
    BY <2>1 DEF AppInfo_Req_EqualVT, AppInfo_Resp_EqualVT, AppRequest_EqualVT,
                AppResponse_EqualVT, AppTrace_EqualVT, Same
  <2>5. Len(s.attributes) = Len(m.attributes)
    <3>1. IsSequence(m.attributes)
      BY <1>3 DEF Listed
    <3>2. DOMAIN m.attributes = 1..Len(m.attributes) /\ Len(m.attributes) \in Nat
      BY <3>1 DEF IsSequence
    <3> QED BY <2>1, <3>2
  <2>6. ASSUME NEW k \in DOMAIN s.attributes
        PROVE  KeyVal_EqualVT(OrEmpty(s.attributes[k], "KeyVal"), OrEmpty(m.attributes[k], "KeyVal"))
    <3>1. s.attributes[k] = OrEmpty(m.attributes[k], "KeyVal")
      BY <2>1
    <3>2. OrEmpty(OrEmpty(m.attributes[k], "KeyVal"), "KeyVal") = OrEmpty(m.attributes[k], "KeyVal")
      BY DEF OrEmpty
    <3> QED BY <3>1, <3>2 DEF KeyVal_EqualVT, Same
  <2>7. AppInfo_EqualVT(s, m)
    BY <2>1, <2>2, <2>3, <2>4, <2>5, <2>6 DEF AppInfo_EqualVT
  <2> QED BY <1>3, <2>7 DEF EqualVT, s
<1> QED BY <1>2, <1>3

------------------------------------------------------------------------------
(* Messages one behind the other.  FoldLeft is a recursion over the sets   *)
(* of positions; the function it chooses is there, whatever Merge makes of *)
(* the messages.                                                           *)

\* The equation FoldLeft chooses its function by.
FoldIs(g, base, seq, P) ==
  g = [s \in SUBSET P |-> IF s = {} THEN base ELSE Merge(g[s \ {Max(s)}], seq[Max(s)])]

\* FoldLeft is that function of all positions.
LEMMA FoldDef ==
  ASSUME NEW base, NEW seq
  PROVE  FoldLeft(Merge, base, seq) = (CHOOSE g : FoldIs(g, base, seq, DOMAIN seq))[DOMAIN seq]
<1>1. FoldLeft(Merge, base, seq)
        = MapThenFoldSet(LAMBDA x, y : Merge(y, x), base, LAMBDA i : seq[i],
                         LAMBDA S : Max(S), DOMAIN seq)
  BY Zenon DEF FoldLeft
<1> QED BY <1>1, Zenon DEF MapThenFoldSet, FoldIs

\* The last position is the largest.
LEMMA LastIsMax ==
  ASSUME NEW k \in Nat, NEW s \in SUBSET (1..(k + 1)), k + 1 \in s
  PROVE  Max(s) = k + 1
<1>1. \A y \in s : k + 1 >= y
  OBVIOUS
<1>2. ASSUME NEW x \in s, \A y \in s : x >= y PROVE x = k + 1
  BY <1>2
<1> DEFINE P(x) == x \in s /\ \A y \in s : x >= y
<1>3. P(k + 1)
  BY <1>1
<1>4. P(CHOOSE x : P(x))
  <2> HIDE DEF P
  <2> QED BY <1>3
<1>5. Max(s) = (CHOOSE x : P(x))
  BY DEF Max
<1> QED BY <1>2, <1>4, <1>5

\* There is such a function,
LEMMA FoldExists ==
  ASSUME NEW base, NEW seq, NEW n \in Nat
  PROVE  \E g : FoldIs(g, base, seq, 1..n)
<1> DEFINE T == {k \in 0..n : \E g : FoldIs(g, base, seq, 1..k)}
           Next1(g, s) == IF s = {} THEN base ELSE Merge(g[s \ {Max(s)}], seq[Max(s)])
<1>1. 0 \in T
  <2> DEFINE g == [s \in SUBSET (1..0) |-> base]
  <2>1. ASSUME NEW s \in SUBSET (1..0) PROVE Next1(g, s) = base
    <3>1. s = {}
      OBVIOUS
    <3> QED BY <3>1
  <2>2. g = [s \in SUBSET (1..0) |-> Next1(g, s)]
    <3> HIDE DEF Next1
    <3> QED BY <2>1
  <2>3. FoldIs(g, base, seq, 1..0)
    <3> HIDE DEF g
    <3> QED BY <2>2 DEF FoldIs
  <2> QED BY <2>3
<1>2. ASSUME NEW k \in 0..(n - 1), k \in T PROVE k + 1 \in T
  <2>1. PICK g : FoldIs(g, base, seq, 1..k)
    BY <1>2
  <2> DEFINE i == k + 1
             h == [s \in SUBSET (1..i) |-> IF i \in s THEN Merge(g[s \ {i}], seq[i]) ELSE g[s]]
  <2>2. i \in 0..n /\ k \in Nat /\ \A s \in SUBSET (1..i) : s \ {i} \in SUBSET (1..k)
    OBVIOUS
  <2>3. \A s \in SUBSET (1..k) : s \in SUBSET (1..i) /\ i \notin s
    BY <2>2
  <2>4. \A s \in SUBSET (1..i) : i \in s => Max(s) = i
    BY <2>2, LastIsMax
  <2>5. \A s \in SUBSET (1..k) : g[s] = Next1(g, s)
    BY <2>1 DEF FoldIs
  <2>6. \A s \in SUBSET (1..i) : h[s] = IF i \in s THEN Merge(g[s \ {i}], seq[i]) ELSE g[s]
    OBVIOUS
  <2> HIDE DEF i, h
  <2>7. ASSUME NEW s \in SUBSET (1..i) PROVE h[s] = Next1(h, s)
    <3>1. CASE i \in s
      <4>1. s \ {i} \in SUBSET (1..k)
        BY <2>2
      <4>2. h[s \ {i}] = g[s \ {i}]
        BY <2>3, <2>6, <4>1
      <4>3. s # {} /\ Max(s) = i
        BY <2>4, <3>1
      <4> QED BY <2>6, <3>1, <4>2, <4>3
    <3>2. CASE i \notin s
      <4>1. s = s \ {i} /\ s \in SUBSET (1..k)
        BY <2>2, <3>2
      <4>2. h[s] = Next1(g, s)
        BY <2>5, <2>6, <3>2, <4>1
      <4>3. s \ {Max(s)} \in SUBSET (1..k)
        BY <4>1
      <4>4. h[s \ {Max(s)}] = g[s \ {Max(s)}]
        BY <2>3, <2>6, <4>3
      <4> QED BY <4>2, <4>4
    <3> QED BY <3>1, <3>2
  <2>8. h = [s \in SUBSET (1..i) |-> Next1(h, s)]
    <3>1. h = [s \in SUBSET (1..i) |-> h[s]]
      BY DEF h
    <3> HIDE DEF Next1
    <3> QED BY <2>7, <3>1
  <2>9. FoldIs(h, base, seq, 1..i)
    BY <2>8 DEF FoldIs
  <2>10. i \in T
    BY <2>2, <2>9
  <2> QED BY <2>10 DEF i
<1>3. \A k \in 0..n : k \in T
  <2> HIDE DEF T
  <2> QED BY <1>1, <1>2, BoundedInduction
<1>4. n \in T
  <2>1. n \in 0..n
    OBVIOUS
  <2> QED BY <1>3, <2>1
<1> QED BY <1>4

\* Merged one after the other.
Merges(r, base, seq, n) ==
  r[0] = base /\ \A k \in 1..n : r[k] = Merge(r[k - 1], seq[k])

\* and it merges one message after the other.
LEMMA FoldMerges ==
  ASSUME NEW base, NEW seq, IsSequence(seq)
  PROVE  \E r : Merges(r, base, seq, Len(seq)) /\ FoldLeft(Merge, base, seq) = r[Len(seq)]
<1> DEFINE n == Len(seq)
           P == DOMAIN seq
           g == CHOOSE f : FoldIs(f, base, seq, P)
           r == [k \in 0..n |-> g[1..k]]
<1>1. n \in Nat /\ P = 1..n
  BY DEF IsSequence
<1>2. \E f : FoldIs(f, base, seq, P)
  BY <1>1, FoldExists
<1>3. FoldIs(g, base, seq, P)
  BY <1>2
<1>4. FoldLeft(Merge, base, seq) = g[P]
  BY FoldDef
<1> HIDE DEF n, P, g
<1>5. \A s \in SUBSET (1..n) :
        g[s] = IF s = {} THEN base ELSE Merge(g[s \ {Max(s)}], seq[Max(s)])
  BY <1>1, <1>3 DEF FoldIs
<1>6. r[0] = base
  <2>1. 0 \in 0..n /\ 1..0 = {} /\ {} \in SUBSET (1..n)
    BY <1>1
  <2> QED BY <1>5, <2>1
<1>7. ASSUME NEW k \in 1..n PROVE r[k] = Merge(r[k - 1], seq[k])
  <2>1. k \in 0..n /\ k - 1 \in 0..n /\ k - 1 \in Nat /\ (k - 1) + 1 = k
    BY <1>1
  <2>2. 1..k \in SUBSET (1..n) /\ 1..k # {} /\ (1..k) \ {k} = 1..(k - 1)
    BY <1>1
  <2>3. Max(1..k) = k
    <3>1. 1..k \in SUBSET (1..((k - 1) + 1)) /\ (k - 1) + 1 \in 1..k
      BY <2>1
    <3>2. Max(1..k) = (k - 1) + 1
      BY <2>1, <3>1, LastIsMax
    <3> QED BY <2>1, <3>2
  <2>4. g[1..k] = Merge(g[1..(k - 1)], seq[k])
    BY <1>5, <2>2, <2>3
  <2> QED BY <2>1, <2>4
<1>8. r[n] = g[P]
  BY <1>1
<1>9. Merges(r, base, seq, n)
  <2> HIDE DEF r
  <2> QED BY <1>6, <1>7 DEF Merges
<1> HIDE DEF r
<1> QED BY <1>4, <1>8, <1>9 DEF n

------------------------------------------------------------------------------
(* What was sent, as it arrives *)

\* The messages without a nil in a oneof are functions of their fields, the
\* numbers in the range of their type, no text and no message in a field 2^31
\* bytes long, and unknownFields holds fields of a newer schema.
AllSendable ==
  \A s \in Sent : \A k \in DOMAIN s.messages :
    Whole(s.messages[k]) =>
      IsAFunction(s.messages[k]) /\ Sendable(s.type, Solid(s.messages[k]))

\* A message that holds its own bytes may be sent.
LEMMA GoodIsListed ==
  ASSUME NEW type \in Types, NEW m, Good(Byte, type, m)
  PROVE  Listed(type, m)
<1>1. Meet(type, m, m)
  BY DEF Meet
<1>2. /\ IsAFunction(m) /\ DOMAIN m \subseteq Names(type) /\ "unknown" \in DOMAIN m
      /\ \A f \in Plain \cup Lists : f \in Names(type) => f \in DOMAIN m
      /\ "attributes" \in DOMAIN m => type = "AppInfo" /\ IsSequence(m.attributes)
  BY <1>1, MeetSays
<1>3. type = "AppInfo" => "attributes" \in DOMAIN m
  BY <1>1, MeetSays
<1>4. "trace_ids" \in Names(type) <=> type = "AppTrace"
  BY NamesOfTypes DEF Types
<1>5. "trace_ids" \in DOMAIN m <=> type = "AppTrace"
  BY <1>2, <1>4 DEF Lists
<1> QED BY <1>2, <1>3, <1>5 DEF Listed

\* One with a nil among its attributes, too.
LEMMA SolidListed ==
  ASSUME NEW type \in Types, NEW m, IsAFunction(m), Good(Byte, type, Solid(m)),
         IsMessage(type, m)
  PROVE  Listed(type, m)
<1>1. Listed(type, Solid(m)) /\ DOMAIN Solid(m) = DOMAIN m
  BY GoodIsListed, SolidIs
<1>2. "attributes" \in DOMAIN m => IsSequence(m.attributes)
  <2>1. "attributes" \in DOMAIN m => type = "AppInfo"
    BY <1>1 DEF Listed
  <2> QED BY <2>1 DEF IsMessage, IsSequence
<1> QED BY <1>1, <1>2 DEF Listed

\* Message k of what was sent.
LEMMA SentMessage ==
  ASSUME AllSendable, sent \in Sent, Judged, NEW k \in DOMAIN sent.messages
  PROVE  /\ sent.type \in Types /\ Listed(sent.type, sent.messages[k])
         /\ Sendable(sent.type, Solid(sent.messages[k]))
         /\ Good(Byte, sent.type, Solid(sent.messages[k]))
         /\ IsMessage(sent.type, sent.messages[k])
<1> DEFINE m == sent.messages[k]
<1>1. sent.type \in Types /\ IsMessage(sent.type, m)
  BY InputAssumption
<1>2. Whole(m)
  BY DEF Judged, Range
<1>3. IsAFunction(m) /\ Sendable(sent.type, Solid(m))
  BY <1>2 DEF AllSendable
<1> HIDE DEF m
<1>4. Good(Byte, sent.type, Solid(m))
  BY <1>3 DEF Sendable
<1> QED BY <1>1, <1>3, <1>4, SolidListed DEF m

\* The empty message arrives as it is.
LEMMA EmptyIsSolid ==
  ASSUME NEW type \in Types
  PROVE  /\ Listed(type, Empty(type)) /\ Solid(Empty(type)) = Empty(type)
         /\ Good(Byte, type, Empty(type))
<1> DEFINE m == Empty(type)
<1>1. Good(Byte, type, m)
  BY EmptyGood
<1>2. \A f \in DOMAIN m : m[f] = <<>>
  BY EmptyFields
<1> HIDE DEF m
<1>3. Listed(type, m)
  BY <1>1, GoodIsListed
<1>4. Solid(m) = m
  <2>1. "attributes" \in DOMAIN m =>
          [k \in DOMAIN m.attributes |-> OrEmpty(m.attributes[k], "KeyVal")] = <<>>
    BY <1>2
  <2>2. m = [f \in DOMAIN m |-> m[f]]
    BY <1>3 DEF Listed, IsAFunction
  <2> QED BY <1>2, <2>1, <2>2 DEF Solid
<1> QED BY <1>1, <1>3, <1>4 DEF m

\* Reading message after message makes what they mean.
LEMMA SentIsRead ==
  ASSUME AllSendable, sent \in Sent, SentInv, Judged, NEW strict \in BOOLEAN
  PROVE  /\ Leads({}, {}, sent.type, SentBy(strict), Empty(sent.type), Solid(Meaning))
         /\ Listed(sent.type, Meaning) /\ Good(Byte, sent.type, Solid(Meaning))
<1> DEFINE type == sent.type
           ms == sent.messages
           n == Len(ms)
           e == [k \in 1..n |-> Written(type, strict, ms[k])]
           base == Empty(type)
<1>1. /\ type \in Types /\ ms \in Seq(Range(ms)) /\ \A k \in DOMAIN ms : IsMessage(type, ms[k])
  BY InputAssumption
<1>2. n \in Nat /\ DOMAIN ms = 1..n /\ IsSequence(ms)
  BY <1>1 DEF IsSequence
<1>3. ASSUME NEW k \in 1..n
      PROVE  /\ Listed(type, ms[k]) /\ Sendable(type, Solid(ms[k]))
             /\ Good(Byte, type, Solid(ms[k])) /\ Written(type, strict, ms[k]) \in Seq(Byte)
  <2>1. IsMessage(type, ms[k])
    BY <1>1, <1>2
  <2>2. Sized(Written(type, strict, ms[k]), SizeVT(type, ms[k]))
    BY <1>1, <2>1, WrittenIsSized
  <2> QED BY <1>2, <2>2, SentMessage DEF Sized
<1>4. e \in [1..n -> Seq(Byte)]
  BY <1>3
<1>5. SentBy(strict) = FlattenSeq(e)
  BY <1>2 DEF SentBy
<1>6. base = Empty(type) /\ Meaning = FoldLeft(Merge, base, ms)
  BY DEF Meaning
<1> HIDE DEF e, n, ms, base, type
<1>7. PICK j \in [Nat -> Seq(Byte)] : Joins(j, e, n) /\ FlattenSeq(e) = j[n]
  BY <1>2, <1>4, FlattenDef, Zenon
<1>8. PICK r : Merges(r, base, ms, n) /\ Meaning = r[n]
  BY <1>2, <1>6, FoldMerges DEF n
<1> DEFINE Here(k) == /\ Listed(type, r[k]) /\ Good(Byte, type, Solid(r[k]))
                      /\ Leads({}, {}, type, j[k], base, Solid(r[k]))
           T == {k \in 0..n : Here(k)}
<1>9. 0 \in T
  <2>1. r[0] = base /\ j[0] = <<>>
    BY <1>7, <1>8 DEF Joins, Merges
  <2>2. Listed(type, base) /\ Solid(base) = base /\ Good(Byte, type, base)
    BY <1>1, <1>6, EmptyIsSolid, Zenon
  <2>3. Leads({}, {}, type, <<>>, base, base)
    BY LeadsNothing DEF Between
  <2>4. 0 \in 0..n
    BY <1>2
  <2>5. Here(0)
    BY <2>1, <2>2, <2>3, Zenon
  <2> QED BY <2>4, <2>5
<1>10. ASSUME NEW k \in 0..(n - 1), k \in T PROVE k + 1 \in T
  <2> DEFINE i == k + 1
             b == Written(type, strict, ms[i])
             old == Solid(r[k])
             new == Solid(ms[i])
             c == [type |-> type, old |-> old, new |-> new, read |-> {}, lows |-> {}, highs |-> {}]
  <2>1. i \in 1..n /\ i \in 0..n /\ k = i - 1 /\ k \in Nat /\ i \in Nat
    BY <1>2
  <2>2. Here(k)
    BY <1>10
  <2> HIDE DEF i
  <2>3. r[i] = Merge(r[k], ms[i]) /\ j[i] = j[k] \o b
    <3>1. r[i] = Merge(r[i - 1], ms[i])
      BY <1>8, <2>1 DEF Merges
    <3>2. j[i] = j[i - 1] \o e[i]
      BY <1>7, <2>1 DEF Joins
    <3>3. e[i] = b
      BY <2>1 DEF e
    <3> QED BY <2>1, <3>1, <3>2, <3>3
  <2>4. Solid(r[i]) = Merge(old, new) /\ Listed(type, r[i])
    <3>1. Listed(type, r[k]) /\ Listed(type, ms[i])
      BY <1>3, <2>1, <2>2
    <3>2. Solid(Merge(r[k], ms[i])) = Merge(Solid(r[k]), Solid(ms[i])) /\ Listed(type, Merge(r[k], ms[i]))
      BY <3>1, SolidMerge
    <3> QED BY <2>3, <3>2
  <2>5. Good(Byte, type, old) /\ Good(Byte, type, new) /\ Sendable(type, new)
        /\ b \in Seq(Byte) /\ j[k] \in Seq(Byte)
    BY <1>3, <1>7, <2>1, <2>2
  <2>6. Written(type, strict, new) = b
    BY <1>3, <2>1, SolidIsWritten
  <2> HIDE DEF old, new, b
  <2>7. Meet(type, old, new)
    BY <1>1, <2>5 DEF Meet
  <2>8. c.type = type /\ c.old = old /\ c.new = new /\ c.read = {} /\ c.lows = {} /\ c.highs = {}
    OBVIOUS
  <2> HIDE DEF c
  <2>9. Ready(c)
    BY <2>5, <2>7, <2>8 DEF Ready, Between
  <2>10. Brings(c, Written(c.type, strict, c.new))
    BY <2>8, <2>9, WhatWasWrittenIsRead
  <2>11. Leads({}, {}, type, b, old, Merge(old, new))
    BY <2>6, <2>8, <2>10 DEF Brings
  <2>12. Leads({}, {}, type, j[k], base, old)
    BY <2>2 DEF old
  <2>13. Leads({}, {}, type, j[k] \o b, base, Merge(old, new))
    BY <2>5, <2>11, <2>12, LeadsThen
  <2>14. Good(Byte, type, Merge(old, new))
    BY <2>7, MergeGood
  <2>15. Here(i)
    BY <2>3, <2>4, <2>13, <2>14
  <2>16. i \in T
    BY <2>1, <2>15
  <2> QED BY <2>16 DEF i
<1>11. \A k \in 0..n : k \in T
  <2> HIDE DEF T
  <2> QED BY <1>2, <1>9, <1>10, BoundedInduction
<1>12. Here(n)
  <2>1. n \in 0..n
    BY <1>2
  <2> QED BY <1>11, <2>1
<1> QED BY <1>5, <1>6, <1>7, <1>8, <1>12 DEF type

------------------------------------------------------------------------------
(* What the decoders promise of what was sent *)

\* A decoder that has all of the bytes.
LEMMA AllArrived ==
  ASSUME AllSendable, ReadInv, Judged, ~cut
  PROVE  /\ pc # "error"
         /\ Listed(sent.type, Meaning)
         /\ pc \in {"done", "reused"} =>
              /\ pc = "done" => Read(top.msg) = Solid(Meaning)
              /\ ~unsafe => top.msg = Solid(Meaning) /\ clone = Solid(Meaning)
              /\ clone.unknown = Solid(Meaning).unknown
              /\ "payload" \in DOMAIN clone =>
                   "payload" \in DOMAIN Meaning /\ clone.payload = Solid(Meaning).payload
<1>1. sent.messages # <<>> /\ sent \in Sent /\ SentInv /\ BoundsInv
  BY DEF Judged, ReadInv, TypeInv
<1>2. PICK strict \in BOOLEAN : \E b :
      /\ b = SentBy(strict) /\ Arrived(b)
      /\ \A M : Marks(sent.type, b, M) /\ M[0] = Empty(sent.type) => Tracks(b, M)
  BY <1>1 DEF ReadInv, DecodeInv
<1>3. PICK b :
      /\ b = SentBy(strict) /\ Arrived(b)
      /\ \A M : Marks(sent.type, b, M) /\ M[0] = Empty(sent.type) => Tracks(b, M)
  BY <1>2
<1>4. /\ Leads({}, {}, sent.type, SentBy(strict), Empty(sent.type), Solid(Meaning))
      /\ Listed(sent.type, Meaning)
  BY <1>1, SentIsRead
<1>5. PICK M : Marks(sent.type, b, M) /\ M[0] = Empty(sent.type) /\ M[Len(b)] = Solid(Meaning)
  BY <1>3, <1>4 DEF Leads, Reaches
<1>6. Tracks(b, M)
  BY <1>3, <1>5
<1>7. Len(buf) = Len(b) /\ Len(b) \in Nat /\ Len(b) \in DOMAIN M
  <2>1. Len(buf) \in Nat /\ Len(b) \in Nat
    BY <1>1, <1>3 DEF Arrived, BoundsInv
  <2>2. Len(buf) <= Len(b) /\ ~(Len(buf) < Len(b))
    BY <1>3 DEF Arrived
  <2>3. Len(b) \in DOMAIN M
    BY <1>5 DEF Marks, Spans
  <2> QED BY <2>1, <2>2, <2>3
<1>8. ~StoppedAt(M)
  BY <1>5, <1>7 DEF StoppedAt, Marks, Spans
<1>9. pc # "error"
  BY <1>6, <1>8 DEF Tracks, Reading, Within, ReadThrough
<1>10. pc \in {"done", "reused"} => ReadThrough(M)
  BY <1>6, <1>8 DEF Tracks, Reading, Within
<1>11. DOMAIN Solid(Meaning) = DOMAIN Meaning
  BY SolidIs
<1>12. Read(top.msg) = ReadIn(buf, top.msg)
  BY ReadIs
<1> QED BY <1>4, <1>5, <1>7, <1>9, <1>10, <1>11, <1>12 DEF ReadThrough

\* What was sent and not cut is what was decoded.
LEMMA WhatWasSentIsDecoded ==
  ASSUME AllSendable, ReadInv
  PROVE  DecodesWhatWasSent
<1> SUFFICES ASSUME Judged, ~cut
             PROVE  pc # "error" /\ (pc = "done" => EqualVT(sent.type, Read(top.msg), Meaning))
  BY DEF DecodesWhatWasSent
<1>1. pc # "error" /\ Listed(sent.type, Meaning) /\ (pc = "done" => Read(top.msg) = Solid(Meaning))
  BY AllArrived
<1>2. EqualVT(sent.type, Solid(Meaning), Meaning)
  BY <1>1, SolidIsEqual
<1> QED BY <1>1, <1>2

\* The message and its clone still are, once the buffer was reused.
LEMMA WhatWasSentSurvives ==
  ASSUME AllSendable, ReadInv
  PROVE  SurvivesReuse
<1> SUFFICES ASSUME Judged, ~cut, pc = "reused"
             PROVE  /\ ~unsafe => /\ EqualVT(sent.type, Read(top.msg), Meaning)
                                  /\ EqualVT(sent.type, Read(clone), Meaning)
                    /\ Bytes(clone.unknown) = Meaning.unknown
                    /\ "payload" \in DOMAIN clone => Bytes(clone.payload) = Meaning.payload
  BY DEF SurvivesReuse
<1>1. OwnText
  BY TypeInvGivesOwnText DEF ReadInv
<1>2. /\ Listed(sent.type, Meaning)
      /\ ~unsafe => top.msg = Solid(Meaning) /\ clone = Solid(Meaning)
      /\ clone.unknown = Solid(Meaning).unknown
      /\ "payload" \in DOMAIN clone =>
           "payload" \in DOMAIN Meaning /\ clone.payload = Solid(Meaning).payload
  BY AllArrived
<1>3. EqualVT(sent.type, Solid(Meaning), Meaning)
  BY <1>2, SolidIsEqual
<1>4. /\ Solid(Meaning).unknown = Meaning.unknown
      /\ "payload" \in DOMAIN Meaning => Solid(Meaning).payload = Meaning.payload
  BY <1>2, SolidIs DEF Listed
<1> QED BY <1>1, <1>2, <1>3, <1>4 DEF OwnText

\* What is sent as a whole is decoded without an error and is equal to what
\* was sent, whichever of the two writers wrote it and whichever of the two
\* decoders reads it, several encodings merged
\* (WasmPluginApi_vtproto.pb.go:2840-3317, 4454-4947).
THEOREM WhatWasSentIsAlwaysDecoded ==
  ASSUME AllSendable
  PROVE  Spec => []DecodesWhatWasSent
<1>1. ReadInv /\ [Next]_vars => ReadInv'
  BY ReadNext
<1>2. ReadInv => DecodesWhatWasSent
  BY WhatWasSentIsDecoded
<1> QED BY ReadInit, <1>1, <1>2, PTL DEF Spec

\* Once the buffer holds something else, a message of the safe decoder, its
\* clone, and the payload and unknown fields of a clone of the unsafe one still
\* are what was sent (WasmPluginApi_vtproto.pb.go:247-290, 5049-5101).
THEOREM WhatWasSentAlwaysSurvives ==
  ASSUME AllSendable
  PROVE  Spec => []SurvivesReuse
<1>1. ReadInv /\ [Next]_vars => ReadInv'
  BY ReadNext
<1>2. ReadInv => SurvivesReuse
  BY WhatWasSentSurvives
<1> QED BY ReadInit, <1>1, <1>2, PTL DEF Spec

------------------------------------------------------------------------------
(* A message that is cut *)

\* The first members of a sequence are a prefix of it.
LEMMA PartIsPrefix ==
  ASSUME NEW S, NEW s \in Seq(S), NEW k \in 0..Len(s)
  PROVE  /\ IsPrefix(SubSeq(s, 1, k), s) /\ Len(SubSeq(s, 1, k)) = k
         /\ SubSeq(s, 1, k) \in Seq(S)
         /\ \A i \in 1..k : SubSeq(s, 1, k)[i] = s[i]
<1> DEFINE t == SubSeq(s, 1, k)
<1>1. t \in Seq(S) /\ Len(t) = k /\ \A i \in 1..k : t[i] = s[i]
  OBVIOUS
<1>2. SubSeq(t, 1, k) = t
  <2> HIDE DEF t
  <2> QED BY <1>1
<1> QED BY <1>1, <1>2 DEF IsPrefix

\* And so are all.
LEMMA WholeIsPrefix ==
  ASSUME NEW s, IsSequence(s)
  PROVE  IsPrefix(s, s)
<1>1. s \in Seq(Range(s)) /\ Len(s) \in Nat
  BY DEF IsSequence
<1> QED BY <1>1 DEF IsPrefix

\* A message is a part of itself.
LEMMA PartOfItself ==
  ASSUME NEW m, TextGood(Byte, m)
  PROVE  PartFlat(m, m)
<1>1. ASSUME NEW f \in DOMAIN m, f \in {"trace_ids", "unknown"} PROVE IsPrefix(m[f], m[f])
  <2>1. \E S : m[f] \in Seq(S)
    BY <1>1 DEF TextGood
  <2> QED BY <2>1, SeqsAre, WholeIsPrefix
<1> QED BY <1>1 DEF PartFlat

\* What is read of q into a new message: v, in its field f.
ReadOf(q, F, k, u, f, v) ==
  /\ f \in DOMAIN q
  /\ f \notin Lists => v = q[f] \/ (f \in Plain /\ v = <<>> /\ f \notin F)
  /\ f = "unknown" => v = SubSeq(q[f], 1, u)
  /\ f \in Lists /\ f # "unknown" => v = SubSeq(q[f], 1, k)

\* The fields of a part of a message.
LEMMA PartialHas ==
  ASSUME NEW type \in Types, NEW q, Good(Byte, type, q), NEW F,
         NEW k \in 0..Count(q), NEW u \in 0..Len(q.unknown),
         NEW f \in DOMAIN Partial(Empty(type), q, F, k, u)
  PROVE  ReadOf(q, F, k, u, f, Partial(Empty(type), q, F, k, u)[f])
<1> DEFINE e == Empty(type)
           m == Partial(e, q, F, k, u)
<1>1. Meet(type, e, q)
  BY EmptyGood DEF Meet
<1>2. \A g \in DOMAIN e : e[g] = <<>>
  BY EmptyFields
<1>3. DOMAIN e \subseteq Plain \cup Lists
  BY DEF Types, Empty, Plain, Lists
<1> HIDE DEF e
<1>4. DOMAIN e \subseteq DOMAIN q
  <2>1. DOMAIN e \subseteq Names(type)
    BY <1>1, MeetSays
  <2> QED BY <1>1, <1>3, <2>1, MeetSays
<1>5. /\ f \in DOMAIN e \/ f \in F \cap DOMAIN q
      /\ m[f] = PartField(e, q, F, k, u, f)
  BY DEF Partial, e
<1>6. f \in DOMAIN q
  BY <1>4, <1>5
<1>7. ASSUME f \in Lists PROVE f \in DOMAIN e /\ IsSequence(q[f])
  BY <1>1, <1>6, <1>7, ListsAre
<1>8. ASSUME NEW s, IsSequence(s), NEW i \in 0..Len(s)
      PROVE  <<>> \o SubSeq(s, 1, i) = SubSeq(s, 1, i)
  <2>1. s \in Seq(Range(s))
    BY <1>8 DEF IsSequence
  <2>2. SubSeq(s, 1, i) \in Seq(Range(s))
    BY <2>1, PartIsPrefix, Zenon
  <2> QED BY <2>2
<1>9. CASE f = "unknown"
  <2>1. m[f] = <<>> \o SubSeq(q[f], 1, u) /\ f \in Lists
    BY <1>2, <1>5, <1>7, <1>9 DEF PartField, Lists
  <2>2. IsSequence(q[f]) /\ u \in 0..Len(q[f])
    BY <1>7, <1>9, <2>1
  <2>3. m[f] = SubSeq(q[f], 1, u)
    BY <1>8, <2>1, <2>2
  <2> QED BY <1>6, <1>9, <2>1, <2>3 DEF ReadOf, m, e
<1>10. CASE f \in Lists /\ f # "unknown"
  <2>1. m[f] = <<>> \o SubSeq(q[f], 1, k)
    BY <1>2, <1>5, <1>7, <1>10 DEF PartField
  <2>2. IsSequence(q[f]) /\ k \in 0..Len(q[f])
    <3>1. f \in {"trace_ids", "attributes"} \cap DOMAIN q
      BY <1>6, <1>10 DEF Lists
    <3>2. Count(q) = Len(q[f])
      BY <1>1, <3>1, CountIs
    <3> QED BY <1>7, <1>10, <3>2
  <2>3. m[f] = SubSeq(q[f], 1, k)
    BY <1>8, <2>1, <2>2
  <2> QED BY <1>6, <1>10, <2>3 DEF ReadOf, m, e
<1>11. CASE f \notin Lists
  <2>1. "unknown" \in Lists
    BY DEF Lists
  <2>2. CASE f \in F \cap DOMAIN q
    <3>1. m[f] = Grown(e, q, f)
      BY <1>5, <1>11, <2>1, <2>2 DEF PartField
    <3>2. f \in DOMAIN e => f \in Plain /\ f \notin Inner
      BY <1>3, <1>11 DEF Plain, Inner
    <3>3. m[f] = q[f]
      BY <1>2, <3>1, <3>2 DEF Grown
    <3> QED BY <1>6, <1>11, <2>1, <3>3 DEF ReadOf, m, e
  <2>3. CASE f \notin F \cap DOMAIN q
    <3>1. m[f] = e[f] /\ f \in DOMAIN e
      BY <1>5, <1>11, <2>1, <2>3 DEF PartField
    <3>2. f \in Plain /\ m[f] = <<>>
      BY <1>2, <1>3, <1>11, <3>1
    <3> QED BY <1>6, <1>11, <2>1, <2>3, <3>2 DEF ReadOf, m, e
  <2> QED BY <2>2, <2>3
<1> QED BY <1>9, <1>10, <1>11

\* A part of what was sent, a nil among the attributes arriving as empty.
LEMMA PartialIsPart ==
  ASSUME NEW type \in Types, NEW w, Listed(type, w), Good(Byte, type, Solid(w)), NEW F,
         NEW k \in 0..Count(Solid(w)), NEW u \in 0..Len(Solid(w).unknown)
  PROVE  PartOf(Partial(Empty(type), Solid(w), F, k, u), w)
<1> DEFINE q == Solid(w)
           m == Partial(Empty(type), q, F, k, u)
           flat == [f \in DOMAIN m \ {"req", "resp", "trace", "attributes"} |-> m[f]]
<1>1. Good(Byte, type, q) /\ Meet(type, q, q) /\ k \in 0..Count(q) /\ u \in 0..Len(q.unknown)
  BY DEF Meet
<1>2. /\ DOMAIN q = DOMAIN w /\ \A f \in DOMAIN w : f # "attributes" => q[f] = w[f]
      /\ "attributes" \in DOMAIN w =>
           q.attributes = [i \in DOMAIN w.attributes |-> OrEmpty(w.attributes[i], "KeyVal")]
  BY SolidIs
<1> HIDE DEF q
<1>3. ASSUME NEW f \in DOMAIN m
      PROVE  /\ f \in DOMAIN q
             /\ f \notin Lists => m[f] = q[f] \/ (f \in Plain /\ m[f] = <<>>)
             /\ f = "unknown" => m[f] = SubSeq(q[f], 1, u)
             /\ f \in Lists /\ f # "unknown" => m[f] = SubSeq(q[f], 1, k)
  <2>1. ReadOf(q, F, k, u, f, m[f])
    BY <1>1, PartialHas
  <2> HIDE DEF m
  <2> QED BY <2>1 DEF ReadOf
<1> HIDE DEF m
<1>4. ASSUME NEW f \in DOMAIN q, f \in Lists
      PROVE  IsSequence(q[f]) /\ (f # "unknown" => k \in 0..Len(q[f]))
  <2>1. IsSequence(q[f])
    BY <1>1, <1>4, ListsAre
  <2>2. ASSUME f # "unknown" PROVE k \in 0..Len(q[f])
    <3>1. f \in {"trace_ids", "attributes"} \cap DOMAIN q
      BY <1>4, <2>2 DEF Lists
    <3>2. Count(q) = Len(q[f])
      BY <1>1, <3>1, CountIs
    <3> QED BY <1>1, <3>2
  <2> QED BY <2>1, <2>2
<1>5. PartFlat(flat, w)
  <2>1. ASSUME NEW f \in DOMAIN flat
        PROVE  IF f \in {"trace_ids", "unknown"} THEN IsPrefix(flat[f], w[f])
               ELSE (f \in DOMAIN w /\ flat[f] = w[f]) \/ (f \in Plain /\ flat[f] = <<>>)
    <3>1. f \in DOMAIN m /\ flat[f] = m[f] /\ f # "attributes"
      OBVIOUS
    <3>2. f \in DOMAIN w /\ q[f] = w[f]
      BY <1>2, <1>3, <3>1
    <3>3. CASE f \in {"trace_ids", "unknown"}
      <4>1. f \in Lists /\ f \in DOMAIN q
        BY <1>3, <3>1, <3>3 DEF Lists
      <4>2. PICK i \in 0..Len(q[f]) : m[f] = SubSeq(q[f], 1, i)
        BY <1>1, <1>3, <1>4, <3>1, <3>3, <4>1
      <4>3. q[f] \in Seq(Range(q[f]))
        BY <1>4, <4>1 DEF IsSequence
      <4>4. IsPrefix(SubSeq(q[f], 1, i), q[f])
        BY <4>2, <4>3, PartIsPrefix, Zenon
      <4> QED BY <3>1, <3>2, <3>3, <4>2, <4>4
    <3>4. CASE f \notin {"trace_ids", "unknown"}
      <4>1. f \notin Lists
        BY <3>1, <3>4 DEF Lists
      <4> QED BY <1>3, <3>1, <3>2, <3>4, <4>1
    <3> QED BY <3>3, <3>4
  <2> QED BY <2>1 DEF PartFlat
<1>6. ASSUME NEW f \in {"req", "resp", "trace"} \cap DOMAIN m
      PROVE  f \in DOMAIN w /\ PartFlat(m[f], w[f])
  <2>1. f \notin Lists /\ f \notin Plain /\ f # "attributes" /\ f \in Inner
    BY DEF Lists, Plain, Inner
  <2>2. m[f] = w[f] /\ f \in DOMAIN w /\ f \in DOMAIN q /\ q[f] = w[f]
    BY <1>2, <1>3, <2>1
  <2>3. type = "AppInfo"
    <3>1. f \in Nested
      BY <2>1, InnerTypes
    <3> QED BY <1>1, <2>2, <3>1, MeetSays
  <2>4. TextGood(Byte, w[f])
    BY <1>1, <2>1, <2>2, <2>3 DEF Good, GoodFlat
  <2> QED BY <2>2, <2>4, PartOfItself
<1>7. ASSUME "attributes" \in DOMAIN m
      PROVE  /\ Len(m.attributes) <= Len(w.attributes)
             /\ \A j \in DOMAIN m.attributes :
                  PartFlat(m.attributes[j], OrEmpty(w.attributes[j], "KeyVal"))
  <2> DEFINE a == q.attributes
  <2>1. "attributes" \in Lists /\ "attributes" # "unknown"
    BY DEF Lists
  <2>2. "attributes" \in DOMAIN q /\ m.attributes = SubSeq(a, 1, k)
    BY <1>3, <1>7, <2>1
  <2>3. a \in Seq(Range(a)) /\ k \in 0..Len(a)
    BY <1>4, <2>1, <2>2 DEF IsSequence
  <2>4. a = [i \in DOMAIN w.attributes |-> OrEmpty(w.attributes[i], "KeyVal")]
    BY <1>2, <2>2
  <2>5. type = "AppInfo"
    BY <1>1, <2>2, MeetSays DEF Nested
  <2>6. DOMAIN a = DOMAIN w.attributes /\ Len(w.attributes) = Len(a) /\ DOMAIN a = 1..Len(a)
        /\ Len(a) \in Nat
    <3>1. IsSequence(w.attributes)
      BY <2>5 DEF Listed
    <3>2. DOMAIN w.attributes = 1..Len(w.attributes) /\ Len(w.attributes) \in Nat
      BY <3>1 DEF IsSequence
    <3> QED BY <2>3, <2>4, <3>2
  <2> HIDE DEF a
  <2>7. /\ Len(m.attributes) = k /\ m.attributes \in Seq(Range(a))
        /\ \A i \in 1..k : m.attributes[i] = a[i]
    <3>1. /\ Len(SubSeq(a, 1, k)) = k /\ SubSeq(a, 1, k) \in Seq(Range(a))
          /\ \A i \in 1..k : SubSeq(a, 1, k)[i] = a[i]
      BY <2>3, PartIsPrefix, Zenon
    <3> QED BY <2>2, <3>1, Zenon
  <2>8. ASSUME NEW j \in DOMAIN m.attributes
        PROVE  PartFlat(m.attributes[j], OrEmpty(w.attributes[j], "KeyVal"))
    <3>1. j \in 1..k /\ j \in DOMAIN a
      BY <2>3, <2>6, <2>7
    <3>2. m.attributes[j] = a[j] /\ a[j] = OrEmpty(w.attributes[j], "KeyVal")
      BY <2>4, <2>6, <2>7, <3>1
    <3>3. TextGood(Byte, a[j])
      BY <1>1, <2>5, <3>1 DEF Good, GoodFlat, a
    <3> QED BY <3>2, <3>3, PartOfItself
  <2> QED BY <2>3, <2>6, <2>7, <2>8
<1> HIDE DEF flat
<1>8. PartOf(m, w)
  BY <1>5, <1>6, <1>7 DEF PartOf, flat
<1> QED BY <1>8 DEF m, q

\* Where one encoding ends and the next begins: from there on within bounds.
LEMMA LeadsFrom ==
  ASSUME NEW lows, NEW type, NEW b \in Seq(Byte), NEW c \in Seq(Byte), NEW m, NEW n, NEW o,
         Leads({}, {}, type, b, m, n), Leads(lows, {}, type, c, n, o)
  PROVE  \E M : /\ Marks(type, b \o c, M) /\ M[0] = m /\ Len(b) \in DOMAIN M
                /\ \A p \in DOMAIN M : p >= Len(b) => Between(lows, {}, M[p])
<1>1. PICK M : Reaches({}, {}, type, b, m, n, M)
  BY DEF Leads
<1>2. PICK N : Reaches(lows, {}, type, c, n, o, N)
  BY DEF Leads
<1>3. /\ Marks(type, b, M) /\ M[0] = m /\ M[Len(b)] = n
      /\ Marks(type, c, N) /\ N[0] = n
      /\ \A p \in DOMAIN N : Between(lows, {}, N[p])
  BY <1>1, <1>2 DEF Reaches
<1>4. Spans(b, DOMAIN M) /\ Spans(c, DOMAIN N)
  BY <1>3 DEF Marks
<1> DEFINE J == Joined(Len(b), M, N)
<1>5. Marks(type, b \o c, J)
  BY <1>3, MarksThen
<1>6. /\ \A p \in DOMAIN M : p \in DOMAIN J /\ J[p] = M[p]
      /\ \A q \in DOMAIN N : Len(b) + q \in DOMAIN J /\ J[Len(b) + q] = N[q]
      /\ \A p \in DOMAIN J : p \in DOMAIN M \/ \E q \in DOMAIN N : p = Len(b) + q
  BY <1>3, <1>4, JoinedIs
<1> HIDE DEF J
<1>7. J[0] = m /\ Len(b) \in DOMAIN J
  BY <1>3, <1>4, <1>6 DEF Spans
<1>8. ASSUME NEW p \in DOMAIN J, p >= Len(b) PROVE Between(lows, {}, J[p])
  <2>1. PICK q \in DOMAIN N : p = Len(b) + q
    <3>1. CASE p \in DOMAIN M
      <4>1. p \in 0..Len(b) /\ Len(b) \in Nat /\ 0 \in DOMAIN N
        BY <1>4, <3>1 DEF Spans
      <4>2. p = Len(b) + 0
        BY <1>8, <4>1
      <4> QED BY <4>1, <4>2
    <3>2. CASE p \notin DOMAIN M
      BY <1>6, <3>2
    <3> QED BY <3>1, <3>2
  <2>2. J[p] = N[q]
    BY <1>6, <2>1
  <2> QED BY <1>3, <2>1, <2>2
<1> QED BY <1>5, <1>7, <1>8

\* Reading a whole message into an empty one never leaves what is part of it.
LEMMA MergedFromEmpty ==
  ASSUME NEW type \in Types, NEW w, Listed(type, w), Sendable(type, Solid(w)),
         Good(Byte, type, Solid(w)), NEW strict \in BOOLEAN
  PROVE  \E n : Leads({}, {w}, type, Written(type, strict, w), Empty(type), n)
<1> DEFINE q == Solid(w)
           e == Empty(type)
           c == [type |-> type, old |-> e, new |-> q, read |-> {}, lows |-> {}, highs |-> {w}]
<1>1. Meet(type, e, q)
  BY EmptyGood DEF Meet
<1>2. ASSUME NEW F, NEW k \in 0..Count(q), NEW u \in 0..Len(q.unknown)
      PROVE  Between({}, {w}, Partial(e, q, F, k, u))
  <2>1. PartOf(Partial(e, q, F, k, u), w)
    BY PartialIsPart
  <2> QED BY <2>1 DEF Between
<1>3. Written(type, strict, q) = Written(type, strict, w)
  BY SolidIsWritten
<1>4. Sendable(type, q)
  OBVIOUS
<1> HIDE DEF q, e
<1>5. c.type = type /\ c.old = e /\ c.new = q /\ c.read = {} /\ c.lows = {} /\ c.highs = {w}
  OBVIOUS
<1> HIDE DEF c
<1>6. Ready(c)
  BY <1>1, <1>2, <1>4, <1>5 DEF Ready, Held
<1>7. Brings(c, Written(c.type, strict, c.new))
  BY <1>5, <1>6, WhatWasWrittenIsRead
<1>8. Leads({}, {w}, type, Written(type, strict, w), e, Merge(e, q))
  BY <1>3, <1>5, <1>7 DEF Brings
<1> QED BY <1>8 DEF e

\* The fields of a NATS message in the order they are written.
FirstNames(n) ==
  CASE n = 1 -> {"subject"} [] n = 2 -> {"subject", "reply_to"}
    [] n = 3 -> {"subject", "reply_to", "payload"}

\* The first fields, field by field.
LEMMA FirstFieldsAre ==
  ASSUME NEW m, NEW n \in 1..3
  PROVE  /\ DOMAIN FirstFields(m, n) = DOMAIN m
         /\ \A f \in DOMAIN m :
              FirstFields(m, n)[f] = IF f \in FirstNames(n) THEN m[f] ELSE <<>>
<1> DEFINE s == <<"subject", "reply_to", "payload">>
<1>1. ASSUME NEW k \in 1..3 PROVE Range(SubSeq(s, 1, k)) = {s[i] : i \in 1..k}
  <2>1. SubSeq(s, 1, k) = [i \in 1..k |-> s[i]]
    <3>1. s \in Seq({"subject", "reply_to", "payload"}) /\ Len(s) = 3
      OBVIOUS
    <3> HIDE DEF s
    <3> QED BY <3>1
  <2> HIDE DEF s
  <2> QED BY <2>1 DEF Range
<1>2. n = 1 \/ n = 2 \/ n = 3
  OBVIOUS
<1>3. 1..1 = {1} /\ 1..2 = {1, 2} /\ 1..3 = {1, 2, 3}
  OBVIOUS
<1>4. s[1] = "subject" /\ s[2] = "reply_to" /\ s[3] = "payload"
  OBVIOUS
<1> HIDE DEF s
<1>5. {s[i] : i \in {1}} = {"subject"} /\ {s[i] : i \in {1, 2}} = {"subject", "reply_to"}
      /\ {s[i] : i \in {1, 2, 3}} = {"subject", "reply_to", "payload"}
  BY <1>4
<1>6. Range(SubSeq(s, 1, n)) = FirstNames(n)
  BY <1>1, <1>2, <1>3, <1>5 DEF FirstNames
<1>7. FirstFields(m, n) = [f \in DOMAIN m |-> IF f \in Range(SubSeq(s, 1, n)) THEN m[f] ELSE <<>>]
  BY DEF FirstFields, s
<1> QED BY <1>6, <1>7

------------------------------------------------------------------------------
(* The fields of a NATS message that arrived *)

\* The call that reads a NATS message into an empty one, the fields F first.
NatsCall(q, F, lows) ==
  [type |-> "NatsMessage", old |-> Empty("NatsMessage"), new |-> q,
   read |-> F, lows |-> lows, highs |-> {}]

\* It can read a message that was sent.
LEMMA NatsIsReady ==
  ASSUME NEW q, Sendable("NatsMessage", q), Good(Byte, "NatsMessage", q), NEW n \in 1..3
  PROVE  /\ Ready(NatsCall(q, {}, {}))
         /\ Ready(NatsCall(q, FirstNames(n), {FirstFields(q, n)}))
<1> DEFINE e == Empty("NatsMessage")
           m == FirstFields(q, n)
           G == FirstNames(n)
<1>1. "NatsMessage" \in Types /\ Meet("NatsMessage", e, q)
  BY EmptyGood DEF Meet, Types
<1>2. \A F, lows : LET c == NatsCall(q, F, lows)
                   IN  /\ c.type = "NatsMessage" /\ c.old = e /\ c.new = q
                       /\ c.read = F /\ c.lows = lows /\ c.highs = {}
  BY DEF NatsCall
<1>3. /\ DOMAIN m = DOMAIN q
      /\ \A f \in DOMAIN q : m[f] = IF f \in G THEN q[f] ELSE <<>>
  BY FirstFieldsAre
<1>4. DOMAIN q = {"subject", "reply_to", "payload", "unknown"}
  <2>1. DOMAIN q \subseteq Names("NatsMessage")
        /\ \A f \in Plain \cup Lists : f \in Names("NatsMessage") => f \in DOMAIN q
    BY <1>1, MeetSays
  <2> QED BY <2>1, NamesOfTypes DEF Plain, Lists
<1>5. "unknown" \notin G /\ G \subseteq DOMAIN q
  BY <1>4 DEF FirstNames
<1> HIDE DEF m, G, e
<1>6. ASSUME NEW F, G \subseteq F, NEW k \in 0..Count(q), NEW u \in 0..Len(q.unknown)
      PROVE  PartFlat(m, Partial(e, q, F, k, u))
  <2> DEFINE p == Partial(e, q, F, k, u)
  <2>1. DOMAIN e = {"subject", "reply_to", "payload", "unknown"}
    BY DEF e, Empty
  <2>2. DOMAIN p = DOMAIN q
    <3>1. Gone(q, F) = {}
      BY <1>4 DEF Gone
    <3> QED BY <1>4, <2>1, <3>1 DEF Partial
  <2>3. ASSUME NEW f \in DOMAIN q PROVE ReadOf(q, F, k, u, f, p[f])
    <3>1. f \in DOMAIN p
      BY <2>2
    <3> HIDE DEF p
    <3> QED BY <1>1, <3>1, PartialHas DEF p, e
  <2> HIDE DEF p
  <2>4. ASSUME NEW f \in DOMAIN m
        PROVE  IF f \in {"trace_ids", "unknown"} THEN IsPrefix(m[f], p[f])
               ELSE (f \in DOMAIN p /\ m[f] = p[f]) \/ (f \in Plain /\ m[f] = <<>>)
    <3>1. f \in DOMAIN q /\ f \in DOMAIN p
      BY <1>3, <2>2
    <3>2. CASE f = "unknown"
      <4>1. m[f] = <<>>
        BY <1>3, <1>5, <3>1, <3>2
      <4>2. p[f] = SubSeq(q[f], 1, u)
        BY <2>3, <3>1, <3>2 DEF ReadOf
      <4>3. q[f] \in Seq(Byte) /\ u \in 0..Len(q[f])
        BY <1>1, <3>2, MeetSays
      <4>4. SubSeq(q[f], 1, u) \in Seq(Byte)
        BY <4>3, PartIsPrefix, Zenon
      <4>5. ASSUME NEW s \in Seq(Byte) PROVE IsPrefix(<<>>, s)
        BY DEF IsPrefix
      <4> QED BY <3>2, <4>1, <4>2, <4>4, <4>5
    <3>3. CASE f # "unknown"
      <4>1. f \in Plain /\ f \notin Lists /\ f # "trace_ids"
        BY <1>4, <3>1, <3>3 DEF Plain, Lists
      <4>2. CASE f \in G
        <5>1. f \in F
          BY <1>6, <4>2
        <5>2. p[f] = q[f]
          BY <2>3, <3>1, <4>1, <5>1 DEF ReadOf
        <5>3. m[f] = q[f]
          BY <1>3, <3>1, <4>2
        <5> QED BY <3>1, <3>3, <4>1, <5>2, <5>3
      <4>3. CASE f \notin G
        BY <1>3, <3>1, <3>3, <4>1, <4>3
      <4> QED BY <4>2, <4>3
    <3> QED BY <3>2, <3>3
  <2>5. PartFlat(m, p)
    BY <2>4 DEF PartFlat
  <2> QED BY <2>5 DEF p
<1>7. Ready(NatsCall(q, {}, {}))
  BY <1>1, <1>2 DEF Ready, Between
<1>8. Ready(NatsCall(q, G, {m}))
  <2> DEFINE c == NatsCall(q, G, {m})
  <2>1. c.type = "NatsMessage" /\ c.old = e /\ c.new = q /\ c.read = G /\ c.lows = {m} /\ c.highs = {}
    BY <1>2
  <2> HIDE DEF c
  <2>2. Ready(c)
    BY <1>1, <1>6, <2>1 DEF Ready, Held, Between
  <2> QED BY <2>2 DEF c
<1> QED BY <1>7, <1>8 DEF m, G

\* What the code reckons for the first fields is what they take.
LEMMA FirstFieldsSize ==
  ASSUME NEW q, Good(Byte, "NatsMessage", q), NEW n \in 1..3
  PROVE  NatsMessage_SizeVT(FirstFields(q, n))
           = NonEmptySize(q, "subject")
             + (IF n > 1 THEN NonEmptySize(q, "reply_to") ELSE 0)
             + (IF n > 2 THEN NonEmptySize(q, "payload") ELSE 0)
<1> DEFINE m == FirstFields(q, n)
<1>1. {"subject", "reply_to", "payload", "unknown"} \subseteq DOMAIN q
  <2>1. Meet("NatsMessage", q, q)
    BY DEF Meet, Types
  <2> QED BY <2>1, MeetSays, NamesOfTypes DEF Plain, Lists
<1>2. \A f \in DOMAIN q : m[f] = IF f \in FirstNames(n) THEN q[f] ELSE <<>>
  BY FirstFieldsAre
<1> HIDE DEF m
<1>3. /\ "subject" \in FirstNames(n) /\ "unknown" \notin FirstNames(n)
      /\ "reply_to" \in FirstNames(n) <=> n > 1
      /\ "payload" \in FirstNames(n) <=> n > 2
  BY DEF FirstNames
<1>4. NonEmptySize(m, "subject") = NonEmptySize(q, "subject")
  BY <1>1, <1>2, <1>3 DEF NonEmptySize
<1>5. NonEmptySize(m, "reply_to") = IF n > 1 THEN NonEmptySize(q, "reply_to") ELSE 0
  BY <1>1, <1>2, <1>3 DEF NonEmptySize
<1>6. NonEmptySize(m, "payload") = IF n > 2 THEN NonEmptySize(q, "payload") ELSE 0
  BY <1>1, <1>2, <1>3 DEF NonEmptySize
<1>7. Len(m.unknown) = 0
  <2>1. m.unknown = <<>>
    BY <1>1, <1>2, <1>3
  <2> QED BY <2>1
<1>8. /\ NonEmptySize(q, "subject") \in Nat /\ NonEmptySize(q, "reply_to") \in Nat
      /\ NonEmptySize(q, "payload") \in Nat
  <2>1. \A f \in {"subject", "reply_to", "payload"} : q[f] \in Seq(Byte)
    <3>1. TextGood(Byte, q)
      BY DEF Good, GoodFlat
    <3> QED BY <1>1, <3>1, TheOthers DEF TextGood
  <2>2. \A f \in {"subject", "reply_to", "payload"} : Sized(NonEmpty(q, 1, f), NonEmptySize(q, f))
    <3>1. 1 \in 1..15
      OBVIOUS
    <3> QED BY <2>1, <3>1, NonEmptyIsSized
  <2> QED BY <2>2 DEF Sized
<1> DEFINE a == NonEmptySize(q, "subject")
           b == IF n > 1 THEN NonEmptySize(q, "reply_to") ELSE 0
           d == IF n > 2 THEN NonEmptySize(q, "payload") ELSE 0
<1>9. NatsMessage_SizeVT(m) = a + b + d + 0
  BY <1>4, <1>5, <1>6, <1>7 DEF NatsMessage_SizeVT
<1>10. a \in Nat /\ b \in Nat /\ d \in Nat
  BY <1>8
<1> HIDE DEF a, b, d
<1>11. a + b + d + 0 = a + b + d
  BY <1>10
<1> QED BY <1>9, <1>11 DEF a, b, d, m

\* The bytes of the first n fields and those behind them.
Splits(q, n, pre, post) ==
  /\ pre \in Seq(Byte) /\ post \in Seq(Byte)
  /\ NatsMessage_MarshalVT(q) = pre \o post
  /\ Len(pre) = NatsMessage_SizeVT(FirstFields(q, n))
  /\ \E m, o : /\ Leads({}, {}, "NatsMessage", pre, Empty("NatsMessage"), m)
               /\ Leads({FirstFields(q, n)}, {}, "NatsMessage", post, m, o)

\* Each of its fields takes the call one further.
LEMMA NatsSteps ==
  ASSUME NEW q, NEW F, NEW lows, Ready(NatsCall(q, F, lows))
  PROVE  /\ F \subseteq {} =>
              Goes(NatsCall(q, F, lows), NonEmpty(q, 1, "subject"), {}, 0, FirstNames(1), 0)
         /\ F \subseteq FirstNames(1) =>
              Goes(NatsCall(q, F, lows), NonEmpty(q, 2, "reply_to"), FirstNames(1), 0, FirstNames(2), 0)
         /\ F \subseteq FirstNames(2) =>
              Goes(NatsCall(q, F, lows), NonEmpty(q, 3, "payload"), FirstNames(2), 0, FirstNames(3), 0)
         /\ F \subseteq FirstNames(3) =>
              /\ q.unknown \in Seq(Byte)
              /\ \E o : Leads(lows, {}, "NatsMessage", q.unknown,
                              Partial(Empty("NatsMessage"), q, FirstNames(3), 0, 0), o)
<1> DEFINE c == NatsCall(q, F, lows)
<1>1. c.type = "NatsMessage" /\ c.new = q /\ c.read = F /\ c.lows = lows /\ c.highs = {}
      /\ c.old = Empty("NatsMessage")
  BY DEF NatsCall
<1>2. Ready(c)
  OBVIOUS
<1> HIDE DEF c
<1>3. /\ IsCase(c.type, 1, "string", "subject")
      /\ IsCase(c.type, 2, "string", "reply_to")
      /\ IsCase(c.type, 3, "string", "payload")
  BY <1>1, NatsCases DEF Cases, KindOf, NameOf, IsCase
<1>4. 0 \in 0..Count(c.new)
  BY <1>2, FromNothing
<1>5. "subject" \in Plain /\ "reply_to" \in Plain /\ "payload" \in Plain
  BY DEF Plain
<1>6. ASSUME NEW G, c.read \subseteq G, NEW num, NEW f, IsCase(c.type, num, "string", f), f \in Plain
      PROVE  Goes(c, NonEmpty(q, num, f), G, 0, G \cup {f}, 0)
  <2>1. Goes(c, NonEmpty(c.new, num, f), G, 0, G \cup {f}, 0)
    BY <1>2, <1>4, <1>6, NonEmptyGoes
  <2> QED BY <1>1, <2>1
<1>7. /\ {} \cup {"subject"} = FirstNames(1)
      /\ FirstNames(1) \cup {"reply_to"} = FirstNames(2)
      /\ FirstNames(2) \cup {"payload"} = FirstNames(3)
  BY DEF FirstNames
<1>8. ASSUME F \subseteq {} PROVE Goes(c, NonEmpty(q, 1, "subject"), {}, 0, FirstNames(1), 0)
  <2>1. Goes(c, NonEmpty(q, 1, "subject"), {}, 0, {} \cup {"subject"}, 0)
    BY <1>1, <1>3, <1>5, <1>6, <1>8
  <2> QED BY <1>7, <2>1
<1>9. ASSUME F \subseteq FirstNames(1)
      PROVE  Goes(c, NonEmpty(q, 2, "reply_to"), FirstNames(1), 0, FirstNames(2), 0)
  <2>1. Goes(c, NonEmpty(q, 2, "reply_to"), FirstNames(1), 0, FirstNames(1) \cup {"reply_to"}, 0)
    BY <1>1, <1>3, <1>5, <1>6, <1>9
  <2> QED BY <1>7, <2>1
<1>10. ASSUME F \subseteq FirstNames(2)
       PROVE  Goes(c, NonEmpty(q, 3, "payload"), FirstNames(2), 0, FirstNames(3), 0)
  <2>1. Goes(c, NonEmpty(q, 3, "payload"), FirstNames(2), 0, FirstNames(2) \cup {"payload"}, 0)
    BY <1>1, <1>3, <1>5, <1>6, <1>10
  <2> QED BY <1>7, <2>1
<1>11. ASSUME F \subseteq FirstNames(3)
       PROVE  /\ q.unknown \in Seq(Byte)
              /\ \E o : Leads(lows, {}, "NatsMessage", q.unknown,
                              Partial(Empty("NatsMessage"), q, FirstNames(3), 0, 0), o)
  <2> DEFINE G == FirstNames(3)
  <2> HIDE DEF G
  <2>1. c.read \subseteq G
    BY <1>1, <1>11 DEF G
  <2>2. /\ Leads(c.lows, c.highs, c.type, c.new.unknown, Held(c, G, 0, 0),
                 Held(c, G, 0, Len(c.new.unknown)))
        /\ c.new.unknown \in Seq(Byte)
    BY <1>2, <1>4, <2>1, UnknownGoes
  <2> QED BY <1>1, <2>2 DEF Held, G
<1> QED BY <1>8, <1>9, <1>10, <1>11 DEF c

\* Its bytes lead where the call goes.
LEMMA NatsGoes ==
  ASSUME NEW q, NEW F, NEW lows, NEW b, NEW G, NEW H, Goes(NatsCall(q, F, lows), b, G, 0, H, 0)
  PROVE  /\ b \in Seq(Byte)
         /\ Leads(lows, {}, "NatsMessage", b, Partial(Empty("NatsMessage"), q, G, 0, 0),
                  Partial(Empty("NatsMessage"), q, H, 0, 0))
BY DEF Goes, Held, NatsCall

\* Two ways to put four parts together.
FourParts(s, t, v, w) ==
  /\ ((s \o t) \o v) \o w = (s \o t) \o (v \o w)
  /\ ((s \o t) \o v) \o w = s \o ((t \o v) \o w)

\* Both give the same.
LEMMA PartsRegroup ==
  ASSUME NEW s \in Seq(Byte), NEW t \in Seq(Byte), NEW v \in Seq(Byte), NEW w \in Seq(Byte)
  PROVE  FourParts(s, t, v, w)
<1>1. s \o t \in Seq(Byte) /\ t \o v \in Seq(Byte)
  OBVIOUS
<1>2. (s \o t) \o v = s \o (t \o v)
  OBVIOUS
<1>3. \A x \in Seq(Byte) : (x \o v) \o w = x \o (v \o w)
  OBVIOUS
<1>4. \A x \in Seq(Byte) : (s \o x) \o w = s \o (x \o w)
  OBVIOUS
<1> QED BY <1>1, <1>2, <1>3, <1>4, Zenon DEF FourParts

\* The bytes of a NATS message split behind each of its fields.
LEMMA NatsSplit ==
  ASSUME NEW q, Sendable("NatsMessage", q), Good(Byte, "NatsMessage", q), NEW n \in 1..3
  PROVE  \E pre, post : Splits(q, n, pre, post)
<1> DEFINE T == "NatsMessage"
           e == Empty(T)
           b1 == NonEmpty(q, 1, "subject")
           b2 == NonEmpty(q, 2, "reply_to")
           b3 == NonEmpty(q, 3, "payload")
           u == q.unknown
           H(G) == Partial(e, q, G, 0, 0)
           F1 == FirstNames(1)
           F2 == FirstNames(2)
           F3 == FirstNames(3)
           low(k) == {FirstFields(q, k)}
           c == NatsCall(q, {}, {})
           d(k) == NatsCall(q, FirstNames(k), low(k))
<1>1. Ready(c) /\ \A k \in 1..3 : Ready(d(k))
  BY NatsIsReady
<1>2. F1 \subseteq F2 /\ F2 \subseteq F3 /\ F1 \subseteq F3
  BY DEF FirstNames
<1>3. /\ Goes(c, b1, {}, 0, F1, 0) /\ Goes(c, b2, F1, 0, F2, 0) /\ Goes(c, b3, F2, 0, F3, 0)
  BY <1>1, NatsSteps
<1>4. Goes(d(1), b2, F1, 0, F2, 0) /\ Goes(d(1), b3, F2, 0, F3, 0)
  BY <1>1, <1>2, NatsSteps
<1>5. Goes(d(2), b3, F2, 0, F3, 0)
  BY <1>1, <1>2, NatsSteps
<1>6. /\ u \in Seq(Byte)
      /\ \E o : Leads(low(1), {}, T, u, H(F3), o)
      /\ \E o : Leads(low(2), {}, T, u, H(F3), o)
      /\ \E o : Leads(low(3), {}, T, u, H(F3), o)
  BY <1>1, <1>2, NatsSteps
<1>7. H({}) = e
  BY PartialNone, EmptyGood DEF Meet, Types
<1>8. /\ b1 \in Seq(Byte) /\ b2 \in Seq(Byte) /\ b3 \in Seq(Byte)
      /\ Leads({}, {}, T, b1, H({}), H(F1)) /\ Leads({}, {}, T, b2, H(F1), H(F2))
      /\ Leads({}, {}, T, b3, H(F2), H(F3))
      /\ Leads(low(1), {}, T, b2, H(F1), H(F2)) /\ Leads(low(1), {}, T, b3, H(F2), H(F3))
      /\ Leads(low(2), {}, T, b3, H(F2), H(F3))
  BY <1>3, <1>4, <1>5, NatsGoes
<1>9. NatsMessage_MarshalVT(q) = ((b1 \o b2) \o b3) \o u
  BY DEF NatsMessage_MarshalVT
<1>10. ASSUME NEW k \in 1..3
       PROVE  NatsMessage_SizeVT(FirstFields(q, k))
                = Len(b1) + (IF k > 1 THEN Len(b2) ELSE 0) + (IF k > 2 THEN Len(b3) ELSE 0)
  <2>1. \A f \in {"subject", "reply_to", "payload"} : q[f] \in Seq(Byte)
    <3>1. TextGood(Byte, q) /\ Fits("NatsMessage", q)
      BY DEF Good, GoodFlat
    <3>2. {"subject", "reply_to", "payload"} \subseteq DOMAIN q
      BY <3>1 DEF Fits, Empty
    <3> QED BY <3>1, <3>2, TheOthers DEF TextGood
  <2>2. 1 \in 1..15 /\ 2 \in 1..15 /\ 3 \in 1..15
    OBVIOUS
  <2>3. /\ Sized(b1, NonEmptySize(q, "subject")) /\ Sized(b2, NonEmptySize(q, "reply_to"))
        /\ Sized(b3, NonEmptySize(q, "payload"))
    BY <2>1, <2>2, NonEmptyIsSized
  <2> HIDE DEF b1, b2, b3
  <2>4. /\ Len(b1) = NonEmptySize(q, "subject") /\ Len(b2) = NonEmptySize(q, "reply_to")
        /\ Len(b3) = NonEmptySize(q, "payload")
    BY <2>3 DEF Sized
  <2> QED BY <2>4, FirstFieldsSize
<1> HIDE DEF b1, b2, b3, u, H, F1, F2, F3, low, e, T
<1>11. /\ b1 \o b2 \in Seq(Byte) /\ (b1 \o b2) \o b3 \in Seq(Byte)
       /\ b2 \o b3 \in Seq(Byte) /\ (b2 \o b3) \o u \in Seq(Byte) /\ b3 \o u \in Seq(Byte)
       /\ Len(b1 \o b2) = Len(b1) + Len(b2)
       /\ Len((b1 \o b2) \o b3) = (Len(b1) + Len(b2)) + Len(b3)
       /\ Len(b1) \in Nat /\ Len(b2) \in Nat /\ Len(b3) \in Nat
  BY <1>6, <1>8
<1>12. Leads({}, {}, T, b1 \o b2, H({}), H(F2))
  BY <1>8, LeadsThen
<1>13. Leads({}, {}, T, (b1 \o b2) \o b3, H({}), H(F3))
  BY <1>8, <1>11, <1>12, LeadsThen
<1>14. CASE n = 1
  <2>1. PICK o : Leads(low(1), {}, T, u, H(F3), o)
    BY <1>6
  <2>2. Leads(low(1), {}, T, b2 \o b3, H(F1), H(F3))
    BY <1>8, LeadsThen
  <2>3. Leads(low(1), {}, T, (b2 \o b3) \o u, H(F1), o)
    BY <1>6, <1>11, <2>1, <2>2, LeadsThen
  <2>4. NatsMessage_MarshalVT(q) = b1 \o ((b2 \o b3) \o u)
    <3>1. ((b1 \o b2) \o b3) \o u = b1 \o ((b2 \o b3) \o u)
      <4>1. b1 \in Seq(Byte) /\ b2 \in Seq(Byte) /\ b3 \in Seq(Byte) /\ u \in Seq(Byte)
        BY <1>6, <1>8
      <4>2. FourParts(b1, b2, b3, u)
        BY <4>1, PartsRegroup
      <4> QED BY <4>2 DEF FourParts
    <3> QED BY <1>9, <3>1
  <2>5. Len(b1) = NatsMessage_SizeVT(FirstFields(q, 1))
    BY <1>10, <1>11
  <2>6. Splits(q, 1, b1, (b2 \o b3) \o u)
    BY <1>7, <1>8, <1>11, <2>3, <2>4, <2>5 DEF Splits, T, e, low
  <2> QED BY <1>14, <2>6
<1>15. CASE n = 2
  <2>1. PICK o : Leads(low(2), {}, T, u, H(F3), o)
    BY <1>6
  <2>3. Leads(low(2), {}, T, b3 \o u, H(F2), o)
    BY <1>6, <1>8, <2>1, LeadsThen
  <2>4. NatsMessage_MarshalVT(q) = (b1 \o b2) \o (b3 \o u)
    <3>1. ((b1 \o b2) \o b3) \o u = (b1 \o b2) \o (b3 \o u)
      <4>1. b1 \in Seq(Byte) /\ b2 \in Seq(Byte) /\ b3 \in Seq(Byte) /\ u \in Seq(Byte)
        BY <1>6, <1>8
      <4>2. FourParts(b1, b2, b3, u)
        BY <4>1, PartsRegroup
      <4> QED BY <4>2 DEF FourParts
    <3> QED BY <1>9, <3>1
  <2>5. Len(b1 \o b2) = NatsMessage_SizeVT(FirstFields(q, 2))
    BY <1>10, <1>11
  <2>6. Splits(q, 2, b1 \o b2, b3 \o u)
    BY <1>7, <1>11, <1>12, <2>3, <2>4, <2>5 DEF Splits, T, e, low
  <2> QED BY <1>15, <2>6
<1>16. CASE n = 3
  <2>1. PICK o : Leads(low(3), {}, T, u, H(F3), o)
    BY <1>6
  <2>5. Len((b1 \o b2) \o b3) = NatsMessage_SizeVT(FirstFields(q, 3))
    BY <1>10, <1>11
  <2>6. Splits(q, 3, (b1 \o b2) \o b3, u)
    BY <1>6, <1>7, <1>9, <1>11, <1>13, <2>1, <2>5 DEF Splits, T, e, low
  <2> QED BY <1>16, <2>6
<1>17. n = 1 \/ n = 2 \/ n = 3
  OBVIOUS
<1> QED BY <1>14, <1>15, <1>16, <1>17

------------------------------------------------------------------------------
(* What has arrived of one message *)

\* One message alone.
LEMMA OneSent ==
  ASSUME SentInv, sent \in Sent, Len(sent.messages) = 1, NEW strict \in BOOLEAN
  PROVE  /\ SentBy(strict) = Written(sent.type, strict, sent.messages[1])
         /\ 1 \in DOMAIN sent.messages
<1> DEFINE w == Written(sent.type, strict, sent.messages[1])
           e == [k \in 1..1 |-> Written(sent.type, strict, sent.messages[k])]
<1>1. sent.type \in Types /\ sent.messages \in Seq(Range(sent.messages))
  BY InputAssumption
<1>2. DOMAIN sent.messages = 1..1 /\ 1 \in 1..1
  BY <1>1
<1>3. w \in Seq(Byte)
  <2>1. IsMessage(sent.type, sent.messages[1])
    BY <1>2, InputAssumption
  <2>2. Sized(w, SizeVT(sent.type, sent.messages[1]))
    BY <1>1, <2>1, WrittenIsSized
  <2> QED BY <2>2 DEF Sized
<1>4. SentBy(strict) = FlattenSeq(e)
  BY <1>2 DEF SentBy
<1>5. e \in [1..1 -> Seq(Byte)] /\ e[1] = w
  BY <1>3
<1> HIDE DEF e, w
<1>6. PICK r \in [Nat -> Seq(Byte)] : Joins(r, e, 1) /\ FlattenSeq(e) = r[1]
  BY <1>5, FlattenDef, Zenon
<1>7. r[0] = <<>> /\ r[1] = r[1 - 1] \o e[1] /\ 1 - 1 = 0
  BY <1>2, <1>6 DEF Joins
<1>8. r[1] = <<>> \o w
  BY <1>5, <1>7, Zenon
<1>9. r[1] = w
  BY <1>3, <1>8
<1> QED BY <1>2, <1>4, <1>6, <1>9 DEF w

\* Where a decoder that has returned is in the bytes that were sent.
LEMMA Returned ==
  ASSUME NEW b, NEW M, Arrived(b), Marks(sent.type, b, M), Tracks(b, M),
         pc \in {"done", "error"}
  PROVE  \E p \in DOMAIN M : /\ Read(top.msg) = M[p] /\ p \in Nat
                             /\ \A r \in DOMAIN M : r <= p \/ r > Len(buf)
<1>1. Read(top.msg) = ReadIn(buf, top.msg)
  BY ReadIs
<1>2. Spans(b, DOMAIN M) /\ Len(b) \in Nat
  BY DEF Marks, Arrived
<1>3. DOMAIN M \subseteq Nat
  BY <1>2 DEF Spans
<1>4. CASE StoppedAt(M)
  BY <1>1, <1>3, <1>4 DEF StoppedAt
<1>5. CASE ~StoppedAt(M)
  <2>1. ReadThrough(M)
    BY <1>5 DEF Tracks, Reading, Within
  <2>2. pc = "done"
    BY <2>1 DEF ReadThrough
  <2>3. Len(buf) \in DOMAIN M /\ ReadIn(buf, top.msg) = M[Len(buf)]
    BY <2>1, <2>2 DEF ReadThrough
  <2>4. \A r \in DOMAIN M : r <= Len(buf) \/ r > Len(buf)
    BY <1>3, <2>3
  <2> QED BY <1>1, <1>3, <2>3, <2>4
<1> QED BY <1>4, <1>5

\* What has been read of a message that is cut is part of it, in whole fields.
LEMMA WholeFieldsArrive ==
  ASSUME AllSendable, ReadInv
  PROVE  OnlyWholeFields
<1> DEFINE w == sent.messages[1]
           type == sent.type
<1> SUFFICES ASSUME Judged, Len(sent.messages) = 1, pc \in {"done", "error"}
             PROVE  /\ PartOf(Read(top.msg), w)
                    /\ type = "NatsMessage" =>
                         \A n \in 1..3 :
                           NatsMessage_SizeVT(FirstFields(w, n)) <= Len(buf)
                             => PartFlat(FirstFields(w, n), Read(top.msg))
  BY DEF OnlyWholeFields
<1>1. sent.messages # <<>> /\ sent \in Sent /\ SentInv /\ BoundsInv
  BY DEF Judged, ReadInv, TypeInv
<1>2. PICK strict \in BOOLEAN : \E b :
      /\ b = SentBy(strict) /\ Arrived(b)
      /\ \A M : Marks(type, b, M) /\ M[0] = Empty(type) => Tracks(b, M)
  BY <1>1 DEF ReadInv, DecodeInv
<1>3. PICK b :
      /\ b = SentBy(strict) /\ Arrived(b)
      /\ \A M : Marks(type, b, M) /\ M[0] = Empty(type) => Tracks(b, M)
  BY <1>2
<1>4. b = Written(type, strict, w) /\ 1 \in DOMAIN sent.messages
  BY <1>1, <1>3, OneSent
<1>5. /\ type \in Types /\ Listed(type, w)
      /\ Sendable(type, Solid(w)) /\ Good(Byte, type, Solid(w))
  BY <1>1, <1>4, SentMessage
<1>6. \A M : Marks(type, b, M) /\ M[0] = Empty(type) =>
        \E p \in DOMAIN M : /\ Read(top.msg) = M[p] /\ p \in Nat
                            /\ \A r \in DOMAIN M : r <= p \/ r > Len(buf)
  BY <1>3, Returned
<1>7. PartOf(Read(top.msg), w)
  <2>1. PICK n : Leads({}, {w}, type, b, Empty(type), n)
    BY <1>4, <1>5, MergedFromEmpty
  <2>2. PICK M : Reaches({}, {w}, type, b, Empty(type), n, M)
    BY <2>1 DEF Leads
  <2>3. PICK p \in DOMAIN M : Read(top.msg) = M[p]
    BY <1>6, <2>2 DEF Reaches
  <2>4. Between({}, {w}, M[p])
    BY <2>2 DEF Reaches
  <2> QED BY <2>3, <2>4 DEF Between
<1>8. ASSUME type = "NatsMessage", NEW n \in 1..3,
             NatsMessage_SizeVT(FirstFields(w, n)) <= Len(buf)
      PROVE  PartFlat(FirstFields(w, n), Read(top.msg))
  <2>1. Solid(w) = w
    BY <1>5, <1>8, SolidIsSame
  <2>2. Sendable("NatsMessage", w) /\ Good(Byte, "NatsMessage", w)
    BY <1>5, <1>8, <2>1
  <2>3. PICK pre, post : Splits(w, n, pre, post)
    BY <2>2, NatsSplit
  <2>4. b = pre \o post
    BY <1>4, <1>8, <2>3 DEF Splits, Written
  <2>5. PICK m, o : /\ Leads({}, {}, "NatsMessage", pre, Empty("NatsMessage"), m)
                    /\ Leads({FirstFields(w, n)}, {}, "NatsMessage", post, m, o)
    BY <2>3 DEF Splits
  <2>6. PICK M : /\ Marks(type, b, M) /\ M[0] = Empty(type) /\ Len(pre) \in DOMAIN M
                 /\ \A p \in DOMAIN M : p >= Len(pre) => Between({FirstFields(w, n)}, {}, M[p])
    BY <1>8, <2>3, <2>4, <2>5, LeadsFrom DEF Splits
  <2>7. PICK p \in DOMAIN M : /\ Read(top.msg) = M[p] /\ p \in Nat
                              /\ \A r \in DOMAIN M : r <= p \/ r > Len(buf)
    BY <1>6, <2>6
  <2>8. Len(pre) \in Nat /\ Len(pre) <= Len(buf) /\ Len(buf) \in Nat
    BY <1>1, <1>8, <2>3 DEF Splits, BoundsInv
  <2>9. p >= Len(pre)
    BY <2>6, <2>7, <2>8
  <2> QED BY <2>6, <2>7, <2>9 DEF Between
<1> QED BY <1>7, <1>8

\* Of one message that is cut only whole fields are there, and of a NATS
\* message every field that arrived, with an error and without
\* (WasmPluginApi_vtproto.pb.go:2840-3317, parser.go:141-143).
THEOREM OnlyWholeFieldsAreRead ==
  ASSUME AllSendable
  PROVE  Spec => []OnlyWholeFields
<1>1. ReadInv /\ [Next]_vars => ReadInv'
  BY ReadNext
<1>2. ReadInv => OnlyWholeFields
  BY WholeFieldsArrive
<1> QED BY ReadInit, <1>1, <1>2, PTL DEF Spec

------------------------------------------------------------------------------
(* Different messages have different encodings *)

\* A sequence has one first member and one rest.
LEMMA OneHead ==
  ASSUME NEW a \in Byte, NEW b \in Byte, NEW r \in Seq(Byte), NEW s \in Seq(Byte),
         <<a>> \o r = <<b>> \o s
  PROVE  a = b /\ r = s
<1>1. (<<a>> \o r)[1] = a /\ (<<b>> \o s)[1] = b
  OBVIOUS
<1>2. Len(r) = Len(s)
  <2>1. Len(<<a>> \o r) = 1 + Len(r) /\ Len(<<b>> \o s) = 1 + Len(s)
    OBVIOUS
  <2> QED BY <2>1
<1>3. ASSUME NEW k \in 1..Len(r) PROVE r[k] = s[k]
  <2>1. k + 1 \in 1..(1 + Len(r)) /\ k + 1 > 1
    OBVIOUS
  <2>2. (<<a>> \o r)[k + 1] = r[k] /\ (<<b>> \o s)[k + 1] = s[k]
    BY <1>2
  <2> QED BY <2>2
<1>4. r = s
  BY <1>2, <1>3
<1> QED BY <1>1, <1>4

\* The first byte of a varint, and what is behind it.
HeadAndTail(x, t, h, e) ==
  /\ h \in Byte /\ e \in Seq(Byte) /\ VarintBytes[x] \o t = <<h>> \o e
  /\ x < 128 => h = x /\ e = t
  /\ x >= 128 => h = (x % 128) + 128 /\ e = VarintBytes[x \div 128] \o t

\* Every varint has such a first byte.
LEMMA HeadOfVarint ==
  ASSUME NEW x \in Nat, NEW t \in Seq(Byte)
  PROVE  \E h, e : HeadAndTail(x, t, h, e)
<1>1. CASE x < 128
  <2>1. VarintBytes[x] = <<x>>
    BY <1>1, VarintBytesStep, Zenon
  <2>2. x \in Byte /\ ~(x >= 128)
    BY <1>1 DEF Byte
  <2> QED BY <1>1, <2>1, <2>2 DEF HeadAndTail
<1>2. CASE x >= 128
  <2> DEFINE h == (x % 128) + 128
             v == VarintBytes[x \div 128]
  <2>1. h \in Byte /\ x \div 128 \in Nat /\ ~(x < 128)
    BY <1>2 DEF Byte
  <2>2. v \in Seq(Byte)
    BY <2>1, VarintBytesStep
  <2>3. VarintBytes[x] = <<h>> \o v
    BY <1>2, VarintBytesStep
  <2> HIDE DEF h, v
  <2>4. <<h>> \in Seq(Byte)
    BY <2>1
  <2>5. (<<h>> \o v) \o t = <<h>> \o (v \o t) /\ v \o t \in Seq(Byte)
    BY <2>2, <2>4
  <2>6. HeadAndTail(x, t, h, v \o t)
    BY <1>2, <2>1, <2>3, <2>5 DEF HeadAndTail, h, v
  <2> QED BY <2>6
<1> QED BY <1>1, <1>2

\* No varint is the beginning of another one.
Alone(x) ==
  \A y \in Nat, t \in Seq(Byte), u \in Seq(Byte) :
    VarintBytes[x] \o t = VarintBytes[y] \o u => x = y /\ t = u

\* So what stands behind two equal varints is the same.
LEMMA VarintsPart ==
  ASSUME NEW n \in Nat
  PROVE  Alone(n)
<1> DEFINE T == {j \in Nat : \A x \in Nat : x < j => Alone(x)}
<1>1. 0 \in T
  <2>1. \A x \in Nat : ~(x < 0)
    OBVIOUS
  <2> QED BY <2>1
<1>2. ASSUME NEW j \in Nat, j \in T PROVE j + 1 \in T
  <2>1. ASSUME NEW x \in Nat, x < j + 1, NEW y \in Nat, NEW t \in Seq(Byte), NEW u \in Seq(Byte),
               VarintBytes[x] \o t = VarintBytes[y] \o u
        PROVE  x = y /\ t = u
    <3>1. PICK h, e : HeadAndTail(x, t, h, e)
      BY HeadOfVarint
    <3>2. PICK g, d : HeadAndTail(y, u, g, d)
      BY HeadOfVarint
    <3>3. /\ h \in Byte /\ g \in Byte /\ e \in Seq(Byte) /\ d \in Seq(Byte)
          /\ <<h>> \o e = <<g>> \o d
      BY <2>1, <3>1, <3>2 DEF HeadAndTail
    <3>4. h = g /\ e = d
      BY <3>3, OneHead
    <3>5. /\ x < 128 => h = x /\ e = t
          /\ x >= 128 => h = (x % 128) + 128 /\ e = VarintBytes[x \div 128] \o t
          /\ y < 128 => g = y /\ d = u
          /\ y >= 128 => g = (y % 128) + 128 /\ d = VarintBytes[y \div 128] \o u
      BY <3>1, <3>2 DEF HeadAndTail
    <3>6. CASE x < 128
      <4>1. y < 128
        BY <3>4, <3>5, <3>6
      <4> QED BY <3>4, <3>5, <3>6, <4>1
    <3>7. CASE ~(x < 128)
      <4>1. x >= 128 /\ y >= 128
        BY <3>4, <3>5, <3>7
      <4>2. /\ x \div 128 \in Nat /\ y \div 128 \in Nat /\ x \div 128 < j
            /\ x % 128 = y % 128
        BY <2>1, <3>4, <3>5, <4>1
      <4>3. VarintBytes[x \div 128] \o t = VarintBytes[y \div 128] \o u
        BY <3>4, <3>5, <4>1
      <4>4. Alone(x \div 128)
        BY <1>2, <4>2
      <4>5. x \div 128 = y \div 128 /\ t = u
        BY <4>2, <4>3, <4>4 DEF Alone
      <4> QED BY <4>2, <4>5
    <3> QED BY <3>6, <3>7
  <2>2. ASSUME NEW x \in Nat, x < j + 1 PROVE Alone(x)
    BY <2>1, <2>2 DEF Alone
  <2>3. j + 1 \in Nat
    OBVIOUS
  <2> QED BY <2>2, <2>3
<1>3. \A j \in Nat : j \in T
  <2> HIDE DEF T
  <2> QED BY <1>1, <1>2, NaturalInduction
<1>4. n + 1 \in T /\ n < n + 1
  <2> HIDE DEF T
  <2> QED BY <1>3
<1> QED BY <1>4

\* What the writers write in front of something is told from it.
SameBehind(v, w, r, s) == v % Word64 = w % Word64 /\ r = s

\* EncodeVarint writes the word of a number.
LEMMA VarintCancels ==
  ASSUME NEW v \in Int, NEW w \in Int, NEW r \in Seq(Byte), NEW s \in Seq(Byte),
         EncodeVarint(v) \o r = EncodeVarint(w) \o s
  PROVE  SameBehind(v, w, r, s)
<1> DEFINE n == v % Word64
           k == w % Word64
<1>1. n \in Nat /\ k \in Nat
  BY WordsAssumption
<1>2. VarintBytes[n] \o r = VarintBytes[k] \o s
  BY DEF EncodeVarint
<1> HIDE DEF n, k
<1>3. Alone(n)
  BY <1>1, VarintsPart
<1>4. n = k /\ r = s
  BY <1>1, <1>2, <1>3 DEF Alone
<1> QED BY <1>4 DEF n, k, SameBehind

\* The same field and wire type, and the same behind the tag.
SameTag(f, g, v, w, r, s) == f = g /\ v = w /\ r = s

\* No tag is the beginning of another one.
LEMMA TagCancels ==
  ASSUME NEW f \in 1..35, NEW g \in 1..35, NEW v \in 0..7, NEW w \in 0..7,
         NEW r \in Seq(Byte), NEW s \in Seq(Byte), Tag(f, v) \o r = Tag(g, w) \o s
  PROVE  SameTag(f, g, v, w, r, s)
<1> DEFINE n == 8 * f + v
           k == 8 * g + w
<1>1. /\ n \in 0..(Word64 - 1) /\ n \div 8 = f /\ n % 8 = v
      /\ k \in 0..(Word64 - 1) /\ k \div 8 = g /\ k % 8 = w
  BY TagNumbers
<1>2. EncodeVarint(n) \o r = EncodeVarint(k) \o s
  BY DEF Tag
<1> HIDE DEF n, k
<1>3. n \in Int /\ k \in Int
  BY <1>1
<1>4. n % Word64 = n /\ k % Word64 = k
  <2>1. Word64 \in Nat \ {0}
    BY WordsAssumption
  <2> QED BY <1>1, <2>1, SmallMod
<1>5. SameBehind(n, k, r, s)
  BY <1>2, <1>3, VarintCancels, Zenon
<1> QED BY <1>1, <1>4, <1>5 DEF SameBehind, SameTag

\* s begins with the tag of one of the fields T.
Announced(T, s) == \E f \in T, w \in 0..7, r \in Seq(Byte) : s = Tag(f, w) \o r

\* What is written of the fields T: nothing, or it begins with one of their tags.
Piece(T, a) == T \subseteq 1..35 /\ a \in Seq(Byte) /\ (a = <<>> \/ Announced(T, a))

\* The messages x and y have the same in the fields F.
Agree(x, y, F) ==
  \A f \in F : /\ f \in DOMAIN x <=> f \in DOMAIN y
               /\ f \in DOMAIN x => x[f] = y[f]

\* a and b are what is written of the fields F of x and of y, their numbers
\* being T: where neither is followed by one of them, a is told from b.
Tells(T, a, b, x, y, F) ==
  /\ Piece(T, a) /\ Piece(T, b)
  /\ \A r \in Seq(Byte), s \in Seq(Byte) :
       ~Announced(T, r) /\ ~Announced(T, s) /\ a \o r = b \o s /\ Len(a \o r) < Word64
         => r = s /\ Agree(x, y, F)

\* A concatenation can be taken apart at either end.
Regroups(p, q, r) ==
  /\ (p \o q) \o r = p \o (q \o r)
  /\ p \o q \in Seq(Byte) /\ q \o r \in Seq(Byte) /\ (p \o q) \o r \in Seq(Byte)

\* Concatenation is associative.
LEMMA Regrouped ==
  ASSUME NEW p \in Seq(Byte), NEW q \in Seq(Byte), NEW r \in Seq(Byte)
  PROVE  Regroups(p, q, r)
BY DEF Regroups

\* A tag is bytes.
LEMMA TagIsBytes ==
  ASSUME NEW f \in 1..35, NEW w \in 0..7
  PROVE  Tag(f, w) \in Seq(Byte)
<1>1. 8 * f + w \in Int
  OBVIOUS
<1>2. EncodeVarint(8 * f + w) \in Seq(Byte)
  BY <1>1, SizeOfVarintIsExact DEF Sized
<1> QED BY <1>2 DEF Tag

\* What begins with one tag does not begin with another one.
LEMMA OneTag ==
  ASSUME NEW T, NEW S, T \subseteq 1..35, S \subseteq 1..35, T \cap S = {}, NEW a,
         Announced(T, a)
  PROVE  ~Announced(S, a)
<1>1. PICK f \in T, w \in 0..7, r \in Seq(Byte) : a = Tag(f, w) \o r
  BY DEF Announced
<1> SUFFICES ASSUME NEW g \in S, NEW v \in 0..7, NEW s \in Seq(Byte), a = Tag(g, v) \o s
             PROVE  FALSE
  BY DEF Announced
<1>2. f \in 1..35
  OBVIOUS
<1>5. g \in 1..35
  OBVIOUS
<1>3. Tag(f, w) \o r = Tag(g, v) \o s
  BY <1>1
<1>4. SameTag(f, g, w, v, r, s)
  BY <1>2, <1>3, <1>5, TagCancels, Zenon
<1>6. f = g
  BY <1>4 DEF SameTag
<1> QED BY <1>6

\* With a tag in front it begins with that tag, whatever is behind it.
LEMMA AnnouncedThen ==
  ASSUME NEW T, T \subseteq 1..35, NEW a, Announced(T, a), NEW r \in Seq(Byte)
  PROVE  Announced(T, a \o r)
<1>1. PICK f \in T, w \in 0..7, s \in Seq(Byte) : a = Tag(f, w) \o s
  BY DEF Announced
<1>2. Tag(f, w) \in Seq(Byte)
  BY TagIsBytes
<1>3. Regroups(Tag(f, w), s, r)
  BY <1>2, Regrouped, Zenon
<1>4. a \o r = Tag(f, w) \o (s \o r) /\ s \o r \in Seq(Byte)
  BY <1>1, <1>3 DEF Regroups
<1> QED BY <1>4 DEF Announced

\* It begins with a tag of more fields, too.
LEMMA AnnouncedMore ==
  ASSUME NEW T, NEW S, T \subseteq S, NEW a, Announced(T, a)
  PROVE  Announced(S, a)
BY DEF Announced

\* Pieces of other fields do not begin with these ones' tags.
LEMMA NotAnnounced ==
  ASSUME NEW T, NEW S, T \subseteq 1..35, T \cap S = {}, NEW c, Piece(S, c),
         NEW r \in Seq(Byte), ~Announced(T, r)
  PROVE  ~Announced(T, c \o r)
<1>1. CASE c = <<>>
  BY <1>1
<1>2. CASE Announced(S, c)
  <2>1. Announced(S, c \o r)
    BY <1>2, AnnouncedThen DEF Piece
  <2>2. S \subseteq 1..35
    BY DEF Piece
  <2> QED BY <2>1, <2>2, OneTag
<1> QED BY <1>1, <1>2 DEF Piece

\* Pieces of different fields one behind the other.
LEMMA PieceThen ==
  ASSUME NEW T, NEW S, NEW a, NEW c, Piece(T, a), Piece(S, c)
  PROVE  Piece(T \cup S, a \o c)
<1>1. T \subseteq 1..35 /\ S \subseteq 1..35 /\ a \in Seq(Byte) /\ c \in Seq(Byte)
  BY DEF Piece
<1>2. a \o c \in Seq(Byte) /\ T \cup S \subseteq 1..35
  BY <1>1
<1>3. CASE a = <<>>
  <2>1. a \o c = c
    BY <1>1, <1>3
  <2>2. c = <<>> \/ Announced(T \cup S, c)
    BY AnnouncedMore DEF Piece
  <2> QED BY <1>2, <2>1, <2>2 DEF Piece
<1>4. CASE Announced(T, a)
  <2>1. Announced(T, a \o c)
    BY <1>1, <1>4, AnnouncedThen
  <2>2. Announced(T \cup S, a \o c)
    BY <2>1, AnnouncedMore
  <2> QED BY <1>2, <2>2 DEF Piece
<1> QED BY <1>3, <1>4 DEF Piece

\* Then one is told after the other.
LEMMA TellsThen ==
  ASSUME NEW T, NEW S, NEW a, NEW b, NEW c, NEW d, NEW x, NEW y, NEW F, NEW G,
         Tells(T, a, b, x, y, F), Tells(S, c, d, x, y, G), T \cap S = {}
  PROVE  Tells(T \cup S, a \o c, b \o d, x, y, F \cup G)
<1>1. Piece(T, a) /\ Piece(T, b) /\ Piece(S, c) /\ Piece(S, d)
  BY DEF Tells
<1>2. Piece(T \cup S, a \o c) /\ Piece(T \cup S, b \o d)
  BY <1>1, PieceThen
<1>3. ASSUME NEW r \in Seq(Byte), NEW s \in Seq(Byte),
             ~Announced(T \cup S, r), ~Announced(T \cup S, s),
             (a \o c) \o r = (b \o d) \o s, Len((a \o c) \o r) < Word64
      PROVE  r = s /\ Agree(x, y, F \cup G)
  <2>1. /\ T \subseteq 1..35 /\ a \in Seq(Byte) /\ b \in Seq(Byte) /\ c \in Seq(Byte)
        /\ d \in Seq(Byte)
    BY <1>1 DEF Piece
  <2>2. ~Announced(T, r) /\ ~Announced(T, s) /\ ~Announced(S, r) /\ ~Announced(S, s)
    BY <1>3, AnnouncedMore
  <2>3. ~Announced(T, c \o r) /\ ~Announced(T, d \o s)
    BY <1>1, <2>1, <2>2, NotAnnounced
  <2> DEFINE t == c \o r
             u == d \o s
  <2>4. t \in Seq(Byte) /\ u \in Seq(Byte) /\ a \o t = b \o u /\ Len(a \o t) < Word64
    <3>1. Regroups(a, c, r) /\ Regroups(b, d, s)
      BY <2>1, Regrouped
    <3> QED BY <1>3, <3>1 DEF Regroups
  <2>5. Len(t) < Word64
    <3>1. Len(a \o t) = Len(a) + Len(t) /\ Len(a) \in Nat /\ Len(t) \in Nat
      BY <2>1, <2>4
    <3> HIDE DEF t
    <3> QED BY <2>4, <3>1, WordsAssumption
  <2> HIDE DEF t, u
  <2>6. t = u /\ Agree(x, y, F)
    BY <2>3, <2>4 DEF Tells, t, u
  <2>7. r = s /\ Agree(x, y, G)
    BY <2>2, <2>5, <2>6 DEF Tells, t, u
  <2> QED BY <2>6, <2>7 DEF Agree
<1> QED BY <1>2, <1>3 DEF Tells

\* Sequences of one length with the same members are the same.
LEMMA SameMembers ==
  ASSUME NEW p \in Seq(Byte), NEW q \in Seq(Byte), Len(p) = Len(q),
         \A i \in 1..Len(p) : p[i] = q[i]
  PROVE  p = q
OBVIOUS

\* The length of a concatenation.
LEMMA LengthOfBoth ==
  ASSUME NEW p \in Seq(Byte), NEW q \in Seq(Byte)
  PROVE  Len(p \o q) = Len(p) + Len(q) /\ Len(p) \in Nat /\ Len(q) \in Nat
OBVIOUS

\* Of two equal concatenations, parts of one length are equal.
LEMMA EqualFronts ==
  ASSUME NEW p \in Seq(Byte), NEW q \in Seq(Byte), NEW r \in Seq(Byte), NEW s \in Seq(Byte),
         Len(p) = Len(q), p \o r = q \o s
  PROVE  p = q /\ r = s
<1> DEFINE n == Len(p)
           j == Len(r)
<1>1. n \in Nat /\ j \in Nat /\ n = Len(q)
  OBVIOUS
<1>2. Len(s) = j
  <2>1. Len(p \o r) = Len(p) + Len(r) /\ Len(q \o s) = Len(q) + Len(s) /\ Len(s) \in Nat
    BY LengthOfBoth, Zenon
  <2> QED BY <1>1, <2>1
<1>3. ASSUME NEW i \in 1..n PROVE p[i] = q[i]
  <2>1. (p \o r)[i] = p[i] /\ (q \o s)[i] = q[i]
    BY <1>1
  <2> QED BY <2>1
<1>4. ASSUME NEW i \in 1..j PROVE r[i] = s[i]
  <2>1. n + i \in 1..(n + j) /\ ~(n + i <= n) /\ (n + i) - n = i
    BY <1>1
  <2>2. (p \o r)[n + i] = r[i] /\ (q \o s)[n + i] = s[i]
    BY <1>1, <1>2, <2>1
  <2> QED BY <2>2
<1>5. p = q
  BY <1>3, SameMembers
<1>6. r = s
  BY <1>2, <1>4, SameMembers
<1> QED BY <1>5, <1>6

\* p and q, behind the same tag, are written of the fields F of x and of y.
Reveals(p, q, x, y, F) ==
  /\ p \in Seq(Byte) /\ q \in Seq(Byte)
  /\ \A r \in Seq(Byte), s \in Seq(Byte) :
       p \o r = q \o s /\ Len(p \o r) < Word64 => r = s /\ Agree(x, y, F)

\* A tag and what it announces is a piece.
LEMMA PieceOfTag ==
  ASSUME NEW f \in 1..35, NEW w \in 0..7, NEW p \in Seq(Byte)
  PROVE  Piece({f}, Tag(f, w) \o p) /\ Announced({f}, Tag(f, w) \o p)
<1>1. Tag(f, w) \in Seq(Byte)
  BY TagIsBytes
<1>2. Tag(f, w) \o p \in Seq(Byte)
  BY <1>1
<1>3. Announced({f}, Tag(f, w) \o p)
  BY DEF Announced
<1> QED BY <1>2, <1>3 DEF Piece

\* A field that both have, one that neither has, and one that one of them has.
LEMMA BothTell ==
  ASSUME NEW f \in 1..35, NEW w \in 0..7, NEW p, NEW q, NEW x, NEW y, NEW F,
         Reveals(p, q, x, y, F)
  PROVE  Tells({f}, Tag(f, w) \o p, Tag(f, w) \o q, x, y, F)
<1> DEFINE t == Tag(f, w)
<1>1. p \in Seq(Byte) /\ q \in Seq(Byte)
  BY DEF Reveals
<1>2. Piece({f}, t \o p) /\ Piece({f}, t \o q)
  BY <1>1, PieceOfTag
<1>3. t \in Seq(Byte)
  BY TagIsBytes
<1> HIDE DEF t
<1>4. ASSUME NEW r \in Seq(Byte), NEW s \in Seq(Byte), (t \o p) \o r = (t \o q) \o s,
             Len((t \o p) \o r) < Word64
      PROVE  r = s /\ Agree(x, y, F)
  <2>1. Regroups(t, p, r) /\ Regroups(t, q, s)
    BY <1>1, <1>3, Regrouped
  <2> DEFINE a == p \o r
             b == q \o s
  <2>2. a \in Seq(Byte) /\ b \in Seq(Byte) /\ t \o a = t \o b /\ Len(t \o a) < Word64
    BY <1>4, <2>1 DEF Regroups
  <2> HIDE DEF a, b
  <2>3. a = b
    BY <1>3, <2>2, EqualFronts
  <2>4. Len(a) < Word64
    <3>1. Len(t \o a) = Len(t) + Len(a) /\ Len(a) \in Nat /\ Len(t) \in Nat
      BY <1>3, <2>2
    <3> QED BY <2>2, <3>1, WordsAssumption
  <2> QED BY <2>3, <2>4 DEF Reveals, a, b
<1> QED BY <1>2, <1>4 DEF Tells, t

\* Nothing is written of fields that agree.
LEMMA NoneTells ==
  ASSUME NEW T, T \subseteq 1..35, NEW x, NEW y, NEW F, Agree(x, y, F)
  PROVE  Tells(T, <<>>, <<>>, x, y, F)
<1>1. Piece(T, <<>>)
  BY DEF Piece
<1>2. \A r \in Seq(Byte) : <<>> \o r = r
  OBVIOUS
<1> QED BY <1>1, <1>2 DEF Tells

\* A piece of one message is told from nothing of the other.
LEMMA OneTells ==
  ASSUME NEW T, NEW a, NEW x, NEW y, NEW F, Piece(T, a), Announced(T, a)
  PROVE  Tells(T, a, <<>>, x, y, F) /\ Tells(T, <<>>, a, x, y, F)
<1>1. Piece(T, <<>>) /\ T \subseteq 1..35
  BY DEF Piece
<1>2. \A r \in Seq(Byte) : <<>> \o r = r
  OBVIOUS
<1>3. \A r \in Seq(Byte) : Announced(T, a \o r)
  BY <1>1, AnnouncedThen
<1> QED BY <1>1, <1>2, <1>3 DEF Tells

\* Pieces of different fields.
LEMMA OthersTell ==
  ASSUME NEW T, NEW S, NEW a, NEW b, NEW x, NEW y, NEW F, T \cap S = {},
         Piece(T, a), Announced(T, a), Piece(S, b), Announced(S, b)
  PROVE  Tells(T \cup S, a, b, x, y, F)
<1>1. T \subseteq 1..35 /\ S \subseteq 1..35 /\ a \in Seq(Byte) /\ b \in Seq(Byte)
  BY DEF Piece
<1>2. Piece(T \cup S, a) /\ Piece(T \cup S, b)
  BY <1>1, AnnouncedMore DEF Piece
<1>3. ASSUME NEW r \in Seq(Byte), NEW s \in Seq(Byte) PROVE a \o r # b \o s
  <2>1. Announced(T, a \o r) /\ Announced(S, b \o s)
    BY <1>1, AnnouncedThen
  <2> QED BY <1>1, <2>1, OneTag
<1> QED BY <1>2, <1>3 DEF Tells

\* More fields may not follow then.
LEMMA TellsMore ==
  ASSUME NEW T, NEW S, NEW a, NEW b, NEW x, NEW y, NEW F, Tells(T, a, b, x, y, F),
         T \subseteq S, S \subseteq 1..35
  PROVE  Tells(S, a, b, x, y, F)
<1>1. Piece(S, a) /\ Piece(S, b)
  BY AnnouncedMore DEF Tells, Piece
<1>2. \A r : ~Announced(S, r) => ~Announced(T, r)
  BY AnnouncedMore
<1> QED BY <1>1, <1>2 DEF Tells

\* A length and what it stands in front of.
Body(p) == EncodeVarint(Len(p)) \o p

\* Both are bytes.
LEMMA BodyIsBytes ==
  ASSUME NEW p \in Seq(Byte)
  PROVE  EncodeVarint(Len(p)) \in Seq(Byte) /\ Body(p) \in Seq(Byte)
<1>1. Len(p) \in Int
  OBVIOUS
<1>2. EncodeVarint(Len(p)) \in Seq(Byte)
  BY <1>1, SizeOfVarintIsExact DEF Sized
<1> QED BY <1>2 DEF Body

\* Equal, and with the same behind them.
SameBodies(p, q, r, s) == p = q /\ r = s /\ Len(p) < Word64

\* The length says where it ends, as long as it fits in a word.
LEMMA BodyCancels ==
  ASSUME NEW p \in Seq(Byte), NEW q \in Seq(Byte), NEW r \in Seq(Byte), NEW s \in Seq(Byte),
         Body(p) \o r = Body(q) \o s, Len(Body(p) \o r) < Word64
  PROVE  SameBodies(p, q, r, s)
<1> DEFINE v == EncodeVarint(Len(p))
           w == EncodeVarint(Len(q))
           a == p \o r
           b == q \o s
<1>1. v \in Seq(Byte) /\ w \in Seq(Byte) /\ a \in Seq(Byte) /\ b \in Seq(Byte)
  BY BodyIsBytes
<1>2. Body(p) \o r = v \o a /\ Body(q) \o s = w \o b
  <2>1. Regroups(v, p, r) /\ Regroups(w, q, s)
    BY <1>1, Regrouped
  <2> QED BY <2>1 DEF Regroups, Body
<1>3. Len(p) \in Int /\ Len(q) \in Int /\ Len(p) >= 0 /\ Len(q) >= 0
  OBVIOUS
<1>4. SameBehind(Len(p), Len(q), a, b)
  <2> HIDE DEF a, b
  <2> QED BY <1>1, <1>2, <1>3, VarintCancels DEF v, w
<1>5. Len(p) < Word64 /\ Len(q) < Word64
  <2>1. /\ Len(v \o a) = Len(v) + Len(a) /\ Len(v) \in Nat
        /\ Len(w \o b) = Len(w) + Len(b) /\ Len(w) \in Nat
    <3> HIDE DEF a, b, v, w
    <3> QED BY <1>1, LengthOfBoth, Zenon
  <2>2. Len(a) = Len(p) + Len(r) /\ Len(b) = Len(q) + Len(s) /\ Len(r) \in Nat /\ Len(s) \in Nat
    BY LengthOfBoth
  <2>3. Len(v \o a) < Word64 /\ Len(w \o b) < Word64
    BY <1>2
  <2> HIDE DEF a, b, v, w
  <2> QED BY <1>3, <2>1, <2>2, <2>3, WordsAssumption
<1>6. Len(p) = Len(q)
  <2>1. /\ Word64 \in Nat \ {0} /\ Len(p) \in 0..(Word64 - 1) /\ Len(q) \in 0..(Word64 - 1)
    BY <1>3, <1>5, WordsAssumption
  <2>2. Len(p) % Word64 = Len(p) /\ Len(q) % Word64 = Len(q)
    BY <2>1, SmallMod
  <2> QED BY <1>4, <2>2 DEF SameBehind
<1>7. p \o r = q \o s
  BY <1>4 DEF SameBehind
<1>8. p = q /\ r = s
  BY <1>6, <1>7, EqualFronts
<1> QED BY <1>5, <1>8 DEF SameBodies

\* What agrees when the bodies do is revealed by them.
LEMMA BodyReveals ==
  ASSUME NEW p \in Seq(Byte), NEW q \in Seq(Byte), NEW x, NEW y, NEW F,
         p = q /\ Len(p) < Word64 => Agree(x, y, F)
  PROVE  Reveals(Body(p), Body(q), x, y, F)
<1>1. Body(p) \in Seq(Byte) /\ Body(q) \in Seq(Byte)
  BY BodyIsBytes
<1>2. ASSUME NEW r \in Seq(Byte), NEW s \in Seq(Byte), Body(p) \o r = Body(q) \o s,
             Len(Body(p) \o r) < Word64
      PROVE  r = s /\ Agree(x, y, F)
  BY <1>2, BodyCancels DEF SameBodies
<1> QED BY <1>1, <1>2 DEF Reveals

\* The writers of a length in front of something.
LEMMA PrefixedBody ==
  ASSUME NEW num \in 1..35, NEW p \in Seq(Byte)
  PROVE  Prefixed(num, p) = Tag(num, 2) \o Body(p)
BY PrefixedIs DEF Encoded, Tag, Body

\* A field with a length in front tells what its body does.
LEMMA PrefixedTell ==
  ASSUME NEW num \in 1..35, NEW p \in Seq(Byte), NEW q \in Seq(Byte), NEW x, NEW y, NEW F,
         p = q /\ Len(p) < Word64 => Agree(x, y, F)
  PROVE  Tells({num}, Prefixed(num, p), Prefixed(num, q), x, y, F)
<1>1. 2 \in 0..7
  OBVIOUS
<1>2. Reveals(Body(p), Body(q), x, y, F)
  BY BodyReveals
<1> QED BY <1>1, <1>2, PrefixedBody, BothTell

\* It begins with the tag of the field.
LEMMA PieceOfPrefixed ==
  ASSUME NEW num \in 1..35, NEW p \in Seq(Byte)
  PROVE  Piece({num}, Prefixed(num, p)) /\ Announced({num}, Prefixed(num, p))
<1>1. 2 \in 0..7 /\ Body(p) \in Seq(Byte)
  BY BodyIsBytes
<1> QED BY <1>1, PrefixedBody, PieceOfTag

\* Fields that may be absent.
LEMMA TextTells ==
  ASSUME NEW num \in 1..35, NEW x, NEW y, NEW f,
         f \in DOMAIN x => x[f] \in Seq(Byte), f \in DOMAIN y => y[f] \in Seq(Byte)
  PROVE  Tells({num}, Text(x, num, f), Text(y, num, f), x, y, {f})
<1>1. CASE f \in DOMAIN x /\ f \in DOMAIN y
  <2>1. x[f] = y[f] => Agree(x, y, {f})
    BY <1>1 DEF Agree
  <2>2. Tells({num}, Prefixed(num, x[f]), Prefixed(num, y[f]), x, y, {f})
    BY <1>1, <2>1, PrefixedTell
  <2> QED BY <1>1, <2>2 DEF Text
<1>2. CASE f \in DOMAIN x /\ f \notin DOMAIN y
  BY <1>2, PieceOfPrefixed, OneTells DEF Text
<1>3. CASE f \notin DOMAIN x /\ f \in DOMAIN y
  BY <1>3, PieceOfPrefixed, OneTells DEF Text
<1>4. CASE f \notin DOMAIN x /\ f \notin DOMAIN y
  <2>1. Agree(x, y, {f}) /\ {num} \subseteq 1..35
    BY <1>4 DEF Agree
  <2> QED BY <1>4, <2>1, NoneTells DEF Text
<1> QED BY <1>1, <1>2, <1>3, <1>4

\* A text, left out when it is empty, is told.
LEMMA NonEmptyTells ==
  ASSUME NEW num \in 1..35, NEW x, NEW y, NEW f, f \in DOMAIN x, f \in DOMAIN y,
         x[f] \in Seq(Byte), y[f] \in Seq(Byte)
  PROVE  Tells({num}, NonEmpty(x, num, f), NonEmpty(y, num, f), x, y, {f})
<1>1. CASE x[f] # <<>> /\ y[f] # <<>>
  <2>1. x[f] = y[f] => Agree(x, y, {f})
    BY DEF Agree
  <2>2. Tells({num}, Prefixed(num, x[f]), Prefixed(num, y[f]), x, y, {f})
    BY <2>1, PrefixedTell
  <2> QED BY <1>1, <2>2 DEF NonEmpty
<1>2. CASE x[f] # <<>> /\ y[f] = <<>>
  BY <1>2, PieceOfPrefixed, OneTells DEF NonEmpty
<1>3. CASE x[f] = <<>> /\ y[f] # <<>>
  BY <1>3, PieceOfPrefixed, OneTells DEF NonEmpty
<1>4. CASE x[f] = <<>> /\ y[f] = <<>>
  <2>1. Agree(x, y, {f}) /\ {num} \subseteq 1..35
    BY <1>4 DEF Agree
  <2> QED BY <1>4, <2>1, NoneTells DEF NonEmpty
<1> QED BY <1>1, <1>2, <1>3, <1>4

\* What the Go types of the numbers hold.
InRange(f, v) == v \in IF f \in {"status", "code"} THEN -Half..(Half - 1) ELSE 0..(Word32 - 1)

\* Numbers of one Go type are told by their words.
LEMMA WordsOfNumbers ==
  ASSUME NEW f, NEW v, NEW w, InRange(f, v), InRange(f, w)
  PROVE  v \in Int /\ w \in Int /\ (v % Word64 = w % Word64 => v = w)
<1>1. /\ Word32 \in Nat /\ Word64 \in Nat \ {0} /\ Word32 <= Word64 /\ Half \in Nat
      /\ Word32 = 2 * Half
  BY HalfWord
<1>2. v \in Int /\ w \in Int /\ v - w < Word64 /\ w - v < Word64
  BY <1>1 DEF InRange
<1>3. ASSUME v % Word64 = w % Word64 PROVE v = w
  BY <1>1, <1>2, <1>3, CloseNumbers
<1> QED BY <1>2, <1>3

\* A number, left out when there is none, is told.
LEMMA NumberTells ==
  ASSUME NEW num \in 1..35, NEW x, NEW y, NEW f,
         f \in DOMAIN x => InRange(f, x[f]), f \in DOMAIN y => InRange(f, y[f])
  PROVE  Tells({num}, Number(x, num, f), Number(y, num, f), x, y, {f})
<1>1. 0 \in 0..7
  OBVIOUS
<1>2. ASSUME NEW v, InRange(f, v) PROVE v \in Int /\ EncodeVarint(v) \in Seq(Byte)
  <2>1. v \in Int
    BY <1>2, WordsOfNumbers
  <2> QED BY <2>1, SizeOfVarintIsExact DEF Sized
<1>3. CASE f \in DOMAIN x /\ f \in DOMAIN y
  <2> DEFINE p == EncodeVarint(x[f])
             q == EncodeVarint(y[f])
  <2>1. p \in Seq(Byte) /\ q \in Seq(Byte)
    BY <1>2, <1>3
  <2>2. ASSUME NEW r \in Seq(Byte), NEW s \in Seq(Byte), p \o r = q \o s
        PROVE  r = s /\ Agree(x, y, {f})
    <3>1. SameBehind(x[f], y[f], r, s)
      BY <1>2, <1>3, <2>2, VarintCancels
    <3>2. x[f] = y[f]
      BY <1>3, <3>1, WordsOfNumbers DEF SameBehind
    <3> QED BY <1>3, <3>1, <3>2 DEF Agree, SameBehind
  <2>3. Reveals(p, q, x, y, {f})
    <3> HIDE DEF p, q
    <3> QED BY <2>1, <2>2 DEF Reveals
  <2> HIDE DEF p, q
  <2>4. Tells({num}, Tag(num, 0) \o p, Tag(num, 0) \o q, x, y, {f})
    BY <1>1, <2>3, BothTell
  <2> QED BY <1>3, <2>4 DEF Number, p, q
<1>4. CASE f \in DOMAIN x /\ f \notin DOMAIN y
  BY <1>1, <1>2, <1>4, PieceOfTag, OneTells DEF Number
<1>5. CASE f \notin DOMAIN x /\ f \in DOMAIN y
  BY <1>1, <1>2, <1>5, PieceOfTag, OneTells DEF Number
<1>6. CASE f \notin DOMAIN x /\ f \notin DOMAIN y
  <2>1. Agree(x, y, {f}) /\ {num} \subseteq 1..35
    BY <1>6 DEF Agree
  <2> QED BY <1>6, <2>1, NoneTells DEF Number
<1> QED BY <1>3, <1>4, <1>5, <1>6

\* A flag, left out when there is none, is told.
LEMMA BoolTells ==
  ASSUME NEW num \in 1..35, NEW x, NEW y, NEW f,
         f \in DOMAIN x => x[f] \in BOOLEAN, f \in DOMAIN y => y[f] \in BOOLEAN
  PROVE  Tells({num}, Bool(x, num, f), Bool(y, num, f), x, y, {f})
<1> DEFINE Bit(m) == IF m[f] THEN 1 ELSE 0
           p == <<Bit(x)>>
           q == <<Bit(y)>>
<1>1. 0 \in 0..7
  OBVIOUS
<1>2. p \in Seq(Byte) /\ q \in Seq(Byte) /\ Bit(x) \in Byte /\ Bit(y) \in Byte
  BY DEF Byte
<1>3. CASE f \in DOMAIN x /\ f \in DOMAIN y
  <2>1. Bit(x) = Bit(y) => x[f] = y[f]
    <3>1. x[f] \in BOOLEAN /\ y[f] \in BOOLEAN
      BY <1>3
    <3>2. CASE x[f] = TRUE /\ y[f] = TRUE
      BY <3>2
    <3>3. CASE x[f] = FALSE /\ y[f] = FALSE
      BY <3>3
    <3>4. CASE x[f] = TRUE /\ y[f] = FALSE
      BY <3>4
    <3>5. CASE x[f] = FALSE /\ y[f] = TRUE
      BY <3>5
    <3> QED BY <3>1, <3>2, <3>3, <3>4, <3>5, Zenon
  <2>2. ASSUME NEW r \in Seq(Byte), NEW s \in Seq(Byte), p \o r = q \o s
        PROVE  r = s /\ Agree(x, y, {f})
    <3>1. Bit(x) = Bit(y) /\ r = s
      <4> HIDE DEF Bit
      <4> QED BY <1>2, <2>2, OneHead
    <3>2. x[f] = y[f]
      BY <2>1, <3>1
    <3> QED BY <1>3, <3>1, <3>2 DEF Agree
  <2>3. Reveals(p, q, x, y, {f})
    <3> HIDE DEF p, q
    <3> QED BY <1>2, <2>2 DEF Reveals
  <2> HIDE DEF p, q
  <2>4. Tells({num}, Tag(num, 0) \o p, Tag(num, 0) \o q, x, y, {f})
    BY <1>1, <2>3, BothTell
  <2> QED BY <1>3, <2>4 DEF Bool, p, q
<1>4. CASE f \in DOMAIN x /\ f \notin DOMAIN y
  <2> HIDE DEF p
  <2>1. Tells({num}, Tag(num, 0) \o p, <<>>, x, y, {f})
    BY <1>1, <1>2, PieceOfTag, OneTells
  <2> QED BY <1>4, <2>1 DEF Bool, p
<1>5. CASE f \notin DOMAIN x /\ f \in DOMAIN y
  <2> HIDE DEF q
  <2>1. Tells({num}, <<>>, Tag(num, 0) \o q, x, y, {f})
    BY <1>1, <1>2, PieceOfTag, OneTells
  <2> QED BY <1>5, <2>1 DEF Bool, q
<1>6. CASE f \notin DOMAIN x /\ f \notin DOMAIN y
  <2>1. Agree(x, y, {f}) /\ {num} \subseteq 1..35
    BY <1>6 DEF Agree
  <2> QED BY <1>6, <2>1, NoneTells DEF Bool
<1> QED BY <1>3, <1>4, <1>5, <1>6

\* What is still to come behind k members of a list that was written.
Tails(h, e, n) ==
  /\ \A k \in 0..n : h[k] \in Seq(Byte)
  /\ h[n] = <<>>
  /\ \A k \in 0..(n - 1) : h[k] = e[k + 1] \o h[k + 1]

\* Every list has them.
LEMMA TailsOfList ==
  ASSUME NEW n \in Nat, NEW e \in [1..n -> Seq(Byte)]
  PROVE  \E h : Tails(h, e, n) /\ FlattenSeq(e) = h[0]
<1> DEFINE S == Seq(Byte)
<1>1. PICK r \in [Nat -> S] : Joins(r, e, n) /\ FlattenSeq(e) = r[n]
  BY FlattenDef
<1> DEFINE Rest1(k, t) == t \in S /\ r[n] = r[k] \o t
           T == {j \in 0..n : \E t : Rest1(n - j, t)}
<1>2. \A k \in 0..n : r[k] \in S
  OBVIOUS
<1>3. r[0] = <<>> /\ \A k \in 1..n : r[k] = r[k - 1] \o e[k]
  BY <1>1 DEF Joins
<1>4. ASSUME NEW k \in 0..(n - 1), NEW t, Rest1(k + 1, t)
      PROVE  Rest1(k, e[k + 1] \o t)
  <2> DEFINE i == k + 1
  <2>1. i \in 1..n /\ i - 1 = k /\ k \in 0..n /\ i \in 0..n
    OBVIOUS
  <2>2. e[i] \in S /\ r[i] = r[k] \o e[i] /\ r[k] \in S
    BY <1>2, <1>3, <2>1
  <2>3. t \in S /\ r[n] = r[i] \o t
    BY <1>4
  <2> HIDE DEF i
  <2>4. Regroups(r[k], e[i], t)
    BY <2>2, <2>3, Regrouped
  <2>5. Rest1(k, e[i] \o t)
    BY <2>2, <2>3, <2>4 DEF Regroups
  <2> QED BY <2>5 DEF i
<1>5. Rest1(n, <<>>)
  <2>1. r[n] \in S
    BY <1>2
  <2>2. r[n] \o <<>> = r[n] /\ <<>> \in S
    BY <2>1
  <2> QED BY <2>2
<1>6. ASSUME NEW k \in 0..n, NEW t, NEW u, Rest1(k, t), Rest1(k, u)
      PROVE  t = u
  <2>1. r[k] \in S /\ t \in S /\ u \in S /\ r[k] \o t = r[k] \o u
    BY <1>2, <1>6
  <2> QED BY <2>1, EqualFronts
<1>7. \A j \in 0..n : j \in T
  <2>1. 0 \in T
    <3>1. 0 \in 0..n /\ n - 0 = n
      OBVIOUS
    <3> HIDE DEF Rest1
    <3> QED BY <1>5, <3>1
  <2>2. ASSUME NEW j \in 0..(n - 1), j \in T PROVE j + 1 \in T
    <3>1. PICK t : Rest1(n - j, t)
      BY <2>2
    <3> DEFINE k == n - (j + 1)
    <3>2. k \in 0..(n - 1) /\ k + 1 = n - j /\ j + 1 \in 0..n
      OBVIOUS
    <3> HIDE DEF k, Rest1
    <3>3. Rest1(k, e[k + 1] \o t)
      BY <1>4, <3>1, <3>2
    <3> QED BY <3>2, <3>3 DEF k
  <2> HIDE DEF T
  <2> QED BY <2>1, <2>2, BoundedInduction
<1> DEFINE h == [k \in 0..n |-> CHOOSE t : Rest1(k, t)]
<1>8. ASSUME NEW k \in 0..n PROVE Rest1(k, h[k])
  <2> HIDE DEF Rest1
  <2>1. n - k \in 0..n /\ n - (n - k) = k
    OBVIOUS
  <2>2. n - k \in T
    <3> HIDE DEF T
    <3> QED BY <1>7, <2>1
  <2>3. \E t : Rest1(k, t)
    BY <2>1, <2>2
  <2> QED BY <2>3
<1> HIDE DEF h
<1>9. \A k \in 0..n : h[k] \in Seq(Byte)
  BY <1>8
<1>10. h[n] = <<>>
  <2>1. n \in 0..n
    OBVIOUS
  <2> HIDE DEF Rest1
  <2> QED BY <1>5, <1>6, <1>8, <2>1
<1>11. ASSUME NEW k \in 0..(n - 1) PROVE h[k] = e[k + 1] \o h[k + 1]
  <2>1. k \in 0..n /\ k + 1 \in 0..n
    OBVIOUS
  <2> HIDE DEF Rest1
  <2>2. Rest1(k + 1, h[k + 1]) /\ Rest1(k, h[k])
    BY <1>8, <2>1
  <2>3. Rest1(k, e[k + 1] \o h[k + 1])
    BY <1>4, <2>2
  <2> QED BY <1>6, <2>1, <2>2, <2>3
<1>12. h[0] = r[n]
  <2>1. 0 \in 0..n
    OBVIOUS
  <2>2. h[0] \in S /\ r[n] = r[0] \o h[0]
    BY <1>8, <2>1
  <2> QED BY <1>3, <2>2
<1>13. Tails(h, e, n)
  BY <1>9, <1>10, <1>11 DEF Tails
<1> QED BY <1>1, <1>12, <1>13

\* A list is a piece of its number.
PrefixedList(num, a) == [k \in DOMAIN a |-> Prefixed(num, a[k])]

\* A list of texts.
IsBytesList(a) == a \in Seq(Seq(Byte))

\* What is still to come of a list of bodies with the same tag.
BodyTails(h, num, a) ==
  /\ FlattenSeq(PrefixedList(num, a)) = h[0] /\ h[Len(a)] = <<>>
  /\ \A k \in 0..Len(a) : Piece({num}, h[k])
  /\ \A k \in 0..(Len(a) - 1) :
       /\ a[k + 1] \in Seq(Byte) /\ h[k + 1] \in Seq(Byte)
       /\ Announced({num}, h[k])
       /\ h[k] = Tag(num, 2) \o (Body(a[k + 1]) \o h[k + 1])

\* Every such list has it.
LEMMA TailsOfBodies ==
  ASSUME NEW num \in 1..35, NEW a, IsBytesList(a)
  PROVE  \E h : BodyTails(h, num, a)
<1> DEFINE n == Len(a)
           e == PrefixedList(num, a)
           S == Seq(Byte)
<1>1. n \in Nat /\ DOMAIN a = 1..n /\ \A k \in 1..n : a[k] \in Seq(Byte)
  <2>1. a \in Seq(S)
    BY DEF IsBytesList
  <2> HIDE DEF S
  <2>2. n \in Nat /\ DOMAIN a = 1..n /\ \A k \in 1..n : a[k] \in S
    BY <2>1
  <2> QED BY <2>2 DEF S
<1> HIDE DEF n
<1>2. ASSUME NEW k \in 1..n
      PROVE  /\ e[k] = Tag(num, 2) \o Body(a[k]) /\ e[k] \in Seq(Byte)
             /\ Announced({num}, e[k])
  BY <1>1, PrefixedBody, PieceOfPrefixed DEF PrefixedList, Piece
<1>3. e \in [1..n -> Seq(Byte)]
  BY <1>1, <1>2 DEF PrefixedList
<1> HIDE DEF e
<1>4. PICK h : Tails(h, e, n) /\ FlattenSeq(e) = h[0]
  BY <1>1, <1>3, TailsOfList
<1>5. ASSUME NEW k \in 0..(n - 1)
      PROVE  /\ a[k + 1] \in Seq(Byte) /\ h[k + 1] \in Seq(Byte)
             /\ Announced({num}, h[k])
             /\ h[k] = Tag(num, 2) \o (Body(a[k + 1]) \o h[k + 1])
  <2> DEFINE i == k + 1
  <2>1. i \in 1..n /\ i \in 0..n
    BY <1>1
  <2>2. h[k] = e[i] \o h[i] /\ h[i] \in Seq(Byte)
    BY <1>4, <2>1 DEF Tails
  <2> HIDE DEF i
  <2>3. a[i] \in Seq(Byte) /\ e[i] = Tag(num, 2) \o Body(a[i]) /\ Announced({num}, e[i])
    BY <1>1, <1>2, <2>1
  <2>4. Announced({num}, h[k])
    <3>1. {num} \subseteq 1..35
      OBVIOUS
    <3> QED BY <2>2, <2>3, <3>1, AnnouncedThen
  <2>5. Tag(num, 2) \in Seq(Byte) /\ Body(a[i]) \in Seq(Byte)
    <3>1. 2 \in 0..7
      OBVIOUS
    <3> QED BY <2>3, <3>1, TagIsBytes, BodyIsBytes
  <2>6. Regroups(Tag(num, 2), Body(a[i]), h[i])
    BY <2>2, <2>5, Regrouped
  <2> QED BY <2>2, <2>3, <2>4, <2>6 DEF Regroups, i
<1>6. ASSUME NEW k \in 0..n PROVE Piece({num}, h[k])
  <2>1. h[k] \in Seq(Byte)
    BY <1>4 DEF Tails
  <2>2. CASE k = n
    BY <1>4, <2>1, <2>2 DEF Tails, Piece
  <2>3. CASE k # n
    <3>1. k \in 0..(n - 1)
      BY <1>1, <2>3
    <3> QED BY <1>5, <2>1, <3>1 DEF Piece
  <2> QED BY <2>2, <2>3
<1>7. h[n] = <<>>
  BY <1>4 DEF Tails
<1>8. BodyTails(h, num, a)
  BY <1>4, <1>5, <1>6, <1>7 DEF e, n, BodyTails
<1> QED BY <1>8

\* One member of each of two lists, and what is still to come of both.
SameNext(p, q, t, u, r, s) ==
  p = q /\ t \o r = u \o s /\ Len(p) < Word64 /\ Len(t \o r) < Word64

\* The first of both are the same, and so is what is still to come.
LEMMA NextOfLists ==
  ASSUME NEW num \in 1..35, NEW p \in Seq(Byte), NEW q \in Seq(Byte),
         NEW t \in Seq(Byte), NEW u \in Seq(Byte), NEW r \in Seq(Byte), NEW s \in Seq(Byte),
         (Tag(num, 2) \o (Body(p) \o t)) \o r = (Tag(num, 2) \o (Body(q) \o u)) \o s,
         Len((Tag(num, 2) \o (Body(p) \o t)) \o r) < Word64
  PROVE  SameNext(p, q, t, u, r, s)
<1> DEFINE g == Tag(num, 2)
           a == Body(p)
           b == Body(q)
<1>1. g \in Seq(Byte) /\ a \in Seq(Byte) /\ b \in Seq(Byte)
  <2>1. 2 \in 0..7
    OBVIOUS
  <2> QED BY <2>1, TagIsBytes, BodyIsBytes
<1> HIDE DEF g, a, b
<1> DEFINE c == t \o r
           d == u \o s
           v == a \o c
           w == b \o d
<1>2. c \in Seq(Byte) /\ d \in Seq(Byte)
  OBVIOUS
<1>3. (g \o (a \o t)) \o r = g \o v /\ (g \o (b \o u)) \o s = g \o w
  <2>1. Regroups(a, t, r) /\ Regroups(b, u, s)
    BY <1>1, Regrouped
  <2>2. a \o t \in Seq(Byte) /\ b \o u \in Seq(Byte)
    BY <2>1 DEF Regroups
  <2>3. Regroups(g, a \o t, r) /\ Regroups(g, b \o u, s)
    BY <1>1, <2>2, Regrouped
  <2> QED BY <2>1, <2>3 DEF Regroups
<1> HIDE DEF c, d
<1>4. v \in Seq(Byte) /\ w \in Seq(Byte)
  BY <1>1, <1>2
<1>5. g \o v = g \o w /\ Len(g \o v) < Word64
  BY <1>3 DEF g, a, b
<1> HIDE DEF v, w
<1>6. v = w
  BY <1>1, <1>4, <1>5, EqualFronts
<1>7. Len(g \o v) = Len(g) + Len(v) /\ Len(g) \in Nat /\ Len(v) \in Nat
  BY <1>1, <1>4, LengthOfBoth, Zenon
<1>8. Len(v) < Word64
  BY <1>5, <1>7, WordsAssumption
<1>9. a \o c = b \o d /\ Len(a \o c) < Word64
  BY <1>6, <1>8 DEF v, w
<1>10. p = q /\ c = d /\ Len(p) < Word64
  <2>1. SameBodies(p, q, c, d)
    BY <1>2, <1>9, BodyCancels, Zenon DEF a, b
  <2> QED BY <2>1 DEF SameBodies
<1>11. Len(a \o c) = Len(a) + Len(c) /\ Len(a) \in Nat /\ Len(c) \in Nat
  BY <1>1, <1>2, LengthOfBoth, Zenon
<1>12. Len(c) < Word64
  BY <1>9, <1>11, WordsAssumption
<1> QED BY <1>10, <1>12 DEF c, d, SameNext

\* The same lists with the same behind them, each member of a length in a word.
SameLists(a, b, r, s) == a = b /\ r = s /\ \A k \in DOMAIN a : Len(a[k]) < Word64

\* Two lists that are written as the same have the same members.
LEMMA ListsPart ==
  ASSUME NEW num \in 1..35, NEW a, NEW b, IsBytesList(a), IsBytesList(b), NEW h, NEW g,
         BodyTails(h, num, a), BodyTails(g, num, b), NEW r \in Seq(Byte), NEW s \in Seq(Byte),
         ~Announced({num}, r), ~Announced({num}, s), h[0] \o r = g[0] \o s,
         Len(h[0] \o r) < Word64
  PROVE  SameLists(a, b, r, s)
<1> DEFINE n == Len(a)
           m == Len(b)
           S == Seq(Byte)
           Same1(j) == /\ j <= m /\ h[j] \o r = g[j] \o s /\ Len(h[j] \o r) < Word64
                       /\ \A k \in 1..j : a[k] = b[k] /\ Len(a[k]) < Word64
           T == {j \in 0..n : Same1(j)}
<1>1. n \in Nat /\ DOMAIN a = 1..n /\ m \in Nat /\ DOMAIN b = 1..m /\ a \in Seq(S) /\ b \in Seq(S)
  <2>1. a \in Seq(S) /\ b \in Seq(S)
    BY DEF IsBytesList
  <2> HIDE DEF S
  <2> QED BY <2>1
<1> HIDE DEF n, m
<1>2. /\ h[n] = <<>> /\ g[m] = <<>>
      /\ \A k \in 0..n : Piece({num}, h[k])
      /\ \A k \in 0..m : Piece({num}, g[k])
      /\ \A k \in 0..(n - 1) : /\ a[k + 1] \in Seq(Byte) /\ h[k + 1] \in Seq(Byte)
                               /\ Announced({num}, h[k])
                               /\ h[k] = Tag(num, 2) \o (Body(a[k + 1]) \o h[k + 1])
      /\ \A k \in 0..(m - 1) : /\ b[k + 1] \in Seq(Byte) /\ g[k + 1] \in Seq(Byte)
                               /\ Announced({num}, g[k])
                               /\ g[k] = Tag(num, 2) \o (Body(b[k + 1]) \o g[k + 1])
  BY DEF BodyTails, n, m
<1>3. Same1(0)
  <2>1. \A k \in 1..0 : FALSE
    OBVIOUS
  <2> QED BY <1>1, <2>1
<1>4. {num} \subseteq 1..35 /\ <<>> \o r = r /\ <<>> \o s = s
  OBVIOUS
<1>5. ASSUME NEW j \in 0..(n - 1), Same1(j) PROVE Same1(j + 1)
  <2> DEFINE i == j + 1
             p == a[i]
             q == b[i]
  <2>1. i \in 1..n /\ i \in 0..n
    BY <1>1
  <2>2. p \in Seq(Byte) /\ h[i] \in Seq(Byte) /\ Announced({num}, h[j])
        /\ h[j] = Tag(num, 2) \o (Body(p) \o h[i])
    BY <1>2
  <2>3. j < m
    <3> SUFFICES ASSUME j = m PROVE FALSE
      BY <1>1, <1>5
    <3>1. h[j] \o r = s
      BY <1>2, <1>4, <1>5
    <3>2. Announced({num}, h[j] \o r)
      BY <1>4, <2>2, AnnouncedThen
    <3> QED BY <3>1, <3>2
  <2>4. q \in Seq(Byte) /\ g[i] \in Seq(Byte) /\ g[j] = Tag(num, 2) \o (Body(q) \o g[i])
    <3>1. j \in 0..(m - 1)
      BY <1>1, <2>3
    <3> QED BY <1>2, <3>1
  <2> HIDE DEF p, q
  <2>5. p = q /\ h[i] \o r = g[i] \o s /\ Len(p) < Word64 /\ Len(h[i] \o r) < Word64
    <3>1. h[j] \o r = g[j] \o s /\ Len(h[j] \o r) < Word64
      BY <1>5
    <3> DEFINE t == h[i]
               u == g[i]
    <3>2. /\ (Tag(num, 2) \o (Body(p) \o t)) \o r = (Tag(num, 2) \o (Body(q) \o u)) \o s
          /\ Len((Tag(num, 2) \o (Body(p) \o t)) \o r) < Word64
          /\ p \in Seq(Byte) /\ q \in Seq(Byte) /\ t \in Seq(Byte) /\ u \in Seq(Byte)
      BY <2>2, <2>4, <3>1
    <3> HIDE DEF t, u
    <3>3. SameNext(p, q, t, u, r, s)
      BY <3>2, NextOfLists
    <3> QED BY <3>3 DEF SameNext, t, u
  <2>6. i <= m
    BY <1>1, <2>3
  <2>7. ASSUME NEW k \in 1..i PROVE a[k] = b[k] /\ Len(a[k]) < Word64
    <3>1. k \in 1..j \/ k = i
      OBVIOUS
    <3> HIDE DEF i
    <3> QED BY <1>5, <2>5, <3>1 DEF p, q
  <2> HIDE DEF i
  <2>8. Same1(i)
    BY <2>5, <2>6, <2>7
  <2> QED BY <2>8 DEF i
<1> HIDE DEF Same1
<1>6. n \in T
  <2>1. ASSUME NEW j \in 0..(n - 1), j \in T PROVE j + 1 \in T
    <3>1. j + 1 \in 0..n
      BY <1>1
    <3> QED BY <1>5, <2>1, <3>1
  <2>3. 0 \in T
    BY <1>1, <1>3
  <2> HIDE DEF T
  <2>2. \A j \in 0..n : j \in T
    BY <1>1, <2>1, <2>3, BoundedInduction
  <2> QED BY <1>1, <2>2
<1>7. n <= m /\ h[n] \o r = g[n] \o s /\ \A k \in 1..n : a[k] = b[k] /\ Len(a[k]) < Word64
  BY <1>6 DEF Same1
<1>8. r = g[n] \o s
  BY <1>2, <1>4, <1>7
<1>9. n = m
  <2> SUFFICES ASSUME n < m PROVE FALSE
    BY <1>1, <1>7
  <2>1. n \in 0..(m - 1) /\ n \in 0..m
    BY <1>1
  <2>2. Announced({num}, g[n])
    BY <1>2, <2>1
  <2>3. Announced({num}, g[n] \o s)
    BY <1>4, <2>2, AnnouncedThen
  <2> QED BY <1>8, <2>3
<1>10. r = s
  BY <1>2, <1>4, <1>8, <1>9
<1>11. a = b
  <2> HIDE DEF S
  <2> QED BY <1>1, <1>7, <1>9 DEF n, m
<1> QED BY <1>1, <1>7, <1>10, <1>11 DEF SameLists

\* A repeated field is told.
LEMMA ListTells ==
  ASSUME NEW num \in 1..35, NEW a, NEW b, IsBytesList(a), IsBytesList(b),
         NEW x, NEW y, NEW F,
         a = b /\ (\A k \in DOMAIN a : Len(a[k]) < Word64) => Agree(x, y, F)
  PROVE  Tells({num}, FlattenSeq(PrefixedList(num, a)), FlattenSeq(PrefixedList(num, b)), x, y, F)
<1>1. PICK h : BodyTails(h, num, a)
  BY TailsOfBodies
<1>2. PICK g : BodyTails(g, num, b)
  BY TailsOfBodies
<1>3. Piece({num}, h[0]) /\ Piece({num}, g[0])
  <2>1. 0 \in 0..Len(a) /\ 0 \in 0..Len(b)
    <3> DEFINE S == Seq(Byte)
    <3>1. a \in Seq(S) /\ b \in Seq(S)
      BY DEF IsBytesList
    <3> HIDE DEF S
    <3> QED BY <3>1
  <2> QED BY <1>1, <1>2, <2>1 DEF BodyTails
<1>4. ASSUME NEW r \in Seq(Byte), NEW s \in Seq(Byte), ~Announced({num}, r),
             ~Announced({num}, s), h[0] \o r = g[0] \o s, Len(h[0] \o r) < Word64
      PROVE  r = s /\ Agree(x, y, F)
  <2>1. SameLists(a, b, r, s)
    BY <1>1, <1>2, <1>4, ListsPart
  <2> QED BY <2>1 DEF SameLists
<1>5. FlattenSeq(PrefixedList(num, a)) = h[0] /\ FlattenSeq(PrefixedList(num, b)) = g[0]
  BY <1>1, <1>2 DEF BodyTails
<1> QED BY <1>3, <1>4, <1>5 DEF Tells

------------------------------------------------------------------------------
(* Messages without others in them *)

\* Nothing that begins with u begins with a tag of T.
Foreign(T, u) == u = <<>> \/ \A t \in Seq(Byte) : ~Announced(T, u \o t)

\* What a decoder leaves besides text: numbers in the range of their types and
\* unknown fields that no case of the switch takes.
ProperFlat(type, m) ==
  /\ \A f \in Counts \cap DOMAIN m : InRange(f, m[f])
  /\ \A f \in Flags \cap DOMAIN m : m[f] \in BOOLEAN
  /\ Foreign(DOMAIN Cases(type), m.unknown)

\* A message without others in it, its text bytes.
SoundFlat(type, m) == GoodFlat(Byte, type, m) /\ ProperFlat(type, m)

\* It does not begin with one, by the definition of a tag.
LEMMA ForeignIsFree ==
  ASSUME NEW T, T \subseteq 1..35, NEW u \in Seq(Byte), Foreign(T, u)
  PROVE  ~Announced(T, u)
<1>1. CASE u = <<>>
  <2> SUFFICES ASSUME NEW f \in T, NEW w \in 0..7, NEW r \in Seq(Byte), <<>> = Tag(f, w) \o r
               PROVE  FALSE
    BY <1>1 DEF Announced
  <2>1. f \in 1..35
    OBVIOUS
  <2>2. PICK n \in Nat : Tag(f, w) = VarintBytes[n]
    <3>1. (8 * f + w) % Word64 \in Nat
      BY <2>1, WordsAssumption
    <3> QED BY <3>1 DEF Tag, EncodeVarint
  <2>3. PICK h, e : HeadAndTail(n, r, h, e)
    BY HeadOfVarint
  <2>4. <<>> = <<h>> \o e /\ e \in Seq(Byte) /\ h \in Byte
    BY <2>2, <2>3 DEF HeadAndTail
  <2>5. Len(<<h>> \o e) = 1 + Len(e) /\ Len(e) \in Nat
    BY <2>4
  <2>6. Len(<<>>) = 0
    OBVIOUS
  <2>7. 0 = 1 + Len(e) /\ Len(e) \in Nat
    BY <2>4, <2>5, <2>6
  <2> QED BY <2>7
<1>2. CASE \A t \in Seq(Byte) : ~Announced(T, u \o t)
  <2>1. <<>> \in Seq(Byte) /\ u \o <<>> = u
    OBVIOUS
  <2> QED BY <1>2, <2>1
<1> QED BY <1>1, <1>2 DEF Foreign

\* The cases are those of fields 1 to 35.
LEMMA CasesAreFields ==
  ASSUME NEW type \in Types
  PROVE  /\ DOMAIN Cases(type) \subseteq 1..35
         /\ type = "AppRequest" => 1..5 \subseteq DOMAIN Cases(type)
         /\ type = "AppResponse" => 1..6 \subseteq DOMAIN Cases(type)
         /\ type = "AppTrace" => 1..6 \subseteq DOMAIN Cases(type)
         /\ type = "KeyVal" => 1..2 \subseteq DOMAIN Cases(type)
         /\ type = "NatsMessage" => 1..3 \subseteq DOMAIN Cases(type)
         /\ type = "ZmtpMessage" => 1..2 \subseteq DOMAIN Cases(type)
         /\ type = "AppInfo" =>
              1..3 \cup 10..13 \cup 21..23 \cup 31..35 \subseteq DOMAIN Cases(type)
BY RequestCases, ResponseCases, TraceCases, KeyValCases, InfoCases, NatsCases, ZmtpCases
   DEF Types, Cases

\* Messages whose fields are told are told.
LEMMA MessagesTold ==
  ASSUME NEW type \in Types, NEW T, T \subseteq DOMAIN Cases(type), NEW a, NEW b,
         NEW x, NEW y, NEW F, Tells(T, a, b, x, y, F), SoundFlat(type, x), SoundFlat(type, y),
         Names(type) \subseteq F \cup {"unknown"},
         a \o x.unknown = b \o y.unknown, Len(a \o x.unknown) < Word64
  PROVE  x = y
<1>1. /\ IsAFunction(x) /\ IsAFunction(y) /\ "unknown" \in DOMAIN x /\ "unknown" \in DOMAIN y
      /\ DOMAIN x \subseteq Names(type) /\ DOMAIN y \subseteq Names(type)
      /\ x.unknown \in Seq(Byte) /\ y.unknown \in Seq(Byte)
  BY AlwaysUnknown DEF SoundFlat, GoodFlat, TextGood, Fits, Names
<1>2. T \subseteq 1..35 /\ DOMAIN Cases(type) \subseteq 1..35
  BY CasesAreFields
<1>3. ~Announced(T, x.unknown) /\ ~Announced(T, y.unknown)
  <2>1. /\ ~Announced(DOMAIN Cases(type), x.unknown)
        /\ ~Announced(DOMAIN Cases(type), y.unknown)
    BY <1>1, <1>2, ForeignIsFree DEF SoundFlat, ProperFlat
  <2> QED BY <2>1, AnnouncedMore
<1>4. x.unknown = y.unknown /\ Agree(x, y, F)
  BY <1>1, <1>3 DEF Tells
<1>5. ASSUME NEW f \in Names(type)
      PROVE  (f \in DOMAIN x <=> f \in DOMAIN y) /\ (f \in DOMAIN x => x[f] = y[f])
  <2>1. CASE f = "unknown"
    BY <1>1, <1>4, <2>1
  <2>2. CASE f # "unknown"
    <3>1. f \in F
      BY <2>2
    <3> QED BY <1>4, <3>1 DEF Agree
  <2> QED BY <2>1, <2>2
<1>6. DOMAIN x = DOMAIN y /\ \A f \in DOMAIN x : x[f] = y[f]
  BY <1>1, <1>5
<1> QED BY <1>1, <1>6 DEF IsAFunction

\* A field more.
LEMMA ThenText ==
  ASSUME NEW T, NEW a, NEW b, NEW x, NEW y, NEW F, Tells(T, a, b, x, y, F),
         NEW num \in 1..35, num \notin T, NEW f,
         f \in DOMAIN x => x[f] \in Seq(Byte), f \in DOMAIN y => y[f] \in Seq(Byte)
  PROVE  Tells(T \cup {num}, a \o Text(x, num, f), b \o Text(y, num, f), x, y, F \cup {f})
<1>1. Tells({num}, Text(x, num, f), Text(y, num, f), x, y, {f})
  BY TextTells
<1>2. T \cap {num} = {}
  OBVIOUS
<1> QED BY <1>1, <1>2, TellsThen

\* A text behind the others.
LEMMA ThenNonEmpty ==
  ASSUME NEW T, NEW a, NEW b, NEW x, NEW y, NEW F, Tells(T, a, b, x, y, F),
         NEW num \in 1..35, num \notin T, NEW f, f \in DOMAIN x, f \in DOMAIN y,
         x[f] \in Seq(Byte), y[f] \in Seq(Byte)
  PROVE  Tells(T \cup {num}, a \o NonEmpty(x, num, f), b \o NonEmpty(y, num, f), x, y, F \cup {f})
<1>1. Tells({num}, NonEmpty(x, num, f), NonEmpty(y, num, f), x, y, {f})
  BY NonEmptyTells
<1>2. T \cap {num} = {}
  OBVIOUS
<1> QED BY <1>1, <1>2, TellsThen

\* A number behind the others.
LEMMA ThenNumber ==
  ASSUME NEW T, NEW a, NEW b, NEW x, NEW y, NEW F, Tells(T, a, b, x, y, F),
         NEW num \in 1..35, num \notin T, NEW f,
         f \in DOMAIN x => InRange(f, x[f]), f \in DOMAIN y => InRange(f, y[f])
  PROVE  Tells(T \cup {num}, a \o Number(x, num, f), b \o Number(y, num, f), x, y, F \cup {f})
<1>1. Tells({num}, Number(x, num, f), Number(y, num, f), x, y, {f})
  BY NumberTells
<1>2. T \cap {num} = {}
  OBVIOUS
<1> QED BY <1>1, <1>2, TellsThen

\* A flag behind the others.
LEMMA ThenBool ==
  ASSUME NEW T, NEW a, NEW b, NEW x, NEW y, NEW F, Tells(T, a, b, x, y, F),
         NEW num \in 1..35, num \notin T, NEW f,
         f \in DOMAIN x => x[f] \in BOOLEAN, f \in DOMAIN y => y[f] \in BOOLEAN
  PROVE  Tells(T \cup {num}, a \o Bool(x, num, f), b \o Bool(y, num, f), x, y, F \cup {f})
<1>1. Tells({num}, Bool(x, num, f), Bool(y, num, f), x, y, {f})
  BY BoolTells
<1>2. T \cap {num} = {}
  OBVIOUS
<1> QED BY <1>1, <1>2, TellsThen

\* What the fields of a message hold.
LEMMA SoundFields ==
  ASSUME NEW type \in Types, NEW x, SoundFlat(type, x)
  PROVE  /\ \A f : Other(f) /\ f \in DOMAIN x => x[f] \in Seq(Byte)
         /\ \A f \in Counts : f \in DOMAIN x => InRange(f, x[f])
         /\ \A f \in Flags : f \in DOMAIN x => x[f] \in BOOLEAN
         /\ DOMAIN Empty(type) \subseteq DOMAIN x
         /\ x.unknown \in Seq(Byte) /\ "unknown" \in DOMAIN x
         /\ "trace_ids" \in DOMAIN x => IsBytesList(x.trace_ids)
BY AlwaysUnknown DEF SoundFlat, ProperFlat, GoodFlat, TextGood, Fits, IsBytesList

\* Two messages that are written as the same are the same: text by text, and
\* the numbers and the list where there are some.

\* AppRequest (WasmPluginApi_vtproto.pb.go:652-700).
LEMMA RequestsTold ==
  ASSUME NEW x, NEW y, SoundFlat("AppRequest", x), SoundFlat("AppRequest", y),
         Written("AppRequest", FALSE, x) = Written("AppRequest", FALSE, y),
         Len(Written("AppRequest", FALSE, x)) < Word64
  PROVE  x = y
<1>1. /\ "AppRequest" \in Types /\ Other("version") /\ Other("type")
      /\ Other("domain") /\ Other("resource") /\ Other("endpoint")
  BY TheOthers DEF Types
<1>2. SoundFlat("AppRequest", x) /\ SoundFlat("AppRequest", y)
  OBVIOUS
<1>3. ("version" \in DOMAIN x => x["version"] \in Seq(Byte))
      /\ ("version" \in DOMAIN y => y["version"] \in Seq(Byte))
  BY <1>1, <1>2, SoundFields
<1>4. ("type" \in DOMAIN x => x["type"] \in Seq(Byte))
      /\ ("type" \in DOMAIN y => y["type"] \in Seq(Byte))
  BY <1>1, <1>2, SoundFields
<1>5. ("domain" \in DOMAIN x => x["domain"] \in Seq(Byte))
      /\ ("domain" \in DOMAIN y => y["domain"] \in Seq(Byte))
  BY <1>1, <1>2, SoundFields
<1>6. ("resource" \in DOMAIN x => x["resource"] \in Seq(Byte))
      /\ ("resource" \in DOMAIN y => y["resource"] \in Seq(Byte))
  BY <1>1, <1>2, SoundFields
<1>7. ("endpoint" \in DOMAIN x => x["endpoint"] \in Seq(Byte))
      /\ ("endpoint" \in DOMAIN y => y["endpoint"] \in Seq(Byte))
  BY <1>1, <1>2, SoundFields
<1> DEFINE a1 == Text(x, 1, "version")
           b1 == Text(y, 1, "version")
           T1 == {1}
           F1 == {"version"}
<1>8. Tells(T1, a1, b1, x, y, F1)
  BY <1>3, TextTells
<1> DEFINE a2 == a1 \o Text(x, 2, "type")
           b2 == b1 \o Text(y, 2, "type")
           T2 == T1 \cup {2}
           F2 == F1 \cup {"type"}
<1>9. Tells(T2, a2, b2, x, y, F2)
  <2>1. 2 \in 1..35 /\ 2 \notin T1
    OBVIOUS
  <2> HIDE DEF a1, b1, T1, F1
  <2> QED BY <1>4, <1>8, <2>1, ThenText
<1> DEFINE a3 == a2 \o Text(x, 3, "domain")
           b3 == b2 \o Text(y, 3, "domain")
           T3 == T2 \cup {3}
           F3 == F2 \cup {"domain"}
<1>10. Tells(T3, a3, b3, x, y, F3)
  <2>1. 3 \in 1..35 /\ 3 \notin T2
    OBVIOUS
  <2> HIDE DEF a2, b2, T2, F2
  <2> QED BY <1>5, <1>9, <2>1, ThenText
<1> DEFINE a4 == a3 \o Text(x, 4, "resource")
           b4 == b3 \o Text(y, 4, "resource")
           T4 == T3 \cup {4}
           F4 == F3 \cup {"resource"}
<1>11. Tells(T4, a4, b4, x, y, F4)
  <2>1. 4 \in 1..35 /\ 4 \notin T3
    OBVIOUS
  <2> HIDE DEF a3, b3, T3, F3
  <2> QED BY <1>6, <1>10, <2>1, ThenText
<1> DEFINE a5 == a4 \o Text(x, 5, "endpoint")
           b5 == b4 \o Text(y, 5, "endpoint")
           T5 == T4 \cup {5}
           F5 == F4 \cup {"endpoint"}
<1>12. Tells(T5, a5, b5, x, y, F5)
  <2>1. 5 \in 1..35 /\ 5 \notin T4
    OBVIOUS
  <2> HIDE DEF a4, b4, T4, F4
  <2> QED BY <1>7, <1>11, <2>1, ThenText
<1>13. T5 \subseteq DOMAIN Cases("AppRequest")
  <2>1. 1..5 \subseteq DOMAIN Cases("AppRequest")
    BY <1>1, CasesAreFields
  <2>2. T5 \subseteq 1..5
    OBVIOUS
  <2> QED BY <2>1, <2>2
<1>14. Names("AppRequest") \subseteq F5 \cup {"unknown"}
  BY NamesOfTypes
<1>15. a5 \o x.unknown = b5 \o y.unknown /\ Len(a5 \o x.unknown) < Word64
  BY DEF Written, AppRequest_MarshalVT
<1> HIDE DEF a5, b5, T5, F5
<1> QED BY <1>1, <1>2, <1>12, <1>13, <1>14, <1>15, MessagesTold

\* AppResponse (WasmPluginApi_vtproto.pb.go:720-771).
LEMMA ResponsesTold ==
  ASSUME NEW x, NEW y, SoundFlat("AppResponse", x), SoundFlat("AppResponse", y),
         Written("AppResponse", FALSE, x) = Written("AppResponse", FALSE, y),
         Len(Written("AppResponse", FALSE, x)) < Word64
  PROVE  x = y
<1>1. /\ "AppResponse" \in Types /\ Other("exception") /\ Other("result")
      /\ Other("type") /\ Other("endpoint")
  BY TheOthers DEF Types
<1>2. SoundFlat("AppResponse", x) /\ SoundFlat("AppResponse", y)
  OBVIOUS
<1>3. ("status" \in DOMAIN x => InRange("status", x["status"]))
      /\ ("status" \in DOMAIN y => InRange("status", y["status"]))
  BY <1>1, <1>2, SoundFields DEF Counts
<1>4. ("code" \in DOMAIN x => InRange("code", x["code"]))
      /\ ("code" \in DOMAIN y => InRange("code", y["code"]))
  BY <1>1, <1>2, SoundFields DEF Counts
<1>5. ("exception" \in DOMAIN x => x["exception"] \in Seq(Byte))
      /\ ("exception" \in DOMAIN y => y["exception"] \in Seq(Byte))
  BY <1>1, <1>2, SoundFields
<1>6. ("result" \in DOMAIN x => x["result"] \in Seq(Byte))
      /\ ("result" \in DOMAIN y => y["result"] \in Seq(Byte))
  BY <1>1, <1>2, SoundFields
<1>7. ("type" \in DOMAIN x => x["type"] \in Seq(Byte))
      /\ ("type" \in DOMAIN y => y["type"] \in Seq(Byte))
  BY <1>1, <1>2, SoundFields
<1>8. ("endpoint" \in DOMAIN x => x["endpoint"] \in Seq(Byte))
      /\ ("endpoint" \in DOMAIN y => y["endpoint"] \in Seq(Byte))
  BY <1>1, <1>2, SoundFields
<1> DEFINE a1 == Number(x, 1, "status")
           b1 == Number(y, 1, "status")
           T1 == {1}
           F1 == {"status"}
<1>9. Tells(T1, a1, b1, x, y, F1)
  BY <1>3, NumberTells
<1> DEFINE a2 == a1 \o Number(x, 2, "code")
           b2 == b1 \o Number(y, 2, "code")
           T2 == T1 \cup {2}
           F2 == F1 \cup {"code"}
<1>10. Tells(T2, a2, b2, x, y, F2)
  <2>1. 2 \in 1..35 /\ 2 \notin T1
    OBVIOUS
  <2> HIDE DEF a1, b1, T1, F1
  <2> QED BY <1>4, <1>9, <2>1, ThenNumber
<1> DEFINE a3 == a2 \o Text(x, 3, "exception")
           b3 == b2 \o Text(y, 3, "exception")
           T3 == T2 \cup {3}
           F3 == F2 \cup {"exception"}
<1>11. Tells(T3, a3, b3, x, y, F3)
  <2>1. 3 \in 1..35 /\ 3 \notin T2
    OBVIOUS
  <2> HIDE DEF a2, b2, T2, F2
  <2> QED BY <1>5, <1>10, <2>1, ThenText
<1> DEFINE a4 == a3 \o Text(x, 4, "result")
           b4 == b3 \o Text(y, 4, "result")
           T4 == T3 \cup {4}
           F4 == F3 \cup {"result"}
<1>12. Tells(T4, a4, b4, x, y, F4)
  <2>1. 4 \in 1..35 /\ 4 \notin T3
    OBVIOUS
  <2> HIDE DEF a3, b3, T3, F3
  <2> QED BY <1>6, <1>11, <2>1, ThenText
<1> DEFINE a5 == a4 \o Text(x, 5, "type")
           b5 == b4 \o Text(y, 5, "type")
           T5 == T4 \cup {5}
           F5 == F4 \cup {"type"}
<1>13. Tells(T5, a5, b5, x, y, F5)
  <2>1. 5 \in 1..35 /\ 5 \notin T4
    OBVIOUS
  <2> HIDE DEF a4, b4, T4, F4
  <2> QED BY <1>7, <1>12, <2>1, ThenText
<1> DEFINE a6 == a5 \o Text(x, 6, "endpoint")
           b6 == b5 \o Text(y, 6, "endpoint")
           T6 == T5 \cup {6}
           F6 == F5 \cup {"endpoint"}
<1>14. Tells(T6, a6, b6, x, y, F6)
  <2>1. 6 \in 1..35 /\ 6 \notin T5
    OBVIOUS
  <2> HIDE DEF a5, b5, T5, F5
  <2> QED BY <1>8, <1>13, <2>1, ThenText
<1>15. T6 \subseteq DOMAIN Cases("AppResponse")
  <2>1. 1..6 \subseteq DOMAIN Cases("AppResponse")
    BY <1>1, CasesAreFields
  <2>2. T6 \subseteq 1..6
    OBVIOUS
  <2> QED BY <2>1, <2>2
<1>16. Names("AppResponse") \subseteq F6 \cup {"unknown"}
  BY NamesOfTypes
<1>17. a6 \o x.unknown = b6 \o y.unknown /\ Len(a6 \o x.unknown) < Word64
  BY DEF Written, AppResponse_MarshalVT
<1> HIDE DEF a6, b6, T6, F6
<1> QED BY <1>1, <1>2, <1>14, <1>15, <1>16, <1>17, MessagesTold

\* AppTrace, the list trace_ids in front of the last field
\* (WasmPluginApi_vtproto.pb.go:791-848).
LEMMA TracesTold ==
  ASSUME NEW x, NEW y, SoundFlat("AppTrace", x), SoundFlat("AppTrace", y),
         Written("AppTrace", FALSE, x) = Written("AppTrace", FALSE, y),
         Len(Written("AppTrace", FALSE, x)) < Word64
  PROVE  x = y
<1>1. /\ "AppTrace" \in Types /\ Other("trace_id") /\ Other("span_id")
      /\ Other("parent_span_id") /\ Other("x_request_id") /\ Other("http_proxy_client")
  BY TheOthers DEF Types
<1>2. SoundFlat("AppTrace", x) /\ SoundFlat("AppTrace", y)
  OBVIOUS
<1>3. ("trace_id" \in DOMAIN x => x["trace_id"] \in Seq(Byte))
      /\ ("trace_id" \in DOMAIN y => y["trace_id"] \in Seq(Byte))
  BY <1>1, <1>2, SoundFields
<1>4. ("span_id" \in DOMAIN x => x["span_id"] \in Seq(Byte))
      /\ ("span_id" \in DOMAIN y => y["span_id"] \in Seq(Byte))
  BY <1>1, <1>2, SoundFields
<1>5. ("parent_span_id" \in DOMAIN x => x["parent_span_id"] \in Seq(Byte))
      /\ ("parent_span_id" \in DOMAIN y => y["parent_span_id"] \in Seq(Byte))
  BY <1>1, <1>2, SoundFields
<1>6. ("x_request_id" \in DOMAIN x => x["x_request_id"] \in Seq(Byte))
      /\ ("x_request_id" \in DOMAIN y => y["x_request_id"] \in Seq(Byte))
  BY <1>1, <1>2, SoundFields
<1>7. ("http_proxy_client" \in DOMAIN x => x["http_proxy_client"] \in Seq(Byte))
      /\ ("http_proxy_client" \in DOMAIN y => y["http_proxy_client"] \in Seq(Byte))
  BY <1>1, <1>2, SoundFields
<1> DEFINE a1 == Text(x, 1, "trace_id")
           b1 == Text(y, 1, "trace_id")
           T1 == {1}
           F1 == {"trace_id"}
<1>8. Tells(T1, a1, b1, x, y, F1)
  BY <1>3, TextTells
<1> DEFINE a2 == a1 \o Text(x, 2, "span_id")
           b2 == b1 \o Text(y, 2, "span_id")
           T2 == T1 \cup {2}
           F2 == F1 \cup {"span_id"}
<1>9. Tells(T2, a2, b2, x, y, F2)
  <2>1. 2 \in 1..35 /\ 2 \notin T1
    OBVIOUS
  <2> HIDE DEF a1, b1, T1, F1
  <2> QED BY <1>4, <1>8, <2>1, ThenText
<1> DEFINE a3 == a2 \o Text(x, 3, "parent_span_id")
           b3 == b2 \o Text(y, 3, "parent_span_id")
           T3 == T2 \cup {3}
           F3 == F2 \cup {"parent_span_id"}
<1>10. Tells(T3, a3, b3, x, y, F3)
  <2>1. 3 \in 1..35 /\ 3 \notin T2
    OBVIOUS
  <2> HIDE DEF a2, b2, T2, F2
  <2> QED BY <1>5, <1>9, <2>1, ThenText
<1> DEFINE a4 == a3 \o Text(x, 4, "x_request_id")
           b4 == b3 \o Text(y, 4, "x_request_id")
           T4 == T3 \cup {4}
           F4 == F3 \cup {"x_request_id"}
<1>11. Tells(T4, a4, b4, x, y, F4)
  <2>1. 4 \in 1..35 /\ 4 \notin T3
    OBVIOUS
  <2> HIDE DEF a3, b3, T3, F3
  <2> QED BY <1>6, <1>10, <2>1, ThenText
<1> DEFINE a5 == a4 \o Text(x, 5, "http_proxy_client")
           b5 == b4 \o Text(y, 5, "http_proxy_client")
           T5 == T4 \cup {5}
           F5 == F4 \cup {"http_proxy_client"}
<1>12. Tells(T5, a5, b5, x, y, F5)
  <2>1. 5 \in 1..35 /\ 5 \notin T4
    OBVIOUS
  <2> HIDE DEF a4, b4, T4, F4
  <2> QED BY <1>7, <1>11, <2>1, ThenText
<1> DEFINE a6 == a5 \o FlattenSeq(PrefixedList(6, x.trace_ids))
           b6 == b5 \o FlattenSeq(PrefixedList(6, y.trace_ids))
           T6 == T5 \cup {6}
           F6 == F5 \cup {"trace_ids"}
<1>13. Tells(T6, a6, b6, x, y, F6)
  <2>1. T5 \cap {6} = {}
    OBVIOUS
  <2> HIDE DEF a5, b5, T5, F5
  <2>2. /\ "trace_ids" \in DOMAIN x /\ "trace_ids" \in DOMAIN y
        /\ IsBytesList(x.trace_ids) /\ IsBytesList(y.trace_ids)
    BY <1>1, <1>2, SoundFields DEF Empty
  <2>3. x.trace_ids = y.trace_ids => Agree(x, y, {"trace_ids"})
    BY <2>2 DEF Agree
  <2>4. Tells({6}, FlattenSeq(PrefixedList(6, x.trace_ids)),
              FlattenSeq(PrefixedList(6, y.trace_ids)), x, y, {"trace_ids"})
    BY <2>2, <2>3, ListTells
  <2> QED BY <1>12, <2>1, <2>4, TellsThen
<1>14. T6 \subseteq DOMAIN Cases("AppTrace")
  <2>1. 1..6 \subseteq DOMAIN Cases("AppTrace")
    BY <1>1, CasesAreFields
  <2>2. T6 \subseteq 1..6
    OBVIOUS
  <2> QED BY <2>1, <2>2
<1>15. Names("AppTrace") \subseteq F6 \cup {"unknown"}
  BY NamesOfTypes
<1>16. a6 \o x.unknown = b6 \o y.unknown /\ Len(a6 \o x.unknown) < Word64
  BY DEF Written, AppTrace_MarshalVT, PrefixedList
<1> HIDE DEF a6, b6, T6, F6
<1> QED BY <1>1, <1>2, <1>13, <1>14, <1>15, <1>16, MessagesTold

\* NatsMessage (WasmPluginApi_vtproto.pb.go:1111-1145).
LEMMA NatsTold ==
  ASSUME NEW x, NEW y, SoundFlat("NatsMessage", x), SoundFlat("NatsMessage", y),
         Written("NatsMessage", FALSE, x) = Written("NatsMessage", FALSE, y),
         Len(Written("NatsMessage", FALSE, x)) < Word64
  PROVE  x = y
<1>1. "NatsMessage" \in Types /\ Other("subject") /\ Other("reply_to") /\ Other("payload")
  BY TheOthers DEF Types
<1>2. SoundFlat("NatsMessage", x) /\ SoundFlat("NatsMessage", y)
  OBVIOUS
<1>3. /\ "subject" \in DOMAIN x /\ "subject" \in DOMAIN y
      /\ x["subject"] \in Seq(Byte) /\ y["subject"] \in Seq(Byte)
  BY <1>1, <1>2, SoundFields DEF Empty
<1>4. /\ "reply_to" \in DOMAIN x /\ "reply_to" \in DOMAIN y
      /\ x["reply_to"] \in Seq(Byte) /\ y["reply_to"] \in Seq(Byte)
  BY <1>1, <1>2, SoundFields DEF Empty
<1>5. /\ "payload" \in DOMAIN x /\ "payload" \in DOMAIN y
      /\ x["payload"] \in Seq(Byte) /\ y["payload"] \in Seq(Byte)
  BY <1>1, <1>2, SoundFields DEF Empty
<1> DEFINE a1 == NonEmpty(x, 1, "subject")
           b1 == NonEmpty(y, 1, "subject")
           T1 == {1}
           F1 == {"subject"}
<1>6. Tells(T1, a1, b1, x, y, F1)
  BY <1>3, NonEmptyTells
<1> DEFINE a2 == a1 \o NonEmpty(x, 2, "reply_to")
           b2 == b1 \o NonEmpty(y, 2, "reply_to")
           T2 == T1 \cup {2}
           F2 == F1 \cup {"reply_to"}
<1>7. Tells(T2, a2, b2, x, y, F2)
  <2>1. 2 \in 1..35 /\ 2 \notin T1
    OBVIOUS
  <2> HIDE DEF a1, b1, T1, F1
  <2> QED BY <1>4, <1>6, <2>1, ThenNonEmpty
<1> DEFINE a3 == a2 \o NonEmpty(x, 3, "payload")
           b3 == b2 \o NonEmpty(y, 3, "payload")
           T3 == T2 \cup {3}
           F3 == F2 \cup {"payload"}
<1>8. Tells(T3, a3, b3, x, y, F3)
  <2>1. 3 \in 1..35 /\ 3 \notin T2
    OBVIOUS
  <2> HIDE DEF a2, b2, T2, F2
  <2> QED BY <1>5, <1>7, <2>1, ThenNonEmpty
<1>9. T3 \subseteq DOMAIN Cases("NatsMessage")
  <2>1. 1..3 \subseteq DOMAIN Cases("NatsMessage")
    BY <1>1, CasesAreFields
  <2>2. T3 \subseteq 1..3
    OBVIOUS
  <2> QED BY <2>1, <2>2
<1>10. Names("NatsMessage") \subseteq F3 \cup {"unknown"}
  BY NamesOfTypes
<1>11. a3 \o x.unknown = b3 \o y.unknown /\ Len(a3 \o x.unknown) < Word64
  BY DEF Written, NatsMessage_MarshalVT
<1> HIDE DEF a3, b3, T3, F3
<1> QED BY <1>1, <1>2, <1>8, <1>9, <1>10, <1>11, MessagesTold

\* KeyVal (WasmPluginApi_vtproto.pb.go:868-895).
LEMMA KeyValsTold ==
  ASSUME NEW x, NEW y, SoundFlat("KeyVal", x), SoundFlat("KeyVal", y),
         Written("KeyVal", FALSE, x) = Written("KeyVal", FALSE, y),
         Len(Written("KeyVal", FALSE, x)) < Word64, x # Nil, y # Nil
  PROVE  x = y
<1>1. "KeyVal" \in Types /\ Other("key") /\ Other("val")
  BY TheOthers DEF Types
<1>2. SoundFlat("KeyVal", x) /\ SoundFlat("KeyVal", y)
  OBVIOUS
<1>3. "key" \in DOMAIN x /\ "key" \in DOMAIN y /\ x["key"] \in Seq(Byte) /\ y["key"] \in Seq(Byte)
  BY <1>1, <1>2, SoundFields DEF Empty
<1>4. "val" \in DOMAIN x /\ "val" \in DOMAIN y /\ x["val"] \in Seq(Byte) /\ y["val"] \in Seq(Byte)
  BY <1>1, <1>2, SoundFields DEF Empty
<1> DEFINE a1 == NonEmpty(x, 1, "key")
           b1 == NonEmpty(y, 1, "key")
           T1 == {1}
           F1 == {"key"}
<1>5. Tells(T1, a1, b1, x, y, F1)
  BY <1>3, NonEmptyTells
<1> DEFINE a2 == a1 \o NonEmpty(x, 2, "val")
           b2 == b1 \o NonEmpty(y, 2, "val")
           T2 == T1 \cup {2}
           F2 == F1 \cup {"val"}
<1>6. Tells(T2, a2, b2, x, y, F2)
  <2>1. 2 \in 1..35 /\ 2 \notin T1
    OBVIOUS
  <2> HIDE DEF a1, b1, T1, F1
  <2> QED BY <1>4, <1>5, <2>1, ThenNonEmpty
<1>7. T2 \subseteq DOMAIN Cases("KeyVal")
  <2>1. 1..2 \subseteq DOMAIN Cases("KeyVal")
    BY <1>1, CasesAreFields
  <2>2. T2 \subseteq 1..2
    OBVIOUS
  <2> QED BY <2>1, <2>2
<1>8. Names("KeyVal") \subseteq F2 \cup {"unknown"}
  BY NamesOfTypes
<1>9. a2 \o x.unknown = b2 \o y.unknown /\ Len(a2 \o x.unknown) < Word64
  BY DEF Written, KeyVal_MarshalVT
<1> HIDE DEF a2, b2, T2, F2
<1> QED BY <1>1, <1>2, <1>6, <1>7, <1>8, <1>9, MessagesTold

\* ZmtpMessage (WasmPluginApi_vtproto.pb.go:1165-1199).
LEMMA ZmtpTold ==
  ASSUME NEW x, NEW y, SoundFlat("ZmtpMessage", x), SoundFlat("ZmtpMessage", y),
         Written("ZmtpMessage", FALSE, x) = Written("ZmtpMessage", FALSE, y),
         Len(Written("ZmtpMessage", FALSE, x)) < Word64
  PROVE  x = y
<1>1. "ZmtpMessage" \in Types /\ Other("payload") /\ Other("match_pattern")
  BY TheOthers DEF Types
<1>2. SoundFlat("ZmtpMessage", x) /\ SoundFlat("ZmtpMessage", y)
  OBVIOUS
<1>3. /\ "payload" \in DOMAIN x /\ "payload" \in DOMAIN y
      /\ x["payload"] \in Seq(Byte) /\ y["payload"] \in Seq(Byte)
  BY <1>1, <1>2, SoundFields DEF Empty
<1>4. ("match_pattern" \in DOMAIN x => x["match_pattern"] \in Seq(Byte))
      /\ ("match_pattern" \in DOMAIN y => y["match_pattern"] \in Seq(Byte))
  BY <1>1, <1>2, SoundFields
<1> DEFINE a1 == NonEmpty(x, 2, "payload")
           b1 == NonEmpty(y, 2, "payload")
           T1 == {2}
           F1 == {"payload"}
<1>5. Tells(T1, a1, b1, x, y, F1)
  BY <1>3, NonEmptyTells
<1> DEFINE a2 == a1 \o Text(x, 1, "match_pattern")
           b2 == b1 \o Text(y, 1, "match_pattern")
           T2 == T1 \cup {1}
           F2 == F1 \cup {"match_pattern"}
<1>6. Tells(T2, a2, b2, x, y, F2)
  <2>1. 1 \in 1..35 /\ 1 \notin T1
    OBVIOUS
  <2> HIDE DEF a1, b1, T1, F1
  <2> QED BY <1>4, <1>5, <2>1, ThenText
<1>7. T2 \subseteq DOMAIN Cases("ZmtpMessage")
  <2>1. 1..2 \subseteq DOMAIN Cases("ZmtpMessage")
    BY <1>1, CasesAreFields
  <2>2. T2 \subseteq 1..2
    OBVIOUS
  <2> QED BY <2>1, <2>2
<1>8. Names("ZmtpMessage") \subseteq F2 \cup {"unknown"}
  BY NamesOfTypes
<1>9. a2 \o x.unknown = b2 \o y.unknown /\ Len(a2 \o x.unknown) < Word64
  BY DEF Written, ZmtpMessage_MarshalVT, Subscription, ZmtpMessage_MatchPattern_MarshalVT, Text
<1> HIDE DEF a2, b2, T2, F2
<1> QED BY <1>1, <1>2, <1>6, <1>7, <1>8, <1>9, MessagesTold

------------------------------------------------------------------------------
(* Messages with others in them *)

\* What is decoded has the types the writers take.
LEMMA SoundIsFlat ==
  ASSUME NEW type \in Types, NEW x, SoundFlat(type, x)
  PROVE  IsFlat(type, x)
<1>1. \A f \in Counts : f \in DOMAIN x => x[f] \in Int
  <2>1. ASSUME NEW f, NEW v, InRange(f, v) PROVE v \in Int
    BY <2>1, WordsOfNumbers
  <2> QED BY <2>1, SoundFields
<1>2. \A f \in DOMAIN x :
        f \notin Counts \cup Flags \cup Nested \cup {"trace_ids"} => x[f] \in Seq(Byte)
  BY SoundFields DEF Other
<1>3. \A f \in Flags : f \in DOMAIN x => x[f] \in BOOLEAN
  BY SoundFields
<1>4. /\ DOMAIN Empty(type) \subseteq DOMAIN x
      /\ ("trace_ids" \in DOMAIN x => x["trace_ids"] \in Seq(Seq(Byte)))
  BY SoundFields DEF IsBytesList
<1> QED BY <1>1, <1>2, <1>3, <1>4, Zenon DEF IsFlat

\* The types of messages without others in them.
FlatType(type) == type \in Types /\ type # "AppInfo"

\* Their encodings are bytes.
LEMMA FlatBytes ==
  ASSUME NEW type, FlatType(type), NEW x, SoundFlat(type, x)
  PROVE  Written(type, FALSE, x) \in Seq(Byte)
<1>1. IsMessage(type, x) /\ FALSE \in BOOLEAN /\ type \in Types
  BY SoundIsFlat DEF IsMessage, FlatType
<1>2. Sized(Written(type, FALSE, x), SizeVT(type, x))
  BY <1>1, WrittenIsSized
<1> QED BY <1>2 DEF Sized

\* Messages in which there are no others: the same bytes, the same message.
LEMMA FlatTold ==
  ASSUME NEW type, FlatType(type), NEW x, NEW y, SoundFlat(type, x), SoundFlat(type, y),
         x # Nil, y # Nil, Written(type, FALSE, x) = Written(type, FALSE, y),
         Len(Written(type, FALSE, x)) < Word64
  PROVE  x = y
<1>1. type \in {"AppRequest", "AppResponse", "AppTrace", "KeyVal", "NatsMessage", "ZmtpMessage"}
  BY DEF FlatType, Types
<1>2. CASE type = "AppRequest"
  BY <1>2, RequestsTold
<1>3. CASE type = "AppResponse"
  BY <1>3, ResponsesTold
<1>4. CASE type = "AppTrace"
  BY <1>4, TracesTold
<1>5. CASE type = "KeyVal"
  BY <1>5, KeyValsTold
<1>6. CASE type = "NatsMessage"
  BY <1>6, NatsTold
<1>7. CASE type = "ZmtpMessage"
  BY <1>7, ZmtpTold
<1> QED BY <1>1, <1>2, <1>3, <1>4, <1>5, <1>6, <1>7

\* A message in a field.
InnerPiece(num, f, m) ==
  IF f \in DOMAIN m THEN Prefixed(num, Written(TypeOf[f], FALSE, m[f])) ELSE <<>>

\* The message in field f, if there is one, is sound and no nil.
SoundInner(f, m) ==
  f \in DOMAIN m => FlatType(TypeOf[f]) /\ SoundFlat(TypeOf[f], m[f]) /\ m[f] # Nil

\* It is written as a length and its encoding, behind the field's tag.
LEMMA InnerAnnounced ==
  ASSUME NEW num \in 1..35, NEW f, NEW m, SoundInner(f, m), f \in DOMAIN m
  PROVE  /\ Piece({num}, InnerPiece(num, f, m)) /\ Announced({num}, InnerPiece(num, f, m))
         /\ InnerPiece(num, f, m) = Prefixed(num, Written(TypeOf[f], FALSE, m[f]))
         /\ Written(TypeOf[f], FALSE, m[f]) \in Seq(Byte)
<1> DEFINE p == Written(TypeOf[f], FALSE, m[f])
<1>1. p \in Seq(Byte)
  BY FlatBytes DEF SoundInner
<1>2. InnerPiece(num, f, m) = Prefixed(num, p)
  BY DEF InnerPiece
<1> HIDE DEF p
<1>3. Piece({num}, Prefixed(num, p)) /\ Announced({num}, Prefixed(num, p))
  BY <1>1, PieceOfPrefixed
<1> QED BY <1>1, <1>2, <1>3 DEF p

\* The message in a field, or that there is none, is told.
LEMMA InnerTells ==
  ASSUME NEW num \in 1..35, NEW f, NEW x, NEW y, SoundInner(f, x), SoundInner(f, y)
  PROVE  Tells({num}, InnerPiece(num, f, x), InnerPiece(num, f, y), x, y, {f})
<1>1. CASE f \in DOMAIN x /\ f \in DOMAIN y
  <2> DEFINE p == Written(TypeOf[f], FALSE, x[f])
             q == Written(TypeOf[f], FALSE, y[f])
  <2>1. /\ InnerPiece(num, f, x) = Prefixed(num, p) /\ InnerPiece(num, f, y) = Prefixed(num, q)
        /\ p \in Seq(Byte) /\ q \in Seq(Byte)
    BY <1>1, InnerAnnounced
  <2>2. ASSUME p = q, Len(p) < Word64 PROVE Agree(x, y, {f})
    <3>1. x[f] = y[f]
      BY <1>1, <2>2, FlatTold DEF SoundInner
    <3> QED BY <1>1, <3>1 DEF Agree
  <2> HIDE DEF p, q
  <2>3. p = q /\ Len(p) < Word64 => Agree(x, y, {f})
    BY <2>2
  <2> QED BY <2>1, <2>3, PrefixedTell
<1>2. CASE f \in DOMAIN x /\ f \notin DOMAIN y
  <2>1. Piece({num}, InnerPiece(num, f, x)) /\ Announced({num}, InnerPiece(num, f, x))
    BY <1>2, InnerAnnounced
  <2>2. InnerPiece(num, f, y) = <<>>
    BY <1>2 DEF InnerPiece
  <2> QED BY <2>1, <2>2, OneTells
<1>3. CASE f \notin DOMAIN x /\ f \in DOMAIN y
  <2>1. Piece({num}, InnerPiece(num, f, y)) /\ Announced({num}, InnerPiece(num, f, y))
    BY <1>3, InnerAnnounced
  <2>2. InnerPiece(num, f, x) = <<>>
    BY <1>3 DEF InnerPiece
  <2> QED BY <2>1, <2>2, OneTells
<1>4. CASE f \notin DOMAIN x /\ f \notin DOMAIN y
  <2>1. InnerPiece(num, f, x) = <<>> /\ InnerPiece(num, f, y) = <<>>
    BY <1>4 DEF InnerPiece
  <2>2. Agree(x, y, {f})
    BY <1>4 DEF Agree
  <2> QED BY <2>1, <2>2, NoneTells
<1> QED BY <1>1, <1>2, <1>3, <1>4

\* The messages in an AppInfo are ones it may hold, one in the oneof at most.
SoundInfo(m) ==
  /\ SoundFlat("AppInfo", m)
  /\ \A f \in Inner : SoundInner(f, m)
  /\ IsSequence(m.attributes)
  /\ \A k \in DOMAIN m.attributes :
       SoundFlat("KeyVal", m.attributes[k]) /\ m.attributes[k] # Nil

\* What is written of the oneof: field 10 or 11, or neither.
OneofPiece(m) ==
  IF "req" \in DOMAIN m THEN InnerPiece(10, "req", m) ELSE InnerPiece(11, "resp", m)

\* The writers write that.
LEMMA OneofIs ==
  ASSUME NEW m, SoundInfo(m)
  PROVE  Info(m) = OneofPiece(m) /\ ~("req" \in DOMAIN m /\ "resp" \in DOMAIN m)
<1>1. ~("req" \in DOMAIN m /\ "resp" \in DOMAIN m)
  BY DEF SoundInfo, SoundFlat, GoodFlat, Fits
<1>2. TypeOf["req"] = "AppRequest" /\ TypeOf["resp"] = "AppResponse"
  BY DEF TypeOf
<1>3. "req" \in DOMAIN m => m.req # Nil
  BY DEF SoundInfo, SoundInner, Inner
<1>4. "resp" \in DOMAIN m => m.resp # Nil
  BY DEF SoundInfo, SoundInner, Inner
<1>5. CASE "req" \in DOMAIN m
  <2>1. Info(m) = AppInfo_Req_MarshalVT(m.req)
    BY <1>5, <1>1 DEF Info
  <2>2. AppInfo_Req_MarshalVT(m.req) = Prefixed(10, AppRequest_MarshalVT(m.req))
    BY <1>3, <1>5 DEF AppInfo_Req_MarshalVT
  <2>3. Written("AppRequest", FALSE, m.req) = AppRequest_MarshalVT(m.req)
    BY DEF Written
  <2> QED BY <1>1, <1>2, <1>5, <2>1, <2>2, <2>3 DEF OneofPiece, InnerPiece
<1>6. CASE "req" \notin DOMAIN m /\ "resp" \in DOMAIN m
  <2>1. Info(m) = AppInfo_Resp_MarshalVT(m.resp)
    BY <1>6 DEF Info
  <2>2. AppInfo_Resp_MarshalVT(m.resp) = Prefixed(11, AppResponse_MarshalVT(m.resp))
    BY <1>4, <1>6 DEF AppInfo_Resp_MarshalVT
  <2>3. Written("AppResponse", FALSE, m.resp) = AppResponse_MarshalVT(m.resp)
    BY DEF Written
  <2> QED BY <1>1, <1>2, <1>6, <2>1, <2>2, <2>3 DEF OneofPiece, InnerPiece
<1>7. CASE "req" \notin DOMAIN m /\ "resp" \notin DOMAIN m
  BY <1>7 DEF Info, OneofPiece, InnerPiece
<1> QED BY <1>1, <1>5, <1>6, <1>7

\* The oneof tells which of its cases there is.
LEMMA OneofTells ==
  ASSUME NEW x, NEW y, SoundInfo(x), SoundInfo(y)
  PROVE  Tells({10, 11}, Info(x), Info(y), x, y, {"req", "resp"})
<1> DEFINE S == {10, 11}
           F == {"req", "resp"}
<1>1. /\ Info(x) = OneofPiece(x) /\ ~("req" \in DOMAIN x /\ "resp" \in DOMAIN x)
      /\ Info(y) = OneofPiece(y) /\ ~("req" \in DOMAIN y /\ "resp" \in DOMAIN y)
  BY OneofIs
<1>2. /\ SoundInner("req", x) /\ SoundInner("resp", x)
      /\ SoundInner("req", y) /\ SoundInner("resp", y)
  BY DEF SoundInfo, Inner
<1>3. S \subseteq 1..35 /\ {10} \subseteq S /\ {11} \subseteq S /\ 10 \in 1..35 /\ 11 \in 1..35
      /\ {10} \cap {11} = {} /\ {11} \cap {10} = {} /\ {10} \cup {11} = S /\ {11} \cup {10} = S
  OBVIOUS
<1> HIDE DEF S
<1>4. ASSUME NEW a, NEW b, Tells({10}, a, b, x, y, F) PROVE Tells(S, a, b, x, y, F)
  BY <1>3, <1>4, TellsMore
<1>5. ASSUME NEW a, NEW b, Tells({11}, a, b, x, y, F) PROVE Tells(S, a, b, x, y, F)
  BY <1>3, <1>5, TellsMore
<1>6. ASSUME NEW m, SoundInner("req", m), "req" \in DOMAIN m
      PROVE  Piece({10}, OneofPiece(m)) /\ Announced({10}, OneofPiece(m))
  BY <1>3, <1>6, InnerAnnounced DEF OneofPiece
<1>7. ASSUME NEW m, SoundInner("resp", m), "req" \notin DOMAIN m, "resp" \in DOMAIN m
      PROVE  Piece({11}, OneofPiece(m)) /\ Announced({11}, OneofPiece(m))
  BY <1>3, <1>7, InnerAnnounced DEF OneofPiece
<1>8. ASSUME NEW m, "req" \notin DOMAIN m, "resp" \notin DOMAIN m
      PROVE  OneofPiece(m) = <<>>
  BY <1>8 DEF OneofPiece, InnerPiece
<1>9. ASSUME NEW T, NEW a, NEW b, Tells(T, a, b, x, y, {"req"}),
             "resp" \notin DOMAIN x, "resp" \notin DOMAIN y
      PROVE  Tells(T, a, b, x, y, F)
  <2>1. Agree(x, y, {"req"}) => Agree(x, y, F)
    BY <1>9 DEF Agree
  <2> HIDE DEF F
  <2> QED BY <1>9, <2>1 DEF Tells
<1>10. ASSUME NEW T, NEW a, NEW b, Tells(T, a, b, x, y, {"resp"}),
             "req" \notin DOMAIN x, "req" \notin DOMAIN y
      PROVE  Tells(T, a, b, x, y, F)
  <2>1. Agree(x, y, {"resp"}) => Agree(x, y, F)
    BY <1>10 DEF Agree
  <2> HIDE DEF F
  <2> QED BY <1>10, <2>1 DEF Tells
<1> HIDE DEF F
<1>11. CASE "req" \in DOMAIN x /\ "req" \in DOMAIN y
  <2>1. Tells({10}, InnerPiece(10, "req", x), InnerPiece(10, "req", y), x, y, {"req"})
    BY <1>2, <1>3, InnerTells
  <2>2. OneofPiece(x) = InnerPiece(10, "req", x) /\ OneofPiece(y) = InnerPiece(10, "req", y)
    BY <1>11 DEF OneofPiece
  <2>3. Tells({10}, OneofPiece(x), OneofPiece(y), x, y, F)
    BY <1>1, <1>9, <1>11, <2>1, <2>2
  <2> QED BY <1>1, <1>4, <2>3 DEF S, F
<1>12. CASE "req" \notin DOMAIN x /\ "req" \notin DOMAIN y
  <2>1. Tells({11}, InnerPiece(11, "resp", x), InnerPiece(11, "resp", y), x, y, {"resp"})
    BY <1>2, <1>3, InnerTells
  <2>2. OneofPiece(x) = InnerPiece(11, "resp", x) /\ OneofPiece(y) = InnerPiece(11, "resp", y)
    BY <1>12 DEF OneofPiece
  <2>3. Tells({11}, OneofPiece(x), OneofPiece(y), x, y, F)
    BY <1>10, <1>12, <2>1, <2>2
  <2> QED BY <1>1, <1>5, <2>3 DEF S, F
<1>13. CASE "req" \in DOMAIN x /\ "req" \notin DOMAIN y
  <2>1. Piece({10}, OneofPiece(x)) /\ Announced({10}, OneofPiece(x))
    BY <1>2, <1>6, <1>13
  <2>2. CASE "resp" \in DOMAIN y
    <3>1. Piece({11}, OneofPiece(y)) /\ Announced({11}, OneofPiece(y))
      BY <1>2, <1>7, <1>13, <2>2
    <3>2. Tells({10} \cup {11}, OneofPiece(x), OneofPiece(y), x, y, F)
      BY <1>3, <2>1, <3>1, OthersTell
    <3> QED BY <1>1, <1>3, <3>2 DEF S, F
  <2>3. CASE "resp" \notin DOMAIN y
    <3>1. Tells({10}, OneofPiece(x), OneofPiece(y), x, y, F)
      BY <1>8, <1>13, <2>1, <2>3, OneTells
    <3> QED BY <1>1, <1>4, <3>1 DEF S, F
  <2> QED BY <2>2, <2>3
<1>14. CASE "req" \notin DOMAIN x /\ "req" \in DOMAIN y
  <2>1. Piece({10}, OneofPiece(y)) /\ Announced({10}, OneofPiece(y))
    BY <1>2, <1>6, <1>14
  <2>2. CASE "resp" \in DOMAIN x
    <3>1. Piece({11}, OneofPiece(x)) /\ Announced({11}, OneofPiece(x))
      BY <1>2, <1>7, <1>14, <2>2
    <3>2. Tells({11} \cup {10}, OneofPiece(x), OneofPiece(y), x, y, F)
      BY <1>3, <2>1, <3>1, OthersTell
    <3> QED BY <1>1, <1>3, <3>2 DEF S, F
  <2>3. CASE "resp" \notin DOMAIN x
    <3>1. Tells({10}, OneofPiece(x), OneofPiece(y), x, y, F)
      BY <1>8, <1>14, <2>1, <2>3, OneTells
    <3> QED BY <1>1, <1>4, <3>1 DEF S, F
  <2> QED BY <2>2, <2>3
<1> QED BY <1>11, <1>12, <1>13, <1>14

\* The encodings of the attributes.
KeyValBytes(m) == [k \in DOMAIN m.attributes |-> KeyVal_MarshalVT(m.attributes[k])]

\* The list of attributes.
LEMMA AttributesTell ==
  ASSUME NEW x, NEW y, SoundInfo(x), SoundInfo(y)
  PROVE  Tells({31}, FlattenSeq(PrefixedList(31, KeyValBytes(x))),
                     FlattenSeq(PrefixedList(31, KeyValBytes(y))), x, y, {"attributes"})
<1> DEFINE a == KeyValBytes(x)
           b == KeyValBytes(y)
<1>1. ASSUME NEW m, SoundInfo(m)
      PROVE  /\ IsBytesList(KeyValBytes(m)) /\ DOMAIN KeyValBytes(m) = DOMAIN m.attributes
             /\ \A k \in DOMAIN m.attributes :
                  KeyValBytes(m)[k] = Written("KeyVal", FALSE, m.attributes[k])
  <2>1. FlatType("KeyVal")
    BY DEF FlatType, Types
  <2>2. \A k \in DOMAIN m.attributes : SoundFlat("KeyVal", m.attributes[k])
    BY <1>1 DEF SoundInfo
  <2>3. \A k \in DOMAIN m.attributes : Written("KeyVal", FALSE, m.attributes[k]) \in Seq(Byte)
    BY <2>1, <2>2, FlatBytes
  <2>4. \A n : Written("KeyVal", FALSE, n) = KeyVal_MarshalVT(n)
    BY DEF Written
  <2>5. KeyValBytes(m) = [k \in DOMAIN m.attributes |-> Written("KeyVal", FALSE, m.attributes[k])]
    BY <2>4 DEF KeyValBytes
  <2> DEFINE S == Seq(Byte)
  <2>6. IsSequence(m.attributes)
    BY <1>1 DEF SoundInfo
  <2>7. PICK n \in Nat : DOMAIN m.attributes = 1..n
    BY <2>6 DEF IsSequence
  <2>8. \A k \in 1..n : Written("KeyVal", FALSE, m.attributes[k]) \in S
    BY <2>3, <2>7
  <2> HIDE DEF S
  <2>9. [k \in 1..n |-> Written("KeyVal", FALSE, m.attributes[k])] \in [1..n -> S]
    BY <2>8, Zenon
  <2> DEFINE g == KeyValBytes(m)
  <2>11. g \in [1..n -> S]
    BY <2>5, <2>7, <2>9, Zenon
  <2> HIDE DEF g
  <2>12. g \in Seq(S)
    BY <2>7, <2>11
  <2>10. KeyValBytes(m) \in Seq(S)
    BY <2>12 DEF g
  <2> QED BY <2>5, <2>10 DEF IsBytesList, S
<1>2. 31 \in 1..35 /\ IsBytesList(a) /\ IsBytesList(b)
  <2>1. IsBytesList(a) /\ IsBytesList(b)
    BY <1>1, Zenon
  <2> QED BY <2>1
<1>3. ASSUME a = b, \A k \in DOMAIN a : Len(a[k]) < Word64
      PROVE  Agree(x, y, {"attributes"})
  <2>1. DOMAIN x.attributes = DOMAIN y.attributes /\ DOMAIN a = DOMAIN x.attributes
    BY <1>1, <1>3
  <2>2. ASSUME NEW k \in DOMAIN x.attributes PROVE x.attributes[k] = y.attributes[k]
    <3>1. /\ a[k] = Written("KeyVal", FALSE, x.attributes[k])
          /\ b[k] = Written("KeyVal", FALSE, y.attributes[k])
      BY <1>1, <2>1
    <3>2. Len(a[k]) < Word64 /\ a[k] = b[k]
      BY <1>3, <2>1
    <3>3. /\ SoundFlat("KeyVal", x.attributes[k]) /\ x.attributes[k] # Nil
          /\ SoundFlat("KeyVal", y.attributes[k]) /\ y.attributes[k] # Nil
      BY <2>1 DEF SoundInfo
    <3> HIDE DEF a, b
    <3>4. FlatType("KeyVal")
      BY DEF FlatType, Types
    <3>5. /\ Written("KeyVal", FALSE, x.attributes[k]) = Written("KeyVal", FALSE, y.attributes[k])
          /\ Len(Written("KeyVal", FALSE, x.attributes[k])) < Word64
      BY <3>1, <3>2
    <3> QED BY <3>3, <3>4, <3>5, FlatTold
  <2>3. IsSequence(x.attributes) /\ IsSequence(y.attributes)
    BY DEF SoundInfo
  <2>4. x.attributes = y.attributes
    BY <2>1, <2>2, <2>3 DEF IsSequence
  <2>5. "attributes" \in DOMAIN x /\ "attributes" \in DOMAIN y
    BY AlwaysAttributes DEF SoundInfo, SoundFlat, GoodFlat
  <2> QED BY <2>4, <2>5 DEF Agree
<1> HIDE DEF a, b
<1>4. a = b /\ (\A k \in DOMAIN a : Len(a[k]) < Word64) => Agree(x, y, {"attributes"})
  BY <1>3
<1> QED BY <1>2, <1>4, ListTells DEF a, b

\* What an AppInfo holds besides.
LEMMA InfoFields ==
  ASSUME NEW x, SoundInfo(x)
  PROVE  /\ \A f \in {"protocol_str", "biz_code", "biz_scenario", "biz_response_code"} :
              f \in DOMAIN x => x[f] \in Seq(Byte)
         /\ \A f \in {"req_len", "resp_len", "request_id", "biz_type"} :
              f \in DOMAIN x => InRange(f, x[f])
         /\ \A f \in {"is_end", "is_async", "is_reversed"} : f \in DOMAIN x => x[f] \in BOOLEAN
<1>1. "AppInfo" \in Types /\ SoundFlat("AppInfo", x)
  BY DEF Types, SoundInfo
<1>2. /\ Other("protocol_str") /\ Other("biz_code")
      /\ Other("biz_scenario") /\ Other("biz_response_code")
  BY TheOthers
<1>3. /\ {"req_len", "resp_len", "request_id", "biz_type"} \subseteq Counts
      /\ {"is_end", "is_async", "is_reversed"} \subseteq Flags
  BY DEF Counts, Flags
<1>4. \A f : Other(f) /\ f \in DOMAIN x => x[f] \in Seq(Byte)
  BY <1>1, SoundFields
<1>5. \A f \in Counts : f \in DOMAIN x => InRange(f, x[f])
  BY <1>1, SoundFields
<1>6. \A f \in Flags : f \in DOMAIN x => x[f] \in BOOLEAN
  BY <1>1, SoundFields
<1> QED BY <1>2, <1>3, <1>4, <1>5, <1>6

\* Fields 1 to 3.
LEMMA LengthsTell ==
  ASSUME NEW x, NEW y, SoundInfo(x), SoundInfo(y)
  PROVE  Tells({1, 2, 3}, Lengths(x), Lengths(y), x, y, {"req_len", "resp_len", "request_id"})
<1>1. ("req_len" \in DOMAIN x => InRange("req_len", x["req_len"]))
      /\ ("req_len" \in DOMAIN y => InRange("req_len", y["req_len"]))
  BY InfoFields
<1>2. ("resp_len" \in DOMAIN x => InRange("resp_len", x["resp_len"]))
      /\ ("resp_len" \in DOMAIN y => InRange("resp_len", y["resp_len"]))
  BY InfoFields
<1>3. ("request_id" \in DOMAIN x => InRange("request_id", x["request_id"]))
      /\ ("request_id" \in DOMAIN y => InRange("request_id", y["request_id"]))
  BY InfoFields
<1> DEFINE a1 == Number(x, 1, "req_len")
           b1 == Number(y, 1, "req_len")
           T1 == {1}
           F1 == {"req_len"}
<1>4. Tells(T1, a1, b1, x, y, F1)
  BY <1>1, NumberTells
<1> DEFINE a2 == a1 \o Number(x, 2, "resp_len")
           b2 == b1 \o Number(y, 2, "resp_len")
           T2 == T1 \cup {2}
           F2 == F1 \cup {"resp_len"}
<1>5. Tells(T2, a2, b2, x, y, F2)
  <2>1. 2 \in 1..35 /\ 2 \notin T1 /\ T1 \cap {2} = {}
    OBVIOUS
  <2> HIDE DEF a1, b1, T1, F1
  <2> QED BY <1>2, <1>4, <2>1, ThenNumber
<1> DEFINE a3 == a2 \o Number(x, 3, "request_id")
           b3 == b2 \o Number(y, 3, "request_id")
           T3 == T2 \cup {3}
           F3 == F2 \cup {"request_id"}
<1>6. Tells(T3, a3, b3, x, y, F3)
  <2>1. 3 \in 1..35 /\ 3 \notin T2 /\ T2 \cap {3} = {}
    OBVIOUS
  <2> HIDE DEF a2, b2, T2, F2
  <2> QED BY <1>3, <1>5, <2>1, ThenNumber
<1>7. T3 = {1, 2, 3} /\ F3 = {"req_len", "resp_len", "request_id"}
  OBVIOUS
<1>8. Lengths(x) = a3 /\ Lengths(y) = b3
  BY DEF Lengths
<1> HIDE DEF a3, b3, T3, F3
<1> QED BY <1>6, <1>7, <1>8

\* The fields of an AppInfo that MarshalVT writes between the lengths and the oneof.
RestNumbers == {12, 13, 21, 22, 23, 31, 32, 33, 34, 35}

\* Their names.
RestFields == {"trace", "protocol_str", "is_end", "is_async", "is_reversed", "attributes",
              "biz_type", "biz_code", "biz_scenario", "biz_response_code"}

\* The trace is written as the message in its field.
LEMMA TraceIs ==
  ASSUME NEW m
  PROVE  (IF "trace" \in DOMAIN m THEN Prefixed(12, AppTrace_MarshalVT(m.trace)) ELSE <<>>)
           = InnerPiece(12, "trace", m)
<1>1. TypeOf["trace"] = "AppTrace"
  BY DEF TypeOf
<1>2. \A n : Written("AppTrace", FALSE, n) = AppTrace_MarshalVT(n)
  BY DEF Written
<1> QED BY <1>1, <1>2 DEF InnerPiece

\* The attributes are written as a list.
LEMMA AttributesIs ==
  ASSUME NEW m
  PROVE  [k \in DOMAIN m.attributes |-> Prefixed(31, KeyVal_MarshalVT(m.attributes[k]))]
           = PrefixedList(31, KeyValBytes(m))
<1>1. DOMAIN KeyValBytes(m) = DOMAIN m.attributes
  BY DEF KeyValBytes
<1>2. \A k \in DOMAIN m.attributes : KeyValBytes(m)[k] = KeyVal_MarshalVT(m.attributes[k])
  BY DEF KeyValBytes
<1> QED BY <1>1, <1>2 DEF PrefixedList

\* Fields 12 to 35.
LEMMA RestTells ==
  ASSUME NEW x, NEW y, SoundInfo(x), SoundInfo(y)
  PROVE  Tells(RestNumbers, Rest(x), Rest(y), x, y, RestFields)
<1>1. ("protocol_str" \in DOMAIN x => x["protocol_str"] \in Seq(Byte))
      /\ ("protocol_str" \in DOMAIN y => y["protocol_str"] \in Seq(Byte))
  BY InfoFields
<1>2. ("is_end" \in DOMAIN x => x["is_end"] \in BOOLEAN)
      /\ ("is_end" \in DOMAIN y => y["is_end"] \in BOOLEAN)
  BY InfoFields
<1>3. ("is_async" \in DOMAIN x => x["is_async"] \in BOOLEAN)
      /\ ("is_async" \in DOMAIN y => y["is_async"] \in BOOLEAN)
  BY InfoFields
<1>4. ("is_reversed" \in DOMAIN x => x["is_reversed"] \in BOOLEAN)
      /\ ("is_reversed" \in DOMAIN y => y["is_reversed"] \in BOOLEAN)
  BY InfoFields
<1>5. ("biz_type" \in DOMAIN x => InRange("biz_type", x["biz_type"]))
      /\ ("biz_type" \in DOMAIN y => InRange("biz_type", y["biz_type"]))
  BY InfoFields
<1>6. ("biz_code" \in DOMAIN x => x["biz_code"] \in Seq(Byte))
      /\ ("biz_code" \in DOMAIN y => y["biz_code"] \in Seq(Byte))
  BY InfoFields
<1>7. ("biz_scenario" \in DOMAIN x => x["biz_scenario"] \in Seq(Byte))
      /\ ("biz_scenario" \in DOMAIN y => y["biz_scenario"] \in Seq(Byte))
  BY InfoFields
<1>8. ("biz_response_code" \in DOMAIN x => x["biz_response_code"] \in Seq(Byte))
      /\ ("biz_response_code" \in DOMAIN y => y["biz_response_code"] \in Seq(Byte))
  BY InfoFields
<1> DEFINE a1 == InnerPiece(12, "trace", x)
           b1 == InnerPiece(12, "trace", y)
           T1 == {12}
           F1 == {"trace"}
<1>9. Tells(T1, a1, b1, x, y, F1)
  BY InnerTells DEF SoundInfo, Inner
<1> DEFINE a2 == a1 \o Text(x, 13, "protocol_str")
           b2 == b1 \o Text(y, 13, "protocol_str")
           T2 == T1 \cup {13}
           F2 == F1 \cup {"protocol_str"}
<1>10. Tells(T2, a2, b2, x, y, F2)
  <2>1. 13 \in 1..35 /\ 13 \notin T1 /\ T1 \cap {13} = {}
    OBVIOUS
  <2> HIDE DEF a1, b1, T1, F1
  <2> QED BY <1>1, <1>9, <2>1, ThenText
<1> DEFINE a3 == a2 \o Bool(x, 21, "is_end")
           b3 == b2 \o Bool(y, 21, "is_end")
           T3 == T2 \cup {21}
           F3 == F2 \cup {"is_end"}
<1>11. Tells(T3, a3, b3, x, y, F3)
  <2>1. 21 \in 1..35 /\ 21 \notin T2 /\ T2 \cap {21} = {}
    OBVIOUS
  <2> HIDE DEF a2, b2, T2, F2
  <2> QED BY <1>2, <1>10, <2>1, ThenBool
<1> DEFINE a4 == a3 \o Bool(x, 22, "is_async")
           b4 == b3 \o Bool(y, 22, "is_async")
           T4 == T3 \cup {22}
           F4 == F3 \cup {"is_async"}
<1>12. Tells(T4, a4, b4, x, y, F4)
  <2>1. 22 \in 1..35 /\ 22 \notin T3 /\ T3 \cap {22} = {}
    OBVIOUS
  <2> HIDE DEF a3, b3, T3, F3
  <2> QED BY <1>3, <1>11, <2>1, ThenBool
<1> DEFINE a5 == a4 \o Bool(x, 23, "is_reversed")
           b5 == b4 \o Bool(y, 23, "is_reversed")
           T5 == T4 \cup {23}
           F5 == F4 \cup {"is_reversed"}
<1>13. Tells(T5, a5, b5, x, y, F5)
  <2>1. 23 \in 1..35 /\ 23 \notin T4 /\ T4 \cap {23} = {}
    OBVIOUS
  <2> HIDE DEF a4, b4, T4, F4
  <2> QED BY <1>4, <1>12, <2>1, ThenBool
<1> DEFINE a6 == a5 \o FlattenSeq(PrefixedList(31, KeyValBytes(x)))
           b6 == b5 \o FlattenSeq(PrefixedList(31, KeyValBytes(y)))
           T6 == T5 \cup {31}
           F6 == F5 \cup {"attributes"}
<1>14. Tells(T6, a6, b6, x, y, F6)
  <2>1. 31 \in 1..35 /\ 31 \notin T5 /\ T5 \cap {31} = {}
    OBVIOUS
  <2> HIDE DEF a5, b5, T5, F5
  <2>2. Tells({31}, FlattenSeq(PrefixedList(31, KeyValBytes(x))),
                     FlattenSeq(PrefixedList(31, KeyValBytes(y))), x, y, {"attributes"})
    BY AttributesTell
  <2> QED BY <1>13, <2>1, <2>2, TellsThen
<1> DEFINE a7 == a6 \o Number(x, 32, "biz_type")
           b7 == b6 \o Number(y, 32, "biz_type")
           T7 == T6 \cup {32}
           F7 == F6 \cup {"biz_type"}
<1>15. Tells(T7, a7, b7, x, y, F7)
  <2>1. 32 \in 1..35 /\ 32 \notin T6 /\ T6 \cap {32} = {}
    OBVIOUS
  <2> HIDE DEF a6, b6, T6, F6
  <2> QED BY <1>5, <1>14, <2>1, ThenNumber
<1> DEFINE a8 == a7 \o Text(x, 33, "biz_code")
           b8 == b7 \o Text(y, 33, "biz_code")
           T8 == T7 \cup {33}
           F8 == F7 \cup {"biz_code"}
<1>16. Tells(T8, a8, b8, x, y, F8)
  <2>1. 33 \in 1..35 /\ 33 \notin T7 /\ T7 \cap {33} = {}
    OBVIOUS
  <2> HIDE DEF a7, b7, T7, F7
  <2> QED BY <1>6, <1>15, <2>1, ThenText
<1> DEFINE a9 == a8 \o Text(x, 34, "biz_scenario")
           b9 == b8 \o Text(y, 34, "biz_scenario")
           T9 == T8 \cup {34}
           F9 == F8 \cup {"biz_scenario"}
<1>17. Tells(T9, a9, b9, x, y, F9)
  <2>1. 34 \in 1..35 /\ 34 \notin T8 /\ T8 \cap {34} = {}
    OBVIOUS
  <2> HIDE DEF a8, b8, T8, F8
  <2> QED BY <1>7, <1>16, <2>1, ThenText
<1> DEFINE a10 == a9 \o Text(x, 35, "biz_response_code")
           b10 == b9 \o Text(y, 35, "biz_response_code")
           T10 == T9 \cup {35}
           F10 == F9 \cup {"biz_response_code"}
<1>18. Tells(T10, a10, b10, x, y, F10)
  <2>1. 35 \in 1..35 /\ 35 \notin T9 /\ T9 \cap {35} = {}
    OBVIOUS
  <2> HIDE DEF a9, b9, T9, F9
  <2> QED BY <1>8, <1>17, <2>1, ThenText
<1>19. T10 = RestNumbers /\ F10 = RestFields
  BY DEF RestNumbers, RestFields
<1>20. Rest(x) = a10 /\ Rest(y) = b10
  <2> DEFINE L(m) == [k \in DOMAIN m.attributes |-> Prefixed(31, KeyVal_MarshalVT(m.attributes[k]))]
             I(m) == IF "trace" \in DOMAIN m THEN Prefixed(12, AppTrace_MarshalVT(m.trace)) ELSE <<>>
             R(m, i, c) == i \o Text(m, 13, "protocol_str")
               \o Bool(m, 21, "is_end") \o Bool(m, 22, "is_async") \o Bool(m, 23, "is_reversed")
               \o FlattenSeq(c)
               \o Number(m, 32, "biz_type") \o Text(m, 33, "biz_code")
               \o Text(m, 34, "biz_scenario") \o Text(m, 35, "biz_response_code")
  <2>1. Rest(x) = R(x, I(x), L(x)) /\ Rest(y) = R(y, I(y), L(y))
    BY DEF Rest
  <2>2. L(x) = PrefixedList(31, KeyValBytes(x)) /\ L(y) = PrefixedList(31, KeyValBytes(y))
    BY AttributesIs
  <2>3. I(x) = InnerPiece(12, "trace", x) /\ I(y) = InnerPiece(12, "trace", y)
    BY TraceIs
  <2>4. /\ a10 = R(x, InnerPiece(12, "trace", x), PrefixedList(31, KeyValBytes(x)))
        /\ b10 = R(y, InnerPiece(12, "trace", y), PrefixedList(31, KeyValBytes(y)))
    OBVIOUS
  <2> HIDE DEF R, I, L, a10, b10
  <2> QED BY <2>1, <2>2, <2>3, <2>4
<1> HIDE DEF a10, b10, T10, F10
<1> QED BY <1>18, <1>19, <1>20

\* Messages with others in them.
LEMMA InfoTold ==
  ASSUME NEW x, NEW y, SoundInfo(x), SoundInfo(y),
         Written("AppInfo", FALSE, x) = Written("AppInfo", FALSE, y),
         Len(Written("AppInfo", FALSE, x)) < Word64
  PROVE  x = y
<1> DEFINE T1 == {1, 2, 3}
           F1 == {"req_len", "resp_len", "request_id"}
           T2 == T1 \cup RestNumbers
           F2 == F1 \cup RestFields
           T3 == T2 \cup {10, 11}
           F3 == F2 \cup {"req", "resp"}
           a2 == Lengths(x) \o Rest(x)
           b2 == Lengths(y) \o Rest(y)
           a3 == a2 \o Info(x)
           b3 == b2 \o Info(y)
<1>1. Tells(T1, Lengths(x), Lengths(y), x, y, F1)
  BY LengthsTell
<1>2. Tells(T2, a2, b2, x, y, F2)
  <2>1. Tells(RestNumbers, Rest(x), Rest(y), x, y, RestFields)
    BY RestTells
  <2>2. T1 \cap RestNumbers = {}
    BY DEF RestNumbers
  <2> HIDE DEF T1, F1
  <2> QED BY <1>1, <2>1, <2>2, TellsThen
<1>3. Tells(T3, a3, b3, x, y, F3)
  <2>1. Tells({10, 11}, Info(x), Info(y), x, y, {"req", "resp"})
    BY OneofTells
  <2>2. T2 \cap {10, 11} = {}
    BY DEF RestNumbers
  <2> HIDE DEF T2, F2, a2, b2
  <2> QED BY <1>2, <2>1, <2>2, TellsThen
<1>4. "AppInfo" \in Types /\ SoundFlat("AppInfo", x) /\ SoundFlat("AppInfo", y)
  BY DEF Types, SoundInfo
<1>5. T3 \subseteq DOMAIN Cases("AppInfo")
  <2>1. 1..3 \cup 10..13 \cup 21..23 \cup 31..35 \subseteq DOMAIN Cases("AppInfo")
    BY <1>4, CasesAreFields
  <2>2. T3 \subseteq 1..3 \cup 10..13 \cup 21..23 \cup 31..35
    BY DEF RestNumbers
  <2> QED BY <2>1, <2>2
<1>6. Names("AppInfo") \subseteq F3 \cup {"unknown"}
  BY NamesOfTypes DEF RestFields
<1>7. a3 \o x.unknown = b3 \o y.unknown /\ Len(a3 \o x.unknown) < Word64
  BY DEF Written, AppInfo_MarshalVT
<1> HIDE DEF a3, b3, T3, F3
<1> QED BY <1>3, <1>4, <1>5, <1>6, <1>7, MessagesTold

\* A message whose text is bytes, whose numbers are in the range of their types and
\* whose unknownFields the decoder would keep, with no nil in it.
Sound(type, m) ==
  type \in Types /\ IF type = "AppInfo" THEN SoundInfo(m) ELSE SoundFlat(type, m) /\ m # Nil

\* No two messages are written as the same bytes, as long as the length of those
\* fits in a word: the fields come in one order, a tag tells which one it is, a
\* length where it ends, and unknown fields, which come last, have no number of
\* the type's own (WasmPluginApi_vtproto.pb.go:634-1208).
THEOREM WrittenTellsMessages ==
  ASSUME NEW type, NEW x, NEW y, Sound(type, x), Sound(type, y),
         Written(type, FALSE, x) = Written(type, FALSE, y),
         Len(Written(type, FALSE, x)) < Word64
  PROVE  x = y
<1>1. CASE type = "AppInfo"
  BY <1>1, InfoTold DEF Sound
<1>2. CASE type # "AppInfo"
  BY <1>2, FlatTold DEF Sound, FlatType
<1> QED BY <1>1, <1>2

------------------------------------------------------------------------------
(* What the decoder keeps of fields it does not know *)

\* Behind the tag at q, or nowhere.
AheadOf(r, q) == r = -1 \/ (VarintOk(q) /\ r \in Int /\ r >= After(q))

\* One round of the loop goes ahead.
LEMMA OneSkip ==
  ASSUME BoundsInv, NEW f, NEW q \in 0..Len(buf), NEW d \in Nat,
         \A r \in 0..Len(buf), e \in Nat : r > q => AheadOf(f[r][e], r)
  PROVE  AheadOf(Skipping(f, q, d), q)
<1>0. l \in Nat /\ l <= Len(buf) /\ Len(buf) \in Nat
  BY BufferEnds
<1>1. CASE q >= l \/ ~VarintOk(q)
  BY <1>1 DEF Skipping, AheadOf
<1>2. CASE ~(q >= l) /\ VarintOk(q)
  <2> DEFINE w == Varint(q) % 8
             n == After(q)
             o == After(n)
             s == Signed32(Varint(n))
  <2>1. n \in Nat /\ n > q /\ w \in 0..7 /\ q \in Nat
    BY <1>2, VarintFacts
  <2>2. VarintOk(n) => o \in Nat /\ o > n /\ s \in Int
    BY <2>1, VarintFacts
  <2>3. Skipping(f, q, d) = SkipBy(f, w, n, d)
    BY <1>2 DEF Skipping
  <2> DEFINE Fits1(r) == r = -1 \/ (r \in Int /\ r >= n)
  <2>4. ASSUME NEW r \in Int, r >= n, NEW e \in Nat PROVE Fits1(Onward(f, r, e))
    <3>1. CASE e = 0 \/ r >= l
      BY <2>1, <2>4, <3>1 DEF Onward
    <3>2. CASE ~(e = 0 \/ r >= l)
      <4>1. r \in 0..Len(buf) /\ r > q /\ r \in Nat
        BY <1>0, <2>1, <2>4, <3>2
      <4>2. Onward(f, r, e) = f[r][e]
        BY <3>2, <4>1 DEF Onward
      <4>3. f[r][e] = -1 \/ (VarintOk(r) /\ f[r][e] \in Int /\ f[r][e] >= After(r))
        BY <4>1 DEF AheadOf
      <4>4. VarintOk(r) => After(r) > r /\ After(r) \in Nat
        BY <4>1, VarintFacts
      <4> HIDE DEF n
      <4> QED BY <2>1, <2>4, <4>1, <4>2, <4>3, <4>4
    <3> QED BY <3>1, <3>2
  <2>5. Fits1(SkipBy(f, w, n, d))
    <3> HIDE DEF w, n, Fits1
    <3>0. Fits1(-1)
      BY DEF Fits1
    <3>1. CASE w = 0
      <4>1. SkipBy(f, w, n, d) = IF VarintOk(n) THEN Onward(f, o, d) ELSE -1
        BY <3>1 DEF SkipBy
      <4>2. VarintOk(n) => Fits1(Onward(f, o, d))
        <5> HIDE DEF o, s
        <5> QED BY <2>1, <2>2, <2>4
      <4> QED BY <3>0, <4>1, <4>2
    <3>2. CASE w = 1
      <4>1. SkipBy(f, w, n, d) = Onward(f, n + 8, d)
        BY <3>2 DEF SkipBy
      <4>2. n + 8 \in Int /\ n + 8 >= n
        BY <2>1
      <4> QED BY <2>4, <4>1, <4>2
    <3>3. CASE w = 2
      <4>1. SkipBy(f, w, n, d) = IF VarintOk(n) /\ s >= 0 THEN Onward(f, o + s, d) ELSE -1
        BY <3>3 DEF SkipBy
      <4> HIDE DEF o, s
      <4>2. VarintOk(n) /\ s >= 0 => o + s \in Int /\ o + s >= n
        BY <2>1, <2>2
      <4>3. VarintOk(n) /\ s >= 0 => Fits1(Onward(f, o + s, d))
        BY <2>4, <4>2
      <4> QED BY <3>0, <4>1, <4>3
    <3>4. CASE w = 3
      <4>1. SkipBy(f, w, n, d) = Onward(f, n, d + 1)
        BY <3>4 DEF SkipBy
      <4>2. d + 1 \in Nat /\ n \in Int /\ n >= n
        BY <2>1
      <4> QED BY <2>4, <4>1, <4>2
    <3>5. CASE w = 4
      <4>1. SkipBy(f, w, n, d) = IF d = 0 THEN -1 ELSE Onward(f, n, d - 1)
        BY <3>5 DEF SkipBy
      <4>2. (d # 0 => d - 1 \in Nat) /\ n \in Int /\ n >= n
        BY <2>1
      <4>3. d # 0 => Fits1(Onward(f, n, d - 1))
        BY <2>4, <4>2
      <4> QED BY <3>0, <4>1, <4>3
    <3>6. CASE w = 5
      <4>1. SkipBy(f, w, n, d) = Onward(f, n + 4, d)
        BY <3>6 DEF SkipBy
      <4>2. n + 4 \in Int /\ n + 4 >= n
        BY <2>1
      <4> QED BY <2>4, <4>1, <4>2
    <3>7. CASE w \in {6, 7}
      <4>0. w # 0 /\ w # 1 /\ w # 2 /\ w # 3 /\ w # 4 /\ w # 5
        BY <3>7
      <4>1. SkipBy(f, w, n, d) = -1
        BY <4>0, Zenon DEF SkipBy
      <4> QED BY <3>0, <4>1
    <3> QED BY <2>1, <3>1, <3>2, <3>3, <3>4, <3>5, <3>6, <3>7
  <2> QED BY <1>2, <2>3, <2>5 DEF AheadOf
<1> QED BY <1>1, <1>2

\* What is skipped holds at least the tag.
LEMMA SkipsForward ==
  ASSUME BoundsInv, NEW p \in 0..Len(buf)
  PROVE  AheadOf(Skip(p), p)
<1>0. Len(buf) \in Nat
  BY BufferEnds
<1>1. PICK f :
        /\ \A q \in 0..Len(buf), d \in Nat : f[q][d] = Skipping(f, q, d)
        /\ \A q \in 0..Len(buf) : Skip(q) = f[q][0]
  BY SkipIs
<1> DEFINE N == Len(buf)
           Fits1(q) == \A d \in Nat : AheadOf(f[q][d], q)
           T == {i \in Nat : \A q \in 0..N : N - q < i => Fits1(q)}
<1>2. 0 \in T
  BY <1>0
<1>3. ASSUME NEW i \in Nat, i \in T PROVE i + 1 \in T
  <2>1. ASSUME NEW q \in 0..N, N - q < i + 1 PROVE Fits1(q)
    <3>1. \A r \in 0..N : r > q => Fits1(r)
      BY <1>0, <1>3, <2>1
    <3>2. \A r \in 0..N, e \in Nat : r > q => AheadOf(f[r][e], r)
      BY <3>1
    <3>3. \A d \in Nat : AheadOf(Skipping(f, q, d), q)
      BY <1>1, <2>1, <3>2, OneSkip
    <3>4. \A d \in Nat : f[q][d] = Skipping(f, q, d)
      BY <1>1, <2>1
    <3> QED BY <3>3, <3>4
  <2> HIDE DEF Fits1
  <2> QED BY <2>1
<1>4. N - p < N + 1 /\ N + 1 \in Nat /\ p \in 0..N
  BY <1>0
<1>5. \A i \in Nat : i \in T
  <2> HIDE DEF T
  <2> QED BY <1>2, <1>3, NaturalInduction
<1>6. Fits1(p)
  <2>1. N + 1 \in T
    <3> HIDE DEF T
    <3> QED BY <1>4, <1>5
  <2> HIDE DEF Fits1
  <2> QED BY <1>4, <2>1
<1> QED BY <1>1, <1>6

\* One such field behind the other.
LEMMA ForeignMore ==
  ASSUME NEW T, NEW u \in Seq(Byte), NEW v \in Seq(Byte), Foreign(T, u), Foreign(T, v)
  PROVE  Foreign(T, u \o v)
<1>1. CASE u = <<>>
  <2>1. u \o v = v
    BY <1>1
  <2> QED BY <2>1
<1>2. CASE u # <<>>
  <2>1. ASSUME NEW t \in Seq(Byte) PROVE ~Announced(T, (u \o v) \o t)
    <3>1. (u \o v) \o t = u \o (v \o t) /\ v \o t \in Seq(Byte)
      BY Regrouped DEF Regroups
    <3>2. ~Announced(T, u \o (v \o t))
      BY <1>2, <3>1 DEF Foreign
    <3> QED BY <3>1, <3>2
  <2> QED BY <2>1 DEF Foreign
<1> QED BY <1>1, <1>2

\* Members of a part and of what it is the front of.
LEMMA FrontMembers ==
  ASSUME NEW e \in Seq(Byte), NEW r \in Seq(Byte), NEW k \in 1..Len(e)
  PROVE  (e \o r)[k] = e[k] /\ e[k] \in Byte
OBVIOUS

\* Of what is skipped, the tag is that of no field of T.
LEMMA SkippedIsForeign ==
  ASSUME BoundsInv, NEW p \in Nat, VarintOk(p), NEW T, T \subseteq 1..35,
         Signed32(Varint(p) \div 8) \notin T, Skip(p) \in p..l
  PROVE  Foreign(T, SubSeq(buf, p + 1, Skip(p)))
<1> DEFINE q == Skip(p)
           a == SubSeq(buf, p + 1, q)
           g == LastGroup(p)
<1>0. l \in Nat /\ l <= Len(buf) /\ Len(buf) \in Nat /\ buf \in Seq(Byte)
  BY BufferEnds
<1>1. /\ g \in Nat /\ p + g < l /\ buf[p + g + 1] < 128
      /\ \A j \in 0..(g - 1) : buf[p + j + 1] >= 128
  <2>1. g \in Groups(p)
    BY DEF VarintOk, LastGroup
  <2> HIDE DEF g
  <2>2. g \in 0..MaxGroups - 1
    BY <2>1 DEF Groups
  <2> QED BY <2>1, <2>2, WordsAssumption DEF Groups
<1>2. p \in 0..Len(buf) /\ q \in Nat /\ q <= l
  BY <1>0
<1>3. q >= p + g + 1
  <2>1. AheadOf(q, p)
    BY <1>2, SkipsForward
  <2> HIDE DEF q
  <2>2. q # -1
    BY <1>2
  <2> QED BY <2>1, <2>2 DEF AheadOf, After, g
<1> HIDE DEF q, g
<1>4. /\ a \in Seq(Byte) /\ Len(a) = q - p
      /\ \A k \in 1..(q - p) : a[k] = buf[p + k]
  BY <1>0, <1>2, <1>3, <1>1
<1> HIDE DEF a
<1>5. ASSUME NEW t \in Seq(Byte), Announced(T, a \o t) PROVE FALSE
  <2>1. PICK f \in T, w \in 0..7, r \in Seq(Byte) : a \o t = Tag(f, w) \o r
    BY <1>5 DEF Announced
  <2> DEFINE n == 8 * f + w
             e == EncodeVarint(n)
             L == SizeOfVarint(n)
  <2>2. f \in 1..35
    OBVIOUS
  <2>3. n \in Nat /\ n \in 0..(Word64 - 1) /\ n \div 8 = f /\ f \in 1..(Half - 1) /\ n \in Int
    <3>1. n \in 0..(Word64 - 1) /\ n \div 8 = f /\ f \in 1..(Half - 1)
      BY <2>2, TagNumbers
    <3> HIDE DEF n
    <3> QED BY <3>1, HalfWord
  <2>4. a \o t = e \o r
    BY <2>1 DEF Tag
  <2> HIDE DEF n
  <2>5. e \in Seq(Byte) /\ Len(e) = L /\ L \in Nat
    BY <2>3, SizeOfVarintIsExact DEF Sized
  <2>6. n % Word64 = n /\ e = VarintBytes[n]
    <3>1. n % Word64 = n
      BY <2>3, SmallMod, HalfWord
    <3> QED BY <3>1 DEF EncodeVarint
  <2> HIDE DEF e, L
  <2>7. PICK h : IsGroups(e, n, h)
    BY <2>3, <2>6, VarintGroups
  <2>8. \A i \in 0..(L - 1) : e[i + 1] >= 128 <=> i < L - 1
    BY <2>5, <2>7 DEF IsGroups
  <2> DEFINE c == g + 1
  <2>9. c \in 1..Len(a) /\ c = g + 1 /\ a[c] = buf[p + c] /\ p + c = p + g + 1
    BY <1>1, <1>2, <1>3, <1>4
  <2>10. a[c] < 128
    BY <1>1, <2>9
  <2> HIDE DEF c
  <2>11. L <= c
    <3> SUFFICES ASSUME L > c PROVE FALSE
      BY <2>5, <2>9, <1>1
    <3>1. c \in 1..Len(e) /\ g \in 0..(L - 1) /\ g < L - 1
      BY <1>1, <2>5, <2>9
    <3>2. e[c] >= 128
      BY <2>8, <2>9, <3>1
    <3>3. (a \o t)[c] = a[c] /\ (e \o r)[c] = e[c] /\ e[c] \in Byte /\ a[c] \in Byte
      BY <1>4, <2>5, <2>9, <3>1, FrontMembers
    <3>4. e[c] \in Nat /\ a[c] \in Nat /\ a[c] = e[c]
      BY <2>4, <3>3 DEF Byte
    <3> QED BY <2>10, <3>2, <3>4
  <2>12. StandsAt(buf, p, e)
    <3> SUFFICES ASSUME NEW k \in 1..Len(e), p + k <= Len(buf) PROVE buf[p + k] = e[k]
      BY DEF StandsAt
    <3>1. k \in 1..Len(a) /\ k \in 1..(q - p)
      BY <1>4, <2>5, <2>9, <2>11
    <3>2. (a \o t)[k] = a[k] /\ (e \o r)[k] = e[k]
      BY <1>4, <2>5, <3>1, FrontMembers
    <3> QED BY <1>4, <2>4, <3>1, <3>2
  <2>13. p + L <= l
    BY <1>0, <1>1, <2>5, <2>9, <2>11
  <2>14. Varint(p) = n % Word64
    BY <2>3, <2>12, <2>13, VarintsAreReadBack DEF e, L
  <2>15. Varint(p) \div 8 = f
    BY <2>3, <2>6, <2>14
  <2>16. Signed32(f) = f
    <3>1. f \in 0..(Half - 1)
      BY <2>3, HalfWord
    <3> QED BY <3>1, SmallBack
  <2> QED BY <2>15, <2>16
<1> QED BY <1>5 DEF Foreign, a, q

\* A varint that is read stays within 64 bits.
LEMMA ReadNumbersFit ==
  ASSUME NEW v \in Nat
  PROVE  Signed32(v) \in -Half..(Half - 1) /\ v % Word32 \in 0..(Word32 - 1)
<1> DEFINE u == v % Word32
<1>1. u \in 0..(Word32 - 1) /\ Word32 = 2 * Half /\ Half \in Nat /\ Word32 \in Nat
  BY HalfWord
<1> HIDE DEF u
<1>2. CASE u < Half
  <2>1. Signed32(v) = u
    BY <1>2 DEF Signed32, u, Half
  <2> QED BY <1>1, <1>2, <2>1 DEF u
<1>3. CASE ~(u < Half)
  <2>1. Signed32(v) = u - Word32
    BY <1>3 DEF Signed32, u, Half
  <2> QED BY <1>1, <1>3, <2>1 DEF u
<1> QED BY <1>2, <1>3

------------------------------------------------------------------------------
(* Messages as a decoder makes them *)

\* The numbers, the flags and the unknown fields of a message and of those in
\* it are such as a decoder makes.
ProperMsg(type, m) ==
  /\ ProperFlat(type, m)
  /\ type = "AppInfo" =>
       /\ \A f \in Inner \cap DOMAIN m : ProperFlat(TypeOf[f], m[f])
       /\ \A k \in DOMAIN m.attributes : ProperFlat("KeyVal", m.attributes[k])

\* A number or a text is exchanged.
LEMMA PutProper ==
  ASSUME NEW C, NEW type \in Types, NEW m, Good(C, type, m), ProperMsg(type, m),
         NEW f, f \notin Nested, f # "unknown", NEW v,
         f \in Counts => InRange(f, v), f \in Flags => v \in BOOLEAN
  PROVE  ProperMsg(type, Put(m, f, v))
<1> DEFINE p == Put(m, f, v)
<1>1. IsPut(p, m, f, v)
  BY PutSays, Zenon
<1> HIDE DEF p
<1>2. DOMAIN p = DOMAIN m \cup {f} /\ p[f] = v /\ \A g \in DOMAIN m : g # f => p[g] = m[g]
  BY <1>1 DEF IsPut
<1>3. "unknown" \in DOMAIN m /\ p.unknown = m.unknown
  BY <1>2, AlwaysUnknown DEF Good, GoodFlat
<1>4. ProperFlat(type, p)
  <2>1. ASSUME NEW g \in Counts \cap DOMAIN p PROVE InRange(g, p[g])
    BY <1>2, <2>1 DEF ProperMsg, ProperFlat
  <2>2. ASSUME NEW g \in Flags \cap DOMAIN p PROVE p[g] \in BOOLEAN
    BY <1>2, <2>2 DEF ProperMsg, ProperFlat
  <2> QED BY <1>3, <2>1, <2>2 DEF ProperMsg, ProperFlat
<1>5. ASSUME type = "AppInfo"
      PROVE  /\ \A g \in Inner \cap DOMAIN p : ProperFlat(TypeOf[g], p[g])
             /\ \A k \in DOMAIN p.attributes : ProperFlat("KeyVal", p.attributes[k])
  <2>1. "attributes" \in DOMAIN m
    BY <1>5, AlwaysAttributes DEF Good, GoodFlat
  <2>2. p["attributes"] = m["attributes"]
    BY <1>2, <2>1 DEF Nested
  <2>3. \A g \in Inner \cap DOMAIN p : g \in DOMAIN m /\ p[g] = m[g]
    BY <1>2 DEF Nested, Inner
  <2> QED BY <1>5, <2>2, <2>3 DEF ProperMsg
<1> QED BY <1>4, <1>5 DEF ProperMsg, p

\* An unknown field is kept.
LEMMA KeepProper ==
  ASSUME NEW C, NEW type \in Types, NEW m, Good(C, type, m), ProperMsg(type, m),
         NEW s \in Seq(Byte), Foreign(DOMAIN Cases(type), s)
  PROVE  ProperMsg(type, [m EXCEPT !.unknown = @ \o s])
<1> DEFINE p == [m EXCEPT !.unknown = @ \o s]
<1>1. "unknown" \in DOMAIN m /\ m.unknown \in Seq(Byte)
  BY AlwaysUnknown DEF Good, GoodFlat, TextGood
<1>2. /\ DOMAIN p = DOMAIN m /\ p.unknown = m.unknown \o s
      /\ \A g \in DOMAIN m : g # "unknown" => p[g] = m[g]
  BY <1>1
<1> HIDE DEF p
<1>3. Foreign(DOMAIN Cases(type), p.unknown)
  <2>1. Foreign(DOMAIN Cases(type), m.unknown)
    BY DEF ProperMsg, ProperFlat
  <2>2. Foreign(DOMAIN Cases(type), m.unknown \o s)
    BY <1>1, <2>1, ForeignMore
  <2> QED BY <1>2, <2>2
<1>4. ProperFlat(type, p)
  <2>1. "unknown" \notin Counts \cup Flags
    BY DEF Counts, Flags
  <2> QED BY <1>2, <1>3, <2>1 DEF ProperMsg, ProperFlat
<1>5. ASSUME type = "AppInfo"
      PROVE  /\ \A g \in Inner \cap DOMAIN p : ProperFlat(TypeOf[g], p[g])
             /\ \A k \in DOMAIN p.attributes : ProperFlat("KeyVal", p.attributes[k])
  <2>1. "attributes" \in DOMAIN m
    BY <1>5, AlwaysAttributes DEF Good, GoodFlat
  <2>2. p["attributes"] = m["attributes"]
    BY <1>2, <2>1
  <2>3. \A g \in Inner \cap DOMAIN p : g \in DOMAIN m /\ p[g] = m[g]
    BY <1>2 DEF Inner
  <2> QED BY <1>5, <2>2, <2>3 DEF ProperMsg
<1> QED BY <1>4, <1>5 DEF ProperMsg, p

\* A new message has no numbers and no unknown fields.
LEMMA EmptyProper ==
  ASSUME NEW type \in Types
  PROVE  ProperMsg(type, Empty(type))
<1> DEFINE m == Empty(type)
<1>1. \A f \in DOMAIN m : m[f] = <<>> /\ f \notin Counts \cup Flags \cup Inner
  BY DEF Types, Empty, Counts, Flags, Inner
<1>2. "unknown" \in DOMAIN m /\ (type = "AppInfo" => "attributes" \in DOMAIN m)
  BY DEF Types, Empty
<1> HIDE DEF m
<1>3. m.unknown = <<>> /\ (type = "AppInfo" => m.attributes = <<>>)
  BY <1>1, <1>2
<1>4. DOMAIN <<>> = {}
  OBVIOUS
<1>5. \A k \in DOMAIN <<>> : ProperFlat("KeyVal", m.attributes[k])
  BY <1>4
<1>6. ProperFlat(type, m)
  BY <1>1, <1>3 DEF ProperFlat, Foreign
<1>7. \A f \in Inner \cap DOMAIN m : ProperFlat(TypeOf[f], m[f])
  BY <1>1
<1> QED BY <1>3, <1>5, <1>6, <1>7 DEF ProperMsg, m

\* A decoded message goes into its field.
LEMMA AttachProper ==
  ASSUME NEW C, NEW m, Good(C, "AppInfo", m), ProperMsg("AppInfo", m), NEW f \in Nested,
         NEW child, ProperFlat(TypeOf[f], child)
  PROVE  ProperMsg("AppInfo", Attach(m, f, child))
<1> DEFINE p == Attach(m, f, child)
<1>0. /\ "attributes" \in DOMAIN m /\ "unknown" \in DOMAIN m
      /\ IsSequence(m.attributes)
      /\ \A k \in DOMAIN m.attributes : ProperFlat("KeyVal", m.attributes[k])
      /\ \A g \in Inner \cap DOMAIN m : ProperFlat(TypeOf[g], m[g])
      /\ ProperFlat("AppInfo", m)
  BY AlwaysAttributes, AlwaysUnknown, InnerTypes DEF Good, GoodFlat, ProperMsg
<1>1. Nested \cap (Counts \cup Flags) = {} /\ "unknown" \notin Nested
  BY DEF Nested, Counts, Flags
<1>2. CASE f = "attributes"
  <2> DEFINE s == Front(m.attributes)
             a == Append(s, child)
  <2>1. p = [m EXCEPT !.attributes = a]
    BY <1>2 DEF Attach
  <2>2. /\ DOMAIN p = DOMAIN m /\ p["attributes"] = a
        /\ \A g \in DOMAIN m : g # "attributes" => p[g] = m[g]
    BY <1>0, <2>1
  <2>3. IsSequence(s) /\ \A k \in DOMAIN s : ProperFlat("KeyVal", s[k])
    BY <1>0, FrontIsSequence
  <2>4. ProperFlat("KeyVal", child)
    BY <1>2, InnerTypes
  <2> HIDE DEF s, p
  <2>5. /\ DOMAIN s = 1..Len(s) /\ Len(s) \in Nat /\ DOMAIN a = 1..(Len(s) + 1)
        /\ \A k \in 1..Len(s) : a[k] = s[k]
        /\ a[Len(s) + 1] = child
    BY <2>3, AppendIsSequence
  <2> HIDE DEF a
  <2>6. ASSUME NEW k \in DOMAIN a PROVE ProperFlat("KeyVal", a[k])
    <3>1. k \in 1..Len(s) \/ k = Len(s) + 1
      BY <2>5
    <3> QED BY <2>3, <2>4, <2>5, <3>1
  <2>7. ProperFlat("AppInfo", p)
    BY <1>0, <1>1, <1>2, <2>2 DEF ProperFlat
  <2>8. \A g \in Inner \cap DOMAIN p : ProperFlat(TypeOf[g], p[g])
    BY <1>0, <2>2, InnerTypes
  <2> QED BY <2>2, <2>6, <2>7, <2>8 DEF ProperMsg, p
<1>3. CASE f # "attributes"
  <2> DEFINE q == IF f \in {"req", "resp"} THEN [g \in DOMAIN m \ {"req", "resp"} |-> m[g]]
                  ELSE m
  <2>1. p = Put(q, f, child)
    BY <1>3 DEF Attach
  <2>2. /\ DOMAIN q \subseteq DOMAIN m /\ \A g \in DOMAIN q : q[g] = m[g]
        /\ \A g \in DOMAIN m : g \notin {"req", "resp"} => g \in DOMAIN q
    OBVIOUS
  <2> HIDE DEF q
  <2>3. IsPut(Put(q, f, child), q, f, child)
    BY PutSays, Zenon
  <2> HIDE DEF p
  <2>4. IsPut(p, q, f, child)
    BY <2>1, <2>3, Zenon
  <2>5. /\ DOMAIN p = DOMAIN q \cup {f} /\ p[f] = child
        /\ \A g \in DOMAIN q : g # f => p[g] = m[g]
    BY <2>2, <2>4 DEF IsPut
  <2>6. p["attributes"] = m["attributes"] /\ p["unknown"] = m["unknown"]
    BY <1>0, <1>1, <1>3, <2>2, <2>5
  <2>7. \A g \in DOMAIN p : g # f => g \in DOMAIN m /\ p[g] = m[g]
    BY <2>2, <2>5
  <2>8. ProperFlat("AppInfo", p)
    BY <1>0, <1>1, <2>6, <2>7 DEF ProperFlat
  <2>9. ASSUME NEW g \in Inner \cap DOMAIN p PROVE ProperFlat(TypeOf[g], p[g])
    BY <1>0, <2>5, <2>7
  <2> QED BY <1>0, <2>6, <2>8, <2>9 DEF ProperMsg, p
<1> QED BY <1>2, <1>3

\* An empty attribute behind the others.
LEMMA NewAttributeProper ==
  ASSUME NEW C, NEW m, Good(C, "AppInfo", m), ProperMsg("AppInfo", m)
  PROVE  ProperMsg("AppInfo",
                   Put(m, "attributes", Append(m["attributes"], Empty("KeyVal"))))
<1> DEFINE s == m["attributes"]
           child == Empty("KeyVal")
           a == Append(s, child)
           p == Put(m, "attributes", a)
<1>0. /\ "attributes" \in DOMAIN m /\ "unknown" \in DOMAIN m /\ IsSequence(s)
      /\ \A k \in DOMAIN s : ProperFlat("KeyVal", s[k])
      /\ \A g \in Inner \cap DOMAIN m : ProperFlat(TypeOf[g], m[g])
      /\ ProperFlat("AppInfo", m)
  BY AlwaysAttributes, AlwaysUnknown, InnerTypes DEF Good, GoodFlat, ProperMsg
<1>1. ProperFlat("KeyVal", child)
  BY EmptyProper, InnerTypes DEF ProperMsg
<1> HIDE DEF child, s
<1>2. /\ DOMAIN s = 1..Len(s) /\ Len(s) \in Nat /\ DOMAIN a = 1..(Len(s) + 1)
      /\ \A k \in 1..Len(s) : a[k] = s[k]
      /\ a[Len(s) + 1] = child
  BY <1>0, AppendIsSequence
<1> HIDE DEF a
<1>3. ASSUME NEW k \in DOMAIN a PROVE ProperFlat("KeyVal", a[k])
  <2>1. k \in 1..Len(s) \/ k = Len(s) + 1
    BY <1>2
  <2> QED BY <1>0, <1>1, <1>2, <2>1
<1>4. IsPut(p, m, "attributes", a)
  BY PutSays, Zenon
<1> HIDE DEF p
<1>5. /\ DOMAIN p = DOMAIN m /\ p["attributes"] = a
      /\ \A g \in DOMAIN m : g # "attributes" => p[g] = m[g]
  BY <1>0, <1>4 DEF IsPut
<1>6. ProperFlat("AppInfo", p)
  <2>1. "attributes" \notin Counts \cup Flags
    BY DEF Counts, Flags
  <2>2. p.unknown = m.unknown
    BY <1>0, <1>5
  <2> QED BY <1>0, <1>5, <2>1, <2>2 DEF ProperFlat
<1>7. \A g \in Inner \cap DOMAIN p : ProperFlat(TypeOf[g], p[g])
  BY <1>0, <1>5, InnerTypes
<1>8. ProperMsg("AppInfo", p)
  BY <1>3, <1>5, <1>6, <1>7 DEF ProperMsg
<1> QED BY <1>8 DEF p, a, s, child

\* Which fields a case of numbers sets.
NumberCase(case) ==
  /\ case[1] = "int32" => case[2] \in {"status", "code"}
  /\ case[1] = "uint32" => case[2] \in Counts \ {"status", "code"}
  /\ case[1] = "bool" => case[2] \in Flags

\* A case of something else says nothing of numbers.
LEMMA NoNumber ==
  ASSUME NEW k, NEW f, k \notin Scalars
  PROVE  NumberCase(<<k, f>>)
BY DEF NumberCase, Scalars

\* The cases of a switch, one by one.
LEMMA NumberCases ==
  ASSUME NEW type \in Types, NEW n \in DOMAIN Cases(type)
  PROVE  NumberCase(Cases(type)[n])
<1>0. "string" \notin Scalars /\ "strings" \notin Scalars /\ "message" \notin Scalars
      /\ "messages" \notin Scalars /\ "oneof" \notin Scalars
  BY DEF Scalars
<1>1. \A k, f : k \notin Scalars => NumberCase(<<k, f>>)
  BY NoNumber
<1>2. \A f \in {"status", "code"} : NumberCase(<<"int32", f>>)
  BY DEF NumberCase
<1>3. \A f \in {"req_len", "resp_len", "request_id", "biz_type"} : NumberCase(<<"uint32", f>>)
  BY DEF NumberCase, Counts
<1>4. \A f \in {"is_end", "is_async", "is_reversed"} : NumberCase(<<"bool", f>>)
  BY DEF NumberCase, Flags
<1>5. CASE type = "AppRequest"
  BY <1>0, <1>1, <1>5, RequestCases DEF Cases
<1>6. CASE type = "AppResponse"
  <2>1. Cases(type) = AppResponse_UnmarshalVT
    BY <1>6 DEF Cases
  <2>2. n \in {1, 2} \/ n \in {3, 4, 5, 6}
    BY <2>1, ResponseCases
  <2>3. n \in {1, 2} => NumberCase(Cases(type)[n])
    BY <1>2, <2>1, ResponseCases
  <2>4. n \in {3, 4, 5, 6} => NumberCase(Cases(type)[n])
    BY <1>0, <1>1, <2>1, ResponseCases
  <2> QED BY <2>2, <2>3, <2>4
<1>7. CASE type = "AppTrace"
  BY <1>0, <1>1, <1>7, TraceCases DEF Cases
<1>8. CASE type = "KeyVal"
  BY <1>0, <1>1, <1>8, KeyValCases DEF Cases
<1>9. CASE type = "NatsMessage"
  BY <1>0, <1>1, <1>9, NatsCases DEF Cases
<1>10. CASE type = "ZmtpMessage"
  BY <1>0, <1>1, <1>10, ZmtpCases DEF Cases
<1>11. CASE type = "AppInfo"
  <2>1. Cases(type) = AppInfo_UnmarshalVT
    BY <1>11 DEF Cases
  <2>2. n \in {1, 2, 3, 32} \/ n \in {21, 22, 23} \/ n \in {10, 11, 12, 13, 31, 33, 34, 35}
    BY <2>1, InfoCases
  <2>3. n \in {1, 2, 3, 32} => NumberCase(Cases(type)[n])
    BY <1>3, <2>1, InfoCases
  <2>4. n \in {21, 22, 23} => NumberCase(Cases(type)[n])
    BY <1>4, <2>1, InfoCases
  <2>5. n \in {10, 11, 12, 13, 31, 33, 34, 35} => NumberCase(Cases(type)[n])
    BY <1>0, <1>1, <2>1, InfoCases
  <2> QED BY <2>2, <2>3, <2>4, <2>5
<1> QED BY <1>5, <1>6, <1>7, <1>8, <1>9, <1>10, <1>11 DEF Types

\* What each call holds is such as a decoder makes, and the tag it has read is
\* that of the field it is in.
ProperInv ==
  /\ \A k \in 1..Len(stack) : ProperMsg(stack[k].type, stack[k].msg)
  /\ pc = "field" => VarintOk(field.pre) /\ field.num = Signed32(Varint(field.pre) \div 8)

\* The innermost call goes on with another message.
LEMMA ProperTop ==
  ASSUME StackInv, ProperInv, NEW m, ProperMsg(top.type, m), SetTop(m), pc' # "field"
  PROVE  ProperInv'
<1> DEFINE n == Len(stack)
<1>1. /\ Len(stack') = n /\ stack'[n].msg = m /\ stack'[n].type = top.type
      /\ \A k \in 1..(n - 1) : stack'[k] = stack[k]
  BY TopMoves DEF top
<1>2. n \in {1, 2}
  BY DEF StackInv
<1>3. ASSUME NEW k \in 1..n PROVE ProperMsg(stack'[k].type, stack'[k].msg)
  <2>1. k = n \/ k \in 1..(n - 1)
    BY <1>2
  <2> QED BY <1>1, <2>1 DEF ProperInv
<1> QED BY <1>1, <1>3 DEF ProperInv

\* One call is left, perhaps with another message.
LEMMA ProperOne ==
  ASSUME NEW c, ProperMsg(c.type, c.msg), stack' = <<c>>, pc' # "field"
  PROVE  ProperInv'
<1>1. Len(stack') = 1 /\ stack'[1] = c
  BY OneCall
<1>2. ASSUME NEW k \in 1..Len(stack') PROVE ProperMsg(stack'[k].type, stack'[k].msg)
  <2>1. k = 1
    BY <1>1
  <2> QED BY <1>1, <2>1
<1> QED BY <1>2 DEF ProperInv

\* What is decoded goes into the message around it.
LEMMA ProperAttached ==
  ASSUME StackInv, ProperInv, Len(stack) = 2,
         NEW d, d = [stack[1] EXCEPT !.msg = Attach(@, top.into, top.msg)]
  PROVE  ProperMsg(d.type, d.msg) /\ ProperMsg(stack[1].type, stack[1].msg)
<1>1. /\ IsCall(stack[1]) /\ top = stack[2] /\ stack[1].type = "AppInfo"
      /\ stack[2].into \in Nested /\ stack[2].type = TypeOf[stack[2].into]
  BY DEF StackInv, top
<1>2. 1 \in 1..Len(stack) /\ 2 \in 1..Len(stack)
  OBVIOUS
<1>3. /\ Good(Chars, "AppInfo", stack[1].msg) /\ ProperMsg("AppInfo", stack[1].msg)
      /\ ProperFlat(TypeOf[stack[2].into], stack[2].msg)
  BY <1>1, <1>2 DEF IsCall, ProperInv, ProperMsg
<1>4. ProperMsg("AppInfo", Attach(stack[1].msg, stack[2].into, stack[2].msg))
  BY <1>1, <1>3, AttachProper
<1>5. d.type = stack[1].type /\ d.msg = Attach(stack[1].msg, stack[2].into, stack[2].msg)
  BY <1>1 DEF IsCall
<1> QED BY <1>1, <1>3, <1>4, <1>5

\* An error leaves all calls with what they held.
LEMMA ProperFail ==
  ASSUME StackInv, ProperInv, Fail
  PROVE  ProperInv'
<1> DEFINE d == [stack[1] EXCEPT !.msg = Attach(@, top.into, top.msg)]
<1>1. /\ stack' = IF Len(stack) = 1 THEN stack
                  ELSE IF top.inPlace THEN <<d>> ELSE <<stack[1]>>
      /\ pc' # "field"
  BY DEF Fail
<1>2. CASE Len(stack) = 1
  BY <1>1, <1>2 DEF ProperInv
<1>3. CASE Len(stack) = 2
  <2>1. ProperMsg(d.type, d.msg) /\ ProperMsg(stack[1].type, stack[1].msg)
    BY <1>3, ProperAttached, Zenon
  <2>2. stack' = <<d>> \/ stack' = <<stack[1]>>
    BY <1>1, <1>3
  <2> HIDE DEF d
  <2> QED BY <1>1, <2>1, <2>2, ProperOne
<1> QED BY <1>2, <1>3 DEF StackInv

\* A call that is through hands over what it held.
LEMMA ProperLeave ==
  ASSUME StackInv, ProperInv, LeaveMessage
  PROVE  ProperInv'
<1> DEFINE d == [stack[1] EXCEPT !.msg = Attach(@, top.into, top.msg)]
<1>1. Len(stack) = 2 /\ stack' = <<d>> /\ pc' # "field"
  BY DEF StackInv, LeaveMessage, NextField
<1>2. ProperMsg(d.type, d.msg)
  BY <1>1, ProperAttached, Zenon
<1> HIDE DEF d
<1> QED BY <1>1, <1>2, ProperOne

\* The innermost call.
LEMMA TopIsProper ==
  ASSUME StackInv, ProperInv
  PROVE  /\ top.type \in Types /\ Good(Chars, top.type, top.msg)
         /\ ProperMsg(top.type, top.msg)
<1>1. Len(stack) \in 1..Len(stack)
  BY DEF StackInv
<1> QED BY <1>1, TopIsACall DEF IsCall, ProperInv, top

\* A number is in the range of its type.
LEMMA ProperNumber ==
  ASSUME BoundsInv, StackInv, ProperInv, ReadNumber
  PROVE  ProperInv'
<1> DEFINE w == Varint(iNdEx)
           v == NumberOf(w)
<1>1. /\ Known /\ WireType(kind) = 0 /\ VarintOk(iNdEx)
      /\ SetTop(Put(top.msg, name, v)) /\ pc' # "field"
  BY DEF ReadNumber, NextField, Expected
<1>2. w \in Nat
  BY <1>1, Positions, VarintIsNumber
<1> HIDE DEF w
<1>3. kind \in Scalars
  BY <1>1 DEF WireType, Scalars
<1>4. /\ kind = "int32" => name \in {"status", "code"}
      /\ kind = "uint32" => name \in Counts \ {"status", "code"}
      /\ kind = "bool" => name \in Flags
  <2>1. NumberCase(Cases(top.type)[field.num])
    BY <1>1, TopIsProper, NumberCases DEF Known
  <2> QED BY <2>1 DEF NumberCase, kind, name
<1>5. name \notin Nested /\ name # "unknown"
  <2>1. name \in Counts \cup Flags
    BY <1>1, <1>3, KnownCase
  <2> QED BY <2>1, NamesAreKinds
<1>6. Signed32(w) \in -Half..(Half - 1) /\ w % Word32 \in 0..(Word32 - 1)
  BY <1>2, ReadNumbersFit
<1>7. CASE kind = "int32"
  <2>1. v = Signed32(w) /\ name \in Counts /\ name \notin Flags /\ name \in {"status", "code"}
    BY <1>4, <1>7 DEF NumberOf, Counts, Flags
  <2>2. InRange(name, v)
    BY <1>6, <2>1 DEF InRange
  <2> HIDE DEF v
  <2> QED BY <1>1, <1>5, <2>1, <2>2, TopIsProper, PutProper, ProperTop
<1>8. CASE kind = "uint32"
  <2>1. v = w % Word32 /\ name \in Counts /\ name \notin Flags /\ name \notin {"status", "code"}
    BY <1>4, <1>8 DEF NumberOf, Counts, Flags
  <2>2. InRange(name, v)
    BY <1>6, <2>1 DEF InRange
  <2> HIDE DEF v
  <2> QED BY <1>1, <1>5, <2>1, <2>2, TopIsProper, PutProper, ProperTop
<1>9. CASE kind = "bool"
  <2>1. v = (w % Word32 # 0) /\ name \notin Counts /\ name \in Flags
    BY <1>4, <1>9 DEF NumberOf, Counts, Flags
  <2>2. v \in BOOLEAN
    BY <2>1, Zenon
  <2> HIDE DEF v
  <2> QED BY <1>1, <1>5, <2>1, <2>2, TopIsProper, PutProper, ProperTop
<1> QED BY <1>3, <1>7, <1>8, <1>9 DEF Scalars

\* A text is no number.
LEMMA ProperText ==
  ASSUME StackInv, ProperInv, ReadText
  PROVE  ProperInv'
<1> DEFINE s == Slice(start, start + length)
           v == IF kind = "strings" THEN Append(top.msg[name], s) ELSE s
<1>1. /\ Known /\ kind \in {"string", "strings"}
      /\ SetTop(Put(top.msg, name, v)) /\ pc' # "field"
  BY DEF ReadText, Counted, NextField, Expected
<1> HIDE DEF v
<1>2. name \notin Nested /\ name # "unknown" /\ name \notin Counts \cup Flags
  <2>1. kind = "string" => Other(name) /\ name # "unknown"
    BY <1>1, KnownCase
  <2>2. kind = "strings" => name = "trace_ids"
    BY <1>1, KnownCase
  <2>3. "trace_ids" \notin Nested \cup Counts \cup Flags
    BY DEF Nested, Counts, Flags
  <2> QED BY <1>1, <2>1, <2>2, <2>3 DEF Other
<1>3. ProperMsg(top.type, Put(top.msg, name, v))
  BY <1>2, TopIsProper, PutProper
<1> QED BY <1>1, <1>3, ProperTop

\* What is kept as unknown begins with no tag of the schema.
LEMMA ProperUnknown ==
  ASSUME BoundsInv, StackInv, ProperInv, SkipUnknown
  PROVE  ProperInv'
<1> DEFINE p == field.pre
           e == Skip(p)
           s == SubSeq(buf, p + 1, e)
           T == DOMAIN Cases(top.type)
<1>1. /\ e \in p..l /\ field.num \notin T /\ pc = "field" /\ pc' # "field"
      /\ SetTop([top.msg EXCEPT !.unknown = @ \o s])
  BY DEF SkipUnknown, NextField, Unknown
<1>2. p \in Nat /\ VarintOk(p) /\ field.num = Signed32(Varint(p) \div 8)
  BY <1>1 DEF BoundsInv, ProperInv
<1>3. /\ top.type \in Types /\ Good(Chars, top.type, top.msg)
      /\ ProperMsg(top.type, top.msg) /\ T \subseteq 1..35
  BY TopIsProper, CasesAreFields
<1>4. Foreign(T, s)
  <2>1. Signed32(Varint(p) \div 8) \notin T
    BY <1>1, <1>2
  <2> HIDE DEF T, p
  <2> QED BY <1>1, <1>2, <1>3, <2>1, SkippedIsForeign
<1>5. s \in Seq(Byte)
  <2>1. e \in Nat /\ e <= Len(buf) /\ buf \in Seq(Byte)
    BY <1>1, <1>2, BufferEnds
  <2> HIDE DEF e, p
  <2> QED BY <1>2, <2>1
<1> HIDE DEF s
<1>6. ProperMsg(top.type, [top.msg EXCEPT !.unknown = @ \o s])
  BY <1>3, <1>4, <1>5, KeepProper
<1> QED BY <1>1, <1>6, ProperTop

\* A message in a field begins as what was there, or empty.
LEMMA ProperEnter ==
  ASSUME StackInv, ProperInv, EnterMessage
  PROVE  ProperInv'
<1> DEFINE there == kind # "messages" /\ name \in DOMAIN top.msg
           outer == IF kind = "messages"
                    THEN Put(top.msg, name, Append(top.msg[name], Empty("KeyVal")))
                    ELSE top.msg
           msg   == IF there THEN top.msg[name] ELSE Empty(TypeOf[name])
           call  == [type    |-> TypeOf[name],
                     into    |-> name,
                     inPlace |-> there \/ kind # "oneof",
                     msg     |-> msg]
           d     == [stack[1] EXCEPT !.msg = outer]
<1>1. /\ Known /\ kind \in {"message", "messages", "oneof"} /\ pc' # "field"
      /\ stack' = Append([stack EXCEPT ![Len(stack)].msg = outer], call)
  BY DEF EnterMessage, Counted, Expected, NextField
<1>2. /\ top.type = "AppInfo" /\ name \in Nested
      /\ kind = "messages" => name = "attributes"
      /\ kind # "messages" => name \in Inner
  <2>1. /\ kind = "message" => name = "trace" /\ top.type = "AppInfo"
        /\ kind = "messages" => name = "attributes" /\ top.type = "AppInfo"
        /\ kind = "oneof" => name \in {"req", "resp"} /\ top.type = "AppInfo"
    BY <1>1, KnownCase
  <2> QED BY <1>1, <2>1 DEF Nested, Inner
<1>3. /\ Len(stack) = 1 /\ top = stack[1] /\ IsCall(stack[1]) /\ IsSequence(stack)
      /\ Good(Chars, "AppInfo", top.msg) /\ ProperMsg("AppInfo", top.msg)
  <2>1. Len(stack) = 1 /\ top = stack[1] /\ IsCall(top)
    BY <1>2, TopIsACall
  <2> QED BY <1>2, <2>1, TopIsProper DEF StackInv
<1>4. ProperMsg("AppInfo", outer)
  BY <1>2, <1>3, NewAttributeProper
<1>5. ProperMsg(TypeOf[name], msg)
  <2>1. TypeOf[name] \in Types /\ TypeOf[name] # "AppInfo"
    BY <1>2, InnerTypes
  <2>2. CASE there
    <3>1. ProperFlat(TypeOf[name], top.msg[name])
      BY <1>2, <1>3, <2>2 DEF ProperMsg
    <3> QED BY <2>1, <2>2, <3>1 DEF ProperMsg
  <2>3. CASE ~there
    BY <2>1, <2>3, EmptyProper
  <2> QED BY <2>2, <2>3
<1> HIDE DEF outer, msg
<1>6. ProperMsg(call.type, call.msg)
  BY <1>5
<1> HIDE DEF call
<1>7. Len(stack') = 2 /\ stack'[1] = d /\ stack'[2] = call
  BY <1>1, <1>3, EnterShape
<1>8. ProperMsg(d.type, d.msg)
  <2>1. d.type = "AppInfo" /\ d.msg = outer
    BY <1>2, <1>3 DEF IsCall
  <2> HIDE DEF d
  <2> QED BY <1>4, <2>1
<1> HIDE DEF d
<1>9. ASSUME NEW k \in 1..Len(stack') PROVE ProperMsg(stack'[k].type, stack'[k].msg)
  <2>1. k = 1 \/ k = 2
    BY <1>7
  <2> QED BY <1>6, <1>7, <1>8, <2>1
<1> QED BY <1>1, <1>9 DEF ProperInv

\* No step makes anything else.
LEMMA ProperNext ==
  ASSUME BoundsInv, StackInv, ProperInv, [Next]_vars
  PROVE  ProperInv'
<1>1. CASE BadTag \/ WrongWireType \/ BadVarint \/ BadLength \/ BadUnknown
  BY <1>1, ProperFail
  DEF BadTag, WrongWireType, BadVarint, BadLength, BadUnknown
<1>2. CASE ReadTag
  <2>1. /\ UNCHANGED <<buf, ends, stack>> /\ TagOk /\ field'.num = TagNum
        /\ field'.pre = iNdEx
    BY <1>2 DEF ReadTag
  <2>2. VarintOk(iNdEx) /\ field'.num = Signed32(Varint(iNdEx) \div 8)
    BY <2>1 DEF TagOk, TagNum
  <2>3. (VarintOk(field.pre) /\ field.num = Signed32(Varint(field.pre) \div 8))'
    BY <2>1, <2>2 DEF VarintOk, Varint, Groups, LastGroup, l
  <2> QED BY <2>1, <2>3 DEF ProperInv
<1>3. CASE Return \/ Reuse
  BY <1>3 DEF Return, Reuse, ProperInv
<1>4. CASE ReadNumber
  BY <1>4, ProperNumber
<1>5. CASE ReadText
  BY <1>5, ProperText
<1>6. CASE EnterMessage
  BY <1>6, ProperEnter
<1>7. CASE LeaveMessage
  BY <1>7, ProperLeave
<1>8. CASE SkipUnknown
  BY <1>8, ProperUnknown
<1>9. CASE UNCHANGED vars
  <2>1. UNCHANGED <<buf, ends, stack, pc, field>>
    BY <1>9 DEF vars
  <2>2. pc = "field" => (VarintOk(field.pre) /\ field.num = Signed32(Varint(field.pre) \div 8))'
    BY <2>1 DEF VarintOk, Varint, Groups, LastGroup, l, ProperInv
  <2> QED BY <2>1, <2>2 DEF ProperInv
<1> QED
  BY <1>1, <1>2, <1>3, <1>4, <1>5, <1>6, <1>7, <1>8, <1>9 DEF Next, Decode

\* A decoder begins with the empty message.
LEMMA ProperInit == SentInv /\ Init => ProperInv
<1> SUFFICES ASSUME SentInv, Init PROVE ProperInv
  OBVIOUS
<1> DEFINE c == [type |-> sent.type, into |-> "", inPlace |-> TRUE,
                 msg |-> Empty(sent.type)]
<1>1. stack = <<c>> /\ pc # "field"
  BY DEF Init
<1>2. ProperMsg(c.type, c.msg)
  BY EmptyProper DEF SentInv
<1> HIDE DEF c
<1>3. Len(stack) = 1 /\ stack[1] = c
  BY <1>1
<1>4. ASSUME NEW k \in 1..Len(stack) PROVE ProperMsg(stack[k].type, stack[k].msg)
  <2>1. k = 1
    BY <1>3
  <2> QED BY <1>2, <1>3, <2>1
<1> QED BY <1>1, <1>4 DEF ProperInv

\* What stands at the front of u is followed by the rest of u.
LEMMA FrontAndRest ==
  ASSUME NEW u \in Seq(Byte), NEW e \in Seq(Byte), StandsAt(u, 0, e), Len(e) <= Len(u)
  PROVE  \E r \in Seq(Byte) : u = e \o r
<1> DEFINE n == Len(e)
           m == Len(u)
           r == [k \in 1..(m - n) |-> u[n + k]]
<1>1. n \in Nat /\ m \in Nat /\ n <= m /\ m - n \in Nat
  OBVIOUS
<1>2. u \in [1..m -> Byte] /\ e \in [1..n -> Byte]
  OBVIOUS
<1>3. \A k \in 1..n : u[k] = e[k]
  BY <1>1 DEF StandsAt
<1> HIDE DEF n, m
<1>4. r \in [1..(m - n) -> Byte]
  <2>1. ASSUME NEW k \in 1..(m - n) PROVE u[n + k] \in Byte
    <3> DEFINE i == n + k
    <3>1. i \in 1..m
      BY <1>1
    <3> HIDE DEF i
    <3>2. u[i] \in Byte
      BY <1>2, <3>1
    <3> QED BY <3>2 DEF i
  <2> QED BY <2>1
<1>5. \A k \in 1..(m - n) : r[k] = u[n + k]
  OBVIOUS
<1> HIDE DEF r
<1>6. r \in Seq(Byte) /\ Len(r) = m - n
  BY <1>1, <1>4
<1>7. n = Len(e) /\ m = Len(u) /\ m - n = Len(r)
  BY <1>6 DEF n, m
<1> DEFINE c == e \o r
<1>8. /\ c \in [1..m -> Byte]
      /\ \A k \in 1..n : c[k] = e[k]
      /\ \A k \in 1..(m - n) : c[n + k] = r[k]
  <2>1. /\ c \in [1..(Len(e) + Len(r)) -> Byte]
        /\ \A k \in 1..(Len(e) + Len(r)) : c[k] = IF k <= Len(e) THEN e[k] ELSE r[k - Len(e)]
    BY <1>6, ConcatIs, Zenon
  <2>2. Len(e) + Len(r) = m
    BY <1>1, <1>7
  <2> HIDE DEF c
  <2>3. /\ c \in [1..m -> Byte]
        /\ \A k \in 1..m : c[k] = IF k <= n THEN e[k] ELSE r[k - n]
    BY <1>7, <2>1, <2>2
  <2>4. \A k \in 1..n : k \in 1..m /\ k <= n
    BY <1>1
  <2>5. \A k \in 1..(m - n) : n + k \in 1..m /\ ~(n + k <= n) /\ (n + k) - n = k
    BY <1>1
  <2> QED BY <2>3, <2>4, <2>5
<1> HIDE DEF c
<1>9. ASSUME NEW i \in 1..m PROVE u[i] = c[i]
  <2>1. CASE i \in 1..n
    BY <1>3, <1>8, <2>1
  <2>2. CASE i \notin 1..n
    <3> DEFINE k == i - n
    <3>1. k \in 1..(m - n) /\ i = n + k
      BY <1>1, <2>2
    <3> HIDE DEF k
    <3> QED BY <1>5, <1>8, <3>1
  <2> QED BY <2>1, <2>2
<1>10. u = [i \in 1..m |-> u[i]] /\ c = [i \in 1..m |-> c[i]]
  BY <1>2, <1>8, Zenon
<1>11. [i \in 1..m |-> u[i]] = [i \in 1..m |-> c[i]]
  BY <1>9
<1>12. u = e \o r
  BY <1>10, <1>11, Zenon DEF c
<1> QED BY <1>6, <1>12

\* Fields of a newer schema begin with no tag of this one.
LEMMA KeptIsForeign ==
  ASSUME NEW type \in Types, NEW u \in Seq(Byte), KeptFields(type, u)
  PROVE  Foreign(DOMAIN Cases(type), u)
<1> DEFINE T == DOMAIN Cases(type)
<1>1. T \subseteq 1..35
  BY CasesAreFields
<1>2. CASE u # <<>>
  <2>1. PICK D : /\ Spans(u, D)
                 /\ \A p \in D \ {Len(u)} : \E v, body, q :
                      Framed(u, D, p, v, body, q) /\ NewerField(type, v, body)
    BY DEF KeptFields
  <2>2. 0 \in D \ {Len(u)} /\ D \subseteq 0..Len(u) /\ Len(u) \in Nat
    BY <1>2, <2>1 DEF Spans
  <2>3. PICK v, body, q : Framed(u, D, 0, v, body, q) /\ NewerField(type, v, body)
    BY <2>1, <2>2
  <2> DEFINE e == Encoded(v, body)
             b == EncodeVarint(v)
  <2>4. /\ v \in 0..(Word64 - 1) /\ body \in Seq(Byte)
        /\ q = 0 + Len(e) /\ q \in D /\ StandsAt(u, 0, e)
    BY <2>3 DEF Framed
  <2>5. v \in Int /\ v % Word64 = v /\ v \div 8 \notin T
    <3>1. v \div 8 \notin T
      BY <2>3 DEF NewerField
    <3>2. Word64 \in Nat \ {0} /\ v \in 0..(Word64 - 1)
      BY <2>4, HalfWord
    <3>3. v \in Int
      BY <3>2
    <3>4. v % Word64 = v
      BY <3>2, SmallMod
    <3> QED BY <3>1, <3>3, <3>4
  <2>6. e \in Seq(Byte) /\ Len(e) <= Len(u) /\ e = b \o body
    <3>1. e \in Seq(Byte) /\ Len(e) \in Nat
      BY <2>4, <2>5, EncodedIs
    <3>2. e = b \o body
      BY DEF Encoded
    <3> HIDE DEF e
    <3> QED BY <2>2, <2>4, <3>1, <3>2
  <2>7. b \in Seq(Byte)
    BY <2>5, SizeOfVarintIsExact DEF Sized
  <2> HIDE DEF e
  <2>8. PICK r \in Seq(Byte) : u = e \o r
    BY <2>4, <2>6, FrontAndRest
  <2> SUFFICES ASSUME NEW t \in Seq(Byte), Announced(T, u \o t) PROVE FALSE
    BY DEF Foreign
  <2>9. PICK f \in T, w \in 0..7, s \in Seq(Byte) : u \o t = Tag(f, w) \o s
    BY DEF Announced
  <2> DEFINE n == 8 * f + w
  <2>10. f \in 1..35
    BY <1>1
  <2>11. n \in 0..(Word64 - 1) /\ n \div 8 = f
    BY <2>10, TagNumbers
  <2>12. u \o t = EncodeVarint(n) \o s
    BY <2>9 DEF Tag
  <2> HIDE DEF n, b, T
  <2>13. n \in Int /\ n % Word64 = n
    <3>1. Word64 \in Nat \ {0} /\ n \in 0..(Word64 - 1)
      BY <2>11, HalfWord
    <3>2. n % Word64 = n
      BY <3>1, SmallMod
    <3> QED BY <3>1, <3>2
  <2>14. u \o t = b \o (body \o (r \o t)) /\ body \o (r \o t) \in Seq(Byte)
    <3>0. e \in Seq(Byte) /\ body \in Seq(Byte) /\ b \in Seq(Byte)
      BY <2>4, <2>6, <2>7
    <3>4. Regroups(e, r, t)
      BY <3>0, Regrouped
    <3>1. (e \o r) \o t = e \o (r \o t) /\ r \o t \in Seq(Byte)
      BY <3>4 DEF Regroups
    <3>5. Regroups(b, body, r \o t)
      BY <3>0, <3>1, Regrouped
    <3>2. (b \o body) \o (r \o t) = b \o (body \o (r \o t)) /\ body \o (r \o t) \in Seq(Byte)
      BY <3>5 DEF Regroups
    <3> QED BY <2>6, <2>8, <3>1, <3>2
  <2>15. EncodeVarint(v) \o (body \o (r \o t)) = EncodeVarint(n) \o s
    BY <2>12, <2>14, Zenon DEF b
  <2>16. SameBehind(v, n, body \o (r \o t), s)
    BY <2>5, <2>13, <2>14, <2>15, VarintCancels
  <2>17. v = n
    BY <2>5, <2>13, <2>16 DEF SameBehind
  <2> QED BY <2>5, <2>11, <2>17
<1> QED BY <1>2 DEF Foreign

\* A message that may be sent is one a decoder may make.
LEMMA SendableIsProper ==
  ASSUME NEW type \in Types, NEW m, Sendable(type, m)
  PROVE  ProperMsg(type, m)
<1>1. ASSUME NEW t \in Types, NEW p, SendableFlat(t, p) PROVE ProperFlat(t, p)
  <2>1. "unknown" \in DOMAIN p /\ p.unknown \in Seq(Byte)
    BY <1>1, AlwaysUnknown DEF SendableFlat, GoodFlat, TextGood
  <2>2. Foreign(DOMAIN Cases(t), p.unknown)
    BY <1>1, <2>1, KeptIsForeign DEF SendableFlat
  <2>3. ASSUME NEW f \in Counts \cap DOMAIN p PROVE InRange(f, p[f])
    BY <1>1 DEF SendableFlat, InRange
  <2>4. \A f \in Flags \cap DOMAIN p : p[f] \in BOOLEAN
    BY <1>1 DEF SendableFlat
  <2> QED BY <2>2, <2>3, <2>4 DEF ProperFlat
<1>2. ASSUME type = "AppInfo"
      PROVE  /\ \A f \in Inner \cap DOMAIN m : ProperFlat(TypeOf[f], m[f])
             /\ \A k \in DOMAIN m.attributes : ProperFlat("KeyVal", m.attributes[k])
  <2>1. /\ \A f \in Inner \cap DOMAIN m : SendableFlat(TypeOf[f], m[f])
        /\ \A k \in DOMAIN m.attributes : SendableFlat("KeyVal", m.attributes[k])
    BY <1>2 DEF Sendable
  <2> QED BY <1>1, <2>1, InnerTypes
<1> QED BY <1>1, <1>2 DEF ProperMsg, Sendable

\* A nil pointer is no message: every message has its unknownFields.
NilIsNoMessage == \A type \in Types : ~GoodFlat(Byte, type, Nil)

\* Good text and proper numbers make a message whose encoding tells it.
LEMMA GoodAndProper ==
  ASSUME NilIsNoMessage, NEW type \in Types, NEW m, Good(Byte, type, m), ProperMsg(type, m)
  PROVE  Sound(type, m)
<1>1. SoundFlat(type, m) /\ m # Nil
  BY DEF Good, ProperMsg, SoundFlat, NilIsNoMessage
<1>2. CASE type = "AppInfo"
  <2>1. ASSUME NEW f \in Inner PROVE SoundInner(f, m)
    <3>1. FlatType(TypeOf[f])
      BY InnerTypes DEF FlatType
    <3>2. f \in DOMAIN m => SoundFlat(TypeOf[f], m[f]) /\ m[f] # Nil
      BY <1>2, <3>1 DEF Good, ProperMsg, SoundFlat, NilIsNoMessage, FlatType
    <3> QED BY <3>1, <3>2 DEF SoundInner
  <2>2. /\ IsSequence(m.attributes)
        /\ \A k \in DOMAIN m.attributes :
             SoundFlat("KeyVal", m.attributes[k]) /\ m.attributes[k] # Nil
    BY <1>2, InnerTypes DEF Good, ProperMsg, SoundFlat, NilIsNoMessage
  <2>3. SoundInfo(m)
    BY <1>1, <1>2, <2>1, <2>2 DEF SoundInfo
  <2> QED BY <1>2, <2>3 DEF Sound
<1>3. CASE type # "AppInfo"
  BY <1>1, <1>3 DEF Sound
<1> QED BY <1>2, <1>3

------------------------------------------------------------------------------
(* Equal messages *)

\* Text reads as bytes, whatever a byte of it is.
LEMMA FlatReadsGood ==
  ASSUME buf \in Seq(Byte), NEW type, NEW m, GoodFlat(Chars, type, m)
  PROVE  GoodFlat(Byte, type, FlatIn(buf, m))
<1> DEFINE r == FlatIn(buf, m)
<1>1. /\ DOMAIN r = DOMAIN m
      /\ \A f \in DOMAIN m : r[f] = FlatField(buf, f, m[f])
  BY ReadHas
<1>2. IsAFunction(r)
  BY DEF FlatIn, IsAFunction
<1> HIDE DEF r
<1>3. ASSUME NEW s \in Seq(Chars) PROVE BytesIn(buf, s) \in Seq(Byte)
  <2>1. Bytes(s) = BytesIn(buf, s)
    BY DEF Bytes, BytesIn, ByteAt, ByteIn
  <2> QED BY <2>1, BytesAre
<1>4. ASSUME NEW f \in DOMAIN r, Other(f) PROVE r[f] \in Seq(Byte)
  <2>1. r[f] = BytesIn(buf, m[f])
    BY <1>1, <1>4 DEF FlatField, Other
  <2>2. m[f] \in Seq(Chars)
    BY <1>1, <1>4 DEF GoodFlat, TextGood
  <2> QED BY <1>3, <2>1, <2>2
<1>5. ASSUME "trace_ids" \in DOMAIN r PROVE r.trace_ids \in Seq(Seq(Byte))
  <2> DEFINE a == m["trace_ids"]
             n == Len(a)
             t == r["trace_ids"]
             S == Seq(Byte)
             C == Seq(Chars)
  <2>1. a \in Seq(C)
    BY <1>1, <1>5 DEF GoodFlat, TextGood
  <2>2. t = [k \in DOMAIN a |-> BytesIn(buf, a[k])]
    BY <1>1, <1>5 DEF FlatField, Counts, Flags, Nested
  <2>3. \A c \in C : BytesIn(buf, c) \in S
    BY <1>3
  <2> HIDE DEF a, t, S, C
  <2>4. n \in Nat /\ DOMAIN a = 1..n /\ \A k \in 1..n : a[k] \in C
    BY <2>1
  <2> HIDE DEF n
  <2>5. \A k \in 1..n : BytesIn(buf, a[k]) \in S
    BY <2>3, <2>4
  <2>6. t \in [1..n -> S]
    BY <2>2, <2>4, <2>5, Zenon
  <2>7. t \in Seq(S)
    BY <2>4, <2>6
  <2> QED BY <2>7 DEF t, S
<1>6. ASSUME "unknown" \in DOMAIN r PROVE r.unknown \in Seq(Byte)
  <2>1. m.unknown \in Seq(Byte)
    BY <1>1, <1>6 DEF GoodFlat, TextGood
  <2>2. r.unknown = BytesIn(buf, m.unknown)
    BY <1>1, <1>6 DEF FlatField, Counts, Flags, Nested
  <2> QED BY <2>1, <2>2, OwnBytesRead
<1>7. Fits(type, r)
  BY <1>1 DEF GoodFlat, Fits
<1> QED BY <1>2, <1>4, <1>5, <1>6, <1>7 DEF GoodFlat, TextGood, r

\* Numbers, flags and unknown fields read as themselves.
LEMMA FlatReadsProper ==
  ASSUME NEW type, NEW C, NEW m, GoodFlat(C, type, m), "unknown" \in DOMAIN m,
         ProperFlat(type, m)
  PROVE  ProperFlat(type, FlatIn(buf, m))
<1> DEFINE r == FlatIn(buf, m)
<1>1. /\ DOMAIN r = DOMAIN m
      /\ \A f \in DOMAIN m : r[f] = FlatField(buf, f, m[f])
  BY ReadHas
<1> HIDE DEF r
<1>2. \A f \in Counts \cup Flags : f \in DOMAIN m => r[f] = m[f]
  BY <1>1 DEF FlatField
<1>3. r.unknown = m.unknown
  <2>1. m.unknown \in Seq(Byte)
    BY DEF GoodFlat, TextGood
  <2>2. r.unknown = BytesIn(buf, m.unknown)
    BY <1>1 DEF FlatField, Counts, Flags, Nested
  <2> QED BY <2>1, <2>2, OwnBytesRead
<1>4. ProperFlat(type, r)
  BY <1>1, <1>2, <1>3 DEF ProperFlat
<1> QED BY <1>4 DEF r

\* So does a message with others in it.
LEMMA ReadsGood ==
  ASSUME buf \in Seq(Byte), NEW type \in Types, NEW m, Good(Chars, type, m), ProperMsg(type, m)
  PROVE  Good(Byte, type, Read(m)) /\ ProperMsg(type, Read(m))
<1> DEFINE r == ReadIn(buf, m)
           q == FlatIn(buf, m)
<1>1. Read(m) = r
  BY ReadIs
<1>2. /\ DOMAIN r = DOMAIN m /\ DOMAIN q = DOMAIN m
      /\ \A f \in DOMAIN m : r[f] = ReadField(buf, f, m[f])
      /\ \A f \in DOMAIN m : q[f] = FlatField(buf, f, m[f])
  BY ReadHas
<1>3. IsAFunction(r)
  BY DEF ReadIn, IsAFunction
<1>4. GoodFlat(Byte, type, q) /\ ProperFlat(type, q)
  <2>1. GoodFlat(Chars, type, m) /\ "unknown" \in DOMAIN m /\ ProperFlat(type, m)
    BY AlwaysUnknown DEF Good, GoodFlat, ProperMsg
  <2> QED BY <2>1, FlatReadsGood, FlatReadsProper
<1> HIDE DEF r, q
<1>5. \A f \in DOMAIN m : f \notin Nested => r[f] = q[f]
  BY <1>2 DEF ReadField, Nested, Inner
<1>6. GoodFlat(Byte, type, r)
  <2>1. TextGood(Byte, q) /\ Fits(type, q)
    BY <1>4 DEF GoodFlat
  <2>2. \A f \in DOMAIN r : Other(f) => r[f] \in Seq(Byte)
    BY <1>2, <1>5, <2>1 DEF TextGood, Other
  <2>3. "trace_ids" \in DOMAIN r => r.trace_ids \in Seq(Seq(Byte))
    <3>1. "trace_ids" \notin Nested
      BY DEF Nested
    <3> QED BY <1>2, <1>5, <2>1, <3>1 DEF TextGood
  <2>4. "unknown" \in DOMAIN r => r.unknown \in Seq(Byte)
    <3>1. "unknown" \notin Nested
      BY DEF Nested
    <3> QED BY <1>2, <1>5, <2>1, <3>1 DEF TextGood
  <2>5. Fits(type, r)
    BY <1>2, <2>1 DEF Fits
  <2> QED BY <1>3, <2>2, <2>3, <2>4, <2>5 DEF GoodFlat, TextGood
<1>7. ProperFlat(type, r)
  <2>1. \A f \in Counts \cup Flags \cup {"unknown"} : f \notin Nested
    BY DEF Counts, Flags, Nested
  <2>2. "unknown" \in DOMAIN m
    BY AlwaysUnknown DEF Good, GoodFlat
  <2> QED BY <1>2, <1>4, <1>5, <2>1, <2>2 DEF ProperFlat
<1>8. ASSUME type = "AppInfo"
      PROVE  /\ \A f \in Inner \cap DOMAIN r :
                  GoodFlat(Byte, TypeOf[f], r[f]) /\ ProperFlat(TypeOf[f], r[f])
             /\ IsSequence(r.attributes)
             /\ \A k \in DOMAIN r.attributes :
                  GoodFlat(Byte, "KeyVal", r.attributes[k]) /\ ProperFlat("KeyVal", r.attributes[k])
  <2>1. ASSUME NEW t \in Types, NEW p, GoodFlat(Chars, t, p), ProperFlat(t, p)
        PROVE  GoodFlat(Byte, t, FlatIn(buf, p)) /\ ProperFlat(t, FlatIn(buf, p))
    <3>1. "unknown" \in DOMAIN p
      BY <2>1, AlwaysUnknown DEF GoodFlat
    <3> QED BY <2>1, <3>1, FlatReadsGood, FlatReadsProper
  <2>2. ASSUME NEW f \in Inner \cap DOMAIN r
        PROVE  GoodFlat(Byte, TypeOf[f], r[f]) /\ ProperFlat(TypeOf[f], r[f])
    <3>1. r[f] = FlatIn(buf, m[f])
      BY <1>2 DEF ReadField
    <3>2. /\ GoodFlat(Chars, TypeOf[f], m[f]) /\ ProperFlat(TypeOf[f], m[f])
          /\ TypeOf[f] \in Types
      BY <1>2, <1>8, InnerTypes DEF Good, ProperMsg
    <3> QED BY <2>1, <3>1, <3>2
  <2> DEFINE a == m["attributes"]
             b == r["attributes"]
  <2>3. /\ "attributes" \in DOMAIN m /\ IsSequence(a)
        /\ \A k \in DOMAIN a : GoodFlat(Chars, "KeyVal", a[k]) /\ ProperFlat("KeyVal", a[k])
    BY <1>8, AlwaysAttributes DEF Good, GoodFlat, ProperMsg
  <2>4. b = ReadList(buf, a)
    <3>1. b = ReadField(buf, "attributes", a)
      BY <1>2, <2>3
    <3> QED BY <2>3, <3>1, ReadListIs
  <2>5. /\ IsSequence(b) /\ DOMAIN b = DOMAIN a
        /\ \A k \in DOMAIN a : b[k] = FlatIn(buf, a[k])
    <3> HIDE DEF a, b
    <3> QED BY <2>3, <2>4, ReadListIs
  <2> HIDE DEF a, b
  <2>6. \A k \in DOMAIN b : GoodFlat(Byte, "KeyVal", b[k]) /\ ProperFlat("KeyVal", b[k])
    BY <2>1, <2>3, <2>5, InnerTypes
  <2> QED BY <2>2, <2>5, <2>6 DEF b
<1>9. Good(Byte, type, r) /\ ProperMsg(type, r)
  BY <1>6, <1>7, <1>8 DEF Good, ProperMsg
<1> QED BY <1>1, <1>9

\* Functions of the same fields.
LEMMA SameFields ==
  ASSUME NEW x, NEW y, IsAFunction(x), IsAFunction(y), NEW N, DOMAIN x \subseteq N,
         DOMAIN y \subseteq N,
         \A f \in N : (f \in DOMAIN x <=> f \in DOMAIN y) /\ (f \in DOMAIN x => x[f] = y[f])
  PROVE  x = y
<1>1. DOMAIN x = DOMAIN y /\ \A f \in DOMAIN x : x[f] = y[f]
  OBVIOUS
<1>2. [f \in DOMAIN x |-> x[f]] = [f \in DOMAIN y |-> y[f]]
  BY <1>1
<1> QED BY <1>2, Zenon DEF IsAFunction

\* Messages in which there are no others: equal only if they are the same.
LEMMA FlatEqual ==
  ASSUME NEW C, NEW type, FlatType(type), NEW x, NEW y, GoodFlat(C, type, x), GoodFlat(C, type, y),
         EqualVT(type, x, y)
  PROVE  x = y
<1>1. /\ IsAFunction(x) /\ IsAFunction(y) /\ "unknown" \in DOMAIN x /\ "unknown" \in DOMAIN y
      /\ DOMAIN x \subseteq Names(type) /\ DOMAIN y \subseteq Names(type)
      /\ DOMAIN Empty(type) \subseteq DOMAIN x /\ DOMAIN Empty(type) \subseteq DOMAIN y
  BY AlwaysUnknown DEF FlatType, GoodFlat, TextGood, Fits, Names
<1>2. ASSUME NEW N, Names(type) = N \cup {"unknown"}, Same(x, y, N), x.unknown = y.unknown
      PROVE  x = y
  <2>1. \A f \in Names(type) :
          (f \in DOMAIN x <=> f \in DOMAIN y) /\ (f \in DOMAIN x => x[f] = y[f])
    BY <1>1, <1>2 DEF Same, Present
  <2> QED BY <1>1, <2>1, SameFields
<1>3. CASE type = "AppRequest"
  <2> DEFINE N == {"version", "type", "domain", "resource", "endpoint"}
  <2>1. Names(type) = N \cup {"unknown"}
    BY <1>3, NamesOfTypes
  <2>2. Same(x, y, N) /\ x.unknown = y.unknown
    BY <1>3 DEF EqualVT, AppRequest_EqualVT
  <2> HIDE DEF N
  <2> QED BY <1>2, <2>1, <2>2
<1>4. CASE type = "AppResponse"
  <2> DEFINE N == {"status", "code", "exception", "result", "type", "endpoint"}
  <2>1. Names(type) = N \cup {"unknown"}
    BY <1>4, NamesOfTypes
  <2>2. Same(x, y, N) /\ x.unknown = y.unknown
    BY <1>4 DEF EqualVT, AppResponse_EqualVT
  <2> HIDE DEF N
  <2> QED BY <1>2, <2>1, <2>2
<1>5. CASE type = "AppTrace"
  <2> DEFINE N == {"trace_id", "span_id", "parent_span_id", "x_request_id",
                   "http_proxy_client", "trace_ids"}
  <2>1. Names(type) = N \cup {"unknown"}
    BY <1>5, NamesOfTypes
  <2>2. Same(x, y, N) /\ x.unknown = y.unknown
    BY <1>5 DEF EqualVT, AppTrace_EqualVT
  <2> HIDE DEF N
  <2> QED BY <1>2, <2>1, <2>2
<1>6. CASE type = "KeyVal"
  <2> DEFINE N == {"key", "val"}
  <2>1. Names(type) = N \cup {"unknown"}
    BY <1>6, NamesOfTypes
  <2>2. Same(x, y, N) /\ x.unknown = y.unknown
    BY <1>6 DEF EqualVT, KeyVal_EqualVT
  <2> HIDE DEF N
  <2> QED BY <1>2, <2>1, <2>2
<1>7. CASE type = "NatsMessage"
  <2> DEFINE N == {"subject", "reply_to", "payload"}
  <2>1. Names(type) = N \cup {"unknown"}
    BY <1>7, NamesOfTypes
  <2>2. Same(x, y, N) /\ x.unknown = y.unknown
    BY <1>7 DEF EqualVT, NatsMessage_EqualVT
  <2> HIDE DEF N
  <2> QED BY <1>2, <2>1, <2>2
<1>8. CASE type = "ZmtpMessage"
  <2> DEFINE N == {"match_pattern", "payload"}
  <2>1. Names(type) = N \cup {"unknown"} /\ "payload" \in DOMAIN x /\ "payload" \in DOMAIN y
    BY <1>1, <1>8, NamesOfTypes DEF Empty
  <2>2. /\ Present(x, {"match_pattern"}) = Present(y, {"match_pattern"})
        /\ "match_pattern" \in DOMAIN x => x.match_pattern = y.match_pattern
        /\ x.payload = y.payload /\ x.unknown = y.unknown
    BY <1>8 DEF EqualVT, ZmtpMessage_EqualVT, ZmtpMessage_MatchPattern_EqualVT
  <2>3. Same(x, y, N)
    BY <2>1, <2>2 DEF Same, Present
  <2> HIDE DEF N
  <2> QED BY <1>2, <2>1, <2>2, <2>3
<1> QED BY <1>3, <1>4, <1>5, <1>6, <1>7, <1>8 DEF FlatType, Types

\* Lists of one length with the same members.
LEMMA SameList ==
  ASSUME NEW a, NEW b, IsSequence(a), IsSequence(b), Len(a) = Len(b),
         \A k \in DOMAIN a : a[k] = b[k]
  PROVE  a = b
<1>1. /\ DOMAIN a = 1..Len(a) /\ DOMAIN b = 1..Len(b)
      /\ a = [k \in DOMAIN a |-> a[k]] /\ b = [k \in DOMAIN b |-> b[k]]
  BY DEF IsSequence
<1>2. DOMAIN a = DOMAIN b
  BY <1>1
<1>3. [k \in DOMAIN a |-> a[k]] = [k \in DOMAIN b |-> b[k]]
  BY <1>2
<1> QED BY <1>1, <1>3, Zenon

\* A decoded message is equal to one with a nil among its attributes only if
\* it is the same but for an empty attribute there.
LEMMA InfoEqual ==
  ASSUME NilIsNoMessage, NEW x, Good(Byte, "AppInfo", x), NEW m, Listed("AppInfo", m),
         Good(Byte, "AppInfo", Solid(m)), EqualVT("AppInfo", x, m)
  PROVE  x = Solid(m)
<1> DEFINE s == Solid(m)
           N == {"req_len", "resp_len", "request_id", "protocol_str", "is_end",
                 "is_async", "is_reversed", "biz_type", "biz_code",
                 "biz_scenario", "biz_response_code"}
           P == {"req", "resp", "trace"}
<1>1. /\ DOMAIN s = DOMAIN m /\ "attributes" \in DOMAIN m /\ "unknown" \in DOMAIN m
      /\ \A f \in DOMAIN m : f # "attributes" => s[f] = m[f]
      /\ s.attributes = [k \in DOMAIN m.attributes |-> OrEmpty(m.attributes[k], "KeyVal")]
  BY SolidIs DEF Listed
<1>2. IsSequence(m.attributes)
  BY <1>1 DEF Listed
<1>3. /\ Same(x, m, N) /\ Present(x, P) = Present(m, P)
      /\ "req" \in DOMAIN x => AppInfo_Req_EqualVT(x.req, m.req)
      /\ "resp" \in DOMAIN x => AppInfo_Resp_EqualVT(x.resp, m.resp)
      /\ "trace" \in DOMAIN x => AppTrace_EqualVT(x.trace, m.trace)
      /\ Len(x.attributes) = Len(m.attributes)
      /\ \A k \in DOMAIN x.attributes :
           KeyVal_EqualVT(OrEmpty(x.attributes[k], "KeyVal"), OrEmpty(m.attributes[k], "KeyVal"))
      /\ x.unknown = m.unknown
  BY DEF EqualVT, AppInfo_EqualVT
<1> HIDE DEF s
<1>4. Good(Byte, "AppInfo", s)
  BY DEF s
<1>5. /\ IsAFunction(x) /\ IsAFunction(s)
      /\ "attributes" \in DOMAIN x /\ "unknown" \in DOMAIN x
      /\ DOMAIN x \subseteq Names("AppInfo") /\ DOMAIN s \subseteq Names("AppInfo")
      /\ IsSequence(x.attributes) /\ IsSequence(s.attributes)
      /\ \A k \in DOMAIN x.attributes : GoodFlat(Byte, "KeyVal", x.attributes[k])
      /\ \A k \in DOMAIN s.attributes : GoodFlat(Byte, "KeyVal", s.attributes[k])
      /\ \A f \in Inner \cap DOMAIN x : GoodFlat(Byte, TypeOf[f], x[f])
      /\ \A f \in Inner \cap DOMAIN s : GoodFlat(Byte, TypeOf[f], s[f])
  BY <1>4, AlwaysAttributes, AlwaysUnknown, InnerTypes DEF Good, GoodFlat, TextGood, Fits, Names
<1>6. Names("AppInfo") = N \cup P \cup {"attributes", "unknown"}
  BY NamesOfTypes
<1>7. ASSUME NEW f \in P, f \in DOMAIN x
      PROVE  x[f] = s[f]
  <2>1. f \in DOMAIN m /\ s[f] = m[f] /\ f \in Inner
    BY <1>1, <1>3, <1>7 DEF Present, Inner
  <2>2. /\ GoodFlat(Byte, TypeOf[f], x[f]) /\ GoodFlat(Byte, TypeOf[f], s[f])
        /\ FlatType(TypeOf[f])
    BY <1>1, <1>5, <1>7, <2>1, InnerTypes DEF FlatType
  <2>3. x[f] # Nil /\ m[f] # Nil
    BY <2>1, <2>2 DEF NilIsNoMessage, FlatType
  <2>4. EqualVT(TypeOf[f], x[f], m[f])
    <3>1. CASE f = "req"
      BY <1>3, <1>7, <2>3, <3>1 DEF AppInfo_Req_EqualVT, OrEmpty, EqualVT, TypeOf
    <3>2. CASE f = "resp"
      BY <1>3, <1>7, <2>3, <3>2 DEF AppInfo_Resp_EqualVT, OrEmpty, EqualVT, TypeOf
    <3>3. CASE f = "trace"
      BY <1>3, <1>7, <3>3 DEF EqualVT, TypeOf
    <3> QED BY <3>1, <3>2, <3>3
  <2> QED BY <2>1, <2>2, <2>4, FlatEqual
<1>8. x.attributes = s.attributes
  <2> DEFINE a == x["attributes"]
             b == m["attributes"]
             c == s["attributes"]
  <2>1. /\ IsSequence(a) /\ IsSequence(b) /\ IsSequence(c) /\ Len(a) = Len(b)
        /\ c = [k \in DOMAIN b |-> OrEmpty(b[k], "KeyVal")]
        /\ \A k \in DOMAIN a : KeyVal_EqualVT(OrEmpty(a[k], "KeyVal"), OrEmpty(b[k], "KeyVal"))
        /\ \A k \in DOMAIN a : GoodFlat(Byte, "KeyVal", a[k])
        /\ \A k \in DOMAIN c : GoodFlat(Byte, "KeyVal", c[k])
    BY <1>1, <1>2, <1>3, <1>5
  <2> HIDE DEF a, b, c
  <2>2. /\ DOMAIN a = 1..Len(a) /\ DOMAIN b = 1..Len(b) /\ DOMAIN c = 1..Len(c)
        /\ DOMAIN c = DOMAIN b /\ Len(b) \in Nat /\ Len(c) \in Nat
    BY <2>1 DEF IsSequence
  <2>3. Len(a) = Len(c)
    BY <2>1, <2>2
  <2>4. ASSUME NEW k \in DOMAIN a PROVE a[k] = c[k]
    <3>1. k \in DOMAIN c /\ k \in DOMAIN b
      BY <2>1, <2>2
    <3>2. /\ GoodFlat(Byte, "KeyVal", a[k]) /\ GoodFlat(Byte, "KeyVal", c[k])
          /\ c[k] = OrEmpty(b[k], "KeyVal")
      BY <2>1, <3>1
    <3>3. OrEmpty(a[k], "KeyVal") = a[k]
      BY <3>2, InnerTypes DEF OrEmpty, NilIsNoMessage
    <3>4. EqualVT("KeyVal", a[k], c[k])
      BY <2>1, <3>2, <3>3 DEF EqualVT
    <3> QED BY <3>2, <3>4, InnerTypes, FlatEqual DEF FlatType
  <2>5. a = c
    BY <2>1, <2>3, <2>4, SameList
  <2> QED BY <2>5 DEF a, c
<1>9. ASSUME NEW f \in Names("AppInfo")
      PROVE  (f \in DOMAIN x <=> f \in DOMAIN s) /\ (f \in DOMAIN x => x[f] = s[f])
  <2>1. CASE f \in N
    <3>1. f # "attributes"
      BY <2>1
    <3> HIDE DEF N
    <3> QED BY <1>1, <1>3, <2>1, <3>1 DEF Same, Present
  <2>2. CASE f \in P
    <3> HIDE DEF P
    <3> QED BY <1>1, <1>3, <1>7, <2>2 DEF Present
  <2>3. CASE f \in {"attributes", "unknown"}
    BY <1>1, <1>3, <1>5, <1>8, <2>3
  <2> HIDE DEF N, P
  <2> QED BY <1>6, <2>1, <2>2, <2>3
<1>10. x = s
  BY <1>5, <1>9, SameFields
<1> QED BY <1>10 DEF s

\* Equal to a message that may be sent is only what arrives of it.
LEMMA EqualIsSame ==
  ASSUME NilIsNoMessage, NEW type \in Types, NEW x, Good(Byte, type, x), NEW m,
         Listed(type, m), Good(Byte, type, Solid(m))
  PROVE  EqualVT(type, x, m) <=> x = Solid(m)
<1>1. ASSUME x = Solid(m) PROVE EqualVT(type, x, m)
  BY <1>1, SolidIsEqual
<1>2. ASSUME EqualVT(type, x, m) PROVE x = Solid(m)
  <2>1. CASE type = "AppInfo"
    BY <1>2, <2>1, InfoEqual
  <2>2. CASE type # "AppInfo"
    <3>1. Solid(m) = m /\ FlatType(type)
      BY <2>2, SolidIsSame DEF FlatType
    <3>2. GoodFlat(Byte, type, x) /\ GoodFlat(Byte, type, m)
      BY <3>1 DEF Good
    <3> QED BY <1>2, <3>1, <3>2, FlatEqual
  <2> QED BY <2>1, <2>2
<1> QED BY <1>1, <1>2

\* An encoding is a Go slice, whose length is an int.
AllFit ==
  \A s \in Sent : \A k \in DOMAIN s.messages :
    Whole(s.messages[k]) => Len(Written(s.type, FALSE, s.messages[k])) < Word64

\* A decoder that has returned, and any message that may be sent.
LEMMA EqualWhenWrittenEqual ==
  ASSUME NilIsNoMessage, AllSendable, AllFit, ReadInv, ProperInv
  PROVE  EqualOnTheWire
<1> SUFFICES ASSUME pc = "done", NEW s \in Sent, NEW m \in Range(s.messages),
                    s.type = sent.type, Whole(m)
             PROVE  EqualVT(s.type, Read(top.msg), m)
                      <=> Written(s.type, FALSE, Read(top.msg)) = Written(s.type, FALSE, m)
  BY DEF EqualOnTheWire
<1> DEFINE type == s.type
           x == Read(top.msg)
           y == Solid(m)
<1>1. PICK k \in DOMAIN s.messages : m = s.messages[k]
  BY DEF Range
<1>2. type \in Types /\ IsMessage(type, m)
  BY <1>1, InputAssumption
<1>3. /\ IsAFunction(m) /\ Sendable(type, y)
      /\ Len(Written(type, FALSE, m)) < Word64
  BY <1>1 DEF AllSendable, AllFit
<1>4. Good(Byte, type, y) /\ ProperMsg(type, y)
  <2>1. Good(Byte, type, y)
    BY <1>3 DEF Sendable
  <2> HIDE DEF y, type
  <2> QED BY <1>2, <1>3, <2>1, SendableIsProper
<1>5. Listed(type, m)
  BY <1>2, <1>3, <1>4, SolidListed
<1>6. Good(Byte, type, x) /\ ProperMsg(type, x)
  <2>1. BoundsInv /\ StackInv /\ Outermost
    BY DEF ReadInv, TypeInv
  <2>2. Len(stack) = 1 /\ top = stack[1]
    <3>1. Len(stack) # 2
      BY <2>1 DEF StackInv
    <3> QED BY <2>1, <3>1 DEF StackInv, top
  <2>3. top.type = type
    BY <2>1, <2>2 DEF Outermost
  <2>4. Good(Chars, type, top.msg) /\ ProperMsg(type, top.msg)
    BY <2>1, <2>3, TopIsProper
  <2>5. buf \in Seq(Byte)
    BY <2>1 DEF BoundsInv
  <2> HIDE DEF type
  <2> QED BY <1>2, <2>4, <2>5, ReadsGood
<1>7. EqualVT(type, x, m) <=> x = y
  <2> HIDE DEF x, type
  <2> QED BY <1>2, <1>4, <1>5, <1>6, EqualIsSame
<1>8. Written(type, FALSE, y) = Written(type, FALSE, m)
  BY <1>5, SolidIsWritten
<1>9. Sound(type, x) /\ Sound(type, y)
  <2> HIDE DEF x, y, type
  <2> QED BY <1>2, <1>4, <1>6, GoodAndProper
<1>10. ASSUME Written(type, FALSE, x) = Written(type, FALSE, m) PROVE x = y
  <2> HIDE DEF x, y, type
  <2>1. Written(type, FALSE, x) = Written(type, FALSE, y)
    BY <1>8, <1>10
  <2>2. Len(Written(type, FALSE, x)) < Word64
    BY <1>3, <1>10
  <2> QED BY <1>9, <2>1, <2>2, WrittenTellsMessages
<1>11. x = y => Written(type, FALSE, x) = Written(type, FALSE, m)
  <2> HIDE DEF x, y, type
  <2> QED BY <1>8
<1> HIDE DEF x, y
<1>12. EqualVT(type, x, m) <=> Written(type, FALSE, x) = Written(type, FALSE, m)
  <2> HIDE DEF type
  <2> QED BY <1>7, <1>10, <1>11
<1> QED BY <1>12 DEF x

\* A decoded message is equal to one that may be sent exactly when the two are
\* the same on the wire, so that neither a field nor an unknown one, a nil in a
\* list or which case of a oneof it is can get lost in a comparison, nor in the
\* bytes (WasmPluginApi_vtproto.pb.go:305-632, 634-1208).
THEOREM EqualIsTheSameOnTheWire ==
  ASSUME NilIsNoMessage, AllSendable, AllFit
  PROVE  Spec => []EqualOnTheWire
<1> DEFINE Holds == ReadInv /\ ProperInv
<1>1. Init => Holds
  <2>1. Init => ReadInv
    BY ReadInit
  <2>2. Init => ProperInv
    BY SentInit, ProperInit
  <2> QED BY <2>1, <2>2
<1>2. Holds /\ [Next]_vars => Holds'
  <2>1. ReadInv /\ [Next]_vars => ReadInv'
    BY ReadNext
  <2>2. ReadInv /\ ProperInv /\ [Next]_vars => ProperInv'
    BY ProperNext DEF ReadInv, TypeInv
  <2> QED BY <2>1, <2>2
<1>3. Holds => EqualOnTheWire
  BY EqualWhenWrittenEqual
<1> QED BY <1>1, <1>2, <1>3, PTL DEF Spec

==============================================================================
