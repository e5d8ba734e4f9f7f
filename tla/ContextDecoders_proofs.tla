----------------------- MODULE ContextDecoders_proofs -----------------------
(***************************************************************************)
(* What the four decoders of sdk/serde.go make of a buffer, for every      *)
(* message an agent can encode and wherever it is cut.                     *)
(***************************************************************************)
EXTENDS ContextDecoders, Foundations

------------------------------------------------------------------------------
(* Bytes of a buffer *)

Octet == {b \in Nat : b < 256}
Word16 == {n \in Nat : n < 65536}

\* The decoders' b[k], b[from:to] and big-endian numbers, counted from 0.
ByteOf(b, k) == IF k < Len(b) THEN b[k+1] ELSE 0
SliceOf(b, from, to) == [k \in 1..to - from |-> ByteOf(b, from + k - 1)]
Number(b, k) == ByteOf(b, k) * 256 + ByteOf(b, k + 1)

\* How an agent writes a 16-bit number.
TwoBytes(n) == <<n \div 256, n % 256>>

\* The three decoders of a host buffer mean the same by these.
LEMMA SameBytes ==
  /\ Base!Byte8 = Octet /\ Req!Byte8 = Octet /\ Resp!Byte8 = Octet
  /\ Base!Uint16 = Word16 /\ Resp!Uint16 = Word16
  /\ \A k \in Nat : /\ Base!Byte(k) = ByteOf(buf, k)
                    /\ Req!Byte(k) = ByteOf(buf, k)
                    /\ Resp!Byte(k) = ByteOf(buf, k)
                    /\ Base!BigEndian16(k) = Number(buf, k)
                    /\ Resp!BigEndian16(k) = Number(buf, k)
  /\ \A from, to \in Nat : /\ Base!Slice(from, to) = SliceOf(buf, from, to)
                           /\ Req!Slice(from, to) = SliceOf(buf, from, to)
                           /\ Resp!Slice(from, to) = SliceOf(buf, from, to)
  BY DEF Base!Byte8, Req!Byte8, Resp!Byte8, Base!Uint16, Resp!Uint16, Octet, Word16,
     Base!Byte, Req!Byte, Resp!Byte, ByteOf, Base!BigEndian16, Resp!BigEndian16,
     Number, Base!Slice, Req!Slice, Resp!Slice, SliceOf

LEMMA ByteOfType ==
  ASSUME NEW b \in Seq(Octet), NEW k \in Nat
  PROVE  ByteOf(b, k) \in Octet
<1>1. CASE k < Len(b)
  <2>1. k + 1 \in 1..Len(b)
    BY <1>1
  <2> QED BY <1>1, <2>1 DEF ByteOf
<1>2. CASE ~(k < Len(b))
  BY <1>2 DEF ByteOf, Octet
<1> QED BY <1>1, <1>2

LEMMA SliceOfType ==
  ASSUME NEW b \in Seq(Octet), NEW from \in Nat, NEW to \in Nat, from <= to
  PROVE  SliceOf(b, from, to) \in Seq(Octet)
<1>1. to - from \in Nat
  OBVIOUS
<1>2. \A k \in 1..to - from : ByteOf(b, from + k - 1) \in Octet
  <2> SUFFICES ASSUME NEW k \in 1..to - from PROVE ByteOf(b, from + k - 1) \in Octet
    OBVIOUS
  <2>1. from + k - 1 \in Nat
    OBVIOUS
  <2> QED BY <2>1, ByteOfType
<1> QED BY <1>1, <1>2 DEF SliceOf

LEMMA NumberType ==
  ASSUME NEW b \in Seq(Octet), NEW k \in Nat
  PROVE  Number(b, k) \in Word16
<1>1. ByteOf(b, k) \in Octet /\ ByteOf(b, k + 1) \in Octet
  BY ByteOfType
<1> QED BY <1>1 DEF Number, Octet, Word16

\* A part that has arrived is read as it was sent, byte by byte or as a slice.
LEMMA ByteOfPart ==
  ASSUME NEW b \in Seq(Octet), NEW part \in Seq(Octet), NEW at \in Nat,
         StandsAt(b, at, part), NEW k \in 1..Len(part), at + k <= Len(b)
  PROVE  ByteOf(b, at + k - 1) = part[k]
<1>1. (at + k - 1) + 1 = at + k /\ at + k - 1 < Len(b)
  OBVIOUS
<1> QED BY <1>1 DEF ByteOf, StandsAt

LEMMA SliceOfPart ==
  ASSUME NEW b \in Seq(Octet), NEW part \in Seq(Octet), NEW at \in Nat,
         StandsAt(b, at, part), at + Len(part) <= Len(b)
  PROVE  SliceOf(b, at, at + Len(part)) = part
<1>1. (at + Len(part)) - at = Len(part) /\ Len(part) \in Nat
  OBVIOUS
<1>2. ASSUME NEW k \in 1..Len(part) PROVE ByteOf(b, at + k - 1) = part[k]
  <2>1. at + k <= Len(b)
    BY <1>1
  <2> QED BY <2>1, ByteOfPart
<1>3. part = [k \in 1..Len(part) |-> part[k]]
  OBVIOUS
<1> QED BY <1>1, <1>2, <1>3 DEF SliceOf

\* Big-endian numbers are read back.
LEMMA TwoBytesType ==
  ASSUME NEW n \in Word16
  PROVE  /\ TwoBytes(n) \in Seq(Octet)
         /\ Len(TwoBytes(n)) = 2
         /\ TwoBytes(n)[1] * 256 + TwoBytes(n)[2] = n
<1>1. n \in Nat /\ n < 65536
  BY DEF Word16
<1>2. /\ n \div 256 \in Nat /\ n \div 256 < 256
      /\ n % 256 \in Nat /\ n % 256 < 256
      /\ (n \div 256) * 256 + (n % 256) = n
  BY <1>1
<1>3. n \div 256 \in Octet /\ n % 256 \in Octet
  BY <1>2 DEF Octet
<1> QED BY <1>2, <1>3 DEF TwoBytes

LEMMA NumberOfPart ==
  ASSUME NEW b \in Seq(Octet), NEW n \in Word16, NEW at \in Nat,
         StandsAt(b, at, TwoBytes(n)), at + 2 <= Len(b)
  PROVE  Number(b, at) = n
<1> DEFINE part == TwoBytes(n)
<1>1. part \in Seq(Octet) /\ Len(part) = 2 /\ part[1] * 256 + part[2] = n
  BY TwoBytesType
<1>2. StandsAt(b, at, part)
  OBVIOUS
<1> HIDE DEF part
<1>3. 1 \in 1..Len(part) /\ 2 \in 1..Len(part) /\ at + 1 <= Len(b)
  BY <1>1
<1>4. ByteOf(b, at + 1 - 1) = part[1] /\ ByteOf(b, at + 2 - 1) = part[2]
  BY <1>1, <1>2, <1>3, ByteOfPart
<1>5. at + 1 - 1 = at /\ at + 2 - 1 = at + 1
  OBVIOUS
<1> QED BY <1>1, <1>4, <1>5 DEF Number

------------------------------------------------------------------------------
(* The custom message *)

MsgInv ==
  /\ Msg!TypeOK
  /\ Msg!Encodable(sent)
  /\ pc = "decode" => ctx = Nil
  /\ Msg!PanicsOnlyOnWrap
  /\ Msg!NothingPastTheMessage

LEMMA InitMsg == Msg!Init => MsgInv
<1> SUFFICES ASSUME Msg!Init PROVE MsgInv
  OBVIOUS
<1> USE DEF Msg!Init
<1>1. /\ sent \in MsgSent /\ Msg!Encodable(sent)
      /\ pc = "decode" /\ ctx = Nil /\ baseOk \in BOOLEAN
  OBVIOUS
<1>2. arrived \in 0..PageSize
  <2>1. PageSize \in Nat
    BY SizesAssumption DEF Msg!SizesOk
  <2>2. Len(sent.payload) \in Nat
    BY <1>1 DEF Msg!Encodable
  <2>3. Msg!HeaderLen \in Nat
    BY DEF Msg!HeaderLen
  <2> QED BY <2>1, <2>2, <2>3
<1> QED
  BY <1>1, <1>2 DEF MsgInv, Msg!TypeOK, Msg!PanicsOnlyOnWrap, Msg!NothingPastTheMessage

\* The sum of the length and the header, with what it is when it wraps.
LEMMA HighOf ==
  ASSUME MsgInv
  PROVE  /\ sent.length \in Nat /\ sent.length < Word
         /\ arrived \in Nat /\ arrived <= PageSize /\ PageSize < Word
         /\ PageSize \in Nat /\ Word \in Nat /\ 10 <= PageSize
         /\ sent.length < Word - 10 => Msg!High = sent.length + 10
         /\ sent.length >= Word - 10 => Msg!High = sent.length + 10 - Word
<1>1. /\ PageSize \in Nat /\ Word \in Nat /\ 10 <= PageSize /\ PageSize < Word
  BY SizesAssumption DEF Msg!SizesOk, Msg!HeaderLen
<1>2. sent.length \in 0..Word - 1 /\ arrived \in 0..PageSize
  BY DEF MsgInv, Msg!TypeOK, Msg!Encodable
<1>3. ASSUME NEW x \in Nat, NEW w \in Nat, x < w PROVE x % w = x
  BY <1>3
<1>4. ASSUME NEW x \in Nat, NEW w \in Nat, w > 0, w <= x, x < w + w PROVE x % w = x - w
  BY <1>4
<1> DEFINE x == sent.length + 10
<1>5. x \in Nat /\ x = sent.length + 10 /\ Msg!High = x % Word /\ Word > 0
  BY <1>1, <1>2 DEF Msg!High, Msg!HeaderLen
<1> HIDE DEF x
<1>6. ASSUME sent.length < Word - 10 PROVE Msg!High = sent.length + 10
  <2>1. x < Word
    BY <1>1, <1>2, <1>5, <1>6
  <2>2. x % Word = x
    BY <1>1, <1>3, <1>5, <2>1
  <2> QED BY <1>5, <2>2
<1>7. ASSUME sent.length >= Word - 10 PROVE Msg!High = sent.length + 10 - Word
  <2>1. Word <= x /\ x < Word + Word
    BY <1>1, <1>2, <1>5, <1>7
  <2>2. x % Word = x - Word
    BY <1>1, <1>4, <1>5, <2>1
  <2> QED BY <1>1, <1>2, <1>5, <2>2
<1> QED BY <1>1, <1>2, <1>6, <1>7

LEMMA StepMsg == MsgInv /\ [Msg!Next]_(Msg!vars) => MsgInv'
<1> SUFFICES ASSUME MsgInv, [Msg!Next]_(Msg!vars) PROVE MsgInv'
  OBVIOUS
<1> DEFINE n == sent.length
           high == Msg!High
<1>a. /\ n \in Nat /\ n < Word
      /\ arrived \in Nat /\ arrived <= PageSize /\ PageSize < Word
      /\ PageSize \in Nat /\ Word \in Nat /\ 10 <= PageSize
      /\ n < Word - 10 => high = n + 10
      /\ n >= Word - 10 => high = n + 10 - Word
  BY HighOf
<1>b. /\ Msg!TooLong <=> high > arrived
      /\ Msg!SliceOk <=> 10 <= high /\ high <= PageSize
      /\ Msg!HeaderPresent <=> arrived >= 10
  BY DEF Msg!TooLong, Msg!High, Msg!SliceOk, Msg!HeaderPresent, Msg!HeaderLen
<1>c. n >= Word - 10 => high \in Nat /\ high < 10
  <2> HIDE DEF n, high
  <2> QED BY <1>a
<1>1. CASE Msg!Refuse
  <2>1. /\ pc = "decode" /\ pc' = "done" /\ ctx = Nil
        /\ UNCHANGED <<sent, arrived, baseOk, ctx>>
    BY <1>1 DEF Msg!Refuse, MsgInv
  <2>2. arrived < 10 \/ ~baseOk \/ high > arrived
    BY <1>1, <1>a, <1>b DEF Msg!Refuse
  <2>3. ~(arrived >= 10 /\ baseOk /\ n >= Word - 10)
    <3> HIDE DEF n, high
    <3> QED BY <1>a, <1>c, <2>2
  <2>4. Msg!PanicsOnlyOnWrap'
    BY <2>1, <2>3 DEF Msg!PanicsOnlyOnWrap, Msg!HeaderLen
  <2>5. Msg!NothingPastTheMessage'
    BY <2>1 DEF Msg!NothingPastTheMessage
  <2> QED BY <2>1, <2>4, <2>5 DEF MsgInv, Msg!TypeOK, Msg!Encodable
<1>2. CASE Msg!Read
  <2> DEFINE payload == [k \in 1..high - 10 |-> Msg!Body(k)]
  <2>1. /\ pc = "decode" /\ pc' = "done"
        /\ UNCHANGED <<sent, arrived, baseOk>>
        /\ ctx' = [hook |-> sent.hook, type |-> sent.type, payload |-> payload]
    BY <1>2 DEF Msg!Read, Msg!HeaderLen
  <2>2. arrived >= 10 /\ ~(high > arrived) /\ 10 <= high /\ high <= PageSize
    BY <1>2, <1>b DEF Msg!Read
  <2>3. n < Word - 10 /\ high = n + 10
    <3> HIDE DEF n, high
    <3> QED BY <1>a, <1>c, <2>2
  <2>4. high - 10 = n /\ 10 + n <= arrived /\ n <= PageSize - 10
    <3> HIDE DEF n, high
    <3> QED BY <1>a, <2>2, <2>3
  <2>5. /\ sent.payload \in Seq(Nat) /\ Len(sent.payload) \in Nat
        /\ DOMAIN sent.payload = 1..Len(sent.payload)
    BY DEF MsgInv, Msg!Encodable
  <2>6. \A k \in 1..n : Msg!Body(k) \in Nat
    BY <2>5, <1>a DEF Msg!Body
  <2>7. payload \in Seq(Nat) /\ Len(payload) = n /\ DOMAIN payload = 1..n
    <3>1. payload = [k \in 1..n |-> Msg!Body(k)]
      BY <2>4
    <3> HIDE DEF n, high, payload
    <3> QED BY <1>a, <2>6, <3>1
  <2>8. ASSUME NEW k \in DOMAIN payload \cap DOMAIN sent.payload
        PROVE  payload[k] = sent.payload[k]
    <3>1. k \in 1..n /\ k \in 1..Len(sent.payload)
      BY <2>5, <2>7
    <3>2. k <= Len(sent.payload) /\ 10 + k <= arrived
      <4> HIDE DEF n, high, payload
      <4> QED BY <1>a, <2>4, <2>5, <3>1
    <3>3. payload[k] = Msg!Body(k)
      BY <3>1, <2>4
    <3> QED BY <3>2, <3>3 DEF Msg!Body, Msg!HeaderLen
  <2> HIDE DEF payload
  <2>9. ctx'.payload = payload /\ ctx'.hook = sent.hook /\ ctx'.type = sent.type
    BY <2>1
  <2>10. Msg!NothingPastTheMessage'
    BY <2>1, <2>4, <2>7, <2>8, <2>9 DEF Msg!NothingPastTheMessage, Msg!HeaderLen
  <2>11. Msg!TypeOK'
    BY <2>1, <2>4, <2>7, <2>9 DEF MsgInv, Msg!TypeOK, Msg!HeaderLen
  <2>12. ~(n >= Word - 10)
    <3> HIDE DEF n, high
    <3> QED BY <1>a, <2>3
  <2>13. Msg!PanicsOnlyOnWrap'
    BY <2>1, <2>12 DEF Msg!PanicsOnlyOnWrap, Msg!HeaderLen
  <2> QED BY <2>1, <2>10, <2>11, <2>13 DEF MsgInv, Msg!Encodable
<1>3. CASE Msg!Panic
  <2>1. /\ pc = "decode" /\ pc' = "trap" /\ ctx = Nil
        /\ UNCHANGED <<sent, arrived, baseOk, ctx>>
    BY <1>3 DEF Msg!Panic, MsgInv
  <2>2. arrived >= 10 /\ baseOk /\ ~(high > arrived) /\ ~(10 <= high /\ high <= PageSize)
    BY <1>3, <1>b DEF Msg!Panic
  <2>3. n >= Word - 10
    <3> HIDE DEF n, high
    <3> QED BY <1>a, <1>c, <2>2
  <2>4. Msg!PanicsOnlyOnWrap'
    BY <2>1, <2>2, <2>3 DEF Msg!PanicsOnlyOnWrap, Msg!HeaderLen
  <2>5. Msg!NothingPastTheMessage'
    BY <2>1 DEF Msg!NothingPastTheMessage
  <2> QED BY <2>1, <2>4, <2>5 DEF MsgInv, Msg!TypeOK, Msg!Encodable
<1>4. CASE UNCHANGED Msg!vars
  BY <1>4 DEF Msg!vars, MsgInv, Msg!TypeOK, Msg!Encodable, Msg!PanicsOnlyOnWrap,
     Msg!NothingPastTheMessage
<1> QED BY <1>1, <1>2, <1>3, <1>4 DEF Msg!Next

------------------------------------------------------------------------------
(* The context of a response *)

\* Where the parts of a response stand.
RespParts(b) ==
  /\ StandsAt(b, 0, TwoBytes(sent.code))
  /\ StandsAt(b, 2, <<sent.status>>)
  /\ sent.endpoint # Nil => /\ StandsAt(b, 3, TwoBytes(Len(sent.endpoint)))
                            /\ StandsAt(b, 5, sent.endpoint)

RespSize == IF sent.endpoint = Nil THEN 3 ELSE 5 + Len(sent.endpoint)

RespCtx(endpoint) ==
  [code |-> sent.code, status |-> sent.status, endpoint |-> endpoint]

RespInv ==
  /\ Resp!TypeOK
  /\ Resp!Encodable(sent)
  /\ Len(Resp!Encode(sent)) = RespSize
  /\ Len(buf) <= RespSize + 1
  /\ RespParts(buf)
  /\ pc = "header" => ctx = Nil
  /\ pc = "endpoint" => /\ baseOk /\ Len(buf) >= 3
                        /\ sent.status \in Resp!RespStatus
                        /\ ctx = RespCtx(<<>>)
  /\ Resp!InBounds
  /\ Resp!EndpointWholeOrNone

LEMMA RespSentTypes ==
  ASSUME Resp!Encodable(sent)
  PROVE  /\ sent.code \in Word16 /\ sent.status \in Octet
         /\ TwoBytes(sent.code) \in Seq(Octet) /\ Len(TwoBytes(sent.code)) = 2
         /\ <<sent.status>> \in Seq(Octet) /\ Len(<<sent.status>>) = 1
         /\ sent.endpoint # Nil =>
              /\ sent.endpoint \in Seq(Octet)
              /\ Len(sent.endpoint) \in Nat /\ Len(sent.endpoint) \in Word16
              /\ TwoBytes(Len(sent.endpoint)) \in Seq(Octet)
              /\ Len(TwoBytes(Len(sent.endpoint))) = 2
<1>1. sent.code \in Word16 /\ sent.status \in Octet
  BY SameBytes DEF Resp!Encodable
<1>2. ASSUME sent.endpoint # Nil
      PROVE  /\ sent.endpoint \in Seq(Octet)
             /\ Len(sent.endpoint) \in Nat /\ Len(sent.endpoint) \in Word16
  <2>1. sent.endpoint \in Seq(Octet) /\ Len(sent.endpoint) < 65536
    BY <1>2, SameBytes DEF Resp!Encodable
  <2> QED BY <2>1 DEF Word16
<1> QED BY <1>1, <1>2, TwoBytesType

LEMMA RespEncoding ==
  ASSUME Resp!Encodable(sent)
  PROVE  /\ Resp!Encode(sent) \in Seq(Octet)
         /\ Len(Resp!Encode(sent)) = RespSize /\ RespSize \in Nat
         /\ RespParts(Resp!Encode(sent))
<1> DEFINE code == TwoBytes(sent.code)
           status == <<sent.status>>
           size == TwoBytes(Len(sent.endpoint))
           ep == sent.endpoint
           head == code \o status
           tail == IF ep = Nil THEN <<>> ELSE size \o ep
           e == Resp!Encode(sent)
<1>1. e = head \o tail
  BY DEF Resp!Encode, Resp!Uint16Bytes, TwoBytes
<1>2. /\ code \in Seq(Octet) /\ Len(code) = 2
      /\ status \in Seq(Octet) /\ Len(status) = 1
      /\ ep # Nil => /\ ep \in Seq(Octet) /\ Len(ep) \in Nat
                     /\ size \in Seq(Octet) /\ Len(size) = 2
  BY RespSentTypes
<1>3. head \in Seq(Octet) /\ Len(head) = 3
  <2> HIDE DEF code, status
  <2>1. code \o status \in Seq(Octet) /\ Len(code \o status) = Len(code) + Len(status)
    BY <1>2, ConcatParts
  <2> QED BY <1>2, <2>1
<1>4. /\ tail \in Seq(Octet)
      /\ ep = Nil => Len(tail) = 0
      /\ ep # Nil => /\ Len(tail) = 2 + Len(ep)
                     /\ StandsAt(tail, 0, size) /\ StandsAt(tail, 2, ep)
  <2>1. CASE ep = Nil
    BY <2>1
  <2>2. CASE ep # Nil
    <3>1. tail = size \o ep
      BY <2>2
    <3> HIDE DEF tail, size
    <3>2. /\ tail \in Seq(Octet) /\ Len(tail) = 2 + Len(ep)
          /\ StandsAt(tail, 2, ep) /\ Begins(size, tail)
      BY <1>2, <2>2, <3>1, ConcatParts
    <3>3. StandsAt(tail, 0, size)
      BY <1>2, <2>2, <3>2, BeginningStands
    <3> QED BY <2>2, <3>2, <3>3
  <2> QED BY <2>1, <2>2
<1> HIDE DEF e
<1>5. e \in Seq(Octet) /\ Len(e) = RespSize /\ RespSize \in Nat
  <2>1. e \in Seq(Octet) /\ Len(e) = 3 + Len(tail)
    <3> HIDE DEF head, tail
    <3> QED BY <1>1, <1>3, <1>4, ConcatParts
  <2> HIDE DEF tail
  <2> QED BY <1>2, <1>4, <2>1 DEF RespSize
<1>6. StandsAt(e, 0, code) /\ StandsAt(e, 2, status)
  <2>1. Begins(head, e)
    <3> HIDE DEF head, tail
    <3> QED BY <1>1, <1>3, <1>4, ConcatParts
  <2>2. Begins(code, e) /\ StandsAt(e, 2, status)
    <3>1. Begins(code \o status, e)
      BY <2>1
    <3> HIDE DEF code, status
    <3>2. Begins(code, e) /\ StandsAt(e, Len(code), status)
      BY <1>2, <1>5, <3>1, PartOfBeginning
    <3> QED BY <1>2, <3>2
  <2> HIDE DEF code, status
  <2> QED BY <1>2, <1>5, <2>2, BeginningStands
<1>7. ep # Nil => StandsAt(e, 3, size) /\ StandsAt(e, 5, ep)
  <2> SUFFICES ASSUME ep # Nil PROVE StandsAt(e, 3, size) /\ StandsAt(e, 5, ep)
    OBVIOUS
  <2>1. e = (head \o size) \o ep
    <3>1. e = head \o (size \o ep)
      BY <1>1
    <3> HIDE DEF head, size, ep
    <3> QED BY <1>2, <1>3, <3>1
  <2> HIDE DEF head, size, ep
  <2>2. head \o size \in Seq(Octet) /\ Len(head \o size) = 5
    <3>1. head \o size \in Seq(Octet) /\ Len(head \o size) = Len(head) + Len(size)
      BY <1>2, <1>3, ConcatParts
    <3>2. Len(size) = 2
      BY <1>2
    <3> HIDE DEF head
    <3> QED BY <1>3, <3>1, <3>2
  <2>3. Begins((head \o size) \o ep, e)
    BY <2>1, <1>5, BeginsItself
  <2>4. Begins(head \o size, e) /\ StandsAt(e, Len(head \o size), ep)
    BY <1>2, <1>5, <2>2, <2>3, PartOfBeginning
  <2>5. StandsAt(e, Len(head), size)
    BY <1>2, <1>3, <1>5, <2>4, PartOfBeginning
  <2> QED BY <1>3, <2>2, <2>4, <2>5
<1> QED BY <1>5, <1>6, <1>7 DEF RespParts, e

LEMMA InitResp == Resp!Init => RespInv
<1> SUFFICES ASSUME Resp!Init PROVE RespInv
  OBVIOUS
<1>1. /\ sent \in RespSent /\ Resp!Encodable(sent) /\ baseOk \in BOOLEAN
      /\ pc = "header" /\ ctx = Nil /\ touched = 0
  BY DEF Resp!Init
<1>2. /\ Resp!Encode(sent) \in Seq(Octet)
      /\ Len(Resp!Encode(sent)) = RespSize /\ RespSize \in Nat
      /\ RespParts(Resp!Encode(sent))
  BY <1>1, RespEncoding
<1> DEFINE e == Resp!Encode(sent)
<1>3. PICK n \in 0..Len(e) + 1 : buf = SubSeq(e \o <<0>>, 1, n)
  BY DEF Resp!Init
<1>4. <<0>> \in Seq(Octet) /\ Len(<<0>>) = 1
  BY DEF Octet
<1> HIDE DEF e
<1>5. e \in Seq(Octet) /\ Len(e) = RespSize /\ RespParts(e)
  BY <1>2 DEF e
<1>6. n \in 0..Len(e \o <<0>>)
  BY <1>2, <1>3, <1>4, <1>5
<1>7. ASSUME NEW part \in Seq(Octet), NEW at \in Nat, at + Len(part) <= Len(e),
             StandsAt(e, at, part)
      PROVE  StandsAt(buf, at, part)
  BY <1>3, <1>4, <1>5, <1>6, <1>7, StandsInArrived
<1>8. buf \in Seq(Octet) /\ Len(buf) = n /\ Len(buf) \in Nat
  BY <1>3, <1>4, <1>5, <1>6
<1>9. RespParts(buf)
  <2>1. /\ StandsAt(buf, 0, TwoBytes(sent.code)) /\ StandsAt(buf, 2, <<sent.status>>)
    <3>1. 3 <= Len(e)
      BY <1>1, <1>2, <1>5, RespSentTypes DEF RespSize
    <3>2. /\ TwoBytes(sent.code) \in Seq(Octet) /\ 0 + Len(TwoBytes(sent.code)) <= Len(e)
          /\ <<sent.status>> \in Seq(Octet) /\ 2 + Len(<<sent.status>>) <= Len(e)
      BY <1>1, <1>2, <1>5, <3>1, RespSentTypes
    <3> QED BY <1>5, <1>7, <3>2 DEF RespParts
  <2>2. ASSUME sent.endpoint # Nil
        PROVE  /\ StandsAt(buf, 3, TwoBytes(Len(sent.endpoint)))
               /\ StandsAt(buf, 5, sent.endpoint)
    <3>1. Len(e) = 5 + Len(sent.endpoint) /\ Len(sent.endpoint) \in Nat
      BY <1>1, <1>5, <2>2, RespSentTypes DEF RespSize
    <3> DEFINE ep == sent.endpoint
               size == TwoBytes(Len(ep))
    <3>2. /\ size \in Seq(Octet) /\ 3 + Len(size) <= Len(e)
          /\ ep \in Seq(Octet) /\ 5 + Len(ep) <= Len(e)
      <4>1. size \in Seq(Octet) /\ Len(size) = 2 /\ ep \in Seq(Octet)
        BY <1>1, <2>2, RespSentTypes
      <4> HIDE DEF size
      <4> QED BY <3>1, <4>1
    <3>3. StandsAt(e, 3, size) /\ StandsAt(e, 5, ep)
      BY <1>5, <2>2 DEF RespParts
    <3> HIDE DEF ep, size
    <3>4. StandsAt(buf, 3, size) /\ StandsAt(buf, 5, ep)
      BY <1>7, <3>2, <3>3
    <3> QED BY <3>4 DEF ep, size
  <2> QED BY <2>1, <2>2 DEF RespParts
<1>10. Resp!TypeOK
  BY <1>1, <1>8, SameBytes DEF Resp!TypeOK
<1>11. Resp!InBounds /\ Resp!EndpointWholeOrNone
  BY <1>1, <1>8 DEF Resp!InBounds, Resp!EndpointWholeOrNone
<1>12. Len(buf) <= RespSize + 1
  BY <1>2, <1>3, <1>5, <1>8
<1> QED BY <1>1, <1>2, <1>9, <1>10, <1>11, <1>12 DEF RespInv

LEMMA StepResp == RespInv /\ [Resp!Next]_(Resp!vars) => RespInv'
<1> SUFFICES ASSUME RespInv, [Resp!Next]_(Resp!vars) PROVE RespInv'
  OBVIOUS
<1>a. /\ buf \in Seq(Octet) /\ Len(buf) \in Nat /\ Resp!Encodable(sent)
      /\ RespParts(buf) /\ Len(buf) <= RespSize + 1
  <2>1. buf \in Seq(Octet)
    BY SameBytes DEF RespInv, Resp!TypeOK
  <2> QED BY <2>1 DEF RespInv
<1>b. /\ sent.code \in Word16 /\ sent.status \in Octet
      /\ sent.endpoint # Nil => /\ sent.endpoint \in Seq(Octet)
                                /\ Len(sent.endpoint) \in Nat
                                /\ Len(sent.endpoint) \in Word16
  BY <1>a, RespSentTypes
<1>c. Len(buf) >= 3 => Resp!Byte(2) = sent.status /\ Resp!BigEndian16(0) = sent.code
  <2> SUFFICES ASSUME Len(buf) >= 3
               PROVE  Resp!Byte(2) = sent.status /\ Resp!BigEndian16(0) = sent.code
    OBVIOUS
  <2>1. Number(buf, 0) = sent.code
    BY <1>a, <1>b, NumberOfPart DEF RespParts
  <2>2. ByteOf(buf, 2) = sent.status
    <3> DEFINE part == <<sent.status>>
    <3>1. part \in Seq(Octet) /\ Len(part) = 1 /\ part[1] = sent.status
      BY <1>b
    <3>2. StandsAt(buf, 2, part)
      BY <1>a DEF RespParts
    <3> HIDE DEF part
    <3>3. 1 \in 1..Len(part) /\ 2 + 1 <= Len(buf)
      BY <3>1
    <3>4. ByteOf(buf, 2 + 1 - 1) = part[1]
      BY <1>a, <3>1, <3>2, <3>3, ByteOfPart
    <3> QED BY <3>1, <3>4
  <2> QED BY <2>1, <2>2, SameBytes
<1>1. CASE Resp!Refuse
  <2>1. /\ pc = "header" /\ pc' = "done" /\ ctx = Nil
        /\ UNCHANGED <<sent, buf, baseOk, ctx, touched>>
    BY <1>1 DEF Resp!Refuse, RespInv
  <2>2. ~baseOk \/ Len(buf) < 3 \/ sent.status \notin Resp!RespStatus
    BY <1>1, <1>a, <1>c DEF Resp!Refuse, Resp!HeaderOk
  <2>3. Resp!EndpointWholeOrNone'
    BY <2>1, <2>2 DEF Resp!EndpointWholeOrNone
  <2> QED BY <2>1, <2>3 DEF RespInv, Resp!TypeOK, Resp!InBounds, RespParts, RespSize
<1>2. CASE Resp!ReadHeader
  <2>1. /\ pc = "header" /\ pc' = "endpoint" /\ touched' = 3
        /\ UNCHANGED <<sent, buf, baseOk>>
        /\ Len(buf) >= 3 /\ baseOk
        /\ Resp!Byte(2) \in Resp!RespStatus
        /\ ctx' = [code |-> Resp!BigEndian16(0), status |-> Resp!Byte(2), endpoint |-> <<>>]
    BY <1>2 DEF Resp!ReadHeader, Resp!HeaderOk
  <2>2. sent.status \in Resp!RespStatus /\ ctx' = RespCtx(<<>>)
    BY <1>c, <2>1 DEF RespCtx
  <2>3. ctx' \in Resp!HttpRespCtx
    <3>1. <<>> \in Seq(Octet)
      OBVIOUS
    <3> QED BY <1>b, <2>2, <3>1, SameBytes DEF RespCtx, Resp!HttpRespCtx
  <2>4. ctx' # Nil
    BY <2>3, NilIsNoContext
  <2>5. Resp!InBounds' /\ Resp!EndpointWholeOrNone'
    BY <2>1 DEF Resp!InBounds, Resp!EndpointWholeOrNone
  <2>6. Resp!TypeOK'
    BY <2>1, <2>3, <2>4 DEF RespInv, Resp!TypeOK
  <2> QED BY <2>1, <2>2, <2>5, <2>6 DEF RespInv, RespCtx, RespParts, RespSize
<1>d. ASSUME pc = "endpoint"
      PROVE  /\ Resp!HasEndpoint <=>
                  /\ sent.endpoint # Nil /\ Len(sent.endpoint) > 0
                  /\ Len(buf) >= Len(Resp!Encode(sent))
             /\ Resp!HasEndpoint => /\ Resp!EndpointLen = Len(sent.endpoint)
                                    /\ 5 + Len(sent.endpoint) <= Len(buf)
  <2>1. Len(Resp!Encode(sent)) = RespSize
    BY DEF RespInv
  <2>2. CASE sent.endpoint = Nil
    <3>1. Len(buf) <= 4
      BY <1>a, <2>2 DEF RespSize
    <3> QED BY <1>a, <2>2, <3>1 DEF Resp!HasEndpoint
  <2>3. CASE sent.endpoint # Nil
    <3>1. Len(Resp!Encode(sent)) = 5 + Len(sent.endpoint) /\ Len(sent.endpoint) \in Nat
      BY <1>b, <2>1, <2>3 DEF RespSize
    <3>2. 5 <= Len(buf) => Resp!EndpointLen = Len(sent.endpoint)
      <4> SUFFICES ASSUME 5 <= Len(buf) PROVE Resp!EndpointLen = Len(sent.endpoint)
        OBVIOUS
      <4>1. StandsAt(buf, 3, TwoBytes(Len(sent.endpoint))) /\ 3 + 2 <= Len(buf)
        BY <1>a, <2>3 DEF RespParts
      <4>2. Number(buf, 3) = Len(sent.endpoint)
        BY <1>a, <1>b, <2>3, <4>1, NumberOfPart
      <4> QED BY <4>2, SameBytes DEF Resp!EndpointLen
    <3> QED BY <1>a, <2>3, <3>1, <3>2 DEF Resp!HasEndpoint
  <2> QED BY <2>2, <2>3
<1>e. pc = "endpoint" => /\ baseOk /\ Len(buf) >= 3
                         /\ sent.status \in Resp!RespStatus
                         /\ ctx = RespCtx(<<>>)
  BY DEF RespInv
<1>3. CASE Resp!NoEndpoint
  <2>1. /\ pc = "endpoint" /\ pc' = "done" /\ ~Resp!HasEndpoint
        /\ UNCHANGED <<sent, buf, baseOk, ctx>>
        /\ touched' = IF 5 <= Len(buf) THEN 5 ELSE touched
    BY <1>3 DEF Resp!NoEndpoint
  <2>2. sent.endpoint # Nil /\ Len(buf) >= Len(Resp!Encode(sent)) => sent.endpoint = <<>>
    BY <1>b, <1>d, <2>1
  <2>3. Resp!EndpointWholeOrNone'
    BY <1>e, <2>1, <2>2 DEF Resp!EndpointWholeOrNone, RespCtx
  <2>4. touched' \in Nat /\ touched' <= Len(buf)
    BY <1>a, <2>1 DEF RespInv, Resp!TypeOK, Resp!InBounds
  <2> QED
    BY <2>1, <2>3, <2>4 DEF RespInv, Resp!TypeOK, Resp!InBounds, RespParts, RespSize
<1>4. CASE Resp!ReadEndpoint
  <2>1. /\ pc = "endpoint" /\ pc' = "done" /\ Resp!HasEndpoint
        /\ UNCHANGED <<sent, buf, baseOk>>
        /\ touched' = 5 + Resp!EndpointLen
        /\ ctx' = [ctx EXCEPT !.endpoint = Resp!Slice(5, 5 + Resp!EndpointLen)]
    BY <1>4 DEF Resp!ReadEndpoint
  <2>2. /\ sent.endpoint # Nil /\ Resp!EndpointLen = Len(sent.endpoint)
        /\ Len(buf) >= Len(Resp!Encode(sent))
        /\ 5 + Len(sent.endpoint) <= Len(buf)
    BY <1>d, <2>1
  <2>3. Resp!Slice(5, 5 + Len(sent.endpoint)) = sent.endpoint
    <3>1. SliceOf(buf, 5, 5 + Len(sent.endpoint)) = sent.endpoint
      BY <1>a, <1>b, <2>2, SliceOfPart DEF RespParts
    <3>2. 5 \in Nat /\ 5 + Len(sent.endpoint) \in Nat
      BY <1>b, <2>2
    <3> QED BY <3>1, <3>2, SameBytes
  <2>4. ctx' = RespCtx(sent.endpoint)
    BY <1>e, <2>1, <2>2, <2>3 DEF RespCtx
  <2>5. ctx' \in Resp!HttpRespCtx
    BY <1>b, <1>e, <2>1, <2>2, <2>4, SameBytes DEF RespCtx, Resp!HttpRespCtx
  <2>6. Resp!EndpointWholeOrNone'
    BY <1>e, <2>1, <2>2, <2>4 DEF Resp!EndpointWholeOrNone, RespCtx
  <2>7. touched' \in Nat /\ touched' <= Len(buf)
    BY <1>b, <2>1, <2>2
  <2> QED
    BY <2>1, <2>5, <2>6, <2>7 DEF RespInv, Resp!TypeOK, Resp!InBounds, RespParts, RespSize
<1>5. CASE UNCHANGED Resp!vars
  BY <1>5 DEF Resp!vars, RespInv, Resp!TypeOK, Resp!InBounds, Resp!EndpointWholeOrNone,
     RespParts, RespSize, RespCtx
<1> QED BY <1>1, <1>2, <1>3, <1>4, <1>5 DEF Resp!Next

------------------------------------------------------------------------------
(* The context of a request *)

\* Where string k begins; its two length bytes come first.
Offset(k) ==
  (IF k > 1 THEN 2 + Len(sent[1]) ELSE 0) + (IF k > 2 THEN 2 + Len(sent[2]) ELSE 0)
  + (IF k > 3 THEN 2 + Len(sent[3]) ELSE 0) + (IF k > 4 THEN 2 + Len(sent[4]) ELSE 0)

ReqParts(b) ==
  \A k \in 1..4 : /\ StandsAt(b, Offset(k), TwoBytes(Len(sent[k])))
                  /\ StandsAt(b, Offset(k) + 2, sent[k])

ReqInv ==
  /\ Req!TypeOK
  /\ Req!Encodable(sent)
  /\ Len(Req!Encode(sent)) = Offset(5)
  /\ ReqParts(buf)
  /\ pc # "done" => /\ off = Offset(i) /\ off <= Len(buf)
                    /\ strings \in [1..4 -> Seq(Octet)]
                    /\ \A k \in 1..4 : k < i => strings[k] = sent[k]
  /\ pc = "loop" => baseOk
  /\ Req!InBounds
  /\ Req!DecodesWhatWasSent

LEMMA ReqSentTypes ==
  ASSUME Req!Encodable(sent)
  PROVE  /\ sent \in [1..4 -> Seq(Octet)]
         /\ \A k \in 1..4 : /\ sent[k] \in Seq(Octet)
                            /\ Len(sent[k]) \in Nat /\ Len(sent[k]) \in Word16
<1>1. sent \in [1..4 -> Seq(Octet)] /\ \A k \in 1..4 : Len(sent[k]) < 65536
  BY SameBytes DEF Req!Encodable
<1>2. ASSUME NEW k \in 1..4 PROVE sent[k] \in Seq(Octet) /\ Len(sent[k]) \in Nat
  BY <1>1
<1> QED BY <1>1, <1>2 DEF Word16

LEMMA OffsetSteps ==
  ASSUME Req!Encodable(sent)
  PROVE  /\ Offset(1) = 0 /\ Offset(5) >= 8
         /\ \A k \in 1..5 : Offset(k) \in Nat /\ Offset(k) <= Offset(5)
         /\ \A k \in 1..4 : Offset(k + 1) = Offset(k) + 2 + Len(sent[k])
<1> DEFINE l1 == Len(sent[1])
           l2 == Len(sent[2])
           l3 == Len(sent[3])
           l4 == Len(sent[4])
<1>1. l1 \in Nat /\ l2 \in Nat /\ l3 \in Nat /\ l4 \in Nat
  BY ReqSentTypes
<1>2. /\ Offset(1) = 0 /\ Offset(2) = 2 + l1 /\ Offset(3) = (2 + l1) + (2 + l2)
      /\ Offset(4) = (2 + l1) + (2 + l2) + (2 + l3)
      /\ Offset(5) = (2 + l1) + (2 + l2) + (2 + l3) + (2 + l4)
  <2> HIDE DEF l1, l2, l3, l4
  <2> QED BY <1>1 DEF Offset, l1, l2, l3, l4
<1>3. ASSUME NEW k \in 1..5 PROVE Offset(k) \in Nat /\ Offset(k) <= Offset(5)
  <2>1. k = 1 \/ k = 2 \/ k = 3 \/ k = 4 \/ k = 5
    OBVIOUS
  <2> HIDE DEF l1, l2, l3, l4
  <2> QED BY <1>1, <1>2, <2>1
<1>4. ASSUME NEW k \in 1..4 PROVE Offset(k + 1) = Offset(k) + 2 + Len(sent[k])
  <2>1. CASE k = 1
    <3>1. Offset(2) = Offset(1) + 2 + l1
      <4> HIDE DEF l1, l2, l3, l4
      <4> QED BY <1>1, <1>2
    <3> QED BY <2>1, <3>1
  <2>2. CASE k = 2
    <3>1. Offset(3) = Offset(2) + 2 + l2
      <4> HIDE DEF l1, l2, l3, l4
      <4> QED BY <1>1, <1>2
    <3> QED BY <2>2, <3>1
  <2>3. CASE k = 3
    <3>1. Offset(4) = Offset(3) + 2 + l3
      <4> HIDE DEF l1, l2, l3, l4
      <4> QED BY <1>1, <1>2
    <3> QED BY <2>3, <3>1
  <2>4. CASE k = 4
    <3>1. Offset(5) = Offset(4) + 2 + l4
      <4> HIDE DEF l1, l2, l3, l4
      <4> QED BY <1>1, <1>2
    <3> QED BY <2>4, <3>1
  <2>5. k = 1 \/ k = 2 \/ k = 3 \/ k = 4
    OBVIOUS
  <2> QED BY <2>1, <2>2, <2>3, <2>4, <2>5
<1>5. Offset(1) = 0 /\ Offset(5) >= 8
  <2> HIDE DEF l1, l2, l3, l4
  <2> QED BY <1>1, <1>2
<1> QED BY <1>3, <1>4, <1>5

LEMMA ReqEncoding ==
  ASSUME Req!Encodable(sent)
  PROVE  /\ Req!Encode(sent) \in Seq(Octet)
         /\ Len(Req!Encode(sent)) = Offset(5)
         /\ ReqParts(Req!Encode(sent))
<1> DEFINE size(k) == TwoBytes(Len(sent[k]))
           es(k) == Req!EncodeString(sent[k])
           e == Req!Encode(sent)
<1>1. ASSUME NEW k \in 1..4
      PROVE  /\ sent[k] \in Seq(Octet) /\ Len(sent[k]) \in Nat
             /\ size(k) \in Seq(Octet) /\ Len(size(k)) = 2
             /\ es(k) = size(k) \o sent[k]
             /\ es(k) \in Seq(Octet) /\ Len(es(k)) = 2 + Len(sent[k])
  <2>1. /\ sent[k] \in Seq(Octet) /\ Len(sent[k]) \in Nat
        /\ size(k) \in Seq(Octet) /\ Len(size(k)) = 2
    BY ReqSentTypes, TwoBytesType
  <2>2. es(k) = size(k) \o sent[k]
    BY DEF Req!EncodeString, TwoBytes
  <2> HIDE DEF size, es
  <2>3. es(k) \in Seq(Octet) /\ Len(es(k)) = Len(size(k)) + Len(sent[k])
    BY <2>1, <2>2, ConcatParts
  <2>4. Len(es(k)) = 2 + Len(sent[k])
    BY <2>1, <2>3
  <2> QED BY <2>1, <2>2, <2>3, <2>4
<1>2. e = ((es(1) \o es(2)) \o es(3)) \o es(4)
  BY DEF Req!Encode
<1> HIDE DEF size, es, e
<1> DEFINE a == es(1)
           b == a \o es(2)
           c == b \o es(3)
<1>3. ASSUME NEW k \in 1..4, NEW p \in Seq(Octet), Len(p) = Offset(k)
      PROVE  p \o es(k) \in Seq(Octet) /\ Len(p \o es(k)) = Offset(k + 1)
  <2> DEFINE n == Len(sent[k])
             m == Offset(k)
             next == Offset(k + 1)
             part == es(k)
  <2>1. part \in Seq(Octet) /\ Len(part) = 2 + n /\ n \in Nat
    BY <1>1
  <2>2. m \in Nat /\ next = m + 2 + n
    <3>1. k \in 1..5
      OBVIOUS
    <3> QED BY <3>1, OffsetSteps
  <2>3. Len(p) = m
    BY <1>3
  <2> HIDE DEF n, m, next, part
  <2>4. p \o part \in Seq(Octet) /\ Len(p \o part) = Len(p) + Len(part)
    BY <1>3, <2>1, ConcatParts
  <2>5. Len(p) + Len(part) = next
    BY <2>1, <2>2, <2>3
  <2> QED BY <2>4, <2>5 DEF next, part
<1>4. ASSUME NEW k \in 1..4, NEW p \in Seq(Octet), Len(p) = Offset(k), e \in Seq(Octet),
             Begins(p \o es(k), e)
      PROVE  Begins(p, e) /\ StandsAt(e, Offset(k), es(k))
  <2>1. es(k) \in Seq(Octet)
    BY <1>1
  <2> QED BY <1>4, <2>1, PartOfBeginning
<1>5. /\ 1 \in 1..4 /\ 2 \in 1..4 /\ 3 \in 1..4 /\ 4 \in 1..4
      /\ 1 + 1 = 2 /\ 2 + 1 = 3 /\ 3 + 1 = 4 /\ 4 + 1 = 5
  OBVIOUS
<1>6. a \in Seq(Octet) /\ Len(a) = Offset(2)
  <2>1. a \in Seq(Octet) /\ Len(a) = 2 + Len(sent[1]) /\ Len(sent[1]) \in Nat
    BY <1>1, <1>5
  <2>2. Offset(2) = Offset(1) + 2 + Len(sent[1]) /\ Offset(1) = 0
    BY <1>5, OffsetSteps
  <2> HIDE DEF a
  <2> QED BY <2>1, <2>2
<1>b. b = a \o es(2) /\ c = b \o es(3) /\ e = c \o es(4)
  BY <1>2
<1> HIDE DEF a, b, c
<1>7. b \in Seq(Octet) /\ Len(b) = Offset(3)
  BY <1>3, <1>5, <1>6, <1>b
<1>8. c \in Seq(Octet) /\ Len(c) = Offset(4)
  BY <1>3, <1>5, <1>7, <1>b
<1>9. e \in Seq(Octet) /\ Len(e) = Offset(5)
  BY <1>3, <1>5, <1>8, <1>b
<1>10. /\ StandsAt(e, Offset(4), es(4)) /\ StandsAt(e, Offset(3), es(3))
       /\ StandsAt(e, Offset(2), es(2)) /\ Begins(a, e)
  <2>1. Begins(c \o es(4), e)
    BY <1>9, <1>b, BeginsItself
  <2>2. Begins(c, e) /\ StandsAt(e, Offset(4), es(4))
    BY <1>4, <1>5, <1>8, <1>9, <2>1
  <2>3. Begins(b, e) /\ StandsAt(e, Offset(3), es(3))
    BY <1>4, <1>5, <1>7, <1>9, <1>b, <2>2
  <2>4. Begins(a, e) /\ StandsAt(e, Offset(2), es(2))
    BY <1>4, <1>5, <1>6, <1>9, <1>b, <2>3
  <2> QED BY <2>2, <2>3, <2>4
<1>11. StandsAt(e, Offset(1), es(1))
  <2>1. StandsAt(e, 0, a)
    BY <1>6, <1>9, <1>10, BeginningStands
  <2>2. Offset(1) = 0
    BY OffsetSteps
  <2> QED BY <2>1, <2>2 DEF a
<1>12. ASSUME NEW k \in 1..4
       PROVE  StandsAt(e, Offset(k), size(k)) /\ StandsAt(e, Offset(k) + 2, sent[k])
  <2>1. k = 1 \/ k = 2 \/ k = 3 \/ k = 4
    OBVIOUS
  <2>2. StandsAt(e, Offset(k), es(k))
    BY <1>10, <1>11, <2>1
  <2>3. /\ es(k) = size(k) \o sent[k] /\ size(k) \in Seq(Octet) /\ sent[k] \in Seq(Octet)
        /\ Len(size(k)) = 2
    BY <1>1
  <2>4. Offset(k) \in Nat
    <3>1. k \in 1..5
      OBVIOUS
    <3> QED BY <3>1, OffsetSteps
  <2> QED BY <1>9, <2>2, <2>3, <2>4, HalvesOfPart, ZenonT(40)
<1> QED BY <1>9, <1>12 DEF ReqParts, e, size

LEMMA InitReq == Req!Init => ReqInv
<1> SUFFICES ASSUME Req!Init PROVE ReqInv
  OBVIOUS
<1>1. /\ sent \in ReqSent /\ Req!Encodable(sent) /\ baseOk \in BOOLEAN
      /\ pc = "start" /\ i = 1 /\ off = 0 /\ touched = 0
      /\ strings = [k \in 1..4 |-> <<>>]
  BY DEF Req!Init
<1> DEFINE e == Req!Encode(sent)
<1>2. PICK n \in 0..Len(e) + 2 : buf = SubSeq(e \o <<0, 0>>, 1, n)
  BY DEF Req!Init
<1>3. e \in Seq(Octet) /\ Len(e) = Offset(5) /\ ReqParts(e)
  BY <1>1, ReqEncoding
<1> HIDE DEF e
<1>4. <<0, 0>> \in Seq(Octet) /\ Len(<<0, 0>>) = 2
  BY DEF Octet
<1>5. n \in 0..Len(e \o <<0, 0>>)
  BY <1>2, <1>3, <1>4
<1>6. buf \in Seq(Octet) /\ Len(buf) \in Nat
  BY <1>2, <1>3, <1>4, <1>5
<1>7. ASSUME NEW part \in Seq(Octet), NEW at \in Nat, at + Len(part) <= Len(e),
             StandsAt(e, at, part)
      PROVE  StandsAt(buf, at, part)
  BY <1>2, <1>3, <1>4, <1>5, <1>7, StandsInArrived
<1>8. ReqParts(buf)
  <2> SUFFICES ASSUME NEW k \in 1..4
               PROVE  /\ StandsAt(buf, Offset(k), TwoBytes(Len(sent[k])))
                      /\ StandsAt(buf, Offset(k) + 2, sent[k])
    BY DEF ReqParts
  <2> DEFINE size == TwoBytes(Len(sent[k]))
             at == Offset(k)
             n0 == Len(sent[k])
  <2>1. /\ sent[k] \in Seq(Octet) /\ n0 \in Nat
        /\ size \in Seq(Octet) /\ Len(size) = 2
    BY <1>1, ReqSentTypes, TwoBytesType
  <2>2. at \in Nat /\ Offset(k + 1) = at + 2 + n0 /\ Offset(k + 1) <= Len(e)
    <3>1. k \in 1..5 /\ k + 1 \in 1..5
      OBVIOUS
    <3> QED BY <1>1, <1>3, <3>1, OffsetSteps
  <2>3. StandsAt(e, at, size) /\ StandsAt(e, at + 2, sent[k])
    BY <1>3 DEF ReqParts
  <2>4. at + Len(size) <= Len(e) /\ (at + 2) + n0 <= Len(e) /\ at + 2 \in Nat
    <3> HIDE DEF at, size, n0
    <3> QED BY <1>3, <2>1, <2>2
  <2> HIDE DEF at, size
  <2>5. StandsAt(buf, at, size)
    BY <1>7, <2>1, <2>2, <2>3, <2>4
  <2>6. StandsAt(buf, at + 2, sent[k])
    BY <1>7, <2>1, <2>3, <2>4
  <2> QED BY <2>5, <2>6 DEF at, size
<1>9. strings \in [1..4 -> Seq(Octet)]
  BY <1>1
<1>10. Req!TypeOK
  BY <1>1, <1>6, <1>9, SameBytes DEF Req!TypeOK
<1>11. Req!InBounds /\ Req!DecodesWhatWasSent
  BY <1>1, <1>6 DEF Req!InBounds, Req!DecodesWhatWasSent
<1>12. off = Offset(i) /\ off <= Len(buf)
  BY <1>1, <1>6, OffsetSteps
<1>13. \A k \in 1..4 : k < i => strings[k] = sent[k]
  BY <1>1
<1>14. Len(Req!Encode(sent)) = Offset(5)
  BY <1>3 DEF e
<1> QED BY <1>1, <1>8, <1>9, <1>10, <1>11, <1>12, <1>13, <1>14 DEF ReqInv

LEMMA StepReq == ReqInv /\ [Req!Next]_(Req!vars) => ReqInv'
<1> SUFFICES ASSUME ReqInv, [Req!Next]_(Req!vars) PROVE ReqInv'
  OBVIOUS
<1>a. /\ buf \in Seq(Octet) /\ Len(buf) \in Nat /\ Req!Encodable(sent)
      /\ ReqParts(buf) /\ i \in 1..5 /\ Len(Req!Encode(sent)) = Offset(5)
      /\ Offset(5) \in Nat /\ Offset(5) >= 8
  <2>1. buf \in Seq(Octet) /\ Req!Encodable(sent)
    BY SameBytes DEF ReqInv, Req!TypeOK
  <2>2. 5 \in 1..5
    OBVIOUS
  <2> QED BY <2>1, <2>2, OffsetSteps DEF ReqInv, Req!TypeOK
<1>b. pc = "loop" => /\ off = Offset(i) /\ off <= Len(buf) /\ baseOk
                     /\ strings \in [1..4 -> Seq(Octet)]
                     /\ \A k \in 1..4 : k < i => strings[k] = sent[k]
  BY DEF ReqInv
<1>c. ASSUME UNCHANGED sent PROVE \A k : Offset(k)' = Offset(k)
  BY <1>c DEF Offset
<1>d. ASSUME UNCHANGED <<sent, buf>> PROVE ReqParts(buf)'
  BY <1>a, <1>d DEF ReqParts, Offset
<1>e. ASSUME UNCHANGED sent
      PROVE  Req!Encodable(sent)' /\ (Len(Req!Encode(sent)) = Offset(5))'
  BY <1>a, <1>e DEF Offset
<1>f. ASSUME pc = "loop", i <= 4
      PROVE  /\ i \in 1..4 /\ Len(sent[i]) \in Nat /\ sent[i] \in Seq(Octet)
             /\ off \in Nat /\ Offset(i + 1) = off + 2 + Len(sent[i])
             /\ Offset(i + 1) <= Offset(5)
             /\ off + 2 <= Len(buf) => Req!StrLen = Len(sent[i])
             /\ Req!HasString <=> Offset(i + 1) <= Len(buf)
             /\ Req!HasString => Req!StrLen = Len(sent[i])
  <2>1. i \in 1..4 /\ i + 1 \in 1..5 /\ i \in 1..5
    BY <1>a, <1>f
  <2>2. Len(sent[i]) \in Nat /\ sent[i] \in Seq(Octet) /\ Len(sent[i]) \in Word16
    BY <1>a, <2>1, ReqSentTypes
  <2>3. /\ off \in Nat /\ Offset(i + 1) = off + 2 + Len(sent[i])
        /\ Offset(i + 1) <= Offset(5)
    <3>1. off = Offset(i)
      BY <1>b, <1>f
    <3> QED BY <1>a, <2>1, <3>1, OffsetSteps
  <2>4. ASSUME off + 2 <= Len(buf) PROVE Req!StrLen = Len(sent[i])
    <3>1. StandsAt(buf, off, TwoBytes(Len(sent[i])))
      BY <1>a, <1>b, <1>f, <2>1 DEF ReqParts
    <3>2. Number(buf, off) = Len(sent[i])
      BY <1>a, <2>2, <2>3, <2>4, <3>1, NumberOfPart
    <3>3. Req!StrLen = Number(buf, off)
      <4>1. off \in Nat /\ off + 1 \in Nat
        BY <2>3
      <4> QED BY <4>1, SameBytes DEF Req!StrLen, Number
    <3> QED BY <3>2, <3>3
  <2>5. Req!HasString <=> off + 2 <= Len(buf) /\ off + 2 + Req!StrLen <= Len(buf)
    BY DEF Req!HasString
  <2>6. Req!HasString <=> Offset(i + 1) <= Len(buf)
    <3> DEFINE n == Len(sent[i])
               next == Offset(i + 1)
    <3>1. n \in Nat /\ next = off + 2 + n
      BY <2>2, <2>3
    <3>2. off + 2 <= Len(buf) => Req!StrLen = n
      BY <2>4
    <3> HIDE DEF n, next
    <3>3. Req!HasString <=> next <= Len(buf)
      BY <1>a, <2>3, <2>5, <3>1, <3>2
    <3> QED BY <3>3 DEF next
  <2> QED BY <2>1, <2>2, <2>3, <2>4, <2>5, <2>6
<1>1. CASE Req!Refuse
  <2>1. /\ pc = "start" /\ pc' = "done" /\ strings' = Nil
        /\ Len(buf) < 8 \/ ~baseOk
        /\ UNCHANGED <<sent, buf, baseOk, i, off, touched>>
    BY <1>1 DEF Req!Refuse, Req!GiveUp
  <2>2. ~(baseOk /\ Len(buf) >= Len(Req!Encode(sent)))
    BY <1>a, <2>1
  <2>3. Req!DecodesWhatWasSent'
    BY <2>1, <2>2 DEF Req!DecodesWhatWasSent
  <2> QED
    BY <2>1, <2>3, <1>d, <1>e DEF ReqInv, Req!TypeOK, Req!InBounds
<1>2. CASE Req!Start
  <2>1. /\ pc = "start" /\ pc' = "loop" /\ baseOk
        /\ UNCHANGED <<sent, buf, baseOk, i, off, strings, touched>>
    BY <1>2 DEF Req!Start
  <2>2. Req!DecodesWhatWasSent'
    BY <2>1 DEF Req!DecodesWhatWasSent
  <2> QED
    BY <2>1, <2>2, <1>c, <1>d, <1>e DEF ReqInv, Req!TypeOK, Req!InBounds
<1>3. CASE Req!Truncated
  <2>1. /\ pc = "loop" /\ pc' = "done" /\ strings' = Nil /\ i <= 4
        /\ ~Req!HasString
        /\ UNCHANGED <<sent, buf, baseOk, i, off, touched>>
    BY <1>3 DEF Req!Truncated, Req!GiveUp, Req!More
  <2>2. ~(Len(buf) >= Len(Req!Encode(sent)))
    <3>1. ~(Offset(i + 1) <= Len(buf)) /\ Offset(i + 1) <= Offset(5)
      BY <1>f, <2>1
    <3>2. Offset(i + 1) \in Nat
      <4>1. i + 1 \in 1..5
        BY <1>a, <2>1
      <4> QED BY <1>a, <4>1, OffsetSteps
    <3> QED BY <1>a, <3>1, <3>2
  <2>3. Req!DecodesWhatWasSent'
    BY <2>1, <2>2 DEF Req!DecodesWhatWasSent
  <2> QED
    BY <2>1, <2>3, <1>d, <1>e DEF ReqInv, Req!TypeOK, Req!InBounds
<1>4. CASE Req!ReadString
  <2>1. /\ pc = "loop" /\ i <= 4 /\ Req!HasString
        /\ strings' = [strings EXCEPT ![i] = Req!Slice(off + 2, off + 2 + Req!StrLen)]
        /\ off' = off + 2 + Req!StrLen /\ touched' = off + 2 + Req!StrLen
        /\ i' = i + 1
        /\ UNCHANGED <<sent, buf, baseOk, pc>>
    BY <1>4 DEF Req!ReadString, Req!More
  <2> DEFINE s == sent[i]
             n == Len(sent[i])
  <2>2. /\ i \in 1..4 /\ n \in Nat /\ s \in Seq(Octet)
        /\ off \in Nat /\ Offset(i + 1) = off + 2 + n
        /\ Offset(i + 1) <= Len(buf) /\ Req!StrLen = n
    BY <1>f, <2>1
  <2>3. Req!Slice(off + 2, off + 2 + n) = s
    <3>1. StandsAt(buf, off + 2, s)
      BY <1>a, <1>b, <2>1, <2>2 DEF ReqParts
    <3>2. off + 2 \in Nat /\ (off + 2) + n \in Nat /\ (off + 2) + n <= Len(buf)
      <4> HIDE DEF n, s
      <4> QED BY <1>a, <2>2
    <3>3. SliceOf(buf, off + 2, (off + 2) + n) = s
      BY <1>a, <2>2, <3>1, <3>2, SliceOfPart
    <3> QED BY <3>2, <3>3, SameBytes
  <2>4. off' = off + 2 + n /\ touched' = off + 2 + n /\ strings' = [strings EXCEPT ![i] = s]
    BY <2>1, <2>2, <2>3
  <2>5. (off = Offset(i))' /\ off' <= Len(buf') /\ off' \in Nat
    <3>1. (Offset(i))' = Offset(i + 1)
      BY <2>1 DEF Offset
    <3>2. off + 2 + n \in Nat
      <4> HIDE DEF n
      <4> QED BY <2>2
    <3> QED BY <2>1, <2>2, <2>4, <3>1, <3>2
  <2>6. strings' \in [1..4 -> Seq(Octet)]
    BY <1>b, <2>1, <2>2, <2>4
  <2>7. \A k \in 1..4 : k < i' => strings'[k] = sent'[k]
    <3> SUFFICES ASSUME NEW k \in 1..4, k < i + 1 PROVE strings'[k] = sent[k]
      BY <2>1
    <3>1. CASE k = i
      BY <1>b, <2>1, <2>2, <2>4, <3>1
    <3>2. CASE k # i
      <4>1. k < i
        BY <2>2, <3>2
      <4> QED BY <1>b, <2>1, <2>4, <3>2, <4>1
    <3> QED BY <3>1, <3>2
  <2>8. i' \in 1..5
    BY <2>1, <2>2
  <2> HIDE DEF n, s
  <2>9. Req!InBounds'
    <3>1. touched' = off'
      BY <2>4
    <3> QED BY <2>5, <3>1 DEF Req!InBounds
  <2>10. Req!TypeOK'
    BY <2>1, <2>4, <2>5, <2>6, <2>8, SameBytes DEF ReqInv, Req!TypeOK
  <2>11. Req!DecodesWhatWasSent'
    BY <2>1 DEF Req!DecodesWhatWasSent
  <2> QED
    BY <2>1, <2>5, <2>6, <2>7, <2>9, <2>10, <2>11, <1>b, <1>d, <1>e DEF ReqInv
<1>5. CASE Req!Finish
  <2>1. /\ pc = "loop" /\ pc' = "done" /\ ~(i <= 4)
        /\ UNCHANGED <<sent, buf, baseOk, i, off, strings, touched>>
    BY <1>5 DEF Req!Finish, Req!More
  <2>2. i = 5
    BY <1>a, <2>1
  <2>3. baseOk /\ Len(buf) >= Len(Req!Encode(sent))
    BY <1>a, <1>b, <2>1, <2>2
  <2>4. strings = sent
    <3>1. \A k \in 1..4 : strings[k] = sent[k]
      BY <1>b, <2>1, <2>2
    <3>2. sent \in [1..4 -> Seq(Octet)] /\ strings \in [1..4 -> Seq(Octet)]
      BY <1>a, <1>b, <2>1, ReqSentTypes
    <3>3. /\ sent = [k \in 1..4 |-> sent[k]]
          /\ strings = [k \in 1..4 |-> strings[k]]
      BY <3>2
    <3> QED BY <3>1, <3>3
  <2>5. Req!DecodesWhatWasSent'
    BY <2>1, <2>3, <2>4 DEF Req!DecodesWhatWasSent
  <2> QED
    BY <2>1, <2>5, <1>d, <1>e DEF ReqInv, Req!TypeOK, Req!InBounds
<1>6. CASE UNCHANGED Req!vars
  <2>1. UNCHANGED <<sent, buf, baseOk, pc, i, off, strings, touched>>
    BY <1>6 DEF Req!vars
  <2> QED
    BY <2>1, <1>c, <1>d, <1>e
       DEF ReqInv, Req!TypeOK, Req!InBounds, Req!DecodesWhatWasSent
<1> QED BY <1>1, <1>2, <1>3, <1>4, <1>5, <1>6 DEF Req!Next

------------------------------------------------------------------------------
(* The base context *)

AddrLen == Len(sent.srcIP)
NameLen == Len(sent.procName)

\* Where the fields of a base context stand, and how long it is.
BaseParts(b) ==
  /\ StandsAt(b, 0, <<IF AddrLen = 4 THEN 4 ELSE 6>>)
  /\ StandsAt(b, 1, sent.srcIP)
  /\ StandsAt(b, 1 + AddrLen, sent.dstIP)
  /\ StandsAt(b, 1 + 2 * AddrLen, TwoBytes(sent.srcPort))
  /\ StandsAt(b, 3 + 2 * AddrLen, TwoBytes(sent.dstPort))
  /\ StandsAt(b, 5 + 2 * AddrLen, <<sent.l4, sent.l7, sent.ebpfType>>)
  /\ StandsAt(b, 8 + 2 * AddrLen, sent.time)
  /\ StandsAt(b, 16 + 2 * AddrLen, <<sent.direction>>)
  /\ StandsAt(b, 17 + 2 * AddrLen, <<NameLen>>)
  /\ StandsAt(b, 18 + 2 * AddrLen, sent.procName)
  /\ StandsAt(b, 18 + 2 * AddrLen + NameLen, sent.flowID)
  /\ StandsAt(b, 26 + 2 * AddrLen + NameLen, TwoBytes(sent.bufSize))

BaseSize == 28 + 2 * AddrLen + NameLen

LEMMA BaseSentTypes ==
  ASSUME Base!Encodable(sent)
  PROVE  /\ AddrLen \in {4, 16} /\ NameLen \in Nat /\ NameLen < 256
         /\ <<IF AddrLen = 4 THEN 4 ELSE 6>> \in Seq(Octet)
         /\ sent.srcIP \in Seq(Octet) /\ Len(sent.srcIP) = AddrLen
         /\ sent.dstIP \in Seq(Octet) /\ Len(sent.dstIP) = AddrLen
         /\ sent.srcPort \in Word16 /\ sent.dstPort \in Word16 /\ sent.bufSize \in Word16
         /\ TwoBytes(sent.srcPort) \in Seq(Octet) /\ Len(TwoBytes(sent.srcPort)) = 2
         /\ TwoBytes(sent.dstPort) \in Seq(Octet) /\ Len(TwoBytes(sent.dstPort)) = 2
         /\ TwoBytes(sent.bufSize) \in Seq(Octet) /\ Len(TwoBytes(sent.bufSize)) = 2
         /\ sent.l4 \in Octet /\ sent.l7 \in Octet /\ sent.ebpfType \in Octet
         /\ <<sent.l4, sent.l7, sent.ebpfType>> \in Seq(Octet)
         /\ sent.time \in Seq(Octet) /\ Len(sent.time) = 8
         /\ sent.direction \in Octet /\ <<sent.direction>> \in Seq(Octet)
         /\ <<NameLen>> \in Seq(Octet)
         /\ sent.procName \in Seq(Octet) /\ Len(sent.procName) = NameLen
         /\ sent.flowID \in Seq(Octet) /\ Len(sent.flowID) = 8
<1>1. sent \in Base!Context
  BY DEF Base!Encodable
<1>2. /\ sent.srcIP \in Seq(Octet) /\ sent.dstIP \in Seq(Octet)
      /\ sent.srcPort \in Word16 /\ sent.dstPort \in Word16 /\ sent.bufSize \in Word16
      /\ sent.l4 \in Octet /\ sent.l7 \in Octet /\ sent.ebpfType \in Octet
      /\ sent.time \in Seq(Octet) /\ sent.direction \in Octet
      /\ sent.procName \in Seq(Octet) /\ sent.flowID \in Seq(Octet)
  BY <1>1, SameBytes DEF Base!Context
<1>3. /\ AddrLen \in {4, 16} /\ Len(sent.dstIP) = AddrLen
      /\ Len(sent.time) = 8 /\ Len(sent.flowID) = 8 /\ NameLen < 256
  BY DEF Base!Encodable, AddrLen, NameLen
<1>4. NameLen \in Nat /\ NameLen \in Octet
  <2>1. NameLen \in Nat
    BY <1>2 DEF NameLen
  <2> QED BY <1>3, <2>1 DEF Octet
<1>5. 4 \in Octet /\ 6 \in Octet
  BY DEF Octet
<1>6. /\ <<IF AddrLen = 4 THEN 4 ELSE 6>> \in Seq(Octet)
      /\ <<sent.l4, sent.l7, sent.ebpfType>> \in Seq(Octet)
      /\ <<sent.direction>> \in Seq(Octet) /\ <<NameLen>> \in Seq(Octet)
  BY <1>2, <1>4, <1>5
<1> QED BY <1>2, <1>3, <1>4, <1>6, TwoBytesType DEF AddrLen, NameLen

\* A sequence and what is put behind it.
LEMMA Longer ==
  ASSUME NEW p \in Seq(Octet), NEW t \in Seq(Octet), NEW q, q = p \o t
  PROVE  q \in Seq(Octet) /\ Len(q) = Len(p) + Len(t)
BY ConcatParts

LEMMA BaseEncoding ==
  ASSUME Base!Encodable(sent)
  PROVE  /\ Base!Encode(sent) \in Seq(Octet)
         /\ Len(Base!Encode(sent)) = BaseSize
         /\ BaseParts(Base!Encode(sent))
<1> DEFINE a == AddrLen
           p == NameLen
           t1 == <<IF a = 4 THEN 4 ELSE 6>>
           t2 == sent.srcIP
           t3 == sent.dstIP
           t4 == TwoBytes(sent.srcPort)
           t5 == TwoBytes(sent.dstPort)
           t6 == <<sent.l4, sent.l7, sent.ebpfType>>
           t7 == sent.time
           t8 == <<sent.direction>>
           t9 == <<p>>
           t10 == sent.procName
           t11 == sent.flowID
           t12 == TwoBytes(sent.bufSize)
           p2 == t1 \o t2
           p3 == p2 \o t3
           p4 == p3 \o t4
           p5 == p4 \o t5
           p6 == p5 \o t6
           p7 == p6 \o t7
           p8 == p7 \o t8
           p9 == p8 \o t9
           p10 == p9 \o t10
           p11 == p10 \o t11
           p12 == p11 \o t12
           e == Base!Encode(sent)
<1>1. e = p12
  BY DEF Base!Encode, Base!Uint16Bytes, TwoBytes, AddrLen, NameLen
<1>2. /\ t1 \in Seq(Octet) /\ t2 \in Seq(Octet) /\ t3 \in Seq(Octet)
      /\ t4 \in Seq(Octet) /\ t5 \in Seq(Octet) /\ t6 \in Seq(Octet)
      /\ t7 \in Seq(Octet) /\ t8 \in Seq(Octet) /\ t9 \in Seq(Octet)
      /\ t10 \in Seq(Octet) /\ t11 \in Seq(Octet) /\ t12 \in Seq(Octet)
  BY BaseSentTypes
<1>l. /\ a \in Nat /\ p \in Nat
      /\ Len(t1) = 1 /\ Len(t2) = a /\ Len(t3) = a /\ Len(t4) = 2 /\ Len(t5) = 2
      /\ Len(t6) = 3 /\ Len(t7) = 8 /\ Len(t8) = 1 /\ Len(t9) = 1 /\ Len(t10) = p
      /\ Len(t11) = 8 /\ Len(t12) = 2
  <2>1. Len(t1) = 1 /\ Len(t6) = 3 /\ Len(t8) = 1 /\ Len(t9) = 1
    OBVIOUS
  <2> QED BY <2>1, BaseSentTypes
<1>3. /\ p2 = t1 \o t2 /\ p3 = p2 \o t3 /\ p4 = p3 \o t4 /\ p5 = p4 \o t5
      /\ p6 = p5 \o t6 /\ p7 = p6 \o t7 /\ p8 = p7 \o t8 /\ p9 = p8 \o t9
      /\ p10 = p9 \o t10 /\ p11 = p10 \o t11 /\ p12 = p11 \o t12
  OBVIOUS
<1> HIDE DEF a, p, t1, t2, t3, t4, t5, t6, t7, t8, t9, t10, t11, t12
<1> HIDE DEF p2, p3, p4, p5, p6, p7, p8, p9, p10, p11, p12, e
<1>4. p2 \in Seq(Octet) /\ Len(p2) = Len(t1) + Len(t2)
  BY <1>2, <1>3, Longer, Zenon
<1>5. p3 \in Seq(Octet) /\ Len(p3) = Len(p2) + Len(t3)
  BY <1>2, <1>3, <1>4, Longer, Zenon
<1>6. p4 \in Seq(Octet) /\ Len(p4) = Len(p3) + Len(t4)
  <2>1. p4 = p3 \o t4 /\ t4 \in Seq(Octet)
    BY <1>2, <1>3
  <2> QED BY <1>5, <2>1, Longer, Zenon
<1>7. p5 \in Seq(Octet) /\ Len(p5) = Len(p4) + Len(t5)
  <2>1. p5 = p4 \o t5 /\ t5 \in Seq(Octet)
    BY <1>2, <1>3
  <2> QED BY <1>6, <2>1, Longer, Zenon
<1>8. p6 \in Seq(Octet) /\ Len(p6) = Len(p5) + Len(t6)
  <2>1. p6 = p5 \o t6 /\ t6 \in Seq(Octet)
    BY <1>2, <1>3
  <2> QED BY <1>7, <2>1, Longer, Zenon
<1>9. p7 \in Seq(Octet) /\ Len(p7) = Len(p6) + Len(t7)
  <2>1. p7 = p6 \o t7 /\ t7 \in Seq(Octet)
    BY <1>2, <1>3
  <2> QED BY <1>8, <2>1, Longer, Zenon
<1>10. p8 \in Seq(Octet) /\ Len(p8) = Len(p7) + Len(t8)
  <2>1. p8 = p7 \o t8 /\ t8 \in Seq(Octet)
    BY <1>2, <1>3
  <2> QED BY <1>9, <2>1, Longer, Zenon
<1>11. p9 \in Seq(Octet) /\ Len(p9) = Len(p8) + Len(t9)
  <2>1. p9 = p8 \o t9 /\ t9 \in Seq(Octet)
    BY <1>2, <1>3
  <2> QED BY <1>10, <2>1, Longer, Zenon
<1>12. p10 \in Seq(Octet) /\ Len(p10) = Len(p9) + Len(t10)
  <2>1. p10 = p9 \o t10 /\ t10 \in Seq(Octet)
    BY <1>2, <1>3
  <2> QED BY <1>11, <2>1, Longer, Zenon
<1>13. p11 \in Seq(Octet) /\ Len(p11) = Len(p10) + Len(t11)
  <2>1. p11 = p10 \o t11 /\ t11 \in Seq(Octet)
    BY <1>2, <1>3
  <2> QED BY <1>12, <2>1, Longer, Zenon
<1>14. p12 \in Seq(Octet) /\ Len(p12) = Len(p11) + Len(t12)
  <2>1. p12 = p11 \o t12 /\ t12 \in Seq(Octet)
    BY <1>2, <1>3
  <2> QED BY <1>13, <2>1, Longer, Zenon
<1>15. /\ Len(p2) = 1 + a /\ Len(p3) = 1 + 2 * a /\ Len(p4) = 3 + 2 * a
       /\ Len(p5) = 5 + 2 * a /\ Len(p6) = 8 + 2 * a /\ Len(p7) = 16 + 2 * a
       /\ Len(p8) = 17 + 2 * a /\ Len(p9) = 18 + 2 * a
       /\ Len(p10) = 18 + 2 * a + p /\ Len(p11) = 26 + 2 * a + p
       /\ Len(p12) = 28 + 2 * a + p
  BY <1>l, <1>4, <1>5, <1>6, <1>7, <1>8, <1>9, <1>10, <1>11, <1>12, <1>13, <1>14
<1>16. e \in Seq(Octet) /\ Begins(p12, e)
  BY <1>1, <1>14, BeginsItself, Zenon
<1>17. Begins(p11, e) /\ StandsAt(e, 26 + 2 * a + p, t12)
  <2>1. Begins(p11 \o t12, e) /\ p11 \in Seq(Octet) /\ t12 \in Seq(Octet)
    BY <1>2, <1>3, <1>13, <1>16
  <2>2. Begins(p11, e) /\ StandsAt(e, Len(p11), t12)
    BY <1>16, <2>1, PartOfBeginning, Zenon
  <2> QED BY <1>15, <2>2, Zenon
<1>18. Begins(p10, e) /\ StandsAt(e, 18 + 2 * a + p, t11)
  <2>1. Begins(p10 \o t11, e) /\ p10 \in Seq(Octet) /\ t11 \in Seq(Octet)
    BY <1>2, <1>3, <1>12, <1>17
  <2>2. Begins(p10, e) /\ StandsAt(e, Len(p10), t11)
    BY <1>16, <2>1, PartOfBeginning, Zenon
  <2> QED BY <1>15, <2>2, Zenon
<1>19. Begins(p9, e) /\ StandsAt(e, 18 + 2 * a, t10)
  <2>1. Begins(p9 \o t10, e) /\ p9 \in Seq(Octet) /\ t10 \in Seq(Octet)
    BY <1>2, <1>3, <1>11, <1>18
  <2>2. Begins(p9, e) /\ StandsAt(e, Len(p9), t10)
    BY <1>16, <2>1, PartOfBeginning, Zenon
  <2> QED BY <1>15, <2>2, Zenon
<1>20. Begins(p8, e) /\ StandsAt(e, 17 + 2 * a, t9)
  <2>1. Begins(p8 \o t9, e) /\ p8 \in Seq(Octet) /\ t9 \in Seq(Octet)
    BY <1>2, <1>3, <1>10, <1>19
  <2>2. Begins(p8, e) /\ StandsAt(e, Len(p8), t9)
    BY <1>16, <2>1, PartOfBeginning, Zenon
  <2> QED BY <1>15, <2>2, Zenon
<1>21. Begins(p7, e) /\ StandsAt(e, 16 + 2 * a, t8)
  <2>1. Begins(p7 \o t8, e) /\ p7 \in Seq(Octet) /\ t8 \in Seq(Octet)
    BY <1>2, <1>3, <1>9, <1>20
  <2>2. Begins(p7, e) /\ StandsAt(e, Len(p7), t8)
    BY <1>16, <2>1, PartOfBeginning, Zenon
  <2> QED BY <1>15, <2>2, Zenon
<1>22. Begins(p6, e) /\ StandsAt(e, 8 + 2 * a, t7)
  <2>1. Begins(p6 \o t7, e) /\ p6 \in Seq(Octet) /\ t7 \in Seq(Octet)
    BY <1>2, <1>3, <1>8, <1>21
  <2>2. Begins(p6, e) /\ StandsAt(e, Len(p6), t7)
    BY <1>16, <2>1, PartOfBeginning, Zenon
  <2> QED BY <1>15, <2>2, Zenon
<1>23. Begins(p5, e) /\ StandsAt(e, 5 + 2 * a, t6)
  <2>1. Begins(p5 \o t6, e) /\ p5 \in Seq(Octet) /\ t6 \in Seq(Octet)
    BY <1>2, <1>3, <1>7, <1>22
  <2>2. Begins(p5, e) /\ StandsAt(e, Len(p5), t6)
    BY <1>16, <2>1, PartOfBeginning, Zenon
  <2> QED BY <1>15, <2>2, Zenon
<1>24. Begins(p4, e) /\ StandsAt(e, 3 + 2 * a, t5)
  <2>1. Begins(p4 \o t5, e) /\ p4 \in Seq(Octet) /\ t5 \in Seq(Octet)
    BY <1>2, <1>3, <1>6, <1>23
  <2>2. Begins(p4, e) /\ StandsAt(e, Len(p4), t5)
    BY <1>16, <2>1, PartOfBeginning, Zenon
  <2> QED BY <1>15, <2>2, Zenon
<1>25. Begins(p3, e) /\ StandsAt(e, 1 + 2 * a, t4)
  <2>1. Begins(p3 \o t4, e) /\ p3 \in Seq(Octet) /\ t4 \in Seq(Octet)
    BY <1>2, <1>3, <1>5, <1>24
  <2>2. Begins(p3, e) /\ StandsAt(e, Len(p3), t4)
    BY <1>16, <2>1, PartOfBeginning, Zenon
  <2> QED BY <1>15, <2>2, Zenon
<1>26. Begins(p2, e) /\ StandsAt(e, 1 + a, t3)
  <2>1. Begins(p2 \o t3, e) /\ p2 \in Seq(Octet) /\ t3 \in Seq(Octet)
    BY <1>2, <1>3, <1>4, <1>25
  <2>2. Begins(p2, e) /\ StandsAt(e, Len(p2), t3)
    BY <1>16, <2>1, PartOfBeginning, Zenon
  <2> QED BY <1>15, <2>2, Zenon
<1>27. Begins(t1, e) /\ StandsAt(e, 1, t2)
  <2>1. Begins(t1, e) /\ StandsAt(e, Len(t1), t2)
    BY <1>2, <1>3, <1>16, <1>26, PartOfBeginning, Zenon
  <2> QED BY <1>l, <2>1, Zenon
<1>28. StandsAt(e, 0, t1)
  BY <1>2, <1>16, <1>27, BeginningStands, Zenon
<1>29. BaseParts(e)
  BY <1>17, <1>18, <1>19, <1>20, <1>21, <1>22, <1>23, <1>24, <1>25, <1>26, <1>27, <1>28, Zenon
     DEF BaseParts, a, p, t1, t2, t3, t4, t5, t6, t7, t8, t9, t10, t11, t12
<1> QED BY <1>1, <1>15, <1>16, <1>29 DEF e, a, p, BaseSize

\* The fields of the context that have been read.
HasAddress(c) == /\ c.srcIP = sent.srcIP /\ c.dstIP = sent.dstIP
                 /\ c.srcPort = sent.srcPort /\ c.dstPort = sent.dstPort
HasFixed(c) == /\ c.l4 = sent.l4 /\ c.l7 = sent.l7 /\ c.ebpfType = sent.ebpfType
               /\ c.time = sent.time /\ c.direction = sent.direction
HasName(c) == c.procName = sent.procName
HasFlow(c) == c.flowID = sent.flowID

\* Where the field read next begins and ends.
BaseFrom ==
  CASE pc = "ip_type"   -> 0
    [] pc = "address"   -> 1
    [] pc = "fixed"     -> 5 + 2 * AddrLen
    [] pc = "proc_name" -> 18 + 2 * AddrLen
    [] pc = "flow_id"   -> 18 + 2 * AddrLen + NameLen
    [] OTHER            -> 26 + 2 * AddrLen + NameLen

BaseTo ==
  CASE pc = "ip_type"   -> 1
    [] pc = "address"   -> 5 + 2 * AddrLen
    [] pc = "fixed"     -> 18 + 2 * AddrLen
    [] pc = "proc_name" -> 18 + 2 * AddrLen + NameLen
    [] pc = "flow_id"   -> 26 + 2 * AddrLen + NameLen
    [] OTHER            -> BaseSize

\* What has been read of it is what was sent.
BaseSoFar ==
  /\ off = BaseFrom /\ off <= Len(buf)
  /\ ctx \in Base!ParseCtx
  /\ pc \in {"fixed", "proc_name", "flow_id", "buf_size"} => HasAddress(ctx)
  /\ pc \in {"proc_name", "flow_id", "buf_size"} => HasFixed(ctx) /\ Base!Decodable(sent)
  /\ pc \in {"flow_id", "buf_size"} => HasName(ctx)
  /\ pc = "buf_size" => HasFlow(ctx)

BaseInv ==
  /\ Base!TypeOK
  /\ Base!Encodable(sent)
  /\ Len(Base!Encode(sent)) = BaseSize
  /\ BaseParts(buf)
  /\ pc # "done" => BaseSoFar
  /\ Base!InBounds
  /\ Base!DecodesWhatWasSent

LEMMA InitBase == Base!Init => BaseInv
<1> SUFFICES ASSUME Base!Init PROVE BaseInv
  OBVIOUS
<1>1. /\ sent \in CtxSent /\ Base!Encodable(sent)
      /\ pc = "ip_type" /\ off = 0 /\ touched = 0 /\ ctx = Base!EmptyCtx
  BY DEF Base!Init
<1> DEFINE e == Base!Encode(sent)
<1>2. PICK n \in 0..Len(e) + 1 : buf = SubSeq(e \o <<0>>, 1, n)
  BY DEF Base!Init
<1>3. e \in Seq(Octet) /\ Len(e) = BaseSize /\ BaseParts(e)
  BY <1>1, BaseEncoding
<1> HIDE DEF e
<1>4. <<0>> \in Seq(Octet) /\ Len(<<0>>) = 1
  BY DEF Octet
<1>5. n \in 0..Len(e \o <<0>>)
  BY <1>2, <1>3, <1>4
<1>6. buf \in Seq(Octet) /\ Len(buf) \in Nat
  BY <1>2, <1>3, <1>4, <1>5
<1>7. ASSUME NEW part \in Seq(Octet), NEW at \in Nat, at + Len(part) <= Len(e),
             StandsAt(e, at, part)
      PROVE  StandsAt(buf, at, part)
  BY <1>2, <1>3, <1>4, <1>5, <1>7, StandsInArrived
<1> DEFINE a == AddrLen
           p == NameLen
<1>8. a \in Nat /\ p \in Nat /\ Len(e) = 28 + 2 * a + p
  BY <1>1, <1>3, BaseSentTypes DEF BaseSize
<1>9. BaseParts(buf)
  <2> DEFINE t1 == <<IF a = 4 THEN 4 ELSE 6>>
             t2 == sent.srcIP
             t3 == sent.dstIP
             t4 == TwoBytes(sent.srcPort)
             t5 == TwoBytes(sent.dstPort)
             t6 == <<sent.l4, sent.l7, sent.ebpfType>>
             t7 == sent.time
             t8 == <<sent.direction>>
             t9 == <<p>>
             t10 == sent.procName
             t11 == sent.flowID
             t12 == TwoBytes(sent.bufSize)
  <2>1. /\ t1 \in Seq(Octet) /\ t2 \in Seq(Octet) /\ t3 \in Seq(Octet)
        /\ t4 \in Seq(Octet) /\ t5 \in Seq(Octet) /\ t6 \in Seq(Octet)
        /\ t7 \in Seq(Octet) /\ t8 \in Seq(Octet) /\ t9 \in Seq(Octet)
        /\ t10 \in Seq(Octet) /\ t11 \in Seq(Octet) /\ t12 \in Seq(Octet)
    BY <1>1, BaseSentTypes
  <2>2. /\ Len(t1) = 1 /\ Len(t2) = a /\ Len(t3) = a /\ Len(t4) = 2 /\ Len(t5) = 2
        /\ Len(t6) = 3 /\ Len(t7) = 8 /\ Len(t8) = 1 /\ Len(t9) = 1 /\ Len(t10) = p
        /\ Len(t11) = 8 /\ Len(t12) = 2
    <3>1. Len(t1) = 1 /\ Len(t6) = 3 /\ Len(t8) = 1 /\ Len(t9) = 1
      OBVIOUS
    <3> QED BY <1>1, <3>1, BaseSentTypes
  <2>3. /\ StandsAt(e, 0, t1) /\ StandsAt(e, 1, t2) /\ StandsAt(e, 1 + a, t3)
        /\ StandsAt(e, 1 + 2 * a, t4) /\ StandsAt(e, 3 + 2 * a, t5)
        /\ StandsAt(e, 5 + 2 * a, t6) /\ StandsAt(e, 8 + 2 * a, t7)
        /\ StandsAt(e, 16 + 2 * a, t8) /\ StandsAt(e, 17 + 2 * a, t9)
        /\ StandsAt(e, 18 + 2 * a, t10) /\ StandsAt(e, 18 + 2 * a + p, t11)
        /\ StandsAt(e, 26 + 2 * a + p, t12)
    BY <1>3, Zenon DEF BaseParts
  <2> HIDE DEF a, p, t1, t2, t3, t4, t5, t6, t7, t8, t9, t10, t11, t12
  <2>4. /\ 0 \in Nat /\ 1 \in Nat
        /\ 1 + a \in Nat /\ 1 + 2 * a \in Nat /\ 3 + 2 * a \in Nat /\ 5 + 2 * a \in Nat
        /\ 8 + 2 * a \in Nat /\ 16 + 2 * a \in Nat /\ 17 + 2 * a \in Nat
        /\ 18 + 2 * a \in Nat /\ 18 + 2 * a + p \in Nat /\ 26 + 2 * a + p \in Nat
    BY <1>8
  <2>5. /\ 0 + Len(t1) <= Len(e) /\ 1 + Len(t2) <= Len(e)
        /\ (1 + a) + Len(t3) <= Len(e) /\ (1 + 2 * a) + Len(t4) <= Len(e)
        /\ (3 + 2 * a) + Len(t5) <= Len(e) /\ (5 + 2 * a) + Len(t6) <= Len(e)
        /\ (8 + 2 * a) + Len(t7) <= Len(e) /\ (16 + 2 * a) + Len(t8) <= Len(e)
        /\ (17 + 2 * a) + Len(t9) <= Len(e) /\ (18 + 2 * a) + Len(t10) <= Len(e)
        /\ (18 + 2 * a + p) + Len(t11) <= Len(e) /\ (26 + 2 * a + p) + Len(t12) <= Len(e)
    BY <1>8, <2>2
  <2>6. /\ StandsAt(buf, 0, t1) /\ StandsAt(buf, 1, t2) /\ StandsAt(buf, 1 + a, t3)
        /\ StandsAt(buf, 1 + 2 * a, t4)
    BY <1>7, <2>1, <2>3, <2>4, <2>5
  <2>7. /\ StandsAt(buf, 3 + 2 * a, t5)
        /\ StandsAt(buf, 5 + 2 * a, t6) /\ StandsAt(buf, 8 + 2 * a, t7)
        /\ StandsAt(buf, 16 + 2 * a, t8) 
    BY <1>7, <2>1, <2>3, <2>4, <2>5
  <2>8. /\ StandsAt(buf, 17 + 2 * a, t9)
        /\ StandsAt(buf, 18 + 2 * a, t10) /\ StandsAt(buf, 18 + 2 * a + p, t11)
        /\ StandsAt(buf, 26 + 2 * a + p, t12)
    BY <1>7, <2>1, <2>3, <2>4, <2>5
  <2> QED
    BY <2>6, <2>7, <2>8, Zenon
       DEF BaseParts, a, p, t1, t2, t3, t4, t5, t6, t7, t8, t9, t10, t11, t12
<1>10. ctx \in Base!ParseCtx
  BY <1>1 DEF Base!EmptyCtx, Base!ParseCtx, Base!Byte8, Base!Uint16, Base!EbpfTypes,
     Base!Directions
<1>11. Base!TypeOK
  BY <1>1, <1>6, <1>10, SameBytes DEF Base!TypeOK, Base!Fields
<1>12. Base!InBounds /\ Base!DecodesWhatWasSent
  BY <1>1, <1>6 DEF Base!InBounds, Base!DecodesWhatWasSent
<1>13. BaseSoFar
  BY <1>1, <1>6, <1>10 DEF BaseSoFar, BaseFrom
<1>14. Len(Base!Encode(sent)) = BaseSize
  BY <1>3 DEF e
<1> QED BY <1>1, <1>9, <1>11, <1>12, <1>13, <1>14 DEF BaseInv

\* What has arrived of a base context is read as it was sent.
LEMMA BaseReads ==
  ASSUME BaseInv
  PROVE  /\ buf \in Seq(Octet) /\ Len(buf) \in Nat
         /\ Base!Encodable(sent)
         /\ 1 <= Len(buf) => Base!Byte(0) \in {4, 6} /\ Base!AddressLen = AddrLen
         /\ 5 + 2 * AddrLen <= Len(buf) =>
              /\ Base!Slice(1, 1 + AddrLen) = sent.srcIP
              /\ Base!Slice(1 + AddrLen, 1 + 2 * AddrLen) = sent.dstIP
              /\ Base!BigEndian16(1 + 2 * AddrLen) = sent.srcPort
              /\ Base!BigEndian16(1 + 2 * AddrLen + 2) = sent.dstPort
         /\ 18 + 2 * AddrLen <= Len(buf) =>
              /\ Base!Byte(5 + 2 * AddrLen) = sent.l4
              /\ Base!Byte(5 + 2 * AddrLen + 1) = sent.l7
              /\ Base!Byte(5 + 2 * AddrLen + 2) = sent.ebpfType
              /\ Base!Slice(5 + 2 * AddrLen + 3, 5 + 2 * AddrLen + 11) = sent.time
              /\ Base!Byte(5 + 2 * AddrLen + 11) = sent.direction
              /\ Base!Byte(17 + 2 * AddrLen) = NameLen
         /\ 18 + 2 * AddrLen + NameLen <= Len(buf) =>
              Base!Slice(18 + 2 * AddrLen, 18 + 2 * AddrLen + NameLen) = sent.procName
         /\ 26 + 2 * AddrLen + NameLen <= Len(buf) =>
              Base!Slice(18 + 2 * AddrLen + NameLen, 18 + 2 * AddrLen + NameLen + 8)
                = sent.flowID
         /\ 28 + 2 * AddrLen + NameLen <= Len(buf) =>
              Base!BigEndian16(26 + 2 * AddrLen + NameLen) = sent.bufSize
<1> DEFINE a == AddrLen
           p == NameLen
           t1 == <<IF a = 4 THEN 4 ELSE 6>>
           t6 == <<sent.l4, sent.l7, sent.ebpfType>>
           t8 == <<sent.direction>>
           t9 == <<p>>
<1>1. buf \in Seq(Octet) /\ Len(buf) \in Nat /\ Base!Encodable(sent)
  <2>1. buf \in Seq(Octet)
    BY SameBytes DEF BaseInv, Base!TypeOK
  <2> QED BY <2>1 DEF BaseInv
<1>2. /\ StandsAt(buf, 0, t1) /\ StandsAt(buf, 1, sent.srcIP)
      /\ StandsAt(buf, 1 + a, sent.dstIP)
      /\ StandsAt(buf, 1 + 2 * a, TwoBytes(sent.srcPort))
      /\ StandsAt(buf, 3 + 2 * a, TwoBytes(sent.dstPort))
      /\ StandsAt(buf, 5 + 2 * a, t6)
      /\ StandsAt(buf, 8 + 2 * a, sent.time)
      /\ StandsAt(buf, 16 + 2 * a, t8)
      /\ StandsAt(buf, 17 + 2 * a, t9)
      /\ StandsAt(buf, 18 + 2 * a, sent.procName)
      /\ StandsAt(buf, 18 + 2 * a + p, sent.flowID)
      /\ StandsAt(buf, 26 + 2 * a + p, TwoBytes(sent.bufSize))
  <2>1. BaseParts(buf)
    BY DEF BaseInv
  <2> QED BY <2>1, Zenon DEF BaseParts
<1>3. /\ a \in {4, 16} /\ a \in Nat /\ p \in Nat /\ p < 256
      /\ sent.srcIP \in Seq(Octet) /\ Len(sent.srcIP) = a
      /\ sent.dstIP \in Seq(Octet) /\ Len(sent.dstIP) = a
      /\ sent.srcPort \in Word16 /\ sent.dstPort \in Word16 /\ sent.bufSize \in Word16
      /\ sent.time \in Seq(Octet) /\ Len(sent.time) = 8
      /\ sent.procName \in Seq(Octet) /\ Len(sent.procName) = p
      /\ sent.flowID \in Seq(Octet) /\ Len(sent.flowID) = 8
  BY <1>1, BaseSentTypes
<1>4. /\ t1 \in Seq(Octet) /\ Len(t1) = 1 /\ t1[1] = IF a = 4 THEN 4 ELSE 6
      /\ t6 \in Seq(Octet) /\ Len(t6) = 3
      /\ t6[1] = sent.l4 /\ t6[2] = sent.l7 /\ t6[3] = sent.ebpfType
      /\ t8 \in Seq(Octet) /\ Len(t8) = 1 /\ t8[1] = sent.direction
      /\ t9 \in Seq(Octet) /\ Len(t9) = 1 /\ t9[1] = p
  <2>1. t1 \in Seq(Octet) /\ t6 \in Seq(Octet) /\ t8 \in Seq(Octet) /\ t9 \in Seq(Octet)
    BY <1>1, BaseSentTypes
  <2>2. /\ Len(t1) = 1 /\ t1[1] = IF a = 4 THEN 4 ELSE 6
        /\ Len(t6) = 3 /\ t6[1] = sent.l4 /\ t6[2] = sent.l7 /\ t6[3] = sent.ebpfType
        /\ Len(t8) = 1 /\ t8[1] = sent.direction
        /\ Len(t9) = 1 /\ t9[1] = p
    OBVIOUS
  <2> QED BY <2>1, <2>2
<1> HIDE DEF a, p, t1, t6, t8, t9
<1>5. ASSUME NEW part \in Seq(Octet), NEW at \in Nat, StandsAt(buf, at, part),
             NEW k \in 1..Len(part), at + k <= Len(buf), NEW pos \in Nat, pos = at + k - 1
      PROVE  Base!Byte(pos) = part[k]
  BY <1>1, <1>5, ByteOfPart, SameBytes
<1>6. ASSUME NEW part \in Seq(Octet), NEW at \in Nat, StandsAt(buf, at, part),
             NEW to \in Nat, to = at + Len(part), to <= Len(buf)
      PROVE  Base!Slice(at, to) = part
  BY <1>1, <1>6, SliceOfPart, SameBytes
<1>7. ASSUME NEW n \in Word16, NEW at \in Nat, StandsAt(buf, at, TwoBytes(n)),
             at + 2 <= Len(buf)
      PROVE  Base!BigEndian16(at) = n
  BY <1>1, <1>7, NumberOfPart, SameBytes
<1>8. ASSUME 1 <= Len(buf) PROVE Base!Byte(0) \in {4, 6} /\ Base!AddressLen = a
  <2>1. 0 \in Nat /\ 1 \in 1..Len(t1) /\ 0 + 1 <= Len(buf) /\ 0 = 0 + 1 - 1
    BY <1>1, <1>4, <1>8
  <2>2. Base!Byte(0) = IF a = 4 THEN 4 ELSE 6
    BY <1>2, <1>4, <1>5, <2>1
  <2> QED BY <1>3, <2>2 DEF Base!AddressLen
<1>9. ASSUME 5 + 2 * a <= Len(buf)
      PROVE  /\ Base!Slice(1, 1 + a) = sent.srcIP
             /\ Base!Slice(1 + a, 1 + 2 * a) = sent.dstIP
             /\ Base!BigEndian16(1 + 2 * a) = sent.srcPort
             /\ Base!BigEndian16(1 + 2 * a + 2) = sent.dstPort
  <2>1. /\ 1 \in Nat /\ 1 + a \in Nat /\ 1 + 2 * a \in Nat /\ 3 + 2 * a \in Nat
        /\ 1 + 2 * a = (1 + a) + a /\ 1 + a <= Len(buf) /\ 1 + 2 * a <= Len(buf)
        /\ (1 + 2 * a) + 2 <= Len(buf) /\ (3 + 2 * a) + 2 <= Len(buf)
        /\ 1 + 2 * a + 2 = 3 + 2 * a
    BY <1>1, <1>3, <1>9
  <2>2. Base!Slice(1, 1 + a) = sent.srcIP
    BY <1>2, <1>3, <1>6, <2>1
  <2>3. Base!Slice(1 + a, 1 + 2 * a) = sent.dstIP
    BY <1>2, <1>3, <1>6, <2>1
  <2>4. Base!BigEndian16(1 + 2 * a) = sent.srcPort
    BY <1>2, <1>3, <1>7, <2>1
  <2>5. Base!BigEndian16(3 + 2 * a) = sent.dstPort
    BY <1>2, <1>3, <1>7, <2>1
  <2> QED BY <2>1, <2>2, <2>3, <2>4, <2>5
<1>10. ASSUME 18 + 2 * a <= Len(buf)
       PROVE  /\ Base!Byte(5 + 2 * a) = sent.l4
              /\ Base!Byte(5 + 2 * a + 1) = sent.l7
              /\ Base!Byte(5 + 2 * a + 2) = sent.ebpfType
              /\ Base!Slice(5 + 2 * a + 3, 5 + 2 * a + 11) = sent.time
              /\ Base!Byte(5 + 2 * a + 11) = sent.direction
              /\ Base!Byte(17 + 2 * a) = p
  <2> DEFINE f == 5 + 2 * a
             g == 8 + 2 * a
             h == 16 + 2 * a
             j == 17 + 2 * a
  <2>1. /\ f \in Nat /\ g \in Nat /\ h \in Nat /\ j \in Nat
        /\ g = f + 3 /\ h = f + 11 /\ j = f + 12 /\ f + 13 <= Len(buf)
    BY <1>1, <1>3, <1>10
  <2>2. /\ StandsAt(buf, f, t6) /\ StandsAt(buf, g, sent.time)
        /\ StandsAt(buf, h, t8) /\ StandsAt(buf, j, t9)
    BY <1>2
  <2> HIDE DEF f, g, h, j
  <2>3. /\ 1 \in 1..Len(t6) /\ 2 \in 1..Len(t6) /\ 3 \in 1..Len(t6)
        /\ 1 \in 1..Len(t8) /\ 1 \in 1..Len(t9)
    <3>1. Len(t6) = 3 /\ Len(t8) = 1 /\ Len(t9) = 1
      BY <1>4
    <3> QED BY <3>1
  <2>4. Base!Byte(f) = sent.l4
    <3>1. /\ t6 \in Seq(Octet) /\ StandsAt(buf, f, t6) /\ f \in Nat
          /\ t6[1] = sent.l4
      BY <1>4, <2>1, <2>2
    <3>2. 1 \in 1..Len(t6)
      BY <2>3
    <3>3. f + 1 <= Len(buf) /\ f \in Nat /\ f = f + 1 - 1
      BY <1>1, <2>1
    <3> QED BY <1>5, <3>1, <3>2, <3>3
  <2>5. Base!Byte(f + 1) = sent.l7
    <3>1. /\ t6 \in Seq(Octet) /\ StandsAt(buf, f, t6) /\ f \in Nat
          /\ t6[2] = sent.l7
      BY <1>4, <2>1, <2>2
    <3>2. 2 \in 1..Len(t6)
      BY <2>3
    <3>3. f + 2 <= Len(buf) /\ f + 1 \in Nat /\ f + 1 = f + 2 - 1
      BY <1>1, <2>1
    <3> QED BY <1>5, <3>1, <3>2, <3>3
  <2>6. Base!Byte(f + 2) = sent.ebpfType
    <3>1. /\ t6 \in Seq(Octet) /\ StandsAt(buf, f, t6) /\ f \in Nat
          /\ t6[3] = sent.ebpfType
      BY <1>4, <2>1, <2>2
    <3>2. 3 \in 1..Len(t6)
      BY <2>3
    <3>3. f + 3 <= Len(buf) /\ f + 2 \in Nat /\ f + 2 = f + 3 - 1
      BY <1>1, <2>1
    <3> QED BY <1>5, <3>1, <3>2, <3>3
  <2>7. Base!Slice(f + 3, f + 11) = sent.time
    <3>1. h \in Nat /\ h = g + Len(sent.time) /\ h <= Len(buf)
      BY <1>1, <1>3, <2>1
    <3>2. Base!Slice(g, h) = sent.time
      BY <1>3, <1>6, <2>1, <2>2, <3>1
    <3> QED BY <2>1, <3>2
  <2>8. Base!Byte(f + 11) = sent.direction
    <3>1. /\ t8 \in Seq(Octet) /\ StandsAt(buf, h, t8) /\ h \in Nat /\ t8[1] = sent.direction
      BY <1>4, <2>1, <2>2
    <3>2. h + 1 <= Len(buf) /\ h = h + 1 - 1
      BY <1>1, <2>1
    <3>3. Base!Byte(h) = sent.direction
      BY <1>5, <2>3, <3>1, <3>2
    <3> QED BY <2>1, <3>3
  <2>9. Base!Byte(j) = p
    <3>1. /\ t9 \in Seq(Octet) /\ StandsAt(buf, j, t9) /\ j \in Nat
          /\ t9[1] = p
      BY <1>4, <2>1, <2>2
    <3>2. 1 \in 1..Len(t9)
      BY <2>3
    <3>3. j + 1 <= Len(buf) /\ j \in Nat /\ j = j + 1 - 1
      BY <1>1, <2>1
    <3> QED BY <1>5, <3>1, <3>2, <3>3
  <2> QED BY <2>4, <2>5, <2>6, <2>7, <2>8, <2>9 DEF f, j
<1>11. ASSUME 18 + 2 * a + p <= Len(buf)
       PROVE  Base!Slice(18 + 2 * a, 18 + 2 * a + p) = sent.procName
  <2>1. 18 + 2 * a \in Nat /\ 18 + 2 * a + p \in Nat
    BY <1>3
  <2> QED BY <1>2, <1>3, <1>6, <1>11, <2>1
<1>12. ASSUME 26 + 2 * a + p <= Len(buf)
       PROVE  Base!Slice(18 + 2 * a + p, 18 + 2 * a + p + 8) = sent.flowID
  <2>1. /\ 18 + 2 * a + p \in Nat /\ 18 + 2 * a + p + 8 \in Nat
        /\ 18 + 2 * a + p + 8 <= Len(buf)
    BY <1>1, <1>3, <1>12
  <2> QED BY <1>2, <1>3, <1>6, <2>1
<1>13. ASSUME 28 + 2 * a + p <= Len(buf)
       PROVE  Base!BigEndian16(26 + 2 * a + p) = sent.bufSize
  <2>1. 26 + 2 * a + p \in Nat /\ (26 + 2 * a + p) + 2 <= Len(buf)
    BY <1>1, <1>3, <1>13
  <2> QED BY <1>2, <1>3, <1>7, <2>1
<1> QED BY <1>1, <1>8, <1>9, <1>10, <1>11, <1>12, <1>13 DEF a, p

\* A length check asks for the bytes up to the end of the field, and it knows
\* where that is: the length bytes before it have been read.
LEMMA BaseBounds ==
  ASSUME BaseInv, pc # "done"
  PROVE  /\ off = BaseFrom /\ off \in Nat /\ off <= Len(buf)
         /\ BaseTo \in Nat /\ BaseTo <= BaseSize /\ BaseSize \in Nat
         /\ off + Base!Need = BaseTo
<1> DEFINE a == AddrLen
           p == NameLen
<1>1. /\ off = BaseFrom /\ off <= Len(buf) /\ pc \in Base!Fields
  BY DEF BaseInv, BaseSoFar, Base!TypeOK
<1>2. /\ a \in Nat /\ p \in Nat /\ Len(buf) \in Nat
      /\ 1 <= Len(buf) => Base!AddressLen = a
      /\ 18 + 2 * a <= Len(buf) => Base!Byte(17 + 2 * a) = p
  <2>1. /\ Base!Encodable(sent) /\ Len(buf) \in Nat
        /\ 1 <= Len(buf) => Base!AddressLen = a
        /\ 18 + 2 * a <= Len(buf) => Base!Byte(17 + 2 * a) = p
    BY BaseReads, Zenon
  <2>2. a \in {4, 16} /\ p \in Nat
    BY <2>1, BaseSentTypes
  <2> HIDE DEF a, p
  <2> QED BY <2>1, <2>2
<1>3. BaseSize = 28 + 2 * a + p
  BY DEF BaseSize
<1> HIDE DEF a, p
<1>4. CASE pc = "ip_type"
  <2>1. BaseFrom = 0 /\ BaseTo = 1 /\ Base!Need = 1
    BY <1>4 DEF BaseFrom, BaseTo, Base!Need
  <2> QED BY <1>1, <1>2, <1>3, <2>1
<1>5. CASE pc = "address"
  <2>1. BaseFrom = 1 /\ BaseTo = 5 + 2 * a /\ Base!Need = 2 * Base!AddressLen + 4
    BY <1>5 DEF BaseFrom, BaseTo, Base!Need, a
  <2>2. Base!Need = 2 * a + 4
    BY <1>1, <1>2, <2>1
  <2> QED BY <1>1, <1>2, <1>3, <2>1, <2>2
<1>6. CASE pc = "fixed"
  <2>1. BaseFrom = 5 + 2 * a /\ BaseTo = 18 + 2 * a /\ Base!Need = 13
    BY <1>6 DEF BaseFrom, BaseTo, Base!Need, a
  <2> QED BY <1>1, <1>2, <1>3, <2>1
<1>7. CASE pc = "proc_name"
  <2>1. /\ BaseFrom = 18 + 2 * a /\ BaseTo = 18 + 2 * a + p
        /\ Base!Need = Base!Byte(off - 1)
    BY <1>7 DEF BaseFrom, BaseTo, Base!Need, a, p
  <2>2. off - 1 = 17 + 2 * a
    BY <1>1, <1>2, <2>1
  <2>3. Base!Need = p
    BY <1>1, <1>2, <2>1, <2>2
  <2> QED BY <1>1, <1>2, <1>3, <2>1, <2>3
<1>8. CASE pc = "flow_id"
  <2>1. BaseFrom = 18 + 2 * a + p /\ BaseTo = 26 + 2 * a + p /\ Base!Need = 8
    BY <1>8 DEF BaseFrom, BaseTo, Base!Need, a, p
  <2> QED BY <1>1, <1>2, <1>3, <2>1
<1>9. CASE pc = "buf_size"
  <2>1. BaseFrom = 26 + 2 * a + p /\ BaseTo = BaseSize /\ Base!Need = 2
    BY <1>9 DEF BaseFrom, BaseTo, Base!Need, a, p
  <2> QED BY <1>1, <1>2, <1>3, <2>1
<1> QED BY <1>1, <1>4, <1>5, <1>6, <1>7, <1>8, <1>9 DEF Base!Fields

\* Of a field that has arrived whole, only an undefined code is refused.
LEMMA BaseKnown ==
  ASSUME BaseInv, pc # "done", BaseTo <= Len(buf)
  PROVE  Base!Known <=> (pc = "fixed" => Base!Decodable(sent))
<1>1. CASE pc = "ip_type"
  <2>1. 1 <= Len(buf)
    BY <1>1 DEF BaseTo
  <2> QED BY <1>1, <2>1, BaseReads DEF Base!Known
<1>2. CASE pc = "fixed"
  <2>1. 18 + 2 * AddrLen <= Len(buf) /\ off = 5 + 2 * AddrLen
    BY <1>2, BaseBounds DEF BaseTo, BaseFrom
  <2>2. /\ Base!Byte(off) = sent.l4 /\ Base!Byte(off + 2) = sent.ebpfType
        /\ Base!Byte(off + 11) = sent.direction
    BY <2>1, BaseReads
  <2> QED BY <1>2, <2>2 DEF Base!Known, Base!Decodable
<1>3. CASE pc \notin {"ip_type", "fixed"}
  BY <1>3 DEF Base!Known
<1> QED BY <1>1, <1>2, <1>3

LEMMA BaseRefuses ==
  ASSUME BaseInv, pc # "done", ~Base!Accepted
  PROVE  ~(Base!Decodable(sent) /\ Len(buf) >= Len(Base!Encode(sent)))
<1>1. /\ BaseTo \in Nat /\ BaseTo <= BaseSize /\ BaseSize \in Nat
      /\ off + Base!Need = BaseTo /\ Len(buf) \in Nat
      /\ Len(Base!Encode(sent)) = BaseSize
  BY BaseBounds, BaseReads DEF BaseInv
<1>2. CASE ~(BaseTo <= Len(buf))
  BY <1>1, <1>2
<1>3. CASE BaseTo <= Len(buf)
  BY <1>1, <1>3, BaseKnown DEF Base!Accepted
<1> QED BY <1>2, <1>3

\* A field has been read; what is left to show is what the context holds.
LEMMA BaseConsumed ==
  ASSUME BaseInv, NEW next \in Base!Fields, Base!Consume(pc, next, Base!Need),
         pc # "done", BaseFrom' = BaseTo, ctx' \in Base!ParseCtx,
         next \in {"fixed", "proc_name", "flow_id", "buf_size"} => HasAddress(ctx'),
         next \in {"proc_name", "flow_id", "buf_size"}
           => HasFixed(ctx') /\ Base!Decodable(sent),
         next \in {"flow_id", "buf_size"} => HasName(ctx'),
         next = "buf_size" => HasFlow(ctx')
  PROVE  BaseInv'
<1>1. /\ pc' = next /\ off' = off + Base!Need /\ touched' = off + Base!Need
      /\ UNCHANGED <<sent, buf>>
      /\ Base!Accepted
  BY DEF Base!Consume
<1>2. off' = BaseTo /\ touched' = BaseTo /\ BaseTo \in Nat /\ BaseTo <= Len(buf)
  BY <1>1, BaseBounds DEF Base!Accepted
<1>3. next # "done"
  BY DEF Base!Fields
<1>4. BaseSoFar'
  BY <1>1, <1>2 DEF BaseSoFar, HasAddress, HasFixed, HasName, HasFlow, Base!Decodable
<1>5. Base!TypeOK'
  BY <1>1, <1>2 DEF BaseInv, Base!TypeOK
<1>6. Base!InBounds' /\ Base!DecodesWhatWasSent'
  BY <1>1, <1>2, <1>3 DEF Base!InBounds, Base!DecodesWhatWasSent
<1>7. BaseParts(buf)' /\ (Len(Base!Encode(sent)) = BaseSize)' /\ Base!Encodable(sent)'
  <2>1. BaseParts(buf) /\ Len(Base!Encode(sent)) = BaseSize /\ Base!Encodable(sent)
    BY DEF BaseInv
  <2> QED BY <1>1, <2>1 DEF BaseParts, BaseSize, AddrLen, NameLen
<1> QED BY <1>4, <1>5, <1>6, <1>7 DEF BaseInv

LEMMA StepBase == BaseInv /\ [Base!Next]_(Base!vars) => BaseInv'
<1> SUFFICES ASSUME BaseInv, [Base!Next]_(Base!vars) PROVE BaseInv'
  OBVIOUS
<1>a. ASSUME pc # "done", Base!Accepted
      PROVE  /\ off = BaseFrom /\ BaseTo <= Len(buf) /\ ctx \in Base!ParseCtx
             /\ Base!Known
             /\ Len(buf) \in Nat /\ AddrLen \in Nat /\ NameLen \in Nat
  BY <1>a, BaseBounds, BaseReads, BaseSentTypes DEF BaseInv, BaseSoFar, Base!Accepted
<1>t. /\ sent.srcIP \in Seq(Octet) /\ sent.dstIP \in Seq(Octet)
      /\ sent.srcPort \in Word16 /\ sent.dstPort \in Word16 /\ sent.bufSize \in Word16
      /\ sent.l7 \in Octet /\ sent.time \in Seq(Octet)
      /\ sent.procName \in Seq(Octet) /\ sent.flowID \in Seq(Octet)
  BY BaseReads, BaseSentTypes
<1>p. Base!ParseCtx =
        [ srcIP: Seq(Octet), dstIP: Seq(Octet), srcPort: Word16, dstPort: Word16,
          l4: {0, Base!UDP, Base!TCP}, l7: Octet, ebpfType: Base!EbpfTypes,
          time: Seq(Octet), direction: Base!Directions, procName: Seq(Octet),
          flowID: Seq(Octet), bufSize: Word16 ]
  BY SameBytes DEF Base!ParseCtx
<1>s. /\ pc # "done" => BaseSoFar
      /\ BaseParts(buf) /\ Len(Base!Encode(sent)) = BaseSize /\ Base!Encodable(sent)
  BY DEF BaseInv
<1>1. CASE Base!Refuse
  <2>1. /\ pc # "done" /\ ~Base!Accepted /\ pc' = "done" /\ ctx' = Nil
        /\ UNCHANGED <<sent, buf, off, touched>>
    BY <1>1 DEF Base!Refuse
  <2>2. Base!DecodesWhatWasSent'
    BY <2>1, BaseRefuses DEF Base!DecodesWhatWasSent, Base!Decodable
  <2>3. Base!TypeOK' /\ Base!InBounds'
    BY <2>1 DEF BaseInv, Base!TypeOK, Base!InBounds
  <2> QED
    BY <1>s, <2>1, <2>2, <2>3 DEF BaseInv, BaseParts, BaseSize, AddrLen, NameLen
<1>2. CASE Base!IpType
  <2>1. pc = "ip_type" /\ ctx' = ctx /\ Base!Accepted
    BY <1>2 DEF Base!IpType, Base!Consume
  <2>2. Base!Consume(pc, "address", Base!Need)
    BY <1>2, <2>1 DEF Base!IpType, Base!Consume, Base!Need
  <2>3. BaseFrom' = BaseTo
    BY <2>1, <2>2 DEF Base!Consume, BaseFrom, BaseTo
  <2> QED BY <1>a, <2>1, <2>2, <2>3, BaseConsumed DEF Base!Fields
<1>3. CASE Base!Address
  <2>1. pc = "address" /\ Base!Accepted
    BY <1>3 DEF Base!Address, Base!Consume
  <2>2. 5 + 2 * AddrLen <= Len(buf) /\ 1 <= Len(buf)
    BY <1>a, <2>1 DEF BaseTo
  <2>3. /\ Base!AddressLen = AddrLen
        /\ Base!Slice(1, 1 + AddrLen) = sent.srcIP
        /\ Base!Slice(1 + AddrLen, 1 + 2 * AddrLen) = sent.dstIP
        /\ Base!BigEndian16(1 + 2 * AddrLen) = sent.srcPort
        /\ Base!BigEndian16(1 + 2 * AddrLen + 2) = sent.dstPort
    BY <2>2, BaseReads
  <2>4. ctx' = [ctx EXCEPT !.srcIP = sent.srcIP, !.dstIP = sent.dstIP,
                           !.srcPort = sent.srcPort, !.dstPort = sent.dstPort]
    BY <1>3, <2>3 DEF Base!Address
  <2>5. ctx' \in Base!ParseCtx /\ HasAddress(ctx')
    BY <1>a, <1>p, <1>t, <2>1, <2>4 DEF HasAddress
  <2>6. Base!Consume(pc, "fixed", Base!Need)
    BY <1>3, <2>1 DEF Base!Address, Base!Consume, Base!Need
  <2>7. BaseFrom' = BaseTo
    BY <2>1, <2>6 DEF Base!Consume, BaseFrom, BaseTo, AddrLen
  <2> QED BY <2>1, <2>5, <2>6, <2>7, BaseConsumed DEF Base!Fields
<1>4. CASE Base!Fixed
  <2>1. pc = "fixed" /\ Base!Accepted
    BY <1>4 DEF Base!Fixed, Base!Consume
  <2>2. 18 + 2 * AddrLen <= Len(buf) /\ off = 5 + 2 * AddrLen
    BY <1>a, <2>1 DEF BaseFrom, BaseTo
  <2>3. /\ Base!Byte(off) = sent.l4 /\ Base!Byte(off + 1) = sent.l7
        /\ Base!Byte(off + 2) = sent.ebpfType
        /\ Base!Slice(off + 3, off + 11) = sent.time
        /\ Base!Byte(off + 11) = sent.direction
    BY <2>2, BaseReads
  <2>4. ctx' = [ctx EXCEPT !.l4 = sent.l4, !.l7 = sent.l7, !.ebpfType = sent.ebpfType,
                           !.time = sent.time, !.direction = sent.direction]
    BY <1>4, <2>3 DEF Base!Fixed
  <2>5. Base!Decodable(sent)
    BY <1>a, <2>1, BaseKnown
  <2>6. ctx \in Base!ParseCtx /\ HasAddress(ctx)
    BY <1>s, <2>1 DEF BaseSoFar
  <2>7. ctx' \in Base!ParseCtx /\ HasAddress(ctx') /\ HasFixed(ctx')
    BY <1>p, <1>t, <2>4, <2>5, <2>6 DEF HasAddress, HasFixed, Base!Decodable
  <2>8. Base!Consume(pc, "proc_name", Base!Need)
    <3>1. Base!Need = 13 /\ 2 + 1 + 8 + 1 + 1 = 13
      BY <2>1 DEF Base!Need
    <3> QED BY <1>4, <2>1, <3>1 DEF Base!Fixed, Base!Consume
  <2>9. BaseFrom' = BaseTo
    BY <2>1, <2>8 DEF Base!Consume, BaseFrom, BaseTo, AddrLen
  <2> QED BY <2>1, <2>5, <2>7, <2>8, <2>9, BaseConsumed DEF Base!Fields
<1>5. CASE Base!ProcName
  <2>1. pc = "proc_name" /\ Base!Accepted
    BY <1>5 DEF Base!ProcName, Base!Consume
  <2>2. /\ 18 + 2 * AddrLen + NameLen <= Len(buf) /\ off = 18 + 2 * AddrLen
        /\ 18 + 2 * AddrLen <= Len(buf)
    <3>1. 18 + 2 * AddrLen + NameLen <= Len(buf) /\ off = 18 + 2 * AddrLen
      BY <1>a, <2>1 DEF BaseFrom, BaseTo
    <3> QED BY <1>a, <2>1, <3>1
  <2>3. Base!Byte(off - 1) = NameLen
    <3>1. off - 1 = 17 + 2 * AddrLen
      BY <1>a, <2>1, <2>2
    <3> QED BY <2>2, <3>1, BaseReads
  <2>4. Base!Slice(off, off + NameLen) = sent.procName
    BY <2>2, BaseReads
  <2>5. ctx' = [ctx EXCEPT !.procName = sent.procName]
    BY <1>5, <2>3, <2>4 DEF Base!ProcName
  <2>6. /\ ctx \in Base!ParseCtx /\ HasAddress(ctx) /\ HasFixed(ctx)
        /\ Base!Decodable(sent)
    BY <1>s, <2>1 DEF BaseSoFar
  <2>7. ctx' \in Base!ParseCtx /\ HasAddress(ctx') /\ HasFixed(ctx') /\ HasName(ctx')
    BY <1>p, <1>t, <2>5, <2>6 DEF HasAddress, HasFixed, HasName
  <2>8. Base!Consume(pc, "flow_id", Base!Need)
    BY <1>5, <2>1 DEF Base!ProcName, Base!Consume, Base!Need
  <2>9. BaseFrom' = BaseTo
    BY <2>1, <2>8 DEF Base!Consume, BaseFrom, BaseTo, AddrLen, NameLen
  <2> QED BY <2>1, <2>6, <2>7, <2>8, <2>9, BaseConsumed DEF Base!Fields
<1>6. CASE Base!FlowID
  <2>1. pc = "flow_id" /\ Base!Accepted
    BY <1>6 DEF Base!FlowID, Base!Consume
  <2>2. 26 + 2 * AddrLen + NameLen <= Len(buf) /\ off = 18 + 2 * AddrLen + NameLen
    BY <1>a, <2>1 DEF BaseFrom, BaseTo
  <2>3. Base!Slice(off, off + 8) = sent.flowID
    BY <2>2, BaseReads
  <2>4. ctx' = [ctx EXCEPT !.flowID = sent.flowID]
    BY <1>6, <2>3 DEF Base!FlowID
  <2>5. /\ ctx \in Base!ParseCtx /\ HasAddress(ctx) /\ HasFixed(ctx) /\ HasName(ctx)
        /\ Base!Decodable(sent)
    BY <1>s, <2>1 DEF BaseSoFar
  <2>6. /\ ctx' \in Base!ParseCtx /\ HasAddress(ctx') /\ HasFixed(ctx')
        /\ HasName(ctx') /\ HasFlow(ctx')
    BY <1>p, <1>t, <2>4, <2>5 DEF HasAddress, HasFixed, HasName, HasFlow
  <2>7. Base!Consume(pc, "buf_size", Base!Need)
    BY <1>6, <2>1 DEF Base!FlowID, Base!Consume, Base!Need
  <2>8. BaseFrom' = BaseTo
    BY <2>1, <2>7 DEF Base!Consume, BaseFrom, BaseTo, AddrLen, NameLen
  <2> QED BY <2>1, <2>5, <2>6, <2>7, <2>8, BaseConsumed DEF Base!Fields
<1>7. CASE Base!BufferSize
  <2>1. /\ pc = "buf_size" /\ Base!Accepted /\ pc' = "done"
        /\ off' = off + 2 /\ touched' = off + 2 /\ UNCHANGED <<sent, buf>>
    BY <1>7 DEF Base!BufferSize, Base!Consume
  <2>2. /\ BaseSize <= Len(buf) /\ off = 26 + 2 * AddrLen + NameLen
        /\ off + 2 = BaseSize /\ off \in Nat /\ BaseSize \in Nat
    <3>1. BaseSize <= Len(buf) /\ off = 26 + 2 * AddrLen + NameLen
      BY <1>a, <2>1 DEF BaseFrom, BaseTo
    <3>2. Base!Need = 2 /\ off + Base!Need = BaseSize
      BY <2>1, BaseBounds DEF Base!Need, BaseTo
    <3> QED BY <2>1, <3>1, <3>2, BaseBounds
  <2>3. Base!BigEndian16(off) = sent.bufSize
    <3>1. 28 + 2 * AddrLen + NameLen <= Len(buf)
      BY <2>2 DEF BaseSize
    <3> QED BY <2>2, <3>1, BaseReads
  <2>4. ctx' = [ctx EXCEPT !.bufSize = sent.bufSize]
    BY <1>7, <2>3 DEF Base!BufferSize
  <2>5. /\ ctx \in Base!ParseCtx /\ HasAddress(ctx) /\ HasFixed(ctx) /\ HasName(ctx)
        /\ HasFlow(ctx) /\ Base!Decodable(sent)
    BY <1>s, <2>1 DEF BaseSoFar
  <2>6. /\ ctx' \in Base!ParseCtx /\ HasAddress(ctx') /\ HasFixed(ctx')
        /\ HasName(ctx') /\ HasFlow(ctx') /\ ctx'.bufSize = sent.bufSize
    BY <1>p, <1>t, <2>4, <2>5 DEF HasAddress, HasFixed, HasName, HasFlow
  <2>7. ctx' = sent
    <3>1. sent \in Base!Context
      BY <1>s DEF Base!Encodable
    <3>2. ctx' = [ srcIP |-> ctx'.srcIP, dstIP |-> ctx'.dstIP, srcPort |-> ctx'.srcPort,
                   dstPort |-> ctx'.dstPort, l4 |-> ctx'.l4, l7 |-> ctx'.l7,
                   ebpfType |-> ctx'.ebpfType, time |-> ctx'.time,
                   direction |-> ctx'.direction, procName |-> ctx'.procName,
                   flowID |-> ctx'.flowID, bufSize |-> ctx'.bufSize ]
      BY <2>6 DEF Base!ParseCtx
    <3>3. sent = [ srcIP |-> sent.srcIP, dstIP |-> sent.dstIP, srcPort |-> sent.srcPort,
                   dstPort |-> sent.dstPort, l4 |-> sent.l4, l7 |-> sent.l7,
                   ebpfType |-> sent.ebpfType, time |-> sent.time,
                   direction |-> sent.direction, procName |-> sent.procName,
                   flowID |-> sent.flowID, bufSize |-> sent.bufSize ]
      BY <3>1 DEF Base!Context
    <3> QED BY <2>6, <3>2, <3>3 DEF HasAddress, HasFixed, HasName, HasFlow
  <2>8. Base!DecodesWhatWasSent'
    BY <1>s, <2>1, <2>2, <2>5, <2>7 DEF Base!DecodesWhatWasSent, Base!Decodable
  <2>9. Base!TypeOK' /\ Base!InBounds'
    BY <2>1, <2>2, <2>6 DEF BaseInv, Base!TypeOK, Base!InBounds
  <2> QED
    BY <1>s, <2>1, <2>8, <2>9 DEF BaseInv, BaseParts, BaseSize, AddrLen, NameLen
<1>8. CASE UNCHANGED Base!vars
  <2>1. UNCHANGED <<sent, buf, pc, off, ctx, touched>>
    BY <1>8 DEF Base!vars
  <2> QED
    BY <2>1 DEF BaseInv, BaseSoFar, BaseParts, BaseSize, BaseFrom, AddrLen, NameLen,
       HasAddress, HasFixed, HasName, HasFlow, Base!Decodable, Base!Encodable,
       Base!TypeOK, Base!InBounds, Base!DecodesWhatWasSent
<1> QED BY <1>1, <1>2, <1>3, <1>4, <1>5, <1>6, <1>7, <1>8 DEF Base!Next

------------------------------------------------------------------------------
(* The four side by side *)

Inv ==
  /\ decoder \in {"base", "http_req", "http_resp", "custom_message"}
  /\ decoder = "base"           => BaseInv
  /\ decoder = "http_req"       => ReqInv
  /\ decoder = "http_resp"      => RespInv
  /\ decoder = "custom_message" => MsgInv

LEMMA InitInv == Init => Inv
  BY InitBase, InitReq, InitResp, InitMsg DEF Init, Inv

LEMMA StepInv == Inv /\ [Next]_vars => Inv'
<1> SUFFICES ASSUME Inv, [Next]_vars PROVE Inv'
  OBVIOUS
<1>1. decoder' = decoder
  BY DEF Next, vars
<1>2. ASSUME decoder = "base" PROVE BaseInv'
  <2>1. [Base!Next]_(Base!vars)
    BY <1>2 DEF Next, vars, Base!vars
  <2> QED BY <1>2, <2>1, StepBase DEF Inv
<1>3. ASSUME decoder = "http_req" PROVE ReqInv'
  <2>1. [Req!Next]_(Req!vars)
    BY <1>3 DEF Next, vars, Req!vars
  <2> QED BY <1>3, <2>1, StepReq DEF Inv
<1>4. ASSUME decoder = "http_resp" PROVE RespInv'
  <2>1. [Resp!Next]_(Resp!vars)
    BY <1>4 DEF Next, vars, Resp!vars
  <2> QED BY <1>4, <2>1, StepResp DEF Inv
<1>5. ASSUME decoder = "custom_message" PROVE MsgInv'
  <2>1. [Msg!Next]_(Msg!vars)
    BY <1>5 DEF Next, vars, Msg!vars
  <2> QED BY <1>5, <2>1, StepMsg DEF Inv
<1> QED BY <1>1, <1>2, <1>3, <1>4, <1>5 DEF Inv

THEOREM DecoderInvariant == Spec => []Inv
  BY InitInv, StepInv, PTL DEF Spec

\* The four decoders build what their Go types can hold, with codes the SDK
\* knows only (serde.go:79-329).
THEOREM DecodersTypeCorrect == Spec => []TypeOK
<1>1. Inv => TypeOK
  BY DEF Inv, TypeOK, BaseInv, ReqInv, RespInv, MsgInv
<1> QED BY <1>1, DecoderInvariant, PTL

\* No decoder of a host buffer reads past the bytes that arrived, whatever was
\* sent and wherever it is cut (serde.go:79-329).
THEOREM DecodersInBounds == Spec => []InBounds
<1>1. Inv => InBounds
  BY DEF Inv, InBounds, BaseInv, ReqInv, RespInv
<1> QED BY <1>1, DecoderInvariant, PTL

\* Every context, request, response and custom message an agent can encode
\* arrives as it was sent or is refused: nothing between (serde.go:79-329).
THEOREM DecodersAreFaithful == Spec => []DecodesWhatWasSent
<1>1. Inv => DecodesWhatWasSent
  BY DEF Inv, DecodesWhatWasSent, BaseInv, ReqInv, RespInv, MsgInv
<1> QED BY <1>1, DecoderInvariant, PTL

\* A custom message panics for the ten lengths that wrap the sum and for no
\* other, for every size of the page and of the word (serde.go:222-226).
THEOREM PanicOnlyWhenWrapped == Spec => []PanicsOnlyOnWrap
<1>1. Inv => PanicsOnlyOnWrap
  BY DEF Inv, PanicsOnlyOnWrap, MsgInv
<1> QED BY <1>1, DecoderInvariant, PTL

==============================================================================
