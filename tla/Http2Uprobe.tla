----------------------------- MODULE Http2Uprobe -----------------------------
(***************************************************************************)
(* OnParsePayload of the Go HTTP/2 uprobe plugin                           *)
(* (example/go_http2_uprobe/go_http2_uprobe.go) with parseHeader and       *)
(* parseData: records whose little-endian 32-bit lengths become Go ints of *)
(* 32 bits, as WebAssembly has them, and bound the slices taken.           *)
(*                                                                         *)
(* A payload is its length, the capacity of the slice GetPayload made and  *)
(* its two length fields; what is cut out of it is a pair of offsets.      *)
(***************************************************************************)
EXTENDS Integers

CONSTANTS
  Word,      \* 2^32, an even number
  Lengths,   \* the values of a length field
  MaxHave    \* the longest payload (a bound)

Half == Word \div 2

UprobeAssumption ==
  /\ Word \in Nat /\ MaxHave \in Nat /\ Word = 2 * Half /\ MaxHave + 32 < Half
  /\ Lengths \subseteq 0..Word - 1

VARIABLES
  kind,    \* "header", "data" or "neither", the EbpfType, or "other" with an
           \* L7 that is not ours
  rec,     \* the payload
  result   \* what came of it

vars == <<kind, rec, result>>

Record == [keyLen: Lengths, valLen: Lengths, have: 0..MaxHave, cap: 0..MaxHave + 1]

Offsets == (0..MaxHave) \X (0..MaxHave)

Result ==
  [tag: {"running", "next", "unread", "error", "trap"}]
    \cup [tag: {"header", "badStatus"}, key: Offsets, val: Offsets]
    \cup [tag: {"data", "undecodable"}, data: Offsets]

Kinds == {"header", "data", "neither", "other"}

TypeOK ==
  /\ kind \in Kinds
  /\ rec \in Record
  /\ result \in Result

Outcome(tag) == [tag |-> tag]

\* vm_read_payload may fill the slice or leave some of it.
Init ==
  /\ kind \in Kinds
  /\ rec \in {r \in Record : r.cap \in r.have..r.have + 1}
  /\ result = Outcome("running")

------------------------------------------------------------------------------
\* int(uint32), and a sum that wraps.
Signed(n) == IF n < Half THEN n ELSE n - Word
Wrap(n) == Signed(n % Word)

\* What Go demands of payload[low:high]; high may pass len but not cap.
SliceOk(low, high) == 0 <= low /\ low <= high /\ high <= rec.cap

keyLen == Signed(rec.keyLen)
valLen == Signed(rec.valLen)

\* A mutant: the header itself is not counted.
HeaderFitsWithout16 == keyLen >= 0 /\ Wrap(keyLen + valLen) <= rec.have

\* keyLen < 0 twice, valLen < 0 never.
HeaderFits == keyLen >= 0 /\ Wrap(keyLen + valLen + 16) <= rec.have

Key == <<16, Wrap(16 + keyLen)>>
Val == <<Wrap(16 + keyLen), Wrap(16 + keyLen + valLen)>>

\* onHeader takes any key; the value of :status may be no number.
ParseHeader ==
  /\ kind = "header"
  /\ result.tag = "running"
  /\ \/ /\ rec.have < 16 \/ ~HeaderFits
        /\ result' = Outcome("error")
     \/ /\ rec.have >= 16 /\ HeaderFits
        /\ \/ /\ ~(SliceOk(Key[1], Key[2]) /\ SliceOk(Val[1], Val[2]))
              /\ result' = Outcome("trap")
           \/ /\ SliceOk(Key[1], Key[2]) /\ SliceOk(Val[1], Val[2])
              /\ \E tag \in {"header", "badStatus"} :
                   result' = [tag |-> tag, key |-> Key, val |-> Val]
  /\ UNCHANGED <<kind, rec>>

\* A data record has one length, for which the second field stands.
dataLen == Signed(rec.valLen)

\* A mutant: the length of the fixed part is checked with the fields alone.
DataLongEnoughOff == rec.have >= 8

DataLongEnough == rec.have >= 13

DataFits == dataLen >= 5 /\ Wrap(dataLen + 8) <= rec.have

Data == <<13, rec.have>>

\* The protobuf behind the prefix decodes or it does not.
ParseData ==
  /\ kind = "data"
  /\ result.tag = "running"
  /\ \/ /\ ~DataLongEnough \/ ~DataFits
        /\ result' = Outcome("error")
     \/ /\ DataLongEnough /\ DataFits
        /\ \/ ~SliceOk(Data[1], Data[2]) /\ result' = Outcome("trap")
           \/ /\ SliceOk(Data[1], Data[2])
              /\ \E tag \in {"data", "undecodable"} :
                   result' = [tag |-> tag, data |-> Data]
  /\ UNCHANGED <<kind, rec>>

Passes == result.tag = "running" /\ result' = Outcome("next") /\ UNCHANGED <<kind, rec>>

NotOurs == kind = "other" /\ Passes

\* Asked only after the payload was read.
NoSuchRecord == kind = "neither" /\ Passes

\* GetPayload's error.
PayloadFails ==
  /\ kind # "other"
  /\ result.tag = "running"
  /\ result' = Outcome("unread")
  /\ UNCHANGED <<kind, rec>>

Next == NotOurs \/ PayloadFails \/ ParseHeader \/ ParseData \/ NoSuchRecord

Spec == Init /\ [][Next]_vars

------------------------------------------------------------------------------
(* Properties *)

\* Key and value are the bytes behind the sixteen of the record, one after the
\* other and inside the payload, so no byte that did not arrive is reported
\* (go_http2_uprobe.go:164-171).
KeyAndValueArrived ==
  result.tag \in {"header", "badStatus"} =>
    /\ result.key = <<16, 16 + rec.keyLen>>
    /\ result.val = <<16 + rec.keyLen, 16 + rec.keyLen + rec.valLen>>
    /\ result.val[2] <= rec.have

\* A header with lengths that fit its payload is never refused, only a value
\* length the check forgets or a sum that overflows panics, and a data record
\* never does, though its length is not what bounds the slice
\* (go_http2_uprobe.go:165-192).
OnlyBadLengthsPanic ==
  /\ result.tag = "trap" =>
       kind = "header" /\ (rec.valLen >= Half \/ rec.keyLen + rec.valLen + 16 >= Half)
  /\ result.tag = "error" /\ kind = "header" =>
       rec.keyLen + rec.valLen + 16 > rec.have

==============================================================================
