------------------------ MODULE CustomMessageDecoder ------------------------
(***************************************************************************)
(* deserializeCustomMessageCtx (sdk/serde.go): a header of ten bytes whose *)
(* last field, a uint32, is the length of the payload behind it, and the   *)
(* check of that length, which is computed in uint32 and wraps.            *)
(*                                                                         *)
(* The header is read whole once it has arrived, so a message is its fields*)
(* and a count of arrived bytes; the bytes behind those are zeros of the   *)
(* CUSTOM_MESSAGE_BUF_SIZE array the slice is taken from.  2^32 is the     *)
(* constant Word.                                                          *)
(***************************************************************************)
EXTENDS Integers, Sequences

CONSTANTS
  Nil,       \* Go's nil
  Sent,      \* the messages an agent may send
  PageSize,  \* CUSTOM_MESSAGE_BUF_SIZE, the capacity of the slice
  Word       \* the values of a uint32

HeaderLen == 10

\* The sizes that matter keep their order.
SizesOk ==
  /\ PageSize \in Nat /\ Word \in Nat
  /\ HeaderLen <= PageSize /\ PageSize < Word

\* The length field says what the agent wants it to; the payload must fit.
Encodable(m) ==
  /\ m.length \in 0..Word - 1
  /\ m.payload \in Seq(Nat) /\ Len(m.payload) <= PageSize - HeaderLen

VARIABLES
  sent,     \* what the agent encoded (a history variable)
  arrived,  \* how many bytes of it the host gave, or one too many
  baseOk,   \* does the base context decode?
  pc,       \* "decode", "done" or, after a panic, "trap"
  ctx       \* the CustomMessageCtx without its base, or Nil

vars == <<sent, arrived, baseOk, pc, ctx>>

TypeOK ==
  /\ sent \in Sent
  /\ arrived \in 0..PageSize
  /\ baseOk \in BOOLEAN
  /\ pc \in {"decode", "done", "trap"}
  /\ ctx = Nil \/ /\ ctx.payload \in Seq(Nat)
                  /\ Len(ctx.payload) <= PageSize - HeaderLen

\* The host cannot give more than the array holds.
Init ==
  /\ sent \in {m \in Sent : Encodable(m)}
  /\ arrived \in 0..HeaderLen + Len(sent.payload) + 1
  /\ arrived <= PageSize
  /\ baseOk \in BOOLEAN
  /\ pc = "decode"
  /\ ctx = Nil

------------------------------------------------------------------------------
\* Byte k, counted from 1, of the array behind its header.
Body(k) ==
  IF k <= Len(sent.payload) /\ HeaderLen + k <= arrived THEN sent.payload[k] ELSE 0

\* A mutant: the length is held against the buffer without its header.
PastTheHeader == sent.length > arrived

\* len+10 > uint32(msgBufLen)
TooLong == (sent.length + HeaderLen) % Word > arrived

\* The high bound of CustomMessageBuf[10 : 10+len], a uint32 as well.
High == (sent.length + HeaderLen) % Word

\* What Go demands of a slice expression: low <= high <= capacity.
SliceOk == HeaderLen <= High /\ High <= PageSize

\* A mutant: a header may lack its last byte.
HeaderPresentOff == arrived >= HeaderLen - 1

HeaderPresent == arrived >= HeaderLen

Refuse ==
  /\ pc = "decode"
  /\ ~HeaderPresent \/ ~baseOk \/ TooLong
  /\ pc' = "done"
  /\ UNCHANGED <<sent, arrived, baseOk, ctx>>

Read ==
  /\ pc = "decode"
  /\ HeaderPresent /\ baseOk /\ ~TooLong /\ SliceOk
  /\ pc' = "done"
  /\ ctx' = [ hook |-> sent.hook, type |-> sent.type,
              payload |-> [k \in 1..High - HeaderLen |-> Body(k)] ]
  /\ UNCHANGED <<sent, arrived, baseOk>>

Panic ==
  /\ pc = "decode"
  /\ HeaderPresent /\ baseOk /\ ~TooLong /\ ~SliceOk
  /\ pc' = "trap"
  /\ UNCHANGED <<sent, arrived, baseOk, ctx>>

Next == Refuse \/ Read \/ Panic

Spec == Init /\ [][Next]_vars

------------------------------------------------------------------------------
(* Properties *)

\* The slice expression panics for the ten lengths that wrap the sum around
\* and for no other: not for a payload cut short, not for an empty one, not
\* for one that fills the buffer (serde.go:222-226).
PanicsOnlyOnWrap ==
  pc = "trap" <=> /\ pc # "decode" /\ arrived >= HeaderLen /\ baseOk
                  /\ sent.length >= Word - HeaderLen

\* What the parser sees is what was sent, as long as the length says, and
\* never the array's zeros behind the message (serde.go:219-226).
NothingPastTheMessage ==
  ctx # Nil =>
    /\ ctx.hook = sent.hook /\ ctx.type = sent.type
    /\ Len(ctx.payload) = sent.length
    /\ HeaderLen + sent.length <= arrived
    /\ \A k \in DOMAIN ctx.payload \cap DOMAIN sent.payload :
         ctx.payload[k] = sent.payload[k]

==============================================================================
