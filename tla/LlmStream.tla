------------------------------ MODULE LlmStream ------------------------------
(***************************************************************************)
(* The LLM streaming plugin (example/http_streaming_llm/llm.go): what it   *)
(* keeps for each flow between the calls of OnParsePayload, and the        *)
(* latencies it reports when a chunked answer ends.                        *)
(*                                                                         *)
(* A payload is reduced to the lines ReadLine finds in it: the first is a  *)
(* status line, the "0" of the last chunk or the size of a chunk; of the   *)
(* second only the length counts, and of the third whether there is one.   *)
(* Messages of a flow may be missing, and chunks come as they are cut.     *)
(***************************************************************************)
EXTENDS Integers

CONSTANTS
  Nil,        \* Go's nil: no entry in the map
  Flows,      \* flow ids
  MaxTime,    \* the last time a message has (a bound)
  MaxTokens,  \* the most bytes an entry counts (a bound)
  LineLens,   \* the lengths of a data line
  Word        \* 2^64, where uint64 wraps

VARIABLES
  httpStream,  \* the map, Nil for a flow that has no entry
  now,         \* the time of the last message
  answer,      \* how the last call ended
  report,      \* ttft, tpot and tokens if it reported, else Nil
  traffic,     \* the answer in progress on each flow (a history variable)
  expected     \* ttft and tokens an ended answer should report, else Nil (a
               \* history variable)

vars == <<httpStream, now, answer, report, traffic, expected>>

Times == 0..MaxTime
Tokens == 0..MaxTokens

StreamInfo == [ reqTime: Times, respFirstChunkedTime: Times,
                totalToken: Tokens, flag: {0, 1} ]

Report == [ttft: 0..Word-1, tpot: 0..Word-1, tokens: Tokens]

Expected == [ttft: 0..Word-1, tokens: Tokens]

LlmAssumption ==
  /\ MaxTime \in Nat /\ MaxTokens \in Nat /\ LineLens \subseteq Nat
  /\ Word \in Nat /\ MaxTime < Word /\ MaxTokens < Word
  /\ Nil \notin Times \cup StreamInfo \cup Report

\* &StreamInfo{}
NoTime == [reqTime |-> 0, respFirstChunkedTime |-> 0, totalToken |-> 0, flag |-> 0]

\* What an observer who forgets nothing knows: the request of the answer that
\* is under way, its first chunk and its bytes.  clean: no other answer was
\* under way on the flow when this request came.
Traffic == [ req: Times \cup {Nil}, first: Times \cup {Nil},
             tokens: Tokens, clean: BOOLEAN ]

Quiet == [req |-> Nil, first |-> Nil, tokens |-> 0, clean |-> TRUE]

TypeOK ==
  /\ httpStream \in [Flows -> StreamInfo \cup {Nil}]
  /\ now \in Times
  /\ answer \in {"next", "abort", "error", "trap"}
  /\ report \in Report \cup {Nil}
  /\ traffic \in [Flows -> Traffic]
  /\ expected \in Expected \cup {Nil}

Init ==
  /\ httpStream = [f \in Flows |-> Nil]
  /\ now = 0
  /\ answer = "next"
  /\ report = Nil
  /\ traffic = [f \in Flows |-> Quiet]
  /\ expected = Nil

------------------------------------------------------------------------------
\* Every message of a flow finds an entry or makes one.
Entry(f) == IF httpStream[f] = Nil THEN NoTime ELSE httpStream[f]

Put(f, entry) == httpStream' = [httpStream EXCEPT ![f] = entry]

At(t) == t \in now..MaxTime /\ now' = t

Passes == answer' = "next" /\ report' = Nil /\ expected' = Nil

\* The L7 of another plugin, or a payload that cannot be read.
NotMine == Passes /\ UNCHANGED <<httpStream, now, traffic>>

PayloadFails ==
  /\ answer' = "error"
  /\ report' = Nil /\ expected' = Nil
  /\ UNCHANGED <<httpStream, now, traffic>>

\* A request that http.ReadRequest understands.
Request(f, t) ==
  /\ At(t)
  /\ Put(f, [Entry(f) EXCEPT !.reqTime = t])
  /\ answer' = "abort" /\ report' = Nil /\ expected' = Nil
  /\ traffic' = [traffic EXCEPT ![f] =
       [Quiet EXCEPT !.req = t, !.clean = traffic[f].first = Nil /\ traffic[f].clean]]

\* A request that cannot be parsed, an empty payload, the status line of the
\* answer, or a size with nothing behind it.
NothingToCount(f, t) ==
  /\ At(t)
  /\ Put(f, Entry(f))
  /\ Passes
  /\ UNCHANGED traffic

Counts(f, n) == Entry(f).totalToken + n <= MaxTokens /\ traffic[f].tokens + n <= MaxTokens

Seen(f, t, n) ==
  [traffic[f] EXCEPT !.first = IF @ = Nil THEN t ELSE @, !.tokens = @ + n]

FirstChunk(f, t, n) ==
  /\ At(t)
  /\ Entry(f).flag = 0
  /\ Counts(f, n)
  /\ Put(f, [Entry(f) EXCEPT !.flag = 1, !.respFirstChunkedTime = t, !.totalToken = n])
  /\ Passes
  /\ traffic' = [traffic EXCEPT ![f] = Seen(f, t, n)]

\* A mutant: the bytes of the last chunk replace the sum.
NextChunkReplacing(f, t, n) ==
  /\ At(t)
  /\ Entry(f).flag = 1
  /\ Counts(f, n)
  /\ Put(f, [Entry(f) EXCEPT !.totalToken = n])
  /\ Passes
  /\ traffic' = [traffic EXCEPT ![f] = Seen(f, t, n)]

NextChunk(f, t, n) ==
  /\ At(t)
  /\ Entry(f).flag = 1
  /\ Counts(f, n)
  /\ Put(f, [Entry(f) EXCEPT !.totalToken = @ + n])
  /\ Passes
  /\ traffic' = [traffic EXCEPT ![f] = Seen(f, t, n)]

\* No third line: the answer counts as over, but is not reported.
LastLine(f, t, n) ==
  /\ At(t)
  /\ Entry(f).flag = 1
  /\ Counts(f, n)
  /\ Put(f, Nil)
  /\ Passes
  /\ traffic' = [traffic EXCEPT ![f] = Quiet]

\* The answer under way on f, as it should be reported.  An answer that had no
\* request, or whose flow had another still open, is not judged, and the time
\* per token is not either: line 17 of llm.go defines it with one token less
\* than line 155 divides by.
Whole(f) == LET a == traffic[f] IN
  a.clean /\ a.req # Nil /\ a.first # Nil /\ a.tokens > 0

Truth(f) == LET a == traffic[f] IN
  [ttft |-> a.first - a.req, tokens |-> a.tokens]

\* uint64 subtraction.
Minus(a, b) == (a - b) % Word

ReportOf(e, t) ==
  [ ttft |-> Minus(e.respFirstChunkedTime, e.reqTime),
    tpot |-> Minus(t, e.respFirstChunkedTime) \div e.totalToken,
    tokens |-> e.totalToken ]

\* A mutant: the entry survives its report.
EndKeeping(f, t) ==
  /\ At(t)
  /\ Entry(f).totalToken > 0
  /\ Put(f, Entry(f))
  /\ answer' = "abort"
  /\ report' = ReportOf(Entry(f), t)
  /\ expected' = IF Whole(f) THEN Truth(f) ELSE Nil
  /\ traffic' = [traffic EXCEPT ![f] = Quiet]

\* The "0" of the last chunk.
End(f, t) ==
  /\ At(t)
  /\ Entry(f).totalToken > 0
  /\ Put(f, Nil)
  /\ answer' = "abort"
  /\ report' = ReportOf(Entry(f), t)
  /\ expected' = IF Whole(f) THEN Truth(f) ELSE Nil
  /\ traffic' = [traffic EXCEPT ![f] = Quiet]

\* The division by totalToken; the entry the call made or found stays.
EndWithoutTokens(f, t) ==
  /\ At(t)
  /\ Entry(f).totalToken = 0
  /\ Put(f, Entry(f))
  /\ answer' = "trap"
  /\ report' = Nil
  /\ expected' = IF Whole(f) THEN Truth(f) ELSE Nil
  /\ traffic' = [traffic EXCEPT ![f] =
       [Quiet EXCEPT !.clean = Entry(f).flag = 0]]

OnParsePayload(f, t) ==
  \/ Request(f, t)
  \/ NothingToCount(f, t)
  \/ \E n \in LineLens : FirstChunk(f, t, n) \/ NextChunk(f, t, n) \/ LastLine(f, t, n)
  \/ End(f, t)
  \/ EndWithoutTokens(f, t)

Next == NotMine \/ PayloadFails \/ \E f \in Flows, t \in Times : OnParsePayload(f, t)

Spec == Init /\ [][Next]_vars

------------------------------------------------------------------------------
(* Properties *)

\* An answer with some data, on a flow whose earlier answers had all ended, is
\* reported when it ends, with its own time to the first token (llm.go:16) and
\* all its bytes: nothing of an earlier answer and nothing of another flow is
\* in the report, and the call does not panic (llm.go:113-190).
ReportIsOfItsAnswer ==
  expected # Nil =>
    report # Nil /\ report.ttft = expected.ttft /\ report.tokens = expected.tokens

\* An entry that has counted something belongs to an answer that is under way:
\* what an ended answer left behind is not the start of the next (llm.go:172,
\* 195).
EntriesAreOpen ==
  \A f \in Flows :
    httpStream[f] # Nil /\ httpStream[f].flag = 1 /\ traffic[f].clean
      => traffic[f].first = httpStream[f].respFirstChunkedTime

\* "TTFT = respFirstChunkedTime - reqTime", the delay from the input to the
\* first token (llm.go:16): never more than the time that has passed.
TtftIsADelay == report # Nil => report.ttft <= now

==============================================================================
