# Verification of the DeepFlow WebAssembly plugin SDK

This directory holds TLA+ models of `deepflow-wasm-go-sdk`, the configurations
that check them with TLC and the theorems about them that TLAPS checks. Paths in
this text are relative to `src/`.

## 1. The system and its parts

A plugin is a Go program compiled to WebAssembly and loaded into the DeepFlow
agent. It calls `SetParser` once. From then on the agent calls the functions the
SDK exports; each of them reads what the agent knows of a message through
imported host functions, calls one method of the parser, and hands the result
back through another host function. An instance runs one call at a time: inside
a plugin there is no concurrency. The order of the calls, the bytes they see and
the plugins that share a message are the agent's choice.

| part | source | state | operations |
|---|---|---|---|
| exported handlers | `sdk/abi_export.go` | none of their own; one call's buffers | `on_http_req`, `on_http_resp`, `on_custom_message`, `check_payload`, `parse_payload`, `get_hook_bitmap`, `get_custom_message_hook` |
| imported host functions | `sdk/abi_import.go` (bodies in the agent) | the message the agent is working on | `vm_read_*`, `host_read_l7_protocol_info`, `host_read_str_result`, `wasm_log` |
| parser and actions | `sdk/parser.go` | `vmParser`; what a plugin's parser keeps | `SetParser`, seven `Action` constructors, `DefaultParser`'s methods with its NATS dispatch, the hook bits |
| context of a message | `sdk/host.go` | `ParseCtx.payload`, a cache | `GetPayload` |
| decoders | `sdk/serde.go:79-329` | an offset and a context under construction | `deserializeParseCtx`, `…HttpReqCtx`, `…HttpRespCtx`, `…CustomMessageCtx` |
| serialiser | `sdk/serde.go:331-458` | an output buffer of one page and an offset | `serializeL7ProtocolInfo` |
| wire messages | `sdk/WasmPluginApi.proto`, `sdk/pb/WasmPluginApi_vtproto.pb.go` (generated) | a decoder's position and the message it fills | `SizeVT`, `MarshalVT`, `MarshalVTStrict`, `UnmarshalVT`, `UnmarshalVTUnsafe`, `EqualVT`, `CloneVT` of seven messages |
| message types | `sdk/pb/WasmPluginApi.pb.go` (generated) | none | accessors, reflection |
| logging | `sdk/log.go` | none | one host call |
| example plugins | `example/*` | `nats`: a table of calls; `http_streaming_llm`: a table of flows; the others none | their parsers |
| code generator of the NATS example | `example/nats/protoc-gen-demo` | a lookup in progress | `lookupMessageType`, `getGoType`, `getGoPackage` |

How they interact: the agent *calls* the handlers (no shared memory except the
buffers passed to host functions); a handler *calls back* into the parser; the
parser may call `GetPayload`, which calls the host; a handler and a parser
*share* the objects inside the `Action` the parser returns, which matters for
`on_http_resp`, the one handler that writes into them. Several plugins share a
message only through the agent, which goes on to the next plugin when a call
answers false. The generated marshalling stands at both ends: a result is sized
and marshalled into the serialiser's page (`sdk/serde.go:441-449`), and a NATS or
ZMTP message, encoded by the agent, is decoded from the bytes the plugin was
handed (`sdk/parser.go:142`, `example/zmtp/zmtp.go`).

What is hard here:

- **steps in the middle of a call**: a host call may refuse, bytes may not
  decode, a parser may return nil, an error, nothing, too much, or panic. Every
  early return must give an answer that fits what has been handed over so far.
- **data shared between calls**: the payload cache within a call, and a
  parser's own objects across calls.
- **boundaries**: a page of output with 16-bit frame lengths, truncated input
  at every offset, 32-bit sums, the two bytes of `check_payload`'s answer, the
  order of bits in the hook bitmap, varints wider than their field, sizes
  computed in one pass and used in another.
- **errors that are ignored**: a NATS message that decodes only half is handed
  to the plugin all the same, and a krpc header that is cut is read as far as it
  goes.
- **traversal**: with several plugins, exactly the ones that asked must be
  called, and at most one may answer.

There is nothing persisted, no timer, no retry and no second thread, so crash
recovery, timeouts and data races are not hazards of this code. A panic of an
instance is (the action `Panic`, the answer `"trap"`).

### What makes each part correct

- handlers: a call that handed over a result stops the traversal; the host gets
  what the parser returned, unchanged except for the status of an HTTP response;
  every call ends; a plugin that does not override a method stays out.
- `GetPayload`: one call sees one payload.
- decoders: no read past the end; the context is what was sent or there is none.
- serialiser: the frames tile the bytes; nothing behind the buffer; all infos or
  none; the half of a two-sided info that goes out follows the direction.
- traversal: one result per message, only plugins that asked, none forgotten.
- wire messages: what is marshalled takes the bytes that were counted, decodes
  to what was sent, and of a cut message only whole fields are seen.
- example plugins: what is reported of an answer is that answer's own; a request
  is not reported as a response; a failure never passes for a success, nor a
  success for a failure; bytes that did not arrive are not reported.
- code generator: a reference is resolved to the message it names.

## 2. Modules

| module | models | used by |
|---|---|---|
| `L7Info` | the data: `L7ProtocolInfo`, its image `AppInfo`, the mapping between them, and `Serialized`, the whole serialiser as a function | `L7Framing`, `PluginExports` |
| `L7Framing` | `serializeL7ProtocolInfo` as a loop, one info per step, with offsets and frames | |
| `HookCall` | the abstract promise of an exported function: a call is answered once, stops the traversal if it handed anything over, and ends | `PluginExports` (refinement), `PluginChain` (composition) |
| `PluginExports` | all five message handlers, the parser behind them, `GetPayload`, actions | |
| `PluginChain` | the agent's traversal over several plugins, each an instance of `HookCall`, and `get_hook_bitmap` | |
| `ParseCtxDecoder` | `deserializeParseCtx`, one step per length check | `ContextDecoders` |
| `HttpReqDecoder` | `deserializeHttpReqCtx`, one step per string | `ContextDecoders` |
| `HttpRespDecoder` | `deserializeHttpRespCtx` with the optional endpoint | `ContextDecoders` |
| `CustomMessageDecoder` | `deserializeCustomMessageCtx` with its uint32 sum | `ContextDecoders` |
| `ContextDecoders` | the four decoders side by side, one call of one of them in each behaviour | |
| `VtMessages` | the generated messages: `SizeVT`, the two writers, `EqualVT`, varints | `VtUnmarshal` |
| `VtUnmarshal` | `UnmarshalVT` and `UnmarshalVTUnsafe` as a loop over fields in a buffer, nested calls included, then `CloneVT` | |
| `LlmStream` | the plugin of `example/http_streaming_llm`: the table of flows its `OnParsePayload` keeps between calls | `Examples` |
| `StatusRewrite` | `onResp` of `example/http_status_rewrite`: which code and status a response is reported with | `Examples` |
| `Http2Uprobe` | `OnParsePayload`, `parseHeader` and `parseData` of `example/go_http2_uprobe` | `Examples` |
| `FlowPlugins` | `OnCheckPayload` and `OnParsePayload` of `example/krpc` and `example/dns`, with the flow the agent lets them claim | `Examples` |
| `NatsCalls` | `OnNatsMessage` of `example/nats`, with its table of calls | `Examples` |
| `MessagePlugins` | the parsers of `example/dubbo`, `example/zmtp` and `example/http`, one message a call | `Examples` |
| `GenDemo` | `getGoType` with `lookupMessageType` and `getGoPackage` of `example/nats/protoc-gen-demo` | `Examples` |
| `Examples` | the seven modules above side by side, one plugin in each behaviour | |
| `Foundations` | induction and recursion over the natural numbers and along a rank, remainders, and where a part of a sequence stands in it: what the proofs share | `*_proofs` |
| `MC*` | values for the constants of the module of the same name | |
| `*_proofs` | the theorems about the module of the same name | |
| `VtRoundTrip_proofs` | the theorems about `VtUnmarshal` that relate messages to what is written of them: what is written is decoded, and it tells messages apart | |

Definitions keep the names of the code where they translate a function
(`SetParser`, `HostReadStrResult`, `HttpReqActionAbortWithResult`, `FlowID`); an
action is otherwise named for the path it takes through the handler (`NoParser`,
`CtxBaseRefused`, `NameRefused`), one action per early return. `PROJECT.json`
maps each to its lines. Definitions marked "a mutant" are the wrong versions that
show each property to notice a plausible bug; no specification uses them.

**State of `PluginExports`.** `vmParser` is the package variable, a parser being
the set of methods it overrides, whether its embedded `Parser` field was set
(`wired`) and whether it returns the same `Response` object every time
(`reuses`); `heldStatus` is the status field of that object, the only state of a
plugin that the SDK itself writes. `pc` and `hook` say where the running handler
stands. `ctx`, `payload`, `act`, `check` are its locals. `delivered` and `name`
are what the host accepted, `answer` and `code` the return value. `given` (the
action as the callback left it) and `seen` (the payloads `GetPayload` returned)
are history variables. The second context buffer is reduced to what a handler
looks at: the response status, and whether a custom message is a NATS message.

**The promise.** `PluginExports` is shown to implement `HookCall` with
`phase`, `handed` and `answer` computed from `pc`, `outputs` and the answer
(`Promise` at the end of the module). `PluginChain` then uses `HookCall` for each
plugin, so what it shows of the chain rests only on the promise, and what
`PluginExports` shows is that this SDK keeps it.

**State of `LlmStream`.** `httpStream` is the plugin's map, `Nil` standing for a
flow without an entry; an action is one path through `OnParsePayload`, named for
what the payload turned out to be (`FirstChunk`, `LastLine`, `End`), and every
one of them makes the entry the code makes at line 110. `traffic` and `expected`
are history variables: what an observer who saw the same messages knows of the
answer under way on each flow, and what the report should say when it ends. The
text of the payload is reduced to which lines `ReadLine` finds and how long the
second is, a token being what the code counts, a byte. `Expected` has the time
to the first token and the count of tokens, which the observer can judge; the
time per token is in the report and is not compared.

**State of `StatusRewrite` and `Http2Uprobe`.** Each is one call: inputs, then a
result. A body is what the server wrote for `OPT_STATUS`, whether the text begins
with `BODY_START`, and how much arrived. A uprobe payload is its length, the
capacity of its slice (which is what Go checks a slice expression against) and
its two length fields, of which a data record has one. `kind` is the record's
kind as far as the code asks for it: an L7 that is not the plugin's is passed on
before the payload is read (`NotOurs`), an `EbpfType` that is neither header nor
data only after it (`NoSuchRecord`), so that reading it may fail first.

**State of `VtUnmarshal`.** A message is a function from the names of the fields
it has to their values, so that a field with a nil pointer and one that is empty
differ; a oneof is one of its names. `buf` is what arrived, `iNdEx` the position,
`field` the tag just read. A field that is a message is decoded by a nested call
on a slice: `stack` holds the messages being filled and `ends` the end of each
slice, the `l` of each call. The loops of the seven messages differ only in what
a field number means, so there is one loop and a table per message (`Cases`).
Text decoded by the unsafe decoder is not bytes but places in `buf`, and
`Reuse` overwrites them, which is what shows the difference between the two
decoders and what a clone is good for; before the call returned there is no
`clone`. What a message struct can hold at all is `IsMessage` of `VtMessages`,
from the structs of `WasmPluginApi.pb.go`.

**State of `FlowPlugins`.** `claimant` is the end of the connection taken for the
client because it sent the packet `OnCheckPayload` accepted (`taken`); `packet`
and `report` are the last call. A krpc header is how many of its fields arrived,
in the order they are written, and whether it is sound; one that breaks inside
its trace may have set a trace id, one that is cut in front of it has none
(`traced`). A DNS packet is the few facts the code asks the DNS library for.

**State of `NatsCalls`.** `kv` is the plugin's table. `calls` is external, the
requests anybody published; `seen`, a history variable, those of them the plugin
saw with both subjects. Messages come in any order, more than once, or never,
and cut to their first fields.

**State of `MessagePlugins` and `GenDemo`.** A message of the first is what its
sender wrote and how much arrived, and its report; every early return is a
result. The generator walks a dotted name, a sequence of parts: `pkgpath` is the
package tried, `fd` the file found, `d` and `path` the part of the name looked up
and the rest. `Legal` says what protoc accepts, since it runs first. The
`go_package` of a file is the parts its semicolons make; `getGoType` ends with the
package of the file found (`Return`), or stops the generator if there are more
than two parts (`TooManyParts`).

**Abstractions.** Fields nothing looks at are an opaque `body` with an encoded
size. Log lines are left out. The agent's side (encoders, traversal, host
functions) is external: encoders follow the format comments in `sdk/serde.go`,
and host functions do anything their comments in `sdk/abi_import.go` allow,
except return more bytes than the buffer holds or a negative size where the
comment says that 0 means failure. The lists of infos hold no nil pointer: the
code would panic on one, and no constructor makes one.

**A page.** The serialiser's buffer and the custom message buffer are one page
of 65536 bytes, a constant of the model (`BufSize`, `PageSize`); the framing run
keeps the real 65536, because the boundary of the 16-bit length is what it is
about, and counts bytes instead of storing them. `CustomMessageDecoder` replaces
2^32 by the constant `Word`, since TLC's integers have 32 bits.

## 3. Runs

| run | module, configuration | question |
|---|---|---|
| `framing` | `MCL7Framing`, `L7Framing.cfg` | Is the output of the serialiser well formed at the edges of the buffer? `FramesTile`, `WritesInBuffer`, `AllOrNothing` |
| `exports` | `MCPluginExports`, `PluginExports.cfg` | Do the handlers deliver the right thing and answer rightly, for any parser and host? `ResultStopsTraversal`, `DeliveredExactly`, `SideMatchesMessage`, `StatusPreserved`, `OnePayload`, `CheckAnswer`, `DefaultsStayOut`, `AnswerIsTheActions`, `PromiseKept` (refinement with liveness) |
| `chain` | `MCPluginChain`, `PluginChain.cfg` | Is a message answered once, by a plugin that asked? `OneResultPerMessage`, `OnlyAskedPlugins`, `NobodyForgotten`, `MessageEnds` |
| `decoders` | `MCContextDecoders`, `ContextDecoders.cfg` | What do the decoders make of a message that is cut, extended or wrong? `InBounds`, `DecodesWhatWasSent`, `PanicsOnlyOnWrap` |
| `wire` | `MCVtUnmarshal`, `VtUnmarshal.cfg` | Do the generated writers and decoders agree, and what is left of a message that is cut or that no writer made? `InBounds`, `SizeIsExact`, `EqualOnTheWire`, `DecodesWhatWasSent`, `OnlyWholeFields`, `SurvivesReuse`, `DecodingEnds` (liveness) |
| `examples` | `MCExamples`, `Examples.cfg` | Do the example plugins report the right thing about the right message? `ReportIsOfItsAnswer` and `EntriesAreOpen` (LLM), `FailuresSurface` (status rewrite, krpc, Dubbo), `KeyAndValueArrived` and `OnlyBadLengthsPanic` (uprobe), `SidesAreRight` (krpc, DNS), `AnswersFindTheirCall` (NATS), `ReferencesResolve` (generator) |
| `framing_merge` | `MCL7Framing`, `L7FramingMerge.cfg` | *violated*: `MergeIsAnnounced` |
| `exports_reuse` | `MCPluginExports`, `PluginExportsReuse.cfg` | *violated*: `StatusPreserved` for a parser that reuses its `Response` |
| `exports_doc` | `MCPluginExports`, `PluginExportsDoc.cfg` | *violated*: `AbortWritesResult` |
| `llm_ttft` | `MCLlmStream`, `LlmStreamTtft.cfg` | *violated*: `TtftIsADelay` |
| `status_rewrite_cut` | `MCStatusRewrite`, `StatusRewriteCut.cfg` | *violated*: `SuccessStaysSuccess` |
| `generator_package` | `MCGenDemo`, `GenDemoPackage.cfg` | *violated*: `PartBeforeSemicolon` |

### Bounds, and why they are enough

- `framing`: up to three infos with encoded sizes of 10 bytes, 32764 (two of
  these and their headers fill the page exactly), 65532 (fills it alone) and
  65533 (one byte too many even alone); three infos are the fewest that can fail
  on the last after two have been written. Every combination of halves in the
  small bodies, both halves in the large ones, both directions.
- `exports`: parsers chosen so that every dispatch occurs (no override, all
  overridden, NATS wired and not), buffer sizes 0 and 8, payloads empty and not,
  lists of up to two infos. Encoded bodies of 20 and 100 bytes in a buffer of 64,
  so that two small ones fit and a large one does not. `check_payload` names of
  0, 16 and 17 bytes with 0, 1 and 255 for protocol and direction. The number of
  calls is not bounded; the state space is complete.
- `chain`: four plugins: two hooks, the same two in one bitmap, two others, and
  one without a parser. The number of messages is not bounded.
- `decoders`: each message is cut at *every* length and once extended by a byte
  or two. Codes are inside and outside their sets; strings are empty, short, and
  longer than a length byte counts. For custom messages `Word` = 64 and
  `PageSize` = 16 keep the order 10 + payload <= page < word - 10 of the real
  sizes; their lengths are right, off by one either way, page-sized, and on both
  sides of the wrap. `ContextDecoders` does not couple the base context with the
  message behind it: the message decoders meet a base that decodes and one that
  does not (`baseOk`).
- `wire`: every message is cut at *every* length, written in either order and
  read by either decoder; each kind of field occurs absent, empty and set, alone
  and followed by a second message to be merged with, behind and inside a oneof,
  and one payload is longer than a length of one byte counts. Fields of a newer
  schema have each wire type and unbalanced groups. The bytes no writer makes
  (`MCRaw`) have overlong tags, lengths that are negative, overflow or lie,
  numbers wider than their field and wire types that do not fit. 2^32 and 2^64
  are scaled to 2^13 (`Word32`) and 2^27 (`Word64`), a varint to `MaxGroups` = 4
  bytes instead of 10: its last byte does not fit, as the tenth does not. Lengths
  are compared as Go's int of the platform, 32 bits in WebAssembly.
- `examples`, LLM: two flows, so that messages of one come between those of the
  other, times 0..`MaxTime` and token counts 0..`MaxTokens` (both 2; an action
  that would count past the bound is not taken), lines of 0, 1 and 2 bytes, 2^64
  scaled to `Word64` = 16, which is more than any difference of times.
- `examples`, status rewrite: codes on both sides of 200, 300, 400 and 500, the
  two codes without a body, one failing value of `OPT_STATUS`: the code only
  compares the value with `"SUCCESS"` and `""`. A body is empty, whole, or cut in
  front of, inside or behind the value.
- `examples`, uprobe: 2^32 scaled to `Word32` = 128, payloads of 0..`MaxHave` =
  24 bytes, lengths that fit, lie by a little, and stand on both sides of the
  sign bit, so that sums wrap. Payload and fixed part stay below the sign bit, as
  a page does.
- `examples`, krpc and DNS: all packets of both, with a header cut behind each of
  its fields, codes 0 and on both sides of it, in any order and number.
- `examples`, NATS: two functions and two inboxes, so that one inbox may be used
  for both functions and one function called on both; any number of messages.
- `examples`, Dubbo, ZMTP and HTTP: every message, with codes on both sides of
  400 and 500, a code that is text and none.
- `examples`, generator: lists of one to three files with packages of no to three
  parts, one the beginning of the next, messages nested up to three deep, and a
  `go_package` of one to three parts.
- `llm_ttft` uses one flow, `generator_package` one file whose package option
  has one to three parts.

The `decoders`, `framing`, `wire`, `examples`, `status_rewrite_cut` and
`generator_package` runs turn the deadlock check off, because a function that has
returned does nothing more. `exports`, `chain` and `llm_ttft` keep it on.

### Fairness

`PluginExports`: weak fairness of the handler's own steps and the return of the
callback. A handler is straight-line code, and once called it runs on; that a
callback returns is an assumption about the plugin. Not assumed: that the agent
calls, that anybody sets a parser, or that a parser stops reading its payload
(reading it again leaves the state alone). `PluginChain`: the agent goes on with
a traversal it began; each plugin's call ends, which is what `HookCall` promises.
`VtUnmarshal`: weak fairness of the decoder's steps, a loop that runs on once it
is called; that it ends is then for its progress through the buffer to show.
The other modules state safety only and assume no fairness: their messages may
stop at any point.

### What the violations show

- `MergeIsAnnounced`: `ProtocolMerge` and `IsEnd` of an info are never copied to
  `AppInfo.is_end`, so the agent cannot know that infos are to be merged, as
  `sdk/host.go:158` and `sdk/WasmPluginApi.proto:58` intend and
  `example/go_http2_uprobe` requests.
- `StatusPreserved` (reuse): `on_http_resp` fills a missing status through the
  parser's pointer. A parser that returns the same object again has "written" the
  status of the earlier message. With a fresh object per call, which every
  example uses, the property holds (run `exports`).
- `AbortWritesResult`: "abort with no error will write the result to host" does
  not hold for a result that is too large or for several infos from a hook of a
  single message; the traversal stops and nobody answers.
- `TtftIsADelay`: a request overwrites `reqTime` of an entry that may still hold
  the first-chunk time of an answer whose end was not seen, and the unsigned
  difference wraps. `ReportIsOfItsAnswer` shows the report is right whenever the
  flow's earlier answers had ended.
- `SuccessStaysSuccess`: a body cut inside `"SUCCESS` leaves `status` empty, which
  the switch takes for a failure, so a successful 200 is reported as 500.
- `PartBeforeSemicolon`: `getGoPackage` returns what follows the semicolon of
  `go_package`, its comment (`example/nats/protoc-gen-demo/main.go:18`) says what
  stands in front of it.

Comments the models depart from without a run of their own, since one line of
code settles each: `sdk/serde.go:62` has the numbers of TCP and UDP swapped
(`sdk/host.go:25-26` uses the IP protocol numbers), and the uprobe plugin checks
`data_len` but takes the data to the end of the payload (line 192) where its
comment (line 178) ends it with the record. In two more places a property takes
neither side:

- `llm.go:17` leaves the first token out of the time per token, `llm.go:155`
  does not. The model divides as the code does (`ReportOf`), and
  `ReportIsOfItsAnswer` compares the time to the first token and the tokens and
  leaves the time per token alone.
- the status rewrite's comment (line 76) makes every failure a 500, its code
  (line 173) only a 2xx. So a failure told by the body of a 300 keeps its code and
  goes out with the status ok, and one told by a 404 stays a client error.
  `FailuresSurface` demands the 500 of a 2xx only, where the two agree. Of any
  other code it demands what both say: that the body goes out as the result, and
  that the status is the one of the code sent.

What makes a call panic is part of `AnswerIsTheActions`: `on_http_resp` on an
info without a `Response` (`NoResponse`), `GetPayload` for `BufSize` 0
(`EmptyBuffer`), and a NATS message for a parser whose embedded one was never set
(`UnwiredNats`). No text of the repository says otherwise, so these are behaviours
of the model and not findings. `PromiseKept` allows a panic anywhere and a stop
with nothing handed over, so it is `AnswerIsTheActions` that holds a handler to
the answer its `Action` asks for. `deserializeCustomMessageCtx` panics for the ten
lengths that wrap (`PanicsOnlyOnWrap` says exactly when).

## 4. Theorems

TLAPS proves, for every value of the constants that satisfies the modules'
assumptions:

- `PluginExports_proofs`: `ExportsTypeCorrect`, `ResultsStop`,
  `ResultsDeliveredExactly`, `PayloadIsStable`, `CheckAnswersRight`,
  `RightSideSent`, `DefaultsAlwaysStayOut`, `AnswersAreTheActions`, and
  `PromiseSafety`, that every step of the exports is a step of `HookCall` or leaves
  its variables alone. They follow from one inductive invariant (`ExportsInvariant`). It is needed because
  the properties speak of the end of a call and are decided long before: the
  invariant says, for each value of `pc`, what has been built up by then. In
  particular `delivered` and `name` are empty until the handler has passed all its
  checks, at `"leave"` a handed-over result implies an action with infos, and
  actions with infos abort, since only the constructors make them; from
  `"result"` on, `act` differs from `given` at most in the status of its first
  info. For `AnswersAreTheActions`, `WordKept` adds that the handler never changes
  whether an action aborts, and that there is none before the callback returned,
  and `NoHalfIsSerialised` that a response without its `Response` goes no further
  than the step that fills in the status. `StatusAlwaysPreserved` has a hypothesis, that no parser reuses its
  `Response`: then what a callback gives is never `held`. The hypothesis cannot
  go, as the run `exports_reuse` shows.
- `PluginChain_proofs`: `ChainTypeCorrect`, `OneResult`, `OnlyAsked`,
  `NobodyIsForgotten`, for any number of plugins, from an invariant that ties the
  plugins that have already been asked to the position of the traversal and a
  result to the plugin that stopped it.
- `L7Framing_proofs`: `TypeCorrect`,
  `FramesAlwaysTile`, `WritesAlwaysInBuffer`, `SideAlwaysFollowsDirection`,
  `AlwaysAllOrNothing`, for every list of infos, encoded size and buffer of at
  most 2^16 bytes. The invariant says that the offset is the end of the last frame
  and that a frame never exceeds the buffer, so that its 16-bit length did not
  wrap; `LoopInv` adds that the offset is where the infos gone through end when
  they are laid out one behind the other (`EndOffset`), so that a loop that stops
  early stops at an info that cannot fit, and `Serialized` of the whole list says
  the same.
- `ContextDecoders_proofs`: `DecodersTypeCorrect`, `DecodersInBounds`,
  `DecodersAreFaithful` (what is decoded is what was sent, or refused, or lacks
  the optional endpoint), `PanicOnlyWhenWrapped`, for every context, request,
  response and custom message an agent can encode, cut anywhere or extended. A
  decoder sees bytes and the property speaks of a message, so the invariant
  (`DecoderInvariant`) says which part of the encoding stands where in the buffer
  (`StandsAt`): behind the offset is what is still to be read. `BaseInv`,
  `ReqInv` and `RespInv` give the offset and the context so far as functions of
  the message sent. A custom message is decoded in one step, and `MsgInv` has
  what came of it, the wrapped sum included.
- `VtUnmarshal_proofs`, for every message and every byte string:
  `SizeIsAlwaysExact` and `MarshalIsWhole` show that `SizeVT` is the length of
  what either writer writes, so that `MarshalVT` returns what was written, with
  no zeros in front. `VarintLength` is by induction on the number; each piece of
  a message is of the size counted for it (`Sized`), sums of sizes go with
  concatenations, and lists follow by recursion.
  `VarintsAreReadBack`: the loop that reads a varint gives the number that was
  written and goes on behind it, and of a varint that is cut it gives an error and
  never another number. Writing takes groups of seven bits from the number
  (`IsGroups`) and reading weighs them, so that what the groups from the kth on
  give is the rest at k times `Weight[k]`.
  `DecoderInBounds`: `InBounds` is not inductive, since an error leaves all nested
  calls at once, so `BoundsInv` adds that every slice ends within the outermost
  one, and that an unknown field is skipped from the place its tag began.
  `DecoderTypeCorrect`, from `TypeInv`: by `StackInv` there is one call, or an
  `AppInfo` and what is decoded into one of its fields, so that a message decoded
  fits where it is put; `Good` says that a message has the fields of its type and
  no text but bytes or, of the unsafe decoder, places of the buffer.
  `ReuseIsNeverSeen`, an action property: once a call returned, nothing that
  happens to the buffer changes what is read in a message of the safe decoder or
  in its clone, or in the payload and unknown fields of any clone, because those
  are bytes of their own (`OwnText`).
  `SkipIsExact`: of the fields of a newer schema with no or balanced groups,
  `protohelpers.Skip` finds the end, and of one that is cut it gives an error and
  never a place within. Its recursion goes from a place of the buffer to a later
  one, for every depth of groups at once.
  `DecoderHoldsWhatItRead`: what the decoder holds of one or several encodings is
  what the fields it has read mean. The encoding is a list of fields with marks
  where each ends; `ReadInv` says that the position is a mark, or inside the field
  behind one, and that the message so far is the fold of what each field before it
  does to an empty message.
- `VtRoundTrip_proofs`, for every list of messages that can be sent
  (`AllSendable`), written by either writer and read by either decoder:
  `WhatWasWrittenIsRead`, that the fields of an encoding, read one by one, give
  the message again, by leading from each piece the writer puts to the next
  (`Leads`); `WhatWasSentIsAlwaysDecoded` (`DecodesWhatWasSent`),
  `WhatWasSentAlwaysSurvives` (`SurvivesReuse`, with `ReuseIsNeverSeen`), and
  `OnlyWholeFieldsAreRead` (`OnlyWholeFields`), for a buffer cut anywhere: what the
  fields before a mark give is a part of the message (`Partial`).
  `AllSendable` says what a Go program can send: a text and the encoding of a
  nested message are shorter than 2^31 bytes, since the decoder takes a length for
  an int; numbers have the width of their Go types; and unknown fields are whole
  fields whose numbers the type does not have (`KeptFields`), as `UnmarshalVT`
  leaves them. The messages of the run `wire` are all sendable; `KeptFields`
  ranges over lists of fields, so TLC does not evaluate it.
  The other way round, `WrittenTellsMessages`: no two messages are written as the
  same bytes. No varint is the beginning of another one (`VarintsPart`), so a tag
  tells its field and a length where it ends; `Tells` says of a group of fields
  that what is written of them tells what is in them as long as no more of their
  tags follow, groups go one behind the other (`TellsThen`), and the last thing
  behind them, the unknown fields, begins with no tag of the schema (`Foreign`).
  That is where `UnmarshalVT` and the type's own fields come in: with a known field
  among the unknown ones the theorem is false.
  `EqualIsTheSameOnTheWire` (`EqualOnTheWire`) follows, since a decoder makes only
  such messages: `ReadInv` says that what is read is a message of bytes, and
  `ProperInv` that its numbers are in the range of their types and that its unknown
  fields, those of the messages in it, and those in the calls that are still going
  on begin with no tag of the schema; for this the tag that was read must still
  stand where `Skip` begins. Two hypotheses join `AllSendable`: an encoding is not
  2^64 bytes long (`AllFit`, true of the messages of the run `wire`), and a nil
  pointer is no message (`NilIsNoMessage`), having no `unknown`; of a model value
  TLC cannot ask which fields it has.
- `Examples_proofs`: one invariant for each plugin, and `ExamplesAreTyped` for
  all of them.
  `ReferencesAlwaysResolve` (generator), for every set of files protoc accepts,
  from `SearchInv`: no beginning of the name longer than the package tried is a
  package (`TryInv`), a file that was found is of the message's package, and the
  name divides into the part looked up and the part to look up (`Found`). It stops
  for three reasons (`Excused`): the package is spread over files, the message is
  nested and in no package, or its file has a `go_package` of more than two parts.
  `AnswersAlwaysFindTheirCall` (NATS), for any methods and inboxes, from
  `TableInv`: the table holds exactly the inboxes of the requests seen, each with
  a function called on it.
  `SidesAreAlwaysRight` (krpc, DNS), from `ClaimInv`: a flow that is claimed was
  claimed by a packet `OnCheckPayload` accepts, which is a request.
  `ReportsAreOfTheirAnswers` and `EntriesAreAlwaysOpen` (LLM), for any number of
  flows, times and tokens, from `StreamInv`: on every flow whose earlier answers
  ended, the entry has the times and the count an observer has (`Fits`), and those
  times are in order, so that the report's unsigned subtraction does not wrap.
  `KeysAndValuesAlwaysArrived` and `OnlyBadLengthsEverPanic` (uprobe), for every
  pair of lengths and every word whose sign bit is beyond a payload, from
  `RecordInv`.
  `FailuresAlwaysSurface` (status rewrite, krpc, Dubbo), for all codes: of a
  failure told by an HTTP body it shows what `FailuresSurface` says, a 500 from a
  2xx, the body sent and the status that of the code sent, and nothing about the
  code of the others.

Induction. The library states induction with a predicate as a parameter, which
cannot be instantiated here. `Foundations` states it with a set, the numbers a
fact holds of (`NaturalInduction`), from the well-foundedness of < alone, and
shows that the functions defined by recursion on a number exist and satisfy their
equations (`RecursionOnNat`, `DescentOnNat`, and `RankedRecursion` for a function
that calls itself on what is nearer to an end). What the models define by
recursion is unfolded by these: varints, sums of sizes, lists of fields, offsets,
`Skip`.

Assumptions: those named `...Assumption`, `NilIsNoValue`, `NilIsNoResponse` and
`NilIsNoContext` in the modules. Nil is no value of another type; sizes are
natural numbers; a buffer is at most 2^16 bytes, and a page is smaller than a
word (`SizesOk`); inputs have the types of their Go counterparts, so that the
messages of `VtUnmarshal` are ones the structs can hold and other input is
bytes; a varint of `MaxGroups` bytes holds the scaled words, the smaller of which is
even and divides the larger, as powers of two do (`WordsAssumption`);
functions and inboxes of NATS are different subjects. A decoder takes from its
constant `Sent` what is `Encodable`, which its `Init` says. TLC evaluates the
assumptions in the runs of the modules that state them.

Only model-checked: liveness (`PromiseKept` beyond safety, `MessageEnds`,
`DecodingEnds`), which is outside the prover's fragment here. Every invariant and
every action property of the passing runs is a theorem. The six properties of the
violated runs are not, being false.

## 5. Not modelled

- `sdk/log.go`: no state, no effect on any property.
- of `sdk/pb/WasmPluginApi.pb.go`: accessors, descriptors and reflection of
  protoc. The SDK writes messages as literals and uses the vtproto code; the
  fields of the structs are in `VtMessages`.
- of the vtproto code: decoding into a message that a caller filled before,
  except by encodings one behind the other; the errors apart from each other;
  sums of sizes beyond what an int holds. `MarshalVT` and `MarshalVTStrict` are
  the same for messages without a oneof, and the unsafe decoder differs from the
  safe one only in how it takes a slice (`Slice`), so each pair is one definition.
- `get_custom_message_hook` and `CustomMessageHookIn`: a constant of a plugin.
- the addresses of local arrays that `get_hook_bitmap` returns, since how long
  they stay valid is decided by the compiler and the agent.
- that the table of the NATS example is never emptied: the repository names no
  bound it should keep, and none holds.
- of the example plugins: the texts they build and copy (names, domains,
  subjects split into service and method, trace headers, the pseudo-header fields
  of the uprobe's `onHeader`), the JSON, HTTP, DNS, gzip and protobuf libraries,
  of which the models keep the outcomes, `OnCheckPayload` of the uprobe and LLM
  plugins (a look at one payload that keeps nothing), and `OnHttpResp` in front
  of `onResp`. `OnCheckPayload` of the LLM plugin returns three values where two
  are declared, so that file does not compile as it stands; the model is of its
  `OnParsePayload`.
- of the generator: names of Go files and packages, the template, and the reading
  and writing of `main`, which is I/O.
- `example/http_streaming_llm/llm-test.go`: an earlier draft of `llm.go`, which
  declares `main` and `StreamInfo` a second time.
- `vm_read_*` returning sizes outside the contract of their comments.

## 6. Plan

Done: 1. `L7Info`, `L7Framing`; 2. `HookCall`, `PluginExports`; 3. `PluginChain`;
4. the context decoders; 5. `LlmStream`, `StatusRewrite`, `Http2Uprobe`;
6. `VtMessages`, `VtUnmarshal`; 7. `FlowPlugins`, `NatsCalls`, `MessagePlugins`,
`GenDemo`, and `Examples` over all example plugins; 8. proofs of every safety
property of the passing runs.
