----------------------------- MODULE PluginChain -----------------------------
(***************************************************************************)
(* The agent with several plugins: "agent will traversal to run all        *)
(* plugins, abort will abort the traversal" (sdk/parser.go:106).  The      *)
(* agent is external; of the plugins it uses what get_hook_bitmap          *)
(* (sdk/abi_export.go) answered when they were loaded and, for each call,  *)
(* the promise HookCall makes, which PluginExports keeps.                  *)
(***************************************************************************)
EXTENDS HookCall, Integers

CONSTANTS
  N,       \* the number of plugins, numbered in the order they are tried
  HookIn   \* the bitmaps Parser.HookIn returns for each, {} if no parser is set

\* A HookBitmap is two 64-bit words, here the sets of the bits that are set.
Bits == {b \in Nat : b < 64}
Bitmap == [high: SUBSET Bits, low: SUBSET Bits]

HOOK_POINT_HTTP_REQ       == [high |-> {63}, low |-> {}]
HOOK_POINT_HTTP_RESP      == [high |-> {62}, low |-> {}]
HOOK_POINT_CUSTOM_MESSAGE == [high |-> {61}, low |-> {}]
HOOK_POINT_PAYLOAD_PARSE  == [high |-> {}, low |-> {0}]

\* The exported function each bit stands for.
HookPoint == [
  on_http_req       |-> HOOK_POINT_HTTP_REQ,
  on_http_resp      |-> HOOK_POINT_HTTP_RESP,
  on_custom_message |-> HOOK_POINT_CUSTOM_MESSAGE,
  check_payload     |-> HOOK_POINT_PAYLOAD_PARSE,
  parse_payload     |-> HOOK_POINT_PAYLOAD_PARSE ]

\* The same as the agent numbers them: HOOK_POINT_HTTP_REQ = 1 << 127, ...
AgentBit == [ on_http_req |-> 127, on_http_resp |-> 126,
              on_custom_message |-> 125, check_payload |-> 0,
              parse_payload |-> 0 ]

ASSUME ChainAssumption == /\ N \in Nat
                          /\ HookIn \in [1..N -> SUBSET Bitmap]
                          /\ Hooks \subseteq DOMAIN HookPoint

VARIABLES
  event,    \* the hook of the message the agent works on, or "none"
  turn,     \* the next plugin to try
  called,   \* the plugins called for the message
  results   \* how many results the host accepted for it

chainVars == <<phase, hook, handed, answer, event, turn, called, results>>

ChainTypeOK ==
  /\ HookTypeOK
  /\ event \in Hooks \cup {"none"}
  /\ turn \in 1..N+1
  /\ called \subseteq 1..N
  /\ results \in 0..N

ChainInit ==
  /\ HookInit
  /\ event = "none"
  /\ turn = 1
  /\ called = {}
  /\ results = 0

\* The bitmaps or-ed word by word, high word first, as one big-endian number.
\* Two mutants: the low word first, and the bits counted from one.
LowWordFirst(bitmaps) ==
  {64 + b : b \in UNION {m.low : m \in bitmaps}} \cup UNION {m.high : m \in bitmaps}

BitsFromOne(bitmaps) ==
  {65 + b : b \in UNION {m.high : m \in bitmaps}} \cup UNION {m.low : m \in bitmaps}

getHookBitmap(bitmaps) ==
  {64 + b : b \in UNION {m.high : m \in bitmaps}} \cup UNION {m.low : m \in bitmaps}

Subscribed(p, h) == AgentBit[h] \in getHookBitmap(HookIn[p])

------------------------------------------------------------------------------
\* A mutant: the count goes on from the last message.
MessageCountsOn(h) ==
  /\ event = "none"
  /\ event' = h
  /\ turn' = 1
  /\ called' = {}
  /\ UNCHANGED <<hookVars, results>>

Message(h) ==
  /\ event = "none"
  /\ event' = h
  /\ turn' = 1
  /\ called' = {}
  /\ results' = 0
  /\ UNCHANGED hookVars

CallPlugin ==
  /\ event # "none"
  /\ turn <= N
  /\ Subscribed(turn, event)
  /\ Call(event)
  /\ called' = called \cup {turn}
  /\ UNCHANGED <<event, turn, results>>

SkipPlugin ==
  /\ event # "none" /\ phase = "idle"
  /\ turn <= N
  /\ ~Subscribed(turn, event)
  /\ turn' = turn + 1
  /\ UNCHANGED <<hookVars, event, called, results>>

PluginHandsOver ==
  /\ HandOver
  /\ results' = results + 1
  /\ UNCHANGED <<event, turn, called>>

\* Abort ends the traversal, next goes on with it.
PluginStops ==
  /\ Return("stop")
  /\ event' = "none"
  /\ UNCHANGED <<turn, called, results>>

\* A mutant: the same plugin is asked again.
PluginPassesInPlace == Return("next") /\ UNCHANGED <<event, turn, called, results>>

PluginPasses ==
  /\ Return("next")
  /\ turn' = turn + 1
  /\ UNCHANGED <<event, called, results>>

\* What the agent does with the message of a plugin that panicked is not known.
PluginTraps ==
  /\ Trap
  /\ \/ event' = "none" /\ UNCHANGED turn
     \/ turn' = turn + 1 /\ UNCHANGED event
  /\ UNCHANGED <<called, results>>

NobodyLeft ==
  /\ event # "none" /\ phase = "idle"
  /\ turn > N
  /\ event' = "none"
  /\ UNCHANGED <<hookVars, turn, called, results>>

Traversal == \/ CallPlugin \/ SkipPlugin \/ NobodyLeft
             \/ PluginStops \/ PluginPasses \/ PluginTraps

ChainNext == PluginHandsOver \/ Traversal \/ \E h \in Hooks : Message(h)

\* The calls of a plugin end (HookSpec) and the agent goes on.
ChainSpec == ChainInit /\ [][ChainNext]_chainVars /\ WF_chainVars(Traversal)

------------------------------------------------------------------------------
(* Properties *)

\* However many plugins hook the same message, the host accepts one result for
\* it at most, and that from the plugin it called last.
OneResultPerMessage == results <= 1

\* A plugin runs only for the hooks its parser asked for: the bits of HookIn
\* survive the or, the byte order and the agent's numbering (abi_export.go:
\* 223-239, parser.go:34-53).
Asked(p, h) ==
  \E m \in HookIn[p] : /\ HookPoint[h].high \subseteq m.high
                       /\ HookPoint[h].low \subseteq m.low

OnlyAskedPlugins == phase = "running" => Asked(turn, hook)

\* A traversal that runs out of plugins has called every one that asked.
NobodyForgotten ==
  [][ NobodyLeft =>
        \A p \in 1..N : Asked(p, event) => p \in called ]_chainVars

\* Every message is done with at last.
MessageEnds == event # "none" ~> event = "none"

=============================================================================
