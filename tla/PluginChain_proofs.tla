-------------------------- MODULE PluginChain_proofs --------------------------
(***************************************************************************)
(* What the traversal keeps for any number of plugins, whatever hooks they *)
(* ask for.                                                                *)
(***************************************************************************)
EXTENDS PluginChain, TLAPS

\* Between two plugins of a message nothing has been handed over; during a call
\* the only result is the one of this call, and the plugin is a subscribed one.
ChainInv ==
  /\ ChainTypeOK
  /\ phase = "running" =>
       /\ event # "none" /\ hook = event
       /\ turn \in 1..N
       /\ Subscribed(turn, event)
       /\ results = IF handed THEN 1 ELSE 0
  /\ phase = "idle" /\ event # "none" => results = 0
  /\ results <= 1

\* A bit of the or-ed words is a bit of one of the bitmaps: the two words do not
\* run into each other.
LEMMA SubscribedAsked ==
  ASSUME NEW p \in 1..N, NEW h \in Hooks, Subscribed(p, h)
  PROVE  Asked(p, h)
<1>1. HookIn[p] \subseteq Bitmap
  BY ChainAssumption
<1>2. h \in DOMAIN HookPoint
  BY ChainAssumption
<1>3. \/ AgentBit[h] = 127 /\ HookPoint[h] = HOOK_POINT_HTTP_REQ
      \/ AgentBit[h] = 126 /\ HookPoint[h] = HOOK_POINT_HTTP_RESP
      \/ AgentBit[h] = 125 /\ HookPoint[h] = HOOK_POINT_CUSTOM_MESSAGE
      \/ AgentBit[h] = 0 /\ HookPoint[h] = HOOK_POINT_PAYLOAD_PARSE
  BY <1>2 DEF HookPoint, AgentBit
<1>4. PICK m \in HookIn[p] : \/ \E b \in m.high : AgentBit[h] = 64 + b
                             \/ AgentBit[h] \in m.low
  BY DEF Subscribed, getHookBitmap
<1>5. m.high \subseteq Bits /\ m.low \subseteq Bits
  BY <1>1 DEF Bitmap
<1>6. CASE \E b \in m.high : AgentBit[h] = 64 + b
  <2>1. PICK b \in m.high : AgentBit[h] = 64 + b
    BY <1>6
  <2>2. b \in Nat /\ b < 64
    BY <1>5 DEF Bits
  <2>3. HookPoint[h].high = {b} /\ HookPoint[h].low = {}
    BY <1>3, <2>1, <2>2 DEF HOOK_POINT_HTTP_REQ, HOOK_POINT_HTTP_RESP,
       HOOK_POINT_CUSTOM_MESSAGE
  <2> QED BY <2>3 DEF Asked
<1>7. CASE AgentBit[h] \in m.low
  <2>1. AgentBit[h] \in Nat /\ AgentBit[h] < 64
    BY <1>5, <1>7 DEF Bits
  <2>2. AgentBit[h] = 0 /\ HookPoint[h] = HOOK_POINT_PAYLOAD_PARSE
    BY <1>3, <2>1
  <2> QED BY <1>7, <2>2 DEF Asked, HOOK_POINT_PAYLOAD_PARSE
<1> QED BY <1>4, <1>6, <1>7

LEMMA ChainInit_Inv == ChainInit => ChainInv
<1> SUFFICES ASSUME ChainInit PROVE ChainInv
  OBVIOUS
<1>1. N \in Nat
  BY ChainAssumption
<1>2. HookTypeOK
  BY DEF ChainInit, HookInit, HookTypeOK
<1>3. 0 \in 0..N /\ 1 \in 1..N+1
  BY <1>1
<1>4. ChainTypeOK
  BY <1>2, <1>3 DEF ChainInit, ChainTypeOK
<1> QED BY <1>4 DEF ChainInit, HookInit, ChainInv

LEMMA ChainStep == ChainInv /\ [ChainNext]_chainVars => ChainInv'
<1> SUFFICES ASSUME ChainInv, [ChainNext]_chainVars PROVE ChainInv'
  OBVIOUS
<1> USE ChainAssumption DEF ChainInv, ChainTypeOK, HookTypeOK, Answers
<1>1. ASSUME NEW h \in Hooks, Message(h) PROVE ChainInv'
  <2>1. phase = "idle"
    BY <1>1 DEF Message
  <2>2. HookTypeOK' /\ phase' = "idle" /\ event' \in Hooks
    BY <1>1, <2>1 DEF Message, hookVars
  <2>3. turn' \in 1..N+1 /\ called' \subseteq 1..N /\ results' \in 0..N /\ results' = 0
    BY <1>1 DEF Message
  <2> QED BY <2>2, <2>3
<1>2. CASE CallPlugin
  <2>1. turn \in 1..N /\ event \in Hooks
    BY <1>2 DEF CallPlugin
  <2>2. called' \subseteq 1..N
    BY <1>2, <2>1 DEF CallPlugin
  <2>3. ChainTypeOK'
    BY <1>2, <2>1, <2>2 DEF CallPlugin, Call
  <2>4. results' = 0 /\ handed' = FALSE
    BY <1>2 DEF CallPlugin, Call
  <2>5. Subscribed(turn, event)'
    BY <1>2 DEF CallPlugin, Subscribed
  <2> QED BY <1>2, <2>1, <2>3, <2>4, <2>5 DEF CallPlugin, Call
<1>3. CASE SkipPlugin
  BY <1>3 DEF SkipPlugin, hookVars
<1>4. CASE NobodyLeft
  BY <1>4 DEF NobodyLeft, hookVars
<1>5. CASE PluginHandsOver
  BY <1>5 DEF PluginHandsOver, HandOver, Subscribed
<1>6. CASE PluginStops
  BY <1>6 DEF PluginStops, Return
<1>7. CASE PluginPasses
  BY <1>7 DEF PluginPasses, Return
<1>8. CASE PluginTraps
  BY <1>8 DEF PluginTraps, Trap
<1>9. CASE UNCHANGED chainVars
  BY <1>9 DEF chainVars, Subscribed
<1> QED BY <1>1, <1>2, <1>3, <1>4, <1>5, <1>6, <1>7, <1>8, <1>9
        DEF ChainNext, Traversal

THEOREM ChainInvariant == ChainSpec => []ChainInv
<1>1. ChainInit => ChainInv
  BY ChainInit_Inv
<1>2. ChainInv /\ [ChainNext]_chainVars => ChainInv'
  BY ChainStep
<1> QED BY <1>1, <1>2, PTL DEF ChainSpec

\* The host accepts at most one result for a message, however many plugins
\* there are and however they answer (parser.go:106).
THEOREM OneResult == ChainSpec => []OneResultPerMessage
<1>1. ChainInv => OneResultPerMessage
  BY DEF ChainInv, OneResultPerMessage
<1> QED BY <1>1, ChainInvariant, PTL

\* A plugin is called only for hooks its HookIn asked for, whatever bitmaps it
\* returned: or-ing, byte order and numbering agree (abi_export.go:223-239).
THEOREM OnlyAsked == ChainSpec => []OnlyAskedPlugins
<1>1. ChainInv => OnlyAskedPlugins
  <2> SUFFICES ASSUME ChainInv, phase = "running" PROVE Asked(turn, hook)
    BY DEF OnlyAskedPlugins
  <2>1. turn \in 1..N /\ hook \in Hooks /\ Subscribed(turn, hook)
    BY DEF ChainInv, ChainTypeOK
  <2> QED BY <2>1, SubscribedAsked
<1> QED BY <1>1, ChainInvariant, PTL

\* Every state of a traversal is well typed: the agent never asks a plugin there
\* is not, nor counts more results than plugins.
THEOREM ChainTypeCorrect == ChainSpec => []ChainTypeOK
<1>1. ChainInv => ChainTypeOK
  BY DEF ChainInv
<1> QED BY <1>1, ChainInvariant, PTL

------------------------------------------------------------------------------
(* Nobody is passed over *)

\* The converse of SubscribedAsked: no bit a parser asked for is lost.
LEMMA AskedSubscribed ==
  ASSUME NEW p \in 1..N, NEW h \in Hooks, Asked(p, h)
  PROVE  Subscribed(p, h)
<1>1. h \in DOMAIN HookPoint
  BY ChainAssumption
<1>2. PICK m \in HookIn[p] : /\ HookPoint[h].high \subseteq m.high
                             /\ HookPoint[h].low \subseteq m.low
  BY DEF Asked
<1>3. \/ \E b \in m.high : AgentBit[h] = 64 + b
      \/ AgentBit[h] \in m.low
  <2>1. CASE h = "on_http_req"
    BY <1>2, <2>1 DEF HookPoint, AgentBit, HOOK_POINT_HTTP_REQ
  <2>2. CASE h = "on_http_resp"
    BY <1>2, <2>2 DEF HookPoint, AgentBit, HOOK_POINT_HTTP_RESP
  <2>3. CASE h = "on_custom_message"
    BY <1>2, <2>3 DEF HookPoint, AgentBit, HOOK_POINT_CUSTOM_MESSAGE
  <2>4. CASE h \in {"check_payload", "parse_payload"}
    BY <1>2, <2>4 DEF HookPoint, AgentBit, HOOK_POINT_PAYLOAD_PARSE
  <2> QED BY <1>1, <2>1, <2>2, <2>3, <2>4 DEF HookPoint
<1>4. m.high \in {n.high : n \in HookIn[p]} /\ m.low \in {n.low : n \in HookIn[p]}
  OBVIOUS
<1> QED BY <1>3, <1>4 DEF Subscribed, getHookBitmap

\* Behind the turn only plugins that were called or have not subscribed.
TurnPast ==
  /\ phase = "running" => turn \in called
  /\ event # "none" =>
       \A p \in 1..N : p < turn /\ Subscribed(p, event) => p \in called

LEMMA TurnPastStep == ChainInv /\ TurnPast /\ [ChainNext]_chainVars => TurnPast'
<1> SUFFICES ASSUME ChainInv, TurnPast, [ChainNext]_chainVars PROVE TurnPast'
  OBVIOUS
<1> USE DEF TurnPast, Subscribed
<1>t. turn \in Nat /\ N \in Nat
  BY ChainAssumption DEF ChainInv, ChainTypeOK
<1>1. ASSUME NEW h \in Hooks, Message(h) PROVE TurnPast'
  <2>1. phase # "running"
    BY <1>1 DEF Message, ChainInv
  <2> QED BY <1>1, <2>1 DEF Message, hookVars
<1>2. CASE CallPlugin
  BY <1>2 DEF CallPlugin
<1>3. CASE SkipPlugin
  <2>1. ASSUME NEW p \in 1..N, p < turn + 1 PROVE p < turn \/ p = turn
    BY <1>t, <2>1
  <2> QED BY <1>3, <2>1 DEF SkipPlugin, hookVars
<1>4. CASE PluginHandsOver
  BY <1>4 DEF PluginHandsOver, HandOver
<1>5. CASE PluginStops \/ NobodyLeft
  BY <1>5 DEF PluginStops, Return, NobodyLeft, hookVars
<1>6. CASE PluginPasses \/ PluginTraps
  <2>1. turn \in called /\ phase' = "idle" /\ called' = called
    BY <1>6 DEF PluginPasses, PluginTraps, Return, Trap
  <2>2. ASSUME NEW p \in 1..N, p < turn + 1 PROVE p < turn \/ p = turn
    BY <1>t, <2>2
  <2> QED BY <1>6, <2>1, <2>2 DEF PluginPasses, PluginTraps
<1>7. CASE UNCHANGED chainVars
  BY <1>7 DEF chainVars
<1> QED BY <1>1, <1>2, <1>3, <1>4, <1>5, <1>6, <1>7 DEF ChainNext, Traversal

\* When the agent runs out of plugins, every one that asked for the hook has
\* been called, the ones after a panic included (abi_export.go:223-239,
\* parser.go:106).
THEOREM NobodyIsForgotten == ChainSpec => NobodyForgotten
<1>1. ChainInit => TurnPast
  BY DEF ChainInit, HookInit, TurnPast
<1>2. ChainInv /\ TurnPast /\ [ChainNext]_chainVars => TurnPast'
  BY TurnPastStep
<1>3. ChainInv /\ TurnPast /\ [ChainNext]_chainVars =>
        [ NobodyLeft =>
            \A p \in 1..N : Asked(p, event) => p \in called ]_chainVars
  <2> SUFFICES ASSUME ChainInv, TurnPast, NobodyLeft, NEW p \in 1..N, Asked(p, event)
               PROVE  p \in called
    OBVIOUS
  <2>1. event \in Hooks /\ event # "none" /\ turn > N /\ turn \in Nat /\ N \in Nat
    BY ChainAssumption DEF NobodyLeft, ChainInv, ChainTypeOK
  <2>2. p < turn
    BY <2>1
  <2> QED BY <2>1, <2>2, AskedSubscribed DEF TurnPast
<1> QED BY <1>1, <1>2, <1>3, ChainInvariant, PTL DEF ChainSpec, NobodyForgotten

==============================================================================
