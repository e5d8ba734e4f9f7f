------------------------------ MODULE HookCall ------------------------------
(***************************************************************************)
(* What one exported hook of a plugin promises the agent that calls it:    *)
(* every call ends, at most one result is handed over during it, and a     *)
(* call that handed one over answers "stop".  PluginExports implements it, *)
(* PluginChain is built on it.                                             *)
(***************************************************************************)
CONSTANTS Hooks   \* the exported functions the agent calls for a message

VARIABLES
  phase,   \* "idle" or "running"
  hook,    \* the function of the current call, or of the last one
  handed,  \* has the host accepted a result during this call?
  answer   \* "none" before the first return and during a call

hookVars == <<phase, hook, handed, answer>>

Answers == {"stop", "next"}

HookTypeOK ==
  /\ phase \in {"idle", "running"}
  /\ hook \in Hooks \cup {"none"}
  /\ handed \in BOOLEAN
  /\ answer \in Answers \cup {"none", "trap"}

HookInit ==
  /\ phase = "idle"
  /\ hook = "none"
  /\ handed = FALSE
  /\ answer = "none"

Call(h) ==
  /\ phase = "idle"
  /\ phase' = "running"
  /\ hook' = h
  /\ handed' = FALSE
  /\ answer' = "none"

HandOver ==
  /\ phase = "running"
  /\ ~handed
  /\ handed' = TRUE
  /\ UNCHANGED <<phase, hook, answer>>

\* A mutant: a result is handed over and the traversal goes on.
ReturnAnything(a) ==
  /\ phase = "running"
  /\ phase' = "idle"
  /\ answer' = a
  /\ UNCHANGED <<hook, handed>>

Return(a) ==
  /\ phase = "running"
  /\ handed => a = "stop"
  /\ phase' = "idle"
  /\ answer' = a
  /\ UNCHANGED <<hook, handed>>

\* A panic of the plugin, never once its result is out.
Trap ==
  /\ phase = "running"
  /\ ~handed
  /\ phase' = "idle"
  /\ answer' = "trap"
  /\ UNCHANGED <<hook, handed>>

EndCall == Trap \/ \E a \in Answers : Return(a)

HookNext == HandOver \/ EndCall \/ \E h \in Hooks : Call(h)

HookSpec == HookInit /\ [][HookNext]_hookVars /\ WF_hookVars(EndCall)

=============================================================================
