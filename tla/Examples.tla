------------------------------- MODULE Examples -------------------------------
(***************************************************************************)
(* The plugins of example/ and the code generator of one of them, side by  *)
(* side.  Each runs in an instance of its own and none sees another, so a  *)
(* behaviour is one of any of them, chosen at the start; the variables it  *)
(* has no use for are Nil.                                                 *)
(***************************************************************************)
EXTENDS Integers

CONSTANTS
  Nil,
  Flows, MaxTime, MaxTokens, LineLens, Word64,  \* of LlmStream
  HttpCodes, Failures,                          \* of StatusRewrite
  Word32, Lengths, MaxHave,                     \* of Http2Uprobe
  RetCodes, BodyCodes, Text,                    \* of krpc, of Dubbo and HTTP
  Methods, Inboxes,                             \* of NatsCalls
  FileLists                                     \* of GenDemo

VARIABLES
  plugin, report,
  httpStream, now, answer, traffic, expected,   \* LlmStream
  code, body,                                   \* StatusRewrite
  kind, rec, result,                            \* Http2Uprobe
  claimant, taken, packet,                      \* FlowPlugins
  kv, calls, seen,                              \* NatsCalls
  message,                                      \* NatsCalls, MessagePlugins
  files, ref, pc, pkgpath, fd, path, d          \* GenDemo

Llm     == INSTANCE LlmStream WITH Word <- Word64
Rewrite == INSTANCE StatusRewrite WITH Codes <- HttpCodes
Uprobe  == INSTANCE Http2Uprobe WITH Word <- Word32
Flow    == INSTANCE FlowPlugins WITH Codes <- RetCodes
Nats    == INSTANCE NatsCalls
Message == INSTANCE MessagePlugins WITH Codes <- BodyCodes
Gen     == INSTANCE GenDemo

ASSUME ExamplesAssumption ==
  /\ Llm!LlmAssumption /\ Rewrite!RewriteAssumption /\ Uprobe!UprobeAssumption
  /\ Flow!FlowAssumption /\ Nats!NatsAssumption /\ Message!MessageAssumption
  /\ Gen!GenAssumption

llmVars     == <<httpStream, now, answer, traffic, expected>>
rewriteVars == <<code, body>>
uprobeVars  == <<kind, rec, result>>
flowVars    == <<claimant, taken, packet>>
natsVars    == <<kv, calls, seen>>
genVars     == <<files, ref, pc, pkgpath, fd, path, d>>

vars == <<plugin, report, llmVars, rewriteVars, uprobeVars, flowVars, natsVars,
          message, genVars>>

NoLlm     == httpStream = Nil /\ now = Nil /\ answer = Nil /\ traffic = Nil /\ expected = Nil
NoRewrite == code = Nil /\ body = Nil
NoUprobe  == kind = Nil /\ rec = Nil /\ result = Nil
NoFlow    == claimant = Nil /\ taken = Nil /\ packet = Nil
NoNats    == kv = Nil /\ calls = Nil /\ seen = Nil
NoGen     == /\ files = Nil /\ ref = Nil /\ pc = Nil /\ pkgpath = Nil
             /\ fd = Nil /\ path = Nil /\ d = Nil

Init ==
  \/ /\ plugin = "llm" /\ Llm!Init /\ message = Nil
     /\ NoRewrite /\ NoUprobe /\ NoFlow /\ NoNats /\ NoGen
  \/ /\ plugin = "rewrite" /\ Rewrite!Init /\ message = Nil
     /\ NoLlm /\ NoUprobe /\ NoFlow /\ NoNats /\ NoGen
  \/ /\ plugin = "uprobe" /\ Uprobe!Init /\ message = Nil /\ report = Nil
     /\ NoLlm /\ NoRewrite /\ NoFlow /\ NoNats /\ NoGen
  \/ /\ plugin = "flow" /\ Flow!Init /\ message = Nil
     /\ NoLlm /\ NoRewrite /\ NoUprobe /\ NoNats /\ NoGen
  \/ /\ plugin = "nats" /\ Nats!Init
     /\ NoLlm /\ NoRewrite /\ NoUprobe /\ NoFlow /\ NoGen
  \/ /\ plugin = "message" /\ Message!Init
     /\ NoLlm /\ NoRewrite /\ NoUprobe /\ NoFlow /\ NoNats /\ NoGen
  \/ /\ plugin = "generator" /\ Gen!Init /\ message = Nil /\ report = Nil
     /\ NoLlm /\ NoRewrite /\ NoUprobe /\ NoFlow /\ NoNats

Next ==
  /\ UNCHANGED plugin
  /\ \/ /\ plugin = "llm" /\ Llm!Next
        /\ UNCHANGED <<rewriteVars, uprobeVars, flowVars, natsVars, message, genVars>>
     \/ /\ plugin = "rewrite" /\ Rewrite!Next
        /\ UNCHANGED <<llmVars, uprobeVars, flowVars, natsVars, message, genVars>>
     \/ /\ plugin = "uprobe" /\ Uprobe!Next
        /\ UNCHANGED <<llmVars, rewriteVars, flowVars, natsVars, message, report, genVars>>
     \/ /\ plugin = "flow" /\ Flow!Next
        /\ UNCHANGED <<llmVars, rewriteVars, uprobeVars, natsVars, message, genVars>>
     \/ /\ plugin = "nats" /\ Nats!Next
        /\ UNCHANGED <<llmVars, rewriteVars, uprobeVars, flowVars, genVars>>
     \/ /\ plugin = "message" /\ Message!Next
        /\ UNCHANGED <<llmVars, rewriteVars, uprobeVars, flowVars, natsVars, genVars>>
     \/ /\ plugin = "generator" /\ Gen!Next
        /\ UNCHANGED <<llmVars, rewriteVars, uprobeVars, flowVars, natsVars, message, report>>

Spec == Init /\ [][Next]_vars

------------------------------------------------------------------------------
(* Properties *)

\* Every plugin's state is well typed; a time, a delay and a code are in their
\* range, and every call returned one of the answers it can return.
TypeOK ==
  /\ plugin = "llm"       => Llm!TypeOK
  /\ plugin = "rewrite"   => Rewrite!TypeOK
  /\ plugin = "uprobe"    => Uprobe!TypeOK
  /\ plugin = "flow"      => Flow!TypeOK
  /\ plugin = "nats"      => Nats!TypeOK
  /\ plugin = "message"   => Message!TypeOK
  /\ plugin = "generator" => Gen!TypeOK

\* An LLM answer is reported with its own time to the first token and its own
\* tokens (llm.go:113-190).
ReportIsOfItsAnswer == plugin = "llm" => Llm!ReportIsOfItsAnswer

\* An entry that counted something belongs to an open answer (llm.go:172, 195).
EntriesAreOpen == plugin = "llm" => Llm!EntriesAreOpen

\* A failure that arrived is reported: told by an HTTP body, with that body, as
\* a 500 if the code said 2xx and with the status of the code reported
\* (http_status_rewrite.go:165-189); told by a krpc code, with that code, be
\* the header around it cut (krpc.go:75-79); told by the value of a Dubbo
\* answer, as an error (dubbo.go:79-89).
FailuresSurface ==
  /\ plugin = "rewrite" => Rewrite!FailuresSurface
  /\ plugin = "flow"    => Flow!FailuresSurface
  /\ plugin = "message" => Message!FailuresSurface

\* Key and value of a uprobe record arrived (go_http2_uprobe.go:164-171).
KeyAndValueArrived == plugin = "uprobe" => Uprobe!KeyAndValueArrived

\* Only a negative or overflowing length of a uprobe record panics
\* (go_http2_uprobe.go:165-192).
OnlyBadLengthsPanic == plugin = "uprobe" => Uprobe!OnlyBadLengthsPanic

\* A krpc or DNS flow is claimed at a request, so that each of its packets is
\* reported as the side it is (krpc.go:136-146, dns.go:47-66).
SidesAreRight == plugin = "flow" => Flow!SidesAreRight

\* A NATS answer is reported with a function called on its inbox, and nothing
\* else is taken for an answer (nats.go:44-63).
AnswersFindTheirCall == plugin = "nats" => Nats!AnswersFindTheirCall

\* The generator resolves a reference to the message it names or stops, and
\* stops for the three reasons given there only (protoc-gen-demo/main.go:19-32,
\* 102-157).
ReferencesResolve == plugin = "generator" => Gen!ReferencesResolve

==============================================================================
