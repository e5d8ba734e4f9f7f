----------------------------- MODULE MCLlmStream -----------------------------
(* Instance of LlmStream: one flow and 2^64 scaled to 16.                  *)
EXTENDS LlmStream

CONSTANT f1

MCFlows == {f1}
=============================================================================
