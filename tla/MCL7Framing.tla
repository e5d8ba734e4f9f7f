---------------------------- MODULE MCL7Framing ----------------------------
(* Instance of L7Framing with the real buffer size and sizes at its edges. *)
EXTENDS L7Framing, SequencesExt

CONSTANTS tiny, half, full, over   \* bodies

\* Two halves and their headers fill the buffer exactly; full does so alone;
\* over is one byte too long even alone.
MCBodies == {tiny, half, full, over}
MCSizeVT == [b \in MCBodies |->
  CASE b = tiny -> 10 [] b = half -> 32764 [] b = full -> 65532 [] OTHER -> 65533]

\* Every combination of halves in a small body, both halves in the large ones.
MCInfos ==
  { [req |-> r, resp |-> s, protocolMerge |-> FALSE, isEnd |-> FALSE,
     body |-> tiny] : r \in BOOLEAN, s \in {Nil, [status |-> Nil], [status |-> 3]} }
  \cup
  { [req |-> TRUE, resp |-> [status |-> 1], protocolMerge |-> TRUE,
     isEnd |-> TRUE, body |-> b] : b \in {half, full, over} }

MCInfoLists == SeqOf(MCInfos, 3)
=============================================================================
