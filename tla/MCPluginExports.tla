-------------------------- MODULE MCPluginExports --------------------------
(* Instance of PluginExports: a parser of each kind the examples show.     *)
EXTENDS PluginExports

CONSTANTS small, large   \* an info that fits twice, one that never does

MCBodies   == {small, large}
MCSizeVT   == [b \in MCBodies |-> IF b = small THEN 20 ELSE 100]
MCPayloads == {<<>>, <<1>>, <<2>>}

MCParser(own, wired) == [own |-> own, wired |-> wired, reuses |-> FALSE]

\* Every method, none, and OnNatsMessage with and without the Parser field.
MCParsers ==
  { MCParser(Methods, TRUE), MCParser({}, FALSE), MCParser({}, TRUE),
    MCParser({"OnNatsMessage"}, TRUE), MCParser({"OnNatsMessage"}, FALSE) }

MCReusing == { [MCParser({"OnHttpResp"}, TRUE) EXCEPT !.reuses = TRUE] }

MCTwoSided(body) == Info(TRUE, [status |-> 3], body)

MCInfoLists ==
  { <<>>, <<MCTwoSided(small)>>, <<MCTwoSided(small), Info(TRUE, Nil, small)>>,
    <<MCTwoSided(small), MCTwoSided(large)>> }

MCChecks == [protoNum: {0, 1, 255}, len: {0, 16, 17}, direction: {0, 1, 255}]
=============================================================================
