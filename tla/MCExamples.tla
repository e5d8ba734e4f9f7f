------------------------------ MODULE MCExamples ------------------------------
(* Instance of Examples: two flows of LLM answers, HTTP codes on both      *)
(* sides of every boundary, lengths of 32 bits scaled to seven, two NATS   *)
(* methods and inboxes, and files of packages that begin alike.            *)
EXTENDS Examples, Sequences

CONSTANTS f1, f2, m1, m2, i1, i2

MCFlows == {f1, f2}
MCMethods == {m1, m2}
MCInboxes == {i1, i2}

MCHttpCodes == {100, 199, 200, 204, 299, 300, 304, 399, 400, 404, 499, 500, 503}

\* Lengths that fit, that lie by a little, and around the sign bit and the
\* top of the word.
MCLengths == {0, 1, 4, 5, 6, 12, 20, 30, 40, 47, 48, 55, 56, 63, 64, 65, 100, 112, 127}

MCRetCodes == {-1, 0, 1}
MCBodyCodes == {-1, 0, 399, 400, 499, 500}

\* Packages <<>>, a, a.b and a.b.c with messages m, m.n, m.n.o, b and b.m, of
\* which those that protoc would refuse are left out; a go_package of one part
\* to three, of two or three only where the files are no more than two.
MCFiles ==
  [ package: {<<>>, <<"a">>, <<"a", "b">>, <<"a", "b", "c">>},
    messages: { {<<"m">>}, {<<"b">>, <<"b", "m">>},
                {<<"m">>, <<"m", "n">>, <<"m", "n", "o">>}, {<<"n">>} },
    goPackage: {<<"path">>, <<"path", "go">>, <<"path", "go", "x">>} ]

MCFileLists ==
  {<<f>> : f \in MCFiles} \cup {<<f, g>> : f, g \in MCFiles}
    \cup { <<f, g, h>> : f, g, h \in {x \in MCFiles : Len(x.goPackage) = 1} }
==============================================================================
