------------------------------ MODULE MCGenDemo ------------------------------
(* Instance of GenDemo: one file, with go_package of one to three parts.   *)
EXTENDS GenDemo

MCFileLists ==
  { <<[package |-> <<"pb">>, messages |-> {<<"OrderRequest">>},
       goPackage |-> g]>> : g \in {<<"path">>, <<".", "pb">>, <<"path", "go", "pb">>} }
==============================================================================
