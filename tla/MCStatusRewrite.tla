--------------------------- MODULE MCStatusRewrite ---------------------------
(* Instance of StatusRewrite: codes on both sides of every boundary.       *)
EXTENDS StatusRewrite

MCCodes == {100, 199, 200, 204, 299, 300, 304, 399, 400, 404, 499, 500, 503}
MCFailures == {"FAIL"}
=============================================================================
