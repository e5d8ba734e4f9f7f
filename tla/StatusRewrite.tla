---------------------------- MODULE StatusRewrite ----------------------------
(***************************************************************************)
(* onResp of the status rewrite plugin                                     *)
(* (example/http_status_rewrite/http_status_rewrite.go): the code and the  *)
(* status an HTTP response is reported with, decided by the OPT_STATUS in  *)
(* its JSON body, which may arrive cut short.                              *)
(*                                                                         *)
(* A body is what the server wrote and how much of it the payload holds;   *)
(* gzip and the JSON library are external.                                 *)
(***************************************************************************)
EXTENDS Integers

CONSTANTS
  Nil,       \* no such key, or not reported
  Codes,     \* HTTP codes
  Failures   \* values of OPT_STATUS other than "SUCCESS"

RewriteAssumption ==
  /\ Codes \subseteq Nat
  /\ \A w \in Failures : w \notin {Nil, "SUCCESS", "number", ""}
  /\ Nil \notin {"SUCCESS", "number", ""}

\* The value of OPT_STATUS the server wrote, if any; "number" for one that is
\* not a string and "" for an empty one.
Written == Failures \cup {"SUCCESS", "number", "", Nil}

\* How much arrived.  value: cut inside the value; closed: cut behind it;
\* whole: the JSON is complete; empty: no body at all, or not gzip.
Arrived == {"empty", "before", "value", "closed", "whole"}

\* starts: the body begins with {"OPT_STATUS":" to the byte.
Body == [written: Written, starts: BOOLEAN, arrived: Arrived]

VARIABLES
  code,    \* the code of the response
  body,    \* its body
  report   \* the code, status and result reported, Nil before the call

vars == <<code, body, report>>

Status == {"ok", "client_error", "server_error"}

TypeOK ==
  /\ code \in Codes
  /\ body \in Body
  /\ report \in [code: Nat, status: Status, result: BOOLEAN] \cup {Nil}

\* net/http gives these responses no body.
Bodiless(c) == c < 200 \/ c \in {204, 304}

\* A body that starts so has a string there.
Init ==
  /\ code \in Codes
  /\ body \in {b \in Body : b.starts => b.written \notin {"number", Nil}}
  /\ Bodiless(code) => body.arrived = "empty"
  /\ report = Nil

------------------------------------------------------------------------------
getStatus(c) ==
  IF c >= 200 /\ c < 400 THEN "ok"
  ELSE IF c >= 400 /\ c < 500 THEN "client_error" ELSE "server_error"

\* Mutants: only a rewritten response gets a status; the status is decided
\* before the code is rewritten.
ReportWithoutStatus(c, withBody) ==
  [code |-> c, status |-> IF withBody THEN getStatus(c) ELSE Nil, result |-> withBody]
ReportOfOriginal(c, withBody) ==
  [code |-> c, status |-> getStatus(code), result |-> withBody]

Report(c, withBody) == [code |-> c, status |-> getStatus(c), result |-> withBody]

NormalResp == report = Nil /\ report' = Report(code, FALSE) /\ UNCHANGED <<code, body>>

\* json.Unmarshal takes a complete text only.
FromJson == IF body.arrived = "whole" THEN body.written ELSE Nil

NoBody == body.arrived = "empty" /\ NormalResp

NotAString == FromJson = "number" /\ NormalResp

\* status == "": no key, an empty value, or a text that is not complete.
Scans == body.arrived # "empty" /\ FromJson \in {Nil, ""}

HasStart == body.starts /\ body.arrived # "before"

NotOurs == Scans /\ ~HasStart /\ NormalResp

\* The bytes up to the next quote, or "" when the value is cut.
Scanned == IF body.arrived = "value" THEN "" ELSE body.written

status == IF Scans THEN Scanned ELSE FromJson

\* A mutant: 200 itself is not among the successes.
RewriteAbove200(c) == IF c > 200 /\ c < 300 THEN 500 ELSE c

Rewrite(c) == IF c >= 200 /\ c < 300 THEN 500 ELSE c

Rewritten ==
  /\ report = Nil
  /\ body.arrived # "empty" /\ FromJson # "number"
  /\ Scans => HasStart
  /\ report' = IF status = "SUCCESS" THEN Report(code, FALSE)
               ELSE Report(Rewrite(code), TRUE)
  /\ UNCHANGED <<code, body>>

Next == NoBody \/ NotAString \/ NotOurs \/ Rewritten

Spec == Init /\ [][Next]_vars

------------------------------------------------------------------------------
(* Properties *)

\* The plugin can know that the server wrote w: the JSON is complete, or the
\* value at its start is.
Told(w) ==
  /\ body.written = w
  /\ body.arrived = "whole" \/ (body.arrived = "closed" /\ body.starts)

\* A failure the body tells of goes out with that body, and as a 500 if its
\* code said 2xx; SUCCESS keeps the code and goes without; and the status is
\* the one of the code that goes out, not of the code that came, so a failure
\* told by a 200 counts among the errors (http_status_rewrite.go:75-80,
\* 165-189).  What becomes of a failure with another code is left open: the
\* comment makes it a 500 (line 76), the code leaves it (line 173).
FailuresSurface ==
  report # Nil =>
    /\ \A w \in Failures : Told(w) =>
         report.result /\ (code >= 200 /\ code < 300 => report.code = 500)
    /\ Told("SUCCESS") => ~report.result /\ report.code = code
    /\ report.status = "ok" <=> report.code >= 200 /\ report.code < 400
    /\ report.status = "client_error" <=> report.code >= 400 /\ report.code < 500

\* "OPT_STATUS": "SUCCESS" is success (http_status_rewrite.go:75): such a
\* response is not reported as a failure it was not.
SuccessStaysSuccess ==
  report # Nil /\ body.written = "SUCCESS" => report.code = code

==============================================================================
