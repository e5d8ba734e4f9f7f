------------------------------- MODULE NatsCalls -------------------------------
(***************************************************************************)
(* OnNatsMessage of the NATS plugin (example/nats/nats.go): the table from *)
(* reply subjects to the functions called, and the name an answer is       *)
(* reported with.                                                          *)
(*                                                                         *)
(* Callers publish requests with an inbox to answer to, those who serve    *)
(* them answer on it, perhaps more than once, and the plugin sees these    *)
(* messages in any order, some of them never, some twice and some cut: the *)
(* SDK hands over the fields that could be decoded (VtUnmarshal).          *)
(***************************************************************************)
EXTENDS FiniteSets

CONSTANTS
  Nil,       \* "", of a subject or a reply subject
  Methods,   \* subjects functions are called by
  Inboxes    \* reply subjects

VARIABLES
  kv,       \* the table
  calls,    \* the requests published: pairs of method and inbox
  seen,     \* those of them the plugin saw with both subjects
  message,  \* the subject and reply subject of the last message, as decoded
  report    \* the function and call id it was reported with, Nil when passed on

vars == <<kv, calls, seen, message, report>>

Calls == Methods \X Inboxes
Message == [subject: Methods \cup Inboxes \cup {Nil}, reply_to: Inboxes \cup {Nil}]
Report == [function: Methods, callId: Inboxes, isRequest: BOOLEAN]

NatsAssumption ==
  Methods \cap Inboxes = {} /\ Nil \notin Methods \cup Inboxes \cup Report

TypeOK ==
  /\ DOMAIN kv \subseteq Inboxes /\ \A i \in DOMAIN kv : kv[i] \in Methods
  /\ calls \subseteq Calls /\ seen \subseteq calls
  /\ message \in Message \cup {Nil}
  /\ report \in Report \cup {Nil}

Init ==
  /\ kv = [i \in {} |-> Nil]
  /\ calls = {} /\ seen = {}
  /\ message = Nil
  /\ report = Nil

------------------------------------------------------------------------------
Call(c) == calls' = calls \cup {c} /\ UNCHANGED <<kv, seen, message, report>>

\* A mutant: a request is kept by what it calls.
RememberByFunction(m) ==
  [f \in DOMAIN kv \cup {m.subject} |-> IF f = m.subject THEN m.reply_to ELSE kv[f]]

\* kv[callId] = function
Remember(m) ==
  [i \in DOMAIN kv \cup {m.reply_to} |-> IF i = m.reply_to THEN m.subject ELSE kv[i]]

OnRequest(m) ==
  /\ m.reply_to # Nil
  /\ kv' = Remember(m)
  /\ report' = [function |-> m.subject, callId |-> m.reply_to, isRequest |-> TRUE]

OnAnswer(m) ==
  /\ m.reply_to = Nil /\ m.subject \in DOMAIN kv
  /\ report' = [function |-> kv[m.subject], callId |-> m.subject, isRequest |-> FALSE]
  /\ UNCHANGED kv

OnOther(m) ==
  /\ m.reply_to = Nil /\ m.subject \notin DOMAIN kv
  /\ report' = Nil
  /\ UNCHANGED kv

OnNatsMessage(m) ==
  /\ OnRequest(m) \/ OnAnswer(m) \/ OnOther(m)
  /\ message' = m
  /\ UNCHANGED calls

\* The request of a call, all of it or its first fields.
SeeRequest(c) ==
  /\ c \in calls
  /\ \/ /\ OnNatsMessage([subject |-> c[1], reply_to |-> c[2]])
        /\ seen' = seen \cup {c}
     \/ /\ \E s \in {c[1], Nil} : OnNatsMessage([subject |-> s, reply_to |-> Nil])
        /\ UNCHANGED seen

\* An answer to a call, or a message that asks for none.
SeeAnswer(c) ==
  /\ c \in calls
  /\ OnNatsMessage([subject |-> c[2], reply_to |-> Nil])
  /\ UNCHANGED seen

SeePublished(s) ==
  /\ OnNatsMessage([subject |-> s, reply_to |-> Nil])
  /\ UNCHANGED seen

Next ==
  \/ \E c \in Calls : Call(c) \/ SeeRequest(c) \/ SeeAnswer(c)
  \/ \E s \in Methods : SeePublished(s)

Spec == Init /\ [][Next]_vars

------------------------------------------------------------------------------
(* Properties *)

\* The functions called with inbox i among the calls in cs.
CalledOn(cs, i) == {c[1] : c \in {c \in cs : c[2] = i}}

\* An answer is reported with a function that was called on its inbox, the
\* only one there was if there was one, and only if a request with that inbox
\* was seen; every answer after that request finds it, however many there are,
\* and neither a request cut before its reply subject nor a message that wants
\* no answer is taken for one (nats.go:44-63).
AnswersFindTheirCall ==
  message # Nil /\ message.reply_to = Nil =>
    IF CalledOn(seen, message.subject) = {} THEN report = Nil
    ELSE /\ report # Nil
         /\ report.function \in CalledOn(seen, message.subject)
         /\ report.callId = message.subject /\ ~report.isRequest

==============================================================================
