------------------------------ MODULE PutService ------------------------------
(***************************************************************************)
(* What the fork server promises a client: it runs the program under test  *)
(* once for each request, one request at a time, and answers a request     *)
(* with the way that very run ended - never twice, never out of order,     *)
(* never before the end.  It does not promise to answer: the service may   *)
(* be lost at any time.                                                    *)
(***************************************************************************)
EXTENDS Naturals, Sequences

CONSTANTS
  MaxRuns,   \* bound: requests of a client
  Outcomes,  \* the ways a run may end, as a client is told
  NoOutcome  \* of a run that has not ended

VARIABLES
  requests,  \* requests made so far
  outcome,   \* [1 .. MaxRuns -> Outcomes \union {NoOutcome}]
  answers,   \* what the client was told, in order
  attached   \* the client is there to ask and to be told

vars == <<requests, outcome, answers, attached>>

Init ==
  /\ requests = 0
  /\ outcome = [r \in 1 .. MaxRuns |-> NoOutcome]
  /\ answers = <<>>
  /\ attached = TRUE

\* A new request, when the last one has been answered.
Request ==
  /\ attached
  /\ Len(answers) = requests
  /\ requests < MaxRuns
  /\ requests' = requests + 1
  /\ UNCHANGED <<outcome, answers, attached>>

\* The run that was asked for last ends, whether or not the client is there.
Finish(o) ==
  /\ requests > 0
  /\ outcome[requests] = NoOutcome
  /\ outcome' = [outcome EXCEPT ![requests] = o]
  /\ UNCHANGED <<requests, answers, attached>>

Answer ==
  /\ attached
  /\ Len(answers) < requests
  /\ outcome[requests] # NoOutcome
  /\ answers' = Append(answers, outcome[requests])
  /\ UNCHANGED <<requests, outcome, attached>>

Detach ==
  /\ attached
  /\ attached' = FALSE
  /\ UNCHANGED <<requests, outcome, answers>>

\* One event may end the run and the client's presence together.
FinishAndDetach(o) ==
  /\ attached
  /\ attached' = FALSE
  /\ requests > 0
  /\ outcome[requests] = NoOutcome
  /\ outcome' = [outcome EXCEPT ![requests] = o]
  /\ UNCHANGED <<requests, answers>>

Next ==
  \/ Request
  \/ \E o \in Outcomes : Finish(o) \/ FinishAndDetach(o)
  \/ Answer
  \/ Detach

Spec == Init /\ [][Next]_vars
===============================================================================
