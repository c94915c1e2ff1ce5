------------------------------ MODULE Exchange ------------------------------
(***************************************************************************)
(* What one accepted connection promises its client and the access log:    *)
(* at most one answer, one access entry for each answer and none without,  *)
(* and then the connection is closed for good.                             *)
(***************************************************************************)
EXTENDS Naturals

CONSTANT Answers        \* the kinds of answer a request can get

VARIABLES stage,        \* "open", "answered" or "closed"
          answer,       \* the answer written, or "none"
          entries       \* access log entries of the connection

exchangeVars == <<stage, answer, entries>>

Init == stage = "open" /\ answer = "none" /\ entries = 0

Answer == /\ stage = "open"
          /\ stage' = "answered"
          /\ answer' \in Answers
          /\ entries' = 1

HangUp == /\ stage # "closed"
          /\ stage' = "closed"
          /\ UNCHANGED <<answer, entries>>

Next == Answer \/ HangUp

Spec == Init /\ [][Next]_exchangeVars /\ WF_exchangeVars(HangUp)
=============================================================================
