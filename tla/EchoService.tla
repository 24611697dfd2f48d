----------------------------- MODULE EchoService -----------------------------
(***************************************************************************)
(* What a session and the echo server promise together: a queue of         *)
(* requests, answered one by one in their order, each once, until the      *)
(* session is over.  An answer repeats the number and the payload of its   *)
(* request; no pipe, no frame, no length.                                  *)
(***************************************************************************)
EXTENDS Naturals, Sequences

CONSTANT Contents   \* what a request carries: a number and a payload

VARIABLES
  asked,      \* requests
  answered,   \* answers
  over        \* no more answers are owed

vars == <<asked, answered, over>>

Init == asked = <<>> /\ answered = <<>> /\ over = FALSE

Ask ==
  /\ Len(asked') = Len(asked) + 1
  /\ asked'[Len(asked')] \in Contents
  /\ asked' = Append(asked, asked'[Len(asked')])
  /\ UNCHANGED <<answered, over>>

\* The next request, and not another, is answered.
Answer ==
  /\ Len(answered) < Len(asked)
  /\ answered' = Append(answered, asked[Len(answered) + 1])
  /\ UNCHANGED <<asked, over>>

End ==
  /\ ~over
  /\ over' = TRUE
  /\ UNCHANGED <<asked, answered>>

Next == Ask \/ Answer \/ End

Spec == Init /\ [][Next]_vars

\* What is owed is delivered.
FairSpec == Spec /\ WF_vars(~over /\ Answer)
=============================================================================
