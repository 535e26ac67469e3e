--------------------------- MODULE MCAsyncRuntime ---------------------------
(***************************************************************************)
(* Instances of AsyncRuntime for TLC.                                       *)
(***************************************************************************)
EXTENDS AsyncRuntime, TLC

Symmetry == Permutations(Clients)

\* A bound for liveness: one thread submits, all may sync, wait and shut down.
\* Fairness never asks for a submission, so that the bound does not clash with it.
Submitter  == CHOOSE c \in Clients : TRUE
OneSubmits == \A c \in Clients \ {Submitter} : pc'[c] # "enq_check"
LiveSpec   == Init /\ [][Next /\ OneSubmits]_vars /\ Fairness
=============================================================================
