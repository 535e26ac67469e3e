------------------------- MODULE MCOperatorDispatch -------------------------
(***************************************************************************)
(* Instances of OperatorDispatch for TLC.                                   *)
(***************************************************************************)
EXTENDS OperatorDispatch

MCTensors  == 1..3
MCStorages == 1..3
Promised   == strayed = {}

\* What no later step reads is left out: cells no tensor names, what the last
\* task read, the last sync's record.
Live == {cell[t] : t \in Kept}
View3 == <<accepted, finished, error, call, IF call[Python] = "none" THEN 0 ELSE since,
          q, wpc, wpc = "run" /\ right, mode, pc, todo, py, st, mem, arrived, ready,
          ops, cell, [c \in Live |-> val[c]], strayed>>
=============================================================================
