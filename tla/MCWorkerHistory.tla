-------------------------- MODULE MCWorkerHistory --------------------------
(***************************************************************************)
(* Small instances of WorkerHistory for TLC.                               *)
(***************************************************************************)
EXTENDS WorkerHistory, TLC

CONSTANTS m1, m2, w1, w2

DistinctIDs == [m \in Messages |-> m]
NoneMalformed == {}
Symmetry == Permutations(Workers)
CostFaults == ("db" :> 3) @@ ("crash" :> 0) @@ ("disconnect" :> 1) @@ ("signal" :> 1)
=============================================================================
