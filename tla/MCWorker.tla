------------------------------ MODULE MCWorker ------------------------------
(***************************************************************************)
(* Small instances of Worker for TLC.                                      *)
(***************************************************************************)
EXTENDS Worker, TLC

CONSTANTS m1, m2, w1, w2, id

DistinctIDs == [m \in Messages |-> m]
NoneMalformed == {}
SecondMalformed == {m2}

FaultBudget(db, crash, disconnect, signal) ==
    ("db" :> db) @@ ("crash" :> crash)
        @@ ("disconnect" :> disconnect) @@ ("signal" :> signal)

StallFaults == FaultBudget(1, 1, 2, 1)
AllFaults == FaultBudget(3, 1, 1, 1)
=============================================================================
