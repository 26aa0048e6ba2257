------------------------------ MODULE MCIntake ------------------------------
(***************************************************************************)
(* A small instance of Intake for TLC: an account of three webhooks, one   *)
(* more than fit on a page, and one of none.                               *)
(***************************************************************************)
EXTENDS Intake, TLC

CONSTANTS h1, h2, h3, c1, c2, a1, a2

MCOwnerOf == [h \in Hooks |-> a1]
MCAccountOf == c1 :> a1 @@ c2 :> a2
MCClockSteps == {-1, 2}
MCClients == Configured \cup Hooks \cup {Unknown} \cup Claims

\* Each client has a limit of its own: once the clock has moved, one client's
\* requests are enough.
OneClientOverTime ==
    now # 0 \/ elapsed # 0 =>
        Cardinality({c \in Clients : admitted[c] # <<>>}) <= 1

\* The webhooks are interchangeable.
Symmetry == Permutations(Hooks)
=============================================================================
