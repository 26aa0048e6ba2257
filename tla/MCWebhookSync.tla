--------------------------- MODULE MCWebhookSync ---------------------------
(***************************************************************************)
(* A small instance of WebhookSync for TLC: two overlapping runs, two      *)
(* webhooks of one account, one of which its users edit.                   *)
(***************************************************************************)
EXTENDS WebhookSync, TLC

CONSTANTS h1, h2, a1, dev, prod

MCTarget == [s \in Scripts |-> s]
MCOwnerOf == [h \in Hooks |-> a1]
MCMaxEdits == [h \in Hooks |-> IF h = h1 THEN 1 ELSE 0]

\* Runs are interchangeable, with their targets.
Symmetry == Permutations(Scripts)
=============================================================================
