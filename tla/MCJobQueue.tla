----------------------------- MODULE MCJobQueue -----------------------------
(* Values of JobQueue's constants for the model checker. *)
EXTENDS JobQueue, TLC

CONSTANTS j1, j2, j3, b1, b2, b3

\* One row may be retried once more, one has no retry at all.
TwoRetriesAndNone == [j \in Jobs |-> IF j = j1 THEN 2 ELSE 0]

BotSymmetry == Permutations(Bots)
=============================================================================
