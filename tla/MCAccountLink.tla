--------------------------- MODULE MCAccountLink ---------------------------
(* Values of AccountLink's constants for the model checker. *)
EXTENDS AccountLink, TLC

CONSTANTS u1, u2, a1, a2

\* Each user reads the mail of one account.
ReaderEach == [a \in Accounts |-> IF a = a1 THEN u1 ELSE u2]
=============================================================================
