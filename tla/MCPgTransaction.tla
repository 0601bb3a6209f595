---------------------------- MODULE MCPgTransaction ----------------------------
(* PgTransaction with up to three calls: one that fails, one queued behind   *)
(* it, and one that comes between the two rollbacks.                         *)
EXTENDS PgTransaction, TLC

CONSTANTS c1, c2, c3

MCCalls == {c1, c2, c3}
TwoCalls == {c1, c2}

(* Not for the liveness run, where it would not be sound.                    *)
Symmetry == Permutations(MCCalls)
===============================================================================
