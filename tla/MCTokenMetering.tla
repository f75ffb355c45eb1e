--------------------------- MODULE MCTokenMetering ---------------------------
(* Callers of one job, so that they may be permuted.                        *)
EXTENDS TokenMetering, TLC

CONSTANTS job
OneJob == [c \in Callers |-> job]
CallerSymmetry == Permutations(Callers)
=============================================================================
