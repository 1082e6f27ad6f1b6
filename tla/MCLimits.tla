------------------------------ MODULE MCLimits ------------------------------
(* The connections of the user are interchangeable.                        *)
EXTENDS Limits, TLC

CONSTANTS c1, c2

MCConns == {c1, c2}
Interchangeable == Permutations(MCConns)
=============================================================================
