------------------------------ MODULE MCBraid ------------------------------
(* Braid on small sets. *)
EXTENDS Braid, TLC

\* Log-odds that one or two outcomes reach.
Skip == -400
Floor == -900
Ceiling == 900

Symmetry == Permutations(Proc)
=============================================================================
