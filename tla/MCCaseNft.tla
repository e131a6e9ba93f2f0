----------------------------- MODULE MCCaseNft -----------------------------
(* CaseNft on small sets; mints are interchangeable, and so are processes. *)
EXTENDS CaseNft, TLC

Symmetry == Permutations(Proc) \cup Permutations(Mint)
=============================================================================
