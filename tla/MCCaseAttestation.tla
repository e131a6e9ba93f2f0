------------------------- MODULE MCCaseAttestation -------------------------
(* CaseAttestation on small sets; updates and handlers are interchangeable. *)
EXTENDS CaseAttestation, TLC

Symmetry == Permutations(Handler) \cup Permutations(Update)
=============================================================================
