--------------------------- MODULE MCProofRequests --------------------------
(* ProofRequests on small sets. *)
EXTENDS ProofRequests, TLC
=============================================================================
