----------------------------- MODULE MCRenewal -----------------------------
(* Renewal on small sets. *)
EXTENDS Renewal, TLC
=============================================================================
