-------------------------- MODULE MCFilingPayment --------------------------
(* FilingPayment on small sets; requests are interchangeable, and so are   *)
(* Checkout sessions: no action and no safety property tells them apart.   *)
EXTENDS FilingPayment, TLC

Symmetry == Permutations(Proc) \cup Permutations(Session)
=============================================================================
