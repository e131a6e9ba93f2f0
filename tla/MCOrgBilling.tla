---------------------------- MODULE MCOrgBilling ----------------------------
(* OrgBilling on small sets. *)
EXTENDS OrgBilling, TLC
=============================================================================
