--------------------------- MODULE MCClientRecords --------------------------
(* ClientRecords on small sets. *)
EXTENDS ClientRecords
=============================================================================
