--------------------------- MODULE MCUkipoFiling ---------------------------
(* UkipoFiling on small sets. *)
EXTENDS UkipoFiling, TLC

\* The pages on which a robot that lags behind could meet a stray checkbox.
StrayCheckboxes == {7, 12}
=============================================================================
