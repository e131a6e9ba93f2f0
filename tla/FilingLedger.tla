---------------------------- MODULE FilingLedger ----------------------------
(***************************************************************************)
(* What the payment lane promises about money and filings, whatever the    *)
(* interleaving of requests, events and crashes: nothing is filed, proved  *)
(* on chain or opened as a case before money for the filing was captured;  *)
(* only captured money is refunded; nothing of this is ever undone.        *)
(***************************************************************************)
EXTENDS Naturals

CONSTANTS
  Payment,        \* payments the customer may make for the filing
  ProofRequired   \* a case is opened only after a compliance proof

VARIABLES
  captured,   \* payments whose money was captured
  returned,   \* payments whose money was returned
  filings,    \* number of applications at the IP office
  proofs,     \* payments a compliance record on chain is bound to
  opened      \* is there a case?

ledger == <<captured, returned, filings, proofs, opened>>

Init ==
  /\ captured = {} /\ returned = {} /\ proofs = {}
  /\ filings = 0
  /\ opened = FALSE

Capture(m) ==
  /\ captured' = captured \cup {m}
  /\ UNCHANGED <<returned, filings, proofs, opened>>

Return(m) ==
  /\ m \in captured
  /\ returned' = returned \cup {m}
  /\ UNCHANGED <<captured, filings, proofs, opened>>

File ==
  /\ captured # {}
  /\ filings' = filings + 1
  /\ UNCHANGED <<captured, returned, proofs, opened>>

Prove(m) ==
  /\ m \in captured
  /\ proofs' = proofs \cup {m}
  /\ UNCHANGED <<captured, returned, filings, opened>>

OpenCase ==
  /\ captured # {}
  /\ ProofRequired => proofs # {}
  /\ opened' = TRUE
  /\ UNCHANGED <<captured, returned, filings, proofs>>

Next ==
  \/ \E m \in Payment : Capture(m) \/ Return(m) \/ Prove(m)
  \/ File \/ OpenCase

Spec == Init /\ [][Next]_ledger
=============================================================================
