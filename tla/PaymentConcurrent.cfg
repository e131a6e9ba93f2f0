SPECIFICATION Spec
CONSTANTS
  Session = {s1}
  NoSession = NoSession
  Proc = {p1,p2}
  NoProc = NoProc
  MaxEdits = 1
  MaxAborts = 1
  MaxLost = 1
  MaxTroubles = 2
  EagerPaymentIntent = FALSE
  DictPayloads = TRUE
  VerifierEnabled = TRUE
INVARIANTS PaidBeforeActing RefundsBacked NoPhantomFiling
PROPERTIES ImplementsLedger
SYMMETRY Symmetry
CHECK_DEADLOCK FALSE
