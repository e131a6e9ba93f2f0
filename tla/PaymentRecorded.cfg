SPECIFICATION FairSpec
CONSTANTS
  Session = {s1,s2}
  NoSession = NoSession
  Proc = {p1}
  NoProc = NoProc
  MaxEdits = 1
  MaxAborts = 1
  MaxLost = 1
  MaxTroubles = 1
  EagerPaymentIntent = FALSE
  DictPayloads = TRUE
  VerifierEnabled = FALSE
INVARIANTS FiledOnceInBooks OneConfirmationPerPayment
PROPERTIES PaymentIsRecorded
CHECK_DEADLOCK FALSE
