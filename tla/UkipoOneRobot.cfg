\* One run request at a time; a wallet that pays twice, and the card, at once.
CONSTANTS
  CheckboxPages <- StrayCheckboxes
  Request = {r1}
  Task = {t1, t2}
  NoTask = noTask
  Wallet = {w1}
  Operator = operator
  Session = {cs1}
  Nothing = nothing
  MaxTransfers = 2
  MaxDuplicates = 1
  MaxFaults = 1
  VerifierEnabled = TRUE
SPECIFICATION FairSpec
INVARIANTS FiledIsPaidAndProved RunningHasRobot
PROPERTIES PaidIsFiled LedgerSpec
CHECK_DEADLOCK FALSE
