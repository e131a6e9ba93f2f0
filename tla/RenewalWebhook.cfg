\* The owner pays and does not come back to the success page.
CONSTANTS
  Proc = {p1}
  Session = {s1}
  None = none
  Term = 1
  REMINDER_WINDOWS_DAYS = {0}
  MaxCycle = 0
  MaxNow = 1
  MaxFaults = 0
  EagerPaymentIntent = FALSE
SPECIFICATION FairSpec
PROPERTY PaidIsRenewed
CHECK_DEADLOCK FALSE
