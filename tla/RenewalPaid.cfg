\* One request and the job; two sessions, two cycles, one fault.
CONSTANTS
  Proc = {p1}
  Session = {s1, s2}
  None = none
  Term = 2
  REMINDER_WINDOWS_DAYS = {0, 1}
  MaxCycle = 1
  MaxNow = 3
  MaxFaults = 1
  EagerPaymentIntent = TRUE
SPECIFICATION Spec
INVARIANTS RenewalsArePaid BooksAgree OverdueIsReminded
CHECK_DEADLOCK FALSE
