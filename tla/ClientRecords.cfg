\* An account with an email and one of a wallet; two requests at a time; of the office, two calls
\* and a login.
CONSTANTS
  User = {u1, w1}
  NoUser = noUser
  WalletUser = {w1}
  Case = {c1}
  Org = {o1, o2}
  NoOrg = noOrg
  Invite = {i1}
  Admin = {u1}
  Proposal = {k1}
  Signature = {s1}
  Notice = {n1, n2}
  Proc = {p1, p2}
  Lane = {"account", "org", "agreement", "notice", "euipo"}
  MaxRequests = 3
  MaxFaults = 1
  MaxRetries = 2
  EuipoCall = {q1, q2}
  MaxRecorded = 1
  MaxCalls = 2
  MaxLogins = 1
  MaxEuipoFaults = 1
SPECIFICATION Spec
INVARIANTS ErasedStaysErased SecondFactorHolds TakenOnce NoticeIsAsRecorded SessionIsKept
PROPERTIES OutcomeStands SignedReachesRow CallReturns
CHECK_DEADLOCK FALSE
