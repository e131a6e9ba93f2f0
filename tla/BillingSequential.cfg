\* One request of each kind at a time; two subscriptions, events in any order.
CONSTANTS
  Handler = {h1}
  Buyer = {b1}
  Sub = {s1, s2}
  Customer = {c1, c2}
  Null = null
  MaxSessions = 1
  MaxChanges = 3
  MaxRepeats = 1
SPECIFICATION BillingFairSpec
INVARIANTS RowWasReal PortalReachesSubscription
PROPERTY PaidGetsPlan
CHECK_DEADLOCK FALSE
