\* Two requests at a time over the program, the chat and the documents.
CONSTANTS
  Wallet = {w1, w2}
  Content = {c1}
  Proc = {p1, p2}
  Doc = {d1, d2}
  NoDoc = noDoc
  Need = {n1, n2, n3}
  MaxRequests = 3
  MaxFaults = 1
SPECIFICATION FairSpec
INVARIANTS ReportedIsOnChain OneAnswerUnlessCrossed RequirementFollowsDocument
PROPERTIES PaidIsAnswered
CHECK_DEADLOCK FALSE
