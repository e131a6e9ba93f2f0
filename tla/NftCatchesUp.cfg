SPECIFICATION FairSpec
CONSTANTS
  Mint = {m1,m2}
  NoMint = NoMint
  Proc = {p1,p2}
  MaxSetups = 1
  MaxPatches = 2
  MaxLost = 1
  MaxRestarts = 1
INVARIANTS RowFollowsChain
PROPERTIES MintReachesRow
CHECK_DEADLOCK FALSE
