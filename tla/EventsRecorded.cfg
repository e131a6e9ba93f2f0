SPECIFICATION AttestationFairSpec
CONSTANTS
  Update = {u1,u2}
  NoUpdate = NoUpdate
  Handler = {h1,h2,h3}
  MaxUnanswered = 2
INVARIANTS AttestationTxIsCreation
PROPERTIES EventIsRecorded
CHECK_DEADLOCK FALSE
