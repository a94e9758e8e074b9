SPECIFICATION FairSpec
CONSTANTS
  ann = ann
  bob = bob
  c1 = c1
  c2 = c2
  None = None
  Player <- MCPlayer
  Call <- MCTwoCalls
  Request <- MCRequest
  RetryCount = 2
  Start <- MCStart
CHECK_DEADLOCK FALSE
INVARIANTS
  TypeOK
  LedgerExplainsBalance
  ExactlyOnceUnlessLost
  TrueWasDone
PROPERTIES
  OverdrawnOnlyByNegativeAmounts
  KeepsPromise
  CallsReturn
