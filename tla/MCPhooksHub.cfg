SPECIFICATION FairSpec
CONSTANTS
  c1 = c1
  c2 = c2
  e1 = e1
  None = None
  Client <- MCClient
  Event <- MCEvent
  StaleTicks = 1
  MaxLetters <- MCMaxLetters
  MaxPort = 2
  MaxEmits = 1
CHECK_DEADLOCK FALSE
INVARIANTS
  TypeOK
  SubscribersAreRegistered
  LastLetterWins
  DeafHasACause
PROPERTIES
  GoneAreForgotten
