SPECIFICATION Spec
CONSTANTS
  Capacity = 2
  MaxMessages = 4
  MaxCheckpoints = 2
CHECK_DEADLOCK FALSE
INVARIANTS
  TypeOK
  LossHasACause
  MarkedIsStored
  AllOrNothing
PROPERTY
  KeepsJournal
