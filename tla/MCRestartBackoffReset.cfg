SPECIFICATION FairSpec
CONSTANT
  Policies = {"never", "on-failure"}
CHECK_DEADLOCK FALSE
PROPERTY
  ResetsWhenStable
