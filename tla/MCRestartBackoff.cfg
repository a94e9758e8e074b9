SPECIFICATION FairSpec
CONSTANT
  Policies = {"never", "on-failure"}
CHECK_DEADLOCK FALSE
INVARIANTS
  TypeOK
  NoRestartStorm
PROPERTY
  CrashIsRetried
