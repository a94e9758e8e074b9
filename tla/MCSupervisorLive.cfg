SPECIFICATION FairSpec
CONSTANTS
  web = web
  one = one
  p1 = p1
  p2 = p2
  p3 = p3
  None = None
  Script <- MCOne
  Enabled <- MCNoScripts
  Policy <- MCOnePolicy
  Child <- MCTwoChildren
  MaxEvents = 0
CHECK_DEADLOCK FALSE
PROPERTIES
  CommandsEnd
  ShutdownEnds
