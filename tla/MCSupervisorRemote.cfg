SPECIFICATION FairSpec
CONSTANTS
  web = web
  one = one
  p1 = p1
  p2 = p2
  p3 = p3
  None = None
  Script <- MCWeb
  Enabled <- MCWeb
  Policy <- MCWebPolicy
  Child <- MCTwoChildren
  MaxEvents = 0
CHECK_DEADLOCK FALSE
PROPERTY
  RemoteStopSticks
