SPECIFICATION Spec
CONSTANTS
  web = web
  one = one
  p1 = p1
  p2 = p2
  p3 = p3
  None = None
  Script <- MCWeb
  Enabled <- MCWeb
  Policy <- MCWebPolicy
  Child <- MCThreeChildren
  MaxEvents = 1
CHECK_DEADLOCK FALSE
VIEW View
SYMMETRY ChildSymmetry
INVARIANTS
  TypeOK
  NoLostChild
  CleanExit
  OnePerLauncher
  ConsoleStopSticks
PROPERTY
  KeepsScripts
