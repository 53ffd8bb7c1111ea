SPECIFICATION OnceSpec
CONSTANTS
  n1 = n1
  n2 = n2
  Node = {n1, n2}
  Strict = {}
  StaleTicks = 2
  GenericThreshold = 1
  StrictThreshold = 1
  BootAnchored = FALSE
  MaxTasks = 1
  MaxFrames = 1
PROPERTY GoneIsForgotten
