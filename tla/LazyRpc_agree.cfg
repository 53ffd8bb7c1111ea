SPECIFICATION Spec
CONSTANTS
  l1 = l1
  Loop = {l1}
  MaxSpawns = 2
  MaxReleases = 2
CHECK_DEADLOCK FALSE
INVARIANT ReadyAgrees
