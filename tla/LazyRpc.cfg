SPECIFICATION FairSpec
CONSTANTS
  l1 = l1
  l2 = l2
  l3 = l3
  Loop = {l1,l2,l3}
  MaxSpawns = 3
  MaxReleases = 2
CHECK_DEADLOCK FALSE
INVARIANT TypeOK
INVARIANT HoldsAreHonoured
PROPERTY IsSharedServer
PROPERTY ReleasedIsTornDown
