SPECIFICATION Spec
CONSTANTS
  h1 = h1
  h2 = h2
  t1 = t1
  t2 = t2
  t3 = t3
  t4 = t4
  Heads <- HeadSet
  Threads <- ThreadSet
  PageSize = 2
  MaxDiscussions = 3
  MaxPushes = 2
  MaxFaults = 1
SYMMETRY Symmetry
INVARIANTS
  RevisionHeld
  ListingIsWhole
