CONSTANTS
  o1 = o1
  o2 = o2
  o3 = o3
  NoBlock = NoBlock
  Owners <- ThreeOwners
  Lens = {3, 7, 9}
  GRAIN = 4
  SMALL_MAX = 8
  SEG_BITS = 2
  OFF_BITS = 3
  MIN_SEGMENT = 16
  MAX_SEGMENT = 32
  GROWTH = 1
  REFUSED_ROOMS = {0, 1}
SPECIFICATION Spec
INVARIANT LiveDisjoint
