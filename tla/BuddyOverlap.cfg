SPECIFICATION Spec
CONSTANTS
  h1 = h1
  h2 = h2
  h3 = h3
  h4 = h4
  null = null
  Handles <- MCHandles
  Requests = {1, 2, 3, 8}
  blocks_count = 15
  Null = null
INVARIANT LiveBlocksDisjoint
CHECK_DEADLOCK FALSE
