SPECIFICATION Spec
CONSTANTS
  h1 = h1
  h2 = h2
  h3 = h3
  h4 = h4
  null = null
  Handles <- MCHandles
  Requests = {1, 2, 3, 4, 16}
  blocks_count = 16
  Null = null
SYMMETRY Symmetry
INVARIANTS Tiling LeftBlocksFound BlocksHoldRequest
CHECK_DEADLOCK FALSE
