SPECIFICATION Spec
CONSTANTS
  u1 = u1
  u2 = u2
  bus = bus
  null = null
  orphan = orphan
  MAX_CHATS = 2
  Users <- MCUsers
  Bus = bus
  Null = null
  Orphan = orphan
SYMMETRY Symmetry
INVARIANTS NothingLeft ParentsOutlive ChatReadyWhenUsed
