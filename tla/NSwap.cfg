SPECIFICATION Spec
CONSTANTS
  c1 = c1
  c2 = c2
  x = x
  y = y
  CPUs <- MCCPUs
  Requests <- MCRequests
  nr_sectors = 2
  MaxRequests = 3
  Byte <- MCByte
  Zero = Zero
  Torn = Torn
  Idle = Idle
INVARIANTS DeviceWhileServing AllReleased NoByteLost
PROPERTIES RequestsEnd ExitFinishes
