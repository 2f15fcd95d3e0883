SPECIFICATION Spec
CONSTANTS
  w1 = w1
  w2 = w2
  r1 = r1
  r2 = r2
  m1 = m1
  m2 = m2
  m3 = m3
  m4 = m4
  none = none
  Writers <- MCWriters
  Readers <- MCReaders
  Messages <- MCMessages
  MsgLen <- MCMsgLen
  BufSizes = {7, 16}
  BUS_QUEUE_SIZE = 2
  BUS_MESSAGE_SIZE = 9
  NoTask = none
SYMMETRY Symmetry
INVARIANTS TypeOK NoLostWakeup BusInv FittingLinesWhole
PROPERTY ImplementsFifo
