SPECIFICATION FairSpec
CONSTANTS
  w1 = w1
  w2 = w2
  r1 = r1
  r2 = r2
  m1 = m1
  m2 = m2
  m3 = m3
  m4 = m4
  none = none
  Writers <- MCWriters
  Readers <- MCReaders
  Messages <- MCTwoMessages
  MsgLen <- MCMsgLen
  BufSizes = {16}
  BUS_QUEUE_SIZE = 1
  BUS_MESSAGE_SIZE = 9
  NoTask = none
PROPERTY ReadReturns
