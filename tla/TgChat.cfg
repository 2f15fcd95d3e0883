SPECIFICATION FairSpec
CONSTANTS
  w1 = w1
  w2 = w2
  r1 = r1
  m1 = m1
  m2 = m2
  m3 = m3
  m4 = m4
  m5 = m5
  id1 = id1
  none = none
  Writers <- MCWriters
  Readers <- MCReaders
  Local <- MCLocal
  Remote <- MCRemote
  TextLen <- MCTextLen
  PrefixLen = 1
  InHeaderLen = 1
  ChatIds = {id1}
  ReadSizes = {2}
  MSG_BUFF_SIZE = 7
  BUS_MESSAGE_SIZE = 4
  None = none
INVARIANTS TypeOK NoLostWakeup ShownBeforeSent
PROPERTIES ImplementsLog ReadReturns
