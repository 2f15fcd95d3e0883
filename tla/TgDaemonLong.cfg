SPECIFICATION FairSpec
CONSTANTS
  a = a
  b = b
  c = c
  none = none
  UserMsgs <- MCOneMsg
  Mapped <- MCOneMsg
  UpdateKind <- MCLongFirst
  BUS_QUEUE_SIZE = 2
  MSG_BUFF_SIZE = 8
  UserLen <- MCUserLen
  UpdateLen <- MCUpdateLen
  MaxCrashes = 1
  None = none
PROPERTY TextReachesChat
CHECK_DEADLOCK FALSE
