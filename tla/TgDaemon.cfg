SPECIFICATION FairSpec
CONSTANTS
  a = a
  b = b
  c = c
  none = none
  UserMsgs <- MCUserMsgs
  Mapped <- MCMapped
  UpdateKind <- MCAllKinds
  BUS_QUEUE_SIZE = 2
  MSG_BUFF_SIZE = 7
  UserLen <- MCUserLen
  UpdateLen <- MCUpdateLen
  MaxCrashes = 1
  None = none
INVARIANTS TypeOK ConfirmedWasInjected InjectedOncePerLife ReceivedOnceInOrder
PROPERTIES BusDrained TextReachesChat
CHECK_DEADLOCK FALSE
