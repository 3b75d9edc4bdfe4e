SPECIFICATION Spec
CONSTANTS
  FirstName = 512
  MaxName = 512
  Limit = 1
  Slack = 1
  ReplySize = 4
  Sizes = {1, 6}
  RcvSizes = {3, 4}
  UserNames = {1, 512, 513}
  MaxSerial = 5
INVARIANTS
  TypeOK
  QueuesInSendOrder
  EachMessageOnce
PROPERTIES
  LeavesByReceiptOrOverflow
  RpcReturnsItsReply
