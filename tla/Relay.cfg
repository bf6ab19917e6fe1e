SPECIFICATION FairSpec
CONSTANT Limit <- MCLimit
CHECK_DEADLOCK FALSE
INVARIANTS
  TypeOK
  ConversationInOrder
  CountsWritten
PROPERTY HandlerProgress
