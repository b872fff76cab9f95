\* The urls and conversations of Conversation.cfg; a value that begins with "=".
CONSTANTS
  Conversations <- SomeConversations
  MaxHeaders = 3
  FieldCap = 2
  ValueCap = 12
  MaxHeaderSize = 32
  MaxPort = 20
  MaxSpan = 32
  Garbage <- SomeGarbage
  OutHost <- TheHost
  OutPort <- ThePort
  BufferSize = 16
  LongMax = 31
  UIntMod = 16
SPECIFICATION ConversationSpec
INVARIANTS
  SplitAtFirst
CHECK_DEADLOCK FALSE
