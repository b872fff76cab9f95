\* Urls and queries of up to a dozen characters and chains of two redirects,
\* read in pieces of any size.  A long is up to 31 and an unsigned int up to 15.
CONSTANTS
  Conversations <- SomeConversations
  MaxHeaders = 3
  FieldCap = 2
  ValueCap = 12
  MaxHeaderSize = 32
  MaxPort = 20
  MaxSpan = 32
  Garbage <- SomeGarbage
  OutHost <- TheHost
  OutPort <- ThePort
  BufferSize = 16
  LongMax = 31
  UIntMod = 16
SPECIFICATION ConversationSpec
INVARIANTS
  HeadersAsSent
  DataAsSent
  CompleteAtEnd
  WellFormedAccepted
  Assertions
  FieldsAsWritten
  QueryAsAsked
  RedirectFollowed
CHECK_DEADLOCK FALSE
