\* A page with two connections, one after the other, that sends two messages
\* to one session, which others may clear and delete.
SPECIFICATION Spec
CONSTANTS
  s1 = s1
  k1 = k1
  k2 = k2
  t1 = t1
  t2 = t2
  Session <- OneSession
  Socket <- Sockets
  Turn <- AllTurns
  Connection <- Connections
  Chats <- BothChats
  None = none
  MaxChunks = 1
  MaxOut = 1
CONSTRAINT
  HastyBound
INVARIANTS
  ConversationKept
  OneAnswerPerBubble
PROPERTIES
  InputComesBack
CHECK_DEADLOCK FALSE
