SPECIFICATION FairSpec
CONSTANTS
  alice = alice
  bob = bob
  c3 = c3
  room = room
  Clients = {c1, c2}
  Users = {alice}
  Owner <- MCOwner
  Chats = {room}
  NoChat = NoChat
  ChatsOf <- MCChatsOf
  Events = {}
  ChatOf <- MCChatOf
  MaxConns = 1
  QueueCap = 1
  SendCap = 2
  PingTokens = 1
  DbErrors = FALSE
  Logins = {}
  MayStop = FALSE
INVARIANTS
  ReaderNeverWaits
PROPERTIES
  OnlyPongPanics
  DeadConnectionLeaves
  PumpsReturn
CHECK_DEADLOCK FALSE
