SPECIFICATION Spec
CONSTANTS
  alice = alice
  bob = bob
  c3 = c3
  room = room
  Clients = {c1, c2, c4}
  Users = {alice}
  Owner <- MCOwner
  Chats = {room}
  NoChat = NoChat
  ChatsOf <- MCChatsOf
  Events = {e1}
  ChatOf <- MCChatOf
  MaxConns = 2
  QueueCap = 1
  SendCap = 1
  PingTokens = 0
  DbErrors = TRUE
  Logins = {alice}
  MayStop = TRUE
INVARIANTS
  MapIsSound
  PresenceMatchesMap
CHECK_DEADLOCK FALSE
SYMMETRY Symmetry
