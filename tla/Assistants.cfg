SPECIFICATION MCSpec
CONSTANTS
  Users = {ann, bob}
  Rounds = 2
  MaxCalls = 1
  MaxAsks = 2
  TelegramChats = {c1, c2}
  MaxUpdates = 2
  MaxCodes = 1
  MaxLives = 2
INVARIANTS TypeOK OncePerLife ChatsActForTheirUsers ChatsLeaveATrail
PROPERTIES UpdatesAreHandled
CHECK_DEADLOCK FALSE
