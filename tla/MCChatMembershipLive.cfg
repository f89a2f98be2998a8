\* No symmetry here: liveness.  Three handlers, so that one can wait for the
\* row lock of another while a third comes and goes.
CONSTANTS
  Users = {u1, u2, u3}
  Chats = {c1}
  Requests = {r1, r2, r3}
  NoUser = NoUser
  NoChat = NoChat
  MaxEvents = 4
SPECIFICATION FairSpec
CHECK_DEADLOCK FALSE
PROPERTY EveryRequestEnds
