\* A removal and a leave of one member overlap.
CONSTANTS
  Users = {u1, u2, u3}
  Chats = {c1}
  Requests = {r1, r2}
  NoUser = NoUser
  NoChat = NoChat
  MaxEvents = 7
SPECIFICATION Spec
SYMMETRY Symmetry
CHECK_DEADLOCK FALSE
PROPERTY AssertDeletedHolds
