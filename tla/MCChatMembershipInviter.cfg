\* A removal overtaken by a departure and a new invitation of its target.
CONSTANTS
  Users = {u1, u2, u3}
  Chats = {c1}
  Requests = {r1, r2}
  NoUser = NoUser
  NoChat = NoChat
  MaxEvents = 7
SPECIFICATION Spec
SYMMETRY Symmetry
CHECK_DEADLOCK FALSE
PROPERTY UnrelatedMemberCannotRemove
