\* An answer that a blacklisting overtakes.
CONSTANTS
  Users = {u1, u2, u3}
  Ids = {i1, i2, i3}
  Handlers = {h1, h2}
  NoUser = NoUser
  NoId = NoId
SPECIFICATION Spec
SYMMETRY Symmetry
CHECK_DEADLOCK FALSE
PROPERTY OnlyPendingIsAnswered
