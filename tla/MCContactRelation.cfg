\* Three users, so that rows of different pairs stand beside each other; two
\* overlapping requests, as each write races the read of one other; three
\* rows, so that a relation can be rejected and begun again twice.
CONSTANTS
  Users = {u1, u2, u3}
  Ids = {i1, i2, i3}
  Handlers = {h1, h2}
  NoUser = NoUser
  NoId = NoId
SPECIFICATION Spec
SYMMETRY Symmetry
CHECK_DEADLOCK FALSE
INVARIANTS TypeOK OnePerPair AcceptedByBoth
PROPERTY SettledBlacklistStays
