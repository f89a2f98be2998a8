\* Three users of one chat, whose log takes four events; two overlapping
\* submissions, two batches: two messages, or two drafts of one.
CONSTANTS
  Users = {u1, u2, u3}
  Chats = {c1}
  Senders = {h1, h2}
  Uuids = {g1, g2}
  NoUser = NoUser
  NoUuid = NoUuid
  NoCopy = NoCopy
  NoBatch = NoBatch
  Bounded = TRUE
  MaxEvents = 4
  MaxBatches = 2
SPECIFICATION Spec
SYMMETRY Symmetry
CHECK_DEADLOCK FALSE
INVARIANTS TypeOK OneCopyEach AcceptedIsStored AddressedToOneMembership RepliesPointToOwnCopy
