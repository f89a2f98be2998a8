\* Three users and two overlapping handlers; seven events let a member be
\* added, removed and re-added twice.
CONSTANTS
  Users = {u1, u2, u3}
  Chats = {c1}
  Requests = {r1, r2}
  NoUser = NoUser
  NoChat = NoChat
  MaxEvents = 7
SPECIFICATION Spec
SYMMETRY Symmetry
CHECK_DEADLOCK FALSE
INVARIANTS TypeOK EventsTellMembership DeparturesAlternate RemoverHadInvited MembersAreContacts
PROPERTY ImplementsRoster
