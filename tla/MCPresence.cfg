\* Two connections of one user, so that reports and farewells cross and an
\* event has two connections to go to; two events, so that one can overtake
\* the other.  No symmetry: liveness is checked.
CONSTANTS
  u1 = u1
  u2 = u2
  Users = {u1, u2}
  NoUser = NoUser
  Sockets = {s1, s2}
  Reporters = {s1, s2}
  Owner <- MCOwner
  Contacts <- MCContacts
  Audiences <- MCAudiences
  MaxEvents = 2
SPECIFICATION FairSpec
CHECK_DEADLOCK FALSE
INVARIANTS TypeOK GoneIsOffline LastWordIsTable NoGaps
PROPERTIES ImplementsFeed DueIsSettled
