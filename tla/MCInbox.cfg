\* Two messages for one user, as a deadlock of two devices needs; two
\* overlapping requests.  No symmetry: liveness is checked.
CONSTANTS
  u1 = u1
  u2 = u2
  m1 = m1
  m2 = m2
  m3 = m3
  m4 = m4
  Users = {u1, u2}
  Messages = {m1, m2, m3, m4}
  ByChat = {m3}
  Draft <- MCDraft
  None = None
  Handlers = {h1, h2}
SPECIFICATION FairSpec
CHECK_DEADLOCK FALSE
INVARIANTS TypeOK AnnouncedOnce RepliesStay AckedIsJudged
PROPERTIES ImplementsVerdicts EveryRequestEnds
