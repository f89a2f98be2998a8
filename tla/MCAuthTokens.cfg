\* One name that two users want; two overlapping requests; two challenges, so
\* that one can be replaced or deleted in place of the other; two ticks in a
\* second, so that a token is made and revoked within a second.
CONSTANTS
  Users = {u1, u2}
  Names = {n1}
  Keys = {k1, k2}
  Challenges = {c1, c2}
  Tokens = {t1, t2}
  Requests = {r1, r2}
  None = None
  Second = 2
  ChallengeLife = 2
  TokenLife = 1
  MaxTime = 5
SPECIFICATION Spec
SYMMETRY Symmetry
CHECK_DEADLOCK FALSE
INVARIANTS TypeOK OneUserPerName AnsweredIsForgotten RevokedIsRefused SignedWithCurrentKey
