---------------------------- MODULE MCAuthTokens ----------------------------
(* TLC instance of AuthTokens. *)
EXTENDS AuthTokens, TLC

Symmetry ==
  Permutations(Users) \cup Permutations(Keys) \cup Permutations(Challenges)
    \cup Permutations(Tokens) \cup Permutations(Requests)
=============================================================================
