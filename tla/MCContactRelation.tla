------------------------- MODULE MCContactRelation -------------------------
(* TLC instance of ContactRelation. *)
EXTENDS ContactRelation, TLC

Symmetry ==
  Permutations(Users) \cup Permutations(Ids) \cup Permutations(Handlers)
=============================================================================
