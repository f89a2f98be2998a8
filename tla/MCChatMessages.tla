--------------------------- MODULE MCChatMessages ---------------------------
(* TLC instance of ChatMessages. *)
EXTENDS ChatMessages, TLC

Symmetry ==
  Permutations(Users) \cup Permutations(Senders) \cup Permutations(Uuids)
=============================================================================
