-------------------------- MODULE MCChatMembership --------------------------
(* TLC instance of ChatMembership. *)
EXTENDS ChatMembership, TLC

\* Users, and handlers, are interchangeable: no action or safety property
\* names one of them.
Symmetry == Permutations(Users) \cup Permutations(Requests)
=============================================================================
