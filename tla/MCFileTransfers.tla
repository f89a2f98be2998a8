-------------------------- MODULE MCFileTransfers --------------------------
(* TLC instance of FileTransfers: a file of three bytes that is sent in a   *)
(* chat, and an empty one that is sent directly.                            *)
EXTENDS FileTransfers, TLC

CONSTANTS f1, f2, c1

MCSize == f1 :> 3 @@ f2 :> 0

MCTarget == f1 :> c1 @@ f2 :> NoChat

Symmetry == Permutations(Uploads) \cup Permutations(Handlers)
=============================================================================
