------------------------------ MODULE MCInbox ------------------------------
(* TLC instance of Inbox: a direct message, its answer, a chat message for    *)
(* the recipient of the first, and a note of his to himself that claims to be *)
(* a reply to it.                                                             *)
EXTENDS Inbox, TLC

CONSTANTS u1, u2, m1, m2, m3, m4

Message(u, v, m) == [from |-> u, to |-> v, reply |-> m]

MCDraft == m1 :> Message(u1, u2, None) @@ m2 :> Message(u2, u1, m1)
           @@ m3 :> Message(u1, u2, None) @@ m4 :> Message(u2, u2, m1)
=============================================================================
