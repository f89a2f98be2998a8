----------------------------- MODULE MCPresence -----------------------------
(* TLC instance of Presence: two users who are contacts of each other, one of *)
(* them with two connections.                                                 *)
EXTENDS Presence, TLC

CONSTANTS u1, u2

MCOwner == [s \in Sockets |-> u1]

MCContacts == u1 :> {u2} @@ u2 :> {u1}

MCAudiences == {{u1}, {u1, u2}}
=============================================================================
