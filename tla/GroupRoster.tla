---------------------------- MODULE GroupRoster ----------------------------
(***************************************************************************)
(* What the chat service promises about the membership of a group chat,    *)
(* with no requests, no database rows and no locks: a set of members and a *)
(* log of what happened, changed together in one atomic step.              *)
(* ChatMembership is shown to implement this specification.                *)
(*                                                                         *)
(* The promise is the one a client relies on when it rebuilds the members  *)
(* of a chat from its event log instead of asking for the member table.    *)
(***************************************************************************)
EXTENDS ChatEvents

CONSTANT Chats      \* chat identifiers that may ever be drawn

VARIABLES
  opened,     \* chat identifiers drawn so far (never drawn twice)
  owner,      \* owner[c], NoUser while the chat does not exist
  members,    \* members[c], the set of active participants
  log         \* log[c], the events of the chat in commit order

rosterVars == <<opened, owner, members, log>>

Say(c, kind, actor, target) ==
  log' = [log EXCEPT ![c] =
            Append(@, [kind |-> kind, actor |-> actor, target |-> target])]

----------------------------------------------------------------------------
Init ==
  /\ opened = {}
  /\ owner = [c \in Chats |-> NoUser]
  /\ members = [c \in Chats |-> {}]
  /\ log = [c \in Chats |-> << >>]

Open(c, u) ==
  /\ c \notin opened
  /\ opened' = opened \cup {c}
  /\ owner' = [owner EXCEPT ![c] = u]
  /\ members' = [members EXCEPT ![c] = {u}]
  /\ Say(c, "created", u, NoUser)

\* A first arrival is logged as added, every later one as joined. A user who
\* is already a member may be logged as joined once more: two re-invitations
\* of the same former member both succeed.
Arrive(c, a, u) ==
  /\ owner[c] # NoUser
  /\ members' = [members EXCEPT ![c] = @ \cup {u}]
  /\ IF Mentioned(log[c], u)
       THEN Say(c, "member_joined", a, u)
       ELSE Say(c, "member_added", a, u)
  /\ UNCHANGED <<opened, owner>>

\* Only a member departs, and never the owner.
Depart(c, a, u) ==
  /\ u \in members[c] \ {owner[c]}
  /\ members' = [members EXCEPT ![c] = @ \ {u}]
  /\ \/ Say(c, "member_removed", a, u)
     \/ a = u /\ Say(c, "member_left", a, u)
  /\ UNCHANGED <<opened, owner>>

Rename(c) ==
  /\ owner[c] # NoUser
  /\ Say(c, "name_changed", owner[c], NoUser)
  /\ UNCHANGED <<opened, owner, members>>

Close(c) ==
  /\ owner[c] # NoUser
  /\ owner' = [owner EXCEPT ![c] = NoUser]
  /\ members' = [members EXCEPT ![c] = {}]
  /\ log' = [log EXCEPT ![c] = << >>]
  /\ UNCHANGED opened

Next ==
  \E c \in Chats :
    \/ \E u \in Users : Open(c, u)
    \/ \E a, u \in Users : Arrive(c, a, u) \/ Depart(c, a, u)
    \/ Rename(c)
    \/ Close(c)

Spec == Init /\ [][Next]_rosterVars
=============================================================================
