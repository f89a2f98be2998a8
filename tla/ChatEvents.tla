----------------------------- MODULE ChatEvents -----------------------------
(***************************************************************************)
(* The event log of a group chat, and what a client that replays it can    *)
(* tell.  Used by the abstract roster and by the chat service.             *)
(***************************************************************************)
EXTENDS Naturals, Sequences

CONSTANTS
  Users,      \* registered users (the program never deletes one)
  NoUser      \* NULL in a user column

ASSUME NoUserIsNobody == NoUser \notin Users

Arrivals == {"created", "member_added", "member_joined"}
Departures == {"member_removed", "member_left"}

\* A row of chat_events.  A log lists them in commit order.
Event == [kind   : Arrivals \cup Departures \cup {"name_changed"},
          actor  : Users,
          target : Users \cup {NoUser}]

\* The user an event is about: the creation event has no target column, it
\* is about its actor.
Subject(e) == IF e.kind = "created" THEN e.actor ELSE e.target

\* The last event of l about u exists and is of one of the given kinds.
LastWord(l, u, kinds) ==
  \E i \in DOMAIN l : /\ Subject(l[i]) = u
                      /\ l[i].kind \in kinds
                      /\ \A j \in DOMAIN l : j > i => Subject(l[j]) # u

Mentioned(l, u) == \E i \in DOMAIN l : Subject(l[i]) = u

\* Between two departures of a user there is an arrival of that user.
Alternates(l) ==
  \A i, j \in DOMAIN l :
    /\ i < j
    /\ l[i].kind \in Departures
    /\ l[j].kind \in Departures
    /\ Subject(l[i]) = Subject(l[j])
    => \E k \in DOMAIN l : /\ i < k /\ k < j
                           /\ l[k].kind \in Arrivals
                           /\ Subject(l[k]) = Subject(l[i])

\* Among the events of l before position i, a invited u.
InvitedBefore(l, i, a, u) ==
  \E j \in DOMAIN l : /\ j < i
                      /\ l[j].kind \in Arrivals
                      /\ l[j].target = u
                      /\ l[j].actor = a
=============================================================================
