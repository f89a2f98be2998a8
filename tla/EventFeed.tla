----------------------------- MODULE EventFeed -----------------------------
(***************************************************************************)
(* What a client may rely on from the events of its WebSocket connection:  *)
(* it is told some of the events that were published for its user, none    *)
(* for others, in the order of publication and none twice.  It may miss    *)
(* any of them, hence polls.                                               *)
(***************************************************************************)
EXTENDS Naturals, Sequences

CONSTANTS
  Events,   \* what is published, each event for the users in its field "to"
  Sockets,  \* connections that can be open at the same time
  Owner     \* Owner[s], the user who is connected

VARIABLES
  log,  \* all events, in the order of publication
  got   \* got[s], the events connection s was told, as places in the log

vars == <<log, got>>

Init == log = <<>> /\ got = [s \in Sockets |-> {}]

Publish == (\E e \in Events : log' = Append(log, e)) /\ UNCHANGED got

\* Connections end, and others take their places.
Close ==
  /\ \E S \in SUBSET Sockets :
       got' = [s \in Sockets |-> IF s \in S THEN {} ELSE got[s]]
  /\ UNCHANGED log

\* Event i is for the user of s, and s has been told none after it.
IsNext(s, i) == Owner[s] \in log[i].to /\ \A j \in got[s] : j < i

Tell(s) ==
  /\ \E i \in DOMAIN log : IsNext(s, i) /\ got' = [got EXCEPT ![s] = @ \cup {i}]
  /\ UNCHANGED log

Next == Publish \/ Close \/ \E s \in Sockets : Tell(s)

Spec == Init /\ [][Next]_vars
=============================================================================
