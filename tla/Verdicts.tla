------------------------------ MODULE Verdicts ------------------------------
(***************************************************************************)
(* What the two ends of a message may rely on: its recipient says once     *)
(* whether it could be read, and this stays, whatever devices say later.   *)
(* A message that is not there has the row None.                           *)
(***************************************************************************)
CONSTANTS Messages, Users, None

VARIABLE inbox  \* inbox[m], whom message m is for and what was said of it

Row == [to : Users, verdict : {"waiting", "done", "failed"}]

Init == inbox = [m \in Messages |-> None]

\* A message, or the copies of one.
Arrive(M) ==
  /\ \A m \in M : inbox[m] = None
  /\ \E to \in [M -> Users] :
       inbox' = [m \in Messages |-> IF m \in M THEN [to |-> to[m], verdict |-> "waiting"]
                                   ELSE inbox[m]]

Waiting(u) == {m \in Messages : inbox[m] = [to |-> u, verdict |-> "waiting"]}

\* One request of user u gives all its verdicts at once, or none of them.
Judge(u) ==
  \E D \in SUBSET Waiting(u) : \E F \in SUBSET (Waiting(u) \ D) :
    inbox' = [m \in Messages |-> IF m \in D THEN [to |-> u, verdict |-> "done"]
                                ELSE IF m \in F THEN [to |-> u, verdict |-> "failed"]
                                ELSE inbox[m]]

\* A chat is deleted with its messages.
Vanish(M) == inbox' = [m \in Messages |-> IF m \in M THEN None ELSE inbox[m]]

Next ==
  \/ \E M \in SUBSET Messages : Arrive(M) \/ Vanish(M)
  \/ \E u \in Users : Judge(u)

Spec == Init /\ [][Next]_inbox
=============================================================================
