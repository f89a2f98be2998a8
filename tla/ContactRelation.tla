-------------------------- MODULE ContactRelation --------------------------
(***************************************************************************)
(* The contact service: asking a user to become a contact, answering, and  *)
(* blacklisting.  Two users share at most one row of contact_requests; it  *)
(* says who acted last (the sender) and what became of it.                 *)
(*                                                                         *)
(* Every handler reads the row, checks it, and then writes by the id it    *)
(* read, in a statement that looks at nothing but this id.  So a handler   *)
(* is cut once, between the read (step "write") and the write with its     *)
(* commit, and whatever happened to the row in between is overwritten.  A  *)
(* handler whose checks fail on what it reads changes nothing and is not   *)
(* an action.                                                              *)
(***************************************************************************)
EXTENDS Naturals

CONSTANTS
  Users,      \* registered users (the program never deletes one)
  Ids,        \* contact ids: uuid4, each drawn at most once
  Handlers,   \* requests that can be in progress at the same time
  NoUser,     \* the user of a request that is not running
  NoId        \* get_contact_between_users found no row

ASSUME NoUserIsNobody == NoUser \notin Users
ASSUME NoIdIsNone == NoId \notin Ids

VARIABLES
  contact,    \* table contact_requests, by id
  drawn,      \* ids drawn so far
  handler,    \* the requests in progress
  agreed,     \* agreed[i], who asked for or accepted contact i
  unsettled   \* unsettled[i], requests in progress since before contact i
              \* was last blacklisted

vars == <<contact, drawn, handler, agreed, unsettled>>

----------------------------------------------------------------------------
\* A row, or, with status "none", no row.
Contact ==
  [sender : Users \cup {NoUser}, receiver : Users \cup {NoUser},
   status : {"none", "blank", "pending", "accepted", "blacklist"}]

NoRow == [sender |-> NoUser, receiver |-> NoUser, status |-> "none"]

Row(u, v, status) == [sender |-> u, receiver |-> v, status |-> status]

Handler ==
  [op    : {"none", "request", "blacklist", "accept", "reject"},
   actor : Users \cup {NoUser},
   other : Users \cup {NoUser},
   seen  : Ids \cup {NoId}]

Idle == [op |-> "none", actor |-> NoUser, other |-> NoUser, seen |-> NoId]

Rows == {i \in Ids : contact[i].status # "none"}

\* The key of the unique index uq_contact_requests_pair.
Pair(i) == {contact[i].sender, contact[i].receiver}

\* get_contact_between_users
Between(u, v) == {i \in Rows : Pair(i) = {u, v}}

Running == {h \in Handlers : handler[h] # Idle}

Start(h, op, u, v, seen) ==
  /\ handler[h] = Idle
  /\ handler' = [handler EXCEPT ![h] =
                   [op |-> op, actor |-> u, other |-> v, seen |-> seen]]
  /\ UNCHANGED <<contact, drawn, agreed, unsettled>>

\* Mutant: the slot keeps what its last request has read.
EndKeepingSeen(h) == handler' = [handler EXCEPT ![h].op = "none"]

End(h) == handler' = [handler EXCEPT ![h] = Idle]

\* h will not be in progress any more.
Settle(h) == unsettled' = [i \in Ids |-> unsettled[i] \ {h}]

----------------------------------------------------------------------------
Init ==
  /\ contact = [i \in Ids |-> NoRow]
  /\ drawn = {}
  /\ handler = [h \in Handlers |-> Idle]
  /\ agreed = [i \in Ids |-> {}]
  /\ unsettled = [i \in Ids |-> {}]

(* add_contact_request and blacklist_contact *)

\* Mutant: a request is taken unless the users are contacts already.
MayBeAskedUnlessAccepted(i) == contact[i].status # "accepted"

\* Between two users who never dealt with each other there is no row or a
\* blank one; any other is a conflict.
MayBeAsked(i) == contact[i].status = "blank"

StartRequest(h, u, v) ==
  /\ u # v
  /\ \/ Between(u, v) = {} /\ Start(h, "request", u, v, NoId)
     \/ \E i \in Between(u, v) : MayBeAsked(i) /\ Start(h, "request", u, v, i)

StartBlacklist(h, u, v) ==
  /\ u # v
  /\ \/ Between(u, v) = {} /\ Start(h, "blacklist", u, v, NoId)
     \/ \E i \in Between(u, v) : Start(h, "blacklist", u, v, i)

Relates(h) == handler[h].op \in {"request", "blacklist"}

\* The row of contact i after the write of h, and what history adds.
Relate(h, i) ==
  LET q == handler[h] IN
  /\ contact' = [contact EXCEPT ![i] =
                   Row(q.actor, q.other,
                       IF q.op = "request" THEN "pending" ELSE "blacklist")]
  /\ IF q.op = "request"
       THEN /\ agreed' = [agreed EXCEPT ![i] = @ \cup {q.actor}]
            /\ Settle(h)
       ELSE /\ unsettled' = [j \in Ids |-> IF j = i THEN Running \ {h}
                                                    ELSE unsettled[j] \ {h}]
            /\ UNCHANGED agreed
  /\ End(h)

\* Mutant: the table has no unique index on pairs.
PairIsAnything(u, v) == u # v

\* INSERT: the unique index on pairs.
PairIsFree(u, v) == Between(u, v) = {}

InsertsRelation(h, i) ==
  /\ Relates(h)
  /\ handler[h].seen = NoId
  /\ PairIsFree(handler[h].actor, handler[h].other)
  /\ i \notin drawn
  /\ drawn' = drawn \cup {i}
  /\ Relate(h, i)

\* update_contact_relation: UPDATE ... WHERE id
UpdatesRelation(h) ==
  /\ Relates(h)
  /\ handler[h].seen \in Rows
  /\ UNCHANGED drawn
  /\ Relate(h, handler[h].seen)

----------------------------------------------------------------------------
(* answer_contact_request *)

\* Mutant: the sender may answer as well.
AskedAny(i, u) == contact[i].status = "pending" /\ u \in Pair(i)

\* The user is the receiver of a pending request.
Asked(i, u) == contact[i].status = "pending" /\ u = contact[i].receiver

\* The read has a transaction of its own.
StartAnswer(h, op, i, u) ==
  /\ op \in {"accept", "reject"}
  /\ i \in Rows
  /\ Asked(i, u)
  /\ \E v \in Pair(i) \ {u} : Start(h, op, u, v, i)

\* update_contact_request: UPDATE ... SET status WHERE id
Accepts(h) ==
  LET i == handler[h].seen IN
  /\ handler[h].op = "accept"
  /\ i \in Rows
  /\ contact' = [contact EXCEPT ![i].status = "accepted"]
  /\ agreed' = [agreed EXCEPT ![i] = @ \cup {handler[h].actor}]
  /\ Settle(h)
  /\ End(h)
  /\ UNCHANGED drawn

\* delete_contact_request: DELETE ... WHERE id
Rejects(h) ==
  LET i == handler[h].seen IN
  /\ handler[h].op = "reject"
  /\ i \in Rows
  /\ contact' = [contact EXCEPT ![i] = NoRow]
  /\ agreed' = [agreed EXCEPT ![i] = {}]
  /\ Settle(h)
  /\ End(h)
  /\ UNCHANGED drawn

----------------------------------------------------------------------------
\* The INSERT meets the unique index, or the row that was read has gone and
\* an assertion fails: an internal error, rolled back.
WriteFails(h) ==
  /\ \/ Relates(h) /\ handler[h].seen = NoId
                   /\ ~PairIsFree(handler[h].actor, handler[h].other)
     \/ handler[h].op # "none" /\ handler[h].seen \in Ids \ Rows
  /\ Settle(h)
  /\ End(h)
  /\ UNCHANGED <<contact, drawn, agreed>>

\* The process crashes or the connection drops before the commit.
Drop(h) ==
  /\ handler[h] # Idle
  /\ Settle(h)
  /\ End(h)
  /\ UNCHANGED <<contact, drawn, agreed>>

\* add_blank_contacts, for a chat, a group message or a file: one INSERT of
\* all the rows, ON CONFLICT DO NOTHING, so an existing relation stays what it
\* is.  A direct message looks first and uses a plain INSERT, which fails where
\* this does nothing.
AddBlanks(u, P) ==
  \E I \in SUBSET (Ids \ drawn) : \E peer \in [I -> P \ {u}] :
    /\ \A i, j \in I : peer[i] = peer[j] => i = j
    /\ {peer[i] : i \in I} = {v \in P \ {u} : PairIsFree(u, v)}
    /\ drawn' = drawn \cup I
    /\ contact' = [i \in Ids |-> IF i \in I THEN Row(u, peer[i], "blank")
                                            ELSE contact[i]]
    /\ UNCHANGED <<handler, agreed, unsettled>>

StartSome(h) ==
  \/ \E u, v \in Users : StartRequest(h, u, v) \/ StartBlacklist(h, u, v)
  \/ \E i \in Ids, u \in Users, op \in {"accept", "reject"} : StartAnswer(h, op, i, u)

Continue(h) ==
  \/ \E i \in Ids : InsertsRelation(h, i)
  \/ UpdatesRelation(h)
  \/ Accepts(h)
  \/ Rejects(h)
  \/ WriteFails(h)

Next ==
  \/ \E h \in Handlers : StartSome(h) \/ Continue(h) \/ Drop(h)
  \/ \E u \in Users, P \in SUBSET Users : AddBlanks(u, P)

Spec == Init /\ [][Next]_vars

----------------------------------------------------------------------------
(* Properties *)

\* Rows and requests have their types, a row is of two users, and a request
\* that has ended leaves nothing of itself in the slot the next one uses.
TypeOK ==
  /\ contact \in [Ids -> Contact]
  /\ Rows \subseteq drawn /\ drawn \subseteq Ids
  /\ \A i \in Rows : \E u \in Users : \E v \in Users \ {u} : Pair(i) = {u, v}
  /\ handler \in [Handlers -> Handler]
  /\ \A h \in Handlers : handler[h].op = "none" => handler[h] = Idle
  /\ agreed \in [Ids -> SUBSET Users]
  /\ unsettled \in [Ids -> SUBSET Handlers]

\* Two users share one row, whoever acts first, even at the same time: the
\* lookups by pair, which take any row they find, depend on it.
OnePerPair == \A i, j \in Rows : Pair(i) = Pair(j) => i = j

\* Two users are contacts, and see when the other is online, only when each
\* of them has asked for it or accepted it, whatever writes overtook the
\* answer.
AcceptedByBoth ==
  \A i \in Rows : contact[i].status = "accepted" => agreed[i] = Pair(i)

\* A blacklisting can be overwritten by a request that was in progress when
\* it was made.  When all of those have ended it stays: no later request, no
\* answer and no chat, message or file changes it, only another blacklisting.
SettledBlacklistStays ==
  [][\A i \in Rows :
       contact[i].status = "blacklist" /\ unsettled[i] = {} =>
         contact'[i].status = "blacklist"]_vars

\* "Contact request is not pending": an answer is refused unless it is of a
\* pending request.
\* (Does not hold: see the run that expects its violation.)
OnlyPendingIsAnswered ==
  [][\A h \in Handlers :
       Accepts(h) \/ Rejects(h) => contact[handler[h].seen].status = "pending"]_vars
=============================================================================
