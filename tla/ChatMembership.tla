--------------------------- MODULE ChatMembership ---------------------------
(***************************************************************************)
(* The chat service: creating, renaming and deleting a chat, inviting,     *)
(* removing and leaving.  Every HTTP request runs in a transaction of its  *)
(* own at READ COMMITTED, so what a handler read may be stale by the time  *)
(* it writes.  A handler is cut where another transaction can come in      *)
(* between:                                                                *)
(*                                                                         *)
(*   "target"  the chat and the actor's own row have been read,            *)
(*   "write"   every check has passed on what was read,                    *)
(*   "commit"  the participant row is written and locked, not committed.   *)
(*                                                                         *)
(* Statements of one handler between two such points form one action.      *)
(* Reads alone (get_chat, get_participants, get_events) change nothing     *)
(* and are not actions.                                                    *)
(***************************************************************************)
EXTENDS ChatEvents, FiniteSets

CONSTANTS
  Chats,      \* chat identifiers; uuid4, so each is drawn at most once
  Requests,   \* handlers that can be in progress at the same time
  NoChat,     \* the chat of a handler that is not running
  MaxEvents   \* bound on the events of a chat

ASSUME NoChatIsNone == NoChat \notin Chats
ASSUME MaxEventsIsNat == MaxEvents \in Nat

VARIABLES
  opened,       \* chat identifiers drawn so far
  owner,        \* table chats: the owner, NoUser when there is no row
  participant,  \* table chat_participants, by chat and user
  events,       \* table chat_events of each chat, in commit order
  contacts,     \* pairs that chats gave a row of contact_requests
  strangers,    \* history: pairs of users whose invitations to a chat overlapped
  request       \* the handlers in progress

tables == <<opened, owner, participant, events, contacts, strangers>>
vars == <<opened, owner, participant, events, contacts, strangers, request>>

\* get_participants: the rows with left_at NULL.
Active(c) == {u \in Users : participant[c][u].state = "active"}

Roster == INSTANCE GroupRoster
            WITH members <- [c \in Chats |-> Active(c)], log <- events

----------------------------------------------------------------------------
\* A row of chat_participants: "left" is a row with left_at set.
Row == [state : {"none", "active", "left"}, inviter : Users \cup {NoUser}]

NoRow == [state |-> "none", inviter |-> NoUser]

Operations == {"none", "add", "remove", "leave", "rename", "delete"}

Request ==
  [op     : Operations,
   step   : {"idle", "target", "write", "commit"},
   chat   : Chats \cup {NoChat},
   actor  : Users \cup {NoUser},
   target : Users \cup {NoUser},
   seen   : {"none", "active", "left"},   \* the target's row as it was read
   peers  : SUBSET Users]                 \* get_participants before commit

\* A running handler works on a real chat, for a real user.
WellFormed(q) ==
  q.step # "idle" =>
    /\ q.op # "none"
    /\ q.chat \in Chats
    /\ q.actor \in Users
    /\ q.op \in {"add", "remove", "leave"} => q.target \in Users

Idle == [op |-> "none", step |-> "idle", chat |-> NoChat, actor |-> NoUser,
         target |-> NoUser, seen |-> "none", peers |-> {}]

Exists(c) == owner[c] # NoUser

IsActive(c, u) == participant[c][u].state = "active"

\* An uncommitted INSERT or UPDATE of a participant row holds its lock, and
\* its events row holds a key-share lock on the chat.
Locked(c, u) ==
  \E r \in Requests : /\ request[r].step = "commit"
                      /\ request[r].chat = c
                      /\ request[r].target = u

\* Users whose row is written and not committed: no other handler sees it.
Inviting(c) == {u \in Users : Locked(c, u)}

ChatLocked(c) == \E u \in Users : Locked(c, u)

\* MaxEvents bounds the log: a handler starts only if its event will fit.
RoomFor(c) ==
  Len(events[c]) + Cardinality({r \in Requests : request[r].chat = c}) < MaxEvents

At(r, op, step) == request[r].op = op /\ request[r].step = step

Start(r, op, step, c, actor, target) ==
  /\ request[r] = Idle
  /\ op = "delete" \/ RoomFor(c)
  /\ request' = [request EXCEPT ![r] =
                   [Idle EXCEPT !.op = op, !.step = step, !.chat = c,
                                !.actor = actor, !.target = target]]
  /\ UNCHANGED tables

Finish(r) == request' = [request EXCEPT ![r] = Idle]

\* The handler ends with an error answer: nothing was written.
Reject(r) == Finish(r) /\ UNCHANGED tables

CreateEvent(r, kind, target) ==
  LET c == request[r].chat IN
  events' = [events EXCEPT ![c] =
               Append(@, [kind |-> kind, actor |-> request[r].actor,
                          target |-> target])]

----------------------------------------------------------------------------
Init ==
  /\ opened = {}
  /\ owner = [c \in Chats |-> NoUser]
  /\ participant = [c \in Chats |-> [u \in Users |-> NoRow]]
  /\ events = [c \in Chats |-> << >>]
  /\ contacts = {}
  /\ strangers = {}
  /\ request = [r \in Requests |-> Idle]

\* create_chat: the chat, the owner's participant row and the creation event
\* in one transaction on rows nobody else can name yet.
CreateChat(c, u) ==
  /\ c \notin opened
  /\ MaxEvents > 0
  /\ opened' = opened \cup {c}
  /\ owner' = [owner EXCEPT ![c] = u]
  /\ participant' = [participant EXCEPT ![c][u] =
                       [state |-> "active", inviter |-> NoUser]]
  /\ events' = [events EXCEPT ![c] =
                  Append(@, [kind |-> "created", actor |-> u, target |-> NoUser])]
  /\ UNCHANGED <<contacts, strangers, request>>

----------------------------------------------------------------------------
(* add_participant *)

\* _require_chat, _require_participant(actor), _require_user
StartAdd(r, c, a, u) ==
  /\ Exists(c)
  /\ IsActive(c, a)
  /\ Start(r, "add", "target", c, a, u)

\* get_participant(user): an active row is refused, a former or a missing
\* one decides between UPDATE and INSERT.
AddReadsTarget(r) ==
  LET c == request[r].chat
      u == request[r].target IN
  /\ At(r, "add", "target")
  /\ ~IsActive(c, u)
  /\ request' = [request EXCEPT ![r].step = "write",
                                ![r].seen = participant[c][u].state]
  /\ UNCHANGED tables

\* INSERT needs the primary key free and the chat there; restore_participant
\* is an UPDATE of whatever row there is.
AddWriteSucceeds(r) ==
  LET c == request[r].chat
      row == participant[c][request[r].target] IN
  /\ Exists(c)
  /\ request[r].seen = "none" => row.state = "none"

\* The participant row is written and stays locked; then get_participants
\* reads what is committed by now.
AddWrites(r) ==
  LET c == request[r].chat
      u == request[r].target IN
  /\ At(r, "add", "write")
  /\ ~Locked(c, u)
  /\ AddWriteSucceeds(r)
  /\ request' = [request EXCEPT ![r].step = "commit",
                                ![r].peers = Active(c) \ {u}]
  /\ UNCHANGED tables

\* Primary key taken, chat deleted (foreign key), or no row left to restore.
AddWriteFails(r) ==
  /\ At(r, "add", "write")
  /\ ~Locked(request[r].chat, request[r].target)
  /\ ~AddWriteSucceeds(r)
  /\ Reject(r)

\* Mutant: the peers are read FOR UPDATE, with the new row already locked.
AddCommitsOncePeersLocked(r) ==
  LET c == request[r].chat
      u == request[r].target IN
  /\ At(r, "add", "commit")
  /\ \A q \in Requests \ {r} : ~(At(q, "add", "commit") /\ request[q].chat = c)
  /\ participant' = [participant EXCEPT ![c][u] =
                       [state |-> "active", inviter |-> request[r].actor]]
  /\ CreateEvent(r, IF request[r].seen = "none" THEN "member_added"
                                                ELSE "member_joined", u)
  /\ Finish(r)
  /\ UNCHANGED <<opened, owner, contacts, strangers>>

\* Mutant: a former member who comes back gets no contact rows.
AddCommitsContactsOnce(r) ==
  LET c == request[r].chat
      u == request[r].target IN
  /\ At(r, "add", "commit")
  /\ participant' = [participant EXCEPT ![c][u] =
                       [state |-> "active", inviter |-> request[r].actor]]
  /\ CreateEvent(r, IF request[r].seen = "none" THEN "member_added"
                                                ELSE "member_joined", u)
  /\ contacts' = contacts \cup
       {{u, p} : p \in IF request[r].seen = "none" THEN request[r].peers ELSE {}}
  /\ strangers' = strangers \cup {{u, p} : p \in Inviting(c) \ {u}}
  /\ Finish(r)
  /\ UNCHANGED <<opened, owner>>

\* add_blank_contacts (ON CONFLICT DO NOTHING) and commit.
AddCommits(r) ==
  LET c == request[r].chat
      u == request[r].target IN
  /\ At(r, "add", "commit")
  /\ participant' = [participant EXCEPT ![c][u] =
                       [state |-> "active", inviter |-> request[r].actor]]
  /\ CreateEvent(r, IF request[r].seen = "none" THEN "member_added"
                                                ELSE "member_joined", u)
  /\ contacts' = contacts \cup {{u, p} : p \in request[r].peers}
  /\ strangers' = strangers \cup {{u, p} : p \in Inviting(c) \ {u}}
  /\ Finish(r)
  /\ UNCHANGED <<opened, owner>>

----------------------------------------------------------------------------
(* remove_participant and leave_chat *)

StartRemove(r, c, a, u) ==
  /\ Exists(c)
  /\ IsActive(c, a)
  /\ Start(r, "remove", "target", c, a, u)

\* Mutants: any member removes any other; the owner can be removed.
MayRemoveUninvited(r) ==
  /\ IsActive(request[r].chat, request[r].target)
  /\ request[r].target # owner[request[r].chat]

MayRemoveOwner(r) ==
  LET c == request[r].chat
      u == request[r].target IN
  /\ IsActive(c, u)
  /\ request[r].actor \in {owner[c], participant[c][u].inviter}

\* _require_participant(user) and the two permission checks, on the row as
\* it is read here.  chat.owner_id never changes.
MayRemove(r) ==
  LET c == request[r].chat
      u == request[r].target IN
  /\ IsActive(c, u)
  /\ u # owner[c]
  /\ request[r].actor \in {owner[c], participant[c][u].inviter}

RemoveReadsTarget(r) ==
  /\ At(r, "remove", "target")
  /\ MayRemove(r)
  /\ request' = [request EXCEPT ![r].step = "write"]
  /\ UNCHANGED tables

\* Mutant: the request does not remember who leaves.
StartLeaveOfNobody(r, c, u) ==
  /\ Exists(c)
  /\ IsActive(c, u)
  /\ u # owner[c]
  /\ Start(r, "leave", "write", c, u, NoUser)

StartLeave(r, c, u) ==
  /\ Exists(c)
  /\ IsActive(c, u)
  /\ u # owner[c]
  /\ Start(r, "leave", "write", c, u, u)

\* 403 or 409: the target's row does not allow the change.
TargetRefused(r) ==
  /\ \/ At(r, "add", "target") /\ IsActive(request[r].chat, request[r].target)
     \/ At(r, "remove", "target") /\ ~MayRemove(r)
  /\ Reject(r)

Departing(r) == At(r, "remove", "write") \/ At(r, "leave", "write")

\* Mutant: the UPDATE is not restricted to rows with left_at NULL.
DepartureFindsAnyRow(r) ==
  participant[request[r].chat][request[r].target].state # "none"

\* delete_participant: UPDATE ... WHERE left_at IS NULL returns a row.
DepartureFindsRow(r) == IsActive(request[r].chat, request[r].target)

\* Mutant: only a removal is logged.
DepartLoggingRemovals(r) ==
  LET c == request[r].chat
      u == request[r].target IN
  /\ Departing(r)
  /\ ~Locked(c, u)
  /\ DepartureFindsRow(r)
  /\ participant' = [participant EXCEPT ![c][u].state = "left"]
  /\ IF request[r].op = "remove" THEN CreateEvent(r, "member_removed", u)
                                 ELSE UNCHANGED events
  /\ Finish(r)
  /\ UNCHANGED <<opened, owner, contacts, strangers>>

\* The guarded UPDATE, the event and the commit.
Depart(r) ==
  LET c == request[r].chat
      u == request[r].target IN
  /\ Departing(r)
  /\ ~Locked(c, u)
  /\ DepartureFindsRow(r)
  /\ participant' = [participant EXCEPT ![c][u].state = "left"]
  /\ CreateEvent(r, IF request[r].op = "remove" THEN "member_removed"
                                                ELSE "member_left", u)
  /\ Finish(r)
  /\ UNCHANGED <<opened, owner, contacts, strangers>>

\* `assert deleted` fails: the transaction is given up.
DepartureFindsNoRow(r) ==
  /\ Departing(r)
  /\ ~Locked(request[r].chat, request[r].target)
  /\ ~DepartureFindsRow(r)
  /\ Reject(r)

----------------------------------------------------------------------------
(* update_chat and delete_chat: the owner only *)

StartRename(r, c) ==
  /\ Exists(c)
  /\ Start(r, "rename", "write", c, owner[c], NoUser)

Rename(r) ==
  /\ At(r, "rename", "write")
  /\ Exists(request[r].chat)
  /\ CreateEvent(r, "name_changed", NoUser)
  /\ Finish(r)
  /\ UNCHANGED <<opened, owner, participant, contacts, strangers>>

StartDelete(r, c) ==
  /\ Exists(c)
  /\ Start(r, "delete", "write", c, owner[c], NoUser)

\* DELETE of the chat row cascades to participants and events, and waits for
\* the locks of uncommitted ones.
DeleteChat(r) ==
  LET c == request[r].chat IN
  /\ At(r, "delete", "write")
  /\ Exists(c)
  /\ ~ChatLocked(c)
  /\ owner' = [owner EXCEPT ![c] = NoUser]
  /\ participant' = [participant EXCEPT ![c] = [u \in Users |-> NoRow]]
  /\ events' = [events EXCEPT ![c] = << >>]
  /\ Finish(r)
  /\ UNCHANGED <<opened, contacts, strangers>>

\* update_chat fails its `assert updated_chat is not None`; delete_chat
\* answers that nothing was deleted.
ChatIsGone(r) ==
  /\ At(r, "rename", "write") \/ At(r, "delete", "write")
  /\ ~Exists(request[r].chat)
  /\ Reject(r)

\* A request dies at any point before its commit is durable: the process
\* crashes, the connection drops, the database picks it as deadlock victim.
Abort(r) == request[r] # Idle /\ Reject(r)

----------------------------------------------------------------------------
StartSome(r) ==
  \E c \in Chats :
    \/ \E a, u \in Users : StartAdd(r, c, a, u) \/ StartRemove(r, c, a, u)
    \/ \E u \in Users : StartLeave(r, c, u)
    \/ StartRename(r, c)
    \/ StartDelete(r, c)

Continue(r) ==
  \/ AddReadsTarget(r) \/ AddWrites(r) \/ AddWriteFails(r) \/ AddCommits(r)
  \/ RemoveReadsTarget(r) \/ TargetRefused(r)
  \/ Depart(r) \/ DepartureFindsNoRow(r)
  \/ Rename(r) \/ DeleteChat(r) \/ ChatIsGone(r)

Next ==
  \/ \E c \in Chats, u \in Users : CreateChat(c, u)
  \/ \E r \in Requests : StartSome(r) \/ Continue(r) \/ Abort(r)

Spec == Init /\ [][Next]_vars

\* A handler waits for nothing but row locks, which the database grants in
\* the order they were asked for: a request that can go on again and again
\* does go on, unless it is aborted.
FairSpec == Spec /\ \A r \in Requests : SF_vars(Continue(r))

----------------------------------------------------------------------------
(* Properties *)

\* Every variable has its type, and a running handler works on a real chat
\* for real users.
TypeOK ==
  /\ opened \in SUBSET Chats
  /\ owner \in [Chats -> Users \cup {NoUser}]
  /\ participant \in [Chats -> [Users -> Row]]
  /\ events \in [Chats -> Seq(Event)]
  /\ contacts \in SUBSET SUBSET Users
  /\ strangers \in SUBSET SUBSET Users
  /\ request \in [Requests -> Request]
  /\ \A r \in Requests : WellFormed(request[r])

\* Whatever handlers overlap, replaying the committed events of a chat gives
\* its active participants: the row and the event are written together and a
\* stale departure writes neither.
EventsTellMembership ==
  \A c \in Chats : Active(c) = {u \in Users : LastWord(events[c], u, Arrivals)}

\* A user who left or was removed is not reported as departing again before
\* coming back: two racing removals (or a removal racing a leave) write one
\* event.
DeparturesAlternate == \A c \in Chats : Alternates(events[c])

\* The permission check of remove_participant, against the whole history:
\* whoever is removed is removed by the owner or by someone who had invited
\* them, even when the check was made on a row that changed since.
RemoverHadInvited ==
  \A c \in Chats : \A i \in DOMAIN events[c] :
    events[c][i].kind = "member_removed" =>
      \/ events[c][i].actor = owner[c]
      \/ InvitedBefore(events[c], i, events[c][i].actor, events[c][i].target)

\* Whoever joins gets a blank contact row with every participant there is,
\* although the participants are read before the commit: two members of a
\* chat were given one, unless their invitations overlapped and neither
\* handler saw the row of the other.
MembersAreContacts ==
  \A c \in Chats : \A x, y \in Active(c) :
    x = y \/ {x, y} \in contacts \cup strangers

\* The chat service implements the abstract roster.
ImplementsRoster == Roster!Spec

\* No handler that changes the membership is stuck behind a row lock for
\* ever: it answers or is aborted.  (delete_chat waits for the key-share locks
\* of every uncommitted event, which are granted past a waiting DELETE, so
\* overlapping invitations can starve it; it is left out.)
EveryRequestEnds ==
  \A r \in Requests :
    request[r] # Idle /\ request[r].op # "delete" ~> request[r] = Idle

\* `assert deleted`: the departure that passed its checks finds its row.
\* (Does not hold: see the run that expects its violation.)
AssertDeletedHolds == [][\A r \in Requests : ~DepartureFindsNoRow(r)]_vars

\* An unrelated member cannot remove a participant: at the moment of the
\* removal the actor is the owner or the inviter recorded in the row.
\* (Does not hold: see the run that expects its violation.)
UnrelatedMemberCannotRemove ==
  [][\A r \in Requests :
       Depart(r) /\ request[r].op = "remove" =>
         request[r].actor \in
           {owner[request[r].chat],
            participant[request[r].chat][request[r].target].inviter}]_vars
=============================================================================
