------------------------ MODULE ChatMembershipProofs ------------------------
(***************************************************************************)
(* Theorems about ChatMembership, for every set of users, chats and        *)
(* overlapping handlers and every bound on the log.                        *)
(***************************************************************************)
EXTENDS ChatService, ChatEventsProofs, FiniteSetTheorems

----------------------------------------------------------------------------
(* Type correctness *)

LEMMA RowIsTyped == NoRow \in Row
BY DEF NoRow, Row

LEMMA IdleIsTyped == Idle \in Request /\ WellFormed(Idle)
BY DEF Idle, Request, Operations, WellFormed

\* A handler that starts is of a known operation, on a real chat.
LEMMA StartIsTyped ==
  ASSUME TypeOK,
         NEW r \in Requests, NEW op \in Operations \ {"none"},
         NEW step \in {"target", "write"}, NEW c \in Chats,
         NEW a \in Users, NEW u \in Users \cup {NoUser},
         op \in {"add", "remove", "leave"} => u \in Users,
         Start(r, op, step, c, a, u)
  PROVE  TypeOK'
<1> DEFINE q == [Idle EXCEPT !.op = op, !.step = step, !.chat = c,
                             !.actor = a, !.target = u]
<1>1. q \in Request /\ WellFormed(q)
  BY DEF Idle, Request, Operations, WellFormed
<1>2. request' = [request EXCEPT ![r] = q] /\ UNCHANGED tables
  BY DEF Start
<1> HIDE DEF q
<1> QED BY <1>1, <1>2 DEF TypeOK, tables

\* So is one that ends.
LEMMA FinishIsTyped ==
  ASSUME TypeOK, NEW r \in Requests, Finish(r)
  PROVE  /\ request' \in [Requests -> Request]
         /\ \A q \in Requests : WellFormed(request'[q])
BY IdleIsTyped DEF TypeOK, Finish

LEMMA RejectIsTyped ==
  ASSUME TypeOK, NEW r \in Requests, Reject(r)
  PROVE  TypeOK'
BY FinishIsTyped DEF TypeOK, Reject, tables

\* The event a running handler writes is an event.
LEMMA CreateEventIsTyped ==
  ASSUME TypeOK, NEW r \in Requests, request[r].step # "idle",
         NEW kind \in Arrivals \cup Departures \cup {"name_changed"},
         NEW u \in Users \cup {NoUser},
         CreateEvent(r, kind, u)
  PROVE  /\ [kind |-> kind, actor |-> request[r].actor, target |-> u] \in Event
         /\ events' \in [Chats -> Seq(Event)]
<1> DEFINE e == [kind |-> kind, actor |-> request[r].actor, target |-> u]
<1>1. e \in Event
  BY DEF TypeOK, WellFormed, Event
<1>2. request[r].chat \in Chats
  BY DEF TypeOK, WellFormed
<1>3. events' = [events EXCEPT ![request[r].chat] = Append(@, e)]
  BY DEF CreateEvent
<1>4. Append(events[request[r].chat], e) \in Seq(Event)
  BY <1>1, <1>2 DEF TypeOK
<1> HIDE DEF e
<1> QED
  <2>1. events' \in [Chats -> Seq(Event)]
    BY <1>2, <1>3, <1>4 DEF TypeOK
  <2> QED BY <1>1, <2>1 DEF e

\* A handler that goes on keeps its chat and its users.
LEMMA GoOnIsTyped ==
  ASSUME TypeOK, NEW r \in Requests, request[r].step # "idle",
         NEW step \in {"write", "commit"},
         NEW seen \in {"none", "active", "left"}, NEW peers \in SUBSET Users,
         request' = [request EXCEPT ![r].step = step, ![r].seen = seen,
                                    ![r].peers = peers],
         UNCHANGED tables
  PROVE  TypeOK'
<1> DEFINE q == [request[r] EXCEPT !.step = step, !.seen = seen, !.peers = peers]
<1>1. q \in Request /\ WellFormed(q)
  <2>1. request[r] \in Request /\ WellFormed(request[r])
    BY DEF TypeOK
  <2>2. q \in Request
    BY <2>1 DEF Request
  <2>3. /\ q.op = request[r].op /\ q.chat = request[r].chat
        /\ q.actor = request[r].actor /\ q.target = request[r].target
    BY <2>1 DEF Request
  <2> QED BY <2>1, <2>2, <2>3 DEF WellFormed
<1>2. request' = [request EXCEPT ![r] = q]
  BY DEF TypeOK, Request
<1> HIDE DEF q
<1> QED BY <1>1, <1>2 DEF TypeOK, tables

LEMMA TypeOKInit == Init => TypeOK
BY IdleIsTyped, RowIsTyped DEF Init, TypeOK

\* Every step keeps the types, aborted handlers included.
LEMMA TypeOKNext == TypeOK /\ [Next]_vars => TypeOK'
<1> SUFFICES ASSUME TypeOK, [Next]_vars PROVE TypeOK'
  OBVIOUS
<1>1. ASSUME NEW c \in Chats, NEW u \in Users, CreateChat(c, u)
      PROVE  TypeOK'
  <2> DEFINE e == [kind |-> "created", actor |-> u, target |-> NoUser]
             row == [state |-> "active", inviter |-> NoUser]
  <2>1. e \in Event /\ row \in Row
    BY DEF Event, Row, Arrivals
  <2>2. events' = [events EXCEPT ![c] = Append(@, e)]
    BY <1>1 DEF CreateChat
  <2>3. participant' = [participant EXCEPT ![c][u] = row]
    BY <1>1 DEF CreateChat
  <2>4. Append(events[c], e) \in Seq(Event)
    BY <2>1 DEF TypeOK
  <2> HIDE DEF e, row
  <2>5. events' \in [Chats -> Seq(Event)]
    BY <2>2, <2>4 DEF TypeOK
  <2>6. participant' \in [Chats -> [Users -> Row]]
    BY <2>1, <2>3 DEF TypeOK
  <2> QED BY <1>1, <2>5, <2>6 DEF TypeOK, CreateChat
<1>2. ASSUME NEW r \in Requests, StartSome(r)
      PROVE  TypeOK'
  <2>1. PICK c \in Chats :
          \/ \E a, u \in Users : StartAdd(r, c, a, u) \/ StartRemove(r, c, a, u)
          \/ \E u \in Users : StartLeave(r, c, u)
          \/ StartRename(r, c)
          \/ StartDelete(r, c)
    BY <1>2 DEF StartSome
  <2>2. ASSUME NEW a \in Users, NEW u \in Users, StartAdd(r, c, a, u)
        PROVE  TypeOK'
    BY <2>2, StartIsTyped DEF StartAdd, Operations
  <2>3. ASSUME NEW a \in Users, NEW u \in Users, StartRemove(r, c, a, u)
        PROVE  TypeOK'
    BY <2>3, StartIsTyped DEF StartRemove, Operations
  <2>4. ASSUME NEW u \in Users, StartLeave(r, c, u)
        PROVE  TypeOK'
    BY <2>4, StartIsTyped DEF StartLeave, Operations
  <2>5. ASSUME Exists(c) PROVE owner[c] \in Users
    BY <2>5 DEF TypeOK, Exists
  <2>6. CASE StartRename(r, c)
    BY <2>5, <2>6, StartIsTyped DEF StartRename, Operations
  <2>7. CASE StartDelete(r, c)
    BY <2>5, <2>7, StartIsTyped DEF StartDelete, Operations
  <2> QED BY <2>1, <2>2, <2>3, <2>4, <2>6, <2>7
<1>3. ASSUME NEW r \in Requests, Continue(r)
      PROVE  TypeOK'
  <2> DEFINE c == request[r].chat
             u == request[r].target
  <2>1. CASE AddReadsTarget(r)
    <3>1. /\ request[r].step # "idle" /\ c \in Chats /\ u \in Users
          /\ request[r] \in Request
      BY <2>1 DEF AddReadsTarget, At, TypeOK, WellFormed
    <3>2. participant[c][u].state \in {"none", "active", "left"}
      BY <3>1 DEF TypeOK, Row
    <3>3. request' = [request EXCEPT ![r].step = "write",
                                     ![r].seen = participant[c][u].state,
                                     ![r].peers = request[r].peers]
      BY <2>1, <3>1 DEF AddReadsTarget, TypeOK, Request
    <3>4. request[r].peers \in SUBSET Users
      BY <3>1 DEF Request
    <3>5. UNCHANGED tables
      BY <2>1 DEF AddReadsTarget
    <3> HIDE DEF c, u
    <3> QED BY <3>1, <3>2, <3>3, <3>4, <3>5, GoOnIsTyped
  <2>2. CASE AddWrites(r)
    <3>1. request[r].step # "idle" /\ request[r] \in Request
      BY <2>2 DEF AddWrites, At, TypeOK
    <3>2. request[r].seen \in {"none", "active", "left"}
      BY <3>1 DEF Request
    <3>3. request' = [request EXCEPT ![r].step = "commit",
                                     ![r].seen = request[r].seen,
                                     ![r].peers = Active(c) \ {u}]
      BY <2>2, <3>1 DEF AddWrites, TypeOK, Request
    <3>4. Active(c) \ {u} \in SUBSET Users
      BY DEF Active
    <3>5. UNCHANGED tables
      BY <2>2 DEF AddWrites
    <3> HIDE DEF c, u
    <3> QED BY <3>1, <3>2, <3>3, <3>4, <3>5, GoOnIsTyped
  <2>3. CASE AddWriteFails(r)
    BY <2>3, RejectIsTyped DEF AddWriteFails
  <2>4. CASE AddCommits(r)
    <3>1. request[r].step # "idle" /\ c \in Chats /\ u \in Users
          /\ request[r].actor \in Users /\ request[r].peers \in SUBSET Users
      BY <2>4 DEF AddCommits, At, TypeOK, WellFormed, Request
    <3> DEFINE row == [state |-> "active", inviter |-> request[r].actor]
               kind == IF request[r].seen = "none" THEN "member_added"
                                                   ELSE "member_joined"
    <3>2. row \in Row /\ kind \in Arrivals
      BY <3>1 DEF Row, Arrivals
    <3>3. /\ participant' = [participant EXCEPT ![c][u] = row]
          /\ CreateEvent(r, kind, u)
          /\ contacts' = contacts \cup {{u, p} : p \in request[r].peers}
          /\ strangers' = strangers \cup {{u, p} : p \in Inviting(c) \ {u}}
          /\ Finish(r)
          /\ UNCHANGED <<opened, owner>>
      BY <2>4 DEF AddCommits
    <3> HIDE DEF c, u, row, kind
    <3>4. participant' \in [Chats -> [Users -> Row]]
      BY <3>1, <3>2, <3>3 DEF TypeOK
    <3>5. events' \in [Chats -> Seq(Event)]
      BY <3>1, <3>2, <3>3, CreateEventIsTyped
    <3>6. \A S \in SUBSET Users : {{u, p} : p \in S} \subseteq SUBSET Users
      BY <3>1
    <3>7. /\ contacts' \in SUBSET SUBSET Users
          /\ strangers' \in SUBSET SUBSET Users
      <4>1. Inviting(c) \ {u} \in SUBSET Users
        BY DEF Inviting
      <4>2. /\ {{u, p} : p \in request[r].peers} \subseteq SUBSET Users
            /\ {{u, p} : p \in Inviting(c) \ {u}} \subseteq SUBSET Users
        BY <3>1, <3>6, <4>1
      <4>3. contacts \subseteq SUBSET Users /\ strangers \subseteq SUBSET Users
        BY DEF TypeOK
      <4> QED BY <3>3, <4>2, <4>3
    <3> QED BY <3>3, <3>4, <3>5, <3>6, <3>7, FinishIsTyped DEF TypeOK
  <2>5. CASE RemoveReadsTarget(r)
    <3>1. request[r].step # "idle" /\ request[r] \in Request
      BY <2>5 DEF RemoveReadsTarget, At, TypeOK
    <3>2. /\ request[r].seen \in {"none", "active", "left"}
          /\ request[r].peers \in SUBSET Users
      BY <3>1 DEF Request
    <3>3. request' = [request EXCEPT ![r].step = "write",
                                     ![r].seen = request[r].seen,
                                     ![r].peers = request[r].peers]
      BY <2>5, <3>1 DEF RemoveReadsTarget, TypeOK, Request
    <3>4. UNCHANGED tables
      BY <2>5 DEF RemoveReadsTarget
    <3> QED BY <3>1, <3>2, <3>3, <3>4, GoOnIsTyped
  <2>6. CASE TargetRefused(r)
    BY <2>6, RejectIsTyped DEF TargetRefused
  <2>7. CASE Depart(r)
    <3>1. request[r].step # "idle" /\ c \in Chats /\ u \in Users
      BY <2>7 DEF Depart, Departing, At, TypeOK, WellFormed
    <3> DEFINE kind == IF request[r].op = "remove" THEN "member_removed"
                                                   ELSE "member_left"
    <3>2. /\ participant' = [participant EXCEPT ![c][u].state = "left"]
          /\ CreateEvent(r, kind, u)
          /\ Finish(r)
          /\ UNCHANGED <<opened, owner, contacts, strangers>>
      BY <2>7 DEF Depart
    <3>3. kind \in Departures
      BY DEF Departures
    <3> HIDE DEF c, u, kind
    <3>4. participant' \in [Chats -> [Users -> Row]]
      <4> DEFINE row == [participant[c][u] EXCEPT !.state = "left"]
      <4>1. row \in Row
        <5>1. participant[c][u] \in Row
          BY <3>1 DEF TypeOK
        <5> QED BY <5>1 DEF Row
      <4>2. participant' = [participant EXCEPT ![c][u] = row]
        BY <3>1, <3>2 DEF TypeOK
      <4> HIDE DEF row
      <4> QED BY <3>1, <4>1, <4>2 DEF TypeOK
    <3>5. events' \in [Chats -> Seq(Event)]
      BY <3>1, <3>2, <3>3, CreateEventIsTyped
    <3> QED BY <3>2, <3>4, <3>5, FinishIsTyped DEF TypeOK
  <2>8. CASE DepartureFindsNoRow(r)
    BY <2>8, RejectIsTyped DEF DepartureFindsNoRow
  <2>9. CASE Rename(r)
    <3>1. request[r].step # "idle"
      BY <2>9 DEF Rename, At
    <3>2. events' \in [Chats -> Seq(Event)]
      BY <2>9, <3>1, CreateEventIsTyped DEF Rename
    <3> QED BY <2>9, <3>2, FinishIsTyped DEF TypeOK, Rename
  <2>10. CASE DeleteChat(r)
    <3>1. c \in Chats
      BY <2>10 DEF DeleteChat, At, TypeOK, WellFormed
    <3>2. /\ owner' = [owner EXCEPT ![c] = NoUser]
          /\ participant' = [participant EXCEPT ![c] = [v \in Users |-> NoRow]]
          /\ events' = [events EXCEPT ![c] = << >>]
          /\ Finish(r)
          /\ UNCHANGED <<opened, contacts, strangers>>
      BY <2>10 DEF DeleteChat
    <3> HIDE DEF c
    <3>3. events' \in [Chats -> Seq(Event)]
      <4>1. << >> \in Seq(Event)
        OBVIOUS
      <4> QED BY <3>2, <4>1 DEF TypeOK
    <3>4. participant' \in [Chats -> [Users -> Row]]
      BY <3>2, RowIsTyped DEF TypeOK
    <3> QED BY <3>2, <3>3, <3>4, FinishIsTyped DEF TypeOK
  <2>11. CASE ChatIsGone(r)
    BY <2>11, RejectIsTyped DEF ChatIsGone
  <2> QED BY <1>3, <2>1, <2>2, <2>3, <2>4, <2>5, <2>6, <2>7, <2>8, <2>9, <2>10,
             <2>11 DEF Continue
<1>4. ASSUME NEW r \in Requests, Abort(r)
      PROVE  TypeOK'
  BY <1>4, RejectIsTyped DEF Abort
<1>5. CASE UNCHANGED vars
  BY <1>5 DEF TypeOK, vars
<1> QED BY <1>1, <1>2, <1>3, <1>4, <1>5 DEF Next

\* The tables and the handlers keep their types, whatever overlaps.
THEOREM TypeCorrect == Spec => []TypeOK
BY TypeOKInit, TypeOKNext, PTL DEF Spec

----------------------------------------------------------------------------
(* The inductive invariant.  The properties speak of rows and events only; *)
(* they are kept because of what each half-done handler has seen, which    *)
(* later transactions may make stale but never false in the ways below.    *)

\* The row of a user agrees with the user's last event.
RowsMatchEvents(c) ==
  \A u \in Users :
    /\ participant[c][u].state = "active" => LastWord(events[c], u, Arrivals)
    /\ participant[c][u].state = "left" => LastWord(events[c], u, Departures)
    /\ participant[c][u].state = "none" => ~Mentioned(events[c], u)

\* A row names an inviter only if an event does.
InvitersOnRecord(c) ==
  \A u \in Users :
    participant[c][u].inviter # NoUser =>
      InvitedBefore(events[c], Len(events[c]) + 1, participant[c][u].inviter, u)

\* Every removal in the log was made by the owner or by an inviter.
RemovalsAllowed(c) ==
  \A i \in DOMAIN events[c] :
    events[c][i].kind = "member_removed" =>
      \/ events[c][i].actor = owner[c]
      \/ InvitedBefore(events[c], i, events[c][i].actor, events[c][i].target)

ChatInv(c) ==
  /\ Exists(c) => c \in opened
  /\ ~Exists(c) => /\ events[c] = << >>
                   /\ \A u \in Users : participant[c][u] = NoRow
  /\ RowsMatchEvents(c)
  /\ Alternates(events[c])
  /\ InvitersOnRecord(c)
  /\ RemovalsAllowed(c)

\* What a handler knows of its chat c and its target u: the chat identifier
\* is used up, and as long as the chat exists its owner does not change, a row
\* does not disappear and what the log says stays said.  Once its row is locked the
\* chat does exist and the row is still the one it read.
HandlerInv(r) ==
  LET q == request[r]
      state == participant[q.chat][q.target].state IN
  q.step # "idle" =>
    /\ q.chat \in opened
    /\ q.step = "commit" => /\ q.op = "add"
                            /\ Exists(q.chat)
                            /\ q.seen = "none" <=> state = "none"
    /\ q.step = "write" /\ Exists(q.chat) =>
         /\ q.op = "add" /\ q.seen # "none" => state # "none"
         /\ q.op \in {"remove", "leave"} => q.target # owner[q.chat]
         /\ q.op = "leave" => q.actor = q.target
         /\ q.op = "remove" =>
              \/ q.actor = owner[q.chat]
              \/ InvitedBefore(events[q.chat], Len(events[q.chat]) + 1,
                               q.actor, q.target)
         /\ q.op = "rename" => q.actor = owner[q.chat]

\* A row is locked by one handler at a time.
LockInv ==
  \A r, q \in Requests :
    /\ request[r].step = "commit"
    /\ request[q].step = "commit"
    /\ request[r].chat = request[q].chat
    /\ request[r].target = request[q].target
    => r = q

IInv ==
  /\ TypeOK
  /\ \A c \in Chats : ChatInv(c)
  /\ \A r \in Requests : HandlerInv(r)
  /\ LockInv

LEMMA IInvInit == Init => IInv
<1> SUFFICES ASSUME Init PROVE IInv
  OBVIOUS
<1>1. ASSUME NEW c \in Chats PROVE ChatInv(c)
  <2>1. /\ ~Exists(c)
        /\ events[c] = << >>
        /\ \A u \in Users : participant[c][u] = NoRow
    BY DEF Init, Exists
  <2>2. RowsMatchEvents(c) /\ InvitersOnRecord(c)
    BY <2>1 DEF RowsMatchEvents, InvitersOnRecord, NoRow, Mentioned
  <2>3. Alternates(events[c]) /\ RemovalsAllowed(c)
    BY <2>1 DEF Alternates, RemovalsAllowed
  <2> QED BY <2>1, <2>2, <2>3 DEF ChatInv
<1>2. \A r \in Requests : request[r].step = "idle"
  BY DEF Init, Idle
<1> QED BY <1>1, <1>2, TypeOKInit DEF IInv, HandlerInv, LockInv

\* A chat whose rows no transaction touched.
LEMMA ChatUntouched ==
  ASSUME NEW c \in Chats, ChatInv(c), opened \subseteq opened',
         owner'[c] = owner[c], participant'[c] = participant[c],
         events'[c] = events[c]
  PROVE  ChatInv(c)'
BY DEF ChatInv, Exists, RowsMatchEvents, InvitersOnRecord, RemovalsAllowed

\* A chat that got one event e: the row of the user it is about changed with
\* it, and a departure was one of an active, removable member.
LEMMA ChatGotEvent ==
  ASSUME TypeOK, TypeOK', NEW c \in Chats, ChatInv(c),
         NEW e \in Event,
         owner'[c] # NoUser,
         owner'[c] = owner[c] \/ events[c] = << >>,
         c \in opened',
         events'[c] = Append(events[c], e),
         \A v \in Users : v # Subject(e) => participant'[c][v] = participant[c][v],
         \A v \in Users : v = Subject(e) =>
           /\ \/ e.kind \in Arrivals /\ participant'[c][v].state = "active"
              \/ /\ e.kind \in Departures
                 /\ participant[c][v].state = "active"
                 /\ participant'[c][v].state = "left"
           /\ \/ participant'[c][v].inviter \in {NoUser, participant[c][v].inviter}
              \/ /\ e.kind \in Arrivals
                 /\ e.target = v
                 /\ e.actor = participant'[c][v].inviter,
         e.kind \in Departures => Subject(e) \in Users,
         e.kind = "member_removed" =>
           \/ e.actor = owner[c]
           \/ InvitedBefore(events[c], Len(events[c]) + 1, e.actor, e.target)
  PROVE  ChatInv(c)'
<1> DEFINE l == events[c]
<1>1. l \in Seq(Event) /\ events'[c] = Append(l, e)
  BY DEF TypeOK
<1>2. RowsMatchEvents(c)'
  <2>1. SUFFICES ASSUME NEW u \in Users
                 PROVE  /\ participant'[c][u].state = "active"
                             => LastWord(Append(l, e), u, Arrivals)
                        /\ participant'[c][u].state = "left"
                             => LastWord(Append(l, e), u, Departures)
                        /\ participant'[c][u].state = "none"
                             => ~Mentioned(Append(l, e), u)
    BY <1>1 DEF RowsMatchEvents
  <2>2. CASE u = Subject(e)
    BY <1>1, <2>2, LastWordIsNew
  <2>3. CASE u # Subject(e)
    <3>1. /\ participant[c][u].state = "active" => LastWord(l, u, Arrivals)
          /\ participant[c][u].state = "left" => LastWord(l, u, Departures)
          /\ participant[c][u].state = "none" => ~Mentioned(l, u)
      BY DEF ChatInv, RowsMatchEvents
    <3>2. participant'[c][u] = participant[c][u]
      BY <2>3
    <3> HIDE DEF l
    <3> QED BY <1>1, <2>3, <3>1, <3>2, LastWordStays, MentionedAppend
  <2> QED BY <2>2, <2>3
<1>3. Alternates(events[c])'
  <2>1. e.kind \in Departures => LastWord(l, Subject(e), Arrivals)
    BY DEF ChatInv, RowsMatchEvents, Arrivals, Departures
  <2>2. Alternates(l)
    BY DEF ChatInv
  <2> HIDE DEF l
  <2> QED BY <1>1, <2>1, <2>2, AlternatesAppend
<1>4. InvitersOnRecord(c)'
  <2>1. SUFFICES ASSUME NEW u \in Users, participant'[c][u].inviter # NoUser
                 PROVE  InvitedBefore(Append(l, e), Len(Append(l, e)) + 1,
                                      participant'[c][u].inviter, u)
    BY <1>1 DEF InvitersOnRecord
  <2>2. CASE participant'[c][u].inviter = participant[c][u].inviter
    <3>1. InvitedBefore(l, Len(l) + 1, participant'[c][u].inviter, u)
      BY <2>1, <2>2 DEF ChatInv, InvitersOnRecord
    <3>2. Len(l) + 1 \in 1..(Len(l) + 1)
      BY <1>1
    <3> HIDE DEF l
    <3> QED BY <1>1, <3>1, <3>2, InvitedBeforeAppend
  <2>3. CASE participant'[c][u].inviter # participant[c][u].inviter
    <3>1. /\ e.kind \in Arrivals
          /\ e.target = u
          /\ e.actor = participant'[c][u].inviter
      BY <2>1, <2>3
    <3> HIDE DEF l
    <3> QED BY <1>1, <3>1, InvitedNow
  <2> QED BY <2>2, <2>3
<1>5. RemovalsAllowed(c)'
  <2> DEFINE m == Append(l, e)
  <2>1. SUFFICES ASSUME NEW i \in DOMAIN m, m[i].kind = "member_removed"
                 PROVE  \/ m[i].actor = owner'[c]
                        \/ InvitedBefore(m, i, m[i].actor, m[i].target)
    BY <1>1 DEF RemovalsAllowed
  <2>2. CASE i \in DOMAIN l
    <3>1. m[i] = l[i] /\ i \in 1..(Len(l) + 1) /\ l # << >>
      BY <1>1, <2>2
    <3>2. \/ l[i].actor = owner'[c]
          \/ InvitedBefore(l, i, l[i].actor, l[i].target)
      BY <2>1, <2>2, <3>1 DEF ChatInv, RemovalsAllowed
    <3> HIDE DEF l
    <3> QED BY <1>1, <3>1, <3>2, InvitedBeforeAppend
  <2>3. CASE i = Len(l) + 1
    <3>1. m[i] = e /\ i \in 1..(Len(l) + 1)
      BY <1>1, <2>3
    <3>2. \/ e.actor = owner'[c]
          \/ InvitedBefore(l, Len(l) + 1, e.actor, e.target)
      <4>1. CASE owner'[c] = owner[c]
        BY <2>1, <3>1, <4>1
      <4>2. CASE l = << >>
        <5>1. ~InvitedBefore(l, Len(l) + 1, e.actor, e.target)
          BY <4>2 DEF InvitedBefore
        <5>2. e.kind \in Departures
          BY <2>1, <3>1 DEF Departures
        <5>3. ~(e.kind \in Arrivals) /\ Subject(e) \in Users
          BY <5>2 DEF Arrivals, Departures
        <5>4. participant[c][Subject(e)].state = "active"
          BY <5>3
        <5>5. LastWord(l, Subject(e), Arrivals)
          BY <5>3, <5>4 DEF ChatInv, RowsMatchEvents
        <5> QED BY <4>2, <5>5 DEF LastWord
      <4> QED BY <4>1, <4>2
    <3> HIDE DEF l
    <3> QED BY <1>1, <2>3, <3>1, <3>2, InvitedBeforeAppend
  <2>4. i \in DOMAIN l \/ i = Len(l) + 1
    BY <1>1
  <2> QED BY <2>2, <2>3, <2>4
<1> QED BY <1>1, <1>2, <1>3, <1>4, <1>5 DEF ChatInv, Exists

\* What another transaction does to the chat of handler r, which stays where
\* it is: nothing; its end; or one more event with the target's row kept.
LEMMA HandlerWaits ==
  ASSUME TypeOK, NEW r \in Requests, HandlerInv(r),
         request'[r] = request[r], opened \subseteq opened',
         NEW c, c = request[r].chat,
         \/ /\ owner'[c] = owner[c]
            /\ participant'[c] = participant[c]
            /\ events'[c] = events[c]
         \/ /\ owner'[c] = NoUser
            /\ request[r].step # "commit"
         \/ /\ owner'[c] = owner[c]
            /\ \E e \in Event : events'[c] = Append(events[c], e)
            /\ \A v \in Users : participant[c][v].state # "none" =>
                                  participant'[c][v].state # "none"
            /\ request[r].step = "commit" =>
                 participant'[c][request[r].target]
                   = participant[c][request[r].target]
  PROVE  HandlerInv(r)'
<1> SUFFICES ASSUME request[r].step # "idle" PROVE HandlerInv(r)'
  BY DEF HandlerInv
<1> DEFINE u == request[r].target
           a == request[r].actor
<1>1. c \in Chats /\ c \in opened' /\ events[c] \in Seq(Event)
  BY DEF HandlerInv, TypeOK, WellFormed
<1>2. CASE /\ owner'[c] = owner[c]
           /\ participant'[c] = participant[c]
           /\ events'[c] = events[c]
  BY <1>1, <1>2 DEF HandlerInv, Exists
<1>3. CASE owner'[c] = NoUser /\ request[r].step # "commit"
  BY <1>1, <1>3 DEF HandlerInv, Exists
<1>4. CASE /\ owner'[c] = owner[c]
           /\ \E e \in Event : events'[c] = Append(events[c], e)
           /\ \A v \in Users : participant[c][v].state # "none" =>
                                 participant'[c][v].state # "none"
           /\ request[r].step = "commit" =>
                participant'[c][u] = participant[c][u]
  <2>1. ASSUME InvitedBefore(events[c], Len(events[c]) + 1, a, u)
        PROVE  InvitedBefore(events'[c], Len(events'[c]) + 1, a, u)
    <3>1. PICK e \in Event : events'[c] = Append(events[c], e)
      BY <1>4
    <3>2. Len(events[c]) + 1 \in 1..(Len(events[c]) + 1)
      BY <1>1
    <3> HIDE DEF a, u
    <3> QED BY <1>1, <2>1, <3>1, <3>2, InvitedBeforeAppend
  <2>2. request[r].op = "add" => u \in Users
    BY DEF TypeOK, WellFormed
  <2> QED BY <1>1, <1>4, <2>1, <2>2 DEF HandlerInv, Exists
<1> QED BY <1>2, <1>3, <1>4

\* A handler that starts, goes on or ends without writing: the chats keep
\* their invariant and so do the other handlers.
LEMMA NothingWritten ==
  ASSUME IInv, TypeOK', NEW r \in Requests, UNCHANGED tables,
         \A p \in Requests \ {r} : request'[p] = request[p],
         HandlerInv(r)',
         request'[r].step = "commit" =>
           \A p \in Requests \ {r} :
             ~(/\ request[p].step = "commit"
               /\ request[p].chat = request'[r].chat
               /\ request[p].target = request'[r].target)
  PROVE  IInv'
<1>1. \A c \in Chats : ChatInv(c)'
  BY ChatUntouched DEF IInv, tables
<1>2. \A p \in Requests : HandlerInv(p)'
  BY HandlerWaits DEF IInv, tables
<1>3. LockInv'
  BY DEF IInv, LockInv
<1> QED BY <1>1, <1>2, <1>3 DEF IInv

\* A transaction that commits to chat c and is done, r = its handler.
LEMMA Written ==
  ASSUME IInv, TypeOK', NEW r \in Requests, Finish(r), NEW c \in Chats,
         opened' = opened, c = request[r].chat,
         \A d \in Chats \ {c} : /\ owner'[d] = owner[d]
                                /\ participant'[d] = participant[d]
                                /\ events'[d] = events[d],
         ChatInv(c)',
         \/ /\ owner'[c] = NoUser
            /\ ~ChatLocked(c)
         \/ /\ owner'[c] = owner[c]
            /\ \E e \in Event : events'[c] = Append(events[c], e)
            /\ \A v \in Users : participant[c][v].state # "none" =>
                                  participant'[c][v].state # "none"
            /\ \A v \in Users : participant'[c][v] = participant[c][v]
                                \/ ~\E p \in Requests \ {r} :
                                     /\ request[p].step = "commit"
                                     /\ request[p].chat = c
                                     /\ request[p].target = v
  PROVE  IInv'
<1>1. \A d \in Chats : ChatInv(d)'
  BY ChatUntouched DEF IInv
<1>2. request'[r] = Idle /\ \A p \in Requests \ {r} : request'[p] = request[p]
  BY DEF Finish, IInv, TypeOK
<1>3. ASSUME NEW p \in Requests PROVE HandlerInv(p)'
  <2>1. CASE p = r
    BY <1>2, <2>1 DEF HandlerInv, Idle
  <2>2. CASE p # r /\ request[p].step = "idle"
    BY <1>2, <2>2 DEF HandlerInv
  <2>3. CASE p # r /\ request[p].step # "idle" /\ request[p].chat # c
    <3>1. request[p].chat \in Chats
      BY <2>3 DEF IInv, TypeOK, WellFormed
    <3> QED BY <1>2, <2>3, <3>1, HandlerWaits DEF IInv
  <2>4. CASE p # r /\ request[p].step # "idle" /\ request[p].chat = c
    <3>1. HandlerInv(p) /\ TypeOK /\ request'[p] = request[p]
      BY <1>2, <2>4 DEF IInv
    <3>2. CASE owner'[c] = NoUser /\ ~ChatLocked(c)
      <4>1. request[p].step = "commit" => request[p].target \in Users
        BY <2>4, <3>1 DEF HandlerInv, TypeOK, WellFormed
      <4>2. request[p].step # "commit"
        BY <2>4, <3>2, <4>1 DEF ChatLocked, Locked
      <4> QED BY <2>4, <3>1, <3>2, <4>2, HandlerWaits
    <3>3. CASE /\ owner'[c] = owner[c]
               /\ \E e \in Event : events'[c] = Append(events[c], e)
               /\ \A v \in Users : participant[c][v].state # "none" =>
                                     participant'[c][v].state # "none"
               /\ \A v \in Users : participant'[c][v] = participant[c][v]
                                   \/ ~\E q \in Requests \ {r} :
                                        /\ request[q].step = "commit"
                                        /\ request[q].chat = c
                                        /\ request[q].target = v
      <4>1. request[p].step = "commit" => request[p].target \in Users
        BY <2>4, <3>1 DEF HandlerInv, TypeOK, WellFormed
      <4>2. request[p].step = "commit" =>
              participant'[c][request[p].target]
                = participant[c][request[p].target]
        BY <2>4, <3>3, <4>1
      <4> QED BY <2>4, <3>1, <3>3, <4>2, HandlerWaits
    <3> QED BY <3>2, <3>3
  <2> QED BY <2>1, <2>2, <2>3, <2>4
<1>4. LockInv'
  BY <1>2 DEF IInv, LockInv, Idle
<1> QED BY <1>1, <1>3, <1>4 DEF IInv

\* A handler that starts knows nothing yet, or has just read that the user
\* who leaves is not the owner, or that it acts for the owner.
LEMMA StartKeepsIInv ==
  ASSUME IInv, TypeOK',
         NEW r \in Requests, NEW op \in Operations,
         NEW step \in {"target", "write"}, NEW c \in Chats,
         NEW a \in Users, NEW u \in Users \cup {NoUser},
         Exists(c),
         step = "write" => /\ op \in {"leave", "rename", "delete"}
                           /\ op = "leave" => u # owner[c] /\ a = u
                           /\ op = "rename" => a = owner[c],
         Start(r, op, step, c, a, u)
  PROVE  IInv'
<1> DEFINE q == [Idle EXCEPT !.op = op, !.step = step, !.chat = c,
                             !.actor = a, !.target = u]
<1>1. /\ q.op = op /\ q.step = step /\ q.chat = c
      /\ q.actor = a /\ q.target = u /\ q.seen = "none"
  BY DEF Idle
<1>2. request' = [request EXCEPT ![r] = q] /\ UNCHANGED tables
  BY DEF Start
<1> HIDE DEF q
<1>3. request'[r] = q /\ \A p \in Requests \ {r} : request'[p] = request[p]
  BY <1>2 DEF IInv, TypeOK
<1>4. c \in opened'
  BY <1>2 DEF IInv, ChatInv, tables
<1>5. HandlerInv(r)'
  BY <1>1, <1>2, <1>3, <1>4 DEF HandlerInv, Exists, tables
<1> QED BY <1>1, <1>2, <1>3, <1>5, NothingWritten

LEMMA RejectKeepsIInv ==
  ASSUME IInv, TypeOK', NEW r \in Requests, Reject(r)
  PROVE  IInv'
<1>1. request'[r] = Idle /\ \A p \in Requests \ {r} : request'[p] = request[p]
  BY DEF Reject, Finish, IInv, TypeOK
<1>2. HandlerInv(r)'
  BY <1>1 DEF HandlerInv, Idle
<1> QED BY <1>1, <1>2, NothingWritten DEF Reject, Idle

\* create_chat writes to a chat nobody else can name.
LEMMA CreateChatKeepsIInv ==
  ASSUME IInv, TypeOK', NEW c \in Chats, NEW u \in Users, CreateChat(c, u)
  PROVE  IInv'
<1> DEFINE e == [kind |-> "created", actor |-> u, target |-> NoUser]
           row == [state |-> "active", inviter |-> NoUser]
<1>1. /\ owner' = [owner EXCEPT ![c] = u]
      /\ participant' = [participant EXCEPT ![c][u] = row]
      /\ events' = [events EXCEPT ![c] = Append(@, e)]
      /\ opened' = opened \cup {c}
      /\ request' = request
  BY DEF CreateChat
<1>2. /\ e \in Event /\ Subject(e) = u /\ e.kind = "created"
      /\ row.state = "active" /\ row.inviter = NoUser
  BY DEF Event, Arrivals, Subject
<1>3. c \notin opened /\ ~Exists(c) /\ events[c] = << >>
  BY DEF CreateChat, IInv, ChatInv
<1> HIDE DEF e, row
<1>4. /\ owner'[c] = u /\ owner'[c] # NoUser
      /\ events'[c] = Append(events[c], e)
      /\ participant'[c][u] = row
      /\ \A v \in Users : v # u => participant'[c][v] = participant[c][v]
  BY <1>1, NoUserIsNobody DEF IInv, TypeOK
<1>5. e.kind \in Arrivals /\ e.kind \notin Departures /\ e.kind # "member_removed"
  BY <1>2 DEF Arrivals, Departures
<1>6. ChatInv(c)'
  BY <1>1, <1>2, <1>3, <1>4, <1>5, ChatGotEvent DEF IInv
<1>7. \A d \in Chats \ {c} : /\ owner'[d] = owner[d]
                             /\ participant'[d] = participant[d]
                             /\ events'[d] = events[d]
  BY <1>1 DEF IInv, TypeOK
<1>8. \A d \in Chats : ChatInv(d)'
  BY <1>1, <1>6, <1>7, ChatUntouched DEF IInv
<1>9. ASSUME NEW r \in Requests PROVE HandlerInv(r)'
  <2>1. CASE request[r].step = "idle"
    BY <1>1, <2>1 DEF HandlerInv
  <2>2. CASE request[r].step # "idle"
    <3>1. request[r].chat \in Chats \ {c}
      BY <1>3, <2>2 DEF IInv, HandlerInv, TypeOK, WellFormed
    <3> QED BY <1>1, <1>7, <3>1, HandlerWaits DEF IInv
  <2> QED BY <2>1, <2>2
<1> QED BY <1>1, <1>8, <1>9 DEF IInv, LockInv

\* The commit of an invitation: the row was locked, so it is still the row
\* that decided between added and joined.
LEMMA AddCommitsKeepsIInv ==
  ASSUME IInv, TypeOK', NEW r \in Requests, AddCommits(r)
  PROVE  IInv'
<1>1. PICK c \in Chats, u \in Users, a \in Users :
        /\ c = request[r].chat /\ u = request[r].target /\ a = request[r].actor
        /\ request[r].step = "commit" /\ Exists(c)
  BY DEF AddCommits, At, IInv, TypeOK, WellFormed, HandlerInv
<1> DEFINE row == [state |-> "active", inviter |-> a]
<1>2. PICK e \in Event :
        /\ events' = [events EXCEPT ![c] = Append(@, e)]
        /\ e.kind \in {"member_added", "member_joined"}
        /\ e.actor = a /\ e.target = u
  <2> DEFINE kind == IF request[r].seen = "none" THEN "member_added"
                                                 ELSE "member_joined"
             ev == [kind |-> kind, actor |-> a, target |-> u]
  <2>1. /\ ev \in Event /\ ev.kind \in {"member_added", "member_joined"}
        /\ ev.actor = a /\ ev.target = u
    BY DEF Event, Arrivals
  <2>2. events' = [events EXCEPT ![c] = Append(@, ev)]
    BY <1>1 DEF AddCommits, CreateEvent
  <2> QED BY <2>1, <2>2
<1>3. /\ participant' = [participant EXCEPT ![c][u] = row]
      /\ Finish(r)
      /\ opened' = opened /\ owner' = owner
  BY <1>1 DEF AddCommits
<1>4. /\ e.kind \in Arrivals /\ e.kind \notin Departures
      /\ e.kind # "member_removed"
      /\ Subject(e) = u
  BY <1>2 DEF Arrivals, Departures, Subject
<1>5. \A p \in Requests \ {r} : ~(/\ request[p].step = "commit"
                                  /\ request[p].chat = c
                                  /\ request[p].target = u)
  BY <1>1 DEF IInv, LockInv
<1>6. /\ events'[c] = Append(events[c], e)
      /\ participant'[c][u] = row
      /\ row.state = "active" /\ row.inviter = a
      /\ \A v \in Users : v # u => participant'[c][v] = participant[c][v]
      /\ owner'[c] = owner[c] /\ owner'[c] # NoUser
      /\ \A d \in Chats \ {c} : /\ owner'[d] = owner[d]
                                /\ participant'[d] = participant[d]
                                /\ events'[d] = events[d]
  BY <1>1, <1>2, <1>3 DEF IInv, TypeOK, Exists
<1> HIDE DEF row
<1>7. c \in opened'
  BY <1>1, <1>3 DEF IInv, ChatInv
<1>8. ChatInv(c)'
  <2>1. \A v \in Users : v # Subject(e) => participant'[c][v] = participant[c][v]
    BY <1>2, <1>4, <1>6
  <2>2. \A v \in Users : v = Subject(e) =>
          /\ e.kind \in Arrivals /\ participant'[c][v].state = "active"
          /\ e.target = v
          /\ e.actor = participant'[c][v].inviter
    BY <1>2, <1>4, <1>6
  <2>3. TypeOK /\ ChatInv(c)
    BY <1>1 DEF IInv
  <2> QED BY <1>2, <1>4, <1>6, <1>7, <2>1, <2>2, <2>3, ChatGotEvent
<1>9. \A v \in Users : \/ participant'[c][v] = participant[c][v]
                        \/ ~\E p \in Requests \ {r} :
                             /\ request[p].step = "commit"
                             /\ request[p].chat = c
                             /\ request[p].target = v
  BY <1>5, <1>6
<1>10. \A v \in Users : participant[c][v].state # "none" =>
                          participant'[c][v].state # "none"
  BY <1>6
<1> QED BY <1>1, <1>2, <1>3, <1>6, <1>8, <1>9, <1>10, Written

\* A departure: its guarded UPDATE found the row active, hence unlocked and
\* about a member who is not the owner.
LEMMA DepartKeepsIInv ==
  ASSUME IInv, TypeOK', NEW r \in Requests, Depart(r)
  PROVE  IInv'
<1>1. PICK c \in Chats, u \in Users, a \in Users :
        /\ c = request[r].chat /\ u = request[r].target /\ a = request[r].actor
        /\ request[r].step = "write"
        /\ participant[c][u].state = "active" /\ ~Locked(c, u)
  BY DEF Depart, Departing, DepartureFindsRow, IsActive, At, IInv, TypeOK,
         WellFormed
<1>2. PICK e \in Event :
        /\ events' = [events EXCEPT ![c] = Append(@, e)]
        /\ e.kind \in Departures
        /\ e.actor = a /\ e.target = u
        /\ e.kind = "member_removed" => request[r].op = "remove"
  <2> DEFINE kind == IF request[r].op = "remove" THEN "member_removed"
                                                 ELSE "member_left"
             ev == [kind |-> kind, actor |-> a, target |-> u]
  <2>1. /\ ev \in Event /\ ev.kind \in Departures
        /\ ev.actor = a /\ ev.target = u
        /\ ev.kind = "member_removed" => request[r].op = "remove"
    BY DEF Event, Departures
  <2>2. events' = [events EXCEPT ![c] = Append(@, ev)]
    BY <1>1 DEF Depart, CreateEvent
  <2> QED BY <2>1, <2>2
<1>3. /\ participant' = [participant EXCEPT ![c][u].state = "left"]
      /\ Finish(r)
      /\ opened' = opened /\ owner' = owner
  BY <1>1 DEF Depart
<1>4. Exists(c) /\ c \in opened'
  BY <1>1, <1>3 DEF IInv, ChatInv, NoRow
<1>5. e.kind = "member_removed" =>
        \/ e.actor = owner[c]
        \/ InvitedBefore(events[c], Len(events[c]) + 1, e.actor, e.target)
  BY <1>1, <1>2, <1>4 DEF IInv, HandlerInv
<1>6. /\ events'[c] = Append(events[c], e)
      /\ participant'[c][u].state = "left"
      /\ participant'[c][u].inviter = participant[c][u].inviter
      /\ \A v \in Users : v # u => participant'[c][v] = participant[c][v]
      /\ owner'[c] = owner[c] /\ owner'[c] # NoUser
      /\ \A d \in Chats \ {c} : /\ owner'[d] = owner[d]
                                /\ participant'[d] = participant[d]
                                /\ events'[d] = events[d]
  <2>1. participant[c] \in [Users -> Row] /\ participant[c][u] \in Row
    BY <1>1 DEF IInv, TypeOK
  <2> DEFINE row == [participant[c][u] EXCEPT !.state = "left"]
  <2>2. participant' = [participant EXCEPT ![c][u] = row]
    BY <1>1, <1>3 DEF IInv, TypeOK
  <2>3. row.state = "left" /\ row.inviter = participant[c][u].inviter
    BY <2>1 DEF Row
  <2> HIDE DEF row
  <2> QED BY <1>1, <1>2, <1>3, <1>4, <2>1, <2>2, <2>3 DEF IInv, TypeOK, Exists
<1>7. e.kind \notin Arrivals /\ Subject(e) = u
  BY <1>2 DEF Arrivals, Departures, Subject
<1>8. ChatInv(c)'
  <2>1. \A v \in Users : v # Subject(e) => participant'[c][v] = participant[c][v]
    BY <1>6, <1>7
  <2>2. \A v \in Users : v = Subject(e) =>
          /\ e.kind \in Departures
          /\ participant[c][v].state = "active"
          /\ participant'[c][v].state = "left"
          /\ participant'[c][v].inviter = participant[c][v].inviter
    BY <1>1, <1>2, <1>6, <1>7
  <2>3. TypeOK /\ ChatInv(c)
    BY <1>1 DEF IInv
  <2> QED BY <1>2, <1>4, <1>5, <1>6, <1>7, <2>1, <2>2, <2>3, ChatGotEvent
<1>9. \A v \in Users : \/ participant'[c][v] = participant[c][v]
                        \/ ~\E p \in Requests \ {r} :
                             /\ request[p].step = "commit"
                             /\ request[p].chat = c
                             /\ request[p].target = v
  BY <1>1, <1>6 DEF Locked
<1>10. \A v \in Users : participant[c][v].state # "none" =>
                          participant'[c][v].state # "none"
  BY <1>6
<1> QED BY <1>1, <1>2, <1>3, <1>6, <1>8, <1>9, <1>10, Written

\* A rename is by the owner, and about nobody.
LEMMA RenameKeepsIInv ==
  ASSUME IInv, TypeOK', NEW r \in Requests, Rename(r)
  PROVE  IInv'
<1>1. PICK c \in Chats, a \in Users :
        /\ c = request[r].chat /\ a = request[r].actor
        /\ Exists(c)
  BY DEF Rename, At, IInv, TypeOK, WellFormed
<1>2. PICK e \in Event :
        /\ events' = [events EXCEPT ![c] = Append(@, e)]
        /\ e.kind = "name_changed" /\ e.target = NoUser
  <2> DEFINE ev == [kind |-> "name_changed", actor |-> a, target |-> NoUser]
  <2>1. ev \in Event /\ ev.kind = "name_changed" /\ ev.target = NoUser
    BY DEF Event
  <2>2. events' = [events EXCEPT ![c] = Append(@, ev)]
    BY <1>1 DEF Rename, CreateEvent
  <2> QED BY <2>1, <2>2
<1>3. Finish(r) /\ UNCHANGED <<opened, owner, participant, contacts, strangers>>
  BY DEF Rename
<1>4. /\ e.kind \notin Departures /\ e.kind # "member_removed"
      /\ Subject(e) \notin Users
  BY <1>2, NoUserIsNobody DEF Departures, Subject
<1>5. /\ events'[c] = Append(events[c], e)
      /\ owner'[c] # NoUser /\ c \in opened'
      /\ \A d \in Chats \ {c} : events'[d] = events[d]
  BY <1>1, <1>2, <1>3 DEF IInv, TypeOK, ChatInv, Exists
<1>6. ChatInv(c)'
  BY <1>3, <1>4, <1>5, ChatGotEvent DEF IInv
<1> QED BY <1>1, <1>3, <1>5, <1>6, Written

\* The cascade leaves nothing of the chat, and waited for every locked row.
LEMMA DeleteChatKeepsIInv ==
  ASSUME IInv, TypeOK', NEW r \in Requests, DeleteChat(r)
  PROVE  IInv'
<1>1. PICK c \in Chats : c = request[r].chat
  BY DEF DeleteChat, At, IInv, TypeOK, WellFormed
<1>2. /\ owner' = [owner EXCEPT ![c] = NoUser]
      /\ participant' = [participant EXCEPT ![c] = [u \in Users |-> NoRow]]
      /\ events' = [events EXCEPT ![c] = << >>]
      /\ Finish(r) /\ ~ChatLocked(c)
      /\ opened' = opened
  BY <1>1 DEF DeleteChat
<1>3. /\ ~Exists(c)' /\ owner'[c] = NoUser
      /\ events'[c] = << >>
      /\ \A u \in Users : participant'[c][u] = NoRow
      /\ \A d \in Chats \ {c} : /\ owner'[d] = owner[d]
                                /\ participant'[d] = participant[d]
                                /\ events'[d] = events[d]
  BY <1>2 DEF IInv, TypeOK, Exists
<1>4. ChatInv(c)'
  <2>1. RowsMatchEvents(c)' /\ InvitersOnRecord(c)'
    BY <1>3 DEF RowsMatchEvents, InvitersOnRecord, NoRow, Mentioned
  <2>2. Alternates(events[c])' /\ RemovalsAllowed(c)'
    BY <1>3 DEF Alternates, RemovalsAllowed
  <2> QED BY <1>3, <2>1, <2>2 DEF ChatInv
<1> QED BY <1>1, <1>2, <1>3, <1>4, Written

LEMMA AddReadsTargetKeepsIInv ==
  ASSUME IInv, TypeOK', NEW r \in Requests, AddReadsTarget(r)
  PROVE  IInv'
<1> DEFINE c == request[r].chat
           u == request[r].target
<1>1. /\ request' = [request EXCEPT ![r].step = "write",
                                    ![r].seen = participant[c][u].state]
      /\ UNCHANGED tables
      /\ request[r].op = "add" /\ request[r].step = "target"
  BY DEF AddReadsTarget, At
<1>2. request[r] \in Request
  BY DEF IInv, TypeOK
<1>3. /\ request'[r].op = "add" /\ request'[r].step = "write"
      /\ request'[r].chat = c /\ request'[r].target = u
      /\ request'[r].seen = participant[c][u].state
      /\ \A p \in Requests \ {r} : request'[p] = request[p]
  BY <1>1, <1>2 DEF IInv, TypeOK, Request
<1>4. HandlerInv(r)'
  BY <1>1, <1>3 DEF IInv, HandlerInv, tables, Exists
<1> QED BY <1>1, <1>3, <1>4, NothingWritten

LEMMA AddWritesKeepsIInv ==
  ASSUME IInv, TypeOK', NEW r \in Requests, AddWrites(r)
  PROVE  IInv'
<1> DEFINE c == request[r].chat
           u == request[r].target
<1>1. /\ request' = [request EXCEPT ![r].step = "commit",
                                    ![r].peers = Active(c) \ {u}]
      /\ UNCHANGED tables
      /\ request[r].op = "add" /\ request[r].step = "write"
      /\ ~Locked(c, u)
      /\ Exists(c)
      /\ request[r].seen = "none" => participant[c][u].state = "none"
  BY DEF AddWrites, AddWriteSucceeds, At
<1>2. request[r] \in Request
  BY DEF IInv, TypeOK
<1>3. /\ request'[r].op = "add" /\ request'[r].step = "commit"
      /\ request'[r].chat = c /\ request'[r].target = u
      /\ request'[r].seen = request[r].seen
      /\ \A p \in Requests \ {r} : request'[p] = request[p]
  BY <1>1, <1>2 DEF IInv, TypeOK, Request
<1>4. HandlerInv(r)'
  BY <1>1, <1>3 DEF IInv, HandlerInv, tables, Exists
<1> QED BY <1>1, <1>3, <1>4, NothingWritten DEF Locked

LEMMA RemoveReadsTargetKeepsIInv ==
  ASSUME IInv, TypeOK', NEW r \in Requests, RemoveReadsTarget(r)
  PROVE  IInv'
<1> DEFINE c == request[r].chat
           u == request[r].target
           a == request[r].actor
<1>1. /\ request' = [request EXCEPT ![r].step = "write"]
      /\ UNCHANGED tables
      /\ request[r].op = "remove" /\ request[r].step = "target"
      /\ u # owner[c]
      /\ a \in {owner[c], participant[c][u].inviter}
  BY DEF RemoveReadsTarget, MayRemove, At
<1>2. request[r] \in Request /\ c \in Chats /\ u \in Users /\ a \in Users
  BY <1>1 DEF IInv, TypeOK, WellFormed
<1>3. /\ request'[r].op = "remove" /\ request'[r].step = "write"
      /\ request'[r].chat = c /\ request'[r].target = u
      /\ request'[r].actor = a
      /\ \A p \in Requests \ {r} : request'[p] = request[p]
  BY <1>1, <1>2 DEF IInv, TypeOK, Request
<1>4. a = owner[c] \/ InvitedBefore(events[c], Len(events[c]) + 1, a, u)
  BY <1>1, <1>2, NoUserIsNobody DEF IInv, ChatInv, InvitersOnRecord
<1>5. HandlerInv(r)'
  BY <1>1, <1>3, <1>4 DEF IInv, HandlerInv, tables, Exists
<1> QED BY <1>1, <1>3, <1>5, NothingWritten

\* One step per action.
LEMMA IInvNext == IInv /\ [Next]_vars => IInv'
<1> SUFFICES ASSUME IInv, [Next]_vars PROVE IInv'
  OBVIOUS
<1> USE TypeOKNext DEF IInv
<1>1. TypeOK'
  OBVIOUS
<1> USE <1>1
<1>2. ASSUME NEW c \in Chats, NEW u \in Users, CreateChat(c, u)
      PROVE  IInv'
  BY <1>2, CreateChatKeepsIInv
<1>3. ASSUME NEW r \in Requests, StartSome(r)
      PROVE  IInv'
  <2>1. PICK c \in Chats :
          \/ \E a, u \in Users : StartAdd(r, c, a, u) \/ StartRemove(r, c, a, u)
          \/ \E u \in Users : StartLeave(r, c, u)
          \/ StartRename(r, c)
          \/ StartDelete(r, c)
    BY <1>3 DEF StartSome
  <2>2. ASSUME NEW a \in Users, NEW u \in Users, StartAdd(r, c, a, u)
        PROVE  IInv'
    BY <2>2, StartKeepsIInv DEF StartAdd, Operations
  <2>3. ASSUME NEW a \in Users, NEW u \in Users, StartRemove(r, c, a, u)
        PROVE  IInv'
    BY <2>3, StartKeepsIInv DEF StartRemove, Operations
  <2>4. ASSUME NEW u \in Users, StartLeave(r, c, u)
        PROVE  IInv'
    BY <2>4, StartKeepsIInv DEF StartLeave, Operations
  <2>5. ASSUME Exists(c) PROVE \E a \in Users : a = owner[c]
    BY <2>5 DEF TypeOK, Exists
  <2>6. CASE StartRename(r, c)
    <3>1. PICK a \in Users : a = owner[c]
      BY <2>5, <2>6 DEF StartRename
    <3> QED BY <2>6, <3>1, StartKeepsIInv DEF StartRename, Operations
  <2>7. CASE StartDelete(r, c)
    <3>1. PICK a \in Users : a = owner[c]
      BY <2>5, <2>7 DEF StartDelete
    <3> QED BY <2>7, <3>1, StartKeepsIInv DEF StartDelete, Operations
  <2> QED BY <2>1, <2>2, <2>3, <2>4, <2>6, <2>7
<1>4. ASSUME NEW r \in Requests, Continue(r)
      PROVE  IInv'
  <2>1. CASE AddReadsTarget(r)
    BY <2>1, AddReadsTargetKeepsIInv
  <2>2. CASE AddWrites(r)
    BY <2>2, AddWritesKeepsIInv
  <2>3. CASE AddWriteFails(r)
    BY <2>3, RejectKeepsIInv DEF AddWriteFails
  <2>4. CASE AddCommits(r)
    BY <2>4, AddCommitsKeepsIInv
  <2>5. CASE RemoveReadsTarget(r)
    BY <2>5, RemoveReadsTargetKeepsIInv
  <2>6. CASE TargetRefused(r)
    BY <2>6, RejectKeepsIInv DEF TargetRefused
  <2>7. CASE Depart(r)
    BY <2>7, DepartKeepsIInv
  <2>8. CASE DepartureFindsNoRow(r)
    BY <2>8, RejectKeepsIInv DEF DepartureFindsNoRow
  <2>9. CASE Rename(r)
    BY <2>9, RenameKeepsIInv
  <2>10. CASE DeleteChat(r)
    BY <2>10, DeleteChatKeepsIInv
  <2>11. CASE ChatIsGone(r)
    BY <2>11, RejectKeepsIInv DEF ChatIsGone
  <2> QED BY <1>4, <2>1, <2>2, <2>3, <2>4, <2>5, <2>6, <2>7, <2>8, <2>9, <2>10,
             <2>11 DEF Continue
<1>5. ASSUME NEW r \in Requests, Abort(r)
      PROVE  IInv'
  BY <1>5, RejectKeepsIInv DEF Abort
<1>6. CASE UNCHANGED vars
  BY <1>6 DEF vars, TypeOK, ChatInv, HandlerInv, LockInv, Exists,
       RowsMatchEvents, InvitersOnRecord, RemovalsAllowed
<1> QED BY <1>2, <1>3, <1>4, <1>5, <1>6 DEF Next

LEMMA InductiveInvariant == Spec => []IInv
BY IInvInit, IInvNext, PTL DEF Spec

----------------------------------------------------------------------------
(* The safety properties *)

\* Replaying the committed events of a chat gives its active participants,
\* however many handlers race.
THEOREM EventsTellMembershipAlways == Spec => []EventsTellMembership
<1>1. ASSUME IInv PROVE EventsTellMembership
  <2>1. SUFFICES ASSUME NEW c \in Chats, NEW u \in Users
                 PROVE  participant[c][u].state = "active"
                          <=> LastWord(events[c], u, Arrivals)
    BY DEF EventsTellMembership, Active
  <2>2. /\ participant[c][u].state = "active" => LastWord(events[c], u, Arrivals)
        /\ participant[c][u].state = "left" => LastWord(events[c], u, Departures)
        /\ participant[c][u].state = "none" => ~Mentioned(events[c], u)
    BY <1>1 DEF IInv, ChatInv, RowsMatchEvents
  <2>3. participant[c][u].state \in {"none", "active", "left"}
    BY <1>1 DEF IInv, TypeOK, Row
  <2>4. ASSUME LastWord(events[c], u, Arrivals)
        PROVE  Mentioned(events[c], u) /\ ~LastWord(events[c], u, Departures)
    <3>1. Mentioned(events[c], u)
      BY <2>4 DEF LastWord, Mentioned
    <3>2. Arrivals \cap Departures = {}
      BY DEF Arrivals, Departures
    <3>3. events[c] \in Seq(Event)
      BY <1>1 DEF IInv, TypeOK
    <3> QED BY <2>4, <3>1, <3>2, <3>3, LastWordIsOne
  <2> QED BY <2>2, <2>3, <2>4
<1> QED BY <1>1, InductiveInvariant, PTL

\* Two racing departures of one member write one event.
THEOREM DeparturesAlternateAlways == Spec => []DeparturesAlternate
<1>1. IInv => DeparturesAlternate
  BY DEF IInv, ChatInv, DeparturesAlternate
<1> QED BY <1>1, InductiveInvariant, PTL

\* Whoever is removed is removed by the owner or by someone who had invited
\* them, stale permission checks included.
THEOREM RemoverHadInvitedAlways == Spec => []RemoverHadInvited
<1>1. IInv => RemoverHadInvited
  BY DEF IInv, ChatInv, RemoverHadInvited, RemovalsAllowed
<1> QED BY <1>1, InductiveInvariant, PTL

----------------------------------------------------------------------------
(* The service implements the abstract roster *)

members == [c \in Chats |-> Active(c)]

\* The user's row says whether the log mentions the user.
LEMMA NoRowNoMention ==
  ASSUME IInv, NEW c \in Chats, NEW u \in Users
  PROVE  participant[c][u].state = "none" <=> ~Mentioned(events[c], u)
<1>1. /\ participant[c][u].state = "active" => LastWord(events[c], u, Arrivals)
      /\ participant[c][u].state = "left" => LastWord(events[c], u, Departures)
      /\ participant[c][u].state = "none" => ~Mentioned(events[c], u)
      /\ participant[c][u].state \in {"none", "active", "left"}
  BY DEF IInv, TypeOK, Row, ChatInv, RowsMatchEvents
<1>2. \A K : LastWord(events[c], u, K) => Mentioned(events[c], u)
  BY DEF LastWord, Mentioned
<1> QED BY <1>1, <1>2

\* Rows that keep their state keep the members.
LEMMA SameMembers ==
  ASSUME UNCHANGED participant
  PROVE  members' = members
BY DEF members, Active

\* One row changed its state: the members of that chat changed by one user.
LEMMA MembersChangeByOne ==
  ASSUME TypeOK, NEW c \in Chats, NEW u \in Users, NEW row \in Row,
         participant' = [participant EXCEPT ![c][u] = row]
  PROVE  /\ row.state = "active" =>
              members' = [members EXCEPT ![c] = Active(c) \cup {u}]
         /\ row.state # "active" =>
              members' = [members EXCEPT ![c] = Active(c) \ {u}]
<1>1. /\ participant'[c][u] = row
      /\ \A v \in Users : v # u => participant'[c][v] = participant[c][v]
      /\ \A d \in Chats : d # c => participant'[d] = participant[d]
  BY DEF TypeOK
<1>2. Active(c)' = IF row.state = "active" THEN Active(c) \cup {u}
                                           ELSE Active(c) \ {u}
  BY <1>1 DEF Active
<1>3. \A d \in Chats : d # c => Active(d)' = Active(d)
  BY <1>1 DEF Active
<1> HIDE DEF Active
<1> QED BY <1>2, <1>3 DEF members

\* A step that leaves the tables alone is a stutter of the roster.
LEMMA TablesUnchanged ==
  ASSUME UNCHANGED tables
  PROVE  UNCHANGED <<opened, owner, members, events>>
BY SameMembers DEF tables

LEMMA CreateChatOpens ==
  ASSUME IInv, NEW c \in Chats, NEW u \in Users, CreateChat(c, u)
  PROVE  Roster!Open(c, u)
<1> DEFINE row == [state |-> "active", inviter |-> NoUser]
<1>1. row \in Row /\ row.state = "active"
  BY DEF Row
<1>2. participant' = [participant EXCEPT ![c][u] = row]
  BY DEF CreateChat
<1>3. Active(c) = {}
  BY DEF CreateChat, IInv, ChatInv, Active, NoRow
<1> HIDE DEF row
<1>4. members' = [members EXCEPT ![c] = {u}]
  <2>1. Active(c) \cup {u} = {u}
    BY <1>3
  <2>2. members' = [members EXCEPT ![c] = Active(c) \cup {u}]
    BY <1>1, <1>2, MembersChangeByOne DEF IInv
  <2> QED BY <2>1, <2>2
<1> QED BY <1>4 DEF CreateChat, Roster!Open, Roster!Say, members

LEMMA AddCommitsArrives ==
  ASSUME IInv, NEW r \in Requests, AddCommits(r)
  PROVE  \E c \in Chats, a, u \in Users : Roster!Arrive(c, a, u)
<1>1. PICK c \in Chats, u \in Users, a \in Users :
        /\ c = request[r].chat /\ u = request[r].target /\ a = request[r].actor
        /\ Exists(c)
        /\ request[r].seen = "none" <=> participant[c][u].state = "none"
  BY DEF AddCommits, At, IInv, TypeOK, WellFormed, HandlerInv
<1> DEFINE row == [state |-> "active", inviter |-> a]
<1>2. row \in Row /\ row.state = "active"
  BY DEF Row
<1>3. participant' = [participant EXCEPT ![c][u] = row]
  BY <1>1 DEF AddCommits
<1> HIDE DEF row
<1>4. members' = [members EXCEPT ![c] = @ \cup {u}]
  <2>1. members[c] = Active(c)
    BY DEF members
  <2> QED BY <1>2, <1>3, <2>1, MembersChangeByOne DEF IInv
<1>5. IF Mentioned(events[c], u) THEN Roster!Say(c, "member_joined", a, u)
                                 ELSE Roster!Say(c, "member_added", a, u)
  BY <1>1, NoRowNoMention DEF AddCommits, CreateEvent, Roster!Say
<1>6. Roster!Mentioned(events[c], u) <=> Mentioned(events[c], u)
  BY DEF Roster!Mentioned, Mentioned, Roster!Subject, Subject
<1>7. Roster!Arrive(c, a, u)
  BY <1>1, <1>4, <1>5, <1>6 DEF AddCommits, Roster!Arrive, Exists, members
<1> QED BY <1>7

LEMMA DepartDeparts ==
  ASSUME IInv, NEW r \in Requests, Depart(r)
  PROVE  \E c \in Chats, a, u \in Users : Roster!Depart(c, a, u)
<1>1. PICK c \in Chats, u \in Users, a \in Users :
        /\ c = request[r].chat /\ u = request[r].target /\ a = request[r].actor
        /\ request[r].op \in {"remove", "leave"}
        /\ request[r].step = "write"
        /\ participant[c][u].state = "active"
  BY DEF Depart, Departing, DepartureFindsRow, IsActive, At, IInv, TypeOK,
         WellFormed
<1> DEFINE row == [participant[c][u] EXCEPT !.state = "left"]
<1>2. row \in Row /\ row.state = "left"
  <2>1. participant[c][u] \in Row
    BY DEF IInv, TypeOK
  <2> QED BY <2>1 DEF Row
<1>3. participant' = [participant EXCEPT ![c][u] = row]
  BY <1>1 DEF Depart, IInv, TypeOK
<1> HIDE DEF row
<1>4. members' = [members EXCEPT ![c] = @ \ {u}] /\ u \in members[c]
  <2>1. members[c] = Active(c) /\ u \in Active(c)
    BY <1>1 DEF members, Active
  <2>2. members' = [members EXCEPT ![c] = Active(c) \ {u}]
    BY <1>2, <1>3, MembersChangeByOne DEF IInv
  <2> QED BY <2>1, <2>2
<1>5. u # owner[c]
  <2>1. Exists(c)
    BY <1>1 DEF IInv, ChatInv, NoRow
  <2> QED BY <1>1, <2>1 DEF IInv, HandlerInv
<1>6. \/ Roster!Say(c, "member_removed", a, u)
      \/ a = u /\ Roster!Say(c, "member_left", a, u)
  <2>1. Exists(c)
    BY <1>1 DEF IInv, ChatInv, NoRow
  <2>2. request[r].op = "leave" => a = u
    BY <1>1, <2>1 DEF IInv, HandlerInv
  <2> QED BY <1>1, <2>2 DEF Depart, CreateEvent, Roster!Say
<1>7. Roster!Depart(c, a, u)
  BY <1>4, <1>5, <1>6 DEF Depart, Roster!Depart, members
<1> QED BY <1>7

LEMMA RenameRenames ==
  ASSUME IInv, NEW r \in Requests, Rename(r)
  PROVE  \E c \in Chats : Roster!Rename(c)
<1>1. PICK c \in Chats : /\ c = request[r].chat /\ Exists(c)
                         /\ request[r].actor = owner[c]
  BY DEF Rename, At, IInv, TypeOK, WellFormed, HandlerInv
<1>2. members' = members
  BY SameMembers DEF Rename
<1>3. Roster!Rename(c)
  BY <1>1, <1>2 DEF Rename, CreateEvent, Roster!Rename, Roster!Say, Exists, members
<1> QED BY <1>3

LEMMA DeleteChatCloses ==
  ASSUME IInv, NEW r \in Requests, DeleteChat(r)
  PROVE  \E c \in Chats : Roster!Close(c)
<1>1. PICK c \in Chats : c = request[r].chat /\ Exists(c)
  BY DEF DeleteChat, At, IInv, TypeOK, WellFormed
<1>2. participant' = [participant EXCEPT ![c] = [v \in Users |-> NoRow]]
  BY <1>1 DEF DeleteChat
<1>3. members' = [members EXCEPT ![c] = {}]
  <2>1. /\ \A v \in Users : participant'[c][v] = NoRow
        /\ \A d \in Chats : d # c => participant'[d] = participant[d]
    BY <1>2 DEF IInv, TypeOK
  <2>2. Active(c)' = {}
    BY <2>1 DEF Active, NoRow
  <2>3. \A d \in Chats : d # c => Active(d)' = Active(d)
    BY <2>1 DEF Active
  <2> HIDE DEF Active
  <2> QED BY <2>2, <2>3 DEF members
<1>4. Roster!Close(c)
  BY <1>1, <1>3 DEF DeleteChat, Roster!Close, Exists, members
<1> QED BY <1>4

LEMMA StepIsRosterStep ==
  IInv /\ [Next]_vars => [Roster!Next]_<<opened, owner, members, events>>
<1> SUFFICES ASSUME IInv, Next
             PROVE  Roster!Next \/ UNCHANGED <<opened, owner, members, events>>
  BY TablesUnchanged DEF vars, tables
<1>1. ASSUME NEW c \in Chats, NEW u \in Users, CreateChat(c, u)
      PROVE  Roster!Next
  BY <1>1, CreateChatOpens DEF Roster!Next
<1>2. ASSUME NEW r \in Requests, StartSome(r)
      PROVE  UNCHANGED tables
  BY <1>2 DEF StartSome, StartAdd, StartRemove, StartLeave, StartRename,
              StartDelete, Start
<1>3. ASSUME NEW r \in Requests, Continue(r)
      PROVE  Roster!Next \/ UNCHANGED tables
  <2>1. CASE AddCommits(r)
    BY <2>1, AddCommitsArrives DEF Roster!Next
  <2>2. CASE Depart(r)
    BY <2>2, DepartDeparts DEF Roster!Next
  <2>3. CASE Rename(r)
    BY <2>3, RenameRenames DEF Roster!Next
  <2>4. CASE DeleteChat(r)
    BY <2>4, DeleteChatCloses DEF Roster!Next
  <2>5. CASE \/ AddReadsTarget(r) \/ AddWrites(r) \/ AddWriteFails(r)
             \/ RemoveReadsTarget(r) \/ TargetRefused(r)
             \/ DepartureFindsNoRow(r) \/ ChatIsGone(r)
    BY <2>5 DEF AddReadsTarget, AddWrites, AddWriteFails, RemoveReadsTarget,
                TargetRefused, DepartureFindsNoRow, ChatIsGone, Reject
  <2> QED BY <1>3, <2>1, <2>2, <2>3, <2>4, <2>5 DEF Continue
<1>4. ASSUME NEW r \in Requests, Abort(r)
      PROVE  UNCHANGED tables
  BY <1>4 DEF Abort, Reject
<1> QED BY <1>1, <1>2, <1>3, <1>4, TablesUnchanged DEF Next

\* Every step of the chat service, seen through its committed rows, is a
\* step of the abstract roster or leaves it alone.
THEOREM RosterImplemented == Spec => ImplementsRoster
<1>1. Init => Roster!Init
  <2>1. ASSUME Init PROVE members = [c \in Chats |-> {}]
    BY <2>1 DEF Init, members, Active, NoRow
  <2> QED BY <2>1 DEF Init, Roster!Init, members
<1>2. IInv /\ [Next]_vars => [Roster!Next]_(Roster!rosterVars)
  BY StepIsRosterStep DEF Roster!rosterVars, members
<1> QED BY <1>1, <1>2, InductiveInvariant, PTL
    DEF Spec, Roster!Spec, ImplementsRoster

----------------------------------------------------------------------------
(* The members of a chat are contacts of each other *)

\* Whoever is in the chat while an invitation is on its way to the commit was
\* seen by its handler, or was invited at the same time.
PeersSeen(r) ==
  LET c == request[r].chat
      u == request[r].target IN
  At(r, "add", "commit") =>
    \A p \in Active(c) \ {u} :
      p \in request[r].peers \/ {u, p} \in contacts \cup strangers

ContactsInv ==
  /\ MembersAreContacts
  /\ \A r \in Requests : PeersSeen(r)

\* A step that adds no member and sends no handler to its commit.
LEMMA NobodyNew ==
  ASSUME ContactsInv,
         \A c \in Chats : Active(c)' \subseteq Active(c),
         contacts \subseteq contacts', strangers \subseteq strangers',
         \A r \in Requests :
           At(r, "add", "commit")' => /\ request'[r] = request[r]
                                      /\ request[r].chat \in Chats
  PROVE  ContactsInv'
<1>1. MembersAreContacts'
  <2> SUFFICES ASSUME NEW c \in Chats, NEW x \in Active(c)', NEW y \in Active(c)'
               PROVE  x = y \/ {x, y} \in (contacts \cup strangers)'
    BY DEF MembersAreContacts
  <2> QED BY DEF ContactsInv, MembersAreContacts
<1>2. ASSUME NEW r \in Requests PROVE PeersSeen(r)'
  <2> SUFFICES ASSUME At(r, "add", "commit")', NEW c, c = request'[r].chat,
                      NEW p \in Active(c)', p # request'[r].target
               PROVE  \/ p \in request'[r].peers
                      \/ {request'[r].target, p} \in (contacts \cup strangers)'
    BY DEF PeersSeen
  <2>1. request'[r] = request[r] /\ c = request[r].chat /\ c \in Chats
    OBVIOUS
  <2>2. At(r, "add", "commit") /\ p \in Active(c)
    BY <2>1 DEF At
  <2> QED BY <2>1, <2>2 DEF ContactsInv, PeersSeen
<1> QED BY <1>1, <1>2 DEF ContactsInv

\* A new chat has one member, and no handler knows its identifier yet.
LEMMA CreateChatKeepsContacts ==
  ASSUME IInv, ContactsInv, NEW c \in Chats, NEW u \in Users, CreateChat(c, u)
  PROVE  ContactsInv'
<1>1. /\ members' = [members EXCEPT ![c] = {u}]
      /\ request' = request /\ contacts' = contacts /\ strangers' = strangers
  BY CreateChatOpens DEF Roster!Open, members, CreateChat
<1>2. /\ Active(c)' = {u}
      /\ \A d \in Chats \ {c} : Active(d)' = Active(d)
  BY <1>1 DEF members
<1>3. \A r \in Requests : request[r].step = "commit" => /\ request[r].chat \in Chats
                                                        /\ request[r].chat # c
  BY DEF IInv, HandlerInv, TypeOK, WellFormed, CreateChat
<1> HIDE DEF Active
<1>4. MembersAreContacts'
  <2> SUFFICES ASSUME NEW d \in Chats, NEW x \in Active(d)', NEW y \in Active(d)'
               PROVE  x = y \/ {x, y} \in (contacts \cup strangers)'
    BY DEF MembersAreContacts
  <2>1. CASE d = c
    BY <1>2, <2>1
  <2>2. CASE d # c
    BY <1>1, <1>2, <2>2 DEF ContactsInv, MembersAreContacts
  <2> QED BY <2>1, <2>2
<1>5. \A r \in Requests : PeersSeen(r)'
  BY <1>1, <1>2, <1>3 DEF ContactsInv, PeersSeen, At
<1> QED BY <1>4, <1>5 DEF ContactsInv

\* The handler sees every member there is when it reads them.
LEMMA AddWritesKeepsContacts ==
  ASSUME IInv, ContactsInv, NEW r \in Requests, AddWrites(r)
  PROVE  ContactsInv'
<1>1. /\ request[r].step = "write" /\ request[r] \in Request
      /\ request' = [request EXCEPT ![r].step = "commit",
                                    ![r].peers = Active(request[r].chat)
                                                   \ {request[r].target}]
      /\ \A c \in Chats : Active(c)' = Active(c)
      /\ contacts' = contacts /\ strangers' = strangers
      /\ request[r].chat \in Chats
  BY DEF AddWrites, At, tables, Active, IInv, TypeOK, WellFormed
<1>2. /\ \A q \in Requests \ {r} : request'[q] = request[q]
      /\ request'[r].chat = request[r].chat
      /\ request'[r].target = request[r].target
      /\ request'[r].peers = Active(request[r].chat) \ {request[r].target}
  BY <1>1 DEF IInv, TypeOK, Request
<1> HIDE DEF Active
<1>3. MembersAreContacts'
  BY <1>1 DEF ContactsInv, MembersAreContacts
<1>4. PeersSeen(r)'
  BY <1>1, <1>2 DEF PeersSeen
<1>5. ASSUME NEW q \in Requests \ {r} PROVE PeersSeen(q)'
  <2>1. At(q, "add", "commit") => request[q].chat \in Chats
    BY DEF At, IInv, TypeOK, WellFormed
  <2> QED BY <1>1, <1>2, <2>1 DEF ContactsInv, PeersSeen, At
<1> QED BY <1>3, <1>4, <1>5 DEF ContactsInv

\* The new member gets a row with all that the handler saw; the others there
\* are, and those whose own invitation is still on its way, were invited at
\* the same time.
LEMMA AddCommitsKeepsContacts ==
  ASSUME IInv, ContactsInv, NEW r \in Requests, AddCommits(r)
  PROVE  ContactsInv'
<1>1. PICK c \in Chats, u \in Users :
        /\ c = request[r].chat /\ u = request[r].target
        /\ At(r, "add", "commit")
        /\ contacts' = contacts \cup {{u, p} : p \in request[r].peers}
        /\ strangers' = strangers \cup {{u, p} : p \in Inviting(c) \ {u}}
  BY DEF AddCommits, At, IInv, TypeOK, WellFormed
<1>2. /\ request'[r].step = "idle"
      /\ \A q \in Requests \ {r} : request'[q] = request[q]
  BY DEF AddCommits, Finish, Idle, IInv, TypeOK
<1>3. /\ Active(c)' = Active(c) \cup {u}
      /\ \A d \in Chats \ {c} : Active(d)' = Active(d)
  <2> DEFINE row == [state |-> "active", inviter |-> request[r].actor]
  <2>1. row \in Row /\ row.state = "active"
    BY <1>1 DEF Row, At, IInv, TypeOK, WellFormed
  <2>2. participant' = [participant EXCEPT ![c][u] = row]
    BY <1>1 DEF AddCommits
  <2> HIDE DEF row
  <2>3. members' = [members EXCEPT ![c] = Active(c) \cup {u}]
    BY <2>1, <2>2, MembersChangeByOne DEF IInv
  <2> HIDE DEF Active
  <2> QED BY <2>3 DEF members
<1> HIDE DEF Active
<1>4. \A p \in Active(c) \ {u} : {u, p} \in contacts' \cup strangers'
  BY <1>1 DEF ContactsInv, PeersSeen
<1>5. ASSUME NEW d \in Chats, NEW x \in Active(d)', NEW y \in Active(d)', x # y
      PROVE  {x, y} \in contacts' \cup strangers'
  <2>1. CASE x \in Active(d) /\ y \in Active(d)
    BY <1>1, <1>5, <2>1 DEF ContactsInv, MembersAreContacts
  <2>2. CASE d = c /\ x = u
    BY <1>3, <1>4, <1>5, <2>2
  <2>3. CASE d = c /\ y = u
    <3>1. {x, y} = {y, x}
      OBVIOUS
    <3> QED BY <1>3, <1>4, <1>5, <2>3, <3>1
  <2> QED BY <1>3, <1>5, <2>1, <2>2, <2>3
<1>6. ASSUME NEW q \in Requests PROVE PeersSeen(q)'
  <2> SUFFICES ASSUME At(q, "add", "commit")', NEW d, d = request'[q].chat,
                      NEW p \in Active(d)', p # request'[q].target
               PROVE  \/ p \in request'[q].peers
                      \/ {request'[q].target, p} \in contacts' \cup strangers'
    BY DEF PeersSeen
  <2>1. /\ q # r /\ request'[q] = request[q]
        /\ At(q, "add", "commit") /\ request[q].chat \in Chats
        /\ request[q].target \in Users /\ d = request[q].chat
    BY <1>2 DEF At, IInv, TypeOK, WellFormed
  <2>2. CASE p \in Active(d)
    BY <1>1, <2>1, <2>2 DEF ContactsInv, PeersSeen
  <2>3. CASE p = u /\ d = c
    <3>1. request[q].target \in Inviting(c) \ {u}
      BY <2>1, <2>3 DEF Inviting, Locked, At
    <3>2. {u, request[q].target} \in strangers'
      BY <1>1, <3>1
    <3>3. {u, request[q].target} = {request[q].target, u}
      OBVIOUS
    <3> QED BY <2>1, <2>3, <3>2, <3>3
  <2> QED BY <1>3, <2>1, <2>2, <2>3
<1>7. MembersAreContacts'
  BY <1>5 DEF MembersAreContacts
<1> QED BY <1>6, <1>7 DEF ContactsInv

LEMMA ContactsInvNext ==
  ASSUME IInv, TypeOK', ContactsInv, [Next]_vars
  PROVE  ContactsInv'
<1> DEFINE Quiet ==
      /\ contacts' = contacts /\ strangers' = strangers
      /\ \A q \in Requests :
           At(q, "add", "commit")' => request'[q] = request[q]
<1>1. ASSUME NEW q \in Requests, At(q, "add", "commit")',
             request'[q] = request[q]
      PROVE  request[q].chat \in Chats
  BY <1>1 DEF At, IInv, TypeOK, WellFormed
<1>2. ASSUME Quiet, \A c \in Chats : Active(c)' \subseteq Active(c)
      PROVE  ContactsInv'
  BY <1>1, <1>2, NobodyNew
<1>3. ASSUME participant' = participant
      PROVE  \A c \in Chats : Active(c)' \subseteq Active(c)
  BY <1>3 DEF Active
<1>4. ASSUME NEW r \in Requests, Finish(r)
      PROVE  \A q \in Requests :
               At(q, "add", "commit")' => request'[q] = request[q]
  BY <1>4 DEF Finish, Idle, At, IInv, TypeOK
<1>5. ASSUME NEW r \in Requests, Reject(r) PROVE ContactsInv'
  BY <1>2, <1>3, <1>4, <1>5 DEF Reject, tables
<1>6. ASSUME NEW r \in Requests, StartSome(r) PROVE ContactsInv'
  <2>1. /\ UNCHANGED tables
        /\ request'[r].step # "commit"
        /\ \E q : request' = [request EXCEPT ![r] = q]
    BY <1>6 DEF StartSome, StartAdd, StartRemove, StartLeave, StartRename,
                StartDelete, Start, Idle, IInv, TypeOK
  <2>2. Quiet
    BY <2>1 DEF At, IInv, TypeOK, tables
  <2> QED BY <1>2, <1>3, <2>1, <2>2 DEF tables
<1>7. ASSUME NEW r \in Requests, Continue(r) PROVE ContactsInv'
  <2>1. CASE AddReadsTarget(r) \/ RemoveReadsTarget(r)
    <3>1. /\ UNCHANGED tables
          /\ request'[r].step # "commit"
          /\ \E q : request' = [request EXCEPT ![r] = q]
      BY <2>1 DEF AddReadsTarget, RemoveReadsTarget, IInv, TypeOK, Request
    <3>2. Quiet
      BY <3>1 DEF At, IInv, TypeOK, tables
    <3> QED BY <1>2, <1>3, <3>1, <3>2 DEF tables
  <2>2. CASE AddWrites(r)
    BY <2>2, AddWritesKeepsContacts
  <2>3. CASE AddCommits(r)
    BY <2>3, AddCommitsKeepsContacts
  <2>4. CASE \/ AddWriteFails(r) \/ TargetRefused(r)
             \/ DepartureFindsNoRow(r) \/ ChatIsGone(r)
    BY <1>5, <2>4 DEF AddWriteFails, TargetRefused, DepartureFindsNoRow,
                      ChatIsGone
  <2>5. CASE Depart(r)
    <3>1. \A c \in Chats : Active(c)' \subseteq Active(c)
      BY <2>5 DEF Depart, Active, IInv, TypeOK, Row
    <3> QED BY <1>2, <1>4, <2>5, <3>1 DEF Depart
  <2>6. CASE Rename(r)
    BY <1>2, <1>3, <1>4, <2>6 DEF Rename
  <2>7. CASE DeleteChat(r)
    <3>1. \A c \in Chats : Active(c)' \subseteq Active(c)
      BY <2>7 DEF DeleteChat, Active, IInv, TypeOK, NoRow
    <3> QED BY <1>2, <1>4, <2>7, <3>1 DEF DeleteChat
  <2> QED BY <1>7, <2>1, <2>2, <2>3, <2>4, <2>5, <2>6, <2>7 DEF Continue
<1>8. ASSUME NEW r \in Requests, Abort(r) PROVE ContactsInv'
  BY <1>5, <1>8 DEF Abort
<1>9. CASE UNCHANGED vars
  <2>1. Quiet
    BY <1>9 DEF vars, At
  <2> QED BY <1>2, <1>3, <1>9, <2>1 DEF vars
<1> QED BY <1>6, <1>7, <1>8, <1>9, CreateChatKeepsContacts DEF Next

\* Two members of a chat were given a contact row, unless their invitations
\* overlapped: the only pairs that the participants read before the commit
\* can miss.
THEOREM MembersAreContactsAlways == Spec => []MembersAreContacts
<1>1. Init => ContactsInv
  BY DEF Init, ContactsInv, MembersAreContacts, PeersSeen, Active, NoRow,
         Idle, At
<1>2. IInv /\ ContactsInv /\ IInv' /\ [Next]_vars => ContactsInv'
  BY ContactsInvNext DEF IInv
<1>3. ContactsInv => MembersAreContacts
  BY DEF ContactsInv
<1> QED BY <1>1, <1>2, <1>3, InductiveInvariant, PTL DEF Spec

----------------------------------------------------------------------------
(* The chat, message and file services together: ChatService *)

\* The other services leave the chat service alone.
LEMMA MembershipInService == ServiceSpec => ImplementsMembership
<1>1. ServiceInit => Init
  BY DEF ServiceInit
<1>2. [ServiceNext]_serviceVars => [Next]_vars
  BY DEF ServiceNext, serviceVars, ChatStep, MailStep, FileStep, RelationStep,
         DirectStep
<1> QED BY <1>1, <1>2, PTL DEF ServiceSpec, Spec, ImplementsMembership

\* A step of the chat service makes one chat, deletes one, or neither.
LEMMA ChatsChange ==
  ASSUME IInv, [Next]_vars
  PROVE  \/ UNCHANGED <<opened, owner>>
         \/ \E c \in Chats, u \in Users :
              /\ c \notin opened
              /\ opened' = opened \cup {c}
              /\ owner' = [owner EXCEPT ![c] = u]
         \/ \E c \in Chats : /\ Exists(c)
                             /\ opened' = opened
                             /\ owner' = [owner EXCEPT ![c] = NoUser]
<1>1. CASE UNCHANGED vars
  BY <1>1 DEF vars
<1>2. ASSUME NEW c \in Chats, NEW u \in Users, CreateChat(c, u)
      PROVE  /\ c \notin opened
             /\ opened' = opened \cup {c}
             /\ owner' = [owner EXCEPT ![c] = u]
  BY <1>2 DEF CreateChat
<1>3. ASSUME NEW r \in Requests, StartSome(r) \/ Abort(r)
      PROVE  UNCHANGED <<opened, owner>>
  BY <1>3 DEF StartSome, StartAdd, StartRemove, StartLeave, StartRename,
              StartDelete, Start, Abort, Reject, tables
<1>4. ASSUME NEW r \in Requests, Continue(r), ~DeleteChat(r)
      PROVE  UNCHANGED <<opened, owner>>
  BY <1>4 DEF Continue, AddReadsTarget, AddWrites, AddWriteFails, AddCommits,
              RemoveReadsTarget, TargetRefused, Depart, DepartureFindsNoRow,
              Rename, ChatIsGone, Reject, tables
<1>5. ASSUME NEW r \in Requests, DeleteChat(r)
      PROVE  \E c \in Chats : /\ Exists(c)
                              /\ opened' = opened
                              /\ owner' = [owner EXCEPT ![c] = NoUser]
  BY <1>5 DEF DeleteChat, At, IInv, TypeOK, WellFormed
<1> QED BY <1>1, <1>2, <1>3, <1>4, <1>5 DEF Next

\* A message is stored in a chat that is there.
MessagesHaveChat == \A m \in messages : owner[m.batch.chat] # NoUser

LEMMA MessagesKeepChat ==
  ASSUME MessagesHaveChat, [ServiceNext]_serviceVars
  PROVE  MessagesHaveChat'
<1>1. CASE ChatStep
  BY <1>1 DEF ChatStep, MessagesFollow, MessagesHaveChat
<1>2. CASE MailStep
  <2>1. CASE Mail!MembershipStep
    BY <2>1 DEF Mail!MembershipStep, MessagesHaveChat
  <2>2. ASSUME NEW h \in Senders, Mail!Inserts(h)
        PROVE  MessagesHaveChat'
    BY <1>2, <2>2 DEF MailStep, vars, Mail!Inserts, Mail!Insertable,
                      MessagesHaveChat
  <2>3. CASE messages' = messages
    BY <1>2, <2>3 DEF MailStep, vars, MessagesHaveChat
  <2>4. \/ Mail!MembershipStep
        \/ \E h \in Senders : Mail!Inserts(h)
        \/ messages' = messages
    BY <1>2 DEF MailStep, Mail!Next, Mail!Prepare, Mail!Submit,
                Mail!ReadsMembers, Mail!ReadsTargets, Mail!ReadsExisting,
                Mail!Refuses, Mail!InsertFails, Mail!Answers, Mail!Drops
  <2> QED BY <2>1, <2>2, <2>3, <2>4
<1>3. CASE FileStep \/ RelationStep \/ DirectStep \/ UNCHANGED serviceVars
  BY <1>3 DEF FileStep, RelationStep, DirectStep, serviceVars, vars, mailVars,
              MessagesHaveChat
<1> QED BY <1>1, <1>2, <1>3 DEF ServiceNext

\* What a step of the chat service does to the committed rows is a step of
\* the roster that ChatMessages is written against, or nothing.
LEMMA ChatStepForMessages ==
  ASSUME IInv, MessagesHaveChat, ChatStep
  PROVE  Mail!MembershipStep \/ UNCHANGED Mail!vars
<1>1. \/ Roster!Next
      \/ UNCHANGED <<opened, owner, members, events>>
  BY StepIsRosterStep DEF ChatStep
<1>2. CASE Roster!Next
  <2>1. Mail!Membership!Next
    BY <1>2
       DEF Roster!Next, Roster!Open, Roster!Arrive, Roster!Depart,
           Roster!Rename, Roster!Close, Roster!Say, Roster!Mentioned,
           Roster!Subject, Mail!Membership!Next, Mail!Membership!Open,
           Mail!Membership!Arrive, Mail!Membership!Depart,
           Mail!Membership!Rename, Mail!Membership!Close,
           Mail!Membership!Say, Mail!Membership!Mentioned,
           Mail!Membership!Subject, members
  <2>2. \A c \in Chats : Mail!WithinBounds(events'[c], owner'[c])
    BY DEF Mail!WithinBounds
  <2> QED BY <2>1, <2>2 DEF Mail!MembershipStep, ChatStep, MessagesFollow
<1>3. CASE UNCHANGED <<opened, owner, members, events>>
  <2>1. messages' = messages
    BY <1>3 DEF ChatStep, MessagesFollow, MessagesHaveChat
  <2> QED BY <1>3, <2>1 DEF Mail!vars, ChatStep, MessagesFollow, members
<1> QED BY <1>1, <1>2, <1>3

\* With the chat service for its environment, whatever overlaps in it, the
\* message service meets its specification: the roster it is written against
\* is what the participant table shows it.
THEOREM MessagesInService == ServiceSpec => ImplementsMessages
<1>1. ServiceInit => Mail!Init /\ MessagesHaveChat
  BY DEF ServiceInit, Mail!Init, MessagesHaveChat
<1>2. IInv /\ MessagesHaveChat /\ [ServiceNext]_serviceVars
        => [Mail!Next]_(Mail!vars)
  <2> SUFFICES ASSUME IInv, MessagesHaveChat, [ServiceNext]_serviceVars
               PROVE  Mail!Next \/ UNCHANGED Mail!vars
    OBVIOUS
  <2>1. CASE ChatStep
    BY <2>1, ChatStepForMessages DEF Mail!Next
  <2>2. CASE MailStep
    BY <2>2 DEF MailStep
  <2>3. CASE FileStep \/ RelationStep \/ DirectStep \/ UNCHANGED serviceVars
    BY <2>3, SameMembers DEF FileStep, RelationStep, DirectStep, serviceVars,
                             vars, mailVars, Mail!vars, members
  <2> QED BY <2>1, <2>2, <2>3 DEF ServiceNext
<1>3. MessagesHaveChat /\ [ServiceNext]_serviceVars => MessagesHaveChat'
  BY MessagesKeepChat
<1>4. ServiceSpec => []IInv
  BY MembershipInService, InductiveInvariant, PTL DEF ImplementsMembership
<1> QED BY <1>1, <1>2, <1>3, <1>4, PTL
    DEF ServiceSpec, ImplementsMessages, Mail!Spec

\* A chat is there, for the files, until it is deleted.
LEMMA ChatStepForFiles ==
  ASSUME IInv, ChatStep
  PROVE  (\E c \in Chats : FileService!DeleteChat(c)) \/ UNCHANGED FileService!vars
<1>1. ASSUME NEW c \in Chats, IsDeleted(c)
      PROVE  c \in NotDeleted /\ NotDeleted' = NotDeleted \ {c}
  <2>1. owner[c] # NoUser /\ owner'[c] = NoUser
    BY <1>1 DEF IsDeleted, Exists
  <2>2. c \in opened
    BY <1>1 DEF IInv, ChatInv, IsDeleted
  <2>3. opened' = opened /\ owner' = [owner EXCEPT ![c] = NoUser]
    BY <2>1, <2>2, ChatsChange, NoUserIsNobody DEF ChatStep, IInv, TypeOK
  <2> QED BY <2>1, <2>2, <2>3 DEF NotDeleted, Exists, IInv, TypeOK
<1>2. ASSUME \A c \in Chats : ~IsDeleted(c)
      PROVE  NotDeleted' = NotDeleted
  <2>1. CASE UNCHANGED <<opened, owner>>
    BY <2>1 DEF NotDeleted, Exists
  <2>2. ASSUME NEW c \in Chats, NEW u \in Users, c \notin opened,
               opened' = opened \cup {c}, owner' = [owner EXCEPT ![c] = u]
        PROVE  NotDeleted' = NotDeleted
    BY <2>2, NoUserIsNobody DEF NotDeleted, Exists, IInv, TypeOK
  <2>3. ASSUME NEW c \in Chats, Exists(c), owner' = [owner EXCEPT ![c] = NoUser]
        PROVE  FALSE
    BY <1>2, <2>3 DEF IsDeleted, Exists, IInv, TypeOK
  <2> QED BY <2>1, <2>2, <2>3, ChatsChange DEF ChatStep
<1>3. ASSUME NEW c \in Chats, IsDeleted(c),
             FileService!DeleteRows({u \in FileService!Rows :
                                       Target[transfer[u].file] = c}),
             UNCHANGED <<drawn, known, finished, announced, served, handler,
                         fileContacts>>
      PROVE  FileService!DeleteChat(c)
  BY <1>1, <1>3 DEF FileService!DeleteChat
<1>4. ASSUME \A c \in Chats : ~IsDeleted(c), UNCHANGED fileVars
      PROVE  UNCHANGED FileService!vars
  BY <1>2, <1>4 DEF fileVars, FileService!vars
<1> QED BY <1>3, <1>4 DEF ChatStep, FilesFollow

\* With the chat service for its environment the file service meets its
\* specification, chats made after the start included.
THEOREM TransfersInService == ServiceSpec => ImplementsTransfers
<1>1. ServiceInit => FileService!Init
  BY DEF ServiceInit
<1>2. IInv /\ [ServiceNext]_serviceVars => [FileService!Next]_(FileService!vars)
  <2> SUFFICES ASSUME IInv, [ServiceNext]_serviceVars
               PROVE  FileService!Next \/ UNCHANGED FileService!vars
    OBVIOUS
  <2>1. CASE ChatStep
    BY <2>1, ChatStepForFiles DEF FileService!Next
  <2>2. CASE FileStep
    BY <2>2 DEF FileStep
  <2>3. CASE MailStep \/ RelationStep \/ DirectStep \/ UNCHANGED serviceVars
    BY <2>3 DEF MailStep, RelationStep, DirectStep, serviceVars, vars, fileVars,
                FileService!vars, NotDeleted, Exists
  <2> QED BY <2>1, <2>2, <2>3 DEF ServiceNext
<1>3. ServiceSpec => []IInv
  BY MembershipInService, InductiveInvariant, PTL DEF ImplementsMembership
<1> QED BY <1>1, <1>2, <1>3, PTL
    DEF ServiceSpec, ImplementsTransfers, FileService!Spec

\* The chat, message and file services add blank rows where there is none,
\* between the users they say.
LEMMA StepRelates ==
  ASSUME IInv, [ServiceNext]_serviceVars
  PROVE  Relations!Next \/ UNCHANGED Relations!vars
<1>1. ASSUME NEW u \in Users, NEW P \in SUBSET Users, Relations!AddBlanks(u, P)
      PROVE  Relations!Next
  BY <1>1 DEF Relations!Next
<1>2. CASE UNCHANGED relationVars
  BY <1>2 DEF relationVars, Relations!vars
<1>3. CASE ChatStep
  <2>1. ASSUME NEW r \in Requests, AddCommits(r)
        PROVE  request[r].target \in Users /\ request[r].peers \in SUBSET Users
    BY <2>1 DEF IInv, TypeOK, Request, WellFormed, AddCommits, At
  <2> QED BY <1>1, <1>2, <1>3, <2>1 DEF ChatStep, InvitationsRelate
<1>4. CASE MailStep
  BY <1>1, <1>2, <1>4 DEF MailStep, BatchesRelate
<1>5. CASE FileStep
  <2>1. \A v \in Users : {v} \in SUBSET Users
    OBVIOUS
  <2> QED BY <1>1, <1>2, <1>5, <2>1 DEF FileStep, FilesRelate
<1>6. CASE RelationStep \/ UNCHANGED serviceVars
  BY <1>2, <1>6 DEF RelationStep, serviceVars, Relations!Next
<1>7. CASE DirectStep
  <2>1. \A v \in Users : {v} \in SUBSET Users
    OBVIOUS
  <2> QED BY <1>1, <1>2, <1>7, <2>1 DEF DirectStep, StoresRelating
<1> QED BY <1>3, <1>4, <1>5, <1>6, <1>7 DEF ServiceNext

\* To the contact service the others are its own environment: in the table
\* that they share they add blank rows where there is none.
THEOREM RelationsInService == ServiceSpec => ImplementsRelations
<1>1. ServiceInit => Relations!Init
  BY DEF ServiceInit
<1>2. IInv /\ [ServiceNext]_serviceVars => [Relations!Next]_(Relations!vars)
  BY StepRelates
<1>3. ServiceSpec => []IInv
  BY MembershipInService, InductiveInvariant, PTL DEF ImplementsMembership
<1> QED BY <1>1, <1>2, <1>3, PTL
    DEF ServiceSpec, ImplementsRelations, Relations!Spec

----------------------------------------------------------------------------
(* The table of all messages *)

DraftsOf(g) == {b \in batches : b.uuid = g}

\* The drafts of a uuid are numbered, within bounds, and what is being
\* submitted was prepared.
BatchesFit ==
  /\ IsFiniteSet(batches) /\ Cardinality(batches) <= MaxBatches
  /\ \A b \in batches : /\ b.uuid \in Uuids /\ b.draft \in 1..MaxBatches
                        /\ b.chat \in Chats
                        /\ b.recipients \subseteq Users /\ b.recipients # {}
  /\ \A b \in batches : b.draft <= Cardinality(DraftsOf(b.uuid))
  /\ \A a, b \in batches : a.uuid = b.uuid /\ a.draft = b.draft => a = b
  /\ sending \in [Senders ->
       [step : {"idle", "members", "reply", "existing", "insert", "answer"},
        batch : batches \cup {NoBatch}, since : Nat]]
  /\ \A h \in Senders : sending[h].step # "idle" => sending[h].batch \in batches

\* ChatMessages counts as this module does.
LEMMA SameCount == \A S : Mail!Cardinality(S) = Cardinality(S)
BY DEF Mail!Cardinality, Cardinality

LEMMA PrepareFits ==
  ASSUME MaxBatches \in Nat, IInv, BatchesFit,
         NEW c \in Chats, NEW s \in Users, NEW g \in Uuids, Mail!Prepare(c, s, g)
  PROVE  BatchesFit'
<1> DEFINE drafts == {b \in batches : b.uuid = g}
           others == Active(c) \ {s}
<1>1. PICK x : /\ batches' = batches \cup {x}
               /\ x.uuid = g /\ x.draft = Cardinality(drafts) + 1
               /\ x.chat = c /\ x.recipients = others
  <2>1. PICK q, f :
          batches' = batches \cup
            {[uuid |-> g, draft |-> Mail!Cardinality(drafts) + 1, sender |-> s,
              chat |-> c, recipients |-> [d \in Chats |-> Active(d)][c] \ {s},
              reply |-> q, pointer |-> f]}
    BY DEF Mail!Prepare
  <2> DEFINE x == [uuid |-> g, draft |-> Mail!Cardinality(drafts) + 1, sender |-> s,
                   chat |-> c, recipients |-> [d \in Chats |-> Active(d)][c] \ {s},
                   reply |-> q, pointer |-> f]
  <2>2. /\ x.uuid = g /\ x.draft = Mail!Cardinality(drafts) + 1
        /\ x.chat = c /\ x.recipients = others
    OBVIOUS
  <2> HIDE DEF x
  <2>3. x.draft = Cardinality(drafts) + 1
    BY <2>2, SameCount
  <2> QED BY <2>1, <2>2, <2>3 DEF x
<1>2. /\ Cardinality(batches) < MaxBatches
      /\ sending' = sending
      /\ others # {}
  BY SameCount DEF Mail!Prepare
<1>3. IsFiniteSet(drafts) /\ Cardinality(drafts) \in Nat
      /\ Cardinality(drafts) <= Cardinality(batches) /\ Cardinality(batches) \in Nat
  BY FS_Subset, FS_CardinalityType DEF BatchesFit
<1>4. x.draft \in 1..MaxBatches
  BY <1>1, <1>2, <1>3
<1>10. \A b \in drafts : b.draft <= Cardinality(drafts) /\ b.draft \in Nat /\ b # x
  <2>1. \A b \in drafts : b.draft <= Cardinality(drafts) /\ b.draft \in 1..MaxBatches
    BY DEF BatchesFit, DraftsOf
  <2> QED BY <1>1, <1>3, <2>1
<1>11. \A h : h # g => DraftsOf(h)' = DraftsOf(h)
  BY <1>1 DEF DraftsOf
<1>12. /\ DraftsOf(g)' = drafts \cup {x} /\ x \notin drafts
       /\ Cardinality(drafts \cup {x}) = Cardinality(drafts) + 1
  <2>1. DraftsOf(g)' = drafts \cup {x} /\ x \notin drafts
    BY <1>1, <1>10 DEF DraftsOf
  <2> QED BY <1>3, <2>1, FS_AddElement
<1>13. \A b \in batches' : b.draft <= Cardinality(DraftsOf(b.uuid)')
  <2> SUFFICES ASSUME NEW b \in batches' PROVE b.draft <= Cardinality(DraftsOf(b.uuid)')
    OBVIOUS
  <2>1. CASE b = x
    <3>1. Cardinality(DraftsOf(b.uuid)') = Cardinality(drafts) + 1 /\ b.draft = Cardinality(drafts) + 1
      BY <1>1, <1>12, <2>1
    <3> QED BY <1>3, <3>1
  <2>2. CASE b # x /\ b.uuid = g
    <3>1. b \in drafts
      BY <1>1, <2>2
    <3>2. Cardinality(DraftsOf(b.uuid)') = Cardinality(drafts) + 1
      BY <1>12, <2>2
    <3> QED BY <1>3, <1>10, <3>1, <3>2
  <2>3. CASE b # x /\ b.uuid # g
    <3>1. b \in batches /\ DraftsOf(b.uuid)' = DraftsOf(b.uuid)
      BY <1>1, <1>11, <2>3
    <3> QED BY <3>1 DEF BatchesFit
  <2> QED BY <2>1, <2>2, <2>3
<1>5. IsFiniteSet(batches') /\ Cardinality(batches') <= MaxBatches
  <2>1. /\ IsFiniteSet(batches \cup {x})
        /\ Cardinality(batches \cup {x}) = IF x \in batches THEN Cardinality(batches)
                                                           ELSE Cardinality(batches) + 1
    BY FS_AddElement DEF BatchesFit
  <2> QED BY <1>1, <1>2, <1>3, <2>1
<1>6. others \subseteq Users
  BY DEF Active
<1>7. \A b \in batches' : /\ b.uuid \in Uuids /\ b.draft \in 1..MaxBatches
                          /\ b.chat \in Chats
                          /\ b.recipients \subseteq Users /\ b.recipients # {}
  BY <1>1, <1>2, <1>4, <1>6 DEF BatchesFit
<1>8. \A a, b \in batches' : a.uuid = b.uuid /\ a.draft = b.draft => a = b
  <2>1. \A b \in batches : b.uuid = g => b.draft # x.draft
    BY <1>1, <1>3, <1>10
  <2> QED BY <1>1, <2>1 DEF BatchesFit
<1>9. /\ sending' \in [Senders ->
           [step : {"idle", "members", "reply", "existing", "insert", "answer"},
            batch : batches' \cup {NoBatch}, since : Nat]]
      /\ \A h \in Senders : sending'[h].step # "idle" => sending'[h].batch \in batches'
  BY <1>1, <1>2 DEF BatchesFit
<1> QED BY <1>5, <1>7, <1>8, <1>9, <1>13 DEF BatchesFit

\* A submission starts with a batch, goes on with it, or ends.
LEMMA SubmissionFits ==
  ASSUME IInv, BatchesFit, batches' = batches, NEW h \in Senders,
         \/ \E b \in batches : Mail!Submit(h, b)
         \/ \E step \in {"reply", "existing", "insert", "answer"} :
              sending[h].step # "idle" /\ Mail!Step(h, step)
         \/ Mail!End(h)
  PROVE  BatchesFit'
<1> DEFINE Sub == [step : {"idle", "members", "reply", "existing", "insert", "answer"},
                   batch : batches \cup {NoBatch}, since : Nat]
<1>1. sending \in [Senders -> Sub]
  BY DEF BatchesFit
<1>2. ASSUME NEW q \in Sub, q.step # "idle" => q.batch \in batches,
             sending' = [sending EXCEPT ![h] = q]
      PROVE  BatchesFit'
  BY <1>1, <1>2 DEF BatchesFit, DraftsOf
<1>3. ASSUME NEW b \in batches, Mail!Submit(h, b)
      PROVE  BatchesFit'
  <2>1. Len(events[b.chat]) \in Nat
    BY DEF BatchesFit, IInv, TypeOK
  <2> QED BY <1>2, <1>3, <2>1 DEF Mail!Submit
<1>4. ASSUME NEW step \in {"reply", "existing", "insert", "answer"},
             sending[h].step # "idle", Mail!Step(h, step)
      PROVE  BatchesFit'
  <2>1. [sending[h] EXCEPT !.step = step] \in Sub
    BY <1>1
  <2> QED BY <1>1, <1>2, <1>4, <2>1 DEF Mail!Step, BatchesFit
<1>5. CASE Mail!End(h)
  BY <1>2, <1>5 DEF Mail!End, Mail!Idle
<1> QED BY <1>3, <1>4, <1>5

LEMMA BatchesStayFit ==
  ASSUME MaxBatches \in Nat, IInv, BatchesFit, [ServiceNext]_serviceVars
  PROVE  BatchesFit'
<1>1. CASE MailStep
  <2>1. CASE \E c \in Chats, s \in Users, g \in Uuids : Mail!Prepare(c, s, g)
    BY <2>1, PrepareFits
  <2>2. ASSUME NEW h \in Senders,
               \/ \E b \in batches : Mail!Submit(h, b)
               \/ Mail!ReadsMembers(h) \/ Mail!ReadsTargets(h)
               \/ Mail!ReadsExisting(h) \/ Mail!Refuses(h) \/ Mail!Inserts(h)
               \/ Mail!InsertFails(h) \/ Mail!Answers(h) \/ Mail!Drops(h)
        PROVE  BatchesFit'
    <3>1. batches' = batches
      BY <2>2 DEF Mail!Submit, Mail!ReadsMembers, Mail!ReadsTargets,
                  Mail!ReadsExisting, Mail!Refuses, Mail!Inserts,
                  Mail!InsertFails, Mail!Answers, Mail!Drops
    <3>2. \/ \E b \in batches : Mail!Submit(h, b)
          \/ \E step \in {"reply", "existing", "insert", "answer"} :
               sending[h].step # "idle" /\ Mail!Step(h, step)
          \/ Mail!End(h)
      BY <2>2 DEF Mail!ReadsMembers, Mail!ReadsTargets,
                  Mail!ReadsExisting, Mail!Refuses, Mail!Inserts,
                  Mail!InsertFails, Mail!Answers, Mail!Drops
    <3> QED BY <3>1, <3>2, SubmissionFits
  <2>3. CASE Mail!MembershipStep
    BY <2>3 DEF Mail!MembershipStep, BatchesFit, DraftsOf
  <2> QED BY <1>1, <2>1, <2>2, <2>3 DEF MailStep, Mail!Next
<1>2. CASE ChatStep \/ FileStep \/ RelationStep \/ DirectStep \/ UNCHANGED serviceVars
  BY <1>2 DEF ChatStep, MessagesFollow, FileStep, RelationStep, DirectStep,
              serviceVars, mailVars, BatchesFit, DraftsOf
<1> QED BY <1>1, <1>2 DEF ServiceNext

\* A contact row is of two users, and so is what a request may write.
RelationsFit ==
  /\ contact \in [Ids -> Relations!Contact]
  /\ \A i \in Relations!Rows :
       contact[i].sender \in Users /\ contact[i].receiver \in Users \ {contact[i].sender}
  /\ contactHandler \in [ContactHandlers -> Relations!Handler]
  /\ \A h \in ContactHandlers :
       contactHandler[h].op \in {"request", "blacklist"} =>
         /\ contactHandler[h].actor \in Users
         /\ contactHandler[h].other \in Users \ {contactHandler[h].actor}

LEMMA SameCountOfPairs == \A S : Directs!Cardinality(S) = Cardinality(S)
BY DEF Directs!Cardinality, Cardinality

LEMMA RelatedArePairs ==
  ASSUME RelationsFit
  PROVE  Related \in SUBSET Directs!Pairs
<1> SUFFICES ASSUME NEW i \in Relations!Rows
             PROVE  Relations!Pair(i) \in Directs!Pairs
  BY DEF Related
<1>1. PICK u \in Users, v \in Users : u # v /\ Relations!Pair(i) = {u, v}
  BY DEF RelationsFit, Relations!Pair
<1>2. Cardinality({u} \cup {v}) = 2
  <2>1. IsFiniteSet({u}) /\ Cardinality({u}) = 1
    BY FS_Singleton
  <2>2. Cardinality({u} \cup {v}) = Cardinality({u}) + 1
    BY <1>1, <2>1, FS_AddElement
  <2> QED BY <2>1, <2>2
<1>3. {u, v} = {u} \cup {v}
  OBVIOUS
<1> QED BY <1>1, <1>2, <1>3, SameCountOfPairs DEF Directs!Pairs

\* A request starts with two users of its own.
LEMMA RequestFits ==
  ASSUME RelationsFit, contact' = contact, NEW h \in ContactHandlers, NEW q \in Relations!Handler,
         q.op \in {"request", "blacklist"} =>
           q.actor \in Users /\ q.other \in Users \ {q.actor},
         contactHandler' = [contactHandler EXCEPT ![h] = q]
  PROVE  RelationsFit'
BY DEF RelationsFit, Relations!Rows

\* A write is of a row of two users, or deletes it, and ends the request.
LEMMA RowFits ==
  ASSUME RelationsFit, NEW h \in ContactHandlers, Relations!End(h), NEW i \in Ids,
         NEW row \in Relations!Contact,
         row.status # "none" => row.sender \in Users /\ row.receiver \in Users \ {row.sender},
         contact' = [contact EXCEPT ![i] = row]
  PROVE  RelationsFit'
<1>1. Relations!Idle \in Relations!Handler /\ Relations!Idle.op = "none"
  BY DEF Relations!Idle, Relations!Handler
<1>2. contactHandler' = [contactHandler EXCEPT ![h] = Relations!Idle]
  BY DEF Relations!End
<1>3. /\ contact' \in [Ids -> Relations!Contact]
      /\ contactHandler' \in [ContactHandlers -> Relations!Handler]
  BY <1>1, <1>2 DEF RelationsFit
<1>4. \A j \in Relations!Rows' :
        contact'[j].sender \in Users /\ contact'[j].receiver \in Users \ {contact'[j].sender}
  BY DEF RelationsFit, Relations!Rows
<1>5. \A g \in ContactHandlers :
        contactHandler'[g].op \in {"request", "blacklist"} =>
          contactHandler'[g] = contactHandler[g]
  BY <1>1, <1>2 DEF RelationsFit
<1> QED BY <1>3, <1>4, <1>5 DEF RelationsFit

LEMMA RelationsStayFit ==
  ASSUME RelationsFit, Relations!Next \/ UNCHANGED Relations!vars
  PROVE  RelationsFit'
<1>1. ASSUME NEW h \in ContactHandlers, Relations!StartSome(h)
      PROVE  RelationsFit'
  <2>1. ASSUME NEW u \in Users, NEW v \in Users, u # v, NEW seen \in Ids \cup {NoId},
               NEW op \in {"request", "blacklist"}, Relations!Start(h, op, u, v, seen)
        PROVE  RelationsFit'
    <3> DEFINE q == [op |-> op, actor |-> u, other |-> v, seen |-> seen]
    <3>1. q \in Relations!Handler /\ q.actor = u /\ q.other = v
      BY DEF Relations!Handler
    <3>2. contact' = contact /\ contactHandler' = [contactHandler EXCEPT ![h] = q]
      BY <2>1 DEF Relations!Start
    <3> HIDE DEF q
    <3> QED BY <2>1, <3>1, <3>2, RequestFits
  <2>2. ASSUME NEW i \in Ids, NEW u \in Users, NEW op \in {"accept", "reject"},
               Relations!StartAnswer(h, op, i, u)
        PROVE  RelationsFit'
    <3>1. PICK v \in Relations!Pair(i) : Relations!Start(h, op, u, v, i)
      BY <2>2 DEF Relations!StartAnswer
    <3>2. v \in Users
      BY <2>2 DEF Relations!StartAnswer, Relations!Pair, RelationsFit
    <3> DEFINE q == [op |-> op, actor |-> u, other |-> v, seen |-> i]
    <3>3. q \in Relations!Handler /\ q.op \notin {"request", "blacklist"}
      BY <3>2 DEF Relations!Handler
    <3>4. contact' = contact /\ contactHandler' = [contactHandler EXCEPT ![h] = q]
      BY <3>1 DEF Relations!Start
    <3> HIDE DEF q
    <3> QED BY <3>3, <3>4, RequestFits
  <2>3. \A u, v \in Users : Relations!Between(u, v) \subseteq Ids
    BY DEF Relations!Between, Relations!Rows
  <2> QED BY <1>1, <2>1, <2>2, <2>3
          DEF Relations!StartSome, Relations!StartRequest, Relations!StartBlacklist
<1>2. ASSUME NEW h \in ContactHandlers, NEW i \in Ids, Relations!Relates(h), Relations!Relate(h, i)
      PROVE  RelationsFit'
  <2> DEFINE row == Relations!Row(contactHandler[h].actor, contactHandler[h].other,
                                  IF contactHandler[h].op = "request" THEN "pending"
                                                                      ELSE "blacklist")
  <2>1. /\ contactHandler[h].actor \in Users
        /\ contactHandler[h].other \in Users \ {contactHandler[h].actor}
    BY <1>2 DEF RelationsFit, Relations!Relates
  <2>2. /\ row \in Relations!Contact
        /\ row.sender \in Users /\ row.receiver \in Users \ {row.sender}
    BY <2>1 DEF Relations!Row, Relations!Contact
  <2>3. contact' = [contact EXCEPT ![i] = row] /\ Relations!End(h)
    BY <1>2 DEF Relations!Relate
  <2> HIDE DEF row
  <2> QED BY <2>2, <2>3, RowFits
<1>3. ASSUME NEW h \in ContactHandlers, Relations!Accepts(h) \/ Relations!Rejects(h)
      PROVE  RelationsFit'
  <2>1. PICK i \in Relations!Rows :
          /\ Relations!End(h)
          /\ \/ contact' = [contact EXCEPT ![i].status = "accepted"]
             \/ contact' = [contact EXCEPT ![i] = Relations!NoRow]
    BY <1>3 DEF Relations!Accepts, Relations!Rejects
  <2>2. /\ i \in Ids /\ contact[i] \in Relations!Contact
        /\ contact[i].sender \in Users /\ contact[i].receiver \in Users \ {contact[i].sender}
    BY DEF RelationsFit, Relations!Rows
  <2> DEFINE row == [contact[i] EXCEPT !.status = "accepted"]
  <2>3. /\ row \in Relations!Contact
        /\ row.sender = contact[i].sender /\ row.receiver = contact[i].receiver
    BY <2>2 DEF Relations!Contact
  <2>4. Relations!NoRow \in Relations!Contact /\ Relations!NoRow.status = "none"
    BY DEF Relations!NoRow, Relations!Contact
  <2>5. \/ contact' = [contact EXCEPT ![i] = row]
        \/ contact' = [contact EXCEPT ![i] = Relations!NoRow]
    BY <2>1
  <2> HIDE DEF row
  <2> QED BY <2>1, <2>2, <2>3, <2>4, <2>5, RowFits
<1>4. ASSUME NEW h \in ContactHandlers, Relations!WriteFails(h) \/ Relations!Drop(h)
      PROVE  RelationsFit'
  <2>1. Relations!Idle \in Relations!Handler /\ Relations!Idle.op = "none"
    BY DEF Relations!Idle, Relations!Handler
  <2> QED BY <1>4, <2>1, RequestFits DEF Relations!WriteFails, Relations!Drop, Relations!End
<1>5. ASSUME NEW u \in Users, NEW P \in SUBSET Users, Relations!AddBlanks(u, P)
      PROVE  RelationsFit'
  <2>1. PICK I, peer :
          /\ I \subseteq Ids /\ peer \in [I -> P \ {u}]
          /\ contact' = [i \in Ids |-> IF i \in I THEN Relations!Row(u, peer[i], "blank")
                                                 ELSE contact[i]]
          /\ contactHandler' = contactHandler
    BY <1>5 DEF Relations!AddBlanks
  <2>2. \A v \in P \ {u} : Relations!Row(u, v, "blank") \in Relations!Contact
    BY DEF Relations!Row, Relations!Contact
  <2>3. contact' \in [Ids -> Relations!Contact]
    BY <2>1, <2>2 DEF RelationsFit
  <2>4. \A i \in Relations!Rows' :
          contact'[i].sender \in Users /\ contact'[i].receiver \in Users \ {contact'[i].sender}
    BY <2>1 DEF RelationsFit, Relations!Rows, Relations!Row
  <2> QED BY <2>1, <2>3, <2>4 DEF RelationsFit
<1>6. CASE UNCHANGED Relations!vars
  BY <1>6 DEF Relations!vars, RelationsFit, Relations!Rows
<1>7. ASSUME NEW h \in ContactHandlers, Relations!Continue(h)
      PROVE  RelationsFit'
  BY <1>2, <1>3, <1>4, <1>7
     DEF Relations!Continue, Relations!InsertsRelation, Relations!UpdatesRelation,
         Relations!Rows
<1> QED BY <1>1, <1>4, <1>5, <1>6, <1>7 DEF Relations!Next

\* What an acknowledgement has locked is undecided, and locked by it alone; a
\* direct message that is about to be stored is none of a chat.
LocksFit ==
  /\ device \in [Devices -> Directs!Handler]
  /\ \A d \in Devices : device[d].op = "store" => device[d].message \notin Mail!Copy
  /\ \A d \in Devices : \A m \in Directs!Gave(d) : verdict[m] = "waiting"
  /\ \A d, e \in Devices : d # e => Directs!Gave(d) \cap Directs!Gave(e) = {}

LEMMA DeviceFits ==
  ASSUME LocksFit, NEW d \in Devices, NEW q \in Directs!Handler,
         device' = [device EXCEPT ![d] = q],
         q.op = "store" => q.message \notin Mail!Copy,
         \A m \in q.gaveOk \cup q.gaveBad :
           /\ verdict'[m] = "waiting"
           /\ \A e \in Devices \ {d} : m \notin Directs!Gave(e),
         \A e \in Devices \ {d} : \A m \in Directs!Gave(e) : verdict'[m] = "waiting"
  PROVE  LocksFit'
<1>1. /\ device' \in [Devices -> Directs!Handler]
      /\ device'[d] = q /\ \A e \in Devices \ {d} : device'[e] = device[e]
  BY DEF LocksFit
<1>2. /\ Directs!Gave(d)' = q.gaveOk \cup q.gaveBad
      /\ \A e \in Devices \ {d} : Directs!Gave(e)' = Directs!Gave(e)
  BY <1>1 DEF Directs!Gave
<1>3. \A e \in Devices : \A m \in Directs!Gave(e)' : verdict'[m] = "waiting"
  BY <1>2
<1>4. \A e, f \in Devices : e # f => Directs!Gave(e)' \cap Directs!Gave(f)' = {}
  BY <1>2 DEF LocksFit
<1> QED BY <1>1, <1>3, <1>4 DEF LocksFit

LEMMA IdleDevice ==
  /\ Directs!Idle \in Directs!Handler /\ Directs!Idle.op = "none"
  /\ Directs!Idle.gaveOk \cup Directs!Idle.gaveBad = {}
BY DEF Directs!Idle, Directs!Handler

LEMMA DeviceEnds ==
  ASSUME LocksFit, NEW d \in Devices, Directs!End(d), verdict' = verdict
  PROVE  LocksFit'
BY IdleDevice, DeviceFits DEF Directs!End, LocksFit

\* A device starts with nothing locked.
LEMMA DeviceStarts ==
  ASSUME LocksFit, NEW d \in Devices, Directs!StartSome(d)
  PROVE  LocksFit' /\ UNCHANGED <<verdict, gone>>
<1>1. ASSUME NEW q \in Directs!Handler, Directs!Start(d, q),
             q.gaveOk \cup q.gaveBad = {},
             q.op = "store" => q.message \notin Mail!Copy
      PROVE  LocksFit' /\ UNCHANGED <<verdict, gone>>
  BY <1>1, DeviceFits DEF Directs!Start, LocksFit
<1>2. ASSUME NEW m \in Letters \cup Mail!Copy, Directs!StartSend(d, m)
      PROVE  LocksFit' /\ UNCHANGED <<verdict, gone>>
  <2> DEFINE q == [Directs!Idle EXCEPT !.op = "store", !.message = m,
                     !.inserts = /\ Directs!Cardinality(Directs!Pair(m)) = 2
                                 /\ Directs!Pair(m) \notin Related]
  <2>1. /\ q \in Directs!Handler /\ q.message = m
        /\ q.gaveOk \cup q.gaveBad = {}
    BY DEF Directs!Handler, Directs!Idle
  <2>2. Directs!Start(d, q) /\ m \notin Mail!Copy
    BY <1>2 DEF Directs!StartSend
  <2> HIDE DEF q
  <2> QED BY <1>1, <2>1, <2>2
<1>3. ASSUME NEW u \in Users, NEW named \in SUBSET (Letters \cup Mail!Copy),
             NEW ok \in SUBSET named, Directs!StartAck(d, u, named, ok)
      PROVE  LocksFit' /\ UNCHANGED <<verdict, gone>>
  <2> DEFINE q == [Directs!Idle EXCEPT !.op = "ack", !.user = u, !.named = named,
                     !.ok = ok, !.bad = named \ ok]
  <2>1. /\ q \in Directs!Handler /\ q.op = "ack"
        /\ q.gaveOk \cup q.gaveBad = {}
    BY DEF Directs!Handler, Directs!Idle
  <2>2. Directs!Start(d, q)
    BY <1>3 DEF Directs!StartAck
  <2> HIDE DEF q
  <2> QED BY <1>1, <2>1, <2>2
<1>4. \A u : {m \in Directs!Rows : Letter[m].to = u} \subseteq Letters \cup Mail!Copy
  BY DEF Directs!Rows
<1> QED BY <1>2, <1>3, <1>4 DEF Directs!StartSome

\* A device that goes on updates a row, passes one, commits or ends.
LEMMA StoresFits ==
  ASSUME LocksFit, NEW d \in Devices, Directs!Stores(d)
  PROVE  /\ LocksFit'
         /\ \A x \in Mail!Copy : verdict'[x] = verdict[x]
         /\ gone' = gone
<1> DEFINE q == [device[d] EXCEPT !.op = "announce"]
<1>1. device[d] \in Directs!Handler /\ device[d].message \notin Mail!Copy
  BY DEF LocksFit, Directs!Stores
<1>2. q \in Directs!Handler /\ q.op = "announce"
      /\ q.gaveOk = device[d].gaveOk /\ q.gaveBad = device[d].gaveBad
  BY <1>1 DEF Directs!Handler
<1>3. device' = [device EXCEPT ![d] = q] /\ gone' = gone
  BY <1>1 DEF Directs!Stores, Directs!Handler
<1>4. verdict' = [m \in Letters \cup Mail!Copy |->
                    IF m = device[d].message THEN "waiting" ELSE verdict[m]]
  BY DEF Directs!Stores, Directs!Arrives
<1>5. \A e \in Devices : Directs!Gave(e) \subseteq Letters \cup Mail!Copy
  BY DEF LocksFit, Directs!Gave, Directs!Handler
<1>6. \A e \in Devices : \A m \in Directs!Gave(e) : verdict'[m] = "waiting"
  BY <1>4, <1>5 DEF LocksFit
<1>7. q.gaveOk \cup q.gaveBad = Directs!Gave(d)
  BY <1>2 DEF Directs!Gave
<1>8. \A m \in q.gaveOk \cup q.gaveBad :
        /\ verdict'[m] = "waiting"
        /\ \A e \in Devices \ {d} : m \notin Directs!Gave(e)
  BY <1>6, <1>7 DEF LocksFit
<1>9. LocksFit'
  <2> HIDE DEF q
  <2> QED BY <1>2, <1>3, <1>6, <1>8, DeviceFits
<1> QED BY <1>1, <1>3, <1>4, <1>9

LEMMA UpdatesRowFits ==
  ASSUME LocksFit, NEW d \in Devices, NEW m \in Letters \cup Mail!Copy,
         Directs!UpdatesRow(d, m)
  PROVE  LocksFit' /\ verdict' = verdict /\ gone' = gone
<1>1. /\ device[d] \in Directs!Handler /\ device[d].op = "ack"
      /\ verdict[m] = "waiting" /\ verdict' = verdict /\ gone' = gone
      /\ \A e \in Devices \ {d} : m \notin Directs!Gave(e)
  BY DEF LocksFit, Directs!UpdatesRow, Directs!Matches, Directs!LockedByOther
<1>2. PICK q \in Directs!Handler :
        /\ device' = [device EXCEPT ![d] = q] /\ q.op = "ack"
        /\ q.gaveOk \cup q.gaveBad = Directs!Gave(d) \cup {m}
  <2>1. CASE device[d].ok # {}
    <3> DEFINE q == [[device[d] EXCEPT !.ok = @ \ {m}] EXCEPT !.gaveOk = @ \cup {m}]
    <3>1. q \in Directs!Handler /\ q.op = "ack"
          /\ q.gaveOk = device[d].gaveOk \cup {m} /\ q.gaveBad = device[d].gaveBad
      BY <1>1 DEF Directs!Handler
    <3>2. device' = [device EXCEPT ![d] = q]
      BY <2>1 DEF Directs!UpdatesRow, Directs!GoesThrough
    <3> HIDE DEF q
    <3> QED BY <3>1, <3>2 DEF Directs!Gave
  <2>2. CASE device[d].ok = {}
    <3> DEFINE q == [[device[d] EXCEPT !.bad = @ \ {m}] EXCEPT !.gaveBad = @ \cup {m}]
    <3>1. q \in Directs!Handler /\ q.op = "ack"
          /\ q.gaveBad = device[d].gaveBad \cup {m} /\ q.gaveOk = device[d].gaveOk
      BY <1>1 DEF Directs!Handler
    <3>2. device' = [device EXCEPT ![d] = q]
      BY <2>2 DEF Directs!UpdatesRow, Directs!GoesThrough
    <3> HIDE DEF q
    <3> QED BY <3>1, <3>2 DEF Directs!Gave
  <2> QED BY <2>1, <2>2
<1>3. \A x \in q.gaveOk \cup q.gaveBad :
        /\ verdict'[x] = "waiting"
        /\ \A e \in Devices \ {d} : x \notin Directs!Gave(e)
  BY <1>1, <1>2 DEF LocksFit
<1>4. \A e \in Devices \ {d} : \A x \in Directs!Gave(e) : verdict'[x] = "waiting"
  BY <1>1 DEF LocksFit
<1> QED BY <1>1, <1>2, <1>3, <1>4, DeviceFits

LEMMA PassesRowFits ==
  ASSUME LocksFit, NEW d \in Devices, NEW m \in Letters \cup Mail!Copy,
         Directs!PassesRow(d, m)
  PROVE  LocksFit' /\ verdict' = verdict /\ gone' = gone
<1>1. /\ device[d] \in Directs!Handler /\ device[d].op = "ack"
      /\ verdict' = verdict /\ gone' = gone
  BY DEF LocksFit, Directs!PassesRow
<1> DEFINE q == Directs!GoesThrough(d, m)
<1>2. /\ q \in Directs!Handler /\ q.op = "ack"
      /\ q.gaveOk = device[d].gaveOk /\ q.gaveBad = device[d].gaveBad
  BY <1>1 DEF Directs!Handler, Directs!GoesThrough
<1>3. device' = [device EXCEPT ![d] = q]
  BY DEF Directs!PassesRow
<1> HIDE DEF q
<1>4. q.gaveOk \cup q.gaveBad = Directs!Gave(d)
  BY <1>2 DEF Directs!Gave
<1>5. \A x \in q.gaveOk \cup q.gaveBad :
        /\ verdict'[x] = "waiting"
        /\ \A e \in Devices \ {d} : x \notin Directs!Gave(e)
  BY <1>1, <1>4 DEF LocksFit
<1>6. \A e \in Devices \ {d} : \A x \in Directs!Gave(e) : verdict'[x] = "waiting"
  BY <1>1 DEF LocksFit
<1> QED BY <1>1, <1>2, <1>3, <1>5, <1>6, DeviceFits

\* The verdicts of a request are on rows that are there and that no other
\* request has locked.
LEMMA CommitsAckFits ==
  ASSUME LocksFit, NEW d \in Devices, Directs!CommitsAck(d)
  PROVE  /\ LocksFit'
         /\ \A x \in Mail!Copy : verdict'[x] = "absent" <=> verdict[x] = "absent"
         /\ gone' = gone
<1>1. /\ verdict' = [m \in Letters \cup Mail!Copy |->
                       IF m \in device[d].gaveOk THEN "done"
                       ELSE IF m \in device[d].gaveBad THEN "failed"
                       ELSE verdict[m]]
      /\ device' = [device EXCEPT ![d] = Directs!Idle]
      /\ gone' = gone
  BY DEF Directs!CommitsAck, Directs!End
<1>2. \A e \in Devices : Directs!Gave(e) \subseteq Letters \cup Mail!Copy
  BY DEF LocksFit, Directs!Gave, Directs!Handler
<1>3. \A e \in Devices \ {d} : \A m \in Directs!Gave(e) :
        m \notin device[d].gaveOk /\ m \notin device[d].gaveBad
  <2>1. Directs!Gave(d) = device[d].gaveOk \cup device[d].gaveBad
    BY DEF Directs!Gave
  <2> QED BY <2>1 DEF LocksFit
<1>4. \A e \in Devices \ {d} : \A m \in Directs!Gave(e) : verdict'[m] = "waiting"
  BY <1>1, <1>2, <1>3 DEF LocksFit
<1>5. \A m \in Directs!Idle.gaveOk \cup Directs!Idle.gaveBad :
        /\ verdict'[m] = "waiting"
        /\ \A e \in Devices \ {d} : m \notin Directs!Gave(e)
  BY IdleDevice
<1>6. LocksFit'
  BY <1>1, <1>4, <1>5, IdleDevice, DeviceFits
<1>7. \A m \in device[d].gaveOk \cup device[d].gaveBad : verdict[m] # "absent"
  BY DEF LocksFit, Directs!Gave
<1> QED BY <1>1, <1>6, <1>7

\* The table of all messages has the rows of batches, and what it once had
\* is of chats that are deleted.
CopiesFit ==
  /\ \A m \in messages : m.batch \in batches /\ m.recipient \in Users
  /\ \A x \in Mail!Copy :
       verdict[x] # "absent" <=> \E m \in messages : Mail!CopyOf(m) = x
  /\ \A x \in gone : \E b \in batches :
       /\ b.uuid = x.uuid /\ b.draft = x.draft
       /\ b.chat \in opened /\ owner[b.chat] = NoUser

LEMMA CopiesStay ==
  ASSUME CopiesFit, UNCHANGED <<vars, messages>>, batches \subseteq batches', gone' = gone,
         \A x \in Mail!Copy : verdict'[x] = "absent" <=> verdict[x] = "absent"
  PROVE  CopiesFit'
<1>1. \A m \in messages' : m.batch \in batches' /\ m.recipient \in Users
  BY DEF CopiesFit
<1>2. \A x \in Mail!Copy :
        verdict'[x] # "absent" <=> \E m \in messages' : Mail!CopyOf(m) = x
  BY DEF CopiesFit
<1>3. \A x \in gone' : \E b \in batches' :
        /\ b.uuid = x.uuid /\ b.draft = x.draft
        /\ b.chat \in opened' /\ owner'[b.chat] = NoUser
  BY DEF CopiesFit, vars
<1> QED BY <1>1, <1>2, <1>3 DEF CopiesFit, Mail!CopyOf, Mail!CopyFor

LEMMA DirectStepFits ==
  ASSUME LocksFit, CopiesFit, DirectStep
  PROVE  LocksFit' /\ CopiesFit'
<1>1. PICK d \in Devices :
        Directs!Stores(d) \/ Directs!StartSome(d) \/ Directs!Continue(d) \/ Directs!Drop(d)
  BY DEF DirectStep, StoresRelating
<1>2. CASE Directs!Stores(d)
  BY <1>2, StoresFits, CopiesStay DEF DirectStep, mailVars
<1>3. CASE Directs!StartSome(d)
  BY <1>3, DeviceStarts, CopiesStay DEF DirectStep, mailVars
<1>4. CASE Directs!StoreFails(d) \/ Directs!Announces(d) \/ Directs!Victim(d) \/ Directs!Drop(d)
  <2>1. Directs!End(d) /\ verdict' = verdict /\ gone' = gone
    BY <1>4 DEF Directs!StoreFails, Directs!Announces, Directs!Victim, Directs!Drop
  <2> QED BY <2>1, DeviceEnds, CopiesStay DEF DirectStep, mailVars
<1>5. ASSUME NEW m \in Letters \cup Mail!Copy,
             Directs!UpdatesRow(d, m) \/ Directs!PassesRow(d, m)
      PROVE  LocksFit' /\ CopiesFit'
  BY <1>5, UpdatesRowFits, PassesRowFits, CopiesStay DEF DirectStep, mailVars
<1>6. CASE Directs!CommitsAck(d)
  BY <1>6, CommitsAckFits, CopiesStay DEF DirectStep, mailVars
<1> QED BY <1>1, <1>2, <1>3, <1>4, <1>5, <1>6 DEF Directs!Continue

\* The rows of a chat that is deleted are those of its batches; none is
\* locked.
LEMMA ChatStepFits ==
  ASSUME IInv, MessagesHaveChat, BatchesFit, LocksFit, CopiesFit, ChatStep
  PROVE  LocksFit' /\ CopiesFit'
<1>1. batches' = batches /\ messages' = {m \in messages : owner'[m.batch.chat] # NoUser}
  BY DEF ChatStep, MessagesFollow
<1>2. \A b \in batches : b.chat \in Chats
  BY DEF BatchesFit
<1>3. ASSUME NEW c \in Chats, IsDeleted(c)
      PROVE  /\ c \in opened /\ opened' = opened
             /\ owner'[c] = NoUser /\ \A e \in Chats \ {c} : owner'[e] = owner[e]
  <2>1. owner[c] # NoUser /\ owner'[c] = NoUser
    BY <1>3 DEF IsDeleted, Exists
  <2>2. c \in opened
    BY <1>3 DEF IInv, ChatInv, IsDeleted
  <2>3. opened' = opened /\ owner' = [owner EXCEPT ![c] = NoUser]
    BY <2>1, <2>2, ChatsChange, NoUserIsNobody DEF ChatStep, IInv, TypeOK
  <2> QED BY <2>1, <2>2, <2>3 DEF IInv, TypeOK
<1>4. ASSUME NEW c \in Chats, IsDeleted(c), NEW M, device' = device,
             M = {Mail!CopyOf(m) : m \in {x \in messages : x.batch.chat = c}},
             \A d \in Devices : M \cap Directs!Gave(d) = {},
             Directs!Vanishes(M)
      PROVE  LocksFit' /\ CopiesFit'
  <2>1. /\ verdict' = [m \in Letters \cup Mail!Copy |->
                         IF m \in M THEN "absent" ELSE verdict[m]]
        /\ gone' = gone \cup M
    BY <1>4 DEF Directs!Vanishes
  <2>2. \A d \in Devices : Directs!Gave(d) \subseteq Letters \cup Mail!Copy
    BY DEF LocksFit, Directs!Gave, Directs!Handler
  <2>3. LocksFit'
    BY <1>4, <2>1, <2>2 DEF LocksFit, Directs!Gave
  <2>4. \A m \in messages : /\ m.batch.chat \in Chats
                            /\ m \in messages' <=> m.batch.chat # c
    BY <1>1, <1>2, <1>3, <1>4 DEF CopiesFit, MessagesHaveChat
  <2>5. \A m, n \in messages : Mail!CopyOf(m) = Mail!CopyOf(n) => m.batch.chat = n.batch.chat
    BY DEF CopiesFit, BatchesFit, Mail!CopyOf, Mail!CopyFor
  <2>6. ASSUME NEW x \in Mail!Copy
        PROVE  verdict'[x] # "absent" <=> \E m \in messages' : Mail!CopyOf(m) = x
    BY <1>1, <1>4, <2>1, <2>4, <2>5 DEF CopiesFit
  <2>7. ASSUME NEW x \in gone'
        PROVE  \E b \in batches' : /\ b.uuid = x.uuid /\ b.draft = x.draft
                                    /\ b.chat \in opened' /\ owner'[b.chat] = NoUser
    <3>1. CASE x \in gone
      BY <1>1, <1>2, <1>3, <1>4, <3>1 DEF CopiesFit
    <3>2. CASE x \in M
      BY <1>1, <1>3, <1>4, <3>2 DEF CopiesFit, Mail!CopyOf, Mail!CopyFor
    <3> QED BY <2>1, <3>1, <3>2
  <2>8. \A m \in messages' : m.batch \in batches' /\ m.recipient \in Users
    BY <1>1 DEF CopiesFit
  <2> QED BY <2>3, <2>6, <2>7, <2>8 DEF CopiesFit, Mail!CopyOf, Mail!CopyFor
<1>5. ASSUME \A c \in Chats : ~IsDeleted(c), UNCHANGED directVars
      PROVE  LocksFit' /\ CopiesFit'
  <2>1. \A c \in Chats : owner[c] # NoUser => owner'[c] # NoUser
    BY <1>5 DEF IsDeleted, Exists
  <2>2. messages' = messages
    BY <1>1, <1>2, <2>1 DEF CopiesFit, MessagesHaveChat
  <2>3. \A c \in opened : owner[c] = NoUser => c \in opened' /\ owner'[c] = NoUser
    <3>1. CASE UNCHANGED <<opened, owner>>
      BY <3>1
    <3>2. ASSUME NEW c \in Chats, NEW u \in Users, c \notin opened,
                 opened' = opened \cup {c}, owner' = [owner EXCEPT ![c] = u]
          PROVE  \A e \in opened : owner[e] = NoUser => e \in opened' /\ owner'[e] = NoUser
      BY <3>2 DEF IInv, TypeOK
    <3>3. ASSUME NEW c \in Chats, Exists(c), owner' = [owner EXCEPT ![c] = NoUser]
          PROVE  FALSE
      BY <1>5, <3>3 DEF IsDeleted, Exists, IInv, TypeOK
    <3> QED BY <3>1, <3>2, <3>3, ChatsChange DEF ChatStep
  <2>4. LocksFit'
    BY <1>5 DEF directVars, LocksFit, Directs!Gave
  <2>5. \A x \in gone' : \E b \in batches' :
          /\ b.uuid = x.uuid /\ b.draft = x.draft
          /\ b.chat \in opened' /\ owner'[b.chat] = NoUser
    BY <1>1, <1>5, <2>3 DEF directVars, CopiesFit
  <2>6. \A x \in Mail!Copy :
          verdict'[x] # "absent" <=> \E m \in messages' : Mail!CopyOf(m) = x
    BY <1>5, <2>2 DEF directVars, CopiesFit
  <2> QED BY <1>1, <2>2, <2>4, <2>5, <2>6 DEF CopiesFit, Mail!CopyOf, Mail!CopyFor
<1> QED BY <1>4, <1>5 DEF ChatStep, VerdictsFollow

\* What a batch brings was never in the table.
LEMMA InsertedAreNew ==
  ASSUME BatchesFit, CopiesFit, NEW h \in Senders, Mail!Inserts(h),
         NEW u \in sending[h].batch.recipients
  PROVE  /\ u \in Users /\ sending[h].batch \in batches
         /\ Mail!CopyFor(sending[h].batch, u) \in Mail!Copy \ (Directs!Rows \cup gone)
<1> DEFINE b == sending[h].batch
           x == Mail!CopyFor(b, u)
<1>1. b \in batches
  BY DEF Mail!Inserts, BatchesFit
<1>2. /\ b.uuid \in Uuids /\ b.draft \in 1..MaxBatches
      /\ b.chat \in Chats /\ u \in Users
  BY <1>1 DEF BatchesFit
<1>3. x \in Mail!Copy /\ x.uuid = b.uuid /\ x.draft = b.draft
  BY <1>2 DEF Mail!Copy, Mail!CopyFor
<1>4. /\ owner[b.chat] # NoUser
      /\ \A m \in messages : Mail!CopyOf(m) # x
  BY DEF Mail!Inserts, Mail!Insertable
<1>5. x \notin Directs!Rows
  BY <1>3, <1>4 DEF CopiesFit, Directs!Rows
<1>6. x \notin gone
  <2>1. SUFFICES ASSUME x \in gone PROVE FALSE
    OBVIOUS
  <2>2. PICK a \in batches : /\ a.uuid = x.uuid /\ a.draft = x.draft
                             /\ owner[a.chat] = NoUser
    BY <2>1 DEF CopiesFit
  <2>3. a = b
    BY <1>1, <1>3, <2>2 DEF BatchesFit
  <2> QED BY <1>4, <2>2, <2>3
<1> QED BY <1>1, <1>2, <1>3, <1>5, <1>6

LEMMA MailStepFits ==
  ASSUME MessagesHaveChat, BatchesFit, LocksFit, CopiesFit, MailStep
  PROVE  LocksFit' /\ CopiesFit'
<1>1. UNCHANGED vars /\ UNCHANGED <<opened, owner>>
  BY DEF MailStep, vars
<1>2. ASSUME NEW h \in Senders, Mail!Inserts(h),
             Directs!Arrives({Mail!CopyFor(sending[h].batch, u) :
                                u \in sending[h].batch.recipients}),
             UNCHANGED <<device, told, gone, acked>>
      PROVE  LocksFit' /\ CopiesFit'
  <2> DEFINE b == sending[h].batch
             M == {Mail!CopyFor(b, u) : u \in b.recipients}
  <2>1. verdict' = [m \in Letters \cup Mail!Copy |->
                      IF m \in M THEN "waiting" ELSE verdict[m]]
    BY <1>2 DEF Directs!Arrives
  <2>2. \A d \in Devices : Directs!Gave(d) \subseteq Letters \cup Mail!Copy
    BY DEF LocksFit, Directs!Gave, Directs!Handler
  <2>3. LocksFit'
    BY <1>2, <2>1, <2>2 DEF LocksFit, Directs!Gave
  <2>4. batches' = batches
    BY <1>2 DEF Mail!Inserts
  <2>5. PICK n : messages' = messages \cup
                   {[batch |-> b, recipient |-> u, since |-> sending[h].since,
                     upto |-> n] : u \in b.recipients}
    BY <1>2 DEF Mail!Inserts
  <2>6. \A u \in b.recipients : u \in Users /\ b \in batches
    BY <1>2, InsertedAreNew
  <2>7. \A m \in messages' : m.batch \in batches' /\ m.recipient \in Users
    BY <2>4, <2>5, <2>6 DEF CopiesFit
  <2>8. ASSUME NEW x \in Mail!Copy
        PROVE  verdict'[x] # "absent" <=> \E m \in messages' : Mail!CopyOf(m) = x
    <3>1. (\E m \in messages' : Mail!CopyOf(m) = x)
            <=> (\E m \in messages : Mail!CopyOf(m) = x) \/ x \in M
      <4> DEFINE New(u) == [batch |-> b, recipient |-> u, since |-> sending[h].since,
                            upto |-> n]
      <4>1. \A u \in b.recipients :
              New(u) \in messages' /\ Mail!CopyOf(New(u)) = Mail!CopyFor(b, u)
        BY <2>5 DEF Mail!CopyOf
      <4>2. \A m \in messages' : m \in messages \/ \E u \in b.recipients : m = New(u)
        BY <2>5
      <4>3. messages \subseteq messages'
        BY <2>5
      <4> HIDE DEF New
      <4>4. ASSUME NEW m \in messages', Mail!CopyOf(m) = x
            PROVE  (\E k \in messages : Mail!CopyOf(k) = x) \/ x \in M
        BY <4>1, <4>2, <4>4
      <4>5. ASSUME x \in M
            PROVE  \E m \in messages' : Mail!CopyOf(m) = x
        BY <4>1, <4>5
      <4> QED BY <4>3, <4>4, <4>5
    <3>2. verdict'[x] # "absent" <=> verdict[x] # "absent" \/ x \in M
      BY <2>1
    <3> QED BY <3>1, <3>2 DEF CopiesFit
  <2>9. \A x \in gone' : \E a \in batches' :
          /\ a.uuid = x.uuid /\ a.draft = x.draft
          /\ a.chat \in opened' /\ owner'[a.chat] = NoUser
    BY <1>1, <1>2, <2>4 DEF CopiesFit
  <2> QED BY <2>3, <2>7, <2>8, <2>9 DEF CopiesFit, Mail!CopyOf, Mail!CopyFor
<1>3. ASSUME \A h \in Senders : ~Mail!Inserts(h), UNCHANGED directVars
      PROVE  LocksFit' /\ CopiesFit'
  <2>1. messages' = messages /\ batches \subseteq batches'
    <3>1. CASE Mail!MembershipStep
      BY <1>1, <3>1 DEF Mail!MembershipStep, MessagesHaveChat
    <3>2. CASE \E c \in Chats, s \in Users, g \in Uuids : Mail!Prepare(c, s, g)
      BY <3>2 DEF Mail!Prepare
    <3>3. CASE messages' = messages /\ batches' = batches
      BY <3>3
    <3> QED BY <1>3, <3>1, <3>2, <3>3
            DEF MailStep, Mail!Next, Mail!Submit, Mail!ReadsMembers, Mail!ReadsTargets,
                Mail!ReadsExisting, Mail!Refuses, Mail!InsertFails, Mail!Answers,
                Mail!Drops
  <2>2. gone' = gone /\ verdict' = verdict /\ device' = device
    BY <1>3 DEF directVars
  <2>3. LocksFit'
    BY <2>2 DEF LocksFit, Directs!Gave
  <2>4. CopiesFit'
    BY <1>1, <2>1, <2>2, CopiesStay
  <2> QED BY <2>3, <2>4
<1> QED BY <1>2, <1>3 DEF MailStep, BatchesArrive

LEMMA CopiesAndLocksStayFit ==
  ASSUME IInv, MessagesHaveChat, BatchesFit, LocksFit, CopiesFit, [ServiceNext]_serviceVars
  PROVE  LocksFit' /\ CopiesFit'
<1>1. CASE FileStep \/ RelationStep \/ UNCHANGED serviceVars
  <2>1. UNCHANGED <<vars, messages, batches, verdict, gone, device>>
    BY <1>1 DEF FileStep, RelationStep, serviceVars, mailVars, directVars
  <2>2. LocksFit'
    BY <2>1 DEF LocksFit, Directs!Gave
  <2>3. CopiesFit'
    BY <2>1, CopiesStay
  <2> QED BY <2>2, <2>3
<1> QED BY <1>1, ChatStepFits, MailStepFits, DirectStepFits DEF ServiceNext

LEMMA RelatedStayPairs == RelationsFit' => Related' \in SUBSET Directs!Pairs
<1>1. RelationsFit => Related \in SUBSET Directs!Pairs
  BY RelatedArePairs
<1>2. (RelationsFit => Related \in SUBSET Directs!Pairs)'
  BY <1>1, PTL
<1> QED BY <1>2

\* What the other services do to the table is what Inbox expects of them.
LEMMA ChatStepOfInbox ==
  ASSUME CopiesFit, BatchesFit, Related' \in SUBSET Directs!Pairs, ChatStep
  PROVE  Directs!Next
<1>1. ASSUME NEW c \in Chats, IsDeleted(c), NEW M,
             M = {Mail!CopyOf(m) : m \in {x \in messages : x.batch.chat = c}},
             \A d \in Devices : M \cap Directs!Gave(d) = {},
             Directs!Vanishes(M),
             UNCHANGED <<device, told, acked>>
      PROVE  Directs!Next
  <2>1. \A r \in Requests : ~AddCommits(r)
    BY <1>1 DEF AddCommits, IsDeleted, Exists
  <2>2. Related' = Related
    BY <2>1 DEF ChatStep, InvitationsRelate, relationVars, Related,
                Relations!Pair, Relations!Rows
  <2>3. \A m \in messages : Mail!CopyOf(m) \in Mail!Copy
    BY DEF CopiesFit, BatchesFit, Mail!CopyOf, Mail!CopyFor, Mail!Copy
  <2>4. M \subseteq Mail!Copy \cap Directs!Rows
    BY <1>1, <2>3 DEF CopiesFit, Directs!Rows
  <2>5. Directs!ChatGoes(M)
    BY <1>1, <2>2, <2>4 DEF Directs!ChatGoes
  <2>6. M \in SUBSET (Letters \cup Mail!Copy)
    BY <2>4
  <2> QED BY <2>5, <2>6 DEF Directs!Next
<1>2. CASE UNCHANGED directVars
  BY <1>2 DEF directVars, Directs!Next, Directs!ContactsChange
<1> QED BY <1>1, <1>2 DEF ChatStep, VerdictsFollow

LEMMA MailStepOfInbox ==
  ASSUME CopiesFit, BatchesFit, Related' \in SUBSET Directs!Pairs, MailStep
  PROVE  Directs!Next
<1>1. ASSUME NEW h \in Senders, Mail!Inserts(h), NEW M,
             M = {Mail!CopyFor(sending[h].batch, u) : u \in sending[h].batch.recipients},
             Directs!Arrives(M),
             UNCHANGED <<device, told, gone, acked>>
      PROVE  Directs!Next
  <2>1. M \subseteq Mail!Copy \ (Directs!Rows \cup gone)
    BY <1>1, InsertedAreNew
  <2>2. M # {}
    BY <1>1 DEF BatchesFit, Mail!Inserts
  <2>3. Directs!ChatMessagesArrive(M)
    BY <1>1, <2>1, <2>2 DEF Directs!ChatMessagesArrive
  <2>4. M \in SUBSET (Letters \cup Mail!Copy)
    BY <2>1
  <2> QED BY <2>3, <2>4 DEF Directs!Next
<1>2. CASE UNCHANGED directVars
  BY <1>2 DEF directVars, Directs!Next, Directs!ContactsChange
<1> QED BY <1>1, <1>2 DEF MailStep, BatchesArrive

LEMMA StepOfInbox ==
  ASSUME CopiesFit, BatchesFit, RelationsFit', [ServiceNext]_serviceVars
  PROVE  Directs!Next \/ UNCHANGED Directs!vars
<1>1. Related' \in SUBSET Directs!Pairs
  BY RelatedStayPairs
<1>2. CASE DirectStep
  BY <1>2 DEF DirectStep, StoresRelating, Directs!Next, Directs!Continue
<1>3. CASE FileStep \/ RelationStep \/ UNCHANGED serviceVars
  <2>1. UNCHANGED directVars
    BY <1>3 DEF FileStep, RelationStep, serviceVars
  <2> QED BY <1>1, <2>1 DEF directVars, Directs!Next, Directs!ContactsChange
<1> QED BY <1>1, <1>2, <1>3, ChatStepOfInbox, MailStepOfInbox DEF ServiceNext

LEMMA TablesFitInit ==
  ASSUME MaxBatches \in Nat, ServiceInit
  PROVE  MessagesHaveChat /\ BatchesFit /\ RelationsFit /\ LocksFit /\ CopiesFit
<1>1. MessagesHaveChat
  BY DEF ServiceInit, Mail!Init, MessagesHaveChat
<1>2. BatchesFit
  <2>1. IsFiniteSet({}) /\ Cardinality({}) = 0
    BY FS_EmptySet
  <2>2. /\ batches = {}
        /\ sending = [h \in Senders |-> [step |-> "idle", batch |-> NoBatch, since |-> 0]]
    BY DEF ServiceInit, Mail!Init, Mail!Idle
  <2>3. Cardinality(batches) <= MaxBatches
    BY <2>1, <2>2
  <2> QED BY <2>1, <2>2, <2>3 DEF BatchesFit
<1>3. RelationsFit
  <2>1. /\ contact = [i \in Ids |-> Relations!NoRow]
        /\ contactHandler = [h \in ContactHandlers |-> Relations!Idle]
    BY DEF ServiceInit, Relations!Init
  <2>2. /\ Relations!NoRow \in Relations!Contact /\ Relations!NoRow.status = "none"
        /\ Relations!Idle \in Relations!Handler /\ Relations!Idle.op = "none"
    BY DEF Relations!NoRow, Relations!Contact, Relations!Idle, Relations!Handler
  <2> QED BY <2>1, <2>2 DEF RelationsFit, Relations!Rows
<1>4. LocksFit
  <2>1. device = [d \in Devices |-> Directs!Idle]
    BY DEF ServiceInit, Directs!Init
  <2> QED BY <2>1, IdleDevice DEF LocksFit, Directs!Gave
<1>5. CopiesFit
  BY DEF ServiceInit, Mail!Init, Directs!Init, CopiesFit
<1> QED BY <1>1, <1>2, <1>3, <1>4, <1>5

\* To a device that sends direct messages and acknowledges messages of both
\* kinds the other services are the environment Inbox is written against:
\* what a batch stores was never in the table, what a deleted chat takes
\* along is of that chat and locked by nobody, and contact rows are of two
\* users.  MaxBatches is a natural number, as ChatMessages assumes.
THEOREM DirectsInService ==
  ASSUME MaxBatches \in Nat
  PROVE  ServiceSpec => ImplementsInbox
<1> DEFINE Fit == MessagesHaveChat /\ BatchesFit /\ RelationsFit /\ LocksFit /\ CopiesFit
<1>1. ServiceInit => Directs!Init /\ Fit
  BY TablesFitInit DEF ServiceInit
<1>2. ServiceSpec => []IInv
  BY MembershipInService, InductiveInvariant, PTL DEF ImplementsMembership
<1>3. IInv /\ Fit /\ [ServiceNext]_serviceVars => Fit'
  <2> SUFFICES ASSUME IInv, Fit, [ServiceNext]_serviceVars PROVE Fit'
    OBVIOUS
  <2>1. MessagesHaveChat'
    BY MessagesKeepChat
  <2>2. BatchesFit'
    BY BatchesStayFit
  <2>3. RelationsFit'
    BY StepRelates, RelationsStayFit
  <2>4. LocksFit' /\ CopiesFit'
    BY CopiesAndLocksStayFit
  <2> QED BY <2>1, <2>2, <2>3, <2>4
<1>4. Fit /\ Fit' /\ [ServiceNext]_serviceVars => [Directs!Next]_(Directs!vars)
  BY StepOfInbox
<1> QED BY <1>1, <1>2, <1>3, <1>4, PTL
    DEF ServiceSpec, ImplementsInbox, Directs!Spec
=============================================================================
