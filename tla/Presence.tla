------------------------------ MODULE Presence ------------------------------
(***************************************************************************)
(* The WebSocket endpoint, composed with the broker.  A client connects,   *)
(* reports whether its user is online, as often as it likes, and leaves;   *)
(* each report is written to users.online, committed, and then announced   *)
(* to the user's contacts.  When the last connection of a user is gone,    *)
(* its handler says offline for the user.                                  *)
(*                                                                         *)
(* A handler reads one message after the other.  It is cut where it waits: *)
(* for a message, for the commit of set_presence, and for the publication. *)
(* An update of the row and its commit need no cut, for the lock of the    *)
(* row orders them.                                                        *)
(***************************************************************************)
EXTENDS RealtimeBroker

CONSTANTS
  Contacts,   \* Contacts[u], the other user of each contact row of u
  Reporters,  \* connections whose clients report presence
  Audiences   \* recipients of the events that other routers publish

ASSUME ContactsAreUsers == Contacts \in [Users -> SUBSET Users]
ASSUME AudiencesAreUsers == Audiences \subseteq SUBSET Users

VARIABLES
  online,   \* users whose row says online
  socket,   \* the handlers of the connections
  unsaid,   \* users left online by a crash, by a handler that failed, or by a
            \* last connection whose last complete report was offline, although
            \* another one, or its own failed report, wrote online after it
  muddled   \* users whose last write came between the write and the
            \* announcement of another handler, or was not announced

vars == <<brokerVars, online, socket, unsaid, muddled>>

----------------------------------------------------------------------------
\* reported is reported_online, wanted the report that is being written.  A
\* handler at "write" or "announce" whose connection is not registered is in
\* its finally block.
Socket ==
  [phase    : {"free", "open", "write", "announce"},
   reported : {"nothing", "online", "offline"},
   wanted   : {"nothing", "online", "offline"}]

Free == [phase |-> "free", reported |-> "nothing", wanted |-> "nothing"]

Goto(s, phase) == socket' = [socket EXCEPT ![s].phase = phase]

Announces(u) == {s \in Sockets : Owner[s] = u /\ socket[s].phase = "announce"}

Init ==
  /\ BrokerInit
  /\ online = {}
  /\ socket = [s \in Sockets |-> Free]
  /\ unsaid = {}
  /\ muddled = {}

----------------------------------------------------------------------------
\* accept and connect.  When the greeting fails, Leave follows.
Enter(s) ==
  /\ socket[s].phase = "free"
  /\ Goto(s, "open")
  /\ Connect(s)
  /\ UNCHANGED <<online, unsaid, muddled>>

\* A message that says what was reported last is skipped.
Report(s, v) ==
  /\ s \in Reporters
  /\ socket[s].phase = "open"
  /\ v # socket[s].reported
  /\ socket' = [socket EXCEPT ![s].phase = "write", ![s].wanted = v]
  /\ UNCHANGED <<brokerVars, online, unsaid, muddled>>

\* set_presence: UPDATE users and commit.
Write(s) ==
  LET u == Owner[s] IN
  /\ socket[s].phase = "write"
  /\ online' = IF socket[s].wanted = "online" THEN online \cup {u} ELSE online \ {u}
  /\ Goto(s, "announce")
  /\ unsaid' = unsaid \ {u}
  /\ muddled' = IF Announces(u) = {} THEN muddled \ {u} ELSE muddled \cup {u}
  /\ UNCHANGED brokerVars

\* After the publication: wait for the next message, or end.
Announced(s) ==
  socket' = [socket EXCEPT ![s] =
               IF s \in registered
                 THEN [phase |-> "open", reported |-> @.wanted, wanted |-> "nothing"]
                 ELSE Free]

\* Mutant: only a connection that is still there is announced.
AnnounceWhileThere(s) ==
  /\ socket[s].phase = "announce"
  /\ IF s \in registered
       THEN PublishArrives([to |-> Contacts[Owner[s]], about |-> Owner[s],
                            online |-> socket[s].wanted = "online"])
       ELSE PublishesNothing
  /\ Announced(s)
  /\ UNCHANGED <<online, unsaid, muddled>>

\* The contacts are read and told.
Announce(s) ==
  /\ socket[s].phase = "announce"
  /\ PublishArrives([to |-> Contacts[Owner[s]], about |-> Owner[s],
                     online |-> socket[s].wanted = "online"])
  /\ Announced(s)
  /\ UNCHANGED <<online, unsaid, muddled>>

\* The same with no contacts or no Redis: the handler does not notice.
AnnounceNothing(s) ==
  /\ socket[s].phase = "announce"
  /\ PublishesNothing
  /\ Announced(s)
  /\ muddled' = muddled \cup {Owner[s]}
  /\ UNCHANGED <<online, unsaid>>

IsLast(s) == SocketsOf({Owner[s]}) = {s}

\* Mutant: only who reported online says offline.
SaysFarewellIfOnline(s) == IsLast(s) /\ socket[s].reported = "online"

\* last_connection and reported_online is not False
SaysFarewell(s) == IsLast(s) /\ socket[s].reported # "offline"

\* Mutant: the slot keeps the report of the connection.
LeavesKeepingReport(s) ==
  /\ Disconnect(s)
  /\ socket' = [socket EXCEPT ![s].phase = IF SaysFarewell(s) THEN "write" ELSE "free",
                              ![s].wanted = "offline"]
  /\ UNCHANGED unsaid

\* The finally block, up to its write: the lock is never held across an
\* await, so disconnect does not wait.
Leaves(s) ==
  /\ Disconnect(s)
  /\ socket' = [socket EXCEPT ![s] =
                  IF SaysFarewell(s)
                    THEN [Free EXCEPT !.phase = "write", !.wanted = "offline"]
                    ELSE Free]
  /\ unsaid' = IF IsLast(s) /\ socket[s].reported = "offline"
                 THEN unsaid \cup ({Owner[s]} \cap online) ELSE unsaid

\* The client goes away, or its access token expires.
Leave(s) ==
  /\ socket[s].phase = "open"
  /\ Leaves(s)
  /\ UNCHANGED <<online, muddled>>

\* The database fails, before the commit or when the contacts are read: the
\* connection ends, or the handler.
Fail(s) ==
  /\ socket[s].phase \in {"write", "announce"}
  /\ IF s \in registered
       THEN Leaves(s)
       ELSE /\ socket' = [socket EXCEPT ![s] = Free]
            /\ unsaid' = unsaid \cup ({Owner[s]} \cap online)
            /\ UNCHANGED brokerVars
  /\ muddled' = IF socket[s].phase = "announce" THEN muddled \cup {Owner[s]} ELSE muddled
  /\ UNCHANGED online

----------------------------------------------------------------------------
\* message_available, contact_changed and chat_changed, published by the
\* other routers after their commits.
PublishOther(users) ==
  /\ PublishArrives([to |-> users, about |-> NoUser, online |-> FALSE])
  /\ UNCHANGED <<online, socket, unsaid, muddled>>

Listen ==
  /\ Listens
  /\ UNCHANGED <<online, socket, unsaid, muddled>>

\* Nothing is written when the process dies.
Crash ==
  /\ Restart
  /\ socket' = [s \in Sockets |-> Free]
  /\ unsaid' = online
  /\ muddled' = muddled \cup {u \in Users : Announces(u) # {}}
  /\ UNCHANGED online

Handle(s) ==
  \/ Enter(s)
  \/ \E v \in {"online", "offline"} : Report(s, v)
  \/ Write(s)
  \/ Announce(s)
  \/ AnnounceNothing(s)
  \/ Fail(s)
  \/ Leave(s)

Next ==
  \/ \E s \in Sockets : Handle(s)
  \/ \E users \in Audiences : PublishOther(users)
  \/ Listen
  \/ Crash

Spec == Init /\ [][Next]_vars

\* The listener goes on as long as there is something to send: every send
\* ends, for the server closes a connection that answers no ping.
FairSpec ==
  /\ Spec
  /\ WF_vars(Take /\ UNCHANGED <<online, socket, unsaid, muddled>>)
  /\ WF_vars(Sends /\ UNCHANGED <<online, socket, unsaid, muddled>>)

----------------------------------------------------------------------------
(* Properties *)

\* Every value has its type, the connections that are registered or served
\* have a handler in the state for it, and a handler that has ended leaves
\* nothing in the slot of the next.
TypeOK ==
  /\ registered \subseteq Sockets /\ left \subseteq registered
  /\ log \in Seq(Event) /\ Len(log) <= MaxEvents
  /\ subscribed \in BOOLEAN /\ (channel # <<>> => subscribed)
  /\ channel \in Seq(1..Len(log)) /\ current \in 0..Len(log)
  /\ got \in [Sockets -> SUBSET (1..Len(log))]
  /\ due \in [Sockets -> SUBSET (1..Len(log))]
  /\ online \subseteq Users /\ unsaid \subseteq Users /\ muddled \subseteq Users
  /\ socket \in [Sockets -> Socket]
  /\ \A s \in Sockets :
       /\ socket[s].phase = "free" => socket[s] = Free
       /\ socket[s].phase = "open" => s \in registered
       /\ s \in registered => socket[s].phase # "free"
       /\ socket[s].phase \in {"write", "announce"} =>
            socket[s].wanted \in (IF s \in registered THEN {"online", "offline"}
                                                       ELSE {"offline"})

\* A connection of u, or its last word.
Present(u) == {s \in Sockets : Owner[s] = u /\ socket[s].phase # "free"}

\* A user without a connection is offline, however the reports and the ends
\* of connections interleave.  The exceptions are a crash, a database that
\* fails the last word, and a last connection whose last complete report was
\* offline: it says nothing more, although another connection wrote online
\* later, or a report of its own did that failed when the contacts were read.
GoneIsOffline ==
  \A u \in online : Present(u) = {} => u \in unsaid

\* What the contacts of u were told last.
ToldOnline(u) ==
  \E i \in DOMAIN log :
    /\ log[i].about = u /\ log[i].online
    /\ \A j \in DOMAIN log : j > i => log[j].about # u

\* The last announcement of a user agrees with the table, unless two handlers
\* of the user wrote and announced across each other, or an announcement got
\* lost; the next write that is announced alone repairs that.
LastWordIsTable ==
  \A u \in Users :
    Announces(u) = {} /\ u \notin muddled => (ToldOnline(u) <=> u \in online)

\* An event that was published while a connection of a recipient was
\* registered stays on its way to it, and nothing published later overtakes
\* it, until it is sent, the send fails or the subscription is lost: without
\* an error there is no gap.
NoGaps ==
  \A s \in Sockets : \A i \in due[s] :
    /\ (i = current /\ s \in left) \/ (\E k \in DOMAIN channel : channel[k] = i)
    /\ \A j \in got[s] : j < i

Feed == INSTANCE EventFeed WITH Events <- Event

\* A connection is told events for its user, in the order of publication, none
\* twice, whatever is lost.
ImplementsFeed == Feed!Spec

\* Nothing stays on its way for ever: a connection that is slow or broken
\* delays the others, but does not stop them.
DueIsSettled ==
  \A s \in Sockets : \A i \in 1..MaxEvents : i \in due[s] ~> i \notin due[s]
=============================================================================
