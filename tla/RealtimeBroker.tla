--------------------------- MODULE RealtimeBroker ---------------------------
(***************************************************************************)
(* How an event gets from a handler to WebSocket connections: the handler  *)
(* publishes it on one Redis channel, after its commit; the listener, one  *)
(* task of the server process, takes the events of its subscription one by *)
(* one and sends each to the connections its recipients have registered.   *)
(*                                                                         *)
(* Redis forgets an event at once.  It is lost when the publication fails, *)
(* when nobody is subscribed, or with the connection of the subscription.  *)
(***************************************************************************)
EXTENDS Naturals, Sequences

CONSTANTS
  Users,     \* user ids
  Sockets,   \* connections that can be open at the same time
  Owner,     \* Owner[s], the user who is connected
  NoUser,    \* an event that is not about the presence of a user
  MaxEvents  \* bound: later publications fail

ASSUME OwnerIsUser == Owner \in [Sockets -> Users]
ASSUME NoUserIsNobody == NoUser \notin Users
ASSUME MaxEventsIsNat == MaxEvents \in Nat

VARIABLES
  registered,  \* _connections of RealtimeConnectionManager
  log,         \* events published so far (history; Redis keeps none)
  subscribed,  \* the listener has a subscription
  channel,     \* events the subscription holds for the listener
  current,     \* the event the listener sends, 0 when it waits for one
  left,        \* connections it has still to send it to
  got,         \* got[s], events sent to connection s
  due          \* due[s], events on their way to s since they were published

brokerVars == <<registered, log, subscribed, channel, current, left, got, due>>

----------------------------------------------------------------------------
\* RealtimeBrokerEvent: presence_changed says of a user whether he is online;
\* the other types are about a chat, a message or a contact.
Event ==
  [to : (SUBSET Users) \ {{}}, about : Users \cup {NoUser}, online : BOOLEAN]

\* The listener has sent its event when no connection is left.
LeftIs(connections) ==
  /\ left' = connections
  /\ current' = IF connections = {} THEN 0 ELSE current

SocketsOf(users) == {s \in registered : Owner[s] \in users}

Index(e) == Len(log) + 1

BrokerInit ==
  /\ registered = {}
  /\ log = <<>>
  /\ subscribed = FALSE
  /\ channel = <<>>
  /\ current = 0
  /\ left = {}
  /\ got = [s \in Sockets |-> {}]
  /\ due = [s \in Sockets |-> {}]

\* RealtimePublisher.publish
PublishArrives(e) ==
  /\ e.to # {}
  /\ Len(log) < MaxEvents
  /\ log' = Append(log, e)
  /\ IF subscribed
       THEN /\ channel' = Append(channel, Index(e))
            /\ due' = [s \in Sockets |-> IF s \in SocketsOf(e.to)
                                           THEN due[s] \cup {Index(e)} ELSE due[s]]
       ELSE UNCHANGED <<channel, due>>
  /\ UNCHANGED <<registered, subscribed, current, left, got>>

\* Without recipients, or with a RedisError, which is swallowed.
PublishesNothing == UNCHANGED brokerVars

----------------------------------------------------------------------------
(* RealtimeConnectionManager, under its lock *)

Connect(s) ==
  /\ registered' = registered \cup {s}
  /\ UNCHANGED <<log, subscribed, channel, current, left, got, due>>

\* A send that is still to come will fail, and is passed over.
Disconnect(s) ==
  /\ registered' = registered \ {s}
  /\ LeftIs(left \ {s})
  /\ got' = [got EXCEPT ![s] = {}]
  /\ due' = [due EXCEPT ![s] = {}]
  /\ UNCHANGED <<log, subscribed, channel>>

\* Mutant: the listener remembers one connection for each user.
TakesForOneEach(i) ==
  /\ left' \in {L \in SUBSET SocketsOf(log[i].to) :
                  \A s, p \in L : Owner[s] = Owner[p] => s = p}
  /\ current' = IF left' = {} THEN 0 ELSE i

\* send_to_users copies the connections under the lock; without one it is done.
TakesFor(i) ==
  /\ left' = SocketsOf(log[i].to)
  /\ current' = IF left' = {} THEN 0 ELSE i

\* Mutant: the newest message is taken first.
TakeNewest ==
  /\ left = {}
  /\ channel # <<>>
  /\ TakesFor(channel[Len(channel)])
  /\ channel' = SubSeq(channel, 1, Len(channel) - 1)
  /\ UNCHANGED <<registered, log, subscribed, got, due>>

\* _listen takes the next message.
Take ==
  /\ left = {}
  /\ channel # <<>>
  /\ TakesFor(Head(channel))
  /\ channel' = Tail(channel)
  /\ UNCHANGED <<registered, log, subscribed, got, due>>

Send(s) ==
  /\ s \in left
  /\ LeftIs(left \ {s})
  /\ got' = [got EXCEPT ![s] = @ \cup {current}]
  /\ due' = [due EXCEPT ![s] = @ \ {current}]
  /\ UNCHANGED <<registered, log, subscribed, channel>>

\* Mutant: the first send that fails is the last.
SendFailsForAll(s) ==
  /\ s \in left
  /\ LeftIs({})
  /\ due' = [due EXCEPT ![s] = @ \ {current}]
  /\ UNCHANGED <<registered, log, subscribed, channel, got>>

\* send_json raises; the next connection is served.
SendFails(s) ==
  /\ s \in left
  /\ LeftIs(left \ {s})
  /\ due' = [due EXCEPT ![s] = @ \ {current}]
  /\ UNCHANGED <<registered, log, subscribed, channel, got>>

\* The connection to Redis breaks, and what the subscription holds is gone.
LoseSubscription ==
  /\ subscribed
  /\ subscribed' = FALSE
  /\ channel' = <<>>
  /\ due' = [s \in Sockets |-> IF s \in left THEN due[s] \cap {current} ELSE {}]
  /\ UNCHANGED <<registered, log, current, left, got>>

\* At the start, or after the retry delay.  The listener meets the error only
\* when it has sent the event it is at.
Subscribe ==
  /\ ~subscribed
  /\ left = {}
  /\ subscribed' = TRUE
  /\ UNCHANGED <<registered, log, channel, current, left, got, due>>

\* The process dies and starts again.
Restart ==
  /\ registered' = {}
  /\ subscribed' = FALSE
  /\ channel' = <<>>
  /\ LeftIs({})
  /\ got' = [s \in Sockets |-> {}]
  /\ due' = [s \in Sockets |-> {}]
  /\ UNCHANGED log

Sends == \E s \in Sockets : Send(s) \/ SendFails(s)

Listens == Take \/ Sends \/ LoseSubscription \/ Subscribe
=============================================================================
