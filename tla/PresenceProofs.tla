---------------------------- MODULE PresenceProofs ----------------------------
(***************************************************************************)
(* Proofs about Presence, for any users, contacts, connections and bound   *)
(* on the events.  First the broker, then what the handlers add.           *)
(***************************************************************************)
EXTENDS Presence, TLAPS

(* The inductive invariant of the broker *)

BrokerType ==
  /\ registered \subseteq Sockets /\ left \subseteq registered
  /\ log \in Seq(Event) /\ Len(log) <= MaxEvents
  /\ subscribed \in BOOLEAN /\ (channel # <<>> => subscribed)
  /\ channel \in Seq(1..Len(log)) /\ current \in 0..Len(log)
  /\ got \in [Sockets -> SUBSET (1..Len(log))]
  /\ due \in [Sockets -> SUBSET (1..Len(log))]

\* The event that is being sent is older than those that wait, is for all who
\* have still to get it, and newer than all they got.
SendingInv ==
  left # {} =>
    /\ current # 0
    /\ \A k \in DOMAIN channel : current < channel[k]
    /\ \A s \in left : Owner[s] \in log[current].to /\ \A i \in got[s] : i < current

\* Events wait in the order of publication, and are newer than what was sent.
OrderInv ==
  /\ \A j, k \in DOMAIN channel : j < k => channel[j] < channel[k]
  /\ \A s \in Sockets : \A i \in got[s] : \A k \in DOMAIN channel : i < channel[k]

\* What is due is for a registered connection and on its way.
DueInv ==
  \A s \in Sockets : \A i \in due[s] :
    /\ s \in registered /\ Owner[s] \in log[i].to
    /\ (i = current /\ s \in left) \/ (\E k \in DOMAIN channel : channel[k] = i)

BrokerInv == BrokerType /\ SendingInv /\ OrderInv /\ DueInv

LEMMA BrokerInitInv == BrokerInit => BrokerInv
<1> SUFFICES ASSUME BrokerInit PROVE BrokerInv
  OBVIOUS
<1>1. BrokerType
  <2>1. log \in Seq(Event) /\ Len(log) = 0 /\ channel \in Seq(1..Len(log)) /\ channel = <<>>
    BY DEF BrokerInit
  <2>2. /\ got \in [Sockets -> SUBSET (1..Len(log))]
        /\ due \in [Sockets -> SUBSET (1..Len(log))]
    BY DEF BrokerInit
  <2>3. /\ registered \subseteq Sockets /\ left \subseteq registered
        /\ subscribed \in BOOLEAN /\ current = 0
    BY DEF BrokerInit
  <2>4. Len(log) <= MaxEvents /\ current \in 0..Len(log)
    BY <2>1, <2>3, MaxEventsIsNat
  <2> QED BY <2>1, <2>2, <2>3, <2>4 DEF BrokerType
<1> QED BY <1>1 DEF BrokerInit, BrokerInv, SendingInv, OrderInv, DueInv

----------------------------------------------------------------------------
(* Publication *)

LEMMA AppendToLog ==
  ASSUME NEW S, NEW q \in Seq(S), NEW e \in S
  PROVE  /\ Append(q, e) \in Seq(S)
         /\ Len(Append(q, e)) = Len(q) + 1
         /\ DOMAIN Append(q, e) = 1..(Len(q) + 1)
         /\ Append(q, e)[Len(q) + 1] = e
         /\ \A i \in 1..Len(q) : Append(q, e)[i] = q[i]
OBVIOUS

LEMMA LongerSeq ==
  ASSUME NEW n \in Nat, NEW q \in Seq(1..n)
  PROVE  q \in Seq(1..(n + 1))
OBVIOUS

LEMMA PublishStep ==
  ASSUME BrokerInv, NEW e \in Event, PublishArrives(e)
  PROVE  /\ BrokerInv'
         /\ Len(log') = Len(log) + 1 /\ log'[Len(log) + 1] = e
         /\ \A i \in 1..Len(log) : log'[i] = log[i]
<1>1. PICK n : n = Len(log)
  OBVIOUS
<1>2. /\ n \in Nat /\ log \in Seq(Event) /\ n < MaxEvents /\ log' = Append(log, e)
      /\ UNCHANGED <<registered, subscribed, current, left, got>>
  BY <1>1 DEF BrokerInv, BrokerType, PublishArrives
<1>3. /\ log' \in Seq(Event) /\ Len(log') = n + 1 /\ log'[n + 1] = e
      /\ \A i \in 1..n : log'[i] = log[i]
  BY <1>1, <1>2, AppendToLog
<1>4. /\ channel \in Seq(1..n) /\ channel \in Seq(1..(n + 1))
      /\ DOMAIN channel = 1..Len(channel)
      /\ \A k \in DOMAIN channel : channel[k] \in 1..n
  BY <1>1, <1>2, LongerSeq DEF BrokerInv, BrokerType
<1>5. /\ got \in [Sockets -> SUBSET (1..n)] /\ due \in [Sockets -> SUBSET (1..n)]
      /\ current \in 0..n /\ left \subseteq registered
  BY <1>1 DEF BrokerInv, BrokerType
<1>6. CASE ~subscribed
  <2>1. channel' = channel /\ due' = due
    BY <1>6 DEF PublishArrives
  <2>2. BrokerType'
    BY <1>1, <1>2, <1>3, <1>4, <1>5, <2>1, MaxEventsIsNat DEF BrokerInv, BrokerType
  <2>3. SendingInv'
    BY <1>2, <1>3, <1>5, <2>1 DEF BrokerInv, SendingInv
  <2>4. OrderInv'
    BY <1>2, <2>1 DEF BrokerInv, OrderInv
  <2>5. DueInv'
    BY <1>2, <1>3, <1>5, <2>1 DEF BrokerInv, DueInv
  <2> QED BY <1>1, <1>3, <2>2, <2>3, <2>4, <2>5 DEF BrokerInv
<1>7. CASE subscribed
  <2>1. /\ channel' = Append(channel, n + 1)
        /\ due' = [s \in Sockets |-> IF s \in SocketsOf(e.to) THEN due[s] \cup {n + 1}
                                                             ELSE due[s]]
    BY <1>1, <1>7 DEF PublishArrives, Index
  <2>2. PICK c : c = Len(channel)
    OBVIOUS
  <2>3. /\ c \in Nat /\ channel' \in Seq(1..(n + 1)) /\ DOMAIN channel = 1..c
        /\ DOMAIN channel' = 1..(c + 1) /\ channel'[c + 1] = n + 1
        /\ \A k \in 1..c : channel'[k] = channel[k]
    <3>1. n + 1 \in 1..(n + 1)
      BY <1>2
    <3> QED BY <1>4, <2>1, <2>2, <3>1, AppendToLog
  <2>4. BrokerType'
    BY <1>1, <1>2, <1>3, <1>5, <1>7, <2>1, <2>3, MaxEventsIsNat DEF BrokerInv, BrokerType
  <2>5. SendingInv'
    <3>1. SUFFICES ASSUME left # {}
                   PROVE  /\ current # 0
                          /\ \A k \in 1..(c + 1) : current < channel'[k]
                          /\ \A s \in left : /\ Owner[s] \in log'[current].to
                                             /\ \A i \in got[s] : i < current
      BY <1>2, <2>3 DEF SendingInv
    <3>2. \A k \in 1..(c + 1) : current < channel'[k]
      <4> SUFFICES ASSUME NEW k \in 1..(c + 1) PROVE current < channel'[k]
        OBVIOUS
      <4>1. CASE k = c + 1
        BY <1>2, <1>5, <2>3, <4>1
      <4>2. CASE k \in 1..c
        BY <2>3, <3>1, <4>2 DEF BrokerInv, SendingInv
      <4> QED BY <2>3, <4>1, <4>2
    <3> QED BY <1>2, <1>3, <1>5, <3>1, <3>2 DEF BrokerInv, SendingInv
  <2>6. OrderInv'
    <3>1. \A j, k \in 1..(c + 1) : j < k => channel'[j] < channel'[k]
      <4> SUFFICES ASSUME NEW j \in 1..(c + 1), NEW k \in 1..(c + 1), j < k
                   PROVE  channel'[j] < channel'[k]
        OBVIOUS
      <4>1. j \in 1..c /\ channel'[j] = channel[j] /\ channel[j] \in 1..n
        BY <1>4, <2>3
      <4>2. CASE k = c + 1
        BY <1>2, <2>3, <4>1, <4>2
      <4>3. CASE k \in 1..c
        BY <2>3, <4>1, <4>3 DEF BrokerInv, OrderInv
      <4> QED BY <2>3, <4>2, <4>3
    <3>2. \A s \in Sockets : \A i \in got[s] : \A k \in 1..(c + 1) : i < channel'[k]
      <4> SUFFICES ASSUME NEW s \in Sockets, NEW i \in got[s], NEW k \in 1..(c + 1)
                   PROVE  i < channel'[k]
        OBVIOUS
      <4>1. i \in 1..n
        BY <1>5
      <4>2. CASE k = c + 1
        BY <1>2, <2>3, <4>1, <4>2
      <4>3. CASE k \in 1..c
        BY <2>3, <4>3 DEF BrokerInv, OrderInv
      <4> QED BY <2>3, <4>2, <4>3
    <3> QED BY <1>2, <2>3, <3>1, <3>2 DEF OrderInv
  <2>7. DueInv'
    <3> SUFFICES ASSUME NEW s \in Sockets, NEW i \in due'[s]
                 PROVE  /\ s \in registered /\ Owner[s] \in log'[i].to
                        /\ (i = current /\ s \in left) \/ (\E k \in 1..(c + 1) : channel'[k] = i)
      BY <1>2, <2>3 DEF DueInv
    <3>1. CASE i \in due[s]
      <4>1. i \in 1..n
        BY <1>5, <3>1
      <4>2. /\ s \in registered /\ Owner[s] \in log[i].to
            /\ (i = current /\ s \in left) \/ (\E k \in 1..c : channel[k] = i)
        BY <2>3, <3>1 DEF BrokerInv, DueInv
      <4> QED BY <1>3, <2>3, <4>1, <4>2
    <3>2. CASE i \notin due[s]
      <4>1. i = n + 1 /\ s \in SocketsOf(e.to)
        BY <2>1, <3>2
      <4> QED BY <1>3, <2>3, <4>1 DEF SocketsOf
    <3> QED BY <3>1, <3>2
  <2> QED BY <1>1, <1>3, <2>4, <2>5, <2>6, <2>7 DEF BrokerInv
<1> QED BY <1>6, <1>7 DEF BrokerInv, BrokerType

----------------------------------------------------------------------------
(* The listener, and connections that come and go *)

LEMMA ConnectStep ==
  ASSUME BrokerInv, NEW s \in Sockets, Connect(s)
  PROVE  BrokerInv'
BY DEF Connect, BrokerInv, BrokerType, SendingInv, OrderInv, DueInv

\* The listener need not send to s any more: it did, the send failed, or the
\* connection was closed.
LEMMA LeftShrinks ==
  ASSUME BrokerInv, NEW s \in Sockets, LeftIs(left \ {s}),
         UNCHANGED <<log, subscribed, channel>>,
         registered' = registered \/ registered' = registered \ {s},
         got' \in [Sockets -> SUBSET (1..Len(log))],
         due' \in [Sockets -> SUBSET (1..Len(log))],
         \A p \in Sockets \ {s} : got'[p] = got[p] /\ due'[p] = due[p],
         \A i \in got'[s] : \A k \in DOMAIN channel : i < channel[k],
         \A i \in due'[s] : s \in registered' /\ i \in due[s] /\ i # current
  PROVE  BrokerInv'
<1>1. /\ left' = left \ {s}
      /\ left' # {} => current' = current
      /\ left' = {} => current' = 0
  BY DEF LeftIs
<1>2. BrokerType'
  <2>1. left' \subseteq registered' /\ current' \in 0..Len(log)
    BY <1>1 DEF BrokerInv, BrokerType
  <2> QED BY <2>1 DEF BrokerInv, BrokerType
<1>3. SendingInv'
  <2>1. \A p \in left' : p \in left /\ got'[p] = got[p]
    BY <1>1 DEF BrokerInv, BrokerType
  <2> QED BY <1>1, <2>1 DEF BrokerInv, SendingInv
<1>4. OrderInv'
  <2> SUFFICES ASSUME NEW p \in Sockets, NEW i \in got'[p], NEW k \in DOMAIN channel
               PROVE  i < channel[k]
    BY DEF BrokerInv, OrderInv
  <2>1. CASE p = s
    BY <2>1
  <2>2. CASE p # s
    BY <2>2 DEF BrokerInv, OrderInv
  <2> QED BY <2>1, <2>2
<1>5. DueInv'
  <2> SUFFICES ASSUME NEW p \in Sockets, NEW i \in due'[p]
               PROVE  /\ p \in registered' /\ Owner[p] \in log[i].to
                      /\ (i = current' /\ p \in left') \/ (\E k \in DOMAIN channel : channel[k] = i)
    BY DEF DueInv
  <2>1. CASE p = s
    BY <2>1 DEF BrokerInv, DueInv
  <2>2. CASE p # s
    BY <1>1, <2>2 DEF BrokerInv, DueInv
  <2> QED BY <2>1, <2>2
<1> QED BY <1>2, <1>3, <1>4, <1>5 DEF BrokerInv

LEMMA DisconnectStep ==
  ASSUME BrokerInv, NEW s \in Sockets, Disconnect(s)
  PROVE  /\ BrokerInv' /\ registered' = registered \ {s} /\ log' = log
         /\ got' = [p \in Sockets |-> IF p \in {s} THEN {} ELSE got[p]]
<1>1. /\ registered' = registered \ {s} /\ LeftIs(left \ {s})
      /\ UNCHANGED <<log, subscribed, channel>>
  BY DEF Disconnect
<1>2. /\ got' = [p \in Sockets |-> IF p \in {s} THEN {} ELSE got[p]]
      /\ due' = [p \in Sockets |-> IF p \in {s} THEN {} ELSE due[p]]
  BY DEF Disconnect, BrokerInv, BrokerType
<1>3. /\ got' \in [Sockets -> SUBSET (1..Len(log))]
      /\ due' \in [Sockets -> SUBSET (1..Len(log))]
      /\ got'[s] = {} /\ due'[s] = {}
      /\ \A p \in Sockets \ {s} : got'[p] = got[p] /\ due'[p] = due[p]
  BY <1>2 DEF BrokerInv, BrokerType
<1>4. BrokerInv'
  BY <1>1, <1>3, LeftShrinks
<1> QED BY <1>1, <1>2, <1>4

\* What the listener does to s when it sends or fails to.
LEMMA SendsStep ==
  ASSUME BrokerInv, NEW s \in Sockets, Send(s) \/ SendFails(s)
  PROVE  /\ BrokerInv' /\ UNCHANGED <<registered, log>>
         /\ Owner[s] \in log[current].to /\ current \in 1..Len(log)
         /\ \A i \in got[s] : i < current
         /\ got' = got \/ got' = [got EXCEPT ![s] = @ \cup {current}]
<1>1. /\ s \in left /\ LeftIs(left \ {s})
      /\ UNCHANGED <<registered, log, subscribed, channel>>
      /\ due' = [due EXCEPT ![s] = @ \ {current}]
      /\ got' = got \/ got' = [got EXCEPT ![s] = @ \cup {current}]
  BY DEF Send, SendFails
<1>2. /\ current \in 1..Len(log) /\ \A k \in DOMAIN channel : current < channel[k]
      /\ Owner[s] \in log[current].to /\ \A i \in got[s] : i < current
  BY <1>1 DEF BrokerInv, BrokerType, SendingInv
<1>3. /\ got \in [Sockets -> SUBSET (1..Len(log))]
      /\ due \in [Sockets -> SUBSET (1..Len(log))]
  BY DEF BrokerInv, BrokerType
<1>4. /\ due' \in [Sockets -> SUBSET (1..Len(log))]
      /\ \A i \in due'[s] : i \in due[s] /\ i # current
      /\ \A p \in Sockets \ {s} : due'[p] = due[p]
  BY <1>1, <1>3
<1>5. /\ got' \in [Sockets -> SUBSET (1..Len(log))]
      /\ got'[s] \subseteq got[s] \cup {current}
      /\ \A p \in Sockets \ {s} : got'[p] = got[p]
  BY <1>1, <1>2, <1>3
<1>6. \A i \in got'[s] : \A k \in DOMAIN channel : i < channel[k]
  BY <1>2, <1>5 DEF BrokerInv, OrderInv
<1>7. \A i \in due'[s] : s \in registered'
  BY <1>1, <1>4 DEF BrokerInv, DueInv
<1>8. BrokerInv'
  BY <1>1, <1>4, <1>5, <1>6, <1>7, LeftShrinks
<1> QED BY <1>1, <1>2, <1>8

LEMMA TakeStep ==
  ASSUME BrokerInv, Take
  PROVE  BrokerInv' /\ UNCHANGED <<registered, log, got>>
<1>1. PICK n : n = Len(log)
  OBVIOUS
<1>2. PICK i : i = Head(channel)
  OBVIOUS
<1>3. PICK c : c = Len(channel)
  OBVIOUS
<1>4. /\ left = {} /\ channel # <<>> /\ channel' = Tail(channel)
      /\ left' = SocketsOf(log[i].to)
      /\ current' = IF left' = {} THEN 0 ELSE i
      /\ UNCHANGED <<registered, log, subscribed, got, due>>
  BY <1>2 DEF Take, TakesFor
<1>5. channel \in Seq(1..n) /\ n \in Nat
  BY <1>1 DEF BrokerInv, BrokerType
<1>6. /\ c \in Nat \ {0} /\ i = channel[1] /\ i \in 1..n
      /\ DOMAIN channel = 1..c /\ channel' \in Seq(1..n) /\ DOMAIN channel' = 1..(c - 1)
      /\ \A k \in 1..(c - 1) : channel'[k] = channel[k + 1] /\ k + 1 \in 1..c
  BY <1>2, <1>3, <1>4, <1>5
<1>7. BrokerType'
  <2>1. left' \subseteq registered
    BY <1>4 DEF SocketsOf
  <2>2. current' \in 0..n
    BY <1>4, <1>5, <1>6
  <2> QED BY <1>1, <1>4, <1>5, <1>6, <2>1, <2>2 DEF BrokerInv, BrokerType
<1>8. \A k \in 1..(c - 1) : i < channel'[k]
  BY <1>6 DEF BrokerInv, OrderInv
<1>9. SendingInv'
  <2> SUFFICES ASSUME left' # {}
               PROVE  /\ i # 0
                      /\ \A k \in 1..(c - 1) : i < channel'[k]
                      /\ \A s \in left' : Owner[s] \in log[i].to /\ \A j \in got[s] : j < i
    BY <1>4, <1>6 DEF SendingInv
  <2>1. \A s \in left' : s \in Sockets /\ Owner[s] \in log[i].to
    BY <1>4 DEF SocketsOf, BrokerInv, BrokerType
  <2>2. \A s \in Sockets : \A j \in got[s] : j < i
    BY <1>6 DEF BrokerInv, OrderInv
  <2> QED BY <1>6, <1>8, <2>1, <2>2
<1>10. OrderInv'
  <2>1. \A j, k \in 1..(c - 1) : j < k => channel'[j] < channel'[k]
    <3> SUFFICES ASSUME NEW j \in 1..(c - 1), NEW k \in 1..(c - 1), j < k
                 PROVE  channel'[j] < channel'[k]
      OBVIOUS
    <3>1. j + 1 \in 1..c /\ k + 1 \in 1..c /\ j + 1 < k + 1
      BY <1>6
    <3>2. channel[j + 1] < channel[k + 1]
      BY <1>6, <3>1 DEF BrokerInv, OrderInv
    <3> QED BY <1>6, <3>2
  <2>2. \A s \in Sockets : \A j \in got[s] : \A k \in 1..(c - 1) : j < channel'[k]
    BY <1>6 DEF BrokerInv, OrderInv
  <2> QED BY <1>4, <1>6, <2>1, <2>2 DEF OrderInv
<1>11. DueInv'
  <2> SUFFICES ASSUME NEW s \in Sockets, NEW j \in due[s]
               PROVE  /\ s \in registered /\ Owner[s] \in log[j].to
                      /\ \/ j = current' /\ s \in left'
                         \/ \E k \in 1..(c - 1) : channel'[k] = j
    BY <1>4, <1>6 DEF DueInv
  <2>1. s \in registered /\ Owner[s] \in log[j].to /\ \E k \in 1..c : channel[k] = j
    BY <1>4, <1>6 DEF BrokerInv, DueInv
  <2>2. PICK k \in 1..c : channel[k] = j
    BY <2>1
  <2>3. CASE k = 1
    <3>1. j = i /\ s \in left'
      BY <1>4, <1>6, <2>1, <2>2, <2>3 DEF SocketsOf
    <3> QED BY <1>4, <2>1, <3>1
  <2>4. CASE k # 1
    <3>1. k - 1 \in 1..(c - 1) /\ channel'[k - 1] = j
      BY <1>6, <2>2, <2>4
    <3> QED BY <2>1, <3>1
  <2> QED BY <2>3, <2>4
<1> QED BY <1>4, <1>7, <1>9, <1>10, <1>11 DEF BrokerInv

LEMMA LoseSubscriptionStep ==
  ASSUME BrokerInv, LoseSubscription
  PROVE  BrokerInv' /\ UNCHANGED <<registered, log, got>>
<1>1. /\ subscribed' = FALSE /\ channel' = <<>>
      /\ due' = [s \in Sockets |-> IF s \in left THEN due[s] \cap {current} ELSE {}]
      /\ UNCHANGED <<registered, log, current, left, got>>
  BY DEF LoseSubscription
<1>2. BrokerType'
  <2>1. due' \in [Sockets -> SUBSET (1..Len(log))]
    BY <1>1 DEF BrokerInv, BrokerType
  <2>2. channel' \in Seq(1..Len(log)) /\ channel' = <<>>
    BY <1>1
  <2> QED BY <1>1, <2>1, <2>2 DEF BrokerInv, BrokerType
<1>3. DOMAIN channel' = {}
  BY <1>1
<1>4. SendingInv' /\ OrderInv'
  BY <1>1, <1>3 DEF BrokerInv, SendingInv, OrderInv
<1>5. DueInv'
  BY <1>1 DEF BrokerInv, DueInv
<1> QED BY <1>1, <1>2, <1>4, <1>5 DEF BrokerInv

LEMMA SubscribeStep ==
  ASSUME BrokerInv, Subscribe
  PROVE  BrokerInv' /\ UNCHANGED <<registered, log, got>>
<1>1. /\ subscribed' = TRUE
      /\ UNCHANGED <<registered, log, channel, current, left, got, due>>
  BY DEF Subscribe
<1> QED BY <1>1 DEF BrokerInv, BrokerType, SendingInv, OrderInv, DueInv

LEMMA RestartStep ==
  ASSUME BrokerInv, Restart
  PROVE  /\ BrokerInv' /\ registered' = {} /\ log' = log
         /\ got' = [s \in Sockets |-> {}]
<1>1. /\ registered' = {} /\ subscribed' = FALSE /\ channel' = <<>> /\ left' = {}
      /\ current' = 0 /\ log' = log
      /\ got' = [s \in Sockets |-> {}] /\ due' = [s \in Sockets |-> {}]
  BY DEF Restart, LeftIs
<1>2. BrokerType'
  <2>1. got' \in [Sockets -> SUBSET (1..Len(log))] /\ due' \in [Sockets -> SUBSET (1..Len(log))]
    BY <1>1
  <2>2. channel' \in Seq(1..Len(log)) /\ current' \in 0..Len(log)
    BY <1>1 DEF BrokerInv, BrokerType
  <2> QED BY <1>1, <2>1, <2>2 DEF BrokerInv, BrokerType
<1>3. DOMAIN channel' = {}
  BY <1>1
<1>4. SendingInv' /\ OrderInv' /\ DueInv'
  BY <1>1, <1>3 DEF SendingInv, OrderInv, DueInv
<1> QED BY <1>1, <1>2, <1>4 DEF BrokerInv

LEMMA BrokerIdle ==
  ASSUME BrokerInv, UNCHANGED brokerVars
  PROVE  BrokerInv'
BY DEF brokerVars, BrokerInv, BrokerType, SendingInv, OrderInv, DueInv

----------------------------------------------------------------------------
(* The inductive invariant of the handlers *)

SocketType ==
  /\ online \subseteq Users /\ unsaid \subseteq Users /\ muddled \subseteq Users
  /\ socket \in [Sockets -> Socket]
  /\ \A s \in Sockets :
       /\ socket[s].phase = "free" => socket[s] = Free
       /\ socket[s].phase = "open" => s \in registered
       /\ s \in registered => socket[s].phase # "free"
       /\ socket[s].phase \in {"write", "announce"} =>
            socket[s].wanted \in (IF s \in registered THEN {"online", "offline"}
                                                       ELSE {"offline"})

\* A user who is online has a connection, or a last word to be written.
HereInv(u) ==
  u \in online =>
    \/ u \in unsaid
    \/ \E s \in Sockets : Owner[s] = u /\ (s \in registered \/ socket[s].phase = "write")

\* While one handler announces what it wrote, this is what the table says;
\* when none does, the contacts were told what the table says.
WordInv(u) ==
  u \notin muddled =>
    /\ \A s \in Announces(u) :
         Announces(u) = {s} /\ (socket[s].wanted = "online" <=> u \in online)
    /\ Announces(u) = {} => (ToldOnline(u) <=> u \in online)

IInv ==
  /\ BrokerInv
  /\ SocketType
  /\ \A u \in Users : HereInv(u) /\ WordInv(u)

LEMMA TypeParts == TypeOK <=> BrokerType /\ SocketType
BY DEF TypeOK, BrokerType, SocketType

LEMMA FreeIsSocket ==
  Free \in Socket /\ Free.phase = "free" /\ Free.reported = "nothing" /\ Free.wanted = "nothing"
BY DEF Free, Socket

LEMMA OwnerType == \A s \in Sockets : Owner[s] \in Users
BY OwnerIsUser

LEMMA IInvInit == Init => IInv
<1> SUFFICES ASSUME Init PROVE IInv
  OBVIOUS
<1>1. BrokerInv
  BY BrokerInitInv DEF Init
<1>2. \A s \in Sockets : socket[s] = Free
  BY DEF Init
<1>3. SocketType
  BY <1>2, FreeIsSocket DEF Init, SocketType, BrokerInit
<1>4. ASSUME NEW u \in Users PROVE HereInv(u) /\ WordInv(u)
  <2>1. Announces(u) = {}
    BY <1>2, FreeIsSocket DEF Announces
  <2>2. ~ToldOnline(u)
    BY DEF Init, BrokerInit, ToldOnline
  <2> QED BY <2>1, <2>2 DEF Init, HereInv, WordInv
<1> QED BY <1>1, <1>3, <1>4 DEF IInv

----------------------------------------------------------------------------
(* What contacts were told *)

LEMMA ToldSame ==
  ASSUME log' = log, NEW u
  PROVE  ToldOnline(u)' <=> ToldOnline(u)
BY DEF ToldOnline

LEMMA ToldMore ==
  ASSUME BrokerInv, NEW e \in Event, PublishArrives(e), NEW u \in Users
  PROVE  /\ e.about = u => (ToldOnline(u)' <=> e.online)
         /\ e.about # u => (ToldOnline(u)' <=> ToldOnline(u))
<1>1. PICK n : n = Len(log)
  OBVIOUS
<1>2. /\ BrokerInv' /\ Len(log') = n + 1 /\ log'[n + 1] = e
      /\ \A i \in 1..n : log'[i] = log[i]
  BY <1>1, PublishStep
<1>3. n \in Nat /\ DOMAIN log = 1..n /\ DOMAIN log' = 1..(n + 1)
  BY <1>1, <1>2 DEF BrokerInv, BrokerType
<1>4. CASE e.about = u
  <2>1. ASSUME NEW i \in 1..(n + 1), \A j \in 1..(n + 1) : j > i => log'[j].about # u
        PROVE  i = n + 1
    <3> SUFFICES ASSUME i # n + 1 PROVE FALSE
      OBVIOUS
    <3>1. n + 1 \in 1..(n + 1) /\ n + 1 > i
      BY <1>3
    <3> QED BY <1>2, <1>4, <2>1, <3>1
  <2>2. \A j \in 1..(n + 1) : ~(j > n + 1)
    BY <1>3
  <2>3. ToldOnline(u)' => e.online
    BY <1>2, <1>3, <2>1 DEF ToldOnline
  <2>4. e.online => ToldOnline(u)'
    <3>1. n + 1 \in 1..(n + 1)
      BY <1>3
    <3> QED BY <1>2, <1>3, <1>4, <2>2, <3>1 DEF ToldOnline
  <2> QED BY <1>4, <2>3, <2>4
<1>5. CASE e.about # u
  <2>1. ASSUME ToldOnline(u)' PROVE ToldOnline(u)
    <3>1. PICK i \in 1..(n + 1) :
            /\ log'[i].about = u /\ log'[i].online
            /\ \A j \in 1..(n + 1) : j > i => log'[j].about # u
      BY <1>3, <2>1 DEF ToldOnline
    <3>2. i \in 1..n
      BY <1>2, <1>3, <1>5, <3>1
    <3>3. \A j \in 1..n : j > i => log[j].about # u
      BY <1>2, <1>3, <3>1
    <3> QED BY <1>2, <1>3, <3>1, <3>2, <3>3 DEF ToldOnline
  <2>2. ASSUME ToldOnline(u) PROVE ToldOnline(u)'
    <3>1. PICK i \in 1..n :
            /\ log[i].about = u /\ log[i].online
            /\ \A j \in 1..n : j > i => log[j].about # u
      BY <1>3, <2>2 DEF ToldOnline
    <3>2. i \in 1..(n + 1)
      BY <1>3
    <3>3. ASSUME NEW j \in 1..(n + 1), j > i PROVE log'[j].about # u
      <4>1. CASE j = n + 1
        BY <1>2, <1>5, <4>1
      <4>2. CASE j # n + 1
        <5>1. j \in 1..n
          BY <1>3, <4>2
        <5> QED BY <1>2, <3>1, <3>3, <5>1
      <4> QED BY <4>1, <4>2
    <3> QED BY <1>2, <1>3, <3>1, <3>2, <3>3 DEF ToldOnline
  <2> QED BY <1>5, <2>1, <2>2
<1> QED BY <1>4, <1>5

----------------------------------------------------------------------------
(* Steps of one handler *)

\* The handler of s becomes q; of other users nothing changes.
Becomes(s, q) ==
  /\ q \in Socket /\ socket' = [socket EXCEPT ![s] = q]
  /\ \A p \in Sockets \ {s} : p \in registered' <=> p \in registered
  /\ online' \subseteq Users /\ unsaid' \subseteq Users /\ muddled' \subseteq Users
  /\ \A v \in Users \ {Owner[s]} :
       /\ v \in online' <=> v \in online
       /\ v \in unsaid' <=> v \in unsaid
       /\ v \in muddled' <=> v \in muddled
       /\ ToldOnline(v)' <=> ToldOnline(v)

\* A handler that is q fits the connections that are registered then.
Fits(s, q) ==
  /\ q.phase = "free" => q = Free
  /\ q.phase = "open" => s \in registered'
  /\ s \in registered' => q.phase # "free"
  /\ q.phase \in {"write", "announce"} =>
       q.wanted \in (IF s \in registered' THEN {"online", "offline"} ELSE {"offline"})

LEMMA HandlerStep ==
  ASSUME IInv, NEW s \in Sockets, NEW q, Becomes(s, q), Fits(s, q), BrokerInv',
         HereInv(Owner[s])', WordInv(Owner[s])'
  PROVE  IInv'
<1>1. /\ q \in Socket /\ socket' \in [Sockets -> Socket] /\ socket'[s] = q
      /\ \A p \in Sockets \ {s} : socket'[p] = socket[p]
  BY DEF Becomes, IInv, SocketType
<1>2. SocketType'
  <2> SUFFICES ASSUME NEW p \in Sockets
               PROVE  /\ socket'[p].phase = "free" => socket'[p] = Free
                      /\ socket'[p].phase = "open" => p \in registered'
                      /\ p \in registered' => socket'[p].phase # "free"
                      /\ socket'[p].phase \in {"write", "announce"} =>
                           socket'[p].wanted \in (IF p \in registered'
                                                    THEN {"online", "offline"} ELSE {"offline"})
    BY <1>1 DEF SocketType, Becomes
  <2>1. CASE p = s
    BY <1>1, <2>1 DEF Fits
  <2>2. CASE p # s
    BY <1>1, <2>2 DEF IInv, SocketType, Becomes
  <2> QED BY <2>1, <2>2
<1>3. ASSUME NEW v \in Users, v # Owner[s] PROVE HereInv(v)' /\ WordInv(v)'
  <2>1. HereInv(v) /\ WordInv(v)
    BY DEF IInv
  <2>2. \A p \in Sockets : Owner[p] = v => p # s
    BY <1>3
  <2>3. Announces(v)' = Announces(v)
    BY <1>1, <2>2 DEF Announces
  <2>4. HereInv(v)'
    BY <1>1, <1>3, <2>1, <2>2 DEF HereInv, Becomes
  <2>5. \A p \in Announces(v) : socket'[p] = socket[p]
    BY <1>1, <2>2 DEF Announces
  <2>6. WordInv(v)'
    BY <1>3, <2>1, <2>3, <2>5 DEF WordInv, Becomes
  <2> QED BY <2>4, <2>6
<1> QED BY <1>2, <1>3, OwnerType DEF IInv

\* What was said stays true when the handler of s neither announced nor is
\* about to.
LEMMA WordKept ==
  ASSUME IInv, NEW s \in Sockets, NEW q, socket' = [socket EXCEPT ![s] = q],
         socket[s].phase # "announce", q.phase # "announce",
         UNCHANGED <<log, online, muddled>>
  PROVE  WordInv(Owner[s])'
<1>1. /\ \A p \in Sockets \ {s} : socket'[p] = socket[p]
      /\ socket'[s] = q
  BY DEF IInv, SocketType
<1>2. Announces(Owner[s])' = Announces(Owner[s]) /\ s \notin Announces(Owner[s])
  BY <1>1 DEF Announces
<1>3. WordInv(Owner[s])
  BY OwnerType DEF IInv
<1>4. \A p \in Announces(Owner[s]) : socket'[p] = socket[p]
  BY <1>1, <1>2 DEF Announces
<1>5. ToldOnline(Owner[s])' <=> ToldOnline(Owner[s])
  BY ToldSame
<1> QED BY <1>2, <1>3, <1>4, <1>5 DEF WordInv

LEMMA EnterStep ==
  ASSUME IInv, NEW s \in Sockets, Enter(s)
  PROVE  IInv'
<1>1. PICK q : q = [socket[s] EXCEPT !.phase = "open"]
  OBVIOUS
<1>2. /\ socket[s].phase = "free" /\ socket' = [socket EXCEPT ![s] = q]
      /\ registered' = registered \cup {s} /\ log' = log
      /\ UNCHANGED <<online, unsaid, muddled>>
  BY <1>1 DEF Enter, Goto, Connect
<1>3. q \in Socket /\ q.phase = "open" /\ socket'[s] = q
  BY <1>1, <1>2 DEF IInv, SocketType, Socket
<1>4. BrokerInv'
  BY ConnectStep DEF IInv, Enter
<1>5. Becomes(s, q) /\ Fits(s, q)
  BY <1>2, <1>3, ToldSame DEF Becomes, Fits, IInv, SocketType
<1>6. HereInv(Owner[s])'
  BY <1>2 DEF HereInv
<1>7. WordInv(Owner[s])'
  BY <1>2, <1>3, WordKept
<1> QED BY <1>4, <1>5, <1>6, <1>7, HandlerStep

LEMMA ReportStep ==
  ASSUME IInv, NEW s \in Sockets, NEW v \in {"online", "offline"}, Report(s, v)
  PROVE  IInv'
<1>1. PICK q : q = [socket[s] EXCEPT !.phase = "write", !.wanted = v]
  OBVIOUS
<1>2. /\ socket[s].phase = "open" /\ socket' = [socket EXCEPT ![s] = q]
      /\ UNCHANGED brokerVars /\ UNCHANGED <<online, unsaid, muddled>>
  BY <1>1 DEF Report
<1>3. q \in Socket /\ q.phase = "write" /\ q.wanted = v /\ s \in registered
  BY <1>1, <1>2 DEF IInv, SocketType, Socket
<1>4. BrokerInv' /\ registered' = registered /\ log' = log
  BY <1>2, BrokerIdle DEF IInv, brokerVars
<1>5. Becomes(s, q) /\ Fits(s, q)
  BY <1>2, <1>3, <1>4, ToldSame DEF Becomes, Fits, IInv, SocketType
<1>6. HereInv(Owner[s])'
  BY <1>3, <1>4 DEF HereInv
<1>7. WordInv(Owner[s])'
  BY <1>2, <1>3, <1>4, WordKept
<1> QED BY <1>4, <1>5, <1>6, <1>7, HandlerStep

LEMMA WriteStep ==
  ASSUME IInv, NEW s \in Sockets, Write(s)
  PROVE  IInv'
<1>1. PICK q : q = [socket[s] EXCEPT !.phase = "announce"]
  OBVIOUS
<1>2. PICK u : u = Owner[s]
  OBVIOUS
<1>3. /\ socket[s].phase = "write" /\ socket' = [socket EXCEPT ![s] = q]
      /\ online' = (IF socket[s].wanted = "online" THEN online \cup {u} ELSE online \ {u})
      /\ unsaid' = unsaid \ {u}
      /\ muddled' = (IF Announces(u) = {} THEN muddled \ {u} ELSE muddled \cup {u})
      /\ UNCHANGED brokerVars
  BY <1>1, <1>2 DEF Write, Goto
<1>4. /\ u \in Users /\ q \in Socket /\ q.phase = "announce" /\ q.wanted = socket[s].wanted
      /\ socket'[s] = q /\ \A p \in Sockets \ {s} : socket'[p] = socket[p]
      /\ q.wanted \in (IF s \in registered THEN {"online", "offline"} ELSE {"offline"})
  BY <1>1, <1>2, <1>3, OwnerType DEF IInv, SocketType, Socket
<1>5. BrokerInv' /\ registered' = registered /\ log' = log
  BY <1>3, BrokerIdle DEF IInv, brokerVars
<1>6. Becomes(s, q)
  <2>1. online' \subseteq Users /\ unsaid' \subseteq Users /\ muddled' \subseteq Users
    BY <1>3, <1>4 DEF IInv, SocketType
  <2>2. \A v \in Users \ {u} :
          /\ v \in online' <=> v \in online
          /\ v \in unsaid' <=> v \in unsaid
          /\ v \in muddled' <=> v \in muddled
    BY <1>3
  <2> QED BY <1>2, <1>3, <1>4, <1>5, <2>1, <2>2, ToldSame DEF Becomes
<1>7. Fits(s, q)
  BY <1>4, <1>5 DEF Fits
<1>8. HereInv(u)'
  <2>1. u \in online' => s \in registered
    BY <1>3, <1>4
  <2> QED BY <1>2, <1>5, <2>1 DEF HereInv
<1>9. WordInv(u)'
  <2> SUFFICES ASSUME u \notin muddled' PROVE WordInv(u)'
    BY DEF WordInv
  <2>1. Announces(u) = {}
    BY <1>3
  <2>2. Announces(u)' = {s}
    BY <1>2, <1>4, <2>1 DEF Announces
  <2>3. socket'[s].wanted = "online" <=> u \in online'
    BY <1>3, <1>4
  <2> QED BY <2>2, <2>3 DEF WordInv
<1> QED BY <1>2, <1>5, <1>6, <1>7, <1>8, <1>9, HandlerStep

\* After the publication the handler is open or gone, and a connection that
\* is no more does not vouch for its user.
LEMMA AnnouncedSlot ==
  ASSUME IInv, NEW s \in Sockets, socket[s].phase = "announce", Announced(s),
         UNCHANGED <<registered, online, unsaid>>
  PROVE  \E q \in Socket :
           /\ socket' = [socket EXCEPT ![s] = q] /\ Fits(s, q)
           /\ q.phase # "announce"
           /\ HereInv(Owner[s])'
<1>1. PICK q : q = IF s \in registered
                     THEN [phase |-> "open", reported |-> socket[s].wanted, wanted |-> "nothing"]
                     ELSE Free
  OBVIOUS
<1>2. socket[s] \in Socket /\ socket' = [socket EXCEPT ![s] = q]
  BY <1>1 DEF Announced, IInv, SocketType
<1>3. q \in Socket /\ Fits(s, q) /\ q.phase # "announce"
  <2>1. CASE s \in registered
    <3>1. q = [phase |-> "open", reported |-> socket[s].wanted, wanted |-> "nothing"]
      BY <1>1, <2>1
    <3>2. q \in Socket /\ q.phase = "open"
      BY <1>2, <3>1 DEF Socket
    <3> QED BY <2>1, <3>2 DEF Fits
  <2>2. CASE s \notin registered
    BY <1>1, <2>2, FreeIsSocket DEF Fits
  <2> QED BY <2>1, <2>2
<1>4. HereInv(Owner[s])'
  <2>1. HereInv(Owner[s]) /\ \A p \in Sockets \ {s} : socket'[p] = socket[p]
    BY <1>2, OwnerType DEF IInv, SocketType
  <2> QED BY <2>1 DEF HereInv
<1> QED BY <1>2, <1>3, <1>4

LEMMA AnnounceStep ==
  ASSUME IInv, NEW s \in Sockets, Announce(s)
  PROVE  IInv'
<1>1. PICK u : u = Owner[s]
  OBVIOUS
<1>2. PICK e : e = [to |-> Contacts[u], about |-> u, online |-> socket[s].wanted = "online"]
  OBVIOUS
<1>3. /\ socket[s].phase = "announce" /\ PublishArrives(e) /\ Announced(s)
      /\ UNCHANGED <<online, unsaid, muddled>>
  BY <1>1, <1>2 DEF Announce
<1>4. /\ u \in Users /\ e \in Event /\ e.about = u
      /\ e.online <=> socket[s].wanted = "online"
  <2>1. u \in Users /\ Contacts[u] \in SUBSET Users
    BY <1>1, OwnerType, ContactsAreUsers
  <2>2. e.to # {} /\ e.to = Contacts[u] /\ e.about = u
    BY <1>2, <1>3 DEF PublishArrives
  <2>3. (socket[s].wanted = "online") \in BOOLEAN
    OBVIOUS
  <2> QED BY <1>2, <2>1, <2>2, <2>3 DEF Event
<1>5. BrokerInv' /\ registered' = registered
  BY <1>3, <1>4, PublishStep DEF IInv, PublishArrives
<1>6. PICK q \in Socket :
        /\ socket' = [socket EXCEPT ![s] = q] /\ Fits(s, q) /\ q.phase # "announce"
        /\ HereInv(u)'
  BY <1>1, <1>3, <1>5, AnnouncedSlot
<1>7. /\ ToldOnline(u)' <=> socket[s].wanted = "online"
      /\ \A v \in Users \ {u} : ToldOnline(v)' <=> ToldOnline(v)
  BY <1>3, <1>4, ToldMore DEF IInv
<1>8. Becomes(s, q)
  BY <1>1, <1>3, <1>5, <1>6, <1>7 DEF Becomes, IInv, SocketType
<1>9. WordInv(u)'
  <2> SUFFICES ASSUME u \notin muddled PROVE WordInv(u)'
    BY <1>3 DEF WordInv
  <2>1. s \in Announces(u) /\ WordInv(u)
    BY <1>1, <1>3, <1>4 DEF Announces, IInv
  <2>2. Announces(u) = {s} /\ (socket[s].wanted = "online" <=> u \in online)
    BY <2>1 DEF WordInv
  <2>3. /\ socket'[s] = q
        /\ \A p \in Sockets \ {s} : socket'[p] = socket[p]
    BY <1>6 DEF IInv, SocketType
  <2>4. Announces(u)' = {}
    BY <1>6, <2>2, <2>3 DEF Announces
  <2> QED BY <1>3, <1>7, <2>2, <2>4 DEF WordInv
<1> QED BY <1>1, <1>5, <1>6, <1>8, <1>9, HandlerStep

LEMMA AnnounceNothingStep ==
  ASSUME IInv, NEW s \in Sockets, AnnounceNothing(s)
  PROVE  IInv'
<1>1. /\ socket[s].phase = "announce" /\ UNCHANGED brokerVars /\ Announced(s)
      /\ muddled' = muddled \cup {Owner[s]} /\ UNCHANGED <<online, unsaid>>
  BY DEF AnnounceNothing, PublishesNothing
<1>2. BrokerInv' /\ registered' = registered /\ log' = log
  BY <1>1, BrokerIdle DEF IInv, brokerVars
<1>3. PICK q \in Socket :
        /\ socket' = [socket EXCEPT ![s] = q] /\ Fits(s, q) /\ q.phase # "announce"
        /\ HereInv(Owner[s])'
  BY <1>1, <1>2, AnnouncedSlot
<1>4. Becomes(s, q)
  BY <1>1, <1>2, <1>3, ToldSame, OwnerType DEF Becomes, IInv, SocketType
<1>5. WordInv(Owner[s])'
  BY <1>1 DEF WordInv
<1> QED BY <1>2, <1>3, <1>4, <1>5, HandlerStep

\* The end of a connection leaves its user with another one, with a last word
\* to come, offline, or among the unsaid.
LEMMA LeavesSlot ==
  ASSUME IInv, NEW s \in Sockets, s \in registered, Leaves(s), UNCHANGED online
  PROVE  /\ BrokerInv' /\ registered' = registered \ {s} /\ log' = log
         /\ unsaid' \subseteq unsaid \cup {Owner[s]} /\ unsaid \subseteq unsaid'
         /\ \E q \in Socket :
              /\ socket' = [socket EXCEPT ![s] = q] /\ Fits(s, q)
              /\ q.phase # "announce"
         /\ HereInv(Owner[s])'
<1>1. BrokerInv' /\ registered' = registered \ {s} /\ log' = log
  BY DisconnectStep DEF Leaves, IInv
<1>2. unsaid' \subseteq unsaid \cup {Owner[s]} /\ unsaid \subseteq unsaid'
  BY DEF Leaves
<1>3. PICK q : q = IF SaysFarewell(s) THEN [Free EXCEPT !.phase = "write", !.wanted = "offline"]
                                      ELSE Free
  OBVIOUS
<1>4. socket' = [socket EXCEPT ![s] = q]
  BY <1>3 DEF Leaves
<1>5. SaysFarewell(s) => q \in Socket /\ q.phase = "write" /\ q.wanted = "offline"
  BY <1>3, FreeIsSocket DEF Socket
<1>6. ~SaysFarewell(s) => q = Free
  BY <1>3
<1>7. q \in Socket /\ Fits(s, q) /\ q.phase # "announce"
  BY <1>1, <1>5, <1>6, FreeIsSocket DEF Fits
<1>8. HereInv(Owner[s])'
  <2>1. /\ socket'[s] = q
        /\ \A p \in Sockets \ {s} : socket'[p] = socket[p]
    BY <1>4 DEF IInv, SocketType
  <2>2. CASE SaysFarewell(s)
    BY <1>5, <2>1, <2>2 DEF HereInv
  <2>3. CASE ~IsLast(s)
    <3>1. s \in SocketsOf({Owner[s]})
      BY DEF SocketsOf
    <3>2. PICK p \in registered : p # s /\ Owner[p] = Owner[s]
      BY <2>3, <3>1 DEF IsLast, SocketsOf
    <3>3. p \in Sockets /\ p \in registered'
      BY <1>1, <3>2 DEF IInv, BrokerInv, BrokerType
    <3> QED BY <3>2, <3>3 DEF HereInv
  <2>4. CASE IsLast(s) /\ ~SaysFarewell(s)
    <3>1. unsaid' = unsaid \cup ({Owner[s]} \cap online)
      BY <2>4 DEF Leaves, SaysFarewell
    <3> QED BY <3>1 DEF HereInv
  <2> QED BY <2>2, <2>3, <2>4
<1> QED BY <1>1, <1>2, <1>4, <1>7, <1>8

LEMMA LeaveStep ==
  ASSUME IInv, NEW s \in Sockets, Leave(s)
  PROVE  IInv'
<1>1. /\ socket[s].phase = "open" /\ Leaves(s) /\ UNCHANGED <<online, muddled>>
      /\ s \in registered
  BY DEF Leave, IInv, SocketType
<1>2. /\ BrokerInv' /\ registered' = registered \ {s} /\ log' = log
      /\ unsaid' \subseteq unsaid \cup {Owner[s]} /\ unsaid \subseteq unsaid'
      /\ HereInv(Owner[s])'
  BY <1>1, LeavesSlot
<1>3. PICK q \in Socket :
        /\ socket' = [socket EXCEPT ![s] = q] /\ Fits(s, q) /\ q.phase # "announce"
  BY <1>1, LeavesSlot
<1>4. Becomes(s, q)
  BY <1>1, <1>2, <1>3, ToldSame, OwnerType DEF Becomes, IInv, SocketType
<1>5. WordInv(Owner[s])'
  BY <1>1, <1>2, <1>3, WordKept
<1> QED BY <1>2, <1>3, <1>4, <1>5, HandlerStep

LEMMA FailStep ==
  ASSUME IInv, NEW s \in Sockets, Fail(s)
  PROVE  IInv'
<1>1. PICK u : u = Owner[s]
  OBVIOUS
<1>2. /\ u \in Users /\ socket[s].phase \in {"write", "announce"} /\ online' = online
      /\ muddled' = (IF socket[s].phase = "announce" THEN muddled \cup {u} ELSE muddled)
  BY <1>1, OwnerType DEF Fail
<1>3. /\ BrokerInv' /\ registered' \in {registered, registered \ {s}} /\ log' = log
      /\ unsaid' \subseteq unsaid \cup {u} /\ unsaid \subseteq unsaid'
      /\ \E q \in Socket :
           /\ socket' = [socket EXCEPT ![s] = q] /\ Fits(s, q)
           /\ q.phase # "announce"
      /\ HereInv(u)'
  <2>1. CASE s \in registered
    <3>1. Leaves(s)
      BY <2>1 DEF Fail
    <3> QED BY <1>1, <1>2, <2>1, <3>1, LeavesSlot
  <2>2. CASE s \notin registered
    <3>1. /\ socket' = [socket EXCEPT ![s] = Free] /\ unsaid' = unsaid \cup ({u} \cap online)
          /\ UNCHANGED brokerVars
      BY <1>1, <2>2 DEF Fail
    <3>2. BrokerInv' /\ registered' = registered /\ log' = log
      BY <3>1, BrokerIdle DEF IInv, brokerVars
    <3>3. Fits(s, Free)
      BY <2>2, <3>2, FreeIsSocket DEF Fits
    <3>4. HereInv(u)'
      BY <1>2, <3>1 DEF HereInv
    <3> QED BY <3>1, <3>2, <3>3, <3>4, FreeIsSocket
  <2> QED BY <2>1, <2>2
<1>4. PICK q \in Socket :
        /\ socket' = [socket EXCEPT ![s] = q] /\ Fits(s, q) /\ q.phase # "announce"
  BY <1>3
<1>5. Becomes(s, q)
  <2>1. muddled' \subseteq Users /\ unsaid' \subseteq Users /\ online' \subseteq Users
    BY <1>2, <1>3 DEF IInv, SocketType
  <2> QED BY <1>1, <1>2, <1>3, <1>4, <2>1, ToldSame DEF Becomes
<1>6. WordInv(u)'
  <2>1. CASE socket[s].phase = "announce"
    BY <1>2, <2>1 DEF WordInv
  <2>2. CASE socket[s].phase = "write"
    BY <1>1, <1>2, <1>3, <1>4, <2>2, WordKept
  <2> QED BY <1>2, <2>1, <2>2
<1> QED BY <1>1, <1>3, <1>4, <1>5, <1>6, HandlerStep

----------------------------------------------------------------------------
(* Steps of the listener, of other routers, and crashes *)

\* Nothing changes for the handlers.
LEMMA HandlersKeep ==
  ASSUME IInv, BrokerInv', registered' = registered,
         UNCHANGED <<online, socket, unsaid, muddled>>,
         \A u \in Users : ToldOnline(u)' <=> ToldOnline(u)
  PROVE  IInv'
<1>1. SocketType'
  BY DEF IInv, SocketType
<1>2. ASSUME NEW u \in Users PROVE HereInv(u)' /\ WordInv(u)'
  <2>1. Announces(u)' = Announces(u)
    BY DEF Announces
  <2>2. HereInv(u) /\ WordInv(u)
    BY DEF IInv
  <2> QED BY <2>1, <2>2 DEF HereInv, WordInv
<1> QED BY <1>1, <1>2 DEF IInv

LEMMA PublishOtherStep ==
  ASSUME IInv, NEW users \in Audiences, PublishOther(users)
  PROVE  IInv' /\ [Feed!Next]_<<log, got>>
<1>1. PICK e : e = [to |-> users, about |-> NoUser, online |-> FALSE]
  OBVIOUS
<1>2. PublishArrives(e) /\ UNCHANGED <<online, socket, unsaid, muddled>>
  BY <1>1 DEF PublishOther
<1>3. e.to = users /\ e.to # {} /\ e.about = NoUser
  BY <1>1, <1>2 DEF PublishArrives
<1>4. e \in Event
  BY <1>1, <1>3, AudiencesAreUsers DEF Event
<1>5. \A u \in Users : ToldOnline(u)' <=> ToldOnline(u)
  BY <1>2, <1>3, <1>4, ToldMore, NoUserIsNobody DEF IInv
<1>6. BrokerInv' /\ registered' = registered
  BY <1>2, <1>4, PublishStep DEF IInv, PublishArrives
<1>7. Feed!Publish
  BY <1>2, <1>4 DEF PublishArrives, Feed!Publish
<1> QED BY <1>2, <1>5, <1>6, <1>7, HandlersKeep DEF Feed!Next

LEMMA ListenStep ==
  ASSUME IInv, Listen
  PROVE  IInv'
<1>1. Listens /\ UNCHANGED <<online, socket, unsaid, muddled>> /\ BrokerInv
  BY DEF Listen, IInv
<1>2. BrokerInv' /\ UNCHANGED <<registered, log>>
  BY <1>1, TakeStep, SendsStep, LoseSubscriptionStep, SubscribeStep DEF Listens, Sends
<1> QED BY <1>1, <1>2, ToldSame, HandlersKeep

LEMMA CrashStep ==
  ASSUME IInv, Crash
  PROVE  IInv'
<1>1. /\ Restart /\ socket' = [s \in Sockets |-> Free] /\ unsaid' = online
      /\ muddled' = muddled \cup {u \in Users : Announces(u) # {}} /\ online' = online
  BY DEF Crash
<1>2. BrokerInv' /\ registered' = {} /\ log' = log
  BY <1>1, RestartStep DEF IInv
<1>3. SocketType'
  BY <1>1, <1>2, FreeIsSocket DEF IInv, SocketType
<1>4. ASSUME NEW u \in Users PROVE HereInv(u)' /\ WordInv(u)'
  <2>1. HereInv(u)'
    BY <1>1 DEF HereInv
  <2>2. Announces(u)' = {}
    BY <1>1, FreeIsSocket DEF Announces
  <2>3. u \notin muddled' => Announces(u) = {} /\ u \notin muddled
    BY <1>1
  <2>4. WordInv(u)'
    BY <1>1, <1>2, <2>2, <2>3, ToldSame DEF WordInv, IInv
  <2> QED BY <2>1, <2>4
<1> QED BY <1>2, <1>3, <1>4 DEF IInv

LEMMA StutterStep ==
  ASSUME IInv, UNCHANGED vars
  PROVE  IInv'
<1>1. /\ UNCHANGED brokerVars /\ UNCHANGED <<online, socket, unsaid, muddled>>
      /\ registered' = registered /\ log' = log
  BY DEF vars, brokerVars
<1> QED BY <1>1, BrokerIdle, ToldSame, HandlersKeep DEF IInv

LEMMA IInvStep == IInv /\ [Next]_vars => IInv'
<1> SUFFICES ASSUME IInv, [Next]_vars PROVE IInv'
  OBVIOUS
<1>1. ASSUME NEW s \in Sockets, Handle(s) PROVE IInv'
  BY <1>1, EnterStep, ReportStep, WriteStep, AnnounceStep, AnnounceNothingStep, FailStep,
     LeaveStep DEF Handle
<1>2. CASE Next
  BY <1>1, <1>2, PublishOtherStep, ListenStep, CrashStep DEF Next
<1> QED BY <1>2, StutterStep

\* The inductive invariant holds of every reachable state.
THEOREM IInvAlways == Spec => []IInv
BY IInvInit, IInvStep, PTL DEF Spec

----------------------------------------------------------------------------
(* What follows *)

\* Connections, handlers, the listener and what is on its way are typed and
\* agree with each other, whatever connects, reports, fails, leaves, is
\* published or crashes.
THEOREM TypeCorrect == Spec => []TypeOK
<1>1. IInv => TypeOK
  BY TypeParts DEF IInv, BrokerInv
<1> QED BY <1>1, IInvAlways, PTL

\* A user whose last connection is gone, finally blocks included, is offline
\* in the table, but for a crash, a failed last word, and a last connection
\* that had said offline before another one said online.
THEOREM GoneIsOfflineAlways == Spec => []GoneIsOffline
<1>1. IInv => GoneIsOffline
  <2> SUFFICES ASSUME IInv, NEW u \in online, Present(u) = {} PROVE u \in unsaid
    BY DEF GoneIsOffline
  <2>1. HereInv(u) /\ SocketType
    BY DEF IInv, SocketType
  <2>2. ASSUME NEW s \in Sockets, Owner[s] = u, s \in registered \/ socket[s].phase = "write"
        PROVE  FALSE
    <3>1. socket[s].phase # "free"
      BY <2>1, <2>2 DEF SocketType
    <3> QED BY <2>2, <3>1 DEF Present
  <2> QED BY <2>1, <2>2 DEF HereInv
<1> QED BY <1>1, IInvAlways, PTL

\* What the contacts of a user were told last is what the table says, unless
\* handlers of the user wrote and announced across each other or an
\* announcement was not made.
THEOREM LastWordIsTableAlways == Spec => []LastWordIsTable
<1>1. IInv => LastWordIsTable
  BY DEF IInv, WordInv, LastWordIsTable
<1> QED BY <1>1, IInvAlways, PTL

\* As long as nothing fails, an event gets to each connection that was there
\* for it, and no later event gets there before it.
THEOREM NoGapsAlways == Spec => []NoGaps
<1>1. IInv => NoGaps
  <2> SUFFICES ASSUME IInv, NEW s \in Sockets, NEW i \in due[s]
               PROVE  /\ \/ i = current /\ s \in left
                         \/ \E k \in DOMAIN channel : channel[k] = i
                      /\ \A j \in got[s] : j < i
    BY DEF NoGaps
  <2>1. (i = current /\ s \in left) \/ (\E k \in DOMAIN channel : channel[k] = i)
    BY DEF IInv, BrokerInv, DueInv
  <2>2. CASE i = current /\ s \in left
    BY <2>2 DEF IInv, BrokerInv, SendingInv
  <2>3. CASE \E k \in DOMAIN channel : channel[k] = i
    BY <2>3 DEF IInv, BrokerInv, OrderInv
  <2> QED BY <2>1, <2>2, <2>3
<1> QED BY <1>1, IInvAlways, PTL

----------------------------------------------------------------------------
(* The events of a connection *)

LEMMA FeedInit == Init => Feed!Init
BY DEF Init, BrokerInit, Feed!Init

\* A handler publishes, closes its connection, or does not touch the feed.
LEMMA FeedOfHandler ==
  ASSUME IInv, NEW s \in Sockets, Handle(s)
  PROVE  [Feed!Next]_<<log, got>>
<1>1. CASE Enter(s) \/ AnnounceNothing(s) \/ Write(s)
           \/ \E v \in {"online", "offline"} : Report(s, v)
  BY <1>1 DEF Enter, Connect, AnnounceNothing, PublishesNothing, Write, Report, brokerVars
<1>2. CASE Announce(s)
  <2>1. PICK e : /\ e = [to |-> Contacts[Owner[s]], about |-> Owner[s],
                         online |-> socket[s].wanted = "online"]
                 /\ PublishArrives(e)
    BY <1>2 DEF Announce
  <2>2. e.to # {} /\ e.to = Contacts[Owner[s]]
    BY <2>1 DEF PublishArrives
  <2>3. Owner[s] \in Users /\ Contacts[Owner[s]] \in (SUBSET Users) \ {{}}
    BY <2>2, OwnerType, ContactsAreUsers
  <2>4. (socket[s].wanted = "online") \in BOOLEAN
    OBVIOUS
  <2>5. e \in Event
    BY <2>1, <2>3, <2>4 DEF Event
  <2> QED BY <2>1, <2>5 DEF PublishArrives, Feed!Publish, Feed!Next
<1>3. ASSUME Disconnect(s) PROVE Feed!Next
  <2>1. log' = log /\ got' = [p \in Sockets |-> IF p \in {s} THEN {} ELSE got[p]]
    BY <1>3, DisconnectStep DEF IInv
  <2>2. {s} \in SUBSET Sockets
    OBVIOUS
  <2> QED BY <2>1, <2>2 DEF Feed!Close, Feed!Next
<1>4. CASE Leave(s)
  BY <1>3, <1>4 DEF Leave, Leaves
<1>5. CASE Fail(s)
  BY <1>3, <1>5 DEF Fail, Leaves, brokerVars
<1> QED BY <1>1, <1>2, <1>4, <1>5 DEF Handle

LEMMA FeedOfListener ==
  ASSUME IInv, Listens
  PROVE  [Feed!Next]_<<log, got>>
<1>1. CASE Take \/ LoseSubscription \/ Subscribe
  BY <1>1 DEF Take, LoseSubscription, Subscribe
<1>2. ASSUME NEW s \in Sockets, Send(s) \/ SendFails(s) PROVE [Feed!Next]_<<log, got>>
  <2>1. /\ log' = log /\ Owner[s] \in log[current].to /\ current \in 1..Len(log)
        /\ \A i \in got[s] : i < current
        /\ got' = got \/ got' = [got EXCEPT ![s] = @ \cup {current}]
    BY <1>2, SendsStep DEF IInv
  <2>2. current \in DOMAIN log
    BY <2>1 DEF IInv, BrokerInv, BrokerType
  <2> QED BY <2>1, <2>2 DEF Feed!Tell, Feed!IsNext, Feed!Next
<1> QED BY <1>1, <1>2 DEF Listens, Sends

LEMMA FeedStep == IInv /\ [Next]_vars => [Feed!Next]_<<log, got>>
<1> SUFFICES ASSUME IInv, [Next]_vars PROVE [Feed!Next]_<<log, got>>
  OBVIOUS
<1>1. CASE Listen
  BY <1>1, FeedOfListener DEF Listen
<1>2. CASE Crash
  <2>1. log' = log /\ got' = [s \in Sockets |-> IF s \in Sockets THEN {} ELSE got[s]]
    BY <1>2, RestartStep DEF Crash, IInv
  <2>2. Sockets \in SUBSET Sockets
    OBVIOUS
  <2> QED BY <2>1, <2>2 DEF Feed!Close, Feed!Next
<1>3. CASE UNCHANGED vars
  BY <1>3 DEF vars, brokerVars
<1> QED BY <1>1, <1>2, <1>3, FeedOfHandler, PublishOtherStep DEF Next

\* A connection is told events for its user, in the order of publication and
\* none twice, whatever is lost, fails, or crashes in between.
THEOREM FeedImplemented == Spec => ImplementsFeed
BY FeedInit, FeedStep, IInvAlways, PTL DEF Spec, ImplementsFeed, Feed!Spec, Feed!vars
=============================================================================
