---------------------------- MODULE InboxProofs ----------------------------
(***************************************************************************)
(* Proofs about Inbox, for any users, messages and overlapping requests.   *)
(* All rest on one inductive invariant, IInv.                              *)
(***************************************************************************)
EXTENDS Inbox, TLAPS

(* The inductive invariant *)

\* A message that was there is there or went with its chat.
Known == Rows \cup gone

\* What a request may still rely on: the target of a reply is there, what is
\* about to be announced is stored and not announced, what was named and is
\* undecided is before the request or locked by it, and what it has locked is
\* undecided.
HandlerInv(h) ==
  LET q == handler[h] IN
  /\ q.op = "store" => MayReply(q.message)
  /\ q.op = "announce" => q.message \in Rows /\ announced[q.message] = 0
  /\ q.op = "ack" => \A m \in q.named :
       /\ Draft[m].to = q.user
       /\ m \in Known
       /\ verdict[m] = "waiting" => m \in q.ok \cup q.bad \cup Gave(h)
  /\ \A m \in Gave(h) : verdict[m] = "waiting"

\* No two requests lock one row or announce one message.
Apart(h, k) ==
  /\ Gave(h) \cap Gave(k) = {}
  /\ handler[h].op = "announce" /\ handler[k].op = "announce" =>
       handler[h].message # handler[k].message

AnnouncedInv ==
  \A m \in Messages : announced[m] <= 1 /\ (announced[m] # 0 => m \in Rows \ ByChat)

IInv ==
  /\ TypeOK
  /\ AnnouncedInv
  /\ RepliesStay
  /\ \A m \in acked : m \in Known /\ verdict[m] # "waiting"
  /\ \A h \in Handlers : HandlerInv(h)
  /\ \A h, k \in Handlers : h # k => Apart(h, k)

LEMMA IdleIsHandler == Idle \in Handler /\ Idle.op = "none"
BY DEF Idle, Handler

LEMMA IInvInit == Init => IInv
<1> SUFFICES ASSUME Init PROVE IInv
  OBVIOUS
<1>1. \A h \in Handlers : handler[h] = Idle /\ Gave(h) = {}
  BY DEF Init, Gave, Idle
<1>2. TypeOK
  BY <1>1, IdleIsHandler DEF Init, TypeOK, Idle, Rows
<1>3. AnnouncedInv /\ RepliesStay
  BY DEF Init, AnnouncedInv, RepliesStay, Rows
<1>4. \A h \in Handlers : HandlerInv(h)
  BY <1>1 DEF HandlerInv, Idle
<1>5. \A h, k \in Handlers : h # k => Apart(h, k)
  BY <1>1 DEF Apart, Idle
<1> QED BY <1>2, <1>3, <1>4, <1>5 DEF IInv, Init

----------------------------------------------------------------------------
(* Steps that change no more than one request *)

\* Request h becomes q.
Becomes(h, q) ==
  /\ q \in Handler
  /\ handler' = [handler EXCEPT ![h] = q]
  /\ UNCHANGED <<verdict, contacts, announced, gone, acked>>

\* The fields of a request agree with each other.
Fits(q) ==
  /\ q.op = "none" => q = Idle
  /\ q.op \in {"store", "announce"} => q.message \in Messages \ ByChat
  /\ q.op # "ack" => q.gaveOk \cup q.gaveBad = {}
  /\ q.op = "ack" => q.user \in Users
  /\ q.ok \cup q.bad \cup q.gaveOk \cup q.gaveBad \subseteq q.named

LEMMA RequestChanges ==
  ASSUME IInv, NEW h \in Handlers, NEW q, Becomes(h, q), Fits(q), HandlerInv(h)',
         q.op # "announce",
         \A k \in Handlers \ {h} : (q.gaveOk \cup q.gaveBad) \cap Gave(k) = {}
  PROVE  IInv'
<1> USE DEF Becomes
<1>1. \A k \in Handlers : handler'[k] = IF k = h THEN q ELSE handler[k]
  BY DEF IInv, TypeOK
<1>2. Rows' = Rows /\ Known' = Known
  BY DEF Rows, Known
<1>3. /\ Gave(h)' = q.gaveOk \cup q.gaveBad
      /\ \A k \in Handlers \ {h} : Gave(k)' = Gave(k)
  BY <1>1 DEF Gave
<1>4. TypeOK'
  <2>1. handler' \in [Handlers -> Handler]
    BY DEF IInv, TypeOK
  <2>2. ASSUME NEW k \in Handlers
        PROVE  /\ handler'[k].op = "none" => handler'[k] = Idle
               /\ handler'[k].op \in {"store", "announce"} =>
                    handler'[k].message \in Messages \ ByChat
               /\ handler'[k].op # "ack" => Gave(k)' = {}
               /\ handler'[k].op = "ack" => handler'[k].user \in Users
               /\ handler'[k].ok \cup handler'[k].bad \cup Gave(k)' \subseteq handler'[k].named
    <3>1. CASE k = h
      BY <1>1, <1>3, <3>1 DEF Fits
    <3>2. CASE k # h
      BY <1>1, <1>3, <3>2 DEF IInv, TypeOK
    <3> QED BY <3>1, <3>2
  <2> QED BY <1>2, <2>1, <2>2 DEF IInv, TypeOK
<1>5. AnnouncedInv' /\ RepliesStay'
  BY <1>2 DEF IInv, AnnouncedInv, RepliesStay
<1>6. \A k \in Handlers : HandlerInv(k)'
  <2> SUFFICES ASSUME NEW k \in Handlers, k # h PROVE HandlerInv(k)'
    OBVIOUS
  <2>1. HandlerInv(k) /\ handler'[k] = handler[k] /\ Gave(k)' = Gave(k)
    BY <1>1, <1>3 DEF IInv
  <2> QED BY <1>2, <2>1 DEF HandlerInv, MayReply
<1>7. \A k, l \in Handlers : k # l => Apart(k, l)'
  BY <1>1, <1>3 DEF IInv, Apart
<1>8. \A m \in acked' : (m \in Known)' /\ verdict'[m] # "waiting"
  BY <1>2 DEF IInv
<1> QED BY <1>4, <1>5, <1>6, <1>7, <1>8 DEF IInv

LEMMA EndStep ==
  ASSUME IInv, NEW h \in Handlers, End(h),
         UNCHANGED <<verdict, contacts, announced, gone, acked>>
  PROVE  IInv'
<1>1. Becomes(h, Idle) /\ Fits(Idle) /\ Idle.op # "announce"
  BY IdleIsHandler DEF Becomes, End, Fits, Idle
<1>2. handler'[h] = Idle
  BY DEF End, IInv, TypeOK
<1>3. HandlerInv(h)'
  BY <1>2 DEF HandlerInv, Gave, Idle
<1>4. \A k \in Handlers \ {h} : (Idle.gaveOk \cup Idle.gaveBad) \cap Gave(k) = {}
  BY DEF Idle
<1> QED BY <1>1, <1>3, <1>4, RequestChanges

LEMMA StartSendStep ==
  ASSUME IInv, NEW h \in Handlers, NEW m \in Messages, StartSend(h, m)
  PROVE  IInv'
<1> DEFINE q == [Idle EXCEPT !.op = "store", !.message = m,
                   !.inserts = Cardinality(Pair(m)) = 2 /\ Pair(m) \notin contacts]
<1>1. /\ q \in Handler /\ q.op = "store" /\ q.message = m /\ q.named = {} /\ q.ok = {}
      /\ q.bad = {} /\ q.gaveOk = {} /\ q.gaveBad = {}
  <2>1. (Cardinality(Pair(m)) = 2 /\ Pair(m) \notin contacts) \in BOOLEAN
    OBVIOUS
  <2> QED BY <2>1 DEF Idle, Handler
<1>2. /\ handler' = [handler EXCEPT ![h] = q] /\ m \notin ByChat /\ MayReply(m)
      /\ UNCHANGED <<verdict, contacts, announced, gone, acked>>
  BY DEF StartSend, Start
<1> HIDE DEF q
<1>3. Becomes(h, q) /\ Fits(q)
  BY <1>1, <1>2 DEF Becomes, Fits
<1>4. handler'[h] = q
  BY <1>2 DEF IInv, TypeOK
<1>5. HandlerInv(h)'
  BY <1>1, <1>2, <1>4 DEF HandlerInv, Gave, MayReply, Rows
<1> QED BY <1>1, <1>3, <1>5, RequestChanges

LEMMA StartAckStep ==
  ASSUME IInv, NEW h \in Handlers, NEW u \in Users,
         NEW named \in SUBSET {m \in Rows : Draft[m].to = u}, NEW ok \in SUBSET named,
         StartAck(h, u, named, ok)
  PROVE  IInv'
<1> DEFINE q == [Idle EXCEPT !.op = "ack", !.user = u, !.named = named,
                             !.ok = ok, !.bad = named \ ok]
<1>1. named \subseteq Messages
  BY DEF Rows
<1>2. /\ q \in Handler /\ q.op = "ack" /\ q.user = u /\ q.named = named /\ q.ok = ok
      /\ q.bad = named \ ok /\ q.gaveOk = {} /\ q.gaveBad = {}
  BY <1>1 DEF Idle, Handler
<1>3. /\ handler' = [handler EXCEPT ![h] = q]
      /\ UNCHANGED <<verdict, contacts, announced, gone, acked>>
  BY DEF StartAck, Start
<1> HIDE DEF q
<1>4. Becomes(h, q) /\ Fits(q)
  BY <1>2, <1>3 DEF Becomes, Fits
<1>5. handler'[h] = q
  BY <1>3 DEF IInv, TypeOK
<1>6. HandlerInv(h)'
  BY <1>2, <1>3, <1>5 DEF HandlerInv, Gave, Known, Rows
<1> QED BY <1>2, <1>4, <1>6, RequestChanges

----------------------------------------------------------------------------
(* An acknowledgement goes from row to row *)

LEMMA GoesThroughFits ==
  ASSUME IInv, NEW h \in Handlers, NEW m \in Messages,
         handler[h].op = "ack", m \in ToDo(h)
  PROVE  LET q == GoesThrough(h, m) IN
         /\ q \in Handler /\ q.op = "ack" /\ q.user = handler[h].user
         /\ q.named = handler[h].named /\ m \in q.named
         /\ q.ok \cup q.bad \cup {m} = handler[h].ok \cup handler[h].bad
         /\ q.gaveOk = handler[h].gaveOk /\ q.gaveBad = handler[h].gaveBad
<1>1. handler[h] \in Handler /\ handler[h].ok \cup handler[h].bad \subseteq handler[h].named
  BY DEF IInv, TypeOK
<1>2. CASE handler[h].ok # {}
  <2>1. m \in handler[h].ok /\ GoesThrough(h, m) = [handler[h] EXCEPT !.ok = @ \ {m}]
    BY <1>2 DEF ToDo, GoesThrough
  <2> QED BY <1>1, <2>1 DEF Handler
<1>3. CASE handler[h].ok = {}
  <2>1. m \in handler[h].bad /\ GoesThrough(h, m) = [handler[h] EXCEPT !.bad = @ \ {m}]
    BY <1>3 DEF ToDo, GoesThrough
  <2> QED BY <1>1, <2>1 DEF Handler
<1> QED BY <1>2, <1>3

LEMMA PassesRowStep ==
  ASSUME IInv, NEW h \in Handlers, NEW m \in Messages, PassesRow(h, m)
  PROVE  IInv'
<1> DEFINE q == GoesThrough(h, m)
<1>1. /\ handler[h].op = "ack" /\ m \in ToDo(h) /\ ~Matches(h, m)
      /\ handler' = [handler EXCEPT ![h] = q]
      /\ UNCHANGED <<verdict, contacts, announced, gone, acked>>
  BY DEF PassesRow, IsPassed
<1>2. /\ q \in Handler /\ q.op = "ack" /\ q.user = handler[h].user
      /\ q.named = handler[h].named /\ m \in q.named
      /\ q.ok \cup q.bad \cup {m} = handler[h].ok \cup handler[h].bad
      /\ q.gaveOk = handler[h].gaveOk /\ q.gaveBad = handler[h].gaveBad
  BY <1>1, GoesThroughFits
<1> HIDE DEF q
<1>3. Becomes(h, q)
  BY <1>1, <1>2 DEF Becomes
<1>4. Fits(q)
  BY <1>1, <1>2 DEF Fits, IInv, TypeOK, Gave
<1>5. handler'[h] = q
  BY <1>1 DEF IInv, TypeOK
<1>6. HandlerInv(h) /\ Gave(h)' = Gave(h) /\ Known' = Known
  BY <1>1, <1>2, <1>5 DEF IInv, Gave, Known, Rows
<1>7. verdict[m] # "waiting"
  BY <1>1, <1>2, <1>6 DEF Matches, HandlerInv
<1>8. HandlerInv(h)'
  BY <1>1, <1>2, <1>5, <1>6, <1>7 DEF HandlerInv
<1>9. \A k \in Handlers \ {h} : (q.gaveOk \cup q.gaveBad) \cap Gave(k) = {}
  BY <1>2 DEF IInv, Apart, Gave
<1> QED BY <1>2, <1>3, <1>4, <1>8, <1>9, RequestChanges

LEMMA UpdatesRowStep ==
  ASSUME IInv, NEW h \in Handlers, NEW m \in Messages, UpdatesRow(h, m)
  PROVE  IInv'
<1> DEFINE p == GoesThrough(h, m)
<1>1. PICK q : q = IF handler[h].ok # {} THEN [p EXCEPT !.gaveOk = @ \cup {m}]
                                         ELSE [p EXCEPT !.gaveBad = @ \cup {m}]
  OBVIOUS
<1>2. /\ handler[h].op = "ack" /\ m \in ToDo(h) /\ Matches(h, m) /\ ~LockedByOther(h, m)
      /\ handler' = [handler EXCEPT ![h] = q]
      /\ UNCHANGED <<verdict, contacts, announced, gone, acked>>
  BY <1>1 DEF UpdatesRow
<1>3. /\ p \in Handler /\ p.op = "ack" /\ p.user = handler[h].user
      /\ p.named = handler[h].named /\ m \in p.named
      /\ p.ok \cup p.bad \cup {m} = handler[h].ok \cup handler[h].bad
      /\ p.gaveOk = handler[h].gaveOk /\ p.gaveBad = handler[h].gaveBad
  BY <1>2, GoesThroughFits
<1> HIDE DEF p
<1>4. /\ q \in Handler /\ q.op = "ack" /\ q.user = handler[h].user
      /\ q.named = handler[h].named /\ m \in q.named
      /\ q.ok \cup q.bad \cup {m} = handler[h].ok \cup handler[h].bad
      /\ q.gaveOk \cup q.gaveBad = Gave(h) \cup {m}
  <2>1. CASE handler[h].ok # {}
    <3>1. q = [p EXCEPT !.gaveOk = @ \cup {m}]
      BY <1>1, <2>1
    <3> QED BY <1>3, <3>1 DEF Handler, Gave
  <2>2. CASE handler[h].ok = {}
    <3>1. q = [p EXCEPT !.gaveBad = @ \cup {m}]
      BY <1>1, <2>2
    <3> QED BY <1>3, <3>1 DEF Handler, Gave
  <2> QED BY <2>1, <2>2
<1>5. Becomes(h, q)
  BY <1>2, <1>4 DEF Becomes
<1>6. Fits(q)
  BY <1>2, <1>4 DEF Fits, IInv, TypeOK
<1>7. handler'[h] = q
  BY <1>2 DEF IInv, TypeOK
<1>8. HandlerInv(h) /\ Gave(h)' = Gave(h) \cup {m} /\ Known' = Known
  BY <1>2, <1>4, <1>7 DEF IInv, Gave, Known, Rows
<1>9. verdict[m] = "waiting"
  BY <1>2 DEF Matches
<1>10. HandlerInv(h)'
  BY <1>2, <1>4, <1>7, <1>8, <1>9 DEF HandlerInv
<1>11. \A k \in Handlers \ {h} : (q.gaveOk \cup q.gaveBad) \cap Gave(k) = {}
  BY <1>2, <1>4 DEF IInv, Apart, LockedByOther
<1> QED BY <1>4, <1>5, <1>6, <1>10, <1>11, RequestChanges

----------------------------------------------------------------------------
(* Steps that write to the database or publish *)

\* Rows that come and take no locked row's place.
LEMMA RowsCome ==
  ASSUME IInv, NEW M \in SUBSET Messages, M \cap (Rows \cup gone) = {},
         Arrives(M), UNCHANGED <<announced, gone, acked>>
  PROVE  /\ verdict' \in [Messages -> {"absent", "waiting", "done", "failed"}]
         /\ Rows' = Rows \cup M /\ Known' = Known \cup M /\ M \cap Known = {}
         /\ \A n \in Messages \ M : verdict'[n] = verdict[n]
         /\ AnnouncedInv'
         /\ \A n \in acked : (n \in Known)' /\ verdict'[n] # "waiting"
<1>1. /\ verdict' \in [Messages -> {"absent", "waiting", "done", "failed"}]
      /\ \A m \in M : verdict'[m] = "waiting"
      /\ \A n \in Messages \ M : verdict'[n] = verdict[n]
  BY DEF IInv, TypeOK, Arrives
<1>2. Rows' = Rows \cup M
  BY <1>1 DEF Rows
<1>3. Known' = Known \cup M /\ M \cap Known = {}
  BY <1>2 DEF Known
<1>4. AnnouncedInv'
  BY <1>2 DEF IInv, AnnouncedInv
<1>5. \A n \in acked : (n \in Known)' /\ verdict'[n] # "waiting"
  BY <1>1, <1>3 DEF IInv, TypeOK
<1> QED BY <1>1, <1>2, <1>3, <1>4, <1>5

\* What other requests rely on does not notice rows that come.
LEMMA OthersKeep ==
  ASSUME IInv, NEW M \in SUBSET Messages, M \cap Known = {}, NEW k \in Handlers,
         handler'[k] = handler[k], announced' = announced,
         Rows' = Rows \cup M, Known' = Known \cup M,
         \A n \in Messages \ M : verdict'[n] = verdict[n]
  PROVE  HandlerInv(k)' /\ Gave(k)' = Gave(k)
<1>1. HandlerInv(k) /\ Gave(k)' = Gave(k) /\ handler[k] \in Handler
  BY DEF IInv, Gave, TypeOK
<1>2. M \cap Rows = {}
  BY DEF Known
<1>3. handler[k].op = "store" => MayReply(handler[k].message)'
  BY <1>1 DEF HandlerInv, MayReply
<1>4. handler[k].op = "announce" =>
        handler[k].message \in Rows' /\ announced[handler[k].message] = 0
  BY <1>1 DEF HandlerInv
<1>5. handler[k].op = "ack" => \A n \in handler[k].named :
        /\ Draft[n].to = handler[k].user
        /\ n \in Known'
        /\ verdict'[n] = "waiting" => n \in handler[k].ok \cup handler[k].bad \cup Gave(k)
  <2> SUFFICES ASSUME handler[k].op = "ack", NEW n \in handler[k].named
               PROVE  /\ Draft[n].to = handler[k].user
                      /\ n \in Known'
                      /\ verdict'[n] = "waiting" =>
                           n \in handler[k].ok \cup handler[k].bad \cup Gave(k)
    OBVIOUS
  <2>1. n \in Messages /\ n \in Known /\ Draft[n].to = handler[k].user
    BY <1>1 DEF HandlerInv, Handler
  <2>2. verdict'[n] = verdict[n]
    BY <2>1
  <2> QED BY <1>1, <2>1, <2>2 DEF HandlerInv
<1>6. \A n \in Gave(k) : verdict'[n] = "waiting"
  <2> SUFFICES ASSUME NEW n \in Gave(k) PROVE verdict'[n] = "waiting"
    OBVIOUS
  <2>1. n \in Messages /\ verdict[n] = "waiting"
    BY <1>1 DEF HandlerInv, Gave, Handler
  <2>2. n \notin M
    BY <1>2, <2>1 DEF Rows
  <2> QED BY <2>1, <2>2
<1> QED BY <1>1, <1>3, <1>4, <1>5, <1>6 DEF HandlerInv

LEMMA StoresStep ==
  ASSUME IInv, NEW h \in Handlers, Stores(h)
  PROVE  IInv'
<1>1. PICK m : m = handler[h].message
  OBVIOUS
<1>2. /\ handler[h] \in Handler /\ handler[h].op = "store" /\ m \in Messages \ ByChat
      /\ MayReply(m) /\ Gave(h) = {} /\ handler[h].ok \cup handler[h].bad \subseteq handler[h].named
  BY <1>1 DEF Stores, IInv, TypeOK, HandlerInv
<1> DEFINE q == [handler[h] EXCEPT !.op = "announce"]
<1>3. /\ m \notin Rows /\ handler' = [handler EXCEPT ![h] = q]
      /\ Arrives({m})
      /\ contacts' = (IF handler[h].inserts THEN contacts \cup {Pair(m)} ELSE contacts)
      /\ UNCHANGED <<announced, gone, acked>>
  BY <1>1 DEF Stores, IdIsFree
<1>4. m \notin gone
  BY <1>2 DEF IInv, TypeOK
<1>5. /\ q \in Handler /\ q.op = "announce" /\ q.message = m /\ q.named = handler[h].named
      /\ q.ok = handler[h].ok /\ q.bad = handler[h].bad
      /\ q.gaveOk \cup q.gaveBad = {}
  BY <1>1, <1>2 DEF Handler, Gave
<1> HIDE DEF q
<1>6. /\ verdict' \in [Messages -> {"absent", "waiting", "done", "failed"}]
      /\ Rows' = Rows \cup {m} /\ Known' = Known \cup {m} /\ m \notin Known
      /\ \A n \in Messages \ {m} : verdict'[n] = verdict[n]
      /\ AnnouncedInv'
      /\ \A n \in acked : (n \in Known)' /\ verdict'[n] # "waiting"
  BY <1>2, <1>3, <1>4, RowsCome
<1>7. handler'[h] = q /\ \A k \in Handlers \ {h} : handler'[k] = handler[k]
  BY <1>3 DEF IInv, TypeOK
<1>8. \A k \in Handlers \ {h} : HandlerInv(k)' /\ Gave(k)' = Gave(k)
  BY <1>2, <1>3, <1>6, <1>7, OthersKeep
<1>9. Gave(h)' = {}
  BY <1>5, <1>7 DEF Gave
<1>10. announced[m] = 0
  BY <1>2, <1>3 DEF IInv, AnnouncedInv
<1>11. HandlerInv(h)'
  BY <1>3, <1>5, <1>6, <1>7, <1>9, <1>10 DEF HandlerInv
<1>12. TypeOK'
  <2>1. Pair(m) \subseteq Users
    BY <1>2, DraftsAreDrafts DEF Pair
  <2>2. contacts' \subseteq SUBSET Users
    BY <1>3, <2>1 DEF IInv, TypeOK
  <2>3. handler' \in [Handlers -> Handler]
    BY <1>3, <1>5 DEF IInv, TypeOK
  <2>4. \A k \in Handlers :
          /\ handler'[k].op = "none" => handler'[k] = Idle
          /\ handler'[k].op \in {"store", "announce"} => handler'[k].message \in Messages \ ByChat
          /\ handler'[k].op # "ack" => Gave(k)' = {}
          /\ handler'[k].op = "ack" => handler'[k].user \in Users
          /\ handler'[k].ok \cup handler'[k].bad \cup Gave(k)' \subseteq handler'[k].named
    BY <1>2, <1>5, <1>7, <1>8, <1>9 DEF IInv, TypeOK
  <2>5. gone' \subseteq ByChat \ Rows'
    BY <1>2, <1>3, <1>6 DEF IInv, TypeOK
  <2> QED BY <1>3, <1>6, <2>2, <2>3, <2>4, <2>5 DEF IInv, TypeOK
<1>13. RepliesStay'
  <2> SUFFICES ASSUME NEW n \in Rows' \ ByChat, Draft[n].reply # None
               PROVE  /\ Draft[n].reply \in Rows' \ ByChat
                      /\ Pair(Draft[n].reply) = Pair(n)
    BY DEF RepliesStay, Pair
  <2>1. CASE n = m
    BY <1>2, <1>6, <2>1 DEF MayReply
  <2>2. CASE n # m
    BY <1>6, <2>2 DEF IInv, RepliesStay
  <2> QED BY <2>1, <2>2
<1>14. \A k, l \in Handlers : k # l => Apart(k, l)'
  <2> SUFFICES ASSUME NEW k \in Handlers, NEW l \in Handlers, k # l PROVE Apart(k, l)'
    OBVIOUS
  <2>1. Apart(k, l)
    BY DEF IInv
  <2>2. \A j \in Handlers : handler[j].op = "announce" => handler[j].message # m
    BY <1>3 DEF IInv, HandlerInv
  <2> QED BY <1>5, <1>7, <1>8, <1>9, <2>1, <2>2 DEF Apart
<1> QED BY <1>3, <1>6, <1>8, <1>11, <1>12, <1>13, <1>14 DEF IInv

LEMMA ChatMessagesArriveStep ==
  ASSUME IInv, NEW M \in SUBSET Messages, ChatMessagesArrive(M)
  PROVE  IInv'
<1>1. /\ M \subseteq ByChat /\ M \cap (Rows \cup gone) = {}
      /\ Arrives(M) /\ contacts' \subseteq SUBSET Users
      /\ UNCHANGED <<handler, announced, gone, acked>>
  BY DEF ChatMessagesArrive, Pairs
<1>2. /\ verdict' \in [Messages -> {"absent", "waiting", "done", "failed"}]
      /\ Rows' = Rows \cup M /\ Known' = Known \cup M /\ M \cap Known = {}
      /\ \A n \in Messages \ M : verdict'[n] = verdict[n]
      /\ AnnouncedInv'
      /\ \A n \in acked : (n \in Known)' /\ verdict'[n] # "waiting"
  BY <1>1, RowsCome
<1>3. \A k \in Handlers : HandlerInv(k)' /\ Gave(k)' = Gave(k)
  BY <1>1, <1>2, OthersKeep
<1>4. TypeOK'
  BY <1>1, <1>2, <1>3 DEF IInv, TypeOK
<1>5. RepliesStay'
  BY <1>1, <1>2 DEF IInv, RepliesStay, Pair
<1>6. \A k, l \in Handlers : k # l => Apart(k, l)'
  BY <1>1, <1>3 DEF IInv, Apart
<1> QED BY <1>1, <1>2, <1>3, <1>4, <1>5, <1>6 DEF IInv

LEMMA AnnouncesStep ==
  ASSUME IInv, NEW h \in Handlers, Announces(h)
  PROVE  IInv'
<1>1. PICK m : m = handler[h].message
  OBVIOUS
<1>2. /\ m \in Messages \ ByChat /\ m \in Rows /\ announced[m] = 0
      /\ handler[h].op = "announce"
  BY <1>1 DEF Announces, IInv, TypeOK, HandlerInv
<1>3. /\ announced' = [announced EXCEPT ![m] = @ + 1] /\ End(h)
      /\ UNCHANGED <<verdict, contacts, gone, acked>>
  BY <1>1 DEF Announces
<1>4. /\ announced' \in [Messages -> Nat] /\ announced'[m] = 1
      /\ \A n \in Messages \ {m} : announced'[n] = announced[n]
  BY <1>2, <1>3 DEF IInv, TypeOK
<1>5. /\ handler'[h] = Idle
      /\ \A k \in Handlers \ {h} : handler'[k] = handler[k]
      /\ handler' \in [Handlers -> Handler]
  BY <1>3, IdleIsHandler DEF End, IInv, TypeOK
<1>6. /\ Rows' = Rows /\ Known' = Known /\ Gave(h)' = {}
      /\ \A k \in Handlers \ {h} : Gave(k)' = Gave(k)
  BY <1>3, <1>5 DEF Rows, Known, Gave, Idle
<1>7. TypeOK'
  <2>1. ASSUME NEW k \in Handlers
        PROVE  /\ handler'[k].op = "none" => handler'[k] = Idle
               /\ handler'[k].op \in {"store", "announce"} =>
                    handler'[k].message \in Messages \ ByChat
               /\ handler'[k].op # "ack" => Gave(k)' = {}
               /\ handler'[k].op = "ack" => handler'[k].user \in Users
               /\ handler'[k].ok \cup handler'[k].bad \cup Gave(k)' \subseteq handler'[k].named
    <3>1. CASE k = h
      BY <1>5, <1>6, <3>1 DEF Idle
    <3>2. CASE k # h
      BY <1>5, <1>6, <3>2 DEF IInv, TypeOK
    <3> QED BY <3>1, <3>2
  <2> QED BY <1>3, <1>4, <1>5, <1>6, <2>1 DEF IInv, TypeOK
<1>8. AnnouncedInv'
  BY <1>2, <1>4, <1>6 DEF IInv, AnnouncedInv
<1>9. RepliesStay'
  BY <1>6 DEF IInv, RepliesStay, Pair
<1>10. \A k \in Handlers : HandlerInv(k)'
  <2> SUFFICES ASSUME NEW k \in Handlers PROVE HandlerInv(k)'
    OBVIOUS
  <2>1. CASE k = h
    BY <1>5, <1>6, <2>1 DEF HandlerInv, Idle
  <2>2. CASE k # h
    <3>1. HandlerInv(k) /\ Apart(h, k) /\ handler'[k] = handler[k] /\ Gave(k)' = Gave(k)
      BY <1>5, <1>6, <2>2 DEF IInv
    <3>2. handler[k].op = "announce" =>
            handler[k].message # m /\ handler[k].message \in Messages
      BY <1>1, <1>2, <3>1 DEF Apart, IInv, TypeOK
    <3> QED BY <1>3, <1>4, <1>6, <3>1, <3>2 DEF HandlerInv, MayReply
  <2> QED BY <2>1, <2>2
<1>11. \A k, l \in Handlers : k # l => Apart(k, l)'
  <2> SUFFICES ASSUME NEW k \in Handlers, NEW l \in Handlers, k # l PROVE Apart(k, l)'
    OBVIOUS
  <2> QED BY <1>5, <1>6 DEF IInv, Apart, Idle
<1>12. \A n \in acked' : (n \in Known)' /\ verdict'[n] # "waiting"
  BY <1>3, <1>6 DEF IInv
<1> QED BY <1>7, <1>8, <1>9, <1>10, <1>11, <1>12 DEF IInv

\* The commit changes what h has locked and nothing else, and rows neither
\* come nor go.
LEMMA CommitChanges ==
  ASSUME IInv, NEW h \in Handlers, CommitsAck(h)
  PROVE  /\ verdict' \in [Messages -> {"absent", "waiting", "done", "failed"}]
         /\ \A m \in Gave(h) : verdict'[m] \in {"done", "failed"}
         /\ \A m \in Messages \ Gave(h) : verdict'[m] = verdict[m]
         /\ Rows' = Rows
<1>1. handler[h] \in Handler /\ \A m \in Gave(h) : verdict[m] = "waiting"
  BY DEF IInv, TypeOK, HandlerInv
<1>2. Gave(h) \subseteq Messages
  BY <1>1 DEF Gave, Handler
<1>3. verdict' = [m \in Messages |-> IF m \in handler[h].gaveOk THEN "done"
                                    ELSE IF m \in handler[h].gaveBad THEN "failed"
                                    ELSE verdict[m]]
  BY DEF CommitsAck
<1>4. verdict' \in [Messages -> {"absent", "waiting", "done", "failed"}]
  BY <1>3 DEF IInv, TypeOK
<1>5. /\ \A m \in Gave(h) : verdict'[m] \in {"done", "failed"}
      /\ \A m \in Messages \ Gave(h) : verdict'[m] = verdict[m]
  BY <1>2, <1>3 DEF Gave
<1>6. Rows' = Rows
  BY <1>1, <1>2, <1>5 DEF Rows
<1> QED BY <1>4, <1>5, <1>6

LEMMA CommitsAckStep ==
  ASSUME IInv, NEW h \in Handlers, CommitsAck(h)
  PROVE  IInv'
<1>1. /\ handler[h] \in Handler /\ handler[h].op = "ack" /\ HandlerInv(h)
      /\ handler[h].ok = {} /\ handler[h].bad = {}
  BY DEF CommitsAck, ToDo, IInv, TypeOK
<1>2. /\ acked' = acked \cup handler[h].named /\ End(h)
      /\ UNCHANGED <<contacts, announced, gone>>
  BY DEF CommitsAck
<1>3. /\ verdict' \in [Messages -> {"absent", "waiting", "done", "failed"}]
      /\ \A m \in Gave(h) : verdict'[m] \in {"done", "failed"}
      /\ \A m \in Messages \ Gave(h) : verdict'[m] = verdict[m]
      /\ Rows' = Rows
  BY CommitChanges
<1>4. /\ handler'[h] = Idle
      /\ \A k \in Handlers \ {h} : handler'[k] = handler[k]
      /\ handler' \in [Handlers -> Handler]
  BY <1>2, IdleIsHandler DEF End, IInv, TypeOK
<1>5. /\ Known' = Known /\ Gave(h)' = {}
      /\ \A k \in Handlers \ {h} : Gave(k)' = Gave(k)
  BY <1>2, <1>3, <1>4 DEF Known, Gave, Idle
<1>6. \A m \in Messages : verdict[m] # "waiting" => verdict'[m] # "waiting"
  <2> SUFFICES ASSUME NEW m \in Messages, verdict[m] # "waiting" PROVE verdict'[m] # "waiting"
    OBVIOUS
  <2> QED BY <1>3
<1>7. TypeOK'
  <2>1. ASSUME NEW k \in Handlers
        PROVE  /\ handler'[k].op = "none" => handler'[k] = Idle
               /\ handler'[k].op \in {"store", "announce"} =>
                    handler'[k].message \in Messages \ ByChat
               /\ handler'[k].op # "ack" => Gave(k)' = {}
               /\ handler'[k].op = "ack" => handler'[k].user \in Users
               /\ handler'[k].ok \cup handler'[k].bad \cup Gave(k)' \subseteq handler'[k].named
    <3>1. CASE k = h
      BY <1>4, <1>5, <3>1 DEF Idle
    <3>2. CASE k # h
      BY <1>4, <1>5, <3>2 DEF IInv, TypeOK
    <3> QED BY <3>1, <3>2
  <2>2. acked' \subseteq Messages
    BY <1>1, <1>2 DEF IInv, TypeOK, Handler
  <2> QED BY <1>2, <1>3, <1>4, <2>1, <2>2 DEF IInv, TypeOK
<1>8. AnnouncedInv' /\ RepliesStay'
  BY <1>2, <1>3 DEF IInv, AnnouncedInv, RepliesStay, Pair
<1>9. \A k \in Handlers : HandlerInv(k)'
  <2> SUFFICES ASSUME NEW k \in Handlers PROVE HandlerInv(k)'
    OBVIOUS
  <2>1. CASE k = h
    BY <1>4, <1>5, <2>1 DEF HandlerInv, Idle
  <2>2. CASE k # h
    <3>1. /\ HandlerInv(k) /\ Apart(h, k) /\ handler'[k] = handler[k] /\ Gave(k)' = Gave(k)
          /\ handler[k] \in Handler
      BY <1>4, <1>5, <2>2 DEF IInv, TypeOK
    <3>2. \A m \in Gave(k) : verdict'[m] = "waiting"
      <4>1. Gave(k) \subseteq Messages \ Gave(h)
        BY <3>1 DEF Apart, Gave, Handler
      <4> QED BY <1>3, <3>1, <4>1 DEF HandlerInv
    <3>3. handler[k].op = "ack" => \A m \in handler[k].named :
            /\ Draft[m].to = handler[k].user
            /\ m \in Known
            /\ verdict'[m] = "waiting" => m \in handler[k].ok \cup handler[k].bad \cup Gave(k)
      BY <1>6, <3>1 DEF HandlerInv, Handler
    <3>4. handler[k].op = "store" => MayReply(handler[k].message)'
      BY <1>3, <3>1 DEF HandlerInv, MayReply
    <3>5. handler[k].op = "announce" =>
            handler[k].message \in Rows /\ announced[handler[k].message] = 0
      BY <3>1 DEF HandlerInv
    <3> QED BY <1>2, <1>3, <1>5, <3>1, <3>2, <3>3, <3>4, <3>5 DEF HandlerInv
  <2> QED BY <2>1, <2>2
<1>10. \A k, l \in Handlers : k # l => Apart(k, l)'
  <2> SUFFICES ASSUME NEW k \in Handlers, NEW l \in Handlers, k # l PROVE Apart(k, l)'
    OBVIOUS
  <2> QED BY <1>4, <1>5 DEF IInv, Apart, Idle
<1>11. \A m \in acked' : (m \in Known)' /\ verdict'[m] # "waiting"
  <2> SUFFICES ASSUME NEW m \in acked' PROVE m \in Known /\ verdict'[m] # "waiting"
    BY <1>5
  <2>1. CASE m \in acked
    BY <1>6, <2>1 DEF IInv, TypeOK
  <2>2. CASE m \in handler[h].named
    <3>1. m \in Messages /\ m \in Known /\ (verdict[m] = "waiting" => m \in Gave(h))
      BY <1>1, <2>2 DEF HandlerInv, Handler
    <3>2. CASE m \in Gave(h)
      BY <1>3, <3>1, <3>2
    <3>3. CASE m \notin Gave(h)
      BY <1>6, <3>1, <3>3
    <3> QED BY <3>2, <3>3
  <2> QED BY <1>2, <2>1, <2>2
<1> QED BY <1>7, <1>8, <1>9, <1>10, <1>11 DEF IInv

LEMMA ChatGoesStep ==
  ASSUME IInv, NEW M \in SUBSET Messages, ChatGoes(M)
  PROVE  IInv'
<1>1. /\ M \subseteq ByChat /\ M \subseteq Rows
      /\ \A h \in Handlers : M \cap Gave(h) = {}
      /\ verdict' = [m \in Messages |-> IF m \in M THEN "absent" ELSE verdict[m]]
      /\ gone' = gone \cup M
      /\ UNCHANGED <<contacts, handler, announced, acked>>
  BY DEF ChatGoes, Vanishes
<1>2. /\ verdict' \in [Messages -> {"absent", "waiting", "done", "failed"}]
      /\ \A m \in M : verdict'[m] = "absent"
      /\ \A m \in Messages \ M : verdict'[m] = verdict[m]
  BY <1>1 DEF IInv, TypeOK
<1>3. Rows' = Rows \ M /\ Known' = Known /\ \A h \in Handlers : Gave(h)' = Gave(h)
  <2>1. Rows' = Rows \ M
    BY <1>2 DEF Rows
  <2> QED BY <1>1, <2>1 DEF Known, Gave
<1>4. TypeOK'
  BY <1>1, <1>2, <1>3 DEF IInv, TypeOK
<1>5. AnnouncedInv' /\ RepliesStay'
  BY <1>1, <1>3 DEF IInv, AnnouncedInv, RepliesStay, Pair
<1>6. \A m \in acked' : (m \in Known)' /\ verdict'[m] # "waiting"
  BY <1>1, <1>2, <1>3 DEF IInv, TypeOK
<1>7. \A h \in Handlers : HandlerInv(h)'
  <2> SUFFICES ASSUME NEW h \in Handlers PROVE HandlerInv(h)'
    OBVIOUS
  <2>1. HandlerInv(h) /\ handler[h] \in Handler /\ handler' = handler
    BY <1>1 DEF IInv, TypeOK
  <2>2. handler[h].op = "store" => MayReply(handler[h].message)'
    BY <1>1, <1>3, <2>1 DEF HandlerInv, MayReply
  <2>3. handler[h].op = "announce" =>
          handler[h].message \in Rows' /\ announced[handler[h].message] = 0
    BY <1>1, <1>3, <2>1 DEF HandlerInv, IInv, TypeOK
  <2>4. handler[h].op = "ack" => \A m \in handler[h].named :
          /\ Draft[m].to = handler[h].user
          /\ m \in Known
          /\ verdict'[m] = "waiting" => m \in handler[h].ok \cup handler[h].bad \cup Gave(h)
    BY <1>2, <2>1 DEF HandlerInv, Handler
  <2>5. \A m \in Gave(h) : verdict'[m] = "waiting"
    <3>1. Gave(h) \subseteq Messages \ M
      BY <1>1, <2>1 DEF Gave, Handler
    <3> QED BY <1>2, <2>1, <3>1 DEF HandlerInv
  <2> QED BY <1>1, <1>3, <2>1, <2>2, <2>3, <2>4, <2>5 DEF HandlerInv
<1>8. \A h, k \in Handlers : h # k => Apart(h, k)'
  BY <1>1, <1>3 DEF IInv, Apart
<1> QED BY <1>4, <1>5, <1>6, <1>7, <1>8 DEF IInv

\* Nothing but contacts changes.
LEMMA OnlyContactsChange ==
  ASSUME IInv, contacts' \subseteq SUBSET Users,
         UNCHANGED <<verdict, handler, announced, gone, acked>>
  PROVE  IInv'
<1>1. Rows' = Rows /\ Known' = Known /\ \A h \in Handlers : Gave(h)' = Gave(h)
  BY DEF Rows, Known, Gave
<1>2. TypeOK'
  BY <1>1 DEF IInv, TypeOK
<1>3. AnnouncedInv' /\ RepliesStay' /\ \A m \in acked' : (m \in Known)' /\ verdict'[m] # "waiting"
  BY <1>1 DEF IInv, AnnouncedInv, RepliesStay, Pair
<1>4. \A h \in Handlers : HandlerInv(h)'
  BY <1>1 DEF IInv, HandlerInv, MayReply
<1>5. \A h, k \in Handlers : h # k => Apart(h, k)'
  BY <1>1 DEF IInv, Apart
<1> QED BY <1>2, <1>3, <1>4, <1>5 DEF IInv

----------------------------------------------------------------------------
(* Every step *)

LEMMA IInvStep == IInv /\ [Next]_vars => IInv'
<1> SUFFICES ASSUME IInv, [Next]_vars PROVE IInv'
  OBVIOUS
<1>1. ASSUME NEW h \in Handlers, StartSome(h) PROVE IInv'
  BY <1>1, StartSendStep, StartAckStep DEF StartSome
<1>2. ASSUME NEW h \in Handlers, Continue(h) PROVE IInv'
  <2>1. CASE StoreFails(h) \/ Victim(h)
    BY <2>1, EndStep DEF StoreFails, Victim
  <2> QED BY <1>2, <2>1, StoresStep, AnnouncesStep, UpdatesRowStep, PassesRowStep,
             CommitsAckStep DEF Continue
<1>3. ASSUME NEW h \in Handlers, Drop(h) PROVE IInv'
  BY <1>3, EndStep DEF Drop
<1>4. CASE ContactsChange
  <2>1. contacts' \subseteq SUBSET Users
    BY <1>4 DEF ContactsChange, Pairs
  <2> QED BY <1>4, <2>1, OnlyContactsChange DEF ContactsChange
<1>5. CASE UNCHANGED vars
  <2>1. contacts' \subseteq SUBSET Users
    BY <1>5 DEF vars, IInv, TypeOK
  <2> QED BY <1>5, <2>1, OnlyContactsChange DEF vars
<1> QED BY <1>1, <1>2, <1>3, <1>4, <1>5, ChatMessagesArriveStep, ChatGoesStep
    DEF Next

\* The inductive invariant holds of every reachable state.
THEOREM IInvAlways == Spec => []IInv
BY IInvInit, IInvStep, PTL DEF Spec

----------------------------------------------------------------------------
(* What follows *)

\* The table, the requests and the locks they hold are typed, whatever sends,
\* acknowledgements and deletions of chats overlap, and a request that has
\* ended leaves nothing behind for the next.
THEOREM TypeCorrect == Spec => []TypeOK
<1>1. IInv => TypeOK
  BY DEF IInv
<1> QED BY <1>1, IInvAlways, PTL

\* message_available is published at most once for a direct message, and only
\* when add_text_message has stored it, however often its sender sends it and
\* however many of these requests overlap.
THEOREM AnnouncedOnceAlways == Spec => []AnnouncedOnce
<1>1. IInv => AnnouncedOnce
  BY DEF IInv, AnnouncedInv, AnnouncedOnce, TypeOK
<1> QED BY <1>1, IInvAlways, PTL

\* A stored direct message that is a reply points to a direct message of the
\* same two users that is there, although its target was read before it was
\* written.
THEOREM RepliesStayAlways == Spec => []RepliesStay
<1>1. IInv => RepliesStay
  BY DEF IInv
<1> QED BY <1>1, IInvAlways, PTL

\* When an acknowledgement was answered, each message it names has a verdict,
\* whatever other devices acknowledge, wait for or are rolled back.
THEOREM AckedIsJudgedAlways == Spec => []AckedIsJudged
<1>1. IInv => AckedIsJudged
  BY DEF IInv, AckedIsJudged
<1> QED BY <1>1, IInvAlways, PTL

----------------------------------------------------------------------------
(* The verdicts of devices *)

LEMMA VerdictsInit == Init => V!Init
BY DEF Init, V!Init, InboxRows

\* Where the verdict stays, the two ends see no change.
LEMMA SameRows ==
  ASSUME UNCHANGED verdict
  PROVE  InboxRows' = InboxRows
BY DEF InboxRows

\* What the two ends see of a message.
LEMMA RowSeen ==
  ASSUME IInv, NEW m \in Messages
  PROVE  /\ verdict[m] = "absent" <=> InboxRows[m] = None
         /\ verdict[m] # "absent" =>
              InboxRows[m] = [to |-> Draft[m].to, verdict |-> verdict[m]]
         /\ Draft[m].to \in Users
<1>1. Draft[m].to \in Users /\ verdict[m] \in {"absent", "waiting", "done", "failed"}
  BY DraftsAreDrafts DEF IInv, TypeOK
<1>2. verdict[m] # "absent" =>
        [to |-> Draft[m].to, verdict |-> verdict[m]] \in
          [to : Users, verdict : {"waiting", "done", "failed"}]
  BY <1>1
<1> QED BY <1>1, <1>2, NoneIsNothing DEF InboxRows

LEMMA ComeAsArrive ==
  ASSUME IInv, NEW M \in SUBSET Messages, M \cap Rows = {}, Arrives(M)
  PROVE  V!Arrive(M)
<1>1. \A m \in M : InboxRows[m] = None /\ Draft[m].to \in Users
  BY RowSeen DEF Rows
<1> DEFINE to == [m \in M |-> Draft[m].to]
<1>2. InboxRows' = [m \in Messages |-> IF m \in M THEN [to |-> to[m], verdict |-> "waiting"]
                                     ELSE InboxRows[m]]
  BY DEF InboxRows, Arrives
<1>3. to \in [M -> Users]
  BY <1>1
<1> QED BY <1>1, <1>2, <1>3 DEF V!Arrive

\* All that an acknowledgement commits is for its user and undecided, and is
\* decided at once.
LEMMA CommitsAsJudge ==
  ASSUME IInv, NEW h \in Handlers, CommitsAck(h)
  PROVE  handler[h].user \in Users /\ V!Judge(handler[h].user)
<1>1. PICK u : u = handler[h].user
  OBVIOUS
<1>2. PICK D : D = handler[h].gaveOk
  OBVIOUS
<1>3. PICK F : F = handler[h].gaveBad \ D
  OBVIOUS
<1>4. /\ handler[h] \in Handler /\ handler[h].op = "ack" /\ u \in Users
      /\ HandlerInv(h) /\ Gave(h) \subseteq handler[h].named /\ Gave(h) = D \cup F
  BY <1>1, <1>2, <1>3 DEF CommitsAck, IInv, TypeOK, Gave
<1>5. \A m \in D \cup F : m \in Messages /\ verdict[m] = "waiting" /\ Draft[m].to = u
  BY <1>1, <1>4 DEF HandlerInv, Handler
<1>6. \A m \in D \cup F : m \in V!Waiting(u)
  BY <1>5, RowSeen DEF V!Waiting
<1>7. verdict' = [m \in Messages |-> IF m \in D THEN "done"
                                    ELSE IF m \in F THEN "failed" ELSE verdict[m]]
  BY <1>2, <1>3 DEF CommitsAck
<1>8. ASSUME NEW m \in Messages
      PROVE  InboxRows'[m] = IF m \in D THEN [to |-> u, verdict |-> "done"]
                             ELSE IF m \in F THEN [to |-> u, verdict |-> "failed"]
                             ELSE InboxRows[m]
  BY <1>5, <1>7 DEF InboxRows
<1>9. InboxRows' = [m \in Messages |-> IF m \in D THEN [to |-> u, verdict |-> "done"]
                                      ELSE IF m \in F THEN [to |-> u, verdict |-> "failed"]
                                      ELSE InboxRows[m]]
  BY <1>8 DEF InboxRows
<1>10. D \in SUBSET V!Waiting(u) /\ F \in SUBSET (V!Waiting(u) \ D)
  BY <1>3, <1>6
<1>11. V!Judge(u)
  BY <1>9, <1>10 DEF V!Judge
<1> QED BY <1>1, <1>4, <1>11

LEMMA GoesAsVanish ==
  ASSUME NEW M \in SUBSET Messages, ChatGoes(M)
  PROVE  V!Vanish(M)
BY DEF ChatGoes, Vanishes, V!Vanish, InboxRows

LEMMA VerdictsStep == IInv /\ [Next]_vars => [V!Next]_InboxRows
<1> SUFFICES ASSUME IInv, [Next]_vars PROVE V!Next \/ InboxRows' = InboxRows
  OBVIOUS
<1>1. ASSUME NEW h \in Handlers, Stores(h) PROVE V!Next
  <2>1. PICK m : m = handler[h].message
    OBVIOUS
  <2>2. /\ m \in Messages /\ m \notin Rows
        /\ Arrives({m})
    BY <1>1, <2>1 DEF Stores, IdIsFree, IInv, TypeOK
  <2> QED BY <2>2, ComeAsArrive DEF V!Next
<1>2. ASSUME NEW h \in Handlers, CommitsAck(h) PROVE V!Next
  BY <1>2, CommitsAsJudge DEF V!Next
<1>3. ASSUME NEW M \in SUBSET Messages, ChatMessagesArrive(M) PROVE V!Next
  BY <1>3, ComeAsArrive DEF ChatMessagesArrive, V!Next
<1>4. ASSUME NEW M \in SUBSET Messages, ChatGoes(M) PROVE V!Next
  BY <1>4, GoesAsVanish DEF V!Next
<1>5. ASSUME NEW h \in Handlers, StartSome(h) \/ Drop(h) PROVE UNCHANGED verdict
  BY <1>5 DEF StartSome, StartSend, StartAck, Start, Drop
<1>6. ASSUME NEW h \in Handlers, Continue(h) PROVE V!Next \/ UNCHANGED verdict
  <2>1. CASE Stores(h) \/ CommitsAck(h)
    BY <1>1, <1>2, <2>1
  <2>2. CASE StoreFails(h) \/ Announces(h) \/ Victim(h)
    BY <2>2 DEF StoreFails, Announces, Victim
  <2>3. CASE \E m \in Messages : UpdatesRow(h, m) \/ PassesRow(h, m)
    BY <2>3 DEF UpdatesRow, PassesRow
  <2> QED BY <1>6, <2>1, <2>2, <2>3 DEF Continue
<1>7. CASE ContactsChange
  BY <1>7, SameRows DEF ContactsChange
<1>8. CASE UNCHANGED vars
  BY <1>8, SameRows DEF vars
<1>9. CASE Next
  BY <1>3, <1>4, <1>5, <1>6, <1>7, <1>9, SameRows DEF Next
<1> QED BY <1>8, <1>9

\* Requests of devices that overlap, wait for each other and are rolled back
\* look to the two ends of a message as if each acknowledgement decided, in
\* one step, all that was undecided of what it committed; a verdict that was
\* given is never changed.
THEOREM VerdictsImplemented == Spec => ImplementsVerdicts
BY VerdictsInit, VerdictsStep, IInvAlways, PTL DEF Spec, ImplementsVerdicts, V!Spec
=============================================================================
