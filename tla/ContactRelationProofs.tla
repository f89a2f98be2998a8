----------------------- MODULE ContactRelationProofs -----------------------
(***************************************************************************)
(* Proofs about ContactRelation, for any users, ids and overlapping        *)
(* requests.  All rest on one inductive invariant, IInv.                   *)
(***************************************************************************)
EXTENDS ContactRelation, TLAPS

(* The inductive invariant *)

\* Only the two users of a row agree to it, and who asked did; nobody has
\* agreed to a row that is not there.
RowInv(i) ==
  /\ i \in Rows => agreed[i] \subseteq Pair(i)
  /\ i \notin Rows => agreed[i] = {}
  /\ contact[i].status = "pending" => contact[i].sender \in agreed[i]
  /\ contact[i].status = "accepted" => agreed[i] = Pair(i)

\* What a request in progress knows: the id it read is used up, and while the
\* row is there it is of the same two users, and who asked has asked.
HandlerInv(q) ==
  q.op # "none" =>
    /\ q.actor \in Users /\ q.other \in Users /\ q.actor # q.other
    /\ q.seen # NoId => q.seen \in drawn
    /\ q.seen \in Rows => Pair(q.seen) = {q.actor, q.other}
    /\ q.op \in {"accept", "reject"} => q.seen # NoId
    /\ q.op = "accept" /\ q.seen \in Rows => q.other \in agreed[q.seen]

\* A request that would overwrite a blacklisting is older.
BlacklistInv(h) ==
  LET q == handler[h] IN
  q.op \in {"request", "accept", "reject"} /\ q.seen \in Rows
    /\ contact[q.seen].status = "blacklist" => h \in unsettled[q.seen]

IInv ==
  /\ TypeOK
  /\ OnePerPair
  /\ \A i \in Ids : RowInv(i)
  /\ \A h \in Handlers : HandlerInv(handler[h]) /\ BlacklistInv(h)

LEMMA IInvInit == Init => IInv
<1> SUFFICES ASSUME Init PROVE IInv
  OBVIOUS
<1>1. Rows = {}
  BY DEF Init, Rows, NoRow
<1>2. TypeOK
  BY <1>1 DEF Init, TypeOK, NoRow, Contact, Idle, Handler
<1>3. OnePerPair /\ \A i \in Ids : RowInv(i)
  BY <1>1 DEF Init, OnePerPair, RowInv, NoRow
<1>4. \A h \in Handlers : HandlerInv(handler[h]) /\ BlacklistInv(h)
  BY <1>1 DEF Init, HandlerInv, BlacklistInv, Idle
<1> QED BY <1>2, <1>3, <1>4 DEF IInv

----------------------------------------------------------------------------
(* Steps *)

LEMMA IdleIsHandler == Idle \in Handler /\ Idle.op = "none"
BY DEF Idle, Handler

\* A request q begins with what it has read.
LEMMA StartKeeps ==
  ASSUME IInv, NEW h \in Handlers, NEW op, NEW u, NEW v, NEW s,
         Start(h, op, u, v, s),
         op \in {"request", "blacklist", "accept", "reject"},
         u \in Users, v \in Users, u # v, s \in Rows \cup {NoId},
         s \in Rows => Pair(s) = {u, v},
         op \in {"accept", "reject"} => s # NoId,
         op = "accept" => v \in agreed[s],
         op # "blacklist" /\ s \in Rows => contact[s].status # "blacklist"
  PROVE  IInv'
<1> DEFINE q == [op |-> op, actor |-> u, other |-> v, seen |-> s]
<1>1. /\ q \in Handler /\ q.op = op /\ q.actor = u /\ q.other = v /\ q.seen = s
      /\ op # "none"
  BY DEF Handler, Rows
<1>2. /\ handler' = [handler EXCEPT ![h] = q]
      /\ UNCHANGED <<contact, drawn, agreed, unsettled>>
  BY DEF Start
<1> HIDE DEF q
<1>3. Rows' = Rows /\ \A i \in Ids : Pair(i)' = Pair(i)
  BY <1>2 DEF Rows, Pair
<1>4. \A g \in Handlers : handler'[g] = IF g = h THEN q ELSE handler[g]
  BY <1>2 DEF IInv, TypeOK
<1>5. TypeOK'
  <2>1. \A g \in Handlers : handler'[g].op = "none" => handler'[g] = Idle
    BY <1>1, <1>4 DEF IInv, TypeOK
  <2>2. (\A i \in Rows : \E w \in Users : \E x \in Users \ {w} : Pair(i) = {w, x})'
    <3> SUFFICES ASSUME NEW i \in Rows
                 PROVE  \E w \in Users : \E x \in Users \ {w} : Pair(i)' = {w, x}
      BY <1>3
    <3>1. Pair(i)' = Pair(i)
      BY <1>3 DEF Rows
    <3> QED BY <3>1 DEF IInv, TypeOK
  <2>3. handler' \in [Handlers -> Handler]
    BY <1>1, <1>2 DEF IInv, TypeOK
  <2> QED BY <1>2, <1>3, <2>1, <2>2, <2>3 DEF IInv, TypeOK
<1>6. OnePerPair' /\ \A i \in Ids : RowInv(i)'
  BY <1>2 DEF IInv, OnePerPair, RowInv, Rows, Pair
<1>7. \A g \in Handlers : HandlerInv(handler[g])'
  <2> SUFFICES ASSUME NEW g \in Handlers PROVE HandlerInv(handler[g])'
    OBVIOUS
  <2>1. CASE g = h
    <3>1. s # NoId => s \in drawn
      BY DEF IInv, TypeOK
    <3>2. HandlerInv(q)
      BY <1>1, <3>1 DEF HandlerInv
    <3>3. handler'[g] = q
      BY <1>4, <2>1
    <3> QED BY <1>2, <3>2, <3>3 DEF HandlerInv, Rows, Pair
  <2>2. CASE g # h
    <3>1. HandlerInv(handler[g]) /\ handler'[g] = handler[g]
      BY <1>4, <2>2 DEF IInv
    <3> QED BY <1>2, <3>1 DEF HandlerInv, Rows, Pair
  <2> QED BY <2>1, <2>2
<1>8. \A g \in Handlers : BlacklistInv(g)'
  BY <1>1, <1>2, <1>3, <1>4 DEF IInv, BlacklistInv
<1> QED BY <1>5, <1>6, <1>7, <1>8 DEF IInv

LEMMA StartSomeKeeps ==
  ASSUME IInv, NEW h \in Handlers, StartSome(h)
  PROVE  IInv'
<1>1. ASSUME NEW u \in Users, NEW v \in Users, StartRequest(h, u, v)
      PROVE  IInv'
  <2>1. CASE Start(h, "request", u, v, NoId)
    BY <1>1, <2>1, NoIdIsNone, StartKeeps DEF StartRequest, Rows
  <2>2. CASE \E i \in Between(u, v) : MayBeAsked(i) /\ Start(h, "request", u, v, i)
    BY <1>1, <2>2, StartKeeps DEF StartRequest, Between, MayBeAsked
  <2> QED BY <1>1, <2>1, <2>2 DEF StartRequest
<1>2. ASSUME NEW u \in Users, NEW v \in Users, StartBlacklist(h, u, v)
      PROVE  IInv'
  <2>1. CASE Start(h, "blacklist", u, v, NoId)
    BY <1>2, <2>1, NoIdIsNone, StartKeeps DEF StartBlacklist, Rows
  <2>2. CASE \E i \in Between(u, v) : Start(h, "blacklist", u, v, i)
    BY <1>2, <2>2, StartKeeps DEF StartBlacklist, Between
  <2> QED BY <1>2, <2>1, <2>2 DEF StartBlacklist
<1>3. ASSUME NEW i \in Ids, NEW u \in Users, NEW op \in {"accept", "reject"},
             StartAnswer(h, op, i, u)
      PROVE  IInv'
  <2>1. /\ i \in Rows /\ contact[i].status = "pending" /\ u = contact[i].receiver
        /\ \E v \in Pair(i) \ {u} : Start(h, op, u, v, i)
    BY <1>3 DEF StartAnswer, Asked
  <2>2. PICK v \in Pair(i) \ {u} : Start(h, op, u, v, i)
    BY <2>1
  <2>3. v = contact[i].sender /\ v # u /\ Pair(i) = {u, v} /\ v \in Users
    BY <2>1, <2>2 DEF IInv, TypeOK, Pair
  <2>4. v \in agreed[i]
    BY <2>1, <2>3 DEF IInv, RowInv
  <2>5. i # NoId
    BY NoIdIsNone
  <2> QED BY <2>1, <2>2, <2>3, <2>4, <2>5, StartKeeps
<1> QED BY <1>1, <1>2, <1>3 DEF StartSome

\* Row i may become r, with A the users who have agreed to it.
RowFits(i, r, A) ==
  /\ i \in Rows \/ i \notin drawn
  /\ r \in Contact /\ A \in SUBSET Users
  /\ r.status # "none" =>
       /\ \E u \in Users : \E v \in Users \ {u} : {r.sender, r.receiver} = {u, v}
       /\ A \subseteq {r.sender, r.receiver}
       /\ i \in Rows => {r.sender, r.receiver} = Pair(i) /\ agreed[i] \subseteq A
       /\ i \notin Rows => \A j \in Rows : Pair(j) # {r.sender, r.receiver}
  /\ r.status = "none" => A = {}
  /\ r.status = "pending" => r.sender \in A
  /\ r.status = "accepted" => A = {r.sender, r.receiver}

\* A request ends, or none; those that go on are still older than the
\* blacklistings they were older than.
OthersGoOn(i) ==
  /\ \/ handler' = handler
     \/ \E h \in Handlers : handler' = [handler EXCEPT ![h] = Idle]
  /\ unsettled' \in [Ids -> SUBSET Handlers]
  /\ \A j \in Ids \ {i} : \A g \in Handlers :
       handler'[g] # Idle /\ g \in unsettled[j] => g \in unsettled'[j]

\* Row i becomes r; agreed and unsettled follow.
LEMMA RowChanges ==
  ASSUME IInv, NEW i \in Ids, NEW r, NEW A, RowFits(i, r, A), OthersGoOn(i),
         contact' = [contact EXCEPT ![i] = r],
         agreed' = [agreed EXCEPT ![i] = A],
         drawn' = drawn \cup {i},
         r.status = "blacklist" => \A g \in Handlers : handler'[g] # Idle => g \in unsettled'[i]
  PROVE  IInv'
<1> USE DEF RowFits, OthersGoOn
<1>1. \A j \in Ids : contact'[j] = IF j = i THEN r ELSE contact[j]
  BY DEF IInv, TypeOK
<1>2. \A j \in Ids : agreed'[j] = IF j = i THEN A ELSE agreed[j]
  BY DEF IInv, TypeOK
<1>3. /\ \A j \in Ids \ {i} : j \in Rows' <=> j \in Rows
      /\ i \in Rows' <=> r.status # "none"
  BY <1>1 DEF Rows
<1>4. \A j \in Ids : Pair(j)' = IF j = i THEN {r.sender, r.receiver} ELSE Pair(j)
  BY <1>1 DEF Pair
<1>5. \A g \in Handlers : handler'[g] \in {handler[g], Idle}
  BY DEF IInv, TypeOK
<1>6. TypeOK'
  <2>1. contact' \in [Ids -> Contact] /\ agreed' \in [Ids -> SUBSET Users]
    BY DEF IInv, TypeOK
  <2>2. Rows' \subseteq drawn' /\ drawn' \subseteq Ids
    BY <1>3 DEF IInv, TypeOK, Rows
  <2>3. (\A j \in Rows : \E u \in Users : \E v \in Users \ {u} : Pair(j) = {u, v})'
    <3> SUFFICES ASSUME NEW j \in Rows'
                 PROVE  \E u \in Users : \E v \in Users \ {u} : Pair(j)' = {u, v}
      OBVIOUS
    <3>1. j \in Ids
      BY DEF Rows
    <3>2. CASE j = i
      BY <1>3, <1>4, <3>1, <3>2
    <3>3. CASE j # i
      BY <1>3, <1>4, <3>1, <3>3 DEF IInv, TypeOK
    <3> QED BY <3>2, <3>3
  <2>4. handler' \in [Handlers -> Handler]
    BY IdleIsHandler DEF IInv, TypeOK
  <2>5. \A g \in Handlers : handler'[g].op = "none" => handler'[g] = Idle
    BY <1>5 DEF IInv, TypeOK
  <2> QED BY <2>1, <2>2, <2>3, <2>4, <2>5 DEF TypeOK
<1>7. OnePerPair'
  <2> SUFFICES ASSUME NEW j \in Rows', NEW k \in Rows', Pair(j)' = Pair(k)', j # k
               PROVE  FALSE
    BY DEF OnePerPair
  <2>1. j \in Ids /\ k \in Ids
    BY DEF Rows
  <2>2. CASE j # i /\ k # i
    BY <1>3, <1>4, <2>1, <2>2 DEF IInv, OnePerPair
  <2>3. CASE j = i
    BY <1>3, <1>4, <2>1, <2>3 DEF IInv, OnePerPair
  <2>4. CASE k = i
    BY <1>3, <1>4, <2>1, <2>4 DEF IInv, OnePerPair
  <2> QED BY <2>2, <2>3, <2>4
<1>8. ASSUME NEW j \in Ids PROVE RowInv(j)'
  <2>1. CASE j = i
    <3>1. contact'[j] = r /\ agreed'[j] = A /\ Pair(j)' = {r.sender, r.receiver}
          /\ (j \in Rows' <=> r.status # "none")
      BY <1>1, <1>2, <1>3, <1>4, <2>1
    <3> QED BY <3>1 DEF RowInv
  <2>2. CASE j # i
    <3>1. RowInv(j)
      BY DEF IInv
    <3>2. contact'[j] = contact[j] /\ agreed'[j] = agreed[j]
          /\ Pair(j)' = Pair(j) /\ (j \in Rows' <=> j \in Rows)
      BY <1>1, <1>2, <1>3, <1>4, <2>2
    <3> QED BY <3>1, <3>2 DEF RowInv
  <2> QED BY <2>1, <2>2
<1>9. ASSUME NEW g \in Handlers PROVE HandlerInv(handler[g])'
  <2>1. CASE handler'[g] = Idle
    BY <2>1, IdleIsHandler DEF HandlerInv
  <2>2. CASE handler'[g] = handler[g] /\ handler[g].op # "none"
    <3> PICK q : q = handler[g]
      OBVIOUS
    <3>1. HandlerInv(q) /\ q.seen \in Ids \cup {NoId}
      BY DEF IInv, TypeOK, Handler
    <3>2. q.seen # NoId => q.seen \in drawn'
      BY <2>2, <3>1 DEF HandlerInv
    <3>3. q.seen \in Rows' => q.seen \in Rows
      BY <1>3, <2>2, <3>1, NoIdIsNone DEF HandlerInv, Rows
    <3>4. q.seen \in Rows' => Pair(q.seen)' = {q.actor, q.other}
      BY <1>3, <1>4, <2>2, <3>1, <3>3 DEF HandlerInv, Rows
    <3>5. q.op = "accept" /\ q.seen \in Rows' => q.other \in agreed'[q.seen]
      BY <1>2, <1>3, <2>2, <3>1, <3>3 DEF HandlerInv, Rows
    <3>6. handler'[g] = q
      BY <2>2
    <3> QED BY <2>2, <3>1, <3>2, <3>4, <3>5, <3>6 DEF HandlerInv, Pair
  <2> QED BY <1>5, <2>1, <2>2 DEF IInv, TypeOK
<1>10. ASSUME NEW g \in Handlers PROVE BlacklistInv(g)'
  <2>1. CASE handler'[g] = Idle
    BY <2>1, IdleIsHandler DEF BlacklistInv
  <2>2. CASE handler'[g] # Idle
    <3> PICK s : s = handler[g].seen
      OBVIOUS
    <3>1. handler'[g] = handler[g] /\ BlacklistInv(g)
      BY <1>5, <2>2 DEF IInv
    <3>2. CASE s = i
      BY <1>1, <2>2, <3>1, <3>2 DEF BlacklistInv
    <3>3. CASE s \in Ids \ {i}
      BY <1>1, <1>3, <2>2, <3>1, <3>3 DEF BlacklistInv
    <3>4. CASE s \notin Ids
      BY <3>1, <3>4 DEF BlacklistInv, Rows
    <3> QED BY <3>2, <3>3, <3>4
  <2> QED BY <2>1, <2>2
<1> QED BY <1>6, <1>7, <1>8, <1>9, <1>10 DEF IInv

\* A request that only ends keeps the invariant.
LEMMA EndKeeps ==
  ASSUME IInv, NEW h \in Handlers, handler' \in {handler, [handler EXCEPT ![h] = Idle]},
         UNCHANGED <<contact, drawn, agreed>>,
         unsettled' \in [Ids -> SUBSET Handlers],
         \A j \in Ids : \A g \in Handlers :
           handler'[g] # Idle /\ g \in unsettled[j] => g \in unsettled'[j]
  PROVE  IInv'
<1>1. \A g \in Handlers : handler'[g] \in {handler[g], Idle}
  BY DEF IInv, TypeOK
<1>2. Rows' = Rows /\ \A i \in Ids : Pair(i)' = Pair(i)
  BY DEF Rows, Pair
<1>3. TypeOK'
  <2>1. (\A i \in Rows : \E w \in Users : \E x \in Users \ {w} : Pair(i) = {w, x})'
    <3> SUFFICES ASSUME NEW i \in Rows
                 PROVE  \E w \in Users : \E x \in Users \ {w} : Pair(i)' = {w, x}
      BY <1>2
    <3>1. Pair(i)' = Pair(i)
      BY <1>2 DEF Rows
    <3> QED BY <3>1 DEF IInv, TypeOK
  <2>2. handler' \in [Handlers -> Handler]
    BY IdleIsHandler DEF IInv, TypeOK
  <2>3. \A g \in Handlers : handler'[g].op = "none" => handler'[g] = Idle
    BY <1>1 DEF IInv, TypeOK
  <2> QED BY <1>2, <2>1, <2>2, <2>3 DEF IInv, TypeOK
<1>4. OnePerPair' /\ \A i \in Ids : RowInv(i)'
  BY DEF IInv, OnePerPair, RowInv, Rows, Pair
<1>5. ASSUME NEW g \in Handlers PROVE HandlerInv(handler[g])' /\ BlacklistInv(g)'
  <2>1. CASE handler'[g] = Idle
    BY <2>1, IdleIsHandler DEF HandlerInv, BlacklistInv
  <2>2. CASE handler'[g] = handler[g] /\ handler'[g] # Idle
    <3>1. HandlerInv(handler[g]) /\ BlacklistInv(g)
      BY DEF IInv
    <3>2. HandlerInv(handler[g])'
      BY <2>2, <3>1 DEF HandlerInv, Rows, Pair
    <3>3. BlacklistInv(g)'
      BY <1>2, <2>2, <3>1 DEF BlacklistInv, Rows
    <3> QED BY <3>2, <3>3
  <2> QED BY <1>1, <2>1, <2>2
<1> QED BY <1>3, <1>4, <1>5 DEF IInv

\* What Settle does to the older requests.
LEMMA SettleForgetsOne ==
  ASSUME IInv, NEW h \in Handlers, End(h), Settle(h)
  PROVE  /\ handler' = [handler EXCEPT ![h] = Idle]
         /\ unsettled' \in [Ids -> SUBSET Handlers]
         /\ \A j \in Ids : \A g \in Handlers :
              handler'[g] # Idle /\ g \in unsettled[j] => g \in unsettled'[j]
BY DEF End, Settle, IInv, TypeOK

LEMMA FailKeeps ==
  ASSUME IInv, NEW h \in Handlers, WriteFails(h) \/ Drop(h)
  PROVE  IInv'
<1>1. End(h) /\ Settle(h) /\ UNCHANGED <<contact, drawn, agreed>>
  BY DEF WriteFails, Drop
<1> QED BY <1>1, SettleForgetsOne, EndKeeps

\* A request or a blacklisting writes row i, a new one or one of its pair.
LEMMA RelateKeeps ==
  ASSUME IInv, NEW h \in Handlers, NEW i \in Ids, Relates(h), Relate(h, i),
         drawn' = drawn \cup {i},
         \/ i \in Rows /\ i = handler[h].seen
         \/ i \notin drawn /\ Between(handler[h].actor, handler[h].other) = {}
  PROVE  IInv'
<1> PICK u, v : u = handler[h].actor /\ v = handler[h].other
  OBVIOUS
<1>1. /\ u \in Users /\ v \in Users /\ u # v
      /\ i \in Rows => Pair(i) = {u, v}
  <2>1. Rows \subseteq drawn /\ handler[h].op # "none"
    BY DEF IInv, TypeOK, Relates
  <2>2. HandlerInv(handler[h])
    BY DEF IInv
  <2> QED BY <2>1, <2>2 DEF HandlerInv
<1>2. i \notin Rows => \A j \in Rows : Pair(j) # {u, v}
  BY DEF Between
<1>3. \E x \in Users : \E y \in Users \ {x} : {u, v} = {x, y}
  BY <1>1
<1>4. agreed[i] \subseteq {u, v} /\ agreed[i] \in SUBSET Users
  BY <1>1 DEF IInv, TypeOK, RowInv
<1>5. i \in Rows \/ i \notin drawn
  OBVIOUS
<1>6. CASE handler[h].op = "request"
  <2> PICK r, A : r = Row(u, v, "pending") /\ A = agreed[i] \cup {u}
    OBVIOUS
  <2>1. /\ r \in Contact /\ r.sender = u /\ r.receiver = v /\ r.status = "pending"
        /\ A \in SUBSET Users /\ A \subseteq {u, v} /\ agreed[i] \subseteq A /\ u \in A
    BY <1>1, <1>4 DEF Row, Contact
  <2>2. /\ contact' = [contact EXCEPT ![i] = r]
        /\ agreed' = [agreed EXCEPT ![i] = A]
        /\ Settle(h) /\ End(h)
    BY <1>6 DEF Relate
  <2>3. /\ handler' = [handler EXCEPT ![h] = Idle]
        /\ unsettled' \in [Ids -> SUBSET Handlers]
        /\ \A j \in Ids : \A g \in Handlers :
             handler'[g] # Idle /\ g \in unsettled[j] => g \in unsettled'[j]
    BY <2>2, SettleForgetsOne
  <2>4. RowFits(i, r, A)
    BY <1>1, <1>2, <1>3, <1>5, <2>1 DEF RowFits
  <2>5. OthersGoOn(i)
    BY <2>3 DEF OthersGoOn
  <2> QED BY <2>1, <2>2, <2>4, <2>5, RowChanges
<1>7. CASE handler[h].op = "blacklist"
  <2> PICK r, A : r = Row(u, v, "blacklist") /\ A = agreed[i]
    OBVIOUS
  <2>1. /\ r \in Contact /\ r.sender = u /\ r.receiver = v /\ r.status = "blacklist"
        /\ A \in SUBSET Users /\ A \subseteq {u, v}
    BY <1>1, <1>4 DEF Row, Contact
  <2>2. /\ contact' = [contact EXCEPT ![i] = r]
        /\ agreed' = [agreed EXCEPT ![i] = A]
        /\ handler' = [handler EXCEPT ![h] = Idle]
    BY <1>7 DEF Relate, End, IInv, TypeOK
  <2>3. /\ unsettled' = [j \in Ids |-> IF j = i THEN Running \ {h}
                                                ELSE unsettled[j] \ {h}]
        /\ Running = {g \in Handlers : handler[g] # Idle}
    BY <1>7 DEF Relate, Running
  <2>4. \A g \in Handlers : handler'[g] = IF g = h THEN Idle ELSE handler[g]
    BY <2>2 DEF IInv, TypeOK
  <2>5. unsettled' \in [Ids -> SUBSET Handlers]
    BY <2>3 DEF IInv, TypeOK
  <2>6. \A j \in Ids \ {i} : \A g \in Handlers :
          handler'[g] # Idle /\ g \in unsettled[j] => g \in unsettled'[j]
    BY <2>3, <2>4
  <2>7. \A g \in Handlers : handler'[g] # Idle => g \in unsettled'[i]
    BY <2>3, <2>4
  <2>8. RowFits(i, r, A)
    BY <1>1, <1>2, <1>3, <1>5, <2>1 DEF RowFits
  <2>9. OthersGoOn(i)
    BY <2>2, <2>5, <2>6 DEF OthersGoOn
  <2> QED BY <2>2, <2>7, <2>8, <2>9, RowChanges
<1> QED BY <1>6, <1>7 DEF Relates

LEMMA AcceptsKeeps ==
  ASSUME IInv, NEW h \in Handlers, Accepts(h)
  PROVE  IInv'
<1> PICK i, u, v : i = handler[h].seen /\ u = handler[h].actor /\ v = handler[h].other
  OBVIOUS
<1>1. /\ i \in Rows /\ i \in Ids /\ i \in drawn
      /\ u \in Users /\ v \in Users /\ u # v /\ Pair(i) = {u, v} /\ v \in agreed[i]
      /\ agreed[i] \subseteq {u, v}
  BY DEF Accepts, IInv, TypeOK, HandlerInv, RowInv, Rows
<1> PICK c : c = contact[i]
  OBVIOUS
<1> PICK r, A : r = Row(c.sender, c.receiver, "accepted") /\ A = agreed[i] \cup {u}
  OBVIOUS
<1>0. c \in Contact /\ r = [c EXCEPT !.status = "accepted"]
  BY <1>1 DEF IInv, TypeOK, Contact, Row
<1>2. /\ r \in Contact /\ r.status = "accepted" /\ {r.sender, r.receiver} = {u, v}
      /\ A = {u, v}
  BY <1>0, <1>1 DEF Contact, Pair, Row
<1>3. /\ contact' = [contact EXCEPT ![i] = r]
      /\ agreed' = [agreed EXCEPT ![i] = A]
      /\ drawn' = drawn \cup {i}
      /\ Settle(h) /\ End(h)
  <2>1. contact' = [contact EXCEPT ![i].status = "accepted"]
    BY DEF Accepts
  <2>2. contact' = [contact EXCEPT ![i] = [c EXCEPT !.status = "accepted"]]
    BY <2>1 DEF IInv, TypeOK
  <2>3. agreed' = [agreed EXCEPT ![i] = A] /\ drawn' = drawn \cup {i} /\ Settle(h) /\ End(h)
    BY <1>1 DEF Accepts
  <2> QED BY <1>0, <2>2, <2>3
<1>4. /\ handler' = [handler EXCEPT ![h] = Idle]
      /\ unsettled' \in [Ids -> SUBSET Handlers]
      /\ \A j \in Ids : \A g \in Handlers :
           handler'[g] # Idle /\ g \in unsettled[j] => g \in unsettled'[j]
  BY <1>3, SettleForgetsOne
<1>5. \E x \in Users : \E y \in Users \ {x} : {r.sender, r.receiver} = {x, y}
  BY <1>1, <1>2
<1>6. RowFits(i, r, A)
  BY <1>1, <1>2, <1>5 DEF RowFits
<1>7. OthersGoOn(i)
  BY <1>4 DEF OthersGoOn
<1> QED BY <1>1, <1>2, <1>3, <1>6, <1>7, RowChanges

LEMMA RejectsKeeps ==
  ASSUME IInv, NEW h \in Handlers, Rejects(h)
  PROVE  IInv'
<1> PICK i : i = handler[h].seen
  OBVIOUS
<1>1. i \in Rows /\ i \in Ids /\ i \in drawn
  BY DEF Rejects, IInv, TypeOK, Rows
<1>2. NoRow \in Contact /\ NoRow.status = "none"
  BY DEF NoRow, Contact
<1>3. /\ contact' = [contact EXCEPT ![i] = NoRow]
      /\ agreed' = [agreed EXCEPT ![i] = {}]
      /\ drawn' = drawn \cup {i}
      /\ Settle(h) /\ End(h)
  BY <1>1 DEF Rejects
<1>4. /\ handler' = [handler EXCEPT ![h] = Idle]
      /\ unsettled' \in [Ids -> SUBSET Handlers]
      /\ \A j \in Ids : \A g \in Handlers :
           handler'[g] # Idle /\ g \in unsettled[j] => g \in unsettled'[j]
  BY <1>3, SettleForgetsOne
<1>5. RowFits(i, NoRow, {})
  BY <1>1, <1>2 DEF RowFits
<1>6. OthersGoOn(i)
  BY <1>4 DEF OthersGoOn
<1> QED BY <1>1, <1>2, <1>3, <1>5, <1>6, RowChanges

\* Blank rows change no row there is, and so nothing that a request read.
LEMMA AddBlanksKeeps ==
  ASSUME IInv, NEW u \in Users, NEW P \in SUBSET Users, AddBlanks(u, P)
  PROVE  IInv'
<1>1. PICK I \in SUBSET (Ids \ drawn) : \E peer \in [I -> P \ {u}] :
        /\ \A i, j \in I : peer[i] = peer[j] => i = j
        /\ {peer[i] : i \in I} = {v \in P \ {u} : PairIsFree(u, v)}
        /\ drawn' = drawn \cup I
        /\ contact' = [i \in Ids |-> IF i \in I THEN Row(u, peer[i], "blank")
                                                ELSE contact[i]]
        /\ UNCHANGED <<handler, agreed, unsettled>>
  BY DEF AddBlanks
<1>2. PICK peer \in [I -> P \ {u}] :
        /\ \A i, j \in I : peer[i] = peer[j] => i = j
        /\ {peer[i] : i \in I} = {v \in P \ {u} : PairIsFree(u, v)}
        /\ drawn' = drawn \cup I
        /\ contact' = [i \in Ids |-> IF i \in I THEN Row(u, peer[i], "blank")
                                                ELSE contact[i]]
        /\ UNCHANGED <<handler, agreed, unsettled>>
  BY <1>1
<1>3. \A i \in I : /\ i \in Ids /\ i \notin drawn /\ i \notin Rows
                   /\ peer[i] \in Users \ {u} /\ Between(u, peer[i]) = {}
  BY <1>2 DEF IInv, TypeOK, PairIsFree
<1>4. ASSUME NEW i \in I
      PROVE  /\ contact'[i] \in Contact
             /\ contact'[i].sender = u /\ contact'[i].receiver = peer[i]
             /\ contact'[i].status = "blank"
  BY <1>2, <1>3 DEF Row, Contact
<1>5. \A i \in Ids \ I : contact'[i] = contact[i]
  BY <1>2
<1>6. Rows' = Rows \cup I
  BY <1>4, <1>5, <1>3 DEF Rows
<1>7. /\ \A i \in I : Pair(i)' = {u, peer[i]}
      /\ \A i \in Rows : Pair(i)' = Pair(i)
  BY <1>3, <1>4, <1>5 DEF Pair, Rows
<1>8. TypeOK'
  <2>1. contact' \in [Ids -> Contact]
    BY <1>2, <1>4, <1>5 DEF IInv, TypeOK
  <2>2. Rows' \subseteq drawn' /\ drawn' \subseteq Ids
    BY <1>2, <1>6 DEF IInv, TypeOK
  <2>3. \A i \in Rows' : \E x \in Users : \E y \in Users \ {x} : Pair(i)' = {x, y}
    BY <1>3, <1>6, <1>7 DEF IInv, TypeOK
  <2> QED BY <1>2, <2>1, <2>2, <2>3 DEF IInv, TypeOK
<1>9. OnePerPair'
  <2> SUFFICES ASSUME NEW i \in Rows', NEW j \in Rows', Pair(i)' = Pair(j)'
               PROVE  i = j
    BY DEF OnePerPair
  <2>1. CASE i \in Rows /\ j \in Rows
    BY <1>7, <2>1 DEF IInv, OnePerPair
  <2>2. CASE i \in I /\ j \in I
    <3>1. peer[i] = peer[j]
      BY <1>3, <1>7, <2>2
    <3> QED BY <1>2, <2>2, <3>1
  <2>3. CASE i \in I /\ j \in Rows
    BY <1>3, <1>7, <2>3 DEF Between
  <2>4. CASE i \in Rows /\ j \in I
    BY <1>3, <1>7, <2>4 DEF Between
  <2> QED BY <1>6, <2>1, <2>2, <2>3, <2>4
<1>10. ASSUME NEW i \in Ids PROVE RowInv(i)'
  <2>1. CASE i \in I
    BY <1>2, <1>3, <1>4, <1>6, <2>1 DEF RowInv, IInv
  <2>2. CASE i \notin I
    BY <1>2, <1>5, <1>6, <2>2 DEF RowInv, IInv, Pair
  <2> QED BY <2>1, <2>2
<1>11. ASSUME NEW h \in Handlers PROVE HandlerInv(handler[h])' /\ BlacklistInv(h)'
  <2>1. handler'[h] = handler[h] /\ HandlerInv(handler[h]) /\ BlacklistInv(h)
    BY <1>2 DEF IInv
  <2>2. handler[h].op # "none" => handler[h].seen \notin I
    BY <1>3, <2>1, NoIdIsNone DEF HandlerInv
  <2>3. HandlerInv(handler[h])'
    BY <1>2, <1>6, <1>7, <2>1, <2>2 DEF HandlerInv
  <2>4. BlacklistInv(h)'
    BY <1>2, <1>5, <1>6, <2>1, <2>2 DEF BlacklistInv, Rows
  <2> QED BY <2>3, <2>4
<1> QED BY <1>8, <1>9, <1>10, <1>11 DEF IInv

LEMMA IInvNext == IInv /\ [Next]_vars => IInv'
<1> SUFFICES ASSUME IInv, [Next]_vars PROVE IInv'
  OBVIOUS
<1>1. ASSUME NEW h \in Handlers, StartSome(h) PROVE IInv'
  BY <1>1, StartSomeKeeps
<1>2. ASSUME NEW h \in Handlers, NEW i \in Ids, InsertsRelation(h, i) PROVE IInv'
  BY <1>2, RelateKeeps DEF InsertsRelation, PairIsFree
<1>3. ASSUME NEW h \in Handlers, UpdatesRelation(h) PROVE IInv'
  <2>1. handler[h].seen \in Rows /\ handler[h].seen \in Ids /\ handler[h].seen \in drawn
    BY <1>3 DEF UpdatesRelation, Rows, IInv, TypeOK
  <2>2. drawn' = drawn \cup {handler[h].seen}
    BY <1>3, <2>1 DEF UpdatesRelation
  <2> QED BY <1>3, <2>1, <2>2, RelateKeeps DEF UpdatesRelation
<1>4. ASSUME NEW h \in Handlers, Accepts(h) PROVE IInv'
  BY <1>4, AcceptsKeeps
<1>5. ASSUME NEW h \in Handlers, Rejects(h) PROVE IInv'
  BY <1>5, RejectsKeeps
<1>6. ASSUME NEW h \in Handlers, WriteFails(h) \/ Drop(h) PROVE IInv'
  BY <1>6, FailKeeps
<1>7. ASSUME NEW u \in Users, NEW P \in SUBSET Users, AddBlanks(u, P)
      PROVE  IInv'
  BY <1>7, AddBlanksKeeps
<1>8. CASE UNCHANGED vars
  <2>1. TypeOK'
    BY <1>8 DEF vars, IInv, TypeOK, Rows, Pair
  <2>2. OnePerPair' /\ \A i \in Ids : RowInv(i)'
    BY <1>8 DEF vars, IInv, OnePerPair, RowInv, Rows, Pair
  <2>3. ASSUME NEW h \in Handlers PROVE HandlerInv(handler[h])' /\ BlacklistInv(h)'
    BY <1>8 DEF vars, IInv, HandlerInv, BlacklistInv, Rows, Pair
  <2> QED BY <2>1, <2>2, <2>3 DEF IInv
<1> QED BY <1>1, <1>2, <1>3, <1>4, <1>5, <1>6, <1>7, <1>8 DEF Next, Continue

LEMMA IInvAlways == Spec => []IInv
BY IInvInit, IInvNext, PTL DEF Spec

----------------------------------------------------------------------------
(* Theorems *)

\* Rows, requests and history have their types in every reachable state.
THEOREM TypeCorrect == Spec => []TypeOK
BY IInvAlways, PTL DEF IInv

\* Two users never share two rows, however their requests, blacklistings and
\* the blank rows of chats and messages overlap.
THEOREM OnePerPairAlways == Spec => []OnePerPair
BY IInvAlways, PTL DEF IInv

\* Nobody becomes a contact without having asked or accepted.
THEOREM AcceptedByBothAlways == Spec => []AcceptedByBoth
<1>1. IInv => AcceptedByBoth
  BY DEF IInv, RowInv, AcceptedByBoth, Rows
<1> QED BY <1>1, IInvAlways, PTL

\* A blacklisting that no older request is running against is changed by no
\* request, answer, chat, message or file.
THEOREM SettledBlacklistStaysAlways == Spec => SettledBlacklistStays
<1> DEFINE Stays == \A i \in Rows :
                      contact[i].status = "blacklist" /\ unsettled[i] = {} =>
                        contact'[i].status = "blacklist"
<1>1. IInv /\ [Next]_vars => [Stays]_vars
  <2> SUFFICES ASSUME IInv, Next, NEW i \in Rows,
                      contact[i].status = "blacklist", unsettled[i] = {}
               PROVE  contact'[i].status = "blacklist"
    OBVIOUS
  <2>1. i \in Ids
    BY DEF Rows
  <2>2. ASSUME NEW h \in Handlers, handler[h].op \in {"request", "accept", "reject"},
               handler[h].seen \in Rows
        PROVE  handler[h].seen # i
    BY <2>2 DEF IInv, BlacklistInv
  <2>3. ASSUME NEW h \in Handlers, NEW j \in Ids, Relates(h), Relate(h, j), j \in Rows => j = handler[h].seen
        PROVE  contact'[i].status = "blacklist"
    <3>1. CASE j # i
      BY <2>3, <3>1 DEF Relate, IInv, TypeOK
    <3>2. CASE j = i
      <4>1. handler[h].op = "blacklist"
        BY <2>2, <2>3, <3>2 DEF Relates
      <4> QED BY <2>1, <2>3, <3>2, <4>1 DEF Relate, Row, IInv, TypeOK
    <3> QED BY <3>1, <3>2
  <2>4. ASSUME NEW h \in Handlers, NEW j \in Ids, InsertsRelation(h, j)
        PROVE  contact'[i].status = "blacklist"
    BY <2>3, <2>4 DEF InsertsRelation, IInv, TypeOK
  <2>5. ASSUME NEW h \in Handlers, UpdatesRelation(h)
        PROVE  contact'[i].status = "blacklist"
    BY <2>3, <2>5 DEF UpdatesRelation, Rows
  <2>6. ASSUME NEW h \in Handlers, Accepts(h) \/ Rejects(h)
        PROVE  contact'[i].status = "blacklist"
    <3>1. handler[h].seen # i
      BY <2>2, <2>6 DEF Accepts, Rejects
    <3> QED BY <2>1, <2>6, <3>1 DEF Accepts, Rejects, IInv, TypeOK
  <2>7. ASSUME NEW u \in Users, NEW P \in SUBSET Users, AddBlanks(u, P)
        PROVE  contact'[i].status = "blacklist"
    BY <2>1, <2>7 DEF AddBlanks, IInv, TypeOK
  <2>8. ASSUME NEW h \in Handlers, StartSome(h) \/ WriteFails(h) \/ Drop(h)
        PROVE  contact'[i].status = "blacklist"
    BY <2>8 DEF StartSome, StartRequest, StartBlacklist, StartAnswer, Start, WriteFails, Drop
  <2> QED BY <2>4, <2>5, <2>6, <2>7, <2>8 DEF Next, Continue
<1> QED BY <1>1, IInvAlways, PTL DEF Spec, SettledBlacklistStays

=============================================================================
