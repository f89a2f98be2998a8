------------------------- MODULE ChatMessagesProofs -------------------------
(***************************************************************************)
(* Theorems about ChatMessages, for any users, chats, submissions and      *)
(* bounds on logs and batches.                                             *)
(***************************************************************************)
EXTENDS ChatMessages, ChatEventsProofs, FiniteSetTheorems, SequenceTheorems

----------------------------------------------------------------------------
(* The membership that a log tells *)

\* Who is a member after the first p events of l.
MembersAt(l, p) == {u \in Users : LastWord(SubSeq(l, 1, p), u, Arrivals)}

Told(l) == {u \in Users : LastWord(l, u, Arrivals)}

LEMMA MembersAtEnd ==
  ASSUME NEW l \in Seq(Event)
  PROVE  MembersAt(l, Len(l)) = Told(l)
<1>1. SubSeq(l, 1, Len(l)) = l
  BY SubSeqFull
<1> QED BY <1>1 DEF MembersAt, Told

LEMMA MembersAtAppend ==
  ASSUME NEW l \in Seq(Event), NEW e \in Event, NEW p \in 0..Len(l)
  PROVE  MembersAt(Append(l, e), p) = MembersAt(l, p)
<1>1. SubSeq(Append(l, e), 1, p) = SubSeq(l, 1, p)
  OBVIOUS
<1> QED BY <1>1 DEF MembersAt

LEMMA ToldAppend ==
  ASSUME NEW l \in Seq(Event), NEW e \in Event
  PROVE  Told(Append(l, e)) =
           IF e.kind \in Arrivals THEN Told(l) \cup ({Subject(e)} \cap Users)
                                  ELSE Told(l) \ {Subject(e)}
<1> SUFFICES ASSUME NEW u \in Users
             PROVE  LastWord(Append(l, e), u, Arrivals) <=>
                      IF Subject(e) = u THEN e.kind \in Arrivals
                                        ELSE LastWord(l, u, Arrivals)
  BY DEF Told
<1>1. CASE Subject(e) = u /\ e.kind \in Arrivals
  BY <1>1, LastWordIsNew
<1>2. CASE Subject(e) = u /\ e.kind \notin Arrivals
  <2>1. e.kind \in {e.kind}
    OBVIOUS
  <2>2. LastWord(Append(l, e), u, {e.kind})
    BY <1>2, <2>1, LastWordIsNew
  <2>3. Append(l, e) \in Seq(Event)
    OBVIOUS
  <2>4. {e.kind} \cap Arrivals = {}
    BY <1>2
  <2>5. ~LastWord(Append(l, e), u, Arrivals)
    BY <2>2, <2>3, <2>4, LastWordIsOne
  <2> QED BY <1>2, <2>5
<1>3. CASE Subject(e) # u
  <2>1. ASSUME LastWord(Append(l, e), u, Arrivals) PROVE LastWord(l, u, Arrivals)
    <3>1. PICK i \in DOMAIN Append(l, e) :
            /\ Subject(Append(l, e)[i]) = u /\ Append(l, e)[i].kind \in Arrivals
            /\ \A j \in DOMAIN Append(l, e) : j > i => Subject(Append(l, e)[j]) # u
      BY <2>1 DEF LastWord
    <3>2. i \in DOMAIN l
      BY <1>3, <3>1
    <3>3. \A j \in DOMAIN l : j \in DOMAIN Append(l, e) /\ Append(l, e)[j] = l[j]
      OBVIOUS
    <3> QED BY <3>1, <3>2, <3>3 DEF LastWord
  <2> QED BY <1>3, <2>1, LastWordStays
<1> QED BY <1>1, <1>2, <1>3

LEMMA ToldEmpty == Told(<< >>) = {}
BY DEF Told, LastWord

----------------------------------------------------------------------------
(* The roster *)

\* Owner, members and log of a chat agree.
RosterInv ==
  /\ opened \subseteq Chats
  /\ owner \in [Chats -> Users \cup {NoUser}]
  /\ members \in [Chats -> SUBSET Users]
  /\ log \in [Chats -> Seq(Event)]
  /\ \A c \in Chats :
       /\ owner[c] # NoUser => c \in opened
       /\ owner[c] = NoUser => log[c] = << >> /\ members[c] = {}
       /\ members[c] = Told(log[c])

\* A chat that was there and is there has the same owner, and its log has
\* only grown.
Grows(c) ==
  c \in opened /\ owner'[c] # NoUser =>
    /\ owner[c] # NoUser
    /\ Len(log[c]) <= Len(log'[c])
    /\ \A p \in 0..Len(log[c]) : MembersAt(log'[c], p) = MembersAt(log[c], p)

LEMMA RosterInitInv == Membership!Init => RosterInv
BY ToldEmpty DEF Membership!Init, RosterInv

\* Event e is appended to the log of c, and its members change accordingly.
LEMMA EventAppended ==
  ASSUME RosterInv, NEW c \in Chats, NEW e \in Event, NEW M \in SUBSET Users,
         log' = [log EXCEPT ![c] = Append(@, e)],
         members' = [members EXCEPT ![c] = M],
         M = IF e.kind \in Arrivals THEN members[c] \cup ({Subject(e)} \cap Users)
                                    ELSE members[c] \ {Subject(e)},
         opened \subseteq opened', opened' \subseteq opened \cup {c},
         owner' \in [Chats -> Users \cup {NoUser}],
         owner'[c] # NoUser, c \in opened',
         c \in opened => owner[c] # NoUser,
         \A d \in Chats \ {c} : owner'[d] = owner[d]
  PROVE  RosterInv' /\ \A d \in Chats : Grows(d)
<1>1. /\ log[c] \in Seq(Event) /\ log'[c] = Append(log[c], e) /\ members'[c] = M
      /\ \A d \in Chats \ {c} : log'[d] = log[d] /\ members'[d] = members[d]
      /\ log' \in [Chats -> Seq(Event)] /\ members' \in [Chats -> SUBSET Users]
  BY DEF RosterInv
<1>2. M = Told(log'[c])
  BY <1>1, ToldAppend DEF RosterInv
<1>3. RosterInv'
  <2>1. opened' \subseteq Chats
    BY DEF RosterInv
  <2>2. ASSUME NEW d \in Chats
        PROVE  /\ owner'[d] # NoUser => d \in opened'
               /\ owner'[d] = NoUser => log'[d] = << >> /\ members'[d] = {}
               /\ members'[d] = Told(log'[d])
    <3>1. CASE d = c
      BY <1>1, <1>2, <3>1
    <3>2. CASE d # c
      BY <1>1, <3>2 DEF RosterInv
    <3> QED BY <3>1, <3>2
  <2> QED BY <1>1, <2>1, <2>2 DEF RosterInv
<1>4. ASSUME NEW d \in Chats PROVE Grows(d)
  <2>1. CASE d = c
    <3>1. Len(log[c]) <= Len(log'[c])
      BY <1>1
    <3>2. \A p \in 0..Len(log[c]) : MembersAt(log'[c], p) = MembersAt(log[c], p)
      BY <1>1, MembersAtAppend
    <3> QED BY <2>1, <3>1, <3>2 DEF Grows
  <2>2. CASE d # c
    <3>1. owner'[d] = owner[d] /\ log'[d] = log[d] /\ log[d] \in Seq(Event)
      BY <1>1, <2>2 DEF RosterInv
    <3> QED BY <3>1 DEF Grows
  <2> QED BY <2>1, <2>2
<1> QED BY <1>3, <1>4

LEMMA RosterStep ==
  ASSUME RosterInv, Membership!Next
  PROVE  RosterInv' /\ opened \subseteq opened' /\ \A d \in Chats : Grows(d)
<1>1. PICK c \in Chats :
        \/ \E u \in Users : Membership!Open(c, u)
        \/ \E a, u \in Users : Membership!Arrive(c, a, u) \/ Membership!Depart(c, a, u)
        \/ Membership!Rename(c)
        \/ Membership!Close(c)
  BY DEF Membership!Next
<1>2. /\ owner[c] \in Users \cup {NoUser} /\ members[c] \in SUBSET Users
      /\ log[c] \in Seq(Event)
  BY DEF RosterInv
<1>3. ASSUME NEW u \in Users, Membership!Open(c, u)
      PROVE  RosterInv' /\ opened \subseteq opened' /\ \A d \in Chats : Grows(d)
  <2>1. PICK e : e = [kind |-> "created", actor |-> u, target |-> NoUser]
    OBVIOUS
  <2>2. e \in Event /\ Subject(e) = u /\ e.kind \in Arrivals
    BY <2>1 DEF Event, Subject, Arrivals
  <2>3. /\ c \notin opened /\ opened' = opened \cup {c}
        /\ owner' = [owner EXCEPT ![c] = u]
        /\ members' = [members EXCEPT ![c] = {u}]
        /\ log' = [log EXCEPT ![c] = Append(@, e)]
    BY <1>3, <2>1 DEF Membership!Open, Membership!Say
  <2>4. members[c] = {}
    BY <2>3 DEF RosterInv
  <2>5. /\ owner' \in [Chats -> Users \cup {NoUser}] /\ owner'[c] # NoUser
        /\ \A d \in Chats \ {c} : owner'[d] = owner[d]
    BY <2>3, NoUserIsNobody DEF RosterInv
  <2>6. {u} \in SUBSET Users /\ {u} = members[c] \cup ({Subject(e)} \cap Users)
    BY <2>2, <2>4
  <2> QED BY <2>2, <2>3, <2>5, <2>6, EventAppended
<1>4. ASSUME NEW a \in Users, NEW u \in Users, Membership!Arrive(c, a, u)
      PROVE  RosterInv' /\ opened \subseteq opened' /\ \A d \in Chats : Grows(d)
  <2>1. PICK kind \in {"member_joined", "member_added"} :
          log' = [log EXCEPT ![c] = Append(@, [kind |-> kind, actor |-> a, target |-> u])]
    BY <1>4 DEF Membership!Arrive, Membership!Say
  <2>2. PICK e : e = [kind |-> kind, actor |-> a, target |-> u]
    OBVIOUS
  <2>3. e \in Event /\ Subject(e) = u /\ e.kind \in Arrivals
    BY <2>1, <2>2 DEF Event, Subject, Arrivals
  <2>4. /\ owner[c] # NoUser /\ UNCHANGED <<opened, owner>>
        /\ members' = [members EXCEPT ![c] = members[c] \cup {u}]
    BY <1>4 DEF Membership!Arrive
  <2>5. c \in opened /\ owner' \in [Chats -> Users \cup {NoUser}]
    BY <2>4 DEF RosterInv
  <2>6. /\ members[c] \cup {u} \in SUBSET Users
        /\ members[c] \cup {u} = members[c] \cup ({Subject(e)} \cap Users)
    BY <1>2, <2>3
  <2> QED BY <2>1, <2>2, <2>3, <2>4, <2>5, <2>6, EventAppended
<1>5. ASSUME NEW a \in Users, NEW u \in Users, Membership!Depart(c, a, u)
      PROVE  RosterInv' /\ opened \subseteq opened' /\ \A d \in Chats : Grows(d)
  <2>1. PICK kind \in {"member_removed", "member_left"} :
          log' = [log EXCEPT ![c] = Append(@, [kind |-> kind, actor |-> a, target |-> u])]
    BY <1>5 DEF Membership!Depart, Membership!Say
  <2>2. PICK e : e = [kind |-> kind, actor |-> a, target |-> u]
    OBVIOUS
  <2>3. e \in Event /\ Subject(e) = u /\ e.kind \notin Arrivals
    BY <2>1, <2>2 DEF Event, Subject, Arrivals, Departures
  <2>4. /\ u \in members[c] /\ UNCHANGED <<opened, owner>>
        /\ members' = [members EXCEPT ![c] = members[c] \ {u}]
    BY <1>5 DEF Membership!Depart
  <2>5. owner[c] # NoUser /\ c \in opened /\ owner' \in [Chats -> Users \cup {NoUser}]
    BY <2>4 DEF RosterInv
  <2>6. members[c] \ {u} \in SUBSET Users
    BY <1>2
  <2> QED BY <2>1, <2>2, <2>3, <2>4, <2>5, <2>6, EventAppended
<1>6. ASSUME Membership!Rename(c)
      PROVE  RosterInv' /\ opened \subseteq opened' /\ \A d \in Chats : Grows(d)
  <2>1. PICK e : e = [kind |-> "name_changed", actor |-> owner[c], target |-> NoUser]
    OBVIOUS
  <2>2. /\ owner[c] # NoUser /\ log' = [log EXCEPT ![c] = Append(@, e)]
        /\ UNCHANGED <<opened, owner, members>>
    BY <1>6, <2>1 DEF Membership!Rename, Membership!Say
  <2>3. e \in Event /\ Subject(e) = NoUser /\ e.kind \notin Arrivals
    BY <1>2, <2>1, <2>2 DEF Event, Subject, Arrivals, Departures
  <2>4. members[c] = members[c] \ {Subject(e)}
    BY <1>2, <2>3, NoUserIsNobody
  <2>5. members' = [members EXCEPT ![c] = members[c]]
    BY <2>2 DEF RosterInv
  <2>6. c \in opened /\ owner' \in [Chats -> Users \cup {NoUser}]
    BY <2>2 DEF RosterInv
  <2> QED BY <1>2, <2>2, <2>3, <2>4, <2>5, <2>6, EventAppended
<1>7. ASSUME Membership!Close(c)
      PROVE  RosterInv' /\ opened \subseteq opened' /\ \A d \in Chats : Grows(d)
  <2>1. /\ owner' = [owner EXCEPT ![c] = NoUser]
        /\ members' = [members EXCEPT ![c] = {}]
        /\ log' = [log EXCEPT ![c] = << >>]
        /\ opened' = opened
    BY <1>7 DEF Membership!Close
  <2>2. /\ owner'[c] = NoUser /\ members'[c] = {} /\ log'[c] = << >>
        /\ \A d \in Chats \ {c} :
             owner'[d] = owner[d] /\ log'[d] = log[d] /\ members'[d] = members[d]
    BY <2>1 DEF RosterInv
  <2>3. /\ owner' \in [Chats -> Users \cup {NoUser}]
        /\ members' \in [Chats -> SUBSET Users] /\ log' \in [Chats -> Seq(Event)]
    <3>1. << >> \in Seq(Event)
      OBVIOUS
    <3> QED BY <2>1, <3>1 DEF RosterInv
  <2>4. RosterInv'
    BY <2>1, <2>2, <2>3, ToldEmpty DEF RosterInv
  <2>5. ASSUME NEW d \in Chats PROVE Grows(d)
    <3>1. log[d] \in Seq(Event)
      BY DEF RosterInv
    <3> QED BY <2>2, <3>1 DEF Grows
  <2> QED BY <2>1, <2>4, <2>5
<1> QED BY <1>1, <1>3, <1>4, <1>5, <1>6, <1>7

----------------------------------------------------------------------------
(* The inductive invariant *)

\* The batch was addressed to the members at some time from f to t.
WasMembership(b, f, t) ==
  \E p \in f..t : b.recipients \cup {b.sender} = MembersAt(log[b.chat], p)

\* The pointers of the batch point recipients to their own copies.
Pointed(b) ==
  \A u \in b.recipients : b.pointer[u] # NoCopy =>
    \E t \in Stored(b.chat, b.reply) : CopyOf(t) = b.pointer[u] /\ t.recipient = u

\* The batch is stored.
Whole(b) == \A u \in b.recipients : \E m \in messages : m.batch = b /\ m.recipient = u

Exists(b) == owner[b.chat] # NoUser

BatchInv(b) == b.chat \in opened

\* The clients number the drafts of a uuid.
Drafts(g) == {b \in batches : b.uuid = g}

DraftsInv ==
  /\ IsFiniteSet(batches) /\ Cardinality(batches) <= MaxBatches
  /\ \A b \in batches : b.draft \in 1..Cardinality(Drafts(b.uuid))
  /\ \A a, b \in batches : a.uuid = b.uuid /\ a.draft = b.draft => a = b

MessageInv(m) ==
  /\ m.batch \in batches /\ m.recipient \in m.batch.recipients
  /\ Exists(m.batch)
  /\ m.upto <= Len(log[m.batch.chat])
  /\ WasMembership(m.batch, m.since, m.upto)
  /\ Pointed(m.batch)

\* What a submission has read holds as long as the chat is there: the batch
\* was addressed to the members at some time since it began, the copies it
\* points to are stored, and what it will answer for is stored.
SubmissionInv(h) ==
  LET q == sending[h]
      b == q.batch IN
  q.step # "idle" /\ Exists(b) =>
    /\ q.since <= Len(log[b.chat])
    /\ q.step \in {"reply", "existing", "insert"} =>
         WasMembership(b, q.since, Len(log[b.chat]))
    /\ q.step \in {"existing", "insert"} => Pointed(b)
    /\ q.step = "answer" => Whole(b)

IInv ==
  /\ RosterInv
  /\ TypeOK
  /\ DraftsInv
  /\ OneCopyEach
  /\ AcceptedIsStored
  /\ \A b \in batches : BatchInv(b)
  /\ \A m \in messages : MessageInv(m)
  /\ \A h \in Senders : SubmissionInv(h)

LEMMA IdleIsSubmission == Idle \in Submission /\ Idle.step = "idle"
BY DEF Idle, Submission

LEMMA IInvInit == Init => IInv
<1> SUFFICES ASSUME Init PROVE IInv
  OBVIOUS
<1>1. RosterInv
  BY RosterInitInv DEF Init
<1>2. \A h \in Senders : sending[h] = Idle
  BY DEF Init
<1>3. TypeOK
  BY <1>2, IdleIsSubmission DEF Init, TypeOK
<1>4. DraftsInv
  BY FS_EmptySet, MaxBatchesIsNat DEF Init, DraftsInv
<1>5. \A h \in Senders : SubmissionInv(h)
  BY <1>2, IdleIsSubmission DEF SubmissionInv
<1> QED BY <1>1, <1>3, <1>4, <1>5 DEF Init, IInv, OneCopyEach, AcceptedIsStored

\* The fields of what clients prepare, and of what is stored.
LEMMA BatchFields ==
  ASSUME TypeOK, NEW b \in batches
  PROVE  /\ b \in Batch /\ b.uuid \in Uuids /\ b.chat \in Chats /\ b.sender \in Users
         /\ b.recipients \in SUBSET Users /\ b.reply \in Uuids \cup {NoUuid}
         /\ b.draft \in 1..MaxBatches
BY DEF TypeOK, Batch

LEMMA MessageFields ==
  ASSUME TypeOK, NEW m \in messages
  PROVE  /\ m.batch \in Batch /\ m.recipient \in Users /\ m.since \in Nat /\ m.upto \in Nat
         /\ m.batch.chat \in Chats /\ m.batch.uuid \in Uuids
BY DEF TypeOK, Message, Batch

----------------------------------------------------------------------------
(* The membership changes *)

LEMMA MembershipStepKeeps ==
  ASSUME IInv, MembershipStep
  PROVE  IInv'
<1>1. /\ RosterInv' /\ opened \subseteq opened' /\ \A c \in Chats : Grows(c)
      /\ messages' = {m \in messages : owner'[m.batch.chat] # NoUser}
      /\ UNCHANGED <<batches, contacts, sending, accepted>>
  BY RosterStep DEF MembershipStep, IInv
<1>2. TypeOK'
  BY <1>1 DEF IInv, TypeOK
<1>3. DraftsInv'
  BY <1>1 DEF IInv, DraftsInv, Drafts
<1>4. OneCopyEach'
  BY <1>1 DEF IInv, OneCopyEach
<1>5. \A b \in batches : BatchInv(b)'
  BY <1>1 DEF IInv, BatchInv
<1>6. ASSUME NEW b \in batches, Exists(b)'
      PROVE  /\ Exists(b) /\ Len(log[b.chat]) \in Nat
             /\ Len(log[b.chat]) <= Len(log'[b.chat]) /\ Len(log'[b.chat]) \in Nat
             /\ \A p \in 0..Len(log[b.chat]) :
                  MembersAt(log'[b.chat], p) = MembersAt(log[b.chat], p)
             /\ \A m \in messages : m.batch.chat = b.chat => m \in messages'
  <2>1. b.chat \in Chats /\ b.chat \in opened /\ owner'[b.chat] # NoUser
    BY <1>6, BatchFields DEF IInv, BatchInv, Exists
  <2>2. /\ Exists(b) /\ Len(log[b.chat]) <= Len(log'[b.chat])
        /\ \A p \in 0..Len(log[b.chat]) :
             MembersAt(log'[b.chat], p) = MembersAt(log[b.chat], p)
    BY <1>1, <2>1 DEF Grows, Exists
  <2>3. Len(log[b.chat]) \in Nat /\ Len(log'[b.chat]) \in Nat
    BY <1>1, <2>1 DEF IInv, RosterInv
  <2>4. \A m \in messages : m.batch.chat = b.chat => m \in messages'
    BY <1>1, <2>1
  <2> QED BY <2>2, <2>3, <2>4
<1>7. ASSUME NEW b \in batches, Exists(b)', NEW f \in Nat, NEW t \in Nat,
             t <= Len(log[b.chat]), WasMembership(b, f, t)
      PROVE  WasMembership(b, f, t)'
  <2>1. PICK p \in f..t : b.recipients \cup {b.sender} = MembersAt(log[b.chat], p)
    BY <1>7 DEF WasMembership
  <2>2. p \in 0..Len(log[b.chat])
    BY <1>6, <1>7
  <2>3. MembersAt(log'[b.chat], p) = MembersAt(log[b.chat], p)
    BY <1>6, <1>7, <2>2
  <2> QED BY <2>1, <2>3 DEF WasMembership
<1>8. ASSUME NEW b \in batches, Exists(b)', Pointed(b) PROVE Pointed(b)'
  <2>1. Stored(b.chat, b.reply) \subseteq Stored(b.chat, b.reply)'
    BY <1>6, <1>8 DEF Stored
  <2> QED BY <1>8, <2>1 DEF Pointed, CopyOf, CopyFor
<1>9. ASSUME NEW b \in batches, Exists(b)', Whole(b) PROVE Whole(b)'
  BY <1>6, <1>9 DEF Whole
<1>10. AcceptedIsStored'
  <2> SUFFICES ASSUME NEW b \in accepted, owner'[b.chat] # NoUser PROVE Whole(b)'
    BY <1>1 DEF AcceptedIsStored, Whole
  <2>1. b \in batches /\ Exists(b)'
    BY DEF IInv, TypeOK, Exists
  <2>2. Whole(b)
    BY <1>6, <2>1 DEF IInv, AcceptedIsStored, Whole, Exists
  <2> QED BY <1>9, <2>1, <2>2
<1>11. ASSUME NEW m \in messages' PROVE MessageInv(m)'
  <2>1. m \in messages /\ MessageInv(m) /\ m.batch \in batches /\ Exists(m.batch)'
    BY <1>1 DEF IInv, MessageInv, Exists
  <2>2. m.since \in Nat /\ m.upto \in Nat
    BY <2>1, MessageFields DEF IInv
  <2>3. m.upto <= Len(log[m.batch.chat]) /\ m.upto <= Len(log'[m.batch.chat])
    BY <1>6, <2>1, <2>2 DEF MessageInv
  <2>4. WasMembership(m.batch, m.since, m.upto)' /\ Pointed(m.batch)'
    BY <1>7, <1>8, <2>1, <2>2, <2>3 DEF MessageInv
  <2> QED BY <1>1, <2>1, <2>3, <2>4 DEF MessageInv
<1>12. ASSUME NEW h \in Senders PROVE SubmissionInv(h)'
  <2>1. PICK q : q = sending[h]
    OBVIOUS
  <2>2. PICK b : b = q.batch
    OBVIOUS
  <2> SUFFICES ASSUME q.step # "idle", Exists(b)'
               PROVE  /\ q.since <= Len(log'[b.chat])
                      /\ q.step \in {"reply", "existing", "insert"} =>
                           WasMembership(b, q.since, Len(log[b.chat]))'
                      /\ q.step \in {"existing", "insert"} => Pointed(b)'
                      /\ q.step = "answer" => Whole(b)'
    BY <1>1, <2>1, <2>2 DEF SubmissionInv
  <2>3. b \in batches /\ q.since \in Nat /\ SubmissionInv(h)
    BY <2>1, <2>2 DEF IInv, TypeOK, Submission
  <2>4. /\ q.since <= Len(log[b.chat])
        /\ q.step \in {"reply", "existing", "insert"} =>
             WasMembership(b, q.since, Len(log[b.chat]))
        /\ q.step \in {"existing", "insert"} => Pointed(b)
        /\ q.step = "answer" => Whole(b)
    BY <1>6, <2>1, <2>2, <2>3 DEF SubmissionInv
  <2>5. PICK n \in Nat : n = Len(log[b.chat])
    BY <1>6, <2>3
  <2>6. n <= Len(log'[b.chat]) /\ Len(log'[b.chat]) \in Nat
    BY <1>6, <2>3, <2>5
  <2>7. WasMembership(b, q.since, n) => WasMembership(b, q.since, Len(log[b.chat]))'
    <3> SUFFICES ASSUME WasMembership(b, q.since, n)
                 PROVE  WasMembership(b, q.since, Len(log[b.chat]))'
      OBVIOUS
    <3>1. PICK p \in q.since..n : b.recipients \cup {b.sender} = MembersAt(log'[b.chat], p)
      <4>1. WasMembership(b, q.since, n)'
        BY <1>7, <2>3, <2>5
      <4> QED BY <4>1 DEF WasMembership
    <3>2. p \in q.since..Len(log'[b.chat])
      BY <2>3, <2>6
    <3> QED BY <3>1, <3>2 DEF WasMembership
  <2> QED BY <1>8, <1>9, <2>3, <2>4, <2>5, <2>6, <2>7
<1> QED BY <1>1, <1>2, <1>3, <1>4, <1>5, <1>10, <1>11, <1>12 DEF IInv

----------------------------------------------------------------------------
(* A client prepares a batch *)

\* Draft n + 1 of a uuid that has n of them.
LEMMA DraftAdded ==
  ASSUME DraftsInv, NEW nb, nb \notin batches,
         nb.draft = Cardinality(Drafts(nb.uuid)) + 1,
         Cardinality(batches) < MaxBatches,
         batches' = batches \cup {nb}
  PROVE  DraftsInv' /\ nb.draft \in 1..MaxBatches
<1>1. /\ IsFiniteSet(batches)
      /\ \A g : IsFiniteSet(Drafts(g)) /\ Cardinality(Drafts(g)) \in Nat
                /\ Cardinality(Drafts(g)) <= Cardinality(batches)
  <2> SUFFICES ASSUME NEW g
               PROVE  IsFiniteSet(Drafts(g)) /\ Cardinality(Drafts(g)) \in Nat
                      /\ Cardinality(Drafts(g)) <= Cardinality(batches)
    BY DEF DraftsInv
  <2>1. IsFiniteSet(batches) /\ Drafts(g) \subseteq batches
    BY DEF DraftsInv, Drafts
  <2> QED BY <2>1, FS_Subset, FS_CardinalityType
<1>2. /\ IsFiniteSet(batches \cup {nb})
      /\ Cardinality(batches \cup {nb}) = Cardinality(batches) + 1
      /\ Cardinality(batches) \in Nat
  BY <1>1, FS_AddElement, FS_CardinalityType
<1>3. nb.draft \in 1..MaxBatches
  BY <1>1, <1>2, MaxBatchesIsNat
<1>4. IsFiniteSet(batches') /\ Cardinality(batches') <= MaxBatches
  BY <1>2, MaxBatchesIsNat
<1>5. \A g : g # nb.uuid => Drafts(g)' = Drafts(g)
  BY DEF Drafts
<1>6. Cardinality(Drafts(nb.uuid)') = Cardinality(Drafts(nb.uuid)) + 1
  <2>1. Drafts(nb.uuid)' = Drafts(nb.uuid) \cup {nb} /\ nb \notin Drafts(nb.uuid)
    BY DEF Drafts
  <2> QED BY <1>1, <2>1, FS_AddElement
<1>7. ASSUME NEW b \in batches' PROVE b.draft \in 1..Cardinality(Drafts(b.uuid)')
  <2>1. CASE b = nb
    BY <1>1, <1>6, <2>1
  <2>2. CASE b # nb /\ b.uuid = nb.uuid
    <3>1. b.draft \in 1..Cardinality(Drafts(nb.uuid))
      BY <2>2 DEF DraftsInv
    <3> QED BY <1>1, <1>6, <2>2, <3>1
  <2>3. CASE b # nb /\ b.uuid # nb.uuid
    BY <1>5, <2>3 DEF DraftsInv
  <2> QED BY <2>1, <2>2, <2>3
<1>8. ASSUME NEW a \in batches', NEW b \in batches', a.uuid = b.uuid, a.draft = b.draft
      PROVE  a = b
  <2>1. ASSUME NEW x \in batches, x.uuid = nb.uuid PROVE x.draft # nb.draft
    <3>1. x.draft \in 1..Cardinality(Drafts(nb.uuid))
      BY <2>1 DEF DraftsInv
    <3> QED BY <1>1, <3>1
  <2> QED BY <1>8, <2>1 DEF DraftsInv
<1> QED BY <1>3, <1>4, <1>7, <1>8 DEF DraftsInv

LEMMA StutterKeeps ==
  ASSUME IInv, UNCHANGED vars
  PROVE  IInv'
<1> USE DEF vars
<1>1. RosterInv' /\ TypeOK' /\ DraftsInv'
  BY DEF IInv, RosterInv, TypeOK, DraftsInv, Drafts
<1>2. OneCopyEach' /\ AcceptedIsStored' /\ \A b \in batches : BatchInv(b)'
  BY DEF IInv, OneCopyEach, AcceptedIsStored, BatchInv
<1>3. \A m \in messages : MessageInv(m)'
  BY DEF IInv, MessageInv, WasMembership, Pointed, Exists, Stored
<1>4. \A h \in Senders : SubmissionInv(h)'
  BY DEF IInv, SubmissionInv, WasMembership, Pointed, Whole, Exists, Stored
<1> QED BY <1>1, <1>2, <1>3, <1>4 DEF IInv

LEMMA PrepareKeeps ==
  ASSUME IInv, NEW c \in Chats, NEW s \in Users, NEW g \in Uuids, Prepare(c, s, g)
  PROVE  IInv'
<1>1. PICK others : others = members[c] \ {s}
  OBVIOUS
<1>0. PICK q \in {x \in Uuids \ {g} : Stored(c, x) # {}} \cup {NoUuid} :
        \E f \in [others -> {CopyOf(m) : m \in {x \in messages : x.batch.chat = c}} \cup {NoCopy}] :
          batches' = batches \cup
            {[uuid |-> g, draft |-> Cardinality(Drafts(g)) + 1, sender |-> s,
              chat |-> c, recipients |-> others, reply |-> q, pointer |-> f]}
  BY <1>1 DEF Prepare, Drafts
<1>2. PICK f \in [others -> {CopyOf(m) : m \in {x \in messages : x.batch.chat = c}} \cup {NoCopy}] :
        batches' = batches \cup
          {[uuid |-> g, draft |-> Cardinality(Drafts(g)) + 1, sender |-> s,
            chat |-> c, recipients |-> others, reply |-> q, pointer |-> f]}
  BY <1>0
<1>3. PICK nb : nb = [uuid |-> g, draft |-> Cardinality(Drafts(g)) + 1, sender |-> s,
                      chat |-> c, recipients |-> others, reply |-> q, pointer |-> f]
  OBVIOUS
<1>4. /\ nb.uuid = g /\ nb.draft = Cardinality(Drafts(g)) + 1 /\ nb.sender = s
      /\ nb.chat = c /\ nb.recipients = others /\ nb.reply = q /\ nb.pointer = f
  BY <1>3
<1>5. /\ s \in members[c] /\ Cardinality(batches) < MaxBatches
      /\ batches' = batches \cup {nb}
      /\ UNCHANGED <<opened, owner, members, log, messages, contacts, sending, accepted>>
  BY <1>2, <1>3 DEF Prepare, membership
<1>6. CASE nb \in batches
  <2>1. batches' = batches
    BY <1>5, <1>6
  <2> QED BY <1>5, <2>1, StutterKeeps DEF vars
<1>7. CASE nb \notin batches
  <2>1. DraftsInv' /\ nb.draft \in 1..MaxBatches
    BY <1>4, <1>5, <1>7, DraftAdded DEF IInv
  <2>2. q \in Uuids \cup {NoUuid} /\ others \in SUBSET Users
    BY <1>1 DEF IInv, RosterInv
  <2>3. f \in [others -> Copy \cup {NoCopy}]
    <3>1. ASSUME NEW m \in messages PROVE CopyOf(m) \in Copy
      <4>1. m.batch \in batches /\ m.recipient \in Users
        BY MessageFields DEF IInv, MessageInv
      <4> QED BY <4>1, BatchFields DEF IInv, CopyOf, CopyFor, Copy
    <3>2. {CopyOf(m) : m \in {x \in messages : x.batch.chat = c}} \cup {NoCopy}
            \subseteq Copy \cup {NoCopy}
      BY <3>1
    <3> QED BY <1>2, <3>2
  <2>4. f \in UNION {[R -> Copy \cup {NoCopy}] : R \in SUBSET Users}
    BY <2>2, <2>3
  <2>5. nb \in Batch
    BY <1>3, <1>4, <2>1, <2>2, <2>4 DEF Batch
  <2>6. TypeOK'
    BY <1>5, <2>5 DEF IInv, TypeOK
  <2>7. BatchInv(nb)'
    <3>1. c \in opened
      <4>1. members[c] # {}
        BY <1>5
      <4> QED BY <4>1 DEF IInv, RosterInv
    <3> QED BY <1>4, <1>5, <3>1 DEF BatchInv
  <2>8. \A b \in batches' : BatchInv(b)'
    BY <1>5, <2>7 DEF IInv, BatchInv
  <2>9. \A m \in messages' : MessageInv(m)'
    BY <1>5 DEF IInv, MessageInv, WasMembership, Pointed, Exists, Stored
  <2>10. \A h \in Senders : SubmissionInv(h)'
    BY <1>5 DEF IInv, SubmissionInv, WasMembership, Pointed, Whole, Exists, Stored
  <2> QED BY <1>5, <2>1, <2>6, <2>8, <2>9, <2>10
          DEF IInv, RosterInv, OneCopyEach, AcceptedIsStored
<1> QED BY <1>6, <1>7

----------------------------------------------------------------------------
(* A submission goes on, without a write *)

\* Submission h becomes q.
Becomes(h, q) ==
  /\ q \in Submission
  /\ sending' = [sending EXCEPT ![h] = q]
  /\ UNCHANGED <<opened, owner, members, log, batches, messages, contacts>>

LEMMA SubmissionStep ==
  ASSUME IInv, NEW h \in Senders, NEW q, Becomes(h, q),
         q.step # "idle" => q.batch \in batches,
         SubmissionInv(h)',
         accepted' \subseteq batches, AcceptedIsStored'
  PROVE  IInv'
<1> USE DEF Becomes
<1>1. /\ sending' \in [Senders -> Submission] /\ sending'[h] = q
      /\ \A k \in Senders \ {h} : sending'[k] = sending[k]
  BY DEF IInv, TypeOK
<1>2. TypeOK'
  BY <1>1 DEF IInv, TypeOK
<1>3. \A k \in Senders : SubmissionInv(k)'
  <2> SUFFICES ASSUME NEW k \in Senders, k # h PROVE SubmissionInv(k)'
    OBVIOUS
  <2>1. SubmissionInv(k) /\ sending'[k] = sending[k]
    BY <1>1 DEF IInv
  <2> QED BY <2>1 DEF SubmissionInv, WasMembership, Pointed, Whole, Exists, Stored
<1>4. \A m \in messages : MessageInv(m)'
  BY DEF IInv, MessageInv, WasMembership, Pointed, Exists, Stored
<1>5. RosterInv' /\ DraftsInv' /\ OneCopyEach' /\ \A b \in batches : BatchInv(b)'
  BY DEF IInv, RosterInv, DraftsInv, Drafts, OneCopyEach, BatchInv
<1> QED BY <1>2, <1>3, <1>4, <1>5 DEF IInv

\* Nothing more is accepted.
LEMMA AcceptedSame ==
  ASSUME IInv, UNCHANGED <<owner, messages, accepted, batches>>
  PROVE  accepted' \subseteq batches /\ AcceptedIsStored'
BY DEF IInv, TypeOK, AcceptedIsStored

LEMMA EndKeeps ==
  ASSUME IInv, NEW h \in Senders, End(h),
         UNCHANGED <<membership, batches, messages, contacts>>,
         accepted' \subseteq batches, AcceptedIsStored'
  PROVE  IInv'
<1>1. Becomes(h, Idle)
  BY IdleIsSubmission DEF End, Becomes, membership
<1>2. sending'[h] = Idle
  BY <1>1 DEF Becomes, IInv, TypeOK
<1>3. SubmissionInv(h)'
  BY <1>2, IdleIsSubmission DEF SubmissionInv
<1> QED BY <1>1, <1>3, IdleIsSubmission, SubmissionStep

LEMMA SubmitKeeps ==
  ASSUME IInv, NEW h \in Senders, NEW b \in batches, Submit(h, b)
  PROVE  IInv'
<1>1. PICK q : q = [step |-> "members", batch |-> b, since |-> Len(log[b.chat])]
  OBVIOUS
<1>2. /\ sending' = [sending EXCEPT ![h] = q]
      /\ UNCHANGED <<opened, owner, members, log, batches, messages, contacts, accepted>>
  BY <1>1 DEF Submit, membership
<1>3. b \in Batch /\ b.chat \in Chats
  BY BatchFields DEF IInv
<1>4. Len(log[b.chat]) \in Nat
  BY <1>3 DEF IInv, RosterInv
<1>5. /\ q \in Submission /\ q.step = "members" /\ q.batch = b /\ q.since = Len(log[b.chat])
  BY <1>1, <1>3, <1>4 DEF Submission
<1>6. Becomes(h, q) /\ sending'[h] = q
  BY <1>2, <1>5 DEF Becomes, IInv, TypeOK
<1>7. SubmissionInv(h)'
  BY <1>2, <1>4, <1>5, <1>6 DEF SubmissionInv
<1>8. accepted' \subseteq batches /\ AcceptedIsStored'
  BY <1>2, AcceptedSame
<1> QED BY <1>5, <1>6, <1>7, <1>8, SubmissionStep

\* What becomes of submission h when it goes on to the given step.
LEMMA StepChanges ==
  ASSUME IInv, NEW h \in Senders, NEW step \in {"reply", "existing", "insert", "answer"},
         Step(h, step), sending[h].step # "idle"
  PROVE  LET q == [sending[h] EXCEPT !.step = step] IN
         /\ q \in Submission /\ q.step = step /\ q.batch = sending[h].batch
         /\ q.since = sending[h].since /\ q.batch \in batches
         /\ sending' = [sending EXCEPT ![h] = q] /\ sending'[h] = q
<1> DEFINE q == [sending[h] EXCEPT !.step = step]
<1>1. sending[h] \in Submission /\ sending[h].batch \in batches
  BY DEF IInv, TypeOK
<1>2. /\ q \in Submission /\ q.step = step /\ q.batch = sending[h].batch
      /\ q.since = sending[h].since
  BY <1>1 DEF Submission
<1>3. sending' = [sending EXCEPT ![h] = q] /\ sending'[h] = q
  BY DEF Step, IInv, TypeOK
<1> QED BY <1>1, <1>2, <1>3

LEMMA ReadStepKeeps ==
  ASSUME IInv, NEW h \in Senders, NEW step \in {"reply", "existing", "insert", "answer"},
         Step(h, step), sending[h].step # "idle",
         UNCHANGED <<membership, batches, messages, contacts, accepted>>,
         NEW b, b = sending[h].batch,
         Exists(b) =>
           /\ step \in {"reply", "existing", "insert"} =>
                WasMembership(b, sending[h].since, Len(log[b.chat]))
           /\ step \in {"existing", "insert"} => Pointed(b)
           /\ step = "answer" => Whole(b)
  PROVE  IInv'
<1>1. PICK q : q = [sending[h] EXCEPT !.step = step]
  OBVIOUS
<1>2. /\ q \in Submission /\ q.step = step /\ q.batch = b
      /\ q.since = sending[h].since /\ q.batch \in batches
      /\ sending' = [sending EXCEPT ![h] = q] /\ sending'[h] = q
  BY <1>1, StepChanges
<1>3. UNCHANGED <<opened, owner, members, log, batches, messages, contacts, accepted>>
  BY DEF membership
<1>4. Becomes(h, q)
  BY <1>2, <1>3 DEF Becomes
<1>5. SubmissionInv(h)'
  <2>1. Exists(b) => sending[h].since <= Len(log[b.chat])
    BY DEF IInv, SubmissionInv
  <2> QED BY <1>2, <1>3, <2>1 DEF SubmissionInv, WasMembership, Pointed, Whole, Exists, Stored
<1>6. accepted' \subseteq batches /\ AcceptedIsStored'
  BY <1>3, AcceptedSame
<1> QED BY <1>2, <1>4, <1>5, <1>6, SubmissionStep

LEMMA ReadsMembersKeeps ==
  ASSUME IInv, NEW h \in Senders, ReadsMembers(h)
  PROVE  IInv'
<1>1. PICK b : b = sending[h].batch
  OBVIOUS
<1>2. /\ sending[h].step = "members" /\ Step(h, "reply")
      /\ UNCHANGED <<membership, batches, messages, contacts, accepted>>
      /\ b.sender \in members[b.chat] /\ b.recipients = members[b.chat] \ {b.sender}
  BY <1>1 DEF ReadsMembers, AddressesMembers
<1>3. b \in batches /\ sending[h].since \in Nat
  BY <1>1, <1>2 DEF IInv, TypeOK, Submission
<1>4. b.chat \in Chats
  BY <1>3, BatchFields DEF IInv
<1>5. PICK n \in Nat : n = Len(log[b.chat])
  BY <1>4 DEF IInv, RosterInv
<1>6. Exists(b) => WasMembership(b, sending[h].since, Len(log[b.chat]))
  <2> SUFFICES ASSUME Exists(b) PROVE WasMembership(b, sending[h].since, n)
    BY <1>5
  <2>1. sending[h].since <= n
    BY <1>1, <1>2, <1>5 DEF IInv, SubmissionInv
  <2>2. b.recipients \cup {b.sender} = MembersAt(log[b.chat], n)
    <3>1. log[b.chat] \in Seq(Event) /\ members[b.chat] = Told(log[b.chat])
      BY <1>4 DEF IInv, RosterInv
    <3> QED BY <1>2, <1>5, <3>1, MembersAtEnd
  <2>3. n \in sending[h].since..n
    BY <1>3, <2>1
  <2> QED BY <2>2, <2>3 DEF WasMembership
<1> QED BY <1>1, <1>2, <1>6, ReadStepKeeps

LEMMA ReadsTargetsKeeps ==
  ASSUME IInv, NEW h \in Senders, ReadsTargets(h)
  PROVE  IInv'
<1>1. PICK b : b = sending[h].batch
  OBVIOUS
<1>2. /\ sending[h].step = "reply" /\ Step(h, "existing") /\ PointsToTargets(b)
      /\ UNCHANGED <<membership, batches, messages, contacts, accepted>>
  BY <1>1 DEF ReadsTargets
<1>3. b \in batches
  BY <1>1, <1>2 DEF IInv, TypeOK
<1>4. Exists(b) => WasMembership(b, sending[h].since, Len(log[b.chat]))
  BY <1>1, <1>2 DEF IInv, SubmissionInv
<1>5. Pointed(b)
  <2>1. CASE b.reply = NoUuid
    BY <1>2, <2>1 DEF PointsToTargets, Pointed
  <2>2. CASE b.reply # NoUuid
    <3> SUFFICES ASSUME NEW u \in b.recipients, b.pointer[u] # NoCopy
                 PROVE  \E t \in Stored(b.chat, b.reply) :
                          CopyOf(t) = b.pointer[u] /\ t.recipient = u
      BY DEF Pointed
    <3> QED BY <1>2, <2>2 DEF PointsToTargets
  <2> QED BY <2>1, <2>2
<1> QED BY <1>1, <1>2, <1>4, <1>5, ReadStepKeeps

\* What is stored under the uuid with the ids of the batch is the batch.
LEMMA StoredIsWhole ==
  ASSUME IInv, NEW b \in batches, IsStored(b)
  PROVE  Whole(b)
<1> SUFFICES ASSUME NEW u \in b.recipients
             PROVE  \E m \in messages : m.batch = b /\ m.recipient = u
  BY DEF Whole
<1>1. PICK m \in Stored(b.chat, b.uuid) : CopyOf(m) = CopyFor(b, u)
  BY DEF IsStored, StoredBy
<1>2. m \in messages /\ m.batch \in batches
  BY <1>1 DEF Stored, IInv, MessageInv
<1>3. m.batch.uuid = b.uuid /\ m.batch.draft = b.draft /\ m.recipient = u
  BY <1>1 DEF CopyOf, CopyFor
<1>4. m.batch = b
  BY <1>2, <1>3 DEF IInv, DraftsInv
<1> QED BY <1>2, <1>3, <1>4

LEMMA ReadsExistingKeeps ==
  ASSUME IInv, NEW h \in Senders, ReadsExisting(h)
  PROVE  IInv'
<1>1. PICK b : b = sending[h].batch
  OBVIOUS
<1>2. /\ sending[h].step = "existing"
      /\ Step(h, "insert") \/ (IsStored(b) /\ Step(h, "answer"))
      /\ UNCHANGED <<membership, batches, messages, contacts, accepted>>
  BY <1>1 DEF ReadsExisting
<1>3. b \in batches
  BY <1>1, <1>2 DEF IInv, TypeOK
<1>4. Exists(b) => WasMembership(b, sending[h].since, Len(log[b.chat])) /\ Pointed(b)
  BY <1>1, <1>2 DEF IInv, SubmissionInv
<1>5. CASE Step(h, "insert")
  BY <1>1, <1>2, <1>4, <1>5, ReadStepKeeps
<1>6. CASE IsStored(b) /\ Step(h, "answer")
  <2>1. Whole(b)
    BY <1>3, <1>6, StoredIsWhole
  <2> QED BY <1>1, <1>2, <1>6, <2>1, ReadStepKeeps
<1> QED BY <1>2, <1>5, <1>6

LEMMA AnswersKeeps ==
  ASSUME IInv, NEW h \in Senders, Answers(h)
  PROVE  IInv'
<1>1. PICK b : b = sending[h].batch
  OBVIOUS
<1>2. /\ sending[h].step = "answer" /\ accepted' = accepted \cup {b} /\ End(h)
      /\ UNCHANGED <<membership, batches, messages, contacts>>
  BY <1>1 DEF Answers
<1>3. b \in batches /\ (Exists(b) => Whole(b))
  BY <1>1, <1>2 DEF IInv, TypeOK, SubmissionInv
<1>4. accepted' \subseteq batches
  BY <1>2, <1>3 DEF IInv, TypeOK
<1>5. AcceptedIsStored'
  BY <1>2, <1>3 DEF membership, IInv, AcceptedIsStored, Exists, Whole
<1> QED BY <1>2, <1>4, <1>5, EndKeeps

----------------------------------------------------------------------------
(* The batch is stored *)

LEMMA InsertsKeeps ==
  ASSUME IInv, NEW h \in Senders, Inserts(h)
  PROVE  IInv'
<1>1. PICK b : b = sending[h].batch
  OBVIOUS
<1>2. PICK n : n = Len(log[b.chat])
  OBVIOUS
<1>3. PICK f : f = sending[h].since
  OBVIOUS
<1>4. PICK New : New = {[batch |-> b, recipient |-> u, since |-> f, upto |-> n] : u \in b.recipients}
  OBVIOUS
<1>5. /\ sending[h].step = "insert" /\ Insertable(b) /\ messages' = messages \cup New
      /\ contacts' = contacts \cup {{b.sender, u} : u \in b.recipients}
      /\ Step(h, "answer")
      /\ UNCHANGED <<opened, owner, members, log, batches, accepted>>
  BY <1>1, <1>2, <1>3, <1>4 DEF Inserts, membership
<1>6. /\ b \in batches /\ b \in Batch /\ b.chat \in Chats /\ b.recipients \subseteq Users
      /\ b.sender \in Users /\ f \in Nat
  BY <1>1, <1>3, <1>5, BatchFields DEF IInv, TypeOK, Submission
<1>7. n \in Nat /\ log[b.chat] \in Seq(Event)
  BY <1>2, <1>6 DEF IInv, RosterInv
<1>8. /\ Exists(b) /\ WasMembership(b, f, n) /\ Pointed(b)
  BY <1>1, <1>2, <1>3, <1>5 DEF Insertable, Exists, IInv, SubmissionInv
<1>9. \A m \in New : /\ m \in Message /\ m.batch = b /\ m.recipient \in b.recipients
                     /\ m.since = f /\ m.upto = n
  BY <1>4, <1>6, <1>7 DEF Message
<1>10. ASSUME NEW u \in b.recipients PROVE \E m \in New : m.batch = b /\ m.recipient = u
  <2>1. PICK m : m = [batch |-> b, recipient |-> u, since |-> f, upto |-> n]
    OBVIOUS
  <2>2. m \in New
    BY <1>4, <2>1
  <2>3. m.batch = b /\ m.recipient = u
    BY <2>1
  <2> QED BY <2>2, <2>3
<1>11. PICK q : q = [sending[h] EXCEPT !.step = "answer"]
  OBVIOUS
<1>12. /\ q \in Submission /\ q.step = "answer" /\ q.batch = b /\ q.since = f
       /\ sending' = [sending EXCEPT ![h] = q] /\ sending'[h] = q
  BY <1>1, <1>3, <1>5, <1>11, StepChanges
<1>13. /\ \A x, y : Stored(x, y) \subseteq Stored(x, y)'
       /\ \A x \in batches : Pointed(x) => Pointed(x)'
       /\ \A x \in batches : Whole(x) => Whole(x)'
       /\ \A x, i, j : WasMembership(x, i, j)' <=> WasMembership(x, i, j)
       /\ \A x : Exists(x)' <=> Exists(x)
  <2>1. \A x, y : Stored(x, y) \subseteq Stored(x, y)'
    BY <1>5 DEF Stored
  <2>2. \A x \in batches : Pointed(x) => Pointed(x)'
    BY <2>1 DEF Pointed, CopyOf, CopyFor
  <2>3. \A x \in batches : Whole(x) => Whole(x)'
    BY <1>5 DEF Whole
  <2> QED BY <1>5, <2>1, <2>2, <2>3 DEF WasMembership, Exists
<1>14. Whole(b)'
  BY <1>5, <1>10 DEF Whole
<1>15. TypeOK'
  <2>1. messages' \subseteq Message
    BY <1>5, <1>9 DEF IInv, TypeOK
  <2>2. contacts' \subseteq SUBSET Users
    BY <1>5, <1>6 DEF IInv, TypeOK
  <2>3. /\ sending' \in [Senders -> Submission]
        /\ \A k \in Senders : sending'[k].step # "idle" => sending'[k].batch \in batches
    BY <1>6, <1>12 DEF IInv, TypeOK
  <2> QED BY <1>5, <2>1, <2>2, <2>3 DEF IInv, TypeOK
<1>16. OneCopyEach'
  <2> SUFFICES ASSUME NEW m \in messages', NEW k \in messages',
                      m.recipient = k.recipient, m.batch.chat = k.batch.chat,
                      m.batch.uuid = k.batch.uuid
               PROVE  m = k
    BY DEF OneCopyEach
  <2>1. ASSUME NEW x \in messages, NEW y \in New, x.batch.chat = y.batch.chat,
               x.batch.uuid = y.batch.uuid
        PROVE  x.recipient # y.recipient
    <3>1. x \in Stored(b.chat, b.uuid)
      BY <1>9, <2>1 DEF Stored
    <3> QED BY <1>5, <1>9, <3>1 DEF Insertable
  <2>2. CASE m \in messages /\ k \in messages
    BY <2>2 DEF IInv, OneCopyEach
  <2>3. CASE m \in New /\ k \in New
    BY <1>4, <2>3
  <2> QED BY <1>5, <2>1, <2>2, <2>3
<1>17. AcceptedIsStored'
  <2> SUFFICES ASSUME NEW x \in accepted, Exists(x) PROVE Whole(x)'
    BY <1>5 DEF AcceptedIsStored, Whole, Exists
  <2>1. x \in batches /\ Whole(x)
    BY DEF IInv, TypeOK, AcceptedIsStored, Whole, Exists
  <2> QED BY <1>13, <2>1
<1>18. ASSUME NEW m \in messages' PROVE MessageInv(m)'
  <2>1. CASE m \in messages
    <3>1. MessageInv(m)
      BY <2>1 DEF IInv
    <3> QED BY <1>5, <1>13, <3>1 DEF MessageInv
  <2>2. CASE m \in New
    <3>1. m.batch = b /\ m.recipient \in b.recipients /\ m.since = f /\ m.upto = n
      BY <1>9, <2>2
    <3>2. m.upto <= Len(log'[b.chat])
      BY <1>2, <1>5, <1>7, <3>1
    <3> QED BY <1>5, <1>6, <1>8, <1>13, <3>1, <3>2 DEF MessageInv
  <2> QED BY <1>5, <2>1, <2>2
<1>19. ASSUME NEW k \in Senders PROVE SubmissionInv(k)'
  <2>1. CASE k = h
    <3>1. f <= Len(log'[b.chat])
      BY <1>1, <1>3, <1>5, <1>8 DEF IInv, SubmissionInv
    <3> QED BY <1>12, <1>14, <2>1, <3>1 DEF SubmissionInv
  <2>2. CASE k # h
    <3>1. SubmissionInv(k) /\ sending'[k] = sending[k]
      BY <1>12, <2>2 DEF IInv
    <3>2. sending[k].step # "idle" => sending[k].batch \in batches
      BY DEF IInv, TypeOK
    <3> QED BY <1>5, <1>13, <3>1, <3>2 DEF SubmissionInv
  <2> QED BY <2>1, <2>2
<1> QED BY <1>5, <1>15, <1>16, <1>17, <1>18, <1>19
        DEF IInv, RosterInv, DraftsInv, Drafts, BatchInv

----------------------------------------------------------------------------
(* Every step *)

LEMMA IInvNext == IInv /\ [Next]_vars => IInv'
<1> SUFFICES ASSUME IInv, [Next]_vars PROVE IInv'
  OBVIOUS
<1>1. ASSUME NEW c \in Chats, NEW s \in Users, NEW g \in Uuids, Prepare(c, s, g) PROVE IInv'
  BY <1>1, PrepareKeeps
<1>2. ASSUME NEW h \in Senders, Refuses(h) \/ InsertFails(h) \/ Drops(h) PROVE IInv'
  <2>1. End(h) /\ UNCHANGED <<membership, batches, messages, contacts, accepted>>
    BY <1>2 DEF Refuses, InsertFails, Drops
  <2>2. accepted' \subseteq batches /\ AcceptedIsStored'
    BY <2>1, AcceptedSame DEF membership
  <2> QED BY <2>1, <2>2, EndKeeps
<1>3. ASSUME NEW h \in Senders,
             \/ \E b \in batches : Submit(h, b)
             \/ ReadsMembers(h) \/ ReadsTargets(h) \/ ReadsExisting(h)
             \/ Inserts(h) \/ Answers(h)
      PROVE  IInv'
  BY <1>3, SubmitKeeps, ReadsMembersKeeps, ReadsTargetsKeeps, ReadsExistingKeeps,
     InsertsKeeps, AnswersKeeps
<1>4. CASE Next
  BY <1>1, <1>2, <1>3, <1>4, MembershipStepKeeps DEF Next
<1> QED BY <1>4, StutterKeeps

\* The inductive invariant holds of every reachable state.
THEOREM IInvAlways == Spec => []IInv
BY IInvInit, IInvNext, PTL DEF Spec

----------------------------------------------------------------------------
(* What follows *)

\* Batches, rows and submissions are typed, and a running submission has a
\* batch, whatever the chat service does meanwhile.
THEOREM TypeCorrect == Spec => []TypeOK
<1>1. IInv => TypeOK
  BY DEF IInv
<1> QED BY <1>1, IInvAlways, PTL

\* A member is never sent a message of a chat twice, in whatever drafts and
\* however often and overlappingly it is submitted.
THEOREM OneCopyEachAlways == Spec => []OneCopyEach
<1>1. IInv => OneCopyEach
  BY DEF IInv
<1> QED BY <1>1, IInvAlways, PTL

\* A batch that was answered with 201 is stored whole while its chat exists.
THEOREM AcceptedIsStoredAlways == Spec => []AcceptedIsStored
<1>1. IInv => AcceptedIsStored
  BY DEF IInv
<1> QED BY <1>1, IInvAlways, PTL

\* A stored message went to all who were members at one time while it was
\* submitted, and to nobody else, although the members are read in one
\* statement and the rows are written in another.
THEOREM AddressedToOneMembershipAlways == Spec => []AddressedToOneMembership
<1>1. IInv => AddressedToOneMembership
  BY DEF IInv, MessageInv, WasMembership, MembersAt, AddressedToOneMembership
<1> QED BY <1>1, IInvAlways, PTL

\* A reply that was stored points each recipient to that recipient's own copy,
\* and the copy is there.
THEOREM RepliesPointToOwnCopyAlways == Spec => []RepliesPointToOwnCopy
<1>1. IInv => RepliesPointToOwnCopy
  BY DEF IInv, MessageInv, Pointed, RepliesPointToOwnCopy
<1> QED BY <1>1, IInvAlways, PTL
=============================================================================
