---------------------------- MODULE ChatMessages ----------------------------
(***************************************************************************)
(* Sending a message to a group chat while its membership changes.         *)
(*                                                                         *)
(* The message is encrypted for each recipient, so a client prepares one   *)
(* delivery per member it knows of and submits them as one batch, under a  *)
(* uuid of its own; not having had an answer it submits the batch again,   *)
(* and after a conflict it may prepare another batch under the same uuid.  *)
(* The handler of a submission, add_chat_messages, reads the members, the  *)
(* reply targets and what is stored under the uuid with one SELECT each,   *)
(* at READ COMMITTED, then inserts the whole batch.                        *)
(*                                                                         *)
(* Meanwhile the membership changes.  All that this handler can see of it  *)
(* are committed rows, whose changes are those of GroupRoster: that        *)
(* ChatMembership implements GroupRoster is what lets the roster stand for *)
(* the chat service here.                                                  *)
(***************************************************************************)
EXTENDS ChatEvents, FiniteSets

CONSTANTS
  Chats,       \* chat identifiers that may ever be drawn
  Bounded,     \* whether the chats are held WithinBounds, to be explored
  MaxEvents,   \* bound on the events of a chat, if they are
  Senders,     \* submissions that can be in progress at the same time
  Uuids,       \* general message uuids the clients draw
  NoUuid,      \* a message that replies to nothing
  NoCopy,      \* a delivery without a reply pointer
  NoBatch,     \* the batch of a handler that is not running
  MaxBatches   \* bound on the batches that the clients prepare

ASSUME BoundedIsBoolean == Bounded \in BOOLEAN
ASSUME MaxEventsIsNat == MaxEvents \in Nat
ASSUME MaxBatchesIsNat == MaxBatches \in Nat
ASSUME NoUuidIsNone == NoUuid \notin Uuids

VARIABLES
  opened, owner, members, log,   \* see GroupRoster
  batches,     \* what the clients have prepared
  messages,    \* table messages, the rows that have a chat_id
  contacts,    \* pairs that batches gave a row of contact_requests
  sending,     \* the submissions in progress
  accepted     \* batches that some submission answered with 201

membership == <<opened, owner, members, log>>
vars == <<opened, owner, members, log,
          batches, messages, contacts, sending, accepted>>

Membership == INSTANCE GroupRoster

----------------------------------------------------------------------------
\* messages.id: drawn by the client, one for each recipient of a draft.
Copy == [uuid : Uuids, draft : 1..MaxBatches, recipient : Users]

Batch ==
  [uuid : Uuids, draft : 1..MaxBatches, sender : Users, chat : Chats,
   recipients : SUBSET Users, reply : Uuids \cup {NoUuid},
   pointer : UNION {[R -> Copy \cup {NoCopy}] : R \in SUBSET Users}]

\* since and upto are not columns: how much of the chat's event log was
\* committed when the submission started and when the row was.
Message == [batch : Batch, recipient : Users, since : Nat, upto : Nat]

Submission ==
  [step : {"idle", "members", "reply", "existing", "insert", "answer"},
   batch : Batch \cup {NoBatch}, since : Nat]

Idle == [step |-> "idle", batch |-> NoBatch, since |-> 0]

CopyFor(b, u) == [uuid |-> b.uuid, draft |-> b.draft, recipient |-> u]

CopyOf(m) == CopyFor(m.batch, m.recipient)

\* get_chat_reply_targets
Stored(c, g) == {m \in messages : m.batch.chat = c /\ m.batch.uuid = g}

\* get_chat_messages_by_general_uuid
StoredBy(s, c, g) == {m \in Stored(c, g) : m.batch.sender = s}

Step(h, step) == sending' = [sending EXCEPT ![h].step = step]

\* Mutant: the handler is not put back to idle.
EndOfBatch(h) == sending' = [sending EXCEPT ![h].batch = NoBatch]

End(h) == sending' = [sending EXCEPT ![h] = Idle]

----------------------------------------------------------------------------
Init ==
  /\ Membership!Init
  /\ batches = {}
  /\ messages = {}
  /\ contacts = {}
  /\ sending = [h \in Senders |-> Idle]
  /\ accepted = {}

\* Bounds on the log: its length, the owner doing everything, and no renaming.
\* The handler reads neither who added or removed a member nor the name.
WithinBounds(l, boss) ==
  Bounded =>
    /\ Len(l) <= MaxEvents
    /\ \A i \in DOMAIN l : l[i].actor = boss /\ l[i].kind # "name_changed"

\* Whatever the chat service does; deleting a chat cascades to its messages.
MembershipStep ==
  /\ Membership!Next
  /\ \A c \in Chats : WithinBounds(log'[c], owner'[c])
  /\ messages' = {m \in messages : owner'[m.batch.chat] # NoUser}
  /\ UNCHANGED <<batches, contacts, sending, accepted>>

\* A client encrypts for the other members it is told of, under a uuid that
\* another may have drawn as well, and copies reply pointers it finds in
\* answers of /reply-targets, rightly or not.
Prepare(c, s, g) ==
  LET others == members[c] \ {s}
      drafts == {b \in batches : b.uuid = g}
      copies == {CopyOf(m) : m \in {x \in messages : x.batch.chat = c}} IN
  /\ s \in members[c]
  /\ others # {}
  /\ Cardinality(batches) < MaxBatches
  /\ \E q \in {x \in Uuids \ {g} : Stored(c, x) # {}} \cup {NoUuid} :
     \E f \in [others -> copies \cup {NoCopy}] :
       batches' = batches \cup
         {[uuid |-> g, draft |-> Cardinality(drafts) + 1, sender |-> s,
           chat |-> c, recipients |-> others, reply |-> q, pointer |-> f]}
  /\ UNCHANGED <<membership, messages, contacts, sending, accepted>>

\* POST /chats/{chat_id}/messages, for the first time or again.
Submit(h, b) ==
  /\ sending[h] = Idle
  /\ sending' = [sending EXCEPT ![h] =
                   [step |-> "members", batch |-> b,
                    since |-> Len(log[b.chat])]]
  /\ UNCHANGED <<membership, batches, messages, contacts, accepted>>

----------------------------------------------------------------------------
(* add_chat_messages *)

\* Mutant: a batch that reaches some of the members will do.
AddressesSomeMembers(b) ==
  /\ b.sender \in members[b.chat]
  /\ b.recipients \subseteq Users

\* get_chat_by_id and get_participants: the batch must be addressed to the
\* active participants other than the sender, no more and no fewer.
AddressesMembers(b) ==
  /\ b.sender \in members[b.chat]
  /\ b.recipients = members[b.chat] \ {b.sender}

\* Mutant: the pointer may be to somebody else's copy.
PointsToAnyTarget(b) ==
  LET targets == Stored(b.chat, b.reply) IN
  IF b.reply = NoUuid
    THEN \A u \in b.recipients : b.pointer[u] = NoCopy
    ELSE /\ targets # {}
         /\ \A s, t \in targets : s.batch.sender = t.batch.sender
         /\ \A u \in b.recipients :
              IF b.pointer[u] = NoCopy
                THEN \A t \in targets : u # t.recipient \/ u = t.batch.sender
                ELSE \E t \in targets : b.pointer[u] = CopyOf(t)

\* Every recipient that has a copy of the message replied to is pointed to
\* that copy; newcomers and its author have none and need no pointer.  The
\* message replied to is of one author.
PointsToTargets(b) ==
  LET targets == Stored(b.chat, b.reply) IN
  IF b.reply = NoUuid
    THEN \A u \in b.recipients : b.pointer[u] = NoCopy
    ELSE /\ targets # {}
         /\ \A s, t \in targets : s.batch.sender = t.batch.sender
         /\ \A u \in b.recipients :
              IF b.pointer[u] = NoCopy
                THEN \A t \in targets : u # t.recipient \/ u = t.batch.sender
                ELSE \E t \in targets : b.pointer[u] = CopyOf(t) /\ u = t.recipient

\* Mutant: only the number of rows is compared.
IsSameSize(b) ==
  Cardinality(StoredBy(b.sender, b.chat, b.uuid)) = Cardinality(b.recipients)

\* What is stored under the uuid is this very batch: same ids, recipients,
\* payload and pointers.
IsStored(b) ==
  {CopyOf(m) : m \in StoredBy(b.sender, b.chat, b.uuid)} = {CopyFor(b, u) : u \in b.recipients}

ReadsMembers(h) ==
  /\ sending[h].step = "members"
  /\ AddressesMembers(sending[h].batch)
  /\ Step(h, "reply")
  /\ UNCHANGED <<membership, batches, messages, contacts, accepted>>

ReadsTargets(h) ==
  /\ sending[h].step = "reply"
  /\ PointsToTargets(sending[h].batch)
  /\ Step(h, "existing")
  /\ UNCHANGED <<membership, batches, messages, contacts, accepted>>

\* Nothing is stored under the uuid: go on. This batch is: a retry, answered
\* like the first time.
ReadsExisting(h) ==
  LET b == sending[h].batch IN
  /\ sending[h].step = "existing"
  /\ \/ StoredBy(b.sender, b.chat, b.uuid) = {} /\ Step(h, "insert")
     \/ IsStored(b) /\ Step(h, "answer")
  /\ UNCHANGED <<membership, batches, messages, contacts, accepted>>

\* 403, 404 or 409
Refuses(h) ==
  LET b == sending[h].batch IN
  /\ \/ sending[h].step = "members" /\ ~AddressesMembers(b)
     \/ sending[h].step = "reply" /\ ~PointsToTargets(b)
     \/ /\ sending[h].step = "existing"
        /\ StoredBy(b.sender, b.chat, b.uuid) # {}
        /\ ~IsStored(b)
  /\ End(h)
  /\ UNCHANGED <<membership, batches, messages, contacts, accepted>>

\* Mutant: the table has no constraint uq_messages_general_recipient.
InsertableById(b) ==
  /\ owner[b.chat] # NoUser
  /\ \A m \in messages, u \in b.recipients : CopyOf(m) # CopyFor(b, u)

\* The foreign key to the chat, the primary key and the unique constraint
\* (recipient, chat, uuid).  The rows pointed to cannot have gone while the
\* chat is there.
Insertable(b) ==
  /\ owner[b.chat] # NoUser
  /\ \A m \in messages, u \in b.recipients : CopyOf(m) # CopyFor(b, u)
  /\ \A m \in Stored(b.chat, b.uuid) : m.recipient \notin b.recipients

\* add_blank_contacts, one INSERT of all the rows, and the commit.
Inserts(h) ==
  LET b == sending[h].batch IN
  /\ sending[h].step = "insert"
  /\ Insertable(b)
  /\ messages' = messages \cup
       {[batch |-> b, recipient |-> u, since |-> sending[h].since,
         upto |-> Len(log[b.chat])] : u \in b.recipients}
  /\ contacts' = contacts \cup {{b.sender, u} : u \in b.recipients}
  /\ Step(h, "answer")
  /\ UNCHANGED <<membership, batches, accepted>>

\* DatabaseError, rolled back: a 500
InsertFails(h) ==
  /\ sending[h].step = "insert"
  /\ ~Insertable(sending[h].batch)
  /\ End(h)
  /\ UNCHANGED <<membership, batches, messages, contacts, accepted>>

\* message_available is published and the client gets its 201.
Answers(h) ==
  /\ sending[h].step = "answer"
  /\ accepted' = accepted \cup {sending[h].batch}
  /\ End(h)
  /\ UNCHANGED <<membership, batches, messages, contacts>>

\* The process crashes or the connection drops, before or after the commit.
Drops(h) ==
  /\ sending[h] # Idle
  /\ End(h)
  /\ UNCHANGED <<membership, batches, messages, contacts, accepted>>

Next ==
  \/ MembershipStep
  \/ \E c \in Chats, s \in Users, g \in Uuids : Prepare(c, s, g)
  \/ \E h \in Senders :
       \/ \E b \in batches : Submit(h, b)
       \/ ReadsMembers(h) \/ ReadsTargets(h) \/ ReadsExisting(h) \/ Refuses(h)
       \/ Inserts(h) \/ InsertFails(h) \/ Answers(h) \/ Drops(h)

Spec == Init /\ [][Next]_vars

----------------------------------------------------------------------------
(* Properties *)

\* The rows and the submissions in progress have their types, and a running
\* submission has a batch.
TypeOK ==
  /\ batches \subseteq Batch
  /\ messages \subseteq Message
  /\ sending \in [Senders -> Submission]
  /\ \A h \in Senders : sending[h].step # "idle" => sending[h].batch \in batches
  /\ contacts \subseteq SUBSET Users
  /\ accepted \subseteq batches

\* A member gets a message of a chat at most once, however often its batch
\* is submitted and in whatever drafts, even by submissions that overlap.
OneCopyEach ==
  \A m, n \in messages :
    /\ m.recipient = n.recipient
    /\ m.batch.chat = n.batch.chat
    /\ m.batch.uuid = n.batch.uuid
    => m = n

\* A batch that was answered with 201 is stored whole as long as its chat
\* exists, whether this submission stored it or found it stored.
AcceptedIsStored ==
  \A b \in accepted :
    owner[b.chat] # NoUser =>
      \A u \in b.recipients : \E m \in messages : m.batch = b /\ m.recipient = u

\* A stored message went to the whole membership of the chat, as the event
\* log tells it, at one moment between the arrival of the submission and the
\* commit: never to somebody who had left before it was sent, and nobody who
\* was a member all the time is missed.
AddressedToOneMembership ==
  \A m \in messages :
    LET b == m.batch IN
    \E p \in m.since..m.upto :
      b.recipients \cup {b.sender}
        = {u \in Users : LastWord(SubSeq(log[b.chat], 1, p), u, Arrivals)}

\* A reply points a recipient to the recipient's own copy of the message it
\* replies to, the only one the recipient can decrypt, and that copy is there.
RepliesPointToOwnCopy ==
  \A m \in messages :
    LET pointer == m.batch.pointer[m.recipient] IN
    pointer # NoCopy =>
      \E t \in Stored(m.batch.chat, m.batch.reply) :
        CopyOf(t) = pointer /\ t.recipient = m.recipient

=============================================================================
