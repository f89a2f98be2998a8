------------------------------- MODULE Inbox -------------------------------
(***************************************************************************)
(* Direct messages, and the acknowledgement of messages of all kinds.      *)
(*                                                                         *)
(* A direct message makes the contact row of its two users if they have    *)
(* none; the handler is cut between the SELECT that looks for it and the   *)
(* INSERTs with their commit, and before the publication.                  *)
(*                                                                         *)
(* An acknowledgement says of each message whether the device could read   *)
(* it.  It is one transaction of two UPDATEs, successes first, each of     *)
(* which goes from row to row: it waits for a row that another device has  *)
(* updated, then looks at it again, and keeps the lock of what it updates  *)
(* until the commit.                                                       *)
(***************************************************************************)
EXTENDS Naturals, FiniteSets

CONSTANTS
  Users,     \* registered users
  Messages,  \* message ids, each drawn by a client for one message
  Draft,     \* Draft[m], the message with id m: its sender, recipient, reply
  ByChat,    \* the messages that are sent to a chat (see ChatMessages)
  None,      \* no message, user or row
  Handlers   \* requests that can be in progress at the same time

ASSUME NoneIsNothing ==
  None \notin Messages \cup Users \cup [to : Users, verdict : {"waiting", "done", "failed"}]
ASSUME DraftsAreDrafts ==
  Draft \in [Messages -> [from : Users, to : Users, reply : Messages \cup {None}]]

VARIABLES
  verdict,    \* table messages: "absent", or is_delivered and failed of the row
  contacts,   \* pairs of users with a row in contact_requests
  handler,    \* the requests in progress
  announced,  \* how often message_available was published for a message
  gone,       \* chat messages deleted with their chat
  acked       \* messages for which an acknowledgement of their recipient's was
              \* answered

vars == <<verdict, contacts, handler, announced, gone, acked>>

----------------------------------------------------------------------------
Handler ==
  [op      : {"none", "store", "announce", "ack"},
   message : Messages \cup {None},  \* the message to send
   inserts : BOOLEAN,               \* found no contact row
   user    : Users \cup {None},     \* whose device acknowledges
   named   : SUBSET Messages,       \* the messages it acknowledges
   ok      : SUBSET Messages,       \* of these, successes not gone through yet
   bad     : SUBSET Messages,       \* failures not gone through yet
   gaveOk  : SUBSET Messages,       \* rows updated and locked
   gaveBad : SUBSET Messages]

Idle == [op |-> "none", message |-> None, inserts |-> FALSE, user |-> None,
         named |-> {}, ok |-> {}, bad |-> {}, gaveOk |-> {}, gaveBad |-> {}]

Rows == {m \in Messages : verdict[m] # "absent"}

Pair(m) == {Draft[m].from, Draft[m].to}

Arrives(M) == verdict' = [m \in Messages |-> IF m \in M THEN "waiting" ELSE verdict[m]]

Vanishes(M) ==
  /\ verdict' = [m \in Messages |-> IF m \in M THEN "absent" ELSE verdict[m]]
  /\ gone' = gone \cup M

Start(h, q) ==
  /\ handler[h] = Idle
  /\ handler' = [handler EXCEPT ![h] = q]
  /\ UNCHANGED <<verdict, contacts, announced, gone, acked>>

\* Mutant: the slot keeps what its last request was about.
EndKeepingMessages(h) == handler' = [handler EXCEPT ![h].op = "none"]

End(h) == handler' = [handler EXCEPT ![h] = Idle]

Init ==
  /\ verdict = [m \in Messages |-> "absent"]
  /\ contacts = {}
  /\ handler = [h \in Handlers |-> Idle]
  /\ announced = [m \in Messages |-> 0]
  /\ gone = {}
  /\ acked = {}

----------------------------------------------------------------------------
(* add_text_message and the publication *)

\* Mutant: any message that is there can be replied to.
AnyReply(m) == Draft[m].reply # None => Draft[m].reply \in Rows

\* A reply is to a direct message of the same two users.
MayReply(m) ==
  Draft[m].reply # None =>
    /\ Draft[m].reply \in Rows \ ByChat
    /\ Pair(Draft[m].reply) = Pair(m)

\* The client sends, or sends again.  The two SELECTs see the reply target,
\* which is never deleted, and the contact.
StartSend(h, m) ==
  /\ m \notin ByChat
  /\ MayReply(m)
  /\ Start(h, [Idle EXCEPT !.op = "store", !.message = m,
                           !.inserts = Cardinality(Pair(m)) = 2 /\ Pair(m) \notin contacts])

\* Mutant: an id can be stored again.
AnyId(m) == m \in Messages

\* messages.id is the primary key.
IdIsFree(m) == m \notin Rows

\* The plain INSERT of _ensure_blank_contact meets the unique index.
ContactFits(h) == handler[h].inserts => Pair(handler[h].message) \notin contacts

Stores(h) ==
  LET m == handler[h].message IN
  /\ handler[h].op = "store"
  /\ IdIsFree(m)
  /\ ContactFits(h)
  /\ Arrives({m})
  /\ contacts' = IF handler[h].inserts THEN contacts \cup {Pair(m)} ELSE contacts
  /\ handler' = [handler EXCEPT ![h].op = "announce"]
  /\ UNCHANGED <<announced, gone, acked>>

\* An internal error, rolled back: of two first messages to each other one
\* fails, and a message that was stored when its sender did not hear of it
\* fails each time it is sent again.
StoreFails(h) ==
  /\ handler[h].op = "store"
  /\ ~IdIsFree(handler[h].message) \/ ~ContactFits(h)
  /\ End(h)
  /\ UNCHANGED <<verdict, contacts, announced, gone, acked>>

Announces(h) ==
  /\ handler[h].op = "announce"
  /\ announced' = [announced EXCEPT ![handler[h].message] = @ + 1]
  /\ End(h)
  /\ UNCHANGED <<verdict, contacts, gone, acked>>

----------------------------------------------------------------------------
(* acknowledge_messages *)

\* A device gives its verdicts on messages it was told of, once or again.
StartAck(h, u, named, ok) ==
  /\ named # {}
  /\ Start(h, [Idle EXCEPT !.op = "ack", !.user = u, !.named = named,
                           !.ok = ok, !.bad = named \ ok])

\* What the UPDATE in progress has still to go through.
ToDo(h) == IF handler[h].ok # {} THEN handler[h].ok ELSE handler[h].bad

Gave(h) == handler[h].gaveOk \cup handler[h].gaveBad

LockedByOther(h, m) == \E k \in Handlers \ {h} : m \in Gave(k)

\* Mutant: the UPDATE does not look at is_delivered.
AddressedTo(h, m) == m \in Rows /\ Draft[m].to = handler[h].user

\* The WHERE clause.
Matches(h, m) == verdict[m] = "waiting" /\ Draft[m].to = handler[h].user

GoesThrough(h, m) ==
  IF handler[h].ok # {} THEN [handler[h] EXCEPT !.ok = @ \ {m}]
                        ELSE [handler[h] EXCEPT !.bad = @ \ {m}]

UpdatesRow(h, m) ==
  /\ handler[h].op = "ack"
  /\ m \in ToDo(h)
  /\ Matches(h, m)
  /\ ~LockedByOther(h, m)
  /\ handler' = [handler EXCEPT ![h] =
                   IF handler[h].ok # {}
                     THEN [GoesThrough(h, m) EXCEPT !.gaveOk = @ \cup {m}]
                     ELSE [GoesThrough(h, m) EXCEPT !.gaveBad = @ \cup {m}]]
  /\ UNCHANGED <<verdict, contacts, announced, gone, acked>>

\* Mutant: rows that are locked are passed over.
IsPassedIfLocked(h, m) == ~Matches(h, m) \/ LockedByOther(h, m)

\* Not to this user, judged already, or gone.
IsPassed(h, m) == ~Matches(h, m)

PassesRow(h, m) ==
  /\ handler[h].op = "ack"
  /\ m \in ToDo(h)
  /\ IsPassed(h, m)
  /\ handler' = [handler EXCEPT ![h] = GoesThrough(h, m)]
  /\ UNCHANGED <<verdict, contacts, announced, gone, acked>>

\* The commit; the answer counts the rows.
CommitsAck(h) ==
  LET q == handler[h] IN
  /\ q.op = "ack"
  /\ ToDo(h) = {}
  /\ verdict' = [m \in Messages |-> IF m \in q.gaveOk THEN "done"
                                    ELSE IF m \in q.gaveBad THEN "failed"
                                    ELSE verdict[m]]
  /\ acked' = acked \cup q.named
  /\ End(h)
  /\ UNCHANGED <<contacts, announced, gone>>

\* Mutant: nobody finds out.
FindsNoDeadlock(h) == FALSE

\* h is one of several that have only rows before them that the others have
\* locked.
IsDeadlocked(h) ==
  \E S \in SUBSET Handlers :
    /\ h \in S
    /\ \A k \in S :
         /\ handler[k].op = "ack" /\ ToDo(k) # {}
         /\ \A m \in ToDo(k) : \E j \in S \ {k} : m \in Gave(j)

\* The database rolls one of them back.
Victim(h) ==
  /\ IsDeadlocked(h)
  /\ End(h)
  /\ UNCHANGED <<verdict, contacts, announced, gone, acked>>

----------------------------------------------------------------------------
\* The process crashes or the connection drops; before a commit nothing was
\* written, after it nobody is told.
Drop(h) ==
  /\ handler[h] # Idle
  /\ End(h)
  /\ UNCHANGED <<verdict, contacts, announced, gone, acked>>

\* Two users may have a row in contact_requests.
Pairs == {p \in SUBSET Users : Cardinality(p) = 2}

\* add_chat_messages stores the copies of a message, and their contacts.
ChatMessagesArrive(M) ==
  /\ M # {} /\ M \subseteq ByChat \ (Rows \cup gone)
  /\ Arrives(M)
  /\ contacts' \in SUBSET Pairs
  /\ UNCHANGED <<handler, announced, gone, acked>>

\* delete_chat, with the cascade, which waits for locked rows.
ChatGoes(M) ==
  /\ M \subseteq ByChat \cap Rows
  /\ \A h \in Handlers : M \cap Gave(h) = {}
  /\ Vanishes(M)
  /\ UNCHANGED <<contacts, handler, announced, acked>>

\* Requests, chats and files make contact rows, a rejection deletes one (see
\* ContactRelation).
ContactsChange ==
  /\ contacts' \in SUBSET Pairs
  /\ UNCHANGED <<verdict, handler, announced, gone, acked>>

Continue(h) ==
  \/ Stores(h)
  \/ StoreFails(h)
  \/ Announces(h)
  \/ \E m \in Messages : UpdatesRow(h, m) \/ PassesRow(h, m)
  \/ CommitsAck(h)
  \/ Victim(h)

StartSome(h) ==
  \/ \E m \in Messages : StartSend(h, m)
  \/ \E u \in Users : \E named \in SUBSET {m \in Rows : Draft[m].to = u} :
       \E ok \in SUBSET named : StartAck(h, u, named, ok)

Next ==
  \/ \E h \in Handlers : StartSome(h) \/ Continue(h) \/ Drop(h)
  \/ \E M \in SUBSET Messages : ChatMessagesArrive(M) \/ ChatGoes(M)
  \/ ContactsChange

Spec == Init /\ [][Next]_vars

\* A handler goes on, waiters of a row lock are served in turn, and a deadlock
\* is found.
FairSpec == Spec /\ \A h \in Handlers : SF_vars(Continue(h))

----------------------------------------------------------------------------
(* Properties *)

\* Values have their types, an acknowledgement holds the locks of rows that
\* are there and goes through the messages it names, and a request that has
\* ended leaves nothing in the slot of the next.
TypeOK ==
  /\ verdict \in [Messages -> {"absent", "waiting", "done", "failed"}]
  /\ contacts \subseteq SUBSET Users
  /\ handler \in [Handlers -> Handler]
  /\ \A h \in Handlers :
       /\ handler[h].op = "none" => handler[h] = Idle
       /\ handler[h].op \in {"store", "announce"} => handler[h].message \in Messages \ ByChat
       /\ handler[h].op # "ack" => Gave(h) = {}
       /\ handler[h].op = "ack" => handler[h].user \in Users
       /\ handler[h].ok \cup handler[h].bad \cup Gave(h) \subseteq handler[h].named
  /\ announced \in [Messages -> Nat]
  /\ gone \subseteq ByChat \ Rows
  /\ acked \subseteq Messages

\* A message is announced at most once, and only when it is stored, however
\* often and overlappingly its sender sends it.
AnnouncedOnce ==
  \A m \in Messages : announced[m] <= 1 /\ (announced[m] = 1 => m \in Rows)

\* A direct message that is a reply points to a direct message of the same
\* conversation that is there.
RepliesStay ==
  \A m \in Rows \ ByChat : Draft[m].reply # None =>
    Draft[m].reply \in Rows \ ByChat /\ Pair(Draft[m].reply) = Pair(m)

\* A device that got an answer need not acknowledge again: each message for
\* it has a verdict, its own or that of another device, also when that other
\* device was rolled back meanwhile.
AckedIsJudged == \A m \in acked : verdict[m] # "waiting"

\* The table as the two ends of its messages see it.
InboxRows ==
  [m \in Messages |-> IF verdict[m] = "absent" THEN None
                      ELSE [to |-> Draft[m].to, verdict |-> verdict[m]]]

V == INSTANCE Verdicts WITH inbox <- InboxRows

\* Of two devices that acknowledge a message the first to commit decides, for
\* all messages it names that are undecided, and no later one changes that.
ImplementsVerdicts == V!Spec

\* Two devices that give opposite verdicts on two messages wait for each
\* other; still every request ends.
EveryRequestEnds ==
  \A h \in Handlers : handler[h].op # "none" ~> handler[h].op = "none"
=============================================================================
