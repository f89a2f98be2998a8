---------------------------- MODULE ChatService ----------------------------
(***************************************************************************)
(* The chat, message, file and contact services over one database.         *)
(*                                                                         *)
(* ChatMessages, FileTransfers, Inbox and ContactRelation are written      *)
(* against what they can see of the other services: committed participant  *)
(* rows, chats that are gone, rows that turn up.  Here that environment is *)
(* the services themselves.  The members that a batch is checked against   *)
(* are the rows that the handlers of ChatMembership write, the chat that a *)
(* foreign key asks for is the row in its table, the messages of batches   *)
(* and direct messages are acknowledged in one table, a chat that is       *)
(* deleted takes its messages and files along, and whoever makes a blank   *)
(* contact row does so in the table of contacts, in its own transaction.   *)
(* The composition implements the five specifications it is made of, so    *)
(* that what is shown of each holds of all together.                       *)
(***************************************************************************)
EXTENDS ChatMembership

CONSTANTS
  Senders, Uuids, NoUuid, NoCopy, NoBatch, MaxBatches,         \* see ChatMessages
  Files, Size, ChunkSizes, Target, Uploads, NoUpload, Handlers, \* see FileTransfers
  Sender, Recipient,                \* of each file
  Ids, ContactHandlers, NoId,       \* see ContactRelation
  Letters,          \* ids of direct messages
  Draft,            \* of each of them, see Inbox
  Author,           \* of each draft of a uuid, the user whose client makes it
  Devices, None     \* see Inbox

VARIABLES
  batches, messages, sending, accepted,
  messageContacts,  \* pairs that batches gave a row of contact_requests
  transfer, chunks, drawn, known, finished, announced, served, handler,
  fileContacts,     \* files whose two users were given one
  contact, drawnIds, contactHandler, agreed, unsettled,
  verdict,          \* table messages, rows of both kinds
  device, told, gone, acked

mailVars == <<batches, messages, sending, accepted, messageContacts>>
fileVars == <<transfer, chunks, drawn, known, finished, announced, served,
              handler, fileContacts>>
relationVars == <<contact, drawnIds, contactHandler, agreed, unsettled>>
directVars == <<verdict, device, told, gone, acked>>
serviceVars == <<vars, mailVars, fileVars, relationVars, directVars>>

\* The members and the log are those of the tables, whatever their length.
Mail == INSTANCE ChatMessages
          WITH members <- [c \in Chats |-> Active(c)], log <- events,
               contacts <- messageContacts, Bounded <- FALSE

\* A chat identifier is drawn once: what is not there now and was, is deleted.
NotDeleted == {c \in Chats : c \in opened => Exists(c)}

FileService == INSTANCE FileTransfers
          WITH open <- NotDeleted, contacts <- fileContacts, NoRow <- NoUpload

Relations == INSTANCE ContactRelation
          WITH Handlers <- ContactHandlers, drawn <- drawnIds,
               handler <- contactHandler

\* What the client has put under the id of a message.
Letter ==
  [m \in Letters \cup Mail!Copy |->
     IF m \in Mail!Copy
       THEN [from |-> Author[<<m.uuid, m.draft>>], to |-> m.recipient, reply |-> None]
       ELSE Draft[m]]

\* The pairs of users with a contact row.
Related == {Relations!Pair(i) : i \in Relations!Rows}

Directs == INSTANCE Inbox
          WITH Messages <- Letters \cup Mail!Copy, ByChat <- Mail!Copy,
               Draft <- Letter, contacts <- Related, Handlers <- Devices,
               handler <- device, announced <- told

----------------------------------------------------------------------------
ServiceInit ==
  Init /\ Mail!Init /\ FileService!Init /\ Relations!Init /\ Directs!Init

IsDeleted(c) == Exists(c) /\ ~Exists(c)'

\* The foreign key of messages.
MessagesFollow ==
  /\ messages' = {m \in messages : owner'[m.batch.chat] # NoUser}
  /\ UNCHANGED <<batches, sending, accepted, messageContacts>>

\* The foreign key of file_transfers, and that of file_chunks.
FilesFollow ==
  \/ \E c \in Chats :
       /\ IsDeleted(c)
       /\ FileService!DeleteRows({u \in FileService!Rows : Target[transfer[u].file] = c})
       /\ UNCHANGED <<drawn, known, finished, announced, served, handler,
                      fileContacts>>
  \/ /\ \A c \in Chats : ~IsDeleted(c)
     /\ UNCHANGED fileVars

\* The rows of a deleted chat in the table of all messages; the DELETE waits
\* for those that an acknowledgement has locked.
VerdictsFollow ==
  \/ \E c \in Chats :
       LET M == {Mail!CopyOf(m) : m \in {x \in messages : x.batch.chat = c}} IN
       /\ IsDeleted(c)
       /\ \A d \in Devices : M \cap Directs!Gave(d) = {}
       /\ Directs!Vanishes(M)
       /\ UNCHANGED <<device, told, acked>>
  \/ /\ \A c \in Chats : ~IsDeleted(c)
     /\ UNCHANGED directVars

\* A batch is stored in that table.
BatchesArrive ==
  \/ \E h \in Senders :
       LET b == sending[h].batch IN
       /\ Mail!Inserts(h)
       /\ Directs!Arrives({Mail!CopyFor(b, u) : u \in b.recipients})
       /\ UNCHANGED <<device, told, gone, acked>>
  \/ /\ \A h \in Senders : ~Mail!Inserts(h)
     /\ UNCHANGED directVars

\* add_blank_contacts is called in the transaction of the handler, and the
\* table is left alone by those that do not call it.  Whoever is invited gets
\* a row with the participants that were read,
InvitationsRelate ==
  \/ \E r \in Requests :
       /\ AddCommits(r)
       /\ Relations!AddBlanks(request[r].target, request[r].peers)
  \/ /\ \A r \in Requests : ~AddCommits(r)
     /\ UNCHANGED relationVars

\* the sender of a batch with every recipient,
BatchesRelate ==
  \/ \E h \in Senders, u \in Users, P \in SUBSET Users :
       /\ Mail!Inserts(h)
       /\ u = sending[h].batch.sender /\ P = sending[h].batch.recipients
       /\ Relations!AddBlanks(u, P)
  \/ /\ \A h \in Senders : ~Mail!Inserts(h)
     /\ UNCHANGED relationVars

CompletesDirect(h, f) ==
  /\ FileService!CompleteCommits(h)
  /\ f = transfer[handler[h].upload].file
  /\ Target[f] = NoChat

\* the sender of a file that is sent directly with its recipient,
FilesRelate ==
  \/ \E h \in Handlers, f \in Files, u, v \in Users :
       /\ CompletesDirect(h, f)
       /\ u = Sender[f] /\ v = Recipient[f]
       /\ Relations!AddBlanks(u, {v})
  \/ /\ \A h \in Handlers, f \in Files : ~CompletesDirect(h, f)
     /\ UNCHANGED relationVars

\* and the sender of a direct message, where the INSERT is a plain one: the
\* row it stores for a pair that had none is a change of Related, which
\* Stores asks for.
StoresRelating(d) ==
  \E u, v \in Users :
    /\ device[d].inserts
    /\ u = Letter[device[d].message].from /\ v = Letter[device[d].message].to
    /\ Relations!AddBlanks(u, {v})
    /\ Directs!Stores(d)

\* Deleting a chat cascades, in the transaction that deletes it.
ChatStep ==
  /\ Next
  /\ MessagesFollow
  /\ FilesFollow
  /\ VerdictsFollow
  /\ InvitationsRelate

\* Whoever makes a draft is its author: Author only names them.
MailStep ==
  /\ UNCHANGED <<vars, fileVars>>
  /\ Mail!Next
  /\ \A b \in batches' : b.sender = Author[<<b.uuid, b.draft>>]
  /\ BatchesArrive
  /\ BatchesRelate

\* create_upload reads the participants: both users must be among them.
CreatesForParticipants(h) ==
  LET f == handler'[h].file IN
  handler[h].op = "none" /\ handler'[h].op = "create" /\ Target[f] # NoChat
    => {Sender[f], Recipient[f]} \subseteq Active(Target[f])

FileStep ==
  /\ UNCHANGED <<vars, mailVars, directVars>>
  /\ FileService!Next
  /\ \A h \in Handlers : CreatesForParticipants(h)
  /\ FilesRelate

RelationStep ==
  /\ UNCHANGED <<vars, mailVars, fileVars, directVars>>
  /\ \E h \in ContactHandlers :
       Relations!StartSome(h) \/ Relations!Continue(h) \/ Relations!Drop(h)

DirectStep ==
  /\ UNCHANGED <<vars, mailVars, fileVars>>
  /\ \E d \in Devices :
       \/ StoresRelating(d)
       \/ /\ UNCHANGED relationVars
          /\ Directs!StartSome(d) \/ Directs!Continue(d) \/ Directs!Drop(d)

ServiceNext ==
  ChatStep \/ MailStep \/ FileStep \/ RelationStep \/ DirectStep

ServiceSpec == ServiceInit /\ [][ServiceNext]_serviceVars

----------------------------------------------------------------------------
(* What the composition implements *)

\* The chat service is not disturbed by the others.
ImplementsMembership == Spec

\* To a batch of messages the chat service is an atomic roster, and a chat
\* takes its messages along.
ImplementsMessages == Mail!Spec

\* To an upload a chat is there until it is deleted with its files.
ImplementsTransfers == FileService!Spec

\* To a contact the others do nothing but add blank rows where there is none.
ImplementsRelations == Relations!Spec

\* To a device the others store messages and delete them with their chat,
\* and change contacts.
ImplementsInbox == Directs!Spec
=============================================================================
