--------------------------- MODULE FileTransfers ---------------------------
(***************************************************************************)
(* The file service.  A sender opens an upload session, appends the        *)
(* encrypted file chunk by chunk, each at the offset the session has       *)
(* reached, and completes it; the recipient then downloads the chunks and  *)
(* acknowledges the file.                                                  *)
(*                                                                         *)
(* Each handler reads the session, checks it, and then writes with a       *)
(* statement whose WHERE clause repeats what must still hold; the row it   *)
(* updates is locked until the commit.  So a handler is cut once, between  *)
(* the read (step "write") and the guarded write with its commit.  A       *)
(* handler whose checks fail on what it reads changes nothing and is not   *)
(* an action, nor are requests of users other than the sender of a         *)
(* session or the recipient of a file, who are refused.                    *)
(***************************************************************************)
EXTENDS Integers, FiniteSets

CONSTANTS
  Files,       \* file ids: uuid7, drawn by the client for each encrypted file
  Size,        \* Size[f], total_size of the file
  ChunkSizes,  \* chunk sizes the clients choose from
  Target,      \* Target[f], the chat f is sent in, or NoChat; the sender and
               \* the recipient of f are two different users
  Uploads,     \* upload ids: uuid4, each drawn at most once
  Chats,       \* chats that exist in the beginning
  NoChat,      \* a file sent to a user directly
  NoRow,       \* an upload id with no row in file_transfers
  Handlers     \* requests that can be in progress at the same time

ASSUME SizeIsNat == Size \in [Files -> Nat]
ASSUME ChunkSizesArePositive == ChunkSizes \subseteq Nat \ {0}
ASSUME NoChatIsNone == NoChat \notin Chats
ASSUME TargetIsChat == Target \in [Files -> Chats \cup {NoChat}]

VARIABLES
  open,       \* chats that have not been deleted
  transfer,   \* table file_transfers, by upload id
  chunks,     \* table file_chunks
  drawn,      \* upload ids drawn so far
  known,      \* upload ids whose session was answered to the sender
  finished,   \* files whose upload was once completed
  contacts,   \* files whose two users were given a row of contact_requests
  announced,  \* files for which message_available was published
  served,     \* chunks handed out to recipients
  handler     \* the requests in progress

vars == <<open, transfer, chunks, drawn, known, finished, contacts, announced,
          served, handler>>

----------------------------------------------------------------------------
\* A row of file_transfers.  expired: expires_at has passed.  reached is not a
\* column: how far the upload was when it expired, -1 if it did not.
Transfer ==
  [file : Files, chunkSize : ChunkSizes, offset : Nat,
   status : {"uploading", "completed", "delivered"}, expired : BOOLEAN,
   reached : Nat \cup {-1}]

ASSUME NoRowIsNone == NoRow \notin Uploads \cup Files \cup Transfer

\* A row of file_chunks, its ciphertext as the slice of the file it holds.
Chunk == [file : Files, index : Nat, from : Nat, length : Nat]

Handler ==
  [op     : {"none", "create", "append", "complete", "abort", "download"},
   step   : {"idle", "write", "notify"},
   upload : Uploads \cup {NoRow},
   file   : Files \cup {NoRow},
   number : Nat,      \* offset to append at, or index to download
   length : Nat,      \* of the chunk to append
   chunkSize : ChunkSizes \cup {0}]

Idle == [op |-> "none", step |-> "idle", upload |-> NoRow, file |-> NoRow,
         number |-> 0, length |-> 0, chunkSize |-> 0]

Rows == {u \in Uploads : transfer[u] # NoRow}

\* get_transfer_by_file_id: file_id is the primary key.
RowOf(f) == {u \in Rows : transfer[u].file = f}

ChunksOf(f) == {x \in chunks : x.file = f}

Uploading(u) == u \in Rows /\ transfer[u].status = "uploading"

\* Mutant: expires_at is not looked at.
ResumableForEver(u) == Uploading(u)

\* get_upload_session
Resumable(u) == Uploading(u) /\ ~transfer[u].expired

Complete(u) == transfer[u].offset = Size[transfer[u].file]

At(h, op, step) == handler[h].op = op /\ handler[h].step = step

Start(h, q) ==
  /\ handler[h] = Idle
  /\ handler' = [handler EXCEPT ![h] = q]

\* Mutant: the slot keeps its last request.
EndKeepingRequest(h) == handler' = [handler EXCEPT ![h].step = "idle"]

End(h) == handler' = [handler EXCEPT ![h] = Idle]

\* Deleting rows of file_transfers cascades to their chunks.
DeleteRows(U) ==
  /\ transfer' = [u \in Uploads |-> IF u \in U THEN NoRow ELSE transfer[u]]
  /\ chunks' = {x \in chunks : \A u \in U \cap Rows : x.file # transfer[u].file}

tables == <<open, transfer, chunks, drawn, finished, contacts>>

----------------------------------------------------------------------------
Init ==
  /\ open = Chats
  /\ transfer = [u \in Uploads |-> NoRow]
  /\ chunks = {}
  /\ drawn = {}
  /\ known = {}
  /\ finished = {}
  /\ contacts = {}
  /\ announced = {}
  /\ served = {}
  /\ handler = [h \in Handlers |-> Idle]

(* create_upload *)

\* The recipient, the chat and its participants are read.  The request comes
\* again when an answer was lost or an upload was aborted.
StartCreate(h, f, n) ==
  /\ Target[f] \in open \cup {NoChat}
  /\ Start(h, [Idle EXCEPT !.op = "create", !.step = "write", !.file = f,
                           !.chunkSize = n])
  /\ UNCHANGED <<tables, known, announced, served>>

\* The primary key file_id and the foreign key to the chat.
CreateSucceeds(h) ==
  /\ RowOf(handler[h].file) = {}
  /\ Target[handler[h].file] \in open \cup {NoChat}

\* The INSERT with a fresh upload id, and the commit.
CreateCommits(h, u) ==
  /\ At(h, "create", "write")
  /\ CreateSucceeds(h)
  /\ u \notin drawn
  /\ drawn' = drawn \cup {u}
  /\ transfer' = [transfer EXCEPT ![u] =
                    [file |-> handler[h].file,
                     chunkSize |-> handler[h].chunkSize, offset |-> 0,
                     status |-> "uploading", expired |-> FALSE, reached |-> -1]]
  /\ handler' = [handler EXCEPT ![h].step = "notify", ![h].upload = u]
  /\ UNCHANGED <<open, chunks, finished, contacts, known, announced, served>>

CreateFails(h) ==
  /\ At(h, "create", "write")
  /\ ~CreateSucceeds(h)
  /\ End(h)
  /\ UNCHANGED <<tables, known, announced, served>>

\* Only now does the sender learn the upload id.
CreateAnswers(h) ==
  /\ At(h, "create", "notify")
  /\ known' = known \cup {handler[h].upload}
  /\ End(h)
  /\ UNCHANGED <<tables, announced, served>>

----------------------------------------------------------------------------
(* append_chunk *)

\* Mutant: any length that fits is taken.
AcceptsAnyLength(u, n) == n > 0 /\ transfer[u].offset + n <= Size[transfer[u].file]

\* A chunk is not empty and has the full chunk size, or what is left.
AcceptsLength(u, n) ==
  LET left == Size[transfer[u].file] - transfer[u].offset IN
  /\ n > 0
  /\ n = IF left < transfer[u].chunkSize THEN left ELSE transfer[u].chunkSize

StartAppend(h, u, n) ==
  /\ u \in known
  /\ Resumable(u)
  /\ AcceptsLength(u, n)
  /\ Start(h, [Idle EXCEPT !.op = "append", !.step = "write", !.upload = u,
                           !.number = transfer[u].offset, !.length = n])
  /\ UNCHANGED <<tables, known, announced, served>>

\* UPDATE ... WHERE status = uploading AND offset = expected
AppendMatches(h) ==
  LET u == handler[h].upload IN
  Uploading(u) /\ transfer[u].offset = handler[h].number

NewIndex(h) == handler[h].number \div transfer[handler[h].upload].chunkSize

\* The primary key (file_id, chunk_index) of the chunk is free.
IndexIsFree(h) ==
  \A x \in ChunksOf(transfer[handler[h].upload].file) : x.index # NewIndex(h)

\* Mutant: the offset is moved and the chunk is left for later.
AppendMovesOffset(h) ==
  LET u == handler[h].upload IN
  /\ At(h, "append", "write")
  /\ AppendMatches(h)
  /\ transfer' = [transfer EXCEPT ![u].offset = @ + handler[h].length]
  /\ UNCHANGED chunks
  /\ End(h)
  /\ UNCHANGED <<open, drawn, finished, contacts, known, announced, served>>

\* The offset moves and the chunk is inserted, in one transaction.  The
\* handler reads the session once more for its answer, which may turn into an
\* error although the chunk is stored.
AppendCommits(h) ==
  LET u == handler[h].upload
      o == handler[h].number IN
  /\ At(h, "append", "write")
  /\ AppendMatches(h) /\ IndexIsFree(h)
  /\ transfer' = [transfer EXCEPT ![u].offset = o + handler[h].length]
  /\ chunks' = chunks \cup {[file |-> transfer[u].file,
                             index |-> NewIndex(h),
                             from |-> o, length |-> handler[h].length]}
  /\ End(h)
  /\ UNCHANGED <<open, drawn, finished, contacts, known, announced, served>>

----------------------------------------------------------------------------
(* complete_upload *)

StartComplete(h, u) ==
  /\ u \in known
  /\ Resumable(u)
  /\ Complete(u)
  /\ Start(h, [Idle EXCEPT !.op = "complete", !.step = "write", !.upload = u])
  /\ UNCHANGED <<tables, known, announced, served>>

\* Mutant: the UPDATE does not look at the status.
CompleteMatchesAnyStatus(h) == handler[h].upload \in Rows /\ Complete(handler[h].upload)

\* UPDATE ... WHERE status = uploading AND offset = total_size
CompleteMatches(h) == Uploading(handler[h].upload) /\ Complete(handler[h].upload)

\* A direct file also gives its users a blank contact row.
CompleteCommits(h) ==
  LET u == handler[h].upload
      f == transfer[u].file IN
  /\ At(h, "complete", "write")
  /\ CompleteMatches(h)
  /\ transfer' = [transfer EXCEPT ![u].status = "completed", ![u].expired = FALSE]
  /\ finished' = finished \cup {f}
  /\ contacts' = IF Target[f] = NoChat THEN contacts \cup {f} ELSE contacts
  /\ handler' = [handler EXCEPT ![h].step = "notify", ![h].file = f]
  /\ UNCHANGED <<open, chunks, drawn, known, announced, served>>

\* message_available is published to the recipient, after the commit.
CompleteNotifies(h) ==
  /\ At(h, "complete", "notify")
  /\ announced' = announced \cup {handler[h].file}
  /\ End(h)
  /\ UNCHANGED <<tables, known, served>>

----------------------------------------------------------------------------
(* abort_upload *)

\* An expired session can still be aborted.
StartAbort(h, u) ==
  /\ u \in known
  /\ Uploading(u)
  /\ Start(h, [Idle EXCEPT !.op = "abort", !.step = "write", !.upload = u])
  /\ UNCHANGED <<tables, known, announced, served>>

\* Mutant: the DELETE trusts the status that was read.
AbortMatchesAnyStatus(h) == handler[h].upload \in Rows

\* DELETE ... WHERE status = uploading
AbortMatches(h) == Uploading(handler[h].upload)

AbortCommits(h) ==
  /\ At(h, "abort", "write")
  /\ AbortMatches(h)
  /\ DeleteRows({handler[h].upload})
  /\ End(h)
  /\ UNCHANGED <<open, drawn, finished, contacts, known, announced, served>>

\* The guarded write of any of the three finds that another handler was
\* faster: 404 or 409.  A chunk whose index is taken would be a 500.
WriteMisses(h) ==
  /\ \/ At(h, "append", "write") /\ ~(AppendMatches(h) /\ IndexIsFree(h))
     \/ At(h, "complete", "write") /\ ~CompleteMatches(h)
     \/ At(h, "abort", "write") /\ ~AbortMatches(h)
  /\ End(h)
  /\ UNCHANGED <<tables, known, announced, served>>

----------------------------------------------------------------------------
(* get_chunk and acknowledge_files *)

\* Mutant: a file is handed out while it is being uploaded.
IsOfferedEarly(u) == u \in Rows

IsOffered(u) == transfer[u].status \in {"completed", "delivered"}

StartDownload(h, f, i) ==
  /\ \E u \in RowOf(f) : IsOffered(u)
  /\ Start(h, [Idle EXCEPT !.op = "download", !.step = "write", !.file = f,
                           !.number = i])
  /\ UNCHANGED <<tables, known, announced, served>>

\* The second SELECT, of the chunk alone.
DownloadServes(h) ==
  /\ At(h, "download", "write")
  /\ \E x \in ChunksOf(handler[h].file) :
       /\ x.index = handler[h].number
       /\ served' = served \cup {x}
  /\ End(h)
  /\ UNCHANGED <<tables, known, announced>>

DownloadFindsNothing(h) ==
  /\ At(h, "download", "write")
  /\ \A x \in ChunksOf(handler[h].file) : x.index # handler[h].number
  /\ End(h)
  /\ UNCHANGED <<tables, known, announced, served>>

\* One UPDATE ... WHERE file_id IN (...) AND status = completed
Acknowledge(F) ==
  /\ \E u \in Rows : transfer[u].file \in F /\ transfer[u].status = "completed"
  /\ transfer' = [u \in Uploads |->
                    IF /\ u \in Rows
                       /\ transfer[u].file \in F
                       /\ transfer[u].status = "completed"
                    THEN [transfer[u] EXCEPT !.status = "delivered"]
                    ELSE transfer[u]]
  /\ UNCHANGED <<open, chunks, drawn, finished, contacts, known, announced,
                 served, handler>>

----------------------------------------------------------------------------
\* delete_chat, elsewhere: its files go with it.
DeleteChat(c) ==
  /\ c \in open
  /\ open' = open \ {c}
  /\ DeleteRows({u \in Rows : Target[transfer[u].file] = c})
  /\ UNCHANGED <<drawn, finished, contacts, known, announced, served, handler>>

\* The 24 hours of a session are over.
Expire(u) ==
  /\ Uploading(u) /\ ~transfer[u].expired
  /\ transfer' = [transfer EXCEPT ![u].expired = TRUE, ![u].reached = transfer[u].offset]
  /\ UNCHANGED <<open, chunks, drawn, finished, contacts, known, announced,
                 served, handler>>

\* The process crashes or the connection drops, before or after the commit.
Drop(h) ==
  /\ handler[h] # Idle
  /\ End(h)
  /\ UNCHANGED <<tables, known, announced, served>>

StartSome(h) ==
  \/ \E f \in Files, n \in ChunkSizes : StartCreate(h, f, n)
  \/ \E u \in Uploads : StartComplete(h, u) \/ StartAbort(h, u)
  \/ \E u \in Rows : \E n \in 1..Size[transfer[u].file] : StartAppend(h, u, n)
  \/ \E f \in Files : \E i \in 0..Size[f] : StartDownload(h, f, i)

Continue(h) ==
  \/ (\E u \in Uploads : CreateCommits(h, u)) \/ CreateFails(h) \/ CreateAnswers(h)
  \/ AppendCommits(h)
  \/ CompleteCommits(h) \/ CompleteNotifies(h)
  \/ AbortCommits(h)
  \/ WriteMisses(h)
  \/ DownloadServes(h) \/ DownloadFindsNothing(h)

Next ==
  \/ \E h \in Handlers : StartSome(h) \/ Continue(h) \/ Drop(h)
  \/ \E F \in SUBSET Files : Acknowledge(F)
  \/ \E c \in Chats : DeleteChat(c)
  \/ \E u \in Uploads : Expire(u)

Spec == Init /\ [][Next]_vars

----------------------------------------------------------------------------
(* Properties *)

\* Rows, chunks and requests have their types, and a request that has ended
\* leaves nothing of itself in the slot the next one uses.
TypeOK ==
  /\ open \subseteq Chats
  /\ transfer \in [Uploads -> Transfer \cup {NoRow}]
  /\ chunks \subseteq Chunk
  /\ Rows \subseteq drawn /\ known \subseteq drawn /\ drawn \subseteq Uploads
  /\ finished \subseteq Files /\ contacts \subseteq finished
  /\ announced \subseteq finished
  /\ served \subseteq Chunk
  /\ handler \in [Handlers -> Handler]
  /\ \A h \in Handlers : handler[h].step = "idle" => handler[h] = Idle

\* What is stored of a file is exactly its beginning up to the offset of its
\* one session, cut into chunks of the full size with the rest in the last:
\* no two appends at one offset, and no chunk of an aborted upload, is among
\* them.
ChunksFollowOffset ==
  \A f \in Files :
    \/ RowOf(f) = {} /\ ChunksOf(f) = {}
    \/ \E u \in Rows :
         LET n == transfer[u].chunkSize
             o == transfer[u].offset IN
         /\ RowOf(f) = {u}
         /\ ChunksOf(f) =
              {[file |-> f, index |-> i, from |-> i * n,
                length |-> IF Size[f] - i * n < n THEN Size[f] - i * n ELSE n] :
                 i \in {j \in 0..o : j * n < o}}

\* A recipient who was told of a file can download it: the file stays
\* completed and whole, and a file sent directly has made its users contacts,
\* until the chat of the file is deleted.
AnnouncedIsOffered ==
  \A f \in announced :
    \/ Target[f] \notin open \cup {NoChat}
    \/ /\ \E u \in RowOf(f) : IsOffered(u) /\ Complete(u)
       /\ Target[f] = NoChat => f \in contacts

\* Of all the completions a client may try, retries and overlapping ones,
\* one alone is announced.
AnnouncedOnce ==
  [][\A h \in Handlers : CompleteNotifies(h) => handler[h].file \notin announced]_vars

\* The chunks a recipient was handed, in requests far apart, are of one
\* upload of the file: each begins where the one before it ended.
ServedChunksFit ==
  \A s, t \in served :
    s.file = t.file =>
      /\ s.index = 0 => s.from = 0
      /\ s.index = t.index => s = t
      /\ t.index = s.index + 1 => t.from = s.from + s.length

\* The guarded writes do not look at the expiry.  Still, of the requests that
\* were under way when a session expired, one at most stores a chunk, and the
\* upload is completed only if all of it was there before.
ExpiredGoesNoFurther ==
  \A u \in Rows :
    LET t == transfer[u] IN
    t.reached # -1 =>
      /\ t.offset <= t.reached + t.chunkSize
      /\ t.status # "uploading" => t.reached = Size[t.file]

HasRow(f, status) == \E u \in RowOf(f) : transfer[u].status = status

\* Of a file whose chat is gone, only the history tells whether it was offered.
PhaseOf(f) ==
  IF HasRow(f, "uploading") THEN "uploading"
  ELSE IF HasRow(f, "completed") THEN "ready"
  ELSE IF HasRow(f, "delivered") THEN "delivered"
  ELSE IF f \in finished THEN "withdrawn" ELSE "absent"

Bytes(f) == UNION {x.from..(x.from + x.length - 1) : x \in ChunksOf(f)}

Delivery == INSTANCE FileDelivery WITH
  phase <- [f \in Files |-> PhaseOf(f)],
  bytes <- [f \in Files |-> Bytes(f)]

\* The service delivers files: bytes in order, offered when whole, and from
\* then on unchanged.
ImplementsDelivery == Delivery!Spec
=============================================================================
