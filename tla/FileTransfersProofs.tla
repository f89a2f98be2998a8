------------------------ MODULE FileTransfersProofs ------------------------
(***************************************************************************)
(* Proofs about FileTransfers, for any files, sizes, chunk sizes, uploads, *)
(* chats and handlers: its types, that an announced file stays available,  *)
(* that it is announced once, that the service implements FileDelivery,    *)
(* that chunks are stored and served as one upload cut them, and that an   *)
(* expired upload goes no further.  What is about chunks rests on GridInv, *)
(* expiry on ExpiryInv, all else on IInv alone.                            *)
(***************************************************************************)
EXTENDS FileTransfers, TLAPS

(* The inductive invariant *)

Statuses == {"uploading", "completed", "delivered"}

\* A file has one session at a time.
OneRowEach ==
  \A u, v \in Rows : transfer[u].file = transfer[v].file => u = v

\* What is stored of the file of session u is its beginning, up to the offset,
\* all of it once the upload is completed.
RowInv(u) ==
  LET f == transfer[u].file IN
  /\ Bytes(f) = 0..(transfer[u].offset - 1)
  /\ transfer[u].offset <= Size[f]
  /\ transfer[u].status = "uploading" <=> f \notin finished
  /\ transfer[u].status # "uploading" => Complete(u)

\* The foreign key of file_chunks.
ChunksHaveRows == \A x \in chunks : \E u \in Rows : transfer[u].file = x.file

\* A file whose upload was completed stays until its chat is deleted.
FinishedInv(f) ==
  /\ Target[f] \in open \cup {NoChat} => RowOf(f) # {}
  /\ Target[f] = NoChat => f \in contacts

\* What a request in progress may rely on.
HandlerInv(q) ==
  /\ q.op \in {"append", "complete", "abort"} => q.upload \in drawn
  /\ q.op = "create" /\ q.step = "notify" => q.upload \in drawn
  /\ q.op \in {"create", "download"} => q.file \in Files
  /\ q.op = "create" => q.chunkSize \in ChunkSizes
  /\ q.op = "append" =>
       /\ q.length > 0
       /\ q.upload \in Rows => q.number + q.length <= Size[transfer[q.upload].file]
  /\ q.op = "complete" /\ q.step = "notify" => q.file \in finished \ announced

Notifying(h) == At(h, "complete", "notify")

\* Two requests never announce the same file.
OneNotifies ==
  \A g, h \in Handlers :
    Notifying(g) /\ Notifying(h) /\ handler[g].file = handler[h].file => g = h

TablesInv ==
  /\ OneRowEach
  /\ \A u \in Rows : RowInv(u)
  /\ ChunksHaveRows
  /\ \A f \in finished : FinishedInv(f)

HandlersInv == (\A h \in Handlers : HandlerInv(handler[h])) /\ OneNotifies

IInv == TypeOK /\ TablesInv /\ HandlersInv

----------------------------------------------------------------------------
(* Facts about the definitions *)

LEMMA IdleIsHandler == Idle \in Handler /\ HandlerInv(Idle)
BY DEF Idle, Handler, HandlerInv

LEMMA IInvInit == Init => IInv
<1> SUFFICES ASSUME Init PROVE IInv
  OBVIOUS
<1>1. Rows = {}
  BY DEF Init, Rows
<1>2. TypeOK
  BY <1>1, IdleIsHandler DEF Init, TypeOK
<1>3. TablesInv
  BY <1>1 DEF Init, TablesInv, OneRowEach, ChunksHaveRows
<1>4. HandlersInv
  BY IdleIsHandler DEF Init, HandlersInv, OneNotifies, Notifying, At, Idle
<1> QED BY <1>2, <1>3, <1>4 DEF IInv

\* A row is typed.
LEMMA RowIsTyped ==
  ASSUME TypeOK, NEW u \in Rows
  PROVE  /\ u \in Uploads
         /\ transfer[u] \in Transfer
         /\ transfer[u].file \in Files
         /\ transfer[u].chunkSize \in ChunkSizes
         /\ transfer[u].offset \in Nat
         /\ transfer[u].status \in Statuses
         /\ Size[transfer[u].file] \in Nat
BY SizeIsNat DEF TypeOK, Rows, Transfer, Statuses

\* The tables hold the same, and what is left of the history variables.
TablesStay == UNCHANGED tables

LEMMA TablesStayInv ==
  ASSUME TypeOK, TablesInv, TablesStay
  PROVE  TablesInv'
BY DEF TablesInv, TablesStay, tables, OneRowEach, RowInv, ChunksHaveRows,
       FinishedInv, Rows, RowOf, Bytes, ChunksOf, Complete

\* One request changes to q, and nothing that the others rely on.
LEMMA HandlerMoves ==
  ASSUME IInv, TablesStay,
         NEW h \in Handlers, NEW q \in Handler,
         handler' = [handler EXCEPT ![h] = q],
         q.step = "idle" => q = Idle,
         HandlerInv(q), ~(q.op = "complete" /\ q.step = "notify"),
         known' \in SUBSET drawn, served' \in SUBSET Chunk,
         announced' = announced
  PROVE  IInv'
<1>1. TypeOK'
  BY DEF IInv, TypeOK, TablesStay, tables, Rows
<1>2. TablesInv'
  BY TablesStayInv DEF IInv
<1>3. \A g \in Handlers : handler'[g] = IF g = h THEN q ELSE handler[g]
  BY DEF IInv, TypeOK
<1>4. \A g \in Handlers : HandlerInv(handler[g])'
  <2> SUFFICES ASSUME NEW g \in Handlers PROVE HandlerInv(handler[g])'
    OBVIOUS
  <2>1. HandlerInv(handler[g]) /\ HandlerInv(q)
    BY DEF IInv, HandlersInv
  <2> QED BY <1>3, <2>1 DEF HandlerInv, TablesStay, tables, Rows
<1>5. OneNotifies'
  BY <1>3 DEF IInv, HandlersInv, OneNotifies, Notifying, At
<1> QED BY <1>1, <1>2, <1>4, <1>5 DEF IInv, HandlersInv

LEMMA RequestEnds ==
  ASSUME IInv, TablesStay, NEW h \in Handlers, End(h),
         known' \in SUBSET drawn, served' \in SUBSET Chunk,
         announced' = announced
  PROVE  IInv'
<1>1. Idle.op = "none"
  BY DEF Idle
<1> QED BY IdleIsHandler, HandlerMoves, <1>1 DEF End

----------------------------------------------------------------------------
(* Steps that leave the tables alone *)

LEMMA StartCreateKeeps ==
  ASSUME IInv, NEW h \in Handlers, NEW f \in Files, NEW n \in ChunkSizes,
         StartCreate(h, f, n)
  PROVE  IInv'
<1> DEFINE q == [Idle EXCEPT !.op = "create", !.step = "write", !.file = f,
                             !.chunkSize = n]
<1>1. q \in Handler /\ HandlerInv(q) /\ q.step # "idle" /\ q.op # "complete"
  BY DEF Idle, Handler, HandlerInv
<1>2. TablesStay /\ UNCHANGED <<known, announced, served>>
  BY DEF StartCreate, TablesStay
<1>3. handler' = [handler EXCEPT ![h] = q]
  BY DEF StartCreate, Start
<1> HIDE DEF q
<1> QED BY <1>1, <1>2, <1>3, HandlerMoves DEF IInv, TypeOK

LEMMA StartAppendKeeps ==
  ASSUME IInv, NEW h \in Handlers, NEW u \in Rows,
         NEW n \in 1..Size[transfer[u].file], StartAppend(h, u, n)
  PROVE  IInv'
<1> DEFINE q == [Idle EXCEPT !.op = "append", !.step = "write", !.upload = u,
                             !.number = transfer[u].offset, !.length = n]
<1>1. /\ u \in drawn
      /\ n \in Nat /\ n > 0
      /\ transfer[u].offset + n <= Size[transfer[u].file]
  <2>1. n <= Size[transfer[u].file] - transfer[u].offset
    <3>1. transfer[u].chunkSize \in Nat
      BY RowIsTyped, ChunkSizesArePositive DEF IInv
    <3> QED BY <3>1, RowIsTyped DEF IInv, StartAppend, AcceptsLength
  <2> QED BY <2>1, RowIsTyped DEF IInv, TypeOK
<1>2. q \in Handler /\ HandlerInv(q) /\ q.step # "idle" /\ q.op # "complete"
  BY <1>1, RowIsTyped DEF IInv, Idle, Handler, HandlerInv
<1>3. TablesStay /\ UNCHANGED <<known, announced, served>>
  BY DEF StartAppend, TablesStay
<1>4. handler' = [handler EXCEPT ![h] = q]
  BY DEF StartAppend, Start
<1> HIDE DEF q
<1> QED BY <1>2, <1>3, <1>4, HandlerMoves DEF IInv, TypeOK

LEMMA StartCompleteKeeps ==
  ASSUME IInv, NEW h \in Handlers, NEW u \in Uploads, StartComplete(h, u)
  PROVE  IInv'
<1> DEFINE q == [Idle EXCEPT !.op = "complete", !.step = "write", !.upload = u]
<1>1. u \in drawn
  BY DEF IInv, TypeOK, StartComplete
<1>2. q \in Handler /\ HandlerInv(q) /\ q.step = "write"
  BY <1>1 DEF Idle, Handler, HandlerInv
<1>3. TablesStay /\ UNCHANGED <<known, announced, served>>
  BY DEF StartComplete, TablesStay
<1>4. handler' = [handler EXCEPT ![h] = q]
  BY DEF StartComplete, Start
<1> HIDE DEF q
<1> QED BY <1>2, <1>3, <1>4, HandlerMoves DEF IInv, TypeOK

LEMMA StartAbortKeeps ==
  ASSUME IInv, NEW h \in Handlers, NEW u \in Uploads, StartAbort(h, u)
  PROVE  IInv'
<1> DEFINE q == [Idle EXCEPT !.op = "abort", !.step = "write", !.upload = u]
<1>1. u \in drawn
  BY DEF IInv, TypeOK, StartAbort
<1>2. q \in Handler /\ HandlerInv(q) /\ q.step = "write"
  BY <1>1 DEF Idle, Handler, HandlerInv
<1>3. TablesStay /\ UNCHANGED <<known, announced, served>>
  BY DEF StartAbort, TablesStay
<1>4. handler' = [handler EXCEPT ![h] = q]
  BY DEF StartAbort, Start
<1> HIDE DEF q
<1> QED BY <1>2, <1>3, <1>4, HandlerMoves DEF IInv, TypeOK

LEMMA StartDownloadKeeps ==
  ASSUME IInv, NEW h \in Handlers, NEW f \in Files, NEW i \in 0..Size[f],
         StartDownload(h, f, i)
  PROVE  IInv'
<1> DEFINE q == [Idle EXCEPT !.op = "download", !.step = "write", !.file = f,
                             !.number = i]
<1>0. i \in Nat
  BY SizeIsNat
<1>1. q \in Handler /\ HandlerInv(q) /\ q.step = "write" /\ q.op # "complete"
  BY <1>0 DEF Idle, Handler, HandlerInv
<1>2. TablesStay /\ UNCHANGED <<known, announced, served>>
  BY DEF StartDownload, TablesStay
<1>3. handler' = [handler EXCEPT ![h] = q]
  BY DEF StartDownload, Start
<1> HIDE DEF q
<1> QED BY <1>1, <1>2, <1>3, HandlerMoves DEF IInv, TypeOK

\* The answer of create_upload, a download, and every request that fails.
LEMMA QuietEndKeeps ==
  ASSUME IInv, NEW h \in Handlers,
         \/ CreateFails(h) \/ CreateAnswers(h) \/ WriteMisses(h)
         \/ DownloadServes(h) \/ DownloadFindsNothing(h) \/ Drop(h)
  PROVE  IInv'
<1>1. TablesStay /\ End(h) /\ announced' = announced
  BY DEF CreateFails, CreateAnswers, WriteMisses, DownloadServes,
         DownloadFindsNothing, Drop, TablesStay
<1>2. known' \in SUBSET drawn
  <2>1. CASE CreateAnswers(h)
    BY <2>1 DEF IInv, TypeOK, HandlersInv, HandlerInv, CreateAnswers, At
  <2>2. CASE ~CreateAnswers(h)
    BY <2>2 DEF IInv, TypeOK, CreateFails, WriteMisses, DownloadServes,
                DownloadFindsNothing, Drop
  <2> QED BY <2>1, <2>2
<1>3. served' \in SUBSET Chunk
  BY DEF IInv, TypeOK, CreateFails, CreateAnswers, WriteMisses, DownloadServes,
         DownloadFindsNothing, Drop, ChunksOf
<1> QED BY <1>1, <1>2, <1>3, RequestEnds

\* The file that is announced was not, and no other request will announce it.
LEMMA CompleteNotifiesKeeps ==
  ASSUME IInv, NEW h \in Handlers, CompleteNotifies(h)
  PROVE  IInv'
<1> DEFINE f == handler[h].file
<1>1. f \in finished \ announced
  BY DEF IInv, HandlersInv, HandlerInv, CompleteNotifies, At
<1>2. /\ TablesStay /\ UNCHANGED <<known, served>>
      /\ announced' = announced \cup {f}
      /\ handler' = [handler EXCEPT ![h] = Idle]
  BY DEF CompleteNotifies, End, TablesStay
<1>3. \A g \in Handlers : handler'[g] = IF g = h THEN Idle ELSE handler[g]
  BY <1>2 DEF IInv, TypeOK
<1>4. \A g \in Handlers \ {h} : Notifying(g) => handler[g].file # f
  BY DEF IInv, HandlersInv, OneNotifies, CompleteNotifies, Notifying
<1>5. TypeOK'
  BY <1>1, <1>2, IdleIsHandler DEF IInv, TypeOK, TablesStay, tables, Rows
<1>6. TablesInv'
  BY <1>2, TablesStayInv DEF IInv
<1>7. \A g \in Handlers : HandlerInv(handler[g])'
  <2> SUFFICES ASSUME NEW g \in Handlers PROVE HandlerInv(handler[g])'
    OBVIOUS
  <2>1. CASE g = h
    BY <1>3, <2>1 DEF HandlerInv, Idle
  <2>2. CASE g # h
    <3>1. handler'[g] = handler[g] /\ HandlerInv(handler[g])
      BY <1>3, <2>2 DEF IInv, HandlersInv
    <3>2. Notifying(g) => handler[g].file # f
      BY <1>4, <2>2
    <3> HIDE DEF f
    <3> QED BY <1>2, <3>1, <3>2 DEF HandlerInv, TablesStay, tables, Rows,
                                    Notifying, At
  <2> QED BY <2>1, <2>2
<1>8. OneNotifies'
  BY <1>3 DEF IInv, HandlersInv, OneNotifies, Notifying, At, Idle
<1> QED BY <1>5, <1>6, <1>7, <1>8 DEF IInv, HandlersInv

----------------------------------------------------------------------------
(* Steps that change the tables *)

LEMMA CreateCommitsKeeps ==
  ASSUME IInv, NEW h \in Handlers, NEW u \in Uploads, CreateCommits(h, u)
  PROVE  IInv'
<1> PICK f : f = handler[h].file
  OBVIOUS
<1> DEFINE row == [file |-> f, chunkSize |-> handler[h].chunkSize, offset |-> 0,
                   status |-> "uploading", expired |-> FALSE, reached |-> -1]
           q == [handler[h] EXCEPT !.step = "notify", !.upload = u]
<1>1. /\ f \in Files /\ handler[h].chunkSize \in ChunkSizes
      /\ handler[h] \in Handler /\ handler[h].op = "create"
  BY DEF IInv, TypeOK, HandlersInv, HandlerInv, CreateCommits, At
<1>2. row \in Transfer /\ row # NoRow
  <2>1. row \in Transfer
    BY <1>1 DEF Transfer
  <2> QED BY <2>1, NoRowIsNone
<1>3. /\ transfer' = [transfer EXCEPT ![u] = row]
      /\ drawn' = drawn \cup {u} /\ u \notin drawn
      /\ handler' = [handler EXCEPT ![h] = q]
      /\ UNCHANGED <<open, chunks, finished, contacts, known, announced, served>>
  BY DEF CreateCommits, IInv, TypeOK, Handler
<1>4. RowOf(f) = {} /\ Target[f] \in open \cup {NoChat}
  BY DEF CreateCommits, CreateSucceeds
<1>5. u \notin Rows /\ Rows' = Rows \cup {u}
  BY <1>2, <1>3 DEF IInv, TypeOK, Rows
<1>6. \A v \in Rows' : transfer'[v] = IF v = u THEN row ELSE transfer[v]
  BY <1>3 DEF IInv, TypeOK, Rows
<1>7. f \notin finished
  BY <1>4 DEF IInv, TablesInv, FinishedInv
<1>8. q \in Handler /\ q.op = "create" /\ q.step = "notify" /\ q.upload = u
      /\ q.file = f /\ q.chunkSize \in ChunkSizes
  BY <1>1 DEF Handler
<1>9. \A g \in Handlers : handler'[g] = IF g = h THEN q ELSE handler[g]
  BY <1>3 DEF IInv, TypeOK
<1> HIDE DEF q
<1>10. TypeOK'
  <2>1. Rows' \subseteq drawn'
    BY <1>3, <1>5 DEF IInv, TypeOK
  <2> QED BY <1>2, <1>3, <1>8, <2>1 DEF IInv, TypeOK
<1>11. TablesInv'
  <2>1. OneRowEach'
    BY <1>1, <1>4, <1>5, <1>6 DEF IInv, TablesInv, OneRowEach, RowOf
  <2>2. RowInv(u)'
    <3>1. Bytes(f)' = {}
      BY <1>3, <1>4 DEF IInv, TablesInv, ChunksHaveRows, Bytes, ChunksOf, RowOf
    <3>2. /\ transfer'[u].file = f /\ transfer'[u].offset = 0
          /\ transfer'[u].status = "uploading"
      BY <1>5, <1>6
    <3>3. Bytes(transfer[u].file)' = 0..(0 - 1)
      BY <3>1, <3>2 DEF Bytes, ChunksOf
    <3>4. (transfer[u].offset <= Size[transfer[u].file])'
      BY <1>1, <3>2, SizeIsNat
    <3>5. (Bytes(transfer[u].file) = 0..(transfer[u].offset - 1))'
      BY <3>2, <3>3
    <3>6. (transfer[u].status = "uploading" <=> transfer[u].file \notin finished)'
      BY <1>3, <1>7, <3>2
    <3> QED BY <3>2, <3>4, <3>5, <3>6 DEF RowInv
  <2>3. \A v \in Rows : RowInv(v)'
    BY <1>3, <1>5, <1>6 DEF IInv, TablesInv, RowInv, Bytes, ChunksOf, Complete
  <2>4. ChunksHaveRows'
    BY <1>3, <1>5, <1>6 DEF IInv, TablesInv, ChunksHaveRows
  <2>5. \A e \in finished' : FinishedInv(e)'
    BY <1>3, <1>5, <1>6 DEF IInv, TablesInv, FinishedInv, RowOf
  <2> QED BY <1>5, <2>1, <2>2, <2>3, <2>4, <2>5 DEF TablesInv
<1>12. \A g \in Handlers : HandlerInv(handler[g])'
  <2> SUFFICES ASSUME NEW g \in Handlers PROVE HandlerInv(handler[g])'
    OBVIOUS
  <2>1. CASE g = h
    BY <1>1, <1>3, <1>8, <1>9, <2>1 DEF HandlerInv
  <2>2. CASE g # h
    <3>1. handler'[g] = handler[g] /\ HandlerInv(handler[g])
      BY <1>9, <2>2 DEF IInv, HandlersInv
    <3>2. handler[g].op = "append" => handler[g].upload # u
      BY <1>3, <3>1 DEF HandlerInv
    <3> QED BY <1>3, <1>5, <1>6, <3>1, <3>2 DEF HandlerInv
  <2> QED BY <2>1, <2>2
<1>13. OneNotifies'
  BY <1>8, <1>9 DEF IInv, HandlersInv, OneNotifies, Notifying, At
<1> QED BY <1>10, <1>11, <1>12, <1>13 DEF IInv, HandlersInv

LEMMA OffsetMoves ==
  ASSUME NEW t \in Transfer, NEW m \in Nat
  PROVE  [t EXCEPT !.offset = m] \in Transfer
BY DEF Transfer

\* The chunk that is stored holds the bytes the session lacks next.
LEMMA AppendCommitsStores ==
  ASSUME IInv, NEW h \in Handlers, AppendCommits(h)
  PROVE  \E u, f, o, n :
           /\ f = transfer[u].file /\ o = transfer[u].offset
           /\ u \in Rows /\ transfer[u].status = "uploading"
           /\ n \in Nat /\ n > 0 /\ o + n <= Size[f]
           /\ transfer' = [transfer EXCEPT ![u] = [transfer[u] EXCEPT !.offset = o + n]]
           /\ \E x \in Chunk : x.file = f /\ chunks' = chunks \cup {x}
           /\ Bytes(f)' = 0..(o + n - 1)
<1> PICK u, f, o, n : /\ u = handler[h].upload /\ f = transfer[u].file
                      /\ o = transfer[u].offset /\ n = handler[h].length
  OBVIOUS
<1>1. u \in Rows /\ transfer[u].status = "uploading" /\ handler[h].number = o
  BY DEF AppendCommits, AppendMatches, Uploading
<1>2. n \in Nat /\ o \in Nat /\ f \in Files
  BY <1>1, RowIsTyped DEF IInv, TypeOK, Handler
<1>3. n > 0 /\ o + n <= Size[f]
  BY <1>1 DEF IInv, HandlersInv, HandlerInv, AppendCommits, At
<1>4. transfer' = [transfer EXCEPT ![u] = [transfer[u] EXCEPT !.offset = o + n]]
  BY <1>1 DEF AppendCommits, IInv, TypeOK
<1>5. NewIndex(h) \in Nat
  <2>1. transfer[u].chunkSize \in Nat \ {0}
    BY <1>1, RowIsTyped, ChunkSizesArePositive DEF IInv
  <2> QED BY <1>1, <1>2, <2>1 DEF NewIndex
<1>6. PICK x : x = [file |-> f, index |-> NewIndex(h), from |-> o, length |-> n]
  OBVIOUS
<1>7. x \in Chunk /\ x.file = f /\ x.from = o /\ x.length = n
  BY <1>2, <1>5, <1>6 DEF Chunk
<1>8. chunks' = chunks \cup {x}
  BY <1>1, <1>6 DEF AppendCommits
<1>9. Bytes(f)' = 0..(o + n - 1)
  <2>1. Bytes(f) = 0..(o - 1)
    BY <1>1 DEF IInv, TablesInv, RowInv
  <2>2. ChunksOf(f)' = ChunksOf(f) \cup {x}
    BY <1>7, <1>8 DEF ChunksOf
  <2>3. Bytes(f)' = Bytes(f) \cup (o..(o + n - 1))
    BY <1>7, <2>2 DEF Bytes
  <2> QED BY <1>2, <2>1, <2>3
<1> QED BY <1>1, <1>2, <1>3, <1>4, <1>7, <1>8, <1>9

\* A row whose chunks stay, and whose file is finished no sooner, keeps its
\* invariant.
LEMMA RowStays ==
  ASSUME NEW v, v \in Rows, RowInv(v), transfer'[v] = transfer[v],
         NEW f, f = transfer[v].file,
         ChunksOf(f)' = ChunksOf(f),
         f \in finished' <=> f \in finished
  PROVE  RowInv(v)'
<1>1. UNION {x.from..(x.from + x.length - 1) : x \in ChunksOf(f)'}
        = UNION {x.from..(x.from + x.length - 1) : x \in ChunksOf(f)}
  OBVIOUS
<1>2. Bytes(f)' = Bytes(f)
  BY <1>1 DEF Bytes
<1>3. (Bytes(transfer[v].file) = 0..(transfer[v].offset - 1))'
  <2>1. Bytes(f) = 0..(transfer[v].offset - 1)
    BY DEF RowInv
  <2> QED BY <1>2, <2>1 DEF Bytes, ChunksOf
<1> QED BY <1>3 DEF RowInv, Complete

\* No row is new or of another file, and handlers at most end.
LEMMA HandlersStay ==
  ASSUME IInv, Rows' \subseteq Rows,
         \A v \in Rows' : transfer'[v].file = transfer[v].file,
         \A g \in Handlers : handler'[g] \in {handler[g], Idle},
         UNCHANGED <<drawn, announced>>, finished \subseteq finished'
  PROVE  HandlersInv'
<1>1. \A g \in Handlers : HandlerInv(handler[g])'
  <2> SUFFICES ASSUME NEW g \in Handlers PROVE HandlerInv(handler[g])'
    OBVIOUS
  <2>1. CASE handler'[g] = Idle
    BY <2>1 DEF HandlerInv, Idle
  <2>2. CASE handler'[g] = handler[g]
    <3>1. HandlerInv(handler[g])
      BY DEF IInv, HandlersInv
    <3> QED BY <2>2, <3>1 DEF HandlerInv
  <2> QED BY <2>1, <2>2
<1>2. OneNotifies'
  BY DEF IInv, HandlersInv, OneNotifies, Notifying, At, Idle
<1> QED BY <1>1, <1>2 DEF HandlersInv

LEMMA AppendCommitsKeeps ==
  ASSUME IInv, NEW h \in Handlers, AppendCommits(h)
  PROVE  IInv'
<1>1. PICK u, f, o, n :
         /\ f = transfer[u].file /\ o = transfer[u].offset
         /\ u \in Rows /\ transfer[u].status = "uploading"
         /\ n \in Nat /\ n > 0 /\ o + n <= Size[f]
         /\ transfer' = [transfer EXCEPT ![u] = [transfer[u] EXCEPT !.offset = o + n]]
         /\ \E x \in Chunk : x.file = f /\ chunks' = chunks \cup {x}
         /\ Bytes(f)' = 0..(o + n - 1)
  BY AppendCommitsStores
<1>2. /\ UNCHANGED <<open, drawn, finished, contacts, known, announced, served>>
      /\ handler' = [handler EXCEPT ![h] = Idle]
  BY DEF AppendCommits, End
<1>3. u \in Uploads /\ transfer[u] \in Transfer /\ o \in Nat /\ f \in Files
  BY <1>1, RowIsTyped DEF IInv
<1> DEFINE row == [transfer[u] EXCEPT !.offset = o + n]
<1>4. /\ row \in Transfer /\ row # NoRow
      /\ row.file = f /\ row.offset = o + n /\ row.status = "uploading"
  <2>1. row \in Transfer
    <3>1. o + n \in Nat
      BY <1>1, <1>3
    <3> QED BY <1>3, <3>1, OffsetMoves
  <2> QED BY <1>1, <1>3, <2>1, NoRowIsNone DEF Transfer
<1>5. /\ Rows' = Rows
      /\ \A v \in Rows : transfer'[v] = IF v = u THEN row ELSE transfer[v]
  <2> HIDE DEF row
  <2>1. transfer' = [transfer EXCEPT ![u] = row]
    BY <1>1 DEF row
  <2> QED BY <1>1, <1>4, <2>1 DEF IInv, TypeOK, Rows
<1>6. \A v \in Rows : transfer'[v].file = transfer[v].file
  <2> HIDE DEF row
  <2> QED BY <1>1, <1>4, <1>5
<1>7. TypeOK'
  <2> HIDE DEF row
  <2>1. transfer' = [transfer EXCEPT ![u] = row]
    BY <1>1 DEF row
  <2>2. transfer' \in [Uploads -> Transfer \cup {NoRow}]
    BY <1>4, <2>1 DEF IInv, TypeOK
  <2> QED BY <1>1, <1>2, <1>5, <2>2, IdleIsHandler DEF IInv, TypeOK
<1>8. TablesInv'
  <2> HIDE DEF row
  <2>1. OneRowEach'
    BY <1>5, <1>6 DEF IInv, TablesInv, OneRowEach
  <2>2. RowInv(u)'
    <3>1. transfer'[u] = row
      BY <1>1, <1>5
    <3>2. (Bytes(transfer[u].file) = 0..(transfer[u].offset - 1))'
      <4>1. Bytes(f)' = 0..(o + n - 1)
        BY <1>1
      <4>2. transfer'[u].file = f /\ transfer'[u].offset = o + n
        BY <1>4, <3>1
      <4>3. n \in Nat /\ o \in Nat
        BY <1>1, <1>3
      <4> QED BY <4>1, <4>2, <4>3 DEF Bytes, ChunksOf
    <3>3. f \notin finished
      BY <1>1 DEF IInv, TablesInv, RowInv
    <3> QED BY <1>1, <1>2, <1>4, <3>1, <3>2, <3>3 DEF RowInv
  <2>3. ASSUME NEW v \in Rows, v # u PROVE RowInv(v)'
    <3> PICK e : e = transfer[v].file
      OBVIOUS
    <3>1. e # f
      BY <1>1, <2>3 DEF IInv, TablesInv, OneRowEach
    <3>2. ChunksOf(e)' = ChunksOf(e)
      BY <1>1, <3>1 DEF ChunksOf
    <3> QED BY <1>2, <1>5, <2>3, <3>2, RowStays DEF IInv, TablesInv
  <2>4. ChunksHaveRows'
    BY <1>1, <1>5, <1>6 DEF IInv, TablesInv, ChunksHaveRows
  <2>5. \A e \in finished' : FinishedInv(e)'
    BY <1>2, <1>5, <1>6 DEF IInv, TablesInv, FinishedInv, RowOf
  <2> QED BY <1>5, <2>1, <2>2, <2>3, <2>4, <2>5 DEF TablesInv
<1>9. HandlersInv'
  <2>1. \A g \in Handlers : handler'[g] \in {handler[g], Idle}
    BY <1>2 DEF IInv, TypeOK
  <2> HIDE DEF row
  <2> QED BY <1>2, <1>5, <1>6, <2>1, HandlersStay
<1> QED BY <1>7, <1>8, <1>9 DEF IInv

\* The completion moves the status, and the handler remembers the file.
LEMMA CompleteCommitsMoves ==
  ASSUME IInv, NEW h \in Handlers, CompleteCommits(h)
  PROVE  \E u \in Rows, f \in Files, row \in Transfer, q \in Handler :
           /\ f = transfer[u].file /\ f \notin finished
           /\ transfer[u].offset = Size[f]
           /\ row.file = f /\ row.offset = Size[f] /\ row.status = "completed"
           /\ Rows' = Rows
           /\ \A v \in Rows : transfer'[v] = IF v = u THEN row ELSE transfer[v]
           /\ \A v \in Rows : transfer'[v].file = transfer[v].file
           /\ transfer' = [transfer EXCEPT ![u] = row]
           /\ q.op = "complete" /\ q.step = "notify" /\ q.file = f
           /\ q.upload \in drawn
           /\ \A g \in Handlers : handler'[g] = IF g = h THEN q ELSE handler[g]
           /\ handler' = [handler EXCEPT ![h] = q]
           /\ finished' = finished \cup {f}
           /\ contacts' = IF Target[f] = NoChat THEN contacts \cup {f} ELSE contacts
<1> PICK u, f : u = handler[h].upload /\ f = transfer[u].file
  OBVIOUS
<1>1. u \in Rows /\ transfer[u].status = "uploading" /\ transfer[u].offset = Size[f]
  BY DEF CompleteCommits, CompleteMatches, Uploading, Complete
<1>2. u \in Uploads /\ transfer[u] \in Transfer /\ f \in Files
  BY <1>1, RowIsTyped DEF IInv
<1>3. f \notin finished
  BY <1>1 DEF IInv, TablesInv, RowInv
<1>4. PICK row : row = [transfer[u] EXCEPT !.status = "completed", !.expired = FALSE]
  OBVIOUS
<1>5. row \in Transfer /\ row.file = f /\ row.offset = Size[f]
      /\ row.status = "completed"
  BY <1>1, <1>2, <1>4 DEF Transfer
<1>6. row # NoRow
  BY <1>5, NoRowIsNone
<1>7. transfer' = [transfer EXCEPT ![u] = row]
  <2>1. transfer \in [Uploads -> Transfer \cup {NoRow}]
    BY DEF IInv, TypeOK
  <2>2. transfer' = [transfer EXCEPT ![u].status = "completed", ![u].expired = FALSE]
    BY DEF CompleteCommits
  <2> QED BY <1>2, <1>4, <2>1, <2>2
<1>8. /\ Rows' = Rows
      /\ \A v \in Rows : transfer'[v] = IF v = u THEN row ELSE transfer[v]
  BY <1>1, <1>6, <1>7 DEF IInv, TypeOK, Rows
<1>9. \A v \in Rows : transfer'[v].file = transfer[v].file
  BY <1>1, <1>5, <1>8
<1>10. PICK q : q = [handler[h] EXCEPT !.step = "notify", !.file = f]
  OBVIOUS
<1>11. handler[h] \in Handler /\ handler[h].op = "complete"
       /\ handler[h].upload \in drawn
  BY DEF IInv, TypeOK, HandlersInv, HandlerInv, CompleteCommits, At
<1>12. q \in Handler /\ q.op = "complete" /\ q.step = "notify" /\ q.file = f
       /\ q.upload \in drawn
  BY <1>2, <1>10, <1>11 DEF Handler
<1>13. handler' = [handler EXCEPT ![h] = q]
  BY <1>10 DEF CompleteCommits, IInv, TypeOK
<1>14. \A g \in Handlers : handler'[g] = IF g = h THEN q ELSE handler[g]
  BY <1>13 DEF IInv, TypeOK
<1>15. /\ finished' = finished \cup {f}
       /\ contacts' = IF Target[f] = NoChat THEN contacts \cup {f} ELSE contacts
  BY DEF CompleteCommits
<1>16. f = transfer[u].file
  OBVIOUS
<1>17. u \in Rows /\ f \in Files /\ row \in Transfer /\ q \in Handler
  BY <1>1, <1>2, <1>5, <1>12
<1> QED BY ONLY <1>1, <1>3, <1>5, <1>7, <1>8, <1>9, <1>12, <1>13, <1>14, <1>15,
                <1>16, <1>17, Zenon

LEMMA CompleteCommitsKeeps ==
  ASSUME IInv, NEW h \in Handlers, CompleteCommits(h)
  PROVE  IInv'
<1>2. PICK u \in Rows, f \in Files, row \in Transfer, q \in Handler :
           /\ f = transfer[u].file /\ f \notin finished
           /\ transfer[u].offset = Size[f]
           /\ row.file = f /\ row.offset = Size[f] /\ row.status = "completed"
           /\ Rows' = Rows
           /\ \A v \in Rows : transfer'[v] = IF v = u THEN row ELSE transfer[v]
           /\ \A v \in Rows : transfer'[v].file = transfer[v].file
           /\ transfer' = [transfer EXCEPT ![u] = row]
           /\ q.op = "complete" /\ q.step = "notify" /\ q.file = f
           /\ q.upload \in drawn
           /\ \A g \in Handlers : handler'[g] = IF g = h THEN q ELSE handler[g]
           /\ handler' = [handler EXCEPT ![h] = q]
           /\ finished' = finished \cup {f}
           /\ contacts' = IF Target[f] = NoChat THEN contacts \cup {f} ELSE contacts
  BY CompleteCommitsMoves
<1>3. UNCHANGED <<open, chunks, drawn, known, announced, served>>
  BY DEF CompleteCommits
<1>4. TypeOK'
  BY <1>2, <1>3 DEF IInv, TypeOK
<1>5. TablesInv'
  <2>1. OneRowEach'
    BY <1>2 DEF IInv, TablesInv, OneRowEach
  <2>2. \A v \in Rows' : RowInv(v)'
    <3> SUFFICES ASSUME NEW v \in Rows PROVE RowInv(v)'
      BY <1>2
    <3>1. CASE v = u
      <4>1. Bytes(f) = 0..(Size[f] - 1) /\ Size[f] \in Nat
        BY <1>2, SizeIsNat DEF IInv, TablesInv, RowInv
      <4>2. transfer'[u] = row
        BY <1>2
      <4>3. (Bytes(transfer[u].file) = 0..(transfer[u].offset - 1))'
        BY <1>2, <1>3, <4>1, <4>2 DEF Bytes, ChunksOf
      <4> QED BY <1>2, <3>1, <4>1, <4>2, <4>3 DEF RowInv, Complete
    <3>2. CASE v # u
      <4> PICK e : e = transfer[v].file
        OBVIOUS
      <4>1. e # f
        BY <1>2, <3>2 DEF IInv, TablesInv, OneRowEach
      <4>2. ChunksOf(e)' = ChunksOf(e)
        BY <1>3 DEF ChunksOf
      <4>3. RowInv(v) /\ transfer'[v] = transfer[v]
        BY <1>2, <3>2 DEF IInv, TablesInv
      <4>4. e \in finished' <=> e \in finished
        BY <1>2, <4>1
      <4> QED BY <4>2, <4>3, <4>4, RowStays
    <3> QED BY <3>1, <3>2
  <2>3. ChunksHaveRows'
    BY <1>2, <1>3 DEF IInv, TablesInv, ChunksHaveRows
  <2>4. \A e \in finished' : FinishedInv(e)'
    BY <1>2, <1>3 DEF IInv, TablesInv, FinishedInv, RowOf
  <2> QED BY <2>1, <2>2, <2>3, <2>4 DEF TablesInv
<1>6. \A g \in Handlers : HandlerInv(handler[g])'
  <2> SUFFICES ASSUME NEW g \in Handlers PROVE HandlerInv(handler[g])'
    OBVIOUS
  <2>1. CASE g = h
    <3>1. f \notin announced
      BY <1>2 DEF IInv, TypeOK
    <3> QED BY <1>2, <1>3, <2>1, <3>1 DEF HandlerInv
  <2>2. CASE g # h
    <3>1. handler'[g] = handler[g] /\ HandlerInv(handler[g])
      BY <1>2, <2>2 DEF IInv, HandlersInv
    <3> QED BY <1>2, <1>3, <3>1 DEF HandlerInv
  <2> QED BY <2>1, <2>2
<1>7. OneNotifies'
  <2>1. \A g \in Handlers : Notifying(g) => handler[g].file # f
    BY <1>2 DEF IInv, HandlersInv, HandlerInv, Notifying, At
  <2> QED BY <1>2, <2>1 DEF IInv, HandlersInv, OneNotifies, Notifying, At
<1> QED BY <1>4, <1>5, <1>6, <1>7 DEF IInv, HandlersInv

\* Sessions are deleted with their chunks: unfinished ones, or those of a chat
\* that is closed.
LEMMA DeleteRowsKeeps ==
  ASSUME IInv, NEW U, U \subseteq Rows, DeleteRows(U), open' \subseteq open,
         handler' \in [Handlers -> Handler],
         \A g \in Handlers : handler'[g] \in {handler[g], Idle},
         UNCHANGED <<drawn, finished, contacts, known, announced, served>>,
         \A u \in U : \/ transfer[u].file \notin finished
                      \/ Target[transfer[u].file] \notin open' \cup {NoChat}
  PROVE  IInv'
<1>1. Rows' = Rows \ U /\ \A v \in Rows' : transfer'[v] = transfer[v]
  BY DEF DeleteRows, Rows
<1>2. transfer' \in [Uploads -> Transfer \cup {NoRow}]
  BY DEF DeleteRows, IInv, TypeOK
<1>3. chunks' = {x \in chunks : \A u \in U : x.file # transfer[u].file}
  BY DEF DeleteRows
<1>4. TypeOK'
  BY <1>1, <1>2, <1>3, IdleIsHandler DEF IInv, TypeOK
<1>5. TablesInv'
  <2>1. OneRowEach'
    BY <1>1 DEF IInv, TablesInv, OneRowEach
  <2>2. \A v \in Rows' : RowInv(v)'
    <3> SUFFICES ASSUME NEW v \in Rows' PROVE RowInv(v)'
      OBVIOUS
    <3> PICK e : e = transfer[v].file
      OBVIOUS
    <3>1. \A u \in U : e # transfer[u].file
      BY <1>1 DEF IInv, TablesInv, OneRowEach
    <3>2. ChunksOf(e)' = ChunksOf(e)
      BY <1>3, <3>1 DEF ChunksOf
    <3> QED BY <1>1, <3>2, RowStays DEF IInv, TablesInv
  <2>3. ChunksHaveRows'
    BY <1>1, <1>3 DEF IInv, TablesInv, ChunksHaveRows
  <2>4. \A e \in finished' : FinishedInv(e)'
    BY <1>1 DEF IInv, TablesInv, FinishedInv, RowOf
  <2> QED BY <2>1, <2>2, <2>3, <2>4 DEF TablesInv
<1>6. HandlersInv'
  BY <1>1, HandlersStay
<1> QED BY <1>4, <1>5, <1>6 DEF IInv

LEMMA AbortCommitsKeeps ==
  ASSUME IInv, NEW h \in Handlers, AbortCommits(h)
  PROVE  IInv'
<1> PICK u : u = handler[h].upload
  OBVIOUS
<1>1. u \in Rows /\ transfer[u].status = "uploading"
  BY DEF AbortCommits, AbortMatches, Uploading
<1>2. transfer[u].file \notin finished
  BY <1>1 DEF IInv, TablesInv, RowInv
<1>3. DeleteRows({u}) /\ handler' = [handler EXCEPT ![h] = Idle]
  BY DEF AbortCommits, End
<1>4. UNCHANGED <<open, drawn, finished, contacts, known, announced, served>>
  BY DEF AbortCommits
<1>5. handler' \in [Handlers -> Handler]
      /\ \A g \in Handlers : handler'[g] \in {handler[g], Idle}
  BY <1>3, IdleIsHandler DEF IInv, TypeOK
<1> QED BY <1>1, <1>2, <1>3, <1>4, <1>5, DeleteRowsKeeps

LEMMA DeleteChatKeeps ==
  ASSUME IInv, NEW c \in Chats, DeleteChat(c)
  PROVE  IInv'
<1> PICK U : U = {u \in Rows : Target[transfer[u].file] = c}
  OBVIOUS
<1>1. DeleteRows(U) /\ open' = open \ {c} /\ c # NoChat
  BY NoChatIsNone DEF DeleteChat
<1>2. UNCHANGED <<drawn, finished, contacts, known, announced, served, handler>>
  BY DEF DeleteChat
<1>3. handler' \in [Handlers -> Handler]
      /\ \A g \in Handlers : handler'[g] \in {handler[g], Idle}
  BY <1>2 DEF IInv, TypeOK
<1>4. \A u \in U : Target[transfer[u].file] \notin open' \cup {NoChat}
  BY <1>1
<1>5. U \subseteq Rows
  OBVIOUS
<1> QED BY <1>1, <1>2, <1>3, <1>4, <1>5, DeleteRowsKeeps

\* Sessions change in status or expiry only, and an upload that is not
\* completed stays so.
LEMMA StatusMovesKeeps ==
  ASSUME IInv, transfer' \in [Uploads -> Transfer \cup {NoRow}], Rows' = Rows,
         \A v \in Rows :
           /\ transfer'[v].file = transfer[v].file
           /\ transfer'[v].offset = transfer[v].offset
           /\ transfer'[v].status = "uploading" <=> transfer[v].status = "uploading",
         UNCHANGED <<open, chunks, drawn, finished, contacts, known, announced,
                     served, handler>>
  PROVE  IInv'
<1>1. TypeOK'
  BY DEF IInv, TypeOK
<1>2. TablesInv'
  <2>1. OneRowEach'
    BY DEF IInv, TablesInv, OneRowEach
  <2>2. \A v \in Rows' : RowInv(v)'
    <3> SUFFICES ASSUME NEW v \in Rows PROVE RowInv(v)'
      OBVIOUS
    <3> PICK e, o : e = transfer[v].file /\ o = transfer[v].offset
      OBVIOUS
    <3>1. RowInv(v) /\ transfer'[v].file = e /\ transfer'[v].offset = o
      BY DEF IInv, TablesInv
    <3>2. (Bytes(transfer[v].file) = 0..(transfer[v].offset - 1))'
      <4>1. Bytes(e) = 0..(o - 1)
        BY <3>1 DEF RowInv
      <4> QED BY <3>1, <4>1 DEF Bytes, ChunksOf
    <3> QED BY <3>1, <3>2 DEF RowInv, Complete
  <2>3. ChunksHaveRows'
    BY DEF IInv, TablesInv, ChunksHaveRows
  <2>4. \A e \in finished' : FinishedInv(e)'
    BY DEF IInv, TablesInv, FinishedInv, RowOf
  <2> QED BY <2>1, <2>2, <2>3, <2>4 DEF TablesInv
<1>3. HandlersInv'
  BY HandlersStay
<1> QED BY <1>1, <1>2, <1>3 DEF IInv

LEMMA AcknowledgeKeeps ==
  ASSUME IInv, NEW F, Acknowledge(F)
  PROVE  IInv'
<1>1. /\ transfer' = [u \in Uploads |->
                        IF /\ u \in Rows
                           /\ transfer[u].file \in F
                           /\ transfer[u].status = "completed"
                        THEN [transfer[u] EXCEPT !.status = "delivered"]
                        ELSE transfer[u]]
      /\ UNCHANGED <<open, chunks, drawn, finished, contacts, known, announced,
                     served, handler>>
  BY DEF Acknowledge
<1>2. ASSUME NEW v \in Rows
      PROVE  LET row == [transfer[v] EXCEPT !.status = "delivered"] IN
             /\ row \in Transfer /\ row # NoRow
             /\ row.file = transfer[v].file /\ row.offset = transfer[v].offset
             /\ row.status = "delivered"
  <2> DEFINE row == [transfer[v] EXCEPT !.status = "delivered"]
  <2>1. transfer[v] \in Transfer
    BY RowIsTyped DEF IInv
  <2>2. row \in Transfer
    BY <2>1 DEF Transfer
  <2> QED BY <2>1, <2>2, NoRowIsNone DEF Transfer
<1>3. ASSUME NEW v \in Rows
      PROVE  /\ transfer'[v] \in Transfer /\ transfer'[v] # NoRow
             /\ transfer'[v].file = transfer[v].file
             /\ transfer'[v].offset = transfer[v].offset
             /\ transfer'[v].status = "uploading" <=> transfer[v].status = "uploading"
  <2> DEFINE row == [transfer[v] EXCEPT !.status = "delivered"]
  <2>1. transfer[v] \in Transfer /\ transfer[v] # NoRow /\ v \in Uploads
    BY RowIsTyped DEF IInv, Rows
  <2>2. /\ row \in Transfer /\ row # NoRow
        /\ row.file = transfer[v].file /\ row.offset = transfer[v].offset
        /\ row.status = "delivered"
    BY <1>2
  <2>3. transfer'[v] = IF transfer[v].file \in F /\ transfer[v].status = "completed"
                       THEN row ELSE transfer[v]
    BY <1>1, <2>1
  <2> HIDE DEF row
  <2> QED BY <2>1, <2>2, <2>3
<1>4. \A v \in Uploads \ Rows : transfer'[v] = NoRow
  BY <1>1 DEF Rows
<1>5. Rows' = Rows
  BY <1>3, <1>4 DEF Rows
<1>6. transfer' \in [Uploads -> Transfer \cup {NoRow}]
  <2>1. \A v \in Uploads : transfer'[v] \in Transfer \cup {NoRow}
    BY <1>3, <1>4
  <2> QED BY <1>1, <2>1
<1> QED BY <1>1, <1>3, <1>5, <1>6, StatusMovesKeeps

LEMMA ExpireKeeps ==
  ASSUME IInv, NEW u \in Uploads, Expire(u)
  PROVE  IInv'
<1> DEFINE row == [transfer[u] EXCEPT !.expired = TRUE, !.reached = transfer[u].offset]
<1>1. u \in Rows /\ transfer[u] \in Transfer
  BY RowIsTyped DEF Expire, Uploading, IInv
<1>2. /\ row \in Transfer /\ row # NoRow
      /\ row.file = transfer[u].file /\ row.offset = transfer[u].offset
      /\ row.status = transfer[u].status
  <2>1. row \in Transfer
    BY <1>1 DEF Transfer
  <2> QED BY <1>1, <2>1, NoRowIsNone DEF Transfer
<1>3. transfer' = [transfer EXCEPT ![u] = row]
  BY DEF Expire, IInv, TypeOK
<1>4. UNCHANGED <<open, chunks, drawn, finished, contacts, known, announced,
                  served, handler>>
  BY DEF Expire
<1> HIDE DEF row
<1>5. Rows' = Rows /\ \A v \in Rows : transfer'[v] = IF v = u THEN row ELSE transfer[v]
  BY <1>1, <1>2, <1>3 DEF IInv, TypeOK, Rows
<1>6. transfer' \in [Uploads -> Transfer \cup {NoRow}]
  BY <1>2, <1>3 DEF IInv, TypeOK
<1>7. \A v \in Rows :
        /\ transfer'[v].file = transfer[v].file
        /\ transfer'[v].offset = transfer[v].offset
        /\ transfer'[v].status = "uploading" <=> transfer[v].status = "uploading"
  BY <1>1, <1>2, <1>5
<1> QED BY <1>4, <1>5, <1>6, <1>7, StatusMovesKeeps

----------------------------------------------------------------------------
LEMMA IInvNext == IInv /\ [Next]_vars => IInv'
<1> SUFFICES ASSUME IInv, [Next]_vars PROVE IInv'
  OBVIOUS
<1>1. CASE UNCHANGED vars
  <2>1. TypeOK'
    BY <1>1 DEF IInv, TypeOK, vars, Rows
  <2>2. TablesInv'
    BY <1>1, TablesStayInv DEF IInv, vars, TablesStay, tables
  <2>3. HandlersInv'
    BY <1>1 DEF IInv, HandlersInv, HandlerInv, OneNotifies, Notifying, At, vars,
                Rows
  <2> QED BY <2>1, <2>2, <2>3 DEF IInv
<1>2. ASSUME NEW h \in Handlers, StartSome(h) PROVE IInv'
  BY <1>2, StartCreateKeeps, StartCompleteKeeps, StartAbortKeeps,
     StartAppendKeeps, StartDownloadKeeps DEF StartSome
<1>3. ASSUME NEW h \in Handlers, Continue(h) PROVE IInv'
  BY <1>3, CreateCommitsKeeps, AppendCommitsKeeps, CompleteCommitsKeeps,
     CompleteNotifiesKeeps, AbortCommitsKeeps, QuietEndKeeps DEF Continue
<1>4. ASSUME NEW h \in Handlers, Drop(h) PROVE IInv'
  BY <1>4, QuietEndKeeps
<1> QED BY <1>1, <1>2, <1>3, <1>4, AcknowledgeKeeps, DeleteChatKeeps, ExpireKeeps
        DEF Next

LEMMA IInvAlways == Spec => []IInv
BY IInvInit, IInvNext, PTL DEF Spec

----------------------------------------------------------------------------
(* Types and announcements *)

\* Tables, chunks and requests always have their types, and a request that has
\* ended left nothing in the slot the next one uses.
THEOREM TypeCorrect == Spec => []TypeOK
<1>1. IInv => TypeOK
  BY DEF IInv
<1> QED BY <1>1, IInvAlways, PTL

LEMMA FinishedIsOffered ==
  ASSUME IInv, NEW f \in finished, Target[f] \in open \cup {NoChat}
  PROVE  /\ \E u \in RowOf(f) : IsOffered(u) /\ Complete(u)
         /\ Target[f] = NoChat => f \in contacts
<1>1. PICK u \in RowOf(f) : TRUE
  BY DEF IInv, TablesInv, FinishedInv
<1>2. u \in Rows /\ transfer[u].file = f
  BY DEF RowOf
<1>3. transfer[u].status # "uploading" /\ Complete(u)
  BY <1>2 DEF IInv, TablesInv, RowInv
<1>4. IsOffered(u)
  BY <1>2, <1>3, RowIsTyped DEF IInv, IsOffered, Statuses
<1> QED BY <1>3, <1>4 DEF IInv, TablesInv, FinishedInv

\* Once message_available is published for a file, its recipient can download
\* it, whole, until its chat is deleted: no abort, retry or other upload takes
\* it away.
THEOREM AnnouncedIsOfferedAlways == Spec => []AnnouncedIsOffered
<1>1. IInv => AnnouncedIsOffered
  BY FinishedIsOffered DEF IInv, TypeOK, AnnouncedIsOffered
<1> QED BY <1>1, IInvAlways, PTL

\* However many complete_upload requests overlap or are repeated, a file is
\* announced once.
THEOREM AnnouncedOnceAlways == Spec => AnnouncedOnce
<1>1. IInv => \A h \in Handlers : CompleteNotifies(h) => handler[h].file \notin announced
  BY DEF IInv, HandlersInv, HandlerInv, CompleteNotifies, At
<1> QED BY <1>1, IInvAlways, PTL DEF AnnouncedOnce

----------------------------------------------------------------------------
(* The service implements FileDelivery *)

PhaseOfStatus(s) ==
  IF s = "uploading" THEN "uploading"
  ELSE IF s = "completed" THEN "ready" ELSE "delivered"

\* The phase of a file is that of its session, or what history says of it.
PhasesFit ==
  /\ \A u \in Rows : PhaseOf(transfer[u].file) = PhaseOfStatus(transfer[u].status)
  /\ \A f \in Files : RowOf(f) = {} =>
       /\ PhaseOf(f) = IF f \in finished THEN "withdrawn" ELSE "absent"
       /\ Bytes(f) = {}
  /\ \A f \in Files : PhaseOf(f) \in {"absent", "uploading"} <=> f \notin finished

LEMMA PhasesAreOfRows == IInv => PhasesFit
<1> SUFFICES ASSUME IInv PROVE PhasesFit
  OBVIOUS
<1>1. ASSUME NEW u \in Rows
      PROVE  PhaseOf(transfer[u].file) = PhaseOfStatus(transfer[u].status)
  <2> PICK f : f = transfer[u].file
    OBVIOUS
  <2>1. RowOf(f) = {u}
    BY DEF IInv, TablesInv, OneRowEach, RowOf
  <2>2. transfer[u].status \in Statuses
    BY RowIsTyped DEF IInv
  <2> QED BY <2>1, <2>2 DEF PhaseOf, HasRow, PhaseOfStatus, Statuses
<1>2. ASSUME NEW f \in Files, RowOf(f) = {}
      PROVE  /\ PhaseOf(f) = IF f \in finished THEN "withdrawn" ELSE "absent"
             /\ Bytes(f) = {}
  <2>1. ChunksOf(f) = {}
    BY <1>2 DEF IInv, TablesInv, ChunksHaveRows, RowOf, ChunksOf
  <2> QED BY <1>2, <2>1 DEF PhaseOf, HasRow, Bytes
<1>3. ASSUME NEW f \in Files
      PROVE  PhaseOf(f) \in {"absent", "uploading"} <=> f \notin finished
  <2>1. CASE RowOf(f) = {}
    BY <1>2, <2>1
  <2>2. CASE RowOf(f) # {}
    <3>1. PICK u \in Rows : transfer[u].file = f
      BY <2>2 DEF RowOf
    <3>2. transfer[u].status = "uploading" <=> f \notin finished
      BY <3>1 DEF IInv, TablesInv, RowInv
    <3> QED BY <1>1, <3>1, <3>2 DEF PhaseOfStatus
  <2> QED BY <2>1, <2>2
<1> QED BY <1>1, <1>2, <1>3 DEF PhasesFit

\* A file whose session keeps its status keeps its phase.
LEMMA PhaseStays ==
  ASSUME NEW f, RowOf(f)' = RowOf(f),
         \A u \in RowOf(f) : transfer'[u].status = transfer[u].status,
         f \in finished' <=> f \in finished
  PROVE  PhaseOf(f)' = PhaseOf(f)
<1>1. \A s : HasRow(f, s)' <=> HasRow(f, s)
  BY DEF HasRow
<1> QED BY <1>1 DEF PhaseOf

LEMMA BytesStay ==
  ASSUME NEW f, ChunksOf(f)' = ChunksOf(f)
  PROVE  Bytes(f)' = Bytes(f)
<1>1. UNION {x.from..(x.from + x.length - 1) : x \in ChunksOf(f)'}
        = UNION {x.from..(x.from + x.length - 1) : x \in ChunksOf(f)}
  OBVIOUS
<1> QED BY <1>1 DEF Bytes

\* No file moves.
LEMMA FilesStay ==
  ASSUME \A f \in Files : PhaseOf(f)' = PhaseOf(f) /\ Bytes(f)' = Bytes(f)
  PROVE  UNCHANGED Delivery!deliveryVars
BY DEF Delivery!deliveryVars

LEMMA TablesStayDelivers ==
  ASSUME TablesStay
  PROVE  UNCHANGED Delivery!deliveryVars
<1>1. \A f \in Files : PhaseOf(f)' = PhaseOf(f)
  BY PhaseStays DEF TablesStay, tables, RowOf, Rows
<1>2. \A f \in Files : Bytes(f)' = Bytes(f)
  BY BytesStay DEF TablesStay, tables, ChunksOf
<1> QED BY <1>1, <1>2, FilesStay

\* Every other file, when one session changes.
LEMMA OtherFilesStay ==
  ASSUME IInv, NEW f \in Files,
         \A u \in Uploads : \/ transfer'[u] = transfer[u]
                            \/ /\ u \in Rows => transfer[u].file = f
                               /\ u \in Rows' => transfer'[u].file = f,
         \A e \in Files \ {f} : e \in finished' <=> e \in finished
  PROVE  \A e \in Files \ {f} : PhaseOf(e)' = PhaseOf(e)
<1> SUFFICES ASSUME NEW e \in Files \ {f} PROVE PhaseOf(e)' = PhaseOf(e)
  OBVIOUS
<1>1. RowOf(e)' = RowOf(e)
  BY DEF RowOf, Rows
<1>2. \A u \in RowOf(e) : transfer'[u].status = transfer[u].status
  BY DEF RowOf, Rows
<1> QED BY <1>1, <1>2, PhaseStays

LEMMA CreateCommitsBegins ==
  ASSUME IInv, IInv', NEW h \in Handlers, NEW u \in Uploads, CreateCommits(h, u)
  PROVE  \E f \in Files : Delivery!Begin(f)
<1> PICK f : f = handler[h].file
  OBVIOUS
<1> DEFINE row == [file |-> f, chunkSize |-> handler[h].chunkSize, offset |-> 0,
                   status |-> "uploading", expired |-> FALSE, reached |-> -1]
<1>1. /\ f \in Files /\ handler[h].chunkSize \in ChunkSizes
      /\ transfer' = [transfer EXCEPT ![u] = row]
      /\ u \notin drawn /\ UNCHANGED <<chunks, finished>>
      /\ RowOf(f) = {} /\ Target[f] \in open \cup {NoChat}
  BY DEF IInv, HandlersInv, HandlerInv, CreateCommits, CreateSucceeds, At
<1>2. row # NoRow /\ row.file = f /\ row.status = "uploading"
  <2>1. row \in Transfer
    BY <1>1 DEF Transfer
  <2> QED BY <2>1, NoRowIsNone
<1> HIDE DEF row
<1>3. \A v \in Uploads : transfer'[v] = IF v = u THEN row ELSE transfer[v]
  BY <1>1 DEF IInv, TypeOK
<1>4. u \notin Rows
  BY <1>1 DEF IInv, TypeOK
<1>5. PhaseOf(f) = "absent"
  BY <1>1, PhasesAreOfRows DEF PhasesFit, IInv, TablesInv, FinishedInv
<1>6. PhaseOf(f)' = "uploading"
  <2>1. u \in Rows' /\ transfer'[u].file = f /\ transfer'[u].status = "uploading"
    BY <1>2, <1>3 DEF Rows
  <2> QED BY <2>1 DEF PhaseOf, HasRow, RowOf
<1>7. \A e \in Files \ {f} : PhaseOf(e)' = PhaseOf(e)
  BY <1>1, <1>2, <1>3, <1>4, OtherFilesStay
<1>8. \A e \in Files : Bytes(e)' = Bytes(e)
  BY <1>1, BytesStay DEF ChunksOf
<1>9. Delivery!Begin(f)
  BY <1>1, <1>5, <1>6, <1>7, <1>8 DEF Delivery!Begin
<1> QED BY <1>1, <1>9

LEMMA AppendCommitsReceives ==
  ASSUME IInv, IInv', NEW h \in Handlers, AppendCommits(h)
  PROVE  \E f \in Files : \E m, n \in 0..Size[f] : Delivery!Receive(f, m, n)
<1>1. PICK u, f, o, n :
         /\ f = transfer[u].file /\ o = transfer[u].offset
         /\ u \in Rows /\ transfer[u].status = "uploading"
         /\ n \in Nat /\ n > 0 /\ o + n <= Size[f]
         /\ transfer' = [transfer EXCEPT ![u] = [transfer[u] EXCEPT !.offset = o + n]]
         /\ \E x \in Chunk : x.file = f /\ chunks' = chunks \cup {x}
         /\ Bytes(f)' = 0..(o + n - 1)
  BY AppendCommitsStores
<1>2. /\ u \in Uploads /\ transfer[u] \in Transfer /\ f \in Files /\ o \in Nat
      /\ Size[f] \in Nat
  BY <1>1, RowIsTyped DEF IInv
<1>3. finished' = finished
  BY DEF AppendCommits
<1> DEFINE row == [transfer[u] EXCEPT !.offset = o + n]
<1>4. row \in Transfer /\ row # NoRow /\ row.file = f /\ row.status = "uploading"
  <2>1. row \in Transfer
    <3>1. o + n \in Nat
      BY <1>1, <1>2
    <3> QED BY <1>2, <3>1, OffsetMoves
  <2> QED BY <1>1, <1>2, <2>1, NoRowIsNone DEF Transfer
<1>5. \A v \in Uploads : transfer'[v] = IF v = u THEN row ELSE transfer[v]
  <2>1. transfer' = [transfer EXCEPT ![u] = row]
    BY <1>1
  <2> HIDE DEF row
  <2> QED BY <2>1 DEF IInv, TypeOK
<1> HIDE DEF row
<1>6. PhaseOf(f) = "uploading"
  BY <1>1 DEF PhaseOf, HasRow, RowOf
<1>7. PhaseOf(f)' = "uploading"
  <2>1. u \in Rows' /\ transfer'[u].file = f /\ transfer'[u].status = "uploading"
    BY <1>2, <1>4, <1>5 DEF Rows
  <2> QED BY <2>1 DEF PhaseOf, HasRow, RowOf
<1>8. \A e \in Files \ {f} : PhaseOf(e)' = PhaseOf(e)
  BY <1>1, <1>2, <1>3, <1>4, <1>5, OtherFilesStay
<1>9. Bytes(f) = 0..(o - 1)
  BY <1>1 DEF IInv, TablesInv, RowInv
<1>10. \A e \in Files \ {f} : Bytes(e)' = Bytes(e)
  BY <1>1, BytesStay DEF ChunksOf
<1>11. Bytes(f)' = 0..(o + n - 1)
  BY <1>1
<1>12. Delivery!Receive(f, o, n)
  BY <1>1, <1>2, <1>6, <1>7, <1>8, <1>9, <1>10, <1>11 DEF Delivery!Receive
<1>13. o \in 0..Size[f] /\ n \in 0..Size[f]
  BY <1>1, <1>2
<1> QED BY <1>2, <1>12, <1>13

LEMMA CompleteCommitsFinishes ==
  ASSUME IInv, IInv', NEW h \in Handlers, CompleteCommits(h)
  PROVE  \E f \in Files : Delivery!Finish(f)
<1>1. PICK u \in Rows, f \in Files, row \in Transfer :
           /\ f = transfer[u].file /\ f \notin finished
           /\ transfer[u].offset = Size[f]
           /\ row.file = f /\ row.status = "completed"
           /\ Rows' = Rows
           /\ transfer' = [transfer EXCEPT ![u] = row]
           /\ finished' = finished \cup {f}
  BY CompleteCommitsMoves
<1>2. \A v \in Uploads : transfer'[v] = IF v = u THEN row ELSE transfer[v]
  BY <1>1 DEF IInv, TypeOK
<1>3. RowInv(u)
  BY DEF IInv, TablesInv
<1>4. PhaseOf(f) = "uploading"
  BY <1>1, <1>3 DEF RowInv, PhaseOf, HasRow, RowOf
<1>5. PhaseOf(f)' = "ready"
  <2>1. u \in Rows' /\ transfer'[u].file = f /\ transfer'[u].status = "completed"
    BY <1>1, <1>2 DEF Rows
  <2>2. (PhaseOf(transfer[u].file) = PhaseOfStatus(transfer[u].status))'
    <3>1. PhasesFit'
      BY PhasesAreOfRows, PTL
    <3> QED BY <2>1, <3>1 DEF PhasesFit
  <2> QED BY <2>1, <2>2 DEF PhaseOfStatus, PhaseOf, HasRow, RowOf, Rows
<1>6. \A e \in Files \ {f} : PhaseOf(e)' = PhaseOf(e)
  BY <1>1, <1>2, OtherFilesStay
<1>7. Bytes(f) = 0..(Size[f] - 1)
  BY <1>1, <1>3 DEF RowInv
<1>8. \A e \in Files : Bytes(e)' = Bytes(e)
  BY BytesStay DEF CompleteCommits, ChunksOf
<1>9. Delivery!Finish(f)
  BY <1>1, <1>4, <1>5, <1>6, <1>7, <1>8 DEF Delivery!Finish
<1> QED BY <1>9

\* Deleted sessions take with them all files of F and nothing else.
LEMMA DeleteRowsWithdraws ==
  ASSUME IInv, NEW F, F \subseteq Files, NEW U, U \subseteq Rows,
         U = {u \in Rows : transfer[u].file \in F},
         DeleteRows(U), finished' = finished
  PROVE  Delivery!Withdraw(F)
<1>1. Rows' = Rows \ U /\ \A v \in Rows' : transfer'[v] = transfer[v]
  BY DEF DeleteRows, Rows
<1>2. chunks' = {x \in chunks : \A u \in U : x.file # transfer[u].file}
  BY DEF DeleteRows
<1>3. ASSUME NEW f \in F
      PROVE  /\ PhaseOf(f)' = IF PhaseOf(f) \in {"absent", "uploading"}
                              THEN "absent" ELSE "withdrawn"
             /\ Bytes(f)' = {}
  <2>1. RowOf(f)' = {}
    BY <1>1 DEF RowOf
  <2>2. ChunksOf(f)' = {}
    BY <1>2 DEF ChunksOf, IInv, TablesInv, ChunksHaveRows
  <2>3. PhaseOf(f) \in {"absent", "uploading"} <=> f \notin finished
    BY PhasesAreOfRows DEF PhasesFit
  <2>4. PhaseOf(f)' = IF f \in finished' THEN "withdrawn" ELSE "absent"
    BY <2>1 DEF PhaseOf, HasRow
  <2>5. Bytes(f)' = {}
    BY <2>2 DEF Bytes
  <2> QED BY <2>3, <2>4, <2>5
<1>4. ASSUME NEW f \in Files \ F
      PROVE  PhaseOf(f)' = PhaseOf(f) /\ Bytes(f)' = Bytes(f)
  <2>1. RowOf(f)' = RowOf(f)
    BY <1>1 DEF RowOf
  <2>2. \A u \in RowOf(f) : transfer'[u].status = transfer[u].status
    BY <1>1 DEF RowOf
  <2>3. ChunksOf(f)' = ChunksOf(f)
    BY <1>2 DEF ChunksOf
  <2> QED BY <2>1, <2>2, <2>3, PhaseStays, BytesStay
<1> QED BY <1>3, <1>4 DEF Delivery!Withdraw

LEMMA AbortCommitsWithdraws ==
  ASSUME IInv, NEW h \in Handlers, AbortCommits(h)
  PROVE  \E F \in SUBSET Files : Delivery!Withdraw(F)
<1> PICK u, f : u = handler[h].upload /\ f = transfer[u].file
  OBVIOUS
<1>1. u \in Rows /\ f \in Files
  BY RowIsTyped DEF IInv, AbortCommits, AbortMatches, Uploading
<1>2. {u} = {v \in Rows : transfer[v].file \in {f}}
  BY <1>1 DEF IInv, TablesInv, OneRowEach
<1>3. DeleteRows({u}) /\ finished' = finished
  BY DEF AbortCommits
<1>4. Delivery!Withdraw({f})
  BY <1>1, <1>2, <1>3, DeleteRowsWithdraws
<1> QED BY <1>1, <1>4

LEMMA DeleteChatWithdraws ==
  ASSUME IInv, NEW c \in Chats, DeleteChat(c)
  PROVE  \E F \in SUBSET Files : Delivery!Withdraw(F)
<1> PICK F : F = {f \in Files : Target[f] = c}
  OBVIOUS
<1> PICK U : U = {u \in Rows : Target[transfer[u].file] = c}
  OBVIOUS
<1>1. U = {u \in Rows : transfer[u].file \in F}
  BY RowIsTyped DEF IInv
<1>2. DeleteRows(U) /\ finished' = finished
  BY DEF DeleteChat
<1>3. Delivery!Withdraw(F)
  BY <1>1, <1>2, DeleteRowsWithdraws
<1> QED BY <1>3

LEMMA AcknowledgeDelivers ==
  ASSUME IInv, IInv', NEW F \in SUBSET Files, Acknowledge(F)
  PROVE  Delivery!Deliver(F)
<1>1. \A v \in Uploads :
         transfer'[v] = IF /\ v \in Rows
                           /\ transfer[v].file \in F
                           /\ transfer[v].status = "completed"
                        THEN [transfer[v] EXCEPT !.status = "delivered"]
                        ELSE transfer[v]
  BY DEF Acknowledge
<1>2. \A v \in Rows :
        LET row == [transfer[v] EXCEPT !.status = "delivered"] IN
        row # NoRow /\ row.file = transfer[v].file /\ row.status = "delivered"
  <2> SUFFICES ASSUME NEW v \in Rows
               PROVE  LET row == [transfer[v] EXCEPT !.status = "delivered"] IN
                      row # NoRow /\ row.file = transfer[v].file
                        /\ row.status = "delivered"
    OBVIOUS
  <2> DEFINE row == [transfer[v] EXCEPT !.status = "delivered"]
  <2>1. transfer[v] \in Transfer
    BY RowIsTyped DEF IInv
  <2>2. row \in Transfer
    BY <2>1 DEF Transfer
  <2> QED BY <2>1, <2>2, NoRowIsNone DEF Transfer
<1>3. /\ Rows' = Rows
      /\ \A v \in Rows :
           /\ transfer'[v].file = transfer[v].file
           /\ transfer'[v].status =
                IF transfer[v].file \in F /\ transfer[v].status = "completed"
                THEN "delivered" ELSE transfer[v].status
  BY <1>1, <1>2 DEF Rows
<1>4. \A f \in Files : RowOf(f)' = RowOf(f)
  BY <1>3 DEF RowOf
<1>5. finished' = finished /\ chunks' = chunks
  BY DEF Acknowledge
<1>6. PhasesFit /\ PhasesFit'
  <2>1. PhasesFit'
    BY PhasesAreOfRows, PTL
  <2> QED BY <2>1, PhasesAreOfRows
<1>7. ASSUME NEW f \in Files
      PROVE  PhaseOf(f)' = IF f \in F /\ PhaseOf(f) = "ready" THEN "delivered"
                                                            ELSE PhaseOf(f)
  <2>1. CASE RowOf(f) = {}
    BY <1>4, <1>5, <1>6, <2>1 DEF PhasesFit, PhaseOf, HasRow
  <2>2. CASE RowOf(f) # {}
    <3>1. PICK u \in Rows : transfer[u].file = f
      BY <2>2 DEF RowOf
    <3>2. PhaseOf(f) = PhaseOfStatus(transfer[u].status)
      BY <1>6, <3>1 DEF PhasesFit
    <3>3. PhaseOf(f)' = PhaseOfStatus(transfer'[u].status)
      <4>1. (PhaseOf(transfer[u].file) = PhaseOfStatus(transfer[u].status))'
        BY <1>3, <1>6, <3>1 DEF PhasesFit
      <4>2. transfer'[u].file = f
        BY <1>3, <3>1
      <4> QED BY <4>1, <4>2 DEF PhaseOf, HasRow, RowOf, PhaseOfStatus, Rows
    <3>4. transfer[u].status \in Statuses
      BY <3>1, RowIsTyped DEF IInv
    <3> QED BY <1>3, <3>1, <3>2, <3>3, <3>4 DEF PhaseOfStatus, Statuses
  <2> QED BY <2>1, <2>2
<1>8. \A f \in Files : Bytes(f)' = Bytes(f)
  BY <1>5, BytesStay DEF ChunksOf
<1> QED BY <1>7, <1>8 DEF Delivery!Deliver

LEMMA ExpireStays ==
  ASSUME IInv, NEW u \in Uploads, Expire(u)
  PROVE  UNCHANGED Delivery!deliveryVars
<1> DEFINE row == [transfer[u] EXCEPT !.expired = TRUE, !.reached = transfer[u].offset]
<1>1. u \in Rows /\ transfer[u] \in Transfer
  BY RowIsTyped DEF Expire, Uploading, IInv
<1>2. row # NoRow /\ row.file = transfer[u].file /\ row.status = transfer[u].status
  <2>1. row \in Transfer
    BY <1>1 DEF Transfer
  <2> QED BY <1>1, <2>1, NoRowIsNone DEF Transfer
<1>3. transfer' = [transfer EXCEPT ![u] = row]
  BY DEF Expire, IInv, TypeOK
<1> HIDE DEF row
<1>4. /\ Rows' = Rows
      /\ \A v \in Rows : /\ transfer'[v].file = transfer[v].file
                         /\ transfer'[v].status = transfer[v].status
  BY <1>1, <1>2, <1>3 DEF IInv, TypeOK, Rows
<1>5. \A f \in Files : PhaseOf(f)' = PhaseOf(f)
  <2>1. finished' = finished
    BY DEF Expire
  <2> QED BY <1>4, <2>1, PhaseStays DEF RowOf
<1>6. \A f \in Files : Bytes(f)' = Bytes(f)
  BY BytesStay DEF Expire, ChunksOf
<1> QED BY <1>5, <1>6, FilesStay

LEMMA DeliveryInit == Init => Delivery!Init
<1> SUFFICES ASSUME Init PROVE Delivery!Init
  OBVIOUS
<1>1. \A f \in Files : PhaseOf(f) = "absent" /\ Bytes(f) = {}
  BY DEF Init, PhaseOf, HasRow, RowOf, Rows, Bytes, ChunksOf
<1> QED BY <1>1 DEF Delivery!Init

LEMMA DeliveryStep ==
  IInv /\ IInv' /\ [Next]_vars => [Delivery!Next]_(Delivery!deliveryVars)
<1> SUFFICES ASSUME IInv, IInv', [Next]_vars
             PROVE  Delivery!Next \/ UNCHANGED Delivery!deliveryVars
  OBVIOUS
<1>1. CASE UNCHANGED vars
  BY <1>1, TablesStayDelivers DEF vars, TablesStay, tables
<1>2. ASSUME NEW h \in Handlers, StartSome(h)
      PROVE  UNCHANGED Delivery!deliveryVars
  <2>1. TablesStay
    BY <1>2 DEF StartSome, StartCreate, StartComplete, StartAbort, StartAppend,
                StartDownload, TablesStay
  <2> QED BY <2>1, TablesStayDelivers
<1>3. ASSUME NEW h \in Handlers, Continue(h)
      PROVE  Delivery!Next \/ UNCHANGED Delivery!deliveryVars
  <2>1. CASE \E u \in Uploads : CreateCommits(h, u)
    BY <2>1, CreateCommitsBegins DEF Delivery!Next
  <2>2. CASE AppendCommits(h)
    BY <2>2, AppendCommitsReceives DEF Delivery!Next
  <2>3. CASE CompleteCommits(h)
    BY <2>3, CompleteCommitsFinishes DEF Delivery!Next
  <2>4. CASE AbortCommits(h)
    BY <2>4, AbortCommitsWithdraws DEF Delivery!Next
  <2>5. CASE \/ CreateFails(h) \/ CreateAnswers(h) \/ CompleteNotifies(h)
             \/ WriteMisses(h) \/ DownloadServes(h) \/ DownloadFindsNothing(h)
    <3>1. TablesStay
      BY <2>5 DEF CreateFails, CreateAnswers, CompleteNotifies, WriteMisses,
                  DownloadServes, DownloadFindsNothing, TablesStay
    <3> QED BY <3>1, TablesStayDelivers
  <2> QED BY <1>3, <2>1, <2>2, <2>3, <2>4, <2>5 DEF Continue
<1>4. ASSUME NEW h \in Handlers, Drop(h)
      PROVE  UNCHANGED Delivery!deliveryVars
  <2>1. TablesStay
    BY <1>4 DEF Drop, TablesStay
  <2> QED BY <2>1, TablesStayDelivers
<1>5. ASSUME NEW F \in SUBSET Files, Acknowledge(F)
      PROVE  Delivery!Next
  BY <1>5, AcknowledgeDelivers DEF Delivery!Next
<1>6. ASSUME NEW c \in Chats, DeleteChat(c)
      PROVE  Delivery!Next
  BY <1>6, DeleteChatWithdraws DEF Delivery!Next
<1>7. ASSUME NEW u \in Uploads, Expire(u)
      PROVE  UNCHANGED Delivery!deliveryVars
  BY <1>7, ExpireStays
<1> QED BY <1>1, <1>2, <1>3, <1>4, <1>5, <1>6, <1>7 DEF Next

\* The sessions, chunk rows and concurrent handlers of the service together do
\* no more than FileDelivery: bytes come in order, a file is offered when it is
\* whole, and from then on it changes only by leaving with its chat.
THEOREM DeliveryImplemented == Spec => ImplementsDelivery
BY DeliveryInit, DeliveryStep, IInvAlways, PTL
   DEF Spec, ImplementsDelivery, Delivery!Spec

----------------------------------------------------------------------------
(* Chunks lie on the grid of their session *)

LEMMA TimesGrows ==
  ASSUME NEW a \in Nat, NEW b \in Nat, NEW n \in Nat, a <= b
  PROVE  a * n <= b * n
<1>1. PICK d \in Nat : b = a + d
  <2>1. b - a \in Nat /\ b = a + (b - a)
    OBVIOUS
  <2> QED BY <2>1
<1>2. d * n >= 0 /\ b * n = a * n + d * n
  BY <1>1
<1> QED BY <1>2

LEMMA NextMultiple ==
  ASSUME NEW a \in Nat, NEW n \in Nat
  PROVE  (a + 1) * n = a * n + n /\ a * n \in Nat
OBVIOUS

LEMMA QuotientOfMultiple ==
  ASSUME NEW k \in Nat, NEW n \in Nat, n > 0
  PROVE  (k * n) \div n = k
OBVIOUS

LEMMA AtLeastItself ==
  ASSUME NEW j \in Nat, NEW n \in Nat, n > 0
  PROVE  j <= j * n
<1>1. PICK d \in Nat : n = d + 1
  <2>1. n - 1 \in Nat /\ n = (n - 1) + 1
    OBVIOUS
  <2> QED BY <2>1
<1>2. j * n = j * d + j /\ j * d >= 0
  BY <1>1
<1> QED BY <1>2

\* The length of a chunk of f that begins at o.
LengthAt(f, o, n) == IF Size[f] - o < n THEN Size[f] - o ELSE n

Piece(f, i, n) ==
  [file |-> f, index |-> i, from |-> i * n, length |-> LengthAt(f, i * n, n)]

\* The chunks that begin before o.
Marks(n, o) == {j \in 0..o : j * n < o}

Cut(f, n, o) == {Piece(f, i, n) : i \in Marks(n, o)}

LEMMA MarksBelow ==
  ASSUME NEW j \in Nat, NEW k \in Nat, NEW n \in Nat, n > 0,
         NEW e \in Nat, k * n < e, e <= (k + 1) * n
  PROVE  (j \in Marks(n, e) <=> j <= k) /\ (j \in Marks(n, k * n) <=> j < k)
<1>1. j <= j * n /\ j * n \in Nat /\ k * n \in Nat
  BY AtLeastItself, NextMultiple
<1>2. j <= k => j * n <= k * n
  BY TimesGrows
<1>3. j >= k + 1 => (k + 1) * n <= j * n
  BY TimesGrows
<1>4. j + 1 <= k => (j + 1) * n <= k * n
  BY TimesGrows
<1>5. j >= k => k * n <= j * n
  BY TimesGrows
<1>6. (j + 1) * n = j * n + n
  BY NextMultiple
<1>7. j \in Marks(n, e) <=> j * n < e
  BY <1>1 DEF Marks
<1>8. j \in Marks(n, k * n) <=> j * n < k * n
  BY <1>1 DEF Marks
<1>9. PICK x, y, z : x = j * n /\ y = k * n /\ z = (k + 1) * n
  OBVIOUS
<1>10. j <= k => x < e
  BY <1>1, <1>2, <1>9
<1>11. j > k => ~(x < e)
  <2>1. (k + 1) * n \in Nat
    BY NextMultiple
  <2> QED BY <1>1, <1>3, <1>9, <2>1
<1>12. j < k => x < y
  BY <1>1, <1>4, <1>6, <1>9
<1>13. j >= k => ~(x < y)
  BY <1>1, <1>5, <1>9
<1> QED BY <1>7, <1>8, <1>9, <1>10, <1>11, <1>12, <1>13

LEMMA CutGrows ==
  ASSUME NEW f, NEW k \in Nat, NEW n \in Nat, n > 0,
         NEW e \in Nat, k * n < e, e <= (k + 1) * n
  PROVE  Cut(f, n, e) = Cut(f, n, k * n) \cup {Piece(f, k, n)}
<1>1. Marks(n, e) = Marks(n, k * n) \cup {k}
  <2>1. Marks(n, e) \subseteq Nat /\ Marks(n, k * n) \subseteq Nat
    BY NextMultiple DEF Marks
  <2>2. \A j \in Nat : j \in Marks(n, e) <=> (j \in Marks(n, k * n) \/ j = k)
    BY MarksBelow
  <2> QED BY <2>1, <2>2
<1> QED BY <1>1 DEF Cut

\* What is stored for session u is the file, cut below the offset, which is on
\* the grid until the file is whole.
RowCut(u) ==
  LET f == transfer[u].file
      n == transfer[u].chunkSize
      o == transfer[u].offset IN
  /\ ChunksOf(f) = Cut(f, n, o)
  /\ o = Size[f] \/ \E k \in Nat : o = k * n

\* The length of a chunk was checked against this session, not an older one:
\* an upload id is never drawn again.
AppendCut(q) ==
  q.op = "append" /\ q.upload \in Rows =>
    LET u == q.upload IN
    q.length = LengthAt(transfer[u].file, q.number, transfer[u].chunkSize)

CutInv ==
  /\ \A u \in Rows : RowCut(u)
  /\ \A h \in Handlers : AppendCut(handler[h])

\* What was served of f is cut by n, the chunk size of its session.
ServedBy(f, n) ==
  /\ \A x \in served : x.file = f =>
       x = Piece(f, x.index, n) /\ x.index * n < Size[f]
  /\ \A u \in RowOf(f) : transfer[u].chunkSize = n

\* Only finished files are served, and a finished file is never begun again.
ServedInv ==
  /\ \A x \in served : x.file \in finished
  /\ \A h \in Handlers : handler[h].op = "download" => handler[h].file \in finished
  /\ \A f \in finished : \E n \in ChunkSizes : ServedBy(f, n)

GridInv == IInv /\ CutInv /\ ServedInv

\* No row and no chunk comes, though they may go together.
RowsShrink ==
  /\ Rows' \subseteq Rows
  /\ \A u \in Rows' :
       /\ transfer'[u].file = transfer[u].file
       /\ transfer'[u].chunkSize = transfer[u].chunkSize
       /\ transfer'[u].offset = transfer[u].offset
       /\ ChunksOf(transfer[u].file)' = ChunksOf(transfer[u].file)

LEMMA RowsShrinkCut ==
  ASSUME RowsShrink, CutInv
  PROVE  \A u \in Rows' : RowCut(u)'
<1> SUFFICES ASSUME NEW u \in Rows' PROVE RowCut(u)'
  OBVIOUS
<1>1. RowCut(u) /\ u \in Rows
  BY DEF CutInv, RowsShrink
<1>2. PICK f, n, o : /\ f = transfer[u].file /\ n = transfer[u].chunkSize
                     /\ o = transfer[u].offset
  OBVIOUS
<1>3. f = transfer'[u].file /\ n = transfer'[u].chunkSize /\ o = transfer'[u].offset
  BY <1>2 DEF RowsShrink
<1>4. /\ ChunksOf(f)' = Cut(f, n, o)
      /\ o = Size[f] \/ \E k \in Nat : o = k * n
  BY <1>1, <1>2 DEF RowsShrink, RowCut
<1> QED BY <1>3, <1>4 DEF RowCut

\* A row that is there stays the session of its file, and no upload id comes
\* back.
SessionsStay ==
  \A u \in Rows' : u \in drawn =>
    /\ u \in Rows
    /\ transfer'[u].file = transfer[u].file
    /\ transfer'[u].chunkSize = transfer[u].chunkSize

LEMMA AppendCutStays ==
  ASSUME SessionsStay, NEW q, AppendCut(q), HandlerInv(q)
  PROVE  AppendCut(q)'
BY DEF SessionsStay, AppendCut, HandlerInv, LengthAt

LEMMA HandlersCut ==
  ASSUME IInv, CutInv, SessionsStay,
         \A h \in Handlers : handler'[h] = handler[h] \/ AppendCut(handler[h])'
  PROVE  \A h \in Handlers : AppendCut(handler[h])'
<1> SUFFICES ASSUME NEW h \in Handlers, handler'[h] = handler[h]
             PROVE  AppendCut(handler[h])'
  OBVIOUS
<1>1. HandlerInv(handler[h]) /\ AppendCut(handler[h])
  BY DEF IInv, HandlersInv, CutInv
<1> PICK q : q = handler[h]
  OBVIOUS
<1>2. AppendCut(q)'
  BY <1>1, AppendCutStays
<1> QED BY <1>2 DEF AppendCut

\* Nothing is served, and what was finished keeps its session or loses it.
FinishedKeep ==
  /\ served' = served
  /\ \A u \in Rows' : transfer'[u].file \in finished =>
       /\ u \in Rows
       /\ transfer'[u].file = transfer[u].file
       /\ transfer'[u].chunkSize = transfer[u].chunkSize

LEMMA ServedByStays ==
  ASSUME FinishedKeep, NEW f \in finished, NEW n, ServedBy(f, n)
  PROVE  ServedBy(f, n)'
BY DEF FinishedKeep, ServedBy, RowOf

LEMMA ServedStays ==
  ASSUME ServedInv, FinishedKeep, finished' = finished,
         \A h \in Handlers : \/ handler'[h] = handler[h]
                             \/ handler'[h].op = "download" => handler'[h].file \in finished
  PROVE  ServedInv'
<1>1. \A f \in finished' : \E n \in ChunkSizes : ServedBy(f, n)'
  BY ServedByStays DEF ServedInv
<1> QED BY <1>1 DEF ServedInv, FinishedKeep

\* Steps that add no row and no chunk, serve nothing and begin no append.
LEMMA ShrinkKeepsGrid ==
  ASSUME GridInv, RowsShrink, served' = served, finished' = finished,
         \A h \in Handlers :
           \/ handler'[h] = handler[h]
           \/ handler'[h].op \notin {"append", "download"}
  PROVE  CutInv' /\ ServedInv'
<1>1. SessionsStay /\ FinishedKeep
  BY DEF RowsShrink, SessionsStay, FinishedKeep
<1>2. \A h \in Handlers : handler'[h] = handler[h] \/ AppendCut(handler[h])'
  BY DEF AppendCut
<1>3. CutInv'
  BY <1>1, <1>2, HandlersCut, RowsShrinkCut DEF GridInv, CutInv
<1>4. ServedInv'
  BY <1>1, ServedStays DEF GridInv
<1> QED BY <1>3, <1>4

LEMMA TablesStayShrink ==
  ASSUME TablesStay
  PROVE  RowsShrink /\ finished' = finished
BY DEF TablesStay, tables, RowsShrink, Rows, ChunksOf

\* The next states of a handler that begins or ends.
LEMMA HandlerBecomes ==
  ASSUME IInv, NEW h \in Handlers, NEW q, handler' = [handler EXCEPT ![h] = q]
  PROVE  \A g \in Handlers : handler'[g] = IF g = h THEN q ELSE handler[g]
BY DEF IInv, TypeOK

LEMMA QuietEndKeepsGrid ==
  ASSUME GridInv, NEW h \in Handlers, TablesStay, End(h), served' = served
  PROVE  CutInv' /\ ServedInv'
<1>1. \A g \in Handlers : handler'[g] = IF g = h THEN Idle ELSE handler[g]
  BY HandlerBecomes DEF End, GridInv
<1> QED BY <1>1, TablesStayShrink, ShrinkKeepsGrid DEF Idle

LEMMA StartOtherKeepsGrid ==
  ASSUME GridInv, NEW h \in Handlers, NEW q, Start(h, q), TablesStay,
         served' = served, q.op \notin {"append", "download"}
  PROVE  CutInv' /\ ServedInv'
<1>1. \A g \in Handlers : handler'[g] = IF g = h THEN q ELSE handler[g]
  BY HandlerBecomes DEF Start, GridInv
<1> QED BY <1>1, TablesStayShrink, ShrinkKeepsGrid

LEMMA StartAppendKeepsGrid ==
  ASSUME GridInv, NEW h \in Handlers, NEW u \in Rows,
         NEW n \in 1..Size[transfer[u].file], StartAppend(h, u, n)
  PROVE  CutInv' /\ ServedInv'
<1>0. PICK q : q = [Idle EXCEPT !.op = "append", !.step = "write", !.upload = u,
                                !.number = transfer[u].offset, !.length = n]
  OBVIOUS
<1>1. TablesStay /\ served' = served /\ handler' = [handler EXCEPT ![h] = q]
  BY <1>0 DEF StartAppend, Start, TablesStay
<1>2. q.op = "append" /\ q.upload = u /\ q.number = transfer[u].offset /\ q.length = n
  BY <1>0 DEF Idle
<1>3. n = LengthAt(transfer[u].file, transfer[u].offset, transfer[u].chunkSize)
  BY DEF StartAppend, AcceptsLength, LengthAt
<1>4. \A g \in Handlers : handler'[g] = IF g = h THEN q ELSE handler[g]
  BY <1>1, HandlerBecomes DEF GridInv
<1>5. AppendCut(q)'
  BY <1>1, <1>2, <1>3 DEF AppendCut, TablesStay, tables, LengthAt
<1>6. RowsShrink /\ finished' = finished
  BY <1>1, TablesStayShrink
<1>7. SessionsStay /\ FinishedKeep
  BY <1>1, <1>6 DEF RowsShrink, SessionsStay, FinishedKeep
<1>8. \A g \in Handlers : handler'[g] = handler[g] \/ AppendCut(handler[g])'
  BY <1>4, <1>5 DEF AppendCut
<1>9. CutInv'
  BY <1>6, <1>7, <1>8, HandlersCut, RowsShrinkCut DEF GridInv, CutInv
<1>10. ServedInv'
  BY <1>2, <1>4, <1>6, <1>7, ServedStays DEF GridInv
<1> QED BY <1>9, <1>10

\* A download begins when the file is finished.
LEMMA StartDownloadKeepsGrid ==
  ASSUME GridInv, NEW h \in Handlers, NEW f \in Files, NEW i \in Nat,
         StartDownload(h, f, i)
  PROVE  CutInv' /\ ServedInv'
<1> DEFINE q == [Idle EXCEPT !.op = "download", !.step = "write", !.file = f,
                             !.number = i]
<1>1. TablesStay /\ served' = served /\ handler' = [handler EXCEPT ![h] = q]
  BY DEF StartDownload, Start, TablesStay
<1>2. q.op = "download" /\ q.file = f
  BY DEF Idle
<1>3. f \in finished
  <2>1. PICK u \in RowOf(f) : IsOffered(u)
    BY DEF StartDownload
  <2>2. u \in Rows /\ transfer[u].file = f /\ transfer[u].status # "uploading"
    BY <2>1 DEF RowOf, IsOffered
  <2> QED BY <2>2 DEF GridInv, IInv, TablesInv, RowInv
<1> HIDE DEF q
<1>4. \A g \in Handlers : handler'[g] = IF g = h THEN q ELSE handler[g]
  BY <1>1, HandlerBecomes DEF GridInv
<1>5. RowsShrink /\ finished' = finished
  BY <1>1, TablesStayShrink
<1>6. SessionsStay /\ FinishedKeep
  BY <1>1, <1>5 DEF RowsShrink, SessionsStay, FinishedKeep
<1>7. \A g \in Handlers : handler'[g] = handler[g] \/ AppendCut(handler[g])'
  BY <1>2, <1>4 DEF AppendCut
<1>8. CutInv'
  BY <1>5, <1>6, <1>7, HandlersCut, RowsShrinkCut DEF GridInv, CutInv
<1>9. ServedInv'
  BY <1>2, <1>3, <1>4, <1>5, <1>6, ServedStays DEF GridInv
<1> QED BY <1>8, <1>9

\* A new session has no chunks, since its file had no row.
LEMMA CreateCommitsKeepsGrid ==
  ASSUME GridInv, NEW h \in Handlers, NEW u \in Uploads, CreateCommits(h, u)
  PROVE  CutInv' /\ ServedInv'
<1> PICK f, n : f = handler[h].file /\ n = handler[h].chunkSize
  OBVIOUS
<1>r. PICK row : row = [file |-> f, chunkSize |-> n, offset |-> 0,
                      status |-> "uploading", expired |-> FALSE, reached |-> -1]
  OBVIOUS
<1>q. PICK q : q = [handler[h] EXCEPT !.step = "notify", !.upload = u]
  OBVIOUS
<1>1. /\ f \in Files /\ n \in ChunkSizes
      /\ handler[h] \in Handler /\ handler[h].op = "create"
  BY DEF GridInv, IInv, TypeOK, HandlersInv, HandlerInv, CreateCommits, At
<1>2. row \in Transfer /\ row # NoRow
  <2>1. row \in Transfer
    BY <1>1, <1>r DEF Transfer
  <2> QED BY <2>1, NoRowIsNone
<1>3. /\ transfer' = [transfer EXCEPT ![u] = row]
      /\ u \notin drawn
      /\ handler' = [handler EXCEPT ![h] = q]
      /\ UNCHANGED <<chunks, finished, served>>
  BY <1>r, <1>q DEF CreateCommits, GridInv, IInv, TypeOK, Handler
<1>4. RowOf(f) = {} /\ Target[f] \in open \cup {NoChat}
  BY DEF CreateCommits, CreateSucceeds
<1>5. u \notin Rows /\ Rows' = Rows \cup {u}
  BY <1>2, <1>3 DEF GridInv, IInv, TypeOK, Rows
<1>6. /\ transfer'[u].file = f /\ transfer'[u].chunkSize = n /\ transfer'[u].offset = 0
      /\ \A v \in Rows : transfer'[v] = transfer[v]
  BY <1>3, <1>5, <1>r DEF GridInv, IInv, TypeOK, Rows
<1>7. f \notin finished
  BY <1>4 DEF GridInv, IInv, TablesInv, FinishedInv
<1>8. q.op = "create"
  BY <1>1, <1>q DEF Handler
<1>9. \A g \in Handlers : handler'[g] = IF g = h THEN q ELSE handler[g]
  BY <1>3, HandlerBecomes DEF GridInv
<1>10. SessionsStay
  BY <1>3, <1>5, <1>6 DEF SessionsStay
<1>11. FinishedKeep
  BY <1>3, <1>5, <1>6, <1>7 DEF FinishedKeep
<1>12. RowCut(u)'
  <2>1. ChunksOf(f)' = {}
    BY <1>3, <1>4 DEF GridInv, IInv, TablesInv, ChunksHaveRows, RowOf, ChunksOf
  <2>2. n \in Nat
    BY <1>1, ChunkSizesArePositive
  <2>3. 0 * n = 0 /\ Cut(f, n, 0) = {}
    BY <2>2 DEF Cut, Marks
  <2> QED BY <1>6, <2>1, <2>3 DEF RowCut
<1>13. \A v \in Rows : RowCut(v)'
  <2> SUFFICES ASSUME NEW v \in Rows PROVE RowCut(v)'
    OBVIOUS
  <2>1. RowCut(v) /\ transfer'[v] = transfer[v] /\ chunks' = chunks
    BY <1>3, <1>6 DEF GridInv, CutInv
  <2> QED BY <2>1 DEF RowCut, ChunksOf, Cut, Piece, LengthAt, Marks
<1>14. \A g \in Handlers : AppendCut(handler[g])'
  <2>1. \A g \in Handlers : handler'[g] = handler[g] \/ AppendCut(handler[g])'
    BY <1>8, <1>9 DEF AppendCut
  <2> QED BY <1>10, <2>1, HandlersCut DEF GridInv
<1>15. ServedInv'
  BY <1>3, <1>8, <1>9, <1>11, ServedStays DEF GridInv
<1> QED BY <1>5, <1>12, <1>13, <1>14, <1>15 DEF CutInv

\* An append takes the next place on the grid: its number is the offset, still
\* a multiple of the chunk size because a chunk is left to be stored.
LEMMA AppendCommitsCuts ==
  ASSUME GridInv, NEW h \in Handlers, AppendCommits(h)
  PROVE  \E u \in Rows, row \in Transfer :
           /\ row.file = transfer[u].file /\ row.chunkSize = transfer[u].chunkSize
           /\ transfer' = [transfer EXCEPT ![u] = row] /\ row # NoRow
           /\ \A x \in chunks' \ chunks : x.file = transfer[u].file
           /\ chunks \subseteq chunks'
           /\ ChunksOf(row.file)' = Cut(row.file, row.chunkSize, row.offset)
           /\ \/ row.offset = Size[row.file]
              \/ \E k \in Nat : row.offset = k * row.chunkSize
           /\ row.file \notin finished
<1>1. PICK u, f, n, o, m :
        /\ u = handler[h].upload /\ f = transfer[u].file
        /\ n = transfer[u].chunkSize /\ o = transfer[u].offset
        /\ m = handler[h].length
  OBVIOUS
<1>2. u \in Rows /\ transfer[u].status = "uploading" /\ handler[h].number = o
  BY <1>1 DEF AppendCommits, AppendMatches, Uploading
<1>3. /\ m \in Nat /\ o \in Nat /\ f \in Files /\ Size[f] \in Nat
      /\ n \in Nat /\ n > 0 /\ transfer[u] \in Transfer
  <2>1. TypeOK
    BY DEF GridInv, IInv
  <2>2. handler[h] \in Handler
    BY <2>1 DEF TypeOK
  <2>3. m \in Nat
    BY <1>1, <2>2 DEF Handler
  <2>4. /\ o \in Nat /\ f \in Files /\ Size[f] \in Nat
        /\ n \in ChunkSizes /\ transfer[u] \in Transfer
    BY <1>1, <1>2, <2>1, RowIsTyped
  <2> QED BY <2>3, <2>4, ChunkSizesArePositive
<1>4. m > 0 /\ o + m <= Size[f]
  BY <1>1, <1>2 DEF GridInv, IInv, HandlersInv, HandlerInv, AppendCommits, At
<1>5. m = LengthAt(f, o, n)
  BY <1>1, <1>2 DEF GridInv, CutInv, AppendCut, AppendCommits, At
<1>6. ChunksOf(f) = Cut(f, n, o) /\ (o = Size[f] \/ \E k \in Nat : o = k * n)
  BY <1>1, <1>2 DEF GridInv, CutInv, RowCut
<1>7. PICK k \in Nat : o = k * n
  BY <1>3, <1>4, <1>6
<1>8. o \div n = k
  BY <1>3, <1>7, QuotientOfMultiple
<1>9. PICK row : row = [transfer[u] EXCEPT !.offset = o + m]
  OBVIOUS
<1>10. /\ row.file = f /\ row.chunkSize = n /\ row.offset = o + m
       /\ row \in Transfer
  BY <1>1, <1>3, <1>9 DEF Transfer
<1>11. transfer' = [transfer EXCEPT ![u] = row] /\ row # NoRow
  <2>1. row # NoRow
    BY <1>10, NoRowIsNone
  <2> QED BY <1>1, <1>2, <1>9, <2>1 DEF AppendCommits, GridInv, IInv, TypeOK
<1>12. chunks' = chunks \cup {Piece(f, k, n)}
  <2>1. NewIndex(h) = k
    BY <1>1, <1>2, <1>8 DEF NewIndex
  <2>2. Piece(f, k, n) = [file |-> f, index |-> k, from |-> o, length |-> m]
    BY <1>5, <1>7 DEF Piece
  <2> QED BY <1>1, <1>2, <2>1, <2>2 DEF AppendCommits
<1>13. Piece(f, k, n).file = f
  BY DEF Piece
<1>14. ChunksOf(f)' = Cut(f, n, o + m)
  <2>1. m <= n /\ (k + 1) * n = o + n
    BY <1>3, <1>4, <1>5, <1>7, NextMultiple DEF LengthAt
  <2>2. k * n < o + m /\ o + m <= (k + 1) * n /\ o + m \in Nat
    BY <1>3, <1>4, <1>7, <2>1
  <2>3. Cut(f, n, o + m) = Cut(f, n, k * n) \cup {Piece(f, k, n)}
    BY <1>3, <2>2, CutGrows
  <2>4. ChunksOf(f)' = ChunksOf(f) \cup {Piece(f, k, n)}
    BY <1>12, <1>13 DEF ChunksOf
  <2> QED BY <1>6, <1>7, <2>3, <2>4
<1>15. o + m = Size[f] \/ \E j \in Nat : o + m = j * n
  <2>1. CASE m = n
    <3>1. (k + 1) * n = k * n + n /\ k + 1 \in Nat
      BY <1>3, NextMultiple
    <3> QED BY <1>7, <2>1, <3>1
  <2>2. CASE m # n
    BY <1>3, <1>5, <2>2 DEF LengthAt
  <2> QED BY <2>1, <2>2
<1>16. f \notin finished
  BY <1>1, <1>2 DEF GridInv, IInv, TablesInv, RowInv
<1> QED BY <1>1, <1>2, <1>10, <1>11, <1>12, <1>13, <1>14, <1>15, <1>16

LEMMA AppendCommitsKeepsGrid ==
  ASSUME GridInv, NEW h \in Handlers, AppendCommits(h)
  PROVE  CutInv' /\ ServedInv'
<1>1. PICK u \in Rows, row \in Transfer :
        /\ row.file = transfer[u].file /\ row.chunkSize = transfer[u].chunkSize
        /\ transfer' = [transfer EXCEPT ![u] = row] /\ row # NoRow
        /\ \A x \in chunks' \ chunks : x.file = transfer[u].file
        /\ chunks \subseteq chunks'
        /\ ChunksOf(row.file)' = Cut(row.file, row.chunkSize, row.offset)
        /\ \/ row.offset = Size[row.file]
           \/ \E k \in Nat : row.offset = k * row.chunkSize
        /\ row.file \notin finished
  BY AppendCommitsCuts
<1>2. /\ Rows' = Rows /\ transfer'[u] = row
      /\ \A v \in Rows \ {u} : transfer'[v] = transfer[v]
  BY <1>1 DEF GridInv, IInv, TypeOK, Rows
<1>3. served' = served /\ finished' = finished /\ handler' = [handler EXCEPT ![h] = Idle]
  BY DEF AppendCommits, End
<1>4. \A g \in Handlers : handler'[g] = IF g = h THEN Idle ELSE handler[g]
  BY <1>3, HandlerBecomes DEF GridInv
<1>5. SessionsStay
  BY <1>1, <1>2 DEF SessionsStay
<1>6. FinishedKeep
  BY <1>1, <1>2, <1>3 DEF FinishedKeep
<1>7. \A v \in Rows : RowCut(v)'
  <2> SUFFICES ASSUME NEW v \in Rows PROVE RowCut(v)'
    OBVIOUS
  <2>1. CASE v = u
    BY <1>1, <1>2, <2>1 DEF RowCut
  <2>2. CASE v # u
    <3>1. PICK e : e = transfer[v].file
      OBVIOUS
    <3>2. e # transfer[u].file
      BY <2>2, <3>1 DEF GridInv, IInv, TablesInv, OneRowEach
    <3>3. ChunksOf(e)' = ChunksOf(e)
      BY <1>1, <3>2 DEF ChunksOf
    <3>4. RowCut(v) /\ transfer'[v] = transfer[v]
      BY <1>2, <2>2 DEF GridInv, CutInv
    <3>5. PICK n, o : n = transfer[v].chunkSize /\ o = transfer[v].offset
      OBVIOUS
    <3>6. ChunksOf(e)' = Cut(e, n, o) /\ (o = Size[e] \/ \E k \in Nat : o = k * n)
      BY <3>1, <3>3, <3>4, <3>5 DEF RowCut
    <3>7. transfer'[v].file = e /\ transfer'[v].chunkSize = n /\ transfer'[v].offset = o
      BY <3>1, <3>4, <3>5
    <3> QED BY <3>6, <3>7 DEF RowCut
  <2> QED BY <2>1, <2>2
<1>8. \A g \in Handlers : AppendCut(handler[g])'
  <2>1. \A g \in Handlers : handler'[g] = handler[g] \/ AppendCut(handler[g])'
    BY <1>4 DEF AppendCut, Idle
  <2> QED BY <1>5, <2>1, HandlersCut DEF GridInv
<1>9. ServedInv'
  BY <1>3, <1>4, <1>6, ServedStays DEF GridInv, Idle
<1> QED BY <1>2, <1>7, <1>8, <1>9 DEF CutInv

\* Of a file that becomes finished nothing has been served.
LEMMA CompleteCommitsKeepsGrid ==
  ASSUME GridInv, NEW h \in Handlers, CompleteCommits(h)
  PROVE  CutInv' /\ ServedInv'
<1>1. PICK u : u = handler[h].upload
  OBVIOUS
<1>2. PICK f, n : f = transfer[u].file /\ n = transfer[u].chunkSize
  OBVIOUS
<1>3. u \in Rows /\ transfer[u].status = "uploading"
  BY <1>1 DEF CompleteCommits, CompleteMatches, Uploading
<1>4. f \notin finished /\ n \in ChunkSizes /\ transfer[u] \in Transfer
  BY <1>2, <1>3, RowIsTyped DEF GridInv, IInv, TablesInv, RowInv
<1>5. PICK row : row = [transfer[u] EXCEPT !.status = "completed", !.expired = FALSE]
  OBVIOUS
<1>6. /\ row \in Transfer /\ row.file = f /\ row.chunkSize = n
      /\ row.offset = transfer[u].offset
  BY <1>2, <1>4, <1>5 DEF Transfer
<1>7. row # NoRow
  BY <1>6, NoRowIsNone
<1>8. transfer' = [transfer EXCEPT ![u] = row]
  <2>1. transfer' = [transfer EXCEPT ![u].status = "completed", ![u].expired = FALSE]
    BY <1>1 DEF CompleteCommits
  <2> QED BY <1>3, <1>5, <2>1 DEF GridInv, IInv, TypeOK, Rows
<1>9. /\ Rows' = Rows
      /\ \A v \in Rows : transfer'[v] = IF v = u THEN row ELSE transfer[v]
  BY <1>3, <1>7, <1>8 DEF GridInv, IInv, TypeOK, Rows
<1>10. chunks' = chunks /\ served' = served /\ finished' = finished \cup {f}
  BY <1>1, <1>2 DEF CompleteCommits
<1>11. \A g \in Handlers : handler'[g] = handler[g] \/ handler'[g].op = "complete"
  <2>1. handler' = [handler EXCEPT ![h].step = "notify", ![h].file = f]
    BY <1>1, <1>2 DEF CompleteCommits
  <2>2. handler \in [Handlers -> Handler] /\ handler[h].op = "complete"
    BY DEF GridInv, IInv, TypeOK, CompleteCommits, At
  <2>3. handler'[h].op = "complete" /\ \A g \in Handlers \ {h} : handler'[g] = handler[g]
    BY <2>1, <2>2 DEF Handler
  <2> QED BY <2>3
<1>12. /\ RowsShrink
       /\ \A v \in Rows : /\ transfer'[v].file = transfer[v].file
                          /\ transfer'[v].chunkSize = transfer[v].chunkSize
  <2>1. \A v \in Rows : /\ transfer'[v].file = transfer[v].file
                        /\ transfer'[v].chunkSize = transfer[v].chunkSize
                        /\ transfer'[v].offset = transfer[v].offset
    BY <1>2, <1>6, <1>9
  <2> QED BY <1>9, <1>10, <2>1 DEF RowsShrink, ChunksOf
<1>13. SessionsStay /\ FinishedKeep
  BY <1>9, <1>10, <1>12 DEF SessionsStay, FinishedKeep
<1>14. CutInv'
  <2>1. \A g \in Handlers : handler'[g] = handler[g] \/ AppendCut(handler[g])'
    BY <1>11 DEF AppendCut
  <2> QED BY <1>12, <1>13, <2>1, HandlersCut, RowsShrinkCut DEF GridInv, CutInv
<1>15. ServedInv'
  <2>1. ServedBy(f, n)'
    <3>1. \A x \in served' : x.file # f
      BY <1>4, <1>10 DEF GridInv, ServedInv
    <3>2. \A v \in Rows : transfer[v].file = f => v = u
      BY <1>2, <1>3 DEF GridInv, IInv, TablesInv, OneRowEach
    <3>3. \A v \in Rows' : transfer'[v].file = f => transfer'[v].chunkSize = n
      BY <1>2, <1>9, <1>12, <3>2
    <3> QED BY <3>1, <3>3 DEF ServedBy, RowOf
  <2>2. \A e \in finished : \E k \in ChunkSizes : ServedBy(e, k)'
    BY <1>13, ServedByStays DEF GridInv, ServedInv
  <2>3. \A g \in Handlers : handler'[g].op = "download" => handler'[g].file \in finished
    BY <1>11 DEF GridInv, ServedInv
  <2> QED BY <1>4, <1>10, <2>1, <2>2, <2>3 DEF GridInv, ServedInv
<1> QED BY <1>14, <1>15

LEMMA DeleteRowsShrinks ==
  ASSUME IInv, NEW U, U \subseteq Rows, DeleteRows(U)
  PROVE  RowsShrink
<1>1. Rows' = Rows \ U /\ \A v \in Rows' : transfer'[v] = transfer[v]
  BY DEF DeleteRows, Rows
<1>2. chunks' = {x \in chunks : \A u \in U : x.file # transfer[u].file}
  BY DEF DeleteRows
<1>3. ASSUME NEW v \in Rows'
      PROVE  ChunksOf(transfer[v].file)' = ChunksOf(transfer[v].file)
  <2>1. PICK e : e = transfer[v].file
    OBVIOUS
  <2>2. \A u \in U : e # transfer[u].file
    BY <1>1, <2>1 DEF IInv, TablesInv, OneRowEach
  <2>3. ChunksOf(e)' = ChunksOf(e)
    BY <1>2, <2>2 DEF ChunksOf
  <2> QED BY <1>1, <2>1, <2>3 DEF ChunksOf
<1> QED BY <1>1, <1>3 DEF RowsShrink

LEMMA AbortCommitsKeepsGrid ==
  ASSUME GridInv, NEW h \in Handlers, AbortCommits(h)
  PROVE  CutInv' /\ ServedInv'
<1>1. PICK u : u = handler[h].upload
  OBVIOUS
<1>2. u \in Rows /\ DeleteRows({u})
  BY <1>1 DEF AbortCommits, AbortMatches, Uploading
<1>3. RowsShrink
  BY <1>2, DeleteRowsShrinks DEF GridInv
<1>4. served' = served /\ finished' = finished /\ handler' = [handler EXCEPT ![h] = Idle]
  BY DEF AbortCommits, End
<1>5. \A g \in Handlers : handler'[g] = IF g = h THEN Idle ELSE handler[g]
  BY <1>4, HandlerBecomes DEF GridInv
<1> QED BY <1>3, <1>4, <1>5, ShrinkKeepsGrid DEF Idle

LEMMA DeleteChatKeepsGrid ==
  ASSUME GridInv, NEW c \in Chats, DeleteChat(c)
  PROVE  CutInv' /\ ServedInv'
<1>1. PICK U : U = {u \in Rows : Target[transfer[u].file] = c}
  OBVIOUS
<1>2. DeleteRows(U) /\ U \subseteq Rows
  BY <1>1 DEF DeleteChat
<1>3. RowsShrink
  BY <1>2, DeleteRowsShrinks DEF GridInv
<1>4. UNCHANGED <<served, finished, handler>>
  BY DEF DeleteChat
<1> QED BY <1>3, <1>4, ShrinkKeepsGrid

\* A status or an expiry changes.
LEMMA StatusMovesKeepsGrid ==
  ASSUME GridInv, Rows' = Rows, UNCHANGED <<chunks, served, finished, handler>>,
         \A v \in Rows : /\ transfer'[v].file = transfer[v].file
                         /\ transfer'[v].chunkSize = transfer[v].chunkSize
                         /\ transfer'[v].offset = transfer[v].offset
  PROVE  CutInv' /\ ServedInv'
<1>1. RowsShrink
  BY DEF RowsShrink, ChunksOf
<1> QED BY <1>1, ShrinkKeepsGrid

LEMMA AcknowledgeKeepsGrid ==
  ASSUME GridInv, NEW F, Acknowledge(F)
  PROVE  CutInv' /\ ServedInv'
<1>1. /\ transfer' = [u \in Uploads |->
                        IF /\ u \in Rows
                           /\ transfer[u].file \in F
                           /\ transfer[u].status = "completed"
                        THEN [transfer[u] EXCEPT !.status = "delivered"]
                        ELSE transfer[u]]
      /\ UNCHANGED <<chunks, served, finished, handler>>
  BY DEF Acknowledge
<1>2. ASSUME NEW v \in Rows
      PROVE  /\ transfer'[v] # NoRow
             /\ transfer'[v].file = transfer[v].file
             /\ transfer'[v].chunkSize = transfer[v].chunkSize
             /\ transfer'[v].offset = transfer[v].offset
  <2>1. transfer[v] \in Transfer /\ transfer[v] # NoRow /\ v \in Uploads
    BY RowIsTyped DEF GridInv, IInv, Rows
  <2>2. PICK row : row = [transfer[v] EXCEPT !.status = "delivered"]
    OBVIOUS
  <2>3. /\ row \in Transfer
        /\ row.file = transfer[v].file /\ row.chunkSize = transfer[v].chunkSize
        /\ row.offset = transfer[v].offset
    BY <2>1, <2>2 DEF Transfer
  <2>4. transfer'[v] = row \/ transfer'[v] = transfer[v]
    BY <1>1, <2>1, <2>2
  <2> QED BY <2>1, <2>3, <2>4, NoRowIsNone
<1>3. Rows' = Rows
  <2>1. \A v \in Uploads \ Rows : transfer'[v] = NoRow
    BY <1>1 DEF Rows
  <2> QED BY <1>2, <2>1 DEF Rows
<1> QED BY <1>1, <1>2, <1>3, StatusMovesKeepsGrid

LEMMA ExpireKeepsGrid ==
  ASSUME GridInv, NEW u \in Uploads, Expire(u)
  PROVE  CutInv' /\ ServedInv'
<1>1. PICK row : row = [transfer[u] EXCEPT !.expired = TRUE, !.reached = transfer[u].offset]
  OBVIOUS
<1>2. u \in Rows
  BY DEF Expire, Uploading
<1>3. transfer[u] \in Transfer
  BY <1>2, RowIsTyped DEF GridInv, IInv
<1>4. /\ row \in Transfer
      /\ row.file = transfer[u].file /\ row.chunkSize = transfer[u].chunkSize
      /\ row.offset = transfer[u].offset
  BY <1>1, <1>3 DEF Transfer
<1>5. row # NoRow
  BY <1>4, NoRowIsNone
<1>6. transfer' = [transfer EXCEPT ![u] = row]
  BY <1>1 DEF Expire, GridInv, IInv, TypeOK
<1>7. Rows' = Rows /\ \A v \in Rows : transfer'[v] = IF v = u THEN row ELSE transfer[v]
  BY <1>2, <1>5, <1>6 DEF GridInv, IInv, TypeOK, Rows
<1>8. UNCHANGED <<chunks, served, finished, handler>>
  BY DEF Expire
<1> QED BY <1>4, <1>7, <1>8, StatusMovesKeepsGrid

\* A chunk that is served is of the file's one session, or its file is gone
\* and nothing is found.
LEMMA DownloadServesKeepsGrid ==
  ASSUME GridInv, NEW h \in Handlers, DownloadServes(h)
  PROVE  CutInv' /\ ServedInv'
<1>1. PICK f : f = handler[h].file
  OBVIOUS
<1>2. PICK x \in ChunksOf(f) : served' = served \cup {x}
  BY <1>1 DEF DownloadServes
<1>3. f \in finished /\ x.file = f
  BY <1>1 DEF GridInv, ServedInv, DownloadServes, At, ChunksOf
<1>4. PICK n \in ChunkSizes : ServedBy(f, n)
  BY <1>3 DEF GridInv, ServedInv
<1>5. PICK u \in Rows : transfer[u].file = f
  BY DEF GridInv, IInv, TablesInv, ChunksHaveRows, ChunksOf
<1>6. transfer[u].chunkSize = n /\ transfer[u].offset = Size[f]
  BY <1>3, <1>4, <1>5 DEF ServedBy, RowOf, GridInv, IInv, TablesInv, RowInv, Complete
<1>7. x = Piece(f, x.index, n) /\ x.index * n < Size[f]
  <2>1. x \in Cut(f, n, Size[f])
    BY <1>5, <1>6 DEF GridInv, CutInv, RowCut
  <2> QED BY <2>1 DEF Cut, Marks, Piece
<1>8. UNCHANGED tables /\ handler' = [handler EXCEPT ![h] = Idle]
  BY DEF DownloadServes, End
<1>9. \A g \in Handlers : handler'[g] = IF g = h THEN Idle ELSE handler[g]
  BY <1>8, HandlerBecomes DEF GridInv
<1>10. RowsShrink /\ finished' = finished
  BY <1>8, TablesStayShrink DEF TablesStay
<1>11. CutInv'
  <2>1. SessionsStay
    BY <1>10 DEF RowsShrink, SessionsStay
  <2>2. \A g \in Handlers : handler'[g] = handler[g] \/ AppendCut(handler[g])'
    BY <1>9 DEF AppendCut, Idle
  <2> QED BY <1>10, <2>1, <2>2, HandlersCut, RowsShrinkCut DEF GridInv, CutInv
<1>12. ServedInv'
  <2>1. RowOf(f)' = RowOf(f) /\ \A v \in Rows : transfer'[v] = transfer[v]
    BY <1>8 DEF tables, RowOf, Rows
  <2>2. ServedBy(f, n)'
    BY <1>2, <1>4, <1>7, <2>1 DEF ServedBy, RowOf, Piece, LengthAt
  <2>3. \A e \in finished \ {f} : \E k \in ChunkSizes : ServedBy(e, k)'
    <3> SUFFICES ASSUME NEW e \in finished \ {f}
                 PROVE  \E k \in ChunkSizes : ServedBy(e, k)'
      OBVIOUS
    <3>1. PICK k \in ChunkSizes : ServedBy(e, k)
      BY DEF GridInv, ServedInv
    <3>2. ServedBy(e, k)'
      BY <1>2, <1>3, <1>8, <3>1 DEF tables, RowOf, Rows, ServedBy, Piece, LengthAt
    <3> QED BY <3>2
  <2>4. \A y \in served' : y.file \in finished
    BY <1>2, <1>3 DEF GridInv, ServedInv
  <2>5. \A g \in Handlers : handler'[g].op = "download" => handler'[g].file \in finished
    BY <1>9 DEF GridInv, ServedInv, Idle
  <2> QED BY <1>10, <2>2, <2>3, <2>4, <2>5 DEF ServedInv
<1> QED BY <1>11, <1>12

LEMMA GridInvInit == Init => GridInv
<1> SUFFICES ASSUME Init PROVE GridInv
  OBVIOUS
<1>1. Rows = {}
  BY DEF Init, Rows
<1>2. CutInv /\ ServedInv
  BY <1>1 DEF Init, CutInv, ServedInv, AppendCut, Idle
<1> QED BY <1>2, IInvInit DEF GridInv

LEMMA GridInvNext == GridInv /\ [Next]_vars => GridInv'
<1> SUFFICES ASSUME GridInv, [Next]_vars PROVE CutInv' /\ ServedInv'
  BY IInvNext DEF GridInv
<1>1. CASE UNCHANGED vars
  <2>1. TablesStay /\ UNCHANGED <<served, handler>>
    BY <1>1 DEF vars, TablesStay, tables
  <2> QED BY <2>1, TablesStayShrink, ShrinkKeepsGrid
<1>2. ASSUME NEW h \in Handlers, StartSome(h) PROVE CutInv' /\ ServedInv'
  <2>1. ASSUME NEW f \in Files, NEW n \in ChunkSizes, StartCreate(h, f, n)
        PROVE  CutInv' /\ ServedInv'
    <3>1. PICK q : q = [Idle EXCEPT !.op = "create", !.step = "write", !.file = f,
                                    !.chunkSize = n]
      OBVIOUS
    <3>2. Start(h, q) /\ TablesStay /\ served' = served
      BY <2>1, <3>1 DEF StartCreate, TablesStay
    <3>3. q.op = "create"
      BY <3>1 DEF Idle
    <3> QED BY <3>2, <3>3, StartOtherKeepsGrid
  <2>2. ASSUME NEW u \in Uploads, StartComplete(h, u)
        PROVE  CutInv' /\ ServedInv'
    <3>1. PICK q : q = [Idle EXCEPT !.op = "complete", !.step = "write", !.upload = u]
      OBVIOUS
    <3>2. Start(h, q) /\ TablesStay /\ served' = served
      BY <2>2, <3>1 DEF StartComplete, TablesStay
    <3>3. q.op = "complete"
      BY <3>1 DEF Idle
    <3> QED BY <3>2, <3>3, StartOtherKeepsGrid
  <2>3. ASSUME NEW u \in Uploads, StartAbort(h, u)
        PROVE  CutInv' /\ ServedInv'
    <3>1. PICK q : q = [Idle EXCEPT !.op = "abort", !.step = "write", !.upload = u]
      OBVIOUS
    <3>2. Start(h, q) /\ TablesStay /\ served' = served
      BY <2>3, <3>1 DEF StartAbort, TablesStay
    <3>3. q.op = "abort"
      BY <3>1 DEF Idle
    <3> QED BY <3>2, <3>3, StartOtherKeepsGrid
  <2>4. ASSUME NEW f \in Files, NEW i \in 0..Size[f], StartDownload(h, f, i)
        PROVE  CutInv' /\ ServedInv'
    <3>1. i \in Nat
      BY SizeIsNat
    <3> QED BY <2>4, <3>1, StartDownloadKeepsGrid
  <2> QED BY <1>2, <2>1, <2>2, <2>3, <2>4, StartAppendKeepsGrid DEF StartSome
<1>3. ASSUME NEW h \in Handlers, Continue(h) PROVE CutInv' /\ ServedInv'
  <2>1. CASE CreateFails(h) \/ CreateAnswers(h) \/ CompleteNotifies(h)
             \/ WriteMisses(h) \/ DownloadFindsNothing(h)
    <3>1. TablesStay /\ End(h) /\ served' = served
      BY <2>1 DEF CreateFails, CreateAnswers, CompleteNotifies, WriteMisses,
                  DownloadFindsNothing, TablesStay
    <3> QED BY <3>1, QuietEndKeepsGrid
  <2> QED BY <1>3, <2>1, CreateCommitsKeepsGrid, AppendCommitsKeepsGrid,
             CompleteCommitsKeepsGrid, AbortCommitsKeepsGrid,
             DownloadServesKeepsGrid DEF Continue
<1>4. ASSUME NEW h \in Handlers, Drop(h) PROVE CutInv' /\ ServedInv'
  <2>1. TablesStay /\ End(h) /\ served' = served
    BY <1>4 DEF Drop, TablesStay
  <2> QED BY <2>1, QuietEndKeepsGrid
<1> QED BY <1>1, <1>2, <1>3, <1>4, AcknowledgeKeepsGrid, DeleteChatKeepsGrid,
           ExpireKeepsGrid DEF Next

LEMMA GridInvAlways == Spec => []GridInv
BY GridInvInit, GridInvNext, PTL DEF Spec

\* What is stored of a file is its beginning up to the offset of its one
\* session, cut into full chunks and a rest: no append is stored twice or with
\* the length of another session.
THEOREM ChunksFollowOffsetAlways == Spec => []ChunksFollowOffset
<1>1. ASSUME GridInv PROVE ChunksFollowOffset
  <2> SUFFICES ASSUME NEW f \in Files, RowOf(f) # {} \/ ChunksOf(f) # {}
               PROVE  \E u \in Rows :
                        LET n == transfer[u].chunkSize
                            o == transfer[u].offset IN
                        /\ RowOf(f) = {u}
                        /\ ChunksOf(f) =
                             {[file |-> f, index |-> i, from |-> i * n,
                               length |-> IF Size[f] - i * n < n THEN Size[f] - i * n ELSE n] :
                                i \in {j \in 0..o : j * n < o}}
    BY DEF ChunksFollowOffset
  <2>1. PICK u \in Rows : transfer[u].file = f
    BY <1>1 DEF GridInv, IInv, TablesInv, ChunksHaveRows, RowOf, ChunksOf
  <2>2. RowOf(f) = {u}
    BY <1>1, <2>1 DEF GridInv, IInv, TablesInv, OneRowEach, RowOf
  <2>3. ChunksOf(f) = Cut(f, transfer[u].chunkSize, transfer[u].offset)
    BY <1>1, <2>1 DEF GridInv, CutInv, RowCut
  <2> QED BY <2>2, <2>3 DEF Cut, Marks, Piece, LengthAt
<1> QED BY <1>1, GridInvAlways, PTL

\* The chunks a recipient was handed, by whatever requests and over whatever
\* time, fit together: an upload is never replaced once it can be downloaded.
THEOREM ServedChunksFitAlways == Spec => []ServedChunksFit
<1>1. ASSUME GridInv PROVE ServedChunksFit
  <2> SUFFICES ASSUME NEW s \in served, NEW t \in served, s.file = t.file
               PROVE  /\ s.index = 0 => s.from = 0
                      /\ s.index = t.index => s = t
                      /\ t.index = s.index + 1 => t.from = s.from + s.length
    BY DEF ServedChunksFit
  <2>1. PICK f : f = s.file
    OBVIOUS
  <2>2. f \in finished /\ f \in Files
    BY <1>1, <2>1 DEF GridInv, IInv, TypeOK, ServedInv
  <2>3. PICK n \in ChunkSizes : ServedBy(f, n)
    BY <1>1, <2>2 DEF GridInv, ServedInv
  <2>4. PICK i, j : i = s.index /\ j = t.index
    OBVIOUS
  <2>5. i \in Nat /\ j \in Nat /\ n \in Nat /\ n > 0 /\ Size[f] \in Nat
    <3>1. served \subseteq Chunk
      BY <1>1 DEF GridInv, IInv, TypeOK
    <3> QED BY <2>2, <2>4, <3>1, ChunkSizesArePositive, SizeIsNat DEF Chunk
  <2>6. s = Piece(f, i, n) /\ t = Piece(f, j, n) /\ j * n < Size[f]
    BY <2>1, <2>3, <2>4 DEF ServedBy
  <2>7. /\ s.from = i * n /\ s.length = LengthAt(f, i * n, n)
        /\ t.from = j * n
    BY <2>6 DEF Piece
  <2>8. i = 0 => i * n = 0
    BY <2>5
  <2>9. i = j => s = t
    BY <2>6
  <2>10. j = i + 1 => j * n = i * n + LengthAt(f, i * n, n)
    <3> SUFFICES ASSUME j = i + 1 PROVE j * n = i * n + LengthAt(f, i * n, n)
      OBVIOUS
    <3>1. j * n = i * n + n /\ i * n \in Nat
      BY <2>5, NextMultiple
    <3>2. PICK a : a = i * n
      OBVIOUS
    <3>3. LengthAt(f, a, n) = n
      BY <2>5, <2>6, <3>1, <3>2 DEF LengthAt
    <3> QED BY <3>1, <3>2, <3>3
  <2> QED BY <2>4, <2>7, <2>8, <2>9, <2>10
<1> QED BY <1>1, GridInvAlways, PTL

----------------------------------------------------------------------------
(* What is still done to an expired session *)

\* A session that is still uploading does not forget that it expired.
ExpiryRow(u) ==
  LET t == transfer[u] IN
  t.reached # -1 =>
    /\ t.offset <= t.reached + t.chunkSize
    /\ IF t.status = "uploading" THEN t.expired ELSE t.reached = Size[t.file]

\* A request that was let in before the session expired is for a chunk that
\* began no later, or for an upload that was whole.
ExpiryRequest(q) ==
  q.upload \in Rows /\ q.step = "write" =>
    LET t == transfer[q.upload] IN
    /\ q.op = "append" =>
         /\ q.number <= t.offset /\ q.length <= t.chunkSize
         /\ t.reached # -1 => q.number <= t.reached
    /\ q.op = "complete" =>
         /\ t.offset = Size[t.file]
         /\ t.reached # -1 => t.reached = Size[t.file]

ExpiryInv ==
  /\ \A u \in Rows : ExpiryRow(u)
  /\ \A h \in Handlers : ExpiryRequest(handler[h])

\* No session goes back, or is of another file, and it expires where it is.
RowsGoOn ==
  \A u \in Rows' : u \in drawn =>
    /\ u \in Rows
    /\ transfer'[u].file = transfer[u].file
    /\ transfer'[u].chunkSize = transfer[u].chunkSize
    /\ transfer[u].offset <= transfer'[u].offset
    /\ transfer'[u].reached \in {transfer[u].reached, transfer'[u].offset}

\* The sessions that are left are as they were.
RowsRemain == Rows' \subseteq Rows /\ \A u \in Rows' : transfer'[u] = transfer[u]

LEMMA RowsRemainGoOn ==
  ASSUME IInv, ExpiryInv, RowsRemain
  PROVE  RowsGoOn /\ \A u \in Rows' : ExpiryRow(u)'
<1>1. \A u \in Rows : transfer[u].offset \in Nat
  BY RowIsTyped DEF IInv
<1>2. RowsGoOn
  BY <1>1 DEF RowsRemain, RowsGoOn
<1> QED BY <1>2 DEF RowsRemain, ExpiryInv, ExpiryRow

LEMMA RequestGoesOn ==
  ASSUME IInv, IInv', RowsGoOn, NEW q \in Handler, HandlerInv(q), ExpiryRequest(q)
  PROVE  ExpiryRequest(q)'
<1> SUFFICES ASSUME q.upload \in Rows', q.step = "write", q.op \in {"append", "complete"}
             PROVE  LET t == transfer'[q.upload] IN
                    /\ q.op = "append" =>
                         /\ q.number <= t.offset /\ q.length <= t.chunkSize
                         /\ t.reached # -1 => q.number <= t.reached
                    /\ q.op = "complete" =>
                         /\ t.offset = Size[t.file]
                         /\ t.reached # -1 => t.reached = Size[t.file]
  BY DEF ExpiryRequest
<1> PICK u : u = q.upload
  OBVIOUS
<1>1. u \in drawn /\ q.number \in Nat
  BY DEF HandlerInv, Handler
<1>2. /\ u \in Rows
      /\ transfer'[u].file = transfer[u].file
      /\ transfer'[u].chunkSize = transfer[u].chunkSize
      /\ transfer[u].offset <= transfer'[u].offset
      /\ transfer'[u].reached \in {transfer[u].reached, transfer'[u].offset}
  BY <1>1 DEF RowsGoOn
<1>3. transfer[u].offset \in Nat /\ Size[transfer[u].file] \in Nat
  BY <1>2, RowIsTyped DEF IInv
<1>4. transfer'[u].offset \in Nat /\ transfer'[u].offset <= Size[transfer'[u].file]
  <2>1. transfer'[u].offset \in Nat
    BY DEF IInv, TypeOK, Rows, Transfer
  <2>2. RowInv(u)'
    BY DEF IInv, TablesInv
  <2> QED BY <2>1, <2>2 DEF RowInv
<1>5. CASE q.op = "append"
  <2>1. /\ q.number <= transfer[u].offset /\ q.length <= transfer[u].chunkSize
        /\ transfer[u].reached # -1 => q.number <= transfer[u].reached
    BY <1>2, <1>5 DEF ExpiryRequest
  <2> QED BY <1>1, <1>2, <1>3, <1>4, <1>5, <2>1
<1>6. CASE q.op = "complete"
  <2>1. /\ transfer[u].offset = Size[transfer[u].file]
        /\ transfer[u].reached # -1 => transfer[u].reached = Size[transfer[u].file]
    BY <1>2, <1>6 DEF ExpiryRequest
  <2> QED BY <1>2, <1>3, <1>4, <1>6, <2>1
<1> QED BY <1>5, <1>6

\* A handler that changed is not about to write to a session any more, or has
\* just been let in.
LEMMA HandlersGoOn ==
  ASSUME IInv, IInv', ExpiryInv, RowsGoOn,
         \A h \in Handlers :
           \/ handler'[h] = handler[h]
           \/ handler'[h].op \notin {"append", "complete"}
           \/ handler'[h].step # "write"
           \/ ExpiryRequest(handler[h])'
  PROVE  \A h \in Handlers : ExpiryRequest(handler[h])'
<1> SUFFICES ASSUME NEW h \in Handlers PROVE ExpiryRequest(handler[h])'
  OBVIOUS
<1>1. CASE handler'[h] = handler[h]
  <2> PICK q : q = handler[h]
    OBVIOUS
  <2>1. q \in Handler /\ HandlerInv(q) /\ ExpiryRequest(q)
    BY DEF IInv, TypeOK, HandlersInv, ExpiryInv
  <2>2. ExpiryRequest(q)'
    BY <2>1, RequestGoesOn
  <2> QED BY <1>1, <2>2 DEF ExpiryRequest
<1>2. CASE handler'[h].op \notin {"append", "complete"} \/ handler'[h].step # "write"
  BY <1>2 DEF ExpiryRequest
<1> QED BY <1>1, <1>2

\* Steps that at most take sessions away.
LEMMA RemainKeepsExpiry ==
  ASSUME IInv, IInv', ExpiryInv, RowsRemain,
         \A h \in Handlers :
           \/ handler'[h] = handler[h]
           \/ handler'[h].op \notin {"append", "complete"}
           \/ handler'[h].step # "write"
           \/ ExpiryRequest(handler[h])'
  PROVE  ExpiryInv'
BY RowsRemainGoOn, HandlersGoOn DEF ExpiryInv

LEMMA TablesStayRemain == TablesStay => RowsRemain
BY DEF TablesStay, tables, RowsRemain, Rows

LEMMA QuietEndKeepsExpiry ==
  ASSUME IInv, IInv', ExpiryInv, NEW h \in Handlers, RowsRemain, End(h)
  PROVE  ExpiryInv'
<1>1. \A g \in Handlers : handler'[g] = IF g = h THEN Idle ELSE handler[g]
  BY HandlerBecomes DEF End
<1> QED BY <1>1, RemainKeepsExpiry DEF Idle

\* Whoever is let in found the session not expired.
LEMMA StartKeepsExpiry ==
  ASSUME IInv, IInv', ExpiryInv, NEW h \in Handlers, StartSome(h)
  PROVE  ExpiryInv'
<1>1. TablesStay
  BY DEF StartSome, StartCreate, StartComplete, StartAbort, StartAppend,
         StartDownload, TablesStay
<1>2. \A q : Start(h, q) => \A g \in Handlers : handler'[g] = IF g = h THEN q ELSE handler[g]
  BY HandlerBecomes DEF Start
<1>3. ASSUME NEW q, Start(h, q), q.op \notin {"append", "complete"} \/ ExpiryRequest(q)
      PROVE  ExpiryInv'
  <2>1. \A g \in Handlers : handler'[g] = IF g = h THEN q ELSE handler[g]
    BY <1>2, <1>3
  <2>2. ExpiryRequest(q) => ExpiryRequest(handler[h])'
    BY <1>1, <2>1 DEF ExpiryRequest, TablesStay, tables, Rows
  <2> QED BY <1>1, <1>3, <2>1, <2>2, TablesStayRemain, RemainKeepsExpiry
<1>4. ASSUME NEW f \in Files, NEW n \in ChunkSizes, StartCreate(h, f, n)
      PROVE  ExpiryInv'
  <2>1. PICK q : q = [Idle EXCEPT !.op = "create", !.step = "write", !.file = f,
                                  !.chunkSize = n]
    OBVIOUS
  <2> QED BY <1>3, <1>4, <2>1 DEF StartCreate, Idle
<1>5. ASSUME NEW u \in Uploads, StartAbort(h, u)
      PROVE  ExpiryInv'
  <2>1. PICK q : q = [Idle EXCEPT !.op = "abort", !.step = "write", !.upload = u]
    OBVIOUS
  <2> QED BY <1>3, <1>5, <2>1 DEF StartAbort, Idle
<1>6. ASSUME NEW f \in Files, NEW i \in 0..Size[f], StartDownload(h, f, i)
      PROVE  ExpiryInv'
  <2>1. PICK q : q = [Idle EXCEPT !.op = "download", !.step = "write", !.file = f,
                                  !.number = i]
    OBVIOUS
  <2> QED BY <1>3, <1>6, <2>1 DEF StartDownload, Idle
<1>7. ASSUME NEW u, Resumable(u) PROVE transfer[u].reached = -1
  <2>1. u \in Rows /\ ExpiryRow(u) /\ transfer[u].status = "uploading" /\ ~transfer[u].expired
    BY <1>7 DEF Resumable, Uploading, ExpiryInv
  <2> QED BY <2>1 DEF ExpiryRow
<1>8. ASSUME NEW u \in Uploads, StartComplete(h, u)
      PROVE  ExpiryInv'
  <2>1. PICK q : q = [Idle EXCEPT !.op = "complete", !.step = "write", !.upload = u]
    OBVIOUS
  <2>2. Start(h, q) /\ q.op = "complete" /\ q.upload = u
    BY <1>8, <2>1 DEF StartComplete, Idle
  <2>3. transfer[u].offset = Size[transfer[u].file] /\ transfer[u].reached = -1
    BY <1>7, <1>8 DEF StartComplete, Complete
  <2>4. ExpiryRequest(q)
    BY <2>2, <2>3 DEF ExpiryRequest
  <2> QED BY <1>3, <2>2, <2>4
<1>9. ASSUME NEW u \in Rows, NEW n \in 1..Size[transfer[u].file], StartAppend(h, u, n)
      PROVE  ExpiryInv'
  <2>1. PICK q : q = [Idle EXCEPT !.op = "append", !.step = "write", !.upload = u,
                                  !.number = transfer[u].offset, !.length = n]
    OBVIOUS
  <2>2. /\ Start(h, q) /\ q.op = "append" /\ q.upload = u
        /\ q.number = transfer[u].offset /\ q.length = n
    BY <1>9, <2>1 DEF StartAppend, Idle
  <2>3. transfer[u].reached = -1
    BY <1>7, <1>9 DEF StartAppend
  <2>4. /\ transfer[u].offset \in Nat /\ transfer[u].chunkSize \in Nat
        /\ Size[transfer[u].file] \in Nat
    BY RowIsTyped, ChunkSizesArePositive DEF IInv
  <2>5. n <= transfer[u].chunkSize
    BY <1>9, <2>4 DEF StartAppend, AcceptsLength
  <2>6. ExpiryRequest(q)
    BY <2>2, <2>3, <2>4, <2>5 DEF ExpiryRequest
  <2> QED BY <1>3, <2>2, <2>6
<1> QED BY <1>4, <1>5, <1>6, <1>8, <1>9 DEF StartSome

\* A new session has not expired, and its upload id is nobody's.
LEMMA CreateCommitsKeepsExpiry ==
  ASSUME IInv, IInv', ExpiryInv, NEW h \in Handlers, NEW u \in Uploads, CreateCommits(h, u)
  PROVE  ExpiryInv'
<1>1. PICK row : row = [file |-> handler[h].file, chunkSize |-> handler[h].chunkSize,
                        offset |-> 0, status |-> "uploading", expired |-> FALSE,
                        reached |-> -1]
  OBVIOUS
<1>2. transfer' = [transfer EXCEPT ![u] = row] /\ u \notin drawn
  BY <1>1 DEF CreateCommits
<1>3. transfer'[u].reached = -1 /\ \A v \in Uploads \ {u} : transfer'[v] = transfer[v]
  BY <1>1, <1>2 DEF IInv, TypeOK
<1>4. Rows' \subseteq Rows \cup {u} /\ \A v \in Rows : v # u
  BY <1>2, <1>3 DEF Rows, IInv, TypeOK
<1>5. RowsGoOn
  <2>1. \A v \in Rows : transfer[v].offset \in Nat
    BY RowIsTyped DEF IInv
  <2> QED BY <1>2, <1>3, <1>4, <2>1 DEF RowsGoOn, Rows
<1>6. \A v \in Rows' : ExpiryRow(v)'
  <2>1. ExpiryRow(u)'
    BY <1>3 DEF ExpiryRow
  <2>2. \A v \in Rows : ExpiryRow(v)'
    BY <1>3, <1>4 DEF ExpiryInv, ExpiryRow, Rows
  <2> QED BY <1>4, <2>1, <2>2
<1>7. \A g \in Handlers : handler'[g] = handler[g] \/ handler'[g].step # "write"
  BY DEF CreateCommits, IInv, TypeOK, Handler
<1> QED BY <1>5, <1>6, <1>7, HandlersGoOn DEF ExpiryInv

\* One chunk that began no later than the expiry is stored after it; the offset
\* is then beyond, and the next one misses.
LEMMA AppendCommitsKeepsExpiry ==
  ASSUME IInv, IInv', ExpiryInv, NEW h \in Handlers, AppendCommits(h)
  PROVE  ExpiryInv'
<1> PICK u, o, n : u = handler[h].upload /\ o = handler[h].number /\ n = handler[h].length
  OBVIOUS
<1>1. /\ u \in Rows /\ transfer[u].status = "uploading" /\ transfer[u].offset = o
      /\ handler[h].op = "append" /\ handler[h].step = "write"
      /\ transfer' = [transfer EXCEPT ![u].offset = o + n]
  BY DEF AppendCommits, AppendMatches, Uploading, At
<1>2. /\ transfer[u] \in Transfer /\ u \in Uploads /\ o \in Nat /\ n \in Nat
      /\ transfer[u].chunkSize \in Nat
  BY <1>1, RowIsTyped, ChunkSizesArePositive DEF IInv, TypeOK, Handler
<1>3. /\ n <= transfer[u].chunkSize
      /\ transfer[u].reached # -1 => o <= transfer[u].reached
  BY <1>1 DEF ExpiryInv, ExpiryRequest
<1>4. PICK row : row = [transfer[u] EXCEPT !.offset = o + n]
  OBVIOUS
<1>5. /\ row.file = transfer[u].file /\ row.chunkSize = transfer[u].chunkSize
      /\ row.status = "uploading" /\ row.expired = transfer[u].expired
      /\ row.reached = transfer[u].reached /\ row.offset = o + n
  BY <1>1, <1>2, <1>4 DEF Transfer
<1>6. transfer'[u] = row /\ \A v \in Uploads \ {u} : transfer'[v] = transfer[v]
  BY <1>1, <1>2, <1>4 DEF IInv, TypeOK
<1>7. Rows' \subseteq Rows
  BY <1>1, <1>6 DEF Rows
<1>8. RowsGoOn
  <2>1. \A v \in Rows : transfer[v].offset \in Nat
    BY RowIsTyped DEF IInv
  <2> QED BY <1>1, <1>2, <1>5, <1>6, <1>7, <2>1 DEF RowsGoOn, Rows
<1>9. ExpiryRow(u)'
  <2> SUFFICES ASSUME row.reached # -1
               PROVE  row.offset <= row.reached + row.chunkSize /\ row.expired
    BY <1>5, <1>6 DEF ExpiryRow
  <2>1. transfer[u].reached \in Nat /\ o <= transfer[u].reached
    BY <1>2, <1>3, <1>5 DEF Transfer
  <2>2. transfer[u].expired
    BY <1>1, <1>5 DEF ExpiryInv, ExpiryRow
  <2> QED BY <1>2, <1>3, <1>5, <2>1, <2>2
<1>10. \A v \in Rows' \ {u} : ExpiryRow(v)'
  BY <1>6, <1>7 DEF ExpiryInv, ExpiryRow, Rows
<1>11. \A g \in Handlers : handler'[g] = handler[g] \/ handler'[g].op = "none"
  <2>1. handler' = [handler EXCEPT ![h] = Idle]
    BY DEF AppendCommits, End
  <2> QED BY <2>1, HandlerBecomes DEF Idle
<1> QED BY <1>8, <1>9, <1>10, <1>11, HandlersGoOn DEF ExpiryInv

\* An upload is completed after its session expired only if it was whole then.
LEMMA CompleteCommitsKeepsExpiry ==
  ASSUME IInv, IInv', ExpiryInv, NEW h \in Handlers, CompleteCommits(h)
  PROVE  ExpiryInv'
<1> PICK u : u = handler[h].upload
  OBVIOUS
<1>1. /\ u \in Rows /\ transfer[u].status = "uploading"
      /\ handler[h].op = "complete" /\ handler[h].step = "write"
      /\ transfer' = [transfer EXCEPT ![u].status = "completed", ![u].expired = FALSE]
  BY DEF CompleteCommits, CompleteMatches, Uploading, At
<1>2. transfer[u] \in Transfer /\ u \in Uploads /\ transfer[u].offset \in Nat
  BY <1>1, RowIsTyped DEF IInv
<1>3. transfer[u].reached # -1 => transfer[u].reached = Size[transfer[u].file]
  BY <1>1 DEF ExpiryInv, ExpiryRequest
<1>4. PICK row : row = [transfer[u] EXCEPT !.status = "completed", !.expired = FALSE]
  OBVIOUS
<1>5. /\ row.file = transfer[u].file /\ row.chunkSize = transfer[u].chunkSize
      /\ row.status = "completed" /\ row.offset = transfer[u].offset
      /\ row.reached = transfer[u].reached
  BY <1>2, <1>4 DEF Transfer
<1>6. transfer'[u] = row /\ \A v \in Uploads \ {u} : transfer'[v] = transfer[v]
  BY <1>1, <1>2, <1>4 DEF IInv, TypeOK
<1>7. Rows' \subseteq Rows
  BY <1>1, <1>6 DEF Rows
<1>8. RowsGoOn
  <2>1. ASSUME NEW v \in Rows
        PROVE  /\ transfer'[v].file = transfer[v].file
               /\ transfer'[v].chunkSize = transfer[v].chunkSize
               /\ transfer'[v].offset = transfer[v].offset
               /\ transfer'[v].reached = transfer[v].reached
    BY <1>5, <1>6 DEF Rows
  <2>2. \A v \in Rows : transfer[v].offset \in Nat
    BY RowIsTyped DEF IInv
  <2> QED BY <1>7, <2>1, <2>2 DEF RowsGoOn
<1>9. ExpiryRow(u)'
  <2>1. transfer[u].reached # -1 => transfer[u].offset <= transfer[u].reached + transfer[u].chunkSize
    BY <1>1 DEF ExpiryInv, ExpiryRow
  <2> QED BY <1>3, <1>5, <1>6, <2>1 DEF ExpiryRow
<1>10. \A v \in Rows' \ {u} : ExpiryRow(v)'
  BY <1>6, <1>7 DEF ExpiryInv, ExpiryRow, Rows
<1>11. \A g \in Handlers : handler'[g] = handler[g] \/ handler'[g].step # "write"
  BY DEF CompleteCommits, IInv, TypeOK, Handler
<1> QED BY <1>8, <1>9, <1>10, <1>11, HandlersGoOn DEF ExpiryInv

LEMMA DeleteRowsRemain ==
  ASSUME NEW U, DeleteRows(U)
  PROVE  RowsRemain
BY DEF DeleteRows, RowsRemain, Rows

LEMMA AcknowledgeKeepsExpiry ==
  ASSUME IInv, IInv', ExpiryInv, NEW F, Acknowledge(F)
  PROVE  ExpiryInv'
<1>1. /\ transfer' = [u \in Uploads |->
                        IF /\ u \in Rows
                           /\ transfer[u].file \in F
                           /\ transfer[u].status = "completed"
                        THEN [transfer[u] EXCEPT !.status = "delivered"]
                        ELSE transfer[u]]
      /\ handler' = handler
  BY DEF Acknowledge
<1>2. Rows' \subseteq Rows
  BY <1>1 DEF Rows
<1>3. ASSUME NEW v \in Rows
      PROVE  /\ transfer'[v].file = transfer[v].file
             /\ transfer'[v].chunkSize = transfer[v].chunkSize
             /\ transfer'[v].offset = transfer[v].offset
             /\ transfer'[v].reached = transfer[v].reached
             /\ transfer'[v].expired = transfer[v].expired
             /\ transfer'[v].status = "uploading" <=> transfer[v].status = "uploading"
  <2>1. transfer[v] \in Transfer /\ v \in Uploads
    BY RowIsTyped DEF IInv
  <2>2. PICK row : row = [transfer[v] EXCEPT !.status = "delivered"]
    OBVIOUS
  <2>3. /\ row.file = transfer[v].file /\ row.chunkSize = transfer[v].chunkSize
        /\ row.offset = transfer[v].offset /\ row.reached = transfer[v].reached
        /\ row.expired = transfer[v].expired /\ row.status = "delivered"
    BY <2>1, <2>2 DEF Transfer
  <2>4. \/ transfer'[v] = row /\ transfer[v].status = "completed"
        \/ transfer'[v] = transfer[v]
    BY <1>1, <2>1, <2>2
  <2> QED BY <2>3, <2>4
<1>4. RowsGoOn
  <2>1. \A v \in Rows : transfer[v].offset \in Nat
    BY RowIsTyped DEF IInv
  <2>2. ASSUME NEW v \in Rows'
        PROVE  /\ v \in Rows /\ transfer[v].offset \in Nat
               /\ transfer'[v].offset = transfer[v].offset
               /\ transfer'[v].reached = transfer[v].reached
               /\ transfer'[v].file = transfer[v].file
               /\ transfer'[v].chunkSize = transfer[v].chunkSize
    BY <1>2, <1>3, <2>1
  <2> QED BY <2>2 DEF RowsGoOn
<1>5. \A v \in Rows' : ExpiryRow(v)'
  BY <1>2, <1>3 DEF ExpiryInv, ExpiryRow
<1> QED BY <1>1, <1>4, <1>5, HandlersGoOn DEF ExpiryInv

LEMMA ExpireKeepsExpiry ==
  ASSUME IInv, IInv', ExpiryInv, NEW u \in Uploads, Expire(u)
  PROVE  ExpiryInv'
<1>1. /\ u \in Rows /\ transfer[u].status = "uploading" /\ handler' = handler
      /\ transfer' = [transfer EXCEPT ![u].expired = TRUE, ![u].reached = transfer[u].offset]
  BY DEF Expire, Uploading
<1>2. /\ transfer[u] \in Transfer /\ transfer[u].offset \in Nat
      /\ transfer[u].chunkSize \in Nat
  BY <1>1, RowIsTyped, ChunkSizesArePositive DEF IInv
<1>3. PICK row : row = [transfer[u] EXCEPT !.expired = TRUE, !.reached = transfer[u].offset]
  OBVIOUS
<1>4. /\ row.file = transfer[u].file /\ row.chunkSize = transfer[u].chunkSize
      /\ row.status = "uploading" /\ row.offset = transfer[u].offset
      /\ row.expired /\ row.reached = transfer[u].offset
  BY <1>1, <1>2, <1>3 DEF Transfer
<1>5. transfer'[u] = row /\ \A v \in Uploads \ {u} : transfer'[v] = transfer[v]
  BY <1>1, <1>2, <1>3 DEF IInv, TypeOK
<1>6. Rows' \subseteq Rows
  BY <1>1, <1>5 DEF Rows
<1>7. RowsGoOn
  <2>1. ASSUME NEW v \in Rows
        PROVE  /\ transfer'[v].file = transfer[v].file
               /\ transfer'[v].chunkSize = transfer[v].chunkSize
               /\ transfer'[v].offset = transfer[v].offset
               /\ transfer'[v].reached \in {transfer[v].reached, transfer[v].offset}
    BY <1>4, <1>5 DEF Rows
  <2>2. \A v \in Rows : transfer[v].offset \in Nat
    BY RowIsTyped DEF IInv
  <2> QED BY <1>6, <2>1, <2>2 DEF RowsGoOn
<1>8. ExpiryRow(u)'
  BY <1>2, <1>4, <1>5 DEF ExpiryRow
<1>9. \A v \in Rows' \ {u} : ExpiryRow(v)'
  BY <1>5, <1>6 DEF ExpiryInv, ExpiryRow, Rows
<1> QED BY <1>1, <1>7, <1>8, <1>9, HandlersGoOn DEF ExpiryInv

LEMMA ExpiryInvNext == IInv /\ IInv' /\ ExpiryInv /\ [Next]_vars => ExpiryInv'
<1> SUFFICES ASSUME IInv, IInv', ExpiryInv, [Next]_vars PROVE ExpiryInv'
  OBVIOUS
<1>1. CASE UNCHANGED vars
  <2>1. TablesStay /\ handler' = handler
    BY <1>1 DEF vars, TablesStay, tables
  <2> QED BY <2>1, TablesStayRemain, RemainKeepsExpiry
<1>2. ASSUME NEW h \in Handlers, Continue(h) PROVE ExpiryInv'
  <2>1. CASE \/ CreateFails(h) \/ CreateAnswers(h) \/ CompleteNotifies(h)
             \/ WriteMisses(h) \/ DownloadServes(h) \/ DownloadFindsNothing(h)
    <3>1. TablesStay /\ End(h)
      BY <2>1 DEF CreateFails, CreateAnswers, CompleteNotifies, WriteMisses,
                  DownloadServes, DownloadFindsNothing, TablesStay
    <3> QED BY <3>1, TablesStayRemain, QuietEndKeepsExpiry
  <2>2. CASE AbortCommits(h)
    BY <2>2, DeleteRowsRemain, QuietEndKeepsExpiry DEF AbortCommits
  <2> QED BY <1>2, <2>1, <2>2, CreateCommitsKeepsExpiry, AppendCommitsKeepsExpiry,
             CompleteCommitsKeepsExpiry DEF Continue
<1>3. ASSUME NEW h \in Handlers, Drop(h) PROVE ExpiryInv'
  BY <1>3, TablesStayRemain, QuietEndKeepsExpiry DEF Drop, TablesStay
<1>4. ASSUME NEW c \in Chats, DeleteChat(c) PROVE ExpiryInv'
  <2>1. RowsRemain /\ handler' = handler
    BY <1>4, DeleteRowsRemain DEF DeleteChat
  <2> QED BY <2>1, RemainKeepsExpiry
<1> QED BY <1>1, <1>2, <1>3, <1>4, StartKeepsExpiry, AcknowledgeKeepsExpiry,
           ExpireKeepsExpiry DEF Next

\* Requests that were let in before a session expired store one more chunk at
\* most, and complete the upload only if it was whole: the guarded writes,
\* which do not look at the expiry, let no second one pass.
THEOREM ExpiredGoesNoFurtherAlways == Spec => []ExpiredGoesNoFurther
<1>1. Init => ExpiryInv
  <2> SUFFICES ASSUME Init PROVE ExpiryInv
    OBVIOUS
  <2>1. Rows = {}
    BY DEF Init, Rows
  <2> QED BY <2>1 DEF Init, ExpiryInv, ExpiryRequest, Idle
<1>2. ExpiryInv => ExpiredGoesNoFurther
  BY DEF ExpiryInv, ExpiryRow, ExpiredGoesNoFurther
<1> QED BY <1>1, <1>2, ExpiryInvNext, IInvAlways, PTL DEF Spec
=============================================================================
