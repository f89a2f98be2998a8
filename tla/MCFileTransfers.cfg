\* A file that is sent in three chunks or two, and an empty one; three uploads
\* between them, so that they can be aborted and begun again; two overlapping
\* requests.
CONSTANTS
  f1 = f1
  f2 = f2
  c1 = c1
  Files = {f1, f2}
  Size <- MCSize
  Target <- MCTarget
  ChunkSizes = {1, 2}
  Uploads = {p1, p2, p3}
  Chats = {c1}
  NoChat = NoChat
  NoRow = NoRow
  Handlers = {h1, h2}
SPECIFICATION Spec
SYMMETRY Symmetry
CHECK_DEADLOCK FALSE
INVARIANTS TypeOK ChunksFollowOffset AnnouncedIsOffered ServedChunksFit ExpiredGoesNoFurther
PROPERTIES AnnouncedOnce ImplementsDelivery
