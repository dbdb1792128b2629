----------------------------- MODULE ChunkStore -----------------------------
(***************************************************************************)
(* The chunk table of the knowledge base and what one statement does to    *)
(* it: PostgresChunkStore, and the filters of the cleanup strategies.      *)
(*                                                                         *)
(* A chunk id is a digest of its source and an index, so the id says which *)
(* page the chunk is of and whether it came from the page or from one of   *)
(* its attachments.  The id alone is the key of the table: a row belongs   *)
(* to the collection that wrote it last.                                   *)
(***************************************************************************)
EXTENDS Integers, FiniteSets

CONSTANTS Page,        \* pages of the wiki, one request each
          Chunk,       \* chunk ids
          PageOf,      \* the page a chunk belongs to (metadata page_id)
          Attached,    \* chunks whose source_id is an attachment's
          Content,     \* content hashes
          Collection,
          NoRow

\* A row of the table.
Row == [coll : Collection, hash : Content, stamp : Nat]

ASSUME ChunkAssumption ==
  /\ PageOf \in [Chunk -> Page]
  /\ Attached \subseteq Chunk
  /\ NoRow \notin Row

\* metadata->>'updated_at' of a row whose metadata has no such key
Null == 0

\* Rows of a collection, the only ones its statements see.
InScope(rows, k, c) == rows[c] # NoRow /\ rows[c].coll = k

\* diff_by_hash: the texts whose row is absent or has another hash.
DiffByHash(rows, k, batch) ==
  {x \in batch : InScope(rows, k, x.id) => rows[x.id].hash # x.hash}

\* upsert: the row is replaced as a whole, its metadata with it.
Upsert(rows, k, batch) ==
  [c \in Chunk |-> IF \E x \in batch : x.id = c
                     THEN [coll |-> k, stamp |-> Null,
                           hash |-> (CHOOSE x \in batch : x.id = c).hash]
                     ELSE rows[c]]

\* update_metadata with the heartbeat patch.
Heartbeat(rows, k, ids, time) ==
  [c \in Chunk |-> IF c \in ids /\ InScope(rows, k, c)
                     THEN [rows[c] EXCEPT !.stamp = time]
                     ELSE rows[c]]

Delete(rows, k, ids) ==
  [c \in Chunk |-> IF c \in ids /\ InScope(rows, k, c) THEN NoRow ELSE rows[c]]

\* Lt("updated_at", time): the field is read from the metadata and NULL is
\* less than nothing.
Older(row, time) == row.stamp # Null /\ row.stamp < time

\* Which rows of its collection a strategy picks, by the pages it touched.
InStrategy(strategy, touched, c) ==
  \/ strategy = "full"
  \/ strategy = "incremental" /\ PageOf[c] \in touched /\ c \notin Attached
  \/ strategy = "page" /\ PageOf[c] \in touched

\* Mutation: the comparison includes the run's own heartbeats.
FindStaleInclusive(rows, k, strategy, touched, time) ==
  {c \in Chunk : /\ InScope(rows, k, c) /\ InStrategy(strategy, touched, c)
                 /\ rows[c].stamp # Null /\ rows[c].stamp <= time}

\* Mutation: the strategies forget to ask which pages were touched.
FindStaleAnywhere(rows, k, strategy, touched, time) ==
  {c \in Chunk : /\ InScope(rows, k, c) /\ strategy # "none"
                 /\ Older(rows[c], time)}

FindStale(rows, k, strategy, touched, time) ==
  {c \in Chunk : /\ InScope(rows, k, c) /\ InStrategy(strategy, touched, c)
                 /\ Older(rows[c], time)}
=============================================================================
