---------------------------- MODULE IngestProofs ----------------------------
(***************************************************************************)
(* What an ingest run has reported is in the table, and its cleanup spares *)
(* what it did not get: machine-checked for any pages, texts, workers,     *)
(* batches and strategies, with failures anywhere.  And of the feed: the   *)
(* cleanup spares what was in the space all along, for any pages,          *)
(* attachments, tasks and answers, however the wiki changes meanwhile.     *)
(* And of the documents: the readers cut any page at its headings, and the *)
(* chunker keeps the whole text of any sections, of any size and overlap.  *)
(***************************************************************************)
EXTENDS Knowledge, TLAPS, FiniteSetTheorems, SequenceTheorems, WellFoundedInduction

Text == Seq(Passage)
TaskState == {"none"} \cup Busy \cup Ended
Task == [st : TaskState, text : Text, at : Nat, dirty : SUBSET Passage, upserted : Nat]
Table == [Chunk -> Row \cup {NoRow}]
RunRecord ==
  [phase : Running \cup {"idle", "finished", "aborted"}, start : Nat, coll : Collection,
   cleanup : Strategy, force : BOOLEAN, pages : SUBSET Page]
EventKind == {"none", "indexed", "skipped", "failed"}

IndexTyped ==
  /\ DOMAIN origin = Page /\ \A p \in Page : origin[p] \in Versions[p]
  /\ rows \in Table /\ run \in RunRecord /\ feed \subseteq Page
  /\ task \in [Page -> Task] /\ report \in [Page -> EventKind] /\ doomed \subseteq Chunk

-----------------------------------------------------------------------------
(* The tasks                                                               *)

\* A task has a text some page had, or none.
TextIsRead == \A p \in Page : task[p].text = <<>> \/ task[p].text \in Versions[p]

Stored(x) == InScope(rows, run.coll, x.id) /\ rows[x.id].hash = x.hash
\* A passage no cleanup of this run takes.
Lasts(x) == Stored(x) /\ ~Older(rows[x.id], run.start)

\* What the batches before this one left in the table.
Progress(p) ==
  /\ task[p].at <= Len(task[p].text)
  /\ \A i \in 1..task[p].at : Lasts(task[p].text[i])
  /\ task[p].st = "fetching" => task[p].at = 0 /\ task[p].text = <<>>
  /\ task[p].st \in {"diffing", "upserting", "touching"} => task[p].at < Len(task[p].text)
  /\ task[p].st \in {"indexed", "skipped"} => task[p].at = Len(task[p].text)

\* The batch the task is at.
BatchSplit(p) ==
  /\ task[p].st \in {"upserting", "touching"} =>
       /\ task[p].dirty \subseteq Batch(task[p])
       /\ \A x \in Batch(task[p]) \ task[p].dirty : Stored(x)
  /\ task[p].st = "touching" => \A x \in task[p].dirty : Lasts(x)

\* A page is waited for, worked at or reported, and keeps its text then.
PageOnce(p) ==
  /\ p \in feed => task[p].st = "none" /\ report[p] = "none"
  /\ task[p].st # "none" => report[p] = "none"
  /\ report[p] \in {"indexed", "skipped"} => task[p].at = Len(task[p].text)

TasksInv ==
  TextIsRead /\ \A p \in Page : Progress(p) /\ BatchSplit(p) /\ PageOnce(p)

-----------------------------------------------------------------------------
(* The cleanup                                                             *)

\* No page of the listing is forgotten, and the cleanup waits for all tasks.
AllHeard ==
  /\ run.phase = "feeding" =>
       \A p \in run.pages : p \in feed \/ task[p].st # "none" \/ report[p] # "none"
  /\ run.phase = "cleaning" =>
       /\ \A p \in run.pages : report[p] # "none"
       /\ \A p \in Page : task[p].st = "none"

\* The rows to go are those the strategy may take and no task has kept.
DoomedAreStale ==
  run.phase = "cleaning" =>
    \A c \in doomed :
      /\ InStrategy(run.cleanup, Touched, c)
      /\ \A p \in Page : \A i \in 1..task[p].at : task[p].text[i].id # c

IndexInv == IndexTyped /\ TasksInv /\ AllHeard /\ DoomedAreStale

-----------------------------------------------------------------------------
(* The batches of a text                                                   *)

LEMMA LesserOf ==
  ASSUME NEW a \in Nat, NEW b \in Nat
  PROVE  Min({a, b}) = IF a <= b THEN a ELSE b
  BY DEF Min

\* A batch ends within the text, and is not empty before its end.
LEMMA BatchBounds ==
  ASSUME NEW t \in Task, t.at <= Len(t.text)
  PROVE  /\ BatchEnd(t) \in Nat /\ t.at <= BatchEnd(t) /\ BatchEnd(t) <= Len(t.text)
         /\ t.at < Len(t.text) => t.at < BatchEnd(t)
         /\ IsFiniteSet(Batch(t))
<1>1. t.at \in Nat /\ t.text \in Seq(Passage) /\ Len(t.text) \in Nat /\ BatchSize \in Nat \ {0}
  BY IndexAssumption DEF Task, Text
<1>2. BatchEnd(t) = IF t.at + BatchSize <= Len(t.text) THEN t.at + BatchSize ELSE Len(t.text)
  BY <1>1, LesserOf DEF BatchEnd
<1>3. BatchEnd(t) \in Nat /\ t.at + 1 \in Int
  BY <1>1, <1>2
<1>4. IsFiniteSet((t.at + 1)..BatchEnd(t))
  BY <1>3, FS_Interval
<1>5. IsFiniteSet(Batch(t))
  <2> DEFINE place == [i \in (t.at + 1)..BatchEnd(t) |-> t.text[i]]
  <2>1. place \in Surjection((t.at + 1)..BatchEnd(t), Batch(t))
    BY DEF Surjection, Batch
  <2> QED
    BY <1>4, <2>1, FS_Surjection
<1> QED
  BY <1>1, <1>2, <1>5

\* A passage is in one place of its text only, and its page is that of the text.
LEMMA PlacesDiffer ==
  ASSUME NEW p \in Page, NEW text \in Versions[p]
  PROVE  /\ text \in Text
         /\ \A i \in 1..Len(text) : text[i] \in Passage /\ PageOf[text[i].id] = p
         /\ \A i, j \in 1..Len(text) : text[i].id = text[j].id => i = j
<1>1. Versions[p] \in SUBSET Seq(Passage)
  BY IndexAssumption
<1> QED
  BY <1>1, IndexAssumption DEF Text

\* What a task has read is of its page, each passage once.
LEMMA TextOfTask ==
  ASSUME TextIsRead, NEW p \in Page
  PROVE  /\ task[p].text \in Text
         /\ \A i \in 1..Len(task[p].text) :
              task[p].text[i] \in Passage /\ PageOf[task[p].text[i].id] = p
         /\ \A i, j \in 1..Len(task[p].text) :
              task[p].text[i].id = task[p].text[j].id => i = j
<1>1. CASE task[p].text = <<>>
  BY <1>1 DEF Text
<1>2. CASE task[p].text \in Versions[p]
  BY <1>2, PlacesDiffer
<1> QED
  BY <1>1, <1>2 DEF TextIsRead

\* The passages of the batch are of the page, and an id names one of them.
LEMMA BatchOfTask ==
  ASSUME IndexTyped, TextIsRead, NEW p \in Page, Progress(p)
  PROVE  /\ \A x \in Batch(task[p]) : x \in Passage /\ x.id \in Chunk /\ PageOf[x.id] = p
         /\ \A x, y \in Batch(task[p]) : x.id = y.id => x = y
         /\ \A x \in Batch(task[p]) : \A i \in 1..task[p].at : task[p].text[i].id # x.id
<1>1. task[p] \in Task
  BY DEF IndexTyped
<1>2. task[p].at \in Nat /\ task[p].at <= Len(task[p].text) /\ Len(task[p].text) \in Nat
  BY <1>1 DEF Task, Text, Progress
<1>3. BatchEnd(task[p]) \in Nat /\ BatchEnd(task[p]) <= Len(task[p].text)
  BY <1>1, <1>2, BatchBounds
<1>4. \A x \in Batch(task[p]) :
        \E i \in 1..Len(task[p].text) : i > task[p].at /\ x = task[p].text[i]
  BY <1>2, <1>3 DEF Batch
<1>5. \A i \in 1..Len(task[p].text) :
        task[p].text[i] \in Passage /\ PageOf[task[p].text[i].id] = p
  BY TextOfTask
<1>6. \A i, j \in 1..Len(task[p].text) : task[p].text[i].id = task[p].text[j].id => i = j
  BY TextOfTask
<1>7. \A x \in Passage : x.id \in Chunk
  BY DEF Passage
<1>8. \A x \in Batch(task[p]) : x \in Passage /\ x.id \in Chunk /\ PageOf[x.id] = p
  BY <1>4, <1>5, <1>7
<1>9. \A x, y \in Batch(task[p]) : x.id = y.id => x = y
  BY <1>4, <1>6
<1>10. \A x \in Batch(task[p]) : \A i \in 1..task[p].at : task[p].text[i].id # x.id
  BY <1>2, <1>4, <1>6
<1> QED
  BY <1>8, <1>9, <1>10

-----------------------------------------------------------------------------
(* What the statements do                                                  *)

\* upsert keeps the passages of the batch, touches the page's rows alone and
\* leaves none out.
LEMMA UpsertKeeps ==
  ASSUME IndexTyped, TextIsRead, NEW p \in Page, Progress(p),
         task[p].dirty \subseteq Batch(task[p]),
         rows' = Upsert(rows, run.coll, task[p].dirty),
         run'.coll = run.coll, run'.start = run.start
  PROVE  /\ rows' \in Table
         /\ \A c \in Chunk : PageOf[c] # p => rows'[c] = rows[c]
         /\ \A c \in Chunk : (\A x \in task[p].dirty : x.id # c) => rows'[c] = rows[c]
         /\ \A c \in Chunk : rows[c] # NoRow => rows'[c] # NoRow
         /\ \A x \in task[p].dirty : Lasts(x)'
<1> DEFINE dirty == task[p].dirty
           new(x) == [coll |-> run.coll, stamp |-> Null, hash |-> x.hash]
<1>1. \A x \in dirty : x \in Passage /\ x.id \in Chunk /\ PageOf[x.id] = p
  BY BatchOfTask
<1>2. \A x, y \in dirty : x.id = y.id => x = y
  BY BatchOfTask
<1>3. /\ \A c \in Chunk : (\A x \in dirty : x.id # c) => rows'[c] = rows[c]
      /\ \A x \in dirty : rows'[x.id] = new(x)
  <2>1. \A x \in dirty : (CHOOSE y \in dirty : y.id = x.id) = x
    BY <1>2
  <2>2. \A c \in Chunk : (\A x \in dirty : x.id # c) => rows'[c] = rows[c]
    BY DEF Upsert
  <2>3. ASSUME NEW x \in dirty PROVE rows'[x.id] = new(x)
    <3>1. rows'[x.id] = [coll |-> run.coll, stamp |-> Null,
                         hash |-> (CHOOSE y \in dirty : y.id = x.id).hash]
      BY <1>1 DEF Upsert
    <3> QED
      BY <3>1, <2>1
  <2> QED
    BY <2>2, <2>3
<1>4. run.coll \in Collection
  BY DEF IndexTyped, RunRecord
<1>5. \A x \in dirty : new(x) \in Row /\ new(x) # NoRow
  BY <1>1, <1>4, ChunkAssumption DEF Row, Null, Passage
<1>6. \A c \in Chunk : rows'[c] \in Row \cup {NoRow} /\ (rows[c] # NoRow => rows'[c] # NoRow)
  <2> SUFFICES ASSUME NEW c \in Chunk
               PROVE  rows'[c] \in Row \cup {NoRow} /\ (rows[c] # NoRow => rows'[c] # NoRow)
    OBVIOUS
  <2>1. CASE \E x \in dirty : x.id = c
    <3>1. PICK x \in dirty : x.id = c
      BY <2>1
    <3>2. rows'[c] = new(x) /\ new(x) \in Row /\ new(x) # NoRow
      BY <3>1, <1>3, <1>5
    <3> QED
      BY <3>2
  <2>2. CASE \A x \in dirty : x.id # c
    BY <2>2, <1>3 DEF IndexTyped, Table
  <2> QED
    BY <2>1, <2>2
<1>7. rows' \in Table
  BY <1>6 DEF Table, Upsert
<1>8. \A x \in dirty : Lasts(x)'
  <2> SUFFICES ASSUME NEW x \in dirty PROVE Lasts(x)'
    OBVIOUS
  <2>1. rows'[x.id] = new(x) /\ new(x) # NoRow
    BY <1>3, <1>5
  <2>2. /\ rows'[x.id] # NoRow /\ rows'[x.id].coll = run'.coll
        /\ rows'[x.id].hash = x.hash /\ rows'[x.id].stamp = Null
    BY <2>1
  <2> QED
    BY <2>2 DEF Lasts, Stored, InScope, Older
<1>9. \A c \in Chunk : PageOf[c] # p => rows'[c] = rows[c]
  BY <1>1, <1>3
<1> QED
  BY <1>3, <1>6, <1>7, <1>8, <1>9

\* update_metadata keeps what was stored, and nothing it passes by gets older.
LEMMA HeartbeatKeeps ==
  ASSUME IndexTyped, TextIsRead, NEW p \in Page, Progress(p),
         rows' = Heartbeat(rows, run.coll, Unchanged(task[p]), run.start),
         run'.coll = run.coll, run'.start = run.start
  PROVE  /\ rows' \in Table
         /\ \A c \in Chunk : PageOf[c] # p => rows'[c] = rows[c]
         /\ \A c \in Chunk : rows[c] # NoRow => rows'[c] # NoRow
         /\ \A x \in Passage : Lasts(x) => Lasts(x)'
         /\ \A x \in Batch(task[p]) \ task[p].dirty : Stored(x) => Lasts(x)'
<1> DEFINE ids == Unchanged(task[p])
           beat(c) == [rows[c] EXCEPT !.stamp = run.start]
<1>1. \A c \in ids : PageOf[c] = p
  BY BatchOfTask DEF Unchanged
<1>2. \A c \in Chunk : rows'[c] = IF c \in ids /\ InScope(rows, run.coll, c) THEN beat(c) ELSE rows[c]
  BY DEF Heartbeat
<1>3. run.start \in Nat
  BY DEF IndexTyped, RunRecord
<1>4. \A c \in Chunk : rows[c] # NoRow => rows[c] \in Row
  BY DEF IndexTyped, Table
<1>5. \A c \in Chunk : rows[c] # NoRow =>
        /\ beat(c) \in Row /\ beat(c).coll = rows[c].coll /\ beat(c).hash = rows[c].hash
        /\ beat(c).stamp = run.start /\ beat(c) # NoRow
  BY <1>3, <1>4, ChunkAssumption DEF Row
<1>6. \A c \in Chunk : rows'[c] \in Row \cup {NoRow}
  BY <1>2, <1>5 DEF IndexTyped, Table, InScope
<1>7. rows' = [c \in Chunk |-> rows'[c]]
  BY DEF Heartbeat
<1>8. rows' \in Table
  BY <1>6, <1>7 DEF Table
<1>9. \A c \in Chunk : rows[c] # NoRow => rows'[c] # NoRow
  BY <1>2, <1>5
<1>10. ~(run.start < run.start)
  BY <1>3
<1>11. \A x \in Passage : Lasts(x) => Lasts(x)'
  <2> SUFFICES ASSUME NEW x \in Passage, Lasts(x) PROVE Lasts(x)'
    OBVIOUS
  <2>1. x.id \in Chunk
    BY DEF Passage
  <2> QED
    BY <2>1, <1>2, <1>5, <1>10 DEF Lasts, Stored, InScope, Older
<1>12. \A x \in Batch(task[p]) \ task[p].dirty : Stored(x) => Lasts(x)'
  <2> SUFFICES ASSUME NEW x \in Batch(task[p]) \ task[p].dirty, Stored(x) PROVE Lasts(x)'
    OBVIOUS
  <2>1. x.id \in Chunk
    BY BatchOfTask
  <2>2. x.id \in ids
    BY DEF Unchanged
  <2> QED
    BY <2>1, <2>2, <1>2, <1>5, <1>10 DEF Lasts, Stored, InScope, Older
<1>13. \A c \in Chunk : PageOf[c] # p => rows'[c] = rows[c]
  BY <1>1, <1>2
<1> QED
  BY <1>8, <1>9, <1>11, <1>12, <1>13

-----------------------------------------------------------------------------
(* One page at a time                                                      *)

\* A page whose task rests keeps what it has, when its rows stay that it needs.
LEMMA Undisturbed ==
  ASSUME IndexTyped, TextIsRead, NEW q \in Page, Progress(q), BatchSplit(q),
         task'[q] = task[q], run'.coll = run.coll, run'.start = run.start,
         \A i \in 1..Len(task[q].text) :
           i <= task[q].at \/ task[q].st # "none" =>
             rows'[task[q].text[i].id] = rows[task[q].text[i].id]
  PROVE  Progress(q)' /\ BatchSplit(q)'
<1> DEFINE t == task[q]
           same(x) == rows'[x.id] = rows[x.id]
<1>1. \A x : same(x) => (Stored(x)' <=> Stored(x)) /\ (Lasts(x)' <=> Lasts(x))
  BY DEF Stored, Lasts, InScope
<1>2. t \in Task /\ t.at \in Nat /\ t.text \in Text /\ Len(t.text) \in Nat
  BY DEF IndexTyped, Task, Text
<1>3. t.at <= Len(t.text)
  BY DEF Progress
<1>4. \A i \in 1..t.at : same(t.text[i])
  BY <1>2, <1>3
<1>5. Progress(q)'
  BY <1>1, <1>4 DEF Progress
<1>6. t.st \in {"upserting", "touching"} => \A x \in Batch(t) : same(x)
  <2> HAVE t.st \in {"upserting", "touching"}
  <2>1. BatchEnd(t) \in Nat /\ BatchEnd(t) <= Len(t.text)
    BY <1>2, <1>3, BatchBounds
  <2>2. \A x \in Batch(t) : \E i \in 1..Len(t.text) : x = t.text[i]
    BY <1>2, <2>1 DEF Batch
  <2> QED
    BY <2>2
<1>7. Batch(t)' = Batch(t)
  BY DEF Batch, BatchEnd
<1>8. BatchSplit(q)'
  BY <1>1, <1>6, <1>7 DEF BatchSplit
<1> QED
  BY <1>5, <1>8

\* One task moves, its statement touches rows of its own page alone, and the
\* page leaves the feed.
LEMMA OneTaskMoves ==
  ASSUME IndexInv, NEW p \in Page, NEW t \in Task, task' = [task EXCEPT ![p] = t],
         UNCHANGED <<origin, run, report, doomed>>,
         feed' \subseteq feed, feed \subseteq feed' \cup {p}, p \notin feed',
         rows' \in Table, \A c \in Chunk : PageOf[c] # p => rows'[c] = rows[c],
         t.text = <<>> \/ t.text \in Versions[p],
         run.phase \in {"feeding", "dropping"}, run.phase = "feeding" => t.st # "none",
         report[p] = "none",
         Progress(p)', BatchSplit(p)'
  PROVE  IndexInv'
<1> USE DEF IndexInv
<1>1. \A q \in Page : task'[q] = IF q = p THEN t ELSE task[q]
  BY DEF IndexTyped
<1>2. IndexTyped'
  BY DEF IndexTyped
<1>3. TextIsRead'
  BY <1>1 DEF TextIsRead, TasksInv
<1>4. \A q \in Page : Progress(q)' /\ BatchSplit(q)'
  <2> SUFFICES ASSUME NEW q \in Page, q # p PROVE Progress(q)' /\ BatchSplit(q)'
    OBVIOUS
  <2>1. TextIsRead /\ Progress(q) /\ BatchSplit(q) /\ task'[q] = task[q]
    BY <1>1 DEF TasksInv
  <2>2. \A i \in 1..Len(task[q].text) : task[q].text[i] \in Passage /\ PageOf[task[q].text[i].id] = q
    BY <2>1, TextOfTask
  <2>3. \A i \in 1..Len(task[q].text) : rows'[task[q].text[i].id] = rows[task[q].text[i].id]
    BY <2>2 DEF Passage
  <2> QED
    BY <2>1, <2>3, Undisturbed
<1>5. \A q \in Page : PageOnce(q)'
  BY <1>1 DEF PageOnce, TasksInv
<1>6. AllHeard'
  BY <1>1 DEF AllHeard, IndexTyped, RunRecord
<1>7. DoomedAreStale'
  BY DEF DoomedAreStale
<1> QED
  BY <1>2, <1>3, <1>4, <1>5, <1>6, <1>7 DEF TasksInv

\* The run goes on to something that is neither feeding nor cleaning.
LEMMA RunMoves ==
  ASSUME IndexInv, UNCHANGED <<rows, feed, task, report>>,
         DOMAIN origin' = Page, \A p \in Page : origin'[p] \in Versions[p],
         doomed' \subseteq doomed,
         NEW phase \in {"dropping", "finished", "aborted"},
         run' = [run EXCEPT !.phase = phase]
  PROVE  IndexInv'
<1> USE DEF IndexInv
<1>1. /\ run'.coll = run.coll /\ run'.start = run.start /\ run'.pages = run.pages
      /\ run'.phase = phase /\ run' \in RunRecord
  BY DEF IndexTyped, RunRecord, Running
<1>2. IndexTyped'
  BY <1>1 DEF IndexTyped
<1>3. \A q \in Page : Progress(q)' /\ BatchSplit(q)'
  BY <1>1, Undisturbed DEF TasksInv
<1>4. TasksInv'
  BY <1>3 DEF TasksInv, TextIsRead, PageOnce
<1>5. AllHeard' /\ DoomedAreStale'
  BY <1>1 DEF AllHeard, DoomedAreStale
<1> QED
  BY <1>2, <1>4, <1>5

\* When the batch is kept, the task goes on to the next one or to its end.
LEMMA BatchIsThrough ==
  ASSUME IndexTyped, TextIsRead, NEW p \in Page, Progress(p), BatchSplit(p),
         task[p].st \in {"upserting", "touching"}, UNCHANGED run,
         task'[p] = NextBatch(task[p]),
         \A i \in 1..task[p].at : Lasts(task[p].text[i])',
         \A x \in Batch(task[p]) : Lasts(x)'
  PROVE  /\ NextBatch(task[p]) \in Task
         /\ NextBatch(task[p]).text = task[p].text /\ NextBatch(task[p]).st # "none"
         /\ Progress(p)' /\ BatchSplit(p)'
<1> DEFINE t == task[p]
           n == NextBatch(t)
<1>1. /\ t \in Task /\ t.at \in Nat /\ t.text \in Text /\ Len(t.text) \in Nat
      /\ t.upserted \in Nat /\ t.dirty \subseteq Passage
  BY DEF IndexTyped, Task, Text
<1>2. t.at < Len(t.text) /\ t.dirty \subseteq Batch(t)
  BY DEF Progress, BatchSplit
<1>3. /\ BatchEnd(t) \in Nat /\ t.at < BatchEnd(t) /\ BatchEnd(t) <= Len(t.text)
      /\ IsFiniteSet(Batch(t))
  BY <1>1, <1>2, BatchBounds
<1>4. Cardinality(t.dirty) \in Nat
  BY <1>2, <1>3, FS_Subset, FS_CardinalityType
<1>5. /\ n.text = t.text /\ n.at = BatchEnd(t) /\ n.dirty = {}
      /\ n.upserted = t.upserted + Cardinality(t.dirty)
      /\ n.st = IF BatchEnd(t) = Len(t.text)
                  THEN (IF n.upserted = 0 THEN "skipped" ELSE "indexed") ELSE "diffing"
      /\ n = [st |-> n.st, text |-> n.text, at |-> n.at, dirty |-> n.dirty, upserted |-> n.upserted]
  BY <1>1 DEF NextBatch, Outcome, Task
<1>6. n.st \in {"skipped", "indexed", "diffing"}
  BY <1>5
<1>7. n \in Task
  <2>1. n.upserted \in Nat
    BY <1>1, <1>4, <1>5
  <2>2. n.st \in TaskState
    BY <1>6 DEF TaskState, Busy, Ended
  <2> QED
    BY <1>1, <1>3, <1>5, <2>1, <2>2 DEF Task
<1>8. task'[p].text = t.text /\ task'[p].at = BatchEnd(t) /\ task'[p].st = n.st
  BY <1>5
<1>9. \A i \in 1..BatchEnd(t) : \A x : x = t.text[i] => Lasts(x)'
  <2> SUFFICES ASSUME NEW i \in 1..BatchEnd(t), NEW x, x = t.text[i] PROVE Lasts(x)'
    OBVIOUS
  <2>1. CASE i <= t.at
    BY <2>1, <1>1, <1>3, <1>8
  <2>2. CASE i > t.at
    <3>1. x \in Batch(t)
      BY <2>2, <1>1, <1>3 DEF Batch
    <3> QED
      BY <3>1
  <2> QED
    BY <2>1, <2>2, <1>1
<1>10. Progress(p)'
  <2>1. BatchEnd(t) <= Len(t.text) /\ n.st # "fetching" /\ n.st \notin {"upserting", "touching"}
    BY <1>3, <1>6
  <2>2. n.st = "diffing" => BatchEnd(t) < Len(t.text)
    BY <1>1, <1>3, <1>5
  <2>3. n.st \in {"indexed", "skipped"} => BatchEnd(t) = Len(t.text)
    BY <1>5
  <2>4. (\A i \in 1..task[p].at : Lasts(task[p].text[i]))'
    BY <1>8, <1>9
  <2> QED
    BY <2>1, <2>2, <2>3, <2>4, <1>8 DEF Progress
<1>11. BatchSplit(p)'
  BY <1>6, <1>8 DEF BatchSplit
<1> QED
  BY <1>5, <1>6, <1>7, <1>10, <1>11

-----------------------------------------------------------------------------
(* The invariant holds at first and is kept                                *)

\* No task has begun.
LEMMA IndexInvInit == Init => IndexInv
<1> SUFFICES ASSUME Init PROVE IndexInv
  OBVIOUS
<1>1. \A p \in Page : task[p] = NoTask /\ report[p] = "none"
  BY DEF Init
<1>2. NoTask \in Task
  BY DEF NoTask, Task, TaskState, Text
<1>3. run \in RunRecord
  <2>1. /\ (CHOOSE k \in Collection : TRUE) \in Collection
        /\ (CHOOSE s \in Strategy : TRUE) \in Strategy
        /\ (CHOOSE f \in ForceUpdate : TRUE) \in BOOLEAN
    BY IndexAssumption
  <2> QED
    BY <2>1, IndexAssumption DEF Init, RunRecord
<1>4. IndexTyped
  <2>1. rows \in Table /\ DOMAIN origin = Page /\ \A p \in Page : origin[p] \in Versions[p]
    BY IndexAssumption DEF Init, Table
  <2> QED
    BY <1>2, <1>3, <2>1 DEF Init, IndexTyped, EventKind
<1>5. TasksInv
  BY <1>1 DEF TasksInv, TextIsRead, Progress, BatchSplit, PageOnce, NoTask, Init
<1>6. run.phase = "idle"
  BY DEF Init
<1> QED
  BY <1>4, <1>5, <1>6 DEF IndexInv, AllHeard, DoomedAreStale

\* What a page is before its task moves, in one place.
LEMMA BeforeMove ==
  ASSUME IndexInv, NEW p \in Page
  PROVE  /\ IndexTyped /\ TextIsRead /\ Progress(p) /\ BatchSplit(p) /\ PageOnce(p)
         /\ task[p] \in Task /\ rows \in Table
         /\ task[p].text = <<>> \/ task[p].text \in Versions[p]
         /\ task[p].st # "none" => report[p] = "none" /\ p \notin feed
  BY DEF IndexInv, IndexTyped, TasksInv, TextIsRead, PageOnce

\* Spawn: a page leaves the feed for a task.
LEMMA SpawnKeeps == ASSUME IndexInv, NEW p \in Page, Spawn(p) PROVE IndexInv'
<1> DEFINE t == [NoTask EXCEPT !.st = "fetching"]
<1>1. /\ run.phase = "feeding" /\ p \in feed /\ feed' = feed \ {p}
      /\ task' = [task EXCEPT ![p] = t]
      /\ UNCHANGED <<origin, rows, run, report, doomed>>
  BY DEF Spawn
<1>2. t \in Task /\ t.text = <<>> /\ t.st = "fetching" /\ t.at = 0
  <2>1. <<>> \in Seq(Passage) /\ {} \in SUBSET Passage /\ "fetching" \in TaskState
    BY DEF TaskState, Busy
  <2> QED
    BY <2>1 DEF Task, NoTask, Text
<1>3. rows \in Table /\ report[p] = "none" /\ task'[p] = t
  BY <1>1, BeforeMove DEF PageOnce, IndexInv, IndexTyped
<1>4. Progress(p)' /\ BatchSplit(p)'
  BY <1>2, <1>3 DEF Progress, BatchSplit
<1> HIDE DEF t
<1> QED
  BY <1>1, <1>2, <1>3, <1>4, OneTaskMoves

\* Fetch: the text is one the page has now.
LEMMA FetchKeeps == ASSUME IndexInv, NEW p \in Page, Fetch(p) PROVE IndexInv'
<1> DEFINE t == [task[p] EXCEPT !.text = origin[p],
                                !.st = IF origin[p] = <<>> THEN "skipped" ELSE "diffing"]
<1>1. /\ run.phase = "feeding" /\ task[p].st = "fetching"
      /\ UNCHANGED <<origin, rows, run, feed, report, doomed>>
  BY DEF Fetch, Working
<1>2. /\ task[p] \in Task /\ report[p] = "none" /\ p \notin feed /\ rows \in Table
      /\ task[p].at = 0
  BY <1>1, BeforeMove DEF Progress
<1>3. task' = [task EXCEPT ![p] = t]
  BY DEF Fetch, IndexInv, IndexTyped
<1>4. origin[p] \in Versions[p] /\ origin[p] \in Text
  BY PlacesDiffer DEF IndexInv, IndexTyped
<1>5. /\ t \in Task /\ t.text = origin[p] /\ t.at = 0
      /\ t.st = IF origin[p] = <<>> THEN "skipped" ELSE "diffing"
  BY <1>2, <1>4 DEF Task, TaskState, Busy, Ended
<1>6. task'[p] = t
  BY <1>3 DEF IndexInv, IndexTyped
<1>7. origin[p] # <<>> => 0 < Len(origin[p])
  BY <1>4 DEF Text
<1>8. Progress(p)' /\ BatchSplit(p)'
  BY <1>4, <1>5, <1>6, <1>7 DEF Progress, BatchSplit, Text
<1> HIDE DEF t
<1> QED
  BY <1>1, <1>2, <1>3, <1>4, <1>5, <1>8, OneTaskMoves

\* A task that fails keeps what its batches did.
LEMMA FailureKeeps ==
  ASSUME IndexInv, NEW p \in Page, FetchFails(p) \/ ReaderFails(p) \/ StoreFails(p)
  PROVE  IndexInv'
<1>1. PICK st \in {"broken", "failed"} : task' = [task EXCEPT ![p].st = st]
  BY DEF FetchFails, ReaderFails, StoreFails
<1>2. /\ run.phase = "feeding" /\ task[p].st \in Busy
      /\ UNCHANGED <<origin, rows, run, feed, report, doomed>>
  BY DEF FetchFails, ReaderFails, StoreFails, Working, Busy
<1> DEFINE t == [task[p] EXCEPT !.st = st]
<1>3. task[p] \in Task /\ report[p] = "none" /\ p \notin feed /\ rows \in Table
  BY <1>2, BeforeMove DEF Busy
<1>4. task' = [task EXCEPT ![p] = t] /\ task'[p] = t
  BY <1>1 DEF IndexInv, IndexTyped
<1>5. t \in Task /\ t.text = task[p].text /\ t.at = task[p].at /\ t.st = st
  BY <1>3 DEF Task, TaskState, Ended
<1>6. \A x : Lasts(x)' <=> Lasts(x)
  BY <1>2 DEF Lasts, Stored
<1>7. Progress(p)' /\ BatchSplit(p)'
  BY <1>1, <1>4, <1>5, <1>6, BeforeMove DEF Progress, BatchSplit
<1>8. t.text = <<>> \/ t.text \in Versions[p]
  BY <1>5, BeforeMove
<1>9. t.st # "none"
  BY <1>1, <1>5
<1> HIDE DEF t
<1> QED
  BY <1>2, <1>3, <1>4, <1>5, <1>7, <1>8, <1>9, OneTaskMoves

\* Diff: what is not dirty is stored.
LEMMA DiffKeeps == ASSUME IndexInv, NEW p \in Page, Diff(p) PROVE IndexInv'
<1> DEFINE batch == Batch(task[p])
           dirty == IF run.force THEN batch ELSE DiffByHash(rows, run.coll, batch)
           t == [task[p] EXCEPT !.dirty = dirty,
                                !.st = IF dirty = {} THEN "touching" ELSE "upserting"]
<1>1. /\ run.phase = "feeding" /\ task[p].st = "diffing"
      /\ UNCHANGED <<origin, rows, run, feed, report, doomed>>
  BY DEF Diff, Working
<1>2. task[p] \in Task /\ report[p] = "none" /\ p \notin feed /\ rows \in Table
  BY <1>1, BeforeMove
<1>3. task' = [task EXCEPT ![p] = t] /\ task'[p] = t
  BY DEF Diff, IndexInv, IndexTyped
<1>4. \A x \in batch : x \in Passage
  BY BeforeMove, BatchOfTask
<1>5. dirty \subseteq batch /\ \A x \in batch \ dirty : Stored(x)
  BY DEF DiffByHash, Stored
<1>6. dirty \subseteq Passage
  BY <1>4, <1>5
<1> HIDE DEF dirty
<1>7. /\ t \in Task /\ t.text = task[p].text /\ t.at = task[p].at /\ t.dirty = dirty
      /\ t.st \in {"touching", "upserting"} /\ (t.st = "touching" => dirty = {})
  BY <1>2, <1>6 DEF Task, TaskState, Busy
<1> HIDE DEF t
<1>8. \A x : (Lasts(x)' <=> Lasts(x)) /\ (Stored(x)' <=> Stored(x))
  BY <1>1 DEF Lasts, Stored
<1>9. Batch(task[p])' = batch
  BY <1>3, <1>7 DEF Batch, BatchEnd
<1>10. Progress(p)'
  BY <1>1, <1>3, <1>7, <1>8, BeforeMove DEF Progress
<1>11. BatchSplit(p)'
  BY <1>3, <1>5, <1>7, <1>8, <1>9 DEF BatchSplit
<1>12. (t.text = <<>> \/ t.text \in Versions[p]) /\ t.st # "none"
  BY <1>7, BeforeMove
<1> QED
  BY <1>1, <1>2, <1>3, <1>7, <1>10, <1>11, <1>12, OneTaskMoves

\* UpsertDirty: the dirty passages are kept, the rest of the batch is stored.
LEMMA UpsertStepKeeps == ASSUME IndexInv, NEW p \in Page, UpsertDirty(p) PROVE IndexInv'
<1> DEFINE old == task[p]
<1>1. /\ run.phase = "feeding" /\ old.st = "upserting"
      /\ UNCHANGED <<origin, run, feed, report, doomed>>
      /\ rows' = Upsert(rows, run.coll, old.dirty)
  BY DEF UpsertDirty, Working
<1>2. /\ IndexTyped /\ TextIsRead /\ Progress(p) /\ BatchSplit(p) /\ old \in Task
      /\ report[p] = "none" /\ p \notin feed
  BY <1>1, BeforeMove
<1>3. old.dirty \subseteq Batch(old) /\ \A x \in Batch(old) \ old.dirty : Stored(x)
  BY <1>1, <1>2 DEF BatchSplit
<1>4. /\ rows' \in Table /\ \A c \in Chunk : PageOf[c] # p => rows'[c] = rows[c]
      /\ \A c \in Chunk : (\A x \in old.dirty : x.id # c) => rows'[c] = rows[c]
      /\ \A x \in old.dirty : Lasts(x)'
  BY <1>1, <1>2, <1>3, UpsertKeeps
<1>5. \A i \in 1..old.at : \A x : x = old.text[i] => Lasts(x)'
  <2> SUFFICES ASSUME NEW i \in 1..old.at, NEW x, x = old.text[i] PROVE Lasts(x)'
    OBVIOUS
  <2>1. Lasts(x) /\ i \in 1..Len(old.text)
    BY <1>2 DEF Progress, Task, Text
  <2>2. x.id \in Chunk
    BY <1>2, <2>1, TextOfTask DEF Passage
  <2>3. \A y \in old.dirty : y.id # x.id
    BY <1>2, <1>3, BatchOfTask
  <2>4. rows'[x.id] = rows[x.id]
    BY <1>4, <2>2, <2>3
  <2> QED
    BY <1>1, <2>1, <2>4 DEF Lasts, Stored, InScope
<1>6. old.text = <<>> \/ old.text \in Versions[p]
  BY BeforeMove
<1>7. CASE old.dirty = Batch(old)
  <2> DEFINE t == NextBatch(old)
  <2>1. task' = [task EXCEPT ![p] = t] /\ task'[p] = t
    BY <1>7, <1>2 DEF UpsertDirty, IndexTyped
  <2>2. task'[p].text = old.text
    BY <2>1 DEF NextBatch
  <2>3. \A x \in Batch(old) : Lasts(x)'
    BY <1>4, <1>7
  <2>4. \A i \in 1..old.at : Lasts(task[p].text[i])'
    BY <1>5, <2>2
  <2>5. /\ t \in Task /\ t.text = old.text /\ t.st # "none"
        /\ Progress(p)' /\ BatchSplit(p)'
    BY <1>1, <1>2, <2>1, <2>3, <2>4, BatchIsThrough
  <2> HIDE DEF t
  <2> QED
    BY <1>1, <1>2, <1>4, <1>6, <2>1, <2>5, OneTaskMoves
<1>8. CASE old.dirty # Batch(old)
  <2> DEFINE t == [old EXCEPT !.st = "touching"]
  <2>1. task' = [task EXCEPT ![p] = t] /\ task'[p] = t
    BY <1>8, <1>2 DEF UpsertDirty, IndexTyped
  <2>2. /\ t \in Task /\ t.text = old.text /\ t.st = "touching" /\ t.at = old.at
        /\ t.dirty = old.dirty
    BY <1>2 DEF Task, TaskState, Busy
  <2> HIDE DEF t
  <2>3. Batch(old)' = Batch(old)
    BY <2>1, <2>2 DEF Batch, BatchEnd
  <2>4. \A x \in Batch(old) \ old.dirty : Stored(x)'
    <3> SUFFICES ASSUME NEW x \in Batch(old) \ old.dirty PROVE Stored(x)'
      OBVIOUS
    <3>1. x.id \in Chunk /\ \A y \in old.dirty : y.id # x.id
      BY <1>2, <1>3, BatchOfTask
    <3>2. rows'[x.id] = rows[x.id]
      BY <1>4, <3>1
    <3> QED
      BY <1>1, <1>3, <3>2 DEF Stored, InScope
  <2>5. BatchSplit(p)'
    BY <1>3, <1>4, <2>1, <2>2, <2>3, <2>4 DEF BatchSplit
  <2>6. Progress(p)'
    BY <1>1, <1>2, <1>5, <2>1, <2>2 DEF Progress
  <2> QED
    BY <1>1, <1>2, <1>4, <1>6, <2>1, <2>2, <2>5, <2>6, OneTaskMoves
<1> QED
  BY <1>7, <1>8

\* TouchUnchanged: the whole batch is kept.
LEMMA TouchStepKeeps == ASSUME IndexInv, NEW p \in Page, TouchUnchanged(p) PROVE IndexInv'
<1> DEFINE old == task[p]
           t == NextBatch(old)
<1>1. /\ run.phase = "feeding" /\ old.st = "touching"
      /\ UNCHANGED <<origin, run, feed, report, doomed>>
      /\ rows' = Heartbeat(rows, run.coll, Unchanged(old), run.start)
  BY DEF TouchUnchanged, Working
<1>2. /\ IndexTyped /\ TextIsRead /\ Progress(p) /\ BatchSplit(p) /\ old \in Task
      /\ report[p] = "none" /\ p \notin feed
      /\ old.text = <<>> \/ old.text \in Versions[p]
  BY <1>1, BeforeMove
<1>3. /\ rows' \in Table /\ \A c \in Chunk : PageOf[c] # p => rows'[c] = rows[c]
      /\ \A x \in Passage : Lasts(x) => Lasts(x)'
      /\ \A x \in Batch(old) \ old.dirty : Stored(x) => Lasts(x)'
  BY <1>1, <1>2, HeartbeatKeeps
<1>4. task' = [task EXCEPT ![p] = t] /\ task'[p] = t /\ task'[p].text = old.text
  BY <1>2 DEF TouchUnchanged, IndexTyped, NextBatch
<1>5. \A x \in Batch(old) : Lasts(x)'
  BY <1>1, <1>2, <1>3, BatchOfTask DEF BatchSplit
<1>6. \A i \in 1..old.at : Lasts(task[p].text[i])'
  <2> SUFFICES ASSUME NEW i \in 1..old.at, NEW x, x = old.text[i] PROVE Lasts(x)'
    BY <1>4
  <2>1. Lasts(x) /\ i \in 1..Len(old.text)
    BY <1>2 DEF Progress, Task, Text
  <2>2. x \in Passage
    BY <1>2, <2>1, TextOfTask
  <2> QED
    BY <1>3, <2>1, <2>2
<1>7. /\ t \in Task /\ t.text = old.text /\ t.st # "none"
      /\ Progress(p)' /\ BatchSplit(p)'
  BY <1>1, <1>2, <1>4, <1>5, <1>6, BatchIsThrough
<1> HIDE DEF t
<1> QED
  BY <1>1, <1>2, <1>3, <1>4, <1>7, OneTaskMoves

\* Dropped: the last statement of a task may still be carried out.
LEMMA DroppedKeeps == ASSUME IndexInv, NEW p \in Page, Dropped(p) PROVE IndexInv'
<1> DEFINE old == task[p]
<1>1. /\ run.phase = "dropping" /\ old.st # "none"
      /\ UNCHANGED <<origin, run, feed, report, doomed>>
      /\ task' = [task EXCEPT ![p] = NoTask]
  BY DEF Dropped
<1>2. /\ IndexTyped /\ TextIsRead /\ Progress(p) /\ BatchSplit(p) /\ rows \in Table
      /\ report[p] = "none" /\ p \notin feed
  BY <1>1, BeforeMove
<1>3. rows' \in Table /\ \A c \in Chunk : PageOf[c] # p => rows'[c] = rows[c]
  <2>1. CASE UNCHANGED rows
    BY <2>1, <1>2
  <2>2. CASE old.st = "upserting" /\ rows' = Upsert(rows, run.coll, old.dirty)
    <3>1. old.dirty \subseteq Batch(old)
      BY <2>2, <1>2 DEF BatchSplit
    <3> QED
      BY <2>2, <3>1, <1>1, <1>2, UpsertKeeps
  <2>3. CASE rows' = Heartbeat(rows, run.coll, Unchanged(old), run.start)
    BY <2>3, <1>1, <1>2, HeartbeatKeeps
  <2> QED
    BY <2>1, <2>2, <2>3 DEF Dropped
<1>4. /\ NoTask \in Task /\ NoTask.text = <<>> /\ NoTask.st = "none" /\ NoTask.at = 0
      /\ Len(<<>>) = 0
  <2>1. <<>> \in Seq(Passage) /\ {} \in SUBSET Passage /\ "none" \in TaskState
    BY DEF TaskState
  <2> QED
    BY <2>1 DEF Task, NoTask, Text
<1>5. task'[p] = NoTask
  BY <1>1, <1>2 DEF IndexTyped
<1>6. Progress(p)' /\ BatchSplit(p)'
  BY <1>4, <1>5 DEF Progress, BatchSplit
<1> QED
  BY <1>1, <1>2, <1>3, <1>4, <1>6, OneTaskMoves

\* A run begins with every page it listed in the feed.
LEMMA RunStartKeeps ==
  ASSUME IndexInv, NEW k \in Collection, NEW s \in Strategy, NEW f \in ForceUpdate,
         NEW pages \in Listing, RunStart(k, s, f, pages)
  PROVE  IndexInv'
<1> USE DEF IndexInv
<1>1. pages \subseteq Page /\ f \in BOOLEAN
  BY IndexAssumption
<1>2. /\ run'.phase = "feeding" /\ run'.pages = pages /\ run' \in RunRecord
      /\ feed' = pages /\ UNCHANGED <<origin, rows, doomed>>
  BY <1>1 DEF RunStart, RunRecord, Running, IndexTyped
<1>3. \A p \in Page : task'[p] = NoTask /\ report'[p] = "none"
  BY DEF RunStart
<1>4. /\ NoTask \in Task /\ NoTask.text = <<>> /\ NoTask.st = "none" /\ NoTask.at = 0
      /\ Len(<<>>) = 0
  <2>1. <<>> \in Seq(Passage) /\ {} \in SUBSET Passage /\ "none" \in TaskState
    BY DEF TaskState
  <2> QED
    BY <2>1 DEF Task, NoTask, Text
<1>5. IndexTyped'
  BY <1>1, <1>2, <1>4 DEF IndexTyped, RunStart, EventKind
<1>6. TasksInv'
  BY <1>3, <1>4 DEF TasksInv, TextIsRead, Progress, BatchSplit, PageOnce
<1> QED
  BY <1>2, <1>5, <1>6 DEF AllHeard, DoomedAreStale

\* Harvest: who is done is reported as it ended, unless a broken task ends the run.
LEMMA HarvestKeeps == ASSUME IndexInv, Harvest PROVE IndexInv'
<1> USE DEF IndexInv
<1>1. CASE \E p \in Done : task[p].st = "broken"
  <2>1. run' = [run EXCEPT !.phase = "dropping"] /\ UNCHANGED <<origin, rows, feed, task, report, doomed>>
    BY <1>1 DEF Harvest
  <2>2. DOMAIN origin' = Page /\ \A p \in Page : origin'[p] \in Versions[p]
    BY <2>1 DEF IndexTyped
  <2> QED
    BY <2>1, <2>2, RunMoves
<1>2. CASE \A p \in Done : task[p].st # "broken"
  <2>1. /\ UNCHANGED <<origin, rows, run, feed, doomed>> /\ run.phase = "feeding"
        /\ report' = [p \in Page |-> IF p \in Done THEN task[p].st ELSE report[p]]
        /\ task' = [p \in Page |-> IF p \in Done THEN [task[p] EXCEPT !.st = "none"] ELSE task[p]]
    BY <1>2 DEF Harvest, Waiting
  <2>2. \A p \in Page :
          /\ task[p] \in Task /\ task'[p].text = task[p].text /\ task'[p].at = task[p].at
          /\ p \in Done => task'[p].st = "none" /\ report'[p] = task[p].st
          /\ p \notin Done => task'[p] = task[p] /\ report'[p] = report[p]
    BY <2>1 DEF IndexTyped, Task
  <2>3. \A p \in Page : p \in Done <=> task[p].st \in Ended
    BY DEF Done
  <2>4. \A p \in Page : p \in Done => task[p].st \in {"indexed", "skipped", "failed"}
    BY <1>2, <2>3 DEF Ended
  <2>5. \A x : (Lasts(x)' <=> Lasts(x)) /\ (Stored(x)' <=> Stored(x))
    BY <2>1 DEF Lasts, Stored
  <2>6. \A p \in Page : Progress(p)'
    BY <2>2, <2>5 DEF TasksInv, Progress
  <2>7. \A p \in Page : BatchSplit(p)'
    <3> SUFFICES ASSUME NEW p \in Page PROVE BatchSplit(p)'
      OBVIOUS
    <3>1. CASE p \in Done
      BY <3>1, <2>2 DEF BatchSplit
    <3>2. CASE p \notin Done
      <4>1. task'[p] = task[p] /\ Batch(task[p])' = Batch(task[p])
        BY <3>2, <2>2 DEF Batch, BatchEnd
      <4>2. BatchSplit(p)
        BY DEF TasksInv
      <4> QED
        BY <4>1, <4>2, <2>5 DEF BatchSplit
    <3> QED
      BY <3>1, <3>2
  <2>8. \A p \in Page : PageOnce(p)'
    <3> SUFFICES ASSUME NEW p \in Page PROVE PageOnce(p)'
      OBVIOUS
    <3>1. Progress(p) /\ PageOnce(p)
      BY DEF TasksInv
    <3>2. CASE p \in Done
      BY <3>1, <3>2, <2>1, <2>2, <2>4 DEF Progress, PageOnce
    <3>3. CASE p \notin Done
      BY <3>1, <3>3, <2>1, <2>2 DEF PageOnce
    <3> QED
      BY <3>2, <3>3
  <2>9. TextIsRead'
    BY <2>2 DEF TasksInv, TextIsRead
  <2>10. IndexTyped'
    <3>1. \A p \in Page : report'[p] \in EventKind
      BY <2>2, <2>4 DEF IndexTyped, EventKind
    <3>2. \A p \in Page : [task[p] EXCEPT !.st = "none"] \in Task
      BY <2>2 DEF Task, TaskState
    <3>3. task' \in [Page -> Task]
      BY <2>1, <2>2, <3>2
    <3>4. report' \in [Page -> EventKind]
      BY <2>1, <3>1
    <3> QED
      BY <2>1, <3>3, <3>4 DEF IndexTyped
  <2>11. AllHeard' /\ DoomedAreStale'
    <3>1. \A p \in run.pages : p \in Page
      BY DEF IndexTyped, RunRecord
    <3>2. \A p \in Page : p \in Done => report'[p] # "none"
      BY <2>2, <2>4
    <3> QED
      BY <2>1, <2>2, <3>1, <3>2 DEF AllHeard, DoomedAreStale
  <2> QED
    BY <2>6, <2>7, <2>8, <2>9, <2>10, <2>11 DEF TasksInv
<1> QED
  BY <1>1, <1>2

\* CleanupStarts: every page was heard of, and what is kept is not stale.
LEMMA CleanupStartKeeps == ASSUME IndexInv, CleanupStarts PROVE IndexInv'
<1> USE DEF IndexInv
<1>1. /\ run.phase = "feeding" /\ feed = {} /\ Pending = {}
      /\ run' = [run EXCEPT !.phase = "cleaning"]
      /\ doomed' = FindStale(rows, run.coll, run.cleanup, Touched, run.start)
      /\ UNCHANGED <<origin, rows, feed, task, report>>
  BY DEF CleanupStarts
<1>2. /\ run'.coll = run.coll /\ run'.start = run.start /\ run'.pages = run.pages
      /\ run'.cleanup = run.cleanup /\ run'.phase = "cleaning" /\ run' \in RunRecord
  BY <1>1 DEF IndexTyped, RunRecord, Running
<1>3. \A p \in Page : task[p].st = "none"
  BY <1>1 DEF Pending
<1>4. IndexTyped'
  BY <1>1, <1>2 DEF IndexTyped, FindStale
<1>5. \A q \in Page : Progress(q)' /\ BatchSplit(q)'
  BY <1>1, <1>2, Undisturbed DEF TasksInv
<1>6. TasksInv'
  BY <1>1, <1>5 DEF TasksInv, TextIsRead, PageOnce
<1>7. AllHeard'
  BY <1>1, <1>2, <1>3 DEF AllHeard, IndexTyped, RunRecord
<1>8. DoomedAreStale'
  <2>1. Touched' = Touched
    BY <1>1 DEF Touched
  <2>2. \A c \in doomed' : InStrategy(run.cleanup, Touched, c) /\ Older(rows[c], run.start)
    BY <1>1 DEF FindStale
  <2>3. \A p \in Page : \A i \in 1..task[p].at : ~Older(rows[task[p].text[i].id], run.start)
    BY DEF TasksInv, Progress, Lasts
  <2> QED
    BY <1>1, <1>2, <2>1, <2>2, <2>3 DEF DoomedAreStale
<1> QED
  BY <1>4, <1>6, <1>7, <1>8

\* DeleteBatch: a doomed row is no task's.
LEMMA DeleteKeeps == ASSUME IndexInv, DeleteBatch PROVE IndexInv'
<1> USE DEF IndexInv
<1>1. PICK ids \in SUBSET doomed :
        rows' = Delete(rows, run.coll, ids) /\ doomed' = doomed \ ids
  BY DEF DeleteBatch
<1>2. run.phase = "cleaning" /\ UNCHANGED <<origin, run, feed, task, report>>
  BY DEF DeleteBatch
<1>3. rows' \in Table
  BY <1>1 DEF IndexTyped, Table, Delete
<1>4. IndexTyped'
  BY <1>1, <1>2, <1>3 DEF IndexTyped
<1>5. \A c \in Chunk : c \notin doomed => rows'[c] = rows[c]
  BY <1>1 DEF Delete
<1>6. \A q \in Page : Progress(q)' /\ BatchSplit(q)'
  <2> SUFFICES ASSUME NEW q \in Page PROVE Progress(q)' /\ BatchSplit(q)'
    OBVIOUS
  <2>1. task[q].st = "none" /\ \A i \in 1..task[q].at : task[q].text[i].id \notin doomed
    BY <1>2 DEF AllHeard, DoomedAreStale
  <2>2. \A i \in 1..Len(task[q].text) : task[q].text[i].id \in Chunk
    BY TextOfTask DEF TasksInv, Passage
  <2>3. task[q].at \in Nat
    BY DEF IndexTyped, Task
  <2>4. \A i \in 1..Len(task[q].text) :
          i <= task[q].at \/ task[q].st # "none" =>
            rows'[task[q].text[i].id] = rows[task[q].text[i].id]
    BY <1>5, <2>1, <2>2, <2>3
  <2> QED
    BY <1>2, <2>4, Undisturbed DEF TasksInv
<1>7. TasksInv'
  BY <1>2, <1>6 DEF TasksInv, TextIsRead, PageOnce
<1>8. Touched' = Touched
  BY <1>2 DEF Touched
<1>9. AllHeard' /\ DoomedAreStale'
  BY <1>1, <1>2, <1>8 DEF AllHeard, DoomedAreStale
<1> QED
  BY <1>4, <1>7, <1>9

\* Every step keeps the invariant.
LEMMA IndexInvStep == IndexInv /\ [Next]_vars => IndexInv'
<1> SUFFICES ASSUME IndexInv, [Next]_vars PROVE IndexInv'
  OBVIOUS
<1>1. DOMAIN origin = Page /\ \A p \in Page : origin[p] \in Versions[p]
  BY DEF IndexInv, IndexTyped
<1>2. ASSUME NEW p \in Page, Edit(p) PROVE IndexInv'
  <2>1. PICK text \in Versions[p] : origin' = [origin EXCEPT ![p] = text]
    BY <1>2 DEF Edit
  <2>2. DOMAIN origin' = Page /\ \A q \in Page : origin'[q] \in Versions[q]
    BY <1>1, <2>1
  <2>3. UNCHANGED <<rows, run, feed, task, report, doomed>>
    BY <1>2 DEF Edit
  <2>4. IndexTyped'
    BY <2>2, <2>3 DEF IndexInv, IndexTyped
  <2>5. \A q \in Page : Progress(q)' /\ BatchSplit(q)'
    BY <2>3, Undisturbed DEF IndexInv, TasksInv
  <2>6. TasksInv'
    BY <2>3, <2>5 DEF IndexInv, TasksInv, TextIsRead, PageOnce
  <2> QED
    BY <2>3, <2>4, <2>6 DEF IndexInv, AllHeard, DoomedAreStale, Touched
<1>3. ASSUME NEW k \in Collection, NEW s \in Strategy, NEW f \in ForceUpdate,
             NEW pages \in Listing, RunStart(k, s, f, pages)
      PROVE  IndexInv'
  BY <1>3, RunStartKeeps
<1>4. CASE RunStep
  <2>1. CASE CleanupEnds
    BY <1>1, <2>1, RunMoves DEF CleanupEnds
  <2>2. CASE DropEnds
    BY <1>1, <2>2, RunMoves DEF DropEnds
  <2> QED
    BY <1>4, <2>1, <2>2, SpawnKeeps, HarvestKeeps, CleanupStartKeeps, DeleteKeeps DEF RunStep
<1>5. CASE Failure
  <2>1. CASE FeedFails
    BY <1>1, <2>1, RunMoves DEF FeedFails
  <2>2. CASE CleanupFails
    BY <1>1, <2>2, RunMoves DEF CleanupFails
  <2>3. CASE Abandon
    <3> DEFINE phase == IF run.phase = "feeding" THEN "dropping" ELSE "aborted"
    <3>1. run' = [run EXCEPT !.phase = phase] /\ phase \in {"dropping", "finished", "aborted"}
      BY <2>3 DEF Abandon
    <3>2. UNCHANGED <<origin, rows, feed, task, report>> /\ doomed' = {}
      BY <2>3 DEF Abandon
    <3> HIDE DEF phase
    <3> QED
      BY <1>1, <3>1, <3>2, RunMoves
  <2> QED
    BY <1>5, <2>1, <2>2, <2>3, FailureKeeps DEF Failure
<1>6. ASSUME NEW p \in Page, TaskStep(p) PROVE IndexInv'
  BY <1>6, FetchKeeps, DiffKeeps, UpsertStepKeeps, TouchStepKeeps, DroppedKeeps DEF TaskStep
<1>7. CASE UNCHANGED vars
  <2>1. UNCHANGED <<origin, rows, run, feed, task, report, doomed>>
    BY <1>7 DEF vars
  <2>2. \A q \in Page : Progress(q)' /\ BatchSplit(q)'
    BY <2>1, Undisturbed DEF IndexInv, TasksInv
  <2> QED
    BY <2>1, <2>2 DEF IndexInv, IndexTyped, TasksInv, TextIsRead, PageOnce, AllHeard, DoomedAreStale, Touched
<1> QED
  BY <1>2, <1>3, <1>4, <1>5, <1>6, <1>7 DEF Next

LEMMA IndexKeepsInv == Spec => []IndexInv
  BY IndexInvInit, IndexInvStep, PTL DEF Spec

-----------------------------------------------------------------------------
\* A page reported as indexed or unchanged is in the table as it was read until
\* the next run, whatever the other workers, the cleanup and an aborted run do.
THEOREM ReportedPagesAreStored == Spec => []ReportedIsStored
<1>1. IndexInv => ReportedIsStored
  <2> SUFFICES ASSUME IndexInv, NEW p \in Touched, NEW i \in DOMAIN task[p].text
               PROVE  Stored(task[p].text[i])
    BY DEF ReportedIsStored, Stored
  <2>1. p \in Page /\ task[p].at = Len(task[p].text) /\ Progress(p)
    BY DEF IndexInv, TasksInv, PageOnce, Touched
  <2>2. task[p].text \in Seq(Passage)
    BY <2>1 DEF IndexInv, IndexTyped, Task, Text
  <2>3. i \in 1..task[p].at
    BY <2>1, <2>2
  <2> QED
    BY <2>1, <2>3 DEF Progress, Lasts
<1> QED
  BY <1>1, IndexKeepsInv, PTL

\* A step that is no deletion leaves every row there.
LEMMA RowsStay ==
  ASSUME IndexInv, [Next]_vars, NEW c \in Chunk, rows[c] # NoRow, rows'[c] = NoRow
  PROVE  DeleteBatch
<1>1. ASSUME NEW p \in Page, UpsertDirty(p) \/ TouchUnchanged(p) \/ Dropped(p) PROVE FALSE
  <2>1. IndexTyped /\ TextIsRead /\ Progress(p) /\ BatchSplit(p)
    BY BeforeMove
  <2>2. run'.coll = run.coll /\ run'.start = run.start
    BY <1>1 DEF UpsertDirty, TouchUnchanged, Dropped
  <2>3. CASE rows' = Heartbeat(rows, run.coll, Unchanged(task[p]), run.start)
    BY <2>1, <2>2, <2>3, HeartbeatKeeps
  <2>4. CASE task[p].st = "upserting" /\ rows' = Upsert(rows, run.coll, task[p].dirty)
    <3>1. task[p].dirty \subseteq Batch(task[p])
      BY <2>1, <2>4 DEF BatchSplit
    <3> QED
      BY <2>1, <2>2, <2>4, <3>1, UpsertKeeps
  <2> QED
    BY <1>1, <2>3, <2>4 DEF UpsertDirty, TouchUnchanged, Dropped, Working
<1>2. ASSUME NEW p \in Page, TaskStep(p) PROVE FALSE
  BY <1>1, <1>2 DEF TaskStep, Fetch, Diff
<1>3. CASE Failure
  BY <1>3 DEF Failure, FeedFails, CleanupFails, Abandon, FetchFails, ReaderFails, StoreFails
<1>4. CASE RunStep
  BY <1>4 DEF RunStep, Spawn, Harvest, CleanupStarts, CleanupEnds, DropEnds
<1> QED
  BY <1>2, <1>3, <1>4 DEF Next, Edit, RunStart, vars

\* The cleanup takes rows of its collection alone, after every page of the
\* listing was heard of, and but for the full strategy only of pages that came.
THEOREM CleanupTakesTheStale == Spec => CleanupSparesTheRest
<1>1. ASSUME IndexInv, [Next]_vars, NEW c \in Chunk, rows[c] # NoRow, rows'[c] = NoRow
      PROVE  /\ rows[c].coll = run.coll
             /\ \A p \in run.pages : report[p] # "none"
             /\ run.cleanup # "full" => PageOf[c] \in Touched
  <2>1. DeleteBatch
    BY <1>1, RowsStay
  <2>2. PICK ids \in SUBSET doomed : rows' = Delete(rows, run.coll, ids)
    BY <2>1 DEF DeleteBatch
  <2>3. c \in ids /\ InScope(rows, run.coll, c)
    BY <1>1, <2>2 DEF Delete
  <2>4. InStrategy(run.cleanup, Touched, c) /\ \A p \in run.pages : report[p] # "none"
    BY <1>1, <2>1, <2>2, <2>3 DEF DeleteBatch, IndexInv, DoomedAreStale, AllHeard
  <2> QED
    BY <2>3, <2>4 DEF InScope, InStrategy
<1>2. IndexInv /\ [Next]_vars =>
        [\A c \in Chunk : rows[c] # NoRow /\ rows'[c] = NoRow =>
           /\ rows[c].coll = run.coll
           /\ \A p \in run.pages : report[p] # "none"
           /\ run.cleanup # "full" => PageOf[c] \in Touched]_vars
  BY <1>1
<1> QED
  BY <1>2, IndexKeepsInv, PTL DEF Spec, CleanupSparesTheRest

-----------------------------------------------------------------------------
(* The feed                                                                *)

WikiSource == WikiPage \cup Attachment
FeedTask == [page : WikiPage \cup {None}, todo : Seq(WikiSource),
             read : SUBSET WikiSource, tries : Nat]
FeedTyped ==
  /\ space \in Seq(WikiPage) /\ constant \subseteq WikiPage
  /\ ingest \in [phase : {"idle", "feeding", "finished", "aborted"}, prune : BOOLEAN,
                 force : BOOLEAN, wanted : SUBSET Attachment]
  /\ lister \in [at : Nat \cup {None}, queue : Seq(WikiPage), tries : Nat]
  /\ slot \in [1..PageWorkers -> FeedTask]
  /\ told \in [WikiPage -> {"none", "touched", "failed"}]

\* What a task is to bring of a page.
Wants(p) == {p} \cup {a \in Attachment : AttachedTo[a] = p /\ a \in ingest.wanted}

Brought(p) == Wants(p) \subseteq fresh

\* Nothing is told and no task runs before the run.
NothingYet ==
  ingest.phase = "idle" => slot = [w \in 1..PageWorkers |-> Free] /\ \A p \in WikiPage : told[p] = "none"

\* A page is still to be listed, or waits for a task, or has one, or was told.
ToBeListed(p) == lister.at # None /\ \E j \in 1..Len(space) : j > lister.at /\ space[j] = p
Queued(p) == \E j \in 1..Len(lister.queue) : lister.queue[j] = p
InTask(p) == \E w \in 1..PageWorkers : slot[w].page = p
NoneIsMissed ==
  Feeding => \A p \in constant : ToBeListed(p) \/ Queued(p) \/ InTask(p) \/ told[p] # "none"

\* A task that has the page brings all of it.
Brings(t) ==
  \/ t.page = None \/ t.todo = <<t.page>>
  \/ /\ Wants(t.page) \subseteq ToSet(t.todo) \cup t.read \cup fresh
     /\ t.page \notin ToSet(t.todo)
TasksBring == \A w \in 1..PageWorkers : Brings(slot[w])

TouchedAreBrought == \A p \in WikiPage : told[p] = "touched" => Brought(p)

FeedInv == FeedTyped /\ NothingYet /\ NoneIsMissed /\ TasksBring /\ TouchedAreBrought

-----------------------------------------------------------------------------
(* Sequences                                                               *)

\* What is in the tail or at the head is in the sequence, and nothing else.
LEMMA TailOf ==
  ASSUME NEW S, NEW s \in Seq(S), s # <<>>
  PROVE  /\ Tail(s) \in Seq(S) /\ Head(s) \in S
         /\ ToSet(s) = {Head(s)} \cup ToSet(Tail(s))
<1>1. /\ Len(s) \in Nat \ {0} /\ Tail(s) \in Seq(S) /\ Len(Tail(s)) = Len(s) - 1
      /\ Head(s) = s[1] /\ \A k \in 1..(Len(s) - 1) : Tail(s)[k] = s[k + 1]
  OBVIOUS
<1>2. /\ DOMAIN s = 1..Len(s) /\ DOMAIN Tail(s) = 1..(Len(s) - 1)
  BY <1>1
<1>3. ASSUME NEW x \in ToSet(s) PROVE x \in {Head(s)} \cup ToSet(Tail(s))
  <2>1. PICK k \in 1..Len(s) : x = s[k]
    BY <1>2 DEF ToSet
  <2>2. CASE k = 1
    BY <1>1, <2>1, <2>2
  <2>3. CASE k # 1
    <3>1. k - 1 \in 1..(Len(s) - 1) /\ Tail(s)[k - 1] = s[k]
      BY <1>1, <2>3
    <3> QED
      BY <1>2, <2>1, <3>1 DEF ToSet
  <2> QED
    BY <2>2, <2>3
<1>4. ASSUME NEW x \in ToSet(Tail(s)) PROVE x \in ToSet(s)
  <2>1. PICK k \in 1..(Len(s) - 1) : x = Tail(s)[k]
    BY <1>2 DEF ToSet
  <2>2. k + 1 \in 1..Len(s) /\ x = s[k + 1]
    BY <1>1, <2>1
  <2> QED
    BY <1>2, <2>2 DEF ToSet
<1>5. Head(s) \in ToSet(s) /\ Head(s) \in S
  <2>1. 1 \in 1..Len(s)
    BY <1>1
  <2>2. s[1] \in S
    BY <2>1
  <2> QED
    BY <1>1, <1>2, <2>1, <2>2 DEF ToSet
<1> QED
  BY <1>1, <1>3, <1>4, <1>5

\* A finite set as a sequence has all of it and nothing else.
LEMMA SetAsSequence ==
  ASSUME NEW S, IsFiniteSet(S)
  PROVE  SetToSeq(S) \in Seq(S) /\ ToSet(SetToSeq(S)) = S
<1> DEFINE n == Cardinality(S)
<1>1. n \in Nat
  BY FS_CardinalityType
<1>2. PICK f : f \in Bijection(1..n, S)
  BY FS_NatBijection, FS_CardinalityType DEF ExistsBijection
<1>3. f \in [1..n -> S] /\ IsInjective(f)
  BY <1>2 DEF Bijection, Injection, IsInjective
<1>4. SetToSeq(S) \in [1..n -> S] /\ IsInjective(SetToSeq(S))
  BY <1>3 DEF SetToSeq
<1> HIDE DEF n
<1> DEFINE g == SetToSeq(S)
<1> HIDE DEF g
<1>5. g \in [1..n -> S] /\ IsInjective(g)
  BY <1>4 DEF g
<1>6. g \in Injection(1..n, S)
  BY <1>5 DEF Injection, IsInjective
<1>7. IsFiniteSet(1..n) /\ Cardinality(1..n) = n
  BY <1>1, FS_Interval
<1>8. g \in Surjection(1..n, S)
  BY <1>6, <1>7, FS_Injection DEF n
<1>9. ToSet(g) = S
  BY <1>5, <1>8 DEF Surjection, ToSet
<1>10. g \in Seq(S)
  BY <1>1, <1>5
<1> QED
  BY <1>9, <1>10 DEF g
\* What is cut out of a sequence keeps its order.
LEMMA CutOut ==
  ASSUME NEW S, NEW s \in Seq(S), NEW a \in Nat \ {0}, NEW b \in Nat, b <= Len(s)
  PROVE  /\ SubSeq(s, a, b) \in Seq(S)
         /\ Len(SubSeq(s, a, b)) = IF a <= b THEN b - a + 1 ELSE 0
         /\ \A k \in 1..Len(SubSeq(s, a, b)) : SubSeq(s, a, b)[k] = s[a + k - 1]
<1>1. Len(s) \in Nat /\ \A k \in 1..Len(s) : s[k] \in S
  OBVIOUS
<1>2. CASE a <= b
  <2>1. Len(SubSeq(s, a, b)) = b - a + 1
    BY <1>1, <1>2
  <2>2. \A k \in 1..(b - a + 1) : SubSeq(s, a, b)[k] = s[a + k - 1]
    BY <1>1, <1>2
  <2>3. SubSeq(s, a, b) \in Seq(S)
    BY <1>1, <1>2
  <2> QED
    BY <1>2, <2>1, <2>2, <2>3
<1>3. CASE a > b
  <2>1. SubSeq(s, a, b) = <<>>
    BY <1>1, <1>3
  <2> QED
    BY <1>3, <2>1
<1> QED
  BY <1>2, <1>3

\* One sequence after another.
LEMMA Joined ==
  ASSUME NEW S, NEW s \in Seq(S), NEW t \in Seq(S)
  PROVE  /\ s \o t \in Seq(S) /\ Len(s \o t) = Len(s) + Len(t)
         /\ \A k \in 1..Len(s) : (s \o t)[k] = s[k]
         /\ \A k \in 1..Len(t) : (s \o t)[Len(s) + k] = t[k]
<1>1. s \o t \in Seq(S) /\ Len(s \o t) = Len(s) + Len(t) /\ Len(s) \in Nat /\ Len(t) \in Nat
  OBVIOUS
<1>2. \A k \in 1..Len(s) : (s \o t)[k] = s[k]
  BY <1>1
<1>3. ASSUME NEW k \in 1..Len(t) PROVE (s \o t)[Len(s) + k] = t[k]
  BY <1>1
<1> QED
  BY <1>1, <1>2, <1>3

\* Without one element: those behind it move up.
LEMMA RemoveAtMoves ==
  ASSUME NEW S, NEW s \in Seq(S), NEW i \in 1..Len(s)
  PROVE  /\ RemoveAt(s, i) \in Seq(S) /\ Len(RemoveAt(s, i)) = Len(s) - 1
         /\ \A j \in 1..(i - 1) : RemoveAt(s, i)[j] = s[j]
         /\ \A j \in (i + 1)..Len(s) : RemoveAt(s, i)[j - 1] = s[j]
<1> DEFINE a == SubSeq(s, 1, i - 1)
           b == SubSeq(s, i + 1, Len(s))
<1>1. Len(s) \in Nat /\ i \in Nat /\ i >= 1 /\ i <= Len(s) /\ i - 1 \in Nat
  OBVIOUS
<1>2. a \in Seq(S) /\ Len(a) = i - 1 /\ \A k \in 1..(i - 1) : a[k] = s[k]
  BY <1>1, CutOut
<1>3. /\ b \in Seq(S) /\ Len(b) = Len(s) - i
      /\ \A k \in 1..(Len(s) - i) : b[k] = s[i + k]
  <2>1. /\ b \in Seq(S) /\ Len(b) = IF i + 1 <= Len(s) THEN Len(s) - (i + 1) + 1 ELSE 0
        /\ \A k \in 1..Len(b) : b[k] = s[(i + 1) + k - 1]
    BY <1>1, CutOut
  <2>2. Len(b) = Len(s) - i
    BY <1>1, <2>1
  <2>3. \A k \in 1..(Len(s) - i) : (i + 1) + k - 1 = i + k
    BY <1>1
  <2> QED
    BY <2>1, <2>2, <2>3
<1>4. RemoveAt(s, i) = a \o b
  BY DEF RemoveAt
<1> HIDE DEF a, b
<1>5. /\ a \o b \in Seq(S) /\ Len(a \o b) = Len(a) + Len(b)
      /\ \A k \in 1..Len(a) : (a \o b)[k] = a[k]
      /\ \A k \in 1..Len(b) : (a \o b)[Len(a) + k] = b[k]
  <2>1. a \in Seq(S) /\ b \in Seq(S)
    BY <1>2, <1>3
  <2> QED
    BY <2>1, Joined
<1>6. ASSUME NEW j \in (i + 1)..Len(s) PROVE (a \o b)[j - 1] = s[j]
  <2>1. j - i \in 1..(Len(s) - i) /\ j - 1 = (i - 1) + (j - i) /\ i + (j - i) = j
    BY <1>1
  <2>2. b[j - i] = s[i + (j - i)]
    BY <1>3, <2>1
  <2>3. (a \o b)[(i - 1) + (j - i)] = b[j - i]
    BY <1>2, <1>3, <1>5, <2>1
  <2> QED
    BY <2>1, <2>2, <2>3
<1> QED
  BY <1>1, <1>2, <1>3, <1>4, <1>5, <1>6

\* With one element more: those from there on move down.
LEMMA InsertAtMoves ==
  ASSUME NEW S, NEW s \in Seq(S), NEW e \in S, NEW i \in 1..(Len(s) + 1)
  PROVE  /\ InsertAt(s, i, e) \in Seq(S) /\ Len(InsertAt(s, i, e)) = Len(s) + 1
         /\ \A j \in 1..(i - 1) : InsertAt(s, i, e)[j] = s[j]
         /\ \A j \in i..Len(s) : InsertAt(s, i, e)[j + 1] = s[j]
<1> DEFINE a == SubSeq(s, 1, i - 1)
           b == SubSeq(s, i, Len(s))
           c == a \o <<e>>
<1>1. Len(s) \in Nat /\ i \in Nat /\ i >= 1 /\ i <= Len(s) + 1 /\ i - 1 \in Nat
  OBVIOUS
<1>2. a \in Seq(S) /\ Len(a) = i - 1 /\ \A k \in 1..(i - 1) : a[k] = s[k]
  BY <1>1, CutOut
<1>3. /\ b \in Seq(S) /\ Len(b) = Len(s) - i + 1
      /\ \A k \in 1..(Len(s) - i + 1) : b[k] = s[i + k - 1]
  <2>1. /\ b \in Seq(S) /\ Len(b) = IF i <= Len(s) THEN Len(s) - i + 1 ELSE 0
        /\ \A k \in 1..Len(b) : b[k] = s[i + k - 1]
    BY <1>1, CutOut
  <2>2. Len(b) = Len(s) - i + 1
    BY <1>1, <2>1
  <2> QED
    BY <2>1, <2>2
<1>4. InsertAt(s, i, e) = c \o b
  BY DEF InsertAt
<1> HIDE DEF a, b
<1>5. <<e>> \in Seq(S) /\ Len(<<e>>) = 1
  OBVIOUS
<1>6. /\ c \in Seq(S) /\ Len(c) = i /\ \A k \in 1..(i - 1) : c[k] = s[k]
  <2>1. /\ c \in Seq(S) /\ Len(c) = Len(a) + Len(<<e>>)
        /\ \A k \in 1..Len(a) : c[k] = a[k]
    BY <1>2, <1>5, Joined
  <2>2. Len(c) = i
    BY <1>1, <1>2, <1>5, <2>1
  <2> QED
    BY <1>2, <2>1, <2>2
<1> HIDE DEF c
<1>7. /\ c \o b \in Seq(S) /\ Len(c \o b) = Len(c) + Len(b)
      /\ \A k \in 1..Len(c) : (c \o b)[k] = c[k]
      /\ \A k \in 1..Len(b) : (c \o b)[Len(c) + k] = b[k]
  BY <1>3, <1>6, Joined
<1>8. ASSUME NEW j \in i..Len(s) PROVE (c \o b)[j + 1] = s[j]
  <2>1. /\ j - i + 1 \in 1..(Len(s) - i + 1) /\ j + 1 = i + (j - i + 1)
        /\ i + (j - i + 1) - 1 = j
    BY <1>1
  <2>2. b[j - i + 1] = s[i + (j - i + 1) - 1]
    BY <1>3, <2>1
  <2>3. (c \o b)[i + (j - i + 1)] = b[j - i + 1]
    BY <1>3, <1>6, <1>7, <2>1
  <2> QED
    BY <2>1, <2>2, <2>3
<1>9. ASSUME NEW j \in 1..(i - 1) PROVE (c \o b)[j] = s[j]
  <2>1. j \in 1..Len(c)
    BY <1>1, <1>6
  <2> QED
    BY <1>6, <1>7, <2>1
<1>10. Len(c) + Len(b) = Len(s) + 1
  BY <1>1, <1>3, <1>6
<1> QED
  BY <1>4, <1>7, <1>8, <1>9, <1>10

-----------------------------------------------------------------------------
(* The steps of the feed keep FeedInv                                      *)

LEMMA FeedInvInit == FeedInit => FeedInv
<1> SUFFICES ASSUME FeedInit PROVE FeedInv
  OBVIOUS
<1> USE FeedAssumption DEF FeedInit, NoListing, Free
<1>1. FeedTyped
  <2>1. Free \in FeedTask
    BY DEF FeedTask
  <2>2. lister \in [at : Nat \cup {None}, queue : Seq(WikiPage), tries : Nat]
    OBVIOUS
  <2> QED
    BY <2>1, <2>2 DEF FeedTyped
<1> QED
  BY <1>1 DEF FeedInv, NothingYet, NoneIsMissed, Feeding, TasksBring, Brings, TouchedAreBrought

\* What the wiki does leaves the run alone but for what is still to be listed.
LEMMA WikiKeeps ==
  ASSUME FeedInv, UNCHANGED <<ingest, lister, slot, stored, fresh, told>>,
         space' \in Seq(WikiPage), constant' \subseteq constant,
         Feeding => \A p \in constant' : ToBeListed(p) => ToBeListed(p)'
  PROVE  FeedInv'
<1> USE DEF FeedInv
<1>1. FeedTyped'
  BY DEF FeedTyped
<1>2. NothingYet'
  BY DEF NothingYet
<1>3. NoneIsMissed'
  BY DEF NoneIsMissed, Feeding, Queued, InTask
<1>4. TasksBring'
  BY DEF TasksBring, Brings, Wants
<1>5. TouchedAreBrought'
  BY DEF TouchedAreBrought, Brought, Wants
<1> QED
  BY <1>1, <1>2, <1>3, <1>4, <1>5

LEMMA RemovePageKeeps ==
  ASSUME FeedInv, NEW i \in DOMAIN space, RemovePage(i)
  PROVE  FeedInv'
<1>1. /\ space \in Seq(WikiPage) /\ i \in 1..Len(space) /\ Len(space) \in Nat
      /\ space' = RemoveAt(space, i)
      /\ UNCHANGED <<ingest, lister, slot, stored, fresh, told>>
  BY DEF RemovePage, FeedInv, FeedTyped
<1>2. /\ space' \in Seq(WikiPage) /\ Len(space') = Len(space) - 1
      /\ \A j \in 1..(i - 1) : space'[j] = space[j]
      /\ \A j \in (i + 1)..Len(space) : space'[j - 1] = space[j]
  BY <1>1, RemoveAtMoves
<1>3. constant' \subseteq constant
  BY DEF RemovePage
<1>4. ASSUME NEW p \in constant', ToBeListed(p) PROVE ToBeListed(p)'
  <2>1. PICK j \in 1..Len(space) : j > lister.at /\ space[j] = p
    BY <1>4 DEF ToBeListed
  <2>2. lister.at # None /\ lister.at \in Nat /\ lister' = lister
    BY <1>1, <1>4 DEF ToBeListed, FeedInv, FeedTyped
  <2>3. i > lister.at /\ p # space[i]
    BY <1>1, <2>2 DEF RemovePage
  <2>4. j # i
    BY <2>1, <2>3
  <2>5. CASE j < i
    <3>1. j \in 1..Len(space') /\ space'[j] = p
      BY <1>1, <1>2, <2>1, <2>5
    <3> QED
      BY <2>1, <2>2, <3>1 DEF ToBeListed
  <2>6. CASE j > i
    <3>1. /\ j \in (i + 1)..Len(space) /\ j - 1 \in 1..(Len(space) - 1)
          /\ j - 1 > lister.at
      BY <1>1, <2>1, <2>2, <2>3, <2>6
    <3>2. j - 1 \in 1..Len(space') /\ space'[j - 1] = p
      BY <1>2, <2>1, <3>1
    <3> QED
      BY <2>2, <3>1, <3>2 DEF ToBeListed
  <2> QED
    BY <2>1, <2>4, <2>5, <2>6, <1>1
<1> QED
  BY <1>1, <1>2, <1>3, <1>4, WikiKeeps

LEMMA AddPageKeeps ==
  ASSUME FeedInv, NEW q \in WikiPage, NEW i \in 1..(Len(space) + 1), AddPage(q, i)
  PROVE  FeedInv'
<1>1. /\ space \in Seq(WikiPage) /\ Len(space) \in Nat
      /\ space' = InsertAt(space, i, q)
      /\ UNCHANGED <<ingest, lister, slot, stored, fresh, told, constant>>
  BY DEF AddPage, FeedInv, FeedTyped
<1>2. /\ space' \in Seq(WikiPage) /\ Len(space') = Len(space) + 1
      /\ \A j \in 1..(i - 1) : space'[j] = space[j]
      /\ \A j \in i..Len(space) : space'[j + 1] = space[j]
  BY <1>1, InsertAtMoves
<1>3. ASSUME NEW p \in constant', ToBeListed(p) PROVE ToBeListed(p)'
  <2>1. PICK j \in 1..Len(space) : j > lister.at /\ space[j] = p
    BY <1>3 DEF ToBeListed
  <2>2. lister.at # None /\ lister.at \in Nat /\ lister' = lister
    BY <1>1, <1>3 DEF ToBeListed, FeedInv, FeedTyped
  <2>3. CASE j < i
    <3>1. j \in 1..(i - 1) /\ j \in 1..(Len(space) + 1)
      BY <1>1, <2>1, <2>3
    <3>2. j \in 1..Len(space') /\ space'[j] = p
      BY <1>2, <2>1, <3>1
    <3> QED
      BY <2>1, <2>2, <3>2 DEF ToBeListed
  <2>4. CASE j >= i
    <3>1. /\ j \in i..Len(space) /\ j + 1 \in 1..(Len(space) + 1)
          /\ j + 1 > lister.at
      BY <1>1, <2>1, <2>2, <2>4
    <3>2. j + 1 \in 1..Len(space') /\ space'[j + 1] = p
      BY <1>2, <2>1, <3>1
    <3> QED
      BY <2>2, <3>1, <3>2 DEF ToBeListed
  <2> QED
    BY <1>1, <2>1, <2>3, <2>4
<1> QED
  BY <1>1, <1>2, <1>3, WikiKeeps
\* A step of one task: it goes on bringing its page, or has told what became of it.
LEMMA TaskKeeps ==
  ASSUME FeedInv, Feeding, NEW w \in 1..PageWorkers, slot[w].page # None,
         NEW t \in FeedTask, slot' = [slot EXCEPT ![w] = t], Brings(t)',
         UNCHANGED <<space, ingest, lister, constant>>, fresh \subseteq fresh',
         told' \in [WikiPage -> {"none", "touched", "failed"}],
         \A p \in WikiPage : \/ told'[p] = told[p]
                             \/ p = slot[w].page /\ told'[p] = "failed"
                             \/ p = slot[w].page /\ told'[p] = "touched" /\ Brought(p)',
         t.page = slot[w].page \/ told'[slot[w].page] # "none"
  PROVE  FeedInv'
<1>1. FeedTyped'
  BY DEF FeedInv, FeedTyped
<1>2. NothingYet'
  BY DEF NothingYet, Feeding
<1>3. slot'[w] = t /\ \A v \in 1..PageWorkers : v # w => slot'[v] = slot[v]
  BY DEF FeedInv, FeedTyped
<1>4. ASSUME NEW p \in constant'
      PROVE  (ToBeListed(p) \/ Queued(p) \/ InTask(p) \/ told[p] # "none")'
  <2>1. p \in WikiPage /\ (ToBeListed(p) \/ Queued(p) \/ InTask(p) \/ told[p] # "none")
    BY DEF FeedInv, FeedTyped, NoneIsMissed
  <2>2. CASE ToBeListed(p) \/ Queued(p)
    BY <2>2 DEF ToBeListed, Queued
  <2>3. CASE told[p] # "none"
    <3>1. told'[p] # "none"
      BY <2>1, <2>3
    <3> QED
      BY <3>1
  <2>4. CASE InTask(p)
    BY <1>3, <2>4 DEF InTask
  <2> QED
    BY <2>1, <2>2, <2>3, <2>4
<1>5. NoneIsMissed'
  BY <1>4 DEF NoneIsMissed
<1>6. ASSUME NEW v \in 1..PageWorkers PROVE Brings(slot[v])'
  <2>1. CASE v = w
    BY <1>3, <2>1 DEF Brings, Wants
  <2>2. CASE v # w
    <3>1. Brings(slot[v])
      BY DEF FeedInv, TasksBring
    <3> QED
      BY <1>3, <2>2, <3>1 DEF Brings, Wants
  <2> QED
    BY <2>1, <2>2
<1>7. TasksBring'
  BY <1>6 DEF TasksBring
<1>8. TouchedAreBrought'
  BY DEF FeedInv, TouchedAreBrought, Brought, Wants
<1> QED
  BY <1>1, <1>2, <1>5, <1>7, <1>8 DEF FeedInv

LEMMA FetchPageKeeps ==
  ASSUME FeedInv, NEW w \in 1..PageWorkers, FetchPage(w), slot[w].page \in ToSet(space)
  PROVE  FeedInv'
<1> DEFINE p == slot[w].page
<1>1. /\ Feeding /\ p # None /\ p \in WikiPage /\ slot[w] \in FeedTask
      /\ slot' = [slot EXCEPT ![w].todo = ToFetch(p), ![w].tries = 0, ![w].read = {p}]
      /\ UNCHANGED <<ingest, lister, space, changes, stored, fresh, told, constant>>
  BY DEF FetchPage, IsFree, FeedInv, FeedTyped, FeedTask
<1>2. PICK t : t = [slot[w] EXCEPT !.todo = ToFetch(p), !.tries = 0, !.read = {p}]
  OBVIOUS
<1>3. slot' = [slot EXCEPT ![w] = t]
  BY <1>1, <1>2 DEF FeedInv, FeedTyped
<1> DEFINE A == {a \in Attachment : AttachedTo[a] = p /\ a \in ingest.wanted}
<1>4. IsFiniteSet(A)
  BY FS_Subset, FeedAssumption
<1>5. ToFetch(p) \in Seq(A) /\ ToSet(ToFetch(p)) = A
  BY <1>4, SetAsSequence DEF ToFetch
<1>6. t \in FeedTask /\ t.page = p /\ t.todo = ToFetch(p) /\ t.read = {p}
  <2>1. A \subseteq WikiSource
    BY DEF WikiSource
  <2>2. ToFetch(p) \in Seq(WikiSource)
    BY <1>5, <2>1
  <2> QED
    BY <1>1, <1>2, <2>2 DEF FeedTask, WikiSource
<1>7. Wants(p) = {p} \cup A /\ p \notin A
  BY <1>1, FeedAssumption DEF Wants
<1>8. PICK q : q = p
  OBVIOUS
<1>9. Wants(q)' = {q} \cup A
  BY <1>1, <1>7, <1>8 DEF Wants
<1>10. Brings(t)'
  BY <1>5, <1>6, <1>7, <1>8, <1>9 DEF Brings
<1>11. told' \in [WikiPage -> {"none", "touched", "failed"}]
  BY <1>1 DEF FeedInv, FeedTyped
<1> QED
  BY <1>1, <1>3, <1>6, <1>10, <1>11, TaskKeeps

LEMMA FetchAttachmentKeeps ==
  ASSUME FeedInv, NEW w \in 1..PageWorkers, FetchAttachment(w)
  PROVE  FeedInv'
<1> DEFINE p == slot[w].page
           a == Head(slot[w].todo)
<1>1. /\ Feeding /\ p # None /\ p \in WikiPage /\ slot[w] \in FeedTask
      /\ slot[w].todo # <<>> /\ a # p
      /\ UNCHANGED <<space, changes, ingest, lister, stored, fresh, constant>>
  BY DEF FetchAttachment, IsFree, FeedInv, FeedTyped, FeedTask
<1>2. CASE a \in Unreadable
  <2>1. told' = [told EXCEPT ![p] = "failed"] /\ slot' = [slot EXCEPT ![w] = Free]
    BY <1>2 DEF FetchAttachment
  <2>2. Free \in FeedTask /\ Brings(Free)'
    BY DEF Free, FeedTask, Brings
  <2>3. /\ told' \in [WikiPage -> {"none", "touched", "failed"}]
        /\ told'[p] = "failed" /\ \A q \in WikiPage : q # p => told'[q] = told[q]
    BY <1>1, <2>1 DEF FeedInv, FeedTyped
  <2> QED
    BY <1>1, <2>1, <2>2, <2>3, TaskKeeps
<1>3. CASE a \notin Unreadable
  <2>1. /\ slot' = [slot EXCEPT ![w].todo = Tail(@), ![w].tries = 0, ![w].read = @ \cup {a}]
        /\ told' = told
    BY <1>3 DEF FetchAttachment
  <2>2. PICK t : t = [slot[w] EXCEPT !.todo = Tail(@), !.tries = 0, !.read = @ \cup {a}]
    OBVIOUS
  <2>3. slot' = [slot EXCEPT ![w] = t]
    BY <2>1, <2>2 DEF FeedInv, FeedTyped
  <2>4. /\ slot[w].todo \in Seq(WikiSource) /\ slot[w].read \subseteq WikiSource
    BY <1>1 DEF FeedTask
  <2>5. /\ Tail(slot[w].todo) \in Seq(WikiSource) /\ a \in WikiSource
        /\ ToSet(slot[w].todo) = {a} \cup ToSet(Tail(slot[w].todo))
    BY <1>1, <2>4, TailOf
  <2>6. /\ t \in FeedTask /\ t.page = p
        /\ t.todo = Tail(slot[w].todo) /\ t.read = slot[w].read \cup {a}
    BY <1>1, <2>2, <2>4, <2>5 DEF FeedTask
  <2>7. slot[w].todo # <<p>>
    BY <1>1
  <2>8. /\ Wants(p) \subseteq ToSet(slot[w].todo) \cup slot[w].read \cup fresh
        /\ p \notin ToSet(slot[w].todo)
    BY <1>1, <2>7 DEF FeedInv, TasksBring, Brings
  <2>9. Wants(p) \subseteq ToSet(t.todo) \cup t.read \cup fresh /\ p \notin ToSet(t.todo)
    BY <2>5, <2>6, <2>8
  <2>10. Brings(t)'
    BY <1>1, <2>6, <2>9 DEF Brings, Wants
  <2>11. told' \in [WikiPage -> {"none", "touched", "failed"}]
    BY <2>1 DEF FeedInv, FeedTyped
  <2> QED
    BY <1>1, <2>1, <2>3, <2>6, <2>10, <2>11, TaskKeeps
<1> QED
  BY <1>2, <1>3
LEMMA WriteBatchKeeps ==
  ASSUME FeedInv, NEW w \in 1..PageWorkers, WriteBatch(w)
  PROVE  FeedInv'
<1>1. /\ Feeding /\ slot[w].page # None /\ slot[w] \in FeedTask
      /\ slot' = [slot EXCEPT ![w].read = {}] /\ fresh' = fresh \cup slot[w].read
      /\ UNCHANGED <<space, changes, ingest, lister, told, constant>>
  BY DEF WriteBatch, Written, IsFree, FeedInv, FeedTyped
<1>2. PICK t : t = [slot[w] EXCEPT !.read = {}]
  OBVIOUS
<1>3. slot' = [slot EXCEPT ![w] = t]
  BY <1>1, <1>2 DEF FeedInv, FeedTyped
<1>4. t \in FeedTask /\ t.page = slot[w].page /\ t.todo = slot[w].todo /\ t.read = {}
  BY <1>1, <1>2 DEF FeedTask
<1>5. Brings(slot[w])
  BY DEF FeedInv, TasksBring
<1>6. Brings(t)'
  BY <1>1, <1>4, <1>5 DEF Brings, Wants
<1>7. told' \in [WikiPage -> {"none", "touched", "failed"}]
  BY <1>1 DEF FeedInv, FeedTyped
<1> QED
  BY <1>1, <1>3, <1>4, <1>6, <1>7, TaskKeeps

LEMMA PageDoneKeeps ==
  ASSUME FeedInv, NEW w \in 1..PageWorkers, PageDone(w)
  PROVE  FeedInv'
<1> DEFINE p == slot[w].page
<1>1. /\ Feeding /\ p # None /\ p \in WikiPage /\ slot[w].todo = <<>>
      /\ slot' = [slot EXCEPT ![w] = Free] /\ fresh' = fresh \cup slot[w].read
      /\ told' = [told EXCEPT ![p] = "touched"]
      /\ UNCHANGED <<space, changes, ingest, lister, constant>>
  BY DEF PageDone, Written, IsFree, FeedInv, FeedTyped, FeedTask
<1>2. Free \in FeedTask /\ Brings(Free)'
  BY DEF Free, FeedTask, Brings
<1>3. Wants(p) \subseteq slot[w].read \cup fresh
  <2>1. Brings(slot[w]) /\ ToSet(slot[w].todo) = {} /\ slot[w].todo # <<p>>
    BY <1>1 DEF FeedInv, TasksBring, ToSet
  <2> QED
    BY <1>1, <2>1 DEF Brings
<1>4. \A q \in WikiPage : q = p => Brought(q)'
  BY <1>1, <1>3 DEF Brought, Wants
<1>5. /\ told' \in [WikiPage -> {"none", "touched", "failed"}]
      /\ told'[p] = "touched" /\ \A q \in WikiPage : q # p => told'[q] = told[q]
  BY <1>1 DEF FeedInv, FeedTyped
<1> QED
  BY <1>1, <1>2, <1>4, <1>5, TaskKeeps

\* A run that is over has nothing to bring any more.
LEMMA OverKeeps ==
  ASSUME FeedInv, NEW phase \in {"aborted", "finished"},
         ingest' = [ingest EXCEPT !.phase = phase],
         lister' \in {lister, NoListing}, slot' \in {slot, [w \in DOMAIN slot |-> Free]},
         UNCHANGED <<space, fresh, told, constant>>
  PROVE  FeedInv'
<1>1. /\ DOMAIN slot = 1..PageWorkers /\ ingest'.phase = phase
      /\ ingest'.wanted = ingest.wanted
  BY DEF FeedInv, FeedTyped
<1>2. Free \in FeedTask /\ NoListing \in [at : Nat \cup {None}, queue : Seq(WikiPage), tries : Nat]
  BY DEF Free, FeedTask, NoListing
<1>3. slot' \in [1..PageWorkers -> FeedTask]
  BY <1>1, <1>2 DEF FeedInv, FeedTyped
<1>4. FeedTyped'
  BY <1>2, <1>3 DEF FeedInv, FeedTyped
<1>5. NothingYet' /\ NoneIsMissed'
  BY <1>1 DEF NothingYet, NoneIsMissed, Feeding
<1>6. ASSUME NEW w \in 1..PageWorkers PROVE Brings(slot[w])'
  <2>1. slot'[w] = slot[w] \/ slot'[w] = Free
    BY <1>1
  <2>2. Brings(slot[w])
    BY DEF FeedInv, TasksBring
  <2> QED
    BY <1>1, <2>1, <2>2 DEF Brings, Wants, Free
<1>7. TasksBring' /\ TouchedAreBrought'
  BY <1>1, <1>6 DEF FeedInv, TasksBring, TouchedAreBrought, Brought, Wants
<1> QED
  BY <1>4, <1>5, <1>7 DEF FeedInv

\* A request that failed is tried again with all else as it was.
LEMMA FetchBreaksKeeps ==
  ASSUME FeedInv, NEW w \in 1..PageWorkers, NEW retryable \in BOOLEAN,
         FetchBreaks(w, retryable)
  PROVE  FeedInv'
<1>1. CASE Aborted
  BY <1>1, OverKeeps DEF Aborted, FetchBreaks
<1>2. CASE ~Aborted
  <2>1. /\ Feeding /\ slot[w].page # None /\ slot[w] \in FeedTask
        /\ slot' = [slot EXCEPT ![w].tries = @ + 1]
        /\ UNCHANGED <<space, changes, ingest, lister, stored, fresh, told, constant>>
    BY <1>2 DEF FetchBreaks, IsFree, FeedInv, FeedTyped
  <2>2. PICK t : t = [slot[w] EXCEPT !.tries = @ + 1]
    OBVIOUS
  <2>3. slot' = [slot EXCEPT ![w] = t]
    BY <2>1, <2>2 DEF FeedInv, FeedTyped
  <2>4. /\ t \in FeedTask /\ t.page = slot[w].page
        /\ t.todo = slot[w].todo /\ t.read = slot[w].read
    BY <2>1, <2>2 DEF FeedTask
  <2>5. Brings(slot[w])
    BY DEF FeedInv, TasksBring
  <2>6. Brings(t)'
    BY <2>1, <2>4, <2>5 DEF Brings, Wants
  <2>7. told' \in [WikiPage -> {"none", "touched", "failed"}]
    BY <2>1 DEF FeedInv, FeedTyped
  <2> QED
    BY <2>1, <2>3, <2>4, <2>6, <2>7, TaskKeeps
<1> QED
  BY <1>1, <1>2

\* A step of the paginator.
LEMMA ListerKeeps ==
  ASSUME FeedInv, Feeding, UNCHANGED <<space, ingest, slot, fresh, told>>,
         lister' \in [at : Nat \cup {None}, queue : Seq(WikiPage), tries : Nat],
         constant' \subseteq constant,
         \A p \in constant' : ToBeListed(p) \/ Queued(p) => (ToBeListed(p) \/ Queued(p))'
  PROVE  FeedInv'
<1>1. FeedTyped'
  BY DEF FeedInv, FeedTyped
<1>2. NothingYet'
  BY DEF NothingYet, Feeding
<1>3. ASSUME NEW p \in constant'
      PROVE  (ToBeListed(p) \/ Queued(p) \/ InTask(p) \/ told[p] # "none")'
  <2>1. ToBeListed(p) \/ Queued(p) \/ InTask(p) \/ told[p] # "none"
    BY DEF FeedInv, NoneIsMissed
  <2>2. InTask(p) => InTask(p)'
    BY DEF InTask
  <2> QED
    BY <2>1, <2>2
<1>4. NoneIsMissed'
  BY <1>3 DEF NoneIsMissed
<1>5. TasksBring' /\ TouchedAreBrought'
  BY DEF FeedInv, TasksBring, Brings, TouchedAreBrought, Brought, Wants
<1> QED
  BY <1>1, <1>2, <1>4, <1>5 DEF FeedInv

LEMMA ListNothingKeeps ==
  ASSUME FeedInv, ListNothing
  PROVE  FeedInv'
<1>1. NoListing \in [at : Nat \cup {None}, queue : Seq(WikiPage), tries : Nat]
  BY DEF NoListing
<1> QED
  BY <1>1, ListerKeeps DEF ListNothing

LEMMA ListFailsKeeps ==
  ASSUME FeedInv, NEW retryable \in BOOLEAN, ListFails(retryable)
  PROVE  FeedInv'
<1>1. CASE Aborted
  BY <1>1, OverKeeps DEF Aborted, ListFails
<1>2. CASE ~Aborted
  <2>1. /\ Feeding /\ lister' = [lister EXCEPT !.tries = @ + 1]
        /\ UNCHANGED <<space, changes, ingest, slot, stored, fresh, told, constant>>
    BY <1>2 DEF ListFails
  <2>2. /\ lister' \in [at : Nat \cup {None}, queue : Seq(WikiPage), tries : Nat]
        /\ lister'.at = lister.at /\ lister'.queue = lister.queue
    BY <2>1 DEF FeedInv, FeedTyped
  <2>3. \A p \in constant' : ToBeListed(p) \/ Queued(p) => (ToBeListed(p) \/ Queued(p))'
    BY <2>1, <2>2 DEF ToBeListed, Queued
  <2> QED
    BY <2>1, <2>2, <2>3, ListerKeeps
<1> QED
  BY <1>1, <1>2

\* What was still to be listed is in the batch or behind it.
LEMMA ListBatchKeeps ==
  ASSUME FeedInv, ListBatch
  PROVE  FeedInv'
<1> DEFINE to == lister.at + PageLimit
           end == IF to < Len(space) THEN to ELSE Len(space)
<1>1. /\ Feeding /\ lister.at \in Nat /\ lister.queue = <<>>
      /\ space \in Seq(WikiPage) /\ Len(space) \in Nat /\ PageLimit \in Nat \ {0}
      /\ UNCHANGED <<space, changes, ingest, slot, stored, fresh, told, constant>>
  BY FeedAssumption DEF ListBatch, FeedInv, FeedTyped
<1>2. lister' = [at |-> IF to < Len(space) THEN to ELSE None, tries |-> 0,
                 queue |-> SubSeq(space, lister.at + 1, end)]
  BY DEF ListBatch
<1>3. /\ lister'.at = IF to < Len(space) THEN to ELSE None
      /\ lister'.queue = SubSeq(space, lister.at + 1, end)
  BY <1>2
<1>4. end \in Nat /\ end <= Len(space) /\ to \in Nat /\ lister.at + 1 \in Nat \ {0}
  BY <1>1
<1>5. /\ SubSeq(space, lister.at + 1, end) \in Seq(WikiPage)
      /\ Len(SubSeq(space, lister.at + 1, end))
           = IF lister.at + 1 <= end THEN end - (lister.at + 1) + 1 ELSE 0
      /\ \A k \in 1..Len(SubSeq(space, lister.at + 1, end)) :
           SubSeq(space, lister.at + 1, end)[k] = space[lister.at + 1 + k - 1]
  <2>1. PICK s \in Seq(WikiPage), a \in Nat \ {0}, b \in Nat :
          s = space /\ a = lister.at + 1 /\ b = end /\ b <= Len(s)
    BY <1>1, <1>4
  <2>2. /\ SubSeq(s, a, b) \in Seq(WikiPage)
        /\ Len(SubSeq(s, a, b)) = IF a <= b THEN b - a + 1 ELSE 0
        /\ \A k \in 1..Len(SubSeq(s, a, b)) : SubSeq(s, a, b)[k] = s[a + k - 1]
    BY <2>1, CutOut
  <2> QED
    BY <2>1, <2>2, Zenon
<1>6. lister' \in [at : Nat \cup {None}, queue : Seq(WikiPage), tries : Nat]
  BY <1>2, <1>4, <1>5
<1>7. ASSUME NEW p \in constant', ToBeListed(p) \/ Queued(p)
      PROVE  (ToBeListed(p) \/ Queued(p))'
  <2>1. PICK j \in 1..Len(space) : j > lister.at /\ space[j] = p
    <3>1. ~Queued(p)
      BY <1>1 DEF Queued
    <3> QED
      BY <1>7, <3>1 DEF ToBeListed
  <2>2. CASE j <= end
    <3>1. /\ lister.at + 1 <= end /\ j - lister.at \in 1..(end - (lister.at + 1) + 1)
          /\ lister.at + 1 + (j - lister.at) - 1 = j
      <4> HIDE DEF end, to
      <4>1. j \in Nat /\ lister.at \in Nat /\ end \in Nat /\ j > lister.at /\ j <= end
        BY <1>1, <1>4, <2>1, <2>2
      <4> QED
        BY <4>1
    <3>2. /\ j - lister.at \in 1..Len(lister'.queue)
          /\ lister'.queue[j - lister.at] = p
      BY <1>3, <1>5, <2>1, <3>1
    <3> QED
      BY <3>2 DEF Queued
  <2>3. CASE j > end
    <3>1. to < Len(space) /\ j > to
      BY <1>1, <1>4, <2>1, <2>3
    <3>2. lister'.at = to /\ to # None
      BY <1>3, <1>4, <3>1, FeedAssumption
    <3> QED
      BY <1>1, <2>1, <3>1, <3>2 DEF ToBeListed
  <2> QED
    BY <1>4, <2>1, <2>2, <2>3
<1> QED
  BY <1>1, <1>6, <1>7, ListerKeeps

\* The first of the queue goes to a task.
LEMMA TakePageKeeps ==
  ASSUME FeedInv, NEW w \in 1..PageWorkers, TakePage(w)
  PROVE  FeedInv'
<1> DEFINE first == Head(lister.queue)
<1>1. /\ Feeding /\ lister.queue \in Seq(WikiPage) /\ lister.queue # <<>> /\ slot[w].page = None
      /\ slot' = [slot EXCEPT ![w] = [Free EXCEPT !.page = first, !.todo = <<first>>]]
      /\ lister' = [lister EXCEPT !.queue = Tail(@)]
      /\ UNCHANGED <<space, changes, ingest, stored, fresh, told, constant>>
  BY DEF TakePage, IsFree, FeedInv, FeedTyped
<1>2. /\ Tail(lister.queue) \in Seq(WikiPage) /\ first \in WikiPage
      /\ ToSet(lister.queue) = {first} \cup ToSet(Tail(lister.queue))
  BY <1>1, TailOf
<1>3. PICK t : t = [Free EXCEPT !.page = first, !.todo = <<first>>]
  OBVIOUS
<1>4. t \in FeedTask /\ t.page = first /\ t.todo = <<first>>
  <2>1. t = [page |-> first, todo |-> <<first>>, read |-> {}, tries |-> 0]
    BY <1>3 DEF Free
  <2>2. first \in WikiSource /\ <<first>> \in Seq(WikiSource)
    BY <1>2 DEF WikiSource
  <2> QED
    BY <1>2, <2>1, <2>2 DEF FeedTask
<1>5. slot'[w] = t /\ \A v \in 1..PageWorkers : v # w => slot'[v] = slot[v]
  BY <1>1, <1>3 DEF FeedInv, FeedTyped
<1>6. lister'.at = lister.at /\ lister'.queue = Tail(lister.queue)
  BY <1>1 DEF FeedInv, FeedTyped
<1>7. FeedTyped'
  <2>1. slot' \in [1..PageWorkers -> FeedTask]
    BY <1>1, <1>3, <1>4 DEF FeedInv, FeedTyped
  <2>2. lister' \in [at : Nat \cup {None}, queue : Seq(WikiPage), tries : Nat]
    BY <1>1, <1>2 DEF FeedInv, FeedTyped
  <2> QED
    BY <1>1, <2>1, <2>2 DEF FeedInv, FeedTyped
<1>8. NothingYet'
  BY <1>1 DEF NothingYet, Feeding
<1>9. ASSUME NEW p \in constant'
      PROVE  (ToBeListed(p) \/ Queued(p) \/ InTask(p) \/ told[p] # "none")'
  <2>1. p \in WikiPage /\ (ToBeListed(p) \/ Queued(p) \/ InTask(p) \/ told[p] # "none")
    BY <1>1 DEF FeedInv, FeedTyped, NoneIsMissed
  <2>2. CASE ToBeListed(p)
    BY <1>1, <1>6, <2>2 DEF ToBeListed
  <2>3. CASE Queued(p)
    <3>1. p = first \/ p \in ToSet(Tail(lister.queue))
      <4>1. PICK j \in 1..Len(lister.queue) : lister.queue[j] = p
        BY <2>3 DEF Queued
      <4>2. DOMAIN lister.queue = 1..Len(lister.queue)
        BY <1>1
      <4>3. p \in ToSet(lister.queue)
        BY <4>1, <4>2 DEF ToSet
      <4> QED
        BY <1>2, <4>3
    <3>2. p = first => InTask(p)'
      BY <1>4, <1>5 DEF InTask
    <3>3. p \in ToSet(Tail(lister.queue)) => Queued(p)'
      BY <1>2, <1>6 DEF Queued, ToSet
    <3> QED
      BY <3>1, <3>2, <3>3
  <2>4. CASE InTask(p)
    BY <1>1, <1>5, <2>1, <2>4, FeedAssumption DEF InTask
  <2>5. CASE told[p] # "none"
    BY <1>1, <2>5
  <2> QED
    BY <2>1, <2>2, <2>3, <2>4, <2>5
<1>10. NoneIsMissed'
  BY <1>9 DEF NoneIsMissed
<1>11. ASSUME NEW v \in 1..PageWorkers PROVE Brings(slot[v])'
  <2>1. Brings(slot[v])
    BY DEF FeedInv, TasksBring
  <2>2. v = w => slot'[v] = t
    BY <1>5
  <2> QED
    BY <1>1, <1>4, <1>5, <2>1, <2>2 DEF Brings, Wants
<1>12. TasksBring' /\ TouchedAreBrought'
  BY <1>1, <1>11 DEF FeedInv, TasksBring, TouchedAreBrought, Brought, Wants
<1> QED
  BY <1>7, <1>8, <1>10, <1>12 DEF FeedInv

\* The run begins with everything it is to bring in its listing.
LEMMA StartIngestKeeps ==
  ASSUME FeedInv, NEW prune \in Pruned, NEW force \in Forced, NEW wanted \in Wanted,
         NEW pages \in Asked, StartIngest(prune, force, wanted, pages)
  PROVE  FeedInv'
<1> USE FeedAssumption
<1>1. /\ ingest.phase = "idle" /\ slot = [w \in 1..PageWorkers |-> Free]
      /\ \A p \in WikiPage : told[p] = "none"
      /\ UNCHANGED <<space, changes, slot, stored, fresh, told>>
  BY DEF StartIngest, FeedInv, NothingYet
<1>2. /\ ingest' = [phase |-> "feeding", prune |-> prune, force |-> force, wanted |-> wanted]
      /\ space \in Seq(WikiPage) /\ ToSet(space) \subseteq WikiPage
  BY DEF StartIngest, FeedInv, FeedTyped, ToSet
<1> DEFINE L == [at : Nat \cup {None}, queue : Seq(WikiPage), tries : Nat]
<1>3. /\ lister' \in L /\ constant' \subseteq WikiPage
      /\ \A p \in constant' : (ToBeListed(p) \/ Queued(p))'
  <2>1. CASE pages = None
    <3>1. /\ lister' = [at |-> 0, queue |-> <<>>, tries |-> 0]
          /\ constant' \subseteq ToSet(space)
      BY <2>1 DEF StartIngest, NoListing
    <3>2. lister' \in L /\ lister'.at = 0 /\ 0 # None
      BY <3>1
    <3>3. ASSUME NEW p \in constant' PROVE ToBeListed(p)'
      <4>1. PICK j \in 1..Len(space) : space[j] = p
        BY <1>2, <3>1 DEF ToSet
      <4>2. j > 0 /\ space' = space
        BY <1>1
      <4> QED
        BY <3>2, <4>1, <4>2 DEF ToBeListed
    <3> QED
      BY <1>2, <3>1, <3>2, <3>3
  <2>2. CASE pages # None
    <3>1. /\ lister' = [at |-> None, queue |-> pages, tries |-> 0] /\ pages \in Seq(WikiPage)
          /\ constant' = ToSet(space) \cap ToSet(pages)
      BY <1>2, <2>2 DEF StartIngest, NoListing
    <3>2. lister' \in L /\ lister'.queue = pages
      BY <3>1
    <3>3. \A p \in constant' : Queued(p)'
      BY <3>1, <3>2 DEF Queued, ToSet
    <3> QED
      BY <1>2, <3>1, <3>2, <3>3
  <2> QED
    BY <2>1, <2>2
<1>4. ingest' \in [phase : {"idle", "feeding", "finished", "aborted"}, prune : BOOLEAN,
                   force : BOOLEAN, wanted : SUBSET Attachment] /\ ingest'.phase = "feeding"
  BY <1>2
<1>5. FeedTyped'
  BY <1>1, <1>3, <1>4 DEF FeedInv, FeedTyped
<1>6. NothingYet' /\ NoneIsMissed'
  BY <1>3, <1>4 DEF NothingYet, NoneIsMissed
<1>7. TasksBring' /\ TouchedAreBrought'
  BY <1>1 DEF TasksBring, Brings, Free, TouchedAreBrought
<1> QED
  BY <1>5, <1>6, <1>7 DEF FeedInv
LEMMA FeedInvStep == FeedInv /\ [FeedNext]_feedVars => FeedInv'
<1> SUFFICES ASSUME FeedInv, [FeedNext]_feedVars PROVE FeedInv'
  OBVIOUS
<1>1. DOMAIN slot = 1..PageWorkers
  BY DEF FeedInv, FeedTyped
<1>2. ASSUME NEW i \in DOMAIN space, RemovePage(i) PROVE FeedInv'
  BY <1>2, RemovePageKeeps
<1>3. ASSUME NEW p \in WikiPage, NEW i \in 1..(Len(space) + 1), AddPage(p, i) PROVE FeedInv'
  BY <1>3, AddPageKeeps
<1>4. ASSUME NEW prune \in Pruned, NEW force \in Forced, NEW wanted \in Wanted,
             NEW pages \in Asked, StartIngest(prune, force, wanted, pages)
      PROVE  FeedInv'
  BY <1>4, StartIngestKeeps
<1>5. CASE ListBatch \/ ListNothing
  BY <1>5, ListBatchKeeps, ListNothingKeeps
<1>6. CASE Cleanup
  BY <1>6, OverKeeps DEF Cleanup
<1>7. ASSUME NEW w \in 1..PageWorkers, FetchPage(w) PROVE FeedInv'
  <2>1. CASE slot[w].page \in ToSet(space)
    BY <1>7, <2>1, FetchPageKeeps
  <2>2. CASE slot[w].page \notin ToSet(space)
    BY <1>7, <2>2, OverKeeps DEF FetchPage, Aborted
  <2> QED
    BY <2>1, <2>2
<1>8. ASSUME NEW w \in 1..PageWorkers,
             TakePage(w) \/ FetchAttachment(w) \/ WriteBatch(w) \/ PageDone(w)
      PROVE  FeedInv'
  BY <1>8, TakePageKeeps, FetchAttachmentKeeps, WriteBatchKeeps, PageDoneKeeps
<1>9. ASSUME NEW retryable \in BOOLEAN,
             ListFails(retryable) \/ \E w \in 1..PageWorkers : FetchBreaks(w, retryable)
      PROVE  FeedInv'
  BY <1>9, ListFailsKeeps, FetchBreaksKeeps
<1>10. CASE UNCHANGED feedVars
  <2>1. \A p \in constant' : ToBeListed(p) => ToBeListed(p)'
    BY <1>10 DEF feedVars, ToBeListed
  <2> QED
    BY <1>10, <2>1, WikiKeeps DEF feedVars, FeedInv, FeedTyped
<1> QED
  BY <1>1, <1>2, <1>3, <1>4, <1>5, <1>6, <1>7, <1>8, <1>9, <1>10
  DEF FeedNext, FeedStep, SlotStep

\* A source disappears only at the cleanup, which comes when the listing has
\* ended and no task is left.  A page that stayed in the space has been told by
\* then, and if it did not fail, all that was to be brought of it is fresh.
THEOREM CleanupSparesTheListed == FeedSpec => CleanupSparesListed
<1>1. ASSUME FeedInv, [FeedNext]_feedVars, NEW s \in stored \ stored'
      PROVE  \/ PageOfSource(s) \notin constant \/ told[PageOfSource(s)] = "failed"
             \/ s \in Attachment \ ingest.wanted
  <2> DEFINE p == PageOfSource(s)
  <2> SUFFICES ASSUME p \in constant, told[p] # "failed", s \notin Attachment \ ingest.wanted
               PROVE  FALSE
    OBVIOUS
  <2>1. Cleanup
    BY <1>1 DEF FeedNext, FeedStep, SlotStep, feedVars, RemovePage, AddPage, StartIngest,
       ListBatch, ListNothing, TakePage, ListFails, FetchBreaks, FetchPage, FetchAttachment,
       WriteBatch, PageDone, Written
  <2>2. /\ p \in WikiPage /\ told[p] \in {"none", "touched", "failed"}
        /\ DOMAIN slot = 1..PageWorkers
    BY <1>1 DEF FeedInv, FeedTyped
  <2>3. ~ToBeListed(p) /\ ~Queued(p)
    BY <2>1 DEF Cleanup, ToBeListed, Queued
  <2>4. ~InTask(p)
    BY <2>1, <2>2, FeedAssumption DEF Cleanup, IsFree, InTask
  <2>5. told[p] = "touched"
    BY <1>1, <2>1, <2>2, <2>3, <2>4 DEF Cleanup, FeedInv, NoneIsMissed
  <2>6. Wants(p) \subseteq fresh
    BY <1>1, <2>2, <2>5 DEF FeedInv, TouchedAreBrought, Brought
  <2>7. s \in Wants(p)
    BY DEF Wants, PageOfSource
  <2>8. s \notin Stale
    BY <2>6, <2>7 DEF Stale
  <2> QED
    BY <2>1, <2>8 DEF Cleanup
<1>2. FeedInv /\ [FeedNext]_feedVars =>
        [\A s \in stored \ stored' :
           \/ PageOfSource(s) \notin constant \/ told[PageOfSource(s)] = "failed"
           \/ s \in Attachment \ ingest.wanted]_feedVars
  BY <1>1
<1> QED
  BY <1>2, FeedInvInit, FeedInvStep, PTL DEF FeedSpec, CleanupSparesListed

-----------------------------------------------------------------------------
(* Computations over a sequence                                            *)

\* Every set of numbers has a smallest one.
LEMMA Smallest ==
  ASSUME NEW T, T \subseteq Nat, T # {}
  PROVE  \E i \in T : \A j \in T : i <= j
<1> DEFINE R == {ss \in Nat \X Nat : ss[1] < ss[2]}
<1>1. IsWellFoundedOn(R, Nat)
  BY NatLessThanWellFounded DEF OpToRel
<1> HIDE DEF R
<1>2. PICK i \in T : \A j \in T : ~(<<j, i>> \in R)
  BY <1>1, WFMin
<1>3. ASSUME NEW j \in T PROVE i <= j
  <2>1. i \in Nat /\ j \in Nat
    OBVIOUS
  <2>2. j < i => <<j, i>> \in R
    BY <2>1 DEF R
  <2> QED
    BY <1>2, <2>1, <2>2
<1> QED
  BY <1>3

\* What holds of nothing, and of n elements if of one less, holds of all.
LEMMA Inductive ==
  ASSUME NEW N \in Nat, NEW P, 0 \in P, \A n \in 1..N : n - 1 \in P => n \in P
  PROVE  \A n \in 0..N : n \in P
<1> DEFINE T == {n \in 0..N : n \notin P}
<1>1. ASSUME T # {} PROVE FALSE
  <2>1. PICK k \in T : \A j \in T : k <= j
    <3>1. T \subseteq Nat
      OBVIOUS
    <3> HIDE DEF T
    <3> QED
      BY <1>1, <3>1, Smallest
  <2>2. k \in 1..N /\ k - 1 \in 0..N /\ ~(k <= k - 1) /\ k \notin P
    OBVIOUS
  <2>3. k - 1 \in P
    BY <2>1, <2>2
  <2> QED
    BY <2>2, <2>3
<1> QED
  BY <1>1

\* g computes over N elements, each of which makes F of what came of those before.
Computes(g, N, S, base, F) ==
  /\ g \in [0..N -> S] /\ g[0] = base
  /\ \A n \in 1..N : g[n] = F[n][g[n - 1]]

LEMMA Computable ==
  ASSUME NEW N \in Nat, NEW S, NEW base \in S, NEW F \in [1..N -> [S -> S]]
  PROVE  \E g : Computes(g, N, S, base, F)
<1> DEFINE Upto(g, k) == g[0] = base /\ \A n \in 1..k : g[n] = F[n][g[n - 1]]
           P == {k \in 0..N : \E g \in [0..k -> S] : Upto(g, k)}
<1>1. 0 \in P
  <2> DEFINE g == [n \in 0..0 |-> base]
  <2>1. g \in [0..0 -> S] /\ Upto(g, 0)
    OBVIOUS
  <2>2. \E e \in [0..0 -> S] : Upto(e, 0)
    BY <2>1
  <2> QED
    BY <2>2
<1>2. ASSUME NEW k \in 1..N, k - 1 \in P PROVE k \in P
  <2>1. k - 1 \in 0..N /\ k \in 0..N
    OBVIOUS
  <2>2. PICK g \in [0..(k - 1) -> S] : Upto(g, k - 1)
    BY <1>2, <2>1
  <2> DEFINE h == [n \in 0..k |-> IF n = k THEN F[k][g[k - 1]] ELSE g[n]]
  <2>3. F[k] \in [S -> S] /\ g[k - 1] \in S
    BY <2>2
  <2>4. h \in [0..k -> S]
    <3>1. \A n \in 0..k : n # k => n \in 0..(k - 1)
      OBVIOUS
    <3> QED
      BY <2>2, <2>3, <3>1
  <2>5. h[k] = F[k][g[k - 1]] /\ \A n \in 0..(k - 1) : h[n] = g[n]
    OBVIOUS
  <2> HIDE DEF h
  <2>6. h[0] = base
    BY <2>2, <2>5
  <2>7. ASSUME NEW n \in 1..k PROVE h[n] = F[n][h[n - 1]]
    <3>1. n - 1 \in 0..(k - 1) /\ (n = k \/ n \in 1..(k - 1))
      OBVIOUS
    <3> QED
      BY <2>2, <2>5, <3>1
  <2>8. \E e \in [0..k -> S] : Upto(e, k)
    BY <2>4, <2>6, <2>7
  <2> QED
    BY <2>1, <2>8
<1> HIDE DEF P
<1>3. N \in P
  <2>1. \A k \in 1..N : k - 1 \in P => k \in P
    BY <1>2
  <2>2. \A k \in 0..N : k \in P
    BY <1>1, <2>1, Inductive
  <2> QED
    BY <2>2
<1> QED
  BY <1>3 DEF P, Computes

\* e tells where what is picked of the first n messages stood.
Picks(e, n, ms, places, p) ==
  /\ p \in Seq(ToSet(ms)) /\ e \in [1..Len(p) -> places \cap 1..n]
  /\ \A k \in 1..Len(p) : p[k] = ms[e[k]]
  /\ \A k, l \in 1..Len(p) : k < l => e[k] < e[l]
  /\ \A i \in places \cap 1..n : \E k \in 1..Len(p) : e[k] = i

PickStep(ms, places, n, p) == IF n \in places THEN Append(p, ms[n]) ELSE p

LEMMA PicksMore ==
  ASSUME NEW ms, ms \in Seq(ToSet(ms)), NEW places, NEW n \in 1..Len(ms),
         NEW e, NEW p, Picks(e, n - 1, ms, places, p)
  PROVE  \E f : Picks(f, n, ms, places, PickStep(ms, places, n, p))
<1>1. p \in Seq(ToSet(ms)) /\ e \in [1..Len(p) -> places \cap 1..(n - 1)]
  BY DEF Picks
<1>2. PICK m \in Nat : m = Len(p)
  BY <1>1
<1>3. n \in Nat /\ 1..n = 1..(n - 1) \cup {n} /\ \A i \in 1..(n - 1) : i < n /\ i \in Nat
  OBVIOUS
<1>4. CASE n \notin places
  <2>1. places \cap 1..n = places \cap 1..(n - 1)
    BY <1>3, <1>4
  <2>2. PickStep(ms, places, n, p) = p
    BY <1>4 DEF PickStep
  <2> QED
    BY <2>1, <2>2 DEF Picks
<1>5. CASE n \in places
  <2> DEFINE q == Append(p, ms[n])
             f == [k \in 1..(m + 1) |-> IF k = m + 1 THEN n ELSE e[k]]
  <2>1. ms[n] \in ToSet(ms)
    BY DEF ToSet
  <2>2. /\ q \in Seq(ToSet(ms)) /\ Len(q) = m + 1
        /\ q[m + 1] = ms[n] /\ \A k \in 1..m : q[k] = p[k]
    BY <1>1, <1>2, <2>1
  <2> HIDE DEF q
  <2>3. \A k \in 1..(m + 1) : k = m + 1 \/ k \in 1..m
    BY <1>2
  <2>4. \A k \in 1..m : k \in 1..(m + 1) /\ k # m + 1
    BY <1>2
  <2>5. m + 1 \in 1..(m + 1)
    BY <1>2
  <2>6. \A k \in 1..m : e[k] \in places \cap 1..(n - 1)
    BY <1>1, <1>2
  <2>7. /\ f \in [1..(m + 1) -> places \cap 1..n]
        /\ f[m + 1] = n /\ \A k \in 1..m : f[k] = e[k]
    <3>1. n \in places \cap 1..n /\ places \cap 1..(n - 1) \subseteq places \cap 1..n
      BY <1>3, <1>5
    <3> QED
      BY <2>3, <2>4, <2>5, <2>6, <3>1
  <2> HIDE DEF f
  <2>8. \A k \in 1..(m + 1) : q[k] = ms[f[k]]
    <3>1. \A k \in 1..m : p[k] = ms[e[k]]
      BY <1>2 DEF Picks
    <3> QED
      BY <2>2, <2>3, <2>7, <3>1
  <2>9. ASSUME NEW k \in 1..(m + 1), NEW l \in 1..(m + 1), k < l PROVE f[k] < f[l]
    <3>1. k \in 1..m
      BY <1>2, <2>9
    <3>2. CASE l = m + 1
      BY <1>3, <2>6, <2>7, <3>1, <3>2
    <3>3. CASE l \in 1..m
      <4>1. e[k] < e[l]
        BY <1>2, <2>9, <3>1, <3>3 DEF Picks
      <4> QED
        BY <2>7, <3>1, <3>3, <4>1
    <3> QED
      BY <2>3, <3>2, <3>3
  <2>10. ASSUME NEW i \in places \cap 1..n PROVE \E k \in 1..(m + 1) : f[k] = i
    <3>1. CASE i = n
      BY <2>5, <2>7, <3>1
    <3>2. CASE i \in places \cap 1..(n - 1)
      <4>1. PICK k \in 1..m : e[k] = i
        BY <1>2, <3>2 DEF Picks
      <4> QED
        BY <2>4, <2>7, <4>1
    <3> QED
      BY <1>3, <3>1, <3>2
  <2>11. Picks(f, n, ms, places, q)
    BY <2>2, <2>7, <2>8, <2>9, <2>10 DEF Picks
  <2>12. PickStep(ms, places, n, p) = q
    BY <1>5 DEF PickStep, q
  <2> QED
    BY <2>11, <2>12
<1> QED
  BY <1>4, <1>5

LEMMA PickedIs ==
  ASSUME NEW ms, ms \in Seq(ToSet(ms)), NEW places
  PROVE  \E e : Picks(e, Len(ms), ms, places, Picked(ms, places))
<1> DEFINE N == Len(ms)
           S == Seq(ToSet(ms))
           Picking(g) == g = [n \in 0..N |->
                                IF n = 0 THEN <<>>
                                ELSE IF n \in places THEN Append(g[n - 1], ms[n]) ELSE g[n - 1]]
           F == [n \in 1..N |-> [p \in S |-> PickStep(ms, places, n, p)]]
<1>1. N \in Nat
  OBVIOUS
<1>2. F \in [1..N -> [S -> S]]
  <2>1. ASSUME NEW n \in 1..N, NEW p \in S PROVE PickStep(ms, places, n, p) \in S
    <3>1. ms[n] \in ToSet(ms)
      BY DEF ToSet
    <3>2. Append(p, ms[n]) \in S
      BY <3>1
    <3> QED
      BY <3>2 DEF PickStep
  <2> QED
    BY <2>1
<1>3. PICK g : Computes(g, N, S, <<>>, F)
  <2>1. <<>> \in S
    OBVIOUS
  <2> HIDE DEF F, N, S
  <2> QED
    BY <1>1, <1>2, <2>1, Computable
<1>4. Picking(g)
  <2>1. \A n \in 1..N : n - 1 \in 0..N
    BY <1>1
  <2>2. \A n \in 1..N : g[n - 1] \in S
    BY <1>3, <2>1 DEF Computes
  <2>3. \A n \in 1..N : g[n] = PickStep(ms, places, n, g[n - 1])
    BY <1>3, <2>2 DEF Computes
  <2>4. g[0] = <<>> /\ g = [n \in 0..N |-> g[n]]
    BY <1>3 DEF Computes
  <2> QED
    BY <1>1, <2>3, <2>4 DEF PickStep
<1> DEFINE f == CHOOSE h : Picking(h)
<1>5. Picking(f)
  BY <1>4
<1>6. Picked(ms, places) = f[N]
  BY DEF Picked
<1> HIDE DEF f
<1>7. f[0] = <<>> /\ \A n \in 1..N : f[n] = PickStep(ms, places, n, f[n - 1])
  <2>1. \A n \in 0..N : f[n] = IF n = 0 THEN <<>>
                              ELSE IF n \in places THEN Append(f[n - 1], ms[n]) ELSE f[n - 1]
    BY <1>5, Zenon
  <2>2. 0 \in 0..N /\ \A n \in 1..N : n \in 0..N /\ n # 0
    BY <1>1
  <2> HIDE DEF N
  <2> QED
    BY <2>1, <2>2 DEF PickStep
<1> DEFINE P == {n \in 0..N : \E e : Picks(e, n, ms, places, f[n])}
<1>8. 0 \in P
  <2>1. 0 \in 0..N /\ 1..0 = {} /\ Len(<<>>) = 0
    BY <1>1
  <2>2. <<>> \in Seq(ToSet(ms)) /\ <<>> \in [1..0 -> places \cap 1..0]
    OBVIOUS
  <2>3. Picks(<<>>, 0, ms, places, <<>>)
    BY <2>1, <2>2 DEF Picks
  <2> QED
    BY <1>7, <2>1, <2>3
<1>9. ASSUME NEW n \in 1..N, n - 1 \in P PROVE n \in P
  <2>1. PICK e : Picks(e, n - 1, ms, places, f[n - 1])
    BY <1>9
  <2>2. \E h : Picks(h, n, ms, places, f[n])
    BY <1>7, <2>1, PicksMore
  <2> QED
    BY <1>1, <2>2
<1> HIDE DEF P
<1>10. N \in P
  <2>1. \A n \in 1..N : n - 1 \in P => n \in P
    BY <1>9
  <2> HIDE DEF N
  <2>2. \A n \in 0..N : n \in P
    BY <1>1, <1>8, <2>1, Inductive
  <2>3. N \in 0..N
    BY <1>1
  <2> QED
    BY <2>2, <2>3
<1> QED
  BY <1>6, <1>10 DEF P

-----------------------------------------------------------------------------
(* A page of the wiki, cut at its headings                                 *)

Pages == Seq([level : Nat, word : BOOLEAN])

\* Only a heading with a text in it has a level.
LevelOf(p) == [i \in DOMAIN p |-> IF p[i].word THEN p[i].level ELSE 0]
HeadSet(p) == {i \in DOMAIN p : LevelOf(p)[i] > 0}

LEMMA PageNodes ==
  ASSUME NEW p \in Pages
  PROVE  /\ DOMAIN p = 1..Len(p) /\ Len(p) \in Nat
         /\ \A i \in DOMAIN p : p[i].level \in Nat /\ p[i].word \in BOOLEAN
         /\ \A i \in DOMAIN p : LevelOf(p)[i] = IF p[i].word THEN p[i].level ELSE 0
         /\ \A i \in DOMAIN p : LevelOf(p)[i] \in Nat
<1> DEFINE N == [level : Nat, word : BOOLEAN]
<1>1. DOMAIN p = 1..Len(p) /\ Len(p) \in Nat /\ \A i \in DOMAIN p : p[i] \in N
  <2>1. p \in Seq(N)
    BY DEF Pages
  <2> HIDE DEF N
  <2> QED
    BY <2>1
<1>3. \A i \in DOMAIN p : p[i].level \in Nat /\ p[i].word \in BOOLEAN
  BY <1>1
<1>4. \A i \in DOMAIN p : LevelOf(p)[i] = IF p[i].word THEN p[i].level ELSE 0
  BY DEF LevelOf
<1> QED
  BY <1>1, <1>3, <1>4

LEMMA HeadsAt ==
  ASSUME NEW p \in Pages
  PROVE  /\ HeadSet(p) = {i \in DOMAIN p : p[i].level > 0 /\ p[i].word}
         /\ HeadSet(p) \subseteq 1..Len(p)
<1>1. \A i \in DOMAIN p : LevelOf(p)[i] > 0 <=> p[i].level > 0 /\ p[i].word
  BY PageNodes
<1> QED
  BY <1>1, PageNodes DEF HeadSet

Ordinals(N) == [i \in 1..N |-> i]

\* H lists the places in their order.
Lists(H, places) ==
  /\ H \in Seq(Nat) /\ \A k \in 1..Len(H) : H[k] \in places
  /\ \A k, l \in 1..Len(H) : k < l => H[k] < H[l]
  /\ \A i \in places : \E k \in 1..Len(H) : H[k] = i

\* What is picked of the places of a sequence is those places, in their order.
LEMMA PlacesPicked ==
  ASSUME NEW N \in Nat, NEW places, places \subseteq 1..N
  PROVE  Lists(Picked(Ordinals(N), places), places)
<1> DEFINE H == Picked(Ordinals(N), places)
<1> DEFINE ids == Ordinals(N)
<1>1. ids \in Seq(Nat) /\ Len(ids) = N /\ DOMAIN ids = 1..N /\ \A i \in 1..N : ids[i] = i
  BY DEF Ordinals
<1>2. ToSet(ids) = 1..N
  BY <1>1 DEF ToSet
<1>3. ids \in Seq(ToSet(ids))
  BY <1>1, <1>2
<1> HIDE DEF ids, H
<1>4. PICK e : Picks(e, N, ids, places, H)
  BY <1>1, <1>3, PickedIs DEF ids, H
<1>5. H \in Seq(1..N) /\ e \in [1..Len(H) -> places \cap 1..N]
  BY <1>2, <1>4 DEF Picks
<1>6. H \in Seq(Nat) /\ Len(H) \in Nat
  BY <1>5
<1>7. \A k \in 1..Len(H) : e[k] \in places /\ e[k] \in 1..N
  BY <1>5
<1>8. \A k \in 1..Len(H) : H[k] = e[k]
  BY <1>1, <1>4, <1>7 DEF Picks
<1>9. \A k, l \in 1..Len(H) : k < l => H[k] < H[l]
  BY <1>4, <1>8 DEF Picks
<1>10. \A i \in places : \E k \in 1..Len(H) : H[k] = i
  BY <1>4, <1>8 DEF Picks
<1> QED
  BY <1>6, <1>7, <1>8, <1>9, <1>10 DEF Lists, H

LEMMA HeadingsAre ==
  ASSUME NEW p \in Pages
  PROVE  Lists(Headings(p), HeadSet(p))
<1>1. Headings(p) = Picked(Ordinals(Len(p)), HeadSet(p))
  BY PageNodes, HeadsAt, Zenon DEF Headings, Ordinals
<1>2. Len(p) \in Nat /\ HeadSet(p) \subseteq 1..Len(p)
  BY PageNodes, HeadsAt
<1>3. Lists(Picked(Ordinals(Len(p)), HeadSet(p)), HeadSet(p))
  BY <1>2, PlacesPicked
<1> QED
  BY <1>1, <1>3

-----------------------------------------------------------------------------
(* The headings above                                                      *)

Crumbs == Seq([level : Nat, at : Nat])

LEMMA CrumbsAre ==
  ASSUME NEW st \in Crumbs
  PROVE  /\ Len(st) \in Nat /\ DOMAIN st = 1..Len(st)
         /\ \A j \in 1..Len(st) : st[j].level \in Nat /\ st[j].at \in Nat
<1> DEFINE C == [level : Nat, at : Nat]
<1> HIDE DEF C
<1>1. st \in Seq(C)
  BY DEF Crumbs, C
<1>2. Len(st) \in Nat /\ DOMAIN st = 1..Len(st) /\ \A j \in 1..Len(st) : st[j] \in C
  BY <1>1
<1>3. \A x \in C : x.level \in Nat /\ x.at \in Nat
  BY DEF C
<1> QED
  BY <1>2, <1>3

\* A sequence cut short, with something on its end.
LEMMA CutAndAppended ==
  ASSUME NEW C, NEW s \in Seq(C), NEW k \in 0..Len(s), NEW x \in C,
         NEW q, q = Append(SubSeq(s, 1, k), x)
  PROVE  /\ q \in Seq(C) /\ Len(q) = k + 1
         /\ q[k + 1] = x /\ \A j \in 1..k : q[j] = s[j]
<1> DEFINE b == SubSeq(s, 1, k)
<1>1. b \in Seq(C) /\ Len(b) = k /\ \A j \in 1..k : b[j] = s[j]
  OBVIOUS
<1> HIDE DEF b
<1>2. q = Append(b, x)
  BY DEF b
<1>3. q \in Seq(C) /\ Len(q) = k + 1 /\ q[k + 1] = x /\ \A j \in 1..k : q[j] = b[j]
  BY <1>1, <1>2
<1> QED
  BY <1>1, <1>3

\* What Push keeps of a stack: what is after it is not above the new level.
KeptOf(stack, level, k) ==
  /\ k = 0 \/ stack[k].level < level
  /\ \A j \in (k + 1)..Len(stack) : stack[j].level >= level

LEMMA SomeKept ==
  ASSUME NEW st \in Crumbs, NEW l \in Nat
  PROVE  \E k \in 0..Len(st) : KeptOf(st, l, k)
<1>1. PICK n \in Nat : n = Len(st)
  BY CrumbsAre
<1>2. \A j \in 1..n : st[j].level \in Nat
  BY <1>1, CrumbsAre
<1> DEFINE K == {k \in 0..n : \A j \in (k + 1)..n : st[j].level >= l}
<1>3. K \subseteq Nat /\ n \in K
  OBVIOUS
<1>4. PICK k \in K : \A m \in K : k <= m
  <2> HIDE DEF K
  <2> QED
    BY <1>3, Smallest
<1>5. k \in 0..n /\ \A j \in (k + 1)..n : st[j].level >= l
  OBVIOUS
<1>6. ASSUME k # 0, ~(st[k].level < l) PROVE FALSE
  <2>1. k \in 1..n /\ k - 1 \in 0..n /\ st[k].level >= l
    BY <1>2, <1>5, <1>6
  <2>2. \A j \in ((k - 1) + 1)..n : j = k \/ j \in (k + 1)..n
    BY <2>1
  <2>3. k - 1 \in K
    BY <1>5, <2>1, <2>2
  <2> QED
    BY <1>4, <2>1, <2>3
<1> QED
  BY <1>1, <1>5, <1>6 DEF KeptOf

\* q is the first k of the stack and one more.
Pushed(q, stack, level, at, k) ==
  /\ q \in Crumbs /\ Len(q) = k + 1
  /\ q[k + 1].level = level /\ q[k + 1].at = at /\ \A j \in 1..k : q[j] = stack[j]

LEMMA PushSeq ==
  ASSUME NEW st \in Crumbs, NEW l \in Nat, NEW at \in Nat, NEW k \in 0..Len(st)
  PROVE  Pushed(Append(SubSeq(st, 1, k), [level |-> l, at |-> at]), st, l, at, k)
<1> DEFINE C == [level : Nat, at : Nat]
           x == [level |-> l, at |-> at]
           q == Append(SubSeq(st, 1, k), x)
<1>1. x \in C /\ x.level = l /\ x.at = at
  OBVIOUS
<1>2. st \in Seq(C) /\ q = Append(SubSeq(st, 1, k), x) /\ Crumbs = Seq(C)
  BY DEF Crumbs
<1> HIDE DEF C, x, q
<1>3. q \in Seq(C) /\ Len(q) = k + 1 /\ q[k + 1] = x /\ \A j \in 1..k : q[j] = st[j]
  BY <1>1, <1>2, CutAndAppended
<1>4. Pushed(q, st, l, at, k)
  BY <1>1, <1>2, <1>3 DEF Pushed
<1> QED
  BY <1>4 DEF q, x

\* Push keeps a beginning of the stack and puts the new heading on its end.
LEMMA PushIs ==
  ASSUME NEW st \in Crumbs, NEW l \in Nat, NEW at \in Nat
  PROVE  \E k \in 0..Len(st) : KeptOf(st, l, k) /\ Pushed(Push(st, l, at), st, l, at, k)
<1> DEFINE kept == CHOOSE k \in 0..Len(st) : KeptOf(st, l, k)
<1>1. kept \in 0..Len(st) /\ KeptOf(st, l, kept)
  BY SomeKept
<1>2. Push(st, l, at) = Append(SubSeq(st, 1, kept), [level |-> l, at |-> at])
  BY Zenon DEF Push, KeptOf
<1> HIDE DEF kept
<1>3. Pushed(Append(SubSeq(st, 1, kept), [level |-> l, at |-> at]), st, l, at, kept)
  BY <1>1, PushSeq
<1>4. Pushed(Push(st, l, at), st, l, at, kept)
  BY <1>2, <1>3
<1> QED
  BY <1>1, <1>4

\* What n stands under, the title of the page first.
RootOf(t) == IF t THEN {0} ELSE {}
Above(p, t, n) == RootOf(t) \cup Under(LevelOf(p), 1, n)
LevelAt(p, a) == IF a = 0 THEN 0 ELSE LevelOf(p)[a]

\* No heading stands after n and before m.
NoneBetween(p, n, m) == \A g \in (n + 1)..(m - 1) : g \notin HeadSet(p)

LEMMA UnderIs ==
  ASSUME NEW p \in Pages, NEW n \in 0..Len(p), NEW h
  PROVE  h \in Under(LevelOf(p), 1, n) <=>
           /\ h \in 1..n /\ h \in HeadSet(p)
           /\ \A g \in (h + 1)..n : LevelOf(p)[g] = 0 \/ LevelOf(p)[g] > LevelOf(p)[h]
<1>1. PICK N \in Nat : N = Len(p) /\ DOMAIN p = 1..N
  BY PageNodes
<1>2. \A i \in 1..n : i \in DOMAIN p
  BY <1>1
<1>3. \A i \in 1..n : i \in HeadSet(p) <=> LevelOf(p)[i] > 0
  BY <1>2, Zenon DEF HeadSet
<1> QED
  BY <1>3, Zenon DEF Under

LEMMA UnderMore ==
  ASSUME NEW p \in Pages, NEW n \in 0..Len(p), NEW m \in HeadSet(p), n < m,
         NoneBetween(p, n, m), NEW h
  PROVE  h \in Under(LevelOf(p), 1, m) <=>
           \/ h = m
           \/ h \in Under(LevelOf(p), 1, n) /\ LevelOf(p)[h] < LevelOf(p)[m]
<1> DEFINE L == LevelOf(p)
<1>1. PICK N \in Nat : N = Len(p) /\ DOMAIN p = 1..N
  BY PageNodes
<1>2. m \in 1..N /\ n \in 0..N /\ m \in 0..N
  BY <1>1, HeadsAt
<1>3. \A i \in 1..N : L[i] \in Nat /\ (i \in HeadSet(p) <=> L[i] > 0)
  BY <1>1, PageNodes DEF HeadSet
<1> HIDE DEF L
<1>4. \A g \in (n + 1)..(m - 1) : L[g] = 0
  BY <1>2, <1>3 DEF NoneBetween
<1>5. L[m] > 0
  BY <1>2, <1>3
<1>6. h \in Under(L, 1, m) <=>
        h \in 1..m /\ h \in HeadSet(p) /\ \A g \in (h + 1)..m : L[g] = 0 \/ L[g] > L[h]
  BY <1>1, <1>2, UnderIs DEF L
<1>7. h \in Under(L, 1, n) <=>
        h \in 1..n /\ h \in HeadSet(p) /\ \A g \in (h + 1)..n : L[g] = 0 \/ L[g] > L[h]
  BY <1>1, <1>2, UnderIs DEF L
<1>8. ASSUME h \in Under(L, 1, m), h # m
      PROVE  h \in Under(L, 1, n) /\ L[h] < L[m]
  <2>1. h \in 1..m /\ h < m /\ h \in HeadSet(p)
    BY <1>2, <1>6, <1>8
  <2>2. h \in 1..n
    BY <1>2, <2>1 DEF NoneBetween
  <2>3. L[h] < L[m]
    <3>1. m \in (h + 1)..m
      BY <1>2, <2>1
    <3>2. L[m] = 0 \/ L[m] > L[h]
      BY <1>6, <1>8, <3>1
    <3> QED
      BY <1>2, <1>3, <1>5, <2>2, <3>2
  <2>4. \A g \in (h + 1)..n : g \in (h + 1)..m
    BY <1>2, <2>2
  <2> QED
    BY <1>6, <1>7, <1>8, <2>1, <2>2, <2>3, <2>4
<1>9. ASSUME h = m PROVE h \in Under(L, 1, m)
  <2>1. h \in 1..m /\ (h + 1)..m = {}
    BY <1>2, <1>9
  <2> QED
    BY <1>6, <1>9, <2>1
<1>10. ASSUME h \in Under(L, 1, n), L[h] < L[m] PROVE h \in Under(L, 1, m)
  <2>1. h \in 1..n /\ h \in HeadSet(p) /\ \A g \in (h + 1)..n : L[g] = 0 \/ L[g] > L[h]
    BY <1>7, <1>10
  <2>2. h \in 1..m
    BY <1>2, <2>1
  <2>3. \A g \in (h + 1)..m : g \in (h + 1)..n \/ g \in (n + 1)..(m - 1) \/ g = m
    BY <1>2, <2>1
  <2>4. \A g \in (h + 1)..m : L[g] = 0 \/ L[g] > L[h]
    BY <1>4, <1>10, <2>1, <2>3
  <2> QED
    BY <1>6, <2>1, <2>2, <2>4
<1> QED
  BY <1>8, <1>9, <1>10 DEF L

\* Above a heading is itself, and of what was above the text before it what is
\* of a higher level.
LEMMA AboveMore ==
  ASSUME NEW p \in Pages, NEW t \in BOOLEAN, NEW n \in 0..Len(p), NEW m \in HeadSet(p),
         n < m, NoneBetween(p, n, m), NEW a
  PROVE  a \in Above(p, t, m) <=>
           \/ a = m
           \/ a \in Above(p, t, n) /\ LevelAt(p, a) < LevelOf(p)[m]
<1>1. a \in Under(LevelOf(p), 1, m) <=>
        \/ a = m
        \/ a \in Under(LevelOf(p), 1, n) /\ LevelOf(p)[a] < LevelOf(p)[m]
  BY UnderMore
<1>2. m \in 1..Len(p) /\ LevelOf(p)[m] > 0
  BY HeadsAt DEF HeadSet
<1>3. a \in Under(LevelOf(p), 1, n) => a \in 1..n
  BY DEF Under
<1>4. a \in 1..n => a # 0
  OBVIOUS
<1> QED
  BY <1>1, <1>2, <1>3, <1>4 DEF Above, RootOf, LevelAt

LEMMA AboveBounds ==
  ASSUME NEW p \in Pages, NEW t \in BOOLEAN, NEW n \in 0..Len(p)
  PROVE  \A a \in Above(p, t, n) : a \in 0..n
<1>1. n \in Nat
  BY PageNodes
<1> QED
  BY <1>1 DEF Above, RootOf, Under

-----------------------------------------------------------------------------
(* The stack of a heading                                                  *)

Climbs(st) == \A i, j \in 1..Len(st) : i < j => st[i].level < st[j].level /\ st[i].at < st[j].at

\* The stack holds what n stands under, from the title down.
StackIs(st, p, t, n) ==
  /\ st \in Crumbs /\ Climbs(st)
  /\ \A j \in 1..Len(st) : st[j].at \in Above(p, t, n) /\ st[j].level = LevelAt(p, st[j].at)
  /\ \A a \in Above(p, t, n) : \E j \in 1..Len(st) : st[j].at = a

RootStack(t) == IF t THEN <<[level |-> 0, at |-> 0]>> ELSE <<>>

LEMMA RootIs ==
  ASSUME NEW p \in Pages, NEW t \in BOOLEAN
  PROVE  RootStack(t) \in Crumbs /\ StackIs(RootStack(t), p, t, 0)
<1>1. Above(p, t, 0) = RootOf(t)
  <2>1. 1..0 = {}
    OBVIOUS
  <2> QED
    BY <2>1 DEF Above, Under
<1>2. CASE ~t
  <2>1. RootStack(t) = <<>> /\ RootOf(t) = {} /\ <<>> \in Crumbs /\ 1..Len(<<>>) = {}
    BY <1>2 DEF RootStack, RootOf, Crumbs
  <2> QED
    BY <1>1, <2>1 DEF StackIs, Climbs
<1>3. CASE t
  <2> DEFINE x == [level |-> 0, at |-> 0]
  <2>1. x \in [level : Nat, at : Nat] /\ x.level = 0 /\ x.at = 0
    OBVIOUS
  <2> HIDE DEF x
  <2>2. RootStack(t) = <<x>> /\ RootOf(t) = {0}
    BY <1>3 DEF RootStack, RootOf, x
  <2>3. <<x>> \in Crumbs
    BY <2>1 DEF Crumbs
  <2>4. Len(<<x>>) = 1 /\ 1..1 = {1} /\ <<x>>[1] = x
    OBVIOUS
  <2>5. LevelAt(p, 0) = 0
    BY DEF LevelAt
  <2>6. Climbs(<<x>>)
    BY <2>4 DEF Climbs
  <2> QED
    BY <1>1, <2>1, <2>2, <2>3, <2>4, <2>5, <2>6 DEF StackIs
<1> QED
  BY <1>2, <1>3

LEMMA StackMore ==
  ASSUME NEW p \in Pages, NEW t \in BOOLEAN, NEW n \in 0..Len(p), NEW m \in HeadSet(p),
         n < m, NoneBetween(p, n, m), NEW st, StackIs(st, p, t, n)
  PROVE  StackIs(Push(st, LevelOf(p)[m], m), p, t, m)
<1>1. PICK l \in Nat : l = LevelOf(p)[m]
  BY PageNodes DEF HeadSet
<1>2. m \in Nat /\ n \in Nat
  BY PageNodes, HeadsAt
<1>3. st \in Crumbs
  BY DEF StackIs
<1>4. PICK k \in 0..Len(st) :
        KeptOf(st, l, k) /\ Pushed(Push(st, l, m), st, l, m, k)
  BY <1>2, <1>3, PushIs
<1>5. PICK q : q = Push(st, l, m)
  OBVIOUS
<1>6. /\ q \in Crumbs /\ Len(q) = k + 1
      /\ q[k + 1].level = l /\ q[k + 1].at = m /\ \A j \in 1..k : q[j] = st[j]
  BY <1>4, <1>5 DEF Pushed
<1>7. PICK M \in Nat : M = Len(st)
  BY <1>3, CrumbsAre
<1>8. \A j \in 1..M : st[j].level \in Nat /\ st[j].at \in Nat
  BY <1>3, <1>7, CrumbsAre
<1>9. \A j \in 1..M : st[j].level < l <=> j <= k
  <2>1. ASSUME NEW j \in 1..M, j <= k PROVE st[j].level < l
    <3>1. k \in 1..M /\ st[k].level < l
      BY <1>4, <1>7, <2>1 DEF KeptOf
    <3>2. j < k => st[j].level < st[k].level
      BY <1>7, <3>1 DEF StackIs, Climbs
    <3> QED
      BY <1>8, <2>1, <3>1, <3>2
  <2>2. ASSUME NEW j \in 1..M, ~(j <= k) PROVE ~(st[j].level < l)
    <3>1. j \in (k + 1)..M
      BY <1>4, <1>7, <2>2
    <3>2. st[j].level >= l
      BY <1>4, <1>7, <3>1 DEF KeptOf
    <3> QED
      BY <1>8, <3>2
  <2> QED
    BY <2>1, <2>2
<1>10. \A j \in 1..(k + 1) : j = k + 1 \/ (j \in 1..k /\ j \in 1..M)
  BY <1>4, <1>7
<1>11. \A j \in 1..M : st[j].at \in Above(p, t, n) /\ st[j].level = LevelAt(p, st[j].at)
  BY <1>7 DEF StackIs
<1>12. \A a \in Above(p, t, n) : \E j \in 1..M : st[j].at = a
  BY <1>7 DEF StackIs
<1>13. \A j \in 1..M : st[j].at < m
  BY <1>2, <1>11, AboveBounds
<1>14. Climbs(q)
  <2>1. ASSUME NEW i \in 1..(k + 1), NEW j \in 1..(k + 1), i < j
        PROVE  q[i].level < q[j].level /\ q[i].at < q[j].at
    <3>1. i \in 1..k /\ i \in 1..M /\ i <= k
      BY <1>4, <1>7, <2>1
    <3>2. CASE j = k + 1
      BY <1>6, <1>9, <1>13, <3>1, <3>2
    <3>3. CASE j \in 1..k /\ j \in 1..M
      <4>1. st[i].level < st[j].level /\ st[i].at < st[j].at
        BY <1>7, <2>1, <3>1, <3>3 DEF StackIs, Climbs
      <4> QED
        BY <1>6, <3>1, <3>3, <4>1
    <3> QED
      BY <1>10, <3>2, <3>3
  <2> QED
    BY <1>6, <2>1 DEF Climbs
<1>15. m # 0 /\ LevelAt(p, m) = l
  BY <1>1, HeadsAt DEF LevelAt
<1>16. ASSUME NEW j \in 1..(k + 1)
       PROVE  q[j].at \in Above(p, t, m) /\ q[j].level = LevelAt(p, q[j].at)
  <2>1. CASE j = k + 1
    <3>1. m \in Above(p, t, m)
      BY AboveMore
    <3> QED
      BY <1>6, <1>15, <2>1, <3>1
  <2>2. CASE j \in 1..k /\ j \in 1..M
    <3>1. PICK a : a = st[j].at
      OBVIOUS
    <3>2. a \in Above(p, t, n) /\ LevelAt(p, a) = st[j].level /\ st[j].level < l
      BY <1>9, <1>11, <2>2, <3>1
    <3>3. a \in Above(p, t, m)
      BY <1>1, <3>2, AboveMore
    <3> QED
      BY <1>6, <2>2, <3>1, <3>2, <3>3
  <2> QED
    BY <1>10, <2>1, <2>2
<1>17. ASSUME NEW a \in Above(p, t, m) PROVE \E j \in 1..(k + 1) : q[j].at = a
  <2>1. a = m \/ (a \in Above(p, t, n) /\ LevelAt(p, a) < l)
    BY <1>1, <1>17, AboveMore
  <2>2. CASE a = m
    <3>1. k + 1 \in 1..(k + 1)
      BY <1>4, <1>7
    <3> QED
      BY <1>6, <2>2, <3>1
  <2>3. CASE a \in Above(p, t, n) /\ LevelAt(p, a) < l
    <3>1. PICK j \in 1..M : st[j].at = a
      BY <1>12, <2>3
    <3>2. st[j].level < l
      BY <1>11, <2>3, <3>1
    <3>3. j \in 1..k /\ j \in 1..(k + 1)
      BY <1>4, <1>7, <1>9, <3>2
    <3> QED
      BY <1>6, <3>1, <3>3
  <2> QED
    BY <2>1, <2>2, <2>3
<1>18. StackIs(q, p, t, m)
  BY <1>6, <1>14, <1>16, <1>17 DEF StackIs
<1> QED
  BY <1>1, <1>5, <1>18

\* Up to its k-th heading, what is above the text so far.
At(H, k) == IF k = 0 THEN 0 ELSE H[k]

LEMMA HeadsFollow ==
  ASSUME NEW p \in Pages, NEW H, Lists(H, HeadSet(p)), NEW k \in 1..Len(H)
  PROVE  /\ H[k] \in HeadSet(p) /\ At(H, k) = H[k] /\ At(H, k - 1) \in 0..Len(p)
         /\ At(H, k - 1) < H[k] /\ NoneBetween(p, At(H, k - 1), H[k])
<1>1. Len(H) \in Nat /\ Len(p) \in Nat
  BY PageNodes DEF Lists
<1>2. \A j \in 1..Len(H) : H[j] \in HeadSet(p) /\ H[j] \in 1..Len(p)
  BY HeadsAt DEF Lists
<1>3. k \in Nat /\ k # 0 /\ At(H, k) = H[k]
  BY <1>1 DEF At
<1>4. k = 1 \/ k - 1 \in 1..Len(H)
  BY <1>1
<1>5. At(H, k - 1) = IF k = 1 THEN 0 ELSE H[k - 1]
  BY <1>1 DEF At
<1>6. At(H, k - 1) \in 0..Len(p)
  BY <1>1, <1>2, <1>4, <1>5
<1>7. At(H, k - 1) < H[k]
  <2>1. CASE k = 1
    BY <1>1, <1>2, <1>5, <2>1
  <2>2. CASE k # 1
    <3>1. k - 1 \in 1..Len(H) /\ k - 1 < k
      BY <1>1, <2>2
    <3>2. H[k - 1] < H[k]
      BY <3>1 DEF Lists
    <3> QED
      BY <1>5, <2>2, <3>2
  <2> QED
    BY <2>1, <2>2
<1>8. ASSUME NEW g \in (At(H, k - 1) + 1)..(H[k] - 1), g \in HeadSet(p) PROVE FALSE
  <2>1. PICK l \in 1..Len(H) : H[l] = g
    BY <1>8 DEF Lists
  <2>2. At(H, k - 1) < H[l] /\ H[l] < H[k]
    BY <1>2, <1>6, <2>1
  <2>3. l < k
    <3>1. k < l => H[k] < H[l]
      BY DEF Lists
    <3> QED
      BY <1>1, <1>2, <2>2, <3>1
  <2>4. k # 1 /\ l <= k - 1 /\ k - 1 \in 1..Len(H)
    BY <1>1, <2>3
  <2>5. l = k - 1 \/ l < k - 1
    BY <1>1, <2>4
  <2>6. H[l] \in Nat /\ H[k - 1] \in Nat /\ H[k - 1] < H[l]
    BY <1>2, <1>5, <2>2, <2>4
  <2>7. l < k - 1 => H[l] < H[k - 1]
    BY <2>4 DEF Lists
  <2> QED
    BY <2>5, <2>6, <2>7
<1> QED
  BY <1>2, <1>3, <1>6, <1>7, <1>8 DEF NoneBetween

\* The sections of a page with headings: one for each.
NextHead(H, p, k) == IF k < Len(H) THEN H[k + 1] ELSE Len(p) + 1
HeadsUpTo(p, i) == {j \in 1..i : p[j].level > 0}
SectionAt(H, g, p, k) ==
  Section("s", Cardinality(HeadsUpTo(p, H[k])), Path(g[k]),
          {H[k]} \cup TextBetween(p, H[k], NextHead(H, p, k)))

StacksOf(g, H, p, t) == \A k \in 1..Len(H) : StackIs(g[k], p, t, H[k])

LEMMA CutIs ==
  ASSUME NEW p \in Pages, NEW t \in BOOLEAN, p # <<>>,
         Headings(p) # <<>>
  PROVE  \E g : /\ StacksOf(g, Headings(p), p, t)
                /\ ConfluenceSections("s", p, t) =
                     [k \in 1..Len(Headings(p)) |-> SectionAt(Headings(p), g, p, k)]
<1> DEFINE H == Headings(p)
           Stacking(g) ==
             g = [k \in 0..Len(H) |->
                    IF k = 0 THEN RootStack(t) ELSE Push(g[k - 1], p[H[k]].level, H[k])]
           f == CHOOSE g : Stacking(g)
<1>1. PICK M \in Nat : M = Len(H) /\ DOMAIN H = 1..M
  BY HeadingsAre DEF Lists
<1>2. \A k \in 1..M : H[k] \in Nat /\ p[H[k]].level \in Nat /\ p[H[k]].level = LevelOf(p)[H[k]]
  <2>1. \A k \in 1..M : H[k] \in HeadSet(p) /\ H[k] \in Nat
    BY <1>1, HeadingsAre DEF Lists
  <2>2. \A i \in HeadSet(p) : i \in DOMAIN p /\ p[i].word
    BY HeadsAt
  <2> QED
    BY <2>1, <2>2, PageNodes
<1> DEFINE F == [n \in 1..M |-> [st \in Crumbs |-> Push(st, p[H[n]].level, H[n])]]
<1>3. F \in [1..M -> [Crumbs -> Crumbs]]
  <2>1. ASSUME NEW n \in 1..M, NEW st \in Crumbs PROVE Push(st, p[H[n]].level, H[n]) \in Crumbs
    BY <1>2, PushIs DEF Pushed
  <2> QED
    BY <2>1
<1>4. RootStack(t) \in Crumbs
  BY RootIs
<1>5. PICK c : Computes(c, M, Crumbs, RootStack(t), F)
  <2> HIDE DEF F
  <2> QED
    BY <1>3, <1>4, Computable
<1>6. Stacking(c)
  <2>1. \A n \in 1..M : n - 1 \in 0..M
    OBVIOUS
  <2>2. \A n \in 1..M : c[n - 1] \in Crumbs
    BY <1>5, <2>1 DEF Computes
  <2>3. \A n \in 1..M : c[n] = Push(c[n - 1], p[H[n]].level, H[n])
    BY <1>5, <2>2 DEF Computes
  <2>4. c[0] = RootStack(t) /\ c = [n \in 0..M |-> c[n]]
    BY <1>5 DEF Computes
  <2>5. \A n \in 0..M : n = 0 \/ n \in 1..M
    OBVIOUS
  <2>6. \A n \in 0..M :
          c[n] = IF n = 0 THEN RootStack(t) ELSE Push(c[n - 1], p[H[n]].level, H[n])
    BY <2>3, <2>4, <2>5
  <2> QED
    BY <1>1, <2>4, <2>6, Zenon
<1>7. Stacking(f)
  BY <1>6
<1>8. ConfluenceSections("s", p, t) = [k \in DOMAIN H |-> SectionAt(H, f, p, k)]
  BY Zenon DEF ConfluenceSections, SectionAt, NextHead, HeadsUpTo, RootStack
<1> HIDE DEF f, H
<1>9. f[0] = RootStack(t) /\ \A n \in 1..M : f[n] = Push(f[n - 1], LevelOf(p)[H[n]], H[n])
  <2>1. \A n \in 0..M : f[n] = IF n = 0 THEN RootStack(t)
                              ELSE Push(f[n - 1], p[H[n]].level, H[n])
    BY <1>1, <1>7, Zenon
  <2>2. 0 \in 0..M /\ \A n \in 1..M : n \in 0..M /\ n # 0
    OBVIOUS
  <2> QED
    BY <1>2, <2>1, <2>2
<1> DEFINE P == {n \in 0..M : StackIs(f[n], p, t, At(H, n))}
<1>10. 0 \in P
  BY <1>9, RootIs DEF At
<1>11. ASSUME NEW n \in 1..M, n - 1 \in P PROVE n \in P
  <2>1. /\ H[n] \in HeadSet(p) /\ At(H, n) = H[n] /\ At(H, n - 1) \in 0..Len(p)
        /\ At(H, n - 1) < H[n] /\ NoneBetween(p, At(H, n - 1), H[n])
    BY <1>1, HeadingsAre, HeadsFollow DEF H
  <2>2. StackIs(Push(f[n - 1], LevelOf(p)[H[n]], H[n]), p, t, H[n])
    BY <1>11, <2>1, StackMore
  <2> QED
    BY <1>9, <2>1, <2>2
<1> HIDE DEF P
<1>12. \A n \in 0..M : n \in P
  BY <1>10, <1>11, Inductive
<1>13. StacksOf(f, H, p, t)
  <2>1. ASSUME NEW k \in 1..M PROVE StackIs(f[k], p, t, H[k])
    <3>1. k \in 0..M /\ k # 0
      OBVIOUS
    <3> QED
      BY <1>12, <3>1 DEF P, At
  <2> QED
    BY <1>1, <2>1 DEF StacksOf
<1> QED
  BY <1>1, <1>8, <1>13 DEF H

\* The path of a stack goes down through what it holds.
LEMMA PathIs ==
  ASSUME NEW p \in Pages, NEW t \in BOOLEAN, NEW n \in 0..Len(p), NEW st,
         StackIs(st, p, t, n)
  PROVE  IsPath(Path(st), Above(p, t, n))
<1>1. PICK M \in Nat : M = Len(st) /\ DOMAIN st = 1..M
  BY CrumbsAre DEF StackIs
<1>2. \A j \in 1..M : st[j].at \in Nat
  BY <1>1, CrumbsAre DEF StackIs
<1>3. PICK q : q = Path(st)
  OBVIOUS
<1>4. q = [i \in 1..M |-> st[i].at]
  BY <1>1, <1>3, Zenon DEF Path
<1>5. q \in Seq(Nat) /\ Len(q) = M /\ DOMAIN q = 1..M /\ \A j \in 1..M : q[j] = st[j].at
  BY <1>2, <1>4
<1>6. ToSet(q) = {q[j] : j \in 1..M}
  BY <1>5, Zenon DEF ToSet
<1>7. \A j \in 1..M : q[j] \in Above(p, t, n)
  BY <1>1, <1>5 DEF StackIs
<1>8. \A a \in Above(p, t, n) : \E j \in 1..M : q[j] = a
  BY <1>1, <1>5 DEF StackIs
<1>9. ToSet(q) = Above(p, t, n)
  BY <1>6, <1>7, <1>8
<1>10. ASSUME NEW i \in 2..Len(q) PROVE q[i - 1] < q[i]
  <2>1. i - 1 \in 1..M /\ i \in 1..M /\ i - 1 < i
    BY <1>5
  <2>2. st[i - 1].at < st[i].at
    BY <1>1, <2>1 DEF StackIs, Climbs
  <2> QED
    BY <1>5, <2>1, <2>2
<1> QED
  BY <1>3, <1>9, <1>10 DEF IsPath

LastHead(p, i) == {h \in HeadSet(p) : h <= i /\ \A g \in HeadSet(p) : g <= i => g <= h}

LEMMA LastIsAlone ==
  ASSUME NEW p \in Pages, NEW i, NEW g \in LastHead(p, i), NEW h \in LastHead(p, i)
  PROVE  g = h
<1>1. g \in Nat /\ h \in Nat
  BY HeadsAt DEF LastHead
<1>2. g <= h /\ h <= g
  BY DEF LastHead
<1> QED
  BY <1>1, <1>2

\* A node is in the section of the last heading there is up to it, if it has a
\* word.
LEMMA NodesAt ==
  ASSUME NEW p \in Pages, NEW H, Lists(H, HeadSet(p)), NEW g, NEW k \in 1..Len(H),
         NEW i \in DOMAIN p
  PROVE  i \in SectionAt(H, g, p, k).nodes <=> p[i].word /\ H[k] \in LastHead(p, i)
<1>1. PICK N \in Nat : N = Len(p) /\ DOMAIN p = 1..N
  BY PageNodes
<1>2. PICK M \in Nat : M = Len(H)
  BY DEF Lists
<1>3. \A l \in 1..M : H[l] \in HeadSet(p) /\ H[l] \in 1..N
  BY <1>1, <1>2, HeadsAt DEF Lists
<1>4. PICK x : x = NextHead(H, p, k)
  OBVIOUS
<1>5. i \in SectionAt(H, g, p, k).nodes <=>
        i = H[k] \/ (H[k] < i /\ i < x /\ p[i].level = 0 /\ p[i].word)
  BY <1>4 DEF SectionAt, Section, TextBetween
<1>6. i \in HeadSet(p) <=> p[i].level > 0 /\ p[i].word
  BY HeadsAt
<1>7. p[i].level \in Nat /\ p[i].word \in BOOLEAN /\ i \in 1..N
  BY <1>1, PageNodes
<1>8. x = IF k < M THEN H[k + 1] ELSE N + 1
  BY <1>1, <1>2, <1>4 DEF NextHead
<1>9. \A l \in 1..M : H[l] < x => H[l] <= H[k]
  <2>1. ASSUME NEW l \in 1..M, H[l] < x PROVE H[l] <= H[k]
    <3>1. CASE l <= k
      <4>1. l = k \/ l < k
        BY <1>2, <3>1
      <4>2. l < k => H[l] < H[k]
        BY <1>2 DEF Lists
      <4> QED
        BY <1>2, <1>3, <4>1, <4>2
    <3>2. CASE k < l
      <4>1. k < M /\ k + 1 \in 1..M /\ (l = k + 1 \/ k + 1 < l)
        BY <1>2, <3>2
      <4>2. k + 1 < l => H[k + 1] < H[l]
        BY <1>2, <4>1 DEF Lists
      <4>3. H[k + 1] <= H[l] /\ x = H[k + 1]
        BY <1>3, <1>8, <4>1, <4>2
      <4> QED
        BY <1>3, <2>1, <4>1, <4>3
    <3> QED
      BY <1>2, <3>1, <3>2
  <2> QED
    BY <2>1
<1>10. ASSUME i = H[k] PROVE p[i].word /\ H[k] \in LastHead(p, i)
  <2>1. H[k] \in HeadSet(p) /\ H[k] <= i
    BY <1>2, <1>3, <1>7, <1>10
  <2> QED
    BY <1>6, <1>10, <2>1 DEF LastHead
<1>11. ASSUME H[k] < i, i < x PROVE H[k] \in LastHead(p, i)
  <2>1. H[k] \in HeadSet(p) /\ H[k] <= i /\ x \in Nat
    <3>1. k < M => k + 1 \in 1..M
      BY <1>2
    <3> QED
      BY <1>2, <1>3, <1>7, <1>8, <1>11, <3>1
  <2>2. ASSUME NEW h \in HeadSet(p), h <= i PROVE h <= H[k]
    <3>1. PICK l \in 1..M : H[l] = h
      BY <1>2 DEF Lists
    <3>2. H[l] < x
      BY <1>3, <1>7, <1>11, <2>1, <2>2, <3>1
    <3> QED
      BY <1>9, <3>1, <3>2
  <2> QED
    BY <2>1, <2>2 DEF LastHead
<1>12. ASSUME p[i].word, H[k] \in LastHead(p, i), i # H[k]
       PROVE  H[k] < i /\ i < x /\ p[i].level = 0
  <2>1. H[k] <= i /\ \A h \in HeadSet(p) : h <= i => h <= H[k]
    BY <1>12 DEF LastHead
  <2>2. H[k] < i
    BY <1>2, <1>3, <1>7, <1>12, <2>1
  <2>3. i \notin HeadSet(p)
    BY <1>2, <1>3, <1>7, <2>1, <2>2
  <2>4. ASSUME k < M PROVE i < H[k + 1]
    <3>1. k + 1 \in 1..M /\ k < k + 1
      BY <1>2, <2>4
    <3>2. H[k] < H[k + 1]
      BY <1>2, <3>1 DEF Lists
    <3> QED
      BY <1>2, <1>3, <1>7, <2>1, <3>1, <3>2
  <2> QED
    BY <1>2, <1>6, <1>7, <1>8, <1>12, <2>2, <2>3, <2>4
<1> QED
  BY <1>5, <1>10, <1>11, <1>12

\* More headings stand up to one that comes later.
LEMMA MoreHeads ==
  ASSUME NEW p \in Pages, NEW i \in HeadSet(p), NEW j \in HeadSet(p), i < j
  PROVE  Cardinality(HeadsUpTo(p, i)) < Cardinality(HeadsUpTo(p, j))
<1>1. i \in Nat /\ j \in Nat /\ j \in 1..j /\ j \notin 1..i /\ \A n \in 1..i : n \in 1..j
  BY HeadsAt
<1>2. p[j].level > 0
  BY HeadsAt
<1>3. HeadsUpTo(p, i) \subseteq HeadsUpTo(p, j) /\ HeadsUpTo(p, i) # HeadsUpTo(p, j)
  BY <1>1, <1>2 DEF HeadsUpTo
<1>4. IsFiniteSet(HeadsUpTo(p, j))
  <2>1. IsFiniteSet(1..j)
    BY <1>1, FS_Interval
  <2>2. HeadsUpTo(p, j) \in SUBSET (1..j)
    BY DEF HeadsUpTo
  <2> QED
    BY <2>1, <2>2, FS_Subset
<1>5. PICK S : S = HeadsUpTo(p, i)
  OBVIOUS
<1>6. PICK T : T = HeadsUpTo(p, j)
  OBVIOUS
<1>7. /\ S \in SUBSET T /\ IsFiniteSet(T) /\ IsFiniteSet(S) /\ Cardinality(S) <= Cardinality(T)
      /\ Cardinality(S) # Cardinality(T)
  BY <1>3, <1>4, <1>5, <1>6, FS_Subset
<1>8. Cardinality(S) \in Nat /\ Cardinality(T) \in Nat
  BY <1>7, FS_CardinalityType
<1> QED
  BY <1>5, <1>6, <1>7, <1>8

HomeOf(S, i) == {k \in DOMAIN S : i \in S[k].nodes}
CutWell(S, p, t) ==
  /\ \A i \in DOMAIN p :
       Cardinality(HomeOf(S, i)) =
         IF p[i].word /\ (HeadSet(p) = {} \/ LastHead(p, i) # {}) THEN 1 ELSE 0
  /\ \A i \in DOMAIN p, h \in HeadSet(p) : h \in LastHead(p, i) => \A k \in HomeOf(S, i) :
       h \in S[k].nodes /\ IsPath(S[k].path, Above(p, t, h))
  /\ \A k \in 2..Len(S) : S[k - 1].order < S[k].order

LEMMA NoneOrOne ==
  ASSUME NEW A
  PROVE  (A = {} => Cardinality(A) = 0) /\ \A x : A = {x} => Cardinality(A) = 1
  BY FS_EmptySet, FS_Singleton

LEMMA NothingCut ==
  ASSUME NEW t \in BOOLEAN
  PROVE  CutWell(ConfluenceSections("s", <<>>, t), <<>>, t)
<1>1. ConfluenceSections("s", <<>>, t) = <<>>
  BY Zenon DEF ConfluenceSections
<1>2. DOMAIN <<>> = {} /\ 2..Len(<<>>) = {}
  OBVIOUS
<1> QED
  BY <1>1, <1>2 DEF CutWell

\* A page without headings is one section, or none if nothing is in it.
LEMMA PlainCut ==
  ASSUME NEW p \in Pages, NEW t \in BOOLEAN, p # <<>>, Headings(p) = <<>>
  PROVE  CutWell(ConfluenceSections("s", p, t), p, t)
<1> DEFINE words == {i \in DOMAIN p : p[i].word}
<1>1. HeadSet(p) = {}
  <2>1. \A i \in HeadSet(p) : \E k \in 1..Len(<<>>) : TRUE
    BY HeadingsAre DEF Lists
  <2>2. 1..Len(<<>>) = {}
    OBVIOUS
  <2> QED
    BY <2>1, <2>2
<1>2. PICK S : S = ConfluenceSections("s", p, t)
  OBVIOUS
<1>3. S = Fallback("s", p, t)
  BY <1>2, Zenon DEF ConfluenceSections
<1>4. CASE words = {} /\ ~t
  <2>1. S = <<>>
    BY <1>3, <1>4, Zenon DEF Fallback
  <2>2. \A i \in DOMAIN p : HomeOf(S, i) = {} /\ ~p[i].word
    BY <1>4, <2>1 DEF HomeOf
  <2>3. 2..Len(S) = {}
    BY <2>1
  <2> QED
    BY <1>1, <1>2, <2>2, <2>3, NoneOrOne DEF CutWell
<1>5. CASE ~(words = {} /\ ~t)
  <2>1. PICK x : x = Section("s", 0, IF t THEN <<0>> ELSE <<>>, words)
    OBVIOUS
  <2>2. S = <<x>>
    BY <1>3, <1>5, <2>1, Zenon DEF Fallback
  <2>3. x.nodes = words
    BY <2>1 DEF Section
  <2>4. DOMAIN S = {1} /\ S[1] = x /\ 2..Len(S) = {}
    BY <2>2
  <2>5. \A i \in DOMAIN p : HomeOf(S, i) = IF p[i].word THEN {1} ELSE {}
    BY <2>3, <2>4 DEF HomeOf
  <2>6. \A i \in DOMAIN p : Cardinality(HomeOf(S, i)) = IF p[i].word THEN 1 ELSE 0
    BY <2>5, NoneOrOne
  <2> QED
    BY <1>1, <1>2, <2>4, <2>6 DEF CutWell
<1> QED
  BY <1>4, <1>5

LEMMA HeadedCut ==
  ASSUME NEW p \in Pages, NEW t \in BOOLEAN, p # <<>>, Headings(p) # <<>>
  PROVE  CutWell(ConfluenceSections("s", p, t), p, t)
<1>1. PICK H : H = Headings(p)
  OBVIOUS
<1>2. PICK g : /\ StacksOf(g, H, p, t)
               /\ ConfluenceSections("s", p, t) = [k \in 1..Len(H) |-> SectionAt(H, g, p, k)]
  BY <1>1, CutIs
<1>3. PICK S : S = ConfluenceSections("s", p, t)
  OBVIOUS
<1>4. Lists(H, HeadSet(p))
  BY <1>1, HeadingsAre
<1>5. PICK M \in Nat : M = Len(H)
  BY <1>4 DEF Lists
<1>6. S = [k \in 1..M |-> SectionAt(H, g, p, k)]
  BY <1>2, <1>3, <1>5
<1>7. DOMAIN S = 1..M /\ Len(S) = M /\ \A k \in 1..M : S[k] = SectionAt(H, g, p, k)
  BY <1>6
<1>8. \A k \in 1..M : H[k] \in HeadSet(p) /\ H[k] \in 1..Len(p)
  BY <1>4, <1>5, HeadsAt DEF Lists
<1>9. \A i \in DOMAIN p, k \in 1..M : i \in S[k].nodes <=> p[i].word /\ H[k] \in LastHead(p, i)
  BY <1>4, <1>5, <1>7, NodesAt
<1>10. \A i \in DOMAIN p : p[i].word \in BOOLEAN
  BY PageNodes
<1>11. ASSUME NEW i \in DOMAIN p
       PROVE  Cardinality(HomeOf(S, i)) =
                IF p[i].word /\ (HeadSet(p) = {} \/ LastHead(p, i) # {}) THEN 1 ELSE 0
  <2>1. HomeOf(S, i) = {k \in 1..M : p[i].word /\ H[k] \in LastHead(p, i)}
    BY <1>7, <1>9 DEF HomeOf
  <2>2. CASE p[i].word /\ LastHead(p, i) # {}
    <3>1. PICK h : h \in LastHead(p, i)
      BY <2>2
    <3>2. PICK l \in 1..M : H[l] = h
      BY <1>4, <1>5, <3>1 DEF Lists, LastHead
    <3>3. ASSUME NEW k \in 1..M, H[k] \in LastHead(p, i) PROVE k = l
      <4>1. H[k] = H[l]
        BY <3>1, <3>2, <3>3, LastIsAlone
      <4>2. (k < l => H[k] < H[l]) /\ (l < k => H[l] < H[k])
        BY <1>5, <1>4 DEF Lists
      <4>3. H[k] \in Int /\ H[l] \in Int
        BY <1>8
      <4>4. k \in Int /\ l \in Int
        OBVIOUS
      <4> QED
        BY <4>1, <4>2, <4>3, <4>4
    <3>4. HomeOf(S, i) = {l}
      BY <2>1, <2>2, <3>1, <3>2, <3>3
    <3> QED
      BY <2>2, <3>4, NoneOrOne
  <2>3. CASE ~(p[i].word /\ LastHead(p, i) # {})
    <3>1. HomeOf(S, i) = {}
      BY <2>1, <2>3
    <3>2. HeadSet(p) # {}
      <4>1. M # 0
        BY <1>1, <1>4, <1>5 DEF Lists
      <4>2. 1 \in 1..M
        BY <4>1
      <4> QED
        BY <1>8, <4>2
    <3> QED
      BY <1>10, <2>3, <3>1, <3>2, NoneOrOne
  <2> QED
    BY <2>2, <2>3
<1>12. ASSUME NEW i \in DOMAIN p, NEW h \in HeadSet(p), h \in LastHead(p, i), NEW k \in HomeOf(S, i)
       PROVE  h \in S[k].nodes /\ IsPath(S[k].path, Above(p, t, h))
  <2>1. k \in 1..M /\ i \in S[k].nodes
    BY <1>7 DEF HomeOf
  <2>2. h = H[k]
    BY <1>9, <1>12, <2>1, LastIsAlone
  <2>3. H[k] \in S[k].nodes /\ S[k].path = Path(g[k])
    BY <1>7, <2>1 DEF SectionAt, Section
  <2>4. H[k] \in 0..Len(p) /\ StackIs(g[k], p, t, H[k])
    BY <1>2, <1>5, <1>8, <2>1 DEF StacksOf
  <2>5. IsPath(Path(g[k]), Above(p, t, H[k]))
    BY <2>4, PathIs
  <2> QED
    BY <2>2, <2>3, <2>5
<1>13. ASSUME NEW k \in 2..Len(S) PROVE S[k - 1].order < S[k].order
  <2>1. k \in 1..M /\ k - 1 \in 1..M /\ k - 1 < k
    BY <1>7
  <2>2. H[k - 1] < H[k]
    BY <1>4, <1>5, <2>1 DEF Lists
  <2>3. \A l \in 1..M : S[l].order = Cardinality(HeadsUpTo(p, H[l]))
    BY <1>7 DEF SectionAt, Section
  <2> QED
    BY <1>8, <2>1, <2>2, <2>3, MoreHeads
<1> QED
  BY <1>3, <1>11, <1>12, <1>13 DEF CutWell

LEMMA SectionsCut ==
  ASSUME NEW p \in Pages, NEW t \in BOOLEAN
  PROVE  SectionsAreFaithful(p, t)
<1>1. CutWell(ConfluenceSections("s", p, t), p, t)
  BY NothingCut, PlainCut, HeadedCut
<1> QED
  BY <1>1, Zenon DEF SectionsAreFaithful, CutWell, HomeOf, HeadSet, LevelOf, LastHead, Above, RootOf

-----------------------------------------------------------------------------
(* A document that is no page of the wiki                                  *)

LEMMA PagesCut ==
  ASSUME NEW pages \in Seq(BOOLEAN), NEW S, S = PageSections("s", pages)
  PROVE  /\ {S[k].order : k \in DOMAIN S} = {i \in DOMAIN pages : pages[i]}
         /\ \A k \in DOMAIN S : S[k].nodes = {S[k].order}
         /\ \A k \in 2..Len(S) : S[k - 1].order < S[k].order
<1>1. PICK N \in Nat : N = Len(pages) /\ DOMAIN pages = 1..N
  OBVIOUS
<1>2. PICK places : places = {i \in DOMAIN pages : pages[i]}
  OBVIOUS
<1>3. PICK full : full = Picked(Ordinals(N), places)
  OBVIOUS
<1>4. Lists(full, places)
  BY <1>1, <1>2, <1>3, PlacesPicked
<1>5. S = [k \in DOMAIN full |-> Section("s", full[k], <<>>, {full[k]})]
  BY <1>1, <1>2, <1>3, Zenon DEF PageSections, Ordinals
<1>6. PICK M \in Nat : M = Len(full) /\ DOMAIN full = 1..M
  BY <1>4 DEF Lists
<1>7. DOMAIN S = 1..M /\ Len(S) = M
  BY <1>5, <1>6
<1>8. \A k \in 1..M : S[k].order = full[k] /\ S[k].nodes = {full[k]}
  BY <1>5, <1>6 DEF Section
<1>9. {S[k].order : k \in DOMAIN S} = places
  <2>1. \A k \in 1..M : full[k] \in places
    BY <1>4, <1>6 DEF Lists
  <2>2. \A i \in places : \E k \in 1..M : full[k] = i
    BY <1>4, <1>6 DEF Lists
  <2> QED
    BY <1>7, <1>8, <2>1, <2>2
<1>10. ASSUME NEW k \in 2..Len(S) PROVE S[k - 1].order < S[k].order
  <2>1. k - 1 \in 1..M /\ k \in 1..M /\ k - 1 < k
    BY <1>7
  <2>2. full[k - 1] < full[k]
    BY <1>4, <1>6, <2>1 DEF Lists
  <2> QED
    BY <1>8, <2>1, <2>2
<1> QED
  BY <1>2, <1>7, <1>8, <1>9, <1>10

\* The first bar of a text: above it is the header.
Bars(lines) == {i \in DOMAIN lines : lines[i] = "---"}
FirstBar(lines) == SelectInSeq(lines, LAMBDA l : l = "---")

LEMMA FirstBarIs ==
  ASSUME NEW lines \in Seq(STRING)
  PROVE  /\ FirstBar(lines) = 0 <=> Bars(lines) = {}
         /\ Bars(lines) # {} =>
              FirstBar(lines) \in Bars(lines) /\ \A b \in Bars(lines) : FirstBar(lines) <= b
<1>1. DOMAIN lines = 1..Len(lines) /\ Len(lines) \in Nat
  OBVIOUS
<1>2. FirstBar(lines) = IF Bars(lines) # {} THEN Min(Bars(lines)) ELSE 0
  BY <1>1 DEF FirstBar, SelectInSeq, Bars
<1>3. Bars(lines) \subseteq Nat /\ 0 \notin Bars(lines)
  BY <1>1 DEF Bars
<1>4. ASSUME Bars(lines) # {}
      PROVE  Min(Bars(lines)) \in Bars(lines) /\ \A b \in Bars(lines) : Min(Bars(lines)) <= b
  <2>1. \E i \in Bars(lines) : \A j \in Bars(lines) : i <= j
    BY <1>3, <1>4, Smallest
  <2> QED
    BY <2>1, Zenon DEF Min
<1> QED
  BY <1>2, <1>3, <1>4

AboveBar(lines) == {i \in DOMAIN lines : Bars(lines) # {} /\ \A b \in Bars(lines) : i <= b}
UnderBar(lines) ==
  {i \in DOMAIN lines \ AboveBar(lines) :
     Bars(lines) # {} /\ \E j \in 1..i : j \notin AboveBar(lines) /\ lines[j] # "empty"}

LEMMA KbDocCut ==
  ASSUME NEW lines \in Seq(STRING), NEW S, S = KbDoc("s", lines)
  PROVE  IF UnderBar(lines) # {} /\ KbKeys \subseteq {lines[i] : i \in AboveBar(lines)}
         THEN Len(S) = 1 /\ S[1].nodes = UnderBar(lines) ELSE S = <<>>
<1> DEFINE keys(b) == {lines[i] : i \in 1..(b - 1)} \cap KbKeys
           below(b) == {i \in DOMAIN lines : i > b}
           nodes(b) == {i \in below(b) : \E j \in (b + 1)..i : lines[j] # "empty"}
<1>1. PICK N \in Nat : N = Len(lines) /\ DOMAIN lines = 1..N
  OBVIOUS
<1>2. PICK b : b = FirstBar(lines)
  OBVIOUS
<1>3. S = IF b = 0 \/ keys(b) # KbKeys \/ \A i \in below(b) : lines[i] = "empty" THEN <<>>
          ELSE <<Section("s", 0, <<>>, nodes(b))>>
  BY <1>2, Zenon DEF KbDoc, FirstBar
<1>4. CASE Bars(lines) = {}
  <2>1. b = 0 /\ UnderBar(lines) = {}
    BY <1>2, <1>4, FirstBarIs DEF UnderBar
  <2> QED
    BY <1>3, <2>1
<1>5. CASE Bars(lines) # {}
  <2>1. b \in Bars(lines) /\ b # 0 /\ \A a \in Bars(lines) : b <= a
    BY <1>2, <1>5, FirstBarIs
  <2>2. b \in 1..N /\ lines[b] = "---"
    BY <1>1, <2>1 DEF Bars
  <2>3. \A a \in Bars(lines) : a \in 1..N
    BY <1>1 DEF Bars
  <2>4. \A i \in 1..N : i \in AboveBar(lines) <=> i <= b
    BY <1>1, <1>5, <2>1, <2>2, <2>3 DEF AboveBar
  <2>5. \A i \in AboveBar(lines) : i \in 1..N
    BY <1>1 DEF AboveBar
  <2>6. UnderBar(lines) = nodes(b)
    <3>1. ASSUME NEW i \in 1..N
          PROVE  i \in UnderBar(lines) <=> i > b /\ \E j \in (b + 1)..i : lines[j] # "empty"
      <4>1. i \in UnderBar(lines) <=>
              i > b /\ \E j \in 1..i : j \notin AboveBar(lines) /\ lines[j] # "empty"
        BY <1>1, <1>5, <2>2, <2>4 DEF UnderBar
      <4>2. \A j \in 1..i : j \notin AboveBar(lines) <=> j \in (b + 1)..i
        BY <2>2, <2>4
      <4>3. \A j \in (b + 1)..i : j \in 1..i
        BY <2>2
      <4> QED
        BY <4>1, <4>2, <4>3
    <3>2. \A i \in UnderBar(lines) : i \in 1..N
      BY <1>1 DEF UnderBar
    <3>3. \A i : i \in nodes(b) <=> i \in 1..N /\ i > b /\ \E j \in (b + 1)..i : lines[j] # "empty"
      BY <1>1
    <3> HIDE DEF nodes
    <3> QED
      BY <3>1, <3>2, <3>3
  <2>7. UnderBar(lines) = {} <=> \A i \in below(b) : lines[i] = "empty"
    <3>1. ASSUME NEW i \in below(b), lines[i] # "empty" PROVE i \in nodes(b)
      <4>1. i \in (b + 1)..i
        BY <1>1, <2>2
      <4> QED
        BY <3>1, <4>1
    <3>2. ASSUME NEW i \in nodes(b) PROVE \E j \in below(b) : lines[j] # "empty"
      <4>1. PICK j \in (b + 1)..i : lines[j] # "empty"
        BY <3>2
      <4>2. j \in below(b)
        BY <1>1, <2>2
      <4> QED
        BY <4>1, <4>2
    <3> QED
      BY <2>6, <3>1, <3>2
  <2>8. keys(b) = KbKeys <=> KbKeys \subseteq {lines[i] : i \in AboveBar(lines)}
    <3>1. \A i \in 1..(b - 1) : i \in AboveBar(lines)
      BY <2>2, <2>4
    <3>2. \A i \in AboveBar(lines) : i \in 1..(b - 1) \/ i = b
      BY <2>2, <2>4, <2>5
    <3>3. lines[b] \notin KbKeys
      BY <2>2 DEF KbKeys
    <3>4. ASSUME NEW x \in KbKeys
          PROVE  x \in {lines[i] : i \in 1..(b - 1)} <=> x \in {lines[i] : i \in AboveBar(lines)}
      BY <3>1, <3>2, <3>3
    <3> QED
      BY <3>4
  <2>9. PICK x : x = Section("s", 0, <<>>, nodes(b))
    OBVIOUS
  <2>10. x.nodes = UnderBar(lines)
    BY <2>6, <2>9 DEF Section
  <2>11. Len(<<x>>) = 1 /\ <<x>>[1] = x
    OBVIOUS
  <2> HIDE DEF keys, below, nodes
  <2> QED
    BY <1>3, <2>1, <2>7, <2>8, <2>9, <2>10, <2>11
<1> QED
  BY <1>4, <1>5

LEMMA PlainTextCut ==
  ASSUME NEW fits, NEW S, S = PlainText("s", Encodings, fits)
  PROVE  (S = <<>>) <=> (fits \cap ToSet(Encodings) = {})
<1> DEFINE I == {i \in 1..Len(Encodings) : Encodings[i] \in fits}
<1>1. Len(Encodings) \in Nat /\ DOMAIN Encodings = 1..Len(Encodings)
  BY SectionsAssumption
<1>2. SelectInSeq(Encodings, LAMBDA e : e \in fits) = IF I # {} THEN Min(I) ELSE 0
  BY Zenon DEF SelectInSeq
<1>3. I \subseteq Nat /\ 0 \notin I
  BY <1>1
<1>4. I = {} <=> fits \cap ToSet(Encodings) = {}
  BY <1>1 DEF ToSet
<1> HIDE DEF I
<1>5. I # {} => Min(I) \in I
  <2>1. I # {} => \E i \in I : \A j \in I : i <= j
    BY <1>3, Smallest
  <2> QED
    BY <2>1, Zenon DEF Min
<1>6. SelectInSeq(Encodings, LAMBDA e : e \in fits) = 0 <=> I = {}
  BY <1>2, <1>3, <1>5
<1>7. PICK x : x = Section("s", 0, <<>>, {1})
  OBVIOUS
<1>8. S = IF I = {} THEN <<>> ELSE <<x>>
  BY <1>6, <1>7, Zenon DEF PlainText
<1>9. <<x>> # <<>>
  OBVIOUS
<1> QED
  BY <1>4, <1>8, <1>9

LEMMA FileCut ==
  ASSUME NEW d, d.media # "text/html", d.pages \in Seq(BOOLEAN), d.lines \in Seq(STRING)
  PROVE  FileIsFaithful(d, Encodings)
<1>1. PICK S : S = Read("s", d, Encodings)
  OBVIOUS
<1>2. PICK bars : bars = Bars(d.lines)
  OBVIOUS
<1>3. CASE d.media = "application/pdf"
  <2>1. S = PageSections("s", d.pages)
    BY <1>1, <1>3 DEF Read
  <2>2. /\ {S[k].order : k \in DOMAIN S} = {i \in DOMAIN d.pages : d.pages[i]}
        /\ \A k \in DOMAIN S : S[k].nodes = {S[k].order}
        /\ \A k \in 2..Len(S) : S[k - 1].order < S[k].order
    BY <2>1, PagesCut
  <2> QED
    BY <1>1, <1>3, <2>2 DEF FileIsFaithful
<1>4. CASE d.media = "text/x-kbdoc"
  <2>1. S = KbDoc("s", d.lines)
    BY <1>1, <1>4 DEF Read
  <2>2. IF UnderBar(d.lines) # {} /\ KbKeys \subseteq {d.lines[i] : i \in AboveBar(d.lines)}
        THEN Len(S) = 1 /\ S[1].nodes = UnderBar(d.lines) ELSE S = <<>>
    BY <2>1, KbDocCut
  <2>3. d.media # "application/pdf"
    BY <1>4
  <2> QED
    BY <1>1, <1>4, <2>2, <2>3, Zenon DEF FileIsFaithful, UnderBar, AboveBar, Bars
<1>5. CASE d.media = "text/plain"
  <2>1. S = PlainText("s", Encodings, d.fits)
    BY <1>1, <1>5 DEF Read
  <2>2. (S = <<>>) <=> (d.fits \cap ToSet(Encodings) = {})
    BY <2>1, PlainTextCut
  <2>3. (S = <<>>) = (d.fits \cap ToSet(Encodings) = {})
    BY <2>2
  <2> QED
    BY <1>1, <1>5, <2>3 DEF FileIsFaithful
<1>6. CASE d.media \notin {"application/pdf", "text/x-kbdoc", "text/plain"}
  <2>1. S = <<>>
    BY <1>1, <1>6 DEF Read
  <2> QED
    BY <1>1, <1>6, <2>1 DEF FileIsFaithful
<1> QED
  BY <1>3, <1>4, <1>5, <1>6

-----------------------------------------------------------------------------
(* Whatever comes to the readers                                           *)

\* What is under work is a page of the nodes there are, and a file or none.
ReadersType == page \in Pages /\ titled \in BOOLEAN /\ file \in Files \cup {NoFile}

LEMMA ReadersTyped == ReaderSpec => []ReadersType
<1>1. ReadersInit => ReadersType
  BY DEF ReadersInit, ReadersType, Pages
<1>2. ASSUME ReadersType, ReaderNext PROVE ReadersType'
  <2>1. CASE ReadFile
    BY <1>2, <2>1 DEF ReadFile, ReadersType
  <2>2. ASSUME NEW node \in Nodes, WriteNode(node) PROVE ReadersType'
    BY <1>2, <2>2, SectionsAssumption DEF WriteNode, ReadersType, Pages
  <2> QED
    BY <1>2, <2>1, <2>2 DEF ReaderNext
<1>3. ReadersType /\ UNCHANGED readerVars => ReadersType'
  BY DEF ReadersType, readerVars
<1> QED
  BY <1>1, <1>2, <1>3, PTL DEF ReaderSpec

LEMMA FilesAre ==
  ASSUME NEW d \in Files \cup {NoFile}
  PROVE  d.media # "text/html" /\ d.pages \in Seq(BOOLEAN) /\ d.lines \in Seq(STRING)
<1>1. /\ NoFile.media # "text/html" /\ NoFile.pages \in Seq(BOOLEAN)
      /\ NoFile.lines \in Seq(STRING)
  BY DEF NoFile
<1> QED
  BY <1>1, SectionsAssumption

\* Whatever is written on a page of the wiki, each text with a word is in the
\* section of the last heading before it and in no other, its path names the
\* title and the headings it stands under and no more, and the sections are
\* numbered upwards; and of any other document, the readers keep each page with
\* a text, all that stands under a whole header, or refuse it.
THEOREM PagesAreCutRight == ReaderSpec => []PagesAreCut
<1>1. ReadersType => PagesAreCut
  BY SectionsCut, FilesAre, FileCut DEF ReadersType, PagesAreCut
<1> QED
  BY <1>1, ReadersTyped, PTL
-----------------------------------------------------------------------------
(* A text cut at a separator                                               *)

LEMMA SeparatorsAre ==
  /\ Len(Separators) = 4
  /\ Separators[1] = <<"newline", "newline">> /\ Separators[2] = <<"newline">>
  /\ Separators[3] = <<"blank">> /\ Separators[4] = <<>>
  BY DEF Separators

\* What a text may be cut with: no letter is in it.
IsSeparator(sep) ==
  sep \in Seq(Char) /\ Len(sep) \in Nat /\ \A j \in 1..Len(sep) : sep[j] # "x"

LEMMA SeparatorsCut ==
  ASSUME NEW n \in 1..4
  PROVE  IsSeparator(Separators[n]) /\ (n # 4 => Len(Separators[n]) >= 1 /\ Separators[n] # <<>>)
<1>1. IsSeparator(<<"newline", "newline">>) /\ Len(<<"newline", "newline">>) >= 1
  BY DEF IsSeparator, Char
<1>2. IsSeparator(<<"newline">>) /\ Len(<<"newline">>) >= 1
  BY DEF IsSeparator, Char
<1>3. IsSeparator(<<"blank">>) /\ Len(<<"blank">>) >= 1
  BY DEF IsSeparator, Char
<1>4. IsSeparator(<<>>)
  BY DEF IsSeparator
<1>5. /\ <<"newline", "newline">> # <<>> /\ <<"newline">> # <<>> /\ <<"blank">> # <<>>
  OBVIOUS
<1>6. n = 1 \/ n = 2 \/ n = 3 \/ n = 4
  OBVIOUS
<1> QED
  BY <1>1, <1>2, <1>3, <1>4, <1>5, <1>6, SeparatorsAre

OccursAt(t, sep, i) == \A j \in 1..Len(sep) : t[i + j - 1] = sep[j]

LEMMA FoundIs ==
  ASSUME NEW t, NEW sep, NEW from, NEW to, NEW i
  PROVE  i \in Found(t, sep, from, to) <=> i \in from..(to + 1 - Len(sep)) /\ OccursAt(t, sep, i)
  BY DEF Found, OccursAt

\* What is not in a text is not in a part of it.
LEMMA FoundLess ==
  ASSUME NEW t, NEW sep, IsSeparator(sep), NEW from \in Int, NEW to \in Int,
         NEW f \in Int, NEW l \in Int, from <= f, l <= to, Found(t, sep, from, to) = {}
  PROVE  Found(t, sep, f, l) = {}
<1>1. \A i : i \in f..(l + 1 - Len(sep)) => i \in from..(to + 1 - Len(sep))
  BY DEF IsSeparator
<1> QED
  BY <1>1, FoundIs

LEMMA PiecesAre ==
  ASSUME NEW t \in Seq(Char), NEW p \in Pieces(t)
  PROVE  /\ p.from \in Nat /\ p.to \in Nat /\ 1 <= p.from /\ p.from <= p.to /\ p.to <= Len(t)
         /\ Size(p) \in Nat /\ Size(p) >= 1 /\ p = Piece(p.from, p.to)
<1>1. Len(t) \in Nat
  OBVIOUS
<1>2. p \in [from : 1..Len(t), to : 1..Len(t)] /\ p.from <= p.to
  BY DEF Pieces
<1>3. p.from \in 1..Len(t) /\ p.to \in 1..Len(t) /\ p = [from |-> p.from, to |-> p.to]
  BY <1>2
<1> QED
  BY <1>1, <1>2, <1>3 DEF Size, Piece

LEMMA APiece ==
  ASSUME NEW t \in Seq(Char), NEW from \in Int, NEW to \in Int, 1 <= from, from <= to, to <= Len(t)
  PROVE  /\ Piece(from, to) \in Pieces(t)
         /\ Piece(from, to).from = from /\ Piece(from, to).to = to
         /\ Size(Piece(from, to)) = to - from + 1
<1>1. Len(t) \in Nat /\ from \in 1..Len(t) /\ to \in 1..Len(t)
  OBVIOUS
<1>2. Piece(from, to).from = from /\ Piece(from, to).to = to
  BY DEF Piece
<1>3. Piece(from, to) \in [from : 1..Len(t), to : 1..Len(t)]
  BY <1>1 DEF Piece
<1> QED
  BY <1>2, <1>3 DEF Pieces, Size

\* Two separators side by side
Twice(t, sep, from, to) ==
  /\ Len(sep) >= 1
  /\ \E i \in from..to : /\ i + 2 * Len(sep) - 1 <= to
                        /\ OccursAt(t, sep, i) /\ OccursAt(t, sep, i + Len(sep))

\* s is what is between separators from a to b: in order, one separator between
\* two of its pieces or two side by side, and none in them; no letter is left.
Parted(t, sep, a, b, s) ==
  /\ s \in Seq(Pieces(t))
  /\ \A k \in 1..Len(s) : a <= s[k].from /\ s[k].to <= b
  /\ \A k \in 2..Len(s) : s[k - 1].to + Len(sep) + 1 <= s[k].from
  /\ \A k \in 2..Len(s) :
       s[k].from = s[k - 1].to + Len(sep) + 1 \/ Twice(t, sep, s[k - 1].to + 1, s[k].from - 1)
  /\ \A i \in a..b : t[i] = "x" => \E k \in 1..Len(s) : i \in s[k].from..s[k].to

\* No separator is in the pieces of s.
NoneIn(t, sep, s) == \A k \in 1..Len(s) : Found(t, sep, s[k].from, s[k].to) = {}

\* Where the loop stands: behind a separator, or at the end.
SplitIs(t, sep, p, n, s) ==
  /\ s.pos \in Nat /\ p.from <= s.pos /\ (s.pos >= p.from + n \/ s.pos > p.to)
  /\ Parted(t, sep, p.from, IF s.pos > p.to THEN p.to ELSE s.pos - 1, s.out)
  /\ NoneIn(t, sep, s.out)
  /\ s.out # <<>> =>
       /\ s.out[Len(s.out)].to + Len(sep) + 1 <= s.pos
       /\ s.pos > p.to \/ OccursAt(t, sep, s.pos - Len(sep))
       /\ \/ s.pos > p.to \/ s.pos = s.out[Len(s.out)].to + Len(sep) + 1
          \/ Twice(t, sep, s.out[Len(s.out)].to + 1, s.pos - 1)

LEMMA AppendIs ==
  ASSUME NEW C, NEW s \in Seq(C), NEW x \in C
  PROVE  /\ Append(s, x) \in Seq(C) /\ Len(Append(s, x)) = Len(s) + 1 /\ Len(s) \in Nat
         /\ Append(s, x)[Len(s) + 1] = x /\ \A k \in 1..Len(s) : Append(s, x)[k] = s[k]
  OBVIOUS

LEMMA ConcatIs ==
  ASSUME NEW C, NEW s \in Seq(C), NEW u \in Seq(C)
  PROVE  /\ s \o u \in Seq(C) /\ Len(s \o u) = Len(s) + Len(u)
         /\ Len(s) \in Nat /\ Len(u) \in Nat
         /\ \A k \in 1..Len(s) : (s \o u)[k] = s[k]
         /\ \A k \in 1..Len(u) : (s \o u)[Len(s) + k] = u[k]
  OBVIOUS

\* One more piece behind those there are.
LEMMA PartedMore ==
  ASSUME NEW t \in Seq(Char), NEW sep, IsSeparator(sep), NEW a \in Nat, NEW s, NEW q \in Pieces(t),
         NEW e \in Int, Parted(t, sep, a, e, s), NoneIn(t, sep, s), q.from = e + 1, a <= q.from,
         s # <<>> => /\ s[Len(s)].to + Len(sep) + 1 <= q.from
                     /\ \/ q.from = s[Len(s)].to + Len(sep) + 1
                        \/ Twice(t, sep, s[Len(s)].to + 1, q.from - 1),
         Found(t, sep, q.from, q.to) = {}
  PROVE  Parted(t, sep, a, q.to, Append(s, q)) /\ NoneIn(t, sep, Append(s, q))
<1>1. PICK L \in Nat : L = Len(sep)
  BY DEF IsSeparator
<1>2. s \in Seq(Pieces(t))
  BY DEF Parted
<1>3. PICK m \in Nat : m = Len(s)
  BY <1>2
<1>4. PICK u : u = Append(s, q)
  OBVIOUS
<1>5. u \in Seq(Pieces(t)) /\ Len(u) = m + 1 /\ u[m + 1] = q /\ \A k \in 1..m : u[k] = s[k]
  BY <1>2, <1>3, <1>4, AppendIs
<1>6. q.from \in Nat /\ q.to \in Nat /\ q.from <= q.to
  BY PiecesAre
<1>7. \A k \in 1..m : s[k].from \in Nat /\ s[k].to \in Nat /\ s[k].from <= s[k].to
  BY <1>2, <1>3, PiecesAre
<1>8. \A k \in 1..(m + 1) : k = m + 1 \/ k \in 1..m
  BY <1>3
<1>9. \A k \in 2..(m + 1) : k = m + 1 \/ (k \in 2..m /\ k - 1 \in 1..m /\ k \in 1..m)
  BY <1>3
<1>10. \A k \in 1..m : a <= s[k].from /\ s[k].to <= e
  BY <1>3 DEF Parted
<1>11. \A k \in 1..(m + 1) : a <= u[k].from /\ u[k].to <= q.to
  BY <1>5, <1>6, <1>7, <1>8, <1>10
<1>12. m # 0 => m \in 1..m /\ s # <<>> /\ (m + 1) - 1 = m
  BY <1>3
<1>13. ASSUME NEW k \in 2..(m + 1)
       PROVE  /\ u[k - 1].to + L + 1 <= u[k].from
              /\ u[k].from = u[k - 1].to + L + 1 \/ Twice(t, sep, u[k - 1].to + 1, u[k].from - 1)
  <2>1. CASE k = m + 1
    <3>1. m # 0 /\ u[k - 1] = s[m] /\ u[k] = q
      BY <1>5, <1>12, <2>1
    <3> QED
      BY <1>1, <1>3, <1>12, <3>1
  <2>2. CASE k \in 2..m /\ k - 1 \in 1..m /\ k \in 1..m
    <3>1. u[k - 1] = s[k - 1] /\ u[k] = s[k]
      BY <1>5, <2>2
    <3> QED
      BY <1>1, <1>3, <2>2, <3>1 DEF Parted
  <2> QED
    BY <1>9, <2>1, <2>2
<1>14. ASSUME NEW i \in a..q.to, t[i] = "x" PROVE \E k \in 1..(m + 1) : i \in u[k].from..u[k].to
  <2>1. CASE i <= e
    <3>1. i \in a..e
      BY <1>6, <2>1
    <3>2. PICK k \in 1..m : i \in s[k].from..s[k].to
      BY <1>3, <1>14, <3>1 DEF Parted
    <3>3. k \in 1..(m + 1)
      OBVIOUS
    <3> QED
      BY <1>5, <3>2, <3>3
  <2>2. CASE i > e
    <3>1. i \in q.from..q.to /\ m + 1 \in 1..(m + 1)
      BY <1>6, <2>2
    <3> QED
      BY <1>5, <3>1
  <2> QED
    BY <1>6, <2>1, <2>2
<1>15. Parted(t, sep, a, q.to, u)
  BY <1>1, <1>5, <1>11, <1>13, <1>14 DEF Parted
<1>16. NoneIn(t, sep, u)
  <2>1. \A k \in 1..m : Found(t, sep, s[k].from, s[k].to) = {}
    BY <1>3 DEF NoneIn
  <2> QED
    BY <1>5, <1>8, <2>1 DEF NoneIn
<1> QED
  BY <1>4, <1>15, <1>16

\* A separator more, and no letter.
LEMMA PartedSame ==
  ASSUME NEW t \in Seq(Char), NEW sep, NEW a \in Nat, NEW s, NEW e \in Int, NEW f \in Int,
         Parted(t, sep, a, e, s), e <= f, \A i \in (e + 1)..f : a <= i => t[i] # "x"
  PROVE  Parted(t, sep, a, f, s)
<1>1. s \in Seq(Pieces(t)) /\ Len(s) \in Nat
  BY DEF Parted
<1>2. \A k \in 1..Len(s) : s[k].to \in Nat /\ s[k].to <= e
  BY <1>1, PiecesAre DEF Parted
<1>3. \A k \in 1..Len(s) : s[k].to <= f
  BY <1>2
<1>4. ASSUME NEW i \in a..f, t[i] = "x" PROVE \E k \in 1..Len(s) : i \in s[k].from..s[k].to
  <2>1. i \in a..e
    BY <1>4
  <2> QED
    BY <1>4, <2>1 DEF Parted
<1> QED
  BY <1>3, <1>4 DEF Parted

LEMMA FirstFound ==
  ASSUME NEW t \in Seq(Char), NEW sep, IsSeparator(sep), NEW from \in Nat, NEW to \in Nat,
         Found(t, sep, from, to) # {}
  PROVE  LET at == Min(Found(t, sep, from, to))
         IN  at \in Found(t, sep, from, to) /\ \A i \in Found(t, sep, from, to) : at <= i
<1> DEFINE found == Found(t, sep, from, to)
<1>1. found \subseteq Nat
  BY FoundIs DEF IsSeparator
<1> HIDE DEF found
<1>2. found # {}
  BY DEF found
<1>3. \E i \in found : \A j \in found : i <= j
  BY <1>1, <1>2, Smallest
<1>4. Min(found) \in found /\ \A i \in found : Min(found) <= i
  BY <1>3, Zenon DEF Min
<1> QED
  BY <1>4 DEF found

LEMMA SplitTurnKeeps ==
  ASSUME NEW t \in Seq(Char), NEW sep, IsSeparator(sep), Len(sep) >= 1, NEW p \in Pieces(t),
         NEW n \in Nat, n >= 1, NEW s, SplitIs(t, sep, p, n - 1, s)
  PROVE  SplitIs(t, sep, p, n, SplitTurn(t, p, sep, s))
<1>1. PICK L \in Nat : L = Len(sep) /\ L >= 1
  BY DEF IsSeparator
<1>2. PICK pos \in Nat : pos = s.pos /\ p.from <= pos
  BY DEF SplitIs
<1>3. p.from \in Nat /\ p.to \in Nat /\ 1 <= p.from /\ p.from <= p.to /\ p.to <= Len(t)
  BY PiecesAre
<1>4. PICK r : r = SplitTurn(t, p, sep, s)
  OBVIOUS
<1>5. CASE pos > p.to
  <2>1. r = s
    BY <1>2, <1>4, <1>5, Zenon DEF SplitTurn
  <2>2. SplitIs(t, sep, p, n, s)
    BY <1>2, <1>5 DEF SplitIs
  <2> QED
    BY <1>4, <2>1, <2>2
<1>6. CASE ~(pos > p.to)
  <2>1. pos <= p.to /\ pos >= p.from + (n - 1)
    BY <1>2, <1>3, <1>6 DEF SplitIs
  <2>2. Parted(t, sep, p.from, pos - 1, s.out) /\ NoneIn(t, sep, s.out)
    BY <1>2, <1>6 DEF SplitIs
  <2>3. PICK out : out = s.out
    OBVIOUS
  <2>4. out # <<>> =>
          /\ out[Len(out)].to + L + 1 <= pos
          /\ OccursAt(t, sep, pos - L)
          /\ pos = out[Len(out)].to + L + 1 \/ Twice(t, sep, out[Len(out)].to + 1, pos - 1)
    BY <1>1, <1>2, <1>6, <2>3 DEF SplitIs
  <2>5. PICK found : found = Found(t, sep, pos, p.to)
    OBVIOUS
  <2>6. PICK at : at = IF found = {} THEN p.to + 1 ELSE Min(found)
    OBVIOUS
  <2>7. found # {} => at \in found /\ \A i \in found : at <= i
    BY <1>2, <1>3, <2>5, <2>6, FirstFound
  <2>8. \A i : i \in found <=> i \in pos..(p.to + 1 - L) /\ OccursAt(t, sep, i)
    BY <1>1, <2>5, FoundIs
  <2>9. at \in Nat /\ pos <= at /\ (found # {} => at <= p.to + 1 - L /\ OccursAt(t, sep, at))
    BY <1>1, <1>2, <1>3, <2>1, <2>6, <2>7, <2>8
  <2>10. at <= p.to + 1
    BY <1>1, <1>3, <2>6, <2>9
  <2>11. r = [pos |-> at + L,
              out |-> IF at > pos THEN Append(out, Piece(pos, at - 1)) ELSE out]
    BY <1>1, <1>2, <1>4, <1>6, <2>3, <2>5, <2>6, Zenon DEF SplitTurn
  <2>12. r.pos = at + L /\ r.out = IF at > pos THEN Append(out, Piece(pos, at - 1)) ELSE out
    BY <2>11
  <2>13. r.pos \in Nat /\ p.from <= r.pos /\ r.pos >= p.from + n
    BY <1>1, <1>2, <1>3, <2>1, <2>9, <2>12
  <2>14. PICK e \in Int : e = IF r.pos > p.to THEN p.to ELSE r.pos - 1
    BY <1>3, <2>13
  <2>15. at - 1 <= e /\ \A i \in at..e : t[i] # "x"
    <3>1. CASE found = {}
      <4>1. e = p.to /\ at = p.to + 1
        BY <1>1, <1>3, <2>6, <2>12, <2>14, <3>1
      <4> QED
        BY <1>3, <4>1
    <3>2. CASE found # {}
      <4>1. e = at + L - 1
        BY <1>1, <1>3, <2>9, <2>12, <2>14, <3>2
      <4>2. ASSUME NEW i \in at..e PROVE t[i] # "x"
        <5>1. i - at + 1 \in 1..L /\ at + (i - at + 1) - 1 = i
          BY <1>1, <2>9, <4>1
        <5>2. \A j \in 1..L : t[at + j - 1] = sep[j]
          BY <1>1, <2>9, <3>2 DEF OccursAt
        <5>3. t[i] = sep[i - at + 1]
          BY <5>1, <5>2
        <5> QED
          BY <1>1, <5>1, <5>3 DEF IsSeparator
      <4> QED
        BY <1>1, <2>9, <4>1, <4>2
    <3> QED
      BY <3>1, <3>2
  <2>16. CASE at > pos
    <3>1. PICK q : q = Piece(pos, at - 1)
      OBVIOUS
    <3>2. q \in Pieces(t) /\ q.from = pos /\ q.to = at - 1
      BY <1>2, <1>3, <2>9, <2>10, <2>16, <3>1, APiece
    <3>3. Found(t, sep, q.from, q.to) = {}
      <4>1. ASSUME NEW i, i \in Found(t, sep, pos, at - 1) PROVE FALSE
        <5>1. i \in pos..((at - 1) + 1 - L) /\ OccursAt(t, sep, i)
          BY <1>1, <4>1, FoundIs
        <5>2. i \in pos..(p.to + 1 - L) /\ i < at
          BY <1>1, <1>2, <1>3, <2>9, <2>10, <5>1
        <5>3. i \in found
          BY <2>8, <5>1, <5>2
        <5> QED
          BY <2>7, <2>9, <5>2, <5>3
      <4> QED
        BY <3>2, <4>1
    <3>4. /\ q.from = (pos - 1) + 1 /\ p.from <= q.from /\ pos - 1 \in Int
          /\ Parted(t, sep, p.from, pos - 1, out) /\ NoneIn(t, sep, out)
      BY <1>2, <2>2, <2>3, <3>2
    <3>5. out # <<>> =>
            /\ out[Len(out)].to + Len(sep) + 1 <= q.from
            /\ \/ q.from = out[Len(out)].to + Len(sep) + 1
               \/ Twice(t, sep, out[Len(out)].to + 1, q.from - 1)
      BY <1>1, <2>4, <3>2
    <3>6. Parted(t, sep, p.from, q.to, Append(out, q)) /\ NoneIn(t, sep, Append(out, q))
      BY <1>3, <3>2, <3>3, <3>4, <3>5, PartedMore
    <3>7. r.out = Append(out, q)
      BY <2>12, <2>16, <3>1
    <3>8. Parted(t, sep, p.from, e, r.out)
      <4>1. \A i \in (q.to + 1)..e : p.from <= i => t[i] # "x"
        BY <2>9, <2>15, <3>2
      <4>2. q.to \in Int /\ q.to <= e
        BY <2>9, <2>15, <3>2
      <4> QED
        BY <1>3, <3>6, <3>7, <4>1, <4>2, PartedSame
    <3>9. /\ r.out[Len(r.out)] = q
      <4>1. out \in Seq(Pieces(t))
        BY <3>4 DEF Parted
      <4> QED
        BY <3>2, <3>7, <4>1, AppendIs
    <3>10. r.out[Len(r.out)].to + L + 1 = r.pos
      BY <1>1, <2>9, <2>12, <3>2, <3>9
    <3>11. r.pos > p.to \/ OccursAt(t, sep, r.pos - L)
      <4>1. found = {} => r.pos > p.to
        BY <1>1, <1>3, <2>6, <2>12
      <4>2. found # {} => OccursAt(t, sep, r.pos - L)
        BY <1>1, <2>9, <2>12
      <4> QED
        BY <4>1, <4>2
    <3>12. SplitIs(t, sep, p, n, r)
      BY <1>1, <2>13, <2>14, <3>6, <3>7, <3>8, <3>10, <3>11 DEF SplitIs
    <3> QED
      BY <1>4, <3>12
  <2>17. CASE ~(at > pos)
    <3>1. at = pos /\ r.out = out
      BY <1>2, <2>9, <2>12, <2>17
    <3>2. OccursAt(t, sep, pos)
      BY <2>1, <1>3, <2>6, <2>9, <3>1
    <3>3. Parted(t, sep, p.from, e, out)
      <4>1. /\ pos - 1 \in Int /\ pos - 1 <= e
            /\ \A i \in ((pos - 1) + 1)..e : p.from <= i => t[i] # "x"
        BY <2>15, <3>1
      <4> QED
        BY <1>3, <2>2, <2>3, <4>1, PartedSame
    <3>4. ASSUME out # <<>>
          PROVE  /\ out[Len(out)].to + L + 1 <= r.pos /\ OccursAt(t, sep, r.pos - L)
                 /\ Twice(t, sep, out[Len(out)].to + 1, r.pos - 1)
      <4>1. PICK l : l = out[Len(out)].to
        OBVIOUS
      <4>2. l \in Nat
        <5>1. out \in Seq(Pieces(t))
          BY <2>2, <2>3 DEF Parted
        <5>2. out[Len(out)] \in Pieces(t)
          BY <3>4, <5>1
        <5> QED
          BY <4>1, <5>2, PiecesAre
      <4>3. l + L + 1 <= pos /\ OccursAt(t, sep, pos - L)
        BY <2>4, <3>4, <4>1
      <4>4. r.pos = pos + L /\ r.pos - L = pos
        BY <1>1, <1>2, <2>12, <3>1
      <4>5. pos - L \in (l + 1)..(r.pos - 1) /\ (pos - L) + 2 * L - 1 <= r.pos - 1
        BY <1>1, <1>2, <4>2, <4>3, <4>4
      <4>6. (pos - L) + L = pos
        BY <1>1, <1>2
      <4>7. Twice(t, sep, l + 1, r.pos - 1)
        BY <1>1, <3>2, <4>3, <4>5, <4>6 DEF Twice
      <4> QED
        BY <1>1, <3>2, <4>1, <4>2, <4>3, <4>4, <4>7
    <3>5. NoneIn(t, sep, out)
      BY <2>2, <2>3
    <3>6. SplitIs(t, sep, p, n, r)
      BY <1>1, <2>13, <2>14, <3>1, <3>3, <3>4, <3>5 DEF SplitIs
    <3> QED
      BY <1>4, <3>6
  <2> QED
    BY <2>16, <2>17
<1> QED
  BY <1>5, <1>6

\* The loop of a split, as the numbers of its turns count it.
LEMMA SplitLoop ==
  ASSUME NEW t \in Seq(Char), NEW sep, sep # <<>>, NEW p \in Pieces(t)
  PROVE  \E f : /\ f[0] = [pos |-> p.from, out |-> <<>>]
                /\ \A n \in 1..Size(p) : f[n] = SplitTurn(t, p, sep, f[n - 1])
                /\ SplitBySeparator(t, p, sep) = f[Size(p)].out
<1> DEFINE N == Size(p)
           base == [pos |-> p.from, out |-> <<>>]
           Loop(g) == g = [n \in 0..N |-> IF n = 0 THEN [pos |-> p.from, out |-> <<>>]
                                          ELSE SplitTurn(t, p, sep, g[n - 1])]
           Upto(g, k) == g[0] = base /\ \A n \in 1..k : g[n] = SplitTurn(t, p, sep, g[n - 1])
           P == {k \in 0..N : \E g : Upto(g, k)}
<1>1. N \in Nat
  BY PiecesAre
<1> HIDE DEF N, base
<1>2. 0 \in P
  <2> DEFINE g == [n \in 0..0 |-> base]
  <2>1. g[0] = base /\ \A n \in 1..0 : FALSE
    OBVIOUS
  <2> HIDE DEF g
  <2>2. Upto(g, 0)
    BY <2>1
  <2>3. 0 \in 0..N /\ \E e : Upto(e, 0)
    BY <1>1, <2>2
  <2> QED
    BY <2>3
<1>3. ASSUME NEW k \in 1..N, k - 1 \in P PROVE k \in P
  <2>1. PICK g : Upto(g, k - 1)
    BY <1>3
  <2> DEFINE h == [n \in 0..k |-> IF n = k THEN SplitTurn(t, p, sep, g[k - 1]) ELSE g[n]]
  <2>2. h[k] = SplitTurn(t, p, sep, g[k - 1]) /\ \A n \in 0..(k - 1) : h[n] = g[n]
    BY <1>1
  <2> HIDE DEF h
  <2>3. h[0] = base
    BY <1>1, <2>1, <2>2
  <2>4. ASSUME NEW n \in 1..k PROVE h[n] = SplitTurn(t, p, sep, h[n - 1])
    <3>1. n - 1 \in 0..(k - 1) /\ (n = k \/ n \in 1..(k - 1))
      BY <1>1
    <3>2. CASE n = k
      BY <2>2, <3>1, <3>2
    <3>3. CASE n \in 1..(k - 1)
      <4>1. h[n - 1] = g[n - 1] /\ h[n] = g[n]
        BY <1>1, <2>2, <3>1, <3>3
      <4> QED
        BY <2>1, <3>3, <4>1
    <3> QED
      BY <3>1, <3>2, <3>3
  <2>5. Upto(h, k)
    BY <2>3, <2>4
  <2> QED
    BY <1>1, <2>5
<1> HIDE DEF P
<1>4. N \in P
  <2>1. \A k \in 1..N : k - 1 \in P => k \in P
    BY <1>3
  <2>2. \A k \in 0..N : k \in P
    BY <1>1, <1>2, <2>1, Inductive
  <2> QED
    BY <1>1, <2>2
<1>5. PICK g : Upto(g, N)
  BY <1>4 DEF P
<1> DEFINE h == [n \in 0..N |-> g[n]]
<1>6. Loop(h)
  <2>1. \A n \in 0..N : h[n] = g[n]
    OBVIOUS
  <2>2. ASSUME NEW n \in 0..N
        PROVE  h[n] = IF n = 0 THEN base ELSE SplitTurn(t, p, sep, h[n - 1])
    <3>1. n # 0 => n \in 1..N /\ n - 1 \in 0..N
      BY <1>1
    <3> QED
      BY <1>5, <2>1, <3>1
  <2>3. h = [n \in 0..N |-> h[n]]
    OBVIOUS
  <2> HIDE DEF h
  <2> QED
    BY <2>2, <2>3 DEF base
<1> DEFINE f == CHOOSE e : Loop(e)
<1>7. Loop(f)
  BY <1>6
<1>8. SplitBySeparator(t, p, sep) = f[N].out
  BY DEF SplitBySeparator, N
<1> HIDE DEF f
<1>9. \A n \in 0..N : f[n] = IF n = 0 THEN base ELSE SplitTurn(t, p, sep, f[n - 1])
  BY <1>7, Zenon DEF base
<1>10. 0 \in 0..N /\ \A n \in 1..N : n \in 0..N /\ n # 0
  BY <1>1
<1>11. f[0] = base /\ \A n \in 1..N : f[n] = SplitTurn(t, p, sep, f[n - 1])
  BY <1>9, <1>10
<1> QED
  BY <1>8, <1>11 DEF N, base

\* Before the first turn nothing has been cut.
LEMMA SplitStarts ==
  ASSUME NEW t \in Seq(Char), NEW sep, IsSeparator(sep), NEW p \in Pieces(t)
  PROVE  SplitIs(t, sep, p, 0, [pos |-> p.from, out |-> <<>>])
<1>1. p.from \in Nat /\ p.to \in Nat /\ p.from <= p.to
  BY PiecesAre
<1>2. PICK s : s = [pos |-> p.from, out |-> <<>>]
  OBVIOUS
<1>3. s.pos = p.from /\ s.out = <<>>
  BY <1>2
<1>4. <<>> \in Seq(Pieces(t)) /\ 1..Len(<<>>) = {} /\ 2..Len(<<>>) = {}
  OBVIOUS
<1>5. ~ \E i : i \in p.from..(p.from - 1)
  BY <1>1
<1>6. Parted(t, sep, p.from, p.from - 1, <<>>) /\ NoneIn(t, sep, <<>>)
  BY <1>4, <1>5 DEF Parted, NoneIn
<1> QED
  BY <1>1, <1>2, <1>3, <1>6 DEF SplitIs

\* A text is cut at every separator, and at nothing else.
LEMMA SplitParts ==
  ASSUME NEW t \in Seq(Char), NEW sep, IsSeparator(sep), Len(sep) >= 1, sep # <<>>,
         NEW p \in Pieces(t)
  PROVE  /\ Parted(t, sep, p.from, p.to, SplitBySeparator(t, p, sep))
         /\ NoneIn(t, sep, SplitBySeparator(t, p, sep))
<1>1. PICK f : /\ f[0] = [pos |-> p.from, out |-> <<>>]
               /\ \A n \in 1..Size(p) : f[n] = SplitTurn(t, p, sep, f[n - 1])
               /\ SplitBySeparator(t, p, sep) = f[Size(p)].out
  BY SplitLoop
<1>2. PICK N \in Nat : N = Size(p)
  BY PiecesAre
<1>3. /\ p.from \in Nat /\ p.to \in Nat /\ N = p.to - p.from + 1 /\ N >= 1
  BY <1>2, PiecesAre DEF Size
<1> DEFINE P == {n \in 0..N : SplitIs(t, sep, p, n, f[n])}
<1>4. 0 \in P
  BY <1>1, SplitStarts
<1>5. ASSUME NEW n \in 1..N, n - 1 \in P PROVE n \in P
  <2>1. n \in Nat /\ n >= 1 /\ SplitIs(t, sep, p, n - 1, f[n - 1])
    BY <1>5
  <2>2. f[n] = SplitTurn(t, p, sep, f[n - 1])
    BY <1>1, <1>2
  <2> QED
    BY <2>1, <2>2, SplitTurnKeeps
<1> HIDE DEF P
<1>6. N \in P
  <2>1. \A n \in 1..N : n - 1 \in P => n \in P
    BY <1>5
  <2>2. \A n \in 0..N : n \in P
    BY <1>4, <2>1, Inductive
  <2> QED
    BY <2>2
<1>7. SplitIs(t, sep, p, N, f[N])
  BY <1>6 DEF P
<1>8. PICK s : s = f[N]
  OBVIOUS
<1>9. s.pos > p.to
  <2>1. s.pos \in Nat /\ (s.pos >= p.from + N \/ s.pos > p.to)
    BY <1>7, <1>8 DEF SplitIs
  <2> QED
    BY <1>3, <2>1
<1>10. Parted(t, sep, p.from, p.to, s.out) /\ NoneIn(t, sep, s.out)
  BY <1>7, <1>8, <1>9 DEF SplitIs
<1> QED
  BY <1>1, <1>2, <1>8, <1>10

\* Without a separator a text is cut between any two characters.
LEMMA SplitSingles ==
  ASSUME NEW t \in Seq(Char), NEW p \in Pieces(t)
  PROVE  /\ Parted(t, <<>>, p.from, p.to, SplitBySeparator(t, p, <<>>))
         /\ \A k \in 1..Len(SplitBySeparator(t, p, <<>>)) :
              Size(SplitBySeparator(t, p, <<>>)[k]) = 1
<1>1. PICK N \in Nat : N = Size(p)
  BY PiecesAre
<1>2. /\ p.from \in Nat /\ p.to \in Nat /\ N = p.to - p.from + 1 /\ N >= 1
      /\ 1 <= p.from /\ p.to <= Len(t) /\ Len(t) \in Nat
  BY <1>1, PiecesAre DEF Size
<1>3. PICK s : s = SplitBySeparator(t, p, <<>>)
  OBVIOUS
<1>4. s = [i \in 1..N |-> Piece(p.from + i - 1, p.from + i - 1)]
  BY <1>1, <1>3 DEF SplitBySeparator
<1>5. ASSUME NEW i \in 1..N
      PROVE  /\ s[i] \in Pieces(t) /\ s[i].from = p.from + i - 1 /\ s[i].to = p.from + i - 1
             /\ Size(s[i]) = 1
  <2>1. PICK e \in Int : e = p.from + i - 1
    BY <1>2
  <2>2. i \in Int /\ 1 <= i /\ i <= N
    OBVIOUS
  <2>3. 1 <= e /\ e <= p.to
    BY <1>2, <2>1, <2>2
  <2>4. 1 <= e /\ e <= e /\ e <= Len(t) /\ e - e + 1 = 1
    BY <1>2, <2>1, <2>3
  <2>5. s[i] = Piece(e, e)
    BY <1>4, <2>1
  <2>6. /\ Piece(e, e) \in Pieces(t) /\ Piece(e, e).from = e /\ Piece(e, e).to = e
        /\ Size(Piece(e, e)) = 1
    BY <2>4, APiece
  <2> QED
    BY <2>1, <2>5, <2>6
<1>6. s \in Seq(Pieces(t)) /\ Len(s) = N
  <2>1. s \in [1..N -> Pieces(t)]
    BY <1>4, <1>5
  <2> QED
    BY <2>1
<1>7. Len(<<>>) = 0
  OBVIOUS
<1>8. ASSUME NEW i \in p.from..p.to PROVE \E k \in 1..N : i \in s[k].from..s[k].to
  <2>1. PICK k \in Int : k = i - p.from + 1
    BY <1>2
  <2>2. k \in 1..N /\ p.from + k - 1 = i
    BY <1>2, <2>1
  <2>3. s[k].from = i /\ s[k].to = i
    BY <1>5, <2>2
  <2>4. i \in s[k].from..s[k].to
    BY <1>2, <2>3
  <2> QED
    BY <2>2, <2>4
<1>9. \A k \in 2..N : k \in 1..N /\ k - 1 \in 1..N
  OBVIOUS
<1>10. \A k \in 2..N : s[k].from = s[k - 1].to + 0 + 1
  BY <1>2, <1>5, <1>9
<1>11. \A k \in 2..N : s[k - 1].to + 0 + 1 <= s[k].from
  BY <1>2, <1>5, <1>9
<1>12. \A k \in 1..N : p.from <= s[k].from /\ s[k].to <= p.to
  BY <1>2, <1>5
<1>13. Parted(t, <<>>, p.from, p.to, s)
  BY <1>6, <1>7, <1>8, <1>10, <1>11, <1>12 DEF Parted
<1> QED
  BY <1>3, <1>5, <1>6, <1>13

-----------------------------------------------------------------------------
(* The pieces of a text in their order                                     *)

\* What comes earlier ends earlier.
LEMMA PartedOrder ==
  ASSUME NEW t \in Seq(Char), NEW sep, IsSeparator(sep), NEW a \in Nat, NEW b \in Nat, NEW s,
         Parted(t, sep, a, b, s), NEW k \in 1..Len(s), NEW l \in 1..Len(s), k < l
  PROVE  s[k].to + Len(sep) < s[l].from
<1>1. PICK L \in Nat : L = Len(sep)
  BY DEF IsSeparator
<1>2. s \in Seq(Pieces(t))
  BY DEF Parted
<1>3. PICK N \in Nat : N = Len(s)
  BY <1>2
<1>4. \A j \in 1..N : s[j].from \in Nat /\ s[j].to \in Nat /\ s[j].from <= s[j].to
  BY <1>2, <1>3, PiecesAre
<1>5. \A j \in 2..N : s[j - 1].to + L + 1 <= s[j].from
  BY <1>1, <1>3 DEF Parted
<1> DEFINE P == {n \in 0..N : n > k => s[k].to + L < s[n].from}
<1>6. 0 \in P
  BY <1>3
<1>7. ASSUME NEW n \in 1..N, n - 1 \in P PROVE n \in P
  <2>1. CASE n <= k
    BY <1>3, <2>1
  <2>2. CASE n > k
    <3>1. n \in 2..N /\ n - 1 \in 1..N /\ n - 1 >= k
      BY <1>3, <2>2
    <3>2. s[n - 1].to + L + 1 <= s[n].from
      BY <1>5, <3>1
    <3>3. CASE n - 1 = k
      BY <1>1, <1>4, <3>1, <3>2, <3>3
    <3>4. CASE n - 1 > k
      <4>1. s[k].to + L < s[n - 1].from
        BY <1>7, <3>4
      <4>2. PICK x \in Nat, y \in Nat, z \in Nat, w \in Nat :
              x = s[k].to /\ y = s[n - 1].from /\ z = s[n - 1].to /\ w = s[n].from
        BY <1>3, <1>4, <3>1
      <4>3. y <= z /\ z + L + 1 <= w /\ x + L < y
        BY <1>4, <3>1, <3>2, <4>1, <4>2
      <4>4. x + L < w
        BY <4>3
      <4> QED
        BY <1>3, <4>2, <4>4
    <3> QED
      BY <3>1, <3>3, <3>4
  <2> QED
    BY <1>3, <2>1, <2>2
<1> HIDE DEF P
<1>8. \A n \in 0..N : n \in P
  <2>1. \A n \in 1..N : n - 1 \in P => n \in P
    BY <1>7
  <2> QED
    BY <1>6, <2>1, Inductive
<1>9. l \in P
  BY <1>3, <1>8
<1> QED
  BY <1>1, <1>9 DEF P

\* Where the first k pieces end.
Edge(s, a, k) == IF k = 0 THEN a - 1 ELSE s[k].to

LEMMA EdgeIs ==
  ASSUME NEW t \in Seq(Char), NEW sep, IsSeparator(sep), NEW a \in Nat, NEW b \in Nat, NEW s,
         Parted(t, sep, a, b, s), NEW k \in 0..Len(s)
  PROVE  /\ Edge(s, a, k) \in Int /\ a - 1 <= Edge(s, a, k)
         /\ \A j \in 1..Len(s) : j <= k => s[j].to <= Edge(s, a, k)
         /\ \A j \in 1..Len(s) : j > k => Edge(s, a, k) < s[j].from
         /\ k # 0 => Edge(s, a, k) <= b
<1>1. PICK L \in Nat : L = Len(sep)
  BY DEF IsSeparator
<1>2. s \in Seq(Pieces(t))
  BY DEF Parted
<1>3. PICK N \in Nat : N = Len(s)
  BY <1>2
<1>4. \A j \in 1..N : /\ s[j].from \in Nat /\ s[j].to \in Nat /\ s[j].from <= s[j].to
                      /\ a <= s[j].from /\ s[j].to <= b
  BY <1>2, <1>3, PiecesAre DEF Parted
<1>5. CASE k = 0
  BY <1>3, <1>4, <1>5 DEF Edge
<1>6. CASE k \in 1..N
  <2>1. PICK e \in Nat : e = s[k].to
    BY <1>4, <1>6
  <2>2. Edge(s, a, k) = e
    BY <1>6, <2>1 DEF Edge
  <2>3. a <= e /\ e <= b
    BY <1>4, <1>6, <2>1
  <2>4. ASSUME NEW j \in 1..N, j <= k PROVE s[j].to <= e
    <3>1. CASE j = k
      BY <2>1, <3>1
    <3>2. CASE j < k
      <4>1. s[j].to + L < s[k].from
        BY <1>1, <1>3, <1>6, <3>2, PartedOrder
      <4> QED
        BY <1>1, <1>4, <1>6, <2>1, <4>1
    <3> QED
      BY <1>6, <2>4, <3>1, <3>2
  <2>5. ASSUME NEW j \in 1..N, j > k PROVE e < s[j].from
    <3>1. s[k].to + L < s[j].from
      BY <1>1, <1>3, <1>6, <2>5, PartedOrder
    <3> QED
      BY <1>1, <1>4, <2>1, <3>1
  <2> QED
    BY <1>3, <2>2, <2>3, <2>4, <2>5
<1> QED
  BY <1>3, <1>5, <1>6

LEMMA SubSeqIs ==
  ASSUME NEW C, NEW s \in Seq(C), NEW f \in 1..(Len(s) + 1), NEW l \in 0..Len(s), f <= l + 1
  PROVE  /\ SubSeq(s, f, l) \in Seq(C) /\ Len(SubSeq(s, f, l)) = l - f + 1
         /\ Len(s) \in Nat /\ l - f + 1 \in Nat
         /\ \A k \in 1..(l - f + 1) : SubSeq(s, f, l)[k] = s[k + f - 1] /\ k + f - 1 \in f..l
  OBVIOUS

\* The pieces from one to another are what is between the edges of those around.
LEMMA PartedPart ==
  ASSUME NEW t \in Seq(Char), NEW sep, IsSeparator(sep), NEW a \in Nat, NEW b \in Nat, NEW s,
         Parted(t, sep, a, b, s), NEW f \in 1..(Len(s) + 1), NEW l \in 0..Len(s), f <= l + 1
  PROVE  Parted(t, sep, Edge(s, a, f - 1) + 1, Edge(s, a, l), SubSeq(s, f, l))
<1>1. s \in Seq(Pieces(t))
  BY DEF Parted
<1>2. PICK N \in Nat : N = Len(s)
  BY <1>1
<1>3. f - 1 \in 0..N /\ l \in 0..N /\ l \in Nat /\ f \in Nat
  BY <1>2
<1>4. PICK u : u = SubSeq(s, f, l)
  OBVIOUS
<1>5. PICK M \in Nat : M = l - f + 1
  BY <1>3
<1>6. u \in Seq(Pieces(t)) /\ Len(u) = M /\ \A k \in 1..M : u[k] = s[k + f - 1]
  BY <1>1, <1>4, <1>5, SubSeqIs
<1>7. \A k \in 1..M : k + f - 1 \in f..l /\ k + f - 1 \in 1..N
  BY <1>2, <1>3, <1>5
<1>8. \A k \in 2..M : /\ k + f - 1 \in 2..N /\ (k - 1) + f - 1 = (k + f - 1) - 1
                      /\ k \in 1..M /\ k - 1 \in 1..M
  BY <1>2, <1>3, <1>5
<1>9. PICK c \in Int : c = Edge(s, a, f - 1)
  BY <1>2, <1>3, EdgeIs
<1>10. PICK e \in Int : e = Edge(s, a, l)
  BY <1>2, EdgeIs
<1>11. \A j \in 1..N : s[j].from \in Nat /\ s[j].to \in Nat
  BY <1>1, <1>2, PiecesAre
<1>12. /\ a - 1 <= c
       /\ \A j \in 1..N : j >= f => c < s[j].from
       /\ \A j \in 1..N : j < f => s[j].to <= c
  <2>1. \A j \in 1..N : (j >= f <=> j > f - 1) /\ (j < f <=> j <= f - 1)
    BY <1>3
  <2> QED
    BY <1>2, <1>3, <1>9, <2>1, EdgeIs
<1>13. /\ \A j \in 1..N : j <= l => s[j].to <= e
       /\ \A j \in 1..N : j > l => e < s[j].from
       /\ l # 0 => e <= b
  BY <1>2, <1>10, EdgeIs
<1>14. ASSUME NEW k \in 1..M PROVE c + 1 <= u[k].from /\ u[k].to <= e
  <2>1. PICK j \in 1..N : j = k + f - 1 /\ j >= f /\ j <= l
    BY <1>3, <1>7
  <2>2. u[k] = s[j]
    BY <1>6, <2>1
  <2>3. c < s[j].from /\ s[j].to <= e /\ s[j].from \in Nat
    BY <1>11, <1>12, <1>13, <2>1
  <2>4. c + 1 <= s[j].from
    BY <2>3
  <2> QED
    BY <2>2, <2>3, <2>4
<1>15. ASSUME NEW k \in 2..M
       PROVE  /\ u[k - 1].to + Len(sep) + 1 <= u[k].from
              /\ u[k].from = u[k - 1].to + Len(sep) + 1
                 \/ Twice(t, sep, u[k - 1].to + 1, u[k].from - 1)
  <2>1. u[k] = s[k + f - 1] /\ u[k - 1] = s[(k + f - 1) - 1] /\ k + f - 1 \in 2..N
    BY <1>6, <1>8
  <2> QED
    BY <1>2, <2>1 DEF Parted
<1>16. ASSUME NEW i \in (c + 1)..e, t[i] = "x" PROVE \E k \in 1..M : i \in u[k].from..u[k].to
  <2>1. l # 0
    <3>1. l = 0 => e = a - 1
      BY <1>10 DEF Edge
    <3> QED
      BY <1>12, <3>1
  <2>2. i \in a..b
    BY <1>12, <1>13, <2>1
  <2>3. PICK j \in 1..N : i \in s[j].from..s[j].to
    BY <1>2, <1>16, <2>2 DEF Parted
  <2>4. j >= f
    BY <1>3, <1>11, <1>12, <2>3
  <2>5. j <= l
    BY <1>3, <1>11, <1>13, <2>3
  <2>6. PICK k \in Int : k = j - f + 1
    BY <1>3
  <2>7. k \in 1..M /\ k + f - 1 = j
    BY <1>3, <1>5, <2>4, <2>5, <2>6
  <2>8. u[k] = s[j]
    BY <1>6, <2>7
  <2> QED
    BY <2>3, <2>7, <2>8
<1>17. Parted(t, sep, c + 1, e, u)
  BY <1>6, <1>14, <1>15, <1>16 DEF Parted
<1> QED
  BY <1>4, <1>9, <1>10, <1>17

-----------------------------------------------------------------------------
(* What pieces measure together                                            *)

LEMMA LengthsAre ==
  ASSUME NEW t \in Seq(Char), NEW ps \in Seq(Pieces(t)), NEW g \in Nat
  PROVE  /\ Lengths(ps, g)[0] = 0
         /\ \A n \in 0..Len(ps) : Lengths(ps, g)[n] \in Int
         /\ \A n \in 1..Len(ps) : Lengths(ps, g)[n] = Lengths(ps, g)[n - 1] + Size(ps[n]) + g
<1> DEFINE N == Len(ps)
           F == [n \in 1..N |-> [x \in Int |-> x + Size(ps[n]) + g]]
           Loop(h) == h = [n \in 0..N |-> IF n = 0 THEN 0 ELSE h[n - 1] + Size(ps[n]) + g]
<1>1. N \in Nat /\ \A n \in 1..N : Size(ps[n]) \in Nat
  BY PiecesAre
<1>2. F \in [1..N -> [Int -> Int]]
  BY <1>1
<1>3. \A n \in 1..N : \A x \in Int : F[n][x] = x + Size(ps[n]) + g
  OBVIOUS
<1> HIDE DEF F, N
<1>4. PICK h : Computes(h, N, Int, 0, F)
  <2>1. 0 \in Int
    OBVIOUS
  <2> QED
    BY <1>1, <1>2, <2>1, Computable
<1>5. Loop(h)
  <2>1. \A n \in 1..N : n - 1 \in 0..N
    BY <1>1
  <2>2. h \in [0..N -> Int] /\ h[0] = 0 /\ \A n \in 1..N : h[n] = F[n][h[n - 1]]
    BY <1>4 DEF Computes
  <2>3. \A n \in 1..N : h[n] = h[n - 1] + Size(ps[n]) + g
    BY <1>3, <2>1, <2>2
  <2>4. h = [n \in 0..N |-> h[n]] /\ \A n \in 0..N : n # 0 => n \in 1..N
    BY <1>1, <2>2
  <2> QED
    BY <2>2, <2>3, <2>4
<1> DEFINE f == CHOOSE e : Loop(e)
<1>6. Loop(f)
  BY <1>5
<1>7. Lengths(ps, g) = f
  BY DEF Lengths, N
<1> HIDE DEF f
<1>8. \A n \in 0..N : f[n] = IF n = 0 THEN 0 ELSE f[n - 1] + Size(ps[n]) + g
  BY <1>6, Zenon
<1>9. 0 \in 0..N /\ \A n \in 1..N : n \in 0..N /\ n # 0 /\ n - 1 \in 0..N
  BY <1>1
<1>10. f[0] = 0 /\ \A n \in 1..N : f[n] = f[n - 1] + Size(ps[n]) + g
  BY <1>8, <1>9
<1> DEFINE P == {n \in 0..N : f[n] \in Int}
<1>11. 0 \in P
  BY <1>9, <1>10
<1>12. ASSUME NEW n \in 1..N, n - 1 \in P PROVE n \in P
  BY <1>1, <1>9, <1>10, <1>12
<1> HIDE DEF P
<1>13. \A n \in 0..N : n \in P
  <2>1. \A n \in 1..N : n - 1 \in P => n \in P
    BY <1>12
  <2> QED
    BY <1>1, <1>11, <2>1, Inductive
<1>14. \A n \in 0..N : f[n] \in Int
  BY <1>13 DEF P
<1> QED
  BY <1>7, <1>10, <1>14 DEF N

LEMMA TogetherIs ==
  ASSUME NEW t \in Seq(Char), NEW ps \in Seq(Pieces(t)), NEW g \in Nat, NEW f \in 1..Len(ps)
  PROVE  /\ Together(ps, g, f, f) = Size(ps[f])
         /\ \A l \in f..Len(ps) : Together(ps, g, f, l) \in Int
         /\ \A l \in f..Len(ps) : l + 1 \in f..Len(ps) =>
              Together(ps, g, f, l + 1) = Together(ps, g, f, l) + g + Size(ps[l + 1])
<1>1. PICK N \in Nat : N = Len(ps)
  OBVIOUS
<1>2. PICK h : h = Lengths(ps, g)
  OBVIOUS
<1>3. /\ \A n \in 0..N : h[n] \in Int
      /\ \A n \in 1..N : h[n] = h[n - 1] + Size(ps[n]) + g
  BY <1>1, <1>2, LengthsAre
<1>4. \A n \in 1..N : Size(ps[n]) \in Nat
  BY <1>1, PiecesAre
<1>5. \A l : Together(ps, g, f, l) = h[l] - h[f - 1] - g
  BY <1>2 DEF Together
<1>6. f \in 1..N /\ f - 1 \in 0..N /\ f \in 0..N
  BY <1>1
<1>7. h[f - 1] \in Int
  BY <1>3, <1>6
<1>8. Together(ps, g, f, f) = Size(ps[f])
  <2>1. h[f] = h[f - 1] + Size(ps[f]) + g
    BY <1>3, <1>6
  <2> QED
    BY <1>4, <1>5, <1>6, <1>7, <2>1
<1>9. ASSUME NEW l \in f..N PROVE Together(ps, g, f, l) \in Int
  <2>1. h[l] \in Int
    BY <1>1, <1>3
  <2> QED
    BY <1>5, <1>7, <2>1
<1>10. ASSUME NEW l \in f..N, l + 1 \in f..N
       PROVE  Together(ps, g, f, l + 1) = Together(ps, g, f, l) + g + Size(ps[l + 1])
  <2>1. l + 1 \in 1..N /\ (l + 1) - 1 = l /\ l \in 0..N
    BY <1>1, <1>10
  <2>2. h[l + 1] = h[l] + Size(ps[l + 1]) + g /\ h[l] \in Int /\ Size(ps[l + 1]) \in Nat
    BY <1>3, <1>4, <2>1
  <2> QED
    BY <1>5, <1>7, <2>2
<1> QED
  BY <1>1, <1>8, <1>9, <1>10

\* Two separators side by side in a part are so in the whole.
LEMMA TwiceMore ==
  ASSUME NEW t, NEW sep, IsSeparator(sep), NEW a \in Int, NEW b \in Int,
         NEW c \in Int, NEW d \in Int, a <= c, d <= b, Twice(t, sep, c, d)
  PROVE  Twice(t, sep, a, b)
<1>1. PICK L \in Nat : L = Len(sep)
  BY DEF IsSeparator
<1>2. PICK i \in c..d :
        i + 2 * L - 1 <= d /\ OccursAt(t, sep, i) /\ OccursAt(t, sep, i + L)
  BY <1>1 DEF Twice
<1>3. i \in a..b /\ i + 2 * L - 1 <= b
  BY <1>1, <1>2
<1> QED
  BY <1>1, <1>2, <1>3 DEF Twice

\* Pieces put together are as long as they are counted, unless separators stand
\* side by side between them.
LEMMA ExtentIs ==
  ASSUME NEW t \in Seq(Char), NEW sep, IsSeparator(sep), NEW a \in Nat, NEW b \in Nat, NEW ps,
         Parted(t, sep, a, b, ps), NEW f \in 1..Len(ps), NEW l \in f..Len(ps)
  PROVE  \/ ps[l].to - ps[f].from + 1 = Together(ps, Len(sep), f, l)
         \/ Twice(t, sep, ps[f].from, ps[l].to)
<1>1. PICK L \in Nat : L = Len(sep)
  BY DEF IsSeparator
<1>2. ps \in Seq(Pieces(t))
  BY DEF Parted
<1>3. PICK N \in Nat : N = Len(ps)
  BY <1>2
<1>4. \A j \in 1..N : /\ ps[j].from \in Nat /\ ps[j].to \in Nat /\ ps[j].from <= ps[j].to
                      /\ Size(ps[j]) = ps[j].to - ps[j].from + 1
  BY <1>2, <1>3, PiecesAre DEF Size
<1>5. \A j \in 2..N :
        /\ ps[j - 1].to + L + 1 <= ps[j].from
        /\ ps[j].from = ps[j - 1].to + L + 1 \/ Twice(t, sep, ps[j - 1].to + 1, ps[j].from - 1)
  BY <1>1, <1>3 DEF Parted
<1> DEFINE Same(n) == \/ ps[n].to - ps[f].from + 1 = Together(ps, L, f, n)
                      \/ Twice(t, sep, ps[f].from, ps[n].to)
           P == {n \in 0..N : n >= f => Same(n)}
<1>6. 0 \in P
  BY <1>3
<1>7. ASSUME NEW n \in 1..N, n - 1 \in P PROVE n \in P
  <2>1. CASE n < f
    BY <1>3, <2>1
  <2>2. CASE n = f
    <3>1. Together(ps, L, f, f) = Size(ps[f])
      BY <1>2, <1>3, TogetherIs
    <3>2. Same(n)
      BY <1>3, <1>4, <2>2, <3>1
    <3> QED
      BY <3>2
  <2>3. CASE n > f
    <3>1. /\ n \in 2..N /\ n - 1 \in 1..N /\ n - 1 \in f..N /\ n - 1 >= f /\ (n - 1) + 1 = n
          /\ n \in f..N /\ f \in 1..N
      BY <1>3, <2>3
    <3>2. Same(n - 1)
      BY <1>7, <3>1
    <3>3. /\ Together(ps, L, f, n) = Together(ps, L, f, n - 1) + L + Size(ps[n])
          /\ Together(ps, L, f, n - 1) \in Int
      <4>1. PICK m : m = n - 1
        OBVIOUS
      <4>2. m \in f..Len(ps) /\ m + 1 \in f..Len(ps) /\ m + 1 = n
        BY <1>3, <3>1, <4>1
      <4>3. /\ Together(ps, L, f, m + 1) = Together(ps, L, f, m) + L + Size(ps[m + 1])
            /\ Together(ps, L, f, m) \in Int
        BY <1>2, <4>2, TogetherIs
      <4> QED
        BY <4>1, <4>2, <4>3
    <3>4. PICK x \in Nat, y \in Nat, z \in Nat, w \in Nat :
            x = ps[f].from /\ y = ps[n - 1].to /\ z = ps[n].from /\ w = ps[n].to
      BY <1>4, <3>1
    <3>5. y + L + 1 <= z /\ z <= w /\ Size(ps[n]) = w - z + 1
      BY <1>4, <1>5, <3>1, <3>4
    <3>6. x <= y + 1
      <4>1. CASE n - 1 = f
        <5>1. ps[f].from <= ps[f].to /\ y = ps[f].to
          BY <1>4, <3>1, <3>4, <4>1
        <5>2. x <= y
          BY <3>4, <5>1
        <5> QED
          BY <5>2
      <4>2. CASE n - 1 > f
        <5>1. ps[f].to + L < ps[n - 1].from
          BY <1>1, <1>3, <3>1, <4>2, PartedOrder
        <5>2. /\ ps[f].from \in Nat /\ ps[f].to \in Nat /\ ps[f].from <= ps[f].to
              /\ ps[n - 1].from \in Nat /\ ps[n - 1].from <= ps[n - 1].to
          BY <1>4, <3>1
        <5>3. PICK v \in Nat, u \in Nat : v = ps[f].to /\ u = ps[n - 1].from
          BY <5>2
        <5>4. x <= v /\ v + L < u /\ u <= y
          BY <3>4, <5>1, <5>2, <5>3
        <5> QED
          BY <5>4
      <4> QED
        BY <1>3, <3>1, <4>1, <4>2
    <3>7. CASE Twice(t, sep, x, y)
      <4>1. Twice(t, sep, x, w)
        BY <3>5, <3>7, TwiceMore
      <4> QED
        BY <3>4, <4>1
    <3>8. CASE Twice(t, sep, y + 1, z - 1)
      <4>1. Twice(t, sep, x, w)
        <5>1. y + 1 \in Int /\ z - 1 \in Int /\ z - 1 <= w
          BY <3>5
        <5> QED
          BY <3>6, <3>8, <5>1, TwiceMore
      <4> QED
        BY <3>4, <4>1
    <3>9. CASE y - x + 1 = Together(ps, L, f, n - 1) /\ z = y + L + 1
      <4>1. w - x + 1 = Together(ps, L, f, n)
        BY <3>3, <3>5, <3>9
      <4> QED
        BY <3>4, <4>1
    <3>10. /\ y - x + 1 = Together(ps, L, f, n - 1) \/ Twice(t, sep, x, y)
           /\ z = y + L + 1 \/ Twice(t, sep, y + 1, z - 1)
      BY <1>5, <3>1, <3>2, <3>4
    <3> QED
      BY <3>7, <3>8, <3>9, <3>10
  <2> QED
    BY <1>3, <2>1, <2>2, <2>3
<1> HIDE DEF P
<1>8. \A n \in 0..N : n \in P
  <2>1. \A n \in 1..N : n - 1 \in P => n \in P
    BY <1>7
  <2> QED
    BY <1>6, <2>1, Inductive
<1>9. l \in P /\ l >= f
  BY <1>3, <1>8
<1> QED
  BY <1>1, <1>9 DEF P

-----------------------------------------------------------------------------
(* Pieces put together                                                     *)

InSize(t, size, p) == Size(p) <= size \/ Doubled(t, p)

Follows(t, overlap, p, q) ==
  /\ p.from < q.from /\ p.to < q.to
  /\ p.to - q.from + 1 <= overlap \/ Doubled(t, Piece(q.from, p.to))

\* s cuts what is from a to b: it loses no letter, goes forward, and keeps to the
\* size and the overlap.
Whole(t, size, overlap, a, b, s) ==
  /\ s \in Seq(Pieces(t))
  /\ \A k \in 1..Len(s) : a <= s[k].from /\ s[k].to <= b /\ InSize(t, size, s[k])
  /\ \A k \in 2..Len(s) : Follows(t, overlap, s[k - 1], s[k])
  /\ \A i \in a..b : t[i] = "x" => \E k \in 1..Len(s) : i \in s[k].from..s[k].to

LEMMA WholeNothing ==
  ASSUME NEW t \in Seq(Char), NEW size, NEW overlap, NEW a \in Int, NEW b \in Int,
         \A i \in a..b : t[i] # "x"
  PROVE  Whole(t, size, overlap, a, b, <<>>)
<1>1. <<>> \in Seq(Pieces(t)) /\ 1..Len(<<>>) = {} /\ 2..Len(<<>>) = {}
  OBVIOUS
<1> QED
  BY <1>1 DEF Whole

\* One more piece behind those there are.
LEMMA WholeMore ==
  ASSUME NEW t \in Seq(Char), NEW size, NEW overlap, NEW a \in Int, NEW e \in Int, NEW f \in Int,
         NEW s, Whole(t, size, overlap, a, e, s), NEW q \in Pieces(t), InSize(t, size, q),
         e <= f, a <= q.from, q.to <= f, s # <<>> => Follows(t, overlap, s[Len(s)], q),
         \A i \in (e + 1)..f : a <= i /\ t[i] = "x" => i \in q.from..q.to
  PROVE  Whole(t, size, overlap, a, f, Append(s, q))
<1>1. s \in Seq(Pieces(t))
  BY DEF Whole
<1>2. PICK m \in Nat : m = Len(s)
  BY <1>1
<1>3. PICK u : u = Append(s, q)
  OBVIOUS
<1>4. u \in Seq(Pieces(t)) /\ Len(u) = m + 1 /\ u[m + 1] = q /\ \A k \in 1..m : u[k] = s[k]
  BY <1>1, <1>2, <1>3, AppendIs
<1>5. \A k \in 1..m : /\ s[k].to \in Int /\ a <= s[k].from /\ s[k].to <= e
                      /\ InSize(t, size, s[k])
  <2>1. \A k \in 1..m : s[k] \in Pieces(t)
    BY <1>1, <1>2
  <2>2. \A k \in 1..m : s[k].to \in Int
    BY <2>1, PiecesAre
  <2> QED
    BY <1>2, <2>2 DEF Whole
<1>6. \A k \in 1..(m + 1) : k = m + 1 \/ k \in 1..m
  BY <1>2
<1>7. \A k \in 1..(m + 1) : a <= u[k].from /\ u[k].to <= f /\ InSize(t, size, u[k])
  <2>1. \A k \in 1..m : s[k].to <= f
    BY <1>5
  <2> QED
    BY <1>4, <1>5, <1>6, <2>1
<1>8. ASSUME NEW k \in 2..(m + 1) PROVE Follows(t, overlap, u[k - 1], u[k])
  <2>1. CASE k = m + 1
    <3>1. m # 0 /\ m \in 1..m /\ k - 1 = m /\ s # <<>>
      BY <1>2, <2>1
    <3> QED
      BY <1>2, <1>4, <2>1, <3>1
  <2>2. CASE k # m + 1
    <3>1. k \in 2..m /\ k \in 1..m /\ k - 1 \in 1..m
      BY <1>2, <2>2
    <3>2. Follows(t, overlap, s[k - 1], s[k])
      BY <1>2, <3>1 DEF Whole
    <3> QED
      BY <1>4, <3>1, <3>2
  <2> QED
    BY <2>1, <2>2
<1>9. ASSUME NEW i \in a..f, t[i] = "x" PROVE \E k \in 1..(m + 1) : i \in u[k].from..u[k].to
  <2>1. CASE i <= e
    <3>1. i \in a..e
      BY <2>1
    <3>2. PICK k \in 1..m : i \in s[k].from..s[k].to
      BY <1>2, <1>9, <3>1 DEF Whole
    <3>3. k \in 1..(m + 1)
      OBVIOUS
    <3> QED
      BY <1>4, <3>2, <3>3
  <2>2. CASE ~(i <= e)
    <3>1. i \in (e + 1)..f /\ a <= i /\ m + 1 \in 1..(m + 1)
      BY <1>2, <2>2
    <3> QED
      BY <1>4, <1>9, <3>1
  <2> QED
    BY <2>1, <2>2
<1>10. Whole(t, size, overlap, a, f, u)
  BY <1>4, <1>7, <1>8, <1>9 DEF Whole
<1> QED
  BY <1>3, <1>10

\* Separators side by side, in newlines or blanks.
Doubles(t, sep, a, b) ==
  \A i, j \in Nat : a <= i /\ j <= b /\ Twice(t, sep, i, j) => Doubled(t, Piece(i, j))

\* The pieces from f to l, in their order.
LEMMA InOrder ==
  ASSUME NEW t \in Seq(Char), NEW sep, IsSeparator(sep), NEW a \in Nat, NEW b \in Nat, NEW ps,
         Parted(t, sep, a, b, ps), NEW f \in 1..Len(ps), NEW l \in f..Len(ps)
  PROVE  /\ l \in 1..Len(ps) /\ ps[f] \in Pieces(t) /\ ps[l] \in Pieces(t)
         /\ ps[f].from <= ps[l].from /\ ps[f].to <= ps[l].to /\ ps[f].from <= ps[l].to
         /\ a <= ps[f].from /\ ps[l].to <= b
<1>1. PICK L \in Nat : L = Len(sep)
  BY DEF IsSeparator
<1>2. ps \in Seq(Pieces(t))
  BY DEF Parted
<1>3. l \in 1..Len(ps) /\ Len(ps) \in Nat
  BY <1>2
<1>4. ps[f] \in Pieces(t) /\ ps[l] \in Pieces(t) /\ a <= ps[f].from /\ ps[l].to <= b
  BY <1>2, <1>3 DEF Parted
<1>5. PICK x \in Nat, y \in Nat, z \in Nat, w \in Nat :
        x = ps[f].from /\ y = ps[f].to /\ z = ps[l].from /\ w = ps[l].to /\ x <= y /\ z <= w
  BY <1>4, PiecesAre
<1>6. CASE f = l
  BY <1>3, <1>4, <1>5, <1>6
<1>7. CASE f < l
  <2>1. ps[f].to + L < ps[l].from
    BY <1>1, <1>3, <1>7, PartedOrder
  <2>2. x <= y /\ y + L < z /\ z <= w
    BY <1>5, <2>1
  <2>3. x <= z /\ y <= w /\ x <= w
    BY <2>2
  <2> QED
    BY <1>3, <1>4, <1>5, <2>3
<1> QED
  BY <1>3, <1>6, <1>7

\* The pieces from f to l make a part of the text that is no longer than they are
\* counted.
LEMMA BatchIs ==
  ASSUME NEW t \in Seq(Char), NEW sep, IsSeparator(sep), NEW a \in Nat, NEW b \in Nat, NEW ps,
         Parted(t, sep, a, b, ps), Doubles(t, sep, a, b),
         NEW f \in 1..Len(ps), NEW l \in f..Len(ps), NEW n \in Nat,
         Together(ps, Len(sep), f, l) <= n
  PROVE  ps[l].to - ps[f].from + 1 <= n \/ Doubled(t, Piece(ps[f].from, ps[l].to))
<1>1. \/ ps[l].to - ps[f].from + 1 = Together(ps, Len(sep), f, l)
      \/ Twice(t, sep, ps[f].from, ps[l].to)
  BY ExtentIs
<1>2. a <= ps[f].from /\ ps[l].to <= b /\ ps[f] \in Pieces(t) /\ ps[l] \in Pieces(t)
  BY InOrder
<1>3. ps[f].from \in Nat /\ ps[l].to \in Nat
  BY <1>2, PiecesAre
<1> QED
  BY <1>1, <1>2, <1>3 DEF Doubles

\* After n pieces: those that are in no batch yet begin with first, and what was
\* written ends with piece l.
MergeIs(t, sep, size, overlap, a, ps, n, s) ==
  /\ s.first \in 1..Len(ps)
  /\ n = 0 => s.first = 1
  /\ n >= 1 => s.first <= n /\ Together(ps, Len(sep), s.first, n) <= size
  /\ \E l \in 0..Len(ps) :
       /\ l = 0 \/ l < n
       /\ s.first <= l + 1
       /\ Whole(t, size, overlap, a, Edge(ps, a, l), s.out)
       /\ s.out # <<>> =>
            /\ l # 0 /\ s.out[Len(s.out)].to = ps[l].to
            /\ s.out[Len(s.out)].from < ps[s.first].from
            /\ s.first = l + 1 \/ Together(ps, Len(sep), s.first, l) <= overlap

\* Writing the batch up to n.
LEMMA EmitKeeps ==
  ASSUME NEW t \in Seq(Char), NEW sep, IsSeparator(sep), NEW a \in Nat, NEW b \in Nat, NEW ps,
         Parted(t, sep, a, b, ps), Doubles(t, sep, a, b), NEW size \in Nat, NEW overlap \in Nat,
         NEW n \in 1..Len(ps), NEW s, MergeIs(t, sep, size, overlap, a, ps, n, s)
  PROVE  /\ Whole(t, size, overlap, a, Edge(ps, a, n),
                  Append(s.out, JoinBatch(ps, s.first, n)))
         /\ s.out \in Seq(Pieces(t)) /\ JoinBatch(ps, s.first, n) \in Pieces(t)
         /\ JoinBatch(ps, s.first, n).from = ps[s.first].from
         /\ JoinBatch(ps, s.first, n).to = ps[n].to
<1>1. PICK N \in Nat : N = Len(ps)
  BY DEF Parted
<1>2. PICK f : f = s.first
  OBVIOUS
<1>3. PICK out : out = s.out
  OBVIOUS
<1>4. f \in 1..N /\ f <= n /\ n \in 1..N /\ n \in f..N /\ Together(ps, Len(sep), f, n) <= size
  BY <1>1, <1>2 DEF MergeIs
<1>5. PICK l \in 0..N :
        /\ l = 0 \/ l < n
        /\ f <= l + 1
        /\ Whole(t, size, overlap, a, Edge(ps, a, l), out)
        /\ out # <<>> =>
             /\ l # 0 /\ out[Len(out)].to = ps[l].to /\ out[Len(out)].from < ps[f].from
             /\ f = l + 1 \/ Together(ps, Len(sep), f, l) <= overlap
  BY <1>1, <1>2, <1>3 DEF MergeIs
<1>6. /\ ps[f] \in Pieces(t) /\ ps[n] \in Pieces(t) /\ ps[f].from <= ps[n].to
      /\ a <= ps[f].from /\ ps[n].to <= b
  BY <1>1, <1>4, InOrder
<1>7. PICK x \in Nat, y \in Nat : x = ps[f].from /\ y = ps[n].to
  BY <1>6, PiecesAre
<1>8. 1 <= x /\ x <= y /\ y <= Len(t)
  BY <1>6, <1>7, PiecesAre
<1>9. PICK q : q = JoinBatch(ps, f, n)
  OBVIOUS
<1>10. q = Piece(x, y) /\ q \in Pieces(t) /\ q.from = x /\ q.to = y /\ Size(q) = y - x + 1
  <2>1. q = Piece(x, y)
    BY <1>7, <1>9 DEF JoinBatch
  <2> QED
    BY <1>8, <2>1, APiece
<1>11. InSize(t, size, q)
  <2>1. ps[n].to - ps[f].from + 1 <= size \/ Doubled(t, Piece(ps[f].from, ps[n].to))
    BY <1>1, <1>4, BatchIs
  <2> QED
    BY <1>7, <1>10, <2>1 DEF InSize
<1>12. PICK e \in Int : e = Edge(ps, a, l)
  BY <1>1, EdgeIs
<1>13. PICK z \in Int : z = Edge(ps, a, n)
  BY <1>1, EdgeIs
<1>14. z = y /\ e <= z
  <2>1. z = y
    BY <1>4, <1>7, <1>13 DEF Edge
  <2>2. CASE l = 0
    <3>1. e = a - 1
      BY <1>12, <2>2 DEF Edge
    <3> QED
      BY <1>6, <1>7, <1>8, <2>1, <3>1
  <2>3. CASE l # 0
    <3>1. l \in 1..N /\ n \in l..N
      BY <1>4, <1>5, <2>3
    <3>2. e = ps[l].to /\ ps[l].to <= ps[n].to
      BY <1>1, <1>12, <2>3, <3>1, InOrder DEF Edge
    <3> QED
      BY <1>7, <2>1, <3>2
  <2> QED
    BY <2>1, <2>2, <2>3
<1>15. ASSUME out # <<>> PROVE Follows(t, overlap, out[Len(out)], q)
  <2>1. l \in 1..N /\ l < n /\ out[Len(out)].to = ps[l].to /\ out[Len(out)].from < x
    BY <1>5, <1>7, <1>15
  <2>2. ps[l] \in Pieces(t) /\ ps[l].to < ps[n].from /\ ps[n].from <= ps[n].to
    <3>1. PICK L \in Nat : L = Len(sep)
      BY DEF IsSeparator
    <3>2. ps[l].to + L < ps[n].from
      BY <1>1, <1>4, <2>1, <3>1, PartedOrder
    <3>3. ps[l] \in Pieces(t)
      BY <1>1, <2>1 DEF Parted
    <3>4. ps[l].to \in Nat /\ ps[n].from \in Nat /\ ps[n].from <= ps[n].to
      BY <1>6, <3>3, PiecesAre
    <3> QED
      BY <3>1, <3>2, <3>3, <3>4
  <2>3. PICK v \in Nat : v = ps[l].to
    BY <2>2, PiecesAre
  <2>4. v < y
    <3>1. PICK w \in Nat : w = ps[n].from
      BY <1>6, PiecesAre
    <3>2. v < w /\ w <= y
      BY <1>7, <2>2, <2>3, <3>1
    <3> QED
      BY <3>2
  <2>5. v - x + 1 <= overlap \/ Doubled(t, Piece(x, v))
    <3>1. CASE f = l + 1
      <4>1. ps[l].to + Len(sep) < ps[f].from
        BY <1>1, <1>4, <2>1, <3>1, PartedOrder
      <4>2. PICK L \in Nat : L = Len(sep)
        BY DEF IsSeparator
      <4>3. v + L < x
        BY <1>7, <2>3, <4>1, <4>2
      <4>4. v - x + 1 <= overlap
        BY <4>3
      <4> QED
        BY <4>4
    <3>2. CASE f # l + 1
      <4>1. l \in f..N /\ Together(ps, Len(sep), f, l) <= overlap
        BY <1>4, <1>5, <1>15, <3>2
      <4> QED
        BY <1>1, <1>4, <1>7, <2>3, <4>1, BatchIs
    <3> QED
      BY <3>1, <3>2
  <2> QED
    BY <1>10, <2>1, <2>3, <2>4, <2>5 DEF Follows
<1>16. ASSUME NEW i \in (e + 1)..y, a <= i, t[i] = "x" PROVE i \in x..y
  <2>1. i \in a..b
    BY <1>6, <1>7, <1>16
  <2>2. PICK j \in 1..N : i \in ps[j].from..ps[j].to
    BY <1>1, <1>16, <2>1 DEF Parted
  <2>3. ps[j] \in Pieces(t)
    BY <1>1, <2>2 DEF Parted
  <2>4. ps[j].from \in Nat /\ ps[j].to \in Nat
    BY <2>3, PiecesAre
  <2>5. ~(j <= l)
    <3>1. j <= l => ps[j].to <= e
      BY <1>1, <1>12, EdgeIs
    <3> QED
      BY <2>2, <2>4, <3>1
  <2>6. j \in f..N
    BY <1>4, <1>5, <2>5
  <2>7. x <= ps[j].from
    BY <1>1, <1>4, <1>7, <2>6, InOrder
  <2> QED
    BY <2>2, <2>4, <2>7
<1>17. Whole(t, size, overlap, a, y, Append(out, q))
  <2>1. Whole(t, size, overlap, a, e, out) /\ a \in Int /\ y \in Int
    BY <1>5, <1>12
  <2>2. e <= y /\ a <= q.from /\ q.to <= y
    BY <1>6, <1>7, <1>10, <1>14
  <2>3. \A i \in (e + 1)..y : a <= i /\ t[i] = "x" => i \in q.from..q.to
    BY <1>10, <1>16
  <2> QED
    BY <1>10, <1>11, <1>15, <2>1, <2>2, <2>3, WholeMore
<1>18. out \in Seq(Pieces(t))
  BY <1>5 DEF Whole
<1> QED
  BY <1>2, <1>3, <1>7, <1>9, <1>10, <1>13, <1>14, <1>17, <1>18

\* The end of a full batch that is taken along leaves room for the next piece.
LEMMA KeptIs ==
  ASSUME NEW t \in Seq(Char), NEW ps \in Seq(Pieces(t)), NEW glue, NEW size, NEW overlap,
         NEW f \in 1..Len(ps), NEW n \in f..Len(ps)
  PROVE  /\ Kept(ps, glue, size, overlap, f, n) \in f..n
         /\ Fits(ps, glue, size, overlap, Kept(ps, glue, size, overlap, f, n), n)
<1> DEFINE S == {k \in f..n : Fits(ps, glue, size, overlap, k, n)}
<1>1. S \subseteq Nat /\ n \in S
  BY DEF Fits
<1>2. PICK i \in S : \A j \in S : i <= j
  <2> HIDE DEF S
  <2> QED
    BY <1>1, Smallest
<1>3. Min(S) \in S
  <2> HIDE DEF S
  <2> QED
    BY <1>2, Zenon DEF Min
<1>4. Kept(ps, glue, size, overlap, f, n) = Min(S)
  BY DEF Kept
<1> QED
  BY <1>3, <1>4

LEMMA MergeTurnKeeps ==
  ASSUME NEW t \in Seq(Char), NEW sep, IsSeparator(sep), NEW a \in Nat, NEW b \in Nat, NEW ps,
         Parted(t, sep, a, b, ps), Doubles(t, sep, a, b), NEW size \in Nat, NEW overlap \in Nat,
         \A k \in 1..Len(ps) : Size(ps[k]) < size,
         NEW n \in 1..Len(ps), NEW s, MergeIs(t, sep, size, overlap, a, ps, n - 1, s)
  PROVE  MergeIs(t, sep, size, overlap, a, ps, n, MergeTurn(ps, Len(sep), size, overlap, n, s))
<1>1. ps \in Seq(Pieces(t))
  BY DEF Parted
<1>2. PICK N \in Nat : N = Len(ps)
  BY <1>1
<1>3. PICK L \in Nat : L = Len(sep)
  BY DEF IsSeparator
<1>4. PICK f \in 1..N : f = s.first
  BY <1>2 DEF MergeIs
<1>5. PICK r : r = MergeTurn(ps, L, size, overlap, n, s)
  OBVIOUS
<1>6. /\ n \in 1..N /\ n \in Nat /\ n - 1 \in Nat
      /\ \A k \in 1..N : Size(ps[k]) \in Nat /\ Size(ps[k]) < size
  BY <1>1, <1>2, PiecesAre
<1>7. CASE f < n /\ Together(ps, L, f, n) > size
  <2>1. PICK k : k = Kept(ps, L, size, overlap, f, n)
    OBVIOUS
  <2>2. PICK q : q = JoinBatch(ps, f, n - 1)
    OBVIOUS
  <2>3. PICK out : out = s.out
    OBVIOUS
  <2>4. r = [first |-> k, out |-> Append(out, q)]
    BY <1>4, <1>5, <1>7, <2>1, <2>2, <2>3, Zenon DEF MergeTurn
  <2>5. r.first = k /\ r.out = Append(out, q)
    BY <2>4
  <2>6. n - 1 \in 1..N /\ n - 1 \in 0..N /\ n \in f..N
    BY <1>2, <1>6, <1>7
  <2>7. /\ Whole(t, size, overlap, a, Edge(ps, a, n - 1), Append(out, q))
        /\ out \in Seq(Pieces(t)) /\ q \in Pieces(t) /\ q.from = ps[f].from /\ q.to = ps[n - 1].to
    <3>1. PICK m \in 1..Len(ps) : m = n - 1
      BY <1>2, <2>6
    <3>2. MergeIs(t, sep, size, overlap, a, ps, m, s)
      BY <3>1
    <3>3. /\ Whole(t, size, overlap, a, Edge(ps, a, m),
                   Append(s.out, JoinBatch(ps, s.first, m)))
          /\ s.out \in Seq(Pieces(t)) /\ JoinBatch(ps, s.first, m) \in Pieces(t)
          /\ JoinBatch(ps, s.first, m).from = ps[s.first].from
          /\ JoinBatch(ps, s.first, m).to = ps[m].to
      BY <3>2, EmitKeeps
    <3> QED
      BY <1>4, <2>2, <2>3, <3>1, <3>3
  <2>8. k \in f..n /\ Fits(ps, L, size, overlap, k, n)
    BY <1>1, <1>2, <2>1, <2>6, KeptIs
  <2>9. k \in 1..N /\ k <= n /\ n \in k..N
    BY <1>2, <1>6, <2>8
  <2>10. k # n => Together(ps, L, k, n - 1) <= overlap /\ Together(ps, L, k, n) <= size
    BY <2>8 DEF Fits
  <2>11. k # f
    <3>1. Together(ps, L, f, n) \in Int
      BY <1>1, <1>2, <1>3, <2>6, TogetherIs
    <3> QED
      BY <1>6, <1>7, <2>10, <3>1
  <2>12. ps[f].from < ps[k].from
    <3>1. ps[f].to + L < ps[k].from
      BY <1>2, <1>3, <2>8, <2>9, <2>11, PartedOrder
    <3>2. ps[f] \in Pieces(t) /\ ps[k] \in Pieces(t)
      BY <1>1, <1>2, <2>9
    <3>3. PICK x \in Nat, y \in Nat, z \in Nat :
            x = ps[f].from /\ y = ps[f].to /\ z = ps[k].from /\ x <= y
      BY <3>2, PiecesAre
    <3>4. x <= y /\ y + L < z
      BY <3>1, <3>3
    <3>5. x < z
      BY <3>4
    <3> QED
      BY <3>3, <3>5
  <2>13. Together(ps, L, k, n) <= size
    <3>1. CASE k = n
      <4>1. Together(ps, L, n, n) = Size(ps[n])
        BY <1>1, <1>2, <1>3, <1>6, TogetherIs
      <4> QED
        BY <1>6, <3>1, <4>1
    <3> QED
      BY <2>10, <3>1
  <2>14. /\ r.out[Len(r.out)] = q
    BY <2>5, <2>7, AppendIs
  <2>15. MergeIs(t, sep, size, overlap, a, ps, n, r)
    <3>1. n - 1 < n /\ k <= (n - 1) + 1 /\ n - 1 # 0 /\ n # 0
      BY <1>6, <2>6, <2>9
    <3>2. k = (n - 1) + 1 \/ Together(ps, L, k, n - 1) <= overlap
      BY <1>6, <2>10
    <3> QED
      BY <1>2, <1>3, <2>5, <2>6, <2>7, <2>9, <2>12, <2>13, <2>14, <3>1, <3>2 DEF MergeIs
  <2> QED
    BY <1>3, <1>5, <2>15
<1>8. CASE ~(f < n /\ Together(ps, L, f, n) > size)
  <2>1. r = s
    BY <1>4, <1>5, <1>8, Zenon DEF MergeTurn
  <2>2. f <= n
    <3>1. CASE n - 1 = 0
      BY <1>4, <1>6, <3>1 DEF MergeIs
    <3>2. CASE n - 1 >= 1
      <4>1. f <= n - 1
        BY <1>4, <3>2 DEF MergeIs
      <4> QED
        BY <1>6, <4>1
    <3> QED
      BY <1>6, <3>1, <3>2
  <2>3. Together(ps, L, f, n) <= size
    <3>1. CASE f = n
      <4>1. Together(ps, L, n, n) = Size(ps[n])
        BY <1>1, <1>2, <1>3, <1>6, TogetherIs
      <4> QED
        BY <1>6, <3>1, <4>1
    <3>2. CASE f < n
      <4>1. n \in f..N
        BY <1>2, <1>6, <3>2
      <4>2. Together(ps, L, f, n) \in Int
        BY <1>1, <1>2, <1>3, <4>1, TogetherIs
      <4> QED
        BY <1>8, <3>2, <4>2
    <3> QED
      BY <1>6, <2>2, <3>1, <3>2
  <2>4. PICK l \in 0..N :
          /\ l = 0 \/ l < n - 1
          /\ s.first <= l + 1
          /\ Whole(t, size, overlap, a, Edge(ps, a, l), s.out)
          /\ s.out # <<>> =>
               /\ l # 0 /\ s.out[Len(s.out)].to = ps[l].to
               /\ s.out[Len(s.out)].from < ps[s.first].from
               /\ s.first = l + 1 \/ Together(ps, Len(sep), s.first, l) <= overlap
    BY <1>2 DEF MergeIs
  <2>5. (l = 0 \/ l < n) /\ n # 0
    BY <1>6, <2>4
  <2>6. MergeIs(t, sep, size, overlap, a, ps, n, s)
    BY <1>2, <1>3, <1>4, <2>2, <2>3, <2>4, <2>5 DEF MergeIs
  <2> QED
    BY <1>3, <1>5, <2>1, <2>6
<1> QED
  BY <1>7, <1>8

LEMMA MergeLoop ==
  ASSUME NEW ps, NEW glue, NEW size, NEW overlap, Len(ps) \in Nat, ps # <<>>
  PROVE  \E f : /\ f[0] = [first |-> 1, out |-> <<>>]
                /\ \A n \in 1..Len(ps) : f[n] = MergeTurn(ps, glue, size, overlap, n, f[n - 1])
                /\ MergePieces(ps, glue, size, overlap) =
                     Append(f[Len(ps)].out, JoinBatch(ps, f[Len(ps)].first, Len(ps)))
<1> DEFINE N == Len(ps)
           base == [first |-> 1, out |-> <<>>]
           Loop(g) == g = [n \in 0..N |-> IF n = 0 THEN [first |-> 1, out |-> <<>>]
                                          ELSE MergeTurn(ps, glue, size, overlap, n, g[n - 1])]
           Upto(g, k) == /\ g[0] = base
                         /\ \A n \in 1..k : g[n] = MergeTurn(ps, glue, size, overlap, n, g[n - 1])
           P == {k \in 0..N : \E g : Upto(g, k)}
<1>1. N \in Nat
  OBVIOUS
<1> HIDE DEF N, base
<1>2. 0 \in P
  <2> DEFINE g == [n \in 0..0 |-> base]
  <2>1. g[0] = base /\ \A n \in 1..0 : FALSE
    OBVIOUS
  <2> HIDE DEF g
  <2>2. Upto(g, 0)
    BY <2>1
  <2>3. 0 \in 0..N /\ \E e : Upto(e, 0)
    BY <1>1, <2>2
  <2> QED
    BY <2>3
<1>3. ASSUME NEW k \in 1..N, k - 1 \in P PROVE k \in P
  <2>1. PICK g : Upto(g, k - 1)
    BY <1>3
  <2> DEFINE h == [n \in 0..k |-> IF n = k THEN MergeTurn(ps, glue, size, overlap, k, g[k - 1])
                                  ELSE g[n]]
  <2>2. /\ h[k] = MergeTurn(ps, glue, size, overlap, k, g[k - 1])
        /\ \A n \in 0..(k - 1) : h[n] = g[n]
    BY <1>1
  <2> HIDE DEF h
  <2>3. h[0] = base
    BY <1>1, <2>1, <2>2
  <2>4. ASSUME NEW n \in 1..k PROVE h[n] = MergeTurn(ps, glue, size, overlap, n, h[n - 1])
    <3>1. n - 1 \in 0..(k - 1) /\ (n = k \/ n \in 1..(k - 1))
      BY <1>1
    <3>2. CASE n = k
      BY <2>2, <3>1, <3>2
    <3>3. CASE n \in 1..(k - 1)
      <4>1. h[n - 1] = g[n - 1] /\ h[n] = g[n]
        BY <1>1, <2>2, <3>1, <3>3
      <4> QED
        BY <2>1, <3>3, <4>1
    <3> QED
      BY <3>1, <3>2, <3>3
  <2>5. Upto(h, k)
    BY <2>3, <2>4
  <2> QED
    BY <1>1, <2>5
<1> HIDE DEF P
<1>4. N \in P
  <2>1. \A k \in 1..N : k - 1 \in P => k \in P
    BY <1>3
  <2>2. \A k \in 0..N : k \in P
    BY <1>1, <1>2, <2>1, Inductive
  <2> QED
    BY <1>1, <2>2
<1>5. PICK g : Upto(g, N)
  BY <1>4 DEF P
<1> DEFINE h == [n \in 0..N |-> g[n]]
<1>6. Loop(h)
  <2>1. \A n \in 0..N : h[n] = g[n]
    OBVIOUS
  <2>2. ASSUME NEW n \in 0..N
        PROVE  h[n] = IF n = 0 THEN base ELSE MergeTurn(ps, glue, size, overlap, n, h[n - 1])
    <3>1. n # 0 => n \in 1..N /\ n - 1 \in 0..N
      BY <1>1
    <3> QED
      BY <1>5, <2>1, <3>1
  <2>3. h = [n \in 0..N |-> h[n]]
    OBVIOUS
  <2> HIDE DEF h
  <2> QED
    BY <2>2, <2>3 DEF base
<1> DEFINE f == CHOOSE e : Loop(e)
<1>7. Loop(f)
  BY <1>6
<1>8. MergePieces(ps, glue, size, overlap) = Append(f[N].out, JoinBatch(ps, f[N].first, N))
  BY DEF MergePieces, N
<1> HIDE DEF f
<1>9. \A n \in 0..N : f[n] = IF n = 0 THEN base ELSE MergeTurn(ps, glue, size, overlap, n, f[n - 1])
  BY <1>7, Zenon DEF base
<1>10. 0 \in 0..N /\ \A n \in 1..N : n \in 0..N /\ n # 0
  BY <1>1
<1>11. f[0] = base /\ \A n \in 1..N : f[n] = MergeTurn(ps, glue, size, overlap, n, f[n - 1])
  BY <1>9, <1>10
<1> QED
  BY <1>8, <1>11 DEF N, base

\* Letters neither before nor behind: it is as whole in more of the text.
LEMMA WholeWider ==
  ASSUME NEW t \in Seq(Char), NEW size, NEW overlap, NEW a \in Int, NEW b \in Int, NEW s,
         Whole(t, size, overlap, a, b, s), NEW c \in Int, NEW d \in Int, c <= a, b <= d,
         \A i \in c..d : t[i] = "x" => i \in a..b
  PROVE  Whole(t, size, overlap, c, d, s)
<1>1. s \in Seq(Pieces(t))
  BY DEF Whole
<1>2. \A k \in 1..Len(s) : /\ s[k].from \in Int /\ s[k].to \in Int
                           /\ a <= s[k].from /\ s[k].to <= b /\ InSize(t, size, s[k])
  BY <1>1, PiecesAre DEF Whole
<1>3. \A k \in 1..Len(s) : c <= s[k].from /\ s[k].to <= d
  BY <1>2
<1>4. ASSUME NEW i \in c..d, t[i] = "x" PROVE \E k \in 1..Len(s) : i \in s[k].from..s[k].to
  <2>1. i \in a..b
    BY <1>4
  <2> QED
    BY <1>4, <2>1 DEF Whole
<1> QED
  BY <1>2, <1>3, <1>4 DEF Whole

\* Short pieces put together are whole.
LEMMA MergeWhole ==
  ASSUME NEW t \in Seq(Char), NEW sep, IsSeparator(sep), NEW a \in Nat, NEW b \in Int, NEW ps,
         Parted(t, sep, a, b, ps), Doubles(t, sep, a, b), NEW size \in Nat, NEW overlap \in Nat,
         \A k \in 1..Len(ps) : Size(ps[k]) < size
  PROVE  Whole(t, size, overlap, a, b, MergePieces(ps, Len(sep), size, overlap))
<1>1. ps \in Seq(Pieces(t)) /\ Len(ps) \in Nat
  BY DEF Parted
<1>2. CASE ps = <<>>
  <2>1. MergePieces(ps, Len(sep), size, overlap) = <<>>
    BY <1>2, Zenon DEF MergePieces
  <2>2. 1..Len(ps) = {}
    BY <1>2
  <2>3. \A i \in a..b : t[i] # "x"
    BY <2>2 DEF Parted
  <2> QED
    BY <2>1, <2>3, WholeNothing
<1>3. CASE ps # <<>>
  <2>1. PICK N \in Nat : N = Len(ps) /\ N >= 1
    BY <1>1, <1>3
  <2>2. b \in Nat
    <3>1. ps[1] \in Pieces(t) /\ a <= ps[1].from /\ ps[1].to <= b
      BY <1>1, <2>1 DEF Parted
    <3>2. ps[1].from \in Nat /\ ps[1].to \in Nat /\ ps[1].from <= ps[1].to
      BY <3>1, PiecesAre
    <3> QED
      BY <3>1, <3>2
  <2>3. PICK L \in Nat : L = Len(sep)
    BY DEF IsSeparator
  <2>4. PICK f : /\ f[0] = [first |-> 1, out |-> <<>>]
                 /\ \A n \in 1..N : f[n] = MergeTurn(ps, L, size, overlap, n, f[n - 1])
                 /\ MergePieces(ps, L, size, overlap) =
                      Append(f[N].out, JoinBatch(ps, f[N].first, N))
    BY <1>3, <2>1, MergeLoop
  <2> DEFINE P == {n \in 0..N : MergeIs(t, sep, size, overlap, a, ps, n, f[n])}
  <2>5. 0 \in P
    <3>1. PICK s : s = f[0]
      OBVIOUS
    <3>2. s.first = 1 /\ s.out = <<>>
      BY <2>4, <3>1
    <3>3. Edge(ps, a, 0) = a - 1 /\ \A i \in a..(a - 1) : FALSE
      BY DEF Edge
    <3>4. Whole(t, size, overlap, a, Edge(ps, a, 0), <<>>)
      BY <3>3, WholeNothing
    <3>5. 1 \in 1..N /\ 0 \in 0..N /\ 1 <= 0 + 1
      BY <2>1
    <3>6. MergeIs(t, sep, size, overlap, a, ps, 0, s)
      BY <2>1, <3>2, <3>4, <3>5 DEF MergeIs
    <3> QED
      BY <3>1, <3>5, <3>6
  <2>6. ASSUME NEW n \in 1..N, n - 1 \in P PROVE n \in P
    <3>1. MergeIs(t, sep, size, overlap, a, ps, n - 1, f[n - 1]) /\ n \in 0..N
      BY <2>6
    <3>2. f[n] = MergeTurn(ps, L, size, overlap, n, f[n - 1])
      BY <2>4
    <3>3. MergeIs(t, sep, size, overlap, a, ps, n, f[n])
      BY <2>1, <2>2, <2>3, <3>1, <3>2, MergeTurnKeeps
    <3> QED
      BY <3>1, <3>3
  <2> HIDE DEF P
  <2>7. N \in P
    <3>1. \A n \in 1..N : n - 1 \in P => n \in P
      BY <2>6
    <3>2. \A n \in 0..N : n \in P
      BY <2>5, <3>1, Inductive
    <3> QED
      BY <3>2
  <2>8. MergeIs(t, sep, size, overlap, a, ps, N, f[N]) /\ N \in 1..Len(ps)
    BY <2>1, <2>7 DEF P
  <2>9. Whole(t, size, overlap, a, Edge(ps, a, N), MergePieces(ps, L, size, overlap))
    BY <2>2, <2>4, <2>8, EmitKeeps
  <2>10. PICK e \in Int : e = Edge(ps, a, N) /\ e <= b
    <3>1. N \in 0..Len(ps) /\ N # 0
      BY <2>1
    <3> QED
      BY <2>2, <3>1, EdgeIs
  <2>11. ASSUME NEW i \in a..b, t[i] = "x" PROVE i \in a..e
    <3>1. PICK j \in 1..N : i \in ps[j].from..ps[j].to
      BY <2>1, <2>11 DEF Parted
    <3>2. ps[j].to <= e /\ ps[j].to \in Int /\ ps[j].from \in Int
      <4>1. ps[j].to <= Edge(ps, a, N)
        BY <2>1, <2>2, EdgeIs
      <4>2. ps[j] \in Pieces(t)
        BY <1>1, <2>1
      <4> QED
        BY <2>10, <4>1, <4>2, PiecesAre
    <3> QED
      BY <3>1, <3>2
  <2>12. Whole(t, size, overlap, a, b, MergePieces(ps, L, size, overlap))
    BY <2>9, <2>10, <2>11, WholeWider
  <2> QED
    BY <2>3, <2>12
<1> QED
  BY <1>2, <1>3

-----------------------------------------------------------------------------
(* Long pieces cut further                                                 *)

\* Two whole parts, one behind the other, are a whole one.
LEMMA WholeJoin ==
  ASSUME NEW t \in Seq(Char), NEW size, NEW overlap \in Nat, NEW a \in Int, NEW b \in Int,
         NEW d \in Int, NEW s, NEW u, Whole(t, size, overlap, a, b, s),
         Whole(t, size, overlap, b + 1, d, u), a <= b + 1, b <= d
  PROVE  Whole(t, size, overlap, a, d, s \o u)
<1>1. s \in Seq(Pieces(t)) /\ u \in Seq(Pieces(t))
  BY DEF Whole
<1>2. PICK N \in Nat, M \in Nat : N = Len(s) /\ M = Len(u)
  BY <1>1
<1>3. PICK w : w = s \o u
  OBVIOUS
<1>4. /\ w \in Seq(Pieces(t)) /\ Len(w) = N + M
      /\ \A k \in 1..N : w[k] = s[k]
      /\ \A k \in 1..M : w[N + k] = u[k]
  BY <1>1, <1>2, <1>3, ConcatIs
<1>5. \A k \in 1..N : /\ s[k].from \in Nat /\ s[k].to \in Nat /\ s[k].from <= s[k].to
                      /\ a <= s[k].from /\ s[k].to <= b /\ InSize(t, size, s[k])
  BY <1>1, <1>2, PiecesAre DEF Whole
<1>6. \A k \in 1..M : /\ u[k].from \in Nat /\ u[k].to \in Nat /\ u[k].from <= u[k].to
                      /\ b + 1 <= u[k].from /\ u[k].to <= d /\ InSize(t, size, u[k])
  BY <1>1, <1>2, PiecesAre DEF Whole
<1>7. ASSUME NEW k \in 1..(N + M)
      PROVE  k \in 1..N \/ (k - N \in 1..M /\ w[k] = u[k - N])
  <2>1. k \in 1..N \/ k - N \in 1..M
    BY <1>2
  <2>2. N + (k - N) = k
    BY <1>2
  <2> QED
    BY <1>4, <2>1, <2>2
<1>8. ASSUME NEW k \in 1..(N + M)
      PROVE  a <= w[k].from /\ w[k].to <= d /\ InSize(t, size, w[k])
  <2>1. CASE k \in 1..N
    <3>1. w[k] = s[k] /\ s[k].to <= d
      BY <1>4, <1>5, <2>1
    <3> QED
      BY <1>5, <2>1, <3>1
  <2>2. CASE k - N \in 1..M /\ w[k] = u[k - N]
    <3>1. a <= u[k - N].from
      BY <1>6, <2>2
    <3> QED
      BY <1>6, <2>2, <3>1
  <2> QED
    BY <1>7, <2>1, <2>2
<1>9. ASSUME NEW k \in 2..(N + M) PROVE Follows(t, overlap, w[k - 1], w[k])
  <2>1. k \in 1..(N + M) /\ k - 1 \in 1..(N + M) /\ k \in Int
    BY <1>2
  <2>2. CASE k \in 1..N
    <3>1. k \in 2..N /\ k - 1 \in 1..N
      BY <2>1, <2>2
    <3>2. Follows(t, overlap, s[k - 1], s[k])
      BY <1>2, <3>1 DEF Whole
    <3> QED
      BY <1>4, <2>2, <3>1, <3>2
  <2>3. CASE k = N + 1
    <3>1. N \in 1..N /\ 1 \in 1..M /\ k - 1 = N
      BY <1>2, <2>1, <2>3
    <3>2. w[k - 1] = s[N] /\ w[k] = u[1]
      BY <1>4, <2>3, <3>1
    <3>3. PICK x \in Nat, y \in Nat, z \in Nat, v \in Nat :
            x = s[N].from /\ y = s[N].to /\ z = u[1].from /\ v = u[1].to
      BY <1>5, <1>6, <3>1
    <3>4. x <= y /\ y <= b /\ b + 1 <= z /\ z <= v
      BY <1>5, <1>6, <3>1, <3>3
    <3>5. x < z /\ y < v /\ y - z + 1 <= overlap
      BY <3>4
    <3> QED
      BY <3>2, <3>3, <3>5 DEF Follows
  <2>4. CASE k > N + 1
    <3>1. k - N \in 2..M /\ k - N \in 1..M /\ (k - N) - 1 \in 1..M
      BY <1>2, <2>1, <2>4
    <3>2. w[k] = u[k - N] /\ w[k - 1] = u[(k - N) - 1]
      <4>1. N + (k - N) = k /\ N + ((k - N) - 1) = k - 1
        BY <1>2, <2>1
      <4> QED
        BY <1>4, <3>1, <4>1
    <3>3. Follows(t, overlap, u[(k - N) - 1], u[k - N])
      BY <1>2, <3>1 DEF Whole
    <3> QED
      BY <3>2, <3>3
  <2> QED
    BY <1>2, <2>1, <2>2, <2>3, <2>4
<1>10. ASSUME NEW i \in a..d, t[i] = "x" PROVE \E k \in 1..(N + M) : i \in w[k].from..w[k].to
  <2>1. CASE i <= b
    <3>1. PICK k \in 1..N : i \in s[k].from..s[k].to
      BY <1>2, <1>10, <2>1 DEF Whole
    <3>2. k \in 1..(N + M)
      BY <1>2
    <3> QED
      BY <1>4, <3>1, <3>2
  <2>2. CASE ~(i <= b)
    <3>1. i \in (b + 1)..d
      BY <2>2
    <3>2. PICK k \in 1..M : i \in u[k].from..u[k].to
      BY <1>2, <1>10, <3>1 DEF Whole
    <3>3. N + k \in 1..(N + M)
      BY <1>2
    <3>4. w[N + k] = u[k]
      BY <1>4
    <3> QED
      BY <3>2, <3>3, <3>4
  <2> QED
    BY <2>1, <2>2
<1>11. Whole(t, size, overlap, a, d, w)
  BY <1>4, <1>8, <1>9, <1>10 DEF Whole
<1> QED
  BY <1>3, <1>11

LEMMA DoublesPart ==
  ASSUME NEW t, NEW sep, NEW a \in Int, NEW b \in Int, NEW c \in Int, NEW d \in Int,
         Doubles(t, sep, a, b), a <= c, d <= b \/ d < c
  PROVE  Doubles(t, sep, c, d)
<1>1. ASSUME NEW i \in Nat, NEW j \in Nat, c <= i, j <= d, Twice(t, sep, i, j)
      PROVE  Doubled(t, Piece(i, j))
  <2>1. i <= j
    BY <1>1 DEF Twice
  <2>2. a <= i /\ j <= b
    BY <1>1, <2>1
  <2> QED
    BY <1>1, <2>2 DEF Doubles
<1> QED
  BY <1>1 DEF Doubles

\* What each long piece is cut to is whole.
LongWhole(t, size, overlap, ps, cut) ==
  \A k \in 1..Len(ps) :
    Size(ps[k]) >= size => Whole(t, size, overlap, ps[k].from, ps[k].to, cut[ps[k]])

\* After n pieces: those that wait to be put together begin with first, all short.
LongsAre(t, size, overlap, a, ps, n, s) ==
  /\ s.first \in 1..(n + 1)
  /\ Whole(t, size, overlap, a, Edge(ps, a, s.first - 1), s.out)
  /\ \A k \in s.first..n : Size(ps[k]) < size

\* The short pieces from f to l, put together behind what is there.
LEMMA ShortWhole ==
  ASSUME NEW t \in Seq(Char), NEW sep, IsSeparator(sep), NEW a \in Nat, NEW b \in Nat, NEW ps,
         Parted(t, sep, a, b, ps), Doubles(t, sep, a, b), NEW size \in Nat, NEW overlap \in Nat,
         NEW f \in 1..(Len(ps) + 1), NEW l \in 0..Len(ps), f <= l + 1, NEW out,
         Whole(t, size, overlap, a, Edge(ps, a, f - 1), out),
         \A k \in f..l : Size(ps[k]) < size
  PROVE  Whole(t, size, overlap, a, Edge(ps, a, l),
               out \o MergePieces(SubSeq(ps, f, l), Len(sep), size, overlap))
<1>1. ps \in Seq(Pieces(t))
  BY DEF Parted
<1>2. PICK N \in Nat : N = Len(ps)
  BY <1>1
<1>3. f - 1 \in 0..N /\ f \in Nat /\ l \in Nat /\ l \in 0..N /\ f \in 1..(N + 1)
  BY <1>2
<1>4. PICK c \in Int : c = Edge(ps, a, f - 1) /\ a - 1 <= c
  BY <1>2, <1>3, EdgeIs
<1>5. PICK e \in Int : e = Edge(ps, a, l) /\ (l # 0 => e <= b)
  BY <1>2, <1>3, EdgeIs
<1>6. PICK u : u = SubSeq(ps, f, l)
  OBVIOUS
<1>7. Parted(t, sep, c + 1, e, u)
  BY <1>4, <1>5, <1>6, PartedPart
<1>8. ASSUME NEW k \in 1..Len(u) PROVE Size(u[k]) < size
  <2>1. Len(u) = l - f + 1 /\ u[k] = ps[k + f - 1] /\ k + f - 1 \in f..l
    BY <1>1, <1>6, SubSeqIs
  <2> QED
    BY <2>1
<1>9. e <= b \/ e < c + 1
  <2>1. l = 0 => f - 1 = 0
    BY <1>3
  <2>2. l = 0 => e = a - 1 /\ c = a - 1
    BY <1>4, <1>5, <2>1 DEF Edge
  <2> QED
    BY <1>5, <2>2
<1>10. Doubles(t, sep, c + 1, e)
  <2>1. c + 1 \in Int /\ a <= c + 1
    BY <1>4
  <2> QED
    BY <1>9, <2>1, DoublesPart
<1>11. Whole(t, size, overlap, c + 1, e, MergePieces(u, Len(sep), size, overlap))
  <2>1. c + 1 \in Nat
    BY <1>4
  <2> QED
    BY <1>7, <1>8, <1>10, <2>1, MergeWhole
<1>12. c <= e
  <2>1. CASE f - 1 = l
    BY <1>4, <1>5, <2>1
  <2>2. CASE f - 1 # l
    <3>1. f - 1 <= l /\ l \in 1..N
      BY <1>2, <1>3, <2>2
    <3>2. CASE f - 1 = 0
      <4>1. c = a - 1 /\ a - 1 <= e
        BY <1>2, <1>3, <1>4, <1>5, <3>2, EdgeIs DEF Edge
      <4> QED
        BY <4>1
    <3>3. CASE f - 1 # 0
      <4>1. f - 1 \in 1..N /\ c = ps[f - 1].to
        BY <1>3, <1>4, <3>3 DEF Edge
      <4>2. ps[f - 1].to <= Edge(ps, a, l)
        BY <1>2, <1>3, <3>1, <4>1, EdgeIs
      <4> QED
        BY <1>5, <4>1, <4>2
    <3> QED
      BY <3>2, <3>3
  <2> QED
    BY <2>1, <2>2
<1>13. Whole(t, size, overlap, a, e, out \o MergePieces(u, Len(sep), size, overlap))
  <2>1. a \in Int /\ a <= c + 1 /\ Whole(t, size, overlap, a, c, out)
    BY <1>4
  <2> QED
    BY <1>11, <1>12, <2>1, WholeJoin
<1> QED
  BY <1>5, <1>6, <1>13

LEMMA CutTurnKeeps ==
  ASSUME NEW t \in Seq(Char), NEW sep, IsSeparator(sep), NEW a \in Nat, NEW b \in Nat, NEW ps,
         Parted(t, sep, a, b, ps), Doubles(t, sep, a, b), NEW size \in Nat, NEW overlap \in Nat,
         NEW cut, LongWhole(t, size, overlap, ps, cut),
         NEW n \in 1..Len(ps), NEW s, LongsAre(t, size, overlap, a, ps, n - 1, s)
  PROVE  LongsAre(t, size, overlap, a, ps, n, CutTurn(ps, cut, Len(sep), size, overlap, n, s))
<1>1. ps \in Seq(Pieces(t))
  BY DEF Parted
<1>2. PICK N \in Nat : N = Len(ps) /\ n \in 1..N /\ n \in Nat
  BY <1>1
<1>3. PICK f : f = s.first
  OBVIOUS
<1>4. /\ f \in 1..n /\ \A k \in f..(n - 1) : Size(ps[k]) < size
      /\ Whole(t, size, overlap, a, Edge(ps, a, f - 1), s.out)
  <2>1. (n - 1) + 1 = n
    BY <1>2
  <2> QED
    BY <1>3, <2>1 DEF LongsAre
<1>5. PICK r : r = CutTurn(ps, cut, Len(sep), size, overlap, n, s)
  OBVIOUS
<1>6. ps[n] \in Pieces(t) /\ Size(ps[n]) \in Nat /\ ps[n].from \in Nat /\ ps[n].to \in Nat
  BY <1>1, <1>2, PiecesAre
<1>7. CASE Size(ps[n]) < size
  <2>1. r = s
    BY <1>5, <1>7, Zenon DEF CutTurn
  <2>2. f \in 1..(n + 1)
    BY <1>2, <1>4
  <2>3. \A k \in f..n : k = n \/ k \in f..(n - 1)
    BY <1>2
  <2>4. \A k \in f..n : Size(ps[k]) < size
    BY <1>4, <1>7, <2>3
  <2>5. LongsAre(t, size, overlap, a, ps, n, s)
    BY <1>3, <1>4, <2>2, <2>4 DEF LongsAre
  <2> QED
    BY <1>5, <2>1, <2>5
<1>8. CASE ~(Size(ps[n]) < size)
  <2>1. PICK m : m = s.out \o MergePieces(SubSeq(ps, f, n - 1), Len(sep), size, overlap)
    OBVIOUS
  <2>2. r = [first |-> n + 1, out |-> m \o cut[ps[n]]]
    BY <1>3, <1>5, <1>8, <2>1, Zenon DEF CutTurn
  <2>3. r.first = n + 1 /\ r.out = m \o cut[ps[n]]
    BY <2>2
  <2>4. n - 1 \in 0..N /\ f <= (n - 1) + 1 /\ f \in 1..(N + 1)
    BY <1>2, <1>4
  <2>5. Whole(t, size, overlap, a, Edge(ps, a, n - 1), m)
    BY <1>2, <1>4, <2>1, <2>4, ShortWhole
  <2>6. PICK e \in Int : /\ e = Edge(ps, a, n - 1) /\ a - 1 <= e
                         /\ \A j \in 1..N : j <= n - 1 => ps[j].to <= e
                         /\ \A j \in 1..N : j > n - 1 => e < ps[j].from
    <3>1. PICK l \in 0..Len(ps) : l = n - 1
      BY <1>2, <2>4
    <3>2. PICK e \in Int : e = Edge(ps, a, l)
      BY <3>1, EdgeIs
    <3>3. /\ a - 1 <= e
          /\ \A j \in 1..N : j <= l => ps[j].to <= e
          /\ \A j \in 1..N : j > l => e < ps[j].from
      BY <1>2, <3>2, EdgeIs
    <3> QED
      BY <3>1, <3>2, <3>3
  <2>7. PICK x \in Nat, y \in Nat : x = ps[n].from /\ y = ps[n].to /\ x <= y
    BY <1>6, PiecesAre
  <2>8. e < x
    BY <1>2, <2>6, <2>7
  <2>9. Whole(t, size, overlap, x, y, cut[ps[n]])
    BY <1>2, <1>6, <1>8, <2>7 DEF LongWhole
  <2>10. ASSUME NEW i \in (e + 1)..y, t[i] = "x" PROVE i \in x..y
    <3>1. i \in a..b
      <4>1. ps[n].to <= b
        BY <1>2 DEF Parted
      <4> QED
        BY <2>6, <2>7, <4>1
    <3>2. PICK j \in 1..N : i \in ps[j].from..ps[j].to
      BY <1>2, <2>10, <3>1 DEF Parted
    <3>3. ps[j] \in Pieces(t) /\ ps[j].from \in Nat /\ ps[j].to \in Nat
      BY <1>1, <1>2, PiecesAre
    <3>4. j > n - 1
      <4>1. PICK z \in Nat : z = ps[j].to /\ i <= z
        BY <3>2, <3>3
      <4>2. j <= n - 1 => z <= e
        BY <2>6, <4>1
      <4>3. i >= e + 1 /\ i \in Int
        BY <2>6, <2>7, <2>10
      <4>4. ~(j <= n - 1)
        BY <4>1, <4>2, <4>3
      <4> QED
        BY <1>2, <4>4
    <3>5. ~(j > n)
      <4>1. j > n => ps[n].to + Len(sep) < ps[j].from
        BY <1>2, PartedOrder
      <4>2. PICK L \in Nat : L = Len(sep)
        BY DEF IsSeparator
      <4>3. PICK z \in Nat : z = ps[j].from /\ z <= i
        BY <3>2, <3>3
      <4>4. i <= y /\ i \in Int
        BY <2>6, <2>7, <2>10
      <4>5. j > n => y + L < z
        BY <2>7, <4>1, <4>2, <4>3
      <4> QED
        BY <4>3, <4>4, <4>5
    <3>6. j = n
      BY <1>2, <3>4, <3>5
    <3> QED
      BY <2>7, <3>2, <3>6
  <2>11. Whole(t, size, overlap, e + 1, y, cut[ps[n]])
    <3>1. e + 1 \in Int /\ e + 1 <= x
      BY <2>8
    <3> QED
      BY <2>9, <2>10, <3>1, WholeWider
  <2>12. Whole(t, size, overlap, a, y, r.out)
    <3>1. a \in Int /\ a <= e + 1 /\ e <= y /\ Whole(t, size, overlap, a, e, m)
      BY <2>5, <2>6, <2>7, <2>8
    <3> QED
      BY <2>3, <2>11, <3>1, WholeJoin
  <2>13. y = Edge(ps, a, (n + 1) - 1)
    <3>1. (n + 1) - 1 = n /\ n # 0
      BY <1>2
    <3> QED
      BY <2>7, <3>1 DEF Edge
  <2>14. n + 1 \in 1..(n + 1) /\ \A k \in (n + 1)..n : FALSE
    BY <1>2
  <2>15. LongsAre(t, size, overlap, a, ps, n, r)
    BY <2>3, <2>12, <2>13, <2>14 DEF LongsAre
  <2> QED
    BY <1>5, <2>15
<1> QED
  BY <1>7, <1>8

\* What the loop over the pieces comes to.
CutRuns(f, ps, cut, glue, size, overlap) ==
  /\ f[0] = [first |-> 1, out |-> <<>>]
  /\ \A n \in 1..Len(ps) : f[n] = CutTurn(ps, cut, glue, size, overlap, n, f[n - 1])
  /\ CutLong(ps, cut, glue, size, overlap) =
       f[Len(ps)].out \o MergePieces(SubSeq(ps, f[Len(ps)].first, Len(ps)), glue, size, overlap)

LEMMA CutLoop ==
  ASSUME NEW ps, NEW cut, NEW glue, NEW size, NEW overlap, Len(ps) \in Nat
  PROVE  \E f : CutRuns(f, ps, cut, glue, size, overlap)
<1> DEFINE N == Len(ps)
           base == [first |-> 1, out |-> <<>>]
           Loop(g) == g = [n \in 0..N |-> IF n = 0 THEN [first |-> 1, out |-> <<>>]
                                          ELSE CutTurn(ps, cut, glue, size, overlap, n, g[n - 1])]
           Upto(g, k) == /\ g[0] = base
                         /\ \A n \in 1..k :
                              g[n] = CutTurn(ps, cut, glue, size, overlap, n, g[n - 1])
           P == {k \in 0..N : \E g : Upto(g, k)}
<1>1. N \in Nat
  OBVIOUS
<1> HIDE DEF N, base
<1>2. 0 \in P
  <2> DEFINE g == [n \in 0..0 |-> base]
  <2>1. g[0] = base /\ \A n \in 1..0 : FALSE
    OBVIOUS
  <2> HIDE DEF g
  <2>2. Upto(g, 0)
    BY <2>1
  <2>3. 0 \in 0..N /\ \E e : Upto(e, 0)
    BY <1>1, <2>2
  <2> QED
    BY <2>3
<1>3. ASSUME NEW k \in 1..N, k - 1 \in P PROVE k \in P
  <2>1. PICK g : Upto(g, k - 1)
    BY <1>3
  <2> DEFINE h == [n \in 0..k |-> IF n = k THEN CutTurn(ps, cut, glue, size, overlap, k, g[k - 1])
                                  ELSE g[n]]
  <2>2. /\ h[k] = CutTurn(ps, cut, glue, size, overlap, k, g[k - 1])
        /\ \A n \in 0..(k - 1) : h[n] = g[n]
    BY <1>1
  <2> HIDE DEF h
  <2>3. h[0] = base
    BY <1>1, <2>1, <2>2
  <2>4. ASSUME NEW n \in 1..k PROVE h[n] = CutTurn(ps, cut, glue, size, overlap, n, h[n - 1])
    <3>1. n - 1 \in 0..(k - 1) /\ (n = k \/ n \in 1..(k - 1))
      BY <1>1
    <3>2. CASE n = k
      BY <2>2, <3>1, <3>2
    <3>3. CASE n \in 1..(k - 1)
      <4>1. h[n - 1] = g[n - 1] /\ h[n] = g[n]
        BY <1>1, <2>2, <3>1, <3>3
      <4> QED
        BY <2>1, <3>3, <4>1
    <3> QED
      BY <3>1, <3>2, <3>3
  <2>5. Upto(h, k)
    BY <2>3, <2>4
  <2> QED
    BY <1>1, <2>5
<1> HIDE DEF P
<1>4. N \in P
  <2>1. \A k \in 1..N : k - 1 \in P => k \in P
    BY <1>3
  <2>2. \A k \in 0..N : k \in P
    BY <1>1, <1>2, <2>1, Inductive
  <2> QED
    BY <1>1, <2>2
<1>5. PICK g : Upto(g, N)
  BY <1>4 DEF P
<1> DEFINE h == [n \in 0..N |-> g[n]]
<1>6. Loop(h)
  <2>1. \A n \in 0..N : h[n] = g[n]
    OBVIOUS
  <2>2. ASSUME NEW n \in 0..N
        PROVE  h[n] = IF n = 0 THEN base ELSE CutTurn(ps, cut, glue, size, overlap, n, h[n - 1])
    <3>1. n # 0 => n \in 1..N /\ n - 1 \in 0..N
      BY <1>1
    <3> QED
      BY <1>5, <2>1, <3>1
  <2>3. h = [n \in 0..N |-> h[n]]
    OBVIOUS
  <2> HIDE DEF h
  <2> QED
    BY <2>2, <2>3 DEF base
<1> DEFINE f == CHOOSE e : Loop(e)
<1>7. Loop(f)
  BY <1>6
<1>8. CutLong(ps, cut, glue, size, overlap) =
        f[N].out \o MergePieces(SubSeq(ps, f[N].first, N), glue, size, overlap)
  BY DEF CutLong, N
<1> HIDE DEF f
<1>9. \A n \in 0..N :
        f[n] = IF n = 0 THEN base ELSE CutTurn(ps, cut, glue, size, overlap, n, f[n - 1])
  BY <1>7, Zenon DEF base
<1>10. 0 \in 0..N /\ \A n \in 1..N : n \in 0..N /\ n # 0
  BY <1>1
<1>11. f[0] = base /\ \A n \in 1..N : f[n] = CutTurn(ps, cut, glue, size, overlap, n, f[n - 1])
  BY <1>9, <1>10
<1>12. CutRuns(f, ps, cut, glue, size, overlap)
  BY <1>8, <1>11 DEF N, base, CutRuns
<1> QED
  BY <1>12

\* Pieces that are all put together or cut further are whole.
LEMMA CutLongWhole ==
  ASSUME NEW t \in Seq(Char), NEW sep, IsSeparator(sep), NEW a \in Nat, NEW b \in Nat, NEW ps,
         Parted(t, sep, a, b, ps), Doubles(t, sep, a, b), NEW size \in Nat, NEW overlap \in Nat,
         NEW cut, LongWhole(t, size, overlap, ps, cut), a <= b
  PROVE  Whole(t, size, overlap, a, b, CutLong(ps, cut, Len(sep), size, overlap))
<1>1. ps \in Seq(Pieces(t)) /\ Len(ps) \in Nat
  BY DEF Parted
<1>2. PICK N \in Nat : N = Len(ps)
  BY <1>1
<1>3. PICK L \in Nat : L = Len(sep)
  BY DEF IsSeparator
<1>4. PICK f : /\ f[0] = [first |-> 1, out |-> <<>>]
               /\ \A n \in 1..N : f[n] = CutTurn(ps, cut, L, size, overlap, n, f[n - 1])
               /\ CutLong(ps, cut, L, size, overlap) =
                    f[N].out \o MergePieces(SubSeq(ps, f[N].first, N), L, size, overlap)
  <2>1. PICK f : CutRuns(f, ps, cut, L, size, overlap)
    BY <1>1, CutLoop
  <2> QED
    BY <1>2, <2>1 DEF CutRuns
<1> DEFINE P == {n \in 0..N : LongsAre(t, size, overlap, a, ps, n, f[n])}
<1>5. 0 \in P
  <2>1. PICK s : s = f[0]
    OBVIOUS
  <2>2. s.first = 1 /\ s.out = <<>>
    BY <1>4, <2>1
  <2>3. Edge(ps, a, 1 - 1) = a - 1 /\ \A i \in a..(a - 1) : FALSE
    BY DEF Edge
  <2>4. Whole(t, size, overlap, a, Edge(ps, a, 1 - 1), <<>>)
    BY <2>3, WholeNothing
  <2>5. 1 \in 1..(0 + 1) /\ \A k \in 1..0 : FALSE
    OBVIOUS
  <2>6. LongsAre(t, size, overlap, a, ps, 0, s)
    BY <2>2, <2>4, <2>5 DEF LongsAre
  <2> QED
    BY <1>2, <2>1, <2>6
<1>6. ASSUME NEW n \in 1..N, n - 1 \in P PROVE n \in P
  <2>1. LongsAre(t, size, overlap, a, ps, n - 1, f[n - 1]) /\ n \in 0..N
    BY <1>6
  <2>2. f[n] = CutTurn(ps, cut, L, size, overlap, n, f[n - 1])
    BY <1>4
  <2>3. LongsAre(t, size, overlap, a, ps, n, f[n])
    BY <1>2, <1>3, <2>1, <2>2, CutTurnKeeps
  <2> QED
    BY <2>1, <2>3
<1> HIDE DEF P
<1>7. N \in P
  <2>1. \A n \in 1..N : n - 1 \in P => n \in P
    BY <1>6
  <2>2. \A n \in 0..N : n \in P
    BY <1>2, <1>5, <2>1, Inductive
  <2> QED
    BY <1>2, <2>2
<1>8. PICK s : s = f[N]
  OBVIOUS
<1>9. LongsAre(t, size, overlap, a, ps, N, s)
  BY <1>7, <1>8 DEF P
<1>10. PICK g \in 1..(N + 1) : /\ g = s.first /\ \A k \in g..N : Size(ps[k]) < size
                               /\ Whole(t, size, overlap, a, Edge(ps, a, g - 1), s.out)
  BY <1>9 DEF LongsAre
<1>11. N \in 0..Len(ps) /\ g \in 1..(Len(ps) + 1) /\ g <= N + 1
  BY <1>2, <1>10
<1>12. Whole(t, size, overlap, a, Edge(ps, a, N), CutLong(ps, cut, L, size, overlap))
  <2>1. Whole(t, size, overlap, a, Edge(ps, a, N),
              s.out \o MergePieces(SubSeq(ps, g, N), Len(sep), size, overlap))
    BY <1>10, <1>11, ShortWhole
  <2> QED
    BY <1>3, <1>4, <1>8, <1>10, <2>1
<1>13. PICK e \in Int : e = Edge(ps, a, N) /\ e <= b
  <2>1. PICK e \in Int : e = Edge(ps, a, N) /\ (N # 0 => e <= b)
    BY <1>2, <1>11, EdgeIs
  <2>2. N = 0 => e = a - 1
    BY <2>1 DEF Edge
  <2> QED
    BY <2>1, <2>2
<1>14. ASSUME NEW i \in a..b, t[i] = "x" PROVE i \in a..e
  <2>1. PICK j \in 1..N : i \in ps[j].from..ps[j].to
    BY <1>2, <1>14 DEF Parted
  <2>2. ps[j] \in Pieces(t)
    BY <1>1, <1>2
  <2>3. ps[j].to <= e /\ ps[j].to \in Int /\ ps[j].from \in Int
    <3>1. j <= N => ps[j].to <= Edge(ps, a, N)
      BY <1>2, <1>11, EdgeIs
    <3> QED
      BY <1>2, <1>13, <2>2, <3>1, PiecesAre
  <2> QED
    BY <2>1, <2>3
<1> QED
  BY <1>3, <1>12, <1>13, <1>14, WholeWider

-----------------------------------------------------------------------------
(* The separators, one after another                                       *)

\* None of the separators before the last n is in the piece.
Clean(t, n, p) == \A m \in 1..3 : m <= 4 - n => Found(t, Separators[m], p.from, p.to) = {}

\* Two separators side by side are doubled ones, but for newlines: pairs of them are
\* cut before.
LEMMA CleanDoubles ==
  ASSUME NEW t \in Seq(Char), NEW p \in Pieces(t), NEW n \in 1..4, Clean(t, n, p)
  PROVE  Doubles(t, Separators[5 - n], p.from, p.to)
<1>1. PICK a \in Nat, b \in Nat : a = p.from /\ b = p.to
  BY PiecesAre
<1>2. ASSUME NEW i \in Nat, NEW j \in Nat, a <= i, j <= b, Twice(t, Separators[5 - n], i, j)
      PROVE  Doubled(t, Piece(i, j))
  <2>1. Piece(i, j).from = i /\ Piece(i, j).to = j
    BY DEF Piece
  <2>2. CASE n = 4
    <3>1. 5 - n = 1
      BY <2>2
    <3>2. Twice(t, <<"newline", "newline">>, i, j)
      BY <1>2, <3>1, SeparatorsAre
    <3>3. PICK k \in i..j : /\ k + 3 <= j /\ OccursAt(t, <<"newline", "newline">>, k)
                            /\ OccursAt(t, <<"newline", "newline">>, k + 2)
      BY <3>2 DEF Twice
    <3>4. t[k + 1 - 1] = "newline" /\ t[k + 2 - 1] = "newline"
      BY <3>3 DEF OccursAt
    <3>5. t[k + 2 + 1 - 1] = "newline" /\ t[k + 2 + 2 - 1] = "newline"
      BY <3>3 DEF OccursAt
    <3>6. k \in Int /\ k \in i..(j - 3)
      BY <3>3
    <3>7. k + 1 - 1 = k /\ k + 2 - 1 = k + 1 /\ k + 2 + 1 - 1 = k + 2 /\ k + 2 + 2 - 1 = k + 3
      BY <3>6
    <3>8. \A l \in k..(k + 3) : l = k \/ l = k + 1 \/ l = k + 2 \/ l = k + 3
      BY <3>6
    <3>9. \A l \in k..(k + 3) : t[l] = "newline"
      BY <3>4, <3>5, <3>7, <3>8
    <3> QED
      BY <2>1, <3>6, <3>9 DEF Doubled
  <2>3. CASE n = 3
    <3>1. 5 - n = 2 /\ 1 \in 1..3 /\ 1 <= 4 - n
      BY <2>3
    <3>2. Twice(t, <<"newline">>, i, j)
      BY <1>2, <3>1, SeparatorsAre
    <3>3. PICK k \in i..j : /\ k + 1 <= j /\ OccursAt(t, <<"newline">>, k)
                            /\ OccursAt(t, <<"newline">>, k + 1)
      BY <3>2 DEF Twice
    <3>4. t[k + 1 - 1] = "newline" /\ t[k + 1 + 1 - 1] = "newline"
      BY <3>3 DEF OccursAt
    <3>5. k \in Int /\ k + 1 + 1 - 1 = k + 2 - 1
      BY <3>3
    <3>6. OccursAt(t, <<"newline", "newline">>, k)
      <4>1. \A l \in 1..2 : l = 1 \/ l = 2
        OBVIOUS
      <4> QED
        BY <3>4, <3>5, <4>1 DEF OccursAt
    <3>7. k \in a..(b + 1 - 2)
      BY <1>2, <3>3
    <3>8. Found(t, <<"newline", "newline">>, a, b) # {}
      BY <3>6, <3>7, FoundIs
    <3> QED
      BY <1>1, <3>1, <3>8, SeparatorsAre DEF Clean
  <2>4. CASE n = 2
    <3>1. 5 - n = 3
      BY <2>4
    <3>2. Twice(t, <<"blank">>, i, j)
      BY <1>2, <3>1, SeparatorsAre
    <3>3. PICK k \in i..j : /\ k + 1 <= j /\ OccursAt(t, <<"blank">>, k)
                            /\ OccursAt(t, <<"blank">>, k + 1)
      BY <3>2 DEF Twice
    <3>4. t[k + 1 - 1] = "blank" /\ t[k + 1 + 1 - 1] = "blank"
      BY <3>3 DEF OccursAt
    <3>5. k \in Int /\ k \in i..(j - 1)
      BY <3>3
    <3>6. k + 1 - 1 = k /\ k + 1 + 1 - 1 = k + 1
      BY <3>5
    <3>7. \A l \in k..(k + 1) : l = k \/ l = k + 1
      BY <3>5
    <3>8. \A l \in k..(k + 1) : t[l] = "blank"
      BY <3>4, <3>6, <3>7
    <3> QED
      BY <2>1, <3>5, <3>8 DEF Doubled
  <2>5. CASE n = 1
    <3>1. 5 - n = 4
      BY <2>5
    <3>2. Twice(t, <<>>, i, j)
      BY <1>2, <3>1, SeparatorsAre
    <3> QED
      BY <3>2 DEF Twice
  <2> QED
    BY <2>2, <2>3, <2>4, <2>5
<1> QED
  BY <1>1, <1>2 DEF Doubles

\* What the last n separators cut, from what the last n - 1 cut.
CutsOf(t, size, overlap, n, c) ==
  [p \in Pieces(t) |-> CutWith(t, Separators[5 - n], c, size, overlap, p)]

LEMMA CutsAre ==
  ASSUME NEW t, NEW size, NEW overlap
  PROVE  /\ Cuts(t, size, overlap)[0] = [p \in Pieces(t) |-> <<p>>]
         /\ \A n \in 1..4 : Cuts(t, size, overlap)[n] =
                              CutsOf(t, size, overlap, n, Cuts(t, size, overlap)[n - 1])
<1> DEFINE c0 == [p \in Pieces(t) |-> <<p>>]
           F(n, c) == CutsOf(t, size, overlap, n, c)
           Loop(e) == e = [n \in 0..Len(Separators) |->
                             IF n = 0 THEN c0
                             ELSE [p \in Pieces(t) |->
                                     CutWith(t, Separators[Len(Separators) - n + 1], e[n - 1],
                                             size, overlap, p)]]
           h == [n \in 0..4 |-> IF n = 0 THEN c0
                                ELSE IF n = 1 THEN F(1, c0)
                                ELSE IF n = 2 THEN F(2, F(1, c0))
                                ELSE IF n = 3 THEN F(3, F(2, F(1, c0)))
                                ELSE F(4, F(3, F(2, F(1, c0))))]
<1>1. Len(Separators) = 4
  BY SeparatorsAre
<1>2. \A n \in 0..4 : \A c : F(n, c) =
        [p \in Pieces(t) |->
           CutWith(t, Separators[Len(Separators) - n + 1], c, size, overlap, p)]
  <2>1. \A n \in 0..4 : 4 - n + 1 = 5 - n
    OBVIOUS
  <2> QED
    BY <1>1, <2>1 DEF CutsOf
<1>3. /\ h[0] = c0 /\ h[1] = F(1, h[0]) /\ h[2] = F(2, h[1])
      /\ h[3] = F(3, h[2]) /\ h[4] = F(4, h[3])
  <2> HIDE DEF F, c0
  <2> QED
    OBVIOUS
<1>4. h = [n \in 0..4 |-> h[n]]
  OBVIOUS
<1> HIDE DEF h, c0, F
<1>5. ASSUME NEW n \in 0..4 PROVE h[n] = IF n = 0 THEN c0 ELSE F(n, h[n - 1])
  <2>1. CASE n = 0
    BY <1>3, <2>1
  <2>2. CASE n = 1
    BY <1>3, <2>2
  <2>3. CASE n = 2
    BY <1>3, <2>3
  <2>4. CASE n = 3
    BY <1>3, <2>4
  <2>5. CASE n = 4
    BY <1>3, <2>5
  <2> QED
    BY <2>1, <2>2, <2>3, <2>4, <2>5
<1>6. Loop(h)
  BY <1>1, <1>2, <1>4, <1>5
<1> DEFINE f == CHOOSE e : Loop(e)
<1>7. Loop(f)
  BY <1>6
<1>8. Cuts(t, size, overlap) = f
  BY DEF Cuts, c0
<1> HIDE DEF f
<1>9. \A n \in 0..4 : f[n] = IF n = 0 THEN c0 ELSE F(n, f[n - 1])
  BY <1>1, <1>2, <1>7
<1>10. f[0] = c0 /\ \A n \in 1..4 : f[n] = F(n, f[n - 1])
  BY <1>9
<1> QED
  BY <1>8, <1>10 DEF c0, F

\* A piece as it is: what no separator is left for, of one character.
LEMMA SingleWhole ==
  ASSUME NEW t \in Seq(Char), NEW size \in Nat, size >= 1, NEW overlap,
         NEW p \in Pieces(t), Size(p) = 1
  PROVE  Whole(t, size, overlap, p.from, p.to, <<p>>)
<1>1. <<p>> \in Seq(Pieces(t)) /\ Len(<<p>>) = 1 /\ <<p>>[1] = p
  OBVIOUS
<1>2. \A k \in 1..1 : k = 1
  OBVIOUS
<1>3. \A k \in 2..1 : FALSE
  OBVIOUS
<1>4. PICK a \in Nat, b \in Nat : a = p.from /\ b = p.to /\ a <= b
  BY PiecesAre
<1>5. a <= p.from /\ p.to <= b /\ InSize(t, size, p)
  BY <1>4 DEF InSize
<1>6. \A i \in a..b : \E k \in 1..1 : i \in <<p>>[k].from..<<p>>[k].to
  BY <1>1, <1>4
<1>7. PICK s : s = <<p>>
  OBVIOUS
<1>8. Whole(t, size, overlap, a, b, s)
  BY <1>1, <1>2, <1>3, <1>5, <1>6, <1>7 DEF Whole
<1> QED
  BY <1>4, <1>7, <1>8

\* What the last n separators make of a piece that none of those before cut.
CutRight(t, size, overlap, n, c) ==
  \A p \in Pieces(t) :
    Clean(t, n, p) /\ (n # 0 \/ Size(p) = 1) => Whole(t, size, overlap, p.from, p.to, c[p])

LEMMA CutsKeep ==
  ASSUME NEW t \in Seq(Char), NEW size \in Nat, size >= 1, NEW overlap \in Nat, NEW n \in 1..4,
         NEW c, CutRight(t, size, overlap, n - 1, c)
  PROVE  CutRight(t, size, overlap, n, CutsOf(t, size, overlap, n, c))
<1> SUFFICES ASSUME NEW p \in Pieces(t), Clean(t, n, p)
             PROVE  Whole(t, size, overlap, p.from, p.to, CutsOf(t, size, overlap, n, c)[p])
  BY DEF CutRight
<1>1. PICK sep : sep = Separators[5 - n]
  OBVIOUS
<1>2. 5 - n \in 1..4 /\ (n # 1 => 5 - n # 4 /\ 5 - n \in 1..3)
  OBVIOUS
<1>3. IsSeparator(sep) /\ (n # 1 => Len(sep) >= 1 /\ sep # <<>>) /\ (n = 1 => sep = <<>>)
  <2>1. n = 1 => 5 - n = 4
    OBVIOUS
  <2> QED
    BY <1>1, <1>2, <2>1, SeparatorsCut, SeparatorsAre
<1>4. CutsOf(t, size, overlap, n, c)[p] = CutWith(t, sep, c, size, overlap, p)
  BY <1>1 DEF CutsOf
<1>5. PICK a \in Nat, b \in Nat : a = p.from /\ b = p.to /\ a <= b
  BY PiecesAre
<1>6. CASE sep # <<>> /\ Found(t, sep, a, b) = {}
  <2>1. CutWith(t, sep, c, size, overlap, p) = c[p]
    BY <1>5, <1>6 DEF CutWith
  <2>2. Clean(t, n - 1, p)
    <3>1. \A m \in 1..3 : m <= 4 - (n - 1) => m <= 4 - n \/ m = 5 - n
      OBVIOUS
    <3> QED
      BY <1>1, <1>5, <1>6, <3>1 DEF Clean
  <2>3. n - 1 # 0
    BY <1>3, <1>6
  <2>4. Whole(t, size, overlap, p.from, p.to, c[p])
    BY <2>2, <2>3 DEF CutRight
  <2> QED
    BY <1>4, <2>1, <2>4
<1>7. CASE ~(sep # <<>> /\ Found(t, sep, a, b) = {})
  <2>1. PICK ps : ps = SplitBySeparator(t, p, sep)
    OBVIOUS
  <2>2. CutWith(t, sep, c, size, overlap, p) = CutLong(ps, c, Len(sep), size, overlap)
    BY <1>5, <1>7, <2>1, Zenon DEF CutWith
  <2>3. /\ Parted(t, sep, a, b, ps)
        /\ n # 1 => NoneIn(t, sep, ps)
        /\ n = 1 => \A k \in 1..Len(ps) : Size(ps[k]) = 1
    <3>1. CASE n = 1
      BY <1>3, <1>5, <2>1, <3>1, SplitSingles
    <3>2. CASE n # 1
      BY <1>3, <1>5, <2>1, <3>2, SplitParts
    <3> QED
      BY <3>1, <3>2
  <2>4. Doubles(t, sep, a, b)
    BY <1>1, <1>5, CleanDoubles
  <2>5. ASSUME NEW k \in 1..Len(ps)
        PROVE  Whole(t, size, overlap, ps[k].from, ps[k].to, c[ps[k]])
    <3>1. PICK q \in Pieces(t) : q = ps[k]
      BY <2>3 DEF Parted
    <3>2. a <= q.from /\ q.to <= b
      BY <2>3, <3>1 DEF Parted
    <3>3. q.from \in Int /\ q.to \in Int
      BY PiecesAre
    <3>4. ASSUME NEW m \in 1..3, m <= 4 - (n - 1) PROVE Found(t, Separators[m], q.from, q.to) = {}
      <4>1. CASE m <= 4 - n
        <5>1. Found(t, Separators[m], a, b) = {}
          BY <1>5, <4>1 DEF Clean
        <5>2. IsSeparator(Separators[m])
          <6>1. m \in 1..4
            OBVIOUS
          <6> QED
            BY <6>1, SeparatorsCut
        <5> QED
          BY <3>2, <3>3, <5>1, <5>2, FoundLess
      <4>2. CASE m = 5 - n
        <5>1. n # 1
          BY <4>2
        <5> QED
          BY <1>1, <2>3, <3>1, <4>2, <5>1 DEF NoneIn
      <4> QED
        BY <3>4, <4>1, <4>2
    <3>5. Clean(t, n - 1, q)
      BY <3>4 DEF Clean
    <3>6. n - 1 # 0 \/ Size(q) = 1
      BY <2>3, <3>1
    <3> QED
      BY <3>1, <3>5, <3>6 DEF CutRight
  <2>6. LongWhole(t, size, overlap, ps, c)
    BY <2>5 DEF LongWhole
  <2>7. Whole(t, size, overlap, a, b, CutLong(ps, c, Len(sep), size, overlap))
    BY <1>3, <1>5, <2>3, <2>4, <2>6, CutLongWhole
  <2> QED
    BY <1>4, <1>5, <2>2, <2>7
<1> QED
  BY <1>6, <1>7

\* The splitter, for every text, size and overlap: no letter is lost, every piece goes
\* beyond the one before it, and size and overlap are kept to.
THEOREM SplitIsWhole ==
  ASSUME NEW t \in Seq(Char), t # <<>>, NEW size \in Nat, NEW overlap \in Nat, NEW extra \in Nat
  PROVE  /\ Budget(size, extra) \in Nat /\ Budget(size, extra) >= 1
         /\ Whole(t, Budget(size, extra), overlap, 1, Len(t), Split(t, size, overlap, extra))
<1>1. PICK bud \in Nat : bud = Budget(size, extra) /\ bud >= 1
  BY DEF Budget
<1>2. PICK c : c = Cuts(t, bud, overlap)
  OBVIOUS
<1>3. /\ c[0] = [p \in Pieces(t) |-> <<p>>]
      /\ \A n \in 1..4 : c[n] = CutsOf(t, bud, overlap, n, c[n - 1])
  BY <1>2, CutsAre
<1> DEFINE P == {n \in 0..4 : CutRight(t, bud, overlap, n, c[n])}
<1>4. 0 \in P
  <2>1. ASSUME NEW p \in Pieces(t), Size(p) = 1 PROVE Whole(t, bud, overlap, p.from, p.to, c[0][p])
    <3>1. c[0][p] = <<p>>
      BY <1>3
    <3> QED
      BY <1>1, <2>1, <3>1, SingleWhole
  <2> QED
    BY <2>1 DEF CutRight
<1>5. ASSUME NEW n \in 1..4, n - 1 \in P PROVE n \in P
  <2>1. CutRight(t, bud, overlap, n - 1, c[n - 1]) /\ n \in 0..4
    BY <1>5
  <2>2. CutRight(t, bud, overlap, n, CutsOf(t, bud, overlap, n, c[n - 1]))
    BY <1>1, <2>1, CutsKeep
  <2> QED
    BY <1>3, <2>1, <2>2
<1> HIDE DEF P
<1>6. 4 \in P
  <2>1. \A n \in 1..4 : n - 1 \in P => n \in P
    BY <1>5
  <2>2. \A n \in 0..4 : n \in P
    BY <1>4, <2>1, Inductive
  <2> QED
    BY <2>2
<1>7. PICK p : p = Piece(1, Len(t))
  OBVIOUS
<1>8. p \in Pieces(t) /\ p.from = 1 /\ p.to = Len(t)
  <2>1. Len(t) \in Nat /\ Len(t) >= 1
    OBVIOUS
  <2> QED
    BY <1>7, <2>1, APiece
<1>9. Clean(t, 4, p)
  BY DEF Clean
<1>10. Whole(t, bud, overlap, 1, Len(t), c[4][p])
  <2>1. CutRight(t, bud, overlap, 4, c[4])
    BY <1>6 DEF P
  <2> QED
    BY <1>8, <1>9, <2>1 DEF CutRight
<1>11. Split(t, size, overlap, extra) = c[4][p]
  <2>1. Len(Separators) = 4
    BY SeparatorsAre
  <2> QED
    BY <1>1, <1>2, <1>7, <2>1, Zenon DEF Split
<1> QED
  BY <1>1, <1>10, <1>11

-----------------------------------------------------------------------------
(* The body of a section                                                   *)

\* One block after another, with a blank line between them.
LEMMA BodiesAre ==
  ASSUME NEW blocks \in Seq(Seq(Char))
  PROVE  /\ Bodies(blocks)[0] = <<>>
         /\ \A n \in 0..Len(blocks) : Bodies(blocks)[n] \in Seq(Char)
         /\ \A n \in 1..Len(blocks) :
              Bodies(blocks)[n] = IF n = 1 THEN blocks[1]
                                  ELSE Bodies(blocks)[n - 1] \o Glue \o blocks[n]
<1> DEFINE N == Len(blocks)
           S == Seq(Char)
           Turn(n, x) == IF n = 1 THEN blocks[1] ELSE x \o Glue \o blocks[n]
           F == [n \in 1..N |-> [x \in S |-> Turn(n, x)]]
           Loop(h) == h = [n \in 0..N |-> IF n = 0 THEN <<>>
                             ELSE IF n = 1 THEN blocks[1] ELSE h[n - 1] \o Glue \o blocks[n]]
<1>1. N \in Nat /\ \A n \in 1..N : blocks[n] \in S
  OBVIOUS
<1>2. ASSUME NEW n \in 1..N, NEW x \in S PROVE Turn(n, x) \in S
  <2>1. Glue \in Seq(Char)
    BY DEF Glue, Char
  <2>2. x \o Glue \in Seq(Char)
    BY <2>1
  <2>3. blocks[n] \in Seq(Char)
    BY <1>1
  <2> QED
    BY <2>2, <2>3
<1>3. F \in [1..N -> [S -> S]]
  BY <1>2
<1>4. \A n \in 1..N : \A x \in S : F[n][x] = Turn(n, x)
  OBVIOUS
<1>5. <<>> \in S
  OBVIOUS
<1> HIDE DEF F, N, S
<1>6. PICK h : Computes(h, N, S, <<>>, F)
  BY <1>1, <1>3, <1>5, Computable
<1>7. /\ h \in [0..N -> S] /\ h[0] = <<>>
      /\ \A n \in 1..N : h[n] = Turn(n, h[n - 1])
  <2>1. \A n \in 1..N : n - 1 \in 0..N
    BY <1>1
  <2>2. h \in [0..N -> S] /\ h[0] = <<>> /\ \A n \in 1..N : h[n] = F[n][h[n - 1]]
    BY <1>6 DEF Computes
  <2> QED
    BY <1>4, <2>1, <2>2
<1>8. Loop(h)
  <2>1. h = [n \in 0..N |-> h[n]] /\ \A n \in 0..N : n # 0 => n \in 1..N
    BY <1>1, <1>7
  <2> QED
    BY <1>7, <2>1
<1> DEFINE f == CHOOSE e : Loop(e)
<1>9. Loop(f)
  BY <1>8
<1>10. Bodies(blocks) = f
  BY DEF Bodies, N
<1> HIDE DEF f
<1>11. \A n \in 0..N : f[n] = IF n = 0 THEN <<>> ELSE Turn(n, f[n - 1])
  BY <1>9, Zenon
<1>12. 0 \in 0..N /\ \A n \in 1..N : n \in 0..N /\ n # 0 /\ n - 1 \in 0..N
  BY <1>1
<1>13. f[0] = <<>> /\ \A n \in 1..N : f[n] = Turn(n, f[n - 1])
  BY <1>11, <1>12
<1> DEFINE P == {n \in 0..N : f[n] \in S}
<1>14. 0 \in P
  BY <1>5, <1>12, <1>13
<1>15. ASSUME NEW n \in 1..N, n - 1 \in P PROVE n \in P
  <2>1. f[n - 1] \in S
    BY <1>15
  <2>2. Turn(n, f[n - 1]) \in S
    BY <1>2, <2>1
  <2> QED
    BY <1>12, <1>13, <2>2
<1> HIDE DEF P
<1>16. \A n \in 0..N : n \in P
  <2>1. \A n \in 1..N : n - 1 \in P => n \in P
    BY <1>15
  <2> QED
    BY <1>1, <1>14, <2>1, Inductive
<1>17. \A n \in 0..N : f[n] \in Seq(Char)
  BY <1>16 DEF P, S
<1> QED
  BY <1>10, <1>13, <1>17 DEF N

LEMMA BodyIs ==
  ASSUME NEW blocks \in Seq(Seq(Char))
  PROVE  Body(blocks) \in Seq(Char) /\ (blocks = <<>> => Body(blocks) = <<>>)
<1>1. PICK N \in Nat : N = Len(blocks) /\ N \in 0..N /\ (blocks = <<>> => N = 0)
  OBVIOUS
<1>2. Body(blocks) = Bodies(blocks)[N]
  BY <1>1 DEF Body
<1> QED
  BY <1>1, <1>2, BodiesAre

\* Where the blocks begin and end.
LEMMA StartsAre ==
  ASSUME NEW blocks \in Seq(Seq(Char))
  PROVE  /\ Len(blocks) \in Nat /\ DOMAIN blocks = 1..Len(blocks)
         /\ \A k \in 1..Len(blocks) : Start(blocks, k) \in Int /\ Len(blocks[k]) \in Nat
         /\ Len(blocks) >= 1 => Start(blocks, 1) = 1
         /\ \A k \in 1..Len(blocks) : k + 1 <= Len(blocks) =>
              Start(blocks, k + 1) = Start(blocks, k) + Len(blocks[k]) + 2
         /\ Len(blocks) >= 1 =>
              Len(Body(blocks)) = Start(blocks, Len(blocks)) + Len(blocks[Len(blocks)]) - 1
<1>1. PICK N \in Nat : N = Len(blocks) /\ DOMAIN blocks = 1..N
  OBVIOUS
<1>2. PICK b : b = Bodies(blocks)
  OBVIOUS
<1>3. /\ \A n \in 0..N : b[n] \in Seq(Char)
      /\ \A n \in 1..N : b[n] = IF n = 1 THEN blocks[1] ELSE b[n - 1] \o Glue \o blocks[n]
  BY <1>1, <1>2, BodiesAre
<1>4. \A n \in 1..N : blocks[n] \in Seq(Char)
  BY <1>1
<1>5. \A n \in 0..N : Len(b[n]) \in Nat
  BY <1>3
<1>6. \A n \in 1..N : Len(blocks[n]) \in Nat
  BY <1>4
<1>8. \A k \in 1..N : k \in 0..N
  OBVIOUS
<1>7. \A k \in 1..N : \E x \in Nat, y \in Nat :
        x = Len(b[k]) /\ y = Len(blocks[k]) /\ Start(blocks, k) = x - y + 1
  BY <1>2, <1>5, <1>6, <1>8 DEF Start
<1>9. \A k \in 1..N : Start(blocks, k) \in Int
  <2>1. ASSUME NEW k \in 1..N PROVE Start(blocks, k) \in Int
    <3>1. PICK x \in Nat, y \in Nat : Start(blocks, k) = x - y + 1
      BY <1>7
    <3> QED
      BY <3>1
  <2> QED
    BY <2>1
<1>10. ASSUME N >= 1 PROVE Start(blocks, 1) = 1
  <2>1. 1 \in 1..N
    BY <1>10
  <2>2. b[1] = blocks[1]
    BY <1>3, <2>1
  <2>3. PICK x \in Nat, y \in Nat : x = Len(b[1]) /\ y = Len(blocks[1]) /\ Start(blocks, 1) = x - y + 1
    BY <1>7, <2>1
  <2>4. x = y
    BY <2>2, <2>3
  <2> QED
    BY <2>3, <2>4
<1>11. ASSUME NEW k \in 1..N, k + 1 <= N
       PROVE  Start(blocks, k + 1) = Start(blocks, k) + Len(blocks[k]) + 2
  <2>1. PICK m \in 1..N : m = k + 1 /\ m # 1 /\ m - 1 = k /\ k \in 0..N
    BY <1>11
  <2>2. b[m] = b[k] \o Glue \o blocks[m]
    BY <1>3, <2>1
  <2>3. b[k] \in Seq(Char) /\ blocks[m] \in Seq(Char) /\ Glue \in Seq(Char)
    BY <1>3, <1>4, <2>1 DEF Glue, Char
  <2>4. b[k] \o Glue \in Seq(Char) /\ Len(b[k] \o Glue) = Len(b[k]) + Len(Glue)
    BY <2>3
  <2>5. Len(b[m]) = Len(b[k] \o Glue) + Len(blocks[m])
    BY <2>2, <2>3, <2>4
  <2>6. Len(Glue) = 2
    BY DEF Glue
  <2>7. Len(b[m]) = Len(b[k]) + 2 + Len(blocks[m])
    BY <2>4, <2>5, <2>6
  <2>8. PICK x \in Nat, y \in Nat : x = Len(b[k]) /\ y = Len(blocks[k]) /\ Start(blocks, k) = x - y + 1
    BY <1>7
  <2>9. PICK u \in Nat, v \in Nat : u = Len(b[m]) /\ v = Len(blocks[m]) /\ Start(blocks, m) = u - v + 1
    BY <1>7, <2>1
  <2>10. u = x + 2 + v
    BY <2>7, <2>8, <2>9
  <2>11. u - v + 1 = (x - y + 1) + y + 2
    BY <2>10
  <2> QED
    BY <2>1, <2>8, <2>9, <2>11
<1>12. ASSUME N >= 1 PROVE Len(Body(blocks)) = Start(blocks, N) + Len(blocks[N]) - 1
  <2>1. N \in 1..N /\ N \in 0..N
    BY <1>12
  <2>2. Body(blocks) = b[N]
    BY <1>1, <1>2 DEF Body
  <2>3. PICK x \in Nat, y \in Nat : x = Len(b[N]) /\ y = Len(blocks[N]) /\ Start(blocks, N) = x - y + 1
    BY <1>7, <2>1
  <2>4. (x - y + 1) + y - 1 = x
    OBVIOUS
  <2> QED
    BY <2>2, <2>3, <2>4
<1> QED
  BY <1>1, <1>6, <1>9, <1>10, <1>11, <1>12

\* Every block begins behind those before it.
LEMMA StartsGrow ==
  ASSUME NEW blocks \in Seq(Seq(Char)), NEW k \in 1..Len(blocks), NEW l \in 1..Len(blocks), k < l
  PROVE  Start(blocks, k) + Len(blocks[k]) + 2 <= Start(blocks, l)
<1>1. PICK N \in Nat : N = Len(blocks)
  BY StartsAre
<1>2. \A n \in 1..N : Start(blocks, n) \in Int /\ Len(blocks[n]) \in Nat
  BY <1>1, StartsAre
<1> DEFINE P == {n \in 0..N : n > k => Start(blocks, k) + Len(blocks[k]) + 2 <= Start(blocks, n)}
<1>3. 0 \in P
  BY <1>1
<1>4. ASSUME NEW n \in 1..N, n - 1 \in P PROVE n \in P
  <2>1. CASE n <= k
    BY <1>1, <2>1
  <2>2. CASE n - 1 = k
    <3>1. n = k + 1 /\ k + 1 <= N
      BY <1>1, <2>2
    <3>2. Start(blocks, n) = Start(blocks, k) + Len(blocks[k]) + 2
      BY <1>1, <3>1, StartsAre
    <3> QED
      BY <1>1, <1>2, <3>2
  <2>3. CASE n - 1 > k
    <3>1. PICK m \in 1..N : m = n - 1 /\ m + 1 = n /\ m + 1 <= N
      BY <1>1, <2>3
    <3>2. Start(blocks, n) = Start(blocks, m) + Len(blocks[m]) + 2
      BY <1>1, <3>1, StartsAre
    <3>3. Start(blocks, k) + Len(blocks[k]) + 2 <= Start(blocks, m)
      BY <1>4, <2>3, <3>1
    <3>4. Start(blocks, k) + Len(blocks[k]) + 2 <= Start(blocks, n)
      <4>1. PICK x \in Int, y \in Nat, z \in Int, v \in Nat :
              /\ x = Start(blocks, k) /\ y = Len(blocks[k])
              /\ z = Start(blocks, m) /\ v = Len(blocks[m])
        BY <1>1, <1>2
      <4>2. Start(blocks, n) = z + v + 2 /\ x + y + 2 <= z
        BY <3>2, <3>3, <4>1
      <4>3. x + y + 2 <= z + v + 2
        BY <4>2
      <4> QED
        BY <4>1, <4>2, <4>3
    <3> QED
      BY <3>4
  <2> QED
    BY <1>1, <2>1, <2>2, <2>3
<1> HIDE DEF P
<1>5. \A n \in 0..N : n \in P
  <2>1. \A n \in 1..N : n - 1 \in P => n \in P
    BY <1>4
  <2> QED
    BY <1>3, <2>1, Inductive
<1>6. l \in P /\ l > k
  BY <1>1, <1>5
<1> QED
  BY <1>6 DEF P

LEMMA StartsRise ==
  ASSUME NEW blocks \in Seq(Seq(Char)), NEW k \in 1..Len(blocks), NEW l \in 1..Len(blocks), k <= l
  PROVE  Start(blocks, k) <= Start(blocks, l)
<1>1. Start(blocks, k) \in Int /\ Start(blocks, l) \in Int /\ Len(blocks[k]) \in Nat
  BY StartsAre
<1>2. CASE k = l
  BY <1>1, <1>2
<1>3. CASE k # l
  <2>1. k < l
    BY <1>3, StartsAre
  <2>2. Start(blocks, k) + Len(blocks[k]) + 2 <= Start(blocks, l)
    BY <2>1, StartsGrow
  <2> QED
    BY <1>1, <2>2
<1> QED
  BY <1>2, <1>3

\* The block a place of the body is in, or before.
IsBlockAt(blocks, i, k) ==
  /\ k \in 1..Len(blocks) /\ (Start(blocks, k) <= i \/ k = 1)
  /\ \A j \in (k + 1)..Len(blocks) : Start(blocks, j) > i

LEMMA BlockAtIs ==
  ASSUME NEW blocks \in Seq(Seq(Char)), Len(blocks) >= 1, NEW i \in Int
  PROVE  IsBlockAt(blocks, i, BlockAt(blocks, i))
<1>1. PICK N \in Nat : N = Len(blocks) /\ N >= 1 /\ DOMAIN blocks = 1..N
  BY StartsAre
<1>2. \A n \in 1..N : Start(blocks, n) \in Int
  BY <1>1, StartsAre
<1> DEFINE K == {k \in 1..N : \A j \in (k + 1)..N : Start(blocks, j) > i}
<1>3. K \subseteq Nat /\ N \in K
  BY <1>1
<1>4. PICK k \in K : \A m \in K : k <= m
  <2> HIDE DEF K
  <2> QED
    BY <1>3, Smallest
<1>5. k \in 1..N /\ \A j \in (k + 1)..N : Start(blocks, j) > i
  OBVIOUS
<1>6. ASSUME k # 1, ~(Start(blocks, k) <= i) PROVE FALSE
  <2>1. k - 1 \in 1..N /\ k \in 1..N /\ ~(k <= k - 1) /\ Start(blocks, k) > i
    BY <1>2, <1>5, <1>6
  <2>2. \A j \in ((k - 1) + 1)..N : j = k \/ j \in (k + 1)..N
    BY <2>1
  <2>3. k - 1 \in K
    BY <1>5, <2>1, <2>2
  <2> QED
    BY <1>4, <2>1, <2>3
<1>7. \E e \in 1..N : (Start(blocks, e) <= i \/ e = 1) /\ \A j \in (e + 1)..N : Start(blocks, j) > i
  BY <1>5, <1>6
<1>8. PICK b : b = BlockAt(blocks, i)
  OBVIOUS
<1>9. b \in 1..N /\ (Start(blocks, b) <= i \/ b = 1) /\ \A j \in (b + 1)..N : Start(blocks, j) > i
  BY <1>1, <1>7, <1>8, Zenon DEF BlockAt
<1> QED
  BY <1>1, <1>8, <1>9 DEF IsBlockAt

\* The raw text of a piece is of every block it has a character of, and of at
\* most the one it begins behind.
LEMMA RawIs ==
  ASSUME NEW blocks \in Seq(Seq(Char)), Len(blocks) >= 1, NEW p, p.from \in Nat, p.to \in Nat,
         1 <= p.from, p.from <= p.to
  PROVE  /\ Owners(blocks, p) \subseteq RawOf(blocks, p) /\ RawOf(blocks, p) \subseteq Nat
         /\ Cardinality(RawOf(blocks, p) \ Owners(blocks, p)) <= 1
<1>1. PICK N \in Nat : N = Len(blocks) /\ N >= 1 /\ DOMAIN blocks = 1..N
  BY StartsAre
<1>2. PICK a \in Nat, b \in Nat : a = p.from /\ b = p.to /\ 1 <= a /\ a <= b
  OBVIOUS
<1>3. PICK f : f = BlockAt(blocks, a)
  OBVIOUS
<1>4. PICK l : l = BlockAt(blocks, b)
  OBVIOUS
<1>5. f \in 1..N /\ (Start(blocks, f) <= a \/ f = 1) /\ \A j \in (f + 1)..N : Start(blocks, j) > a
  <2>1. IsBlockAt(blocks, a, f)
    BY <1>3, BlockAtIs
  <2> QED
    BY <1>1, <2>1 DEF IsBlockAt
<1>6. l \in 1..N /\ (Start(blocks, l) <= b \/ l = 1) /\ \A j \in (l + 1)..N : Start(blocks, j) > b
  <2>1. IsBlockAt(blocks, b, l)
    BY <1>4, BlockAtIs
  <2> QED
    BY <1>1, <2>1 DEF IsBlockAt
<1>7. PICK raw : raw = RawOf(blocks, p)
  OBVIOUS
<1>8. raw = f..l
  BY <1>2, <1>3, <1>4, <1>7 DEF RawOf
<1>9. \A n \in 1..N : Start(blocks, n) \in Int /\ Len(blocks[n]) \in Nat
  BY <1>1, StartsAre
<1>10. PICK own : own = Owners(blocks, p)
  OBVIOUS
<1>11. own = {k \in 1..N : Start(blocks, k) <= b /\ a < Start(blocks, k) + Len(blocks[k])}
  BY <1>1, <1>2, <1>10 DEF Owners
<1>12. ASSUME NEW k \in own PROVE k \in raw
  <2>1. k \in 1..N /\ Start(blocks, k) <= b /\ a < Start(blocks, k) + Len(blocks[k])
    BY <1>11
  <2>2. k <= l
    <3>1. ASSUME ~(k <= l) PROVE FALSE
      <4>1. k \in (l + 1)..N
        BY <1>6, <2>1, <3>1
      <4>2. Start(blocks, k) > b
        BY <1>6, <4>1
      <4> QED
        BY <1>9, <2>1, <4>2
    <3> QED
      BY <3>1
  <2>3. f <= k
    <3>1. ASSUME ~(f <= k) PROVE FALSE
      <4>1. k < f /\ f # 1
        BY <1>5, <2>1, <3>1
      <4>2. Start(blocks, k) + Len(blocks[k]) + 2 <= Start(blocks, f)
        BY <1>1, <1>5, <2>1, <4>1, StartsGrow
      <4>3. PICK x \in Int, y \in Int, z \in Int :
              x = Start(blocks, k) /\ y = Len(blocks[k]) /\ z = Start(blocks, f)
        BY <1>5, <1>9, <2>1
      <4>4. x + y + 2 <= z /\ z <= a /\ a < x + y
        BY <1>5, <2>1, <4>1, <4>2, <4>3
      <4> QED
        BY <4>3, <4>4
    <3> QED
      BY <3>1
  <2> QED
    BY <1>5, <1>6, <1>8, <2>1, <2>2, <2>3
<1>13. ASSUME NEW k \in raw \ own PROVE k = f
  <2>1. k \in f..l /\ k \in 1..N
    BY <1>5, <1>6, <1>8, <1>13
  <2>2. ASSUME k # f PROVE FALSE
    <3>1. k \in (f + 1)..N /\ l # 1 /\ k <= l
      BY <1>5, <1>6, <2>1, <2>2
    <3>2. Start(blocks, k) > a
      BY <1>5, <3>1
    <3>3. Start(blocks, k) <= Start(blocks, l)
      BY <1>1, <1>6, <2>1, <3>1, StartsRise
    <3>4. PICK x \in Int, y \in Nat, z \in Int :
            x = Start(blocks, k) /\ y = Len(blocks[k]) /\ z = Start(blocks, l)
      BY <1>6, <1>9, <2>1
    <3>5. x > a /\ x <= z /\ z <= b
      BY <1>6, <3>1, <3>2, <3>3, <3>4
    <3>6. x <= b /\ a < x + y
      BY <3>4, <3>5
    <3>7. k \in own
      BY <1>11, <2>1, <3>4, <3>6
    <3> QED
      BY <1>13, <3>7
  <2> QED
    BY <2>2
<1>14. Cardinality(raw \ own) <= 1
  <2>1. PICK D : D = raw \ own
    OBVIOUS
  <2>2. D = {} \/ D = {f}
    BY <1>13, <2>1
  <2>3. Cardinality({}) = 0 /\ Cardinality({f}) = 1
    BY FS_EmptySet, FS_Singleton
  <2>4. Cardinality(D) = 0 \/ Cardinality(D) = 1
    BY <2>2, <2>3
  <2>5. Cardinality(D) <= 1
    BY <2>4
  <2> QED
    BY <2>1, <2>5
<1>15. raw \subseteq Nat
  BY <1>5, <1>6, <1>8
<1> QED
  BY <1>7, <1>10, <1>12, <1>14, <1>15

-----------------------------------------------------------------------------
(* The chunks of a source, and those of a section                          *)

\* What rises through all numbers from lo on counts them.
Rises(e, N, M, lo) ==
  /\ \A k \in 1..N : e[k] \in Nat /\ lo <= e[k] /\ e[k] < lo + M
  /\ \A k, l \in 1..N : k < l => e[k] < e[l]
  /\ \A v \in Nat : lo <= v /\ v < lo + M => \E k \in 1..N : e[k] = v

LEMMA Counts ==
  ASSUME NEW N \in Nat, NEW M \in Nat, NEW lo \in Nat, NEW e, Rises(e, N, M, lo)
  PROVE  N = M /\ \A k \in 1..N : e[k] = lo + k - 1
<1> USE DEF Rises
<1> DEFINE P == {n \in 0..N : n = 0 \/ e[n] = lo + n - 1}
<1>1. 0 \in P
  OBVIOUS
<1>2. ASSUME NEW n \in 1..N, n - 1 \in P PROVE n \in P
  <2>1. PICK x \in Nat : x = e[n] /\ lo <= x /\ x < lo + M
    OBVIOUS
  <2>2. lo + n - 1 <= x
    <3>1. CASE n = 1
      BY <2>1, <3>1
    <3>2. CASE n # 1
      <4>1. n - 1 \in 1..N /\ n - 1 < n /\ n - 1 # 0
        BY <3>2
      <4>2. e[n - 1] = lo + (n - 1) - 1 /\ e[n - 1] < e[n]
        BY <1>2, <4>1
      <4> QED
        BY <2>1, <4>2
    <3> QED
      BY <3>1, <3>2
  <2>3. PICK v \in Nat : v = lo + n - 1 /\ lo <= v /\ v < lo + M
    BY <2>1, <2>2
  <2>4. PICK l \in 1..N : e[l] = v
    BY <2>3
  <2>5. ~(l < n)
    <3>1. ASSUME l < n PROVE FALSE
      <4>1. n - 1 \in 1..N /\ n - 1 # 0
        BY <3>1
      <4>2. e[n - 1] = v - 1
        BY <1>2, <2>3, <4>1
      <4>3. l = n - 1 \/ l < n - 1
        BY <3>1
      <4>4. e[l] <= v - 1
        BY <4>1, <4>2, <4>3
      <4> QED
        BY <2>3, <2>4, <4>4
    <3> QED
      BY <3>1
  <2>6. n < l => x < v
    BY <2>1, <2>4
  <2>7. l = n
    BY <2>2, <2>3, <2>5, <2>6
  <2> QED
    BY <2>3, <2>4, <2>7
<1>3. \A k \in 1..N : e[k] = lo + k - 1
  <2> HIDE DEF P
  <2>1. \A n \in 1..N : n - 1 \in P => n \in P
    BY <1>2
  <2>2. \A n \in 0..N : n \in P
    BY <1>1, <2>1, Inductive
  <2>3. \A n \in 1..N : n \in 0..N /\ n # 0
    OBVIOUS
  <2> QED
    BY <2>2, <2>3 DEF P
<1>4. N <= M
  <2>1. CASE N = 0
    BY <2>1
  <2>2. CASE N # 0
    <3>1. N \in 1..N /\ e[N] = lo + N - 1 /\ e[N] < lo + M
      BY <1>3, <2>2
    <3> QED
      BY <3>1
  <2> QED
    BY <2>1, <2>2
<1>5. M <= N
  <2>1. CASE M = 0
    BY <2>1
  <2>2. CASE M # 0
    <3>1. PICK v \in Nat : v = lo + M - 1 /\ lo <= v /\ v < lo + M
      BY <2>2
    <3>2. PICK k \in 1..N : e[k] = v
      BY <3>1
    <3>3. lo + k - 1 = v
      BY <1>3, <3>2
    <3> QED
      BY <3>1, <3>3
  <2> QED
    BY <2>1, <2>2
<1> QED
  BY <1>3, <1>4, <1>5

\* What a chunk is.
Spans == [from : Nat, to : Nat]
ChunkSet == [id : Sources \X Nat, plan : Nat, path : Seq(Nat), piece : Spans, raw : SUBSET Nat,
             size : Int]

LEMMA ChunkSeq ==
  ASSUME NEW ch \in Seq(ChunkSet)
  PROVE  /\ ch \in Seq(ToSet(ch)) /\ Len(ch) \in Nat /\ DOMAIN ch = 1..Len(ch)
         /\ \A k \in 1..Len(ch) : /\ ch[k].id[1] \in Sources /\ ch[k].id[2] \in Nat
                                  /\ ch[k].plan \in Nat /\ ch[k].piece \in Spans
<1> HIDE DEF ChunkSet
<1>1. Len(ch) \in Nat /\ DOMAIN ch = 1..Len(ch) /\ \A k \in 1..Len(ch) : ch[k] \in ChunkSet
  OBVIOUS
<1>2. \A c \in ChunkSet : /\ c.id[1] \in Sources /\ c.id[2] \in Nat
                          /\ c.plan \in Nat /\ c.piece \in Spans
  BY DEF ChunkSet
<1>3. \A k \in 1..Len(ch) : ch[k] \in ToSet(ch)
  BY <1>1, Zenon DEF ToSet
<1>4. ch \in Seq(ToSet(ch))
  BY <1>1, <1>3
<1> QED
  BY <1>1, <1>2, <1>4

\* The ids of every source are numbered in their order, none left out.
IdsAre(ch, next) ==
  \A s \in Sources :
    /\ \A k \in 1..Len(ch) : ch[k].id[1] = s => ch[k].id[2] < next[s]
    /\ \A k, l \in 1..Len(ch) :
         k < l /\ ch[k].id[1] = s /\ ch[l].id[1] = s => ch[k].id[2] < ch[l].id[2]
    /\ \A v \in Nat : v < next[s] => \E k \in 1..Len(ch) : ch[k].id[1] = s /\ ch[k].id[2] = v

LEMMA IdsCount ==
  ASSUME NEW ch \in Seq(ChunkSet), NEW next \in [Sources -> Nat], IdsAre(ch, next),
         NEW s \in Sources
  PROVE  \A k \in DOMAIN ChunksOf(ch, s) : ChunksOf(ch, s)[k].id[2] = k - 1
<1>1. PICK N \in Nat : /\ N = Len(ch) /\ DOMAIN ch = 1..N /\ ch \in Seq(ToSet(ch))
                       /\ \A k \in 1..N : ch[k].id[2] \in Nat
  BY ChunkSeq
<1>2. PICK places : places = {k \in 1..N : ch[k].id[1] = s}
  OBVIOUS
<1>3. PICK own : own = ChunksOf(ch, s)
  OBVIOUS
<1>4. own = Picked(ch, places)
  BY <1>1, <1>2, <1>3, Zenon DEF ChunksOf
<1>5. PICK e : Picks(e, N, ch, places, own)
  BY <1>1, <1>4, PickedIs
<1>6. /\ own \in Seq(ToSet(ch)) /\ e \in [1..Len(own) -> places \cap 1..N]
      /\ \A k \in 1..Len(own) : own[k] = ch[e[k]]
      /\ \A k, l \in 1..Len(own) : k < l => e[k] < e[l]
      /\ \A i \in places \cap 1..N : \E k \in 1..Len(own) : e[k] = i
  BY <1>5 DEF Picks
<1>7. PICK L \in Nat : L = Len(own) /\ DOMAIN own = 1..L
  BY <1>6
<1>8. \A k \in 1..L : e[k] \in 1..N /\ ch[e[k]].id[1] = s
  BY <1>2, <1>6, <1>7
<1> DEFINE v == [k \in 1..L |-> own[k].id[2]]
<1>9. \A k \in 1..L : v[k] = ch[e[k]].id[2]
  BY <1>6, <1>7
<1> HIDE DEF v
<1>10. PICK M \in Nat : M = next[s]
  OBVIOUS
<1>11. \A k \in 1..L : v[k] \in Nat /\ 0 <= v[k] /\ v[k] < 0 + M
  <2>1. ASSUME NEW k \in 1..L PROVE v[k] \in Nat /\ v[k] < M
    <3>1. e[k] \in 1..Len(ch) /\ ch[e[k]].id[1] = s
      BY <1>1, <1>8
    <3>2. ch[e[k]].id[2] < next[s]
      BY <3>1 DEF IdsAre
    <3> QED
      BY <1>1, <1>9, <1>10, <3>1, <3>2
  <2> QED
    BY <2>1
<1>12. \A k, l \in 1..L : k < l => v[k] < v[l]
  <2>1. ASSUME NEW k \in 1..L, NEW l \in 1..L, k < l PROVE v[k] < v[l]
    <3>1. e[k] < e[l] /\ e[k] \in 1..Len(ch) /\ e[l] \in 1..Len(ch)
      BY <1>1, <1>6, <1>7, <1>8, <2>1
    <3>2. ch[e[k]].id[1] = s /\ ch[e[l]].id[1] = s
      BY <1>8
    <3>3. ch[e[k]].id[2] < ch[e[l]].id[2]
      BY <3>1, <3>2 DEF IdsAre
    <3> QED
      BY <1>9, <3>3
  <2> QED
    BY <2>1
<1>13. \A n \in Nat : 0 <= n /\ n < 0 + M => \E k \in 1..L : v[k] = n
  <2>1. ASSUME NEW n \in Nat, n < M PROVE \E k \in 1..L : v[k] = n
    <3>1. PICK i \in 1..N : ch[i].id[1] = s /\ ch[i].id[2] = n
      BY <1>1, <1>10, <2>1 DEF IdsAre
    <3>2. PICK k \in 1..L : e[k] = i
      BY <1>2, <1>6, <1>7, <3>1
    <3> QED
      BY <1>9, <3>1, <3>2
  <2> QED
    BY <2>1
<1>14. \A k \in 1..L : v[k] = 0 + k - 1
  <2>1. Rises(v, L, M, 0)
    BY <1>11, <1>12, <1>13 DEF Rises
  <2> QED
    BY <2>1, Counts
<1>15. \A k \in 1..L : own[k].id[2] = k - 1
  BY <1>14 DEF v
<1> QED
  BY <1>3, <1>7, <1>15

\* The chunks of a section stand one after another, and are its pieces.
StandAt(ch, n, lo, s) ==
  /\ lo \in Nat /\ lo + Len(s) <= Len(ch)
  /\ \A k \in 1..Len(ch) : ch[k].plan = n <=> lo < k /\ k <= lo + Len(s)
  /\ \A i \in 1..Len(s) : ch[lo + i].piece = s[i]

LEMMA PiecesStand ==
  ASSUME NEW ch \in Seq(ChunkSet), NEW n, NEW lo, NEW s \in Seq(Spans), StandAt(ch, n, lo, s)
  PROVE  [i \in DOMAIN ChunksAt(ch, n) |-> ChunksAt(ch, n)[i].piece] = s
<1>1. PICK N \in Nat : N = Len(ch) /\ DOMAIN ch = 1..N /\ ch \in Seq(ToSet(ch))
  BY ChunkSeq
<1>2. PICK M \in Nat : M = Len(s) /\ lo \in Nat /\ lo + M <= N
  BY <1>1 DEF StandAt
<1>3. PICK places : places = {k \in 1..N : ch[k].plan = n}
  OBVIOUS
<1>4. PICK own : own = ChunksAt(ch, n)
  OBVIOUS
<1>5. own = Picked(ch, places)
  BY <1>1, <1>3, <1>4, Zenon DEF ChunksAt
<1>6. PICK e : Picks(e, N, ch, places, own)
  BY <1>1, <1>5, PickedIs
<1>7. /\ own \in Seq(ToSet(ch)) /\ e \in [1..Len(own) -> places \cap 1..N]
      /\ \A k \in 1..Len(own) : own[k] = ch[e[k]]
      /\ \A k, l \in 1..Len(own) : k < l => e[k] < e[l]
      /\ \A i \in places \cap 1..N : \E k \in 1..Len(own) : e[k] = i
  BY <1>6 DEF Picks
<1>8. PICK L \in Nat : L = Len(own) /\ DOMAIN own = 1..L
  BY <1>7
<1>9. \A k \in 1..N : k \in places <=> lo < k /\ k <= lo + M
  BY <1>1, <1>2, <1>3 DEF StandAt
<1>10. PICK f \in Nat : f = lo + 1
  BY <1>2
<1>11. \A k \in 1..L : e[k] \in Nat /\ f <= e[k] /\ e[k] < f + M
  <2>1. ASSUME NEW k \in 1..L PROVE e[k] \in Nat /\ f <= e[k] /\ e[k] < f + M
    <3>1. e[k] \in 1..N /\ e[k] \in places
      BY <1>7, <1>8
    <3>2. PICK x \in 1..N : x = e[k] /\ lo < x /\ x <= lo + M
      BY <1>9, <3>1
    <3> QED
      BY <1>2, <1>10, <3>2
  <2> QED
    BY <2>1
<1>12. \A v \in Nat : f <= v /\ v < f + M => \E k \in 1..L : e[k] = v
  <2>1. ASSUME NEW v \in Nat, f <= v, v < f + M PROVE \E k \in 1..L : e[k] = v
    <3>1. v \in 1..N /\ lo < v /\ v <= lo + M
      BY <1>2, <1>10, <2>1
    <3>2. v \in places \cap 1..N
      BY <1>9, <3>1
    <3> QED
      BY <1>7, <1>8, <3>2
  <2> QED
    BY <2>1
<1>13. \A k, l \in 1..L : k < l => e[k] < e[l]
  BY <1>7, <1>8
<1>14. L = M /\ \A k \in 1..L : e[k] = f + k - 1
  <2>1. Rises(e, L, M, f)
    BY <1>11, <1>12, <1>13 DEF Rises
  <2> QED
    BY <2>1, Counts
<1>15. ASSUME NEW i \in 1..L PROVE own[i].piece = s[i]
  <2>1. e[i] = lo + i
    BY <1>2, <1>10, <1>14
  <2>2. own[i] = ch[lo + i]
    BY <1>7, <1>8, <2>1
  <2>3. i \in 1..Len(s)
    BY <1>2, <1>14
  <2> QED
    BY <2>2, <2>3 DEF StandAt
<1>16. s = [i \in 1..L |-> s[i]]
  BY <1>2, <1>14
<1>17. [i \in 1..L |-> own[i].piece] = s
  BY <1>15, <1>16
<1> QED
  BY <1>4, <1>8, <1>17

-----------------------------------------------------------------------------
(* The headings a section stands under                                     *)

\* What the chunker is given.
LEMMA PlansAre ==
  ASSUME NEW ps \in Seq(PlanSet)
  PROVE  /\ Len(ps) \in Nat /\ DOMAIN ps = 1..Len(ps)
         /\ \A i \in 1..Len(ps) : /\ ps[i] \in PlanSet /\ ps[i].source \in Sources
                                  /\ ps[i].level \in Nat /\ ps[i].blocks \in Seq(Seq(Char))
                                  /\ ps[i].extra \in Nat
<1> HIDE DEF PlanSet
<1>1. Len(ps) \in Nat /\ DOMAIN ps = 1..Len(ps) /\ \A i \in 1..Len(ps) : ps[i] \in PlanSet
  OBVIOUS
<1>2. \A p \in PlanSet : /\ p.source \in Sources /\ p.level \in Nat
                         /\ p.blocks \in Seq(Seq(Char)) /\ p.extra \in Nat
  BY DEF PlanSet
<1> QED
  BY <1>1, <1>2

LEMMA PlansMore ==
  ASSUME NEW ps \in Seq(PlanSet), NEW p \in PlanSet, NEW qs, qs = Append(ps, p)
  PROVE  /\ qs \in Seq(PlanSet) /\ Len(qs) = Len(ps) + 1 /\ qs[Len(ps) + 1] = p
         /\ \A i \in 1..Len(ps) : qs[i] = ps[i]
<1> HIDE DEF PlanSet
<1> QED
  OBVIOUS

\* The sections of a run, as the nodes of a page: none before the run is a heading.
HeadsFrom(ps, f) ==
  [i \in 1..Len(ps) |-> [level |-> IF i < f THEN 0 ELSE ps[i].level, word |-> TRUE]]

LEMMA HeadsFromIs ==
  ASSUME NEW ps \in Seq(PlanSet), NEW f \in Nat
  PROVE  /\ HeadsFrom(ps, f) \in Pages /\ Len(HeadsFrom(ps, f)) = Len(ps)
         /\ \A i \in 1..Len(ps) :
              LevelOf(HeadsFrom(ps, f))[i] = IF i < f THEN 0 ELSE ps[i].level
<1>1. PICK N \in Nat : N = Len(ps) /\ \A i \in 1..N : ps[i].level \in Nat
  BY PlansAre
<1>2. PICK h : h = HeadsFrom(ps, f)
  OBVIOUS
<1>3. h = [i \in 1..N |-> [level |-> IF i < f THEN 0 ELSE ps[i].level, word |-> TRUE]]
  BY <1>1, <1>2 DEF HeadsFrom
<1>4. \A i \in 1..N : h[i].level = (IF i < f THEN 0 ELSE ps[i].level) /\ h[i].word
  BY <1>3
<1>5. h \in [1..N -> [level : Nat, word : BOOLEAN]]
  BY <1>1, <1>3
<1>6. h \in Seq([level : Nat, word : BOOLEAN]) /\ Len(h) = N /\ DOMAIN h = 1..N
  <2>1. PICK C : C = [level : Nat, word : BOOLEAN]
    OBVIOUS
  <2>2. h \in [1..N -> C]
    BY <1>5, <2>1
  <2>3. h \in Seq(C) /\ Len(h) = N /\ DOMAIN h = 1..N
    BY <2>2
  <2> QED
    BY <2>1, <2>3
<1>7. \A i \in 1..N : LevelOf(h)[i] = h[i].level
  BY <1>4, <1>6 DEF LevelOf
<1> QED
  BY <1>1, <1>2, <1>4, <1>6, <1>7 DEF Pages

\* What is above a section is what it stands under in its run.
LEMMA AboveFrom ==
  ASSUME NEW ps \in Seq(PlanSet), NEW n \in 1..Len(ps), NEW f \in 1..n
  PROVE  Above(HeadsFrom(ps, f), FALSE, n) = Under([i \in DOMAIN ps |-> ps[i].level], f, n)
<1>1. PICK N \in Nat : N = Len(ps) /\ DOMAIN ps = 1..N /\ \A i \in 1..N : ps[i].level \in Nat
  BY PlansAre
<1>2. PICK L : L = LevelOf(HeadsFrom(ps, f))
  OBVIOUS
<1>3. PICK K : K = [i \in DOMAIN ps |-> ps[i].level]
  OBVIOUS
<1>4. f \in Nat /\ f \in 1..N /\ n \in 1..N
  BY <1>1
<1>5. \A i \in 1..N : K[i] \in Nat /\ L[i] = IF i < f THEN 0 ELSE K[i]
  BY <1>1, <1>2, <1>3, <1>4, HeadsFromIs
<1>6. \A h : h \in Under(L, 1, n) <=>
        h \in 1..n /\ L[h] > 0 /\ \A g \in (h + 1)..n : L[g] = 0 \/ L[g] > L[h]
  BY DEF Under
<1>7. \A h : h \in Under(K, f, n) <=>
        h \in f..n /\ K[h] > 0 /\ \A g \in (h + 1)..n : K[g] = 0 \/ K[g] > K[h]
  BY DEF Under
<1>8. ASSUME NEW h PROVE h \in Under(L, 1, n) <=> h \in Under(K, f, n)
  <2>1. h \in 1..n /\ L[h] > 0 <=> h \in f..n /\ K[h] > 0
    <3>1. h \in 1..n => h \in 1..N
      BY <1>4
    <3>2. h \in f..n <=> h \in 1..n /\ ~(h < f)
      BY <1>4
    <3> QED
      BY <1>5, <3>1, <3>2
  <2>2. ASSUME h \in f..n
        PROVE  (\A g \in (h + 1)..n : L[g] = 0 \/ L[g] > L[h]) <=>
               (\A g \in (h + 1)..n : K[g] = 0 \/ K[g] > K[h])
    <3>1. h \in 1..N /\ ~(h < f)
      BY <1>4, <2>2
    <3>2. \A g \in (h + 1)..n : g \in 1..N /\ ~(g < f)
      BY <1>4, <2>2
    <3>3. L[h] = K[h] /\ \A g \in (h + 1)..n : L[g] = K[g]
      BY <1>5, <3>1, <3>2
    <3> QED
      BY <3>3
  <2> QED
    BY <1>6, <1>7, <2>1, <2>2
<1>9. Above(HeadsFrom(ps, f), FALSE, n) = Under(L, 1, n)
  BY <1>2 DEF Above, RootOf
<1> QED
  BY <1>3, <1>8, <1>9

\* Where the run of a section begins.
RunFrom(ps, n) == {m \in 1..n : \A i \in m..n : ps[i].source = ps[n].source}

LEMMA FirstIs ==
  ASSUME NEW ps \in Seq(PlanSet), NEW n \in 1..Len(ps)
  PROVE  /\ FirstOf(ps, n) \in RunFrom(ps, n) /\ FirstOf(ps, n) \in 1..n
         /\ \A m \in RunFrom(ps, n) : FirstOf(ps, n) <= m
<1>1. RunFrom(ps, n) \subseteq 1..n /\ n \in RunFrom(ps, n)
  BY DEF RunFrom
<1>2. RunFrom(ps, n) \subseteq Nat
  BY <1>1
<1>3. \E i \in RunFrom(ps, n) : \A j \in RunFrom(ps, n) : i <= j
  BY <1>1, <1>2, Smallest
<1>4. FirstOf(ps, n) = CHOOSE x \in RunFrom(ps, n) : \A y \in RunFrom(ps, n) : x <= y
  BY Zenon DEF FirstOf, RunFrom, Min
<1> QED
  BY <1>1, <1>3, <1>4

LEMMA FirstSame ==
  ASSUME NEW ps \in Seq(PlanSet), NEW qs \in Seq(PlanSet), NEW n \in 1..Len(ps),
         n \in 1..Len(qs), \A i \in 1..n : ps[i] = qs[i]
  PROVE  FirstOf(ps, n) = FirstOf(qs, n)
<1>1. n \in 1..n
  BY PlansAre
<1>2. \A m \in 1..n : \A i \in m..n : i \in 1..n
  OBVIOUS
<1>3. RunFrom(ps, n) = RunFrom(qs, n)
  BY <1>1, <1>2 DEF RunFrom
<1> QED
  BY <1>3, Zenon DEF FirstOf, RunFrom

\* A run goes on as long as the source stays; another one begins where it is.
LEMMA FirstGoesOn ==
  ASSUME NEW ps \in Seq(PlanSet), NEW n \in 2..Len(ps), ps[n - 1].source = ps[n].source
  PROVE  FirstOf(ps, n) = FirstOf(ps, n - 1)
<1>1. PICK k \in Nat : k = n - 1 /\ k \in 1..Len(ps) /\ n \in 1..Len(ps) /\ n = k + 1
  BY PlansAre
<1>2. ps[k].source = ps[n].source
  BY <1>1
<1>3. PICK f : f = FirstOf(ps, n)
  OBVIOUS
<1>4. PICK g : g = FirstOf(ps, k)
  OBVIOUS
<1>5. f \in RunFrom(ps, n) /\ f \in 1..n /\ \A m \in RunFrom(ps, n) : f <= m
  BY <1>1, <1>3, FirstIs
<1>6. g \in RunFrom(ps, k) /\ g \in 1..k /\ \A m \in RunFrom(ps, k) : g <= m
  BY <1>1, <1>4, FirstIs
<1>7. g \in RunFrom(ps, n)
  <2>1. g \in 1..n /\ \A i \in g..n : i \in g..k \/ i = n
    BY <1>1, <1>6
  <2>2. \A i \in g..k : ps[i].source = ps[k].source
    BY <1>6 DEF RunFrom
  <2> QED
    BY <1>2, <2>1, <2>2 DEF RunFrom
<1>8. f <= g
  BY <1>5, <1>7
<1>9. f \in RunFrom(ps, k)
  <2>1. f \in 1..k /\ \A i \in f..k : i \in f..n
    BY <1>1, <1>5, <1>6, <1>8
  <2>2. \A i \in f..n : ps[i].source = ps[n].source
    BY <1>5 DEF RunFrom
  <2> QED
    BY <1>2, <2>1, <2>2 DEF RunFrom
<1>10. g <= f
  BY <1>6, <1>9
<1> QED
  BY <1>1, <1>3, <1>4, <1>5, <1>6, <1>8, <1>10

LEMMA FirstBegins ==
  ASSUME NEW ps \in Seq(PlanSet), NEW n \in 1..Len(ps), n = 1 \/ ps[n - 1].source # ps[n].source
  PROVE  FirstOf(ps, n) = n
<1>1. PICK f : f = FirstOf(ps, n)
  OBVIOUS
<1>2. f \in RunFrom(ps, n) /\ f \in 1..n /\ n \in Nat
  BY <1>1, FirstIs, PlansAre
<1>3. ASSUME f # n PROVE FALSE
  <2>1. n - 1 \in f..n /\ n # 1
    BY <1>2, <1>3
  <2>2. ps[n - 1].source = ps[n].source
    BY <1>2, <2>1 DEF RunFrom
  <2> QED
    BY <2>1, <2>2
<1> QED
  BY <1>1, <1>3

\* Sections that come later change nothing above.
LEMMA StackStays ==
  ASSUME NEW ps \in Seq(PlanSet), NEW qs \in Seq(PlanSet), NEW n \in 0..Len(ps),
         n <= Len(qs), \A i \in 1..n : ps[i] = qs[i], NEW f \in Nat, NEW st,
         StackIs(st, HeadsFrom(ps, f), FALSE, n)
  PROVE  StackIs(st, HeadsFrom(qs, f), FALSE, n)
<1>1. PICK N \in Nat, M \in Nat : N = Len(ps) /\ M = Len(qs)
  BY PlansAre
<1>2. PICK L : L = LevelOf(HeadsFrom(ps, f))
  OBVIOUS
<1>3. PICK K : K = LevelOf(HeadsFrom(qs, f))
  OBVIOUS
<1>4. n \in Nat /\ \A i \in 1..n : i \in 1..N /\ i \in 1..M
  BY <1>1
<1>5. \A i \in 1..n : L[i] = K[i]
  BY <1>1, <1>2, <1>3, <1>4, HeadsFromIs
<1>6. Under(L, 1, n) = Under(K, 1, n)
  <2>1. \A h \in 1..n : \A g \in (h + 1)..n : g \in 1..n
    BY <1>4
  <2> QED
    BY <1>5, <2>1 DEF Under
<1>7. Above(HeadsFrom(ps, f), FALSE, n) = Above(HeadsFrom(qs, f), FALSE, n)
  BY <1>2, <1>3, <1>6 DEF Above
<1>8. \A a \in Above(HeadsFrom(ps, f), FALSE, n) : a \in 1..n
  BY DEF Above, RootOf, Under
<1>9. \A a \in Above(HeadsFrom(ps, f), FALSE, n) :
        LevelAt(HeadsFrom(ps, f), a) = LevelAt(HeadsFrom(qs, f), a)
  BY <1>2, <1>3, <1>5, <1>8 DEF LevelAt
<1> QED
  BY <1>7, <1>9 DEF StackIs

LEMMA NoStack ==
  ASSUME NEW ps \in Seq(PlanSet), NEW n \in 1..Len(ps)
  PROVE  StackIs(<<>>, HeadsFrom(ps, n), FALSE, n - 1)
<1>1. PICK k \in Nat : k = n - 1 /\ n = k + 1 /\ n \in Nat /\ \A i \in 1..k : i \in 1..Len(ps) /\ i < n
  BY PlansAre
<1>2. \A i \in 1..k : LevelOf(HeadsFrom(ps, n))[i] = 0
  BY <1>1, HeadsFromIs
<1>3. Above(HeadsFrom(ps, n), FALSE, k) = {}
  BY <1>2 DEF Above, RootOf, Under
<1>4. <<>> \in Crumbs /\ 1..Len(<<>>) = {}
  BY DEF Crumbs
<1>5. StackIs(<<>>, HeadsFrom(ps, n), FALSE, k)
  BY <1>3, <1>4 DEF StackIs, Climbs
<1> QED
  BY <1>1, <1>5

\* The stack of the chunker: what the last section stands under, in its run.
StackNow(ps, source, st) ==
  IF ps = <<>> THEN st = <<>>
  ELSE /\ source = ps[Len(ps)].source
       /\ StackIs(st, HeadsFrom(ps, FirstOf(ps, Len(ps))), FALSE, Len(ps))

StackOver(source, st, p) == IF source = p.source THEN st ELSE <<>>
StackFor(over, p, n) == IF p.level = 0 THEN over ELSE Push(over, p.level, n)

LEMMA StackTakes ==
  ASSUME NEW ps \in Seq(PlanSet), NEW p \in PlanSet, NEW qs, qs = Append(ps, p),
         NEW source, NEW st, StackNow(ps, source, st), NEW n, n = Len(qs)
  PROVE  LET stack == StackFor(StackOver(source, st, p), p, n)
         IN  /\ FirstOf(qs, n) \in 1..n
             /\ StackIs(stack, HeadsFrom(qs, FirstOf(qs, n)), FALSE, n)
<1>1. PICK m \in Nat : m = Len(ps) /\ n = m + 1 /\ (ps = <<>> <=> m = 0)
  BY PlansAre, PlansMore
<1>2. /\ qs \in Seq(PlanSet) /\ Len(qs) = n /\ qs[n] = p /\ \A i \in 1..m : qs[i] = ps[i]
      /\ n \in 1..Len(qs) /\ n \in Nat /\ n - 1 = m
  BY <1>1, PlansMore
<1>3. PICK f : f = FirstOf(qs, n)
  OBVIOUS
<1>4. f \in 1..n
  BY <1>2, <1>3, FirstIs
<1>5. PICK pg : pg = HeadsFrom(qs, f)
  OBVIOUS
<1>6. /\ pg \in Pages /\ Len(pg) = n
      /\ \A i \in 1..n : LevelOf(pg)[i] = IF i < f THEN 0 ELSE qs[i].level
  <2>1. f \in Nat
    BY <1>2, <1>4
  <2> QED
    BY <1>2, <1>5, <2>1, HeadsFromIs
<1>7. PICK over : over = StackOver(source, st, p)
  OBVIOUS
<1>8. StackIs(over, pg, FALSE, m)
  <2>1. CASE ps = <<>> \/ source # p.source
    <3>1. over = <<>>
      BY <1>7, <2>1 DEF StackOver, StackNow
    <3>2. n = 1 \/ qs[n - 1].source # qs[n].source
      <4>1. CASE ps = <<>>
        BY <1>1, <4>1
      <4>2. CASE ps # <<>>
        <5>1. source = ps[m].source /\ m \in 1..m
          BY <1>1, <4>2 DEF StackNow
        <5> QED
          BY <1>2, <2>1, <4>2, <5>1
      <4> QED
        BY <4>1, <4>2
    <3>3. f = n
      BY <1>2, <1>3, <3>2, FirstBegins
    <3>4. StackIs(<<>>, HeadsFrom(qs, n), FALSE, n - 1)
      BY <1>2, NoStack
    <3> QED
      BY <1>2, <1>5, <3>1, <3>3, <3>4
  <2>2. CASE ps # <<>> /\ source = p.source
    <3>1. over = st
      BY <1>7, <2>2 DEF StackOver
    <3>2. source = ps[m].source /\ StackIs(st, HeadsFrom(ps, FirstOf(ps, m)), FALSE, m)
      BY <1>1, <2>2 DEF StackNow
    <3>3. m \in 1..m /\ m \in 1..Len(ps) /\ m \in 0..Len(ps) /\ n \in 2..Len(qs)
      BY <1>1, <1>2, <2>2
    <3>4. qs[n - 1].source = qs[n].source
      BY <1>2, <2>2, <3>2, <3>3
    <3>5. f = FirstOf(qs, m)
      BY <1>2, <1>3, <3>3, <3>4, FirstGoesOn
    <3>6. m \in 1..Len(qs) /\ m <= Len(qs) /\ \A i \in 1..m : ps[i] = qs[i]
      BY <1>1, <1>2, <3>3
    <3>7. FirstOf(ps, m) = FirstOf(qs, m)
      BY <1>2, <3>3, <3>6, FirstSame
    <3>8. f \in Nat
      BY <1>2, <1>4
    <3>9. StackIs(st, HeadsFrom(qs, f), FALSE, m)
      BY <1>2, <3>2, <3>3, <3>5, <3>6, <3>7, <3>8, StackStays
    <3> QED
      BY <1>5, <3>1, <3>9
  <2> QED
    BY <2>1, <2>2
<1>9. StackIs(StackFor(over, p, n), pg, FALSE, n)
  <2>1. LevelOf(pg)[n] = p.level /\ p.level \in Nat /\ n \in DOMAIN pg /\ m \in 0..Len(pg)
    <3>1. n \in 1..n /\ ~(n < f) /\ m \in 0..n
      BY <1>1, <1>2, <1>4
    <3>2. p.level \in Nat
      BY <1>2, PlansAre
    <3> QED
      BY <1>2, <1>6, <3>1, <3>2, PageNodes
  <2>2. CASE p.level = 0
    <3>1. StackFor(over, p, n) = over
      BY <2>2 DEF StackFor
    <3>2. Above(pg, FALSE, n) = Above(pg, FALSE, m)
      <4>1. PICK L : L = LevelOf(pg) /\ L[n] = 0
        BY <2>1, <2>2
      <4>2. \A h \in 1..n : h \in 1..m \/ h = n
        BY <1>1
      <4>3. \A h \in 1..m : h \in 1..n /\ \A g \in (h + 1)..n : g \in (h + 1)..m \/ g = n
        BY <1>1
      <4>4. \A h \in 1..m : \A g \in (h + 1)..m : g \in (h + 1)..n
        BY <1>1
      <4>5. ASSUME NEW h PROVE h \in Under(L, 1, n) <=> h \in Under(L, 1, m)
        <5>1. h \in Under(L, 1, n) <=>
                h \in 1..n /\ L[h] > 0 /\ \A g \in (h + 1)..n : L[g] = 0 \/ L[g] > L[h]
          BY DEF Under
        <5>2. h \in Under(L, 1, m) <=>
                h \in 1..m /\ L[h] > 0 /\ \A g \in (h + 1)..m : L[g] = 0 \/ L[g] > L[h]
          BY DEF Under
        <5>3. h = n => ~(L[h] > 0)
          BY <4>1
        <5> QED
          BY <4>1, <4>2, <4>3, <4>4, <5>1, <5>2, <5>3
      <4>6. Under(L, 1, n) = Under(L, 1, m)
        BY <4>5
      <4> QED
        BY <4>1, <4>6 DEF Above
    <3> QED
      BY <1>8, <3>1, <3>2 DEF StackIs
  <2>3. CASE p.level # 0
    <3>1. StackFor(over, p, n) = Push(over, LevelOf(pg)[n], n)
      BY <2>1, <2>3 DEF StackFor
    <3>2. n \in HeadSet(pg)
      BY <2>1, <2>3 DEF HeadSet
    <3>3. NoneBetween(pg, m, n) /\ m < n
      <4>1. \A g \in (m + 1)..(n - 1) : FALSE
        BY <1>1
      <4> QED
        BY <1>1, <4>1 DEF NoneBetween
    <3> QED
      BY <1>6, <1>8, <2>1, <3>1, <3>2, <3>3, StackMore
  <2> QED
    BY <2>2, <2>3
<1> QED
  BY <1>3, <1>4, <1>5, <1>7, <1>9

\* The path of a section names what it stands under.
LEMMA PathFrom ==
  ASSUME NEW ps \in Seq(PlanSet), NEW n \in 1..Len(ps), NEW f \in 1..n, NEW st,
         StackIs(st, HeadsFrom(ps, f), FALSE, n)
  PROVE  /\ Path(st) \in Seq(Nat) /\ Len(st) \in Nat
         /\ IsPath(Path(st), Under([i \in DOMAIN ps |-> ps[i].level], f, n))
<1>1. PICK pg : pg = HeadsFrom(ps, f)
  OBVIOUS
<1>2. f \in Nat /\ n \in 0..Len(ps)
  BY PlansAre
<1>3. pg \in Pages /\ Len(pg) = Len(ps)
  BY <1>1, <1>2, HeadsFromIs
<1>4. IsPath(Path(st), Above(pg, FALSE, n))
  BY <1>1, <1>2, <1>3, PathIs
<1>5. Above(pg, FALSE, n) = Under([i \in DOMAIN ps |-> ps[i].level], f, n)
  BY <1>1, AboveFrom
<1>6. PICK M \in Nat : M = Len(st) /\ DOMAIN st = 1..M /\ \A j \in 1..M : st[j].at \in Nat
  BY CrumbsAre DEF StackIs
<1>7. Path(st) = [i \in 1..M |-> st[i].at]
  BY <1>6, Zenon DEF Path
<1>8. [i \in 1..M |-> st[i].at] \in Seq(Nat)
  BY <1>6
<1> QED
  BY <1>4, <1>5, <1>6, <1>7, <1>8

-----------------------------------------------------------------------------
(* The chunks of one section more                                          *)

RunSet == [stack : Crumbs, source : Sources \cup {""}, next : [Sources -> Nat],
           chunks : Seq(ChunkSet)]

ChunkOf(made, plan, n, path, piece, raw, k, overhead) ==
  [id |-> <<plan.source, made.next[plan.source] + k - 1>>, plan |-> n, path |-> path,
   piece |-> piece, raw |-> raw, size |-> overhead + Size(piece)]

\* r is the run with the chunks of plan n.
Composed(r, made, plan, n, path, pieces, raws, overhead) ==
  /\ r \in RunSet /\ r.stack = made.stack /\ r.source = made.source
  /\ r.next = [made.next EXCEPT ![plan.source] = @ + Len(pieces)]
  /\ Len(r.chunks) = Len(made.chunks) + Len(pieces)
  /\ \A k \in 1..Len(made.chunks) : r.chunks[k] = made.chunks[k]
  /\ \A k \in 1..Len(pieces) :
       r.chunks[Len(made.chunks) + k] = ChunkOf(made, plan, n, path, pieces[k], raws[k], k, overhead)

LEMMA RunIs ==
  ASSUME NEW made \in RunSet
  PROVE  /\ made.stack \in Crumbs /\ made.source \in Sources \cup {""}
         /\ made.next \in [Sources -> Nat] /\ made.chunks \in Seq(ChunkSet)
<1> HIDE DEF ChunkSet, Crumbs
<1> QED
  BY DEF RunSet

LEMMA SpansAre ==
  ASSUME NEW pieces \in Seq(Spans)
  PROVE  /\ Len(pieces) \in Nat /\ DOMAIN pieces = 1..Len(pieces)
         /\ \A k \in 1..Len(pieces) : /\ pieces[k] \in Spans /\ pieces[k].from \in Nat
                                      /\ pieces[k].to \in Nat /\ Size(pieces[k]) \in Int
<1> DEFINE S == Spans
<1>1. \A p \in S : p.from \in Nat /\ p.to \in Nat /\ Size(p) \in Int
  BY DEF Spans, Size
<1> HIDE DEF S
<1>2. pieces \in Seq(S)
  BY DEF S
<1>3. Len(pieces) \in Nat /\ DOMAIN pieces = 1..Len(pieces) /\ \A k \in 1..Len(pieces) : pieces[k] \in S
  BY <1>2
<1> QED
  BY <1>1, <1>3 DEF S

LEMMA ComposeIs ==
  ASSUME NEW made \in RunSet, NEW plan \in PlanSet, NEW n \in Nat, NEW path \in Seq(Nat),
         NEW pieces \in Seq(Spans), NEW raws, \A k \in 1..Len(pieces) : raws[k] \in SUBSET Nat,
         NEW overhead \in Nat
  PROVE  Composed(Compose(made, plan, n, path, pieces, raws, overhead),
                  made, plan, n, path, pieces, raws, overhead)
<1>1. PICK M \in Nat : /\ M = Len(pieces) /\ DOMAIN pieces = 1..M
                       /\ \A k \in 1..M : pieces[k] \in Spans /\ Size(pieces[k]) \in Int
  BY SpansAre
<1>2. PICK ch \in Seq(ChunkSet) : ch = made.chunks
  BY RunIs
<1>3. PICK N \in Nat : N = Len(ch)
  BY ChunkSeq
<1>4. PICK s \in Sources : s = plan.source
  BY DEF PlanSet
<1>5. PICK x \in Nat : x = made.next[s]
  BY RunIs
<1> DEFINE new == [k \in 1..M |-> ChunkOf(made, plan, n, path, pieces[k], raws[k], k, overhead)]
<1>6. ASSUME NEW k \in 1..M
      PROVE  ChunkOf(made, plan, n, path, pieces[k], raws[k], k, overhead) \in ChunkSet
  <2>1. <<s, x + k - 1>> \in Sources \X Nat
    OBVIOUS
  <2>2. overhead + Size(pieces[k]) \in Int
    BY <1>1
  <2>3. pieces[k] \in Spans /\ raws[k] \in SUBSET Nat
    BY <1>1
  <2> QED
    BY <1>4, <1>5, <2>1, <2>2, <2>3, Zenon DEF ChunkOf, ChunkSet
<1>7. \A k \in 1..M : new[k] = ChunkOf(made, plan, n, path, pieces[k], raws[k], k, overhead)
  OBVIOUS
<1>8. new = [k \in DOMAIN pieces |->
               [id |-> <<plan.source, made.next[plan.source] + k - 1>>, plan |-> n, path |-> path,
                piece |-> pieces[k], raw |-> raws[k], size |-> overhead + Size(pieces[k])]]
  BY <1>1, Zenon DEF ChunkOf
<1>9. new \in [1..M -> ChunkSet]
  BY <1>6
<1> HIDE DEF new
<1>10. new \in Seq(ChunkSet) /\ Len(new) = M
  <2>1. PICK C : C = ChunkSet
    OBVIOUS
  <2>2. new \in [1..M -> C]
    BY <1>9, <2>1
  <2>3. new \in Seq(C) /\ Len(new) = M
    BY <2>2
  <2> QED
    BY <2>1, <2>3
<1>11. PICK u : u = ch \o new
  OBVIOUS
<1>12. /\ u \in Seq(ChunkSet) /\ Len(u) = N + M
       /\ \A k \in 1..N : u[k] = ch[k] /\ \A l \in 1..M : u[N + l] = new[l]
  <2>1. PICK C : C = ChunkSet
    OBVIOUS
  <2>2. ch \in Seq(C) /\ new \in Seq(C)
    BY <1>10, <2>1
  <2>3. /\ u \in Seq(C) /\ Len(u) = Len(ch) + Len(new)
        /\ \A k \in 1..Len(ch) : u[k] = ch[k]
        /\ \A k \in 1..Len(new) : u[Len(ch) + k] = new[k]
    BY <1>11, <2>2, ConcatIs
  <2> QED
    BY <1>3, <1>10, <2>1, <2>3
<1>13. \A l \in 1..M : u[N + l] = new[l]
  <2>1. PICK C : C = ChunkSet
    OBVIOUS
  <2>2. ch \in Seq(C) /\ new \in Seq(C)
    BY <1>10, <2>1
  <2>3. \A k \in 1..Len(new) : u[Len(ch) + k] = new[k]
    BY <1>11, <2>2, ConcatIs
  <2> QED
    BY <1>3, <1>10, <2>3
<1>14. PICK nx : nx = [made.next EXCEPT ![s] = @ + M]
  OBVIOUS
<1>15. nx \in [Sources -> Nat]
  <2>1. PICK g : g = made.next
    OBVIOUS
  <2>2. g \in [Sources -> Nat]
    BY <2>1, RunIs
  <2>3. g[s] = x /\ x + M \in Nat
    BY <1>5, <2>1
  <2> QED
    BY <1>14, <2>1, <2>2, <2>3
<1>16. PICK r : r = Compose(made, plan, n, path, pieces, raws, overhead)
  OBVIOUS
<1>17. r = [made EXCEPT !.next[plan.source] = @ + Len(pieces), !.chunks = @ \o new]
  BY <1>8, <1>16, Zenon DEF Compose
<1>18. /\ r = [made EXCEPT !.next = nx, !.chunks = u]
       /\ made = [stack |-> made.stack, source |-> made.source, next |-> made.next,
                 chunks |-> made.chunks]
  <2>1. PICK C : C = Seq(ChunkSet)
    OBVIOUS
  <2>2. made \in [stack : Crumbs, source : Sources \cup {""}, next : [Sources -> Nat], chunks : C]
    BY <2>1 DEF RunSet
  <2> HIDE DEF Crumbs
  <2> QED
    BY <1>1, <1>2, <1>4, <1>11, <1>14, <1>17, <2>2
<1>19. /\ r.stack = made.stack /\ r.source = made.source /\ r.next = nx /\ r.chunks = u
       /\ r = [stack |-> r.stack, source |-> r.source, next |-> r.next, chunks |-> r.chunks]
  BY <1>18
<1>20. r \in RunSet
  <2>1. r.stack \in Crumbs /\ r.source \in Sources \cup {""} /\ r.next \in [Sources -> Nat]
    BY <1>15, <1>19, RunIs
  <2>2. r.chunks \in Seq(ChunkSet)
    BY <1>12, <1>19
  <2> QED
    BY <1>19, <2>1, <2>2, Zenon DEF RunSet
<1>21. Composed(r, made, plan, n, path, pieces, raws, overhead)
  <2>1. \A k \in 1..N : u[k] = ch[k]
    BY <1>12
  <2>2. \A k \in 1..M :
          u[N + k] = ChunkOf(made, plan, n, path, pieces[k], raws[k], k, overhead)
    BY <1>7, <1>13
  <2> QED
    BY <1>1, <1>2, <1>3, <1>4, <1>12, <1>14, <1>19, <1>20, <2>1, <2>2 DEF Composed
<1> QED
  BY <1>16, <1>21

\* The ids go on being numbered.
LEMMA ComposedIds ==
  ASSUME NEW made \in RunSet, NEW plan \in PlanSet, NEW n, NEW path, NEW pieces \in Seq(Spans),
         NEW raws, NEW overhead, NEW r, Composed(r, made, plan, n, path, pieces, raws, overhead),
         IdsAre(made.chunks, made.next)
  PROVE  IdsAre(r.chunks, r.next)
<1>1. PICK N \in Nat, M \in Nat : N = Len(made.chunks) /\ M = Len(pieces)
  <2>1. made.chunks \in Seq(ChunkSet)
    BY RunIs
  <2> QED
    BY <2>1, ChunkSeq, SpansAre
<1>2. PICK ch, u : ch = made.chunks /\ u = r.chunks
  OBVIOUS
<1>3. PICK q \in Sources : q = plan.source
  BY DEF PlanSet
<1>4. PICK x \in Nat : x = made.next[q]
  BY RunIs
<1>5. /\ Len(u) = N + M /\ \A k \in 1..N : u[k] = ch[k]
      /\ \A k \in 1..M : u[N + k].id[1] = q /\ u[N + k].id[2] = x + k - 1
  <2>1. /\ Len(u) = N + M /\ \A k \in 1..N : u[k] = ch[k]
        /\ \A k \in 1..M :
             u[N + k] = ChunkOf(made, plan, n, path, pieces[k], raws[k], k, overhead)
    BY <1>1, <1>2 DEF Composed
  <2>2. \A k \in 1..M :
          /\ ChunkOf(made, plan, n, path, pieces[k], raws[k], k, overhead).id[1] = q
          /\ ChunkOf(made, plan, n, path, pieces[k], raws[k], k, overhead).id[2] = x + k - 1
    BY <1>3, <1>4 DEF ChunkOf
  <2> QED
    BY <2>1, <2>2
<1>6. \A k \in 1..(N + M) : k \in 1..N \/ \E j \in 1..M : k = N + j
  <2>1. ASSUME NEW k \in 1..(N + M), k \notin 1..N PROVE \E j \in 1..M : k = N + j
    <3>1. k - N \in 1..M /\ k = N + (k - N)
      BY <2>1
    <3> QED
      BY <3>1
  <2> QED
    BY <2>1
<1>7. r.next \in [Sources -> Nat] /\ r.next[q] = x + M
      /\ \A s \in Sources : s # q => r.next[s] = made.next[s]
  BY <1>1, <1>3, <1>4, RunIs DEF Composed
<1>8. \A k \in 1..N : ch[k].id[2] \in Nat
  BY <1>1, <1>2, RunIs, ChunkSeq
<1>9. ASSUME NEW s \in Sources
      PROVE  /\ \A k \in 1..Len(u) : u[k].id[1] = s => u[k].id[2] < r.next[s]
             /\ \A k, l \in 1..Len(u) :
                  k < l /\ u[k].id[1] = s /\ u[l].id[1] = s => u[k].id[2] < u[l].id[2]
             /\ \A v \in Nat :
                  v < r.next[s] => \E k \in 1..Len(u) : u[k].id[1] = s /\ u[k].id[2] = v
  <2>1. PICK y \in Nat : /\ y = made.next[s]
                         /\ \A k \in 1..N : ch[k].id[1] = s => ch[k].id[2] < y
    <3>1. PICK y \in Nat : y = made.next[s]
      BY RunIs
    <3> QED
      BY <1>1, <1>2, <3>1 DEF IdsAre
  <2>2. \A k, l \in 1..N :
          k < l /\ ch[k].id[1] = s /\ ch[l].id[1] = s => ch[k].id[2] < ch[l].id[2]
    BY <1>1, <1>2 DEF IdsAre
  <2>3. \A v \in Nat : v < y => \E k \in 1..N : ch[k].id[1] = s /\ ch[k].id[2] = v
    BY <1>1, <1>2, <2>1 DEF IdsAre
  <2>4. PICK z \in Nat : z = r.next[s] /\ z = IF s = q THEN x + M ELSE y
    BY <1>7, <2>1
  <2>5. s = q => x = y
    BY <1>4, <2>1
  <2>6. ASSUME NEW k \in 1..(N + M), u[k].id[1] = s PROVE u[k].id[2] < z
    <3>1. CASE k \in 1..N
      <4>1. ch[k].id[2] < y /\ y <= z
        BY <1>5, <2>1, <2>4, <2>5, <2>6, <3>1
      <4> QED
        BY <1>5, <1>8, <3>1, <4>1
    <3>2. CASE k \notin 1..N
      <4>1. PICK j \in 1..M : k = N + j
        BY <1>6, <3>2
      <4>2. s = q /\ u[k].id[2] = x + j - 1
        BY <1>5, <2>6, <4>1
      <4>3. x + j - 1 < x + M
        OBVIOUS
      <4> QED
        BY <2>4, <4>2, <4>3
    <3> QED
      BY <3>1, <3>2
  <2>7. ASSUME NEW k \in 1..(N + M), NEW l \in 1..(N + M), k < l, u[k].id[1] = s, u[l].id[1] = s
        PROVE  u[k].id[2] < u[l].id[2]
    <3>1. CASE l \in 1..N
      <4>1. k \in 1..N
        BY <2>7, <3>1
      <4> QED
        BY <1>5, <2>2, <2>7, <3>1, <4>1
    <3>2. CASE l \notin 1..N
      <4>1. PICK j \in 1..M : l = N + j
        BY <1>6, <3>2
      <4>2. s = q /\ u[l].id[2] = x + j - 1
        BY <1>5, <2>7, <4>1
      <4>3. CASE k \in 1..N
        <5>1. PICK w \in Nat : w = u[k].id[2] /\ w < x
          BY <1>5, <1>8, <2>1, <2>5, <2>7, <4>2, <4>3
        <5>2. w < x + j - 1
          BY <5>1
        <5> QED
          BY <4>2, <5>1, <5>2
      <4>4. CASE k \notin 1..N
        <5>1. PICK i \in 1..M : k = N + i
          BY <1>6, <4>4
        <5>2. u[k].id[2] = x + i - 1
          BY <1>5, <5>1
        <5>3. i < j
          BY <2>7, <4>1, <5>1
        <5>4. x + i - 1 < x + j - 1
          BY <5>3
        <5> QED
          BY <4>2, <5>2, <5>4
      <4> QED
        BY <4>3, <4>4
    <3> QED
      BY <3>1, <3>2
  <2>8. ASSUME NEW v \in Nat, v < z PROVE \E k \in 1..(N + M) : u[k].id[1] = s /\ u[k].id[2] = v
    <3>1. CASE v < y
      <4>1. PICK k \in 1..N : ch[k].id[1] = s /\ ch[k].id[2] = v
        BY <2>3, <3>1
      <4>2. k \in 1..(N + M) /\ u[k] = ch[k]
        BY <1>5
      <4> QED
        BY <4>1, <4>2
    <3>2. CASE ~(v < y)
      <4>1. s = q /\ x <= v /\ v < x + M
        BY <2>4, <2>5, <2>8, <3>2
      <4>2. PICK j \in 1..M : j = v - x + 1 /\ x + j - 1 = v
        BY <4>1
      <4>3. N + j \in 1..(N + M)
        OBVIOUS
      <4>4. u[N + j].id[1] = s /\ u[N + j].id[2] = v
        BY <1>5, <4>1, <4>2
      <4> QED
        BY <4>3, <4>4
    <3> QED
      BY <3>1, <3>2
  <2> QED
    BY <1>5, <2>4, <2>6, <2>7, <2>8
<1> QED
  BY <1>2, <1>9 DEF IdsAre

\* The new chunks stand behind the others.
LEMMA ComposedStand ==
  ASSUME NEW made \in RunSet, NEW plan \in PlanSet, NEW n \in Nat, NEW path,
         NEW pieces \in Seq(Spans), NEW raws, NEW overhead, NEW r,
         Composed(r, made, plan, n, path, pieces, raws, overhead),
         \A k \in 1..Len(made.chunks) : made.chunks[k].plan < n
  PROVE  /\ StandAt(r.chunks, n, Len(made.chunks), pieces)
         /\ \A i, lo, s : i # n /\ s \in Seq(Spans) /\ StandAt(made.chunks, i, lo, s) =>
                            StandAt(r.chunks, i, lo, s)
<1>1. PICK N \in Nat, M \in Nat : N = Len(made.chunks) /\ M = Len(pieces)
  <2>1. made.chunks \in Seq(ChunkSet)
    BY RunIs
  <2> QED
    BY <2>1, ChunkSeq, SpansAre
<1>2. PICK ch, u : ch = made.chunks /\ u = r.chunks
  OBVIOUS
<1>3. /\ Len(u) = N + M /\ \A k \in 1..N : u[k] = ch[k]
      /\ \A k \in 1..M : u[N + k].plan = n /\ u[N + k].piece = pieces[k]
  <2>1. /\ Len(u) = N + M /\ \A k \in 1..N : u[k] = ch[k]
        /\ \A k \in 1..M :
             u[N + k] = ChunkOf(made, plan, n, path, pieces[k], raws[k], k, overhead)
    BY <1>1, <1>2 DEF Composed
  <2>2. \A k \in 1..M :
          /\ ChunkOf(made, plan, n, path, pieces[k], raws[k], k, overhead).plan = n
          /\ ChunkOf(made, plan, n, path, pieces[k], raws[k], k, overhead).piece = pieces[k]
    BY DEF ChunkOf
  <2> QED
    BY <2>1, <2>2
<1>4. \A k \in 1..(N + M) : k \in 1..N \/ \E j \in 1..M : k = N + j
  <2>1. ASSUME NEW k \in 1..(N + M), k \notin 1..N PROVE \E j \in 1..M : k = N + j
    <3>1. k - N \in 1..M /\ k = N + (k - N)
      BY <2>1
    <3> QED
      BY <3>1
  <2> QED
    BY <2>1
<1>5. \A k \in 1..N : ch[k].plan \in Nat /\ ch[k].plan < n
  BY <1>1, <1>2, RunIs, ChunkSeq
<1>6. StandAt(u, n, N, pieces)
  <2>1. ASSUME NEW k \in 1..(N + M) PROVE u[k].plan = n <=> N < k /\ k <= N + M
    <3>1. CASE k \in 1..N
      <4>1. u[k].plan \in Nat /\ u[k].plan < n
        BY <1>3, <1>5, <3>1
      <4> QED
        BY <3>1, <4>1
    <3>2. CASE k \notin 1..N
      <4>1. u[k].plan = n
        BY <1>3, <1>4, <3>2
      <4> QED
        BY <3>2, <4>1
    <3> QED
      BY <3>1, <3>2
  <2> QED
    BY <1>1, <1>3, <2>1 DEF StandAt
<1>7. ASSUME NEW i, NEW lo, NEW s, i # n, s \in Seq(Spans), StandAt(ch, i, lo, s)
      PROVE  StandAt(u, i, lo, s)
  <2>1. PICK L \in Nat : L = Len(s) /\ lo \in Nat /\ lo + L <= N
    BY <1>1, <1>2, <1>7, SpansAre DEF StandAt
  <2>2. ASSUME NEW k \in 1..(N + M) PROVE u[k].plan = i <=> lo < k /\ k <= lo + L
    <3>1. CASE k \in 1..N
      BY <1>1, <1>2, <1>3, <1>7, <2>1, <3>1 DEF StandAt
    <3>2. CASE k \notin 1..N
      <4>1. u[k].plan = n
        BY <1>3, <1>4, <3>2
      <4>2. ~(k <= lo + L)
        BY <2>1, <3>2
      <4> QED
        BY <1>7, <4>1, <4>2
    <3> QED
      BY <3>1, <3>2
  <2>3. ASSUME NEW k \in 1..L PROVE u[lo + k].piece = s[k]
    <3>1. lo + k \in 1..N
      BY <2>1
    <3>2. ch[lo + k].piece = s[k]
      BY <1>7, <2>1 DEF StandAt
    <3> QED
      BY <1>3, <3>1, <3>2
  <2>4. lo + L <= N + M
    BY <2>1
  <2> QED
    BY <1>3, <2>1, <2>2, <2>3, <2>4 DEF StandAt
<1> QED
  BY <1>1, <1>2, <1>6, <1>7

-----------------------------------------------------------------------------
(* A section cut                                                           *)

\* Several blocks are none of them empty.
BlocksFull(blocks) == Len(blocks) = 1 \/ \A k \in DOMAIN blocks : blocks[k] # <<>>

\* A piece with its raw text, within the size as far as it can be.
PieceGood(blocks, piece, raw, size, overhead) ==
  /\ raw \in SUBSET Nat /\ Owners(blocks, piece) \subseteq raw
  /\ Cardinality(raw \ Owners(blocks, piece)) <= 1
  /\ \/ overhead + Size(piece) <= size \/ (overhead + Size(piece)) - Size(piece) >= size
     \/ Doubled(Body(blocks), piece)
     \/ \A i \in DOMAIN Body(blocks) : Body(blocks)[i] # "x"

CutGood(blocks, pieces, raws, size, overlap, overhead) ==
  /\ pieces \in Seq(Spans)
  /\ \A k \in 1..Len(pieces) : PieceGood(blocks, pieces[k], raws[k], size, overhead)
  /\ \/ Body(blocks) = <<>>
     \/ (PiecesCover(Body(blocks), pieces) /\ PiecesMove(Body(blocks), pieces, overlap))

\* The splitter's pieces, with the blocks they are of.
LEMMA PiecesGood ==
  ASSUME NEW blocks \in Seq(Seq(Char)), Len(blocks) >= 1, NEW size \in Nat, NEW overlap \in Nat,
         NEW overhead \in Nat, NEW pieces, pieces # <<>>,
         pieces = Split(Body(blocks), size, overlap, overhead)
  PROVE  CutGood(blocks, pieces, [k \in DOMAIN pieces |-> RawOf(blocks, pieces[k])],
                 size, overlap, overhead)
<1>1. PICK body \in Seq(Char) : body = Body(blocks)
  BY BodyIs
<1>2. body # <<>>
  <2>1. Split(<<>>, size, overlap, overhead) = <<>>
    BY DEF Split
  <2> QED
    BY <1>1, <2>1
<1>3. PICK L \in Nat : L = Len(body) /\ DOMAIN body = 1..L
  OBVIOUS
<1>4. PICK bud \in Nat : /\ bud = Budget(size, overhead) /\ bud >= 1
                         /\ Whole(body, bud, overlap, 1, L, pieces)
  BY <1>1, <1>2, <1>3, SplitIsWhole
<1>5. PICK M \in Nat : M = Len(pieces) /\ DOMAIN pieces = 1..M
  BY <1>4 DEF Whole
<1>6. \A k \in 1..M : pieces[k] \in Pieces(body)
  BY <1>4, <1>5 DEF Whole
<1>7. \A k \in 1..M : /\ pieces[k].from \in Nat /\ pieces[k].to \in Nat /\ 1 <= pieces[k].from
                      /\ pieces[k].from <= pieces[k].to /\ pieces[k].to <= L
                      /\ Size(pieces[k]) \in Nat
  BY <1>3, <1>6, PiecesAre
<1>8. pieces \in Seq(Spans)
  <2>1. \A p \in Pieces(body) : p \in Spans
    <3>1. \A i \in 1..L : i \in Nat
      OBVIOUS
    <3> QED
      BY <1>3, <3>1 DEF Pieces, Spans
  <2>2. PICK S : S = Spans
    OBVIOUS
  <2>3. PICK Q : Q = Pieces(body)
    OBVIOUS
  <2>4. pieces \in Seq(Q) /\ \A p \in Q : p \in S
    BY <1>4, <2>1, <2>2, <2>3 DEF Whole
  <2>5. pieces \in Seq(S)
    BY <2>4
  <2> QED
    BY <2>2, <2>5
<1>9. PICK raws : raws = [k \in DOMAIN pieces |-> RawOf(blocks, pieces[k])]
  OBVIOUS
<1>10. ASSUME NEW k \in 1..M PROVE PieceGood(blocks, pieces[k], raws[k], size, overhead)
  <2>1. raws[k] = RawOf(blocks, pieces[k])
    BY <1>5, <1>9
  <2>2. /\ Owners(blocks, pieces[k]) \subseteq RawOf(blocks, pieces[k])
        /\ RawOf(blocks, pieces[k]) \subseteq Nat
        /\ Cardinality(RawOf(blocks, pieces[k]) \ Owners(blocks, pieces[k])) <= 1
    BY <1>7, RawIs
  <2>3. PICK z \in Nat : z = Size(pieces[k])
    BY <1>7
  <2>4. z <= bud \/ Doubled(body, pieces[k])
    BY <1>4, <1>5, <2>3 DEF Whole, InSize
  <2>5. z <= bud => overhead + z <= size \/ (overhead + z) - z >= size
    BY <1>4 DEF Budget
  <2> QED
    BY <1>1, <2>1, <2>2, <2>3, <2>4, <2>5 DEF PieceGood
<1>11. PiecesCover(body, pieces)
  <2>1. ASSUME NEW i \in 1..L, body[i] = "x" PROVE \E k \in 1..M : i \in pieces[k].from..pieces[k].to
    BY <1>4, <1>5, <2>1 DEF Whole
  <2> QED
    BY <1>3, <1>5, <1>7, <2>1 DEF PiecesCover
<1>12. PiecesMove(body, pieces, overlap)
  <2>1. \A k \in 2..M : Follows(body, overlap, pieces[k - 1], pieces[k])
    BY <1>4, <1>5 DEF Whole
  <2> QED
    BY <1>5, <2>1 DEF PiecesMove, Follows
<1>13. CutGood(blocks, pieces, raws, size, overlap, overhead)
  BY <1>1, <1>5, <1>8, <1>10, <1>11, <1>12 DEF CutGood
<1> QED
  BY <1>9, <1>13

\* A text without a letter is one piece, of all its blocks.
LEMMA BareGood ==
  ASSUME NEW blocks \in Seq(Seq(Char)), Len(blocks) >= 1, BlocksFull(blocks),
         NEW size \in Nat, NEW overlap \in Nat, NEW overhead \in Nat,
         Split(Body(blocks), size, overlap, overhead) = <<>>
  PROVE  CutGood(blocks, <<Piece(1, Len(Body(blocks)))>>, <<DOMAIN blocks>>,
                 size, overlap, overhead)
<1>1. PICK body \in Seq(Char) : body = Body(blocks)
  BY BodyIs
<1>2. PICK L \in Nat : L = Len(body) /\ DOMAIN body = 1..L
  OBVIOUS
<1>3. \A i \in 1..L : body[i] # "x"
  <2>1. CASE body = <<>>
    BY <1>2, <2>1
  <2>2. CASE body # <<>>
    <3>1. Whole(body, Budget(size, overhead), overlap, 1, L, <<>>)
      BY <1>1, <1>2, <2>2, SplitIsWhole
    <3>2. 1..Len(<<>>) = {}
      OBVIOUS
    <3> QED
      BY <3>1, <3>2 DEF Whole
  <2> QED
    BY <2>1, <2>2
<1>4. PICK N \in Nat : /\ N = Len(blocks) /\ N >= 1 /\ DOMAIN blocks = 1..N
                       /\ \A k \in 1..N : blocks[k] \in Seq(Char)
  OBVIOUS
<1>5. PICK q : q = Piece(1, L)
  OBVIOUS
<1>6. q \in Spans /\ q.from = 1 /\ q.to = L
  BY <1>5 DEF Piece, Spans
<1>7. PICK own : own = Owners(blocks, q)
  OBVIOUS
<1>8. own = {k \in 1..N : Start(blocks, k) <= L /\ 1 < Start(blocks, k) + Len(blocks[k])}
  BY <1>4, <1>6, <1>7 DEF Owners
<1>9. Cardinality((1..N) \ own) <= 1
  <2>1. Cardinality({}) = 0 /\ Cardinality({1}) = 1
    BY FS_EmptySet, FS_Singleton
  <2>2. PICK D : D = (1..N) \ own
    OBVIOUS
  <2>3. CASE N = 1
    <3>1. D = {} \/ D = {1}
      BY <2>2, <2>3
    <3>2. Cardinality(D) = 0 \/ Cardinality(D) = 1
      BY <2>1, <3>1
    <3>3. Cardinality(D) <= 1
      BY <3>2
    <3> QED
      BY <2>2, <3>3
  <2>4. CASE N # 1
    <3>1. ASSUME NEW k \in 1..N PROVE k \in own
      <4>1. \A j \in 1..N : Len(blocks[j]) \in Nat /\ Len(blocks[j]) >= 1
        <5>1. \A j \in 1..N : blocks[j] # <<>>
          BY <1>4, <2>4 DEF BlocksFull
        <5>2. \A b \in Seq(Char) : b # <<>> => Len(b) \in Nat /\ Len(b) >= 1
          OBVIOUS
        <5> QED
          BY <1>4, <5>1, <5>2
      <4>2. 1 \in 1..N /\ N \in 1..N /\ 1 <= k /\ k <= N
        BY <1>4
      <4>3. PICK x \in Int, z \in Int :
              x = Start(blocks, k) /\ z = Start(blocks, N) /\ Start(blocks, 1) = 1
        BY <1>4, <4>2, StartsAre
      <4>4. Start(blocks, 1) <= Start(blocks, k)
        BY <1>4, <4>2, StartsRise
      <4>5. Start(blocks, k) <= Start(blocks, N)
        BY <1>4, <4>2, StartsRise
      <4>6. PICK v \in Nat, w \in Nat :
              v = Len(blocks[k]) /\ w = Len(blocks[N]) /\ v >= 1 /\ w >= 1
        BY <4>1, <4>2
      <4>7. L = z + w - 1
        BY <1>1, <1>2, <1>4, <4>3, <4>6, StartsAre
      <4>8. 1 <= x /\ x <= z
        BY <4>3, <4>4, <4>5
      <4>9. x <= L /\ 1 < x + v
        BY <4>6, <4>7, <4>8
      <4> QED
        BY <1>8, <4>3, <4>6, <4>9
    <3>2. D = {}
      BY <2>2, <3>1
    <3>3. Cardinality(D) <= 1
      BY <2>1, <3>2
    <3> QED
      BY <2>2, <3>3
  <2> QED
    BY <2>3, <2>4
<1>10. own \subseteq 1..N /\ 1..N \in SUBSET Nat
  BY <1>8
<1>11. PieceGood(blocks, q, 1..N, size, overhead)
  BY <1>1, <1>2, <1>3, <1>7, <1>9, <1>10 DEF PieceGood
<1>12. PICK pieces : pieces = <<q>>
  OBVIOUS
<1>13. PICK raws : raws = <<1..N>>
  OBVIOUS
<1>14. /\ Len(pieces) = 1 /\ DOMAIN pieces = 1..1 /\ pieces[1] = q /\ raws[1] = 1..N
       /\ \A k \in 1..1 : k = 1 /\ \A j \in 2..1 : FALSE
  BY <1>12, <1>13
<1>15. pieces \in Seq(Spans)
  <2>1. PICK S : S = Spans
    OBVIOUS
  <2>2. q \in S
    BY <1>6, <2>1
  <2>3. pieces \in Seq(S)
    BY <1>12, <2>2
  <2> QED
    BY <2>1, <2>3
<1>16. body = <<>> \/ (PiecesCover(body, pieces) /\ PiecesMove(body, pieces, overlap))
  <2>1. body # <<>> => L >= 1
    BY <1>2
  <2>2. \A k \in 2..1 : FALSE
    OBVIOUS
  <2>3. PiecesMove(body, pieces, overlap)
    BY <1>14, <2>2 DEF PiecesMove
  <2>4. L >= 1 => PiecesCover(body, pieces)
    BY <1>2, <1>3, <1>6, <1>14 DEF PiecesCover
  <2> QED
    BY <2>1, <2>3, <2>4
<1>17. CutGood(blocks, pieces, raws, size, overlap, overhead)
  <2>1. \A k \in 1..Len(pieces) : PieceGood(blocks, pieces[k], raws[k], size, overhead)
    BY <1>11, <1>14
  <2> QED
    BY <1>1, <1>15, <1>16, <2>1 DEF CutGood
<1> QED
  BY <1>1, <1>2, <1>4, <1>5, <1>12, <1>13, <1>17

-----------------------------------------------------------------------------
(* What the chunker has made of the sections it has taken                  *)

\* What chunk c says of plan n: the headings it stands under,
PathGood(ps, n, path) == IsPath(path, Under([i \in DOMAIN ps |-> ps[i].level], FirstOf(ps, n), n))

\* and its text.
ChunkGood(blocks, c, size) ==
  /\ Owners(blocks, c.piece) \subseteq c.raw
  /\ Cardinality(c.raw \ Owners(blocks, c.piece)) <= 1
  /\ \/ c.size <= size \/ c.size - Size(c.piece) >= size \/ Doubled(Body(blocks), c.piece)
     \/ \A i \in DOMAIN Body(blocks) : Body(blocks)[i] # "x"

LEMMA FaithfulIs ==
  ASSUME NEW ps, NEW c, NEW size
  PROVE  ChunkIsFaithful(ps, c, size) <=> /\ c.id[1] = ps[c.plan].source
                                          /\ PathGood(ps, c.plan, c.path)
                                          /\ ChunkGood(ps[c.plan].blocks, c, size)
  BY DEF ChunkIsFaithful, PathGood, ChunkGood

\* A section stands under the same headings whatever comes behind it.
LEMMA PathStays ==
  ASSUME NEW ps \in Seq(PlanSet), NEW qs \in Seq(PlanSet), NEW n \in 1..Len(ps),
         n \in 1..Len(qs), \A i \in 1..n : ps[i] = qs[i], NEW path, PathGood(ps, n, path)
  PROVE  PathGood(qs, n, path)
<1>1. PICK f \in Nat : f = FirstOf(ps, n) /\ f \in 1..n
  BY FirstIs, PlansAre
<1>2. FirstOf(qs, n) = f
  BY <1>1, FirstSame
<1>3. PICK a : a = [i \in DOMAIN ps |-> ps[i].level]
  OBVIOUS
<1>4. PICK b : b = [i \in DOMAIN qs |-> qs[i].level]
  OBVIOUS
<1>5. n \in Nat /\ \A i \in 1..n : a[i] = b[i]
  <2>1. \A i \in 1..n : i \in 1..Len(ps) /\ i \in 1..Len(qs)
    BY PlansAre
  <2> QED
    BY <1>3, <1>4, <2>1, PlansAre
<1>6. f..n \subseteq 1..n /\ \A h \in f..n : (h + 1)..n \subseteq 1..n
  BY <1>1, <1>5
<1>7. Under(a, f, n) = Under(b, f, n)
  BY <1>5, <1>6 DEF Under
<1> QED
  BY <1>1, <1>2, <1>3, <1>4, <1>7 DEF PathGood

LEMMA FaithStays ==
  ASSUME NEW ps \in Seq(PlanSet), NEW p \in PlanSet, NEW qs, qs = Append(ps, p), NEW c,
         c.plan \in 1..Len(ps), NEW size, ChunkIsFaithful(ps, c, size)
  PROVE  c.plan \in 1..Len(qs) /\ ChunkIsFaithful(qs, c, size)
<1>1. PICK n \in Nat : n = c.plan /\ n \in 1..Len(ps)
  BY PlansAre
<1>2. qs \in Seq(PlanSet) /\ n \in 1..Len(qs) /\ \A i \in 1..n : ps[i] = qs[i]
  <2>1. PICK m \in Nat : m = Len(ps)
    BY PlansAre
  <2>2. n \in 1..m /\ n \in 1..(m + 1) /\ \A i \in 1..n : i \in 1..m
    BY <1>1, <2>1
  <2> QED
    BY <2>1, <2>2, PlansMore
<1>3. PathGood(qs, n, c.path)
  BY <1>1, <1>2, FaithfulIs, PathStays
<1>4. ps[n] = qs[n]
  BY <1>1, <1>2
<1> QED
  BY <1>1, <1>2, <1>3, <1>4, FaithfulIs

\* A section with a text is cut into good pieces.
LEMMA CutMakes ==
  ASSUME NEW made \in RunSet, NEW plan \in PlanSet, NEW n \in Nat, NEW path \in Seq(Nat),
         NEW size \in Nat, NEW overlap \in Nat, NEW overhead \in Nat,
         plan.blocks # <<>>, BlocksFull(plan.blocks), NEW r,
         r = ChunkPlan(made, plan, n, path, Body(plan.blocks), size, overlap, overhead)
  PROVE  \E pieces, raws : /\ CutGood(plan.blocks, pieces, raws, size, overlap, overhead)
                           /\ Composed(r, made, plan, n, path, pieces, raws, overhead)
<1>1. PICK blocks \in Seq(Seq(Char)) : blocks = plan.blocks
  BY DEF PlanSet
<1>2. Len(blocks) >= 1
  <2>1. PICK S : S = Seq(Char)
    OBVIOUS
  <2>2. blocks \in Seq(S) /\ blocks # <<>>
    BY <1>1, <2>1
  <2> QED
    BY <2>2
<1>3. PICK pieces : pieces = Split(Body(blocks), size, overlap, overhead)
  OBVIOUS
<1>4. r = Cut(made, plan, n, path, Body(blocks), pieces, overhead)
  BY <1>1, <1>3 DEF ChunkPlan
<1>5. ASSUME NEW ps, NEW raws, CutGood(blocks, ps, raws, size, overlap, overhead),
             r = Compose(made, plan, n, path, ps, raws, overhead)
      PROVE  Composed(r, made, plan, n, path, ps, raws, overhead)
  <2>1. ps \in Seq(Spans)
    BY <1>5 DEF CutGood
  <2>2. \A k \in 1..Len(ps) : raws[k] \in SUBSET Nat
    BY <1>5 DEF CutGood, PieceGood
  <2> QED
    BY <1>5, <2>1, <2>2, ComposeIs
<1>6. CASE pieces = <<>>
  <2>1. PICK ps : ps = <<Piece(1, Len(Body(blocks)))>>
    OBVIOUS
  <2>2. PICK raws : raws = <<DOMAIN blocks>>
    OBVIOUS
  <2>3. CutGood(blocks, ps, raws, size, overlap, overhead)
    BY <1>1, <1>2, <1>3, <1>6, <2>1, <2>2, BareGood
  <2>4. r = Compose(made, plan, n, path, ps, raws, overhead)
    BY <1>1, <1>4, <1>6, <2>1, <2>2 DEF Cut
  <2> QED
    BY <1>1, <1>5, <2>3, <2>4
<1>7. CASE pieces # <<>>
  <2>1. PICK raws : raws = [k \in DOMAIN pieces |-> RawOf(blocks, pieces[k])]
    OBVIOUS
  <2>2. CutGood(blocks, pieces, raws, size, overlap, overhead)
    BY <1>2, <1>3, <1>7, <2>1, PiecesGood
  <2>3. r = Compose(made, plan, n, path, pieces, raws, overhead)
    BY <1>1, <1>4, <1>7, <2>1 DEF Cut
  <2> QED
    BY <1>1, <1>5, <2>2, <2>3
<1> QED
  BY <1>6, <1>7

LEMMA OverheadIs ==
  ASSUME NEW plan \in PlanSet, NEW st \in Crumbs
  PROVE  Overhead(plan, st) \in Nat
<1>1. PICK l \in Nat : l = Len(st) /\ (st # <<>> => l >= 1)
  BY DEF Crumbs
<1>2. PICK e \in Nat : e = plan.extra
  BY DEF PlanSet
<1>3. Len(Glue) = 2
  BY DEF Glue
<1>4. st # <<>> => Letters(st) = 4 * l - 3
  BY <1>1 DEF Letters
<1>5. l >= 1 => e + ((4 * l - 3) + 2) \in Nat
  OBVIOUS
<1>6. e + 0 \in Nat
  OBVIOUS
<1> QED
  BY <1>1, <1>2, <1>3, <1>4, <1>5, <1>6 DEF Overhead

\* The chunks of a section are pieces that cover its text and go forward.
SectionCut(ps, ch, n, overlap) ==
  \/ Body(ps[n].blocks) = <<>>
  \/ \E lo, s : /\ s \in Seq(Spans) /\ StandAt(ch, n, lo, s)
                /\ PiecesCover(Body(ps[n].blocks), s)
                /\ PiecesMove(Body(ps[n].blocks), s, overlap)

\* The chunks so far are those of the sections taken, and are faithful.
ChunksOn(ps, ch, size, overlap) ==
  /\ \A k \in 1..Len(ch) : ch[k].plan \in 1..Len(ps) /\ ChunkIsFaithful(ps, ch[k], size)
  /\ \A n \in 1..Len(ps) : SectionCut(ps, ch, n, overlap)

MadeInv(ps, made, size, overlap) ==
  /\ ps \in Seq(PlanSet) /\ made \in RunSet /\ StackNow(ps, made.source, made.stack)
  /\ IdsAre(made.chunks, made.next) /\ ChunksOn(ps, made.chunks, size, overlap)

LEMMA MadeIsFaithful ==
  ASSUME NEW ps, NEW made, NEW size, NEW overlap, MadeInv(ps, made, size, overlap)
  PROVE  ChunksAreFaithful(Sources, ps, made.chunks, size, overlap)
<1>1. ps \in Seq(PlanSet) /\ made \in RunSet
  BY DEF MadeInv
<1>2. PICK ch \in Seq(ChunkSet) : ch = made.chunks
  BY <1>1, RunIs
<1>3. PICK next \in [Sources -> Nat] : next = made.next
  BY <1>1, RunIs
<1>4. IdsAre(ch, next) /\ ChunksOn(ps, ch, size, overlap)
  BY <1>2, <1>3 DEF MadeInv
<1>5. DOMAIN ch = 1..Len(ch) /\ DOMAIN ps = 1..Len(ps)
  BY <1>1, ChunkSeq, PlansAre
<1>6. \A s \in Sources : \A k \in DOMAIN ChunksOf(ch, s) : ChunksOf(ch, s)[k].id[2] = k - 1
  BY <1>4, IdsCount
<1>7. \A k \in DOMAIN ch : ChunkIsFaithful(ps, ch[k], size)
  BY <1>4, <1>5 DEF ChunksOn
<1>8. ASSUME NEW n \in DOMAIN ps, Body(ps[n].blocks) # <<>>
      PROVE  /\ PiecesCover(Body(ps[n].blocks),
                            [i \in DOMAIN ChunksAt(ch, n) |-> ChunksAt(ch, n)[i].piece])
             /\ PiecesMove(Body(ps[n].blocks),
                           [i \in DOMAIN ChunksAt(ch, n) |-> ChunksAt(ch, n)[i].piece], overlap)
  <2>1. PICK lo, s : /\ s \in Seq(Spans) /\ StandAt(ch, n, lo, s)
                     /\ PiecesCover(Body(ps[n].blocks), s)
                     /\ PiecesMove(Body(ps[n].blocks), s, overlap)
    BY <1>4, <1>5, <1>8 DEF ChunksOn, SectionCut
  <2>2. [i \in DOMAIN ChunksAt(ch, n) |-> ChunksAt(ch, n)[i].piece] = s
    BY <2>1, PiecesStand
  <2> QED
    BY <2>1, <2>2
<1> QED
  BY <1>2, <1>6, <1>7, <1>8 DEF ChunksAreFaithful

\* No section, and nothing made of it, whatever it is to be cut into.
LEMMA MadeBegins ==
  ASSUME NEW size, NEW overlap
  PROVE  MadeInv(<<>>, NewRun(Sources), size, overlap)
<1>1. PICK made : made = NewRun(Sources)
  OBVIOUS
<1>2. /\ made.stack = <<>> /\ made.source = "" /\ made.next = [s \in Sources |-> 0]
      /\ made.chunks = <<>> /\ made = [stack |-> made.stack, source |-> made.source,
                                       next |-> made.next, chunks |-> made.chunks]
  BY <1>1 DEF NewRun
<1>3. PICK e : e = <<>>
  OBVIOUS
<1>4. e \in Crumbs /\ e \in Seq(ChunkSet) /\ e \in Seq(PlanSet) /\ Len(e) = 0 /\ 1..Len(e) = {}
  <2>1. \A S : e \in Seq(S)
    BY <1>3
  <2>2. Len(e) = 0 /\ 1..Len(e) = {}
    BY <1>3
  <2> QED
    BY <2>1, <2>2 DEF Crumbs
<1>5. made.next \in [Sources -> Nat]
  <2>1. [s \in Sources |-> 0] \in [Sources -> Nat]
    OBVIOUS
  <2>2. made.next = [s \in Sources |-> 0]
    BY <1>2
  <2> QED
    BY <2>1, <2>2
<1>6. made \in RunSet
  <2>1. /\ made.stack \in Crumbs /\ made.source \in Sources \cup {""}
        /\ made.chunks \in Seq(ChunkSet)
    BY <1>2, <1>3, <1>4
  <2> HIDE DEF Crumbs, ChunkSet
  <2> QED
    BY <1>2, <1>5, <2>1 DEF RunSet
<1>7. IdsAre(e, made.next)
  <2>1. \A s \in Sources : made.next[s] = 0
    BY <1>2
  <2>2. \A v \in Nat : ~(v < 0)
    OBVIOUS
  <2> QED
    BY <1>4, <2>1, <2>2 DEF IdsAre
<1>8. ChunksOn(e, e, size, overlap)
  BY <1>4 DEF ChunksOn
<1>9. StackNow(e, made.source, made.stack)
  BY <1>2, <1>3 DEF StackNow
<1> QED
  BY <1>1, <1>2, <1>3, <1>4, <1>6, <1>7, <1>8, <1>9 DEF MadeInv

\* A section without a text adds nothing.
LEMMA EmptyKeeps ==
  ASSUME NEW ps \in Seq(PlanSet), NEW p \in PlanSet, NEW qs, qs = Append(ps, p),
         p.blocks = <<>>, NEW ch, NEW size, NEW overlap, ChunksOn(ps, ch, size, overlap)
  PROVE  ChunksOn(qs, ch, size, overlap)
<1>1. \A k \in 1..Len(ch) : ch[k].plan \in 1..Len(qs) /\ ChunkIsFaithful(qs, ch[k], size)
  BY FaithStays DEF ChunksOn
<1>2. PICK m \in Nat : m = Len(ps) /\ Len(qs) = m + 1 /\ qs[m + 1] = p
                       /\ \A i \in 1..m : qs[i] = ps[i]
  BY PlansAre, PlansMore
<1>3. Body(p.blocks) = <<>>
  <2>1. p.blocks \in Seq(Seq(Char))
    BY DEF PlanSet
  <2> QED
    BY <2>1, BodyIs
<1>4. \A i \in 1..(m + 1) : i \in 1..m \/ i = m + 1
  BY <1>2
<1>5. \A i \in 1..(m + 1) : SectionCut(qs, ch, i, overlap)
  <2>1. SectionCut(qs, ch, m + 1, overlap)
    BY <1>2, <1>3 DEF SectionCut
  <2>2. ASSUME NEW i \in 1..m PROVE SectionCut(qs, ch, i, overlap)
    <3>1. qs[i] = ps[i] /\ SectionCut(ps, ch, i, overlap)
      BY <1>2 DEF ChunksOn
    <3> QED
      BY <3>1 DEF SectionCut
  <2> QED
    BY <1>4, <2>1, <2>2
<1> QED
  BY <1>1, <1>2, <1>5 DEF ChunksOn

\* One with a text adds its pieces.
LEMMA CutKeeps ==
  ASSUME NEW ps \in Seq(PlanSet), NEW p \in PlanSet, NEW qs, qs = Append(ps, p),
         NEW n \in Nat, n = Len(qs), NEW made \in RunSet, NEW size, NEW overlap,
         ChunksOn(ps, made.chunks, size, overlap), NEW path, PathGood(qs, n, path),
         NEW pieces, NEW raws, NEW overhead,
         CutGood(p.blocks, pieces, raws, size, overlap, overhead), NEW r,
         Composed(r, made, p, n, path, pieces, raws, overhead)
  PROVE  ChunksOn(qs, r.chunks, size, overlap)
<1>1. PICK m \in Nat : /\ m = Len(ps) /\ n = m + 1 /\ n \in 1..n /\ qs[n] = p
                       /\ \A i \in 1..m : qs[i] = ps[i]
  BY PlansAre, PlansMore
<1>2. PICK ch \in Seq(ChunkSet) : ch = made.chunks
  BY RunIs
<1>3. PICK N \in Nat : N = Len(ch)
  BY ChunkSeq
<1>4. PICK M \in Nat : M = Len(pieces) /\ pieces \in Seq(Spans)
  BY SpansAre DEF CutGood
<1>5. PICK dh : dh = r.chunks
  OBVIOUS
<1>6. /\ Len(dh) = N + M /\ \A k \in 1..N : dh[k] = ch[k]
      /\ \A k \in 1..M : dh[N + k] = ChunkOf(made, p, n, path, pieces[k], raws[k], k, overhead)
  BY <1>2, <1>3, <1>4, <1>5 DEF Composed
<1>7. ASSUME NEW k \in 1..N PROVE dh[k].plan \in 1..n /\ ChunkIsFaithful(qs, dh[k], size)
  <2>1. dh[k] = ch[k] /\ ch[k].plan \in 1..Len(ps) /\ ChunkIsFaithful(ps, ch[k], size)
    BY <1>2, <1>3, <1>6 DEF ChunksOn
  <2> QED
    BY <2>1, FaithStays
<1>8. ASSUME NEW k \in 1..M PROVE dh[N + k].plan \in 1..n /\ ChunkIsFaithful(qs, dh[N + k], size)
  <2>1. PieceGood(p.blocks, pieces[k], raws[k], size, overhead)
    BY <1>4 DEF CutGood
  <2>2. PICK c : c = ChunkOf(made, p, n, path, pieces[k], raws[k], k, overhead)
    OBVIOUS
  <2>3. c.plan = n /\ c.path = path /\ c.id[1] = p.source /\ ChunkGood(p.blocks, c, size)
    <3>1. /\ c.plan = n /\ c.path = path /\ c.id[1] = p.source /\ c.piece = pieces[k]
          /\ c.raw = raws[k] /\ c.size = overhead + Size(pieces[k])
      BY <2>2 DEF ChunkOf
    <3>2. ChunkGood(p.blocks, c, size)
      BY <2>1, <3>1 DEF PieceGood, ChunkGood
    <3> QED
      BY <3>1, <3>2
  <2>4. ChunkIsFaithful(qs, c, size)
    BY <1>1, <2>3, FaithfulIs
  <2> QED
    BY <1>1, <1>6, <2>2, <2>3, <2>4
<1>9. \A k \in 1..(N + M) : dh[k].plan \in 1..n /\ ChunkIsFaithful(qs, dh[k], size)
  <2>1. ASSUME NEW k \in 1..(N + M) PROVE k \in 1..N \/ \E j \in 1..M : k = N + j
    <3>1. CASE k <= N
      BY <3>1
    <3>2. CASE k > N
      <4>1. k - N \in 1..M /\ k = N + (k - N)
        BY <3>2
      <4> QED
        BY <4>1
    <3> QED
      BY <3>1, <3>2
  <2> QED
    BY <1>7, <1>8, <2>1
<1>10. /\ StandAt(dh, n, N, pieces)
       /\ \A i, lo, s : i # n /\ s \in Seq(Spans) /\ StandAt(ch, i, lo, s) => StandAt(dh, i, lo, s)
  <2>1. \A k \in 1..N : ch[k].plan < n
    <3>1. \A k \in 1..N : ch[k].plan \in 1..m
      BY <1>1, <1>2, <1>3 DEF ChunksOn
    <3>2. \A x \in 1..m : x < n
      BY <1>1
    <3> QED
      BY <3>1, <3>2
  <2> QED
    BY <1>2, <1>3, <1>4, <1>5, <2>1, ComposedStand
<1>11. SectionCut(qs, dh, n, overlap)
  <2>1. \/ Body(p.blocks) = <<>>
        \/ (PiecesCover(Body(p.blocks), pieces) /\ PiecesMove(Body(p.blocks), pieces, overlap))
    BY DEF CutGood
  <2> QED
    BY <1>1, <1>4, <1>10, <2>1 DEF SectionCut
<1>12. ASSUME NEW i \in 1..m PROVE SectionCut(qs, dh, i, overlap)
  <2>1. qs[i] = ps[i] /\ SectionCut(ps, ch, i, overlap) /\ i # n
    BY <1>1, <1>2 DEF ChunksOn
  <2>2. CASE Body(ps[i].blocks) = <<>>
    BY <2>1, <2>2 DEF SectionCut
  <2>3. CASE Body(ps[i].blocks) # <<>>
    <3>1. PICK lo, s : /\ s \in Seq(Spans) /\ StandAt(ch, i, lo, s)
                       /\ PiecesCover(Body(ps[i].blocks), s)
                       /\ PiecesMove(Body(ps[i].blocks), s, overlap)
      BY <2>1, <2>3 DEF SectionCut
    <3>2. StandAt(dh, i, lo, s)
      BY <1>10, <2>1, <3>1
    <3> QED
      BY <2>1, <3>1, <3>2 DEF SectionCut
  <2> QED
    BY <2>2, <2>3
<1>13. \A i \in 1..n : i \in 1..m \/ i = n
  BY <1>1
<1> QED
  BY <1>5, <1>6, <1>9, <1>11, <1>12, <1>13 DEF ChunksOn

LEMMA TakeKeeps ==
  ASSUME NEW ps, NEW made, NEW size \in Nat, NEW overlap \in Nat,
         MadeInv(ps, made, size, overlap), NEW p \in PlanSet, BlocksFull(p.blocks),
         NEW qs, qs = Append(ps, p)
  PROVE  MadeInv(qs, TakePlan(made, p, Len(qs), size, overlap), size, overlap)
<1>1. /\ ps \in Seq(PlanSet) /\ made \in RunSet /\ StackNow(ps, made.source, made.stack)
      /\ IdsAre(made.chunks, made.next) /\ ChunksOn(ps, made.chunks, size, overlap)
  BY DEF MadeInv
<1>2. qs \in Seq(PlanSet)
  BY <1>1, PlansMore
<1>3. PICK n \in Nat : n = Len(qs) /\ n \in 1..n /\ qs # <<>> /\ qs[n] = p
  <2>1. PICK m \in Nat : m = Len(ps) /\ Len(qs) = m + 1 /\ qs[m + 1] = p
    BY <1>1, PlansAre, PlansMore
  <2>2. m + 1 \in Nat /\ m + 1 \in 1..(m + 1) /\ m + 1 # 0 /\ Len(<<>>) = 0
    OBVIOUS
  <2> QED
    BY <2>1, <2>2
<1>4. PICK above : above = IF made.source = p.source THEN made.stack ELSE <<>>
  OBVIOUS
<1>5. PICK stack : stack = IF p.level = 0 THEN above ELSE Push(above, p.level, n)
  OBVIOUS
<1>6. PICK f : f = FirstOf(qs, n) /\ f \in 1..n /\ StackIs(stack, HeadsFrom(qs, f), FALSE, n)
  <2>1. stack = StackFor(StackOver(made.source, made.stack, p), p, n)
    BY <1>4, <1>5 DEF StackFor, StackOver
  <2>2. FirstOf(qs, n) \in 1..n /\ StackIs(stack, HeadsFrom(qs, FirstOf(qs, n)), FALSE, n)
    BY <1>1, <1>3, <2>1, StackTakes
  <2> QED
    BY <2>2
<1>7. PICK path : path = Path(stack)
  OBVIOUS
<1>8. path \in Seq(Nat) /\ PathGood(qs, n, path) /\ stack \in Crumbs
  <2>1. /\ Path(stack) \in Seq(Nat)
        /\ IsPath(Path(stack), Under([i \in DOMAIN qs |-> qs[i].level], f, n))
    BY <1>2, <1>3, <1>6, PathFrom
  <2>2. stack \in Crumbs
    BY <1>6 DEF StackIs
  <2> QED
    BY <1>6, <1>7, <2>1, <2>2 DEF PathGood
<1>9. PICK under : under = [made EXCEPT !.stack = stack, !.source = p.source]
  OBVIOUS
<1>10. /\ under \in RunSet /\ under.stack = stack /\ under.source = p.source
       /\ under.next = made.next /\ under.chunks = made.chunks
  <2>1. p.source \in Sources \cup {""}
    BY DEF PlanSet
  <2> HIDE DEF Crumbs, ChunkSet, PlanSet
  <2> QED
    BY <1>1, <1>8, <1>9, <2>1 DEF RunSet
<1>11. PICK v \in Nat : v = Overhead(p, stack)
  BY <1>8, OverheadIs
<1>12. PICK r : r = TakePlan(made, p, n, size, overlap)
  OBVIOUS
<1>13. r = IF p.blocks = <<>> THEN under
           ELSE ChunkPlan(under, p, n, path, Body(p.blocks), size, overlap, v)
  BY <1>4, <1>5, <1>7, <1>9, <1>11, <1>12 DEF TakePlan
<1>14. StackNow(qs, p.source, stack)
  BY <1>3, <1>6 DEF StackNow
<1>15. CASE p.blocks = <<>>
  <2>1. ChunksOn(qs, made.chunks, size, overlap)
    BY <1>1, <1>15, EmptyKeeps
  <2>2. r = under
    BY <1>13, <1>15
  <2>3. MadeInv(qs, r, size, overlap)
    BY <1>1, <1>2, <1>10, <1>14, <2>1, <2>2 DEF MadeInv
  <2> QED
    BY <1>3, <1>12, <2>3
<1>16. CASE p.blocks # <<>>
  <2>1. r = ChunkPlan(under, p, n, path, Body(p.blocks), size, overlap, v)
    BY <1>13, <1>16
  <2>2. PICK pieces, raws : /\ CutGood(p.blocks, pieces, raws, size, overlap, v)
                            /\ Composed(r, under, p, n, path, pieces, raws, v)
    BY <1>8, <1>10, <1>11, <1>16, <2>1, CutMakes
  <2>3. pieces \in Seq(Spans)
    BY <2>2 DEF CutGood
  <2>4. r \in RunSet /\ r.stack = stack /\ r.source = p.source
    BY <1>10, <2>2 DEF Composed
  <2>5. IdsAre(r.chunks, r.next)
    BY <1>1, <1>10, <2>2, <2>3, ComposedIds
  <2>6. ChunksOn(qs, r.chunks, size, overlap)
    BY <1>1, <1>3, <1>8, <1>10, <2>2, CutKeeps
  <2>7. MadeInv(qs, r, size, overlap)
    BY <1>2, <1>14, <2>4, <2>5, <2>6 DEF MadeInv
  <2> QED
    BY <1>3, <1>12, <2>7
<1> QED
  BY <1>15, <1>16

-----------------------------------------------------------------------------
(* Whatever the chunker is given                                           *)

\* The chunker has taken some of the sections it was given.
DocumentsInv ==
  /\ job \in Jobs \cup {NoJob} /\ Len(plans) <= Len(job.sections)
  /\ MadeInv(plans, chunking, job.size, job.overlap)

LEMMA JobsAre ==
  ASSUME NEW j \in Jobs \cup {NoJob}
  PROVE  /\ j.size \in Nat /\ j.overlap \in Nat /\ Len(j.sections) \in Nat
         /\ \A i \in 1..Len(j.sections) :
              j.sections[i] \in PlanSet /\ BlocksFull(j.sections[i].blocks)
<1> HIDE DEF PlanSet
<1>1. CASE j \in Jobs
  <2>1. j.size \in Nat /\ j.overlap \in Nat /\ j.sections \in Seq(PlanSet)
    BY <1>1, DocumentAssumption
  <2>2. \A i \in DOMAIN j.sections : BlocksFull(j.sections[i].blocks)
    BY <1>1, DocumentAssumption DEF BlocksFull
  <2> QED
    BY <2>1, <2>2
<1>2. CASE j = NoJob
  <2>1. j.size = 1 /\ j.overlap = 0 /\ j.sections = <<>>
    BY <1>2 DEF NoJob
  <2> QED
    BY <2>1
<1> QED
  BY <1>1, <1>2

LEMMA DocumentsBegin == DocumentsInit => DocumentsInv
<1> SUFFICES ASSUME DocumentsInit PROVE DocumentsInv
  OBVIOUS
<1>1. job = NoJob /\ plans = <<>> /\ chunking = NewRun(Sources)
  BY DEF DocumentsInit
<1>2. Len(plans) <= Len(job.sections)
  BY <1>1 DEF NoJob
<1> QED
  BY <1>1, <1>2, MadeBegins DEF DocumentsInv

\* Nothing is taken before there is a job, and then what is made is kept to it.
LEMMA DocumentsStep == DocumentsInv /\ ChunkerNext => DocumentsInv'
<1> SUFFICES ASSUME DocumentsInv, ChunkerNext PROVE DocumentsInv'
  OBVIOUS
<1>1. /\ plans \in Seq(PlanSet) /\ Len(plans) \in Nat /\ job \in Jobs \cup {NoJob}
      /\ Len(plans) <= Len(job.sections)
  BY PlansAre DEF DocumentsInv, MadeInv
<1>2. CASE BeginJob
  <2>1. job = NoJob /\ job' \in Jobs /\ plans' = plans /\ chunking' = chunking
    BY <1>2 DEF BeginJob
  <2>2. Len(job.sections) = 0
    BY <2>1 DEF NoJob
  <2>3. plans = <<>> /\ Len(plans) = 0
    <3>1. PICK S : S = PlanSet
      OBVIOUS
    <3>2. plans \in Seq(S) /\ Len(plans) <= 0
      BY <1>1, <2>2, <3>1
    <3> QED
      BY <3>2
  <2>4. \A size, overlap : MadeInv(plans, chunking, size, overlap)
    <3>1. \A n \in 1..0 : FALSE
      OBVIOUS
    <3>2. \A k \in 1..Len(chunking.chunks) : FALSE
      <4>1. ASSUME NEW k \in 1..Len(chunking.chunks) PROVE FALSE
        <5>1. chunking.chunks[k].plan \in 1..Len(plans)
          BY <4>1 DEF DocumentsInv, MadeInv, ChunksOn
        <5> QED
          BY <2>3, <3>1, <5>1
      <4> QED
        BY <4>1
    <3> QED
      BY <2>3, <3>1, <3>2 DEF DocumentsInv, MadeInv, ChunksOn
  <2>5. Len(plans) <= Len(job'.sections)
    BY <2>1, <2>3, JobsAre
  <2> QED
    BY <2>1, <2>4, <2>5 DEF DocumentsInv
<1>3. CASE TakeSection
  <2>1. PICK j : j = job
    OBVIOUS
  <2>2. PICK m \in Nat : m = Len(plans)
    BY <1>1
  <2>3. PICK p : p = j.sections[m + 1]
    OBVIOUS
  <2>4. PICK qs : qs = Append(plans, p)
    OBVIOUS
  <2>5. j.size \in Nat /\ j.overlap \in Nat /\ Len(j.sections) \in Nat
    BY <1>1, <2>1, JobsAre
  <2>6. m < Len(j.sections) /\ m + 1 <= Len(j.sections)
    BY <1>3, <2>1, <2>2, <2>5 DEF TakeSection
  <2>7. p \in PlanSet /\ BlocksFull(p.blocks)
    <3>1. m + 1 \in 1..Len(j.sections)
      BY <2>5, <2>6
    <3> QED
      BY <1>1, <2>1, <2>3, <3>1, JobsAre
  <2>8. qs \in Seq(PlanSet) /\ Len(qs) = m + 1 /\ qs[Len(qs)] = p
    BY <1>1, <2>2, <2>4, <2>7, PlansMore
  <2>9. plans' = qs /\ job' = j
    BY <1>3, <2>1, <2>2, <2>3, <2>4 DEF TakeSection
  <2>10. chunking' = TakePlan(chunking, p, Len(qs), j.size, j.overlap)
    <3>1. Last(qs) = p
      BY <2>8 DEF Last
    <3> QED
      BY <1>3, <2>1, <2>9, <3>1 DEF TakeSection
  <2>11. MadeInv(qs, chunking', j.size, j.overlap)
    <3>1. MadeInv(plans, chunking, j.size, j.overlap)
      BY <2>1 DEF DocumentsInv
    <3> QED
      BY <2>4, <2>5, <2>7, <2>10, <3>1, TakeKeeps
  <2> QED
    BY <1>1, <2>1, <2>6, <2>8, <2>9, <2>11 DEF DocumentsInv
<1> QED
  BY <1>2, <1>3 DEF ChunkerNext

\* The chunks of a document have all of its text, whatever its sections and the
\* size and overlap asked for: the pieces of a section cover its text, go forward
\* and overlap as far as asked, each with its raw text, the headings it stands
\* under and an id of its own, and within the size as far as it can be.
THEOREM ChunksAreWholeRight == ChunkerSpec => []ChunksAreWhole
<1>1. DocumentsInv /\ UNCHANGED chunkerVars => DocumentsInv'
  BY DEF DocumentsInv, chunkerVars
<1>2. DocumentsInv => ChunksAreWhole
  BY MadeIsFaithful DEF DocumentsInv, ChunksAreWhole
<1> QED
  BY <1>1, <1>2, DocumentsBegin, DocumentsStep, PTL DEF ChunkerSpec

-----------------------------------------------------------------------------
(* Ingest as a whole                                                       *)

\* A run of the ingest as a whole is a run of the table's ingest, of the feed,
\* of the readers and of the chunker: what holds of each of them holds of it,
\* whatever the others do meanwhile.
THEOREM KnowledgeIsItsParts == KnowledgeSpec => Spec /\ FeedSpec /\ ReaderSpec /\ ChunkerSpec
<1>1. KnowledgeInit => Init /\ FeedInit /\ ReadersInit /\ DocumentsInit
  BY DEF KnowledgeInit, DocumentsInit
<1>2. ASSUME [KnowledgeNext]_<<vars, feedVars, documentVars>>
      PROVE  [Next]_vars /\ [FeedNext]_feedVars /\ [ReaderNext]_readerVars /\ [ChunkerNext]_chunkerVars
  <2>1. CASE RunOnly
    BY <2>1, Zenon DEF RunOnly, documentVars
  <2>2. CASE FeedOnly
    BY <2>2, Zenon DEF FeedOnly, documentVars
  <2>3. CASE ReaderOnly
    BY <2>3, Zenon DEF ReaderOnly
  <2>4. CASE ChunkerOnly
    <3>1. readerVars' = readerVars
      BY <2>4 DEF ChunkerOnly, ChunkerNext, BeginJob, TakeSection
    <3> QED
      BY <2>4, <3>1, Zenon DEF ChunkerOnly
  <2>5. CASE UNCHANGED <<vars, feedVars, documentVars>>
    BY <2>5, Zenon DEF documentVars
  <2> QED
    BY <1>2, <2>1, <2>2, <2>3, <2>4, <2>5, Zenon DEF KnowledgeNext
<1> QED
  BY <1>1, <1>2, PTL DEF KnowledgeSpec, Spec, FeedSpec, ReaderSpec, ChunkerSpec
=============================================================================
