------------------------------ MODULE IndexRun ------------------------------
(***************************************************************************)
(* Ingest runs over the knowledge base: Pipeline.index with its worker     *)
(* tasks, CollectionScopedView.reconcile and the cleanup that follows.     *)
(*                                                                         *)
(* Runs come one after another, each over pages that were edited since.    *)
(* Within a run up to Workers tasks process a page each; a step goes to    *)
(* the next statement sent to the database.  A task ends with an event, or *)
(* with an exception that is not an IndexingError ("broken") and ends the  *)
(* run when it is harvested.                                               *)
(***************************************************************************)
EXTENDS ChunkStore, Sequences, FiniteSetsExt

CONSTANTS Workers,     \* IndexerConfig.workers
          BatchSize,   \* CollectionScopedView.batch_size
          Strategy,    \* cleanup strategies a run may be started with
          ForceUpdate, \* values of force_update
          Versions,    \* the texts a page and its attachments may be cut into
          Listing,     \* the sets of pages a run may be asked for
          FirstOrigin, \* what the wiki may hold at first
          Earlier,     \* how many runs came before
          FirstRows,   \* the tables they may have left
          MaxRuns, MaxEdits, MaxFaults  \* bounds

\* A chunk on its way to the table: the id and the hash of its text.
Passage == [id : Chunk, hash : Content]

\* An id holds the digest of its source and the number of the chunk in it, so
\* that it is no other page's and comes once in a text.
ASSUME IndexAssumption ==
  /\ Workers \in Nat \ {0} /\ BatchSize \in Nat \ {0}
  /\ Strategy \subseteq {"none", "incremental", "full", "page"}
  /\ Strategy # {} /\ ForceUpdate # {} /\ Collection # {} /\ ForceUpdate \subseteq BOOLEAN
  /\ Versions \in [Page -> SUBSET Seq(Passage)]
  /\ \A p \in Page : \A text \in Versions[p] : \A i, j \in 1..Len(text) :
       PageOf[text[i].id] = p /\ (text[i].id = text[j].id => i = j)
  /\ Listing \subseteq SUBSET Page
  /\ \A o \in FirstOrigin : DOMAIN o = Page /\ \A p \in Page : o[p] \in Versions[p]
  /\ Earlier \in Nat /\ FirstRows \subseteq [Chunk -> Row \cup {NoRow}]
  /\ MaxRuns \in Nat /\ MaxEdits \in Nat /\ MaxFaults \in Nat

VARIABLES
  origin,  \* the text of each page and its attachments, as the wiki has them now
  rows,    \* the chunk table
  run,     \* parameters and phase of the current (or last) run
  feed,    \* requests the source has not yielded yet
  task,    \* the task of each page
  report,  \* the event each page was reported with
  doomed,  \* ids the cleanup has found and not deleted yet
  edits, faults

vars == <<origin, rows, run, feed, task, report, doomed, edits, faults>>

Running == {"feeding", "cleaning", "dropping"}
Busy == {"fetching", "diffing", "upserting", "touching"}
Ended == {"indexed", "skipped", "failed", "broken"}

\* The current batch, as in _abatched.
BatchEnd(t) == Min({t.at + BatchSize, Len(t.text)})
Batch(t) == {t.text[i] : i \in (t.at + 1)..BatchEnd(t)}

NoTask == [st |-> "none", text |-> <<>>, at |-> 0, dirty |-> {}, upserted |-> 0]

\* pending of _index_sources: tasks that were not harvested, done or not.
Pending == {p \in Page : task[p].st # "none"}
Done == {p \in Page : task[p].st \in Ended}
Touched == {p \in Page : report[p] \in {"indexed", "skipped"}}

Init ==
  /\ origin \in FirstOrigin
  /\ rows \in FirstRows
  /\ run = [phase |-> "idle", start |-> Earlier, coll |-> CHOOSE k \in Collection : TRUE,
            cleanup |-> CHOOSE s \in Strategy : TRUE,
            force |-> CHOOSE f \in ForceUpdate : TRUE, pages |-> {}]
  /\ feed = {} /\ task = [p \in Page |-> NoTask]
  /\ report = [p \in Page |-> "none"] /\ doomed = {}
  /\ edits = 0 /\ faults = 0

Fault == faults < MaxFaults /\ faults' = faults + 1

\* Somebody edits a page of the wiki.  A run reads a page once, so an edit
\* during the run is one before it or one after it.
Edit(p) ==
  /\ run.phase \notin Running
  /\ edits < MaxEdits /\ edits' = edits + 1
  /\ \E text \in Versions[p] \ {origin[p]} : origin' = [origin EXCEPT ![p] = text]
  /\ UNCHANGED <<rows, run, feed, task, report, doomed, faults>>

-----------------------------------------------------------------------------
(* The run: RunStarted to RunFinished                                      *)

RunStart(k, s, f, pages) ==
  /\ run.phase \notin Running /\ run.start < MaxRuns
  /\ run' = [phase |-> "feeding", start |-> run.start + 1, coll |-> k,
             cleanup |-> s, force |-> f, pages |-> pages]
  /\ feed' = pages
  /\ task' = [p \in Page |-> NoTask] /\ report' = [p \in Page |-> "none"]
  /\ UNCHANGED <<origin, rows, doomed, edits, faults>>

\* The source yields a request and there is a free worker.
Spawn(p) ==
  /\ run.phase = "feeding" /\ p \in feed
  /\ Cardinality(Pending) < Workers
  /\ feed' = feed \ {p}
  /\ task' = [task EXCEPT ![p] = [NoTask EXCEPT !.st = "fetching"]]
  /\ UNCHANGED <<origin, rows, run, report, doomed, edits, faults>>

\* The listing of pages raises: the run is dropped.
FeedFails ==
  /\ run.phase = "feeding" /\ feed # {} /\ Cardinality(Pending) < Workers /\ Fault
  /\ run' = [run EXCEPT !.phase = "dropping"]
  /\ UNCHANGED <<origin, rows, feed, task, report, doomed, edits>>

\* Mutation: the harvest starts one task later than the spawning stops.
WaitingTooLong ==
  run.phase = "feeding" /\ (Cardinality(Pending) > Workers \/ feed = {})

\* _harvest waits while the workers are all taken, and again for those left
\* when the source has no more requests.
Waiting == run.phase = "feeding" /\ (Cardinality(Pending) >= Workers \/ feed = {})

\* All finished tasks are taken at once; the result of a broken one raises,
\* and the events of the others are lost with it.
Harvest ==
  /\ Waiting /\ Done # {}
  /\ IF \E p \in Done : task[p].st = "broken"
       THEN /\ run' = [run EXCEPT !.phase = "dropping"]
            /\ UNCHANGED <<task, report>>
       ELSE /\ report' = [p \in Page |-> IF p \in Done THEN task[p].st
                                                       ELSE report[p]]
            /\ task' = [p \in Page |-> IF p \in Done
                                         THEN [task[p] EXCEPT !.st = "none"]
                                         ELSE task[p]]
            /\ UNCHANGED run
  /\ UNCHANGED <<origin, rows, feed, doomed, edits, faults>>

\* CleanupStarted: every source is in; the stale rows are looked up.
CleanupStarts ==
  /\ run.phase = "feeding" /\ feed = {} /\ Pending = {}
  /\ run' = [run EXCEPT !.phase = "cleaning"]
  /\ doomed' = FindStale(rows, run.coll, run.cleanup, Touched, run.start)
  /\ UNCHANGED <<origin, rows, feed, task, report, edits, faults>>

DeleteBatch ==
  /\ run.phase = "cleaning" /\ doomed # {}
  /\ \E ids \in SUBSET doomed :
       /\ Cardinality(ids) = Min({BatchSize, Cardinality(doomed)})
       /\ rows' = Delete(rows, run.coll, ids)
       /\ doomed' = doomed \ ids
  /\ UNCHANGED <<origin, run, feed, task, report, edits, faults>>

\* ChunksDeleted and RunFinished.
CleanupEnds ==
  /\ run.phase = "cleaning" /\ doomed = {}
  /\ run' = [run EXCEPT !.phase = "finished"]
  /\ UNCHANGED <<origin, rows, feed, task, report, doomed, edits, faults>>

CleanupFails ==
  /\ run.phase = "cleaning" /\ Fault
  /\ run' = [run EXCEPT !.phase = "aborted"]
  /\ doomed' = {}
  /\ UNCHANGED <<origin, rows, feed, task, report, edits>>

\* The consumer of the events is cancelled.
Abandon ==
  /\ run.phase \in {"feeding", "cleaning"} /\ Fault
  /\ run' = [run EXCEPT !.phase = IF @ = "feeding" THEN "dropping" ELSE "aborted"]
  /\ doomed' = {}
  /\ UNCHANGED <<origin, rows, feed, task, report, edits>>

-----------------------------------------------------------------------------
(* One source: _process_source, and reconcile batch by batch               *)

Working(p, st) == run.phase = "feeding" /\ task[p].st = st

\* What a task does when it is through with its batches.
Outcome(t) == IF t.upserted = 0 THEN "skipped" ELSE "indexed"

\* The task after the current batch.
NextBatch(t) ==
  LET after == [t EXCEPT !.at = BatchEnd(t), !.dirty = {},
                         !.upserted = @ + Cardinality(t.dirty)]
  IN [after EXCEPT !.st = IF after.at = Len(t.text) THEN Outcome(after) ELSE "diffing"]

\* The page and its attachments are read and cut.
Fetch(p) ==
  /\ Working(p, "fetching")
  /\ task' = [task EXCEPT ![p].text = origin[p],
                          ![p].st = IF origin[p] = <<>> THEN "skipped" ELSE "diffing"]
  /\ UNCHANGED <<origin, rows, run, feed, report, doomed, edits, faults>>

\* httpx errors are no IndexingError, so nobody turns them into SourceFailed.
FetchFails(p) ==
  /\ Working(p, "fetching") /\ Fault
  /\ task' = [task EXCEPT ![p].st = "broken"]
  /\ UNCHANGED <<origin, rows, run, feed, report, doomed, edits>>

\* A reader gives up on a document, before the first batch or between two.
ReaderFails(p) ==
  /\ Working(p, "fetching") \/ Working(p, "diffing")
  /\ Fault
  /\ task' = [task EXCEPT ![p].st = "failed"]
  /\ UNCHANGED <<origin, rows, run, feed, report, doomed, edits>>

Diff(p) ==
  /\ Working(p, "diffing")
  /\ LET batch == Batch(task[p])
         dirty == IF run.force THEN batch ELSE DiffByHash(rows, run.coll, batch)
     IN task' = [task EXCEPT ![p].dirty = dirty,
                             ![p].st = IF dirty = {} THEN "touching" ELSE "upserting"]
  /\ UNCHANGED <<origin, rows, run, feed, report, doomed, edits, faults>>

UpsertDirty(p) ==
  /\ Working(p, "upserting")
  /\ rows' = Upsert(rows, run.coll, task[p].dirty)
  /\ task' = [task EXCEPT ![p] = IF @.dirty = Batch(@) THEN NextBatch(@)
                                 ELSE [@ EXCEPT !.st = "touching"]]
  /\ UNCHANGED <<origin, run, feed, report, doomed, edits, faults>>

Unchanged(t) == {x.id : x \in Batch(t) \ t.dirty}

TouchUnchanged(p) ==
  /\ Working(p, "touching")
  /\ rows' = Heartbeat(rows, run.coll, Unchanged(task[p]), run.start)
  /\ task' = [task EXCEPT ![p] = NextBatch(@)]
  /\ UNCHANGED <<origin, run, feed, report, doomed, edits, faults>>

\* The embedder or the database raises something of its own.
StoreFails(p) ==
  /\ run.phase = "feeding" /\ task[p].st \in Busy \ {"fetching"} /\ Fault
  /\ task' = [task EXCEPT ![p].st = "broken"]
  /\ UNCHANGED <<origin, rows, run, feed, report, doomed, edits>>

-----------------------------------------------------------------------------
(* _drop: the tasks are cancelled and waited for; a statement already on   *)
(* its way may still be carried out.                                       *)

Dropped(p) ==
  /\ run.phase = "dropping" /\ task[p].st # "none"
  /\ \/ UNCHANGED rows
     \/ /\ task[p].st = "upserting"
        /\ rows' = Upsert(rows, run.coll, task[p].dirty)
     \/ /\ task[p].st = "touching"
        /\ rows' = Heartbeat(rows, run.coll, Unchanged(task[p]), run.start)
  /\ task' = [task EXCEPT ![p] = NoTask]
  /\ UNCHANGED <<origin, run, feed, report, doomed, edits, faults>>

DropEnds ==
  /\ run.phase = "dropping" /\ Pending = {}
  /\ run' = [run EXCEPT !.phase = "aborted"]
  /\ UNCHANGED <<origin, rows, feed, task, report, doomed, edits, faults>>

-----------------------------------------------------------------------------
\* What a run does by itself, as long as the wiki and the database answer.
TaskStep(p) ==
  Fetch(p) \/ Diff(p) \/ UpsertDirty(p) \/ TouchUnchanged(p) \/ Dropped(p)
RunStep ==
  \/ \E p \in Page : Spawn(p)
  \/ Harvest \/ CleanupStarts \/ DeleteBatch \/ CleanupEnds \/ DropEnds

Failure ==
  \/ FeedFails \/ CleanupFails \/ Abandon
  \/ \E p \in Page : FetchFails(p) \/ ReaderFails(p) \/ StoreFails(p)

Next ==
  \/ \E p \in Page : Edit(p)
  \/ \E k \in Collection, s \in Strategy, f \in ForceUpdate, pages \in Listing :
       RunStart(k, s, f, pages)
  \/ RunStep \/ Failure \/ \E p \in Page : TaskStep(p)

Spec == Init /\ [][Next]_vars
FairSpec == Spec /\ WF_vars(RunStep) /\ \A p \in Page : WF_vars(TaskStep(p))

-----------------------------------------------------------------------------
(* Properties                                                              *)

\* A page that was reported as indexed or unchanged is in the collection as
\* it was read, and stays there until the next run: neither a worker of
\* another page, nor the cleanup, nor the way out of an aborted run takes a
\* chunk of it away.
ReportedIsStored ==
  \A p \in Touched : \A i \in DOMAIN task[p].text :
    LET x == task[p].text[i]
    IN InScope(rows, run.coll, x.id) /\ rows[x.id].hash = x.hash

\* A row disappears only in a run that has heard from every page it listed;
\* and every strategy but the full one leaves alone the rows of the pages the
\* run did not get: not listed, failed, or of another collection.
CleanupSparesTheRest ==
  [][\A c \in Chunk : rows[c] # NoRow /\ rows'[c] = NoRow =>
       /\ rows[c].coll = run.coll
       /\ \A p \in run.pages : report[p] # "none"
       /\ run.cleanup # "full" => PageOf[c] \in Touched]_vars

\* A run comes to an end, whatever fails on the way.
RunEnds == run.phase \in Running ~> run.phase \in {"finished", "aborted"}
=============================================================================
