------------------------------ MODULE WikiFeed ------------------------------
(***************************************************************************)
(* Where a Confluence ingest gets its documents from: the listing of pages *)
(* batch by batch, the page and its attachments one request after another, *)
(* the repeats of a request that failed, and the cleanup chosen for it     *)
(* all.  Meanwhile the wiki goes on changing.                              *)
(*                                                                         *)
(* How the run writes and how it is dropped is IndexRun's matter; here a   *)
(* source is in the collection or not, the run has refreshed it or not,    *)
(* and a run that fails is over at once.                                   *)
(***************************************************************************)
EXTENDS Integers, Sequences, FiniteSets, SequencesExt

CONSTANTS
  WikiPage,       \* ids of pages
  Attachment,     \* attachments
  AttachedTo,     \* the page of each
  Unreadable,     \* attachments whose reader gives up (IncompatibleContentError)
  PageWorkers,    \* page_workers
  PageLimit,      \* how many pages the wiki lists in an answer
  RetryAttempts,  \* retry_attempts of the web profile
  FirstSpace,     \* what the space may list at first
  Pruned,         \* values of prune_missing
  Forced,         \* values of force_update
  Asked,          \* None for a listing, or page ids
  Wanted,         \* what the attachment filter may let through
  None,
  MaxChanges      \* bound: how often the wiki changes

ASSUME FeedAssumption ==
  /\ PageWorkers \in Nat \ {0} /\ PageLimit \in Nat \ {0} /\ RetryAttempts \in Nat \ {0}
  /\ AttachedTo \in [Attachment -> WikiPage] /\ Unreadable \subseteq Attachment
  /\ IsFiniteSet(Attachment) /\ WikiPage \cap Attachment = {}
  /\ None \notin WikiPage /\ None \notin Nat /\ Asked \subseteq {None} \cup Seq(WikiPage)
  /\ FirstSpace \subseteq Seq(WikiPage) /\ Wanted \subseteq SUBSET Attachment
  /\ Pruned \subseteq BOOLEAN /\ Forced \subseteq BOOLEAN /\ MaxChanges \in Nat

VARIABLES
  space,    \* the wiki: its pages, in the order it lists them
  changes,  \* how often it changed
  ingest,   \* the run: phase, parameters, cleanup
  lister,   \* the paginator: where it is, what it has left, tries of its request
  slot,     \* the tasks: page, what is still to fetch, what is read and not
            \* written yet, tries of the request
  stored,   \* sources in the collection
  fresh,    \* those that this run has written or found unchanged
  told,     \* how each page was reported
  constant  \* pages in the space all along, as long as the listing was whole

feedVars == <<space, changes, ingest, lister, slot, stored, fresh, told, constant>>

PageOfSource(s) == IF s \in Attachment THEN AttachedTo[s] ELSE s
Free == [page |-> None, todo |-> <<>>, read |-> {}, tries |-> 0]
NoListing == [at |-> None, queue |-> <<>>, tries |-> 0]

FeedInit ==
  /\ space \in FirstSpace /\ changes = 0
  /\ ingest = [phase |-> "idle", prune |-> FALSE, force |-> FALSE, wanted |-> {}]
  /\ lister = NoListing /\ slot = [w \in 1..PageWorkers |-> Free]
  /\ stored = ToSet(space) \cup {a \in Attachment : AttachedTo[a] \in ToSet(space)}
  /\ fresh = {} /\ told = [p \in WikiPage |-> "none"] /\ constant = {}

-----------------------------------------------------------------------------
(* The wiki                                                                *)

\* A page of the wiki is gone; what is listed after it moves up.
RemovePage(i) ==
  /\ changes < MaxChanges /\ changes' = changes + 1
  /\ i \in DOMAIN space /\ space' = RemoveAt(space, i)
  /\ constant' = IF lister.at # None /\ i <= lister.at THEN {} ELSE constant \ {space[i]}
  /\ UNCHANGED <<ingest, lister, slot, stored, fresh, told>>

\* A page is new; it may be listed anywhere.
AddPage(p, i) ==
  /\ changes < MaxChanges /\ changes' = changes + 1
  /\ p \notin ToSet(space) /\ i \in 1..(Len(space) + 1)
  /\ space' = InsertAt(space, i, p)
  /\ UNCHANGED <<ingest, lister, slot, stored, fresh, told, constant>>

-----------------------------------------------------------------------------
(* The run                                                                 *)

\* IngestOps.source: a listing begins at the front, named pages need none.
StartIngest(prune, force, wanted, pages) ==
  /\ ingest.phase = "idle"
  /\ ingest' = [phase |-> "feeding", prune |-> prune, force |-> force, wanted |-> wanted]
  /\ lister' = IF pages = None THEN [NoListing EXCEPT !.at = 0]
               ELSE [NoListing EXCEPT !.queue = pages]
  /\ constant' = ToSet(space) \cap (IF pages = None THEN WikiPage ELSE ToSet(pages))
  /\ UNCHANGED <<space, changes, slot, stored, fresh, told>>

Feeding == ingest.phase = "feeding"
IsFree(w) == slot[w].page = None

\* Mutation: the offset is that of the next batch minus one.
ListBatchTwice ==
  /\ Feeding /\ lister.at # None /\ lister.queue = <<>> /\ \E w \in DOMAIN slot : IsFree(w)
  /\ LET to == lister.at + PageLimit
     IN lister' = [at |-> IF to < Len(space) THEN to + 1 ELSE None, tries |-> 0,
                   queue |-> SubSeq(space, lister.at + 1, IF to < Len(space) THEN to ELSE Len(space))]
  /\ UNCHANGED <<space, changes, ingest, slot, stored, fresh, told, constant>>

\* ConfluencePaginator: when a task is free and nothing is left of the batch,
\* the next one is asked for, until an answer has no next link.
ListBatch ==
  /\ Feeding /\ lister.at # None /\ lister.queue = <<>> /\ \E w \in DOMAIN slot : IsFree(w)
  /\ LET to == lister.at + PageLimit
     IN lister' = [at |-> IF to < Len(space) THEN to ELSE None, tries |-> 0,
                   queue |-> SubSeq(space, lister.at + 1, IF to < Len(space) THEN to ELSE Len(space))]
  /\ UNCHANGED <<space, changes, ingest, slot, stored, fresh, told, constant>>

\* ConfluenceJson is patient: an answer without results or a next link is an
\* empty batch and the last one.
ListNothing ==
  /\ Feeding /\ lister.at # None /\ lister.queue = <<>> /\ \E w \in DOMAIN slot : IsFree(w)
  /\ lister' = NoListing /\ constant' = {}
  /\ UNCHANGED <<space, changes, ingest, slot, stored, fresh, told>>

\* A page goes to a free task; the page itself is its first request.
TakePage(w) ==
  /\ Feeding /\ lister.queue # <<>> /\ IsFree(w) /\ \A v \in 1..(w - 1) : ~IsFree(v)
  /\ slot' = [slot EXCEPT ![w] = [Free EXCEPT !.page = Head(lister.queue), !.todo = <<Head(lister.queue)>>]]
  /\ lister' = [lister EXCEPT !.queue = Tail(@)]
  /\ UNCHANGED <<space, changes, ingest, stored, fresh, told, constant>>

\* An error that is no IndexingError ends the run: the tasks are cancelled and
\* nothing is cleaned up.
Aborted ==
  /\ ingest' = [ingest EXCEPT !.phase = "aborted"]
  /\ slot' = [w \in DOMAIN slot |-> Free] /\ lister' = NoListing

\* RetryPolicy.more, before the attempt is counted
Again(tries) == tries + 1 < RetryAttempts

\* _open_with_retry: a transport error or a 5xx is tried again, up to
\* retry_attempts; a 4xx and a broken body are not.
ListFails(retryable) ==
  /\ Feeding /\ lister.at # None /\ lister.queue = <<>> /\ \E w \in DOMAIN slot : IsFree(w)
  /\ IF retryable /\ Again(lister.tries)
       THEN lister' = [lister EXCEPT !.tries = @ + 1] /\ UNCHANGED <<ingest, slot>>
       ELSE Aborted
  /\ UNCHANGED <<space, changes, stored, fresh, told, constant>>

FetchBreaks(w, retryable) ==
  /\ Feeding /\ ~IsFree(w) /\ slot[w].todo # <<>>
  /\ IF retryable /\ Again(slot[w].tries)
       THEN slot' = [slot EXCEPT ![w].tries = @ + 1] /\ UNCHANGED <<ingest, lister>>
       ELSE Aborted
  /\ UNCHANGED <<space, changes, stored, fresh, told, constant>>

\* The attachments of a page that the filter lets through
ToFetch(p) == SetToSeq({a \in Attachment : AttachedTo[a] = p /\ a \in ingest.wanted})

\* fetch of ConfluenceContentTransport: the page, then its attachments.  A page
\* that is gone answers 404.
FetchPage(w) ==
  /\ Feeding /\ ~IsFree(w) /\ slot[w].todo # <<>> /\ Head(slot[w].todo) = slot[w].page
  /\ IF slot[w].page \in ToSet(space)
       THEN /\ slot' = [slot EXCEPT ![w].todo = ToFetch(slot[w].page), ![w].tries = 0,
                                    ![w].read = {slot[w].page}]
            /\ UNCHANGED <<ingest, lister>>
       ELSE Aborted
  /\ UNCHANGED <<space, changes, stored, fresh, told, constant>>

\* Mutation: the task of a page that failed goes on.
FetchAttachmentAnyway(w) ==
  /\ Feeding /\ ~IsFree(w) /\ slot[w].todo # <<>> /\ Head(slot[w].todo) # slot[w].page
  /\ LET a == Head(slot[w].todo)
     IN IF a \in Unreadable
          THEN told' = [told EXCEPT ![slot[w].page] = "failed"] /\ UNCHANGED slot
          ELSE /\ slot' = [slot EXCEPT ![w].todo = Tail(@), ![w].tries = 0, ![w].read = @ \cup {a}]
               /\ UNCHANGED told
  /\ UNCHANGED <<space, changes, ingest, lister, stored, fresh, constant>>

\* A reader that gives up fails its page: what is after it is not fetched, what
\* was read and is not written is lost.
FetchAttachment(w) ==
  /\ Feeding /\ ~IsFree(w) /\ slot[w].todo # <<>> /\ Head(slot[w].todo) # slot[w].page
  /\ LET a == Head(slot[w].todo)
     IN IF a \in Unreadable
          THEN /\ told' = [told EXCEPT ![slot[w].page] = "failed"]
               /\ slot' = [slot EXCEPT ![w] = Free]
          ELSE /\ slot' = [slot EXCEPT ![w].todo = Tail(@), ![w].tries = 0, ![w].read = @ \cup {a}]
               /\ UNCHANGED told
  /\ UNCHANGED <<space, changes, ingest, lister, stored, fresh, constant>>

Written(w) == stored' = stored \cup slot[w].read /\ fresh' = fresh \cup slot[w].read

\* reconcile: a batch is full.  How many chunks a source has is left open.
WriteBatch(w) ==
  /\ Feeding /\ ~IsFree(w) /\ slot[w].read # {}
  /\ Written(w) /\ slot' = [slot EXCEPT ![w].read = {}]
  /\ UNCHANGED <<space, changes, ingest, lister, told, constant>>

\* SourceIndexed or SourceSkippedUnchanged, after the last batch
PageDone(w) ==
  /\ Feeding /\ ~IsFree(w) /\ slot[w].todo = <<>>
  /\ Written(w) /\ slot' = [slot EXCEPT ![w] = Free]
  /\ told' = [told EXCEPT ![slot[w].page] = "touched"]
  /\ UNCHANGED <<space, changes, ingest, lister, constant>>

\* prune_missing: all that the run did not refresh.  force_update: of the pages
\* it got through only.
Stale ==
  {s \in stored \ fresh :
     ingest.prune \/ (ingest.force /\ told[PageOfSource(s)] = "touched")}

Cleanup ==
  /\ Feeding /\ lister.at = None /\ lister.queue = <<>> /\ \A w \in DOMAIN slot : IsFree(w)
  /\ stored' = stored \ Stale
  /\ ingest' = [ingest EXCEPT !.phase = "finished"]
  /\ UNCHANGED <<space, changes, lister, slot, fresh, told, constant>>

-----------------------------------------------------------------------------
SlotStep(w) ==
  TakePage(w) \/ FetchPage(w) \/ FetchAttachment(w) \/ WriteBatch(w) \/ PageDone(w)
\* What a run does by itself, as long as the wiki answers
FeedStep == ListBatch \/ Cleanup \/ \E w \in DOMAIN slot : SlotStep(w)

FeedNext ==
  \/ \E i \in DOMAIN space : RemovePage(i)
  \/ \E p \in WikiPage, i \in 1..(Len(space) + 1) : AddPage(p, i)
  \/ \E prune \in Pruned, force \in Forced, wanted \in Wanted, pages \in Asked :
       StartIngest(prune, force, wanted, pages)
  \/ FeedStep \/ ListNothing
  \/ \E retryable \in BOOLEAN :
       ListFails(retryable) \/ \E w \in DOMAIN slot : FetchBreaks(w, retryable)

FeedSpec == FeedInit /\ [][FeedNext]_feedVars
FeedFairness == WF_feedVars(FeedStep)

-----------------------------------------------------------------------------
(* Properties                                                              *)

\* A cleanup takes nothing of a page that was in the space all along and was
\* asked for, as long as nothing in front of the listing went away meanwhile
\* and every answer to it was one:
\* its page, and the attachments that the filter lets through.  Pages a reader
\* failed on are not spared: a full cleanup takes what was not refreshed.
CleanupSparesListed ==
  [][\A s \in stored \ stored' :
       \/ PageOfSource(s) \notin constant \/ told[PageOfSource(s)] = "failed"
       \/ s \in Attachment \ ingest.wanted]_feedVars

\* However often requests fail and the wiki changes, an ingest ends: each
\* request is tried a limited number of times.
IngestEnds == Feeding ~> ingest.phase \in {"finished", "aborted"}
=============================================================================
