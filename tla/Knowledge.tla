----------------------------- MODULE Knowledge -----------------------------
(***************************************************************************)
(* Ingest as a whole: the documents of the wiki (WikiFeed), how they are   *)
(* cut into chunks (Documents), and how the chunks get into the table      *)
(* (IndexRun).                                                             *)
(***************************************************************************)
EXTENDS IndexRun, WikiFeed, Documents

KnowledgeInit == Init /\ FeedInit /\ DocumentsInit

RunOnly == Next /\ UNCHANGED <<feedVars, documentVars>>
FeedOnly == FeedNext /\ UNCHANGED <<vars, documentVars>>
ReaderOnly == ReaderNext /\ UNCHANGED <<vars, feedVars, chunkerVars>>
ChunkerOnly == ChunkerNext /\ UNCHANGED <<vars, feedVars>>
KnowledgeNext == RunOnly \/ FeedOnly \/ ReaderOnly \/ ChunkerOnly

KnowledgeFairness ==
  /\ WF_vars(RunStep) /\ \A p \in Page : WF_vars(TaskStep(p))
  /\ FeedFairness
KnowledgeSpec ==
  KnowledgeInit /\ [][KnowledgeNext]_<<vars, feedVars, documentVars>> /\ KnowledgeFairness
=============================================================================
