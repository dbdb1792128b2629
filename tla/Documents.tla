----------------------------- MODULE Documents -----------------------------
(***************************************************************************)
(* The chunker as it takes one section of a document after another, beside *)
(* the readers of Sections: what the chunker of TextChunks makes of        *)
(* everything that may come.                                               *)
(***************************************************************************)
EXTENDS TextChunks

CONSTANTS Sources,  \* documents that sections come from
          Jobs      \* what the chunker may be given: its parameters and the
                    \* sections, as their plans

\* FormatPlan, as Plan gives it
PlanSet == [source : Sources, level : Nat, blocks : Seq(Seq(Char)), extra : Nat]

\* Where a section has several blocks (the rows of a table), none of them is
\* empty: those of sections.py have one, with all of their text.
ASSUME DocumentAssumption ==
  \A job \in Jobs :
    /\ job.size \in Nat \ {0} /\ job.overlap \in Nat /\ job.sections \in Seq(PlanSet)
    /\ \A i \in DOMAIN job.sections :
         LET blocks == job.sections[i].blocks
         IN Len(blocks) = 1 \/ \A k \in DOMAIN blocks : blocks[k] # <<>>

VARIABLES job,      \* what the chunker works on
          plans,    \* the sections it has taken
          chunking  \* and what it has made of them

chunkerVars == <<job, plans, chunking>>
documentVars == <<readerVars, chunkerVars>>

NoJob == [size |-> 1, overlap |-> 0, sections |-> <<>>]

DocumentsInit ==
  /\ ReadersInit
  /\ job = NoJob /\ plans = <<>> /\ chunking = NewRun(Sources)

\* A chunker is built (StructuralChunkerFactory) for a stream of sections.
BeginJob ==
  /\ job = NoJob /\ job' \in Jobs
  /\ UNCHANGED <<readerVars, plans, chunking>>

\* It takes the next section; documents come one after another, and one may
\* come back.
TakeSection ==
  /\ Len(plans) < Len(job.sections)
  /\ plans' = Append(plans, job.sections[Len(plans) + 1])
  /\ chunking' = TakePlan(chunking, Last(plans'), Len(plans'), job.size, job.overlap)
  /\ UNCHANGED <<readerVars, job>>

ChunkerNext == BeginJob \/ TakeSection
ChunkerSpec == DocumentsInit /\ [][ChunkerNext]_chunkerVars

\* The chunks of a document have all of its text and say where it stands, and
\* keep to the size and the overlap they were asked for.
ChunksAreWhole == ChunksAreFaithful(Sources, plans, chunking.chunks, job.size, job.overlap)
=============================================================================
