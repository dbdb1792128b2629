----------------------------- MODULE TextChunks -----------------------------
(***************************************************************************)
(* StructuralChunker cuts the sections of a document, as the readers of    *)
(* Sections give them, into chunks and writes the headings they stand      *)
(* under into them.                                                        *)
(***************************************************************************)
EXTENDS Splitter, Sections

-----------------------------------------------------------------------------
(* StructuralChunker                                                       *)

\* FormatPlan of a section: its blocks, what is repeated in every chunk, and
\* its level as a heading (0: it is none)
Plan(source, level, blocks, extra) ==
  [source |-> source, level |-> level, blocks |-> blocks, extra |-> extra]

\* _build_body: the blocks with a blank line between them, of the first n of
\* them, and where each begins
Glue == <<"newline", "newline">>
Bodies(blocks) ==
  LET body[n \in 0..Len(blocks)] ==
        IF n = 0 THEN <<>>
        ELSE IF n = 1 THEN blocks[1] ELSE body[n - 1] \o Glue \o blocks[n]
  IN body
Body(blocks) == Bodies(blocks)[Len(blocks)]
Start(blocks, k) == Len(Bodies(blocks)[k]) - Len(blocks[k]) + 1

\* _raw_for_piece: from the last block that begins no later than the piece
\* to the last one that begins no later than its end
BlockAt(blocks, i) ==
  CHOOSE k \in DOMAIN blocks :
    /\ Start(blocks, k) <= i \/ k = 1
    /\ \A j \in (k + 1)..Len(blocks) : Start(blocks, j) > i
RawOf(blocks, p) == BlockAt(blocks, p.from)..BlockAt(blocks, p.to)

\* The characters of a path: a letter for a heading, three between two.
Letters(stack) == IF stack = <<>> THEN 0 ELSE 4 * Len(stack) - 3

\* A run of chunk over a stream of plans: the headings above, the source they
\* are of, the number of the next chunk of each source, and the chunks so far.
NewRun(sources) ==
  [stack |-> <<>>, source |-> "", next |-> [s \in sources |-> 0], chunks |-> <<>>]

\* _compose_chunks: the chunks of plan n, whose text is cut in pieces.
Compose(run, plan, n, path, pieces, raws, overhead) ==
  [run EXCEPT
     !.next[plan.source] = @ + Len(pieces),
     !.chunks = @ \o [k \in DOMAIN pieces |->
       [id |-> <<plan.source, run.next[plan.source] + k - 1>>, plan |-> n, path |-> path,
        piece |-> pieces[k], raw |-> raws[k], size |-> overhead + Size(pieces[k])]]]

\* A text of separators alone gives no piece: it is one chunk as it is.
Cut(run, plan, n, path, body, pieces, overhead) ==
  IF pieces = <<>>
    THEN Compose(run, plan, n, path, <<Piece(1, Len(body))>>, <<DOMAIN plan.blocks>>, overhead)
    ELSE Compose(run, plan, n, path, pieces,
                 [k \in DOMAIN pieces |-> RawOf(plan.blocks, pieces[k])], overhead)

Overhead(plan, stack) ==
  plan.extra + (IF plan.level > 0 \/ stack = <<>> THEN 0 ELSE Letters(stack) + Len(Glue))

\* What a plan comes to under the headings of stack, in chunks of some size.
ChunkPlan(run, plan, n, path, body, size, overlap, overhead) ==
  Cut(run, plan, n, path, body, Split(body, size, overlap, overhead), overhead)

\* chunk, for the n-th plan
TakePlan(run, plan, n, size, overlap) ==
  LET above == IF run.source = plan.source THEN run.stack ELSE <<>>
      stack == IF plan.level = 0 THEN above ELSE Push(above, plan.level, n)
      under == [run EXCEPT !.stack = stack, !.source = plan.source]
  IN IF plan.blocks = <<>> THEN under
     ELSE ChunkPlan(under, plan, n, Path(stack), Body(plan.blocks), size, overlap,
                    Overhead(plan, stack))

-----------------------------------------------------------------------------
(* What chunks are to be, said without the stacks                          *)

\* Where the run of plans of one source begins that the n-th is in
FirstOf(plans, n) ==
  Min({m \in 1..n : \A i \in m..n : plans[i].source = plans[n].source})

\* The chunks of a source, or of a plan, in their order
ChunksOf(chunks, s) == Picked(chunks, {k \in DOMAIN chunks : chunks[k].id[1] = s})
ChunksAt(chunks, n) == Picked(chunks, {k \in DOMAIN chunks : chunks[k].plan = n})

\* The blocks a chunk has a character of
Owners(blocks, piece) ==
  {k \in DOMAIN blocks : Start(blocks, k) <= piece.to
                         /\ piece.from < Start(blocks, k) + Len(blocks[k])}

\* A chunk names the headings its plan stands under in this run of the source,
\* the raw text of every block it has a character of and at most one more (a
\* piece may begin between two blocks), and keeps within the size unless what is
\* written in front of it leaves no room, separators stand side by side in it,
\* or there is no letter in the whole text.
ChunkIsFaithful(plans, c, size) ==
  LET level == [n \in DOMAIN plans |-> plans[n].level]
      blocks == plans[c.plan].blocks
      body == Body(blocks)
  IN /\ c.id[1] = plans[c.plan].source
     /\ IsPath(c.path, Under(level, FirstOf(plans, c.plan), c.plan))
     /\ Owners(blocks, c.piece) \subseteq c.raw
     /\ Cardinality(c.raw \ Owners(blocks, c.piece)) <= 1
     /\ \/ c.size <= size \/ c.size - Size(c.piece) >= size \/ Doubled(body, c.piece)
        \/ \A i \in DOMAIN body : body[i] # "x"

\* A chunk has an id of its own, numbered from 0 in its source; and the pieces
\* of a text cover it and go forward.
ChunksAreFaithful(sources, plans, chunks, size, overlap) ==
  /\ \A s \in sources :
       LET own == ChunksOf(chunks, s) IN \A k \in DOMAIN own : own[k].id[2] = k - 1
  /\ \A k \in DOMAIN chunks : ChunkIsFaithful(plans, chunks[k], size)
  /\ \A n \in DOMAIN plans :
       LET own == ChunksAt(chunks, n)
           pieces == [i \in DOMAIN own |-> own[i].piece]
           body == Body(plans[n].blocks)
       IN body = <<>> \/ (PiecesCover(body, pieces) /\ PiecesMove(body, pieces, overlap))
=============================================================================
