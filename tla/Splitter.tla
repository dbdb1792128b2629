------------------------------ MODULE Splitter ------------------------------
(***************************************************************************)
(* OverlapCharSplitter: a text is cut at the first separator it contains,  *)
(* pieces that are too long are cut with the next one, and short pieces    *)
(* are put together again, a chunk taking the end of the one before it     *)
(* along.                                                                  *)
(*                                                                         *)
(* A text is a sequence of letters, blanks and newlines; a piece is where  *)
(* it begins and ends in the text, the end included.  Length is the number *)
(* of characters, the length function of the code by default.  A loop of   *)
(* the code is what it has come to after n turns.                          *)
(***************************************************************************)
EXTENDS Integers, Sequences, SequencesExt

Char == {"x", "blank", "newline"}

\* DEFAULT_SEPARATORS; the empty one cuts between any two characters.
Separators == << <<"newline", "newline">>, <<"newline">>, <<"blank">>, <<>> >>

Piece(from, to) == [from |-> from, to |-> to]
Pieces(t) == {p \in [from : 1..Len(t), to : 1..Len(t)] : p.from <= p.to}
Size(p) == p.to - p.from + 1

\* Where a separator occurs in a piece of t, from some place on, all of it in
\* the piece
Found(t, sep, from, to) ==
  {i \in from..(to + 1 - Len(sep)) : \A j \in 1..Len(sep) : t[i + j - 1] = sep[j]}

\* _split_by_separator: what is between separators, unless it is empty.  A
\* turn goes behind the next separator.
SplitTurn(t, p, sep, s) ==
  LET found == Found(t, sep, s.pos, p.to)
      at == IF found = {} THEN p.to + 1 ELSE Min(found)
  IN IF s.pos > p.to THEN s
     ELSE [pos |-> at + Len(sep),
           out |-> IF at > s.pos THEN Append(s.out, Piece(s.pos, at - 1)) ELSE s.out]

SplitBySeparator(t, p, sep) ==
  LET loop[n \in 0..Size(p)] ==
        IF n = 0 THEN [pos |-> p.from, out |-> <<>>] ELSE SplitTurn(t, p, sep, loop[n - 1])
  IN IF sep = <<>> THEN [i \in 1..Size(p) |-> Piece(p.from + i - 1, p.from + i - 1)]
     ELSE loop[Size(p)].out

-----------------------------------------------------------------------------
(* _merge_pieces: a batch is the pieces from one to another                *)

\* The length of the first n pieces, a separator after each
Lengths(pieces, glue) ==
  LET sum[n \in 0..Len(pieces)] == IF n = 0 THEN 0 ELSE sum[n - 1] + Size(pieces[n]) + glue
  IN sum

\* The length of a batch, one separator between two pieces
Together(pieces, glue, first, last) ==
  Lengths(pieces, glue)[last] - Lengths(pieces, glue)[first - 1] - glue

\* _join_batch: from the first piece to the last
JoinBatch(pieces, first, last) == Piece(pieces[first].from, pieces[last].to)

\* Mutation: only the overlap is looked at, not the room for the next piece.
KeepOverlap(pieces, glue, size, overlap, first, n) ==
  Min({k \in first..n : k = n \/ Together(pieces, glue, k, n - 1) <= overlap})

\* What of a full batch, up to the piece before n, the next one begins with: its
\* end, as long as that is no longer than the overlap and leaves room for n
Fits(pieces, glue, size, overlap, k, n) ==
  k = n \/ /\ Together(pieces, glue, k, n - 1) <= overlap
           /\ Together(pieces, glue, k, n) <= size

Kept(pieces, glue, size, overlap, first, n) ==
  Min({k \in first..n : Fits(pieces, glue, size, overlap, k, n)})

MergeTurn(pieces, glue, size, overlap, n, s) ==
  IF s.first < n /\ Together(pieces, glue, s.first, n) > size
  THEN [first |-> Kept(pieces, glue, size, overlap, s.first, n),
        out |-> Append(s.out, JoinBatch(pieces, s.first, n - 1))]
  ELSE s

MergePieces(pieces, glue, size, overlap) ==
  LET loop[n \in 0..Len(pieces)] ==
        IF n = 0 THEN [first |-> 1, out |-> <<>>]
        ELSE MergeTurn(pieces, glue, size, overlap, n, loop[n - 1])
      end == loop[Len(pieces)]
  IN IF pieces = <<>> THEN <<>>
     ELSE Append(end.out, JoinBatch(pieces, end.first, Len(pieces)))

-----------------------------------------------------------------------------
\* _split_recursive, of a text in pieces: runs of short pieces are merged, a
\* long one between them is cut further, as cut says.
CutTurn(pieces, cut, glue, size, overlap, n, s) ==
  IF Size(pieces[n]) < size THEN s
  ELSE [first |-> n + 1,
        out |-> s.out \o MergePieces(SubSeq(pieces, s.first, n - 1), glue, size, overlap)
                \o cut[pieces[n]]]

CutLong(pieces, cut, glue, size, overlap) ==
  LET loop[n \in 0..Len(pieces)] ==
        IF n = 0 THEN [first |-> 1, out |-> <<>>]
        ELSE CutTurn(pieces, cut, glue, size, overlap, n, loop[n - 1])
      end == loop[Len(pieces)]
  IN end.out \o MergePieces(SubSeq(pieces, end.first, Len(pieces)), glue, size, overlap)

\* _pick_separator: one that is not in the text is passed over.
CutWith(t, sep, cut, size, overlap, p) ==
  IF sep # <<>> /\ Found(t, sep, p.from, p.to) = {} THEN cut[p]
  ELSE CutLong(SplitBySeparator(t, p, sep), cut, Len(sep), size, overlap)

\* How the last n separators cut pieces of a text; with none left a piece is as
\* it is.
Cuts(t, size, overlap) ==
  LET cut[n \in 0..Len(Separators)] ==
        IF n = 0 THEN [p \in Pieces(t) |-> <<p>>]
        ELSE [p \in Pieces(t) |->
                CutWith(t, Separators[Len(Separators) - n + 1], cut[n - 1], size, overlap, p)]
  IN cut

\* split, of a splitter that leaves room for extra characters in every chunk
Budget(size, extra) == IF size - extra > 1 THEN size - extra ELSE 1

Split(t, size, overlap, extra) ==
  IF t = <<>> THEN <<>>
  ELSE Cuts(t, Budget(size, extra), overlap)[Len(Separators)][Piece(1, Len(t))]

-----------------------------------------------------------------------------
Texts(n) == UNION {[1..k -> Char] : k \in 0..n}

\* Two separators side by side, newlines being cut in pairs first: one of them
\* is not counted when pieces are put together.
Doubled(t, p) ==
  \/ \E i \in p.from..(p.to - 1) : \A j \in i..(i + 1) : t[j] = "blank"
  \/ \E i \in p.from..(p.to - 3) : \A j \in i..(i + 3) : t[j] = "newline"

(***************************************************************************)
(* Splitting loses no letter, goes forward, and takes along no more than   *)
(* the overlap, as separators are counted.                                 *)
(***************************************************************************)
PiecesCover(t, s) ==
  /\ \A i \in DOMAIN t : t[i] = "x" => \E k \in DOMAIN s : i \in s[k].from..s[k].to
  /\ \A k \in DOMAIN s : 1 <= s[k].from /\ s[k].from <= s[k].to /\ s[k].to <= Len(t)
PiecesMove(t, s, overlap) ==
  \A k \in 2..Len(s) :
    /\ s[k - 1].from < s[k].from /\ s[k - 1].to < s[k].to
    /\ s[k - 1].to - s[k].from + 1 <= overlap \/ Doubled(t, Piece(s[k].from, s[k - 1].to))
=============================================================================
