----------------------------- MODULE PageSearch -----------------------------
(***************************************************************************)
(* Searching and reading a page of the web or of the wiki: the payload     *)
(* downloads it, scans it line by line and sends each row as a frame; the  *)
(* collector of the tool takes the frames until one is too many.           *)
(*                                                                         *)
(* A line is whether the pattern is found in it and how long it is.  A row *)
(* names lines by their numbers, each with the length it was cut to.       *)
(***************************************************************************)
EXTENDS Naturals, Sequences, SequencesExt, FiniteSetsExt, Picking

CONSTANTS
  GrepRequests,    \* [page, context, limit, clip, room]: room is max_chars
  WindowRequests,  \* [page, offset, count, room]
  ListRequests,    \* [page, perPage, limit]: a line is a space, hit is the glob
  HitRequests,     \* [page, limit, clip]: a line is what the server finds
  WholeRequests    \* [page, file, room]: a page of the wiki, or a file on it

ASSUME SearchAssumption ==
  \A r \in GrepRequests :
    /\ r.page \in Seq([hit : BOOLEAN, size : Nat])
    /\ {r.context, r.limit, r.clip} \subseteq Nat

VARIABLE search
searchVars == <<search>>

NoSearch == [op |-> "none", phase |-> "idle"]
SearchInit == search = NoSearch

Numbered(p) == [n \in 1..Len(p) |-> [at |-> n, size |-> p[n].size]]

\* What a row takes of max_chars: one for the row, and its text.
Volume(row) ==
  1 + row.content.size
    + FoldLeft(LAMBDA sum, l : sum + l.size, 0, row.before \o row.after)

AskGrep(r) ==
  /\ search = NoSearch
  /\ search' = [op |-> "grep", phase |-> "load", request |-> r, next |-> 1, before |-> <<>>,
                waiting |-> <<>>, ready |-> <<>>, rows |-> <<>>, taken |-> 0]

\* httpx.HTTPError: an error frame, which the tool makes an ErrorResult.
LoadFails ==
  /\ search.phase = "load"
  /\ search' = [search EXCEPT !.phase = "failed"]

Loaded ==
  /\ search.phase = "load"
  /\ search' = [search EXCEPT !.phase = "scan"]

-----------------------------------------------------------------------------
(* iter_matches: a generator, it goes on when its last row was sent        *)

\* The deque of the lines before the next one.
Remembered(before, l, context) ==
  LET all == Append(before, l)
  IN  IF Len(all) > context THEN SubSeq(all, Len(all) - context + 1, Len(all)) ELSE all

\* Mutation: a line is remembered before the pattern is looked for in it.
BeforeWithMatch(l) == Remembered(search.before, l, search.request.context)

\* What a match in the next line shows before it.
Before(l) == search.before

\* A line is the context of the matches that wait for it; those that have all
\* theirs are ready; then the pattern is looked for in it.
ScanLine ==
  LET r == search.request
      l == Numbered(r.page)[search.next]
      grown == [i \in DOMAIN search.waiting |-> [search.waiting[i] EXCEPT !.after = Append(@, l)]]
      full == {i \in DOMAIN grown : Len(grown[i].after) >= r.context}
      found == [line |-> l.at, content |-> l, before |-> Before(l), after |-> <<>>]
      hits == IF r.page[l.at].hit THEN <<found>> ELSE <<>>
  IN  /\ search.op = "grep" /\ search.phase = "scan"
      /\ search.ready = <<>> /\ search.next <= Len(r.page)
      /\ search' = [search EXCEPT
           !.next = @ + 1,
           !.before = Remembered(@, l, r.context),
           !.waiting = Picked(grown, DOMAIN grown \ full)
                         \o (IF r.context > 0 THEN hits ELSE <<>>),
           !.ready = Picked(grown, full) \o (IF r.context > 0 THEN <<>> ELSE hits)]

\* The page ends: matches near its end have less context.
ScanEnds ==
  /\ search.op = "grep"
  /\ search.phase = "scan" /\ search.ready = <<>> /\ search.next > Len(search.request.page)
  /\ search' = [search EXCEPT !.phase = "rest", !.ready = search.waiting, !.waiting = <<>>]

ClipLine(l, limit) == [l EXCEPT !.size = Min({@, limit})]
ClipRow(row, limit) ==
  [line |-> row.line, content |-> ClipLine(row.content, limit),
   before |-> [i \in DOMAIN row.before |-> ClipLine(row.before[i], limit)],
   after |-> [i \in DOMAIN row.after |-> ClipLine(row.after[i], limit)]]

\* A row is sent, and the collector takes it or, out of room, ends the call.
SendRow ==
  LET r == search.request
      row == ClipRow(Head(search.ready), r.clip)
      taken == search.taken + Volume(row)
  IN  /\ search.op = "grep" /\ search.phase \in {"scan", "rest"} /\ search.ready # <<>>
      /\ Len(search.rows) < r.limit
      /\ search' = IF taken > r.room
                   THEN [search EXCEPT !.phase = "failed"]
                   ELSE [search EXCEPT !.ready = Tail(@), !.rows = Append(@, row), !.taken = taken]

\* One row more than the limit has been found, or there is none.
GrepEnds ==
  /\ search.op = "grep"
  /\ \/ search.phase = "scan" /\ search.ready # <<>> /\ Len(search.rows) >= search.request.limit
     \/ search.phase = "rest" /\ (search.ready = <<>> \/ Len(search.rows) >= search.request.limit)
  /\ search' = [search EXCEPT !.phase = "done"]

-----------------------------------------------------------------------------
(* web_fetch: a window of lines, joined again in the collector             *)

AskWindow(r) ==
  /\ search = NoSearch
  /\ search' = [op |-> "window", phase |-> "load", request |-> r, next |-> r.offset + 1,
                rows |-> <<>>, taken |-> 0]

Window(r) ==
  SubSeq(Numbered(r.page), r.offset + 1, Min({Len(r.page), r.offset + r.count}))

\* Every line with its end, the last one without, and not at all if it is empty.
SendLine ==
  LET r == search.request
      sent == Len(search.rows)
      l == Window(r)[sent + 1]
      last == sent + 1 = Len(Window(r))
      taken == search.taken + l.size + (IF last THEN 0 ELSE 1)
  IN  /\ search.op = "window" /\ search.phase = "scan" /\ sent < Len(Window(r))
      /\ search' = IF taken > r.room THEN [search EXCEPT !.phase = "failed"]
                   ELSE [search EXCEPT !.rows = Append(@, l), !.taken = taken]

WindowEnds ==
  /\ search.op = "window" /\ search.phase = "scan"
  /\ Len(search.rows) = Len(Window(search.request))
  /\ search' = [search EXCEPT !.phase = "done"]

-----------------------------------------------------------------------------
(* confluence_list_spaces: the first page of the listing, and what of it   *)
(* the glob lets through                                                   *)

AskSpaces(r) ==
  /\ search = NoSearch
  /\ search' = [op |-> "spaces", phase |-> "load", request |-> r, rows |-> <<>>, taken |-> 0]

ListSpaces ==
  LET r == search.request
      listed == SubSeq(Numbered(r.page), 1, Min({Len(r.page), r.perPage}))
      kept == SelectSeq(listed, LAMBDA s : r.page[s.at].hit)
  IN  /\ search.op = "spaces" /\ search.phase = "scan"
      /\ search' = [search EXCEPT !.phase = "done",
                      !.rows = SubSeq(kept, 1, Min({Len(kept), r.limit}))]

-----------------------------------------------------------------------------
(* confluence_search_cql: the server finds and counts, the excerpts are cut *)

AskHits(r) ==
  /\ search = NoSearch
  /\ search' = [op |-> "hits", phase |-> "load", request |-> r, rows |-> <<>>, taken |-> 0]

ListHits ==
  LET r == search.request
      found == SubSeq(Numbered(r.page), 1, Min({Len(r.page), r.limit}))
  IN  /\ search.op = "hits" /\ search.phase = "scan"
      /\ search' = [search EXCEPT !.phase = "done",
                      !.rows = [i \in DOMAIN found |-> ClipLine(found[i], r.clip)]]

-----------------------------------------------------------------------------
(* confluence_fetch_page, confluence_fetch_attachment: all of the text.  A  *)
(* file is looked for among those of the page and read where it is.        *)

AskWhole(r) ==
  /\ search = NoSearch
  /\ search' = [op |-> "whole", phase |-> "load", request |-> r, rows |-> <<>>, taken |-> 0]

\* "none": the page itself; "absent", "broken": no such file, no reader for it.
FileFails ==
  /\ search.op = "whole" /\ search.phase = "scan"
  /\ search.request.file \in {"absent", "broken"}
  /\ search' = [search EXCEPT !.phase = "failed"]

SendWhole ==
  LET r == search.request
      taken == FoldLeft(LAMBDA sum, l : sum + l.size, 0, r.page)
  IN  /\ search.op = "whole" /\ search.phase = "scan" /\ r.file \in {"none", "there"}
      /\ search' = IF taken > r.room THEN [search EXCEPT !.phase = "failed"]
                   ELSE [search EXCEPT !.phase = "done", !.rows = Numbered(r.page), !.taken = taken]

-----------------------------------------------------------------------------
SearchNext ==
  \/ \E r \in GrepRequests : AskGrep(r)
  \/ \E r \in WindowRequests : AskWindow(r)
  \/ \E r \in ListRequests : AskSpaces(r)
  \/ \E r \in HitRequests : AskHits(r)
  \/ \E r \in WholeRequests : AskWhole(r)
  \/ LoadFails
  \/ Loaded
  \/ ScanLine
  \/ ScanEnds
  \/ SendRow
  \/ GrepEnds
  \/ SendLine
  \/ WindowEnds
  \/ ListSpaces
  \/ ListHits
  \/ FileFails
  \/ SendWhole

SearchSpec == SearchInit /\ [][SearchNext]_searchVars

-----------------------------------------------------------------------------
Around(r, from, to) ==
  [i \in 1..(to + 1 - from) |->
     [at |-> from + i - 1, size |-> Min({r.page[from + i - 1].size, r.clip})]]

\* What a match is to show: its line, and the context the page has of it.
Exact(r, n) ==
  [line |-> n, content |-> Around(r, n, n)[1],
   before |-> Around(r, Max({1, n - r.context}), n - 1),
   after |-> Around(r, n + 1, Min({Len(r.page), n + r.context}))]

\* An answer of grep is the first matches of the page in their order, as many
\* as the limit lets through, each with exactly the context lines before and
\* after it that the page has, those of a neighbouring match included: whatever
\* the order in which rows become ready, and wherever the scan was broken off.
GrepIsExact ==
  search.phase = "done" /\ search.op = "grep" =>
    LET r == search.request
        rows == search.rows
        hits == {n \in DOMAIN r.page : r.page[n].hit}
        shown == {row.line : row \in ToSet(rows)}
    IN  /\ shown \subseteq hits
        /\ \A m \in shown, n \in hits \ shown : m < n
        /\ Len(rows) <= r.limit
        /\ Len(rows) < r.limit => shown = hits
        /\ \A i, j \in DOMAIN rows : i < j => rows[i].line < rows[j].line
        /\ \A row \in ToSet(rows) : row = Exact(r, row.line)
=============================================================================
