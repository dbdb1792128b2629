------------------------------ MODULE DocSearch ------------------------------
(***************************************************************************)
(* Documents in a sandbox: a reader parses one with liteparse, again under *)
(* other locales when LibreOffice has converted nothing, and the tools     *)
(* read_document, document_outline and search_document answer from its     *)
(* pages.  Readers of one process are threads and share its environment:   *)
(* the payload of the tools has one, an ingest one per attachment it reads.*)
(*                                                                         *)
(* A document opens under some locales; under the others the conversion    *)
(* leaves nothing, which its message tells, unless the document is broken. *)
(* A text is a sequence of letters, "sharp" one that casefold makes two of.*)
(***************************************************************************)
EXTENDS Naturals, Sequences, SequencesExt, FiniteSetsExt

CONSTANTS
  Reader,
  DocRequests,  \* [op, ocr, models, doc : [opens, broken, pages], query,
                \*  around, most, chars, room]
  Locales       \* LocaleRetry.LOCALES

ASSUME DocAssumption ==
  /\ Locales \in Seq(STRING)
  /\ \A q \in DocRequests :
       /\ q.doc.pages \in Seq([text : Seq(STRING), hits : Nat])
       /\ q.query \in Seq(STRING) /\ q.most \in Nat /\ q.room \in Nat

VARIABLES
  lcAll,   \* LC_ALL of the process, "unset" when there is none
  lookup   \* where each reader is
docVars == <<lcAll, lookup>>

NoLookup == [phase |-> "idle"]
DocInit == lcAll = "unset" /\ lookup = [r \in Reader |-> NoLookup]

Phase(r) == lookup[r].phase
Asked(r) == lookup[r].request
PageOf(r) == Asked(r).doc.pages[lookup[r].page]
Goes(r, phase) == lookup' = [lookup EXCEPT ![r].phase = phase]

AskDoc(r, q) ==
  /\ Phase(r) = "idle"
  /\ lookup' = [lookup EXCEPT ![r] =
       [phase |-> "check", request |-> q, try |-> 0, saved |-> "none", outcome |-> "none",
        page |-> 1, hit |-> 1, cursor |-> 1, rows |-> <<>>, limited |-> FALSE]]
  /\ UNCHANGED lcAll

\* check_ocr: without its models the parser would fetch them from the network.
CheckOcr(r) ==
  /\ Phase(r) = "check"
  /\ Goes(r, IF Asked(r).ocr /\ ~Asked(r).models THEN "unreadable" ELSE "parse")
  /\ UNCHANGED lcAll

-----------------------------------------------------------------------------
(* LocaleRetry: as it is, then under one locale after another              *)

AfterTry(outcome, try) ==
  CASE outcome = "parsed" -> "parsed"
    [] outcome = "broken" -> "unreadable"
    [] OTHER -> IF try = Len(Locales) THEN "unreadable" ELSE "remember"

Parse(r) ==
  LET doc == Asked(r).doc
      outcome == IF doc.broken THEN "broken" ELSE IF lcAll \in doc.opens THEN "parsed" ELSE "empty"
  IN  /\ Phase(r) = "parse"
      /\ lookup' = [lookup EXCEPT ![r].outcome = outcome,
           ![r].phase = IF lookup[r].try = 0 THEN AfterTry(outcome, 0) ELSE "restore"]
      /\ UNCHANGED lcAll

RememberLocale(r) ==
  /\ Phase(r) = "remember"
  /\ lookup' = [lookup EXCEPT ![r].saved = lcAll, ![r].try = @ + 1, ![r].phase = "set"]
  /\ UNCHANGED lcAll

SetLocale(r) ==
  /\ Phase(r) = "set"
  /\ lcAll' = Locales[lookup[r].try]
  /\ Goes(r, "parse")

\* Mutation: the second locale is given up on.
RestoreOnce(r) ==
  /\ Phase(r) = "restore"
  /\ lcAll' = lookup[r].saved
  /\ Goes(r, IF lookup[r].outcome = "parsed" THEN "parsed" ELSE "unreadable")

Restore(r) ==
  /\ Phase(r) = "restore"
  /\ lcAll' = lookup[r].saved
  /\ Goes(r, AfterTry(lookup[r].outcome, lookup[r].try))

-----------------------------------------------------------------------------
(* What the tools answer                                                   *)

Folded(text) == FlattenSeq([i \in DOMAIN text |-> IF text[i] = "sharp" THEN <<"s", "s">> ELSE <<text[i]>>])

Occurs(what, text, i) ==
  i + Len(what) - 1 <= Len(text) /\ SubSeq(text, i, i + Len(what) - 1) = what

\* Snippet.around: what is cut out with the letters around it, and whether
\* there is more before and after.
Snippet(text, lo, hi, around) ==
  LET first == Max({1, lo - around})
      last == Min({Len(text), hi + around})
  IN  [text |-> SubSeq(text, first, last), more |-> <<first > 1, last < Len(text)>>]

HitText == [text |-> <<"hit">>, more |-> <<FALSE, FALSE>>]

\* Mutation: every hit is looked for from the beginning of the page.
CursorStays(index, query) == 1

\* The next hit is looked for after this one, by the length of the query.
CursorAfter(index, query) == index + Len(query)

\* A hit of the page and its snippet: the i-th hit gets the i-th occurrence of
\* the folded query in the folded text, by its place in the text as it is.
Match(r) ==
  LET q == Asked(r)
      text == PageOf(r).text
      found == {i \in lookup[r].cursor..Len(Folded(text)) : Occurs(Folded(q.query), Folded(text), i)}
  IN  IF found = {} THEN [cursor |-> lookup[r].cursor, snippet |-> HitText]
      ELSE [cursor |-> CursorAfter(Min(found), q.query),
            snippet |-> Snippet(text, Min(found), Min(found) + Len(q.query) - 1, q.around)]

Searching(r) == Phase(r) = "parsed" /\ Asked(r).op = "search"
More(r) == lookup[r].page <= Len(Asked(r).doc.pages)

\* One row, unless there are as many as the answer may have, or as the
\* collector of the tool has room for.
SearchHit(r) ==
  LET l == lookup[r]
      match == Match(r)
  IN  /\ Searching(r) /\ More(r) /\ l.hit <= PageOf(r).hits
      /\ \/ /\ Len(l.rows) >= Asked(r).most
            /\ lookup' = [lookup EXCEPT ![r].phase = "done", ![r].limited = TRUE]
         \/ /\ Len(l.rows) < Asked(r).most /\ Len(l.rows) >= Asked(r).room
            /\ Goes(r, "failed")
         \/ /\ Len(l.rows) < Min({Asked(r).most, Asked(r).room})
            /\ lookup' = [lookup EXCEPT ![r].hit = @ + 1, ![r].cursor = match.cursor,
                 ![r].rows = Append(@, [page |-> l.page, snippet |-> match.snippet])]
  /\ UNCHANGED lcAll

NextPage(r) ==
  /\ Searching(r) /\ More(r) /\ lookup[r].hit > PageOf(r).hits
  /\ lookup' = [lookup EXCEPT ![r].page = @ + 1, ![r].hit = 1, ![r].cursor = 1]
  /\ UNCHANGED lcAll

SearchEnds(r) ==
  /\ Searching(r) /\ ~More(r)
  /\ Goes(r, "done") /\ UNCHANGED lcAll

\* The text of the pages, clipped; the collector has room for just that.
ReadText(r) ==
  LET text == FlattenSeq([i \in DOMAIN Asked(r).doc.pages |-> Asked(r).doc.pages[i].text])
  IN  /\ Phase(r) = "parsed" /\ Asked(r).op = "read"
      /\ lookup' = [lookup EXCEPT ![r].phase = "done",
           ![r].rows = SubSeq(text, 1, Min({Len(text), Asked(r).chars})),
           ![r].limited = Len(text) > Asked(r).chars]
      /\ UNCHANGED lcAll

\* A row for a page.
Outline(r) ==
  LET pages == Asked(r).doc.pages
  IN  /\ Phase(r) = "parsed" /\ Asked(r).op = "outline"
      /\ lookup' = IF Len(pages) > Asked(r).room THEN [lookup EXCEPT ![r].phase = "failed"]
                   ELSE [lookup EXCEPT ![r].phase = "done",
                           ![r].rows = [i \in DOMAIN pages |-> [page |-> i, chars |-> Len(pages[i].text)]]]
      /\ UNCHANGED lcAll

ReaderStep(r) ==
  \/ \E q \in DocRequests : AskDoc(r, q)
  \/ CheckOcr(r) \/ Parse(r) \/ RememberLocale(r) \/ SetLocale(r) \/ Restore(r)
  \/ SearchHit(r) \/ NextPage(r) \/ SearchEnds(r) \/ ReadText(r) \/ Outline(r)

DocNext == \E r \in Reader : ReaderStep(r)
DocSpec == DocInit /\ [][DocNext]_docVars

-----------------------------------------------------------------------------
\* Where the i-th of the disjoint occurrences of the query in a text begins: after
\* its end, if there are not so many.
Places(what, text) ==
  LET nth[i \in 1..Len(text)] ==
        LET from == IF i = 1 THEN 1 ELSE nth[i - 1] + Len(what)
            next == {k \in from..Len(text) : Occurs(what, text, k)}
        IN  IF next = {} THEN Len(text) + 1 ELSE Min(next)
  IN  nth

Plain(text) == \A i \in DOMAIN text : text[i] # "sharp"

\* The hits of a document in the order of its pages: which page, which of its hits.
Hits(pages) == FlattenSeq([p \in DOMAIN pages |-> [h \in 1..pages[p].hits |-> <<p, h>>]])

\* A row is that hit and shows the place where the query stands (but with letters
\* that casefold lengthens, after which the places in the folded text are not
\* those of the text).
ShowsHit(q, hit, row) ==
  LET text == q.doc.pages[hit[1]].text
      at == Places(q.query, text)[hit[2]]
  IN  /\ row.page = hit[1]
      /\ Plain(q.query) /\ Plain(text) /\ hit[2] <= Len(text) /\ at <= Len(text) =>
           row.snippet = Snippet(text, at, at + Len(q.query) - 1, q.around)

\* search_document gives the hits in the order of the pages, as many as it may,
\* says that it left some out exactly if it did, and shows with each where it stands.
SearchShowsHits ==
  \A r \in Reader : Phase(r) = "done" /\ Asked(r).op = "search" =>
    LET q == Asked(r)
        hits == Hits(q.doc.pages)
        rows == lookup[r].rows
    IN  /\ Len(rows) = Min({Len(hits), q.most})
        /\ lookup[r].limited <=> Len(hits) > q.most
        /\ \A i \in DOMAIN rows : ShowsHit(q, hits[i], rows[i])

\* A document is called unreadable only if no locale of the list opens it.
UnreadableIsTrue ==
  \A r \in Reader : Phase(r) = "unreadable" =>
    \/ Asked(r).doc.broken
    \/ (Asked(r).ocr /\ ~Asked(r).models)
    \/ ({"unset"} \cup ToSet(Locales)) \cap Asked(r).doc.opens = {}

\* When nobody parses, LC_ALL is what it was before (test_locale_retry.py: "LC_ALL"
\* is not left in the environment).
Parsing(r) == Phase(r) \in {"parse", "remember", "set", "restore"}
LocaleIsRestored == (\A r \in Reader : ~Parsing(r)) => lcAll = "unset"

=============================================================================
