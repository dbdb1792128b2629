------------------------------- MODULE MCTools ------------------------------
(* A call of a tool in the sandbox; and what the payloads of the search     *)
(* tools make of every short page, of documents of one or two short pages,  *)
(* and of documents that open under any choice of locales.                  *)
EXTENDS ToolCall, PageSearch, DocSearch

Lines(sizes) == [hit : BOOLEAN, size : sizes]
AnyPage == UNION {[1..n -> Lines({0, 2})] : n \in 0..3}
LongPage == {[i \in 1..5 |-> [hit |-> i \in s, size |-> 1]] : s \in SUBSET (1..5)}
MCGreps ==
  [page : AnyPage \cup LongPage, context : 0..2, limit : 1..2, clip : {1}, room : {4, 20}]
MCWindows ==
  [page : UNION {[1..n -> [hit : {FALSE}, size : {0, 2}]] : n \in 0..3},
   offset : 0..2, count : 1..2, room : {3, 9}]
MCLists == [page : AnyPage, perPage : {2}, limit : 1..2]
MCHits == [page : AnyPage, limit : 1..2, clip : {1}]
MCWholes == [page : AnyPage, file : {"none", "there", "absent", "broken"}, room : {3}]

-----------------------------------------------------------------------------
ThreeLocales == <<"ru", "en", "c">>

Letters == {"s", "x"}
ShortTexts == UNION {[1..n -> Letters] : n \in 0..3}
Sharp == {<<"sharp", "x", "s">>, <<"x", "sharp">>, <<"s", "s", "s", "s", "s">>}
PageWith(t, n) == [text |-> t, hits |-> n]
DocPages ==
  {<<PageWith(t, n)>> : t \in ShortTexts \cup Sharp, n \in 0..2}
  \cup {<<PageWith(<<"s", "x">>, m), PageWith(t, n)>> : m \in 0..1, t \in ShortTexts, n \in 0..2}

Opened(pages, locales) == [opens |-> locales, broken |-> FALSE, pages |-> pages]
Request(op, doc) ==
  [op |-> op, ocr |-> FALSE, models |-> FALSE, doc |-> doc, query |-> <<"s">>,
   around |-> 0, most |-> 2, chars |-> 2, room |-> 2]

Searches ==
  {[Request("search", Opened(p, {"unset"})) EXCEPT !.query = w, !.around = a, !.most = m] :
     p \in DocPages, w \in {<<"s">>, <<"s", "s">>, <<"s", "x">>}, a \in 0..1, m \in 1..2}

TwoPages == <<PageWith(<<"s", "x">>, 1), PageWith(<<"x">>, 1)>>
Tries ==
  {[Request(op, [Opened(TwoPages, o) EXCEPT !.broken = b]) EXCEPT
      !.ocr = c, !.models = m, !.room = n] :
     op \in {"search", "read", "outline"}, o \in SUBSET {"unset", "ru", "en", "c"},
     b \in BOOLEAN, c \in BOOLEAN, m \in BOOLEAN, n \in 1..2}

MCDocRequests == Searches \cup Tries

\* For readers at the same time.
NeedLocale == {[Request("read", Opened(TwoPages, {l})) EXCEPT !.room = 1] : l \in {"ru", "en"}}

-----------------------------------------------------------------------------
\* The call, the search of a page and that of a document have nothing in common:
\* each is followed while the others are where they began.
CallStill ==
  /\ ToolInit
  /\ job = [kind |-> "query", grouped |-> FALSE, input |-> 1, rows |-> 0, room |-> 1]
  /\ ~ready
SearchStill == search = NoSearch
DocStill == \A r \in Reader : lookup[r] = NoLookup

ApartInit == ToolInit /\ SearchInit /\ DocInit
ApartNext ==
  \/ SearchStill /\ DocStill /\ ToolNext /\ UNCHANGED <<searchVars, docVars>>
  \/ CallStill /\ DocStill /\ SearchNext /\ UNCHANGED <<toolVars, docVars>>
  \/ CallStill /\ SearchStill /\ DocNext /\ UNCHANGED <<toolVars, searchVars>>
ApartSpec ==
  ApartInit /\ [][ApartNext]_<<toolVars, searchVars, docVars>> /\ CallFairness
=============================================================================
