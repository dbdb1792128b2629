------------------------------ MODULE Sections ------------------------------
(***************************************************************************)
(* What the readers make of a document: a page of the wiki is cut into     *)
(* sections at its headings, a document of pages page by page, a text or a *)
(* kbdoc is one section or is refused.  A page is written node by node, so *)
(* that the readers have any page before them.                             *)
(***************************************************************************)
EXTENDS Integers, Sequences, FiniteSets, SequencesExt, Picking

CONSTANTS Nodes,     \* what a page may be written of
          MaxNodes,  \* bound
          Files,     \* documents that are no pages of the wiki
          Encodings  \* those the reader of plain text tries, in order

ASSUME SectionsAssumption ==
  /\ Nodes \subseteq [level : Nat, word : BOOLEAN] /\ MaxNodes \in Nat
  /\ \A f \in Files :
       /\ f.media # "text/html"
       /\ f.pages \in Seq(BOOLEAN) /\ f.lines \in Seq(STRING)
  /\ Encodings \in Seq(STRING)

-----------------------------------------------------------------------------
(* Readers                                                                 *)

\* A page of the wiki is a sequence of nodes [level, word]: a heading of some
\* level, or a text between headings (level 0), with a word or nothing in it.

\* A section: which source, its place, the headings above it, and the nodes
\* of the document its text is made of.
Section(source, order, path, nodes) ==
  [source |-> source, order |-> order, path |-> path, nodes |-> nodes]

\* confluence_sections leaves out a heading with no text in it.
Headings(page) ==
  Picked([i \in DOMAIN page |-> i], {i \in DOMAIN page : page[i].level > 0 /\ page[i].word})

\* Mutation: a heading of the same level is no end of the one before.
PushUnder(stack, level, at) ==
  LET kept == CHOOSE k \in 0..Len(stack) :
                /\ k = 0 \/ stack[k].level <= level
                /\ \A j \in (k + 1)..Len(stack) : stack[j].level > level
  IN Append(SubSeq(stack, 1, kept), [level |-> level, at |-> at])

\* PageOps._push and StructuralChunker._update_breadcrumbs: what is not above
\* the new heading is taken off the end.
Push(stack, level, at) ==
  LET kept == CHOOSE k \in 0..Len(stack) :
                /\ k = 0 \/ stack[k].level < level
                /\ \A j \in (k + 1)..Len(stack) : stack[j].level >= level
  IN Append(SubSeq(stack, 1, kept), [level |-> level, at |-> at])

Path(stack) == [i \in DOMAIN stack |-> stack[i].at]

\* text_between: the texts after one heading and before the next, those in
\* headings left out
TextBetween(page, from, to) ==
  {i \in DOMAIN page : from < i /\ i < to /\ page[i].level = 0 /\ page[i].word}

\* The whole page in one section, under its title if it has one (node 0)
Fallback(source, page, title) ==
  LET words == {i \in DOMAIN page : page[i].word}
  IN IF words = {} /\ ~title THEN <<>>
     ELSE <<Section(source, 0, IF title THEN <<0>> ELSE <<>>, words)>>

\* PageOps.confluence_sections; a heading counts among all of its page, those
\* without a text too.
ConfluenceSections(source, page, title) ==
  LET heads == Headings(page)
      index(i) == Cardinality({j \in 1..i : page[j].level > 0})
      root == IF title THEN <<[level |-> 0, at |-> 0]>> ELSE <<>>
      stacks[k \in 0..Len(heads)] ==
        IF k = 0 THEN root ELSE Push(stacks[k - 1], page[heads[k]].level, heads[k])
      next(k) == IF k < Len(heads) THEN heads[k + 1] ELSE Len(page) + 1
  IN IF page = <<>> THEN <<>>
     ELSE IF heads = <<>> THEN Fallback(source, page, title)
     ELSE [k \in DOMAIN heads |->
             Section(source, index(heads[k]), Path(stacks[k]),
                     {heads[k]} \cup TextBetween(page, heads[k], next(k)))]

\* PageSectionBuilder: a section for every page of a document with a text
PageSections(source, pages) ==
  LET full == Picked([i \in DOMAIN pages |-> i], {i \in DOMAIN pages : pages[i]})
  IN [k \in DOMAIN full |-> Section(source, full[k], <<>>, {full[k]})]

\* KbDocReader: what stands above the first line of dashes is the header;
\* without its keys, or without a text under it, the file is refused.
KbKeys == {"source", "title", "page_id", "space"}
KbDoc(source, lines) ==
  LET bar == SelectInSeq(lines, LAMBDA l : l = "---")
      keys == {lines[i] : i \in 1..(bar - 1)} \cap KbKeys
      body == {i \in DOMAIN lines : i > bar}
  IN IF bar = 0 \/ keys # KbKeys \/ \A i \in body : lines[i] = "empty" THEN <<>>
     ELSE <<Section(source, 0, <<>>, {i \in body : \E j \in (bar + 1)..i : lines[j] # "empty"})>>

\* PlainTextReader: the first encoding that fits; none is an error.
PlainText(source, encodings, fits) ==
  IF SelectInSeq(encodings, LAMBDA e : e \in fits) = 0 THEN <<>>
  ELSE <<Section(source, 0, <<>>, {1})>>

\* DispatchReader(on_unknown = "skip"), with the routes of IngestOps, and a
\* route of its own for kbdoc, which has no place in them
Read(source, doc, encodings) ==
  CASE doc.media = "text/html" -> ConfluenceSections(source, doc.nodes, doc.title)
    [] doc.media = "application/pdf" -> PageSections(source, doc.pages)
    [] doc.media = "text/plain" -> PlainText(source, encodings, doc.fits)
    [] doc.media = "text/x-kbdoc" -> KbDoc(source, doc.lines)
    [] OTHER -> <<>>

-----------------------------------------------------------------------------
(* What sections are to be, said without the stacks                        *)

\* The headings that n stands under, among those from first on: all headings
\* after one of them are below it.
Under(level, first, n) ==
  {h \in first..n : level[h] > 0 /\ \A g \in (h + 1)..n : level[g] = 0 \/ level[g] > level[h]}
IsPath(path, heads) ==
  ToSet(path) = heads /\ \A i \in 2..Len(path) : path[i - 1] < path[i]

\* A page of the wiki is cut at its headings: a text belongs to the heading
\* before it and is in no other section, and the path names what the heading
\* stands under, the title first.  A text before the first heading is lost.
SectionsAreFaithful(page, title) ==
  LET sections == ConfluenceSections("s", page, title)
      level == [i \in DOMAIN page |-> IF page[i].word THEN page[i].level ELSE 0]
      heads == {i \in DOMAIN page : level[i] > 0}
      root == IF title THEN {0} ELSE {}
      last(i) == {h \in heads : h <= i /\ \A g \in heads : g <= i => g <= h}
      home(i) == {k \in DOMAIN sections : i \in sections[k].nodes}
  IN /\ \A i \in DOMAIN page :
          Cardinality(home(i)) = IF page[i].word /\ (heads = {} \/ last(i) # {}) THEN 1 ELSE 0
     /\ \A i \in DOMAIN page, h \in heads : h \in last(i) => \A k \in home(i) :
          h \in sections[k].nodes /\ IsPath(sections[k].path, root \cup Under(level, 1, h))
     /\ \A k \in 2..Len(sections) : sections[k - 1].order < sections[k].order

\* A document of pages gives a section for each page with a text, numbered as
\* the page; a kbdoc gives, with a whole header, exactly what is under its first
\* bar, from the first line with a text; a text is read in some encoding.
FileIsFaithful(doc, encodings) ==
  LET sections == Read("s", doc, encodings)
      bars == {i \in DOMAIN doc.lines : doc.lines[i] = "---"}
      above == {i \in DOMAIN doc.lines : bars # {} /\ \A b \in bars : i <= b}
      under == {i \in DOMAIN doc.lines \ above :
                  bars # {} /\ \E j \in 1..i : j \notin above /\ doc.lines[j] # "empty"}
  IN CASE doc.media = "application/pdf" ->
            /\ {sections[k].order : k \in DOMAIN sections} = {i \in DOMAIN doc.pages : doc.pages[i]}
            /\ \A k \in DOMAIN sections : sections[k].nodes = {sections[k].order}
            /\ \A k \in 2..Len(sections) : sections[k - 1].order < sections[k].order
       [] doc.media = "text/x-kbdoc" ->
            IF under # {} /\ KbKeys \subseteq {doc.lines[i] : i \in above}
            THEN Len(sections) = 1 /\ sections[1].nodes = under ELSE sections = <<>>
       [] doc.media = "text/plain" -> (sections = <<>>) = (doc.fits \cap ToSet(encodings) = {})
       [] OTHER -> sections = <<>>

-----------------------------------------------------------------------------
(* Whatever comes to the readers                                           *)

VARIABLES page, titled,  \* the page under work, and whether it has a title
          file           \* a document that is no page
readerVars == <<page, titled, file>>

NoFile == [media |-> "none", pages |-> <<>>, fits |-> {}, lines |-> <<>>]

ReadersInit == page = <<>> /\ titled \in BOOLEAN /\ file = NoFile

\* The page is one node longer.
WriteNode(node) ==
  /\ file = NoFile
  /\ Len(page) < MaxNodes /\ page' = Append(page, node)
  /\ UNCHANGED <<titled, file>>

\* An attachment, or a document of a folder, comes to its reader.
ReadFile ==
  /\ file = NoFile /\ page = <<>> /\ file' \in Files
  /\ UNCHANGED <<page, titled>>

ReaderNext == ReadFile \/ \E node \in Nodes : WriteNode(node)
ReaderSpec == ReadersInit /\ [][ReaderNext]_readerVars

\* A page of the wiki is cut at its headings: each text is in the section of
\* the heading before it, under the headings it stands under; and of a file
\* the readers keep each page with a text, or all that stands under the header.
PagesAreCut == SectionsAreFaithful(page, titled) /\ FileIsFaithful(file, Encodings)
=============================================================================
