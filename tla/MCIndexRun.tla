----------------------------- MODULE MCIndexRun -----------------------------
(* The run: three pages, one with an attachment, one plain, one without    *)
(* any text.  The feed: three pages, one with two attachments of which one *)
(* cannot be read.  The chunker: every short text in one section, and      *)
(* headings and small texts of two documents one after another.            *)
EXTENDS Knowledge

CONSTANTS p1, p2, p3, c1, a1, c2, h1, h2, k1

MCPageOf == [c \in Chunk |-> IF c = c2 THEN p2 ELSE p1]
MCListing == {Page, {p1, p3}}

\* Texts of a page: a piece may change or go, the attachment with it.
Part(c, h) == [id |-> c, hash |-> h]
MCVersions ==
  [p \in Page |->
     IF p = p1 THEN {<<Part(c1, h1), Part(a1, h1)>>, <<Part(c1, h2), Part(a1, h1)>>,
                     <<Part(c1, h1), Part(a1, h2)>>, <<Part(c1, h1)>>, <<Part(a1, h1)>>}
     ELSE IF p = p2 THEN {<<Part(c2, h1)>>, <<Part(c2, h2)>>, <<>>} ELSE {<<>>}]
MCFirstOrigin ==
  {[p \in Page |-> IF p = p1 THEN <<Part(c1, h1), Part(a1, h1)>>
                   ELSE IF p = p2 THEN <<Part(c2, h1)>> ELSE <<>>]}

\* Tables earlier runs may leave: absent rows, rows just written (no heartbeat
\* yet) and rows with the heartbeat of the run before.
Left(h, s) == [coll |-> k1, hash |-> h, stamp |-> s]
MCFirstRows ==
  {r \in [Chunk -> {NoRow, Left(h1, 0), Left(h1, 2), Left(h2, 2)}] :
     r[c1] \in {Left(h1, 2), Left(h2, 2)} /\ r[a1] # Left(h2, 2) /\ r[c2] = Left(h1, 2)}

-----------------------------------------------------------------------------
CONSTANTS q1, q2, q3, x1, x2

MCAttachedTo == [a \in Attachment |-> q1]
MCFirstSpace == {<<q1, q2, q3>>}
MCAsked == {None, <<q1, q2>>}
MCWanted == {{x1, x2}, {x2}}

\* One text of up to five characters; a heading and a section of several
\* blocks under it; three sections of two documents with three levels.
Word == <<"x">>
MCSources == {"a", "b"}
Job(n, o, sections) == [size |-> n, overlap |-> o, sections |-> sections]
Lines == {<<"x">>, <<"newline", "x">>, <<"x", "newline">>, <<"x", "blank", "x">>}
Blocks == {<<t>> : t \in Texts(2)} \cup {<<s, t>> : s \in Lines, t \in Lines} \cup {<<Word, t, Word>> : t \in Lines}
Small == {Plan(s, l, IF l = 0 THEN <<>> ELSE <<Word>>, 0) : s \in MCSources, l \in 0..2}
         \cup {Plan("a", 0, <<Word>>, 0)}
\* Words of a letter, with one blank or two between them: a batch of pieces may
\* be longer than it is counted.
Spaced(t) == Word \o t \o Word
MCJobs ==
  {Job(n, o, <<Plan("a", 0, <<t>>, 0)>>) : n \in 1..4, o \in 0..2, t \in Texts(5)}
  \cup {Job(n, o, <<Plan("a", 1, <<Word>>, 0), Plan("a", 0, b, e)>>) :
          n \in 2..8, o \in 0..1, b \in Blocks, e \in {0, 2}}
  \cup {Job(9, 0, s) : s \in [1..4 -> Small]}
  \cup {Job(5, 3, <<Plan("a", 0, <<Spaced(t)>>, 0)>>) : t \in [1..6 -> {"x", "blank"}]}
File(media, pages, fits, lines) == [media |-> media, pages |-> pages, fits |-> fits, lines |-> lines]
KbHeader == <<"source", "title", "page_id", "space">>
MCFiles ==
  {File("application/pdf", p, {}, <<>>) : p \in UNION {[1..n -> BOOLEAN] : n \in 0..3}}
  \cup {File("text/plain", <<>>, f, <<>>) : f \in SUBSET {"utf-8", "cp1251", "koi8"}}
  \cup {File("text/x-kbdoc", <<>>, {}, h \o t) :
          h \in {KbHeader, Tail(KbHeader), <<"---">> \o KbHeader, <<"text">> \o KbHeader, <<>>},
          t \in UNION {[1..n -> {"---", "empty", "text"}] : n \in 0..4}}
  \cup {File("image/png", <<>>, {}, <<>>)}
MCEncodings == <<"utf-8", "cp1251">>
MCNodes == [level : 0..2, word : BOOLEAN]

\* The run, the feed, the chunker and the readers have nothing in common here:
\* each is followed while the others are where they began.
First(S) == CHOOSE x \in S : TRUE
RunStill ==
  /\ run.phase = "idle" /\ edits = 0 /\ faults = 0
  /\ origin = First(FirstOrigin) /\ rows = First(FirstRows)
FeedStill == ingest.phase = "idle" /\ changes = 0 /\ space = First(FirstSpace)
ChunkerStill == job = NoJob
ReaderStill == page = <<>> /\ titled /\ file = NoFile

ApartInit ==
  /\ KnowledgeInit
  /\ RunStill \/ FeedStill
  /\ RunStill \/ ReaderStill
  /\ FeedStill \/ ReaderStill
ApartNext ==
  \/ FeedStill /\ ChunkerStill /\ ReaderStill /\ RunOnly
  \/ RunStill /\ ChunkerStill /\ ReaderStill /\ FeedOnly
  \/ RunStill /\ FeedStill /\ ChunkerStill /\ ReaderOnly
  \/ RunStill /\ FeedStill /\ ReaderStill /\ ChunkerOnly
ApartSpec ==
  ApartInit /\ [][ApartNext]_<<vars, feedVars, documentVars>> /\ KnowledgeFairness
=============================================================================
