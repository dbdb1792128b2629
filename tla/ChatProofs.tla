----------------------------- MODULE ChatProofs -----------------------------
(***************************************************************************)
(* Theorems about what a chat keeps and is given: the attachments and the  *)
(* history of a thread through uploads, stops, failures, edits and         *)
(* returning tabs, for any questions, calls and names; what the model is   *)
(* shown of the history, and that its replay and the tab are one; the      *)
(* bodies of uploads, however they are cut; and what its tools find in a   *)
(* page and when they call a document unreadable.                          *)
(***************************************************************************)
EXTENDS ChatHistory, UploadRoute, PageSearch, DocSearch, TLAPS, FiniteSetTheorems,
        SequenceTheorems, WellFoundedInduction

-----------------------------------------------------------------------------
(* Computations over a sequence                                            *)

\* Every set of numbers has a smallest one.
LEMMA Smallest ==
  ASSUME NEW T, T \subseteq Nat, T # {}
  PROVE  \E i \in T : \A j \in T : i <= j
<1> DEFINE R == {ss \in Nat \X Nat : ss[1] < ss[2]}
<1>1. IsWellFoundedOn(R, Nat)
  BY NatLessThanWellFounded DEF OpToRel
<1> HIDE DEF R
<1>2. PICK i \in T : \A j \in T : ~(<<j, i>> \in R)
  BY <1>1, WFMin
<1>3. ASSUME NEW j \in T PROVE i <= j
  <2>1. i \in Nat /\ j \in Nat
    OBVIOUS
  <2>2. j < i => <<j, i>> \in R
    BY <2>1 DEF R
  <2> QED
    BY <1>2, <2>1, <2>2
<1> QED
  BY <1>3

\* What holds of nothing, and of n elements if of one less, holds of all.
LEMMA Inductive ==
  ASSUME NEW N \in Nat, NEW P, 0 \in P, \A n \in 1..N : n - 1 \in P => n \in P
  PROVE  \A n \in 0..N : n \in P
<1> DEFINE T == {n \in 0..N : n \notin P}
<1>1. ASSUME T # {} PROVE FALSE
  <2>1. PICK k \in T : \A j \in T : k <= j
    <3>1. T \subseteq Nat
      OBVIOUS
    <3> HIDE DEF T
    <3> QED
      BY <1>1, <3>1, Smallest
  <2>2. k \in 1..N /\ k - 1 \in 0..N /\ ~(k <= k - 1) /\ k \notin P
    OBVIOUS
  <2>3. k - 1 \in P
    BY <2>1, <2>2
  <2> QED
    BY <2>2, <2>3
<1> QED
  BY <1>1

\* g computes over N elements, each of which makes F of what came of those before.
Computes(g, N, S, base, F) ==
  /\ g \in [0..N -> S] /\ g[0] = base
  /\ \A n \in 1..N : g[n] = F[n][g[n - 1]]

LEMMA Computable ==
  ASSUME NEW N \in Nat, NEW S, NEW base \in S, NEW F \in [1..N -> [S -> S]]
  PROVE  \E g : Computes(g, N, S, base, F)
<1> DEFINE Upto(g, k) == g[0] = base /\ \A n \in 1..k : g[n] = F[n][g[n - 1]]
           P == {k \in 0..N : \E g \in [0..k -> S] : Upto(g, k)}
<1>1. 0 \in P
  <2> DEFINE g == [n \in 0..0 |-> base]
  <2>1. g \in [0..0 -> S] /\ Upto(g, 0)
    OBVIOUS
  <2>2. \E e \in [0..0 -> S] : Upto(e, 0)
    BY <2>1
  <2> QED
    BY <2>2
<1>2. ASSUME NEW k \in 1..N, k - 1 \in P PROVE k \in P
  <2>1. k - 1 \in 0..N /\ k \in 0..N
    OBVIOUS
  <2>2. PICK g \in [0..(k - 1) -> S] : Upto(g, k - 1)
    BY <1>2, <2>1
  <2> DEFINE h == [n \in 0..k |-> IF n = k THEN F[k][g[k - 1]] ELSE g[n]]
  <2>3. F[k] \in [S -> S] /\ g[k - 1] \in S
    BY <2>2
  <2>4. h \in [0..k -> S]
    <3>1. \A n \in 0..k : n # k => n \in 0..(k - 1)
      OBVIOUS
    <3> QED
      BY <2>2, <2>3, <3>1
  <2>5. h[k] = F[k][g[k - 1]] /\ \A n \in 0..(k - 1) : h[n] = g[n]
    OBVIOUS
  <2> HIDE DEF h
  <2>6. h[0] = base
    BY <2>2, <2>5
  <2>7. ASSUME NEW n \in 1..k PROVE h[n] = F[n][h[n - 1]]
    <3>1. n - 1 \in 0..(k - 1) /\ (n = k \/ n \in 1..(k - 1))
      OBVIOUS
    <3> QED
      BY <2>2, <2>5, <3>1
  <2>8. \E e \in [0..k -> S] : Upto(e, k)
    BY <2>4, <2>6, <2>7
  <2> QED
    BY <2>1, <2>8
<1> HIDE DEF P
<1>3. N \in P
  <2>1. \A k \in 1..N : k - 1 \in P => k \in P
    BY <1>2
  <2>2. \A k \in 0..N : k \in P
    BY <1>1, <2>1, Inductive
  <2> QED
    BY <2>2
<1> QED
  BY <1>3 DEF P, Computes

\* e tells where what is picked of the first n messages stood.
Picks(e, n, ms, places, p) ==
  /\ p \in Seq(ToSet(ms)) /\ e \in [1..Len(p) -> places \cap 1..n]
  /\ \A k \in 1..Len(p) : p[k] = ms[e[k]]
  /\ \A k, l \in 1..Len(p) : k < l => e[k] < e[l]
  /\ \A i \in places \cap 1..n : \E k \in 1..Len(p) : e[k] = i

PickStep(ms, places, n, p) == IF n \in places THEN Append(p, ms[n]) ELSE p

LEMMA PicksMore ==
  ASSUME NEW ms, ms \in Seq(ToSet(ms)), NEW places, NEW n \in 1..Len(ms),
         NEW e, NEW p, Picks(e, n - 1, ms, places, p)
  PROVE  \E f : Picks(f, n, ms, places, PickStep(ms, places, n, p))
<1>1. p \in Seq(ToSet(ms)) /\ e \in [1..Len(p) -> places \cap 1..(n - 1)]
  BY DEF Picks
<1>2. PICK m \in Nat : m = Len(p)
  BY <1>1
<1>3. n \in Nat /\ 1..n = 1..(n - 1) \cup {n} /\ \A i \in 1..(n - 1) : i < n /\ i \in Nat
  OBVIOUS
<1>4. CASE n \notin places
  <2>1. places \cap 1..n = places \cap 1..(n - 1)
    BY <1>3, <1>4
  <2>2. PickStep(ms, places, n, p) = p
    BY <1>4 DEF PickStep
  <2> QED
    BY <2>1, <2>2 DEF Picks
<1>5. CASE n \in places
  <2> DEFINE q == Append(p, ms[n])
             f == [k \in 1..(m + 1) |-> IF k = m + 1 THEN n ELSE e[k]]
  <2>1. ms[n] \in ToSet(ms)
    BY DEF ToSet
  <2>2. /\ q \in Seq(ToSet(ms)) /\ Len(q) = m + 1
        /\ q[m + 1] = ms[n] /\ \A k \in 1..m : q[k] = p[k]
    BY <1>1, <1>2, <2>1
  <2> HIDE DEF q
  <2>3. \A k \in 1..(m + 1) : k = m + 1 \/ k \in 1..m
    BY <1>2
  <2>4. \A k \in 1..m : k \in 1..(m + 1) /\ k # m + 1
    BY <1>2
  <2>5. m + 1 \in 1..(m + 1)
    BY <1>2
  <2>6. \A k \in 1..m : e[k] \in places \cap 1..(n - 1)
    BY <1>1, <1>2
  <2>7. /\ f \in [1..(m + 1) -> places \cap 1..n]
        /\ f[m + 1] = n /\ \A k \in 1..m : f[k] = e[k]
    <3>1. n \in places \cap 1..n /\ places \cap 1..(n - 1) \subseteq places \cap 1..n
      BY <1>3, <1>5
    <3> QED
      BY <2>3, <2>4, <2>5, <2>6, <3>1
  <2> HIDE DEF f
  <2>8. \A k \in 1..(m + 1) : q[k] = ms[f[k]]
    <3>1. \A k \in 1..m : p[k] = ms[e[k]]
      BY <1>2 DEF Picks
    <3> QED
      BY <2>2, <2>3, <2>7, <3>1
  <2>9. ASSUME NEW k \in 1..(m + 1), NEW l \in 1..(m + 1), k < l PROVE f[k] < f[l]
    <3>1. k \in 1..m
      BY <1>2, <2>9
    <3>2. CASE l = m + 1
      BY <1>3, <2>6, <2>7, <3>1, <3>2
    <3>3. CASE l \in 1..m
      <4>1. e[k] < e[l]
        BY <1>2, <2>9, <3>1, <3>3 DEF Picks
      <4> QED
        BY <2>7, <3>1, <3>3, <4>1
    <3> QED
      BY <2>3, <3>2, <3>3
  <2>10. ASSUME NEW i \in places \cap 1..n PROVE \E k \in 1..(m + 1) : f[k] = i
    <3>1. CASE i = n
      BY <2>5, <2>7, <3>1
    <3>2. CASE i \in places \cap 1..(n - 1)
      <4>1. PICK k \in 1..m : e[k] = i
        BY <1>2, <3>2 DEF Picks
      <4> QED
        BY <2>4, <2>7, <4>1
    <3> QED
      BY <1>3, <3>1, <3>2
  <2>11. Picks(f, n, ms, places, q)
    BY <2>2, <2>7, <2>8, <2>9, <2>10 DEF Picks
  <2>12. PickStep(ms, places, n, p) = q
    BY <1>5 DEF PickStep, q
  <2> QED
    BY <2>11, <2>12
<1> QED
  BY <1>4, <1>5

LEMMA PickedIs ==
  ASSUME NEW ms, ms \in Seq(ToSet(ms)), NEW places
  PROVE  \E e : Picks(e, Len(ms), ms, places, Picked(ms, places))
<1> DEFINE N == Len(ms)
           S == Seq(ToSet(ms))
           Picking(g) == g = [n \in 0..N |->
                                IF n = 0 THEN <<>>
                                ELSE IF n \in places THEN Append(g[n - 1], ms[n]) ELSE g[n - 1]]
           F == [n \in 1..N |-> [p \in S |-> PickStep(ms, places, n, p)]]
<1>1. N \in Nat
  OBVIOUS
<1>2. F \in [1..N -> [S -> S]]
  <2>1. ASSUME NEW n \in 1..N, NEW p \in S PROVE PickStep(ms, places, n, p) \in S
    <3>1. ms[n] \in ToSet(ms)
      BY DEF ToSet
    <3>2. Append(p, ms[n]) \in S
      BY <3>1
    <3> QED
      BY <3>2 DEF PickStep
  <2> QED
    BY <2>1
<1>3. PICK g : Computes(g, N, S, <<>>, F)
  <2>1. <<>> \in S
    OBVIOUS
  <2> HIDE DEF F, N, S
  <2> QED
    BY <1>1, <1>2, <2>1, Computable
<1>4. Picking(g)
  <2>1. \A n \in 1..N : n - 1 \in 0..N
    BY <1>1
  <2>2. \A n \in 1..N : g[n - 1] \in S
    BY <1>3, <2>1 DEF Computes
  <2>3. \A n \in 1..N : g[n] = PickStep(ms, places, n, g[n - 1])
    BY <1>3, <2>2 DEF Computes
  <2>4. g[0] = <<>> /\ g = [n \in 0..N |-> g[n]]
    BY <1>3 DEF Computes
  <2> QED
    BY <1>1, <2>3, <2>4 DEF PickStep
<1> DEFINE f == CHOOSE h : Picking(h)
<1>5. Picking(f)
  BY <1>4
<1>6. Picked(ms, places) = f[N]
  BY DEF Picked
<1> HIDE DEF f
<1>7. f[0] = <<>> /\ \A n \in 1..N : f[n] = PickStep(ms, places, n, f[n - 1])
  <2>1. \A n \in 0..N : f[n] = IF n = 0 THEN <<>>
                              ELSE IF n \in places THEN Append(f[n - 1], ms[n]) ELSE f[n - 1]
    BY <1>5, Zenon
  <2>2. 0 \in 0..N /\ \A n \in 1..N : n \in 0..N /\ n # 0
    BY <1>1
  <2> HIDE DEF N
  <2> QED
    BY <2>1, <2>2 DEF PickStep
<1> DEFINE P == {n \in 0..N : \E e : Picks(e, n, ms, places, f[n])}
<1>8. 0 \in P
  <2>1. 0 \in 0..N /\ 1..0 = {} /\ Len(<<>>) = 0
    BY <1>1
  <2>2. <<>> \in Seq(ToSet(ms)) /\ <<>> \in [1..0 -> places \cap 1..0]
    OBVIOUS
  <2>3. Picks(<<>>, 0, ms, places, <<>>)
    BY <2>1, <2>2 DEF Picks
  <2> QED
    BY <1>7, <2>1, <2>3
<1>9. ASSUME NEW n \in 1..N, n - 1 \in P PROVE n \in P
  <2>1. PICK e : Picks(e, n - 1, ms, places, f[n - 1])
    BY <1>9
  <2>2. \E h : Picks(h, n, ms, places, f[n])
    BY <1>7, <2>1, PicksMore
  <2> QED
    BY <1>1, <2>2
<1> HIDE DEF P
<1>10. N \in P
  <2>1. \A n \in 1..N : n - 1 \in P => n \in P
    BY <1>9
  <2> HIDE DEF N
  <2>2. \A n \in 0..N : n \in P
    BY <1>1, <1>8, <2>1, Inductive
  <2>3. N \in 0..N
    BY <1>1
  <2> QED
    BY <2>2, <2>3
<1> QED
  BY <1>6, <1>10 DEF P

-----------------------------------------------------------------------------
(* Attachments: what a row serves                                          *)

\* A row is a name and a writer.
RowsAreRows == \A i \in DOMAIN creating : creating[i] = Row(creating[i].name, creating[i].writer)

\* A name nobody else took is pointed to once, by a row or by a task that is
\* to make one.
PointedOnce ==
  /\ \A i, j \in DOMAIN rows :
       rows[i].name = rows[j].name /\ rows[i].name \notin shared => i = j
  /\ \A i, j \in DOMAIN creating :
       creating[i].name = creating[j].name /\ creating[i].name \notin shared => i = j
  /\ \A i \in DOMAIN rows, j \in DOMAIN creating :
       rows[i].name = creating[j].name => rows[i].name \in shared

\* What is to become a row serves its own already, but for a chart whose upload
\* is still to come.
CreatingIsOwn ==
  \A i \in DOMAIN creating :
    creating[i].name \notin shared /\ creating[i].writer # Unwritten =>
      /\ creating[i].name \in DOMAIN files
      /\ files[creating[i].name] = creating[i].writer

OwnInv == RowsAreRows /\ PointedOnce /\ CreatingIsOwn /\ ServedIsOwn

-----------------------------------------------------------------------------
(* What a step does to rows and files                                      *)

LEMMA OwnInvInit == Init => OwnInv
  BY DEF Init, OwnInv, RowsAreRows, PointedOnce, CreatingIsOwn, ServedIsOwn

LEMMA OwnInvRest ==
  ASSUME OwnInv, UNCHANGED <<rows, files, creating, shared>>
  PROVE  OwnInv'
  BY DEF OwnInv, RowsAreRows, PointedOnce, CreatingIsOwn, ServedIsOwn, Unwritten, StepId, Row

\* An upload takes a name away from whoever points to it.
LEMMA UploadOwns ==
  ASSUME OwnInv, NEW name, NEW writer, Stored(name, writer), UNCHANGED <<rows, creating>>
  PROVE  OwnInv'
<1>1. /\ DOMAIN files' = {name} \cup DOMAIN files
      /\ \A y \in DOMAIN files : y # name => files'[y] = files[y]
  BY DEF Stored, With
<1>2. shared \subseteq shared' /\ (name \notin shared' => ~Pointed(name))
  BY DEF Stored, Taken
<1>3. /\ \A i \in DOMAIN rows : rows[i].name = name => name \in shared'
      /\ \A i \in DOMAIN creating : creating[i].name = name => name \in shared'
  BY <1>2 DEF Pointed
<1>4. RowsAreRows' /\ PointedOnce'
  BY <1>2 DEF OwnInv, RowsAreRows, PointedOnce, Row
<1>5. CreatingIsOwn'
  BY <1>1, <1>2, <1>3 DEF OwnInv, CreatingIsOwn, Unwritten, StepId
<1>6. ServedIsOwn'
  BY <1>1, <1>2, <1>3 DEF OwnInv, ServedIsOwn
<1> QED
  BY <1>4, <1>5, <1>6 DEF OwnInv

\* Somebody more points to a name: to a file that is there, or to a chart to be
\* uploaded under a name nobody has.
LEMMA PointingOwns ==
  ASSUME OwnInv, NEW id, NEW name, NEW writer,
         creating' = With(creating, id, Row(name, writer)), UNCHANGED <<rows, files>>,
         shared' \in {shared, shared \cup {name}}, Pointed(name) => name \in shared',
         writer # Unwritten => name \in DOMAIN files /\ files[name] = writer
  PROVE  OwnInv'
<1>1. /\ DOMAIN creating' = {id} \cup DOMAIN creating
      /\ creating'[id] = Row(name, writer)
      /\ \A i \in DOMAIN creating : i # id => creating'[i] = creating[i]
  BY DEF With
<1>2. creating'[id].name = name /\ creating'[id].writer = writer
  BY <1>1 DEF Row
<1>3. /\ \A i \in DOMAIN rows : rows[i].name = name => name \in shared'
      /\ \A i \in DOMAIN creating : creating[i].name = name => name \in shared'
  BY DEF Pointed
<1>4. shared \subseteq shared'
  OBVIOUS
<1>5. RowsAreRows'
  BY <1>1, <1>2 DEF OwnInv, RowsAreRows, Row
<1>6. PointedOnce'
  BY <1>1, <1>2, <1>3, <1>4 DEF OwnInv, PointedOnce
<1>7. CreatingIsOwn'
  BY <1>1, <1>2, <1>4 DEF OwnInv, CreatingIsOwn, Unwritten, StepId
<1>8. ServedIsOwn'
  BY <1>4 DEF OwnInv, ServedIsOwn
<1> QED
  BY <1>5, <1>6, <1>7, <1>8 DEF OwnInv

LEMMA AttachedOwns ==
  ASSUME OwnInv, NEW id, NEW name \in DOMAIN files, Attached(id, name), UNCHANGED <<rows, files>>
  PROVE  OwnInv'
  BY PointingOwns DEF Attached

\* The upload of a chart takes a name nobody else points to.
LEMMA ChartUploadsOwns ==
  ASSUME OwnInv, NEW id, ChartUploads(id)
  PROVE  OwnInv'
<1> DEFINE name == creating[id].name
<1>1. /\ id \in DOMAIN creating /\ creating' = [creating EXCEPT ![id].writer = id]
      /\ files' = With(files, name, id) /\ UNCHANGED <<rows, shared>>
  BY DEF ChartUploads
<1>2. creating[id] = Row(name, creating[id].writer)
  BY <1>1 DEF OwnInv, RowsAreRows, Row
<1>3. creating'[id] = Row(name, id)
  <2>1. creating'[id] = [creating[id] EXCEPT !.writer = id]
    BY <1>1
  <2> QED
    BY <1>2, <2>1 DEF Row
<1>4. /\ DOMAIN creating' = DOMAIN creating /\ creating'[id].name = name
      /\ creating'[id].writer = id
      /\ \A i \in DOMAIN creating : i # id => creating'[i] = creating[i]
  BY <1>1, <1>3 DEF Row
<1>5. /\ DOMAIN files' = {name} \cup DOMAIN files /\ files'[name] = id
      /\ \A y \in DOMAIN files : y # name => files'[y] = files[y]
  BY <1>1 DEF With
<1>6. RowsAreRows'
  BY <1>3, <1>4 DEF OwnInv, RowsAreRows, Row
<1>7. PointedOnce'
  BY <1>1, <1>4 DEF OwnInv, PointedOnce
<1>8. \A i \in DOMAIN creating : creating'[i].name = creating[i].name
  BY <1>4
<1>9. CreatingIsOwn'
  <2> SUFFICES ASSUME NEW i \in DOMAIN creating, creating'[i].name \notin shared,
                      creating'[i].writer # Unwritten
               PROVE  /\ creating'[i].name \in DOMAIN files'
                      /\ files'[creating'[i].name] = creating'[i].writer
    BY <1>1, <1>4 DEF CreatingIsOwn, Unwritten, StepId
  <2>1. CASE i = id
    BY <1>4, <1>5, <2>1
  <2>2. CASE i # id
    <3>1. creating[i].name # name
      BY <1>1, <1>8, <2>2 DEF OwnInv, PointedOnce
    <3> QED
      BY <1>4, <1>5, <2>2, <3>1 DEF OwnInv, CreatingIsOwn, Unwritten, StepId
  <2> QED
    BY <2>1, <2>2
<1>10. ServedIsOwn'
  <2> SUFFICES ASSUME NEW i \in DOMAIN rows, rows[i].name \notin shared
               PROVE  /\ rows[i].name \in DOMAIN files'
                      /\ files'[rows[i].name] = rows[i].writer
    BY <1>1 DEF ServedIsOwn
  <2>1. rows[i].name # name
    BY <1>1 DEF OwnInv, PointedOnce
  <2> QED
    BY <1>5, <2>1 DEF OwnInv, ServedIsOwn
<1> QED
  BY <1>6, <1>7, <1>9, <1>10 DEF OwnInv

\* The row appears in place of the task.
LEMMA CommitOwns ==
  ASSUME OwnInv, NEW id, CreateCommits(id)
  PROVE  OwnInv'
<1>1. /\ id \in DOMAIN creating /\ creating[id].writer # Unwritten
      /\ UNCHANGED <<files, shared>>
  BY DEF CreateCommits
<1>2. /\ DOMAIN rows' = {id} \cup DOMAIN rows /\ rows'[id] = creating[id]
      /\ \A i \in DOMAIN rows : i # id => rows'[i] = rows[i]
  BY DEF CreateCommits, With
<1>3. /\ DOMAIN creating' = DOMAIN creating \ {id}
      /\ \A i \in DOMAIN creating \ {id} : creating'[i] = creating[i]
  BY DEF CreateCommits, Without
<1>4. RowsAreRows' /\ CreatingIsOwn'
  BY <1>1, <1>3 DEF OwnInv, RowsAreRows, CreatingIsOwn, Unwritten, StepId, Row
<1>5. ServedIsOwn'
  BY <1>1, <1>2 DEF OwnInv, CreatingIsOwn, ServedIsOwn
<1>6. PointedOnce'
  <2>1. ASSUME NEW i \in DOMAIN rows', NEW j \in DOMAIN rows',
               rows'[i].name = rows'[j].name, rows'[i].name \notin shared
        PROVE  i = j
    BY <1>1, <1>2, <2>1 DEF OwnInv, PointedOnce
  <2>2. ASSUME NEW i \in DOMAIN rows', NEW j \in DOMAIN creating',
               rows'[i].name = creating'[j].name
        PROVE  rows'[i].name \in shared
    BY <1>1, <1>2, <1>3, <2>2 DEF OwnInv, PointedOnce
  <2>3. ASSUME NEW i \in DOMAIN creating', NEW j \in DOMAIN creating',
               creating'[i].name = creating'[j].name, creating'[i].name \notin shared
        PROVE  i = j
    BY <1>3, <2>3 DEF OwnInv, PointedOnce
  <2> QED
    BY <1>1, <2>1, <2>2, <2>3 DEF PointedOnce
<1> QED
  BY <1>4, <1>5, <1>6 DEF OwnInv

LEMMA FailOwns ==
  ASSUME OwnInv, NEW id, CreateFails(id)
  PROVE  OwnInv'
<1>1. /\ DOMAIN creating' = DOMAIN creating \ {id}
      /\ \A i \in DOMAIN creating \ {id} : creating'[i] = creating[i]
      /\ UNCHANGED <<rows, files, shared>>
  BY DEF CreateFails, Without
<1> QED
  BY <1>1 DEF OwnInv, RowsAreRows, PointedOnce, CreatingIsOwn, ServedIsOwn, Unwritten, StepId, Row

\* The file goes with the only row of its name.
LEMMA DeleteOwns ==
  ASSUME OwnInv, NEW id, DeleteElement(id)
  PROVE  OwnInv'
<1>1. UNCHANGED <<creating, shared>>
  BY DEF DeleteElement
<1>2. CASE id \notin DOMAIN rows
  BY <1>1, <1>2, OwnInvRest DEF DeleteElement
<1>3. CASE id \in DOMAIN rows
  <2> DEFINE name == rows[id].name
  <2>1. /\ DOMAIN rows' = DOMAIN rows \ {id}
        /\ \A i \in DOMAIN rows \ {id} : rows'[i] = rows[i]
    BY <1>3 DEF DeleteElement, Without
  <2>2. /\ DOMAIN files' = DOMAIN files \ {name}
        /\ \A y \in DOMAIN files \ {name} : files'[y] = files[y]
    BY <1>3 DEF DeleteElement, Without
  <2>3. RowsAreRows' /\ PointedOnce'
    BY <1>1, <2>1 DEF OwnInv, RowsAreRows, PointedOnce, Row
  <2>4. CreatingIsOwn'
    <3>1. \A i \in DOMAIN creating : creating[i].name \notin shared => creating[i].name # name
      BY <1>3 DEF OwnInv, PointedOnce
    <3> QED
      BY <1>1, <2>2, <3>1 DEF OwnInv, CreatingIsOwn, Unwritten, StepId
  <2>5. ServedIsOwn'
    <3>1. \A i \in DOMAIN rows \ {id} : rows[i].name \notin shared => rows[i].name # name
      BY <1>3 DEF OwnInv, PointedOnce
    <3> QED
      BY <1>1, <2>1, <2>2, <3>1 DEF OwnInv, ServedIsOwn
  <2> QED
    BY <2>3, <2>4, <2>5 DEF OwnInv
<1> QED
  BY <1>2, <1>3
\* Every other step leaves the attachments alone.
LEMMA OwnInvNext ==
  ASSUME OwnInv, [Next]_vars
  PROVE  OwnInv'
<1> USE DEF drawing, attachments, todo, tab, bounds, unturned
<1>1. ASSUME NEW name, Upload(name) PROVE OwnInv'
  BY <1>1, UploadOwns DEF Upload
<1>2. ASSUME NEW id, ChartUploads(id) PROVE OwnInv'
  BY <1>2, ChartUploadsOwns
<1>3. ASSUME NEW id, CreateCommits(id) PROVE OwnInv'
  BY <1>3, CommitOwns
<1>4. ASSUME NEW id, CreateFails(id) PROVE OwnInv'
  BY <1>4, FailOwns
<1>5. ASSUME NEW q, NEW names, Ask(q, names) PROVE OwnInv'
  <2>1. CASE names = {}
    BY <1>5, <2>1, OwnInvRest DEF Ask
  <2>2. CASE names # {}
    <3> DEFINE name == CHOOSE n \in names : TRUE
    <3>1. name \in DOMAIN files
      BY <1>5, <2>2 DEF Ask
    <3>2. Attached(StepId(q, 0, "element"), name) /\ UNCHANGED <<rows, files>>
      BY <1>5, <2>2 DEF Ask
    <3> HIDE DEF name
    <3> QED
      BY <3>1, <3>2, AttachedOwns
  <2> QED
    BY <2>1, <2>2
<1>6. ASSUME NEW id, DeleteElement(id) PROVE OwnInv'
  BY <1>6, DeleteOwns
<1>7. ASSUME NEW c, NEW name, SendFile(c, name) PROVE OwnInv'
  <2>1. /\ name \in DOMAIN files /\ Attached(ElementId(c), name)
        /\ UNCHANGED <<rows, files>>
    BY <1>7 DEF SendFile
  <2> QED
    BY <2>1, AttachedOwns
<1>8. ASSUME NEW c, DrawsChart(c) PROVE OwnInv'
  <2>1. /\ creating' = With(creating, ElementId(c), Row(ChartName, Unwritten))
        /\ shared' = IF Taken(ChartName) THEN shared \cup {ChartName} ELSE shared
        /\ UNCHANGED <<rows, files>>
    BY <1>8 DEF DrawsChart
  <2>2. /\ shared' \in {shared, shared \cup {ChartName}}
        /\ Pointed(ChartName) => ChartName \in shared'
    BY <2>1 DEF Taken
  <2> QED
    BY <2>1, <2>2, PointingOwns
<1>9. CASE \/ DeleteFails \/ Truncate \/ Refresh \/ RefreshFails \/ StopTurn
           \/ Remember \/ TurnFails \/ ResumeReads \/ ResumeShows \/ UNCHANGED vars
  BY <1>9, OwnInvRest DEF DeleteFails, Truncate, Refresh, RefreshFails, StopTurn,
     Remember, TurnFails, ResumeReads, ResumeShows, vars
<1>10. CASE ModelSteps
  BY <1>10, OwnInvRest DEF ModelSteps, Thinks, Says, ModelEnds, SaveAnswer, SaveResults,
     TurnEnds
<1>11. ASSUME NEW c, NEW outcome,
              \/ Refuse(c) \/ SendsStep(c) \/ NotesStep(c) \/ ToolEnds(c, outcome)
              \/ StopPending(c)
       PROVE  OwnInv'
  BY <1>11, OwnInvRest DEF Refuse, SendsStep, NotesStep, ToolEnds, StopPending
<1>12. ASSUME NEW q, Edit(q) PROVE OwnInv'
  BY <1>12, OwnInvRest DEF Edit
<1> QED
  BY <1>1, <1>2, <1>3, <1>4, <1>5, <1>6, <1>7, <1>8, <1>9, <1>10, <1>11, <1>12
     DEF Next, ToolSteps

\* An attachment whose name no other upload, chart or sent file took serves
\* what was stored for it: create_element writes the row of a chart after its
\* upload, and delete_element takes a file with the only row of its name.
THEOREM AttachmentsServeTheirOwn == Spec => []ServedIsOwn
<1>1. OwnInv => ServedIsOwn
  BY DEF OwnInv
<1> QED
  BY OwnInvInit, OwnInvNext, <1>1, PTL DEF Spec

-----------------------------------------------------------------------------
(* What a rewind has still to delete                                       *)

\* The history is a sequence of messages whose calls are sequences.
HistoryTyped ==
  /\ messages \in Seq(ToSet(messages))
  /\ \A m \in ToSet(messages) : m.calls \in Seq(Calls)
  /\ draft[2] \in Seq(Calls)
  /\ pc = "tools" => messages # <<>>

\* Until the history is cut, what hangs on its tail is to be deleted or was
\* missed.
TailIsDoomed ==
  pc = "rewinding" =>
    /\ IsAsked(messages, turn)
    /\ TailElements(messages, turn) \cap (DOMAIN rows \cup DOMAIN creating) \subseteq doomed \cup missed

RewindInv == HistoryTyped /\ TailIsDoomed

\* A sequence is one of what is in it.
LEMMA OfItsOwn ==
  ASSUME NEW S, NEW s \in Seq(S)
  PROVE  s \in Seq(ToSet(s)) /\ ToSet(s) \subseteq S
  BY DEF ToSet

\* A message more.
LEMMA Appended ==
  ASSUME NEW s, s \in Seq(ToSet(s)), NEW m
  PROVE  /\ Append(s, m) \in Seq(ToSet(Append(s, m)))
         /\ ToSet(Append(s, m)) = ToSet(s) \cup {m}
         /\ Len(Append(s, m)) = Len(s) + 1 /\ Append(s, m) # <<>>
<1> DEFINE T == ToSet(s) \cup {m}
<1>1. s \in Seq(T) /\ m \in T /\ Len(s) \in Nat /\ DOMAIN s = 1..Len(s)
  OBVIOUS
<1> HIDE DEF T
<1>2. /\ Append(s, m) \in Seq(T) /\ Len(Append(s, m)) = Len(s) + 1
      /\ \A i \in 1..Len(s) : Append(s, m)[i] = s[i]
      /\ Append(s, m)[Len(s) + 1] = m /\ DOMAIN Append(s, m) = 1..(Len(s) + 1)
  BY <1>1
<1>3. ToSet(Append(s, m)) \subseteq T /\ Append(s, m) \in Seq(ToSet(Append(s, m)))
  BY <1>2, OfItsOwn
<1>4. ASSUME NEW x \in T PROVE x \in ToSet(Append(s, m))
  <2>1. CASE x = m
    <3>1. Len(s) + 1 \in 1..(Len(s) + 1)
      BY <1>1
    <3> QED
      BY <1>2, <2>1, <3>1 DEF ToSet
  <2>2. CASE x \in ToSet(s)
    <3>1. PICK i \in 1..Len(s) : x = s[i]
      BY <1>1, <2>2 DEF ToSet
    <3>2. i \in 1..(Len(s) + 1)
      BY <1>1
    <3> QED
      BY <1>2, <3>1, <3>2 DEF ToSet
  <2> QED
    BY <2>1, <2>2 DEF T
<1>5. Len(s) + 1 # 0
  BY <1>1
<1> QED
  BY <1>2, <1>3, <1>4, <1>5 DEF T

\* The tail is as long as what it leaves out lacks.
LEMMA TailLength ==
  ASSUME NEW S, NEW s \in Seq(S), NEW a \in 1..Len(s)
  PROVE  Len(SubSeq(s, a + 1, Len(s))) = Len(s) - a
<1>1. PICK n \in Nat : n = Len(s)
  OBVIOUS
<1>2. a \in 1..n /\ (a = n \/ a + 1 \in 1..n) /\ n - (a + 1) + 1 = n - a
  BY <1>1
<1>3. CASE a = n
  <2>1. SubSeq(s, a + 1, n) = <<>>
    BY <1>1, <1>3
  <2>2. n - a = 0
    BY <1>1, <1>3
  <2> QED
    BY <1>1, <2>1, <2>2
<1>4. CASE a + 1 \in 1..n
  <2>1. Len(SubSeq(s, a + 1, n)) = n - (a + 1) + 1
    BY <1>1, <1>4
  <2> QED
    BY <1>1, <1>2, <2>1
<1> QED
  BY <1>2, <1>3, <1>4

\* The history up to an asked question is a beginning of it.
LEMMA RewoundIs ==
  ASSUME NEW s, s \in Seq(ToSet(s)), NEW q, IsAsked(s, q)
  PROVE  /\ Rewound(s, q) \in Seq(ToSet(Rewound(s, q)))
         /\ ToSet(Rewound(s, q)) \subseteq ToSet(s)
         /\ \E at \in 1..Len(s) : /\ s[at].kind = "human" /\ s[at].id = q
                                  /\ Rewound(s, q) = SubSeq(s, 1, at)
<1> DEFINE T == {i \in DOMAIN s : s[i].kind = "human" /\ s[i].id = q}
           at == CHOOSE i \in DOMAIN s :
                   /\ s[i].kind = "human" /\ s[i].id = q
                   /\ \A j \in 1..(i - 1) : ~(s[j].kind = "human" /\ s[j].id = q)
<1>1. Len(s) \in Nat /\ DOMAIN s = 1..Len(s)
  OBVIOUS
<1>2. PICK i \in T : \A j \in T : i <= j
  <2>1. T \subseteq Nat /\ T # {}
    BY <1>1 DEF IsAsked
  <2> HIDE DEF T
  <2> QED
    BY <2>1, Smallest
<1>3. i \in 1..Len(s) /\ s[i].kind = "human" /\ s[i].id = q
  BY <1>1, <1>2
<1>4. ASSUME NEW j \in 1..(i - 1) PROVE ~(s[j].kind = "human" /\ s[j].id = q)
  <2>1. j \in 1..Len(s) /\ ~(i <= j)
    BY <1>1, <1>3
  <2>2. j \notin T
    BY <1>2, <2>1
  <2> QED
    BY <1>1, <2>1, <2>2
<1>5. at \in DOMAIN s /\ s[at].kind = "human" /\ s[at].id = q
  BY <1>1, <1>3, <1>4
<1> HIDE DEF at
<1>6. at \in 1..Len(s)
  BY <1>1, <1>5
<1>7. Len(SubSeq(s, at + 1, Len(s))) = Len(s) - at
  BY <1>6, TailLength
<1>8. Rewound(s, q) = SubSeq(s, 1, Len(s) - Len(SubSeq(s, at + 1, Len(s))))
  BY DEF Rewound, After, at
<1>9. Rewound(s, q) = SubSeq(s, 1, at)
  <2>1. Len(s) - (Len(s) - at) = at
    BY <1>1, <1>6
  <2> QED
    BY <1>7, <1>8, <2>1
<1>10. SubSeq(s, 1, at) \in Seq(ToSet(s))
  BY <1>1, <1>6
<1> QED
  BY <1>5, <1>6, <1>9, <1>10, OfItsOwn

\* A message more, of calls of the thread, leaves a history.
LEMMA SaidMore ==
  ASSUME HistoryTyped, NEW m, m.calls \in Seq(Calls), messages' = Append(messages, m)
  PROVE  /\ messages' \in Seq(ToSet(messages')) /\ messages' # <<>>
         /\ \A n \in ToSet(messages)' : n.calls \in Seq(Calls)
         /\ Len(messages') = Len(messages) + 1
<1>1. /\ messages' \in Seq(ToSet(messages')) /\ ToSet(messages') = ToSet(messages) \cup {m}
      /\ Len(messages') = Len(messages) + 1 /\ messages' # <<>>
  BY Appended DEF HistoryTyped
<1>2. \A n \in ToSet(messages) : n.calls \in Seq(Calls)
  BY DEF HistoryTyped
<1> QED
  BY <1>1, <1>2

\* What is appended at once.
LEMMA Joined ==
  ASSUME NEW s, s \in Seq(ToSet(s)), NEW t, t \in Seq(ToSet(t))
  PROVE  /\ s \o t \in Seq(ToSet(s \o t))
         /\ ToSet(s \o t) \subseteq ToSet(s) \cup ToSet(t)
         /\ Len(s \o t) = Len(s) + Len(t)
<1> DEFINE T == ToSet(s) \cup ToSet(t)
<1>1. s \in Seq(T) /\ t \in Seq(T)
  OBVIOUS
<1> HIDE DEF T
<1>2. s \o t \in Seq(T) /\ Len(s \o t) = Len(s) + Len(t)
  BY <1>1
<1> QED
  BY <1>2, OfItsOwn DEF T

\* The calls of a message, whichever of Chosen they are.
LEMMA ChosenIsCalls ==
  ASSUME NEW chosen \in Chosen
  PROVE  chosen \in Seq(Calls)
<1>1. PICK s \in SUBSET Calls : IsFiniteSet(s) /\ chosen = SetToSeq(s)
  BY DEF Chosen
<1> DEFINE n == Cardinality(s)
<1>2. n \in Nat
  BY <1>1, FS_CardinalityType
<1>3. PICK f : f \in Bijection(1..n, s)
  BY <1>1, FS_NatBijection, FS_CardinalityType DEF ExistsBijection
<1>4. f \in [1..n -> s] /\ IsInjective(f)
  BY <1>3 DEF Bijection, Injection, IsInjective
<1>5. SetToSeq(s) \in [1..n -> s]
  BY <1>4 DEF SetToSeq
<1> HIDE DEF n
<1> DEFINE g == SetToSeq(s)
<1>6. g \in [1..n -> s]
  BY <1>5
<1> HIDE DEF g
<1>7. g \in [1..n -> Calls]
  BY <1>6
<1>8. g \in Seq(Calls)
  BY <1>2, <1>7
<1> QED
  BY <1>1, <1>8 DEF g

-----------------------------------------------------------------------------
(* The history stays one                                                   *)

LEMMA HistoryInit == Init => RewindInv
<1> SUFFICES ASSUME Init PROVE RewindInv
  OBVIOUS
<1>1. ToSet(<<>>) = {}
  BY DEF ToSet
<1>2. <<>> \in Seq({}) /\ <<>> \in Seq(Calls)
  OBVIOUS
<1>3. messages = <<>> /\ draft[2] = <<>> /\ pc = "idle"
  BY DEF Init, NoDraft
<1> QED
  BY <1>1, <1>2, <1>3 DEF RewindInv, HistoryTyped, TailIsDoomed

\* A message added under an id of its own.
LEMMA NotedTyped ==
  ASSUME NEW id, NEW mark
  PROVE  /\ Note(id, mark).calls \in Seq(Calls) /\ Human(id).calls \in Seq(Calls)
         /\ Tool(id, mark).calls \in Seq(Calls)
  BY DEF Note, Human, Tool, NoMessage

\* The history and the draft after a step, and that a step cuts the history only
\* as a rewind does.
LEMMA HistoryNext ==
  ASSUME HistoryTyped, TailIsDoomed, [Next]_vars
  PROVE  HistoryTyped' /\ (Truncate \/ Len(messages') >= Len(messages))
<1> USE DEF drawing, attachments, todo, tab, bounds, unturned
<1>1. /\ messages \in Seq(ToSet(messages)) /\ Len(messages) \in Nat
      /\ Len(messages) + 1 >= Len(messages) /\ draft[2] \in Seq(Calls)
  BY DEF HistoryTyped
<1>2. ASSUME UNCHANGED <<messages, draft>>, pc' = "tools" => pc = "tools"
      PROVE  HistoryTyped' /\ Len(messages') >= Len(messages)
  <2>1. HistoryTyped'
    BY <1>2 DEF HistoryTyped
  <2>2. Len(messages') = Len(messages)
    BY <1>2
  <2> QED
    BY <1>1, <2>1, <2>2
<1>3. <<>> \in Seq(Calls)
  OBVIOUS
<1>4. ASSUME NEW m, m.calls \in Seq(Calls), messages' = Append(messages, m),
             draft' \in {draft, NoDraft}
      PROVE  HistoryTyped' /\ Len(messages') >= Len(messages)
  <2>1. draft'[2] \in Seq(Calls)
    <3>1. NoDraft[2] = <<>>
      BY DEF NoDraft
    <3>2. draft' = draft \/ draft' = NoDraft
      BY <1>4
    <3> QED
      BY <1>1, <1>3, <3>1, <3>2, Zenon
  <2>2. HistoryTyped'
    <3>1. /\ messages' \in Seq(ToSet(messages')) /\ messages' # <<>>
          /\ \A n \in ToSet(messages)' : n.calls \in Seq(Calls)
      BY <1>4, SaidMore
    <3> QED
      BY <2>1, <3>1, Zenon DEF HistoryTyped
  <2>3. Len(messages') = Len(messages) + 1
    BY <1>4, SaidMore
  <2> QED
    BY <1>1, <2>2, <2>3
<1>5. ASSUME NEW q, NEW names, Ask(q, names)
      PROVE  HistoryTyped' /\ Len(messages') >= Len(messages)
  <2>1. messages' = Append(messages, Human(q)) /\ draft' = draft
    BY <1>5 DEF Ask
  <2> QED
    BY <1>4, <2>1, NotedTyped
<1>6. CASE Remember \/ TurnFails
  <2>1. /\ messages' \in {Append(messages, Note(answers', "stopped")),
                          Append(messages, Note(answers', "error"))}
        /\ draft' \in {draft, NoDraft}
    BY <1>6 DEF Remember, TurnFails
  <2> QED
    BY <1>4, <2>1, NotedTyped
<1>7. CASE SaveAnswer
  <2> DEFINE m == Ai(draft[1], thought, said, draft[2])
  <2>1. messages' = Append(messages, m) /\ draft' = NoDraft
    BY <1>7 DEF SaveAnswer
  <2>2. m.calls \in Seq(Calls)
    BY <1>1 DEF Ai, NoMessage
  <2> HIDE DEF m
  <2> QED
    BY <1>4, <2>1, <2>2
<1>8. CASE SaveResults
  <2> DEFINE order == messages[Len(messages)].calls
             results == [i \in DOMAIN order |-> Tool(order[i], calls[order[i]])]
  <2>1. messages' = messages \o results /\ pc = "tools" /\ pc' = "model" /\ draft' = draft
    BY <1>8 DEF SaveResults
  <2>2. order \in Seq(Calls)
    <3>1. messages # <<>>
      BY <2>1 DEF HistoryTyped
    <3>2. Len(messages) \in DOMAIN messages
      BY <1>1, <3>1
    <3> QED
      BY <3>2 DEF HistoryTyped, ToSet
  <2> HIDE DEF order
  <2>3. Len(order) \in Nat /\ DOMAIN order = 1..Len(order)
    BY <2>2
  <2>4. \A r \in ToSet(results) : r.calls \in Seq(Calls)
    BY NotedTyped DEF ToSet
  <2>5. results \in [1..Len(order) -> ToSet(results)]
    BY <2>3 DEF ToSet
  <2> HIDE DEF results
  <2>6. results \in Seq(ToSet(results))
    BY <2>3, <2>5
  <2>7. /\ messages' \in Seq(ToSet(messages'))
        /\ ToSet(messages') \subseteq ToSet(messages) \cup ToSet(results)
        /\ Len(messages') = Len(messages) + Len(results)
    BY <1>1, <2>1, <2>6, Joined
  <2>8. Len(results) \in Nat
    BY <2>6
  <2>9. HistoryTyped'
    BY <2>1, <2>4, <2>7 DEF HistoryTyped
  <2> QED
    BY <1>1, <2>7, <2>8, <2>9
<1>9. ASSUME NEW chosen \in Chosen, ModelEnds(chosen)
      PROVE  HistoryTyped' /\ Len(messages') >= Len(messages)
  <2>1. /\ messages' = messages /\ draft' = <<answers', chosen>> /\ pc' = "saving"
    BY <1>9 DEF ModelEnds
  <2>2. draft'[2] \in Seq(Calls)
    BY <2>1, ChosenIsCalls
  <2> QED
    BY <1>1, <2>1, <2>2 DEF HistoryTyped
<1>10. CASE StopTurn
  <2>1. messages' = messages /\ draft' = NoDraft /\ pc' = "stopping"
    BY <1>10 DEF StopTurn
  <2> QED
    BY <1>1, <1>3, <2>1 DEF HistoryTyped, NoDraft
<1>11. CASE Truncate
  <2>1. /\ messages' = Rewound(messages, turn) /\ draft' = draft /\ pc' = "refreshing"
        /\ IsAsked(messages, turn)
    BY <1>11 DEF Truncate, TailIsDoomed
  <2>2. /\ messages' \in Seq(ToSet(messages')) /\ ToSet(messages') \subseteq ToSet(messages)
    BY <1>1, <2>1, RewoundIs
  <2> QED
    BY <1>11, <2>1, <2>2 DEF HistoryTyped
<1>12. CASE \/ DeleteFails \/ Refresh \/ RefreshFails \/ ResumeReads \/ ResumeShows
            \/ Thinks \/ Says \/ TurnEnds \/ UNCHANGED vars
  BY <1>2, <1>12 DEF DeleteFails, Refresh, RefreshFails, ResumeReads, ResumeShows, Thinks,
     Says, TurnEnds, vars, BeginsTurn
<1>13. ASSUME NEW c, NEW outcome, NEW name,
              \/ Refuse(c) \/ SendsStep(c) \/ NotesStep(c) \/ ToolEnds(c, outcome)
              \/ StopPending(c) \/ SendFile(c, name) \/ DrawsChart(c)
       PROVE  HistoryTyped' /\ Len(messages') >= Len(messages)
  BY <1>2, <1>13 DEF Refuse, SendsStep, NotesStep, ToolEnds, StopPending, SendFile, DrawsChart
<1>14. ASSUME NEW x, \/ Upload(x) \/ ChartUploads(x) \/ CreateCommits(x) \/ CreateFails(x)
                     \/ Edit(x) \/ DeleteElement(x)
       PROVE  HistoryTyped' /\ Len(messages') >= Len(messages)
  BY <1>2, <1>14 DEF Upload, ChartUploads, CreateCommits, CreateFails, Edit, DeleteElement
<1> QED
  BY <1>5, <1>6, <1>7, <1>8, <1>9, <1>10, <1>11, <1>12, <1>13, <1>14
     DEF Next, ToolSteps, ModelSteps

\* What hangs on the tail of an edited question is deleted or was missed.
LEMMA TailNext ==
  ASSUME TailIsDoomed, [Next]_vars
  PROVE  TailIsDoomed'
<1> USE DEF drawing, attachments, todo, tab, bounds, unturned
<1>1. ASSUME UNCHANGED <<messages, turn, doomed, missed>>, pc' = "rewinding" => pc = "rewinding",
             DOMAIN rows' \cup DOMAIN creating' \subseteq DOMAIN rows \cup DOMAIN creating
      PROVE  TailIsDoomed'
  BY <1>1 DEF TailIsDoomed
<1>2. ASSUME pc' # "rewinding" PROVE TailIsDoomed'
  BY <1>2 DEF TailIsDoomed
<1>3. ASSUME NEW x, CreateCommits(x) PROVE TailIsDoomed'
  <2>1. DOMAIN rows' \cup DOMAIN creating' \subseteq DOMAIN rows \cup DOMAIN creating
    BY <1>3 DEF CreateCommits, With, Without
  <2> QED
    BY <1>1, <1>3, <2>1 DEF CreateCommits
<1>4. ASSUME NEW x, CreateFails(x) PROVE TailIsDoomed'
  <2>1. DOMAIN rows' \cup DOMAIN creating' \subseteq DOMAIN rows \cup DOMAIN creating
    BY <1>4 DEF CreateFails, Without
  <2> QED
    BY <1>1, <1>4, <2>1 DEF CreateFails
<1>5. ASSUME NEW x, \/ Upload(x) \/ ChartUploads(x)
      PROVE  TailIsDoomed'
  BY <1>1, <1>5 DEF Upload, ChartUploads
<1>6. ASSUME NEW id, DeleteElement(id) PROVE TailIsDoomed'
  <2>1. /\ pc = "rewinding" /\ UNCHANGED <<messages, turn, creating, pc>>
        /\ doomed' = doomed \ {id}
        /\ missed \subseteq missed' /\ (id \in DOMAIN creating => id \in missed')
        /\ DOMAIN rows' = DOMAIN rows \ {id}
    BY <1>6 DEF DeleteElement, Without
  <2> QED
    BY <2>1 DEF TailIsDoomed
<1>7. ASSUME NEW q, Edit(q) PROVE TailIsDoomed'
  BY <1>7 DEF Edit, TailIsDoomed
<1>8. ASSUME NEW q, NEW names, Ask(q, names) PROVE TailIsDoomed'
  BY <1>2, <1>8 DEF Ask, BeginsTurn
<1>9. CASE \/ DeleteFails \/ Truncate \/ Refresh \/ RefreshFails \/ StopTurn
           \/ Remember \/ TurnFails
  BY <1>2, <1>9 DEF DeleteFails, Truncate, Refresh, RefreshFails, StopTurn, Remember,
     TurnFails, BeginsTurn
<1>10. CASE ResumeReads \/ ResumeShows \/ UNCHANGED vars
  BY <1>1, <1>10 DEF ResumeReads, ResumeShows, vars
<1>11. ASSUME NEW chosen, \/ Thinks \/ Says \/ ModelEnds(chosen) \/ SaveAnswer
                          \/ SaveResults \/ TurnEnds
       PROVE  TailIsDoomed'
  BY <1>2, <1>11 DEF Thinks, Says, ModelEnds, SaveAnswer, SaveResults, TurnEnds
<1>12. ASSUME NEW c, NEW outcome, NEW name,
              \/ Refuse(c) \/ SendsStep(c) \/ NotesStep(c) \/ ToolEnds(c, outcome)
              \/ StopPending(c) \/ SendFile(c, name) \/ DrawsChart(c)
       PROVE  TailIsDoomed'
  BY <1>2, <1>12 DEF Refuse, SendsStep, NotesStep, ToolEnds, StopPending, SendFile, DrawsChart
<1> QED
  BY <1>3, <1>4, <1>5, <1>6, <1>7, <1>8, <1>9, <1>10, <1>11, <1>12
     DEF Next, ToolSteps, ModelSteps

\* When the history is cut at an edited question, the attachments of the
\* messages cut off are gone, but those still being created: apply truncates
\* after every element of its plan is deleted, whatever else ran in between.
THEOREM RewindsAreComplete == Spec => RewindIsComplete
<1>1. RewindInv /\ [Next]_vars => RewindInv'
  BY HistoryNext, TailNext DEF RewindInv
<1>2. RewindInv /\ [Next]_vars =>
        [Len(messages') < Len(messages) =>
           TailElements(messages, turn) \cap DOMAIN rows' \subseteq missed]_vars
  <2> SUFFICES ASSUME RewindInv, [Next]_vars, Len(messages') < Len(messages)
               PROVE  TailElements(messages, turn) \cap DOMAIN rows' \subseteq missed
    OBVIOUS
  <2>1. Truncate
    <3>1. Len(messages) \in Nat /\ Len(messages') \in Nat
      BY HistoryNext DEF RewindInv, HistoryTyped
    <3> QED
      BY <3>1, HistoryNext DEF RewindInv
  <2>2. pc = "rewinding" /\ doomed = {} /\ rows' = rows
    BY <2>1 DEF Truncate, attachments
  <2> QED
    BY <2>2 DEF RewindInv, TailIsDoomed
<1> QED
  BY HistoryInit, <1>1, <1>2, PTL DEF Spec, RewindIsComplete

-----------------------------------------------------------------------------
(* What a replay shows                                                     *)

\* One pass over the messages: what is made of n of them is made of what was made
\* of those before.
LEMMA PassIs ==
  ASSUME NEW ms, NEW N \in Nat, N = Len(ms)
  PROVE  /\ Pass(ms)[0] = Begin
         /\ \A n \in 1..N : Pass(ms)[n] = Replayed(Pass(ms)[n - 1], ms[n])
<1> DEFINE Upto(g, k) ==
             g = [n \in 0..k |-> IF n = 0 THEN Begin ELSE Replayed(g[n - 1], ms[n])]
           T == {k \in 0..N : ~ \E g : Upto(g, k)}
<1>1. ASSUME T # {} PROVE FALSE
  <2>1. PICK k \in T : \A j \in T : k <= j
    <3>1. T \subseteq Nat
      OBVIOUS
    <3> HIDE DEF T
    <3> QED
      BY <1>1, <3>1, Smallest
  <2>2. k \in 0..N /\ ~ \E g : Upto(g, k)
    OBVIOUS
  <2>3. CASE k = 0
    <3> DEFINE g == [n \in 0..0 |-> Begin]
    <3>1. Upto(g, 0)
      OBVIOUS
    <3> QED
      BY <2>2, <2>3, <3>1
  <2>4. CASE k # 0
    <3>1. k - 1 \in 0..N /\ ~(k <= k - 1) /\ k \in 1..N
      BY <2>2, <2>4
    <3>2. PICK g : Upto(g, k - 1)
      BY <2>1, <3>1
    <3> DEFINE h == [n \in 0..k |-> IF n = k THEN Replayed(g[k - 1], ms[k]) ELSE g[n]]
    <3>3. \A n \in 0..(k - 1) : h[n] = g[n]
      BY <3>1
    <3>4. \A n \in 0..k : h[n] = IF n = 0 THEN Begin ELSE Replayed(h[n - 1], ms[n])
      <4> SUFFICES ASSUME NEW n \in 0..k
                   PROVE  h[n] = IF n = 0 THEN Begin ELSE Replayed(h[n - 1], ms[n])
        OBVIOUS
      <4>1. CASE n = k
        <5>1. h[n] = Replayed(g[k - 1], ms[k]) /\ h[k - 1] = g[k - 1]
          BY <3>1, <3>3, <4>1
        <5> HIDE DEF h
        <5> QED
          BY <3>1, <4>1, <5>1
      <4>2. CASE n # k
        <5>1. n \in 0..(k - 1) /\ h[n] = g[n]
          BY <3>1, <3>3, <4>2
        <5>2. g[n] = IF n = 0 THEN Begin ELSE Replayed(g[n - 1], ms[n])
          BY <3>2, <5>1
        <5>3. n # 0 => h[n - 1] = g[n - 1]
          <6>1. n # 0 => n - 1 \in 0..(k - 1)
            BY <3>1, <5>1
          <6> QED
            BY <3>3, <6>1
        <5> HIDE DEF h
        <5> QED
          BY <5>1, <5>2, <5>3
      <4> QED
        BY <4>1, <4>2
    <3>5. Upto(h, k)
      <4>1. h = [n \in 0..k |-> h[n]]
        OBVIOUS
      <4> HIDE DEF h
      <4> QED
        BY <3>4, <4>1
    <3> QED
      BY <2>2, <3>5
  <2> QED
    BY <2>3, <2>4
<1>2. PICK g : Upto(g, N)
  <2>1. N \in 0..N
    OBVIOUS
  <2> QED
    BY <1>1, <2>1
<1>3. Upto(Pass(ms), N)
  BY <1>2 DEF Pass
<1> QED
  BY <1>3

\* No step is left running.
Settled(steps) == \A id \in DOMAIN steps : steps[id] # "running"

SettledPass(f) ==
  /\ f = [turn |-> f.turn, answers |-> f.answers, steps |-> f.steps]
  /\ Settled(f.steps)

LEMMA ShownSettles ==
  ASSUME NEW steps, Settled(steps), NEW id, NEW state, state # "running"
  PROVE  Settled(Shown(steps, id, state))
  BY DEF Settled, Shown, With

LEMMA EndedSettles ==
  ASSUME NEW steps, Settled(steps), NEW turns, NEW call, NEW result
  PROVE  /\ Settled(Process(steps, turns))
         /\ Settled(Ended(steps, call, result))
<1>1. Settled(Process(steps, turns))
  BY ShownSettles DEF Process
<1> DEFINE ends == Shown(steps, StepId(call, 0, "tool"), ToolState(result))
<1>2. Settled(ends)
  <2>1. ToolState(result) # "running"
    BY DEF ToolState
  <2> QED
    BY <2>1, ShownSettles
<1>3. Ended(steps, call, result) \in {ends, Shown(ends, StepId(call, 0, "chart"), "drawn")}
  BY DEF Ended
<1>4. Settled(Shown(ends, StepId(call, 0, "chart"), "drawn"))
  BY <1>2, ShownSettles
<1> QED
  BY <1>1, <1>2, <1>3, <1>4

LEMMA StepsReplaced ==
  ASSUME NEW f, SettledPass(f), NEW steps, Settled(steps)
  PROVE  SettledPass([f EXCEPT !.steps = steps])
<1>1. PICK a, b, c : a = f.turn /\ b = f.answers /\ c = f.steps
  OBVIOUS
<1>2. f = [turn |-> a, answers |-> b, steps |-> c]
  BY <1>1 DEF SettledPass
<1>3. SettledPass([turn |-> a, answers |-> b, steps |-> steps])
  BY DEF SettledPass
<1>4. [f EXCEPT !.steps = steps] = [turn |-> a, answers |-> b, steps |-> steps]
  BY <1>2
<1> QED
  BY <1>3, <1>4

LEMMA ReplayedSettles ==
  ASSUME NEW f, SettledPass(f), NEW m
  PROVE  SettledPass(Replayed(f, m))
<1>1. SettledPass(Question(f, m))
  <2>1. Settled(Shown(f.steps, StepId(m.id, 0, "question"), "asked"))
    BY ShownSettles DEF SettledPass
  <2> QED
    BY <2>1 DEF SettledPass, Question
<1>2. SettledPass(ToolResult(f, m))
  <2> DEFINE steps == Ended(Process(f.steps, f.turn), m.id, m.outcome)
  <2>1. Settled(steps)
    BY EndedSettles DEF SettledPass
  <2>2. ToolResult(f, m) = [f EXCEPT !.steps = steps]
    BY DEF ToolResult
  <2> HIDE DEF steps
  <2> QED
    BY <2>1, <2>2, StepsReplaced
<1>3. SettledPass(Thinking(f, m))
  <2> DEFINE steps == Shown(Process(f.steps, f.turn), StepId(m.id, 0, "thinking"), "done")
  <2>1. Settled(steps)
    BY EndedSettles, ShownSettles DEF SettledPass
  <2>2. Thinking(f, m) = [f EXCEPT !.steps = steps]
    BY DEF Thinking
  <2> HIDE DEF steps
  <2> QED
    BY <2>1, <2>2, StepsReplaced
<1>4. ASSUME NEW g, SettledPass(g), NEW role PROVE SettledPass(Answer(g, role))
  <2>1. Settled(Shown(g.steps, StepId(g.turn, g.answers, role), "said"))
    BY <1>4, ShownSettles DEF SettledPass
  <2> QED
    BY <2>1 DEF SettledPass, Answer
<1>5. SettledPass(Assistant(f, m))
  BY <1>3, <1>4 DEF Assistant
<1> QED
  BY <1>1, <1>2, <1>5 DEF Replayed

LEMMA ReplaySettles ==
  ASSUME NEW ms, Len(ms) \in Nat
  PROVE  Settled(Replay(ms))
<1>1. PICK N \in Nat : N = Len(ms)
  OBVIOUS
<1> DEFINE f == Pass(ms)
           T == {n \in 0..N : ~SettledPass(f[n])}
<1>2. /\ f[0] = Begin
      /\ \A n \in 1..N : f[n] = Replayed(f[n - 1], ms[n])
  BY <1>1, PassIs
<1> HIDE DEF f
<1>3. SettledPass(Begin)
  BY DEF SettledPass, Begin, Settled
<1>4. ASSUME T # {} PROVE FALSE
  <2>1. PICK k \in T : \A j \in T : k <= j
    <3>1. T \subseteq Nat
      OBVIOUS
    <3> HIDE DEF T
    <3> QED
      BY <1>4, <3>1, Smallest
  <2>2. k \in 0..N /\ ~SettledPass(f[k])
    OBVIOUS
  <2>3. k # 0
    BY <1>2, <1>3, <2>2
  <2>4. k \in 1..N /\ k - 1 \in 0..N /\ ~(k <= k - 1)
    BY <2>2, <2>3
  <2>5. SettledPass(f[k - 1])
    BY <2>1, <2>4
  <2> QED
    BY <1>2, <2>2, <2>4, <2>5, ReplayedSettles
<1>5. SettledPass(f[N])
  BY <1>1, <1>4
<1> QED
  BY <1>1, <1>5 DEF SettledPass, Replay, f

-----------------------------------------------------------------------------
(* Steps that are left running                                             *)

\* The tab shows the step of a call as running.
ShownRunning(c) ==
  StepId(c, 0, "tool") \in DOMAIN feed /\ feed[StepId(c, 0, "tool")] = "running"

\* A step of the turn that the tab shows as running is noted as such, or about
\* to be.
RunningIsNoted ==
  \A c \in DOMAIN calls : ShownRunning(c) => calls[c] = "sent" \/ c \in pending

StepsInv == RunningIsNoted /\ Settled(snapshot)

\* What is shown in another state is not running.
LEMMA ShownOther ==
  ASSUME NEW id, NEW state, state # "running",
         feed' = Shown(feed, id, state) \/ Put(id, state), NEW c, ShownRunning(c)'
  PROVE  ShownRunning(c) /\ id # StepId(c, 0, "tool")
<1>1. \/ feed' = Shown(feed, id, state)
      \/ feed' = feed /\ id \notin DOMAIN feed
  BY DEF Put
<1>2. CASE feed' = Shown(feed, id, state)
  BY <1>2 DEF ShownRunning, Shown, With, StepId
<1>3. CASE feed' = feed /\ id \notin DOMAIN feed
  BY <1>3 DEF ShownRunning, StepId
<1> QED
  BY <1>1, <1>2, <1>3

\* A step that notes no less and shows no more.
LEMMA NotedStays ==
  ASSUME RunningIsNoted, DOMAIN calls' \subseteq DOMAIN calls,
         \A c \in DOMAIN calls' : ShownRunning(c)' =>
           /\ ShownRunning(c)
           /\ calls[c] = "sent" \/ c \in pending => calls'[c] = "sent" \/ c \in pending'
  PROVE  RunningIsNoted'
  BY DEF RunningIsNoted

LEMMA NotedNext ==
  ASSUME RunningIsNoted, Settled(snapshot), Len(messages) \in Nat, [Next]_vars
  PROVE  RunningIsNoted'
<1> USE DEF drawing, attachments, todo, tab, bounds, unturned
<1>1. ASSUME UNCHANGED <<feed, calls, pending>> PROVE RunningIsNoted'
  <2>1. \A c : ShownRunning(c)' = ShownRunning(c)
    BY <1>1 DEF ShownRunning, StepId
  <2> QED
    BY <1>1, <2>1, NotedStays
<1>2. ASSUME calls' = <<>> PROVE RunningIsNoted'
  BY <1>2 DEF RunningIsNoted
<1>3. ASSUME NEW id, NEW state, state # "running", UNCHANGED <<calls, pending>>,
             \/ feed' = Shown(feed, id, state) \/ Put(id, state) \/ feed' = feed
      PROVE  RunningIsNoted'
  <2>1. ASSUME NEW c, ShownRunning(c)' PROVE ShownRunning(c)
    <3>1. CASE feed' = feed
      BY <2>1, <3>1 DEF ShownRunning, StepId
    <3> QED
      BY <1>3, <2>1, <3>1, ShownOther
  <2> QED
    BY <1>3, <2>1, NotedStays
<1>4. ASSUME NEW q, NEW names, Ask(q, names) PROVE RunningIsNoted'
  BY <1>2, <1>4 DEF Ask, BeginsTurn, Dropped
<1>5. CASE Refresh \/ TurnEnds \/ Remember \/ TurnFails \/ SaveResults
  BY <1>2, <1>5 DEF Refresh, BeginsTurn, Dropped, TurnEnds, Remember, TurnFails, SaveResults
<1>6. CASE Thinks
  BY <1>3, <1>6 DEF Thinks
<1>7. CASE Says
  <2>1. /\ UNCHANGED <<calls, pending>>
        /\ feed' = Shown(feed, StepId(turn, 0, "answer"), "said") \/ feed' = feed
    BY <1>7 DEF Says
  <2> QED
    BY <1>3, <2>1
<1>8. ASSUME NEW chosen, ModelEnds(chosen) PROVE RunningIsNoted'
  <2> SUFFICES ASSUME NEW c \in DOMAIN calls' PROVE ~ShownRunning(c)'
    BY DEF RunningIsNoted
  <2>1. c \in FreshCalls
    BY <1>8 DEF ModelEnds
  <2>2. StepId(c, 0, "tool") \notin DOMAIN feed
    BY <2>1 DEF FreshCalls, StepId
  <2>3. CASE feed' = feed
    BY <2>2, <2>3 DEF ShownRunning, StepId
  <2>4. CASE Put(StepId(answers', 0, "thinking"), "done")
    BY <2>2, <2>4, ShownOther DEF ShownRunning
  <2> QED
    BY <1>8, <2>3, <2>4 DEF ModelEnds
<1>9. ASSUME NEW c, Refuse(c) PROVE RunningIsNoted'
  <2>1. /\ UNCHANGED <<feed, pending>> /\ calls[c] = "called" /\ DOMAIN calls' = DOMAIN calls
        /\ \A d \in DOMAIN calls : d # c => calls'[d] = calls[d]
    BY <1>9 DEF Refuse
  <2>2. \A d : ShownRunning(d)' = ShownRunning(d)
    BY <2>1 DEF ShownRunning, StepId
  <2> QED
    BY <2>1, <2>2, NotedStays
<1>10. ASSUME NEW c, SendsStep(c) PROVE RunningIsNoted'
  <2>1. /\ pending' = pending /\ DOMAIN calls' = DOMAIN calls /\ calls'[c] = "sent"
        /\ \A d \in DOMAIN calls : d # c => calls'[d] = calls[d]
    BY <1>10 DEF SendsStep
  <2>2. ASSUME NEW d, d # c, ShownRunning(d)' PROVE ShownRunning(d)
    BY <1>10, <2>2 DEF SendsStep, ShownRunning, Shown, Process, With, StepId
  <2> QED
    BY <2>1, <2>2 DEF RunningIsNoted
<1>11. ASSUME NEW c, NotesStep(c) PROVE RunningIsNoted'
  <2>1. /\ feed' = feed /\ pending' = pending \cup {c} /\ DOMAIN calls' = DOMAIN calls
        /\ \A d \in DOMAIN calls : d # c => calls'[d] = calls[d]
    BY <1>11 DEF NotesStep
  <2>2. \A d : ShownRunning(d)' = ShownRunning(d)
    BY <2>1 DEF ShownRunning, StepId
  <2> QED
    BY <2>1, <2>2, NotedStays
<1>12. ASSUME NEW c, NEW outcome, ToolEnds(c, outcome) PROVE RunningIsNoted'
  <2>1. /\ pending' = pending \ {c} /\ DOMAIN calls' = DOMAIN calls
        /\ \A d \in DOMAIN calls : d # c => calls'[d] = calls[d]
        /\ Put(StepId(c, 0, "tool"), ToolState(outcome))
    BY <1>12 DEF ToolEnds
  <2>2. \A d : ShownRunning(d)' => ShownRunning(d) /\ d # c
    <3>1. ToolState(outcome) # "running"
      BY DEF ToolState
    <3> QED
      BY <2>1, <3>1, ShownOther
  <2> QED
    BY <2>1, <2>2, NotedStays
<1>13. ASSUME NEW c, DrawsChart(c) PROVE RunningIsNoted'
  <2>1. /\ pending' = pending /\ DOMAIN calls' = DOMAIN calls /\ calls[c] = "drawing"
        /\ \A d \in DOMAIN calls : d # c => calls'[d] = calls[d]
        /\ Put(StepId(c, 0, "chart"), "drawn")
    BY <1>13 DEF DrawsChart
  <2>2. \A d : ShownRunning(d)' => ShownRunning(d)
    BY <2>1, ShownOther
  <2> QED
    BY <2>1, <2>2, NotedStays
<1>14. ASSUME NEW c, StopPending(c) PROVE RunningIsNoted'
  <2>1. pending' = pending \ {c} /\ calls' = calls /\ Put(StepId(c, 0, "tool"), "stopped")
    BY <1>14 DEF StopPending
  <2>2. \A d : ShownRunning(d)' => ShownRunning(d) /\ d # c
    BY <2>1, ShownOther
  <2> QED
    BY <2>1, <2>2, NotedStays
<1>15. CASE ResumeShows
  <2>1. UNCHANGED <<calls, pending>>
    BY <1>15 DEF ResumeShows
  <2>2. CASE feed' = snapshot
    BY <2>2 DEF RunningIsNoted, ShownRunning, Settled, StepId
  <2>3. CASE feed' = Merge(snapshot, ResumeSteps)
    <3> SUFFICES ASSUME NEW c, ShownRunning(c)' PROVE c \in pending
      BY <2>1 DEF RunningIsNoted
    <3> DEFINE live == ResumeSteps
               id == StepId(c, 0, "tool")
    <3>1. id \in DOMAIN live /\ live[id] = "running"
      <4>1. /\ id \in DOMAIN Merge(snapshot, live) /\ Merge(snapshot, live)[id] = "running"
        BY <2>3 DEF ShownRunning, StepId
      <4> HIDE DEF live, id
      <4> QED
        BY <4>1 DEF Merge, Settled
    <3> QED
      BY <3>1 DEF ResumeSteps, StepId
  <2> QED
    BY <1>15, <2>2, <2>3 DEF ResumeShows
<1>16. CASE \/ SaveAnswer \/ DeleteFails \/ Truncate \/ RefreshFails \/ StopTurn \/ ResumeReads
            \/ UNCHANGED vars
  BY <1>1, <1>16 DEF SaveAnswer, DeleteFails, Truncate, RefreshFails, StopTurn, ResumeReads, vars
<1>17. ASSUME NEW x, \/ Upload(x) \/ ChartUploads(x) \/ CreateCommits(x) \/ CreateFails(x)
                     \/ Edit(x) \/ DeleteElement(x)
       PROVE  RunningIsNoted'
  BY <1>1, <1>17 DEF Upload, ChartUploads, CreateCommits, CreateFails, Edit, DeleteElement
<1>18. ASSUME NEW c, NEW name, SendFile(c, name) PROVE RunningIsNoted'
  BY <1>1, <1>18 DEF SendFile
<1> QED
  BY <1>4, <1>5, <1>6, <1>7, <1>8, <1>9, <1>10, <1>11, <1>12, <1>13, <1>14, <1>15, <1>16,
     <1>17, <1>18 DEF Next, ToolSteps, ModelSteps

LEMMA SnapshotNext ==
  ASSUME Settled(snapshot), Len(messages) \in Nat, [Next]_vars
  PROVE  Settled(snapshot)'
<1> USE DEF drawing, attachments, todo, tab, bounds, unturned
<1>1. CASE snapshot' = snapshot
  BY <1>1 DEF Settled
<1>2. CASE ResumeReads
  <2>1. snapshot' = Replay(messages)
    BY <1>2 DEF ResumeReads
  <2>2. PICK s : s = Replay(messages)
    OBVIOUS
  <2>3. Settled(s)
    BY <2>2, ReplaySettles
  <2> QED
    BY <2>1, <2>2, <2>3 DEF Settled
<1>3. CASE ResumeShows
  BY <1>3 DEF ResumeShows, Settled
<1>4. ASSUME NEW x, NEW y,
             \/ Upload(x) \/ ChartUploads(x) \/ CreateCommits(x) \/ CreateFails(x)
             \/ Ask(x, y) \/ Edit(x) \/ DeleteElement(x) \/ DeleteFails \/ Truncate \/ Refresh
             \/ RefreshFails \/ StopTurn \/ StopPending(x) \/ Remember \/ TurnFails
             \/ UNCHANGED vars
      PROVE  snapshot' = snapshot
  BY <1>4 DEF Upload, ChartUploads, CreateCommits, CreateFails, Ask, Edit, DeleteElement,
     DeleteFails, Truncate, Refresh, RefreshFails, StopTurn, StopPending, Remember, TurnFails, vars
<1>5. ASSUME NEW c, NEW x,
             \/ Thinks \/ Says \/ ModelEnds(x) \/ SaveAnswer \/ SaveResults \/ TurnEnds
             \/ Refuse(c) \/ SendsStep(c) \/ NotesStep(c) \/ SendFile(c, x) \/ ToolEnds(c, x)
             \/ DrawsChart(c)
      PROVE  snapshot' = snapshot
  BY <1>5 DEF Thinks, Says, ModelEnds, SaveAnswer, SaveResults, TurnEnds, Refuse, SendsStep,
     NotesStep, SendFile, ToolEnds, DrawsChart
<1> QED
  BY <1>1, <1>2, <1>3, <1>4, <1>5 DEF Next, ToolSteps, ModelSteps

\* After a stop no step of the turn is left running in the tab but one the stop
\* caught between its drawing and its note: stop_pending closes what
\* on_tool_start noted, also in a tab that came back and was shown a replay.
THEOREM StopsCloseSteps == Spec => StepsAreClosed
<1>1. Init => StepsInv
  BY DEF Init, StepsInv, RunningIsNoted, Settled
<1>2. RewindInv => Len(messages) \in Nat
  BY DEF RewindInv, HistoryTyped
<1>3. RewindInv /\ [Next]_vars => RewindInv'
  BY HistoryNext, TailNext DEF RewindInv
<1>4. RewindInv /\ StepsInv /\ [Next]_vars => StepsInv'
  BY <1>2, NotedNext, SnapshotNext DEF StepsInv
<1>5. StepsInv /\ [Next]_vars =>
        [pc = "stopping" /\ pc' = "idle" =>
           \A c \in DOMAIN calls :
             LET id == StepId(c, 0, "tool")
             IN  id \in DOMAIN feed' /\ feed'[id] = "running" => calls[c] = "sent"]_vars
  <2> SUFFICES ASSUME StepsInv, [Next]_vars, pc = "stopping", pc' = "idle",
                      NEW c \in DOMAIN calls,
                      StepId(c, 0, "tool") \in DOMAIN feed',
                      feed'[StepId(c, 0, "tool")] = "running"
               PROVE  calls[c] = "sent"
    OBVIOUS
  <2>1. Remember
    BY DEF Next, ToolSteps, ModelSteps, Upload, ChartUploads, CreateCommits, CreateFails,
       Ask, Edit, DeleteElement, DeleteFails, Truncate, Refresh, RefreshFails, StopTurn,
       StopPending, TurnFails, ResumeReads, ResumeShows, Thinks, Says, ModelEnds, SaveAnswer,
       SaveResults, TurnEnds, Refuse, SendsStep, NotesStep, SendFile, ToolEnds, DrawsChart,
       vars, drawing, attachments, todo, tab, bounds, unturned, Running
  <2>2. pending = {} /\ feed' = Shown(feed, StepId(turn, 0, "answer"), "said")
    BY <2>1 DEF Remember
  <2>3. ShownRunning(c)'
    BY DEF ShownRunning, StepId
  <2>4. ShownRunning(c)
    BY <2>2, <2>3, ShownOther
  <2> QED
    BY <2>2, <2>4 DEF StepsInv, RunningIsNoted
<1> QED
  BY HistoryInit, <1>1, <1>3, <1>4, <1>5, PTL DEF Spec, StepsAreClosed

-----------------------------------------------------------------------------
(* What the model is shown                                                 *)

\* No call is of two messages; only the model's messages call.
Apart(ms) ==
  \A i, j \in 1..Len(ms) : i # j => ToSet(ms[i].calls) \cap ToSet(ms[j].calls) = {}
OthersAreCalled(ms) ==
  \A i \in 1..Len(ms) : ms[i].kind \in {"human", "tool"} => ms[i].calls = <<>>

\* Dropping the calls of foreign tools leaves whole exchanges.
LEMMA DropKeepsWhole ==
  ASSUME NEW ms, ms \in Seq(ToSet(ms)), Apart(ms), OthersAreCalled(ms), WholeExchanges(ms)
  PROVE  /\ DropForeign(ms) \in Seq(ToSet(ms))
         /\ WholeExchanges(DropForeign(ms))
<1> DEFINE foreign == {i \in DOMAIN ms : IsForeign(ms[i])}
           dropped == CallsOf(Picked(ms, foreign))
           kept == {i \in DOMAIN ms : /\ ~IsForeign(ms[i])
                                      /\ ~(ms[i].kind = "tool" /\ ms[i].id \in dropped)}
           v == Picked(ms, kept)
<1>1. DOMAIN ms = 1..Len(ms) /\ Len(ms) \in Nat
  OBVIOUS
<1>2. v = DropForeign(ms)
  BY DEF DropForeign
<1>3. \A c : c \in dropped <=> \E i \in foreign : c \in ToSet(ms[i].calls)
  <2> DEFINE w == Picked(ms, foreign)
  <2>1. PICK d : Picks(d, Len(ms), ms, foreign, w)
    BY PickedIs
  <2> HIDE DEF w
  <2>2. /\ DOMAIN w = 1..Len(w) /\ \A k \in DOMAIN w : d[k] \in foreign /\ w[k] = ms[d[k]]
        /\ \A i \in foreign : \E k \in DOMAIN w : d[k] = i
    BY <1>1, <2>1 DEF Picks
  <2>3. \A c : c \in CallsOf(w) <=> \E k \in DOMAIN w : c \in ToSet(w[k].calls)
    BY DEF CallsOf
  <2> HIDE DEF foreign
  <2>4. \A c : c \in CallsOf(w) <=> \E i \in foreign : c \in ToSet(ms[i].calls)
    BY <2>2, <2>3
  <2> QED
    BY <2>4 DEF w
<1> HIDE DEF dropped
<1>4. PICK e : Picks(e, Len(ms), ms, kept, v)
  BY PickedIs
<1> HIDE DEF v
<1>5. /\ v \in Seq(ToSet(ms)) /\ DOMAIN v = 1..Len(v) /\ Len(v) \in Nat
      /\ \A k \in DOMAIN v : e[k] \in kept /\ v[k] = ms[e[k]]
      /\ \A k, l \in DOMAIN v : k < l => e[k] < e[l]
      /\ \A i \in kept : \E k \in DOMAIN v : e[k] = i
  <2>1. v \in Seq(ToSet(ms))
    BY <1>4 DEF Picks
  <2>2. DOMAIN v = 1..Len(v) /\ Len(v) \in Nat
    BY <2>1
  <2>3. kept \cap 1..Len(ms) = kept
    BY <1>1
  <2> HIDE DEF kept
  <2>4. e \in [1..Len(v) -> kept]
    BY <1>4, <2>3 DEF Picks
  <2>5. \A i \in kept : \E k \in DOMAIN v : e[k] = i
    BY <1>4, <2>2, <2>3 DEF Picks
  <2>6. \A k \in DOMAIN v : e[k] \in kept /\ v[k] = ms[e[k]]
    BY <1>4, <2>2, <2>4 DEF Picks
  <2>7. \A k, l \in DOMAIN v : k < l => e[k] < e[l]
    BY <1>4, <2>2 DEF Picks
  <2> QED
    BY <2>1, <2>2, <2>5, <2>6, <2>7
<1>6. \A i \in kept : /\ i \in 1..Len(ms) /\ ~IsForeign(ms[i])
                     /\ ~(ms[i].kind = "tool" /\ ms[i].id \in dropped)
  BY <1>1
<1>7. \A i \in 1..Len(ms) :
        ~IsForeign(ms[i]) /\ ~(ms[i].kind = "tool" /\ ms[i].id \in dropped) => i \in kept
  BY <1>1
<1>8. \A i \in 1..Len(ms) : i \in foreign <=> IsForeign(ms[i])
  BY <1>1
<1> HIDE DEF kept, foreign
<1>9. \A k, l \in DOMAIN v : e[k] < e[l] => k < l
  <2> SUFFICES ASSUME NEW k \in DOMAIN v, NEW l \in DOMAIN v, e[k] < e[l] PROVE k < l
    OBVIOUS
  <2>1. k \in Nat /\ l \in Nat /\ e[k] \in Nat /\ e[l] \in Nat
    BY <1>5, <1>6
  <2>2. ~(l < k) /\ l # k
    BY <1>5, <2>1
  <2> QED
    BY <2>1, <2>2
<1>10. ASSUME NEW i \in DOMAIN v, NEW c \in ToSet(v[i].calls)
       PROVE  \E j \in DOMAIN v : j > i /\ v[j].kind = "tool" /\ v[j].id = c
  <2>1. e[i] \in kept /\ e[i] \in 1..Len(ms) /\ c \in ToSet(ms[e[i]].calls) /\ ~IsForeign(ms[e[i]])
    BY <1>5, <1>6, <1>10
  <2>2. PICK j \in 1..Len(ms) : j > e[i] /\ ms[j].kind = "tool" /\ ms[j].id = c
    BY <1>1, <2>1 DEF WholeExchanges
  <2>3. ~IsForeign(ms[j])
    BY <2>2 DEF OthersAreCalled, IsForeign, ToSet
  <2>4. c \notin dropped
    <3>1. ASSUME NEW h \in foreign, c \in ToSet(ms[h].calls) PROVE FALSE
      <4>1. h \in 1..Len(ms) /\ h # e[i]
        BY <1>1, <1>8, <2>1 DEF foreign
      <4> QED
        BY <2>1, <3>1, <4>1 DEF Apart
    <3> QED
      BY <1>3, <3>1
  <2>5. PICK l \in DOMAIN v : e[l] = j
    BY <1>5, <1>7, <2>2, <2>3, <2>4
  <2>6. e[i] < e[l]
    BY <2>1, <2>2, <2>5
  <2>7. l \in Nat /\ i \in Nat /\ i < l
    BY <1>5, <1>9, <2>6
  <2> QED
    BY <1>5, <2>2, <2>5, <2>7
<1>11. ASSUME NEW i \in DOMAIN v, v[i].kind = "tool"
       PROVE  \E j \in 1..(i - 1) : v[i].id \in ToSet(v[j].calls)
  <2>1. /\ e[i] \in kept /\ e[i] \in 1..Len(ms) /\ ms[e[i]].kind = "tool" /\ v[i] = ms[e[i]]
        /\ ms[e[i]].id \notin dropped
    BY <1>5, <1>6, <1>11
  <2>2. PICK j \in 1..(e[i] - 1) : ms[e[i]].id \in ToSet(ms[j].calls)
    BY <1>1, <2>1 DEF WholeExchanges
  <2>3. j \in 1..Len(ms) /\ j < e[i]
    BY <1>1, <2>1
  <2>4. ~IsForeign(ms[j])
    BY <1>3, <1>8, <2>1, <2>2, <2>3
  <2>5. ms[j].kind # "tool"
    BY <2>2, <2>3 DEF OthersAreCalled, ToSet
  <2>6. PICK l \in DOMAIN v : e[l] = j
    BY <1>5, <1>7, <2>3, <2>4, <2>5
  <2>7. l < i /\ l \in Nat /\ i \in Nat /\ l \in 1..Len(v)
    BY <1>5, <1>9, <2>3, <2>6
  <2>8. l \in 1..(i - 1)
    BY <2>7
  <2> QED
    BY <1>5, <2>1, <2>2, <2>6, <2>8
<1>12. WholeExchanges(v)
  BY <1>10, <1>11 DEF WholeExchanges
<1> QED
  BY <1>2, <1>5, <1>12

\* What is shown of earlier turns calls nothing and answers no call.
Quiet(v) == \A i \in DOMAIN v : v[i].kind # "tool" /\ v[i].calls = <<>>

LEMMA RepliesAreQuiet ==
  ASSUME NEW ms, ms \in Seq(ToSet(ms))
  PROVE  Replies(ms) \in Seq(ToSet(ms)) /\ Quiet(Replies(ms))
<1> DEFINE replies == {i \in DOMAIN ms : IsReply(ms[i])}
           w == Picked(ms, replies)
           from == IF Len(w) > HistoryMessages THEN Len(w) - HistoryMessages + 1 ELSE 1
<1>1. PICK e : Picks(e, Len(ms), ms, replies, w)
  BY PickedIs
<1>2. Replies(ms) = SubSeq(w, from, Len(w))
  BY DEF Replies
<1> HIDE DEF w
<1>3. w \in Seq(ToSet(ms)) /\ DOMAIN w = 1..Len(w) /\ Len(w) \in Nat
  <2>1. w \in Seq(ToSet(ms))
    BY <1>1 DEF Picks
  <2> QED
    BY <2>1
<1>4. \A k \in DOMAIN w : w[k].kind # "tool" /\ w[k].calls = <<>>
  <2>1. \A k \in DOMAIN w : w[k] = ms[e[k]] /\ e[k] \in replies
    BY <1>1, <1>3 DEF Picks
  <2> QED
    BY <2>1 DEF IsReply
<1>5. PICK n \in Nat : n = Len(w)
  BY <1>3
<1>6. PICK f \in Nat : f = from /\ f >= 1 /\ f <= n + 1
  <2>1. from \in Nat /\ from >= 1 /\ from <= n + 1
    BY <1>5, FeedAssumption
  <2> QED
    BY <2>1
<1> HIDE DEF from
<1>7. \A i \in f..n : i \in 1..Len(w) /\ w[i] \in ToSet(ms)
  BY <1>3, <1>5, <1>6
<1> DEFINE r == SubSeq(w, f, n)
<1>8. /\ r \in Seq(ToSet(ms)) /\ Len(r) = IF f <= n THEN n - f + 1 ELSE 0
      /\ \A i \in 1..(n - f + 1) : r[i] = w[f + i - 1]
  BY <1>6, <1>7, SubSeqProperties
<1> HIDE DEF r
<1>9. \A i \in DOMAIN r : i \in 1..(n - f + 1) /\ f + i - 1 \in 1..n
  <2>1. DOMAIN r = 1..Len(r)
    BY <1>8
  <2> QED
    BY <1>6, <1>8, <2>1
<1>10. Quiet(r)
  BY <1>3, <1>4, <1>5, <1>8, <1>9 DEF Quiet
<1> QED
  BY <1>2, <1>5, <1>6, <1>8, <1>10 DEF r

\* Where what is joined stands.
IsJoined(u, v, w, m, n) ==
  /\ Len(u) = m + n /\ DOMAIN u = 1..(m + n)
  /\ \A i \in 1..m : i \in 1..(m + n) /\ u[i] = v[i]
  /\ \A i \in 1..n : m + i \in 1..(m + n) /\ u[m + i] = w[i]
  /\ \A k \in 1..(m + n) : k \in 1..m \/ \E i \in 1..n : k = m + i

LEMMA JoinAt ==
  ASSUME NEW T, NEW v \in Seq(T), NEW w \in Seq(T),
         NEW m \in Nat, m = Len(v), NEW n \in Nat, n = Len(w)
  PROVE  IsJoined(v \o w, v, w, m, n)
<1> DEFINE u == v \o w
<1>1. /\ u \in Seq(T) /\ Len(u) = m + n
      /\ \A i \in 1..(m + n) : u[i] = IF i <= m THEN v[i] ELSE w[i - m]
  BY ConcatProperties
<1> HIDE DEF u
<1>2. DOMAIN u = 1..(m + n)
  BY <1>1
<1>3. \A i \in 1..m : i \in 1..(m + n) /\ u[i] = v[i]
  BY <1>1
<1>4. ASSUME NEW i \in 1..n PROVE m + i \in 1..(m + n) /\ u[m + i] = w[i]
  <2>1. m + i \in 1..(m + n) /\ ~(m + i <= m) /\ (m + i) - m = i
    OBVIOUS
  <2> QED
    BY <1>1, <2>1
<1>5. ASSUME NEW k \in 1..(m + n), k \notin 1..m PROVE \E i \in 1..n : k = m + i
  <2>1. k - m \in 1..n /\ k = m + (k - m)
    BY <1>5
  <2> QED
    BY <2>1
<1>6. \A k \in 1..(m + n) : k \in 1..m \/ \E i \in 1..n : k = m + i
  BY <1>5
<1>7. IsJoined(u, v, w, m, n)
  BY <1>1, <1>2, <1>3, <1>4, <1>6 DEF IsJoined
<1> QED
  BY <1>7 DEF u

LEMMA QuietThenWhole ==
  ASSUME NEW T, NEW v \in Seq(T), NEW w \in Seq(T), Quiet(v), WholeExchanges(w)
  PROVE  WholeExchanges(v \o w)
<1>1. PICK m \in Nat : m = Len(v)
  OBVIOUS
<1>2. PICK n \in Nat : n = Len(w)
  OBVIOUS
<1> DEFINE u == v \o w
<1>3. /\ DOMAIN u = 1..(m + n)
      /\ \A i \in 1..m : i \in 1..(m + n) /\ u[i] = v[i]
      /\ \A i \in 1..n : m + i \in 1..(m + n) /\ u[m + i] = w[i]
      /\ \A k \in 1..(m + n) : k \in 1..m \/ \E i \in 1..n : k = m + i
  <2>1. IsJoined(u, v, w, m, n)
    BY <1>1, <1>2, JoinAt
  <2> HIDE DEF u
  <2> QED
    BY <2>1, Zenon DEF IsJoined
<1> HIDE DEF u
<1>4. DOMAIN u = 1..(m + n) /\ DOMAIN v = 1..m /\ DOMAIN w = 1..n
  BY <1>1, <1>2, <1>3
<1>5. \A i \in 1..m : i \in 1..(m + n) /\ u[i] = v[i]
  BY <1>3
<1>6. \A i \in 1..n : m + i \in 1..(m + n) /\ u[m + i] = w[i]
  BY <1>3
<1>7. \A k \in 1..(m + n) : k \in 1..m \/ \E i \in 1..n : k = m + i
  BY <1>3
<1>8. ASSUME NEW k \in 1..m
      PROVE  u[k].calls = <<>> /\ u[k].kind # "tool"
  BY <1>4, <1>5 DEF Quiet
<1>9. ASSUME NEW i \in 1..n, NEW c \in ToSet(u[m + i].calls)
      PROVE  \E j \in DOMAIN u : j > m + i /\ u[j].kind = "tool" /\ u[j].id = c
  <2>1. PICK j \in 1..n : j > i /\ w[j].kind = "tool" /\ w[j].id = c
    <3>1. i \in DOMAIN w /\ c \in ToSet(w[i].calls)
      BY <1>4, <1>6, <1>9
    <3>2. \E j \in DOMAIN w : j > i /\ w[j].kind = "tool" /\ w[j].id = c
      BY <3>1, Zenon DEF WholeExchanges
    <3> QED
      BY <1>4, <3>2
  <2>2. m + j > m + i
    BY <2>1
  <2> QED
    BY <1>4, <1>6, <2>1, <2>2
<1>10. ASSUME NEW i \in 1..n, u[m + i].kind = "tool"
       PROVE  \E j \in 1..(m + i - 1) : u[m + i].id \in ToSet(u[j].calls)
  <2>1. PICK j \in 1..(i - 1) : w[i].id \in ToSet(w[j].calls)
    BY <1>4, <1>6, <1>10 DEF WholeExchanges
  <2>2. m + j \in 1..(m + i - 1) /\ j \in 1..n
    BY <1>1, <1>2
  <2> QED
    BY <1>6, <2>1, <2>2
<1>11. ToSet(<<>>) = {}
  BY DEF ToSet
<1>12. WholeExchanges(u)
  <2> SUFFICES ASSUME NEW k \in 1..(m + n)
               PROVE  /\ \A c \in ToSet(u[k].calls) :
                           \E j \in DOMAIN u : j > k /\ u[j].kind = "tool" /\ u[j].id = c
                      /\ u[k].kind = "tool" =>
                           \E j \in 1..(k - 1) : u[k].id \in ToSet(u[j].calls)
    BY <1>4 DEF WholeExchanges
  <2>1. CASE k \in 1..m
    BY <1>8, <1>11, <2>1
  <2>2. ASSUME NEW i \in 1..n, k = m + i
        PROVE  /\ \A c \in ToSet(u[k].calls) :
                    \E j \in DOMAIN u : j > k /\ u[j].kind = "tool" /\ u[j].id = c
               /\ u[k].kind = "tool" =>
                    \E j \in 1..(k - 1) : u[k].id \in ToSet(u[j].calls)
    <3>1. ASSUME NEW c \in ToSet(u[k].calls)
          PROVE  \E j \in DOMAIN u : j > k /\ u[j].kind = "tool" /\ u[j].id = c
      <4>1. c \in ToSet(u[m + i].calls)
        BY <2>2, <3>1
      <4> QED
        BY <1>9, <2>2, <4>1
    <3>2. ASSUME u[k].kind = "tool"
          PROVE  \E j \in 1..(k - 1) : u[k].id \in ToSet(u[j].calls)
      <4>1. u[m + i].kind = "tool" /\ u[m + i].id = u[k].id
        BY <2>2, <3>2
      <4>2. PICK j \in 1..(m + i - 1) : u[m + i].id \in ToSet(u[j].calls)
        BY <1>10, <4>1
      <4>3. j \in 1..(k - 1)
        BY <2>2, <4>2
      <4> QED
        BY <4>1, <4>2, <4>3
    <3> QED
      BY <3>1, <3>2
  <2> QED
    BY <1>7, <2>1, <2>2
<1> QED
  BY <1>12 DEF u

\* The turn of the history began with the question at k.
BeganAt(ms, k) ==
  /\ k \in 1..Len(ms) /\ ms[k].kind = "human"
  /\ \A i \in (k + 1)..Len(ms) : ms[i].kind # "human"

\* Its calls have their results, but those of the last message if they are open.
MatchedAt(ms, i, k, open) ==
  /\ \A c \in ToSet(ms[i].calls) :
       \/ open /\ i = Len(ms)
       \/ \E j \in (i + 1)..Len(ms) : ms[j].kind = "tool" /\ ms[j].id = c
  /\ ms[i].kind = "tool" => \E j \in k..(i - 1) : ms[i].id \in ToSet(ms[j].calls)
Matched(ms, k, open) == \A i \in k..Len(ms) : MatchedAt(ms, i, k, open)

LEMMA ViewIsWhole ==
  ASSUME NEW ms, ms \in Seq(ToSet(ms)), Apart(ms), OthersAreCalled(ms),
         NEW k, BeganAt(ms, k), Matched(ms, k, FALSE)
  PROVE  WholeExchanges(LlmView(ms))
<1>1. PICK n \in Nat : n = Len(ms)
  OBVIOUS
<1>2. k \in 1..n /\ DOMAIN ms = 1..n
  BY <1>1 DEF BeganAt
<1>3. LastQuestion(ms) = k
  <2> DEFINE questions == {i \in DOMAIN ms : ms[i].kind = "human"}
  <2>1. k \in questions /\ \A j \in questions : j <= k
    BY <1>1, <1>2 DEF BeganAt
  <2>2. \A i \in questions : (\A j \in questions : j <= i) => i = k
    BY <1>2, <2>1
  <2> HIDE DEF questions
  <2>3. (CHOOSE i \in questions : \A j \in questions : j <= i) = k
    BY <2>1, <2>2
  <2>4. questions # {}
    BY <2>1
  <2> QED
    BY <2>3, <2>4 DEF LastQuestion, questions
<1> DEFINE earlier == SubSeq(ms, 1, k - 1)
           current == SubSeq(ms, k, n)
<1>4. earlier \in Seq(ToSet(ms))
  BY <1>1, <1>2, OfItsOwn
<1>5. PICK l \in Nat : l = n - k + 1
  <2>1. n - k + 1 \in Nat
    BY <1>2
  <2> QED
    BY <2>1
<1>6. current \in Seq(ToSet(ms)) /\ Len(current) = l /\ \A i \in 1..l : current[i] = ms[k + i - 1]
  <2>1. \A i \in k..n : ms[i] \in ToSet(ms)
    BY <1>2 DEF ToSet
  <2>2. k \in Int /\ n \in Int /\ k <= n
    BY <1>2
  <2>3. /\ current \in Seq(ToSet(ms)) /\ Len(current) = IF k <= n THEN n - k + 1 ELSE 0
        /\ \A i \in 1..(n - k + 1) : current[i] = ms[k + i - 1]
    BY <2>1, <2>2, SubSeqProperties
  <2> QED
    BY <1>5, <2>2, <2>3
<1>7. earlier \in Seq(ToSet(earlier)) /\ current \in Seq(ToSet(current)) /\ ToSet(current) \subseteq ToSet(ms)
      /\ ToSet(earlier) \subseteq ToSet(ms)
  BY <1>4, <1>6, OfItsOwn
<1> HIDE DEF earlier, current
<1>8. DOMAIN current = 1..l
  BY <1>6
<1>9. \A i \in 1..l : k + i - 1 \in k..n /\ k + i - 1 \in 1..n
  BY <1>2, <1>5
<1>10. \A j \in k..n : \E i \in 1..l : j = k + i - 1
  <2> SUFFICES ASSUME NEW j \in k..n PROVE \E i \in 1..l : j = k + i - 1
    OBVIOUS
  <2>1. j - k + 1 \in 1..l /\ j = k + (j - k + 1) - 1
    BY <1>2, <1>5
  <2> QED
    BY <2>1
<1>11. Apart(current)
  <2> SUFFICES ASSUME NEW i \in 1..l, NEW j \in 1..l, i # j
               PROVE  ToSet(current[i].calls) \cap ToSet(current[j].calls) = {}
    BY <1>6 DEF Apart
  <2>1. k + i - 1 # k + j - 1
    BY <1>2
  <2> QED
    BY <1>1, <1>6, <1>9, <2>1 DEF Apart
<1>12. OthersAreCalled(current)
  BY <1>1, <1>6, <1>9 DEF OthersAreCalled
<1>13. WholeExchanges(current)
  <2> SUFFICES ASSUME NEW i \in 1..l
               PROVE  /\ \A c \in ToSet(current[i].calls) :
                           \E j \in 1..l : j > i /\ current[j].kind = "tool" /\ current[j].id = c
                      /\ current[i].kind = "tool" =>
                           \E j \in 1..(i - 1) : current[i].id \in ToSet(current[j].calls)
    BY <1>8 DEF WholeExchanges
  <2> DEFINE h == k + i - 1
  <2>1. h \in k..Len(ms) /\ current[i] = ms[h]
    BY <1>1, <1>6, <1>9
  <2>2. ASSUME NEW c \in ToSet(current[i].calls)
        PROVE  \E j \in 1..l : j > i /\ current[j].kind = "tool" /\ current[j].id = c
    <3>1. PICK g \in (h + 1)..Len(ms) : ms[g].kind = "tool" /\ ms[g].id = c
      BY <2>1, <2>2 DEF Matched, MatchedAt
    <3>2. g \in k..n /\ g > h
      BY <1>1, <1>2, <2>1
    <3>3. PICK j \in 1..l : g = k + j - 1
      BY <1>10, <3>2
    <3>4. j > i
      BY <1>2, <3>2, <3>3
    <3> QED
      BY <1>6, <3>1, <3>3, <3>4
  <2>3. ASSUME current[i].kind = "tool"
        PROVE  \E j \in 1..(i - 1) : current[i].id \in ToSet(current[j].calls)
    <3>1. PICK g \in k..(h - 1) : ms[h].id \in ToSet(ms[g].calls)
      BY <2>1, <2>3 DEF Matched, MatchedAt
    <3>2. g \in k..n /\ g < h
      BY <1>1, <1>2, <2>1
    <3>3. PICK j \in 1..l : g = k + j - 1
      BY <1>10, <3>2
    <3>4. j \in 1..(i - 1)
      BY <1>2, <3>2, <3>3
    <3> QED
      BY <1>6, <2>1, <3>1, <3>3, <3>4
  <2> QED
    BY <2>2, <2>3
<1>14. WholeExchanges(DropForeign(current)) /\ DropForeign(current) \in Seq(ToSet(current))
  BY <1>7, <1>11, <1>12, <1>13, DropKeepsWhole
<1>15. Quiet(Replies(earlier)) /\ Replies(earlier) \in Seq(ToSet(earlier))
  BY <1>7, RepliesAreQuiet
<1>16. DropForeign(current) \in Seq(ToSet(ms)) /\ Replies(earlier) \in Seq(ToSet(ms))
  BY <1>7, <1>14, <1>15
<1>17. LlmView(ms) = Replies(earlier) \o DropForeign(current)
  BY <1>1, <1>3 DEF LlmView, earlier, current
<1> QED
  BY <1>14, <1>15, <1>16, <1>17, QuietThenWhole

-----------------------------------------------------------------------------
(* The history of a turn                                                   *)

LEMMA JoinKeeps ==
  ASSUME NEW ms, ms \in Seq(ToSet(ms)), Apart(ms), OthersAreCalled(ms),
         NEW t, t \in Seq(ToSet(t)), Apart(t), OthersAreCalled(t),
         CallsOf(t) \cap CallsOf(ms) = {}
  PROVE  Apart(ms \o t) /\ OthersAreCalled(ms \o t)
<1> DEFINE T == ToSet(ms) \cup ToSet(t)
           u == ms \o t
<1>1. PICK m \in Nat : m = Len(ms)
  OBVIOUS
<1>2. PICK n \in Nat : n = Len(t)
  OBVIOUS
<1>3. /\ Len(u) = m + n
      /\ \A i \in 1..m : i \in 1..(m + n) /\ u[i] = ms[i]
      /\ \A i \in 1..n : m + i \in 1..(m + n) /\ u[m + i] = t[i]
      /\ \A k \in 1..(m + n) : k \in 1..m \/ \E i \in 1..n : k = m + i
  <2>1. ms \in Seq(T) /\ t \in Seq(T)
    OBVIOUS
  <2> HIDE DEF T
  <2>2. IsJoined(u, ms, t, m, n)
    BY <1>1, <1>2, <2>1, JoinAt
  <2> HIDE DEF u
  <2> QED
    BY <2>2, Zenon DEF IsJoined
<1> HIDE DEF u
<1>4. DOMAIN ms = 1..m /\ DOMAIN t = 1..n
  BY <1>1, <1>2
<1>5. OthersAreCalled(u)
  BY <1>1, <1>2, <1>3 DEF OthersAreCalled
<1>6. \A i \in 1..m : ToSet(ms[i].calls) \subseteq CallsOf(ms)
  BY <1>4 DEF CallsOf
<1>7. \A i \in 1..n : ToSet(t[i].calls) \subseteq CallsOf(t)
  BY <1>4 DEF CallsOf
<1>8. \A i \in 1..m : \A j \in 1..n : ToSet(u[i].calls) \cap ToSet(u[m + j].calls) = {}
  <2> SUFFICES ASSUME NEW i \in 1..m, NEW j \in 1..n
               PROVE  ToSet(u[i].calls) \cap ToSet(u[m + j].calls) = {}
    OBVIOUS
  <2>1. ToSet(u[i].calls) \subseteq CallsOf(ms) /\ ToSet(u[m + j].calls) \subseteq CallsOf(t)
    BY <1>3, <1>6, <1>7
  <2> QED
    BY <2>1
<1>9. \A i, j \in 1..m : i # j => ToSet(u[i].calls) \cap ToSet(u[j].calls) = {}
  BY <1>1, <1>3 DEF Apart
<1>10. \A i, j \in 1..n : m + i # m + j => ToSet(u[m + i].calls) \cap ToSet(u[m + j].calls) = {}
  BY <1>2, <1>3 DEF Apart
<1>11. Apart(u)
  <2> SUFFICES ASSUME NEW k \in 1..(m + n), NEW l \in 1..(m + n), k # l
               PROVE  ToSet(u[k].calls) \cap ToSet(u[l].calls) = {}
    BY <1>3 DEF Apart
  <2>1. CASE k \in 1..m /\ l \in 1..m
    BY <1>9, <2>1
  <2>2. ASSUME k \in 1..m, NEW j \in 1..n, l = m + j PROVE ToSet(u[k].calls) \cap ToSet(u[l].calls) = {}
    BY <1>8, <2>2
  <2>3. ASSUME l \in 1..m, NEW i \in 1..n, k = m + i PROVE ToSet(u[k].calls) \cap ToSet(u[l].calls) = {}
    BY <1>8, <2>3
  <2>4. ASSUME NEW i \in 1..n, NEW j \in 1..n, k = m + i, l = m + j
        PROVE  ToSet(u[k].calls) \cap ToSet(u[l].calls) = {}
    BY <1>10, <2>4
  <2> QED
    BY <1>3, <2>1, <2>2, <2>3, <2>4
<1> QED
  BY <1>5, <1>11 DEF u

\* One message more.
LEMMA AppendKeeps ==
  ASSUME NEW ms, ms \in Seq(ToSet(ms)), Apart(ms), OthersAreCalled(ms),
         NEW m, m.kind \in {"human", "tool"} => m.calls = <<>>,
         ToSet(m.calls) \cap CallsOf(ms) = {}
  PROVE  Apart(Append(ms, m)) /\ OthersAreCalled(Append(ms, m))
<1>1. /\ <<m>> \in Seq(ToSet(<<m>>)) /\ Len(<<m>>) = 1 /\ <<m>>[1] = m /\ DOMAIN <<m>> = 1..1
  BY DEF ToSet
<1>2. Apart(<<m>>) /\ OthersAreCalled(<<m>>)
  BY <1>1 DEF Apart, OthersAreCalled
<1>3. CallsOf(<<m>>) = ToSet(m.calls)
  BY <1>1 DEF CallsOf
<1>4. Append(ms, m) = ms \o <<m>>
  OBVIOUS
<1> QED
  BY <1>1, <1>2, <1>3, <1>4, JoinKeeps

LEMMA BeginningKeeps ==
  ASSUME NEW ms, ms \in Seq(ToSet(ms)), Apart(ms), OthersAreCalled(ms), NEW at \in 1..Len(ms)
  PROVE  LET s == SubSeq(ms, 1, at)
         IN  Apart(s) /\ OthersAreCalled(s) /\ Len(s) = at /\ s[at] = ms[at]
<1> DEFINE s == SubSeq(ms, 1, at)
<1>1. Len(ms) \in Nat
  OBVIOUS
<1>2. Len(s) = at /\ \A i \in 1..at : i \in 1..Len(ms) /\ s[i] = ms[i]
  BY <1>1
<1> HIDE DEF s
<1>3. at \in 1..at
  BY <1>1
<1>4. Apart(s) /\ OthersAreCalled(s)
  BY <1>2 DEF Apart, OthersAreCalled
<1> QED
  BY <1>2, <1>3, <1>4 DEF s

\* A question begins a turn; nothing is called yet.
LEMMA QuestionBegins ==
  ASSUME NEW ms, OthersAreCalled(ms), NEW n \in Nat, n = Len(ms), n # 0, ms[n].kind = "human"
  PROVE  BeganAt(ms, n) /\ Matched(ms, n, FALSE)
<1>1. n \in 1..n /\ n..n = {n} /\ (n + 1)..n = {}
  OBVIOUS
<1>2. ToSet(ms[n].calls) = {}
  BY <1>1 DEF OthersAreCalled, ToSet
<1> QED
  BY <1>1, <1>2 DEF BeganAt, Matched, MatchedAt

LEMMA AppendedAt ==
  ASSUME NEW ms, ms \in Seq(ToSet(ms)), NEW m, NEW n \in Nat, n = Len(ms)
  PROVE  LET u == Append(ms, m)
         IN  Len(u) = n + 1 /\ u[n + 1] = m /\ \A i \in 1..n : u[i] = ms[i]
<1> DEFINE T == ToSet(ms) \cup {m}
<1>1. ms \in Seq(T) /\ m \in T
  OBVIOUS
<1> HIDE DEF T
<1> QED
  BY <1>1

LEMMA AnswerOpens ==
  ASSUME NEW ms, ms \in Seq(ToSet(ms)), NEW k, BeganAt(ms, k), Matched(ms, k, FALSE),
         NEW m, m.kind = "ai"
  PROVE  BeganAt(Append(ms, m), k) /\ Matched(Append(ms, m), k, TRUE)
<1>1. PICK n \in Nat : n = Len(ms)
  OBVIOUS
<1> DEFINE u == Append(ms, m)
<1>2. /\ Len(u) = n + 1 /\ u[n + 1] = m /\ \A i \in 1..n : u[i] = ms[i]
  BY <1>1, AppendedAt
<1> HIDE DEF u
<1>3. k \in 1..n /\ k \in 1..(n + 1) /\ u[k] = ms[k]
  BY <1>1, <1>2 DEF BeganAt
<1>4. \A i \in k..(n + 1) : i = n + 1 \/ (i \in k..n /\ i \in 1..n)
  BY <1>3
<1>5. BeganAt(u, k)
  BY <1>1, <1>2, <1>3, <1>4 DEF BeganAt
<1>6. Matched(u, k, TRUE)
  <2>0. Len(u) = n + 1
    BY <1>2
  <2> SUFFICES ASSUME NEW i \in k..(n + 1) PROVE MatchedAt(u, i, k, TRUE)
    BY <2>0, Zenon DEF Matched
  <2> SUFFICES /\ \A c \in ToSet(u[i].calls) :
                    \/ i = n + 1
                    \/ \E j \in (i + 1)..(n + 1) : u[j].kind = "tool" /\ u[j].id = c
               /\ u[i].kind = "tool" =>
                    \E j \in k..(i - 1) : u[i].id \in ToSet(u[j].calls)
    BY <2>0 DEF MatchedAt
  <2>1. CASE i = n + 1
    BY <1>2, <2>1
  <2>2. CASE i \in k..n /\ i \in 1..n
    <3>1. \A j \in (i + 1)..n : j \in (i + 1)..(n + 1) /\ u[j] = ms[j]
      BY <1>2, <1>3, <2>2
    <3>2. \A j \in k..(i - 1) : u[j] = ms[j]
      BY <1>2, <1>3, <2>2
    <3>3. u[i] = ms[i]
      BY <1>2, <2>2
    <3>4. \A c \in ToSet(ms[i].calls) : \E j \in (i + 1)..n : ms[j].kind = "tool" /\ ms[j].id = c
      BY <1>1, <2>2 DEF Matched, MatchedAt
    <3>5. ms[i].kind = "tool" => \E j \in k..(i - 1) : ms[i].id \in ToSet(ms[j].calls)
      BY <1>1, <2>2 DEF Matched, MatchedAt
    <3> QED
      BY <3>1, <3>2, <3>3, <3>4, <3>5
  <2> QED
    BY <1>4, <2>1, <2>2
<1> QED
  BY <1>5, <1>6 DEF u

LEMMA ResultsMatch ==
  ASSUME NEW ms, ms \in Seq(ToSet(ms)), NEW k, BeganAt(ms, k), Matched(ms, k, TRUE),
         NEW t, t \in Seq(ToSet(t)),
         \A i \in 1..Len(t) : /\ t[i].kind = "tool" /\ t[i].calls = <<>>
                             /\ t[i].id \in ToSet(ms[Len(ms)].calls),
         \A c \in ToSet(ms[Len(ms)].calls) : \E i \in 1..Len(t) : t[i].id = c
  PROVE  BeganAt(ms \o t, k) /\ Matched(ms \o t, k, FALSE)
<1> DEFINE T == ToSet(ms) \cup ToSet(t)
           u == ms \o t
<1>1. PICK m \in Nat : m = Len(ms)
  OBVIOUS
<1>2. PICK n \in Nat : n = Len(t)
  OBVIOUS
<1>3. /\ Len(u) = m + n
      /\ \A i \in 1..m : i \in 1..(m + n) /\ u[i] = ms[i]
      /\ \A i \in 1..n : m + i \in 1..(m + n) /\ u[m + i] = t[i]
      /\ \A i \in 1..(m + n) : i \in 1..m \/ \E j \in 1..n : i = m + j
  <2>1. ms \in Seq(T) /\ t \in Seq(T)
    OBVIOUS
  <2> HIDE DEF T
  <2>2. IsJoined(u, ms, t, m, n)
    BY <1>1, <1>2, <2>1, JoinAt
  <2> HIDE DEF u
  <2> QED
    BY <2>2, Zenon DEF IsJoined
<1> HIDE DEF u
<1>4. k \in 1..m /\ m \in k..m /\ m \in 1..m
  BY <1>1 DEF BeganAt
<1>5. BeganAt(u, k)
  <2>1. ASSUME NEW i \in (k + 1)..(m + n) PROVE u[i].kind # "human"
    <3>1. i \in 1..(m + n)
      BY <1>4
    <3>2. CASE i \in 1..m
      <4>1. i \in (k + 1)..Len(ms)
        BY <1>1, <1>4, <3>2
      <4> QED
        BY <1>3, <3>2, <4>1 DEF BeganAt
    <3>3. ASSUME NEW j \in 1..n, i = m + j PROVE u[i].kind # "human"
      BY <1>2, <1>3, <3>3
    <3> QED
      BY <1>3, <3>1, <3>2, <3>3
  <2> QED
    BY <1>1, <1>3, <1>4, <2>1 DEF BeganAt
<1>6. Matched(u, k, FALSE)
  <2>0. Len(u) = m + n
    BY <1>3
  <2> SUFFICES ASSUME NEW i \in k..(m + n) PROVE MatchedAt(u, i, k, FALSE)
    BY <2>0, Zenon DEF Matched
  <2> SUFFICES /\ \A c \in ToSet(u[i].calls) :
                    \E j \in (i + 1)..(m + n) : u[j].kind = "tool" /\ u[j].id = c
               /\ u[i].kind = "tool" =>
                    \E j \in k..(i - 1) : u[i].id \in ToSet(u[j].calls)
    BY <2>0 DEF MatchedAt
  <2>1. CASE i \in 1..m
    <3>1. u[i] = ms[i] /\ i \in k..Len(ms)
      BY <1>1, <1>3, <1>4, <2>1
    <3>2. ASSUME NEW c \in ToSet(u[i].calls)
          PROVE  \E j \in (i + 1)..(m + n) : u[j].kind = "tool" /\ u[j].id = c
      <4>1. CASE i = m
        <5>1. PICK j \in 1..n : t[j].id = c
          BY <1>1, <1>2, <3>1, <3>2, <4>1
        <5>2. m + j \in (i + 1)..(m + n)
          BY <4>1
        <5>3. u[m + j] = t[j] /\ t[j].kind = "tool"
          BY <1>2, <1>3
        <5> QED
          BY <5>1, <5>2, <5>3
      <4>2. CASE i # m
        <5>1. PICK j \in (i + 1)..m : ms[j].kind = "tool" /\ ms[j].id = c
          BY <1>1, <3>1, <3>2, <4>2 DEF Matched, MatchedAt
        <5>2. j \in (i + 1)..(m + n) /\ j \in 1..m
          BY <2>1, <5>1
        <5> QED
          BY <1>3, <5>1, <5>2
      <4> QED
        BY <4>1, <4>2
    <3>3. ASSUME u[i].kind = "tool"
          PROVE  \E j \in k..(i - 1) : u[i].id \in ToSet(u[j].calls)
      <4>1. PICK j \in k..(i - 1) : ms[i].id \in ToSet(ms[j].calls)
        BY <3>1, <3>3 DEF Matched, MatchedAt
      <4>2. j \in 1..m
        BY <1>4, <2>1
      <4> QED
        BY <1>3, <3>1, <4>1, <4>2
    <3> QED
      BY <3>2, <3>3
  <2>2. ASSUME NEW j \in 1..n, i = m + j
        PROVE  /\ ToSet(u[i].calls) = {}
               /\ \E h \in k..(i - 1) : u[i].id \in ToSet(u[h].calls)
    <3>1. u[i] = t[j] /\ ToSet(<<>>) = {}
      BY <1>3, <2>2 DEF ToSet
    <3>2. m \in k..(i - 1) /\ u[m] = ms[m]
      BY <1>3, <1>4, <2>2
    <3> QED
      BY <1>1, <1>2, <3>1, <3>2
  <2>3. i \in 1..(m + n)
    BY <1>4
  <2> QED
    BY <1>3, <2>1, <2>2, <2>3
<1> QED
  BY <1>5, <1>6 DEF u

-----------------------------------------------------------------------------
(* The turn keeps its calls matched                                        *)

\* Until it is saved, an answer calls what the history does not.
CallsAreOnce ==
  /\ Apart(messages) /\ OthersAreCalled(messages)
  /\ pc = "saving" => ToSet(draft[2]) \cap CallsOf(messages) = {}

TurnMatched(open) == \E k \in 1..Len(messages) : BeganAt(messages, k) /\ Matched(messages, k, open)

\* While a turn runs, its calls have their results, but those of the last message
\* while the tools run.
TurnIsWhole ==
  /\ pc = "refreshing" => messages # <<>> /\ messages[Len(messages)].kind = "human"
  /\ pc \in {"model", "saving"} => TurnMatched(FALSE)
  /\ pc = "tools" => TurnMatched(TRUE)

SeenInv == CallsAreOnce /\ TurnIsWhole

LEMMA SeenInvInit == Init => SeenInv
<1> SUFFICES ASSUME Init PROVE SeenInv
  OBVIOUS
<1>1. messages = <<>> /\ pc = "idle"
  BY DEF Init
<1>2. Apart(<<>>) /\ OthersAreCalled(<<>>)
  BY DEF Apart, OthersAreCalled
<1> QED
  BY <1>1, <1>2, Zenon DEF SeenInv, CallsAreOnce, TurnIsWhole

\* A step that leaves the history and goes no further in the turn.
LEMMA SeenRest ==
  ASSUME SeenInv, messages' = messages,
         \/ pc' = pc /\ draft' = draft
         \/ pc' \notin {"saving", "refreshing", "model", "tools"}
  PROVE  SeenInv'
<1>1. CallsAreOnce'
  BY Zenon DEF SeenInv, CallsAreOnce
<1>2. CASE pc' = pc /\ draft' = draft
  BY <1>1, <1>2, Zenon DEF SeenInv, TurnIsWhole, TurnMatched
<1>3. CASE pc' \notin {"saving", "refreshing", "model", "tools"}
  BY <1>1, <1>3, Zenon DEF SeenInv, TurnIsWhole
<1> QED
  BY <1>2, <1>3

\* A message of no calls that the turn ends with.
LEMMA SeenNoted ==
  ASSUME SeenInv, HistoryTyped, NEW m, m.calls = <<>>, messages' = Append(messages, m)
  PROVE  Apart(messages') /\ OthersAreCalled(messages')
<1>1. ToSet(m.calls) = {}
  BY DEF ToSet
<1> QED
  BY <1>1, AppendKeeps DEF SeenInv, CallsAreOnce, HistoryTyped

LEMMA AskSees ==
  ASSUME SeenInv, HistoryTyped, NEW q, NEW names, Ask(q, names)
  PROVE  SeenInv'
<1>1. messages' = Append(messages, Human(q)) /\ pc' = "model"
  BY DEF Ask, BeginsTurn
<1>2. Human(q).calls = <<>> /\ Human(q).kind = "human"
  BY DEF Human, NoMessage
<1>3. Apart(messages') /\ OthersAreCalled(messages')
  BY <1>1, <1>2, SeenNoted
<1>4. PICK n \in Nat : n = Len(messages)
  BY DEF HistoryTyped
<1>5. Len(messages') = n + 1 /\ messages'[n + 1] = Human(q)
  BY <1>1, <1>4, AppendedAt DEF HistoryTyped
<1>6. n + 1 \in Nat /\ n + 1 # 0 /\ n + 1 \in 1..(n + 1)
  BY <1>4
<1>7. BeganAt(messages', n + 1) /\ Matched(messages', n + 1, FALSE)
  BY <1>2, <1>3, <1>5, <1>6, QuestionBegins
<1>8. TurnMatched(FALSE)'
  BY <1>5, <1>6, <1>7, Zenon DEF TurnMatched
<1> QED
  BY <1>1, <1>3, <1>8, Zenon DEF SeenInv, CallsAreOnce, TurnIsWhole

LEMMA RefreshSees ==
  ASSUME SeenInv, HistoryTyped, Refresh
  PROVE  SeenInv'
<1>1. messages' = messages /\ pc = "refreshing" /\ pc' = "model"
  BY DEF Refresh, BeginsTurn
<1>2. messages # <<>> /\ messages[Len(messages)].kind = "human" /\ OthersAreCalled(messages)
  BY <1>1, Zenon DEF SeenInv, CallsAreOnce, TurnIsWhole
<1>3. PICK n \in Nat : n = Len(messages)
  BY DEF HistoryTyped
<1>4. n # 0 /\ n \in 1..n
  BY <1>2, <1>3 DEF HistoryTyped
<1>5. BeganAt(messages, n) /\ Matched(messages, n, FALSE)
  BY <1>2, <1>3, <1>4, QuestionBegins
<1>6. TurnMatched(FALSE)'
  BY <1>1, <1>3, <1>4, <1>5, Zenon DEF TurnMatched
<1> QED
  BY <1>1, <1>6, Zenon DEF SeenInv, CallsAreOnce, TurnIsWhole

LEMMA ModelEndsSees ==
  ASSUME SeenInv, NEW chosen, ModelEnds(chosen)
  PROVE  SeenInv'
<1>1. /\ messages' = messages /\ pc = "model" /\ pc' = "saving" /\ draft' = <<answers', chosen>>
      /\ ToSet(chosen) \subseteq FreshCalls
  BY DEF ModelEnds
<1>2. draft'[2] = chosen
  BY <1>1
<1>3. ToSet(chosen) \cap CallsOf(messages) = {}
  BY <1>1 DEF FreshCalls
<1>4. CallsAreOnce'
  BY <1>1, <1>2, <1>3, Zenon DEF SeenInv, CallsAreOnce
<1> QED
  BY <1>1, <1>4, Zenon DEF SeenInv, TurnIsWhole, TurnMatched

LEMMA SaveAnswerSees ==
  ASSUME SeenInv, HistoryTyped, SaveAnswer
  PROVE  SeenInv'
<1> DEFINE m == Ai(draft[1], thought, said, draft[2])
<1>1. messages' = Append(messages, m) /\ pc = "saving" /\ pc' \in {"closing", "tools"}
  BY DEF SaveAnswer
<1>2. m.calls = draft[2] /\ m.kind = "ai"
  BY DEF Ai, NoMessage
<1> HIDE DEF m
<1>3. ToSet(m.calls) \cap CallsOf(messages) = {}
  BY <1>1, <1>2 DEF SeenInv, CallsAreOnce
<1>4. Apart(messages') /\ OthersAreCalled(messages')
  BY <1>1, <1>2, <1>3, AppendKeeps DEF SeenInv, CallsAreOnce, HistoryTyped
<1>5. PICK k \in 1..Len(messages) : BeganAt(messages, k) /\ Matched(messages, k, FALSE)
  BY <1>1 DEF SeenInv, TurnIsWhole, TurnMatched
<1>6. BeganAt(messages', k) /\ Matched(messages', k, TRUE)
  BY <1>1, <1>2, <1>5, AnswerOpens DEF HistoryTyped
<1>7. TurnMatched(TRUE)'
  BY <1>6, Zenon DEF TurnMatched, BeganAt
<1> QED
  BY <1>1, <1>4, <1>7 DEF SeenInv, CallsAreOnce, TurnIsWhole

LEMMA SaveResultsSees ==
  ASSUME SeenInv, HistoryTyped, SaveResults
  PROVE  SeenInv'
<1> DEFINE order == messages[Len(messages)].calls
           results == [i \in DOMAIN order |-> Tool(order[i], calls[order[i]])]
<1>1. messages' = messages \o results /\ pc = "tools" /\ pc' = "model"
  BY DEF SaveResults
<1>2. order \in Seq(Calls)
  <2>1. messages # <<>> /\ messages \in Seq(ToSet(messages))
    BY <1>1 DEF HistoryTyped
  <2>2. Len(messages) \in DOMAIN messages
    BY <2>1
  <2> QED
    BY <2>2 DEF HistoryTyped, ToSet
<1> HIDE DEF order
<1>3. PICK n \in Nat : n = Len(order) /\ DOMAIN order = 1..n
  BY <1>2
<1>4. \A i \in 1..n : /\ results[i].kind = "tool" /\ results[i].calls = <<>>
                      /\ results[i].id = order[i]
  BY <1>3 DEF Tool, NoMessage
<1>5. results \in [1..n -> ToSet(results)]
  BY <1>3 DEF ToSet
<1> HIDE DEF results
<1>6. results \in Seq(ToSet(results)) /\ Len(results) = n /\ DOMAIN results = 1..n
  BY <1>3, <1>5
<1>7. \A i \in 1..n : order[i] \in ToSet(order)
  BY <1>3 DEF ToSet
<1>8. \A c \in ToSet(order) : \E i \in 1..n : order[i] = c
  BY <1>3 DEF ToSet
<1>9. ToSet(<<>>) = {}
  BY DEF ToSet
<1>10. Apart(results) /\ OthersAreCalled(results) /\ CallsOf(results) = {}
  BY <1>4, <1>6, <1>9 DEF Apart, OthersAreCalled, CallsOf
<1>11. Apart(messages') /\ OthersAreCalled(messages')
  BY <1>1, <1>6, <1>10, JoinKeeps DEF SeenInv, CallsAreOnce, HistoryTyped
<1>12. PICK k \in 1..Len(messages) : BeganAt(messages, k) /\ Matched(messages, k, TRUE)
  BY <1>1 DEF SeenInv, TurnIsWhole, TurnMatched
<1>13. \A i \in 1..Len(results) :
         /\ results[i].kind = "tool" /\ results[i].calls = <<>>
         /\ results[i].id \in ToSet(messages[Len(messages)].calls)
  BY <1>4, <1>6, <1>7 DEF order
<1>14. \A c \in ToSet(messages[Len(messages)].calls) : \E i \in 1..Len(results) : results[i].id = c
  BY <1>4, <1>6, <1>8 DEF order
<1>15. BeganAt(messages', k) /\ Matched(messages', k, FALSE)
  BY <1>1, <1>6, <1>12, <1>13, <1>14, ResultsMatch DEF HistoryTyped
<1>16. TurnMatched(FALSE)'
  BY <1>15, Zenon DEF TurnMatched, BeganAt
<1> QED
  BY <1>1, <1>11, <1>16, Zenon DEF SeenInv, CallsAreOnce, TurnIsWhole

LEMMA TruncateSees ==
  ASSUME SeenInv, RewindInv, Truncate
  PROVE  SeenInv'
<1>1. /\ messages' = Rewound(messages, turn) /\ pc' = "refreshing"
      /\ IsAsked(messages, turn) /\ messages \in Seq(ToSet(messages))
  BY DEF Truncate, RewindInv, TailIsDoomed, HistoryTyped
<1>2. PICK at \in 1..Len(messages) :
        messages[at].kind = "human" /\ Rewound(messages, turn) = SubSeq(messages, 1, at)
  BY <1>1, RewoundIs
<1>3. /\ Apart(messages') /\ OthersAreCalled(messages')
      /\ Len(messages') = at /\ messages'[at] = messages[at]
  BY <1>1, <1>2, BeginningKeeps DEF SeenInv, CallsAreOnce
<1>4. messages' # <<>>
  <2>1. at # 0 /\ Len(<<>>) = 0
    BY <1>1, <1>2
  <2> QED
    BY <1>3, <2>1
<1> QED
  BY <1>1, <1>2, <1>3, <1>4 DEF SeenInv, CallsAreOnce, TurnIsWhole

\* The calls of the history stay apart, and those of a turn matched.
LEMMA SeenNext ==
  ASSUME SeenInv, RewindInv, [Next]_vars
  PROVE  SeenInv'
<1> USE DEF drawing, attachments, todo, tab, bounds, unturned
<1>1. HistoryTyped
  BY DEF RewindInv
<1>2. ASSUME NEW q, NEW names, Ask(q, names) PROVE SeenInv'
  BY <1>1, <1>2, AskSees
<1>3. CASE Remember \/ TurnFails
  <2>1. PICK mark : messages' = Append(messages, Note(answers', mark)) /\ pc' = "idle"
    BY <1>3 DEF Remember, TurnFails
  <2>2. Note(answers', mark).calls = <<>>
    BY DEF Note, NoMessage
  <2>3. Apart(messages') /\ OthersAreCalled(messages')
    BY <1>1, <2>1, <2>2, SeenNoted
  <2> QED
    BY <2>1, <2>3 DEF SeenInv, CallsAreOnce, TurnIsWhole
<1>4. CASE StopTurn
  BY <1>4, SeenRest DEF StopTurn
<1>5. CASE \/ DeleteFails \/ RefreshFails \/ ResumeReads \/ ResumeShows
           \/ Thinks \/ Says \/ TurnEnds \/ UNCHANGED vars
  BY <1>5, SeenRest DEF DeleteFails, RefreshFails, ResumeReads, ResumeShows, Thinks, Says,
     TurnEnds, vars
<1>6. ASSUME NEW c, NEW outcome, NEW name,
             \/ Refuse(c) \/ SendsStep(c) \/ NotesStep(c) \/ ToolEnds(c, outcome)
             \/ StopPending(c) \/ SendFile(c, name) \/ DrawsChart(c)
      PROVE  SeenInv'
  BY <1>6, SeenRest DEF Refuse, SendsStep, NotesStep, ToolEnds, StopPending, SendFile, DrawsChart
<1>7. ASSUME NEW x, \/ Upload(x) \/ ChartUploads(x) \/ CreateCommits(x) \/ CreateFails(x)
                    \/ Edit(x) \/ DeleteElement(x)
      PROVE  SeenInv'
  BY <1>7, SeenRest DEF Upload, ChartUploads, CreateCommits, CreateFails, Edit, DeleteElement
<1> QED
  BY <1>1, <1>2, <1>3, <1>4, <1>5, <1>6, <1>7, RefreshSees, ModelEndsSees, SaveAnswerSees,
     SaveResultsSees, TruncateSees
     DEF Next, ToolSteps, ModelSteps

\* Whatever was stopped, failed or edited before, the model is shown calls with
\* their results and results with their calls, for any number of calls, turns and
\* foreign tools: build_llm_view keeps of earlier turns what was said alone, and of
\* the current one, whose calls are answered before the model runs again, drops the
\* calls of foreign tools with their results.
THEOREM ModelsSeeWholeExchanges == Spec => []ModelSeesWholeExchanges
<1>1. Init => RewindInv /\ SeenInv
  BY HistoryInit, SeenInvInit
<1>2. RewindInv /\ SeenInv /\ [Next]_vars => RewindInv' /\ SeenInv'
  BY HistoryNext, TailNext, SeenNext DEF RewindInv
<1>3. RewindInv /\ SeenInv => ModelSeesWholeExchanges
  <2> SUFFICES ASSUME RewindInv, SeenInv, pc = "model" PROVE WholeExchanges(LlmView(messages))
    BY DEF ModelSeesWholeExchanges
  <2>1. PICK k \in 1..Len(messages) : BeganAt(messages, k) /\ Matched(messages, k, FALSE)
    BY DEF SeenInv, TurnIsWhole, TurnMatched
  <2>2. messages \in Seq(ToSet(messages)) /\ Apart(messages) /\ OthersAreCalled(messages)
    BY DEF RewindInv, HistoryTyped, SeenInv, CallsAreOnce
  <2> QED
    BY <2>1, <2>2, ViewIsWhole
<1> QED
  BY <1>1, <1>2, <1>3, PTL DEF Spec

-----------------------------------------------------------------------------
(* The tab and the history: who drew what                                  *)

\* The steps a message has in a turn.
Draws(q, m) ==
  CASE m.kind = "human" -> {StepId(m.id, 0, "question")}
    [] m.kind = "tool"  ->
         {StepId(q, 0, "process"), StepId(m.id, 0, "tool")}
           \cup (IF m.outcome = "chart" THEN {StepId(m.id, 0, "chart")} ELSE {})
    [] OTHER ->
         IF m.thinks /\ m.mark # "error"
           THEN {StepId(q, 0, "process"), StepId(m.id, 0, "thinking")} ELSE {}

Drawn(ms, i) == Draws(Pass(ms)[i].turn, ms[i])

\* The state a step is drawn in: only a call has more than one.
Usual(role) ==
  CASE role = "process"  -> "open"
    [] role = "thinking" -> "done"
    [] role = "chart"    -> "drawn"
    [] OTHER             -> "asked"
StateOf(m, id) == IF id[3] = "tool" THEN ToolState(m.outcome) ELSE Usual(id[3])

\* Of a message that is no call of a foreign tool and no result of one.
Own(ms, i) ==
  /\ ~IsForeign(ms[i])
  /\ ms[i].kind = "tool" =>
       \A k \in 1..(i - 1) : IsForeign(ms[k]) => ms[i].id \notin ToSet(ms[k].calls)

-----------------------------------------------------------------------------
(* The invariant                                                           *)

\* Whichever call a result answers, it was called before; two results of one
\* call are the same.
ToolsAreCalled(ms) ==
  \A i \in 1..Len(ms) : ms[i].kind = "tool" =>
    \E k \in 1..(i - 1) : ms[i].id \in ToSet(ms[k].calls)
ToolsAreSame(ms) ==
  \A i, j \in 1..Len(ms) :
    ms[i].kind = "tool" /\ ms[j].kind = "tool" /\ ms[i].id = ms[j].id =>
      ms[i].outcome = ms[j].outcome

\* The calls under way are those of the answer to save or of the last message,
\* and nothing answered them yet.
CallsAreOpen ==
  /\ pc \notin {"saving", "tools", "stopping"} => DOMAIN calls = {}
  /\ pc = "saving" => /\ DOMAIN calls = ToSet(draft[2])
                      /\ \A c \in DOMAIN calls : calls[c] = "called"
  /\ pc = "tools" => /\ messages # <<>> /\ messages[Len(messages)].calls # <<>>
                     /\ DOMAIN calls = ToSet(messages[Len(messages)].calls)
  /\ \A i \in 1..Len(messages) : messages[i].kind = "tool" => messages[i].id \notin DOMAIN calls
  /\ \A c \in DOMAIN calls : StepId(c, 0, "tool") \notin DOMAIN snapshot
  /\ \A c \in pending : c \in DOMAIN calls /\ calls[c] = "running"

CallsInv == ToolsAreCalled(messages) /\ ToolsAreSame(messages) /\ CallsAreOpen

\* A step that is no call is in the one state it has.
RolesAgree(steps) ==
  \A id \in DOMAIN steps : id[3] \in ProcessRoles \ {"tool"} => steps[id] = Usual(id[3])

\* A call the history answers is shown as it was answered.
ToolsAgree(ms, steps) ==
  \A i \in 1..Len(ms) :
    ms[i].kind = "tool" /\ StepId(ms[i].id, 0, "tool") \in DOMAIN steps =>
      steps[StepId(ms[i].id, 0, "tool")] = ToolState(ms[i].outcome)

\* A call under way is shown as far as it got.
ShownAs(c) ==
  CASE calls[c] \in {"sent", "running"} -> "running"
    [] calls[c] = "error"               -> "failed"
    [] OTHER                            -> "done"
CallsAreShown ==
  pc \in {"saving", "tools"} =>
    \A c \in DOMAIN calls : StepId(c, 0, "tool") \in DOMAIN feed =>
      calls[c] # "called" /\ feed[StepId(c, 0, "tool")] = ShownAs(c)

FeedAgrees ==
  /\ RolesAgree(feed) /\ RolesAgree(snapshot)
  /\ ToolsAgree(messages, feed) /\ ToolsAgree(messages, snapshot)
  /\ CallsAreShown

\* The last question of the history is the turn's.
TurnIsLast ==
  pc \in {"refreshing", "model", "saving", "tools"} => Pass(messages)[Len(messages)].turn = turn

\* What is sent the history has, or will have when the node is saved.
InHistory(id) == \E i \in 1..Len(messages) : id \in Drawn(messages, i)
Owed ==
  CASE pc = "model"  -> IF thought THEN {StepId(turn, 0, "process")} ELSE {}
    [] pc = "saving" ->
         IF thought THEN {StepId(turn, 0, "process"), StepId(draft[1], 0, "thinking")} ELSE {}
    [] pc = "tools"  ->
         {StepId(turn, 0, "process")} \cup {StepId(c, 0, "tool") : c \in DOMAIN calls}
           \cup {StepId(c, 0, "chart") : c \in {d \in DOMAIN calls : calls[d] = "chart"}}
    [] OTHER -> {}
SentProcess == {id \in sent : id[3] \in ProcessRoles}
SentIsSaved ==
  pc \in {"model", "saving", "tools", "closing"} \/ (pc \in {"idle", "rewinding"} /\ ended = "ok") =>
    \A id \in SentProcess : InHistory(id) \/ id \in Owed

\* What will be saved was sent.
DrawnIsSent ==
  LET process == StepId(turn, 0, "process")
  IN  /\ pc \in {"model", "saving", "tools"} => (opened.container => process \in sent)
      /\ pc \in {"model", "saving", "tools"} => (thought => opened.container)
      /\ pc = "saving" /\ thought => StepId(draft[1], 0, "thinking") \in sent
      /\ pc = "tools" =>
           \A c \in DOMAIN calls \ ForeignCalls :
             /\ calls[c] # "called" => process \in sent /\ StepId(c, 0, "tool") \in sent
             /\ calls[c] = "chart" => StepId(c, 0, "chart") \in sent

\* A tab that saw it all shows what was sent and what the history draws.
TabSawIt ==
  ~reloaded =>
    /\ pc \notin {"idle", "rewinding", "refreshing"} => sent \subseteq DOMAIN feed
    /\ \A i \in 1..Len(messages) : Own(messages, i) => Drawn(messages, i) \subseteq DOMAIN feed

ReplayInv ==
  CallsInv /\ FeedAgrees /\ TurnIsLast /\ SentIsSaved /\ DrawnIsSent /\ TabSawIt

-----------------------------------------------------------------------------
(* Replays: what they show and whose it is                                 *)

\* A history and one it begins.
Begins(s, u) ==
  /\ Len(s) \in Nat /\ Len(u) \in Nat /\ Len(s) <= Len(u)
  /\ \A i \in 1..Len(s) : u[i] = s[i]

\* Over a beginning the pass is the same.
LEMMA PassBegins ==
  ASSUME NEW s, NEW u, Begins(s, u)
  PROVE  \A n \in 0..Len(s) : Pass(u)[n] = Pass(s)[n]
<1>1. PICK N \in Nat : N = Len(s)
  BY DEF Begins
<1>2. PICK M \in Nat : M = Len(u) /\ N <= M
  BY <1>1 DEF Begins
<1> DEFINE f == Pass(s)
           g == Pass(u)
           P == {n \in 0..N : g[n] = f[n]}
<1>3. f[0] = Begin /\ \A n \in 1..N : f[n] = Replayed(f[n - 1], s[n])
  BY <1>1, PassIs
<1>4. g[0] = Begin /\ \A n \in 1..M : g[n] = Replayed(g[n - 1], u[n])
  BY <1>2, PassIs
<1> HIDE DEF f, g
<1>5. 0 \in P
  BY <1>3, <1>4
<1>6. ASSUME NEW n \in 1..N, n - 1 \in P PROVE n \in P
  <2>1. n \in 1..M /\ n \in 0..N /\ u[n] = s[n] /\ g[n - 1] = f[n - 1]
    BY <1>1, <1>2, <1>6 DEF Begins
  <2> QED
    BY <1>3, <1>4, <2>1
<1> HIDE DEF P
<1>7. \A n \in 0..N : n \in P
  BY <1>5, <1>6, Inductive
<1> QED
  BY <1>1, <1>7 DEF P, f, g

LEMMA BeginsDraws ==
  ASSUME NEW s, NEW u, Begins(s, u), NEW i \in 1..Len(s)
  PROVE  Drawn(u, i) = Drawn(s, i) /\ Own(u, i) = Own(s, i)
<1>1. i \in 0..Len(s) /\ u[i] = s[i] /\ \A k \in 1..(i - 1) : u[k] = s[k]
  BY DEF Begins
<1>2. Pass(u)[i] = Pass(s)[i]
  BY <1>1, PassBegins
<1> QED
  BY <1>1, <1>2, Zenon DEF Drawn, Own

\* A pass is a record.
IsPass(f) == f = [turn |-> f.turn, answers |-> f.answers, steps |-> f.steps]

LEMMA PassWith ==
  ASSUME NEW f, IsPass(f), NEW steps
  PROVE  LET g == [f EXCEPT !.steps = steps]
         IN  IsPass(g) /\ g.turn = f.turn /\ g.steps = steps
<1>1. PICK a, b, c : a = f.turn /\ b = f.answers /\ c = f.steps
  OBVIOUS
<1>2. f = [turn |-> a, answers |-> b, steps |-> c]
  BY <1>1 DEF IsPass
<1>3. [f EXCEPT !.steps = steps] = [turn |-> a, answers |-> b, steps |-> steps]
  BY <1>2
<1>4. IsPass([turn |-> a, answers |-> b, steps |-> steps])
  BY DEF IsPass
<1> QED
  BY <1>1, <1>3, <1>4

\* Of the steps of a turn, g has those of f and those of drawn, as a message m
\* has them.
Adds(f, g, drawn, m) ==
  /\ DOMAIN f \cup drawn \subseteq DOMAIN g
  /\ \A id \in DOMAIN g : id[3] \in ProcessRoles =>
       IF id \in drawn THEN g[id] = StateOf(m, id) ELSE id \in DOMAIN f /\ g[id] = f[id]

LEMMA AddsShown ==
  ASSUME NEW f, NEW g, NEW drawn, NEW m, Adds(f, g, drawn, m), NEW id, NEW state,
         id[3] \in ProcessRoles => state = StateOf(m, id)
  PROVE  /\ Adds(f, Shown(g, id, state), drawn \cup {id}, m)
         /\ id[3] \notin ProcessRoles => Adds(f, Shown(g, id, state), drawn, m)
<1> DEFINE h == Shown(g, id, state)
<1>1. /\ DOMAIN h = DOMAIN g \cup {id} /\ h[id] = state
      /\ \A x \in DOMAIN g : x # id => h[x] = g[x]
  BY DEF Shown, With
<1> HIDE DEF h
<1>2. DOMAIN f \cup drawn \subseteq DOMAIN g
  BY DEF Adds
<1>3. ASSUME NEW x \in DOMAIN h, x[3] \in ProcessRoles, x # id
      PROVE  IF x \in drawn THEN h[x] = StateOf(m, x) ELSE x \in DOMAIN f /\ h[x] = f[x]
  <2>1. x \in DOMAIN g /\ h[x] = g[x]
    BY <1>1, <1>3
  <2> QED
    BY <1>3, <2>1 DEF Adds
<1>4. Adds(f, h, drawn \cup {id}, m)
  BY <1>1, <1>2, <1>3 DEF Adds
<1>5. ASSUME id[3] \notin ProcessRoles PROVE Adds(f, h, drawn, m)
  BY <1>1, <1>2, <1>3, <1>5 DEF Adds
<1> QED
  BY <1>4, <1>5 DEF h

LEMMA AddsNothing ==
  ASSUME NEW f, NEW m
  PROVE  Adds(f, f, {}, m)
  BY DEF Adds

\* What one message makes of a pass.
LEMMA ReplayedDraws ==
  ASSUME NEW f, IsPass(f), NEW m
  PROVE  LET g == Replayed(f, m)
         IN  /\ IsPass(g) /\ g.turn = (IF m.kind = "human" THEN m.id ELSE f.turn)
             /\ Adds(f.steps, g.steps, Draws(g.turn, m), m)
<1> DEFINE process == StepId(f.turn, 0, "process")
           tool == StepId(m.id, 0, "tool")
           chart == StepId(m.id, 0, "chart")
           thinking == StepId(m.id, 0, "thinking")
<1>1. /\ process[3] = "process" /\ tool[3] = "tool" /\ chart[3] = "chart"
      /\ thinking[3] = "thinking"
  BY DEF StepId
<1>2. /\ StateOf(m, process) = "open" /\ StateOf(m, tool) = ToolState(m.outcome)
      /\ StateOf(m, chart) = "drawn" /\ StateOf(m, thinking) = "done"
  BY <1>1 DEF StateOf, Usual
<1>3. Adds(f.steps, Process(f.steps, f.turn), {process}, m)
  <2>1. Adds(f.steps, Shown(f.steps, process, "open"), {} \cup {process}, m)
    BY <1>2, AddsNothing, AddsShown
  <2> QED
    BY <2>1 DEF Process
<1>4. ASSUME m.kind = "human"
      PROVE  LET g == Replayed(f, m)
             IN  /\ IsPass(g) /\ g.turn = m.id
                 /\ Adds(f.steps, g.steps, Draws(g.turn, m), m)
  <2> DEFINE id == StepId(m.id, 0, "question")
             steps == Shown(f.steps, id, "asked")
  <2>1. id[3] = "question" /\ StateOf(m, id) = "asked"
    BY DEF StepId, StateOf, Usual
  <2>2. Adds(f.steps, steps, {} \cup {id}, m)
    BY <2>1, AddsNothing, AddsShown
  <2>3. Draws(m.id, m) = {id}
    BY <1>4 DEF Draws
  <2>4. Replayed(f, m) = [turn |-> m.id, answers |-> 0, steps |-> steps]
    BY <1>4 DEF Replayed, Question
  <2> HIDE DEF id, steps
  <2> QED
    BY <2>2, <2>3, <2>4 DEF IsPass
<1>5. ASSUME m.kind = "tool"
      PROVE  LET g == Replayed(f, m)
             IN  /\ IsPass(g) /\ g.turn = f.turn
                 /\ Adds(f.steps, g.steps, Draws(g.turn, m), m)
  <2> DEFINE shown == Shown(Process(f.steps, f.turn), tool, ToolState(m.outcome))
             steps == Ended(Process(f.steps, f.turn), m.id, m.outcome)
             drawn == {process, tool} \cup (IF m.outcome = "chart" THEN {chart} ELSE {})
  <2>1. Adds(f.steps, shown, {process} \cup {tool}, m)
    BY <1>2, <1>3, AddsShown
  <2>2. steps = IF m.outcome = "chart" THEN Shown(shown, chart, "drawn") ELSE shown
    BY DEF Ended
  <2>3. Draws(f.turn, m) = drawn
    BY <1>5 DEF Draws
  <2> HIDE DEF shown, steps
  <2>4. Adds(f.steps, steps, drawn, m)
    <3>1. CASE m.outcome = "chart"
      <4>1. Adds(f.steps, Shown(shown, chart, "drawn"), {process} \cup {tool} \cup {chart}, m)
        BY <1>2, <2>1, AddsShown
      <4>2. {process} \cup {tool} \cup {chart} = drawn
        BY <3>1
      <4> QED
        BY <2>2, <3>1, <4>1, <4>2
    <3>2. CASE m.outcome # "chart"
      <4>1. {process} \cup {tool} = drawn
        BY <3>2
      <4> QED
        BY <2>1, <2>2, <3>2, <4>1
    <3> QED
      BY <3>1, <3>2
  <2> HIDE DEF drawn
  <2>5. Replayed(f, m) = [f EXCEPT !.steps = steps]
    BY <1>5 DEF Replayed, ToolResult, steps
  <2> QED
    BY <2>3, <2>4, <2>5, PassWith
<1>6. ASSUME m.kind \notin {"human", "tool"}
      PROVE  LET g == Replayed(f, m)
             IN  /\ IsPass(g) /\ g.turn = f.turn
                 /\ Adds(f.steps, g.steps, Draws(g.turn, m), m)
  <2> DEFINE after == IF m.thinks THEN Thinking(f, m) ELSE f
             draws == IF m.thinks THEN {process, thinking} ELSE {}
             steps == Shown(Process(f.steps, f.turn), thinking, "done")
  <2>1. IsPass(after) /\ after.turn = f.turn /\ Adds(f.steps, after.steps, draws, m)
    <3>1. CASE m.thinks
      <4>1. Adds(f.steps, steps, {process} \cup {thinking}, m)
        BY <1>2, <1>3, AddsShown
      <4>2. after = [f EXCEPT !.steps = steps]
        BY <3>1 DEF Thinking
      <4>3. {process} \cup {thinking} = draws
        BY <3>1
      <4> HIDE DEF steps, draws, after
      <4>4. IsPass(after) /\ after.turn = f.turn /\ after.steps = steps
        BY <4>2, PassWith
      <4> QED
        BY <4>1, <4>3, <4>4
    <3>2. CASE ~m.thinks
      BY <3>2, AddsNothing
    <3> QED
      BY <3>1, <3>2
  <2>2. ASSUME NEW g, IsPass(g), g.turn = f.turn, NEW role \in {"answer", "error"},
               NEW drawn, Adds(f.steps, g.steps, drawn, m)
        PROVE  /\ IsPass(Answer(g, role)) /\ Answer(g, role).turn = f.turn
               /\ Adds(f.steps, Answer(g, role).steps, drawn, m)
    <3> DEFINE id == StepId(g.turn, g.answers, role)
    <3>1. id[3] \notin ProcessRoles
      BY DEF StepId, ProcessRoles
    <3>2. Adds(f.steps, Shown(g.steps, id, "said"), drawn, m)
      BY <2>2, <3>1, AddsShown
    <3>3. /\ IsPass(Answer(g, role)) /\ Answer(g, role).turn = g.turn
          /\ Answer(g, role).steps = Shown(g.steps, id, "said")
      BY DEF Answer, IsPass
    <3> QED
      BY <2>2, <3>2, <3>3
  <2>3. Replayed(f, m) = Assistant(f, m)
    BY <1>6 DEF Replayed
  <2>4. Draws(f.turn, m) = IF m.mark = "error" THEN {} ELSE draws
    BY <1>6 DEF Draws
  <2>5. Assistant(f, m) = IF m.mark = "error" THEN Answer(f, "error")
                          ELSE IF m.says THEN Answer(after, "answer") ELSE after
    BY DEF Assistant
  <2> HIDE DEF after, draws
  <2>6. CASE m.mark = "error"
    BY <2>2, <2>3, <2>4, <2>5, <2>6, AddsNothing
  <2>7. CASE m.mark # "error" /\ m.says
    BY <2>1, <2>2, <2>3, <2>4, <2>5, <2>7
  <2>8. CASE m.mark # "error" /\ ~m.says
    BY <2>1, <2>3, <2>4, <2>5, <2>8
  <2> QED
    BY <2>6, <2>7, <2>8
<1> QED
  BY <1>4, <1>5, <1>6

\* What a replay shows of a process is what its messages have, in their states.
LEMMA ReplayIs ==
  ASSUME NEW ms, Len(ms) \in Nat
  PROVE  /\ \A i \in 1..Len(ms) : Drawn(ms, i) \subseteq DOMAIN Replay(ms)
         /\ \A id \in ProcessIds(Replay(ms)) :
              \E i \in 1..Len(ms) : id \in Drawn(ms, i) /\ Replay(ms)[id] = StateOf(ms[i], id)
<1>1. PICK N \in Nat : N = Len(ms)
  OBVIOUS
<1> DEFINE f == Pass(ms)
           Has(n) == \A i \in 1..n : Drawn(ms, i) \subseteq DOMAIN f[n].steps
           Shows(n) == \A id \in DOMAIN f[n].steps : id[3] \in ProcessRoles =>
                         \E i \in 1..n : id \in Drawn(ms, i) /\ f[n].steps[id] = StateOf(ms[i], id)
           P == {n \in 0..N : IsPass(f[n]) /\ Has(n) /\ Shows(n)}
<1>2. f[0] = Begin /\ \A n \in 1..N : f[n] = Replayed(f[n - 1], ms[n])
  BY <1>1, PassIs
<1>3. \A i : Drawn(ms, i) = Draws(f[i].turn, ms[i])
  BY DEF Drawn
<1> HIDE DEF f
<1>4. 0 \in P
  <2>1. DOMAIN Begin.steps = {} /\ IsPass(Begin)
    BY DEF Begin, IsPass
  <2> QED
    BY <1>2, <2>1
<1>5. ASSUME NEW n \in 1..N, n - 1 \in P PROVE n \in P
  <2>1. n - 1 \in 0..N /\ n \in 0..N /\ n \in Nat /\ \A i \in 1..n : i = n \/ i \in 1..(n - 1)
    BY <1>1
  <2>2. IsPass(f[n - 1]) /\ Has(n - 1) /\ Shows(n - 1)
    BY <1>5
  <2>3. f[n] = Replayed(f[n - 1], ms[n])
    BY <1>2
  <2>4. /\ IsPass(f[n]) /\ Adds(f[n - 1].steps, f[n].steps, Drawn(ms, n), ms[n])
    <3>1. PICK g : g = f[n - 1]
      OBVIOUS
    <3>2. PICK h : h = Replayed(g, ms[n])
      OBVIOUS
    <3>3. IsPass(h) /\ Adds(g.steps, h.steps, Draws(h.turn, ms[n]), ms[n])
      BY <2>2, <3>1, <3>2, ReplayedDraws
    <3>4. h = f[n] /\ Drawn(ms, n) = Draws(h.turn, ms[n])
      BY <1>3, <2>3, <3>1, <3>2
    <3> QED
      BY <3>1, <3>3, <3>4
  <2>5. DOMAIN f[n - 1].steps \subseteq DOMAIN f[n].steps /\ Drawn(ms, n) \subseteq DOMAIN f[n].steps
    BY <2>4 DEF Adds
  <2>6. Has(n)
    BY <2>1, <2>2, <2>5
  <2>7. ASSUME NEW id \in DOMAIN f[n].steps, id[3] \in ProcessRoles
        PROVE  \E i \in 1..n : id \in Drawn(ms, i) /\ f[n].steps[id] = StateOf(ms[i], id)
    <3>1. CASE id \in Drawn(ms, n)
      <4>1. f[n].steps[id] = StateOf(ms[n], id)
        BY <2>4, <2>7, <3>1 DEF Adds
      <4>2. n \in 1..n
        BY <2>1
      <4> QED
        BY <3>1, <4>1, <4>2
    <3>2. CASE id \notin Drawn(ms, n)
      <4>1. id \in DOMAIN f[n - 1].steps /\ f[n].steps[id] = f[n - 1].steps[id]
        BY <2>4, <2>7, <3>2 DEF Adds
      <4>2. PICK i \in 1..(n - 1) : id \in Drawn(ms, i) /\ f[n - 1].steps[id] = StateOf(ms[i], id)
        BY <2>2, <2>7, <4>1
      <4>3. i \in 1..n
        BY <2>1
      <4> QED
        BY <4>1, <4>2, <4>3
    <3> QED
      BY <3>1, <3>2
  <2> QED
    BY <2>1, <2>4, <2>6, <2>7
<1> HIDE DEF P
<1>6. \A n \in 0..N : n \in P
  BY <1>4, <1>5, Inductive
<1>7. N \in P /\ f[N].steps = Replay(ms)
  BY <1>1, <1>6 DEF Replay, f
<1>8. Has(N) /\ Shows(N)
  BY <1>7 DEF P
<1>9. \A id \in ProcessIds(Replay(ms)) : id \in DOMAIN Replay(ms) /\ id[3] \in ProcessRoles
  BY DEF ProcessIds
<1> QED
  BY <1>1, <1>7, <1>8, <1>9

\* The turn of a message: the last question up to it.
LastAsked(ms, n, q) ==
  \/ q = "none" /\ \A i \in 1..n : ms[i].kind # "human"
  \/ \E h \in 1..n : /\ ms[h].kind = "human" /\ ms[h].id = q
                     /\ \A i \in (h + 1)..n : ms[i].kind # "human"

LEMMA TurnIs ==
  ASSUME NEW ms, Len(ms) \in Nat
  PROVE  \A n \in 0..Len(ms) : LastAsked(ms, n, Pass(ms)[n].turn)
<1>1. PICK N \in Nat : N = Len(ms)
  OBVIOUS
<1> DEFINE f == Pass(ms)
           P == {n \in 0..N : IsPass(f[n]) /\ LastAsked(ms, n, f[n].turn)}
<1>2. f[0] = Begin /\ \A n \in 1..N : f[n] = Replayed(f[n - 1], ms[n])
  BY <1>1, PassIs
<1> HIDE DEF f
<1>3. 0 \in P
  <2>1. Begin.turn = "none" /\ IsPass(Begin) /\ 1..0 = {}
    BY DEF Begin, IsPass
  <2> QED
    BY <1>2, <2>1 DEF LastAsked
<1>4. ASSUME NEW n \in 1..N, n - 1 \in P PROVE n \in P
  <2>1. n - 1 \in 0..N /\ n \in 0..N /\ n \in 1..n /\ n \in Nat /\ (n + 1)..n = {}
    BY <1>1
  <2>2. IsPass(f[n - 1]) /\ LastAsked(ms, n - 1, f[n - 1].turn)
    BY <1>4
  <2>3. /\ IsPass(f[n])
        /\ f[n].turn = (IF ms[n].kind = "human" THEN ms[n].id ELSE f[n - 1].turn)
    <3>1. PICK g : g = f[n - 1]
      OBVIOUS
    <3>2. PICK h : h = Replayed(g, ms[n])
      OBVIOUS
    <3>3. IsPass(h) /\ h.turn = (IF ms[n].kind = "human" THEN ms[n].id ELSE g.turn)
      BY <2>2, <3>1, <3>2, ReplayedDraws
    <3> QED
      BY <1>2, <3>1, <3>2, <3>3
  <2>4. CASE ms[n].kind = "human"
    BY <2>1, <2>3, <2>4 DEF LastAsked
  <2>5. CASE ms[n].kind # "human"
    <3>1. f[n].turn = f[n - 1].turn
      BY <2>3, <2>5
    <3>2. \A i \in 1..n : i = n \/ i \in 1..(n - 1)
      BY <2>1
    <3>3. CASE f[n].turn = "none" /\ \A i \in 1..(n - 1) : ms[i].kind # "human"
      BY <2>1, <2>3, <2>5, <3>2, <3>3 DEF LastAsked
    <3>4. ASSUME NEW h \in 1..(n - 1), ms[h].kind = "human", ms[h].id = f[n].turn,
                 \A i \in (h + 1)..(n - 1) : ms[i].kind # "human"
          PROVE  LastAsked(ms, n, f[n].turn)
      <4>1. h \in 1..n /\ \A i \in (h + 1)..n : i = n \/ i \in (h + 1)..(n - 1)
        BY <2>1
      <4> QED
        BY <2>5, <3>4, <4>1 DEF LastAsked
    <3>5. LastAsked(ms, n, f[n].turn)
      BY <2>2, <3>1, <3>3, <3>4 DEF LastAsked
    <3> QED
      BY <2>1, <2>3, <3>5
  <2> QED
    BY <2>4, <2>5
<1> HIDE DEF P
<1>5. \A n \in 0..N : n \in P
  BY <1>3, <1>4, Inductive
<1> QED
  BY <1>1, <1>5 DEF P, f

\* There is one such question.
LEMMA LastIsOne ==
  ASSUME NEW ms, NEW n \in Nat, NEW q, LastAsked(ms, n, q), NEW r, LastAsked(ms, n, r)
  PROVE  q = r
<1>1. CASE \A i \in 1..n : ms[i].kind # "human"
  BY <1>1 DEF LastAsked
<1>2. ASSUME NEW h \in 1..n, ms[h].kind = "human", ms[h].id = q,
             \A i \in (h + 1)..n : ms[i].kind # "human",
             NEW l \in 1..n, ms[l].kind = "human", ms[l].id = r,
             \A i \in (l + 1)..n : ms[i].kind # "human"
      PROVE  q = r
  <2>1. ~(h < l) /\ ~(l < h)
    <3>1. h < l => l \in (h + 1)..n
      OBVIOUS
    <3>2. l < h => h \in (l + 1)..n
      OBVIOUS
    <3> QED
      BY <1>2, <3>1, <3>2
  <2>2. h = l
    BY <2>1
  <2> QED
    BY <1>2, <2>2
<1> QED
  BY <1>1, <1>2, Zenon DEF LastAsked

\* What was called by the messages at some places.
LEMMA PickedCalls ==
  ASSUME NEW ms, ms \in Seq(ToSet(ms)), NEW places, places \subseteq DOMAIN ms
  PROVE  \A c : c \in CallsOf(Picked(ms, places)) <=> \E i \in places : c \in ToSet(ms[i].calls)
<1> DEFINE w == Picked(ms, places)
<1>1. PICK d : Picks(d, Len(ms), ms, places, w)
  BY PickedIs
<1> HIDE DEF w
<1>2. DOMAIN ms = 1..Len(ms) /\ places \cap 1..Len(ms) = places
  OBVIOUS
<1>3. /\ DOMAIN w = 1..Len(w) /\ \A k \in DOMAIN w : d[k] \in places /\ w[k] = ms[d[k]]
      /\ \A i \in places : \E k \in DOMAIN w : d[k] = i
  <2>1. w \in Seq(ToSet(ms)) /\ d \in [1..Len(w) -> places]
    BY <1>1, <1>2 DEF Picks
  <2>2. DOMAIN w = 1..Len(w)
    BY <2>1
  <2>3. \A i \in places : \E k \in DOMAIN w : d[k] = i
    BY <1>1, <1>2, <2>2 DEF Picks
  <2>4. \A k \in DOMAIN w : d[k] \in places /\ w[k] = ms[d[k]]
    BY <1>1, <2>1, <2>2 DEF Picks
  <2> QED
    BY <2>2, <2>3, <2>4
<1>4. \A c : c \in CallsOf(w) <=> \E k \in DOMAIN w : c \in ToSet(w[k].calls)
  BY DEF CallsOf
<1>5. \A c : c \in CallsOf(w) <=> \E i \in places : c \in ToSet(ms[i].calls)
  BY <1>3, <1>4
<1> QED
  BY <1>5 DEF w

\* Of what is picked with every question the turns are the same.
LEMMA TurnPicked ==
  ASSUME NEW ms, ms \in Seq(ToSet(ms)), NEW places, NEW v, NEW e,
         Picks(e, Len(ms), ms, places, v),
         \A i \in 1..Len(ms) : ms[i].kind = "human" => i \in places,
         NEW j \in 1..Len(v), NEW q, LastAsked(v, j, q)
  PROVE  LastAsked(ms, e[j], q)
<1>1. /\ Len(v) \in Nat /\ e \in [1..Len(v) -> places \cap 1..Len(ms)]
      /\ \A k \in 1..Len(v) : v[k] = ms[e[k]]
      /\ \A k, l \in 1..Len(v) : k < l => e[k] < e[l]
      /\ \A i \in places \cap 1..Len(ms) : \E k \in 1..Len(v) : e[k] = i
  BY DEF Picks
<1>2. Len(ms) \in Nat /\ \A k \in 1..Len(v) : e[k] \in 1..Len(ms) /\ k \in Nat
  BY <1>1
<1>3. ASSUME NEW k \in 1..Len(v), NEW l \in 1..Len(v) PROVE e[k] <= e[l] <=> k <= l
  <2>1. k < l => e[k] < e[l]
    BY <1>1
  <2>2. l < k => e[l] < e[k]
    BY <1>1
  <2>3. k \in Nat /\ l \in Nat /\ e[k] \in Nat /\ e[l] \in Nat
    BY <1>2
  <2>4. k = l => e[k] = e[l]
    OBVIOUS
  <2> QED
    BY <2>1, <2>2, <2>3, <2>4
\* A question up to there is one of those picked up to j.
<1>4. ASSUME NEW i \in 1..e[j], ms[i].kind = "human"
      PROVE  \E k \in 1..j : e[k] = i /\ v[k] = ms[i]
  <2>1. i \in 1..Len(ms) /\ i <= e[j]
    BY <1>2
  <2>2. PICK k \in 1..Len(v) : e[k] = i
    BY <1>1, <1>4, <2>1
  <2>3. k <= j
    BY <1>3, <2>1, <2>2
  <2>4. k \in 1..j
    BY <1>2, <2>3
  <2> QED
    BY <1>1, <2>2, <2>4
<1>5. ASSUME \A i \in 1..j : v[i].kind # "human"
      PROVE  \A i \in 1..e[j] : ms[i].kind # "human"
  BY <1>4, <1>5
<1>6. ASSUME NEW h \in 1..j, v[h].kind = "human", v[h].id = q,
             \A i \in (h + 1)..j : v[i].kind # "human"
      PROVE  LastAsked(ms, e[j], q)
  <2>1. h \in 1..Len(v) /\ h <= j
    BY <1>1
  <2>2. e[h] \in 1..e[j] /\ ms[e[h]] = v[h]
    <3>1. e[h] <= e[j] /\ e[h] \in 1..Len(ms) /\ e[j] \in Nat
      BY <1>2, <1>3, <2>1
    <3> QED
      BY <1>1, <2>1, <3>1
  <2>3. ASSUME NEW i \in (e[h] + 1)..e[j], ms[i].kind = "human" PROVE FALSE
    <3>1. i \in 1..e[j] /\ ~(i <= e[h])
      BY <1>2, <2>1
    <3>2. PICK k \in 1..j : e[k] = i /\ v[k] = ms[i]
      BY <1>4, <2>3, <3>1
    <3>3. k \in 1..Len(v) /\ ~(k <= h)
      BY <1>1, <1>3, <2>1, <3>1, <3>2
    <3>4. k \in (h + 1)..j
      BY <2>1, <3>2, <3>3
    <3> QED
      BY <1>6, <2>3, <3>2, <3>4
  <2> QED
    BY <1>6, <2>2, <2>3 DEF LastAsked
<1> QED
  BY <1>5, <1>6, Zenon DEF LastAsked

\* Without foreign calls and their results a replay shows steps of messages that
\* are neither.
LEMMA OwnDraws ==
  ASSUME NEW ms, ms \in Seq(ToSet(ms)), OthersAreCalled(ms)
  PROVE  \A id \in ProcessIds(Replay(DropForeign(ms))) :
           \E i \in 1..Len(ms) : Own(ms, i) /\ id \in Drawn(ms, i)
<1> DEFINE foreign == {i \in DOMAIN ms : IsForeign(ms[i])}
           dropped == CallsOf(Picked(ms, foreign))
           kept == {i \in DOMAIN ms : /\ ~IsForeign(ms[i])
                                      /\ ~(ms[i].kind = "tool" /\ ms[i].id \in dropped)}
           v == Picked(ms, kept)
<1>1. DOMAIN ms = 1..Len(ms) /\ Len(ms) \in Nat
  OBVIOUS
<1>2. v = DropForeign(ms)
  BY DEF DropForeign
<1>3. \A c : c \in dropped <=> \E i \in foreign : c \in ToSet(ms[i].calls)
  <2>1. foreign \subseteq DOMAIN ms
    OBVIOUS
  <2> HIDE DEF foreign
  <2> QED
    BY <2>1, PickedCalls
<1> HIDE DEF dropped
<1>4. PICK e : Picks(e, Len(ms), ms, kept, v)
  BY PickedIs
<1> HIDE DEF v
<1>5. \A i \in 1..Len(ms) : ms[i].kind = "human" => i \in kept
  BY <1>1 DEF OthersAreCalled, IsForeign, ToSet
<1>6. \A i \in kept : Own(ms, i)
  <2> SUFFICES ASSUME NEW i \in kept PROVE Own(ms, i)
    OBVIOUS
  <2>1. i \in 1..Len(ms) /\ ~IsForeign(ms[i]) /\ ~(ms[i].kind = "tool" /\ ms[i].id \in dropped)
    BY <1>1
  <2>2. ASSUME ms[i].kind = "tool", NEW k \in 1..(i - 1), IsForeign(ms[k])
        PROVE  ms[i].id \notin ToSet(ms[k].calls)
    <3>1. k \in foreign
      BY <1>1, <2>1, <2>2
    <3> QED
      BY <1>3, <2>1, <2>2, <3>1
  <2> QED
    BY <2>1, <2>2 DEF Own
<1> HIDE DEF kept
<1>7. /\ Len(v) \in Nat /\ e \in [1..Len(v) -> kept \cap 1..Len(ms)]
      /\ \A k \in 1..Len(v) : v[k] = ms[e[k]]
  BY <1>4 DEF Picks
<1>8. ASSUME NEW id \in ProcessIds(Replay(v))
      PROVE  \E i \in 1..Len(ms) : Own(ms, i) /\ id \in Drawn(ms, i)
  <2>1. PICK j \in 1..Len(v) : id \in Drawn(v, j)
    BY <1>7, <1>8, ReplayIs
  <2>2. PICK i \in kept \cap 1..Len(ms) : i = e[j]
    BY <1>7
  <2>3. LastAsked(v, j, Pass(v)[j].turn)
    <3>1. j \in 0..Len(v)
      BY <1>7
    <3> QED
      BY <1>7, <3>1, TurnIs
  <2>4. LastAsked(ms, i, Pass(v)[j].turn)
    BY <1>4, <1>5, <2>2, <2>3, TurnPicked
  <2>5. i \in 0..Len(ms) /\ i \in Nat
    BY <1>1
  <2>6. LastAsked(ms, i, Pass(ms)[i].turn)
    BY <1>1, <2>5, TurnIs
  <2>7. Pass(v)[j].turn = Pass(ms)[i].turn
    BY <2>4, <2>5, <2>6, LastIsOne
  <2>8. v[j] = ms[i]
    BY <1>7, <2>2
  <2>9. Drawn(v, j) = Drawn(ms, i)
    BY <2>7, <2>8, Zenon DEF Drawn
  <2> QED
    BY <1>6, <2>1, <2>9
<1> QED
  BY <1>2, <1>8

-----------------------------------------------------------------------------
(* How a history goes on                                                   *)

LEMMA NoOne == DOMAIN <<>> = {} /\ ToSet(<<>>) = {}
  BY DEF ToSet

\* The turn of a question is its own.
LEMMA QuestionTurns ==
  ASSUME NEW ms, NEW n \in Nat, n = Len(ms), n # 0, ms[n].kind = "human"
  PROVE  Pass(ms)[n].turn = ms[n].id
<1>1. n \in 1..n
  OBVIOUS
<1>2. Pass(ms)[n] = Replayed(Pass(ms)[n - 1], ms[n])
  BY <1>1, PassIs
<1> QED
  BY <1>2 DEF Replayed, Question

\* Until the next one.
LEMMA TurnGoesOn ==
  ASSUME NEW s, NEW u, Begins(s, u), \A i \in (Len(s) + 1)..Len(u) : u[i].kind # "human"
  PROVE  \A k \in Len(s)..Len(u) : Pass(u)[k].turn = Pass(s)[Len(s)].turn
<1> SUFFICES ASSUME NEW k \in Len(s)..Len(u)
             PROVE  Pass(u)[k].turn = Pass(s)[Len(s)].turn
  OBVIOUS
<1>1. PICK n \in Nat : n = Len(s)
  BY DEF Begins
<1>2. PICK q : q = Pass(s)[n].turn
  OBVIOUS
<1>3. k \in Nat /\ k \in 0..Len(u) /\ n <= k
  BY <1>1 DEF Begins
<1>4. LastAsked(s, n, q)
  <2>1. n \in 0..n
    OBVIOUS
  <2> QED
    BY <1>1, <1>2, <2>1, TurnIs
<1>5. \A i \in 1..k : i \in 1..n \/ u[i].kind # "human"
  BY <1>1, <1>3 DEF Begins
<1>6. \A i \in 1..n : i \in 1..k /\ u[i] = s[i]
  BY <1>1, <1>3 DEF Begins
<1>7. ASSUME q = "none", \A i \in 1..n : s[i].kind # "human"
      PROVE  LastAsked(u, k, q)
  <2>1. \A i \in 1..k : u[i].kind # "human"
    BY <1>5, <1>6, <1>7
  <2> QED
    BY <1>7, <2>1 DEF LastAsked
<1>8. ASSUME NEW h \in 1..n, s[h].kind = "human", s[h].id = q,
             \A i \in (h + 1)..n : s[i].kind # "human"
      PROVE  LastAsked(u, k, q)
  <2>1. \A i \in (h + 1)..k : i \in 1..k /\ (i \in 1..n => i \in (h + 1)..n)
    BY <1>3
  <2>2. \A i \in (h + 1)..k : u[i].kind # "human"
    BY <1>5, <1>6, <1>8, <2>1
  <2> QED
    BY <1>6, <1>8, <2>2 DEF LastAsked
<1>9. LastAsked(u, k, q)
  BY <1>4, <1>7, <1>8, Zenon DEF LastAsked
<1>10. LastAsked(u, k, Pass(u)[k].turn)
  BY <1>3, TurnIs DEF Begins
<1> QED
  BY <1>1, <1>2, <1>3, <1>9, <1>10, LastIsOne

LEMMA AppendBegins ==
  ASSUME NEW ms, ms \in Seq(ToSet(ms)), NEW m, NEW n \in Nat, n = Len(ms)
  PROVE  LET u == Append(ms, m)
         IN  /\ Begins(ms, u) /\ Len(u) = n + 1 /\ u[n + 1] = m
             /\ Pass(u)[n + 1].turn = (IF m.kind = "human" THEN m.id ELSE Pass(ms)[n].turn)
             /\ Drawn(u, n + 1) = Draws(Pass(u)[n + 1].turn, m)
<1> DEFINE u == Append(ms, m)
<1>1. Len(u) = n + 1 /\ u[n + 1] = m /\ \A i \in 1..n : u[i] = ms[i]
  BY AppendedAt
<1> HIDE DEF u
<1>2. Begins(ms, u)
  BY <1>1 DEF Begins
<1>3. n + 1 \in Nat /\ n + 1 # 0 /\ n + 1 \in n..(n + 1) /\ \A i \in (n + 1)..(n + 1) : i = n + 1
  OBVIOUS
<1>4. ASSUME m.kind = "human"
      PROVE  Pass(u)[n + 1].turn = m.id /\ Drawn(u, n + 1) = Draws(Pass(u)[n + 1].turn, m)
  <2>1. Pass(u)[n + 1].turn = m.id
    <3>1. PICK k \in Nat : k = n + 1
      BY <1>3
    <3>2. k = Len(u) /\ k # 0 /\ u[k] = m
      BY <1>1, <1>3, <3>1
    <3>3. Pass(u)[k].turn = u[k].id
      BY <1>4, <3>2, QuestionTurns
    <3> QED
      BY <3>1, <3>2, <3>3
  <2> QED
    BY <1>1, <1>2, <1>4, <2>1 DEF Drawn
<1>5. ASSUME m.kind # "human"
      PROVE  /\ Pass(u)[n + 1].turn = Pass(ms)[n].turn
             /\ Drawn(u, n + 1) = Draws(Pass(u)[n + 1].turn, m)
  <2>1. Pass(u)[n + 1].turn = Pass(ms)[n].turn
    <3>1. \A i \in (Len(ms) + 1)..Len(u) : u[i].kind # "human"
      BY <1>1, <1>3, <1>5
    <3>2. n + 1 \in Len(ms)..Len(u)
      BY <1>1, <1>3
    <3> QED
      BY <1>2, <3>1, <3>2, TurnGoesOn
  <2> QED
    BY <1>1, <1>2, <1>5, <2>1 DEF Drawn
<1> QED
  BY <1>1, <1>2, <1>4, <1>5 DEF u

\* What is answered is kept in a beginning, and by what answers nothing.
LEMMA ToolsBegin ==
  ASSUME NEW s, NEW u, Begins(s, u), ToolsAreCalled(u), ToolsAreSame(u)
  PROVE  ToolsAreCalled(s) /\ ToolsAreSame(s)
<1>1. \A i \in 1..Len(s) : i \in 1..Len(u) /\ u[i] = s[i] /\ \A k \in 1..(i - 1) : u[k] = s[k]
  BY DEF Begins
<1>2. ToolsAreCalled(s)
  <2> SUFFICES ASSUME NEW i \in 1..Len(s), s[i].kind = "tool"
               PROVE  \E k \in 1..(i - 1) : s[i].id \in ToSet(s[k].calls)
    BY DEF ToolsAreCalled
  <2>1. PICK k \in 1..(i - 1) : u[i].id \in ToSet(u[k].calls)
    BY <1>1, Zenon DEF ToolsAreCalled
  <2> QED
    BY <1>1, <2>1
<1>3. ToolsAreSame(s)
  BY <1>1 DEF ToolsAreSame
<1> QED
  BY <1>2, <1>3

LEMMA ToolsGoOn ==
  ASSUME NEW s, NEW u, Begins(s, u), ToolsAreCalled(s), ToolsAreSame(s),
         \A i \in (Len(s) + 1)..Len(u) : u[i].kind # "tool"
  PROVE  ToolsAreCalled(u) /\ ToolsAreSame(u)
<1>1. \A i \in 1..Len(s) : u[i] = s[i] /\ \A k \in 1..(i - 1) : u[k] = s[k]
  BY DEF Begins
<1>2. \A i \in 1..Len(u) : u[i].kind = "tool" => i \in 1..Len(s)
  BY DEF Begins
<1>3. ToolsAreCalled(u)
  BY <1>1, <1>2, Zenon DEF ToolsAreCalled
<1>4. ToolsAreSame(u)
  BY <1>1, <1>2 DEF ToolsAreSame
<1> QED
  BY <1>3, <1>4

\* The results of the calls of the last message.
ResultsOf(ms, of) ==
  [i \in DOMAIN ms[Len(ms)].calls |-> Tool(ms[Len(ms)].calls[i], of[ms[Len(ms)].calls[i]])]

\* A history and what it is when the calls of its last message are answered.
Answers(ms, of, u) ==
  /\ ms \in Seq(ToSet(ms)) /\ ms # <<>> /\ ms[Len(ms)].calls \in Seq(Calls)
  /\ u = ms \o ResultsOf(ms, of)

LEMMA ResultsBegin ==
  ASSUME NEW ms, NEW of, NEW u, Answers(ms, of, u), NEW n, n = Len(ms)
  PROVE  /\ Begins(ms, u)
         /\ \A k \in (n + 1)..Len(u) :
              /\ u[k].kind = "tool" /\ u[k].calls = <<>>
              /\ u[k].id \in ToSet(ms[n].calls) /\ u[k].outcome = of[u[k].id]
              /\ Drawn(u, k) = Draws(Pass(ms)[n].turn, u[k])
         /\ Pass(u)[Len(u)].turn = Pass(ms)[n].turn
<1>0. /\ ms \in Seq(ToSet(ms)) /\ ms # <<>> /\ ms[n].calls \in Seq(Calls)
      /\ u = ms \o ResultsOf(ms, of) /\ n \in Nat
  BY DEF Answers
<1> DEFINE order == ms[n].calls
           t == ResultsOf(ms, of)
<1>1. PICK l \in Nat : l = Len(order) /\ DOMAIN order = 1..l
  BY <1>0
<1>2. \A i \in 1..l : t[i] = Tool(order[i], of[order[i]])
  BY <1>1 DEF ResultsOf
<1>3. t \in [1..l -> ToSet(t)]
  BY <1>1 DEF ResultsOf, ToSet
<1> HIDE DEF t
<1>4. t \in Seq(ToSet(t)) /\ Len(t) = l
  BY <1>1, <1>3
<1>5. \A i \in 1..l : order[i] \in ToSet(order)
  BY <1>1 DEF ToSet
<1> HIDE DEF order
<1>7. \A i \in 1..l : /\ t[i].kind = "tool" /\ t[i].calls = <<>> /\ t[i].id = order[i]
                      /\ t[i].outcome = of[order[i]]
  <2> SUFFICES ASSUME NEW i \in 1..l, NEW c, c = order[i]
               PROVE  /\ t[i].kind = "tool" /\ t[i].calls = <<>> /\ t[i].id = c
                      /\ t[i].outcome = of[c]
    OBVIOUS
  <2>1. t[i] = Tool(c, of[c])
    BY <1>2
  <2> QED
    BY <2>1 DEF Tool, NoMessage
<1>8. /\ Len(u) = n + l
      /\ \A i \in 1..n : u[i] = ms[i]
      /\ \A i \in 1..l : u[n + i] = t[i]
  <2> DEFINE T == ToSet(ms) \cup ToSet(t)
  <2>1. ms \in Seq(T) /\ t \in Seq(T)
    BY <1>0, <1>4
  <2> HIDE DEF T
  <2>2. IsJoined(ms \o t, ms, t, n, l)
    BY <1>0, <1>4, <2>1, JoinAt
  <2>3. IsJoined(u, ms, t, n, l)
    BY <1>0, <2>2 DEF t
  <2> QED
    BY <2>3, Zenon DEF IsJoined
<1>9. Begins(ms, u)
  BY <1>0, <1>8 DEF Begins
<1>10. ASSUME NEW k \in (n + 1)..Len(u)
       PROVE  /\ u[k].kind = "tool" /\ u[k].calls = <<>>
              /\ u[k].id \in ToSet(order) /\ u[k].outcome = of[u[k].id]
  <2>1. k - n \in 1..l /\ n + (k - n) = k
    BY <1>0, <1>8
  <2>2. u[k] = t[k - n]
    BY <1>8, <2>1
  <2> QED
    BY <1>5, <1>7, <2>1, <2>2
<1>11. \A k \in n..Len(u) : Pass(u)[k].turn = Pass(ms)[n].turn
  <2>1. \A k \in (Len(ms) + 1)..Len(u) : u[k].kind # "human"
    BY <1>10
  <2> QED
    BY <1>9, <2>1, TurnGoesOn
<1>12. /\ \A k \in (n + 1)..Len(u) : Drawn(u, k) = Draws(Pass(ms)[n].turn, u[k])
       /\ Pass(u)[Len(u)].turn = Pass(ms)[n].turn
  <2>1. Len(u) \in n..Len(u) /\ \A k \in (n + 1)..Len(u) : k \in n..Len(u)
    BY <1>0, <1>8
  <2> QED
    BY <1>11, <2>1 DEF Drawn
<1> QED
  BY <1>9, <1>10, <1>12 DEF order

\* Every call the results are of has one.
LEMMA ResultsAnswer ==
  ASSUME NEW ms, NEW of, NEW u, Answers(ms, of, u), NEW c \in ToSet(ms[Len(ms)].calls)
  PROVE  \E k \in (Len(ms) + 1)..Len(u) : u[k].id = c
<1>1. PICK order : order = ms[Len(ms)].calls
  OBVIOUS
<1>2. PICK n \in Nat : n = Len(ms)
  BY DEF Answers
<1>3. PICK l \in Nat : l = Len(order) /\ DOMAIN order = 1..l
  BY <1>1 DEF Answers
<1>4. PICK t : t = [i \in 1..l |-> Tool(order[i], of[order[i]])]
  OBVIOUS
<1>5. t \in Seq(ToSet(t)) /\ Len(t) = l
  <2>1. t \in [1..l -> ToSet(t)]
    BY <1>4 DEF ToSet
  <2> QED
    BY <1>4, <2>1
<1>6. Len(u) = n + l /\ \A i \in 1..l : u[n + i] = t[i]
  <2> DEFINE T == ToSet(ms) \cup ToSet(t)
  <2>1. ms \in Seq(T) /\ t \in Seq(T)
    BY <1>5 DEF Answers
  <2>2. u = ms \o t
    BY <1>1, <1>3, <1>4 DEF Answers, ResultsOf
  <2> HIDE DEF T
  <2>3. IsJoined(u, ms, t, n, l)
    BY <1>2, <1>5, <2>1, <2>2, JoinAt
  <2> QED
    BY <2>3 DEF IsJoined
<1>7. PICK i \in 1..l : order[i] = c
  BY <1>1, <1>3 DEF ToSet
<1>8. u[n + i] = Tool(c, of[c]) /\ n + i \in (n + 1)..Len(u)
  BY <1>4, <1>6, <1>7
<1>9. Tool(c, of[c]).id = c
  BY DEF Tool, NoMessage
<1> QED
  BY <1>2, <1>8, <1>9

LEMMA SavesAnswers ==
  ASSUME HistoryTyped, CallsInv, SaveResults
  PROVE  /\ Answers(messages, calls, messages')
         /\ messages # <<>> /\ messages[Len(messages)].calls # <<>>
         /\ DOMAIN calls = ToSet(messages[Len(messages)].calls)
<1>1. messages' = messages \o ResultsOf(messages, calls) /\ pc = "tools"
  BY DEF SaveResults, ResultsOf
<1>2. /\ messages # <<>> /\ messages[Len(messages)].calls # <<>>
      /\ DOMAIN calls = ToSet(messages[Len(messages)].calls)
  BY <1>1 DEF CallsInv, CallsAreOpen
<1>3. messages \in Seq(ToSet(messages)) /\ messages[Len(messages)].calls \in Seq(Calls)
  <2>1. Len(messages) \in DOMAIN messages
    BY <1>2 DEF HistoryTyped
  <2> QED
    BY <2>1 DEF HistoryTyped, ToSet
<1> QED
  BY <1>1, <1>2, <1>3 DEF Answers

-----------------------------------------------------------------------------
(* Calls and their answers                                                 *)

LEMMA Dropping ==
  ASSUME CallsInv, pc' \notin {"saving", "tools"}, DOMAIN calls' = {}, pending' = {},
         snapshot' = snapshot, ToolsAreCalled(messages'), ToolsAreSame(messages')
  PROVE  CallsInv'
  BY DEF CallsInv, CallsAreOpen

LEMMA CallingOn ==
  ASSUME CallsInv, pc \in {"tools", "stopping"}, DOMAIN calls' = DOMAIN calls,
         UNCHANGED <<messages, pc, snapshot>>,
         \A c \in pending' : c \in DOMAIN calls /\ calls'[c] = "running"
  PROVE  CallsInv'
<1>1. ToolsAreCalled(messages)' /\ ToolsAreSame(messages)'
  BY DEF CallsInv
<1> QED
  BY <1>1 DEF CallsInv, CallsAreOpen

LEMMA ModelEndsCalls ==
  ASSUME CallsInv, HistoryTyped, NEW chosen, ModelEnds(chosen)
  PROVE  CallsInv'
<1>1. /\ messages' = messages /\ pc = "model" /\ pc' = "saving" /\ draft' = <<answers', chosen>>
      /\ ToSet(chosen) \subseteq FreshCalls /\ calls' = [c \in ToSet(chosen) |-> "called"]
      /\ pending' = pending /\ snapshot' = snapshot
  BY DEF ModelEnds, tab
<1>2. ToolsAreCalled(messages)' /\ ToolsAreSame(messages)'
  BY <1>1 DEF CallsInv
<1>3. draft'[2] = chosen /\ DOMAIN calls' = ToSet(chosen)
      /\ \A c \in ToSet(chosen) : calls'[c] = "called"
  BY <1>1
<1>4. pending = {}
  BY <1>1 DEF CallsInv, CallsAreOpen
<1>5. ASSUME NEW i \in 1..Len(messages), messages[i].kind = "tool"
      PROVE  messages[i].id \notin ToSet(chosen)
  <2>1. PICK k \in 1..(i - 1) : messages[i].id \in ToSet(messages[k].calls)
    BY <1>5, Zenon DEF CallsInv, ToolsAreCalled
  <2>2. k \in DOMAIN messages
    BY DEF HistoryTyped
  <2>3. messages[i].id \in CallsOf(messages)
    BY <2>1, <2>2 DEF CallsOf
  <2> QED
    BY <1>1, <2>3 DEF FreshCalls
<1>6. ASSUME NEW c \in ToSet(chosen) PROVE StepId(c, 0, "tool") \notin DOMAIN snapshot
  <2>1. StepId(c, 0, "tool")[1] = c
    BY DEF StepId
  <2> QED
    BY <1>1, <2>1 DEF FreshCalls
<1>7. CallsAreOpen'
  BY <1>1, <1>3, <1>4, <1>5, <1>6 DEF CallsAreOpen
<1> QED
  BY <1>2, <1>7 DEF CallsInv

LEMMA SaveAnswerCalls ==
  ASSUME CallsInv, HistoryTyped, SaveAnswer
  PROVE  CallsInv'
<1> DEFINE m == Ai(draft[1], thought, said, draft[2])
<1>1. /\ messages' = Append(messages, m) /\ pc = "saving"
      /\ pc' = (IF draft[2] = <<>> THEN "closing" ELSE "tools")
      /\ calls' = calls /\ pending' = pending /\ snapshot' = snapshot
  BY DEF SaveAnswer, tab
<1>2. m.calls = draft[2] /\ m.kind = "ai"
  BY DEF Ai, NoMessage
<1> HIDE DEF m
<1>3. PICK n \in Nat : n = Len(messages)
  BY DEF HistoryTyped
<1>4. Begins(messages, messages') /\ Len(messages') = n + 1 /\ messages'[n + 1] = m
  BY <1>1, <1>3, AppendBegins DEF HistoryTyped
<1>5. \A i \in (n + 1)..Len(messages') : messages'[i] = m
  BY <1>3, <1>4
<1>6. ToolsAreCalled(messages') /\ ToolsAreSame(messages')
  BY <1>2, <1>3, <1>4, <1>5, ToolsGoOn DEF CallsInv
<1>7. DOMAIN calls = ToSet(draft[2]) /\ \A c \in DOMAIN calls : calls[c] = "called"
  BY <1>1 DEF CallsInv, CallsAreOpen
<1>8. pending = {}
  BY <1>1, <1>7 DEF CallsInv, CallsAreOpen
<1>9. ASSUME NEW i \in 1..Len(messages'), messages'[i].kind = "tool"
      PROVE  messages'[i].id \notin DOMAIN calls
  <2>1. i \in 1..n /\ messages'[i] = messages[i]
    BY <1>2, <1>3, <1>4, <1>9 DEF Begins
  <2> QED
    BY <1>3, <1>9, <2>1 DEF CallsInv, CallsAreOpen
<1>10. messages' # <<>>
  BY <1>1, Appended DEF HistoryTyped
<1>11. pc' = "tools" => draft[2] # <<>>
  BY <1>1
<1>12. pc' # "tools" => DOMAIN calls = {}
  BY <1>1, <1>7, NoOne
<1>13. \A c \in DOMAIN calls : StepId(c, 0, "tool") \notin DOMAIN snapshot
  BY DEF CallsInv, CallsAreOpen
<1>14. pc' \in {"closing", "tools"} /\ messages'[Len(messages')].calls = draft[2]
  BY <1>1, <1>2, <1>4
<1>15. CallsAreOpen'
  BY <1>1, <1>7, <1>8, <1>9, <1>10, <1>11, <1>12, <1>13, <1>14, Zenon DEF CallsAreOpen
<1> QED
  BY <1>6, <1>15, Zenon DEF CallsInv

LEMMA SaveResultsCalls ==
  ASSUME CallsInv, HistoryTyped, SaveResults
  PROVE  CallsInv'
<1>1. /\ messages' = messages \o ResultsOf(messages, calls) /\ pc = "tools" /\ pc' = "model"
      /\ calls' = <<>> /\ pending' = pending /\ snapshot' = snapshot
      /\ \A c \in DOMAIN calls : calls[c] \in Outcomes
  BY DEF SaveResults, unturned, tab, ResultsOf
<1>2. PICK n \in Nat : n = Len(messages)
  BY DEF HistoryTyped
<1>3. /\ messages # <<>> /\ DOMAIN calls = ToSet(messages[n].calls)
      /\ \A i \in 1..n : messages[i].kind = "tool" => messages[i].id \notin DOMAIN calls
  BY <1>1, <1>2 DEF CallsInv, CallsAreOpen
<1>4. messages[n].calls \in Seq(Calls)
  <2>1. n \in DOMAIN messages
    BY <1>2, <1>3 DEF HistoryTyped
  <2> QED
    BY <2>1 DEF HistoryTyped, ToSet
<1>5. /\ Begins(messages, messages')
      /\ \A k \in (n + 1)..Len(messages') :
           /\ messages'[k].kind = "tool" /\ messages'[k].calls = <<>>
           /\ messages'[k].id \in ToSet(messages[n].calls)
           /\ messages'[k].outcome = calls[messages'[k].id]
  <2>1. PICK u : u = messages'
    OBVIOUS
  <2>2. Answers(messages, calls, u)
    BY <2>1, SavesAnswers
  <2>3. /\ Begins(messages, u)
        /\ \A k \in (n + 1)..Len(u) :
             /\ u[k].kind = "tool" /\ u[k].calls = <<>>
             /\ u[k].id \in ToSet(messages[n].calls) /\ u[k].outcome = calls[u[k].id]
    BY <1>2, <2>2, ResultsBegin
  <2> QED
    BY <2>1, <2>3
<1>6. \A i \in 1..Len(messages') : i \in (n + 1)..Len(messages') \/ (i \in 1..n /\ messages'[i] = messages[i])
  BY <1>2, <1>5 DEF Begins
<1>7. ASSUME NEW i \in 1..Len(messages'), messages'[i].kind = "tool"
      PROVE  \E k \in 1..(i - 1) : messages'[i].id \in ToSet(messages'[k].calls)
  <2>1. CASE i \in 1..n /\ messages'[i] = messages[i]
    <3>1. PICK k \in 1..(i - 1) : messages[i].id \in ToSet(messages[k].calls)
      BY <1>2, <1>7, <2>1 DEF CallsInv, ToolsAreCalled
    <3>2. messages'[k] = messages[k]
      BY <1>2, <1>5, <2>1 DEF Begins
    <3> QED
      BY <2>1, <3>1, <3>2
  <2>2. CASE i \in (n + 1)..Len(messages')
    <3>1. n \in 1..(i - 1) /\ messages'[n] = messages[n]
      <4>1. n # 0
        BY <1>2, <1>3 DEF HistoryTyped
      <4> QED
        BY <1>2, <1>5, <2>2, <4>1 DEF Begins
    <3> QED
      BY <1>5, <2>2, <3>1
  <2> QED
    BY <1>6, <2>1, <2>2
<1>8. ASSUME NEW i \in 1..Len(messages'), NEW j \in 1..Len(messages'),
             messages'[i].kind = "tool", messages'[j].kind = "tool", messages'[i].id = messages'[j].id
      PROVE  messages'[i].outcome = messages'[j].outcome
  <2>1. CASE i \in 1..n /\ messages'[i] = messages[i] /\ j \in 1..n /\ messages'[j] = messages[j]
    BY <1>2, <1>8, <2>1 DEF CallsInv, ToolsAreSame
  <2>2. CASE i \in (n + 1)..Len(messages') /\ j \in (n + 1)..Len(messages')
    BY <1>5, <1>8, <2>2
  <2>3. ASSUME NEW k \in 1..n, NEW l \in (n + 1)..Len(messages'), messages[k].kind = "tool"
        PROVE  messages[k].id # messages'[l].id
    BY <1>3, <1>5, <2>3
  <2> QED
    BY <1>6, <1>8, <2>1, <2>2, <2>3
<1>9. ToolsAreCalled(messages')
  BY <1>7 DEF ToolsAreCalled
<1>10. ToolsAreSame(messages')
  BY <1>8 DEF ToolsAreSame
<1>11. pending' = {}
  <2>1. "running" \notin Outcomes
    BY DEF Outcomes
  <2> QED
    BY <1>1, <2>1 DEF CallsInv, CallsAreOpen
<1> QED
  BY <1>1, <1>9, <1>10, <1>11, NoOne, Dropping

LEMMA CallsInvNext ==
  ASSUME CallsInv, RewindInv, [Next]_vars
  PROVE  CallsInv'
<1> USE DEF drawing, attachments, todo, tab, bounds, unturned
<1>1. HistoryTyped
  BY DEF RewindInv
<1>2. ToolsAreCalled(messages) /\ ToolsAreSame(messages)
  BY DEF CallsInv
<1>3. ASSUME UNCHANGED <<messages, pc, calls, pending, draft>>, snapshot' \in {snapshot, <<>>}
      PROVE  CallsInv'
  <2>1. DOMAIN snapshot' \subseteq DOMAIN snapshot
    BY <1>3, NoOne
  <2> QED
    BY <1>3, <2>1 DEF CallsInv, CallsAreOpen
<1>4. ASSUME NEW m, messages' = Append(messages, m), m.kind # "tool"
      PROVE  ToolsAreCalled(messages') /\ ToolsAreSame(messages')
  <2>1. PICK n \in Nat : n = Len(messages)
    BY <1>1 DEF HistoryTyped
  <2>2. Begins(messages, messages') /\ Len(messages') = n + 1 /\ messages'[n + 1] = m
    BY <1>1, <1>4, <2>1, AppendBegins DEF HistoryTyped
  <2>3. \A i \in (Len(messages) + 1)..Len(messages') : messages'[i].kind # "tool"
    BY <1>4, <2>1, <2>2
  <2> QED
    BY <1>2, <2>2, <2>3, ToolsGoOn
<1>5. ASSUME NEW q, NEW names, Ask(q, names) PROVE CallsInv'
  <2>1. Human(q).kind # "tool"
    BY DEF Human, NoMessage
  <2>2. /\ messages' = Append(messages, Human(q)) /\ calls' = <<>> /\ pending' = {}
        /\ pc' = "model" /\ snapshot' = snapshot
    BY <1>5 DEF Ask, BeginsTurn, Dropped
  <2> QED
    BY <1>4, <2>1, <2>2, NoOne, Dropping
<1>6. CASE Remember \/ TurnFails
  <2>1. PICK mark : messages' = Append(messages, Note(answers', mark))
    BY <1>6 DEF Remember, TurnFails
  <2>2. Note(answers', mark).kind # "tool"
    BY DEF Note, NoMessage
  <2>3. calls' = <<>> /\ pending' = {} /\ pc' = "idle" /\ snapshot' = snapshot
    BY <1>6 DEF Remember, TurnFails, Dropped
  <2> QED
    BY <1>4, <2>1, <2>2, <2>3, NoOne, Dropping
<1>7. CASE Refresh \/ TurnEnds
  <2>1. /\ messages' = messages /\ calls' = <<>> /\ pending' = {} /\ pc' \in {"model", "idle"}
        /\ snapshot' = snapshot
    BY <1>7 DEF Refresh, TurnEnds, BeginsTurn, Dropped
  <2> QED
    BY <1>2, <2>1, NoOne, Dropping
<1>8. ASSUME UNCHANGED <<calls, pending, snapshot>>, pc \notin {"saving", "tools", "stopping"},
             pc' \notin {"saving", "tools", "stopping"},
             ToolsAreCalled(messages'), ToolsAreSame(messages')
      PROVE  CallsInv'
  <2>1. DOMAIN calls = {} /\ pending = {}
    BY <1>8 DEF CallsInv, CallsAreOpen
  <2> QED
    BY <1>8, <2>1, Dropping
<1>9. CASE DeleteFails \/ RefreshFails
  BY <1>2, <1>8, <1>9 DEF DeleteFails, RefreshFails
<1>10. ASSUME NEW q, Edit(q) PROVE CallsInv'
  BY <1>2, <1>8, <1>10 DEF Edit
<1>11. CASE Truncate
  <2>1. /\ messages' = Rewound(messages, turn) /\ pc = "rewinding" /\ pc' = "refreshing"
        /\ UNCHANGED <<calls, pending, snapshot>>
    BY <1>11 DEF Truncate
  <2>2. Begins(messages', messages)
    <3>1. IsAsked(messages, turn) /\ messages \in Seq(ToSet(messages))
      BY <2>1 DEF RewindInv, TailIsDoomed, HistoryTyped
    <3>2. PICK at \in 1..Len(messages) : Rewound(messages, turn) = SubSeq(messages, 1, at)
      BY <3>1, RewoundIs
    <3> QED
      BY <2>1, <3>1, <3>2 DEF Begins
  <2>3. ToolsAreCalled(messages') /\ ToolsAreSame(messages')
    BY <1>2, <2>2, ToolsBegin
  <2> QED
    BY <1>8, <2>1, <2>3
<1>12. CASE StopTurn
  <2>1. UNCHANGED <<messages, calls, pending, snapshot>> /\ pc' = "stopping"
    BY <1>12 DEF StopTurn
  <2>2. CallsAreOpen'
    BY <2>1 DEF CallsInv, CallsAreOpen
  <2> QED
    BY <1>2, <2>1, <2>2 DEF CallsInv
<1>13. ASSUME NEW c, Refuse(c) \/ SendsStep(c) \/ NotesStep(c) \/ DrawsChart(c) PROVE CallsInv'
  <2>1. /\ pc = "tools" /\ UNCHANGED <<messages, pc, snapshot>> /\ calls[c] # "running"
        /\ DOMAIN calls' = DOMAIN calls /\ \A d \in DOMAIN calls \ {c} : calls'[d] = calls[d]
    BY <1>13 DEF Refuse, SendsStep, NotesStep, DrawsChart
  <2>2. pending' = pending \/ (pending' = pending \cup {c} /\ c \in DOMAIN calls /\ calls'[c] = "running")
    BY <1>13 DEF Refuse, SendsStep, NotesStep, DrawsChart
  <2>3. \A d \in pending : d \in DOMAIN calls /\ calls[d] = "running"
    BY DEF CallsInv, CallsAreOpen
  <2>4. \A d \in pending' : d \in DOMAIN calls /\ calls'[d] = "running"
    BY <2>1, <2>2, <2>3
  <2> QED
    BY <2>1, <2>4, CallingOn
<1>14. ASSUME NEW c, NEW outcome, ToolEnds(c, outcome) \/ StopPending(c) PROVE CallsInv'
  <2>1. /\ pc \in {"tools", "stopping"} /\ UNCHANGED <<messages, pc, snapshot>>
        /\ pending' = pending \ {c}
        /\ DOMAIN calls' = DOMAIN calls /\ \A d \in DOMAIN calls \ {c} : calls'[d] = calls[d]
    BY <1>14 DEF ToolEnds, StopPending
  <2>2. \A d \in pending : d \in DOMAIN calls /\ calls[d] = "running"
    BY DEF CallsInv, CallsAreOpen
  <2>3. \A d \in pending' : d \in DOMAIN calls /\ calls'[d] = "running"
    BY <2>1, <2>2
  <2> QED
    BY <2>1, <2>3, CallingOn
<1>15. CASE ResumeReads
  <2>1. /\ UNCHANGED <<messages, pc, calls, pending, draft>> /\ snapshot' = Replay(messages)
    BY <1>15 DEF ResumeReads
  <2>2. ASSUME NEW c \in DOMAIN calls, StepId(c, 0, "tool") \in DOMAIN Replay(messages)
        PROVE  FALSE
    <3> DEFINE id == StepId(c, 0, "tool")
    <3>1. id[3] = "tool"
      BY DEF StepId
    <3>2. id \in ProcessIds(Replay(messages))
      BY <2>2, <3>1 DEF ProcessIds, ProcessRoles
    <3>3. PICK i \in 1..Len(messages) : id \in Drawn(messages, i)
      BY <1>1, <3>2, ReplayIs DEF HistoryTyped
    <3>4. messages[i].kind = "tool" /\ messages[i].id = c
      BY <3>3 DEF Drawn, Draws, StepId
    <3> QED
      BY <2>2, <3>4 DEF CallsInv, CallsAreOpen
  <2>3. CallsAreOpen'
    BY <2>1, <2>2 DEF CallsInv, CallsAreOpen
  <2> QED
    BY <1>2, <2>1, <2>3 DEF CallsInv
<1>16. CASE Thinks \/ Says \/ ResumeShows \/ UNCHANGED vars
  BY <1>3, <1>16 DEF Thinks, Says, ResumeShows, vars
<1>17. ASSUME NEW x, NEW y, \/ Upload(x) \/ ChartUploads(x) \/ CreateCommits(x) \/ CreateFails(x)
                            \/ DeleteElement(x) \/ SendFile(x, y)
       PROVE  CallsInv'
  BY <1>3, <1>17 DEF Upload, ChartUploads, CreateCommits, CreateFails, DeleteElement, SendFile
<1> QED
  BY <1>1, <1>5, <1>6, <1>7, <1>9, <1>10, <1>11, <1>12, <1>13, <1>14, <1>15, <1>16, <1>17,
     ModelEndsCalls, SaveAnswerCalls, SaveResultsCalls DEF Next, ToolSteps, ModelSteps

-----------------------------------------------------------------------------
(* The states the tab shows                                                *)

LEMMA ShowsState ==
  ASSUME NEW f, NEW ms, RolesAgree(f), ToolsAgree(ms, f), NEW id, NEW state,
         id[3] \in ProcessRoles \ {"tool"} => state = Usual(id[3]),
         \A i \in 1..Len(ms) : ms[i].kind = "tool" => id # StepId(ms[i].id, 0, "tool")
  PROVE  RolesAgree(Shown(f, id, state)) /\ ToolsAgree(ms, Shown(f, id, state))
<1> DEFINE g == Shown(f, id, state)
<1>1. /\ DOMAIN g = DOMAIN f \cup {id} /\ g[id] = state
      /\ \A x \in DOMAIN f : x # id => g[x] = f[x]
  BY DEF Shown, With
<1> HIDE DEF g
<1>2. RolesAgree(g)
  BY <1>1 DEF RolesAgree
<1>3. ToolsAgree(ms, g)
  BY <1>1 DEF ToolsAgree
<1> QED
  BY <1>2, <1>3 DEF g

\* A step of another role than a call's.
LEMMA ShowsOther ==
  ASSUME NEW f, NEW ms, RolesAgree(f), ToolsAgree(ms, f), NEW key, NEW n, NEW role, role # "tool",
         NEW state, role \in ProcessRoles => state = Usual(role)
  PROVE  /\ RolesAgree(Shown(f, StepId(key, n, role), state))
         /\ ToolsAgree(ms, Shown(f, StepId(key, n, role), state))
<1> DEFINE id == StepId(key, n, role)
<1>1. id[3] = role /\ \A c : id # StepId(c, 0, "tool")
  BY DEF StepId
<1> HIDE DEF id
<1>2. RolesAgree(Shown(f, id, state)) /\ ToolsAgree(ms, Shown(f, id, state))
  BY <1>1, ShowsState
<1> QED
  BY <1>2 DEF id

LEMMA ReplayStates ==
  ASSUME NEW ms, Len(ms) \in Nat, ToolsAreSame(ms)
  PROVE  RolesAgree(Replay(ms)) /\ ToolsAgree(ms, Replay(ms))
<1> DEFINE f == Replay(ms)
<1>1. \A id \in DOMAIN f : id[3] \in ProcessRoles =>
        \E i \in 1..Len(ms) : id \in Drawn(ms, i) /\ f[id] = StateOf(ms[i], id)
  BY ReplayIs DEF ProcessIds
<1> HIDE DEF f
<1>2. RolesAgree(f)
  BY <1>1 DEF RolesAgree, StateOf
<1>3. ASSUME NEW j \in 1..Len(ms), ms[j].kind = "tool", NEW id, id = StepId(ms[j].id, 0, "tool"),
             id \in DOMAIN f
      PROVE  f[id] = ToolState(ms[j].outcome)
  <2>1. id[3] = "tool" /\ id[3] \in ProcessRoles
    BY <1>3 DEF StepId, ProcessRoles
  <2>2. PICK i \in 1..Len(ms) : id \in Drawn(ms, i) /\ f[id] = StateOf(ms[i], id)
    BY <1>1, <1>3, <2>1
  <2>3. ms[i].kind = "tool" /\ ms[i].id = ms[j].id
    BY <1>3, <2>2 DEF Drawn, Draws, StepId
  <2>4. ms[i].outcome = ms[j].outcome
    BY <1>3, <2>3 DEF ToolsAreSame
  <2> QED
    BY <2>1, <2>2, <2>4 DEF StateOf
<1>4. ToolsAgree(ms, f)
  BY <1>3 DEF ToolsAgree
<1> QED
  BY <1>2, <1>4 DEF f

LEMMA AgreeBegins ==
  ASSUME NEW s, NEW u, Begins(s, u), NEW f
  PROVE  /\ ToolsAgree(u, f) => ToolsAgree(s, f)
         /\ ToolsAgree(s, f) /\ (\A i \in (Len(s) + 1)..Len(u) : u[i].kind # "tool") => ToolsAgree(u, f)
<1>1. \A i \in 1..Len(s) : i \in 1..Len(u) /\ u[i] = s[i]
  BY DEF Begins
<1>2. \A i \in 1..Len(u) : i \in 1..Len(s) \/ i \in (Len(s) + 1)..Len(u)
  BY DEF Begins
<1> QED
  BY <1>1, <1>2 DEF ToolsAgree

LEMMA AgreeAppend ==
  ASSUME HistoryTyped, NEW m, m.kind # "tool", messages' = Append(messages, m), NEW f,
         ToolsAgree(messages, f)
  PROVE  ToolsAgree(messages', f)
<1>1. PICK n \in Nat : n = Len(messages)
  BY DEF HistoryTyped
<1>2. PICK u : u = messages'
  OBVIOUS
<1>3. Begins(messages, u) /\ Len(u) = n + 1 /\ u[n + 1] = m
  BY <1>1, <1>2, AppendBegins DEF HistoryTyped
<1>4. \A i \in (Len(messages) + 1)..Len(u) : u[i].kind # "tool"
  BY <1>1, <1>3
<1>5. ToolsAgree(u, f)
  BY <1>3, <1>4, AgreeBegins
<1> QED
  BY <1>2, <1>5

\* The results a node saves are what the tab shows of its calls, if anything.
LEMMA ResultsAgree ==
  ASSUME HistoryTyped, CallsInv, FeedAgrees, SaveResults
  PROVE  ToolsAgree(messages', feed) /\ ToolsAgree(messages', snapshot)
<1>1. /\ messages' = messages \o ResultsOf(messages, calls) /\ pc = "tools"
      /\ \A c \in DOMAIN calls : calls[c] \in Outcomes
  BY DEF SaveResults, ResultsOf
<1>2. PICK n \in Nat : n = Len(messages)
  BY DEF HistoryTyped
<1>3. /\ messages # <<>> /\ DOMAIN calls = ToSet(messages[n].calls)
      /\ \A c \in DOMAIN calls : StepId(c, 0, "tool") \notin DOMAIN snapshot
  BY <1>1, <1>2 DEF CallsInv, CallsAreOpen
<1>4. PICK u : u = messages'
  OBVIOUS
<1>5. Answers(messages, calls, u)
  BY <1>4, SavesAnswers
<1>6. /\ Begins(messages, u)
      /\ \A k \in (n + 1)..Len(u) :
           /\ u[k].kind = "tool"
           /\ u[k].id \in ToSet(messages[n].calls) /\ u[k].outcome = calls[u[k].id]
  BY <1>2, <1>5, ResultsBegin
<1>7. \A i \in 1..Len(u) : i \in (n + 1)..Len(u) \/ (i \in 1..Len(messages) /\ u[i] = messages[i])
  BY <1>2, <1>6 DEF Begins
<1>8. ASSUME NEW k \in (n + 1)..Len(u), NEW id, id = StepId(u[k].id, 0, "tool"), id \in DOMAIN feed
      PROVE  feed[id] = ToolState(u[k].outcome)
  <2>1. PICK c \in DOMAIN calls : c = u[k].id
    BY <1>3, <1>6
  <2>2. calls[c] \in {"text", "error", "chart"}
    BY <1>1 DEF Outcomes
  <2>3. feed[id] = ShownAs(c)
    BY <1>1, <1>8, <2>1 DEF FeedAgrees, CallsAreShown
  <2>4. ShownAs(c) = ToolState(calls[c])
    BY <2>2 DEF ShownAs, ToolState
  <2> QED
    BY <1>6, <2>1, <2>3, <2>4
<1>9. \A k \in (n + 1)..Len(u) : StepId(u[k].id, 0, "tool") \notin DOMAIN snapshot
  BY <1>3, <1>6
<1>10. ToolsAgree(messages, feed) /\ ToolsAgree(messages, snapshot)
  BY DEF FeedAgrees
<1>11. ToolsAgree(u, feed)
  BY <1>7, <1>8, <1>10 DEF ToolsAgree
<1>12. ToolsAgree(u, snapshot)
  BY <1>7, <1>9, <1>10 DEF ToolsAgree
<1> QED
  BY <1>4, <1>11, <1>12

\* What a returning tab is shown agrees as the replay it read.
LEMMA ResumeAgrees ==
  ASSUME CallsInv, FeedAgrees, ResumeShows
  PROVE  RolesAgree(feed') /\ ToolsAgree(messages, feed')
<1>1. RolesAgree(snapshot) /\ ToolsAgree(messages, snapshot)
  BY DEF FeedAgrees
<1>2. feed' = snapshot \/ feed' = Merge(snapshot, ResumeSteps)
  BY DEF ResumeShows
<1> DEFINE live == ResumeSteps
           both == Merge(snapshot, live)
<1>3. \A id \in DOMAIN live : id[3] \in ProcessRoles \ {"tool"} => live[id] = Usual(id[3])
  BY DEF ResumeSteps, StepId, ProcessRoles, Usual
<1>4. \A c : StepId(c, 0, "tool") \in DOMAIN live => c \in pending
  BY DEF ResumeSteps, StepId
<1> HIDE DEF live
<1>5. /\ DOMAIN both = DOMAIN live \cup DOMAIN snapshot
      /\ \A id \in DOMAIN both : both[id] = IF id \in DOMAIN live THEN live[id] ELSE snapshot[id]
  BY DEF Merge
<1> HIDE DEF both
<1>6. RolesAgree(both)
  BY <1>1, <1>3, <1>5 DEF RolesAgree
<1>7. \A i \in 1..Len(messages) :
        messages[i].kind = "tool" => StepId(messages[i].id, 0, "tool") \notin DOMAIN live
  <2>1. \A i \in 1..Len(messages) : messages[i].kind = "tool" => messages[i].id \notin pending
    BY DEF CallsInv, CallsAreOpen
  <2> QED
    BY <1>4, <2>1
<1>8. ToolsAgree(messages, both)
  BY <1>1, <1>5, <1>7 DEF ToolsAgree
<1> QED
  BY <1>1, <1>2, <1>6, <1>8 DEF both, live

LEMMA ToolShowsState ==
  ASSUME CallsInv, NEW f, RolesAgree(f), ToolsAgree(messages, f),
         NEW c \in DOMAIN calls, NEW state
  PROVE  /\ RolesAgree(Shown(f, StepId(c, 0, "tool"), state))
         /\ ToolsAgree(messages, Shown(f, StepId(c, 0, "tool"), state))
<1> DEFINE id == StepId(c, 0, "tool")
<1>1. id[3] = "tool" /\ \A d : id = StepId(d, 0, "tool") => d = c
  BY DEF StepId
<1>2. \A i \in 1..Len(messages) : messages[i].kind = "tool" => messages[i].id # c
  BY DEF CallsInv, CallsAreOpen
<1>3. \A i \in 1..Len(messages) : messages[i].kind = "tool" => id # StepId(messages[i].id, 0, "tool")
  BY <1>1, <1>2
<1> HIDE DEF id
<1>4. RolesAgree(Shown(f, id, state)) /\ ToolsAgree(messages, Shown(f, id, state))
  BY <1>1, <1>3, ShowsState
<1> QED
  BY <1>4 DEF id

LEMMA ModelEndsShown ==
  ASSUME NEW chosen, ModelEnds(chosen)
  PROVE  CallsAreShown'
<1>1. /\ ToSet(chosen) \subseteq FreshCalls /\ DOMAIN calls' = ToSet(chosen)
      /\ DOMAIN feed' \subseteq DOMAIN feed \cup {StepId(answers', 0, "thinking")}
  BY DEF ModelEnds, Put, Shown, With
<1>2. ASSUME NEW c \in DOMAIN calls', StepId(c, 0, "tool") \in DOMAIN feed' PROVE FALSE
  <2>1. StepId(c, 0, "tool") \in DOMAIN feed /\ StepId(c, 0, "tool")[1] = c
    BY <1>1, <1>2 DEF StepId
  <2>2. c \notin FreshCalls
    BY <2>1 DEF FreshCalls
  <2> QED
    BY <1>1, <2>2
<1> QED
  BY <1>2 DEF CallsAreShown

LEMMA CallsAreShownNext ==
  ASSUME CallsAreShown, CallsInv, [Next]_vars
  PROVE  CallsAreShown'
<1> USE DEF drawing, attachments, todo, tab, bounds, unturned
<1>1. ASSUME pc' \notin {"saving", "tools"} PROVE CallsAreShown'
  BY <1>1 DEF CallsAreShown
<1>2. ASSUME UNCHANGED <<feed, calls>>, pc' \in {"saving", "tools"} => pc \in {"saving", "tools"}
      PROVE  CallsAreShown'
  <2>1. \A c : ShownAs(c)' = ShownAs(c)
    BY <1>2 DEF ShownAs
  <2> QED
    BY <1>2, <2>1 DEF CallsAreShown
<1>3. ASSUME NEW c, pc \in {"saving", "tools"}, UNCHANGED pc, DOMAIN calls' = DOMAIN calls,
             \A d \in DOMAIN calls \ {c} : calls'[d] = calls[d],
             \A d \in DOMAIN calls \ {c} : StepId(d, 0, "tool") \in DOMAIN feed' =>
               /\ StepId(d, 0, "tool") \in DOMAIN feed
               /\ feed'[StepId(d, 0, "tool")] = feed[StepId(d, 0, "tool")],
             c \in DOMAIN calls /\ StepId(c, 0, "tool") \in DOMAIN feed' =>
               calls'[c] # "called" /\ feed'[StepId(c, 0, "tool")] = ShownAs(c)'
      PROVE  CallsAreShown'
  <2> SUFFICES ASSUME NEW d \in DOMAIN calls, StepId(d, 0, "tool") \in DOMAIN feed'
               PROVE  calls'[d] # "called" /\ feed'[StepId(d, 0, "tool")] = ShownAs(d)'
    BY <1>3 DEF CallsAreShown
  <2>1. CASE d = c
    BY <1>3, <2>1
  <2>2. CASE d # c
    <3>1. calls'[d] = calls[d] /\ StepId(d, 0, "tool") \in DOMAIN feed
          /\ feed'[StepId(d, 0, "tool")] = feed[StepId(d, 0, "tool")]
      BY <1>3, <2>2
    <3>2. ShownAs(d)' = ShownAs(d)
      BY <3>1 DEF ShownAs
    <3> QED
      BY <1>3, <3>1, <3>2 DEF CallsAreShown
  <2> QED
    BY <2>1, <2>2
<1>4. \A c, d : StepId(c, 0, "tool") = StepId(d, 0, "tool") => c = d
  BY DEF StepId
<1>5. ASSUME NEW c, Refuse(c) PROVE CallsAreShown'
  <2>1. /\ pc = "tools" /\ pc' = pc /\ feed' = feed /\ DOMAIN calls' = DOMAIN calls
        /\ \A d \in DOMAIN calls \ {c} : calls'[d] = calls[d]
        /\ calls[c] = "called"
    BY <1>5 DEF Refuse
  <2>2. c \in DOMAIN calls => StepId(c, 0, "tool") \notin DOMAIN feed
    BY <2>1 DEF CallsAreShown
  <2> QED
    BY <1>3, <2>1, <2>2
<1>6. ASSUME NEW c, SendsStep(c) PROVE CallsAreShown'
  <2>1. /\ pc = "tools" /\ pc' = pc /\ DOMAIN calls' = DOMAIN calls /\ calls'[c] = "sent"
        /\ \A d \in DOMAIN calls \ {c} : calls'[d] = calls[d]
    BY <1>6 DEF SendsStep
  <2>2. /\ feed'[StepId(c, 0, "tool")] = "running"
        /\ \A d : d # c /\ StepId(d, 0, "tool") \in DOMAIN feed' =>
             StepId(d, 0, "tool") \in DOMAIN feed /\ feed'[StepId(d, 0, "tool")] = feed[StepId(d, 0, "tool")]
    BY <1>6 DEF SendsStep, Shown, Process, With, StepId
  <2>3. ShownAs(c)' = "running"
    BY <2>1 DEF ShownAs
  <2> QED
    BY <1>3, <2>1, <2>2, <2>3
<1>7. ASSUME NEW c, NotesStep(c) PROVE CallsAreShown'
  <2>1. /\ pc = "tools" /\ pc' = pc /\ feed' = feed /\ DOMAIN calls' = DOMAIN calls
        /\ \A d \in DOMAIN calls \ {c} : calls'[d] = calls[d]
        /\ calls[c] = "sent" /\ calls'[c] = "running"
    BY <1>7 DEF NotesStep
  <2>2. ShownAs(c)' = ShownAs(c)
    BY <2>1 DEF ShownAs
  <2>3. c \in DOMAIN calls /\ StepId(c, 0, "tool") \in DOMAIN feed => feed[StepId(c, 0, "tool")] = ShownAs(c)
    BY <2>1 DEF CallsAreShown
  <2> QED
    BY <1>3, <2>1, <2>2, <2>3
<1>8. ASSUME NEW c, NEW outcome, ToolEnds(c, outcome) PROVE CallsAreShown'
  <2>1. /\ pc = "tools" /\ pc' = pc /\ DOMAIN calls' = DOMAIN calls
        /\ \A d \in DOMAIN calls \ {c} : calls'[d] = calls[d]
        /\ c \in pending /\ outcome \in MayGive(c)
        /\ Put(StepId(c, 0, "tool"), ToolState(outcome))
    BY <1>8 DEF ToolEnds
  <2>2. c \in DOMAIN calls
    BY <2>1 DEF CallsInv, CallsAreOpen
  <2>3. outcome \in {"chart", "error", "text"}
    BY <2>1 DEF MayGive
  <2>4. calls'[c] = IF outcome = "chart" THEN "drawing" ELSE outcome
    BY <1>8, <2>2 DEF ToolEnds
  <2>5. ShownAs(c)' = ToolState(outcome) /\ calls'[c] # "called"
    BY <2>3, <2>4 DEF ShownAs, ToolState
  <2>6. /\ \A d : d # c /\ StepId(d, 0, "tool") \in DOMAIN feed' =>
             StepId(d, 0, "tool") \in DOMAIN feed /\ feed'[StepId(d, 0, "tool")] = feed[StepId(d, 0, "tool")]
        /\ StepId(c, 0, "tool") \in DOMAIN feed' => feed'[StepId(c, 0, "tool")] = ToolState(outcome)
    BY <1>4, <2>1 DEF Put, Shown, With
  <2> QED
    BY <1>3, <2>1, <2>5, <2>6
<1>9. ASSUME NEW c, DrawsChart(c) PROVE CallsAreShown'
  <2>1. /\ pc = "tools" /\ pc' = pc /\ DOMAIN calls' = DOMAIN calls /\ c \in DOMAIN calls
        /\ \A d \in DOMAIN calls \ {c} : calls'[d] = calls[d]
        /\ calls[c] = "drawing" /\ calls'[c] = "chart"
        /\ Put(StepId(c, 0, "chart"), "drawn")
    BY <1>9 DEF DrawsChart
  <2>2. \A d : StepId(d, 0, "tool") # StepId(c, 0, "chart")
    BY DEF StepId
  <2>3. \A d : StepId(d, 0, "tool") \in DOMAIN feed' =>
          StepId(d, 0, "tool") \in DOMAIN feed /\ feed'[StepId(d, 0, "tool")] = feed[StepId(d, 0, "tool")]
    BY <2>1, <2>2 DEF Put, Shown, With
  <2>4. ShownAs(c) = "done" /\ ShownAs(c)' = "done"
    BY <2>1 DEF ShownAs
  <2>5. StepId(c, 0, "tool") \in DOMAIN feed => feed[StepId(c, 0, "tool")] = ShownAs(c)
    BY <2>1 DEF CallsAreShown
  <2> QED
    BY <1>3, <2>1, <2>3, <2>4, <2>5
<1>10. CASE ResumeShows
  <2>1. pc' = pc /\ calls' = calls /\ (feed' = snapshot \/ feed' = Merge(snapshot, ResumeSteps))
    BY <1>10 DEF ResumeShows
  <2> SUFFICES ASSUME NEW c \in DOMAIN calls, StepId(c, 0, "tool") \in DOMAIN feed'
               PROVE  calls[c] # "called" /\ feed'[StepId(c, 0, "tool")] = ShownAs(c)
    <3>1. \A c : ShownAs(c)' = ShownAs(c)
      BY <2>1 DEF ShownAs
    <3> QED
      BY <2>1, <3>1 DEF CallsAreShown
  <2> DEFINE id == StepId(c, 0, "tool")
             live == ResumeSteps
  <2>2. id \notin DOMAIN snapshot
    BY DEF CallsInv, CallsAreOpen
  <2>3. id \in DOMAIN live => c \in pending /\ live[id] = "running"
    BY DEF ResumeSteps, StepId
  <2> HIDE DEF id, live
  <2>4. feed' = Merge(snapshot, live) /\ id \in DOMAIN live /\ feed'[id] = live[id]
    BY <2>1, <2>2 DEF Merge, id, live
  <2>5. calls[c] = "running"
    BY <2>3, <2>4 DEF CallsInv, CallsAreOpen
  <2>6. ShownAs(c) = "running"
    BY <2>5 DEF ShownAs
  <2> QED
    BY <2>3, <2>4, <2>5, <2>6 DEF id
<1>11. CASE \/ DeleteFails \/ Truncate \/ Refresh \/ RefreshFails \/ StopTurn \/ Remember
            \/ TurnFails \/ Thinks \/ Says \/ SaveResults \/ TurnEnds
  BY <1>1, <1>11 DEF DeleteFails, Truncate, Refresh, RefreshFails, StopTurn, Remember, TurnFails,
     Thinks, Says, SaveResults, TurnEnds, BeginsTurn
<1>12. ASSUME NEW x, NEW y, Ask(x, y) \/ Edit(x) \/ StopPending(x) PROVE CallsAreShown'
  BY <1>1, <1>12 DEF Ask, Edit, StopPending, BeginsTurn
<1>13. CASE SaveAnswer \/ ResumeReads \/ UNCHANGED vars
  BY <1>2, <1>13 DEF SaveAnswer, ResumeReads, vars
<1>14. ASSUME NEW x, NEW y, \/ Upload(x) \/ ChartUploads(x) \/ CreateCommits(x) \/ CreateFails(x)
                            \/ DeleteElement(x) \/ SendFile(x, y)
       PROVE  CallsAreShown'
  BY <1>2, <1>14 DEF Upload, ChartUploads, CreateCommits, CreateFails, DeleteElement, SendFile
<1> QED
  BY <1>5, <1>6, <1>7, <1>8, <1>9, <1>10, <1>11, <1>12, <1>13, <1>14, ModelEndsShown
     DEF Next, ToolSteps, ModelSteps

\* The tab and the thread read for it stay in agreement with the history.
LEMMA FeedAgreesNext ==
  ASSUME FeedAgrees, CallsInv, RewindInv, [Next]_vars
  PROVE  FeedAgrees'
<1> USE DEF drawing, attachments, todo, tab, bounds, unturned
<1> DEFINE Agrees(ms, f) == RolesAgree(f) /\ ToolsAgree(ms, f)
           Fine == Agrees(messages', feed') /\ Agrees(messages', snapshot')
<1>1. HistoryTyped /\ Len(messages) \in Nat
  BY DEF RewindInv, HistoryTyped
<1>2. Agrees(messages, feed) /\ Agrees(messages, snapshot)
  BY DEF FeedAgrees
<1>3. ASSUME NEW f, Agrees(messages, f), NEW key, NEW role \in ProcessRoles \ {"tool"},
             feed' = f \/ feed' = Shown(f, StepId(key, 0, role), Usual(role))
      PROVE  Agrees(messages, feed')
  <2>1. Agrees(messages, Shown(f, StepId(key, 0, role), Usual(role)))
    BY <1>3, ShowsOther
  <2> QED
    BY <1>3, <2>1
<1>4. /\ Usual("process") = "open" /\ Usual("thinking") = "done" /\ Usual("chart") = "drawn"
      /\ Usual("question") = "asked"
      /\ {"process", "thinking", "chart", "question"} = ProcessRoles \ {"tool"}
  BY DEF Usual, ProcessRoles
\* What is said is no step of a process.
<1>5. ASSUME NEW ms, Agrees(ms, feed), NEW key, NEW role \in {"answer", "error"},
             feed' = feed \/ feed' = Shown(feed, StepId(key, 0, role), "said")
      PROVE  Agrees(ms, feed')
  <2>1. role # "tool" /\ role \notin ProcessRoles
    BY DEF ProcessRoles
  <2>2. Agrees(ms, Shown(feed, StepId(key, 0, role), "said"))
    BY <1>5, <2>1, ShowsOther
  <2> QED
    BY <1>5, <2>2
<1>6. ASSUME NEW f, Agrees(messages, f), NEW c \in DOMAIN calls, NEW state,
             feed' = f \/ feed' = Shown(f, StepId(c, 0, "tool"), state)
      PROVE  Agrees(messages, feed')
  <2>1. Agrees(messages, Shown(f, StepId(c, 0, "tool"), state))
    BY <1>6, ToolShowsState
  <2> QED
    BY <1>6, <2>1
<1>7. ASSUME NEW m, m.kind # "tool", messages' = Append(messages, m), NEW f, Agrees(messages, f)
      PROVE  Agrees(messages', f)
  BY <1>1, <1>7, AgreeAppend
<1>8. \A id, state : Put(id, state) => feed' = feed \/ feed' = Shown(feed, id, state)
  BY DEF Put
<1> HIDE DEF Agrees
<1>9. ASSUME NEW q, NEW names, Ask(q, names) PROVE Fine
  <2>1. /\ messages' = Append(messages, Human(q)) /\ snapshot' = snapshot
        /\ feed' = Shown(feed, StepId(q, 0, "question"), "asked")
    BY <1>9 DEF Ask
  <2>2. Human(q).kind # "tool"
    BY DEF Human, NoMessage
  <2>3. Agrees(messages, feed')
    BY <1>2, <1>3, <1>4, <2>1
  <2>4. Agrees(messages', snapshot)
    BY <1>2, <1>7, <2>1, <2>2
  <2>5. Agrees(messages', feed')
    BY <1>7, <2>1, <2>2, <2>3
  <2> QED
    BY <2>1, <2>4, <2>5
<1>10. ASSUME Remember \/ TurnFails PROVE Fine
  <2>1. /\ snapshot' = snapshot
        /\ \E role \in {"answer", "error"} :
             feed' = feed \/ feed' = Shown(feed, StepId(turn, 0, role), "said")
    BY <1>8, <1>10 DEF Remember, TurnFails
  <2>2. PICK mark : messages' = Append(messages, Note(answers', mark))
    BY <1>10 DEF Remember, TurnFails
  <2>3. Note(answers', mark).kind # "tool"
    BY DEF Note, NoMessage
  <2>4. Agrees(messages', feed) /\ Agrees(messages', snapshot)
    BY <1>2, <1>7, <2>2, <2>3
  <2>5. Agrees(messages', feed')
    BY <1>5, <2>1, <2>4
  <2> QED
    BY <2>1, <2>4, <2>5
<1>11. ASSUME SaveAnswer PROVE Fine
  <2> DEFINE m == Ai(draft[1], thought, said, draft[2])
  <2>1. messages' = Append(messages, m) /\ snapshot' = snapshot /\ feed' = feed
    BY <1>11 DEF SaveAnswer
  <2>2. m.kind # "tool"
    BY DEF Ai, NoMessage
  <2> HIDE DEF m
  <2>3. Agrees(messages', feed) /\ Agrees(messages', snapshot)
    BY <1>2, <1>7, <2>1, <2>2
  <2> QED
    BY <2>1, <2>3
<1>12. ASSUME SaveResults PROVE Fine
  <2>1. snapshot' = snapshot /\ feed' = feed
    BY <1>12 DEF SaveResults
  <2> QED
    BY <1>1, <1>2, <1>12, <2>1, ResultsAgree DEF Agrees
<1>13. ASSUME Truncate PROVE Fine
  <2>1. messages' = Rewound(messages, turn) /\ feed' = feed /\ snapshot' = snapshot
    BY <1>13 DEF Truncate
  <2>2. PICK s : s = messages'
    OBVIOUS
  <2>3. Begins(s, messages)
    <3>1. IsAsked(messages, turn) /\ messages \in Seq(ToSet(messages))
      BY <1>13 DEF Truncate, RewindInv, TailIsDoomed, HistoryTyped
    <3>2. PICK at \in 1..Len(messages) : Rewound(messages, turn) = SubSeq(messages, 1, at)
      BY <3>1, RewoundIs
    <3> QED
      BY <2>1, <2>2, <3>1, <3>2 DEF Begins
  <2>4. Agrees(s, feed) /\ Agrees(s, snapshot)
    BY <1>2, <2>3, AgreeBegins DEF Agrees
  <2> QED
    BY <2>1, <2>2, <2>4
<1>14. Agrees(messages, Replay(messages))
  BY <1>1, ReplayStates DEF CallsInv, Agrees
<1>15. ASSUME Refresh PROVE Fine
  <2>1. messages' = messages /\ snapshot' = snapshot /\ feed' = Replay(messages)
    BY <1>15 DEF Refresh, BeginsTurn
  <2> QED
    BY <1>2, <1>14, <2>1
<1>16. ASSUME ResumeReads PROVE Fine
  <2>1. messages' = messages /\ feed' = feed /\ snapshot' = Replay(messages)
    BY <1>16 DEF ResumeReads
  <2> QED
    BY <1>2, <1>14, <2>1
<1>17. ASSUME ResumeShows PROVE Fine
  <2>1. messages' = messages /\ snapshot' = <<>>
    BY <1>17 DEF ResumeShows
  <2>2. Agrees(messages, feed')
    BY <1>17, ResumeAgrees DEF Agrees
  <2>3. Agrees(messages, <<>>)
    BY NoOne DEF Agrees, RolesAgree, ToolsAgree
  <2> QED
    BY <2>1, <2>2, <2>3
<1>18. ASSUME messages' = messages, snapshot' = snapshot, Agrees(messages, feed') PROVE Fine
  BY <1>2, <1>18
<1>19. ASSUME Thinks PROVE Fine
  <2>1. /\ messages' = messages /\ snapshot' = snapshot
        /\ feed' = feed \/ feed' = Shown(feed, StepId(turn, 0, "process"), "open")
    BY <1>8, <1>19 DEF Thinks
  <2> QED
    BY <1>2, <1>3, <1>4, <1>18, <2>1
<1>20. ASSUME Says \/ TurnEnds PROVE Fine
  <2>1. /\ messages' = messages /\ snapshot' = snapshot
        /\ feed' = feed \/ feed' = Shown(feed, StepId(turn, 0, "answer"), "said")
    BY <1>20 DEF Says, TurnEnds
  <2> QED
    BY <1>2, <1>5, <1>18, <2>1
<1>21. ASSUME NEW chosen, ModelEnds(chosen) PROVE Fine
  <2>1. /\ messages' = messages /\ snapshot' = snapshot
        /\ feed' = feed \/ feed' = Shown(feed, StepId(answers', 0, "thinking"), "done")
    BY <1>8, <1>21 DEF ModelEnds
  <2> QED
    BY <1>2, <1>3, <1>4, <1>18, <2>1
<1>22. ASSUME NEW c, SendsStep(c) PROVE Fine
  <2> DEFINE f == IF StepId(turn, 0, "process") \in sent THEN feed ELSE Process(feed, turn)
  <2>1. /\ messages' = messages /\ snapshot' = snapshot /\ c \in DOMAIN calls
        /\ feed' = Shown(f, StepId(c, 0, "tool"), "running")
    BY <1>22 DEF SendsStep
  <2>2. Agrees(messages, f)
    <3>1. Agrees(messages, Shown(feed, StepId(turn, 0, "process"), "open"))
      BY <1>2, <1>4, ShowsOther DEF Agrees
    <3> QED
      BY <1>2, <3>1 DEF Process
  <2> HIDE DEF f
  <2>3. Agrees(messages, feed')
    BY <1>6, <2>1, <2>2
  <2> QED
    BY <1>18, <2>1, <2>3
<1>23. ASSUME NEW c, NEW outcome, ToolEnds(c, outcome) \/ StopPending(c) PROVE Fine
  <2>1. /\ messages' = messages /\ snapshot' = snapshot /\ c \in pending
        /\ \E state : feed' = feed \/ feed' = Shown(feed, StepId(c, 0, "tool"), state)
    BY <1>8, <1>23 DEF ToolEnds, StopPending
  <2>2. c \in DOMAIN calls
    BY <2>1 DEF CallsInv, CallsAreOpen
  <2>3. Agrees(messages, feed')
    BY <1>2, <1>6, <2>1, <2>2
  <2> QED
    BY <1>18, <2>1, <2>3
<1>24. ASSUME NEW c, DrawsChart(c) PROVE Fine
  <2>1. /\ messages' = messages /\ snapshot' = snapshot
        /\ feed' = feed \/ feed' = Shown(feed, StepId(c, 0, "chart"), "drawn")
    BY <1>8, <1>24 DEF DrawsChart
  <2> QED
    BY <1>2, <1>3, <1>4, <1>18, <2>1
<1>25. ASSUME DeleteFails \/ RefreshFails \/ StopTurn \/ UNCHANGED vars PROVE Fine
  <2>1. UNCHANGED <<messages, feed, snapshot>>
    BY <1>25 DEF DeleteFails, RefreshFails, StopTurn, vars
  <2> QED
    BY <1>2, <1>18, <2>1
<1>26. ASSUME NEW x, NEW y, \/ Upload(x) \/ ChartUploads(x) \/ CreateCommits(x) \/ CreateFails(x)
                            \/ DeleteElement(x) \/ SendFile(x, y) \/ Edit(x) \/ Refuse(x) \/ NotesStep(x)
       PROVE  Fine
  <2>1. UNCHANGED <<messages, feed, snapshot>>
    BY <1>26 DEF Upload, ChartUploads, CreateCommits, CreateFails, DeleteElement, SendFile, Edit,
       Refuse, NotesStep
  <2> QED
    BY <1>2, <1>18, <2>1
<1>27. Fine
  BY <1>9, <1>10, <1>11, <1>12, <1>13, <1>15, <1>16, <1>17, <1>19, <1>20, <1>21, <1>22, <1>23,
     <1>24, <1>25, <1>26 DEF Next, ToolSteps, ModelSteps
<1>28. CallsAreShown'
  BY CallsAreShownNext DEF FeedAgrees
<1> QED
  BY <1>27, <1>28 DEF FeedAgrees, Agrees

-----------------------------------------------------------------------------
(* Whose turn it is                                                        *)

LEMMA TurnIsLastNext ==
  ASSUME TurnIsLast, CallsInv, RewindInv, [Next]_vars
  PROVE  TurnIsLast'
<1> USE DEF drawing, attachments, todo, tab, bounds, unturned
<1>1. HistoryTyped /\ Len(messages) \in Nat
  BY DEF RewindInv, HistoryTyped
<1> DEFINE P == {"refreshing", "model", "saving", "tools"}
<1>2. ASSUME pc' \notin P PROVE TurnIsLast'
  BY <1>2 DEF TurnIsLast
<1>3. ASSUME UNCHANGED <<messages, turn>>, pc \in P \/ pc' = pc PROVE TurnIsLast'
  BY <1>3 DEF TurnIsLast
<1>4. ASSUME NEW q, NEW names, Ask(q, names) PROVE TurnIsLast'
  <2>1. messages' = Append(messages, Human(q)) /\ turn' = q
    BY <1>4 DEF Ask, BeginsTurn
  <2>2. PICK n \in Nat : n = Len(messages)
    BY <1>1
  <2>3. PICK u : u = Append(messages, Human(q))
    OBVIOUS
  <2>4. Human(q).kind = "human" /\ Human(q).id = q
    BY DEF Human, NoMessage
  <2>5. Len(u) = n + 1 /\ Pass(u)[n + 1].turn = q
    BY <1>1, <2>2, <2>3, <2>4, AppendBegins DEF HistoryTyped
  <2> QED
    BY <2>1, <2>3, <2>5 DEF TurnIsLast
<1>5. CASE Truncate
  <2>1. messages' = Rewound(messages, turn) /\ turn' = turn
    BY <1>5 DEF Truncate
  <2>2. IsAsked(messages, turn) /\ messages \in Seq(ToSet(messages))
    BY <1>1, <1>5 DEF Truncate, RewindInv, TailIsDoomed, HistoryTyped
  <2>3. PICK at \in 1..Len(messages) :
          /\ messages[at].kind = "human" /\ messages[at].id = turn
          /\ Rewound(messages, turn) = SubSeq(messages, 1, at)
    BY <2>2, RewoundIs
  <2>4. PICK u : u = SubSeq(messages, 1, at)
    OBVIOUS
  <2>5. Len(u) = at /\ u[at] = messages[at] /\ at \in Nat /\ at # 0
    BY <1>1, <2>2, <2>4
  <2>6. Pass(u)[at].turn = turn
    BY <2>3, <2>5, QuestionTurns
  <2> QED
    BY <2>1, <2>3, <2>4, <2>5, <2>6 DEF TurnIsLast
<1>6. CASE SaveAnswer
  <2> DEFINE m == Ai(draft[1], thought, said, draft[2])
  <2>1. messages' = Append(messages, m) /\ turn' = turn /\ pc = "saving"
    BY <1>6 DEF SaveAnswer
  <2>2. m.kind # "human"
    BY DEF Ai, NoMessage
  <2> HIDE DEF m
  <2>3. PICK n \in Nat : n = Len(messages)
    BY <1>1
  <2>4. PICK u : u = Append(messages, m)
    OBVIOUS
  <2>5. Len(u) = n + 1 /\ Pass(u)[n + 1].turn = Pass(messages)[n].turn
    BY <1>1, <2>2, <2>3, <2>4, AppendBegins DEF HistoryTyped
  <2> QED
    BY <2>1, <2>3, <2>4, <2>5 DEF TurnIsLast
<1>7. CASE SaveResults
  <2>1. turn' = turn /\ pc = "tools"
    BY <1>7 DEF SaveResults
  <2>2. PICK n \in Nat : n = Len(messages)
    BY <1>1
  <2>3. PICK u : u = messages'
    OBVIOUS
  <2>4. Answers(messages, calls, u)
    BY <1>1, <1>7, <2>3, SavesAnswers
  <2>5. Pass(u)[Len(u)].turn = Pass(messages)[n].turn
    BY <2>2, <2>4, ResultsBegin
  <2> QED
    BY <2>1, <2>2, <2>3, <2>5 DEF TurnIsLast
<1>8. CASE \/ DeleteFails \/ RefreshFails \/ StopTurn \/ Remember \/ TurnFails \/ TurnEnds
  BY <1>2, <1>8 DEF DeleteFails, RefreshFails, StopTurn, Remember, TurnFails, TurnEnds
<1>9. CASE \/ Refresh \/ Thinks \/ Says \/ ResumeReads \/ ResumeShows \/ UNCHANGED vars
  BY <1>3, <1>9 DEF Refresh, BeginsTurn, Thinks, Says, ResumeReads, ResumeShows, vars
<1>10. ASSUME NEW x, NEW y, ModelEnds(x) \/ Refuse(x) \/ SendsStep(x) \/ NotesStep(x)
                            \/ ToolEnds(x, y) \/ DrawsChart(x) \/ SendFile(x, y)
       PROVE  TurnIsLast'
  BY <1>3, <1>10 DEF ModelEnds, Refuse, SendsStep, NotesStep, ToolEnds, DrawsChart, SendFile
<1>11. ASSUME NEW x, Edit(x) \/ StopPending(x) PROVE TurnIsLast'
  BY <1>2, <1>11 DEF Edit, StopPending
<1>12. ASSUME NEW x, \/ Upload(x) \/ ChartUploads(x) \/ CreateCommits(x) \/ CreateFails(x)
                     \/ DeleteElement(x)
       PROVE  TurnIsLast'
  BY <1>3, <1>12 DEF Upload, ChartUploads, CreateCommits, CreateFails, DeleteElement
<1> QED
  BY <1>4, <1>5, <1>6, <1>7, <1>8, <1>9, <1>10, <1>11, <1>12 DEF Next, ToolSteps, ModelSteps

-----------------------------------------------------------------------------
(* What is sent is saved                                                   *)

\* What a history draws, a longer one does.
LEMMA DrawsGoOn ==
  ASSUME NEW s, NEW u, Begins(s, u), NEW id, NEW i \in 1..Len(s), id \in Drawn(s, i)
  PROVE  \E k \in 1..Len(u) : id \in Drawn(u, k)
<1>1. i \in 1..Len(u)
  BY DEF Begins
<1>2. Drawn(u, i) = Drawn(s, i)
  BY BeginsDraws
<1> QED
  BY <1>1, <1>2

\* The turn whose steps a node's messages draw.
LEMMA AnswerDraws ==
  ASSUME HistoryTyped, TurnIsLast, SaveAnswer
  PROVE  /\ Begins(messages, messages')
         /\ Len(messages') = Len(messages) + 1
         /\ Drawn(messages', Len(messages) + 1) =
              IF thought THEN {StepId(turn, 0, "process"), StepId(draft[1], 0, "thinking")} ELSE {}
<1> DEFINE m == Ai(draft[1], thought, said, draft[2])
<1>1. messages' = Append(messages, m) /\ pc = "saving"
  BY DEF SaveAnswer
<1>2. m.kind = "ai" /\ m.id = draft[1] /\ m.thinks = thought /\ m.mark = "none"
  BY DEF Ai, NoMessage
<1> HIDE DEF m
<1>3. PICK n \in Nat : n = Len(messages)
  BY DEF HistoryTyped
<1>4. PICK u : u = Append(messages, m)
  OBVIOUS
<1>5. /\ Begins(messages, u) /\ Len(u) = n + 1
      /\ Pass(u)[n + 1].turn = Pass(messages)[n].turn
      /\ Drawn(u, n + 1) = Draws(Pass(u)[n + 1].turn, m)
  BY <1>2, <1>3, <1>4, AppendBegins DEF HistoryTyped
<1>6. Pass(messages)[n].turn = turn
  BY <1>1, <1>3 DEF TurnIsLast
<1>7. Draws(turn, m) = IF thought THEN {StepId(turn, 0, "process"), StepId(draft[1], 0, "thinking")} ELSE {}
  BY <1>2 DEF Draws
<1> QED
  BY <1>1, <1>3, <1>4, <1>5, <1>6, <1>7

LEMMA ResultsDraw ==
  ASSUME HistoryTyped, CallsInv, TurnIsLast, SaveResults
  PROVE  /\ Begins(messages, messages')
         /\ messages # <<>> /\ DOMAIN calls = ToSet(messages[Len(messages)].calls) /\ DOMAIN calls # {}
         /\ \A k \in (Len(messages) + 1)..Len(messages') :
              /\ messages'[k].id \in DOMAIN calls
              /\ messages'[k].kind = "tool" /\ messages'[k].outcome = calls[messages'[k].id]
              /\ Drawn(messages', k) = Draws(turn, messages'[k])
         /\ \A c \in DOMAIN calls : \E k \in (Len(messages) + 1)..Len(messages') : messages'[k].id = c
<1>1. PICK u : u = messages'
  OBVIOUS
<1>2. PICK n \in Nat : n = Len(messages)
  BY DEF HistoryTyped
<1>3. /\ Answers(messages, calls, u) /\ messages # <<>> /\ messages[n].calls # <<>>
      /\ DOMAIN calls = ToSet(messages[n].calls)
  BY <1>1, <1>2, SavesAnswers
<1>4. /\ Begins(messages, u)
      /\ \A k \in (n + 1)..Len(u) :
           /\ u[k].kind = "tool"
           /\ u[k].id \in ToSet(messages[n].calls) /\ u[k].outcome = calls[u[k].id]
           /\ Drawn(u, k) = Draws(Pass(messages)[n].turn, u[k])
  BY <1>2, <1>3, ResultsBegin
<1>5. ASSUME NEW c \in DOMAIN calls PROVE \E k \in (n + 1)..Len(u) : u[k].id = c
  <2>1. c \in ToSet(messages[Len(messages)].calls)
    BY <1>2, <1>3
  <2>2. \E k \in (Len(messages) + 1)..Len(u) : u[k].id = c
    BY <1>3, <2>1, ResultsAnswer
  <2> QED
    BY <1>2, <2>2
<1>6. Pass(messages)[n].turn = turn
  BY <1>2 DEF TurnIsLast, SaveResults
<1>7. DOMAIN calls # {}
  <2>1. PICK t : t = messages[n].calls
    OBVIOUS
  <2>2. t \in Seq(Calls) /\ t # <<>>
    BY <1>2, <1>3, <2>1 DEF Answers
  <2>3. 1 \in DOMAIN t
    BY <2>2
  <2> QED
    BY <1>3, <2>1, <2>3 DEF ToSet
<1> QED
  BY <1>1, <1>2, <1>3, <1>4, <1>5, <1>6, <1>7

LEMMA SentIsSavedNext ==
  ASSUME SentIsSaved, CallsInv, TurnIsLast, RewindInv, [Next]_vars
  PROVE  SentIsSaved'
<1> USE DEF drawing, attachments, todo, tab, bounds, unturned
<1> DEFINE Covered == pc \in {"model", "saving", "tools", "closing"}
                        \/ (pc \in {"idle", "rewinding"} /\ ended = "ok")
           Saved(id) == \E i \in 1..Len(messages) : id \in Drawn(messages, i)
           Sent(id) == id \in sent /\ id[3] \in ProcessRoles
<1>1. HistoryTyped
  BY DEF RewindInv
<1>2. Covered => \A id : Sent(id) => Saved(id) \/ id \in Owed
  BY DEF SentIsSaved, SentProcess, InHistory
<1>3. SentIsSaved' <=> (Covered' => \A id : Sent(id)' => Saved(id)' \/ id \in Owed')
  BY DEF SentIsSaved, SentProcess, InHistory
<1>4. ASSUME ~Covered' PROVE SentIsSaved'
  BY <1>3, <1>4
<1>5. ASSUME sent' = {} PROVE SentIsSaved'
  BY <1>3, <1>5
<1>6. ASSUME messages' = messages, Covered' => Covered, sent' \subseteq sent \cup Owed', Owed \subseteq Owed'
      PROVE  SentIsSaved'
  <2>1. \A id : Saved(id)' <=> Saved(id)
    BY <1>6
  <2> QED
    BY <1>2, <1>3, <1>6, <2>1
<1>7. ASSUME Covered, Begins(messages, messages'), sent' = sent, \A id \in Owed : Saved(id)'
      PROVE  SentIsSaved'
  <2> SUFFICES ASSUME NEW id, Sent(id) PROVE Saved(id)'
    BY <1>3, <1>7
  <2>1. CASE id \in Owed
    BY <1>7, <2>1
  <2>2. CASE Saved(id)
    <3>1. PICK u : u = messages'
      OBVIOUS
    <3>2. PICK i \in 1..Len(messages) : id \in Drawn(messages, i)
      BY <2>2
    <3>3. \E k \in 1..Len(u) : id \in Drawn(u, k)
      BY <1>7, <3>1, <3>2, DrawsGoOn
    <3> QED
      BY <3>1, <3>3
  <2> QED
    BY <1>2, <1>7, <2>1, <2>2
<1> HIDE DEF Covered, Saved, Sent
<1>8. CASE SaveAnswer
  <2>1. Covered /\ sent' = sent /\ pc = "saving"
    BY <1>8 DEF SaveAnswer, Covered
  <2>2. /\ Begins(messages, messages') /\ Len(messages') = Len(messages) + 1
        /\ Drawn(messages', Len(messages) + 1) = Owed
    BY <1>1, <1>8, <2>1, AnswerDraws DEF Owed
  <2>3. Len(messages) + 1 \in 1..Len(messages')
    BY <2>2 DEF Begins
  <2>4. \A id \in Owed : Saved(id)'
    BY <2>2, <2>3 DEF Saved
  <2> QED
    BY <1>7, <2>1, <2>2, <2>4
<1>9. CASE SaveResults
  <2>1. Covered /\ sent' = sent /\ pc = "tools"
    BY <1>9 DEF SaveResults, Covered
  <2>2. PICK u : u = messages'
    OBVIOUS
  <2>3. /\ Begins(messages, u) /\ DOMAIN calls # {}
        /\ \A k \in (Len(messages) + 1)..Len(u) :
             /\ u[k].kind = "tool" /\ u[k].outcome = calls[u[k].id]
             /\ Drawn(u, k) = Draws(turn, u[k])
        /\ \A c \in DOMAIN calls : \E k \in (Len(messages) + 1)..Len(u) : u[k].id = c
    BY <1>1, <1>9, <2>2, ResultsDraw
  <2>4. ASSUME NEW c \in DOMAIN calls
        PROVE  \E k \in 1..Len(u) :
                 /\ {StepId(turn, 0, "process"), StepId(c, 0, "tool")} \subseteq Drawn(u, k)
                 /\ calls[c] = "chart" => StepId(c, 0, "chart") \in Drawn(u, k)
    <3>1. PICK k \in (Len(messages) + 1)..Len(u) : u[k].id = c
      BY <2>3
    <3>2. k \in 1..Len(u)
      BY <2>3 DEF Begins
    <3>3. u[k].kind = "tool" /\ u[k].outcome = calls[c] /\ Drawn(u, k) = Draws(turn, u[k])
      BY <2>3, <3>1
    <3> QED
      BY <3>1, <3>2, <3>3 DEF Draws
  <2>5. Owed = {StepId(turn, 0, "process")} \cup {StepId(c, 0, "tool") : c \in DOMAIN calls}
                 \cup {StepId(c, 0, "chart") : c \in {d \in DOMAIN calls : calls[d] = "chart"}}
    BY <2>1 DEF Owed
  <2>6. ASSUME NEW id \in Owed PROVE \E k \in 1..Len(u) : id \in Drawn(u, k)
    <3>1. CASE id = StepId(turn, 0, "process")
      BY <2>3, <2>4, <3>1
    <3>2. ASSUME NEW c \in DOMAIN calls,
                 id = StepId(c, 0, "tool") \/ (calls[c] = "chart" /\ id = StepId(c, 0, "chart"))
          PROVE  \E k \in 1..Len(u) : id \in Drawn(u, k)
      BY <2>4, <3>2
    <3> QED
      BY <2>5, <3>1, <3>2
  <2>7. \A id \in Owed : Saved(id)'
    BY <2>2, <2>6 DEF Saved
  <2> QED
    BY <1>7, <2>1, <2>2, <2>3, <2>7
<1>10. ASSUME NEW x, NEW y, Ask(x, y) \/ Refresh PROVE SentIsSaved'
  BY <1>5, <1>10 DEF Ask, Refresh, BeginsTurn
<1>11. CASE Truncate \/ RefreshFails \/ StopTurn \/ Remember \/ TurnFails
  BY <1>4, <1>11 DEF Truncate, RefreshFails, StopTurn, Remember, TurnFails, Covered
<1>12. ASSUME NEW x, StopPending(x) PROVE SentIsSaved'
  BY <1>4, <1>12 DEF StopPending, Covered
<1>13. \A id, state : Put(id, state) => sent' = sent \cup {id}
  BY DEF Put
<1>14. CASE Thinks
  <2>1. /\ messages' = messages /\ pc = "model" /\ pc' = "model" /\ ~thought /\ thought' = TRUE
        /\ turn' = turn /\ sent' \subseteq sent \cup {StepId(turn, 0, "process")}
    BY <1>13, <1>14 DEF Thinks
  <2>2. Owed = {} /\ Owed' = {StepId(turn, 0, "process")} /\ (Covered' => Covered)
    BY <2>1 DEF Owed, Covered
  <2> QED
    BY <1>6, <2>1, <2>2
<1>15. ASSUME NEW chosen, ModelEnds(chosen) PROVE SentIsSaved'
  <2>1. /\ messages' = messages /\ pc = "model" /\ pc' = "saving" /\ thought' = thought
        /\ turn' = turn /\ draft'[1] = answers'
        /\ sent' = IF thought THEN sent \cup {StepId(answers', 0, "thinking")} ELSE sent
    BY <1>13, <1>15 DEF ModelEnds
  <2>2. /\ Owed = IF thought THEN {StepId(turn, 0, "process")} ELSE {}
        /\ Owed' = IF thought THEN {StepId(turn, 0, "process"), StepId(answers', 0, "thinking")} ELSE {}
        /\ Covered' => Covered
    BY <2>1 DEF Owed, Covered
  <2> QED
    BY <1>6, <2>1, <2>2
\* A step of a tool node.
<1>16. ASSUME NEW c, UNCHANGED <<messages, pc, turn>>, pc = "tools", DOMAIN calls' = DOMAIN calls,
              \A d \in DOMAIN calls : calls[d] = "chart" => calls'[d] = "chart",
              sent' \subseteq sent \cup {StepId(turn, 0, "process"), StepId(c, 0, "tool")}
                         \cup (IF calls'[c] = "chart" THEN {StepId(c, 0, "chart")} ELSE {}),
              c \in DOMAIN calls
       PROVE  SentIsSaved'
  <2>1. /\ Owed = {StepId(turn, 0, "process")} \cup {StepId(d, 0, "tool") : d \in DOMAIN calls}
                    \cup {StepId(d, 0, "chart") : d \in {e \in DOMAIN calls : calls[e] = "chart"}}
        /\ Owed' = {StepId(turn, 0, "process")} \cup {StepId(d, 0, "tool") : d \in DOMAIN calls}
                     \cup {StepId(d, 0, "chart") : d \in {e \in DOMAIN calls : calls'[e] = "chart"}}
        /\ Covered' => Covered
    BY <1>16 DEF Owed, Covered
  <2>2. Owed \subseteq Owed'
    BY <1>16, <2>1
  <2>3. sent' \subseteq sent \cup Owed'
    BY <1>16, <2>1
  <2> QED
    BY <1>6, <1>16, <2>1, <2>2, <2>3
<1>17. ASSUME NEW c, SendsStep(c) PROVE SentIsSaved'
  <2>1. /\ UNCHANGED <<messages, pc, turn>> /\ pc = "tools" /\ c \in DOMAIN calls
        /\ calls[c] = "called" /\ calls' = [calls EXCEPT ![c] = "sent"]
        /\ sent' = sent \cup {StepId(turn, 0, "process"), StepId(c, 0, "tool")}
    BY <1>17 DEF SendsStep
  <2>2. DOMAIN calls' = DOMAIN calls /\ \A d \in DOMAIN calls : calls[d] = "chart" => calls'[d] = "chart"
    BY <2>1
  <2> QED
    BY <1>16, <2>1, <2>2
<1>18. ASSUME NEW c, NEW outcome, ToolEnds(c, outcome) PROVE SentIsSaved'
  <2>1. /\ UNCHANGED <<messages, pc, turn>> /\ pc = "tools" /\ c \in pending
        /\ calls' = [calls EXCEPT ![c] = IF outcome = "chart" THEN "drawing" ELSE outcome]
        /\ sent' = sent \cup {StepId(c, 0, "tool")}
    BY <1>13, <1>18 DEF ToolEnds
  <2>2. c \in DOMAIN calls /\ calls[c] = "running"
    BY <2>1 DEF CallsInv, CallsAreOpen
  <2>3. DOMAIN calls' = DOMAIN calls /\ \A d \in DOMAIN calls : calls[d] = "chart" => calls'[d] = "chart"
    BY <2>1, <2>2
  <2> QED
    BY <1>16, <2>1, <2>2, <2>3
<1>19. ASSUME NEW c, DrawsChart(c) PROVE SentIsSaved'
  <2>1. /\ UNCHANGED <<messages, pc, turn>> /\ pc = "tools" /\ c \in DOMAIN calls
        /\ calls' = [calls EXCEPT ![c] = "chart"]
        /\ sent' = sent \cup {StepId(c, 0, "chart")}
    BY <1>13, <1>19 DEF DrawsChart
  <2>2. /\ DOMAIN calls' = DOMAIN calls /\ calls'[c] = "chart"
        /\ \A d \in DOMAIN calls : calls[d] = "chart" => calls'[d] = "chart"
    BY <2>1
  <2> QED
    BY <1>16, <2>1, <2>2
<1>20. ASSUME NEW c, Refuse(c) \/ NotesStep(c) PROVE SentIsSaved'
  <2>1. /\ UNCHANGED <<messages, pc, turn, sent>> /\ pc = "tools" /\ c \in DOMAIN calls
        /\ calls[c] \in {"called", "sent"} /\ \E state : calls' = [calls EXCEPT ![c] = state]
    BY <1>20 DEF Refuse, NotesStep
  <2>2. DOMAIN calls' = DOMAIN calls /\ \A d \in DOMAIN calls : calls[d] = "chart" => calls'[d] = "chart"
    BY <2>1
  <2> QED
    BY <1>16, <2>1, <2>2
\* What sends nothing.
<1>21. ASSUME UNCHANGED <<messages, pc, turn, sent, thought, draft, calls, ended>> PROVE SentIsSaved'
  <2>1. Owed' = Owed /\ (Covered' <=> Covered)
    BY <1>21 DEF Owed, Covered
  <2> QED
    BY <1>6, <1>21, <2>1
<1>22. CASE Says \/ ResumeReads \/ ResumeShows \/ UNCHANGED vars
  BY <1>21, <1>22 DEF Says, ResumeReads, ResumeShows, vars
<1>23. ASSUME NEW x, NEW y, \/ Upload(x) \/ ChartUploads(x) \/ CreateCommits(x) \/ CreateFails(x)
                            \/ DeleteElement(x) \/ SendFile(x, y)
       PROVE  SentIsSaved'
  BY <1>21, <1>23 DEF Upload, ChartUploads, CreateCommits, CreateFails, DeleteElement, SendFile
<1>24. ASSUME NEW q, DeleteFails \/ Edit(q) \/ TurnEnds PROVE SentIsSaved'
  <2>1. messages' = messages /\ sent' = sent
    BY <1>24 DEF DeleteFails, Edit, TurnEnds
  <2>2. Covered' => Covered
    BY <1>24 DEF DeleteFails, Edit, TurnEnds, Covered
  <2>3. Owed = {}
    BY <1>24 DEF DeleteFails, Edit, TurnEnds, Owed
  <2> QED
    BY <1>6, <2>1, <2>2, <2>3
<1> QED
  BY <1>8, <1>9, <1>10, <1>11, <1>12, <1>14, <1>15, <1>17, <1>18, <1>19, <1>20, <1>22, <1>23,
     <1>24 DEF Next, ToolSteps, ModelSteps

-----------------------------------------------------------------------------
(* What will be saved is sent, and what is sent is shown                   *)

LEMMA DrawnIsSentNext ==
  ASSUME DrawnIsSent, CallsInv, [Next]_vars
  PROVE  DrawnIsSent'
<1> USE DEF drawing, attachments, todo, tab, bounds, unturned
<1> DEFINE P == {"model", "saving", "tools"}
           process == StepId(turn, 0, "process")
           IsSent(c) ==
             /\ calls[c] # "called" => process \in sent /\ StepId(c, 0, "tool") \in sent
             /\ calls[c] = "chart" => StepId(c, 0, "chart") \in sent
<1>1. ASSUME pc' \notin P PROVE DrawnIsSent'
  BY <1>1 DEF DrawnIsSent
<1>2. /\ pc \in P => (opened.container => process \in sent) /\ (thought => opened.container)
      /\ pc = "saving" /\ thought => StepId(draft[1], 0, "thinking") \in sent
      /\ pc = "tools" => \A c \in DOMAIN calls \ ForeignCalls : IsSent(c)
  BY DEF DrawnIsSent
<1>3. ASSUME pc' = "model", opened'.container => process' \in sent', thought' => opened'.container
      PROVE  DrawnIsSent'
  BY <1>3 DEF DrawnIsSent
\* A step of a tool node: the others' calls stay, what was sent is.
<1>4. ASSUME pc = "tools", UNCHANGED <<pc, turn, thought>>, sent \subseteq sent',
             opened'.container => process \in sent' \/ opened.container,
             thought => opened'.container, DOMAIN calls' = DOMAIN calls, NEW c,
             \A d \in DOMAIN calls \ {c} : calls'[d] = calls[d],
             c \in DOMAIN calls \ ForeignCalls => IsSent(c)'
      PROVE  DrawnIsSent'
  <2>1. opened'.container => process \in sent'
    BY <1>2, <1>4
  <2>2. ASSUME NEW d \in DOMAIN calls \ ForeignCalls, d # c PROVE IsSent(d)'
    BY <1>2, <1>4, <2>2
  <2>3. \A d \in DOMAIN calls' \ ForeignCalls : IsSent(d)'
    BY <1>4, <2>2
  <2> QED
    BY <1>4, <2>1, <2>3 DEF DrawnIsSent
<1>5. \A id, state : Put(id, state) => sent' = sent \cup {id}
  BY DEF Put
<1> HIDE DEF IsSent
<1>6. ASSUME NEW x, NEW y, Ask(x, y) \/ Refresh PROVE DrawnIsSent'
  <2>1. pc' = "model" /\ opened' = [container |-> FALSE, answer |-> FALSE] /\ thought' = FALSE
    BY <1>6 DEF Ask, Refresh, BeginsTurn, Dropped
  <2> QED
    BY <1>3, <2>1
<1>7. CASE Thinks
  <2>1. /\ pc = "model" /\ pc' = "model" /\ turn' = turn /\ opened'.container = TRUE
        /\ opened.container \/ sent' = sent \cup {process}
        /\ opened.container => sent' = sent
    <3>1. opened' = [opened EXCEPT !.container = TRUE]
      BY <1>7 DEF Thinks
    <3> QED
      BY <1>5, <1>7, <3>1 DEF Thinks
  <2> QED
    BY <1>2, <1>3, <2>1
<1>8. CASE Says
  <2>1. /\ pc = "model" /\ pc' = "model" /\ turn' = turn /\ thought' = thought
        /\ opened'.container = opened.container /\ sent' = sent
    BY <1>8 DEF Says
  <2> QED
    BY <1>2, <1>3, <2>1
<1>9. ASSUME NEW chosen, ModelEnds(chosen) PROVE DrawnIsSent'
  <2>1. /\ pc = "model" /\ pc' = "saving" /\ UNCHANGED <<turn, thought, opened>>
        /\ draft'[1] = answers' /\ sent \subseteq sent'
        /\ thought => StepId(answers', 0, "thinking") \in sent'
    BY <1>5, <1>9 DEF ModelEnds
  <2> QED
    BY <1>2, <2>1 DEF DrawnIsSent
<1>10. CASE SaveAnswer
  <2>1. /\ pc = "saving" /\ pc' \in {"closing", "tools"} /\ UNCHANGED <<turn, opened, calls, sent>>
        /\ thought' = FALSE
    BY <1>10 DEF SaveAnswer
  <2>2. \A c \in DOMAIN calls : calls[c] = "called"
    BY <2>1 DEF CallsInv, CallsAreOpen
  <2> QED
    BY <1>2, <2>1, <2>2 DEF DrawnIsSent
<1>11. CASE SaveResults
  <2>1. pc = "tools" /\ pc' = "model" /\ UNCHANGED <<turn, opened, sent, thought>>
    BY <1>11 DEF SaveResults
  <2> QED
    BY <1>2, <1>3, <2>1
<1>12. ASSUME NEW c, Refuse(c) PROVE DrawnIsSent'
  <2>1. /\ pc = "tools" /\ UNCHANGED <<pc, turn, thought, sent, opened>> /\ c \in ForeignCalls
        /\ calls' = [calls EXCEPT ![c] = "error"]
    BY <1>12 DEF Refuse
  <2> QED
    BY <1>2, <1>4, <2>1
<1>13. ASSUME NEW c, SendsStep(c) PROVE DrawnIsSent'
  <2>1. /\ pc = "tools" /\ UNCHANGED <<pc, turn, thought>> /\ c \in DOMAIN calls
        /\ calls' = [calls EXCEPT ![c] = "sent"]
        /\ sent' = sent \cup {process, StepId(c, 0, "tool")}
    BY <1>13 DEF SendsStep
  <2>2. thought => opened'.container
    <3>1. opened' = [opened EXCEPT !.container = TRUE]
      BY <1>13 DEF SendsStep
    <3>2. thought => opened.container
      BY <1>2, <2>1
    <3> QED
      BY <3>1, <3>2
  <2>3. IsSent(c)'
    BY <2>1 DEF IsSent
  <2>4. sent \subseteq sent' /\ process \in sent' /\ DOMAIN calls' = DOMAIN calls
        /\ \A d \in DOMAIN calls \ {c} : calls'[d] = calls[d]
    BY <2>1
  <2> QED
    BY <1>4, <2>1, <2>2, <2>3, <2>4
<1>14. ASSUME NEW c, NotesStep(c) PROVE DrawnIsSent'
  <2>1. /\ pc = "tools" /\ UNCHANGED <<pc, turn, thought, sent, opened>> /\ c \in DOMAIN calls
        /\ calls[c] = "sent" /\ calls' = [calls EXCEPT ![c] = "running"]
    BY <1>14 DEF NotesStep
  <2>2. c \notin ForeignCalls => IsSent(c)'
    BY <1>2, <2>1 DEF IsSent
  <2> QED
    BY <1>2, <1>4, <2>1, <2>2
<1>15. ASSUME NEW c, NEW outcome, ToolEnds(c, outcome) PROVE DrawnIsSent'
  <2>1. /\ pc = "tools" /\ UNCHANGED <<pc, turn, thought, opened>> /\ c \in pending
        /\ calls' = [calls EXCEPT ![c] = IF outcome = "chart" THEN "drawing" ELSE outcome]
        /\ sent' = sent \cup {StepId(c, 0, "tool")}
    BY <1>5, <1>15 DEF ToolEnds
  <2>2. c \in DOMAIN calls /\ calls[c] = "running"
    BY <2>1 DEF CallsInv, CallsAreOpen
  <2>3. calls'[c] # "chart"
    BY <2>1, <2>2
  <2>4. c \notin ForeignCalls => IsSent(c)'
    BY <1>2, <2>1, <2>2, <2>3 DEF IsSent
  <2> QED
    BY <1>2, <1>4, <2>1, <2>4
<1>16. ASSUME NEW c, DrawsChart(c) PROVE DrawnIsSent'
  <2>1. /\ pc = "tools" /\ UNCHANGED <<pc, turn, thought, opened>> /\ c \in DOMAIN calls
        /\ calls[c] = "drawing" /\ calls' = [calls EXCEPT ![c] = "chart"]
        /\ sent' = sent \cup {StepId(c, 0, "chart")}
    BY <1>5, <1>16 DEF DrawsChart
  <2>2. c \notin ForeignCalls => IsSent(c)'
    BY <1>2, <2>1 DEF IsSent
  <2> QED
    BY <1>2, <1>4, <2>1, <2>2
<1>17. ASSUME UNCHANGED <<pc, turn, sent, opened, thought, draft, calls>> PROVE DrawnIsSent'
  BY <1>17 DEF DrawnIsSent
<1>18. CASE ResumeReads \/ ResumeShows \/ UNCHANGED vars
  BY <1>17, <1>18 DEF ResumeReads, ResumeShows, vars
<1>19. ASSUME NEW x, NEW y, \/ Upload(x) \/ ChartUploads(x) \/ CreateCommits(x) \/ CreateFails(x)
                            \/ DeleteElement(x) \/ SendFile(x, y)
       PROVE  DrawnIsSent'
  BY <1>17, <1>19 DEF Upload, ChartUploads, CreateCommits, CreateFails, DeleteElement, SendFile
<1>20. ASSUME NEW x, Edit(x) \/ StopPending(x) PROVE DrawnIsSent'
  BY <1>1, <1>20 DEF Edit, StopPending
<1>21. CASE \/ DeleteFails \/ Truncate \/ RefreshFails \/ StopTurn \/ Remember \/ TurnFails \/ TurnEnds
  BY <1>1, <1>21 DEF DeleteFails, Truncate, RefreshFails, StopTurn, Remember, TurnFails, TurnEnds
<1> QED
  BY <1>6, <1>7, <1>8, <1>9, <1>10, <1>11, <1>12, <1>13, <1>14, <1>15, <1>16, <1>18, <1>19,
     <1>20, <1>21 DEF Next, ToolSteps, ModelSteps

\* A history that goes on by messages the tab shows already.
LEMMA TabGoesOn ==
  ASSUME NEW s, NEW u, Begins(s, u), NEW shown,
         \A i \in 1..Len(s) : Own(s, i) => Drawn(s, i) \subseteq shown,
         \A k \in (Len(s) + 1)..Len(u) : Own(u, k) => Drawn(u, k) \subseteq shown
  PROVE  \A i \in 1..Len(u) : Own(u, i) => Drawn(u, i) \subseteq shown
<1>1. \A i \in 1..Len(s) : Drawn(u, i) = Drawn(s, i) /\ Own(u, i) = Own(s, i)
  BY BeginsDraws
<1>2. \A i \in 1..Len(u) : i \in 1..Len(s) \/ i \in (Len(s) + 1)..Len(u)
  BY DEF Begins
<1> QED
  BY <1>1, <1>2

\* An answer the history is given draws what was sent.
LEMMA AnswerIsShown ==
  ASSUME HistoryTyped, TurnIsLast, DrawnIsSent, SaveAnswer, sent \subseteq DOMAIN feed,
         NEW k \in (Len(messages) + 1)..Len(messages')
  PROVE  Drawn(messages', k) \subseteq DOMAIN feed
<1>1. PICK n \in Nat : n = Len(messages)
  BY DEF HistoryTyped
<1>2. k = n + 1
  BY <1>1, AnswerDraws
<1>3. Drawn(messages', k) =
        IF thought THEN {StepId(turn, 0, "process"), StepId(draft[1], 0, "thinking")} ELSE {}
  BY <1>1, <1>2, AnswerDraws
<1>4. thought => StepId(turn, 0, "process") \in sent /\ StepId(draft[1], 0, "thinking") \in sent
  BY DEF DrawnIsSent, SaveAnswer
<1> QED
  BY <1>3, <1>4

\* And so do the results of its own calls.
LEMMA ResultsAreShown ==
  ASSUME HistoryTyped, CallsInv, TurnIsLast, DrawnIsSent, SaveResults, sent \subseteq DOMAIN feed,
         NEW k \in (Len(messages) + 1)..Len(messages'), Own(messages', k)
  PROVE  Drawn(messages', k) \subseteq DOMAIN feed
<1>1. PICK n \in Nat : n = Len(messages)
  BY DEF HistoryTyped
<1>2. PICK u : u = messages'
  OBVIOUS
<1>3. /\ Begins(messages, u) /\ DOMAIN calls = ToSet(messages[n].calls) /\ n # 0
      /\ u[k].id \in DOMAIN calls
      /\ u[k].kind = "tool" /\ u[k].outcome = calls[u[k].id]
      /\ Drawn(u, k) = Draws(turn, u[k])
  <2>1. messages # <<>> => n # 0
    BY <1>1 DEF HistoryTyped
  <2> QED
    BY <1>1, <1>2, <2>1, ResultsDraw
<1>4. PICK c \in DOMAIN calls : c = u[k].id
  BY <1>3
<1>5. n \in 1..(k - 1) /\ u[n] = messages[n]
  BY <1>1, <1>2, <1>3 DEF Begins
<1>6. ~IsForeign(u[n])
  BY <1>2, <1>3, <1>5 DEF Own
<1>7. c \notin ForeignCalls
  BY <1>3, <1>4, <1>5, <1>6 DEF IsForeign
<1>8. calls[c] # "called" /\ pc = "tools"
  BY DEF SaveResults, Outcomes
<1>9. /\ StepId(turn, 0, "process") \in sent /\ StepId(c, 0, "tool") \in sent
      /\ calls[c] = "chart" => StepId(c, 0, "chart") \in sent
  BY <1>7, <1>8 DEF DrawnIsSent
<1>10. Draws(turn, u[k]) \subseteq sent
  BY <1>3, <1>4, <1>9 DEF Draws
<1> QED
  BY <1>2, <1>3, <1>10

LEMMA TabSawItNext ==
  ASSUME TabSawIt, DrawnIsSent, CallsInv, TurnIsLast, RewindInv, [Next]_vars
  PROVE  TabSawIt'
<1> USE DEF drawing, attachments, todo, tab, bounds, unturned
<1> DEFINE Between == {"idle", "rewinding", "refreshing"}
           Seen(ms, shown) == \A i \in 1..Len(ms) : Own(ms, i) => Drawn(ms, i) \subseteq shown
<1>1. HistoryTyped
  BY DEF RewindInv
<1>2. TabSawIt' <=> (~reloaded' => /\ pc' \notin Between => sent' \subseteq DOMAIN feed'
                                   /\ Seen(messages', DOMAIN feed'))
  BY DEF TabSawIt
<1>3. ~reloaded => /\ pc \notin Between => sent \subseteq DOMAIN feed
                   /\ Seen(messages, DOMAIN feed)
  BY DEF TabSawIt
<1>4. \A ms, f, g : Seen(ms, f) /\ f \subseteq g => Seen(ms, g)
  OBVIOUS
<1>5. ASSUME NEW s, NEW u, NEW shown, Begins(s, u)
      PROVE  /\ Seen(u, shown) => Seen(s, shown)
             /\ /\ Seen(s, shown)
                /\ \A k \in (Len(s) + 1)..Len(u) : Own(u, k) => Drawn(u, k) \subseteq shown
                => Seen(u, shown)
  <2>1. \A i \in 1..Len(s) : Drawn(u, i) = Drawn(s, i) /\ Own(u, i) = Own(s, i) /\ i \in 1..Len(u)
    BY <1>5, BeginsDraws DEF Begins
  <2>2. Seen(u, shown) => Seen(s, shown)
    BY <2>1
  <2> QED
    BY <1>5, <2>2, TabGoesOn
<1> HIDE DEF Seen
\* The tab is given more, and what is sent with it.
<1>6. ASSUME reloaded' = reloaded, DOMAIN feed \subseteq DOMAIN feed',
             ~reloaded /\ pc' \notin Between => pc \notin Between /\ sent' \subseteq sent \cup DOMAIN feed'
      PROVE  ~reloaded' => /\ pc' \notin Between => sent' \subseteq DOMAIN feed'
                           /\ Seen(messages, DOMAIN feed')
  BY <1>3, <1>4, <1>6
<1>7. ASSUME reloaded' = reloaded, messages' = messages, DOMAIN feed \subseteq DOMAIN feed',
             ~reloaded /\ pc' \notin Between => pc \notin Between /\ sent' \subseteq sent \cup DOMAIN feed'
      PROVE  TabSawIt'
  BY <1>2, <1>6, <1>7
<1>8. \A f, id, state : DOMAIN Shown(f, id, state) = DOMAIN f \cup {id}
  BY DEF Shown, With
<1>9. \A id, state : Put(id, state) =>
        /\ DOMAIN feed \subseteq DOMAIN feed' /\ sent' \subseteq sent \cup {id}
        /\ sent' \subseteq sent \cup DOMAIN feed'
  <2> SUFFICES ASSUME NEW id, NEW state, Put(id, state)
               PROVE  /\ DOMAIN feed \subseteq DOMAIN feed' /\ sent' \subseteq sent \cup {id}
                      /\ sent' \subseteq sent \cup DOMAIN feed'
    OBVIOUS
  <2>1. sent' = sent \cup {id} /\ ((id \in sent /\ feed' = feed) \/ feed' = Shown(feed, id, state))
    BY DEF Put
  <2>2. DOMAIN Shown(feed, id, state) = DOMAIN feed \cup {id}
    BY <1>8
  <2>3. CASE id \in sent /\ feed' = feed
    BY <2>1, <2>3
  <2>4. CASE feed' = Shown(feed, id, state)
    BY <2>1, <2>2, <2>4
  <2> QED
    BY <2>1, <2>3, <2>4
<1>10. ASSUME NEW m, messages' = Append(messages, m)
       PROVE  /\ Begins(messages, messages') /\ Len(messages') = Len(messages) + 1
              /\ Drawn(messages', Len(messages) + 1) = Draws(Pass(messages')[Len(messages) + 1].turn, m)
  <2>1. PICK n \in Nat : n = Len(messages)
    BY <1>1 DEF HistoryTyped
  <2>2. PICK u : u = Append(messages, m)
    OBVIOUS
  <2>3. /\ Begins(messages, u) /\ Len(u) = n + 1
        /\ Drawn(u, n + 1) = Draws(Pass(u)[n + 1].turn, m)
    BY <1>1, <2>1, <2>2, AppendBegins DEF HistoryTyped
  <2> QED
    BY <1>10, <2>1, <2>2, <2>3
\* One message more, that draws what the tab shows.
<1>11. ASSUME NEW m, messages' = Append(messages, m), reloaded' = reloaded,
              DOMAIN feed \subseteq DOMAIN feed', pc' \notin Between => sent' = {},
              \A q : Draws(q, m) \subseteq DOMAIN feed'
       PROVE  TabSawIt'
  <2>1. PICK n \in Nat : n = Len(messages)
    BY <1>1 DEF HistoryTyped
  <2>2. PICK u : u = messages'
    OBVIOUS
  <2>3. /\ Begins(messages, u) /\ Len(u) = n + 1
        /\ Drawn(u, n + 1) = Draws(Pass(u)[n + 1].turn, m)
    BY <1>10, <1>11, <2>1, <2>2
  <2>4. \A k \in (Len(messages) + 1)..Len(u) : Drawn(u, k) \subseteq DOMAIN feed'
    <3>1. \A k \in (Len(messages) + 1)..Len(u) : k = n + 1
      BY <2>1, <2>3
    <3> QED
      BY <1>11, <2>3, <3>1
  <2>5. ~reloaded => Seen(messages, DOMAIN feed')
    BY <1>3, <1>4, <1>11
  <2>6. ~reloaded => Seen(u, DOMAIN feed')
    BY <1>5, <2>3, <2>4, <2>5
  <2> QED
    BY <1>2, <1>11, <2>2, <2>6
<1>12. ASSUME NEW q, NEW names, Ask(q, names) PROVE TabSawIt'
  <2>1. /\ messages' = Append(messages, Human(q)) /\ reloaded' = reloaded /\ sent' = {}
        /\ DOMAIN feed' = DOMAIN feed \cup {StepId(q, 0, "question")}
    BY <1>8, <1>12 DEF Ask, BeginsTurn
  <2>2. \A t : Draws(t, Human(q)) = {StepId(q, 0, "question")}
    BY DEF Draws, Human, NoMessage
  <2> QED
    BY <1>11, <2>1, <2>2
<1>13. ASSUME Remember \/ TurnFails PROVE TabSawIt'
  <2>1. PICK mark : messages' = Append(messages, Note(answers', mark))
    BY <1>13 DEF Remember, TurnFails
  <2>2. reloaded' = reloaded /\ pc' = "idle" /\ DOMAIN feed \subseteq DOMAIN feed'
    <3>1. \/ \E id, state : feed' = Shown(feed, id, state)
          \/ \E id, state : Put(id, state)
      BY <1>13 DEF Remember, TurnFails
    <3>2. ASSUME \E id, state : feed' = Shown(feed, id, state)
          PROVE  DOMAIN feed \subseteq DOMAIN feed'
      <4>1. PICK id, state : feed' = Shown(feed, id, state)
        BY <3>2
      <4>2. DOMAIN Shown(feed, id, state) = DOMAIN feed \cup {id}
        BY <1>8
      <4> QED
        BY <4>1, <4>2
    <3>3. DOMAIN feed \subseteq DOMAIN feed'
      BY <1>9, <3>1, <3>2
    <3> QED
      BY <1>13, <3>3 DEF Remember, TurnFails
  <2>3. \A t : Draws(t, Note(answers', mark)) = {}
    BY DEF Draws, Note, NoMessage
  <2> QED
    BY <1>11, <2>1, <2>2, <2>3
\* What the graph saves.
<1>14. ASSUME pc \notin Between, Begins(messages, messages'), UNCHANGED <<reloaded, feed, sent>>,
              sent \subseteq DOMAIN feed =>
                \A k \in (Len(messages) + 1)..Len(messages') :
                  Own(messages', k) => Drawn(messages', k) \subseteq DOMAIN feed
       PROVE  TabSawIt'
  <2>1. PICK u : u = messages'
    OBVIOUS
  <2>2. ~reloaded => sent \subseteq DOMAIN feed /\ Seen(messages, DOMAIN feed)
    BY <1>3, <1>14
  <2>3. ~reloaded => Seen(u, DOMAIN feed)
    BY <1>5, <1>14, <2>1, <2>2
  <2> QED
    BY <1>2, <1>14, <2>1, <2>2, <2>3
<1>15. CASE SaveAnswer
  <2>1. pc \notin Between /\ UNCHANGED <<reloaded, feed, sent>>
    BY <1>15 DEF SaveAnswer
  <2>2. Begins(messages, messages')
    BY <1>1, <1>15, AnswerDraws
  <2>3. sent \subseteq DOMAIN feed =>
          \A k \in (Len(messages) + 1)..Len(messages') : Drawn(messages', k) \subseteq DOMAIN feed
    BY <1>1, <1>15, AnswerIsShown
  <2> QED
    BY <1>14, <2>1, <2>2, <2>3
<1>16. CASE SaveResults
  <2>1. pc \notin Between /\ UNCHANGED <<reloaded, feed, sent>>
    BY <1>16 DEF SaveResults
  <2>2. Begins(messages, messages')
    BY <1>1, <1>16, ResultsDraw
  <2>3. sent \subseteq DOMAIN feed =>
          \A k \in (Len(messages) + 1)..Len(messages') :
            Own(messages', k) => Drawn(messages', k) \subseteq DOMAIN feed
    BY <1>1, <1>16, ResultsAreShown
  <2> QED
    BY <1>14, <2>1, <2>2, <2>3
<1>17. CASE Truncate
  <2>1. /\ messages' = Rewound(messages, turn) /\ pc' \in Between
        /\ UNCHANGED <<reloaded, feed>>
    BY <1>17 DEF Truncate
  <2>2. IsAsked(messages, turn) /\ messages \in Seq(ToSet(messages))
    BY <1>1, <1>17 DEF Truncate, RewindInv, TailIsDoomed, HistoryTyped
  <2>3. PICK at \in 1..Len(messages) : Rewound(messages, turn) = SubSeq(messages, 1, at)
    BY <2>2, RewoundIs
  <2>4. PICK u : u = SubSeq(messages, 1, at)
    OBVIOUS
  <2>5. Begins(u, messages)
    BY <1>1, <2>2, <2>4 DEF Begins
  <2>6. ~reloaded => Seen(u, DOMAIN feed)
    BY <1>3, <1>5, <2>5
  <2> QED
    BY <1>2, <2>1, <2>3, <2>4, <2>6
\* A replay has everything the history draws.
<1>18. Seen(messages, DOMAIN Replay(messages))
  BY <1>1, ReplayIs DEF Seen, HistoryTyped
<1>19. CASE Refresh
  <2>1. messages' = messages /\ feed' = Replay(messages) /\ sent' = {}
    BY <1>19 DEF Refresh, BeginsTurn
  <2> QED
    BY <1>2, <1>18, <2>1
<1>20. CASE ResumeShows
  <2>1. /\ messages' = messages /\ pc' = pc
        /\ reloaded' = (pc # "idle" \/ snapshot # Replay(messages))
        /\ feed' = IF TurnIsActive THEN Merge(snapshot, ResumeSteps) ELSE snapshot
    BY <1>20 DEF ResumeShows
  <2>2. ~reloaded' => pc' = "idle" /\ feed' = Replay(messages)
    BY <2>1 DEF TurnIsActive, Running
  <2> QED
    BY <1>2, <1>18, <2>1, <2>2
<1>21. CASE Thinks
  <2>1. /\ reloaded' = reloaded /\ messages' = messages /\ pc = "model"
        /\ DOMAIN feed \subseteq DOMAIN feed' /\ sent' \subseteq sent \cup DOMAIN feed'
    BY <1>9, <1>21 DEF Thinks
  <2> QED
    BY <1>7, <2>1
<1>22. ASSUME Says \/ TurnEnds PROVE TabSawIt'
  <2>1. /\ reloaded' = reloaded /\ messages' = messages /\ sent' = sent /\ pc \notin Between
        /\ feed' = feed \/ \E id, state : feed' = Shown(feed, id, state)
    BY <1>22 DEF Says, TurnEnds
  <2>2. DOMAIN feed \subseteq DOMAIN feed'
    <3>1. CASE feed' = feed
      BY <3>1
    <3>2. CASE feed' # feed
      <4>1. PICK id, state : feed' = Shown(feed, id, state)
        BY <2>1, <3>2
      <4>2. DOMAIN Shown(feed, id, state) = DOMAIN feed \cup {id}
        BY <1>8
      <4> QED
        BY <4>1, <4>2
    <3> QED
      BY <3>1, <3>2
  <2> QED
    BY <1>7, <2>1, <2>2
<1>23. ASSUME NEW chosen, ModelEnds(chosen) PROVE TabSawIt'
  <2>1. /\ reloaded' = reloaded /\ messages' = messages /\ pc = "model"
        /\ DOMAIN feed \subseteq DOMAIN feed' /\ sent' \subseteq sent \cup DOMAIN feed'
    BY <1>9, <1>23 DEF ModelEnds
  <2> QED
    BY <1>7, <2>1
<1>24. ASSUME NEW c, SendsStep(c) PROVE TabSawIt'
  <2>1. /\ reloaded' = reloaded /\ messages' = messages /\ pc = "tools"
        /\ sent' = sent \cup {StepId(turn, 0, "process"), StepId(c, 0, "tool")}
    BY <1>24 DEF SendsStep
  <2>2. PICK f : /\ f = IF StepId(turn, 0, "process") \in sent THEN feed ELSE Process(feed, turn)
                 /\ feed' = Shown(f, StepId(c, 0, "tool"), "running")
    BY <1>24 DEF SendsStep
  <2>3. DOMAIN feed' = DOMAIN f \cup {StepId(c, 0, "tool")}
    BY <1>8, <2>2
  <2>4. DOMAIN Process(feed, turn) = DOMAIN feed \cup {StepId(turn, 0, "process")}
    BY <1>8 DEF Process
  <2>5. DOMAIN feed \subseteq DOMAIN f /\ (StepId(turn, 0, "process") \in sent \cup DOMAIN f)
    BY <2>2, <2>4
  <2>6. DOMAIN feed \subseteq DOMAIN feed' /\ sent' \subseteq sent \cup DOMAIN feed'
    BY <2>1, <2>3, <2>5
  <2> QED
    BY <1>7, <2>1, <2>6
<1>25. ASSUME NEW c, NEW outcome, ToolEnds(c, outcome) \/ DrawsChart(c) \/ StopPending(c) PROVE TabSawIt'
  <2>1. /\ reloaded' = reloaded /\ messages' = messages /\ pc \notin Between
        /\ \E id, state : Put(id, state)
    BY <1>25 DEF ToolEnds, DrawsChart, StopPending
  <2> QED
    BY <1>7, <1>9, <2>1
<1>26. ASSUME UNCHANGED <<reloaded, messages, feed, sent>>, pc' \notin Between => pc \notin Between
       PROVE  TabSawIt'
  BY <1>7, <1>26
<1>27. ASSUME NEW x, DeleteFails \/ Edit(x) \/ RefreshFails \/ StopTurn \/ ResumeReads \/ UNCHANGED vars
       PROVE  TabSawIt'
  BY <1>26, <1>27 DEF DeleteFails, Edit, RefreshFails, StopTurn, Running, ResumeReads, vars
<1>28. ASSUME NEW x, NEW y, \/ Upload(x) \/ ChartUploads(x) \/ CreateCommits(x) \/ CreateFails(x)
                            \/ DeleteElement(x) \/ SendFile(x, y) \/ Refuse(x) \/ NotesStep(x)
       PROVE  TabSawIt'
  BY <1>26, <1>28 DEF Upload, ChartUploads, CreateCommits, CreateFails, DeleteElement, SendFile,
     Refuse, NotesStep
<1> QED
  BY <1>12, <1>13, <1>15, <1>16, <1>17, <1>19, <1>20, <1>21, <1>22, <1>23, <1>24, <1>25, <1>27,
     <1>28 DEF Next, ToolSteps, ModelSteps

-----------------------------------------------------------------------------
(* The tab, the history and its replay                                     *)

LEMMA ReplayInvInit == Init => ReplayInv
<1> SUFFICES ASSUME Init PROVE ReplayInv
  OBVIOUS
<1>1. /\ messages = <<>> /\ feed = <<>> /\ snapshot = <<>> /\ calls = <<>> /\ pending = {}
      /\ pc = "idle" /\ sent = {} /\ Len(messages) = 0
  BY DEF Init
<1>2. CallsInv
  BY <1>1, NoOne DEF CallsInv, ToolsAreCalled, ToolsAreSame, CallsAreOpen
<1>3. FeedAgrees
  BY <1>1, NoOne DEF FeedAgrees, RolesAgree, ToolsAgree, CallsAreShown
<1>4. TurnIsLast /\ DrawnIsSent
  BY <1>1 DEF TurnIsLast, DrawnIsSent
<1>5. SentIsSaved
  BY <1>1 DEF SentIsSaved, SentProcess
<1>6. TabSawIt
  BY <1>1 DEF TabSawIt
<1> QED
  BY <1>2, <1>3, <1>4, <1>5, <1>6 DEF ReplayInv

LEMMA ReplayInvNext ==
  ASSUME ReplayInv, RewindInv, [Next]_vars
  PROVE  ReplayInv'
<1>1. CallsInv'
  BY CallsInvNext DEF ReplayInv
<1>2. FeedAgrees'
  BY FeedAgreesNext DEF ReplayInv
<1>3. TurnIsLast'
  BY TurnIsLastNext DEF ReplayInv
<1>4. SentIsSaved'
  BY SentIsSavedNext DEF ReplayInv
<1>5. DrawnIsSent'
  BY DrawnIsSentNext DEF ReplayInv
<1>6. TabSawIt'
  BY TabSawItNext DEF ReplayInv
<1> QED
  BY <1>1, <1>2, <1>3, <1>4, <1>5, <1>6 DEF ReplayInv

LEMMA AgreesAtRest ==
  ASSUME ReplayInv, RewindInv, SeenInv
  PROVE  ReplayAgrees
<1> SUFFICES ASSUME AtRest
             PROVE  /\ \A id \in ProcessIds(feed) \cap DOMAIN Replay(messages) :
                         feed[id] = Replay(messages)[id]
                    /\ ended = "ok" =>
                         {id \in sent : id[3] \in ProcessRoles} \subseteq DOMAIN Replay(messages)
                    /\ ~reloaded => ProcessIds(Replay(DropForeign(messages))) \subseteq DOMAIN feed
  BY DEF ReplayAgrees
<1>1. pc = "idle" /\ messages \in Seq(ToSet(messages)) /\ Len(messages) \in Nat
  BY DEF AtRest, RewindInv, HistoryTyped
<1>2. /\ \A i \in 1..Len(messages) : Drawn(messages, i) \subseteq DOMAIN Replay(messages)
      /\ \A id \in ProcessIds(Replay(messages)) :
           \E i \in 1..Len(messages) : id \in Drawn(messages, i)
                                      /\ Replay(messages)[id] = StateOf(messages[i], id)
  BY <1>1, ReplayIs
<1> DEFINE replayed == Replay(messages)
<1> HIDE DEF replayed
<1>3. ASSUME NEW id \in ProcessIds(feed), id \in DOMAIN replayed PROVE feed[id] = replayed[id]
  <2>1. RolesAgree(feed) /\ ToolsAgree(messages, feed)
    BY DEF ReplayInv, FeedAgrees
  <2>2. id \in DOMAIN feed /\ id[3] \in ProcessRoles /\ id \in ProcessIds(replayed)
    BY <1>3 DEF ProcessIds
  <2>3. PICK i \in 1..Len(messages) :
          id \in Drawn(messages, i) /\ replayed[id] = StateOf(messages[i], id)
    BY <1>2, <2>2 DEF replayed
  <2>4. CASE id[3] # "tool"
    BY <2>1, <2>2, <2>3, <2>4 DEF RolesAgree, StateOf
  <2>5. CASE id[3] = "tool"
    <3>1. messages[i].kind = "tool" /\ id = StepId(messages[i].id, 0, "tool")
      BY <2>3, <2>5 DEF Drawn, Draws, StepId
    <3>2. feed[id] = ToolState(messages[i].outcome)
      BY <2>1, <2>2, <3>1 DEF ToolsAgree
    <3> QED
      BY <2>3, <2>5, <3>2 DEF StateOf
  <2> QED
    BY <2>4, <2>5
<1>4. ASSUME ended = "ok", NEW id \in sent, id[3] \in ProcessRoles PROVE id \in DOMAIN replayed
  <2>1. Owed = {}
    BY <1>1 DEF Owed
  <2>2. InHistory(id)
    BY <1>1, <1>4, <2>1 DEF ReplayInv, SentIsSaved, SentProcess
  <2> QED
    BY <1>2, <2>2 DEF InHistory, replayed
<1>5. ASSUME ~reloaded, NEW id \in ProcessIds(Replay(DropForeign(messages))) PROVE id \in DOMAIN feed
  <2>1. OthersAreCalled(messages)
    BY DEF SeenInv, CallsAreOnce
  <2>2. PICK i \in 1..Len(messages) : Own(messages, i) /\ id \in Drawn(messages, i)
    BY <1>1, <1>5, <2>1, OwnDraws
  <2> QED
    BY <1>5, <2>2 DEF ReplayInv, TabSawIt
<1> QED
  BY <1>3, <1>4, <1>5 DEF replayed

\* The contract of ChatView's ids with ConversationTranscript's: after any turns,
\* edits, stops, failures and tabs that came back, a step of a process the tab of a
\* thread at rest shows is as its replay has it, a turn that ended drew nothing the
\* history does not replay, and a tab that saw the turns has every step of theirs.
\* The two draw by their own rules: what holds between them is that all a turn has
\* sent is in the history or owed to it by the node under way, and that all the
\* history draws of the session's own calls was sent.
THEOREM ReplaysAgree == Spec => []ReplayAgrees
<1>1. Init => RewindInv /\ SeenInv /\ ReplayInv
  BY HistoryInit, SeenInvInit, ReplayInvInit
<1>2. RewindInv /\ SeenInv /\ ReplayInv /\ [Next]_vars => RewindInv' /\ SeenInv' /\ ReplayInv'
  BY HistoryNext, TailNext, SeenNext, ReplayInvNext DEF RewindInv
<1>3. RewindInv /\ SeenInv /\ ReplayInv => ReplayAgrees
  BY AgreesAtRest
<1> QED
  BY <1>1, <1>2, <1>3, PTL DEF Spec

-----------------------------------------------------------------------------
(* An upload                                                               *)

\* What the parser calls back with, and the part it makes of it.
Header == FileNames \cup {"none"}
Datum == Nat \X Nat
Callback ==
  [on : {"headers"}, of : Nat, name : Header] \cup [on : {"data"}, of : Nat, piece : Nat]
    \cup [on : {"end"}, of : Nat]
Part ==
  [filename : Header, type : Header, found : BOOLEAN, done : BOOLEAN, eof : BOOLEAN,
   pending : Seq(Datum)]

\* The parts of a body come one after the other, each from its headers to its end.
InParts(b) ==
  \A c \in DOMAIN b : \A a \in 1..(c - 1) :
    /\ b[a].of <= b[c].of
    /\ b[a].of = b[c].of => b[a].on # "end" /\ b[c].on # "headers"
    /\ b[a].of < b[c].of => \E e \in a..(c - 1) : b[e].on = "end"

IsBody(b) == b \in Seq(Callback) /\ InParts(b)

-----------------------------------------------------------------------------
(* Computations over a sequence                                            *)

\* The part after the first callbacks.
LEMMA CalledIsPart ==
  ASSUME NEW p \in Part, NEW c \in Callback
  PROVE  Called(p, c) \in Part
<1>1. CASE c.on = "headers"
  <2>1. c.name \in Header
    BY <1>1 DEF Callback
  <2>2. Called(p, c) = OnHeadersFinished(p, c.name)
    BY <1>1 DEF Called
  <2> QED
    BY <2>1, <2>2 DEF OnHeadersFinished, Part
<1>2. CASE c.on = "data"
  <2>1. <<c.of, c.piece>> \in Datum
    BY <1>2 DEF Callback, Datum
  <2>2. Called(p, c) = OnPartData(p, <<c.of, c.piece>>)
    BY <1>2 DEF Called
  <2>3. PICK d \in Datum : d = <<c.of, c.piece>>
    BY <2>1
  <2>4. Append(p.pending, d) \in Seq(Datum)
    BY DEF Part
  <2> QED
    BY <2>2, <2>3, <2>4 DEF OnPartData, Part
<1>3. CASE c.on = "end"
  <2>1. Called(p, c) = OnPartEnd(p)
    BY <1>3 DEF Called
  <2> QED
    BY <2>1 DEF OnPartEnd, Part
<1> QED
  BY <1>1, <1>2, <1>3 DEF Callback

LEMMA ParsedIs ==
  ASSUME NEW p \in Part, NEW s \in Seq(Callback)
  PROVE  /\ Parsed(p, s) \in [0..Len(s) -> Part] /\ Parsed(p, s)[0] = p
         /\ \A n \in 1..Len(s) : Parsed(p, s)[n] = Called(Parsed(p, s)[n - 1], s[n])
<1> DEFINE F == [n \in 1..Len(s) |-> [q \in Part |-> Called(q, s[n])]]
           IsParsed(g) == g = [n \in 0..Len(s) |-> IF n = 0 THEN p ELSE Called(g[n - 1], s[n])]
<1>1. Len(s) \in Nat /\ \A n \in 1..Len(s) : s[n] \in Callback
  OBVIOUS
<1>2. F \in [1..Len(s) -> [Part -> Part]]
  BY <1>1, CalledIsPart
<1>3. PICK g : Computes(g, Len(s), Part, p, F)
  <2> HIDE DEF F
  <2> QED
    BY <1>1, <1>2, Computable
<1>4. IsParsed(g)
  <2>1. \A n \in 1..Len(s) : g[n - 1] \in Part
    BY <1>1, <1>3 DEF Computes
  <2>2. \A n \in 1..Len(s) : g[n] = Called(g[n - 1], s[n])
    BY <1>3, <2>1 DEF Computes
  <2> QED
    BY <1>1, <1>3, <2>2 DEF Computes
<1>5. Parsed(p, s) = CHOOSE f : IsParsed(f)
  BY DEF Parsed
<1>6. IsParsed(Parsed(p, s))
  BY <1>4, <1>5
<1> DEFINE f == Parsed(p, s)
<1> HIDE DEF f
<1>7. f[0] = p /\ \A n \in 1..Len(s) : f[n] = Called(f[n - 1], s[n])
  BY <1>1, <1>6 DEF f
<1>8. \A n \in 0..Len(s) : f[n] \in Part
  <2> DEFINE P == {n \in 0..Len(s) : f[n] \in Part}
  <2>1. 0 \in P
    BY <1>1, <1>7
  <2>2. ASSUME NEW n \in 1..Len(s), n - 1 \in P PROVE n \in P
    BY <1>1, <1>7, <2>2, CalledIsPart
  <2> HIDE DEF P
  <2>3. \A n \in 0..Len(s) : n \in P
    BY <1>1, <2>1, <2>2, Inductive
  <2> QED
    BY <2>3 DEF P
<1>9. f = [n \in 0..Len(s) |-> f[n]]
  BY <1>6 DEF f
<1> QED
  BY <1>7, <1>8, <1>9 DEF f

-----------------------------------------------------------------------------
(* The bodies a client sends                                               *)

LEMMA CallbacksOfIs ==
  ASSUME NEW parts \in Bodies, NEW i \in 1..Len(parts)
  PROVE  LET q == CallbacksOf(parts, i)
         IN  /\ q \in Seq(Callback) /\ Len(q) \in Nat /\ Len(q) > 1
             /\ \A c \in 1..Len(q) :
                  /\ q[c].of = i
                  /\ (q[c].on = "headers" <=> c = 1)
                  /\ (q[c].on = "end" <=> c = Len(q))
<1> DEFINE R == [name : Header, size : Nat]
<1>0. parts[i] \in R /\ i \in Nat
  <2>1. parts \in Seq(R)
    BY UploadAssumption DEF Header
  <2> HIDE DEF R
  <2> QED
    BY <2>1
<1>1. PICK m \in Nat : m = parts[i].size
  BY <1>0
<1>2. parts[i].name \in Header
  BY <1>0
<1>3. i \in Nat
  BY <1>0
<1> DEFINE head == <<[on |-> "headers", of |-> i, name |-> parts[i].name]>>
           data == [j \in 1..m |-> [on |-> "data", of |-> i, piece |-> j]]
           end == <<[on |-> "end", of |-> i]>>
<1>4. head \in Seq(Callback) /\ Len(head) = 1 /\ head[1].of = i /\ head[1].on = "headers"
  BY <1>2, <1>3 DEF Callback
<1>5. end \in Seq(Callback) /\ Len(end) = 1 /\ end[1].of = i /\ end[1].on = "end"
  BY <1>3 DEF Callback
<1>6. data \in Seq(Callback) /\ Len(data) = m
  <2>1. data \in [1..m -> Callback]
    BY <1>1, <1>3 DEF Callback
  <2> QED
    BY <1>1, <2>1
<1>7. \A j \in 1..m : data[j].of = i /\ data[j].on = "data"
  OBVIOUS
<1>8. CallbacksOf(parts, i) = head \o data \o end
  BY <1>1 DEF CallbacksOf
<1> HIDE DEF head, data, end
<1> DEFINE q == head \o data \o end
<1>9. /\ head \o data \in Seq(Callback) /\ Len(head \o data) = m + 1
      /\ (head \o data)[1] = head[1]
      /\ \A c \in 2..(m + 1) : (head \o data)[c] = data[c - 1]
  <2>1. /\ head \o data \in Seq(Callback) /\ Len(head \o data) = Len(head) + Len(data)
        /\ \A c \in 1..(Len(head) + Len(data)) :
             (head \o data)[c] = IF c <= Len(head) THEN head[c] ELSE data[c - Len(head)]
    BY <1>4, <1>6, ConcatProperties
  <2> QED
    BY <1>1, <1>4, <1>6, <2>1
<1>10. /\ q \in Seq(Callback) /\ Len(q) = m + 2
       /\ q[m + 2] = end[1] /\ \A c \in 1..(m + 1) : q[c] = (head \o data)[c]
  <2> DEFINE l == head \o data
  <2>1. l \in Seq(Callback) /\ Len(l) = m + 1
    BY <1>9
  <2> HIDE DEF l
  <2>2. /\ l \o end \in Seq(Callback) /\ Len(l \o end) = Len(l) + Len(end)
        /\ \A c \in 1..(Len(l) + Len(end)) :
             (l \o end)[c] = IF c <= Len(l) THEN l[c] ELSE end[c - Len(l)]
    BY <1>5, <2>1, ConcatProperties
  <2>3. /\ l \o end \in Seq(Callback) /\ Len(l \o end) = m + 2
        /\ (l \o end)[m + 2] = end[1] /\ \A c \in 1..(m + 1) : (l \o end)[c] = l[c]
    BY <1>1, <1>5, <2>1, <2>2
  <2> QED
    BY <2>3 DEF l
<1> HIDE DEF q
<1>11. ASSUME NEW c \in 1..Len(q)
       PROVE  q[c].of = i /\ (q[c].on = "headers" <=> c = 1) /\ (q[c].on = "end" <=> c = Len(q))
  <2>1. CASE c = 1
    <3>1. q[c] = head[1]
      <4>1. 1 \in 1..(m + 1)
        BY <1>1
      <4> QED
        BY <1>9, <1>10, <2>1, <4>1
    <3>2. 1 # Len(q)
      BY <1>1, <1>10
    <3> QED
      BY <1>4, <2>1, <3>1, <3>2
  <2>2. CASE c \in 2..(m + 1)
    <3>1. c - 1 \in 1..m /\ c # 1 /\ c # Len(q)
      BY <1>1, <1>10, <2>2
    <3>0. c \in 1..(m + 1)
      BY <1>1, <2>2
    <3>2. q[c] = data[c - 1]
      BY <1>9, <1>10, <2>2, <3>0
    <3> QED
      BY <1>7, <3>1, <3>2
  <2>3. CASE c = m + 2
    <3>1. q[c] = end[1] /\ c # 1 /\ c = Len(q)
      BY <1>1, <1>10, <2>3
    <3> QED
      BY <1>5, <3>1
  <2> QED
    BY <1>1, <1>10, <2>1, <2>2, <2>3
<1>12. Len(q) \in Nat /\ Len(q) > 1 /\ q \in Seq(Callback)
  BY <1>1, <1>10
<1>13. CallbacksOf(parts, i) = q
  BY <1>8 DEF q
<1> QED
  BY <1>11, <1>12, <1>13

\* What the parts up to the n-th make.
IsStage(q, n) ==
  /\ q \in Seq(Callback) /\ InParts(q)
  /\ \A c \in 1..Len(q) : q[c].of <= n
  /\ q # <<>> => q[Len(q)].on = "end"

LEMMA StageGrows ==
  ASSUME NEW parts \in Bodies, NEW n \in 1..Len(parts), NEW q, IsStage(q, n - 1)
  PROVE  IsStage(q \o CallbacksOf(parts, n), n)
<1> DEFINE r == CallbacksOf(parts, n)
<1>1. PICK k \in Nat : k = Len(q)
  BY DEF IsStage
<1>2. PICK m \in Nat : m = Len(r) /\ m > 1
  BY CallbacksOfIs
<1>3. /\ r \in Seq(Callback)
      /\ \A c \in 1..m : /\ r[c].of = n
                         /\ (r[c].on = "headers" <=> c = 1)
                         /\ (r[c].on = "end" <=> c = m)
  BY <1>2, CallbacksOfIs
<1>4. n \in Nat /\ q \in Seq(Callback)
  BY UploadAssumption DEF IsStage
<1> HIDE DEF r
<1> DEFINE t == q \o r
<1>5. /\ t \in Seq(Callback) /\ Len(t) = k + m
      /\ \A c \in 1..k : t[c] = q[c]
      /\ \A c \in (k + 1)..(k + m) : t[c] = r[c - k]
  BY <1>1, <1>2, <1>3, <1>4
<1> HIDE DEF t
<1>6. \A c \in 1..(k + m) : c \in 1..k \/ (c \in (k + 1)..(k + m) /\ c - k \in 1..m)
  BY <1>1, <1>2
<1>7. \A c \in 1..k : t[c].of \in Nat /\ t[c].of < n
  <2>1. \A c \in 1..k : q[c].of \in Nat
    BY <1>1, <1>4 DEF Callback
  <2> QED
    BY <1>1, <1>4, <1>5, <2>1 DEF IsStage
<1>8. \A c \in (k + 1)..(k + m) : /\ t[c].of = n
                               /\ (t[c].on = "headers" <=> c = k + 1)
                               /\ (t[c].on = "end" <=> c = k + m)
  <2> SUFFICES ASSUME NEW c \in (k + 1)..(k + m)
               PROVE  /\ t[c].of = n
                      /\ (t[c].on = "headers" <=> c = k + 1)
                      /\ (t[c].on = "end" <=> c = k + m)
    OBVIOUS
  <2>0. c - k \in 1..m
    BY <1>1, <1>2
  <2>1. PICK d \in 1..m : d = c - k
    BY <2>0
  <2>2. t[c] = r[d] /\ (d = 1 <=> c = k + 1) /\ (d = m <=> c = k + m)
    BY <1>1, <1>2, <1>5, <2>1
  <2> QED
    BY <1>3, <2>2
<1>9. k # 0 => t[k].on = "end"
  BY <1>1, <1>4, <1>5 DEF IsStage
<1>10. InParts(t)
  <2> SUFFICES ASSUME NEW c \in 1..(k + m), NEW a \in 1..(c - 1)
               PROVE  /\ t[a].of <= t[c].of
                      /\ t[a].of = t[c].of => t[a].on # "end" /\ t[c].on # "headers"
                      /\ t[a].of < t[c].of => \E e \in a..(c - 1) : t[e].on = "end"
    BY <1>5 DEF InParts
  <2>1. CASE c \in 1..k
    <3>1. a \in 1..k /\ \A e \in a..(c - 1) : e \in 1..k
      BY <1>1, <2>1
    <3>2. /\ q[a].of <= q[c].of
          /\ q[a].of = q[c].of => q[a].on # "end" /\ q[c].on # "headers"
          /\ q[a].of < q[c].of => \E e \in a..(c - 1) : q[e].on = "end"
      BY <1>1, <1>4, <2>1 DEF IsStage, InParts
    <3> QED
      BY <1>5, <2>1, <3>1, <3>2
  <2>2. CASE c \in (k + 1)..(k + m) /\ a \in 1..k
    <3>1. k \in a..(c - 1) /\ k # 0
      BY <1>1, <1>2, <2>2
    <3> QED
      BY <1>4, <1>7, <1>8, <1>9, <2>2, <3>1
  <2>3. CASE c \in (k + 1)..(k + m) /\ a \in (k + 1)..(k + m)
    <3>1. c # k + 1 /\ a # k + m
      BY <1>1, <1>2, <2>3
    <3> QED
      BY <1>4, <1>8, <2>3, <3>1
  <2> QED
    BY <1>1, <1>2, <1>6, <2>1, <2>2, <2>3
<1>11. \A c \in 1..Len(t) : t[c].of <= n
  <2> SUFFICES ASSUME NEW c \in 1..(k + m) PROVE t[c].of <= n
    BY <1>5
  <2>1. CASE c \in 1..k
    BY <1>4, <1>7, <2>1
  <2>2. CASE c \in (k + 1)..(k + m)
    BY <1>4, <1>8, <2>2
  <2> QED
    BY <1>6, <2>1, <2>2
<1>12. t[Len(t)].on = "end"
  <2>1. Len(t) \in (k + 1)..(k + m) /\ Len(t) = k + m
    BY <1>1, <1>2, <1>5
  <2> QED
    BY <1>8, <2>1
<1>13. IsStage(t, n)
  BY <1>5, <1>10, <1>11, <1>12 DEF IsStage
<1> QED
  BY <1>13 DEF t, r

LEMMA CallbacksAreBody ==
  ASSUME NEW parts \in Bodies
  PROVE  IsBody(Callbacks(parts))
<1> DEFINE N == Len(parts)
           Staged(g) == g = [n \in 0..N |-> IF n = 0 THEN <<>>
                                            ELSE g[n - 1] \o CallbacksOf(parts, n)]
           F == [n \in 1..N |-> [q \in Seq(Callback) |-> q \o CallbacksOf(parts, n)]]
<1>1. N \in Nat
  BY UploadAssumption
<1>2. F \in [1..N -> [Seq(Callback) -> Seq(Callback)]]
  <2>1. ASSUME NEW n \in 1..N, NEW q \in Seq(Callback)
        PROVE  q \o CallbacksOf(parts, n) \in Seq(Callback)
    <3>1. CallbacksOf(parts, n) \in Seq(Callback)
      BY CallbacksOfIs
    <3> QED
      BY <3>1
  <2> QED
    BY <2>1
<1>3. PICK g : Computes(g, N, Seq(Callback), <<>>, F)
  <2>1. <<>> \in Seq(Callback)
    OBVIOUS
  <2> HIDE DEF F, N
  <2> QED
    BY <1>1, <1>2, <2>1, Computable
<1>4. Staged(g)
  <2>1. \A n \in 1..N : n - 1 \in 0..N
    BY <1>1
  <2>2. \A n \in 1..N : g[n - 1] \in Seq(Callback)
    BY <1>3, <2>1 DEF Computes
  <2>3. \A n \in 1..N : g[n] = g[n - 1] \o CallbacksOf(parts, n)
    BY <1>3, <2>2 DEF Computes
  <2>4. g[0] = <<>> /\ g = [n \in 0..N |-> g[n]]
    BY <1>3 DEF Computes
  <2> QED
    BY <1>1, <2>3, <2>4
<1> DEFINE f == CHOOSE h : Staged(h)
<1>5. Staged(f)
  BY <1>4
<1>6. Callbacks(parts) = f[N]
  BY DEF Callbacks
<1> HIDE DEF f
<1>7. f[0] = <<>> /\ \A n \in 1..N : f[n] = f[n - 1] \o CallbacksOf(parts, n)
  <2>1. \A n \in 0..N : f[n] = IF n = 0 THEN <<>> ELSE f[n - 1] \o CallbacksOf(parts, n)
    BY <1>5, Zenon
  <2>2. 0 \in 0..N /\ \A n \in 1..N : n \in 0..N /\ n # 0
    BY <1>1
  <2> HIDE DEF N
  <2> QED
    BY <2>1, <2>2
<1> DEFINE P == {n \in 0..N : IsStage(f[n], n)}
<1>8. 0 \in P
  <2>1. IsStage(<<>>, 0)
    BY DEF IsStage, InParts
  <2> QED
    BY <1>1, <1>7, <2>1
<1>9. ASSUME NEW n \in 1..N, n - 1 \in P PROVE n \in P
  <2>1. IsStage(f[n - 1], n - 1)
    BY <1>9
  <2>2. IsStage(f[n], n)
    BY <1>7, <2>1, StageGrows
  <2> QED
    BY <1>1, <2>2
<1> HIDE DEF P
<1>10. N \in P
  <2>1. \A n \in 1..N : n - 1 \in P => n \in P
    BY <1>9
  <2> HIDE DEF N
  <2> QED
    BY <1>1, <1>8, <2>1, Inductive
<1> QED
  BY <1>6, <1>10 DEF P, IsStage, IsBody

\* And what has come when the client breaks off.
LEMMA CutIsBody ==
  ASSUME NEW b, IsBody(b), NEW n \in 0..Len(b)
  PROVE  IsBody(SubSeq(b, 1, n))
<1>1. b \in Seq(Callback) /\ Len(b) \in Nat
  BY DEF IsBody
<1> DEFINE s == SubSeq(b, 1, n)
<1>2. s \in Seq(Callback) /\ Len(s) = n /\ \A c \in 1..n : c \in 1..Len(b) /\ s[c] = b[c]
  BY <1>1
<1> HIDE DEF s
<1>3. InParts(s)
  <2> SUFFICES ASSUME NEW c \in 1..n, NEW a \in 1..(c - 1)
               PROVE  /\ s[a].of <= s[c].of
                      /\ s[a].of = s[c].of => s[a].on # "end" /\ s[c].on # "headers"
                      /\ s[a].of < s[c].of => \E e \in a..(c - 1) : s[e].on = "end"
    BY <1>2 DEF InParts
  <2>1. a \in 1..n /\ \A e \in a..(c - 1) : e \in 1..n
    BY <1>1
  <2>2. /\ b[a].of <= b[c].of
        /\ b[a].of = b[c].of => b[a].on # "end" /\ b[c].on # "headers"
        /\ b[a].of < b[c].of => \E e \in a..(c - 1) : b[e].on = "end"
    BY <1>1, <1>2 DEF IsBody, InParts
  <2> QED
    BY <1>2, <2>1, <2>2
<1> QED
  BY <1>2, <1>3 DEF IsBody, s

-----------------------------------------------------------------------------
(* The data of a part among the callbacks                                  *)

DataStep(b, i, n, d) ==
  IF b[n].on = "data" /\ b[n].of = i THEN Append(d, <<i, b[n].piece>>) ELSE d

LEMMA DataIs ==
  ASSUME NEW b \in Seq(Callback), NEW i \in Nat
  PROVE  LET f == DataWithin(b, i)
         IN  /\ f[0] = <<>> /\ \A n \in 0..Len(b) : f[n] \in Seq(Datum)
             /\ \A n \in 1..Len(b) : f[n] = DataStep(b, i, n, f[n - 1])
<1> DEFINE N == Len(b)
           IsData(g) == g = [n \in 0..N |->
                               IF n = 0 THEN <<>>
                               ELSE IF b[n].on = "data" /\ b[n].of = i
                                    THEN Append(g[n - 1], <<i, b[n].piece>>)
                                    ELSE g[n - 1]]
           F == [n \in 1..N |-> [d \in Seq(Datum) |-> DataStep(b, i, n, d)]]
<1>1. N \in Nat
  OBVIOUS
<1>2. F \in [1..N -> [Seq(Datum) -> Seq(Datum)]]
  <2>1. ASSUME NEW n \in 1..N, NEW d \in Seq(Datum)
        PROVE  DataStep(b, i, n, d) \in Seq(Datum)
    <3>1. b[n] \in Callback
      OBVIOUS
    <3>2. CASE b[n].on = "data" /\ b[n].of = i
      <4>1. <<i, b[n].piece>> \in Datum
        BY <3>1, <3>2 DEF Callback, Datum
      <4>2. PICK e \in Datum : e = <<i, b[n].piece>>
        BY <4>1
      <4>3. Append(d, e) \in Seq(Datum)
        OBVIOUS
      <4> QED
        BY <3>2, <4>2, <4>3 DEF DataStep
    <3>3. CASE ~(b[n].on = "data" /\ b[n].of = i)
      BY <3>3 DEF DataStep
    <3> QED
      BY <3>2, <3>3
  <2> QED
    BY <2>1
<1>3. PICK g : Computes(g, N, Seq(Datum), <<>>, F)
  <2>1. <<>> \in Seq(Datum)
    OBVIOUS
  <2> HIDE DEF F, N
  <2> QED
    BY <1>1, <1>2, <2>1, Computable
<1>4. IsData(g)
  <2>1. \A n \in 1..N : n - 1 \in 0..N
    BY <1>1
  <2>2. \A n \in 1..N : g[n - 1] \in Seq(Datum)
    BY <1>3, <2>1 DEF Computes
  <2>3. \A n \in 1..N : g[n] = DataStep(b, i, n, g[n - 1])
    BY <1>3, <2>2 DEF Computes
  <2>4. g[0] = <<>> /\ g = [n \in 0..N |-> g[n]]
    BY <1>3 DEF Computes
  <2> QED
    BY <1>1, <2>3, <2>4 DEF DataStep
<1> DEFINE f == DataWithin(b, i)
<1>5. f = CHOOSE h : IsData(h)
  BY DEF DataWithin
<1>6. IsData(f)
  BY <1>4, <1>5
<1> HIDE DEF f
<1>7. f[0] = <<>> /\ \A n \in 1..N : f[n] = DataStep(b, i, n, f[n - 1])
  <2>1. \A n \in 0..N : f[n] = IF n = 0 THEN <<>>
                              ELSE IF b[n].on = "data" /\ b[n].of = i
                                   THEN Append(f[n - 1], <<i, b[n].piece>>)
                                   ELSE f[n - 1]
    BY <1>6, Zenon
  <2>2. 0 \in 0..N /\ \A n \in 1..N : n \in 0..N /\ n # 0
    BY <1>1
  <2> HIDE DEF N
  <2> QED
    BY <2>1, <2>2 DEF DataStep
<1> DEFINE P == {n \in 0..N : f[n] \in Seq(Datum)}
<1>8. 0 \in P
  <2>1. f[0] \in Seq(Datum)
    BY <1>7
  <2>2. 0 \in 0..N
    BY <1>1
  <2> QED
    BY <2>1, <2>2
<1>9. ASSUME NEW n \in 1..N, n - 1 \in P PROVE n \in P
  <2>1. DataStep(b, i, n, f[n - 1]) = F[n][f[n - 1]]
    BY <1>9
  <2>2. F[n][f[n - 1]] \in Seq(Datum)
    BY <1>2, <1>9
  <2> QED
    BY <1>1, <1>7, <2>1, <2>2
<1>10. \A n \in 0..N : n \in P
  <2>1. \A n \in 1..N : n - 1 \in P => n \in P
    BY <1>9
  <2> HIDE DEF P, N
  <2> QED
    BY <1>1, <1>8, <2>1, Inductive
<1> QED
  BY <1>7, <1>10 DEF f

\* The heads of files among the first n callbacks, and whether one has ended.
Heads(b, n) == {a \in 1..n : IsFileHead(b[a])}
HasEnded(b, n) == \E e \in 1..n : b[e].on = "end" /\ Heads(b, e) # {}

\* The first part with a head is the one that starts first.
LEMMA FirstFileIs ==
  ASSUME NEW b, IsBody(b), Heads(b, Len(b)) # {}
  PROVE  /\ FirstFile(b) \in Nat
         /\ \E h \in Heads(b, Len(b)) : b[h].of = FirstFile(b)
         /\ \A h \in Heads(b, Len(b)) : FirstFile(b) <= b[h].of
<1>1. b \in Seq(Callback) /\ Len(b) \in Nat /\ DOMAIN b = 1..Len(b)
  BY DEF IsBody
<1>2. FileParts(b) = {b[h].of : h \in Heads(b, Len(b))}
  BY <1>1 DEF FileParts, Heads
<1>3. \A h \in Heads(b, Len(b)) : b[h].of \in Nat
  BY <1>1 DEF Heads, Callback
<1>4. FileParts(b) \subseteq Nat /\ FileParts(b) # {}
  BY <1>2, <1>3
<1>5. \E i \in FileParts(b) : \A j \in FileParts(b) : i <= j
  BY <1>4, Smallest
<1>6. FirstFile(b) \in FileParts(b) /\ \A j \in FileParts(b) : FirstFile(b) <= j
  BY <1>5 DEF FirstFile
<1> QED
  BY <1>2, <1>4, <1>6

\* Data is the first file's exactly when a head has come and none has ended.
LEMMA DataIsFirsts ==
  ASSUME NEW b, IsBody(b), Heads(b, Len(b)) # {},
         NEW n \in 1..Len(b), b[n].on = "data"
  PROVE  b[n].of = FirstFile(b) <=> Heads(b, n - 1) # {} /\ ~HasEnded(b, n - 1)
<1> DEFINE first == FirstFile(b)
<1>1. b \in Seq(Callback) /\ Len(b) \in Nat /\ \A a \in 1..Len(b) : b[a].of \in Nat
  BY DEF IsBody, Callback
<1>2. first \in Nat /\ \A h \in Heads(b, Len(b)) : first <= b[h].of
  BY FirstFileIs
<1>3. PICK h \in 1..Len(b) : b[h].of = first /\ IsFileHead(b[h])
  BY FirstFileIs DEF Heads
<1> HIDE DEF first
<1>4. h # n /\ b[h].on = "headers"
  BY <1>3 DEF IsFileHead
<1>5. \A c \in 1..Len(b) : \A a \in 1..(c - 1) :
        /\ b[a].of <= b[c].of
        /\ b[a].of = b[c].of => b[a].on # "end" /\ b[c].on # "headers"
        /\ b[a].of < b[c].of => \E e \in a..(c - 1) : b[e].on = "end"
  BY <1>1 DEF IsBody, InParts
<1>6. ASSUME b[n].of = first PROVE Heads(b, n - 1) # {} /\ ~HasEnded(b, n - 1)
  <2>1. h \in 1..(n - 1)
    <3>1. n \notin 1..(h - 1)
      BY <1>3, <1>4, <1>5, <1>6
    <3> QED
      BY <1>1, <1>4, <3>1
  <2>2. ASSUME NEW e \in 1..(n - 1), b[e].on = "end", NEW a \in Heads(b, e) PROVE FALSE
    <3>1. a \in 1..(e - 1) /\ a \in Heads(b, Len(b)) /\ e \in 1..Len(b)
      BY <1>1, <2>2 DEF Heads, IsFileHead
    <3>2. first <= b[a].of /\ b[a].of <= b[e].of /\ b[e].of <= b[n].of
      BY <1>2, <1>5, <3>1
    <3>3. b[e].of = b[n].of
      <4>1. b[a].of \in Nat /\ b[e].of \in Nat /\ b[n].of \in Nat
        BY <1>1, <3>1 DEF Heads
      <4> QED
        BY <1>2, <1>6, <3>2, <4>1
    <3> QED
      BY <1>5, <2>2, <3>3
  <2> QED
    BY <1>3, <2>1, <2>2 DEF Heads, HasEnded
<1>7. ASSUME NEW a \in Heads(b, n - 1), ~HasEnded(b, n - 1) PROVE b[n].of = first
  <2>1. a \in 1..(n - 1) /\ a \in Heads(b, Len(b))
    BY <1>1 DEF Heads
  <2>2. first <= b[a].of /\ b[a].of <= b[n].of
    BY <1>2, <1>5, <2>1
  <2>3. ASSUME first < b[n].of PROVE FALSE
    <3>1. h \in 1..(n - 1)
      <4>1. n \notin 1..(h - 1)
        BY <1>1, <1>2, <1>3, <1>5, <2>3
      <4> QED
        BY <1>1, <1>4, <4>1
    <3>2. PICK e \in h..(n - 1) : b[e].on = "end"
      BY <1>3, <1>5, <2>3, <3>1
    <3>3. e \in 1..(n - 1) /\ h \in Heads(b, e)
      BY <1>1, <1>3, <3>1 DEF Heads
    <3> QED
      BY <1>7, <3>2, <3>3 DEF HasEnded
  <2>4. b[a].of \in Nat /\ b[n].of \in Nat
    BY <1>1, <2>1 DEF Heads
  <2> QED
    BY <1>2, <2>2, <2>3, <2>4
<1> QED
  BY <1>6, <1>7 DEF first

-----------------------------------------------------------------------------
(* The part and what is stored of it                                       *)

\* After n callbacks of a body.
PartIs(b, p, n, stored) ==
  /\ (p.found <=> Heads(b, n) # {}) /\ (p.done <=> HasEnded(b, n))
  /\ p.eof => n = Len(b)
  /\ p.found => \E a \in Heads(b, n) : b[a].name = p.filename
  /\ Heads(b, Len(b)) # {} => stored \o p.pending = DataWithin(b, FirstFile(b))[n]

LEMMA OneMore ==
  ASSUME NEW b, Len(b) \in Nat, NEW n \in 1..Len(b)
  PROVE  /\ Heads(b, n) = Heads(b, n - 1) \cup {a \in {n} : IsFileHead(b[a])}
         /\ HasEnded(b, n) <=> HasEnded(b, n - 1) \/ (b[n].on = "end" /\ Heads(b, n) # {})
<1>1. 1..n = 1..(n - 1) \cup {n}
  OBVIOUS
<1> QED
  BY <1>1, Zenon DEF Heads, HasEnded

LEMMA CalledKeeps ==
  ASSUME NEW b, IsBody(b), NEW p \in Part, NEW stored \in Seq(Datum),
         NEW n \in 1..Len(b), PartIs(b, p, n - 1, stored)
  PROVE  PartIs(b, Called(p, b[n]), n, stored)
<1> DEFINE q == Called(p, b[n])
           first == FirstFile(b)
           data == DataWithin(b, first)
<1>1. b \in Seq(Callback) /\ Len(b) \in Nat /\ b[n] \in Callback
  BY DEF IsBody
<1>2. /\ Heads(b, n) = Heads(b, n - 1) \cup {a \in {n} : IsFileHead(b[a])}
      /\ HasEnded(b, n) <=> HasEnded(b, n - 1) \/ (b[n].on = "end" /\ Heads(b, n) # {})
  BY <1>1, OneMore
<1>3. Heads(b, Len(b)) # {} => data[n] = DataStep(b, first, n, data[n - 1])
  BY <1>1, FirstFileIs, DataIs
<1>4. p.pending \in Seq(Datum) /\ p.found \in BOOLEAN /\ p.done \in BOOLEAN
  BY DEF Part
<1>0. ~q.eof
  <2>1. p.eof => n - 1 = Len(b)
    BY DEF PartIs
  <2>2. q.eof = p.eof
    <3>1. \A name : OnHeadersFinished(p, name).eof = p.eof
      BY DEF OnHeadersFinished, Part
    <3>2. \A d : OnPartData(p, d).eof = p.eof
      BY DEF OnPartData, Part
    <3>3. OnPartEnd(p).eof = p.eof
      BY DEF OnPartEnd, Part
    <3>4. b[n].on \in {"headers", "data", "end"}
      BY <1>1 DEF Callback
    <3>5. CASE b[n].on = "headers"
      BY <3>1, <3>5 DEF Called
    <3>6. CASE b[n].on = "data"
      BY <3>2, <3>6 DEF Called
    <3>7. CASE b[n].on = "end"
      BY <3>3, <3>7 DEF Called
    <3> QED
      BY <3>4, <3>5, <3>6, <3>7
  <2>3. n - 1 # Len(b)
    BY <1>1
  <2> HIDE DEF q
  <2> QED
    BY <2>1, <2>2, <2>3
<1> HIDE DEF first, data
<1>5. CASE b[n].on = "headers"
  <2>1. q = OnHeadersFinished(p, b[n].name)
    BY <1>5 DEF Called
  <2>2. Heads(b, Len(b)) # {} => data[n] = data[n - 1]
    BY <1>3, <1>5 DEF DataStep
  <2>3. q.pending = p.pending /\ q.done = p.done
    BY <2>1 DEF OnHeadersFinished, Part
  <2>4. CASE b[n].name = "none"
    <3>1. q = p
      BY <2>1, <2>4 DEF OnHeadersFinished
    <3>2. Heads(b, n) = Heads(b, n - 1)
      BY <1>2, <2>4 DEF IsFileHead
    <3>3. HasEnded(b, n) <=> HasEnded(b, n - 1)
      BY <1>2, <1>5
    <3> HIDE DEF q
    <3> QED
      BY <1>0, <2>2, <3>1, <3>2, <3>3 DEF PartIs, data, first, q
  <2>5. CASE b[n].name # "none"
    <3>1. q.found = TRUE /\ q.filename = b[n].name
      BY <2>1, <2>5 DEF OnHeadersFinished, Part
    <3>2. n \in Heads(b, n)
      BY <1>2, <1>5, <2>5 DEF IsFileHead
    <3>3. HasEnded(b, n) <=> HasEnded(b, n - 1)
      BY <1>2, <1>5
    <3> HIDE DEF q
    <3> QED
      BY <1>0, <2>2, <2>3, <3>1, <3>2, <3>3 DEF PartIs, data, first, q
  <2> QED
    BY <2>4, <2>5
<1>6. CASE b[n].on = "data"
  <2>1. q = OnPartData(p, <<b[n].of, b[n].piece>>)
    BY <1>6 DEF Called
  <2>2. Heads(b, n) = Heads(b, n - 1) /\ (HasEnded(b, n) <=> HasEnded(b, n - 1))
    BY <1>2, <1>6 DEF IsFileHead
  <2>3. q.found = p.found /\ q.done = p.done /\ q.filename = p.filename
    BY <2>1 DEF OnPartData, Part
  <2>4. Heads(b, Len(b)) # {} => stored \o q.pending = data[n]
    <3> SUFFICES ASSUME Heads(b, Len(b)) # {} PROVE stored \o q.pending = data[n]
      OBVIOUS
    <3>1. b[n].of = first <=> p.found /\ ~p.done
      BY <1>6, DataIsFirsts DEF PartIs, first
    <3>2. stored \o p.pending = data[n - 1]
      BY DEF PartIs, data, first
    <3>3. CASE p.found /\ ~p.done
      <4>1. <<first, b[n].piece>> \in Datum
        BY <1>1, <1>6, <3>1, <3>3 DEF Callback, Datum
      <4>2. PICK d \in Datum : d = <<first, b[n].piece>>
        BY <4>1
      <4>3. q.pending = Append(p.pending, d)
        BY <2>1, <3>1, <3>3, <4>2 DEF OnPartData, Part
      <4>4. data[n] = Append(stored \o p.pending, d)
        BY <1>3, <1>6, <3>1, <3>2, <3>3, <4>2 DEF DataStep
      <4>5. stored \o Append(p.pending, d) = Append(stored \o p.pending, d)
        BY <1>4
      <4> QED
        BY <4>3, <4>4, <4>5
    <3>4. CASE ~(p.found /\ ~p.done)
      <4>1. q = p
        BY <1>4, <2>1, <3>4 DEF OnPartData
      <4>2. data[n] = data[n - 1]
        BY <1>3, <3>1, <3>4 DEF DataStep
      <4> QED
        BY <3>2, <4>1, <4>2
    <3> QED
      BY <3>3, <3>4
  <2> HIDE DEF q
  <2> QED
    BY <1>0, <2>2, <2>3, <2>4 DEF PartIs, data, first, q
<1>7. CASE b[n].on = "end"
  <2>1. q = OnPartEnd(p)
    BY <1>7 DEF Called
  <2>2. Heads(b, n) = Heads(b, n - 1)
    BY <1>2, <1>7 DEF IsFileHead
  <2>3. /\ q.found = p.found /\ q.filename = p.filename /\ q.pending = p.pending
        /\ q.done <=> p.done \/ p.found
    BY <2>1 DEF OnPartEnd, Part
  <2>4. Heads(b, Len(b)) # {} => data[n] = data[n - 1]
    BY <1>3, <1>7 DEF DataStep
  <2>5. HasEnded(b, n) <=> HasEnded(b, n - 1) \/ Heads(b, n) # {}
    BY <1>2, <1>7
  <2> HIDE DEF q
  <2> QED
    BY <1>0, <2>2, <2>3, <2>4, <2>5 DEF PartIs, data, first, q
<1> QED
  BY <1>1, <1>5, <1>6, <1>7 DEF Callback

\* The rest of a body from after n callbacks.
IsRest(b, n, rest) ==
  /\ n \in 0..Len(b) /\ rest \in Seq(Callback) /\ Len(rest) = Len(b) - n
  /\ \A i \in 1..Len(rest) : rest[i] = b[n + i]

LEMMA ParsedKeeps ==
  ASSUME NEW b, IsBody(b), NEW p \in Part, NEW stored \in Seq(Datum),
         NEW n, NEW rest, IsRest(b, n, rest), PartIs(b, p, n, stored),
         NEW k \in 0..Len(rest)
  PROVE  PartIs(b, Parsed(p, rest)[k], n + k, stored)
<1> DEFINE f == Parsed(p, rest)
           P == {m \in 0..Len(rest) : PartIs(b, f[m], n + m, stored)}
<1>1. Len(b) \in Nat /\ n \in Nat /\ n \in 0..Len(b) /\ Len(rest) \in Nat
      /\ Len(rest) = Len(b) - n /\ rest \in Seq(Callback)
  BY DEF IsBody, IsRest
<1>2. /\ f[0] = p /\ \A m \in 0..Len(rest) : f[m] \in Part
      /\ \A m \in 1..Len(rest) : f[m] = Called(f[m - 1], rest[m])
  BY <1>1, ParsedIs
<1> HIDE DEF f
<1>3. 0 \in P
  <2>1. n + 0 = n /\ 0 \in 0..Len(rest)
    BY <1>1
  <2> QED
    BY <1>2, <2>1
<1>4. ASSUME NEW m \in 1..Len(rest), m - 1 \in P PROVE m \in P
  <2>1. m - 1 \in 0..Len(rest) /\ m \in 0..Len(rest)
    BY <1>1
  <2>2. PICK c \in 1..Len(b) : c = n + m /\ c - 1 = n + (m - 1)
    <3>1. n + m \in 1..Len(b) /\ (n + m) - 1 = n + (m - 1)
      BY <1>1
    <3> QED
      BY <3>1
  <2>3. PartIs(b, f[m - 1], c - 1, stored)
    BY <1>4, <2>2
  <2>4. PartIs(b, Called(f[m - 1], b[c]), c, stored)
    BY <1>2, <2>1, <2>3, CalledKeeps
  <2>5. f[m] = Called(f[m - 1], b[c])
    BY <1>2, <2>2 DEF IsRest
  <2> QED
    BY <2>1, <2>2, <2>4, <2>5
<1> HIDE DEF P
<1>5. \A m \in 0..Len(rest) : m \in P
  <2>1. \A m \in 1..Len(rest) : m - 1 \in P => m \in P
    BY <1>4
  <2> QED
    BY <1>1, <1>3, <2>1, Inductive
<1> QED
  BY <1>5 DEF P, f

\* Nothing comes of the first file once it has ended.
LEMMA EndedIsAll ==
  ASSUME NEW b, IsBody(b), Heads(b, Len(b)) # {}, NEW n \in 0..Len(b), HasEnded(b, n)
  PROVE  DataOf(b, FirstFile(b)) = DataWithin(b, FirstFile(b))[n]
<1> DEFINE data == DataWithin(b, FirstFile(b))
           P == {m \in 0..(Len(b) - n) : data[n + m] = data[n] /\ HasEnded(b, n + m)}
<1>1. b \in Seq(Callback) /\ Len(b) \in Nat /\ n \in Nat /\ Len(b) - n \in Nat
  BY DEF IsBody
<1>2. \A m \in 1..Len(b) : data[m] = DataStep(b, FirstFile(b), m, data[m - 1])
  BY <1>1, FirstFileIs, DataIs
<1> HIDE DEF data
<1>3. 0 \in P
  <2>1. n + 0 = n /\ 0 \in 0..(Len(b) - n)
    BY <1>1
  <2> QED
    BY <2>1
<1>4. ASSUME NEW m \in 1..(Len(b) - n), m - 1 \in P PROVE m \in P
  <2>1. PICK c \in 1..Len(b) : c = n + m /\ c - 1 = n + (m - 1)
    <3>1. n + m \in 1..Len(b) /\ (n + m) - 1 = n + (m - 1)
      BY <1>1
    <3> QED
      BY <3>1
  <2>2. data[c - 1] = data[n] /\ HasEnded(b, c - 1)
    BY <1>4, <2>1
  <2>3. HasEnded(b, c)
    BY <1>1, <2>2, OneMore
  <2>4. ~(b[c].on = "data" /\ b[c].of = FirstFile(b))
    BY <2>2, DataIsFirsts
  <2>5. data[c] = data[c - 1]
    BY <1>2, <2>4 DEF DataStep
  <2>6. m \in 0..(Len(b) - n)
    BY <1>1
  <2> QED
    BY <2>1, <2>2, <2>3, <2>5, <2>6
<1> HIDE DEF P
<1>5. Len(b) - n \in P
  <2>1. \A m \in 1..(Len(b) - n) : m - 1 \in P => m \in P
    BY <1>4
  <2>2. \A m \in 0..(Len(b) - n) : m \in P
    BY <1>1, <1>3, <2>1, Inductive
  <2> QED
    BY <1>1, <2>2
<1>6. n + (Len(b) - n) = Len(b)
  BY <1>1
<1> QED
  BY <1>5, <1>6 DEF P, data, DataOf

-----------------------------------------------------------------------------
(* What is stored of an upload                                             *)

\* The callbacks of the body that have come.
Come(b, rest) == Len(b) - Len(rest)

\* Up to the reply, what has come of the first file is in the storage or waits
\* to be stored.
UploadInv ==
  /\ IsBody(body) /\ IsRest(body, Come(body, coming), coming)
  /\ part \in Part /\ images \in [FileNames -> Seq(Datum)]
  /\ step \in {"session", "open"} => PartIs(body, part, Come(body, coming), <<>>)
  /\ step = "store" =>
       /\ target \in FileNames
       /\ PartIs(body, part, Come(body, coming), images[target])
       /\ \E a \in Heads(body, Len(body)) : body[a].name = target
  /\ step # "idle" => reply.status # "stored"
  /\ UploadIsWhole

LEMMA RestGoesOn ==
  ASSUME NEW b, NEW n, NEW rest, IsRest(b, n, rest), Len(b) \in Nat, NEW k \in 1..Len(rest)
  PROVE  /\ IsRest(b, n + k, SubSeq(rest, k + 1, Len(rest)))
         /\ Come(b, SubSeq(rest, k + 1, Len(rest))) = n + k
<1>1. n \in Nat /\ rest \in Seq(Callback) /\ Len(rest) = Len(b) - n /\ n \in 0..Len(b)
  BY DEF IsRest
<1>2. PICK m \in Nat : m = Len(rest)
  BY <1>1
<1>3. PICK l \in Nat : l = m - k
  <2>1. k <= m /\ k \in Nat
    BY <1>2
  <2>2. m - k \in Nat
    BY <1>2, <2>1
  <2> QED
    BY <2>2
<1> DEFINE r == SubSeq(rest, k + 1, Len(rest))
<1>4. r \in Seq(Callback) /\ Len(r) = l /\ \A i \in 1..l : r[i] = rest[k + i]
  BY <1>1, <1>2, <1>3
<1> HIDE DEF r
<1>5. n + k \in 0..Len(b) /\ l = Len(b) - (n + k) /\ Len(b) - l = n + k
  BY <1>1, <1>2, <1>3
<1>6. \A i \in 1..l : r[i] = b[(n + k) + i]
  <2> SUFFICES ASSUME NEW i \in 1..l PROVE r[i] = b[(n + k) + i]
    OBVIOUS
  <2>1. k + i \in 1..Len(rest) /\ n + (k + i) = (n + k) + i
    BY <1>1, <1>2, <1>3
  <2> QED
    BY <1>4, <2>1 DEF IsRest
<1> QED
  BY <1>4, <1>5, <1>6 DEF IsRest, Come, r

LEMMA PumpedIs ==
  ASSUME UploadInv, NEW p, Pumped(p)
  PROVE  /\ p \in Part /\ IsRest(body, Come(body, coming'), coming')
         /\ \A stored \in Seq(Datum) :
              PartIs(body, part, Come(body, coming), stored)
                => PartIs(body, p, Come(body, coming'), stored)
<1>1. body \in Seq(Callback) /\ Len(body) \in Nat /\ part \in Part
  BY DEF UploadInv, IsBody
<1>2. IsBody(body) /\ IsRest(body, Come(body, coming), coming)
  BY DEF UploadInv
<1>3. coming \in Seq(Callback) /\ Len(coming) \in Nat
  BY <1>2 DEF IsRest
<1>4. ASSUME NEW n \in 1..Len(coming), p = Parsed(part, coming)[n],
             coming' = SubSeq(coming, n + 1, Len(coming))
      PROVE  /\ p \in Part /\ IsRest(body, Come(body, coming'), coming')
             /\ \A stored \in Seq(Datum) :
                  PartIs(body, part, Come(body, coming), stored)
                    => PartIs(body, p, Come(body, coming'), stored)
  <2>1. n \in 0..Len(coming)
    BY <1>3
  <2>2. p \in Part
    BY <1>1, <1>3, <1>4, <2>1, ParsedIs
  <2>3. Come(body, coming') = Come(body, coming) + n /\ IsRest(body, Come(body, coming'), coming')
    BY <1>1, <1>2, <1>4, RestGoesOn
  <2> QED
    BY <1>1, <1>2, <1>4, <2>1, <2>2, <2>3, ParsedKeeps
<1>5. ASSUME coming = <<>>, p = [part EXCEPT !.eof = TRUE], coming' = coming
      PROVE  /\ p \in Part /\ IsRest(body, Come(body, coming'), coming')
             /\ \A stored \in Seq(Datum) :
                  PartIs(body, part, Come(body, coming), stored)
                    => PartIs(body, p, Come(body, coming'), stored)
  <2>1. p \in Part
    BY <1>1, <1>5 DEF Part
  <2>2. /\ p.found = part.found /\ p.done = part.done /\ p.filename = part.filename
        /\ p.pending = part.pending
    BY <1>1, <1>5 DEF Part
  <2>3. Come(body, coming) = Len(body)
    BY <1>1, <1>5 DEF Come
  <2> QED
    BY <1>2, <1>5, <2>1, <2>2, <2>3 DEF PartIs
<1> QED
  BY <1>4, <1>5 DEF Pumped

LEMMA FileHeads ==
  ASSUME IsBody(body), NEW n \in 0..Len(body), NEW a \in Heads(body, n)
  PROVE  body[a].name \in FileNames /\ a \in Heads(body, Len(body))
<1>1. body \in Seq(Callback) /\ a \in 1..Len(body)
  BY DEF IsBody, Heads
<1>2. body[a] \in Callback /\ IsFileHead(body[a])
  BY <1>1 DEF Heads
<1> QED
  BY <1>1, <1>2 DEF Heads, IsFileHead, Callback, Header

LEMMA UploadStarts == UploadInit => UploadInv
<1> SUFFICES ASSUME UploadInit PROVE UploadInv
  OBVIOUS
<1> USE DEF UploadInit
<1>1. IsBody(<<>>) /\ IsRest(<<>>, 0, <<>>) /\ Come(<<>>, <<>>) = 0
  BY DEF IsBody, InParts, IsRest, Come
<1>2. NewPart \in Part /\ <<>> \in Seq(Datum)
  BY DEF NewPart, Part, Header
<1> QED
  BY <1>1, <1>2 DEF UploadInv, UploadIsWhole

LEMMA UploadSteps == UploadInv /\ [UploadNext]_uploadVars => UploadInv'
<1> SUFFICES ASSUME UploadInv, [UploadNext]_uploadVars PROVE UploadInv'
  OBVIOUS
<1>1. body \in Seq(Callback) /\ Len(body) \in Nat /\ coming \in Seq(Callback)
      /\ Len(coming) \in Nat /\ Come(body, coming) \in 0..Len(body)
  BY DEF UploadInv, IsBody, IsRest
<1>2. CASE Send
  <2>1. PICK parts \in Bodies : \E n \in 0 .. Len(Callbacks(parts)) :
                                    body' = SubSeq(Callbacks(parts), 1, n)
    BY <1>2 DEF Send
  <2>2. IsBody(body')
    BY <2>1, CallbacksAreBody, CutIsBody
  <2>3. /\ coming' = body' /\ part' = NewPart /\ step' = "session"
        /\ reply' = [status |-> "none"] /\ images' = images
    BY <1>2 DEF Send
  <2>4. body' \in Seq(Callback) /\ Len(body') \in Nat
    BY <2>2 DEF IsBody
  <2>5. Come(body', coming') = 0 /\ IsRest(body', 0, coming')
    BY <2>3, <2>4 DEF Come, IsRest
  <2>6. NewPart \in Part
    BY DEF NewPart, Part, Header
  <2>7. PartIs(body', NewPart, 0, <<>>)
    <3>1. Heads(body', 0) = {} /\ ~HasEnded(body', 0)
      BY DEF Heads, HasEnded
    <3>2. NewPart.found = FALSE /\ NewPart.done = FALSE /\ NewPart.eof = FALSE
          /\ NewPart.pending = <<>>
      BY DEF NewPart
    <3>3. Heads(body', Len(body')) # {} => DataWithin(body', FirstFile(body'))[0] = <<>>
      BY <2>2, <2>4, FirstFileIs, DataIs
    <3>4. <<>> \o <<>> = <<>>
      OBVIOUS
    <3> QED
      BY <3>1, <3>2, <3>3, <3>4 DEF PartIs
  <2> QED
    BY <2>2, <2>3, <2>5, <2>6, <2>7 DEF UploadInv, UploadIsWhole
<1>3. CASE NoForm
  <2> QED
    BY <1>3 DEF NoForm, ReplyWith, UploadInv, UploadIsWhole
<1>4. CASE CheckSession
  <2>1. CASE Refuses("no_session") \/ Refuses("not_yours")
    BY <2>1 DEF Refuses, UploadInv, UploadIsWhole
  <2>2. CASE /\ step' = "open" /\ UNCHANGED <<body, coming, part, target, images, listed, tabIs,
                                               reply, skipped, sends>>
    BY <1>4, <2>2 DEF CheckSession, UploadInv, UploadIsWhole
  <2> QED
    BY <1>4, <2>1, <2>2 DEF CheckSession
<1>5. CASE Open
  <2>1. CASE Refuses("no_file")
    BY <2>1 DEF Refuses, UploadInv, UploadIsWhole
  <2>2. CASE Pump /\ UNCHANGED <<body, step, target, images, listed, tabIs, reply, skipped, sends>>
    <3>1. Pumped(part') /\ step = "open"
      BY <1>5, <2>2 DEF Pump, Open
    <3>2. /\ part' \in Part /\ IsRest(body, Come(body, coming'), coming')
          /\ PartIs(body, part', Come(body, coming'), <<>>)
      <4>1. <<>> \in Seq(Datum) /\ PartIs(body, part, Come(body, coming), <<>>)
        BY <3>1 DEF UploadInv
      <4> QED
        BY <3>1, <4>1, PumpedIs
    <3> QED
      BY <2>2, <3>1, <3>2 DEF UploadInv, UploadIsWhole
  <2> QED
    BY <1>5, <2>1, <2>2 DEF Open
<1>6. CASE Validate
  <2>1. CASE Refuses("no_parent") \/ Refuses("invalid")
    BY <2>1 DEF Refuses, UploadInv, UploadIsWhole
  <2>2. CASE /\ step' = "store" /\ target' = part.filename
             /\ images' = [images EXCEPT ![target'] = <<>>]
             /\ UNCHANGED <<body, coming, part, listed, tabIs, reply, skipped, sends>>
    <3>1. PartIs(body, part, Come(body, coming), <<>>) /\ part.found /\ reply.status # "stored"
      BY <1>6 DEF Validate, UploadInv
    <3>2. PICK a \in Heads(body, Come(body, coming)) : body[a].name = part.filename
      BY <3>1 DEF PartIs
    <3>3. target' \in FileNames /\ \E h \in Heads(body, Len(body)) : body[h].name = target'
      BY <1>1, <2>2, <3>2, FileHeads DEF UploadInv
    <3>4. images' \in [FileNames -> Seq(Datum)] /\ images'[target'] = <<>>
      BY <2>2, <3>3 DEF UploadInv
    <3> QED
      BY <2>2, <3>1, <3>3, <3>4 DEF UploadInv, UploadIsWhole
  <2> QED
    BY <1>6, <2>1, <2>2 DEF Validate
<1>7. CASE StoreChunk
  <2>1. /\ step = "store" /\ part.pending # <<>>
        /\ images' = [images EXCEPT ![target] = Append(@, Head(part.pending))]
        /\ part' = [part EXCEPT !.pending = Tail(@)]
        /\ UNCHANGED <<body, coming, step, target, listed, tabIs, reply, skipped, sends>>
    BY <1>7 DEF StoreChunk
  <2>2. /\ target \in FileNames /\ PartIs(body, part, Come(body, coming), images[target])
        /\ reply.status # "stored" /\ images \in [FileNames -> Seq(Datum)] /\ part \in Part
    BY <2>1 DEF UploadInv
  <2>3. images[target] \in Seq(Datum) /\ part.pending \in Seq(Datum)
    BY <2>2 DEF Part
  <2>4. /\ Head(part.pending) \in Datum /\ Tail(part.pending) \in Seq(Datum)
        /\ Append(images[target], Head(part.pending)) \in Seq(Datum)
        /\ Append(images[target], Head(part.pending)) \o Tail(part.pending)
             = images[target] \o part.pending
    <3>1. \A s \in Seq(Datum) : \A q \in Seq(Datum) :
            q # <<>> => /\ Head(q) \in Datum /\ Tail(q) \in Seq(Datum)
                        /\ Append(s, Head(q)) \in Seq(Datum)
                        /\ Append(s, Head(q)) \o Tail(q) = s \o q
      <4> SUFFICES ASSUME NEW s \in Seq(Datum), NEW q \in Seq(Datum), q # <<>>
                   PROVE  /\ Head(q) \in Datum /\ Tail(q) \in Seq(Datum)
                          /\ Append(s, Head(q)) \in Seq(Datum)
                          /\ Append(s, Head(q)) \o Tail(q) = s \o q
        OBVIOUS
      <4>1. Head(q) \in Datum /\ Tail(q) \in Seq(Datum)
        OBVIOUS
      <4>2. Append(s, Head(q)) \in Seq(Datum)
        BY <4>1
      <4>3. Append(s, Head(q)) \o Tail(q) = s \o q
        BY <4>1, <4>2
      <4> QED
        BY <4>1, <4>2, <4>3
    <3> QED
      BY <2>1, <2>3, <3>1
  <2>5. images' \in [FileNames -> Seq(Datum)]
        /\ images'[target] = Append(images[target], Head(part.pending))
    BY <2>1, <2>2, <2>4
  <2>6. /\ part' \in Part /\ part'.pending = Tail(part.pending) /\ part'.found = part.found
        /\ part'.done = part.done /\ part'.eof = part.eof /\ part'.filename = part.filename
    BY <2>1, <2>2, <2>4 DEF Part
  <2>7. PartIs(body, part', Come(body, coming), images'[target])
    BY <2>2, <2>4, <2>5, <2>6 DEF PartIs
  <2> QED
    BY <2>1, <2>2, <2>5, <2>6, <2>7 DEF UploadInv, UploadIsWhole
<1>8. CASE StorageFull
  BY <1>8 DEF StorageFull, Refuses, UploadInv, UploadIsWhole
<1>9. CASE NextChunks
  <2>1. /\ Pumped(part') /\ step = "store"
        /\ UNCHANGED <<body, step, target, images, listed, tabIs, reply, skipped, sends>>
    BY <1>9 DEF NextChunks, Pump
  <2>2. /\ target \in FileNames /\ images[target] \in Seq(Datum)
        /\ PartIs(body, part, Come(body, coming), images[target])
    BY <2>1 DEF UploadInv
  <2>3. /\ part' \in Part /\ IsRest(body, Come(body, coming'), coming')
        /\ PartIs(body, part', Come(body, coming'), images[target])
    BY <2>1, <2>2, PumpedIs
  <2> QED
    BY <2>1, <2>2, <2>3 DEF UploadInv, UploadIsWhole
<1>10. CASE Register
  <2>1. /\ step = "store" /\ part.pending = <<>> /\ (part.done \/ part.eof)
        /\ reply' = [status |-> "stored",
                     file |-> [name |-> target, type |-> part.type, size |-> Len(images[target])]]
        /\ step' = "idle" /\ UNCHANGED <<body, coming, part, target, images>>
    BY <1>10 DEF Register
  <2>2. /\ images[target] \in Seq(Datum) /\ PartIs(body, part, Come(body, coming), images[target])
        /\ \E a \in Heads(body, Len(body)) : body[a].name = target
    BY <2>1 DEF UploadInv
  <2>3. images[target] = DataWithin(body, FirstFile(body))[Come(body, coming)]
    BY <2>1, <2>2 DEF PartIs
  <2>4. images[target] = DataOf(body, FirstFile(body))
    <3>1. CASE part.done
      BY <1>1, <2>2, <2>3, <3>1, EndedIsAll DEF PartIs, UploadInv
    <3>2. CASE part.eof
      BY <2>2, <2>3, <3>2 DEF PartIs, DataOf
    <3> QED
      BY <2>1, <3>1, <3>2
  <2>5. \E c \in ToSet(body) : IsFileHead(c) /\ c.name = target
    BY <1>1, <2>2 DEF Heads, ToSet
  <2>6. UploadIsWhole'
    BY <2>1, <2>4, <2>5 DEF UploadIsWhole
  <2> QED
    BY <2>1, <2>6 DEF UploadInv
<1>11. CASE Breaks
  BY <1>11 DEF Breaks, ReplyWith, UploadInv, UploadIsWhole
<1>12. CASE Drain
  <2>1. PICK p \in AnyPump : Pumped(p) /\ part' = [p EXCEPT !.pending = <<>>]
    BY <1>12 DEF Drain
  <2>2. p \in Part /\ IsRest(body, Come(body, coming'), coming')
    BY <2>1, PumpedIs
  <2>3. part' \in Part
    <3>1. <<>> \in Seq(Datum)
      OBVIOUS
    <3> HIDE DEF Datum
    <3> QED
      BY <2>1, <2>2, <3>1 DEF Part
  <2>4. /\ step = "drain"
        /\ UNCHANGED <<body, step, target, images, listed, tabIs, reply, sends>>
    BY <1>12 DEF Drain
  <2> QED
    BY <2>2, <2>3, <2>4 DEF UploadInv, UploadIsWhole
<1>13. CASE DrainEnds
  BY <1>13 DEF DrainEnds, ReplyWith, UploadInv, UploadIsWhole
<1>14. CASE TabCloses
  BY <1>14 DEF TabCloses, UploadInv, UploadIsWhole
<1>15. CASE UNCHANGED uploadVars
  BY <1>15 DEF uploadVars, UploadInv, UploadIsWhole
<1> QED
  BY <1>2, <1>3, <1>4, <1>5, <1>6, <1>7, <1>8, <1>9, <1>10, <1>11, <1>12, <1>13, <1>14, <1>15
     DEF UploadNext

\* However the network cuts a body, and wherever the client breaks it off, what
\* is answered as stored is all that came of its first file and nothing of the
\* others, under a name the client gave (MultipartFile, UploadRoute._store).
THEOREM UploadsAreWhole == UploadSpec => []UploadIsWhole
<1>1. UploadInv => UploadIsWhole
  BY DEF UploadInv
<1> QED
  BY <1>1, UploadStarts, UploadSteps, PTL DEF UploadSpec

-----------------------------------------------------------------------------
(* What grep finds in a page                                               *)

\* The lines from one to another, as a generator remembers them.
Span(r, from, to) == [i \in 1..(to + 1 - from) |-> Numbered(r.page)[from + i - 1]]

\* The first line a match in line n shows.
From(r, n) == Max({1, n - r.context})

\* A match in line n, with the context after it up to a line.
RowAt(r, n, to) ==
  [line |-> n, content |-> Numbered(r.page)[n],
   before |-> Span(r, From(r, n), n - 1), after |-> Span(r, n + 1, to)]

\* The last line a match in line n shows.
Until(r, n) == Min({Len(r.page), n + r.context})

LEMMA MaxOf ==
  ASSUME NEW a \in Int, NEW b \in Int
  PROVE  Max({a, b}) = IF a >= b THEN a ELSE b
<1> DEFINE m == IF a >= b THEN a ELSE b
<1>1. m \in {a, b} /\ \A y \in {a, b} : m >= y
  OBVIOUS
<1>2. \A x \in {a, b} : (\A y \in {a, b} : x >= y) => x = m
  OBVIOUS
<1> HIDE DEF m
<1>3. (CHOOSE x \in {a, b} : \A y \in {a, b} : x >= y) = m
  BY <1>1, <1>2
<1> QED
  BY <1>3 DEF Max, m

LEMMA MinOf ==
  ASSUME NEW a \in Int, NEW b \in Int
  PROVE  Min({a, b}) = IF a <= b THEN a ELSE b
<1> DEFINE m == IF a <= b THEN a ELSE b
<1>1. m \in {a, b} /\ \A y \in {a, b} : m <= y
  OBVIOUS
<1>2. \A x \in {a, b} : (\A y \in {a, b} : x <= y) => x = m
  OBVIOUS
<1> HIDE DEF m
<1>3. (CHOOSE x \in {a, b} : \A y \in {a, b} : x <= y) = m
  BY <1>1, <1>2
<1> QED
  BY <1>3 DEF Min, m

\* A span and its length; one line more.
LEMMA SpanIs ==
  ASSUME NEW r, NEW from \in Int, NEW to \in Int, from <= to + 1
  PROVE  /\ Span(r, from, to) \in Seq(ToSet(Span(r, from, to)))
         /\ Len(Span(r, from, to)) = to + 1 - from
         /\ \A i \in 1..(to + 1 - from) : Span(r, from, to)[i] = Numbered(r.page)[from + i - 1]
<1> DEFINE s == Span(r, from, to)
<1>1. to + 1 - from \in Nat
  OBVIOUS
<1>2. DOMAIN s = 1..(to + 1 - from) /\ \A i \in 1..(to + 1 - from) : s[i] = Numbered(r.page)[from + i - 1]
  BY DEF Span
<1>3. s \in [1..(to + 1 - from) -> ToSet(s)]
  <2>1. s = [i \in 1..(to + 1 - from) |-> s[i]]
    BY DEF Span
  <2>2. \A i \in 1..(to + 1 - from) : s[i] \in ToSet(s)
    BY <1>2 DEF ToSet
  <2> HIDE DEF s
  <2> QED
    BY <2>1, <2>2
<1> HIDE DEF s
<1>4. s \in Seq(ToSet(s)) /\ Len(s) = to + 1 - from
  BY <1>1, <1>3
<1> QED
  BY <1>2, <1>4 DEF s

LEMMA SpanGrows ==
  ASSUME NEW r, NEW from \in Int, NEW to \in Int, from <= to
  PROVE  Append(Span(r, from, to - 1), Numbered(r.page)[to]) = Span(r, from, to)
<1> DEFINE s == Span(r, from, to - 1)
           t == Span(r, from, to)
           l == Numbered(r.page)[to]
<1>1. PICK n \in Nat : n = to - from
  OBVIOUS
<1>2. to - 1 \in Int /\ from <= (to - 1) + 1 /\ from <= to + 1 /\ (to - 1) + 1 - from = n /\ to + 1 - from = n + 1
  BY <1>1
<1>3. s \in Seq(ToSet(s)) /\ Len(s) = n /\ \A i \in 1..n : s[i] = Numbered(r.page)[from + i - 1]
  BY <1>2, SpanIs
<1>4. t \in Seq(ToSet(t)) /\ Len(t) = n + 1 /\ \A i \in 1..(n + 1) : t[i] = Numbered(r.page)[from + i - 1]
  BY <1>2, SpanIs
<1>5. l = t[n + 1]
  <2>1. n + 1 \in 1..(n + 1) /\ from + (n + 1) - 1 = to
    BY <1>1
  <2> QED
    BY <1>4, <2>1
<1> HIDE DEF s, t, l
<1> DEFINE u == Append(s, l)
           T == ToSet(s) \cup {l} \cup ToSet(t)
<1>6. u \in Seq(T) /\ Len(u) = n + 1 /\ u[n + 1] = l /\ \A i \in 1..n : u[i] = s[i]
  <2>1. s \in Seq(T) /\ l \in T
    BY <1>3
  <2> HIDE DEF T
  <2> QED
    BY <1>3, <2>1
<1>7. t \in Seq(T)
  BY <1>4
<1> HIDE DEF u, T
<1>8. \A i \in 1..(n + 1) : u[i] = t[i]
  <2> SUFFICES ASSUME NEW i \in 1..(n + 1) PROVE u[i] = t[i]
    OBVIOUS
  <2>1. i \in 1..n \/ i = n + 1
    OBVIOUS
  <2> QED
    BY <1>3, <1>4, <1>5, <1>6, <2>1
<1>9. u = t
  BY <1>6, <1>4, <1>7, <1>8
<1> QED
  BY <1>9 DEF u, s, t, l

\* The deque of the lines before one, and then with it.
LEMMA RememberedIs ==
  ASSUME NEW r, r.context \in Nat, NEW n \in Nat \ {0}
  PROVE  Remembered(Span(r, From(r, n), n - 1), Numbered(r.page)[n], r.context)
           = Span(r, From(r, n + 1), n)
<1>1. PICK c \in Nat : c = r.context
  OBVIOUS
<1>2. PICK from \in Int : from = From(r, n) /\ from = IF 1 >= n - c THEN 1 ELSE n - c
  BY <1>1, MaxOf DEF From
<1>3. PICK new \in Int : new = From(r, n + 1) /\ new = IF 1 >= n + 1 - c THEN 1 ELSE n + 1 - c
  BY <1>1, MaxOf DEF From
<1>4. from <= n /\ new <= n + 1
  BY <1>2, <1>3
<1> DEFINE all == Append(Span(r, from, n - 1), Numbered(r.page)[n])
<1>5. all = Span(r, from, n)
  BY <1>4, SpanGrows
<1> HIDE DEF all
<1>6. Len(all) = n + 1 - from /\ all \in Seq(ToSet(all))
      /\ \A i \in 1..(n + 1 - from) : all[i] = Numbered(r.page)[from + i - 1]
  BY <1>4, <1>5, SpanIs
<1>7. CASE n + 1 - from <= c
  <2>1. from = new
    BY <1>2, <1>3, <1>7
  <2>2. ~(Len(all) > c)
    BY <1>6, <1>7
  <2> QED
    BY <1>1, <1>2, <1>3, <1>5, <2>1, <2>2 DEF Remembered, all
<1>8. CASE ~(n + 1 - from <= c)
  <2>1. from = n - c /\ new = n + 1 - c
    BY <1>2, <1>3, <1>8
  <2>2. n + 1 - from = c + 1 /\ Len(all) = c + 1 /\ Len(all) > c /\ Len(all) - c + 1 = 2
    BY <1>6, <2>1
  <2> DEFINE s == SubSeq(all, 2, c + 1)
             t == Span(r, new, n)
  <2>3. s \in Seq(ToSet(all)) /\ Len(s) = c /\ \A i \in 1..c : s[i] = all[i + 1]
    <3>1. \A i \in 2..(c + 1) : all[i] \in ToSet(all)
      <4>1. DOMAIN all = 1..(c + 1) /\ \A i \in 2..(c + 1) : i \in 1..(c + 1)
        BY <1>6, <2>2
      <4> QED
        BY <4>1 DEF ToSet
    <3>2. /\ s \in Seq(ToSet(all)) /\ Len(s) = IF 2 <= c + 1 THEN c + 1 - 2 + 1 ELSE 0
          /\ \A i \in 1..(c + 1 - 2 + 1) : s[i] = all[2 + i - 1]
      BY <3>1, SubSeqProperties
    <3> QED
      BY <3>2
  <2>4. /\ t \in Seq(ToSet(t)) /\ Len(t) = c
        /\ \A i \in 1..c : t[i] = Numbered(r.page)[new + i - 1]
    <3>1. new <= n + 1 /\ n + 1 - new = c
      BY <2>1
    <3> QED
      BY <3>1, SpanIs
  <2> HIDE DEF s, t
  <2>5. ASSUME NEW i \in 1..c PROVE s[i] = t[i]
    <3>1. i + 1 \in 1..(n + 1 - from) /\ from + (i + 1) - 1 = new + i - 1
      BY <2>1, <2>2
    <3>2. all[i + 1] = Numbered(r.page)[new + i - 1]
      BY <1>6, <3>1
    <3> QED
      BY <2>3, <2>4, <2>5, <3>2
  <2> DEFINE T == ToSet(all) \cup ToSet(t)
  <2>6. s \in Seq(T) /\ t \in Seq(T)
    BY <2>3, <2>4
  <2> HIDE DEF T
  <2>7. s = t
    BY <2>3, <2>4, <2>5, <2>6
  <2>8. Remembered(Span(r, from, n - 1), Numbered(r.page)[n], c) = s
    BY <2>2 DEF Remembered, all, s
  <2> QED
    BY <1>1, <1>2, <1>3, <2>7, <2>8 DEF t
<1> QED
  BY <1>7, <1>8

-----------------------------------------------------------------------------
(* Rows in the order of their lines                                        *)

RowLines(s) == {row.line : row \in ToSet(s)}

\* Rows in a sequence, a line before a later one.
Rises(s) ==
  /\ s \in Seq(ToSet(s))
  /\ RowLines(s) \subseteq Nat
  /\ \A i, j \in 1..Len(s) : i < j => s[i].line < s[j].line

Below(s, t) == \A m \in RowLines(s), n \in RowLines(t) : m < n

LEMMA InSet ==
  ASSUME NEW s, s \in Seq(ToSet(s))
  PROVE  /\ \A i \in 1..Len(s) : s[i] \in ToSet(s) /\ s[i].line \in RowLines(s)
         /\ \A x \in ToSet(s) : \E i \in 1..Len(s) : s[i] = x
<1>1. DOMAIN s = 1..Len(s)
  OBVIOUS
<1> QED
  BY <1>1 DEF ToSet, RowLines

LEMMA NoRows == Rises(<<>>) /\ ToSet(<<>>) = {} /\ RowLines(<<>>) = {}
<1>1. ToSet(<<>>) = {}
  BY DEF ToSet
<1>2. RowLines(<<>>) = {}
  BY <1>1 DEF RowLines
<1>3. <<>> \in Seq({}) /\ Len(<<>>) = 0 /\ 1..0 = {}
  OBVIOUS
<1> QED
  BY <1>1, <1>2, <1>3 DEF Rises

LEMMA OneRow ==
  ASSUME NEW x, x.line \in Nat
  PROVE  Rises(<<x>>) /\ ToSet(<<x>>) = {x} /\ RowLines(<<x>>) = {x.line}
<1>1. ToSet(<<x>>) = {x}
  BY DEF ToSet
<1>2. RowLines(<<x>>) = {x.line}
  BY <1>1 DEF RowLines
<1>3. <<x>> \in Seq({x}) /\ Len(<<x>>) = 1
  OBVIOUS
<1>4. \A i, j \in 1..1 : ~(i < j)
  OBVIOUS
<1> QED
  BY <1>1, <1>2, <1>3, <1>4 DEF Rises

LEMMA PickRises ==
  ASSUME NEW s, Rises(s), NEW places
  PROVE  /\ Rises(Picked(s, places))
         /\ ToSet(Picked(s, places)) = {s[i] : i \in places \cap 1..Len(s)}
<1> DEFINE p == Picked(s, places)
<1>1. s \in Seq(ToSet(s)) /\ RowLines(s) \subseteq Nat
  BY DEF Rises
<1>2. PICK e : Picks(e, Len(s), s, places, p)
  BY <1>1, PickedIs
<1> HIDE DEF p
<1>3. /\ p \in Seq(ToSet(s)) /\ e \in [1..Len(p) -> places \cap 1..Len(s)]
      /\ \A k \in 1..Len(p) : p[k] = s[e[k]]
      /\ \A k, l \in 1..Len(p) : k < l => e[k] < e[l]
      /\ \A i \in places \cap 1..Len(s) : \E k \in 1..Len(p) : e[k] = i
  BY <1>2 DEF Picks
<1>4. ToSet(p) = {s[i] : i \in places \cap 1..Len(s)}
  <2>1. DOMAIN p = 1..Len(p)
    BY <1>3
  <2>2. \A k \in 1..Len(p) : e[k] \in places \cap 1..Len(s)
    BY <1>3
  <2>3. ToSet(p) = {p[k] : k \in 1..Len(p)}
    BY <2>1 DEF ToSet
  <2>4. \A k \in 1..Len(p) : p[k] \in {s[i] : i \in places \cap 1..Len(s)}
    BY <1>3, <2>2
  <2>5. \A i \in places \cap 1..Len(s) : \E k \in 1..Len(p) : p[k] = s[i]
    BY <1>3
  <2> QED
    BY <2>3, <2>4, <2>5
<1>5. p \in Seq(ToSet(p))
  <2>1. \A i \in 1..Len(p) : p[i] \in ToSet(p)
    <3>1. DOMAIN p = 1..Len(p)
      BY <1>3
    <3> QED
      BY <3>1 DEF ToSet
  <2>2. p = [i \in 1..Len(p) |-> p[i]] /\ Len(p) \in Nat
    BY <1>3
  <2> QED
    BY <2>1, <2>2
<1>6. RowLines(p) \subseteq Nat
  <2>1. ToSet(p) \subseteq ToSet(s)
    BY <1>1, <1>4, InSet
  <2> QED
    BY <1>1, <2>1 DEF RowLines
<1>7. ASSUME NEW i \in 1..Len(p), NEW j \in 1..Len(p), i < j PROVE p[i].line < p[j].line
  <2>1. e[i] \in 1..Len(s) /\ e[j] \in 1..Len(s) /\ e[i] < e[j]
    BY <1>3, <1>7
  <2>2. s[e[i]].line < s[e[j]].line
    BY <2>1 DEF Rises
  <2> QED
    BY <1>3, <2>2
<1> QED
  BY <1>4, <1>5, <1>6, <1>7 DEF Rises, p

LEMMA JoinRises ==
  ASSUME NEW s, Rises(s), NEW t, Rises(t), Below(s, t)
  PROVE  Rises(s \o t) /\ ToSet(s \o t) = ToSet(s) \cup ToSet(t)
<1> DEFINE u == s \o t
           T == ToSet(s) \cup ToSet(t)
<1>1. s \in Seq(ToSet(s)) /\ t \in Seq(ToSet(t)) /\ RowLines(s) \subseteq Nat /\ RowLines(t) \subseteq Nat
  BY DEF Rises
<1>2. PICK m \in Nat, n \in Nat : m = Len(s) /\ n = Len(t)
  BY <1>1
<1>3. s \in Seq(T) /\ t \in Seq(T)
  BY <1>1
<1> HIDE DEF T
<1>4. /\ u \in Seq(T) /\ Len(u) = m + n
      /\ \A i \in 1..(m + n) : u[i] = IF i <= m THEN s[i] ELSE t[i - m]
  BY <1>2, <1>3, ConcatProperties
<1> HIDE DEF u
<1>5. \A i \in 1..m : i \in 1..(m + n) /\ i <= m
  OBVIOUS
<1>6. \A i \in 1..n : i + m \in 1..(m + n) /\ ~(i + m <= m) /\ (i + m) - m = i
  OBVIOUS
<1>7. \A i \in 1..(m + n) : (i <= m => i \in 1..m) /\ (~(i <= m) => i - m \in 1..n)
  OBVIOUS
<1>8. ToSet(u) = T
  <2>1. DOMAIN u = 1..(m + n) /\ DOMAIN s = 1..m /\ DOMAIN t = 1..n
    BY <1>1, <1>2, <1>4
  <2>2. \A i \in 1..m : u[i] = s[i]
    BY <1>4, <1>5
  <2>3. \A i \in 1..n : u[i + m] = t[i]
    BY <1>4, <1>6
  <2>4. \A i \in 1..(m + n) : u[i] \in T
    <3>1. (\A i \in 1..m : s[i] \in T) /\ (\A i \in 1..n : t[i] \in T)
      BY <1>2, <1>3
    <3> QED
      BY <1>4, <1>7, <3>1
  <2>5. ToSet(u) = {u[i] : i \in 1..(m + n)} /\ ToSet(s) = {s[i] : i \in 1..m} /\ ToSet(t) = {t[i] : i \in 1..n}
    BY <2>1 DEF ToSet
  <2>6. ASSUME NEW x \in T PROVE x \in ToSet(u)
    <3>1. CASE x \in ToSet(s)
      BY <1>5, <2>2, <2>5, <3>1
    <3>2. CASE x \in ToSet(t)
      BY <1>6, <2>3, <2>5, <3>2
    <3> QED
      BY <2>6, <3>1, <3>2 DEF T
  <2> QED
    BY <2>4, <2>5, <2>6
<1>9. RowLines(u) \subseteq Nat
  BY <1>1, <1>8 DEF RowLines, T
<1>10. ASSUME NEW i \in 1..(m + n), NEW j \in 1..(m + n), i < j PROVE u[i].line < u[j].line
  <2>1. CASE j <= m
    <3>1. i \in 1..m /\ j \in 1..m /\ u[i] = s[i] /\ u[j] = s[j]
      BY <1>4, <1>10, <2>1
    <3> QED
      BY <1>2, <1>10, <3>1 DEF Rises
  <2>2. CASE ~(i <= m)
    <3>1. /\ i - m \in 1..n /\ j - m \in 1..n /\ i - m < j - m
          /\ u[i] = t[i - m] /\ u[j] = t[j - m]
      BY <1>4, <1>10, <2>2
    <3> QED
      BY <1>2, <3>1 DEF Rises
  <2>3. CASE i <= m /\ ~(j <= m)
    <3>1. i \in 1..m /\ j - m \in 1..n /\ u[i] = s[i] /\ u[j] = t[j - m]
      BY <1>4, <1>7, <2>3
    <3>2. s[i].line \in RowLines(s) /\ t[j - m].line \in RowLines(t)
      BY <1>1, <1>2, <3>1, InSet
    <3> QED
      BY <3>1, <3>2 DEF Below
  <2> QED
    BY <2>1, <2>2, <2>3
<1>11. u \in Seq(ToSet(u))
  BY <1>4, <1>8
<1> QED
  BY <1>4, <1>8, <1>9, <1>10, <1>11 DEF Rises, u, T

LEMMA TailRises ==
  ASSUME NEW s, Rises(s), s # <<>>
  PROVE  /\ Rises(Tail(s)) /\ Head(s) \in ToSet(s) /\ ToSet(s) = {Head(s)} \cup ToSet(Tail(s))
         /\ \A n \in RowLines(Tail(s)) : Head(s).line < n
<1> DEFINE t == Tail(s)
<1>1. s \in Seq(ToSet(s)) /\ RowLines(s) \subseteq Nat
  BY DEF Rises
<1>2. PICK m \in Nat : m = Len(s) /\ m # 0
  BY <1>1
<1>3. /\ t \in Seq(ToSet(s)) /\ Len(t) = m - 1 /\ Head(s) = s[1]
      /\ \A i \in 1..(m - 1) : t[i] = s[i + 1]
  BY <1>1, <1>2
<1> HIDE DEF t
<1>4. /\ DOMAIN s = 1..m /\ DOMAIN t = 1..(m - 1) /\ 1 \in 1..m
      /\ \A i \in 1..(m - 1) : i + 1 \in 1..m /\ 1 < i + 1
      /\ \A i \in 1..m : i = 1 \/ (i - 1 \in 1..(m - 1) /\ (i - 1) + 1 = i)
  BY <1>1, <1>2, <1>3
<1>5. ToSet(s) = {Head(s)} \cup ToSet(t)
  <2>1. ToSet(s) = {s[i] : i \in 1..m} /\ ToSet(t) = {t[i] : i \in 1..(m - 1)}
    BY <1>4 DEF ToSet
  <2>2. ASSUME NEW i \in 1..m PROVE s[i] \in {Head(s)} \cup ToSet(t)
    <3>1. i = 1 \/ (i - 1 \in 1..(m - 1) /\ t[i - 1] = s[i])
      BY <1>3, <1>4
    <3> QED
      BY <1>3, <2>1, <3>1
  <2>3. \A i \in 1..(m - 1) : t[i] \in ToSet(s)
    BY <1>3, <1>4, <2>1
  <2>4. Head(s) \in ToSet(s)
    BY <1>3, <1>4, <2>1
  <2> QED
    BY <2>1, <2>2, <2>3, <2>4
<1>6. Rises(t)
  <2>1. \A i \in 1..(m - 1) : t[i] \in ToSet(t)
    BY <1>4 DEF ToSet
  <2>2. t \in Seq(ToSet(t))
    <3>1. t = [i \in 1..(m - 1) |-> t[i]] /\ m - 1 \in Nat
      BY <1>2, <1>3
    <3> QED
      BY <2>1, <3>1
  <2>3. RowLines(t) \subseteq Nat
    BY <1>1, <1>5 DEF RowLines
  <2>4. ASSUME NEW i \in 1..(m - 1), NEW j \in 1..(m - 1), i < j PROVE t[i].line < t[j].line
    <3>1. i + 1 \in 1..m /\ j + 1 \in 1..m /\ i + 1 < j + 1
      BY <1>2, <2>4
    <3>2. s[i + 1].line < s[j + 1].line
      BY <1>2, <3>1 DEF Rises
    <3> QED
      BY <1>3, <3>2
  <2> QED
    BY <1>3, <2>2, <2>3, <2>4 DEF Rises
<1>7. ASSUME NEW n \in RowLines(t) PROVE Head(s).line < n
  <2>1. PICK i \in 1..(m - 1) : t[i].line = n
    BY <1>4 DEF RowLines, ToSet
  <2>2. s[1].line < s[i + 1].line
    BY <1>2, <1>4 DEF Rises
  <2> QED
    BY <1>3, <2>1, <2>2
<1> QED
  BY <1>3, <1>5, <1>6, <1>7 DEF t

-----------------------------------------------------------------------------
(* A page searched, for any pages and requests                             *)

\* The matches among the first k lines.
HitsTo(r, k) == {n \in 1..k : r.page[n].hit}

\* What a scan has when it has read k lines: a match waits for context that the
\* page still has, is ready with all it can have, or was sent; it is in one of
\* the three, and those sent are before those ready, and these before the rest.
ScanIs(r, k, before, waiting, ready, given) ==
  /\ before = Span(r, From(r, k + 1), k)
  /\ Rises(waiting) /\ Rises(ready) /\ Rises(given)
  /\ Below(given, ready) /\ Below(given, waiting) /\ Below(ready, waiting)
  /\ \A row \in ToSet(waiting) : row = RowAt(r, row.line, k) /\ k < row.line + r.context
  /\ \A row \in ToSet(ready) : row = RowAt(r, row.line, Until(r, row.line))
  /\ \A row \in ToSet(given) : row = ClipRow(RowAt(r, row.line, Until(r, row.line)), r.clip)
  /\ RowLines(given) \cup RowLines(ready) \cup RowLines(waiting) = HitsTo(r, k)

Request(r) ==
  /\ r.page \in Seq([hit : BOOLEAN, size : Nat])
  /\ r.context \in Nat /\ r.limit \in Nat /\ r.clip \in Nat

LEMMA LineAt ==
  ASSUME NEW r, Request(r), NEW n \in 1..Len(r.page)
  PROVE  /\ Numbered(r.page)[n] = [at |-> n, size |-> r.page[n].size]
         /\ r.page[n].size \in Nat /\ r.page[n].hit \in BOOLEAN
<1> DEFINE T == [hit : BOOLEAN, size : Nat]
<1>1. r.page[n] \in T
  <2>1. r.page \in Seq(T)
    BY DEF Request
  <2> HIDE DEF T
  <2> QED
    BY <2>1
<1>2. r.page[n].size \in Nat /\ r.page[n].hit \in BOOLEAN
  BY <1>1
<1>3. Numbered(r.page)[n] = [at |-> n, size |-> r.page[n].size]
  BY DEF Numbered
<1> QED
  BY <1>2, <1>3

\* A match with one line more.
LEMMA RowGrows ==
  ASSUME NEW r, NEW k \in Nat, NEW n \in 1..k, NEW row, row = RowAt(r, n, k)
  PROVE  [row EXCEPT !.after = Append(@, Numbered(r.page)[k + 1])] = RowAt(r, n, k + 1)
<1>1. n + 1 \in Int /\ k + 1 \in Int /\ n + 1 <= k + 1 /\ (k + 1) - 1 = k
  OBVIOUS
<1>2. Append(Span(r, n + 1, k), Numbered(r.page)[k + 1]) = Span(r, n + 1, k + 1)
  BY <1>1, SpanGrows
<1>3. row.after = Span(r, n + 1, k)
  BY DEF RowAt
<1>4. [row EXCEPT !.after = Append(@, Numbered(r.page)[k + 1])]
        = [line |-> row.line, content |-> row.content, before |-> row.before,
           after |-> Append(row.after, Numbered(r.page)[k + 1])]
  <2> DEFINE l == Numbered(r.page)[k + 1]
             content == Numbered(r.page)[n]
             before == Span(r, From(r, n), n - 1)
             after == Span(r, n + 1, k)
  <2>1. row = [line |-> n, content |-> content, before |-> before, after |-> after]
    BY DEF RowAt
  <2> HIDE DEF l, content, before, after
  <2>2. [row EXCEPT !.after = Append(@, l)]
          = [line |-> row.line, content |-> row.content, before |-> row.before,
             after |-> Append(row.after, l)]
    BY <2>1
  <2> QED
    BY <2>2 DEF l
<1> QED
  BY <1>2, <1>3, <1>4 DEF RowAt

LEMMA RowAtIs ==
  ASSUME NEW r, NEW n, NEW to
  PROVE  /\ RowAt(r, n, to).line = n /\ RowAt(r, n, to).after = Span(r, n + 1, to)
         /\ ClipRow(RowAt(r, n, to), r.clip).line = n
  BY DEF RowAt, ClipRow

\* Before the first line nothing is found.
LEMMA ScanBegins ==
  ASSUME NEW r, Request(r)
  PROVE  ScanIs(r, 0, <<>>, <<>>, <<>>, <<>>)
<1>1. From(r, 0 + 1) = 1
  BY MaxOf DEF Request, From
<1>2. Span(r, 1, 0) = <<>>
  <2>1. 1 \in Int /\ 0 \in Int /\ 1 <= 0 + 1 /\ 0 + 1 - 1 = 0
    OBVIOUS
  <2>2. Span(r, 1, 0) \in Seq(ToSet(Span(r, 1, 0))) /\ Len(Span(r, 1, 0)) = 0
    BY <2>1, SpanIs
  <2> DEFINE s == Span(r, 1, 0)
  <2> HIDE DEF s
  <2>3. s = <<>>
    BY <2>2 DEF s
  <2> QED
    BY <2>3 DEF s
<1>3. HitsTo(r, 0) = {}
  BY DEF HitsTo
<1> QED
  BY <1>1, <1>2, <1>3, NoRows DEF ScanIs, Below

\* A row is sent.
LEMMA ScanSends ==
  ASSUME NEW r, NEW k, NEW before, NEW waiting, NEW ready, NEW given,
         ScanIs(r, k, before, waiting, ready, given), ready # <<>>
  PROVE  ScanIs(r, k, before, waiting, Tail(ready), Append(given, ClipRow(Head(ready), r.clip)))
<1> DEFINE first == Head(ready)
           rest == Tail(ready)
           new == ClipRow(first, r.clip)
           more == Append(given, new)
<1>1. /\ Rises(rest) /\ first \in ToSet(ready) /\ ToSet(ready) = {first} \cup ToSet(rest)
      /\ \A n \in RowLines(rest) : first.line < n
  BY TailRises DEF ScanIs
<1>2. RowLines(ready) = {first.line} \cup RowLines(rest) /\ first.line \in Nat
  BY <1>1 DEF RowLines, ScanIs, Rises
<1> HIDE DEF first, rest
<1>3. first = RowAt(r, first.line, Until(r, first.line))
  BY <1>1 DEF ScanIs
<1>4. new.line = first.line /\ new = ClipRow(RowAt(r, new.line, Until(r, new.line)), r.clip)
  BY <1>3, RowAtIs
<1> HIDE DEF new
<1>5. Rises(<<new>>) /\ ToSet(<<new>>) = {new} /\ RowLines(<<new>>) = {new.line}
  BY <1>2, <1>4, OneRow
<1>6. Below(given, <<new>>)
  BY <1>2, <1>4, <1>5 DEF Below, ScanIs
<1>7. more = given \o <<new>>
  BY DEF ScanIs, Rises
<1>8. Rises(more) /\ ToSet(more) = ToSet(given) \cup {new}
  BY <1>5, <1>6, <1>7, JoinRises DEF ScanIs
<1>9. RowLines(more) = RowLines(given) \cup {new.line}
  BY <1>8 DEF RowLines
<1> HIDE DEF more
<1>10. Below(more, rest) /\ Below(more, waiting) /\ Below(rest, waiting)
  BY <1>1, <1>2, <1>4, <1>9 DEF Below, ScanIs
<1>11. RowLines(more) \cup RowLines(rest) \cup RowLines(waiting) = HitsTo(r, k)
  BY <1>2, <1>4, <1>9 DEF ScanIs
<1>12. \A row \in ToSet(more) : row = ClipRow(RowAt(r, row.line, Until(r, row.line)), r.clip)
  BY <1>4, <1>8 DEF ScanIs
<1>13. \A row \in ToSet(rest) : row = RowAt(r, row.line, Until(r, row.line))
  BY <1>1 DEF ScanIs
<1>14. ScanIs(r, k, before, waiting, rest, more)
  BY <1>1, <1>8, <1>10, <1>11, <1>12, <1>13 DEF ScanIs
<1> QED
  BY <1>14 DEF rest, more, new, first

\* The page has ended.
LEMMA ScanRests ==
  ASSUME NEW r, Request(r), NEW before, NEW waiting, NEW given,
         ScanIs(r, Len(r.page), before, waiting, <<>>, given)
  PROVE  ScanIs(r, Len(r.page), before, <<>>, waiting, given)
<1> DEFINE N == Len(r.page)
<1>1. N \in Nat /\ r.context \in Nat
  BY DEF Request
<1>2. ASSUME NEW row \in ToSet(waiting)
      PROVE  row = RowAt(r, row.line, Until(r, row.line))
  <2>1. row.line \in Nat
    BY DEF ScanIs, Rises, RowLines
  <2>2. N < row.line + r.context /\ row = RowAt(r, row.line, N)
    BY DEF ScanIs
  <2>3. Until(r, row.line) = N
    BY <1>1, <2>1, <2>2, MinOf DEF Until
  <2> QED
    BY <2>2, <2>3
<1>3. Below(given, <<>>) /\ Below(waiting, <<>>)
  BY NoRows DEF Below
<1> QED
  BY <1>2, <1>3, NoRows DEF ScanIs

\* The next line, and what its reading makes of the matches that wait.
Reads(r, k, before, waiting, l, grown, full, hits) ==
  /\ l = Numbered(r.page)[k + 1]
  /\ grown = [i \in DOMAIN waiting |-> [waiting[i] EXCEPT !.after = Append(@, l)]]
  /\ full = {i \in DOMAIN grown : Len(grown[i].after) >= r.context}
  /\ hits = IF r.page[l.at].hit
            THEN <<[line |-> l.at, content |-> l, before |-> before, after |-> <<>>]>>
            ELSE <<>>

\* The matches that wait, with one line more: those that then have all of
\* their context are the ones in the line that is as far back as it reaches.
IsGrown(r, k, waiting, grown, full) ==
  /\ Rises(grown) /\ RowLines(grown) = RowLines(waiting)
  /\ \A row \in ToSet(grown) :
       /\ row.line \in 1..k /\ k + 1 <= row.line + r.context
       /\ row = RowAt(r, row.line, k + 1)
  /\ full = {i \in 1..Len(grown) : grown[i].line + r.context = k + 1}

LEMMA GrownIs ==
  ASSUME NEW r, Request(r), NEW k \in Nat, NEW waiting, Rises(waiting),
         \A row \in ToSet(waiting) :
           row.line \in 1..k /\ row = RowAt(r, row.line, k) /\ k < row.line + r.context,
         NEW before, NEW l, NEW grown, NEW full, NEW hits,
         Reads(r, k, before, waiting, l, grown, full, hits)
  PROVE  IsGrown(r, k, waiting, grown, full)
<1>1. waiting \in Seq(ToSet(waiting)) /\ r.context \in Nat
  BY DEF Rises, Request
<1>2. PICK m \in Nat, c \in Nat : m = Len(waiting) /\ c = r.context
  BY <1>1
<1>3. DOMAIN waiting = 1..m /\ DOMAIN grown = 1..m
  BY <1>1, <1>2 DEF Reads
<1>4. ASSUME NEW i \in 1..m
      PROVE  /\ waiting[i] \in ToSet(waiting) /\ waiting[i].line \in 1..k
             /\ grown[i] = RowAt(r, waiting[i].line, k + 1)
             /\ grown[i].line = waiting[i].line
             /\ k + 1 <= waiting[i].line + c
             /\ Len(grown[i].after) = k + 1 - waiting[i].line
  <2>1. waiting[i] \in ToSet(waiting)
    BY <1>1, <1>2, InSet
  <2>2. PICK n \in 1..k : n = waiting[i].line /\ waiting[i] = RowAt(r, n, k) /\ k < n + c
    BY <1>2, <2>1
  <2>3. [waiting[i] EXCEPT !.after = Append(@, Numbered(r.page)[k + 1])] = RowAt(r, n, k + 1)
    <3>1. PICK w : w = waiting[i] /\ w = RowAt(r, n, k)
      BY <2>2
    <3>2. [w EXCEPT !.after = Append(@, Numbered(r.page)[k + 1])] = RowAt(r, n, k + 1)
      BY <3>1, RowGrows
    <3> QED
      BY <3>1, <3>2
  <2>4. grown[i] = RowAt(r, n, k + 1)
    <3>1. grown[i] = [waiting[i] EXCEPT !.after = Append(@, l)] /\ l = Numbered(r.page)[k + 1]
      BY <1>3 DEF Reads
    <3> QED
      BY <2>3, <3>1
  <2>5. grown[i].line = n /\ grown[i].after = Span(r, n + 1, k + 1)
    BY <2>4, RowAtIs
  <2>6. n + 1 \in Int /\ k + 1 \in Int /\ n + 1 <= (k + 1) + 1 /\ (k + 1) + 1 - (n + 1) = k + 1 - n
    OBVIOUS
  <2>7. Len(Span(r, n + 1, k + 1)) = k + 1 - n
    BY <2>6, SpanIs
  <2>8. k + 1 <= n + c
    BY <2>2
  <2> QED
    BY <2>1, <2>2, <2>4, <2>5, <2>7, <2>8
<1>5. ToSet(grown) = {grown[i] : i \in 1..m} /\ ToSet(waiting) = {waiting[i] : i \in 1..m}
  BY <1>3 DEF ToSet
<1>6. grown \in Seq(ToSet(grown)) /\ Len(grown) = m
  <2>1. grown = [i \in 1..m |-> grown[i]]
    BY <1>3 DEF Reads
  <2>2. \A i \in 1..m : grown[i] \in ToSet(grown)
    BY <1>5
  <2> QED
    BY <2>1, <2>2
<1>7. RowLines(grown) = RowLines(waiting)
  <2>1. RowLines(grown) = {grown[i].line : i \in 1..m}
    BY <1>5 DEF RowLines
  <2>2. RowLines(waiting) = {waiting[i].line : i \in 1..m}
    BY <1>5 DEF RowLines
  <2>3. \A i \in 1..m : grown[i].line = waiting[i].line
    BY <1>4
  <2> QED
    BY <2>1, <2>2, <2>3
<1>8. Rises(grown)
  <2>1. \A i, j \in 1..m : i < j => grown[i].line < grown[j].line
    BY <1>2, <1>4 DEF Rises
  <2>2. RowLines(grown) \subseteq Nat
    BY <1>7 DEF Rises
  <2> QED
    BY <1>6, <2>1, <2>2 DEF Rises
<1>9. ASSUME NEW row \in ToSet(grown)
      PROVE  row.line \in 1..k /\ k + 1 <= row.line + r.context /\ row = RowAt(r, row.line, k + 1)
  <2>1. PICK i \in 1..m : row = grown[i]
    BY <1>5
  <2> QED
    BY <1>2, <1>4, <2>1
<1>10. full = {i \in 1..m : grown[i].line + r.context = k + 1}
  <2>1. ASSUME NEW i \in 1..m
        PROVE  Len(grown[i].after) >= r.context <=> grown[i].line + r.context = k + 1
    <3>1. PICK n \in 1..k : n = waiting[i].line
      BY <1>4
    <3>2. Len(grown[i].after) = k + 1 - n /\ grown[i].line = n /\ k + 1 <= n + c
      BY <1>4, <3>1
    <3> QED
      BY <1>2, <3>2
  <2>2. full = {i \in 1..m : Len(grown[i].after) >= r.context}
    BY <1>3 DEF Reads
  <2> QED
    BY <2>1, <2>2
<1> QED
  BY <1>6, <1>7, <1>8, <1>9, <1>10 DEF IsGrown

\* A match in the line itself.
LEMMA FoundIs ==
  ASSUME NEW r, Request(r), NEW k \in Nat, k < Len(r.page),
         NEW before, before = Span(r, From(r, k + 1), k),
         NEW waiting, NEW l, NEW grown, NEW full, NEW hits,
         Reads(r, k, before, waiting, l, grown, full, hits)
  PROVE  /\ l = Numbered(r.page)[k + 1]
         /\ hits = IF r.page[k + 1].hit THEN <<RowAt(r, k + 1, k + 1)>> ELSE <<>>
<1>1. Len(r.page) \in Nat /\ k + 1 \in 1..Len(r.page)
  BY DEF Request
<1>2. l = Numbered(r.page)[k + 1] /\ l.at = k + 1
  <2>1. Numbered(r.page)[k + 1].at = k + 1
    <3>1. PICK n \in 1..Len(r.page) : n = k + 1
      BY <1>1
    <3>2. Numbered(r.page)[n] = [at |-> n, size |-> r.page[n].size]
      BY LineAt
    <3> QED
      BY <3>1, <3>2
  <2> QED
    BY <2>1 DEF Reads
<1>3. Span(r, k + 1 + 1, k + 1) = <<>>
  <2> DEFINE s == Span(r, k + 1 + 1, k + 1)
  <2>1. k + 1 + 1 \in Int /\ k + 1 \in Int /\ k + 1 + 1 <= (k + 1) + 1 /\ (k + 1) + 1 - (k + 1 + 1) = 0
    OBVIOUS
  <2>2. s \in Seq(ToSet(s)) /\ Len(s) = 0
    BY <2>1, SpanIs
  <2> HIDE DEF s
  <2>3. s = <<>>
    BY <2>2
  <2> QED
    BY <2>3 DEF s
<1>4. (k + 1) - 1 = k
  OBVIOUS
<1>5. RowAt(r, k + 1, k + 1)
        = [line |-> l.at, content |-> l, before |-> before, after |-> <<>>]
  <2> DEFINE from == From(r, k + 1)
             last == k + 1 - 1
             after == Span(r, k + 1 + 1, k + 1)
  <2>1. before = Span(r, from, k)
    OBVIOUS
  <2>2. last = k
    BY <1>4
  <2>3. RowAt(r, k + 1, k + 1)
          = [line |-> k + 1, content |-> Numbered(r.page)[k + 1],
             before |-> Span(r, from, last), after |-> after]
    BY DEF RowAt
  <2>4. after = <<>>
    BY <1>3
  <2> HIDE DEF from, last, after
  <2>5. Span(r, from, last) = before
    BY <2>1, <2>2
  <2> QED
    BY <1>2, <2>3, <2>4, <2>5
<1> QED
  BY <1>2, <1>5 DEF Reads

\* A line is read.
LEMMA ScanReads ==
  ASSUME NEW r, Request(r), NEW k \in Nat, k < Len(r.page),
         NEW before, NEW waiting, NEW given, ScanIs(r, k, before, waiting, <<>>, given),
         NEW l, NEW grown, NEW full, NEW hits,
         Reads(r, k, before, waiting, l, grown, full, hits)
  PROVE  ScanIs(r, k + 1, Remembered(before, l, r.context),
                Picked(grown, DOMAIN grown \ full) \o (IF r.context > 0 THEN hits ELSE <<>>),
                Picked(grown, full) \o (IF r.context > 0 THEN <<>> ELSE hits), given)
<1>1. PICK N \in Nat, c \in Nat : N = Len(r.page) /\ c = r.context /\ k + 1 \in 1..N
  BY DEF Request
<1>2. /\ before = Span(r, From(r, k + 1), k) /\ Rises(waiting) /\ Rises(given)
      /\ Below(given, waiting)
      /\ \A row \in ToSet(waiting) : row = RowAt(r, row.line, k) /\ k < row.line + r.context
      /\ \A row \in ToSet(given) : row = ClipRow(RowAt(r, row.line, Until(r, row.line)), r.clip)
      /\ RowLines(given) \cup RowLines(waiting) = HitsTo(r, k)
  BY NoRows DEF ScanIs
<1>3. Remembered(before, l, r.context) = Span(r, From(r, k + 1 + 1), k + 1)
  <2>1. k + 1 \in Nat \ {0} /\ (k + 1) - 1 = k /\ r.context \in Nat
    BY <1>1
  <2>2. Remembered(Span(r, From(r, k + 1), (k + 1) - 1), Numbered(r.page)[k + 1], r.context)
          = Span(r, From(r, k + 1 + 1), k + 1)
    BY <2>1, RememberedIs
  <2>3. l = Numbered(r.page)[k + 1]
    BY DEF Reads
  <2>4. before = Span(r, From(r, k + 1), (k + 1) - 1)
    <3> DEFINE from == From(r, k + 1)
               last == (k + 1) - 1
    <3>1. before = Span(r, from, k)
      BY DEF ScanIs
    <3>2. last = k
      BY <2>1
    <3> HIDE DEF from, last
    <3>3. before = Span(r, from, last)
      BY <3>1, <3>2
    <3> QED
      BY <3>3 DEF from, last
  <2> QED
    BY <2>2, <2>3, <2>4, Zenon
<1>4. RowLines(given) \subseteq 1..k /\ RowLines(waiting) \subseteq 1..k
  BY <1>2 DEF HitsTo
<1>5. IsGrown(r, k, waiting, grown, full)
  <2>1. \A row \in ToSet(waiting) : row.line \in 1..k
    BY <1>4 DEF RowLines
  <2> QED
    BY <1>2, <2>1, GrownIs
<1>6. /\ Rises(grown) /\ RowLines(grown) = RowLines(waiting)
      /\ \A row \in ToSet(grown) :
           row.line \in 1..k /\ k + 1 <= row.line + c /\ row = RowAt(r, row.line, k + 1)
      /\ full = {i \in 1..Len(grown) : grown[i].line + c = k + 1}
  BY <1>1, <1>5 DEF IsGrown
<1> DEFINE all == Picked(grown, full)
           some == Picked(grown, DOMAIN grown \ full)
<1>7. /\ Rises(all) /\ Rises(some)
      /\ ToSet(all) = {grown[i] : i \in full \cap 1..Len(grown)}
      /\ ToSet(some) = {grown[i] : i \in (DOMAIN grown \ full) \cap 1..Len(grown)}
  BY <1>6, PickRises
<1>8. DOMAIN grown = 1..Len(grown) /\ \A i \in 1..Len(grown) : grown[i] \in ToSet(grown)
  BY <1>6, InSet DEF Rises
<1> HIDE DEF all, some
<1>9. \A row \in ToSet(all) : row \in ToSet(grown) /\ row.line + c = k + 1
  BY <1>6, <1>7, <1>8
<1>10. \A row \in ToSet(some) : row \in ToSet(grown) /\ row.line + c # k + 1
  BY <1>6, <1>7, <1>8
<1>11. ToSet(grown) = ToSet(all) \cup ToSet(some)
  <2>1. ToSet(grown) = {grown[i] : i \in 1..Len(grown)}
    BY <1>8 DEF ToSet
  <2> QED
    BY <1>6, <1>7, <1>8, <2>1
<1>12. RowLines(all) \cup RowLines(some) = RowLines(waiting)
  BY <1>6, <1>11 DEF RowLines
<1>13. \A row \in ToSet(some) : row = RowAt(r, row.line, k + 1) /\ k + 1 < row.line + c
  <2> SUFFICES ASSUME NEW row \in ToSet(some)
               PROVE  row = RowAt(r, row.line, k + 1) /\ k + 1 < row.line + c
    OBVIOUS
  <2>1. /\ row.line \in 1..k /\ k + 1 <= row.line + c /\ row.line + c # k + 1
        /\ row = RowAt(r, row.line, k + 1)
    BY <1>6, <1>10
  <2> QED
    BY <2>1
<1>14. \A row \in ToSet(all) : row = RowAt(r, row.line, Until(r, row.line))
  <2> SUFFICES ASSUME NEW row \in ToSet(all) PROVE row = RowAt(r, row.line, Until(r, row.line))
    OBVIOUS
  <2>1. row.line \in 1..k /\ row.line + c = k + 1 /\ row = RowAt(r, row.line, k + 1)
    BY <1>6, <1>9
  <2>2. Until(r, row.line) = k + 1
    BY <1>1, <2>1, MinOf DEF Until
  <2> QED
    BY <2>1, <2>2
<1> DEFINE held == IF r.context > 0 THEN hits ELSE <<>>
           due == IF r.context > 0 THEN <<>> ELSE hits
<1>15. PICK row : /\ row = RowAt(r, k + 1, k + 1) /\ row.line = k + 1
                  /\ hits = IF r.page[k + 1].hit THEN <<row>> ELSE <<>>
  BY <1>1, <1>2, FoundIs, RowAtIs
<1>16. /\ Rises(hits) /\ ToSet(hits) \subseteq {row}
       /\ RowLines(hits) = IF r.page[k + 1].hit THEN {k + 1} ELSE {}
  <2>1. k + 1 \in Nat
    OBVIOUS
  <2> QED
    BY <1>15, <2>1, OneRow, NoRows
<1>17. /\ Rises(held) /\ Rises(due)
       /\ ToSet(held) \subseteq {row} /\ ToSet(due) \subseteq {row}
       /\ RowLines(held) \cup RowLines(due) = RowLines(hits)
       /\ c > 0 => ToSet(due) = {}
       /\ c = 0 => ToSet(held) = {}
  BY <1>1, <1>16, NoRows
<1> HIDE DEF held, due
<1>18. RowLines(held) \subseteq {k + 1} /\ RowLines(due) \subseteq {k + 1}
  BY <1>15, <1>17 DEF RowLines
<1>19. RowLines(all) \subseteq 1..k /\ RowLines(some) \subseteq 1..k
  BY <1>4, <1>12
<1> DEFINE now == all \o due
           later == some \o held
<1>20. Below(all, due) /\ Below(some, held)
  BY <1>18, <1>19 DEF Below
<1>21. /\ Rises(now) /\ ToSet(now) = ToSet(all) \cup ToSet(due)
       /\ Rises(later) /\ ToSet(later) = ToSet(some) \cup ToSet(held)
  BY <1>7, <1>17, <1>20, JoinRises
<1> HIDE DEF now, later
<1>22. /\ RowLines(now) = RowLines(all) \cup RowLines(due)
       /\ RowLines(later) = RowLines(some) \cup RowLines(held)
  BY <1>21 DEF RowLines
<1>23. RowLines(given) \cup RowLines(now) \cup RowLines(later) = HitsTo(r, k + 1)
  <2>1. HitsTo(r, k + 1) = HitsTo(r, k) \cup (IF r.page[k + 1].hit THEN {k + 1} ELSE {})
    <3>1. 1..(k + 1) = 1..k \cup {k + 1}
      OBVIOUS
    <3> QED
      BY <3>1 DEF HitsTo
  <2> QED
    BY <1>2, <1>12, <1>16, <1>17, <1>22, <2>1
<1>24. Below(given, now) /\ Below(given, later)
  <2>1. \A m \in 1..k : m < k + 1
    OBVIOUS
  <2>2. RowLines(now) \subseteq RowLines(waiting) \cup {k + 1}
    BY <1>12, <1>18, <1>22
  <2>3. RowLines(later) \subseteq RowLines(waiting) \cup {k + 1}
    BY <1>12, <1>18, <1>22
  <2>4. \A m \in RowLines(given), n \in RowLines(waiting) \cup {k + 1} : m < n
    BY <1>2, <1>4, <2>1 DEF Below
  <2> QED
    BY <2>2, <2>3, <2>4 DEF Below
<1>25. Below(now, later)
  <2>1. ASSUME NEW m \in RowLines(now), NEW n \in RowLines(later) PROVE m < n
    <3>1. m \in 1..(k + 1) /\ n \in 1..(k + 1)
      BY <1>18, <1>19, <1>22
    <3>2. m \in RowLines(all) => m + c = k + 1
      BY <1>9 DEF RowLines
    <3>3. n \in RowLines(some) => k + 1 < n + c
      BY <1>13 DEF RowLines
    <3>4. m \in RowLines(due) => m = k + 1 /\ c = 0
      <4>1. m \in RowLines(due) => ToSet(due) # {} /\ m = k + 1
        BY <1>18 DEF RowLines
      <4> QED
        BY <1>17, <4>1
    <3>5. n \in RowLines(held) => n = k + 1 /\ c > 0
      <4>1. n \in RowLines(held) => ToSet(held) # {} /\ n = k + 1
        BY <1>18 DEF RowLines
      <4> QED
        BY <1>17, <4>1
    <3>6. n \in RowLines(some) => n \in 1..k
      BY <1>19
    <3>7. (m \in RowLines(all) \/ m \in RowLines(due)) /\ (n \in RowLines(some) \/ n \in RowLines(held))
      BY <1>22
    <3> QED
      BY <3>1, <3>2, <3>3, <3>4, <3>5, <3>6, <3>7
  <2> QED
    BY <2>1 DEF Below
<1>26. \A w \in ToSet(later) : w = RowAt(r, w.line, k + 1) /\ k + 1 < w.line + r.context
  <2>1. ASSUME NEW w \in ToSet(held) PROVE w = RowAt(r, w.line, k + 1) /\ k + 1 < w.line + c
    <3>1. w = row /\ c > 0
      BY <1>17
    <3> QED
      BY <1>15, <3>1
  <2> QED
    BY <1>1, <1>13, <1>21, <2>1
<1>27. \A w \in ToSet(now) : w = RowAt(r, w.line, Until(r, w.line))
  <2>1. ASSUME NEW w \in ToSet(due) PROVE w = RowAt(r, w.line, Until(r, w.line))
    <3>1. w = row /\ c = 0
      BY <1>17
    <3>2. Until(r, k + 1) = k + 1
      BY <1>1, <3>1, MinOf DEF Until
    <3> QED
      BY <1>15, <3>1, <3>2
  <2> QED
    BY <1>14, <1>21, <2>1
<1>28. ScanIs(r, k + 1, Remembered(before, l, r.context), later, now, given)
  BY <1>2, <1>3, <1>21, <1>23, <1>24, <1>25, <1>26, <1>27 DEF ScanIs
<1> QED
  BY <1>28 DEF later, now, held, due, all, some

\* What is shown of a line; of several; of a match.
LEMMA ClipIs ==
  ASSUME NEW r, Request(r), NEW n \in 1..Len(r.page)
  PROVE  ClipLine(Numbered(r.page)[n], r.clip) = [at |-> n, size |-> Min({r.page[n].size, r.clip})]
<1> DEFINE l == Numbered(r.page)[n]
<1>1. l = [at |-> n, size |-> r.page[n].size]
  BY LineAt
<1> HIDE DEF l
<1>2. ClipLine(l, r.clip) = [at |-> l.at, size |-> Min({l.size, r.clip})]
  BY <1>1 DEF ClipLine
<1> QED
  BY <1>1, <1>2 DEF l

LEMMA ClippedSpan ==
  ASSUME NEW r, Request(r), NEW from \in Nat \ {0}, NEW to \in Int,
         from <= to + 1, to <= Len(r.page)
  PROVE  [i \in DOMAIN Span(r, from, to) |-> ClipLine(Span(r, from, to)[i], r.clip)]
           = Around(r, from, to)
<1> DEFINE s == Span(r, from, to)
<1>1. DOMAIN s = 1..(to + 1 - from)
  BY DEF Span
<1>2. Len(r.page) \in Nat
  BY DEF Request
<1>3. \A i \in 1..(to + 1 - from) :
        ClipLine(s[i], r.clip)
          = [at |-> from + i - 1, size |-> Min({r.page[from + i - 1].size, r.clip})]
  <2> SUFFICES ASSUME NEW i \in 1..(to + 1 - from)
               PROVE  ClipLine(s[i], r.clip)
                        = [at |-> from + i - 1, size |-> Min({r.page[from + i - 1].size, r.clip})]
    OBVIOUS
  <2>1. PICK n \in 1..Len(r.page) : n = from + i - 1
    BY <1>2
  <2>2. s[i] = Numbered(r.page)[n]
    BY <2>1 DEF Span
  <2> HIDE DEF s
  <2> QED
    BY <2>1, <2>2, ClipIs
<1> HIDE DEF s
<1>4. [i \in DOMAIN s |-> ClipLine(s[i], r.clip)] = Around(r, from, to)
  BY <1>1, <1>3 DEF Around
<1> QED
  BY <1>4 DEF s

LEMMA ExactIs ==
  ASSUME NEW r, Request(r), NEW n \in 1..Len(r.page)
  PROVE  ClipRow(RowAt(r, n, Until(r, n)), r.clip) = Exact(r, n)
<1>1. PICK N \in Nat, c \in Nat : N = Len(r.page) /\ c = r.context
  BY DEF Request
<1>2. PICK from \in Nat \ {0} : from = From(r, n) /\ from <= n
  <2>1. From(r, n) = IF 1 >= n - c THEN 1 ELSE n - c
    BY <1>1, MaxOf DEF From
  <2> QED
    BY <2>1
<1>3. PICK to \in Nat : to = Until(r, n) /\ n <= to /\ to <= N
  <2>1. Until(r, n) = IF N <= n + c THEN N ELSE n + c
    BY <1>1, MinOf DEF Until
  <2> QED
    BY <1>1, <2>1
<1>4. PICK prev \in Int : prev = n - 1 /\ from <= prev + 1 /\ prev <= N
  BY <1>1, <1>2
<1>5. PICK next \in Nat \ {0} : next = n + 1 /\ next <= to + 1
  BY <1>3
<1> DEFINE before == Span(r, from, prev)
           after == Span(r, next, to)
           content == Numbered(r.page)[n]
<1>6. [i \in DOMAIN before |-> ClipLine(before[i], r.clip)] = Around(r, from, prev)
  BY <1>1, <1>4, ClippedSpan
<1>7. [i \in DOMAIN after |-> ClipLine(after[i], r.clip)] = Around(r, next, to)
  BY <1>1, <1>3, <1>5, ClippedSpan
<1>8. ClipLine(content, r.clip) = Around(r, n, n)[1]
  <2>1. 1 \in 1..(n + 1 - n) /\ n + 1 - 1 = n
    OBVIOUS
  <2>2. Around(r, n, n)[1] = [at |-> n, size |-> Min({r.page[n].size, r.clip})]
    BY <2>1 DEF Around
  <2> QED
    BY <2>2, ClipIs
<1> HIDE DEF before, after, content
<1>9. RowAt(r, n, to) = [line |-> n, content |-> content, before |-> before, after |-> after]
  BY <1>2, <1>4, <1>5 DEF RowAt, before, after, content
<1>10. ClipRow(RowAt(r, n, to), r.clip)
         = [line |-> n, content |-> Around(r, n, n)[1],
            before |-> Around(r, from, prev), after |-> Around(r, next, to)]
  BY <1>6, <1>7, <1>8, <1>9 DEF ClipRow
<1>11. Exact(r, n)
         = [line |-> n, content |-> Around(r, n, n)[1],
            before |-> Around(r, from, prev), after |-> Around(r, next, to)]
  BY <1>2, <1>3, <1>4, <1>5 DEF Exact, From, Until
<1> QED
  BY <1>3, <1>10, <1>11

ScanFields ==
  {"op", "phase", "request", "next", "before", "waiting", "ready", "rows", "taken"}

\* The search of a page.
GrepIs ==
  LET r == search.request
      k == search.next - 1
  IN  /\ ScanFields \subseteq DOMAIN search /\ search.op = "grep"
      /\ r \in GrepRequests /\ search.next \in Nat /\ k \in 0..Len(r.page)
      /\ ScanIs(r, k, search.before, search.waiting, search.ready, search.rows)
      /\ Len(search.rows) <= r.limit
      /\ search.phase = "rest" => search.waiting = <<>> /\ k = Len(r.page)
      /\ search.phase = "done" =>
           \/ Len(search.rows) = r.limit
           \/ search.ready = <<>> /\ search.waiting = <<>> /\ k = Len(r.page)

OtherIs == "op" \in DOMAIN search /\ search.op # "grep"

SearchInv == OtherIs \/ GrepIs

\* What an answer shows when it is complete.
LEMMA GrepIsDone == SearchInv => GrepIsExact
<1> SUFFICES ASSUME SearchInv, search.phase = "done", search.op = "grep" PROVE GrepIsExact
  BY DEF GrepIsExact
<1> DEFINE r == search.request
           shown == {row.line : row \in ToSet(search.rows)}
           hits == {n \in DOMAIN r.page : r.page[n].hit}
<1>1. PICK k \in Nat, N \in Nat : k = search.next - 1 /\ N = Len(r.page) /\ k \in 0..N /\ Request(r)
  <2>1. GrepIs
    BY DEF SearchInv, OtherIs
  <2>2. Request(r) /\ search.next \in Nat /\ search.next - 1 \in 0..Len(r.page)
    BY <2>1, SearchAssumption DEF GrepIs, Request
  <2> QED
    BY <2>2 DEF Request
<1>2. /\ ScanIs(r, k, search.before, search.waiting, search.ready, search.rows)
      /\ Len(search.rows) <= r.limit
      /\ \/ Len(search.rows) = r.limit
         \/ search.ready = <<>> /\ search.waiting = <<>> /\ k = N
  BY <1>1 DEF SearchInv, OtherIs, GrepIs
<1> HIDE DEF r
<1>3. hits = HitsTo(r, N)
  <2>1. DOMAIN r.page = 1..N
    BY <1>1 DEF Request
  <2> QED
    BY <2>1 DEF HitsTo
<1>4. shown = RowLines(search.rows)
  BY DEF RowLines
<1> HIDE DEF shown, hits
<1>5. RowLines(search.rows) \cup RowLines(search.ready) \cup RowLines(search.waiting) = HitsTo(r, k)
  BY <1>2 DEF ScanIs
<1>6. HitsTo(r, k) \subseteq HitsTo(r, N) /\ HitsTo(r, k) \subseteq 1..k
      /\ \A n \in HitsTo(r, N) : n \in 1..k => n \in HitsTo(r, k)
  <2>1. 1..k \subseteq 1..N
    BY <1>1
  <2> QED
    BY <2>1 DEF HitsTo
<1>7. shown \subseteq hits
  BY <1>3, <1>4, <1>5, <1>6
<1>8. ASSUME NEW m \in shown, NEW n \in hits \ shown PROVE m < n
  <2>1. m \in 1..k /\ n \in 1..N
    BY <1>3, <1>4, <1>5, <1>6 DEF HitsTo
  <2>2. CASE n \in 1..k
    <3>1. n \in RowLines(search.ready) \cup RowLines(search.waiting)
      BY <1>3, <1>4, <1>5, <1>6, <1>8, <2>2
    <3> QED
      BY <1>2, <1>4, <3>1 DEF ScanIs, Below
  <2>3. CASE n \notin 1..k
    BY <1>1, <2>1, <2>3
  <2> QED
    BY <2>2, <2>3
<1>9. Len(search.rows) < r.limit => shown = hits
  <2> SUFFICES ASSUME Len(search.rows) < r.limit PROVE shown = hits
    OBVIOUS
  <2>1. Len(search.rows) \in Nat /\ r.limit \in Nat
    BY <1>1, <1>2 DEF ScanIs, Rises, Request
  <2>2. search.ready = <<>> /\ search.waiting = <<>> /\ k = N
    BY <1>2, <2>1
  <2> QED
    BY <1>3, <1>4, <1>5, <2>2, NoRows
<1>10. \A i, j \in DOMAIN search.rows : i < j => search.rows[i].line < search.rows[j].line
  <2>1. DOMAIN search.rows = 1..Len(search.rows)
    BY <1>2 DEF ScanIs, Rises
  <2> QED
    BY <1>2, <2>1 DEF ScanIs, Rises
<1>11. ASSUME NEW row \in ToSet(search.rows) PROVE row = Exact(r, row.line)
  <2>1. row.line \in RowLines(search.rows)
    BY DEF RowLines
  <2>2. PICK n \in 1..N : n = row.line
    BY <1>5, <1>6, <2>1 DEF HitsTo
  <2>3. row = ClipRow(RowAt(r, n, Until(r, n)), r.clip)
    BY <1>2, <2>2 DEF ScanIs
  <2> QED
    BY <1>1, <2>2, <2>3, ExactIs
<1> QED
  BY <1>2, <1>7, <1>8, <1>9, <1>10, <1>11, Zenon DEF GrepIsExact, shown, hits, r

LEMMA AskedGrep ==
  ASSUME NEW r \in GrepRequests, AskGrep(r)
  PROVE  SearchInv'
<1>1. Request(r)
  BY SearchAssumption DEF Request
<1>2. ScanIs(r, 0, <<>>, <<>>, <<>>, <<>>)
  BY <1>1, ScanBegins
<1>3. search' = [op |-> "grep", phase |-> "load", request |-> r, next |-> 1, before |-> <<>>,
                 waiting |-> <<>>, ready |-> <<>>, rows |-> <<>>, taken |-> 0]
  BY DEF AskGrep
<1>4. /\ search'.request = r /\ search'.next = 1 /\ search'.before = <<>> /\ search'.phase = "load"
      /\ search'.waiting = <<>> /\ search'.ready = <<>> /\ search'.rows = <<>> /\ search'.taken = 0
      /\ search'.op = "grep"
  BY <1>3
<1>5. Len(<<>>) <= r.limit /\ 1 - 1 = 0 /\ 0 \in 0..Len(r.page) /\ 1 \in Nat
  BY <1>1 DEF Request
<1>6. ScanFields \subseteq DOMAIN search'
  BY <1>3 DEF ScanFields
<1>7. GrepIs'
  BY <1>2, <1>4, <1>5, <1>6 DEF GrepIs
<1> QED
  BY <1>7 DEF SearchInv

LEMMA AskedOther ==
  ASSUME \/ \E r \in WindowRequests : AskWindow(r)
         \/ \E r \in ListRequests : AskSpaces(r)
         \/ \E r \in HitRequests : AskHits(r)
         \/ \E r \in WholeRequests : AskWhole(r)
  PROVE  SearchInv'
<1>1. OtherIs'
  BY DEF AskWindow, AskSpaces, AskHits, AskWhole, OtherIs
<1> QED
  BY <1>1 DEF SearchInv

\* A search of another kind stays one.
LEMMA OtherGoes ==
  ASSUME OtherIs,
         \/ LoadFails \/ Loaded \/ ScanLine \/ ScanEnds \/ SendRow \/ GrepEnds
         \/ SendLine \/ WindowEnds \/ ListSpaces \/ ListHits \/ FileFails \/ SendWhole
  PROVE  SearchInv'
<1>1. search.op # "grep" /\ "op" \in DOMAIN search
  BY DEF OtherIs
<1>2. ~ScanLine /\ ~ScanEnds /\ ~SendRow /\ ~GrepEnds
  BY <1>1, Zenon DEF ScanLine, ScanEnds, SendRow, GrepEnds
<1>3. CASE LoadFails \/ Loaded \/ FileFails \/ WindowEnds
  <2>1. \E p : search' = [search EXCEPT !.phase = p]
    BY <1>3, Zenon DEF LoadFails, Loaded, FileFails, WindowEnds
  <2> QED
    BY <1>1, <2>1 DEF OtherIs, SearchInv
<1>4. CASE SendLine
  <2>1. \/ \E p : search' = [search EXCEPT !.phase = p]
        \/ \E x, t : search' = [search EXCEPT !.rows = x, !.taken = t]
    BY <1>4 DEF SendLine
  <2> QED
    BY <1>1, <2>1 DEF OtherIs, SearchInv
<1>5. CASE ListSpaces \/ ListHits
  <2>1. \E p, x : search' = [search EXCEPT !.phase = p, !.rows = x]
    BY <1>5, Zenon DEF ListSpaces, ListHits
  <2> QED
    BY <1>1, <2>1 DEF OtherIs, SearchInv
<1>6. CASE SendWhole
  <2>1. \/ \E p : search' = [search EXCEPT !.phase = p]
        \/ \E p, x, t : search' = [search EXCEPT !.phase = p, !.rows = x, !.taken = t]
    BY <1>6 DEF SendWhole
  <2> QED
    BY <1>1, <2>1 DEF OtherIs, SearchInv
<1> QED
  BY <1>2, <1>3, <1>4, <1>5, <1>6

\* A page is loaded, or not; the scan ends, or is broken off.
LEMMA PhaseGoes ==
  ASSUME GrepIs, LoadFails \/ Loaded \/ GrepEnds
  PROVE  GrepIs'
<1> DEFINE r == search.request
           k == search.next - 1
<1>1. PICK phase \in {"scan", "failed", "done"} :
        /\ search' = [search EXCEPT !.phase = phase]
        /\ phase = "done" =>
             \/ Len(search.rows) >= r.limit
             \/ search.ready = <<>> /\ search.phase = "rest"
  BY DEF LoadFails, Loaded, GrepEnds
<1>2. ScanFields \subseteq DOMAIN search /\ search.op = "grep"
  BY DEF GrepIs
<1>3. /\ r \in GrepRequests /\ search.next \in Nat /\ k \in 0..Len(r.page)
      /\ ScanIs(r, k, search.before, search.waiting, search.ready, search.rows)
      /\ Len(search.rows) <= r.limit
      /\ search.phase = "rest" => search.waiting = <<>> /\ k = Len(r.page)
  BY DEF GrepIs
<1>4. phase = "done" =>
        \/ Len(search.rows) = r.limit
        \/ search.ready = <<>> /\ search.waiting = <<>> /\ k = Len(r.page)
  <2>1. Len(search.rows) \in Nat /\ r.limit \in Nat
    BY <1>3, SearchAssumption DEF ScanIs, Rises
  <2> QED
    BY <1>1, <1>3, <2>1
<1> HIDE DEF r, k
<1>5. /\ search'.op = "grep" /\ search'.phase = phase /\ search'.request = r
      /\ search'.next = search.next /\ search'.before = search.before
      /\ search'.waiting = search.waiting /\ search'.ready = search.ready
      /\ search'.rows = search.rows /\ ScanFields \subseteq DOMAIN search'
  BY <1>1, <1>2 DEF r, ScanFields
<1> QED
  BY <1>1, <1>3, <1>4, <1>5 DEF GrepIs, k

LEMMA LineReads ==
  ASSUME GrepIs, ScanLine
  PROVE  GrepIs'
<1> DEFINE r == search.request
           l == Numbered(r.page)[search.next]
           grown == [i \in DOMAIN search.waiting |-> [search.waiting[i] EXCEPT !.after = Append(@, l)]]
           full == {i \in DOMAIN grown : Len(grown[i].after) >= r.context}
           hits == IF r.page[l.at].hit
                   THEN <<[line |-> l.at, content |-> l, before |-> search.before, after |-> <<>>]>>
                   ELSE <<>>
           before == Remembered(search.before, l, r.context)
           waiting == Picked(grown, DOMAIN grown \ full) \o (IF r.context > 0 THEN hits ELSE <<>>)
           ready == Picked(grown, full) \o (IF r.context > 0 THEN <<>> ELSE hits)
<1>1. /\ search' = [search EXCEPT !.next = @ + 1, !.before = before,
                      !.waiting = waiting, !.ready = ready]
      /\ search.phase = "scan" /\ search.ready = <<>> /\ search.next <= Len(r.page)
  BY DEF ScanLine, Before
<1>2. PICK k \in Nat : k = search.next - 1 /\ search.next = k + 1
  BY DEF GrepIs
<1>3. Reads(r, k, search.before, search.waiting, l, grown, full, hits)
  BY <1>2 DEF Reads
<1> HIDE DEF r, l, grown, full, hits, before, waiting, ready
<1>4. /\ r \in GrepRequests /\ ScanIs(r, k, search.before, search.waiting, <<>>, search.rows)
      /\ Len(search.rows) <= r.limit
  BY <1>1, <1>2 DEF GrepIs, r
<1>5. Request(r)
  BY <1>4, SearchAssumption DEF Request
<1>6. Len(r.page) \in Nat /\ k < Len(r.page) /\ k + 1 \in 0..Len(r.page) /\ (k + 1) + 1 \in Nat /\ (k + 1 + 1) - 1 = k + 1
  BY <1>1, <1>2, <1>5 DEF Request
<1>7. ScanIs(r, k + 1, before, waiting, ready, search.rows)
  BY <1>3, <1>4, <1>5, <1>6, ScanReads DEF before, waiting, ready
<1>8. ScanFields \subseteq DOMAIN search /\ search.op = "grep"
  BY DEF GrepIs
<1>9. /\ search'.op = "grep" /\ search'.phase = "scan" /\ search'.request = r
      /\ search'.next = k + 1 + 1 /\ search'.before = before
      /\ search'.waiting = waiting /\ search'.ready = ready
      /\ search'.rows = search.rows /\ ScanFields \subseteq DOMAIN search'
  BY <1>1, <1>2, <1>8 DEF r, ScanFields
<1> QED
  BY <1>4, <1>6, <1>7, <1>9 DEF GrepIs

LEMMA PageEnds ==
  ASSUME GrepIs, ScanEnds
  PROVE  GrepIs'
<1> DEFINE r == search.request
<1>1. /\ search' = [search EXCEPT !.phase = "rest", !.ready = search.waiting, !.waiting = <<>>]
      /\ search.ready = <<>> /\ search.next > Len(r.page)
  BY DEF ScanEnds
<1>2. /\ r \in GrepRequests /\ search.next \in Nat /\ search.next - 1 \in 0..Len(r.page)
      /\ ScanIs(r, search.next - 1, search.before, search.waiting, <<>>, search.rows)
      /\ Len(search.rows) <= r.limit
  BY <1>1 DEF GrepIs
<1>3. Request(r)
  BY <1>2, SearchAssumption DEF Request
<1>4. search.next - 1 = Len(r.page) /\ Len(r.page) \in 0..Len(r.page)
  BY <1>1, <1>2, <1>3 DEF Request
<1>5. ScanIs(r, search.next - 1, search.before, <<>>, search.waiting, search.rows)
  BY <1>2, <1>3, <1>4, ScanRests
<1>6. ScanFields \subseteq DOMAIN search /\ search.op = "grep"
  BY DEF GrepIs
<1>7. /\ search'.op = "grep" /\ search'.phase = "rest" /\ search'.request = r
      /\ search'.next = search.next /\ search'.before = search.before
      /\ search'.waiting = <<>> /\ search'.ready = search.waiting
      /\ search'.rows = search.rows /\ ScanFields \subseteq DOMAIN search'
  BY <1>1, <1>6 DEF r, ScanFields
<1> QED
  BY <1>2, <1>4, <1>5, <1>7 DEF GrepIs

LEMMA RowSends ==
  ASSUME GrepIs, SendRow
  PROVE  GrepIs'
<1> DEFINE r == search.request
           row == ClipRow(Head(search.ready), r.clip)
<1>1. /\ search.phase \in {"scan", "rest"} /\ search.ready # <<>> /\ Len(search.rows) < r.limit
      /\ \/ search' = [search EXCEPT !.phase = "failed"]
         \/ \E taken : search' = [search EXCEPT !.ready = Tail(@), !.rows = Append(@, row), !.taken = taken]
  BY DEF SendRow
<1>2. /\ r \in GrepRequests /\ search.next \in Nat /\ search.next - 1 \in 0..Len(r.page)
      /\ ScanIs(r, search.next - 1, search.before, search.waiting, search.ready, search.rows)
      /\ Len(search.rows) <= r.limit
      /\ search.phase = "rest" => search.waiting = <<>> /\ search.next - 1 = Len(r.page)
      /\ ScanFields \subseteq DOMAIN search /\ search.op = "grep"
  BY DEF GrepIs
<1>3. CASE search' = [search EXCEPT !.phase = "failed"]
  <2>1. /\ search'.op = "grep" /\ search'.phase = "failed" /\ search'.request = r
        /\ search'.next = search.next /\ search'.before = search.before
        /\ search'.waiting = search.waiting /\ search'.ready = search.ready
        /\ search'.rows = search.rows /\ ScanFields \subseteq DOMAIN search'
    BY <1>2, <1>3 DEF ScanFields
  <2> HIDE DEF r
  <2> QED
    BY <1>2, <2>1 DEF GrepIs
<1>4. ASSUME NEW taken,
             search' = [search EXCEPT !.ready = Tail(@), !.rows = Append(@, row), !.taken = taken]
      PROVE  GrepIs'
  <2> DEFINE rest == Tail(search.ready)
             more == Append(search.rows, row)
  <2>1. ScanIs(r, search.next - 1, search.before, search.waiting, rest, more)
    BY <1>1, <1>2, ScanSends
  <2>2. Len(more) <= r.limit
    <3>1. search.rows \in Seq(ToSet(search.rows)) /\ r.limit \in Nat
      BY <1>2, SearchAssumption DEF ScanIs, Rises
    <3>2. Len(more) = Len(search.rows) + 1 /\ Len(search.rows) \in Nat
      BY <3>1
    <3>3. Len(search.rows) < r.limit
      BY <1>1
    <3> HIDE DEF more, r
    <3> QED
      BY <3>1, <3>2, <3>3
  <2>3. /\ search'.op = "grep" /\ search'.phase = search.phase /\ search'.request = r
        /\ search'.next = search.next /\ search'.before = search.before
        /\ search'.waiting = search.waiting /\ search'.ready = rest
        /\ search'.rows = more /\ ScanFields \subseteq DOMAIN search'
    <3> HIDE DEF row
    <3> QED
      BY <1>2, <1>4 DEF ScanFields
  <2> HIDE DEF r, rest, more
  <2> QED
    BY <1>1, <1>2, <2>1, <2>2, <2>3 DEF GrepIs
<1> QED
  BY <1>1, <1>3, <1>4

LEMMA SearchInvNext ==
  ASSUME search = NoSearch \/ SearchInv, [SearchNext]_searchVars
  PROVE  (search = NoSearch \/ SearchInv)'
<1>1. CASE UNCHANGED searchVars
  BY <1>1 DEF searchVars, SearchInv, OtherIs, GrepIs
<1>2. CASE SearchNext /\ search = NoSearch
  <2>1. search.phase = "idle" /\ search.op = "none"
    BY <1>2 DEF NoSearch
  <2>2. ~(\/ LoadFails \/ Loaded \/ ScanLine \/ ScanEnds \/ SendRow \/ GrepEnds
          \/ SendLine \/ WindowEnds \/ ListSpaces \/ ListHits \/ FileFails \/ SendWhole)
    BY <2>1 DEF LoadFails, Loaded, ScanLine, ScanEnds, SendRow, GrepEnds, SendLine, WindowEnds,
                ListSpaces, ListHits, FileFails, SendWhole
  <2> QED
    BY <1>2, <2>2, AskedGrep, AskedOther DEF SearchNext
<1>3. CASE SearchNext /\ search # NoSearch
  <2>1. \/ LoadFails \/ Loaded \/ ScanLine \/ ScanEnds \/ SendRow \/ GrepEnds
        \/ SendLine \/ WindowEnds \/ ListSpaces \/ ListHits \/ FileFails \/ SendWhole
    BY <1>3 DEF SearchNext, AskGrep, AskWindow, AskSpaces, AskHits, AskWhole
  <2>2. CASE OtherIs
    BY <2>1, <2>2, OtherGoes
  <2>3. CASE GrepIs
    <3>1. search.op = "grep"
      BY <2>3 DEF GrepIs
    <3>2. ~(SendLine \/ WindowEnds \/ ListSpaces \/ ListHits \/ FileFails \/ SendWhole)
      BY <3>1 DEF SendLine, WindowEnds, ListSpaces, ListHits, FileFails, SendWhole
    <3> QED
      BY <2>1, <2>3, <3>2, PhaseGoes, LineReads, PageEnds, RowSends DEF SearchInv
  <2> QED
    BY <1>3, <2>2, <2>3 DEF SearchInv
<1> QED
  BY <1>1, <1>2, <1>3

\* Whatever the pages, the context and the limit, what a grep answers is the
\* first matches of its page in their order, each with exactly the lines before
\* and after it that the page has (fetching/web.py iter_matches and its clips).
THEOREM GrepsAreExact == SearchSpec => []GrepIsExact
<1> DEFINE Inv == search = NoSearch \/ SearchInv
<1>1. SearchInit => Inv
  BY DEF SearchInit
<1>2. Inv /\ [SearchNext]_searchVars => Inv'
  BY SearchInvNext
<1>3. Inv => GrepIsExact
  <2>1. search = NoSearch => GrepIsExact
    BY DEF NoSearch, GrepIsExact
  <2> QED
    BY <2>1, GrepIsDone
<1> QED
  BY <1>1, <1>2, <1>3, PTL DEF SearchSpec

-----------------------------------------------------------------------------
(* A document parsed again under other locales, by the only reader there is *)

LookupFields ==
  {"phase", "request", "try", "saved", "outcome", "page", "hit", "cursor", "rows", "limited"}

\* None of the first n locales opens the document, nor does having none.
NoneOpens(doc, n) == ({"unset"} \cup {Locales[i] : i \in 1..n}) \cap doc.opens = {}

LocaleInv(r) ==
  LET l == lookup[r]
      doc == l.request.doc
  IN  /\ DOMAIN lookup = Reader
      /\ l.phase # "idle" => LookupFields \subseteq DOMAIN l /\ l.try \in 0..Len(Locales)
      /\ l.phase = "check" => l.try = 0
      /\ l.phase = "parse" /\ l.try = 0 => lcAll = "unset"
      /\ l.phase = "parse" /\ l.try # 0 =>
           lcAll = Locales[l.try] /\ l.saved = "unset" /\ NoneOpens(doc, l.try - 1)
      /\ l.phase = "remember" => lcAll = "unset" /\ l.try # Len(Locales) /\ NoneOpens(doc, l.try)
      /\ l.phase = "set" =>
           lcAll = "unset" /\ l.saved = "unset" /\ l.try # 0 /\ NoneOpens(doc, l.try - 1)
      /\ l.phase = "restore" =>
           /\ l.saved = "unset" /\ l.outcome \in {"parsed", "broken", "empty"}
           /\ l.outcome = "broken" => doc.broken
           /\ l.outcome = "empty" => NoneOpens(doc, l.try)
      /\ l.phase = "unreadable" =>
           \/ doc.broken
           \/ l.request.ocr /\ ~l.request.models
           \/ NoneOpens(doc, Len(Locales))
      /\ l.phase \notin {"parse", "remember", "set", "restore"} => lcAll = "unset"

LEMMA OpensMore ==
  ASSUME NEW doc, NEW n \in Nat \ {0}, NoneOpens(doc, n - 1), Locales[n] \notin doc.opens
  PROVE  NoneOpens(doc, n)
<1>1. \A i \in 1..n : i = n \/ i \in 1..(n - 1)
  OBVIOUS
<1> QED
  BY <1>1 DEF NoneOpens

\* A try has ended.
LEMMA TryEnds ==
  ASSUME NEW outcome \in {"parsed", "broken", "empty"}, NEW try \in 0..Len(Locales), NEW doc,
         outcome = "broken" => doc.broken,
         outcome = "empty" => NoneOpens(doc, try)
  PROVE  /\ AfterTry(outcome, try) \in {"parsed", "unreadable", "remember"}
         /\ AfterTry(outcome, try) = "unreadable" => doc.broken \/ NoneOpens(doc, Len(Locales))
         /\ AfterTry(outcome, try) = "remember" => try # Len(Locales) /\ NoneOpens(doc, try)
<1>1. CASE outcome = "parsed"
  BY <1>1 DEF AfterTry
<1>2. CASE outcome = "broken"
  BY <1>2 DEF AfterTry
<1>3. CASE outcome = "empty"
  BY <1>3 DEF AfterTry
<1> QED
  BY <1>1, <1>2, <1>3

LEMMA LocaleInvNext ==
  ASSUME NEW r, Reader = {r}, LocaleInv(r), [DocNext]_docVars
  PROVE  LocaleInv(r)'
<1> DEFINE l == lookup[r]
           doc == l.request.doc
<1>1. r \in Reader /\ DOMAIN lookup = Reader
  BY DEF LocaleInv
<1>2. CASE UNCHANGED docVars
  BY <1>2 DEF docVars, LocaleInv
<1>3. CASE \E q \in DocRequests : AskDoc(r, q)
  <2>1. PICK q : /\ l.phase = "idle" /\ UNCHANGED lcAll
                 /\ lookup' = [lookup EXCEPT ![r] =
                      [phase |-> "check", request |-> q, try |-> 0, saved |-> "none", outcome |-> "none",
                       page |-> 1, hit |-> 1, cursor |-> 1, rows |-> <<>>, limited |-> FALSE]]
    BY <1>3 DEF AskDoc, Phase
  <2>2. /\ DOMAIN lookup' = Reader /\ LookupFields \subseteq DOMAIN lookup'[r]
        /\ lookup'[r].phase = "check" /\ lookup'[r].try = 0
    BY <1>1, <2>1 DEF LookupFields
  <2>3. lcAll' = "unset" /\ 0 \in 0..Len(Locales)
    BY <2>1, DocAssumption DEF LocaleInv
  <2> QED
    BY <2>2, <2>3 DEF LocaleInv
<1>4. CASE CheckOcr(r)
  <2>1. /\ l.phase = "check" /\ UNCHANGED lcAll
        /\ lookup' = [lookup EXCEPT ![r].phase =
             IF l.request.ocr /\ ~l.request.models THEN "unreadable" ELSE "parse"]
    BY <1>4 DEF CheckOcr, Phase, Goes, Asked
  <2>2. LookupFields \subseteq DOMAIN l /\ l.try = 0 /\ 0 \in 0..Len(Locales) /\ lcAll = "unset"
    BY <2>1, DocAssumption DEF LocaleInv
  <2>3. /\ DOMAIN lookup' = Reader /\ LookupFields \subseteq DOMAIN lookup'[r]
        /\ lookup'[r].phase = IF l.request.ocr /\ ~l.request.models THEN "unreadable" ELSE "parse"
        /\ lookup'[r].try = 0 /\ lookup'[r].request = l.request
    BY <1>1, <2>1, <2>2 DEF LookupFields
  <2> QED
    BY <2>1, <2>2, <2>3 DEF LocaleInv
<1>5. CASE Parse(r)
  <2>1. PICK outcome \in {"parsed", "broken", "empty"} :
          /\ outcome = IF doc.broken THEN "broken" ELSE IF lcAll \in doc.opens THEN "parsed" ELSE "empty"
          /\ lookup' = [lookup EXCEPT ![r].outcome = outcome,
               ![r].phase = IF l.try = 0 THEN AfterTry(outcome, 0) ELSE "restore"]
          /\ l.phase = "parse" /\ UNCHANGED lcAll
    BY <1>5 DEF Parse, Phase, Asked
  <2>2. LookupFields \subseteq DOMAIN l /\ l.try \in 0..Len(Locales) /\ Len(Locales) \in Nat
    BY <2>1, DocAssumption DEF LocaleInv
  <2>3. /\ DOMAIN lookup' = Reader /\ LookupFields \subseteq DOMAIN lookup'[r]
        /\ lookup'[r].phase = IF l.try = 0 THEN AfterTry(outcome, 0) ELSE "restore"
        /\ lookup'[r].outcome = outcome /\ lookup'[r].try = l.try
        /\ lookup'[r].saved = l.saved /\ lookup'[r].request = l.request
    BY <1>1, <2>1, <2>2 DEF LookupFields
  <2>4. outcome = "broken" => doc.broken
    BY <2>1
  <2>5. outcome = "empty" => lcAll \notin doc.opens
    BY <2>1
  <2>6. CASE l.try = 0
    <3>1. lcAll = "unset"
      BY <2>1, <2>6 DEF LocaleInv
    <3>2. outcome = "empty" => NoneOpens(doc, 0)
      BY <2>5, <3>1 DEF NoneOpens
    <3>3. /\ AfterTry(outcome, 0) \in {"parsed", "unreadable", "remember"}
          /\ AfterTry(outcome, 0) = "unreadable" => doc.broken \/ NoneOpens(doc, Len(Locales))
          /\ AfterTry(outcome, 0) = "remember" => 0 # Len(Locales) /\ NoneOpens(doc, 0)
      BY <2>2, <2>4, <2>6, <3>2, TryEnds
    <3> QED
      BY <2>1, <2>2, <2>3, <2>6, <3>1, <3>3 DEF LocaleInv
  <2>7. CASE l.try # 0
    <3>1. lcAll = Locales[l.try] /\ l.saved = "unset" /\ NoneOpens(doc, l.try - 1)
      BY <2>1, <2>7 DEF LocaleInv
    <3>2. outcome = "empty" => NoneOpens(doc, l.try)
      BY <2>2, <2>5, <2>7, <3>1, OpensMore
    <3> QED
      BY <2>2, <2>3, <2>4, <2>7, <3>1, <3>2 DEF LocaleInv
  <2> QED
    BY <2>6, <2>7
<1>6. CASE RememberLocale(r)
  <2>1. /\ lookup' = [lookup EXCEPT ![r].saved = lcAll, ![r].try = @ + 1, ![r].phase = "set"]
        /\ l.phase = "remember" /\ UNCHANGED lcAll
    BY <1>6 DEF RememberLocale, Phase
  <2>2. /\ LookupFields \subseteq DOMAIN l /\ l.try \in 0..Len(Locales) /\ Len(Locales) \in Nat
        /\ lcAll = "unset" /\ l.try # Len(Locales) /\ NoneOpens(doc, l.try)
    BY <2>1, DocAssumption DEF LocaleInv
  <2>3. /\ DOMAIN lookup' = Reader /\ LookupFields \subseteq DOMAIN lookup'[r]
        /\ lookup'[r].phase = "set" /\ lookup'[r].try = l.try + 1
        /\ lookup'[r].saved = "unset" /\ lookup'[r].request = l.request
    BY <1>1, <2>1, <2>2 DEF LookupFields
  <2>4. l.try + 1 \in 0..Len(Locales) /\ l.try + 1 # 0 /\ (l.try + 1) - 1 = l.try
    BY <2>2
  <2> QED
    BY <2>1, <2>2, <2>3, <2>4 DEF LocaleInv
<1>7. CASE SetLocale(r)
  <2>1. /\ lookup' = [lookup EXCEPT ![r].phase = "parse"]
        /\ l.phase = "set" /\ lcAll' = Locales[l.try]
    BY <1>7 DEF SetLocale, Phase, Goes
  <2>2. /\ LookupFields \subseteq DOMAIN l /\ l.try \in 0..Len(Locales)
        /\ l.saved = "unset" /\ l.try # 0 /\ NoneOpens(doc, l.try - 1)
    BY <2>1 DEF LocaleInv
  <2>3. /\ DOMAIN lookup' = Reader /\ LookupFields \subseteq DOMAIN lookup'[r]
        /\ lookup'[r].phase = "parse" /\ lookup'[r].try = l.try
        /\ lookup'[r].saved = l.saved /\ lookup'[r].request = l.request
    BY <1>1, <2>1, <2>2 DEF LookupFields
  <2> QED
    BY <2>1, <2>2, <2>3 DEF LocaleInv
<1>8. CASE Restore(r)
  <2>1. /\ lookup' = [lookup EXCEPT ![r].phase = AfterTry(l.outcome, l.try)]
        /\ l.phase = "restore" /\ lcAll' = l.saved
    BY <1>8 DEF Restore, Phase, Goes
  <2>2. /\ LookupFields \subseteq DOMAIN l /\ l.try \in 0..Len(Locales)
        /\ l.saved = "unset" /\ l.outcome \in {"parsed", "broken", "empty"}
        /\ l.outcome = "broken" => doc.broken
        /\ l.outcome = "empty" => NoneOpens(doc, l.try)
    BY <2>1 DEF LocaleInv
  <2>3. /\ AfterTry(l.outcome, l.try) \in {"parsed", "unreadable", "remember"}
        /\ AfterTry(l.outcome, l.try) = "unreadable" => doc.broken \/ NoneOpens(doc, Len(Locales))
        /\ AfterTry(l.outcome, l.try) = "remember" => l.try # Len(Locales) /\ NoneOpens(doc, l.try)
    BY <2>2, TryEnds
  <2>4. /\ DOMAIN lookup' = Reader /\ LookupFields \subseteq DOMAIN lookup'[r]
        /\ lookup'[r].phase = AfterTry(l.outcome, l.try) /\ lookup'[r].try = l.try
        /\ lookup'[r].request = l.request
    BY <1>1, <2>1, <2>2 DEF LookupFields
  <2> QED
    BY <2>1, <2>2, <2>3, <2>4 DEF LocaleInv
<1>9. CASE SearchHit(r) \/ NextPage(r) \/ SearchEnds(r) \/ ReadText(r) \/ Outline(r)
  <2>1. l.phase = "parsed" /\ UNCHANGED lcAll
    BY <1>9, Zenon DEF SearchHit, NextPage, SearchEnds, ReadText, Outline, Searching, Phase
  <2>2. /\ DOMAIN lookup' = Reader /\ DOMAIN lookup'[r] = DOMAIN l
        /\ lookup'[r].phase \in {"parsed", "done", "failed"}
        /\ lookup'[r].try = l.try
    <3>1. LookupFields \subseteq DOMAIN l
      BY <2>1 DEF LocaleInv
    <3>2. CASE SearchHit(r)
      <4>1. \/ lookup' = [lookup EXCEPT ![r].phase = "done", ![r].limited = TRUE]
            \/ lookup' = [lookup EXCEPT ![r].phase = "failed"]
            \/ \E c, x : lookup' = [lookup EXCEPT ![r].hit = @ + 1, ![r].cursor = c, ![r].rows = x]
        BY <3>2 DEF SearchHit, Goes
      <4>2. ASSUME NEW c, NEW x,
                   lookup' = [lookup EXCEPT ![r].hit = @ + 1, ![r].cursor = c, ![r].rows = x]
            PROVE  DOMAIN lookup' = Reader /\ DOMAIN lookup'[r] = DOMAIN l
                   /\ lookup'[r].phase = "parsed" /\ lookup'[r].try = l.try
        BY <1>1, <2>1, <3>1, <4>2 DEF LookupFields
      <4>3. CASE \/ lookup' = [lookup EXCEPT ![r].phase = "done", ![r].limited = TRUE]
                 \/ lookup' = [lookup EXCEPT ![r].phase = "failed"]
        BY <1>1, <2>1, <3>1, <4>3 DEF LookupFields
      <4> QED
        BY <4>1, <4>2, <4>3
    <3>3. CASE NextPage(r)
      BY <1>1, <2>1, <3>1, <3>3 DEF LookupFields, NextPage
    <3>4. CASE SearchEnds(r)
      BY <1>1, <2>1, <3>1, <3>4 DEF LookupFields, SearchEnds, Goes
    <3>5. CASE ReadText(r)
      <4>1. \E x, y : lookup' = [lookup EXCEPT ![r].phase = "done", ![r].rows = x, ![r].limited = y]
        BY <3>5, Zenon DEF ReadText
      <4> QED
        BY <1>1, <2>1, <3>1, <4>1 DEF LookupFields
    <3>6. CASE Outline(r)
      <4>1. \/ lookup' = [lookup EXCEPT ![r].phase = "failed"]
            \/ \E x : lookup' = [lookup EXCEPT ![r].phase = "done", ![r].rows = x]
        BY <3>6 DEF Outline
      <4> QED
        BY <1>1, <2>1, <3>1, <4>1 DEF LookupFields
    <3> QED
      BY <1>9, <3>2, <3>3, <3>4, <3>5, <3>6
  <2> QED
    BY <2>1, <2>2 DEF LocaleInv
<1> QED
  BY <1>2, <1>3, <1>4, <1>5, <1>6, <1>7, <1>8, <1>9 DEF DocNext, ReaderStep

LEMMA LocaleIsSafe ==
  ASSUME NEW r, Reader = {r}
  PROVE  DocSpec => []LocaleInv(r)
<1>1. DocInit => LocaleInv(r)
  BY DEF DocInit, LocaleInv, NoLookup
<1>2. LocaleInv(r) /\ [DocNext]_docVars => LocaleInv(r)'
  BY LocaleInvNext
<1> QED
  BY <1>1, <1>2, PTL DEF DocSpec

\* Whatever the documents and the list of locales, a reader that is alone in its
\* process (the payload of the tools) calls a document unreadable only if it is
\* broken, its models are missing, or no locale of the list opens it
\* (documents/payload.py, LocaleRetry).
THEOREM UnreadableOnlyWhenNothingOpens ==
  ASSUME NEW r, Reader = {r}
  PROVE  DocSpec => []UnreadableIsTrue
<1>1. LocaleInv(r) => UnreadableIsTrue
  BY DocAssumption DEF LocaleInv, UnreadableIsTrue, NoneOpens, ToSet, Phase, Asked
<1> QED
  BY <1>1, LocaleIsSafe, PTL

\* And when it does not parse, it has left LC_ALL as it was.
THEOREM LoneReadersRestoreTheLocale ==
  ASSUME NEW r, Reader = {r}
  PROVE  DocSpec => []LocaleIsRestored
<1>1. LocaleInv(r) => LocaleIsRestored
  BY DEF LocaleInv, LocaleIsRestored, Parsing, Phase
<1> QED
  BY <1>1, LocaleIsSafe, PTL

-----------------------------------------------------------------------------
(* A document searched, by any readers                                     *)

LEMMA OneLetterMore ==
  ASSUME NEW S, NEW s \in Seq(S), NEW a \in S
  PROVE  /\ s \o <<a>> \in Seq(S) /\ Len(s \o <<a>>) = Len(s) + 1
         /\ (s \o <<a>>)[Len(s) + 1] = a /\ \A k \in 1..Len(s) : (s \o <<a>>)[k] = s[k]
<1>1. <<a>> \in Seq(S) /\ Len(<<a>>) = 1 /\ <<a>>[1] = a
  OBVIOUS
<1> DEFINE b == <<a>>
<1> HIDE DEF b
<1>2. b \in Seq(S) /\ Len(b) = 1 /\ b[1] = a
  BY <1>1 DEF b
<1>3. Len(s) \in Nat
  OBVIOUS
<1>4. /\ s \o b \in Seq(S) /\ Len(s \o b) = Len(s) + Len(b)
      /\ \A k \in 1..(Len(s) + Len(b)) : (s \o b)[k] = IF k <= Len(s) THEN s[k] ELSE b[k - Len(s)]
  BY <1>2, ConcatProperties
<1>5. (s \o b)[Len(s) + 1] = b[1]
  <2>1. Len(s) + 1 \in 1..(Len(s) + 1) /\ (Len(s) + 1) - Len(s) = 1 /\ ~(Len(s) + 1 <= Len(s))
    BY <1>3
  <2> QED
    BY <1>2, <1>4, <2>1
<1>6. \A k \in 1..Len(s) : (s \o b)[k] = s[k]
  BY <1>2, <1>3, <1>4
<1> QED
  BY <1>2, <1>4, <1>5, <1>6 DEF b

\* The sequences of a sequence, one after the other.
AfterEach(seqs, S) == [n \in 1..Len(seqs) |-> [x \in Seq(S) |-> x \o seqs[n]]]

LEMMA FlattenIs ==
  ASSUME NEW S, NEW seqs \in Seq(Seq(S))
  PROVE  \E g : /\ Computes(g, Len(seqs), Seq(S), <<>>, AfterEach(seqs, S))
                /\ FlattenSeq(seqs) = g[Len(seqs)]
<1> DEFINE N == Len(seqs)
           F == AfterEach(seqs, S)
<1>1. N \in Nat /\ <<>> \in Seq(S) /\ \A n \in 1..N : seqs[n] \in Seq(S)
  OBVIOUS
<1>2. F \in [1..N -> [Seq(S) -> Seq(S)]]
  BY <1>1 DEF AfterEach
<1>3. PICK g : Computes(g, N, Seq(S), <<>>, F)
  <2> HIDE DEF N, F
  <2> QED
    BY <1>1, <1>2, Computable
<1>4. g[0] = <<>> /\ \A n \in 1..N : g[n - 1] \in Seq(S) /\ g[n] = g[n - 1] \o seqs[n]
  <2>1. \A n \in 1..N : n - 1 \in 0..N
    BY <1>1
  <2> QED
    BY <1>3, <2>1 DEF Computes, AfterEach
<1>5. FlattenSeq(seqs) = g[N]
  <2>1. CASE N = 0
    <3>1. seqs = <<>>
      BY <2>1
    <3> QED
      BY <1>4, <2>1, <3>1 DEF FlattenSeq
  <2>2. CASE N # 0
    <3> DEFINE E(f) == f = [i \in 1..N |-> IF i = 1 THEN seqs[i] ELSE f[i - 1] \o seqs[i]]
               h == [i \in 1..N |-> g[i]]
    <3>1. E(h)
      <4>1. ASSUME NEW i \in 1..N
            PROVE  g[i] = IF i = 1 THEN seqs[i] ELSE h[i - 1] \o seqs[i]
        <5>1. CASE i = 1
          <6>1. g[1] = <<>> \o seqs[1] /\ seqs[1] \in Seq(S)
            <7>1. 1 \in 1..N /\ 1 - 1 = 0
              BY <1>1, <5>1
            <7>2. g[1] = g[1 - 1] \o seqs[1]
              BY <1>4, <7>1
            <7> QED
              BY <1>1, <1>4, <7>1, <7>2
          <6> QED
            BY <5>1, <6>1, ConcatEmptySeq
        <5>2. CASE i # 1
          <6>1. i - 1 \in 1..N
            BY <5>2
          <6> QED
            BY <1>4, <5>2, <6>1
        <5> QED
          BY <5>1, <5>2
      <4> QED
        BY <4>1
    <3> DEFINE c == CHOOSE f : E(f)
    <3>2. E(c)
      <4> HIDE DEF E, h
      <4> QED
        BY <3>1
    <3>3. FlattenSeq(seqs) = c[N]
      BY <2>2, Zenon DEF FlattenSeq
    <3> HIDE DEF c, h
    <3>4. \A n \in 1..N : c[n] = IF n = 1 THEN seqs[n] ELSE c[n - 1] \o seqs[n]
      BY <3>2
    <3>5. \A n \in 1..N : h[n] = IF n = 1 THEN seqs[n] ELSE h[n - 1] \o seqs[n]
      BY <3>1
    <3> DEFINE P == {n \in 0..N : n # 0 => c[n] = h[n]}
    <3>6. \A n \in 1..N : n - 1 \in P => n \in P
      <4> SUFFICES ASSUME NEW n \in 1..N, n - 1 \in P PROVE n \in P
        OBVIOUS
      <4> HIDE DEF E
      <4>1. CASE n = 1
        BY <3>4, <3>5, <4>1
      <4>2. CASE n # 1
        <5>1. c[n - 1] = h[n - 1]
          BY <4>2
        <5>2. c[n] = h[n]
          BY <3>4, <3>5, <4>2, <5>1
        <5> QED
          BY <5>2
      <4> QED
        BY <4>1, <4>2
    <3>7. 0 \in P
      BY <1>1
    <3> HIDE DEF P
    <3>8. N \in P
      <4>1. \A n \in 0..N : n \in P
        BY <1>1, <3>6, <3>7, Inductive
      <4> QED
        BY <1>1, <4>1
    <3>9. c[N] = h[N] /\ h[N] = g[N]
      BY <1>1, <2>2, <3>8 DEF P, h
    <3> QED
      BY <3>3, <3>9
  <2> QED
    BY <2>1, <2>2
<1> QED
  BY <1>3, <1>5

\* A text without such letters is its own folded text.
LEMMA PlainStays ==
  ASSUME NEW text \in Seq(STRING), Plain(text)
  PROVE  Folded(text) = text
<1> DEFINE N == Len(text)
           seqs == [i \in DOMAIN text |-> IF text[i] = "sharp" THEN <<"s", "s">> ELSE <<text[i]>>]
<1>1. N \in Nat /\ DOMAIN text = 1..N /\ \A n \in 1..N : text[n] \in STRING
  OBVIOUS
<1>2. seqs \in Seq(Seq(STRING)) /\ Len(seqs) = N /\ \A n \in 1..N : seqs[n] = <<text[n]>>
  <2>1. \A n \in 1..N : seqs[n] = <<text[n]>> /\ <<text[n]>> \in Seq(STRING)
    BY <1>1 DEF Plain
  <2>2. seqs = [n \in 1..N |-> seqs[n]]
    BY <1>1
  <2> HIDE DEF seqs
  <2>3. seqs \in [1..N -> Seq(STRING)]
    BY <2>1, <2>2
  <2> QED
    BY <1>1, <2>1, <2>3
<1> HIDE DEF seqs, N
<1>3. PICK g : /\ Computes(g, N, Seq(STRING), <<>>, AfterEach(seqs, STRING))
               /\ FlattenSeq(seqs) = g[N]
  BY <1>2, FlattenIs
<1>4. g[0] = <<>> /\ \A n \in 1..N : g[n - 1] \in Seq(STRING) /\ g[n] = g[n - 1] \o <<text[n]>>
  <2>1. \A n \in 1..N : n - 1 \in 0..N
    BY <1>1
  <2> QED
    BY <1>2, <1>3, <2>1 DEF Computes, AfterEach
<1> DEFINE P == {n \in 0..N : /\ g[n] \in Seq(STRING) /\ Len(g[n]) = n
                             /\ \A k \in 1..n : g[n][k] = text[k]}
<1>5. 0 \in P
  <2>1. g[0] \in Seq(STRING) /\ Len(g[0]) = 0
    BY <1>4
  <2> QED
    BY <1>1, <2>1
<1>6. \A n \in 1..N : n - 1 \in P => n \in P
  <2> SUFFICES ASSUME NEW n \in 1..N, n - 1 \in P PROVE n \in P
    OBVIOUS
  <2>1. PICK s \in Seq(STRING) : s = g[n - 1]
    BY <1>4
  <2>2. Len(s) = n - 1 /\ \A k \in 1..(n - 1) : s[k] = text[k]
    BY <2>1
  <2>3. PICK a \in STRING : a = text[n]
    BY <1>1
  <2>4. g[n] = s \o <<a>>
    BY <1>4, <2>1, <2>3
  <2>5. s \o <<a>> \in Seq(STRING) /\ Len(s \o <<a>>) = n
        /\ \A k \in 1..n : (s \o <<a>>)[k] = IF k <= n - 1 THEN s[k] ELSE a
    <3>1. Len(s) = n - 1 /\ n \in Nat /\ n >= 1 /\ Len(s) + 1 = n
      BY <1>1, <2>2
    <3>2. /\ s \o <<a>> \in Seq(STRING) /\ Len(s \o <<a>>) = n
          /\ (s \o <<a>>)[n] = a /\ \A k \in 1..Len(s) : (s \o <<a>>)[k] = s[k]
      BY <2>1, <2>3, <3>1, OneLetterMore
    <3>3. \A k \in 1..n : k = n \/ k \in 1..Len(s)
      BY <3>1
    <3>4. ASSUME NEW k \in 1..n PROVE (s \o <<a>>)[k] = IF k <= n - 1 THEN s[k] ELSE a
      <4>1. CASE k = n
        <5>1. ~(k <= n - 1)
          BY <3>1, <4>1
        <5>2. (s \o <<a>>)[k] = a
          BY <3>2, <4>1
        <5> QED
          BY <5>1, <5>2
      <4>2. CASE k \in 1..Len(s)
        BY <3>1, <3>2, <4>2
      <4> QED
        BY <3>3, <4>1, <4>2
    <3> QED
      BY <3>2, <3>4
  <2>6. \A k \in 1..n : (s \o <<a>>)[k] = text[k]
    BY <2>2, <2>3, <2>5
  <2>7. g[n] \in Seq(STRING) /\ Len(g[n]) = n /\ \A k \in 1..n : g[n][k] = text[k]
    <3>1. ASSUME NEW k \in 1..n PROVE g[n][k] = text[k]
      BY <2>4, <2>6
    <3>2. g[n] \in Seq(STRING) /\ Len(g[n]) = n
      BY <2>4, <2>5
    <3> QED
      BY <3>1, <3>2
  <2>8. n \in 0..N
    BY <1>1
  <2> QED
    BY <2>7, <2>8
<1> HIDE DEF P
<1>7. N \in P
  <2>1. \A n \in 0..N : n \in P
    BY <1>1, <1>5, <1>6, Inductive
  <2> QED
    BY <1>1, <2>1
<1>8. g[N] = text
  <2>1. g[N] \in Seq(STRING) /\ Len(g[N]) = Len(text) /\ \A k \in 1..Len(text) : g[N][k] = text[k]
    BY <1>7 DEF P, N
  <2> QED
    BY <2>1, SeqEqual
<1> QED
  BY <1>3, <1>8 DEF Folded, seqs

\* c[n] hits stand on the first n pages; the h-th of page n is the h-th after those
\* of the pages before.
Counts(c, pages) ==
  /\ c \in [0..Len(pages) -> Nat] /\ c[0] = 0 /\ c[Len(pages)] = Len(Hits(pages))
  /\ \A n \in 1..Len(pages) : c[n] = c[n - 1] + pages[n].hits
  /\ \A n \in 1..Len(pages) : \A h \in 1..pages[n].hits  :
       c[n - 1] + h <= Len(Hits(pages)) /\ Hits(pages)[c[n - 1] + h] = <<n, h>>

PageSet == [text : Seq(STRING), hits : Nat]

LEMMA HitsAre ==
  ASSUME NEW pages \in Seq(PageSet)
  PROVE  \E c : Counts(c, pages)
<1> DEFINE N == Len(pages)
           S == Nat \X Nat
           seqs == [p \in DOMAIN pages |-> [h \in 1..pages[p].hits |-> <<p, h>>]]
<1>1. N \in Nat /\ DOMAIN pages = 1..N /\ \A n \in 1..N : pages[n].hits \in Nat
  <2>1. \A n \in 1..Len(pages) : pages[n] \in PageSet
    OBVIOUS
  <2>2. \A x \in PageSet : x.hits \in Nat
    BY DEF PageSet
  <2> QED
    BY <2>1, <2>2
<1>2. /\ seqs \in Seq(Seq(S)) /\ Len(seqs) = N
      /\ \A n \in 1..N : /\ seqs[n] \in Seq(S) /\ Len(seqs[n]) = pages[n].hits
                         /\ \A h \in 1..pages[n].hits : seqs[n][h] = <<n, h>>
  <2>1. ASSUME NEW n \in 1..N
        PROVE  /\ seqs[n] \in Seq(S) /\ Len(seqs[n]) = pages[n].hits
               /\ \A h \in 1..pages[n].hits : seqs[n][h] = <<n, h>>
    <3> DEFINE k == pages[n].hits
    <3>1. seqs[n] = [h \in 1..k |-> <<n, h>>] /\ k \in Nat
      BY <1>1
    <3> HIDE DEF k, seqs
    <3>2. seqs[n] \in [1..k -> S]
      BY <3>1
    <3>3. Len(seqs[n]) = k /\ \A h \in 1..k : seqs[n][h] = <<n, h>>
      BY <3>1
    <3> QED
      BY <3>1, <3>2, <3>3 DEF k
  <2>2. seqs = [n \in 1..N |-> seqs[n]]
    BY <1>1
  <2> HIDE DEF seqs, S
  <2>3. seqs \in [1..N -> Seq(S)]
    BY <2>1, <2>2
  <2> QED
    BY <1>1, <2>1, <2>3
<1> HIDE DEF seqs, N
<1>3. PICK g : /\ Computes(g, N, Seq(S), <<>>, AfterEach(seqs, S))
               /\ FlattenSeq(seqs) = g[N]
  BY <1>2, FlattenIs
<1>4. /\ g[0] = <<>> /\ \A n \in 0..N : g[n] \in Seq(S)
      /\ \A n \in 1..N : g[n - 1] \in Seq(S) /\ g[n] = g[n - 1] \o seqs[n]
  <2>1. \A n \in 1..N : n - 1 \in 0..N
    BY <1>1
  <2> QED
    BY <1>2, <1>3, <2>1 DEF Computes, AfterEach
<1> DEFINE c == [n \in 0..N |-> Len(g[n])]
<1> HIDE DEF S
<1>5. /\ c \in [0..N -> Nat] /\ c[0] = 0 /\ c[N] = Len(g[N])
      /\ \A n \in 0..N : c[n] = Len(g[n]) /\ c[n] \in Nat
  BY <1>1, <1>4
<1> HIDE DEF c
<1>6. ASSUME NEW n \in 1..N, NEW s, s = g[n - 1]
      PROVE  /\ s \in Seq(S) /\ Len(s) = c[n - 1] /\ Len(s) \in Nat
             /\ g[n] \in Seq(S) /\ Len(g[n]) = Len(s) + pages[n].hits /\ c[n] = Len(g[n])
             /\ \A k \in 1..Len(s) : g[n][k] = s[k]
             /\ \A h \in 1..pages[n].hits : g[n][Len(s) + h] = <<n, h>>
  <2>1. s \in Seq(S) /\ g[n] = s \o seqs[n] /\ n - 1 \in 0..N /\ n \in 0..N
    <3>1. n - 1 \in 0..N /\ n \in 0..N
      BY <1>1
    <3> QED
      BY <1>4, <1>6, <3>1
  <2>2. PICK b \in Seq(S) : b = seqs[n]
    BY <1>2
  <2>3. Len(b) = pages[n].hits /\ \A h \in 1..pages[n].hits : b[h] = <<n, h>>
    BY <1>2, <2>2
  <2>4. Len(s) \in Nat /\ Len(b) \in Nat
    BY <2>1
  <2>5. s \o b \in Seq(S) /\ Len(s \o b) = Len(s) + Len(b)
        /\ \A k \in 1..(Len(s) + Len(b)) : (s \o b)[k] = IF k <= Len(s) THEN s[k] ELSE b[k - Len(s)]
    BY <2>1, <2>4
  <2>6. \A k \in 1..Len(s) : (s \o b)[k] = s[k]
    BY <2>4, <2>5
  <2>7. ASSUME NEW h \in 1..Len(b) PROVE (s \o b)[Len(s) + h] = b[h]
    <3>1. /\ Len(s) + h \in 1..(Len(s) + Len(b)) /\ ~(Len(s) + h <= Len(s))
          /\ (Len(s) + h) - Len(s) = h
      BY <2>4
    <3> QED
      BY <2>5, <3>1
  <2>8. c[n - 1] = Len(g[n - 1]) /\ c[n] = Len(g[n])
    BY <1>5, <2>1
  <2>9. g[n] = s \o b
    BY <2>1, <2>2
  <2>10. \A k \in 1..Len(s) : g[n][k] = s[k]
    BY <2>6, <2>9
  <2>11. \A h \in 1..pages[n].hits : g[n][Len(s) + h] = <<n, h>>
    <3>1. ASSUME NEW h \in 1..pages[n].hits PROVE g[n][Len(s) + h] = <<n, h>>
      BY <2>3, <2>7, <2>9
    <3> QED
      BY <3>1
  <2>12. Len(s) = c[n - 1] /\ Len(g[n]) = Len(s) + pages[n].hits /\ g[n] \in Seq(S)
    BY <1>6, <2>3, <2>5, <2>8, <2>9
  <2> QED
    BY <2>1, <2>4, <2>8, <2>10, <2>11, <2>12
<1> DEFINE Right(n) == \A m \in 1..n : \A h \in 1..pages[m].hits :
                         c[m - 1] + h \in 1..Len(g[n]) /\ g[n][c[m - 1] + h] = <<m, h>>
           P == {n \in 0..N : Right(n)}
<1>7. 0 \in P
  BY <1>1
<1>8. ASSUME NEW n \in 1..N, n - 1 \in P PROVE n \in P
  <2>1. PICK s : s = g[n - 1]
    OBVIOUS
  <2>2. /\ s \in Seq(S) /\ Len(s) = c[n - 1] /\ Len(s) \in Nat
        /\ g[n] \in Seq(S) /\ Len(g[n]) = Len(s) + pages[n].hits
        /\ \A k \in 1..Len(s) : g[n][k] = s[k]
        /\ \A h \in 1..pages[n].hits : g[n][Len(s) + h] = <<n, h>>
    BY <1>6, <2>1
  <2>3. \A m \in 1..(n - 1) : \A h \in 1..pages[m].hits :
          c[m - 1] + h \in 1..Len(s) /\ s[c[m - 1] + h] = <<m, h>>
    BY <1>8, <2>1
  <2>4. ASSUME NEW m \in 1..n, NEW h \in 1..pages[m].hits
        PROVE  c[m - 1] + h \in 1..Len(g[n]) /\ g[n][c[m - 1] + h] = <<m, h>>
    <3>0. pages[n].hits \in Nat
      BY <1>1
    <3>3. Len(g[n]) \in Nat /\ Len(s) <= Len(g[n])
      BY <2>2, <3>0
    <3>1. CASE m = n
      BY <2>2, <3>0, <3>1
    <3>2. CASE m # n
      <4>1. c[m - 1] + h \in 1..Len(s) /\ s[c[m - 1] + h] = <<m, h>>
        <5>1. m \in 1..(n - 1)
          BY <3>2
        <5> QED
          BY <2>3, <5>1
      <4>2. PICK k : k = c[m - 1] + h
        OBVIOUS
      <4>3. k \in 1..Len(s) /\ s[k] = <<m, h>>
        BY <4>1, <4>2
      <4>4. g[n][k] = s[k]
        BY <2>2, <4>3
      <4>5. k \in 1..Len(g[n])
        BY <2>2, <3>3, <4>3
      <4> QED
        BY <4>2, <4>3, <4>4, <4>5
    <3> QED
      BY <3>1, <3>2
  <2>5. Right(n)
    BY <2>4
  <2> HIDE DEF Right
  <2> QED
    BY <1>1, <2>5
<1> HIDE DEF P
<1>9. N \in P
  <2>1. \A n \in 0..N : n \in P
    BY <1>1, <1>7, <1>8, Inductive
  <2> QED
    BY <1>1, <2>1
<1>10. Right(N)
  BY <1>9 DEF P
<1>11. Hits(pages) = g[N]
  BY <1>3 DEF Hits, seqs
<1>12. \A n \in 1..N : c[n] = c[n - 1] + pages[n].hits
  BY <1>6
<1>13. \A n \in 1..N : \A h \in 1..pages[n].hits :
         c[n - 1] + h <= Len(g[N]) /\ g[N][c[n - 1] + h] = <<n, h>>
  <2>1. ASSUME NEW n \in 1..N, NEW h \in 1..pages[n].hits
        PROVE  c[n - 1] + h <= Len(g[N]) /\ g[N][c[n - 1] + h] = <<n, h>>
    <3>1. c[n - 1] + h \in 1..Len(g[N]) /\ g[N][c[n - 1] + h] = <<n, h>>
      BY <1>10
    <3> QED
      BY <3>1
  <2> QED
    BY <2>1
<1>14. c \in [0..N -> Nat] /\ c[0] = 0 /\ c[N] = Len(g[N])
  BY <1>5
<1> HIDE DEF Right
<1> QED
  BY <1>11, <1>12, <1>13, <1>14, Zenon DEF Counts, N

\* The places of the occurrences from one on.
NextPlaces(what, text, from) == {k \in from..Len(text) : Occurs(what, text, k)}

\* Places(what, text) has each occurrence after the end of the one before, and the
\* end of the text when there is none.
LEMMA PlacesAre ==
  ASSUME NEW what \in Seq(STRING), NEW text \in Seq(STRING), NEW i \in 1..Len(text)
  PROVE  LET from == IF i = 1 THEN 1 ELSE Places(what, text)[i - 1] + Len(what)
             next == NextPlaces(what, text, from)
         IN  /\ from \in Nat
             /\ Places(what, text)[i] = IF next = {} THEN Len(text) + 1 ELSE Min(next)
<1> DEFINE N == Len(text)
           W == Len(what)
           S == {x \in Int : x + W \in Nat}
           At(x) == LET next == NextPlaces(what, text, x + W)
                    IN  IF next = {} THEN N + 1 ELSE Min(next)
           F == [n \in 1..N |-> [x \in S |-> At(x)]]
<1>1. N \in Nat /\ W \in Nat
  OBVIOUS
<1> HIDE DEF N, W
<1>2. 1 - W \in S
  BY <1>1
<1>3. ASSUME NEW x \in S PROVE At(x) \in S
  <2> DEFINE next == NextPlaces(what, text, x + W)
  <2>1. x + W \in Nat
    OBVIOUS
  <2>2. CASE next = {}
    BY <1>1, <2>2
  <2>3. CASE next # {}
    <3>1. next \subseteq Nat
      BY <1>1, <2>1 DEF NextPlaces, N
    <3> HIDE DEF next
    <3>2. \E k \in next : \A j \in next : k <= j
      BY <2>3, <3>1, Smallest
    <3>3. Min(next) \in next
      BY <3>2 DEF Min
    <3>4. Min(next) \in Nat
      BY <3>1, <3>3
    <3>5. Min(next) + W \in Nat
      BY <1>1, <3>4
    <3>6. At(x) = Min(next)
      BY <2>3 DEF next
    <3> QED
      BY <3>4, <3>5, <3>6
  <2> QED
    BY <2>2, <2>3
<1> HIDE DEF At, S
<1>4. F \in [1..N -> [S -> S]]
  BY <1>3
<1>5. PICK g : Computes(g, N, S, 1 - W, F)
  <2> HIDE DEF F
  <2> QED
    BY <1>1, <1>2, <1>4, Computable
<1>6. g[0] = 1 - W /\ \A n \in 1..N : g[n - 1] \in S /\ g[n] = At(g[n - 1])
  <2>1. \A n \in 1..N : n - 1 \in 0..N
    BY <1>1
  <2> QED
    BY <1>5, <2>1 DEF Computes
<1> DEFINE E(f) == f = [j \in 1..N |->
                      LET from == IF j = 1 THEN 1 ELSE f[j - 1] + W
                          next == {k \in from..N : Occurs(what, text, k)}
                      IN  IF next = {} THEN N + 1 ELSE Min(next)]
           h == [n \in 1..N |-> g[n]]
<1>7. E(h)
  <2>1. ASSUME NEW n \in 1..N
        PROVE  g[n] = LET from == IF n = 1 THEN 1 ELSE h[n - 1] + W
                          next == {k \in from..N : Occurs(what, text, k)}
                      IN  IF next = {} THEN N + 1 ELSE Min(next)
    <3> DEFINE from == IF n = 1 THEN 1 ELSE h[n - 1] + W
    <3>1. g[n] = At(g[n - 1])
      BY <1>6
    <3>2. g[n - 1] + W = from
      <4>1. CASE n = 1
        <5>1. n - 1 = 0 /\ (1 - W) + W = 1
          BY <1>1, <4>1
        <5> QED
          BY <1>6, <4>1, <5>1
      <4>2. CASE n # 1
        <5>1. n - 1 \in 1..N
          BY <1>1, <4>2
        <5> QED
          BY <4>2, <5>1
      <4> QED
        BY <4>1, <4>2
    <3> HIDE DEF from
    <3>3. At(g[n - 1]) = LET next == {k \in from..N : Occurs(what, text, k)}
                         IN  IF next = {} THEN N + 1 ELSE Min(next)
      BY <3>2 DEF At, NextPlaces, N
    <3> QED
      BY <3>1, <3>3 DEF from
  <2> QED
    BY <2>1, Zenon
<1> DEFINE c == CHOOSE f : E(f)
<1>8. E(c)
  <2> HIDE DEF E, h
  <2> QED
    BY <1>7
<1>9. Places(what, text) = c
  BY Zenon DEF Places, N, W
<1> HIDE DEF c, h
<1>10. \A n \in 1..N : c[n] = LET from == IF n = 1 THEN 1 ELSE c[n - 1] + W
                                  next == NextPlaces(what, text, from)
                              IN  IF next = {} THEN N + 1 ELSE Min(next)
  <2> SUFFICES ASSUME NEW n \in 1..N
               PROVE  c[n] = LET from == IF n = 1 THEN 1 ELSE c[n - 1] + W
                                 next == {k \in from..N : Occurs(what, text, k)}
                             IN  IF next = {} THEN N + 1 ELSE Min(next)
    BY DEF NextPlaces, N
  <2> DEFINE e == [j \in 1..N |->
                      LET from == IF j = 1 THEN 1 ELSE c[j - 1] + W
                          next == {k \in from..N : Occurs(what, text, k)}
                      IN  IF next = {} THEN N + 1 ELSE Min(next)]
  <2>1. c = e
    BY <1>8, Zenon
  <2>2. e[n] = LET from == IF n = 1 THEN 1 ELSE c[n - 1] + W
                   next == {k \in from..N : Occurs(what, text, k)}
               IN  IF next = {} THEN N + 1 ELSE Min(next)
    BY Zenon
  <2> HIDE DEF e
  <2> QED
    BY <2>1, <2>2, Zenon
<1> HIDE DEF E
<1> DEFINE P == {n \in 0..N : n # 0 => c[n] = g[n]}
<1>11. 0 \in P
  BY <1>1
<1>12. ASSUME NEW n \in 1..N, n - 1 \in P PROVE n \in P
  <2>1. g[n] = At(g[n - 1])
    BY <1>6
  <2> DEFINE from == IF n = 1 THEN 1 ELSE c[n - 1] + W
  <2>2. g[n - 1] + W = from
    <3>1. CASE n = 1
      <4>1. n - 1 = 0 /\ (1 - W) + W = 1
        BY <1>1, <3>1
      <4> QED
        BY <1>6, <3>1, <4>1
    <3>2. CASE n # 1
      <4>1. c[n - 1] = g[n - 1]
        BY <1>1, <1>12, <3>2
      <4> QED
        BY <3>2, <4>1
    <3> QED
      BY <3>1, <3>2
  <2>3. c[n] = LET next == NextPlaces(what, text, from)
               IN  IF next = {} THEN N + 1 ELSE Min(next)
    BY <1>10
  <2> HIDE DEF from
  <2>4. c[n] = g[n]
    BY <2>1, <2>2, <2>3 DEF At
  <2> QED
    BY <1>1, <2>4
<1> HIDE DEF P
<1>13. \A n \in 0..N : n \in P
  BY <1>1, <1>11, <1>12, Inductive
<1>14. \A n \in 1..N : c[n] = g[n]
  BY <1>1, <1>13 DEF P
<1>15. (IF i = 1 THEN 1 ELSE c[i - 1] + W) \in Nat
  <2>1. CASE i = 1
    BY <2>1
  <2>2. CASE i # 1
    <3>1. i - 1 \in 1..N /\ i \in 1..N
      BY <1>1, <2>2 DEF N
    <3>2. g[i - 1] \in S /\ c[i - 1] = g[i - 1]
      BY <1>6, <1>14, <3>1
    <3> QED
      BY <2>2, <3>2 DEF S
  <2> QED
    BY <2>1, <2>2
<1>16. i \in 1..N
  BY DEF N
<1>17. c[i] = LET from == IF i = 1 THEN 1 ELSE c[i - 1] + W
                  next == NextPlaces(what, text, from)
              IN  IF next = {} THEN N + 1 ELSE Min(next)
  BY <1>10, <1>16
<1> QED
  BY <1>9, <1>15, <1>17, Zenon DEF N, W

-----------------------------------------------------------------------------
(* A search, hit by hit                                                    *)

IsList(s) == \E S : s \in Seq(S)

LEMMA RowAdded ==
  ASSUME NEW s, IsList(s), NEW x
  PROVE  /\ IsList(Append(s, x)) /\ Len(s) \in Nat /\ Len(Append(s, x)) = Len(s) + 1
         /\ Append(s, x)[Len(s) + 1] = x
         /\ \A i \in 1..Len(s) : Append(s, x)[i] = s[i]
<1>1. PICK S : s \in Seq(S)
  BY DEF IsList
<1> DEFINE T == S \cup {x}
<1>2. s \in Seq(T)
  <2>1. Len(s) \in Nat /\ s = [i \in 1..Len(s) |-> s[i]] /\ \A i \in 1..Len(s) : s[i] \in S
    BY <1>1
  <2>2. \A i \in 1..Len(s) : s[i] \in T
    BY <2>1
  <2> HIDE DEF T
  <2> QED
    BY <2>1, <2>2
<1>3. x \in T
  OBVIOUS
<1> HIDE DEF T
<1>4. /\ Append(s, x) \in Seq(T) /\ Len(Append(s, x)) = Len(s) + 1 /\ Len(s) \in Nat
      /\ Append(s, x)[Len(s) + 1] = x /\ \A i \in 1..Len(s) : Append(s, x)[i] = s[i]
  BY <1>2, <1>3
<1> QED
  BY <1>4 DEF IsList

\* Where the next hit is looked for, when the one before stood somewhere.
AtCursor(q, page, hit, cursor) ==
  LET text == q.doc.pages[page].text
  IN  /\ hit = 1 => cursor = 1
      /\ hit # 1 /\ Plain(q.query) /\ Plain(text) /\ hit - 1 <= Len(text)
           /\ Places(q.query, text)[hit - 1] <= Len(text) =>
           cursor = Places(q.query, text)[hit - 1] + Len(q.query)

LEMMA RequestIs ==
  ASSUME NEW q \in DocRequests
  PROVE  /\ q.doc.pages \in Seq(PageSet) /\ Len(q.doc.pages) \in Nat
         /\ q.query \in Seq(STRING) /\ Len(q.query) \in Nat /\ q.most \in Nat
         /\ \A n \in 1..Len(q.doc.pages) :
              q.doc.pages[n].text \in Seq(STRING) /\ q.doc.pages[n].hits \in Nat
<1>1. q.doc.pages \in Seq(PageSet) /\ q.query \in Seq(STRING) /\ q.most \in Nat
  BY DocAssumption DEF PageSet
<1>2. \A x \in PageSet : x.text \in Seq(STRING) /\ x.hits \in Nat
  BY DEF PageSet
<1>3. Len(q.doc.pages) \in Nat /\ \A n \in 1..Len(q.doc.pages) : q.doc.pages[n] \in PageSet
  BY <1>1
<1>4. \A n \in 1..Len(q.doc.pages) :
        q.doc.pages[n].text \in Seq(STRING) /\ q.doc.pages[n].hits \in Nat
  BY <1>2, <1>3
<1>5. Len(q.query) \in Nat
  BY <1>1
<1> QED
  BY <1>1, <1>3, <1>4, <1>5, Zenon

\* The next hit is shown where it stands, and the one after is looked for behind it.
LEMMA ShowsMatch ==
  ASSUME NEW r, NEW q \in DocRequests, Asked(r) = q,
         NEW page \in 1..Len(q.doc.pages), lookup[r].page = page,
         NEW hit \in Nat \ {0}, AtCursor(q, page, hit, lookup[r].cursor)
  PROVE  /\ ShowsHit(q, <<page, hit>>, [page |-> page, snippet |-> Match(r).snippet])
         /\ AtCursor(q, page, hit + 1, Match(r).cursor)
<1> DEFINE text == q.doc.pages[page].text
           what == q.query
           cursor == lookup[r].cursor
           at == Places(what, text)[hit]
           before == Places(what, text)[hit - 1]
<1>1. text \in Seq(STRING) /\ Len(text) \in Nat /\ what \in Seq(STRING) /\ Len(what) \in Nat
  <2>1. /\ q.query \in Seq(STRING) /\ Len(q.query) \in Nat
        /\ \A n \in 1..Len(q.doc.pages) : q.doc.pages[n].text \in Seq(STRING)
    BY RequestIs
  <2>2. text \in Seq(STRING)
    BY <2>1
  <2> HIDE DEF text
  <2>3. Len(text) \in Nat
    BY <2>2
  <2> QED
    BY <2>1, <2>2, <2>3
<1>2. PageOf(r).text = text
  BY DEF PageOf
<1> HIDE DEF text, what
<1>3. ASSUME Plain(what), Plain(text), hit <= Len(text), at <= Len(text)
      PROVE  /\ Match(r).snippet = Snippet(text, at, at + Len(what) - 1, q.around)
             /\ Match(r).cursor = at + Len(what)
  <2> DEFINE from == IF hit = 1 THEN 1 ELSE before + Len(what)
             next == NextPlaces(what, text, from)
             found == {i \in cursor..Len(Folded(text)) : Occurs(Folded(what), Folded(text), i)}
  <2>1. hit \in 1..Len(text)
    BY <1>1, <1>3
  <2>2. from \in Nat /\ at = IF next = {} THEN Len(text) + 1 ELSE Min(next)
    BY <1>1, <2>1, PlacesAre
  <2>3. next # {}
    BY <1>1, <1>3, <2>2
  <2>4. at = Min(next)
    BY <2>2, <2>3
  <2>5. cursor = from
    <3>1. CASE hit = 1
      BY <3>1 DEF AtCursor
    <3>2. CASE hit # 1
      <4>1. before <= Len(text)
        <5>1. from <= Len(text)
          BY <1>1, <2>2, <2>3 DEF NextPlaces
        <5>2. hit - 1 \in 1..Len(text)
          BY <1>1, <2>1, <3>2
        <5>3. before \in Int
          <6> DEFINE from2 == IF hit - 1 = 1 THEN 1
                              ELSE Places(what, text)[(hit - 1) - 1] + Len(what)
                     next2 == NextPlaces(what, text, from2)
          <6>1. from2 \in Nat /\ before = IF next2 = {} THEN Len(text) + 1 ELSE Min(next2)
            BY <1>1, <5>2, PlacesAre
          <6>2. CASE next2 = {}
            BY <1>1, <6>1, <6>2
          <6>3. CASE next2 # {}
            <7>1. next2 \subseteq Nat
              BY <1>1, <6>1 DEF NextPlaces
            <7> HIDE DEF next2
            <7>2. \E k \in next2 : \A j \in next2 : k <= j
              BY <6>3, <7>1, Smallest
            <7>3. Min(next2) \in next2
              BY <7>2 DEF Min
            <7>4. before = Min(next2)
              BY <6>1, <6>3
            <7>5. Min(next2) \in Nat
              BY <7>1, <7>3
            <7> HIDE DEF before
            <7> QED
              BY <7>4, <7>5
          <6> QED
            BY <6>2, <6>3
        <5>4. from = before + Len(what)
          BY <3>2
        <5> HIDE DEF from, before
        <5> QED
          BY <1>1, <5>1, <5>3, <5>4
      <4>2. hit - 1 <= Len(text)
        BY <1>1, <2>1
      <4> QED
        BY <1>3, <3>2, <4>1, <4>2 DEF AtCursor, text, what
    <3> QED
      BY <3>1, <3>2
  <2>6. Folded(text) = text /\ Folded(what) = what
    BY <1>1, <1>3, PlainStays
  <2>7. found = next
    BY <2>5, <2>6 DEF NextPlaces
  <2>8. Match(r) = IF found = {} THEN [cursor |-> cursor, snippet |-> HitText]
                   ELSE [cursor |-> CursorAfter(Min(found), what),
                         snippet |->
                           Snippet(text, Min(found), Min(found) + Len(what) - 1, q.around)]
    BY <1>2, Zenon DEF Match, what
  <2> HIDE DEF found, next, at
  <2>9. Match(r) = [cursor |-> CursorAfter(at, what),
                    snippet |-> Snippet(text, at, at + Len(what) - 1, q.around)]
    BY <2>3, <2>4, <2>7, <2>8
  <2> QED
    BY <2>9 DEF CursorAfter
<1> HIDE DEF at
<1>4. ShowsHit(q, <<page, hit>>, [page |-> page, snippet |-> Match(r).snippet])
  BY <1>3 DEF ShowsHit, text, what, at
<1>5. AtCursor(q, page, hit + 1, Match(r).cursor)
  <2>1. (hit + 1) - 1 = hit /\ hit + 1 # 1
    OBVIOUS
  <2> QED
    BY <1>3, <2>1 DEF AtCursor, text, what, at
<1> QED
  BY <1>4, <1>5

\* What a search that has begun has found, with the hits counted by page: the
\* hits before the one it is at, each where it stands.
FoundSoFar(l, c) ==
  LET q == l.request
      pages == q.doc.pages
  IN  /\ l.page \in 1..(Len(pages) + 1) /\ l.hit \in Nat \ {0}
      /\ IF l.page = Len(pages) + 1 THEN l.hit = 1 ELSE l.hit <= pages[l.page].hits + 1
      /\ l.page # Len(pages) + 1 => AtCursor(q, l.page, l.hit, l.cursor)
      /\ IsList(l.rows) /\ Len(l.rows) = c[l.page - 1] + l.hit - 1 /\ Len(l.rows) <= q.most
      /\ l.limited = FALSE
      /\ \A i \in 1..Len(l.rows) : ShowsHit(q, Hits(pages)[i], l.rows[i])

\* What the property says of a reader that is done.
ShowsHits(l) ==
  LET q == l.request
      hits == Hits(q.doc.pages)
  IN  /\ Len(l.rows) = Min({Len(hits), q.most})
      /\ l.limited <=> Len(hits) > q.most
      /\ \A i \in DOMAIN l.rows : ShowsHit(q, hits[i], l.rows[i])

NothingYet(l) ==
  l.page = 1 /\ l.hit = 1 /\ l.cursor = 1 /\ l.rows = <<>> /\ l.limited = FALSE

SearchOf(l) ==
  /\ l.phase # "idle" => LookupFields \subseteq DOMAIN l /\ l.request \in DocRequests
  /\ l.phase \in {"check", "parse", "remember", "set", "restore"} => NothingYet(l)
  /\ l.phase = "parsed" /\ l.request.op = "search" =>
       \E c : Counts(c, l.request.doc.pages) /\ FoundSoFar(l, c)
  /\ l.phase = "done" /\ l.request.op = "search" => ShowsHits(l)

SearchesInv == DOMAIN lookup = Reader /\ \A r \in Reader : SearchOf(lookup[r])

LEMMA MinOfTwo ==
  ASSUME NEW a \in Nat, NEW b \in Nat
  PROVE  Min({a, b}) = IF a <= b THEN a ELSE b
<1>1. \E k \in {a, b} : \A j \in {a, b} : k <= j
  OBVIOUS
<1>2. Min({a, b}) \in {a, b} /\ \A j \in {a, b} : Min({a, b}) <= j
  BY <1>1 DEF Min
<1> QED
  BY <1>2

\* Before the search nothing is found, and that is right.
LEMMA SearchBegins ==
  ASSUME NEW l, l.request \in DocRequests, NothingYet(l)
  PROVE  \E c : Counts(c, l.request.doc.pages) /\ FoundSoFar(l, c)
<1> DEFINE q == l.request
           pages == q.doc.pages
<1>1. pages \in Seq(PageSet) /\ Len(pages) \in Nat /\ q.most \in Nat
      /\ \A n \in 1..Len(pages) : pages[n].hits \in Nat
  BY RequestIs
<1>2. PICK c : Counts(c, pages)
  BY <1>1, HitsAre
<1>3. c[0] = 0
  BY <1>2 DEF Counts
<1>4. l.page = 1 /\ l.hit = 1 /\ l.cursor = 1 /\ l.rows = <<>> /\ l.limited = FALSE
  BY DEF NothingYet
<1> HIDE DEF pages, q
<1>5. IsList(<<>>) /\ Len(<<>>) = 0
  <2>1. <<>> \in Seq({}) /\ Len(<<>>) = 0
    OBVIOUS
  <2> QED
    BY <2>1 DEF IsList
<1>6. /\ l.page \in 1..(Len(pages) + 1) /\ l.hit \in Nat \ {0}
      /\ l.page # Len(pages) + 1 => l.page \in 1..Len(pages)
  BY <1>1, <1>4
<1>7. IF l.page = Len(pages) + 1 THEN l.hit = 1 ELSE l.hit <= pages[l.page].hits + 1
  BY <1>1, <1>4, <1>6
<1>8. AtCursor(q, l.page, l.hit, l.cursor)
  BY <1>4 DEF AtCursor
<1>9. IsList(l.rows) /\ Len(l.rows) = c[l.page - 1] + l.hit - 1 /\ Len(l.rows) <= q.most
  BY <1>1, <1>3, <1>4, <1>5
<1>10. \A i \in 1..Len(l.rows) : ShowsHit(q, Hits(pages)[i], l.rows[i])
  BY <1>4, <1>5
<1>11. FoundSoFar(l, c)
  BY <1>4, <1>6, <1>7, <1>8, <1>9, <1>10 DEF FoundSoFar, q, pages
<1> QED
  BY <1>2, <1>11 DEF pages, q

\* A step before the search leaves what it begins with.
SameSearch(l, m) ==
  /\ m.request = l.request /\ m.page = l.page /\ m.hit = l.hit /\ m.cursor = l.cursor
  /\ m.rows = l.rows /\ m.limited = l.limited

LEMMA NotYet ==
  ASSUME NEW l, NEW m, SearchOf(l), l.phase \in {"check", "parse", "remember", "set", "restore"},
         m.phase \in {"parse", "remember", "set", "restore", "parsed", "unreadable"},
         SameSearch(l, m), LookupFields \subseteq DOMAIN m
  PROVE  SearchOf(m)
<1>1. l.request \in DocRequests /\ NothingYet(l)
  BY DEF SearchOf
<1>2. m.request \in DocRequests /\ NothingYet(m)
  BY <1>1 DEF SameSearch, NothingYet
<1>3. \E c : Counts(c, m.request.doc.pages) /\ FoundSoFar(m, c)
  BY <1>2, SearchBegins
<1> QED
  BY <1>2, <1>3 DEF SearchOf

\* One more hit.
LEMMA RowFits ==
  ASSUME NEW r, NEW l, lookup[r] = l, NEW c, l.request \in DocRequests,
         Counts(c, l.request.doc.pages), FoundSoFar(l, c),
         l.page <= Len(l.request.doc.pages), l.hit <= PageOf(r).hits,
         Len(l.rows) < l.request.most,
         NEW m, m.request = l.request, m.page = l.page, m.hit = l.hit + 1,
         m.cursor = Match(r).cursor,
         m.rows = Append(l.rows, [page |-> l.page, snippet |-> Match(r).snippet]),
         m.limited = l.limited
  PROVE  FoundSoFar(m, c)
<1> DEFINE q == l.request
           pages == q.doc.pages
           row == [page |-> l.page, snippet |-> Match(r).snippet]
<1>1. /\ Len(pages) \in Nat /\ q.most \in Nat /\ q \in DocRequests
      /\ \A n \in 1..Len(pages) : pages[n].hits \in Nat
  BY RequestIs
<1>2. /\ l.page \in 1..(Len(pages) + 1) /\ l.hit \in Nat \ {0}
      /\ IsList(l.rows) /\ Len(l.rows) = c[l.page - 1] + l.hit - 1
      /\ l.limited = FALSE
      /\ \A i \in 1..Len(l.rows) : ShowsHit(q, Hits(pages)[i], l.rows[i])
      /\ l.page # Len(pages) + 1 => AtCursor(q, l.page, l.hit, l.cursor)
  BY DEF FoundSoFar
<1>3. l.page \in 1..Len(pages) /\ l.page # Len(pages) + 1
  BY <1>1, <1>2
<1>4. PageOf(r) = pages[l.page]
  BY DEF PageOf, Asked
<1>5. l.hit \in 1..pages[l.page].hits
  BY <1>1, <1>2, <1>3, <1>4
<1>6. AtCursor(q, l.page, l.hit, l.cursor)
  BY <1>2, <1>3
<1>7. /\ c[l.page - 1] + l.hit <= Len(Hits(pages))
      /\ Hits(pages)[c[l.page - 1] + l.hit] = <<l.page, l.hit>> /\ c[l.page - 1] \in Nat
  <2>1. l.page - 1 \in 0..Len(pages)
    BY <1>1, <1>3
  <2> QED
    BY <1>3, <1>5, <2>1 DEF Counts
<1>8. /\ ShowsHit(q, <<l.page, l.hit>>, row)
      /\ AtCursor(q, l.page, l.hit + 1, Match(r).cursor)
  <2>1. Asked(r) = q
    BY DEF Asked
  <2> HIDE DEF q, pages
  <2>2. l.page \in 1..Len(q.doc.pages)
    BY <1>3 DEF pages
  <2> QED
    BY <1>1, <1>2, <1>6, <2>1, <2>2, ShowsMatch
<1> HIDE DEF row, pages, q
<1>9. /\ IsList(m.rows) /\ Len(l.rows) \in Nat /\ Len(m.rows) = Len(l.rows) + 1
      /\ m.rows[Len(l.rows) + 1] = row
      /\ \A i \in 1..Len(l.rows) : m.rows[i] = l.rows[i]
  BY <1>2, RowAdded DEF row
<1>10. Len(l.rows) + 1 = c[l.page - 1] + l.hit
  BY <1>2, <1>7
<1>11. ASSUME NEW i \in 1..Len(m.rows) PROVE ShowsHit(q, Hits(pages)[i], m.rows[i])
  <2>1. CASE i \in 1..Len(l.rows)
    BY <1>2, <1>9, <2>1
  <2>2. CASE i = Len(l.rows) + 1
    <3>1. Hits(pages)[i] = <<l.page, l.hit>> /\ m.rows[i] = row
      BY <1>7, <1>9, <1>10, <2>2
    <3> QED
      BY <1>8, <3>1
  <2> QED
    BY <1>9, <2>1, <2>2
<1>12. Len(m.rows) = c[m.page - 1] + m.hit - 1 /\ Len(m.rows) <= q.most
  <2>1. PICK n \in Nat : n = c[l.page - 1]
    BY <1>7
  <2>2. PICK k \in Nat : k = Len(l.rows)
    BY <1>9
  <2>3. Len(m.rows) = k + 1 /\ k + 1 = n + l.hit /\ l.hit \in Nat
    BY <1>2, <1>9, <1>10, <2>1, <2>2
  <2>4. c[m.page - 1] = n /\ m.hit = l.hit + 1
    BY <2>1
  <2>5. k < q.most /\ q.most \in Nat
    BY <1>1, <2>2 DEF q
  <2>6. Len(m.rows) <= q.most
    BY <2>3, <2>5
  <2>7. n + (l.hit + 1) - 1 = k + 1
    BY <2>3
  <2> QED
    BY <2>3, <2>4, <2>6, <2>7
<1>13. /\ m.page \in 1..(Len(pages) + 1) /\ m.hit \in Nat \ {0} /\ m.page # Len(pages) + 1
       /\ m.hit <= pages[m.page].hits + 1 /\ m.limited = FALSE
  BY <1>1, <1>2, <1>3, <1>5
<1>14. AtCursor(q, m.page, m.hit, m.cursor)
  BY <1>8
<1>15. m.request = q /\ m.request.doc.pages = pages
  BY DEF q, pages
<1> QED
  BY <1>9, <1>11, <1>12, <1>13, <1>14, <1>15 DEF FoundSoFar

\* A page is through.
LEMMA PageTurns ==
  ASSUME NEW r, NEW l, lookup[r] = l, NEW c, l.request \in DocRequests,
         Counts(c, l.request.doc.pages), FoundSoFar(l, c),
         l.page <= Len(l.request.doc.pages), l.hit > PageOf(r).hits,
         NEW m, m.request = l.request, m.page = l.page + 1, m.hit = 1, m.cursor = 1,
         m.rows = l.rows, m.limited = l.limited
  PROVE  FoundSoFar(m, c)
<1> DEFINE q == l.request
           pages == q.doc.pages
<1>1. Len(pages) \in Nat /\ \A n \in 1..Len(pages) : pages[n].hits \in Nat
  BY RequestIs
<1>2. /\ l.page \in 1..(Len(pages) + 1) /\ l.hit \in Nat \ {0}
      /\ IF l.page = Len(pages) + 1 THEN l.hit = 1 ELSE l.hit <= pages[l.page].hits + 1
      /\ IsList(l.rows) /\ Len(l.rows) = c[l.page - 1] + l.hit - 1 /\ Len(l.rows) <= q.most
      /\ l.limited = FALSE
      /\ \A i \in 1..Len(l.rows) : ShowsHit(q, Hits(pages)[i], l.rows[i])
  BY DEF FoundSoFar
<1>3. l.page \in 1..Len(pages) /\ l.page # Len(pages) + 1
  BY <1>1, <1>2
<1>4. l.hit > pages[l.page].hits
  BY DEF PageOf, Asked
<1>5. l.hit = pages[l.page].hits + 1
  <2>1. PICK h \in Nat : h = pages[l.page].hits
    BY <1>1, <1>3
  <2>2. l.hit > h /\ l.hit <= h + 1 /\ l.hit \in Nat
    BY <1>2, <1>3, <1>4, <2>1
  <2> QED
    BY <2>1, <2>2
<1>6. /\ c[l.page] = c[l.page - 1] + pages[l.page].hits /\ c[l.page - 1] \in Nat
      /\ (l.page + 1) - 1 = l.page
  <2>1. l.page - 1 \in 0..Len(pages)
    BY <1>1, <1>3
  <2>2. (l.page + 1) - 1 = l.page
    BY <1>2
  <2>3. c \in [0..Len(pages) -> Nat] /\ \A n \in 1..Len(pages) : c[n] = c[n - 1] + pages[n].hits
    BY DEF Counts
  <2> HIDE DEF pages
  <2> QED
    BY <1>3, <2>1, <2>2, <2>3
<1> HIDE DEF pages, q
<1>7. Len(m.rows) = c[m.page - 1] + m.hit - 1
  BY <1>1, <1>2, <1>3, <1>5, <1>6
<1>8. /\ m.page \in 1..(Len(pages) + 1) /\ m.hit \in Nat \ {0} /\ m.limited = FALSE
      /\ m.page # Len(pages) + 1 => m.page \in 1..Len(pages)
  BY <1>1, <1>2, <1>3
<1>9. IF m.page = Len(pages) + 1 THEN m.hit = 1 ELSE m.hit <= pages[m.page].hits + 1
  BY <1>1, <1>8
<1>10. AtCursor(q, m.page, m.hit, m.cursor)
  BY DEF AtCursor
<1>11. m.request = q /\ m.request.doc.pages = pages
  BY DEF q, pages
<1>12. IsList(m.rows) /\ Len(m.rows) <= q.most
       /\ \A i \in 1..Len(m.rows) : ShowsHit(q, Hits(pages)[i], m.rows[i])
  BY <1>2
<1> QED
  BY <1>7, <1>8, <1>9, <1>10, <1>11, <1>12 DEF FoundSoFar

\* A search that ends has all there is, or as many as it may.
LEMMA AllIsShown ==
  ASSUME NEW l, NEW c, l.request \in DocRequests,
         Counts(c, l.request.doc.pages), FoundSoFar(l, c),
         NEW m, m.request = l.request, m.rows = l.rows,
         \/ l.page > Len(l.request.doc.pages) /\ m.limited = l.limited
         \/ /\ l.page <= Len(l.request.doc.pages)
            /\ l.hit <= l.request.doc.pages[l.page].hits
            /\ Len(l.rows) >= l.request.most /\ m.limited = TRUE
  PROVE  ShowsHits(m)
<1> DEFINE q == l.request
           pages == q.doc.pages
<1>1. /\ Len(pages) \in Nat /\ q.most \in Nat
      /\ \A n \in 1..Len(pages) : pages[n].hits \in Nat
  BY RequestIs
<1>2. /\ l.page \in 1..(Len(pages) + 1) /\ l.hit \in Nat \ {0}
      /\ IF l.page = Len(pages) + 1 THEN l.hit = 1 ELSE l.hit <= pages[l.page].hits + 1
      /\ IsList(l.rows) /\ Len(l.rows) = c[l.page - 1] + l.hit - 1 /\ Len(l.rows) <= q.most
      /\ l.limited = FALSE
      /\ \A i \in 1..Len(l.rows) : ShowsHit(q, Hits(pages)[i], l.rows[i])
  BY DEF FoundSoFar
<1>3. c[l.page - 1] \in Nat /\ Len(Hits(pages)) \in Nat /\ c[Len(pages)] = Len(Hits(pages))
  <2>1. l.page - 1 \in 0..Len(pages) /\ Len(pages) \in 0..Len(pages)
    BY <1>1, <1>2
  <2> QED
    BY <2>1 DEF Counts
<1> HIDE DEF pages, q
<1>4. ASSUME l.page > Len(pages), m.limited = l.limited
      PROVE  /\ Len(l.rows) = Min({Len(Hits(pages)), q.most})
             /\ m.limited <=> Len(Hits(pages)) > q.most
  <2>1. l.page = Len(pages) + 1 /\ l.page - 1 = Len(pages) /\ l.hit = 1
    BY <1>1, <1>2, <1>4
  <2>2. Len(l.rows) = Len(Hits(pages))
    BY <1>2, <1>3, <2>1
  <2>3. Len(Hits(pages)) <= q.most /\ ~(Len(Hits(pages)) > q.most)
    BY <1>1, <1>2, <1>3, <2>2
  <2>4. Min({Len(Hits(pages)), q.most}) = Len(Hits(pages))
    BY <1>1, <1>3, <2>3, MinOfTwo
  <2> QED
    BY <1>2, <1>4, <2>2, <2>3, <2>4
<1>5. ASSUME l.page <= Len(pages), l.hit <= pages[l.page].hits,
             Len(l.rows) >= q.most, m.limited = TRUE
      PROVE  /\ Len(l.rows) = Min({Len(Hits(pages)), q.most})
             /\ m.limited <=> Len(Hits(pages)) > q.most
  <2>1. l.page \in 1..Len(pages)
    BY <1>1, <1>2, <1>5
  <2>2. l.hit \in 1..pages[l.page].hits
    BY <1>1, <1>2, <1>5, <2>1
  <2>3. c[l.page - 1] + l.hit <= Len(Hits(pages))
    BY <2>1, <2>2 DEF Counts, pages, q
  <2>4. Len(l.rows) = q.most /\ Len(Hits(pages)) > q.most
    BY <1>1, <1>2, <1>3, <1>5, <2>3
  <2>5. Min({Len(Hits(pages)), q.most}) = q.most
    BY <1>1, <1>3, <2>4, MinOfTwo
  <2> QED
    BY <1>5, <2>4, <2>5
<1>6. /\ Len(l.rows) = Min({Len(Hits(pages)), q.most})
      /\ m.limited <=> Len(Hits(pages)) > q.most
  BY <1>4, <1>5 DEF pages, q
<1>7. DOMAIN l.rows = 1..Len(l.rows)
  BY <1>2 DEF IsList
<1>8. m.request = q /\ m.request.doc.pages = pages
  BY DEF q, pages
<1> QED
  BY <1>2, <1>6, <1>7, <1>8 DEF ShowsHits

LEMMA SearchesNext ==
  ASSUME SearchesInv, [DocNext]_docVars
  PROVE  SearchesInv'
<1>1. CASE UNCHANGED docVars
  <2>1. lookup' = lookup
    BY <1>1 DEF docVars
  <2> QED
    BY <2>1 DEF SearchesInv
<1>2. ASSUME NEW r \in Reader, ReaderStep(r) PROVE SearchesInv'
  <2> DEFINE l == lookup[r]
             q == l.request
  <2>1. DOMAIN lookup = Reader /\ \A s \in Reader : SearchOf(lookup[s])
    BY DEF SearchesInv
  <2>2. SearchOf(l) /\ (l.phase # "idle" => LookupFields \subseteq DOMAIN l /\ q \in DocRequests)
    BY <2>1 DEF SearchOf
  <2>3. ASSUME NEW m, lookup' = [lookup EXCEPT ![r] = m], SearchOf(m) PROVE SearchesInv'
    <3>1. DOMAIN lookup' = Reader /\ \A s \in Reader : SearchOf(lookup'[s])
      BY <2>1, <2>3
    <3> QED
      BY <3>1 DEF SearchesInv
  <2>4. CASE \E a \in DocRequests : AskDoc(r, a)
    <3>1. PICK a \in DocRequests : lookup' = [lookup EXCEPT ![r] =
            [phase |-> "check", request |-> a, try |-> 0, saved |-> "none", outcome |-> "none",
             page |-> 1, hit |-> 1, cursor |-> 1, rows |-> <<>>, limited |-> FALSE]]
      BY <2>4 DEF AskDoc
    <3> DEFINE m == [phase |-> "check", request |-> a, try |-> 0, saved |-> "none",
                     outcome |-> "none",
                     page |-> 1, hit |-> 1, cursor |-> 1, rows |-> <<>>, limited |-> FALSE]
    <3>2. /\ LookupFields \subseteq DOMAIN m /\ m.request = a /\ m.phase = "check"
          /\ m.page = 1 /\ m.hit = 1 /\ m.cursor = 1 /\ m.rows = <<>> /\ m.limited = FALSE
      BY DEF LookupFields
    <3>3. lookup' = [lookup EXCEPT ![r] = m]
      BY <3>1
    <3> HIDE DEF m
    <3>4. SearchOf(m)
      BY <3>2 DEF SearchOf, NothingYet
    <3> QED
      BY <2>3, <3>3, <3>4
  <2>5. ASSUME l.phase \in {"check", "parse", "remember", "set", "restore"},
               NEW m, lookup' = [lookup EXCEPT ![r] = m], SameSearch(l, m),
               LookupFields \subseteq DOMAIN m,
               m.phase \in {"parse", "remember", "set", "restore", "parsed", "unreadable"}
        PROVE  SearchesInv'
    <3>1. SearchOf(m)
      BY <2>2, <2>5, NotYet
    <3> QED
      BY <2>3, <2>5, <3>1
  <2>6. CASE CheckOcr(r)
    <3> DEFINE m == [l EXCEPT !.phase = IF q.ocr /\ ~q.models THEN "unreadable" ELSE "parse"]
    <3>1. l.phase = "check" /\ lookup' = [lookup EXCEPT ![r] = m]
      BY <2>1, <2>6 DEF CheckOcr, Phase, Asked, Goes
    <3>2. SameSearch(l, m) /\ LookupFields \subseteq DOMAIN m /\ m.phase \in {"parse", "unreadable"}
      BY <2>2, <3>1 DEF SameSearch, LookupFields
    <3> HIDE DEF m
    <3> QED
      BY <2>5, <3>1, <3>2
  <2>7. ASSUME NEW outcome, NEW try
        PROVE  AfterTry(outcome, try) \in {"parsed", "unreadable", "remember"}
    BY DEF AfterTry
  <2>8. CASE Parse(r)
    <3>1. PICK outcome : /\ l.phase = "parse"
             /\ lookup' = [lookup EXCEPT ![r].outcome = outcome,
                  ![r].phase = IF l.try = 0 THEN AfterTry(outcome, 0) ELSE "restore"]
      BY <2>8 DEF Parse, Phase
    <3>2. PICK phase \in {"parsed", "unreadable", "remember", "restore"} :
            phase = IF l.try = 0 THEN AfterTry(outcome, 0) ELSE "restore"
      BY <2>7
    <3> DEFINE m == [l EXCEPT !.outcome = outcome, !.phase = phase]
    <3>3. lookup' = [lookup EXCEPT ![r] = m]
      BY <2>1, <3>1, <3>2
    <3>4. SameSearch(l, m) /\ LookupFields \subseteq DOMAIN m /\ m.phase = phase
      BY <2>2, <3>1 DEF SameSearch, LookupFields
    <3> HIDE DEF m
    <3> QED
      BY <2>5, <3>1, <3>2, <3>3, <3>4
  <2>9. CASE RememberLocale(r)
    <3> DEFINE m == [l EXCEPT !.saved = lcAll, !.try = @ + 1, !.phase = "set"]
    <3>1. l.phase = "remember" /\ lookup' = [lookup EXCEPT ![r] = m]
      BY <2>1, <2>9 DEF RememberLocale, Phase
    <3>2. SameSearch(l, m) /\ LookupFields \subseteq DOMAIN m /\ m.phase = "set"
      BY <2>2, <3>1 DEF SameSearch, LookupFields
    <3> HIDE DEF m
    <3> QED
      BY <2>5, <3>1, <3>2
  <2>10. CASE SetLocale(r)
    <3> DEFINE m == [l EXCEPT !.phase = "parse"]
    <3>1. l.phase = "set" /\ lookup' = [lookup EXCEPT ![r] = m]
      BY <2>1, <2>10 DEF SetLocale, Phase, Goes
    <3>2. SameSearch(l, m) /\ LookupFields \subseteq DOMAIN m /\ m.phase = "parse"
      BY <2>2, <3>1 DEF SameSearch, LookupFields
    <3> HIDE DEF m
    <3> QED
      BY <2>5, <3>1, <3>2
  <2>11. CASE Restore(r)
    <3>1. PICK phase \in {"parsed", "unreadable", "remember"} :
            l.phase = "restore" /\ lookup' = [lookup EXCEPT ![r].phase = phase]
      BY <2>7, <2>11 DEF Restore, Phase, Goes
    <3> DEFINE m == [l EXCEPT !.phase = phase]
    <3>2. lookup' = [lookup EXCEPT ![r] = m]
      BY <2>1, <3>1
    <3>3. SameSearch(l, m) /\ LookupFields \subseteq DOMAIN m /\ m.phase = phase
      BY <2>2, <3>1 DEF SameSearch, LookupFields
    <3> HIDE DEF m
    <3> QED
      BY <2>5, <3>1, <3>2, <3>3
  <2>12. ASSUME l.phase = "parsed", q.op = "search"
         PROVE  \E c : Counts(c, q.doc.pages) /\ FoundSoFar(l, c)
    BY <2>2, <2>12 DEF SearchOf
  <2>13. ASSUME l.phase # "idle",
                NEW m, lookup' = [lookup EXCEPT ![r] = m], LookupFields \subseteq DOMAIN m,
                m.request = q, m.phase \in {"done", "failed"},
                m.phase = "done" /\ q.op = "search" => ShowsHits(m)
         PROVE  SearchesInv'
    <3>1. SearchOf(m)
      BY <2>2, <2>13 DEF SearchOf
    <3> QED
      BY <2>3, <2>13, <3>1
  <2>14. CASE SearchHit(r)
    <3>1. /\ l.phase = "parsed" /\ q.op = "search"
          /\ l.page <= Len(q.doc.pages) /\ l.hit <= PageOf(r).hits
      BY <2>14 DEF SearchHit, Searching, More, Phase, Asked
    <3>2. PICK c : Counts(c, q.doc.pages) /\ FoundSoFar(l, c)
      BY <2>12, <3>1
    <3>3. LookupFields \subseteq DOMAIN l /\ q \in DocRequests
      BY <2>2, <3>1
    <3>4. l.hit <= q.doc.pages[l.page].hits
      BY <3>1 DEF PageOf, Asked
    <3>5. CASE Len(l.rows) >= q.most
               /\ lookup' = [lookup EXCEPT ![r].phase = "done", ![r].limited = TRUE]
      <4> DEFINE m == [l EXCEPT !.phase = "done", !.limited = TRUE]
      <4>1. lookup' = [lookup EXCEPT ![r] = m]
        BY <2>1, <3>5
      <4>2. /\ LookupFields \subseteq DOMAIN m /\ m.request = q /\ m.phase = "done"
            /\ m.rows = l.rows /\ m.limited = TRUE
        BY <3>3 DEF LookupFields
      <4> HIDE DEF m
      <4>3. ShowsHits(m)
        BY <3>1, <3>2, <3>3, <3>4, <3>5, <4>2, AllIsShown
      <4> QED
        BY <2>13, <3>1, <4>1, <4>2, <4>3
    <3>6. CASE lookup' = [lookup EXCEPT ![r].phase = "failed"]
      <4> DEFINE m == [l EXCEPT !.phase = "failed"]
      <4>1. lookup' = [lookup EXCEPT ![r] = m]
        BY <2>1, <3>6
      <4>2. LookupFields \subseteq DOMAIN m /\ m.request = q /\ m.phase = "failed"
        BY <3>3 DEF LookupFields
      <4> HIDE DEF m
      <4> QED
        BY <2>13, <3>1, <4>1, <4>2
    <3>7. CASE /\ Len(l.rows) < Min({q.most, q.room})
               /\ lookup' = [lookup EXCEPT ![r].hit = @ + 1, ![r].cursor = Match(r).cursor,
                    ![r].rows = Append(@, [page |-> l.page, snippet |-> Match(r).snippet])]
      <4>1. PICK cursor, more : cursor = Match(r).cursor
               /\ more = Append(l.rows, [page |-> l.page, snippet |-> Match(r).snippet])
        OBVIOUS
      <4> DEFINE m == [l EXCEPT !.hit = @ + 1, !.cursor = cursor, !.rows = more]
      <4>2. lookup' = [lookup EXCEPT ![r] = m]
        BY <2>1, <3>7, <4>1
      <4>3. /\ LookupFields \subseteq DOMAIN m /\ m.request = q /\ m.phase = "parsed"
            /\ m.page = l.page /\ m.hit = l.hit + 1 /\ m.cursor = cursor /\ m.rows = more /\ m.limited = l.limited
        BY <3>1, <3>3 DEF LookupFields
      <4>4. Len(l.rows) < q.most
        <5>1. q.most \in Nat /\ q.room \in Nat
          BY <3>3, RequestIs, DocAssumption
        <5>2. Len(l.rows) \in Nat
          BY <3>2 DEF FoundSoFar, IsList
        <5>3. PICK k : k = Min({q.most, q.room})
          OBVIOUS
        <5>4. k = IF q.most <= q.room THEN q.most ELSE q.room
          BY <5>1, <5>3, MinOfTwo
        <5>5. Len(l.rows) < k
          BY <3>7, <5>3
        <5> QED
          BY <5>1, <5>2, <5>4, <5>5
      <4> HIDE DEF m
      <4>5. FoundSoFar(m, c)
        BY <3>1, <3>2, <3>3, <4>1, <4>3, <4>4, RowFits
      <4>6. SearchOf(m)
        BY <3>2, <3>3, <4>3, <4>5 DEF SearchOf
      <4> QED
        BY <2>3, <4>2, <4>6
    <3> QED
      BY <2>14, <3>5, <3>6, <3>7 DEF SearchHit, Asked, Goes
  <2>15. CASE NextPage(r)
    <3>1. /\ l.phase = "parsed" /\ q.op = "search"
          /\ l.page <= Len(q.doc.pages) /\ l.hit > PageOf(r).hits
          /\ lookup' = [lookup EXCEPT ![r].page = @ + 1, ![r].hit = 1, ![r].cursor = 1]
      BY <2>15 DEF NextPage, Searching, More, Phase, Asked
    <3>2. PICK c : Counts(c, q.doc.pages) /\ FoundSoFar(l, c)
      BY <2>12, <3>1
    <3>3. LookupFields \subseteq DOMAIN l /\ q \in DocRequests
      BY <2>2, <3>1
    <3> DEFINE m == [l EXCEPT !.page = @ + 1, !.hit = 1, !.cursor = 1]
    <3>4. lookup' = [lookup EXCEPT ![r] = m]
      BY <2>1, <3>1
    <3>5. /\ LookupFields \subseteq DOMAIN m /\ m.request = q /\ m.phase = "parsed"
          /\ m.page = l.page + 1 /\ m.hit = 1 /\ m.cursor = 1
          /\ m.rows = l.rows /\ m.limited = l.limited
      BY <3>1, <3>3 DEF LookupFields
    <3> HIDE DEF m
    <3>6. FoundSoFar(m, c)
      BY <3>1, <3>2, <3>3, <3>5, PageTurns
    <3>7. SearchOf(m)
      BY <3>2, <3>3, <3>5, <3>6 DEF SearchOf
    <3> QED
      BY <2>3, <3>4, <3>7
  <2>16. CASE SearchEnds(r)
    <3>1. /\ l.phase = "parsed" /\ q.op = "search" /\ ~(l.page <= Len(q.doc.pages))
          /\ lookup' = [lookup EXCEPT ![r].phase = "done"]
      BY <2>16 DEF SearchEnds, Searching, More, Phase, Asked, Goes
    <3>2. PICK c : Counts(c, q.doc.pages) /\ FoundSoFar(l, c)
      BY <2>12, <3>1
    <3>3. LookupFields \subseteq DOMAIN l /\ q \in DocRequests
      BY <2>2, <3>1
    <3>4. l.page > Len(q.doc.pages)
      <4>1. Len(q.doc.pages) \in Nat /\ l.page \in Nat
        BY <3>2, <3>3, RequestIs DEF FoundSoFar
      <4> QED
        BY <3>1, <4>1
    <3> DEFINE m == [l EXCEPT !.phase = "done"]
    <3>5. lookup' = [lookup EXCEPT ![r] = m]
      BY <2>1, <3>1
    <3>6. /\ LookupFields \subseteq DOMAIN m /\ m.request = q /\ m.phase = "done"
          /\ m.rows = l.rows /\ m.limited = l.limited
      BY <3>3 DEF LookupFields
    <3> HIDE DEF m
    <3>7. ShowsHits(m)
      BY <3>2, <3>3, <3>4, <3>6, AllIsShown
    <3> QED
      BY <2>13, <3>1, <3>5, <3>6, <3>7
  <2>17. CASE ReadText(r)
    <3>1. \E x, y : lookup' = [lookup EXCEPT ![r].phase = "done", ![r].rows = x, ![r].limited = y]
      BY <2>17, Zenon DEF ReadText
    <3>2. l.phase = "parsed" /\ q.op = "read"
      BY <2>17 DEF ReadText, Phase, Asked
    <3>3. LookupFields \subseteq DOMAIN l
      BY <2>2, <3>2
    <3>4. PICK x, y : lookup' = [lookup EXCEPT ![r].phase = "done", ![r].rows = x, ![r].limited = y]
      BY <3>1
    <3> DEFINE m == [l EXCEPT !.phase = "done", !.rows = x, !.limited = y]
    <3>5. lookup' = [lookup EXCEPT ![r] = m]
      BY <2>1, <3>4
    <3>6. LookupFields \subseteq DOMAIN m /\ m.request = q /\ m.phase = "done"
      BY <3>3 DEF LookupFields
    <3> HIDE DEF m
    <3> QED
      BY <2>13, <3>2, <3>5, <3>6
  <2>18. CASE Outline(r)
    <3>1. l.phase = "parsed" /\ q.op = "outline"
      BY <2>18 DEF Outline, Phase, Asked
    <3>2. LookupFields \subseteq DOMAIN l
      BY <2>2, <3>1
    <3>3. \/ lookup' = [lookup EXCEPT ![r].phase = "failed"]
          \/ \E x : lookup' = [lookup EXCEPT ![r].phase = "done", ![r].rows = x]
      BY <2>18, <2>1 DEF Outline
    <3>4. CASE lookup' = [lookup EXCEPT ![r].phase = "failed"]
      <4> DEFINE m == [l EXCEPT !.phase = "failed"]
      <4>1. lookup' = [lookup EXCEPT ![r] = m]
        BY <2>1, <3>4
      <4>2. LookupFields \subseteq DOMAIN m /\ m.request = q /\ m.phase = "failed"
        BY <3>2 DEF LookupFields
      <4> HIDE DEF m
      <4> QED
        BY <2>13, <3>1, <4>1, <4>2
    <3>5. ASSUME NEW x, lookup' = [lookup EXCEPT ![r].phase = "done", ![r].rows = x]
          PROVE  SearchesInv'
      <4> DEFINE m == [l EXCEPT !.phase = "done", !.rows = x]
      <4>1. lookup' = [lookup EXCEPT ![r] = m]
        BY <2>1, <3>5
      <4>2. LookupFields \subseteq DOMAIN m /\ m.request = q /\ m.phase = "done"
        BY <3>2 DEF LookupFields
      <4> HIDE DEF m
      <4> QED
        BY <2>13, <3>1, <4>1, <4>2
    <3> QED
      BY <3>3, <3>4, <3>5
  <2> QED
    BY <1>2, <2>4, <2>6, <2>8, <2>9, <2>10, <2>11, <2>14, <2>15, <2>16, <2>17, <2>18, Zenon
       DEF ReaderStep
<1> QED
  BY <1>1, <1>2 DEF DocNext

\* Whatever the documents, the queries and how many rows an answer may have, what
\* search_document answers are the hits in the order of the pages, as many as it
\* may, each with the place where the query stands, and it says exactly then that
\* there are more when there are (documents/payload.py, SearchDocument); also of
\* several readers in one process.
THEOREM SearchesShowHits == DocSpec => []SearchShowsHits
<1>1. DocInit => SearchesInv
  BY DEF DocInit, SearchesInv, SearchOf, NoLookup
<1>2. SearchesInv /\ [DocNext]_docVars => SearchesInv'
  BY SearchesNext
<1>3. SearchesInv => SearchShowsHits
  <2> SUFFICES ASSUME SearchesInv, NEW r \in Reader, Phase(r) = "done", Asked(r).op = "search"
               PROVE  ShowsHits(lookup[r])
    BY DEF SearchShowsHits, ShowsHits, Asked
  <2> QED
    BY DEF SearchesInv, SearchOf, Phase, Asked
<1> QED
  BY <1>1, <1>2, <1>3, PTL DEF DocSpec
=============================================================================
