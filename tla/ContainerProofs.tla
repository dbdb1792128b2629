-------------------------- MODULE ContainerProofs --------------------------
(***************************************************************************)
(* A cached provider has one instance, and a closed container leaves none  *)
(* of its instances open: machine-checked for any providers, dependencies  *)
(* and calls, whatever fails or is closed meanwhile.                       *)
(***************************************************************************)
EXTENDS Container, TLAPS

Frame == [p : Providers, k : Containers, todo : Seq(Providers), uses : SUBSET Nat,
          at : {"deps", "lock", "produce"}, age : Nat]
Instance == [p : Providers, k : Containers, uses : SUBSET Nat,
             state : {"open", "closing", "closed"}, late : BOOLEAN]

ContainerTyped ==
  /\ pc \in [Tasks -> {"idle", "resolving", "serving", "closing", "done", "dead"}]
  /\ pc["leave"] # "resolving"
  /\ home \in [Calls -> {"app", "session"}]
  /\ want \in [Tasks -> Seq(Providers)] /\ frames \in [Tasks -> Seq(Frame)]
  /\ cache \in [Containers -> [Providers -> Nat]] /\ age \in [Containers -> Nat]
  /\ inst \in Seq(Instance)

\* Only the innermost resolve may be past its dependencies.
FramesNest ==
  \A t \in Tasks :
    /\ frames[t] # <<>> => pc[t] = "resolving" /\ want[t] # <<>>
    /\ \A n \in 1..Len(frames[t]) :
         /\ frames[t][n].at = "deps" => frames[t][n].todo # <<>>
         /\ n < Len(frames[t]) => frames[t][n].at = "deps"

\* The locks of a container are cleared when it is being closed and not before.
LocksAreFirst ==
  /\ \A k \in Containers : ~Closing(k) => age[k] = 0
  /\ \A t \in Tasks : \A n \in 1..Len(frames[t]) :
       ~Closing(frames[t][n].k) => frames[t][n].age = 0

\* Task t awaits the provider p under its lock in container k.
Making(t, k, p) ==
  frames[t] # <<>> /\ Top(t).at = "produce" /\ Top(t).k = k /\ Top(t).p = p

\* It is alone there, and before the value there is none in the cache.
OneMaker ==
  \A k \in Containers : \A p \in Providers : IsCached(p) /\ ~Closing(k) =>
    \A t \in Tasks : Making(t, k, p) =>
      cache[k][p] = 0 /\ \A u \in Tasks : Making(u, k, p) => u = t

CacheKnows ==
  \A i \in 1..Len(inst) :
    IsCached(inst[i].p) /\ ~inst[i].late /\ ~Closing(inst[i].k) =>
      cache[inst[i].k][inst[i].p] = i

ContainerInv ==
  /\ ContainerTyped /\ FramesNest /\ LocksAreFirst /\ OneMaker /\ CacheKnows /\ OneInstance

\* The application starts with nothing made.
LEMMA ContainerInvInit == Init => ContainerInv
  <1> SUFFICES ASSUME Init PROVE ContainerInv
    OBVIOUS
  <1>1. ContainerTyped
    BY ScopesAssumption DEF Init, ContainerTyped, Tasks, Containers
  <1>2. \A t \in Tasks : frames[t] = <<>>
    BY DEF Init
  <1>3. FramesNest /\ LocksAreFirst
    BY <1>2 DEF Init, FramesNest, LocksAreFirst
  <1>4. OneMaker
    BY <1>2 DEF OneMaker, Making
  <1>5. CacheKnows /\ OneInstance
    BY DEF Init, CacheKnows, OneInstance
  <1> QED
    BY <1>1, <1>3, <1>4, <1>5 DEF ContainerInv

\* The elements of the sequences have their types.
LEMMA Elements ==
  ASSUME ContainerTyped
  PROVE  /\ \A t \in Tasks : \A n \in 1..Len(frames[t]) :
              /\ frames[t][n] \in Frame /\ frames[t][n].k \in Containers
              /\ frames[t][n].p \in Providers
         /\ \A i \in 1..Len(inst) :
              /\ inst[i] \in Instance /\ inst[i].k \in Containers /\ inst[i].p \in Providers
         /\ Len(inst) \in Nat /\ DOMAIN inst = 1..Len(inst)
         /\ \A t \in Tasks : Len(frames[t]) \in Nat
  <1>1. ASSUME NEW t \in Tasks, NEW n \in 1..Len(frames[t]) PROVE frames[t][n] \in Frame
    <2>1. frames[t] \in Seq(Frame)
      BY DEF ContainerTyped
    <2> QED
      BY <2>1
  <1>2. ASSUME NEW i \in 1..Len(inst) PROVE inst[i] \in Instance
    BY DEF ContainerTyped
  <1>3. \A f \in Frame : f.k \in Containers /\ f.p \in Providers
    BY DEF Frame
  <1>4. \A x \in Instance : x.k \in Containers /\ x.p \in Providers
    BY DEF Instance
  <1>5. Len(inst) \in Nat /\ DOMAIN inst = 1..Len(inst) /\ \A t \in Tasks : Len(frames[t]) \in Nat
    <2>1. \A t \in Tasks : frames[t] \in Seq(Frame)
      BY DEF ContainerTyped
    <2> QED
      BY <2>1 DEF ContainerTyped
  <1> QED
    BY <1>1, <1>2, <1>3, <1>4, <1>5

-----------------------------------------------------------------------------
\* A container that is being closed is never opened again.
LEMMA ClosingStays ==
  ASSUME ContainerTyped, NEW t \in Tasks, NEW a,
         pc' = [pc EXCEPT ![t] = a],
         pc[t] \in {"closing", "done"} => a \in {"closing", "done"}
  PROVE  \A k \in Containers : Closing(k) => Closing(k)'
  BY DEF ContainerTyped, Closing, Closes

\* Its instances keep what they are while they are torn down.
SameInstances ==
  /\ inst' \in Seq(Instance) /\ Len(inst') = Len(inst)
  /\ \A i \in 1..Len(inst) : /\ inst'[i].p = inst[i].p /\ inst'[i].k = inst[i].k
                             /\ inst'[i].late = inst[i].late

\* Steps that resolve nothing, or let a task forget what it resolves, keep it.
LEMMA NothingMade ==
  ASSUME ContainerInv, ContainerTyped', SameInstances, cache' = cache, age' = age,
         \A k \in Containers : Closing(k) => Closing(k)',
         \A t \in Tasks : \/ frames'[t] = <<>>
                          \/ frames'[t] = frames[t] /\ (frames[t] # <<>> =>
                                                          pc'[t] = pc[t] /\ want'[t] = want[t])
  PROVE  ContainerInv'
  <1>1. FramesNest'
    BY DEF ContainerInv, FramesNest
  <1>2. LocksAreFirst'
    <2>1. \A t \in Tasks : \A n \in 1..Len(frames[t]) : frames[t][n].k \in Containers
      BY Elements DEF ContainerInv
    <2> QED
      BY <2>1 DEF ContainerInv, LocksAreFirst
  <1>3. OneMaker'
    <2>1. \A t \in Tasks, k \in Containers, p \in Providers :
            Making(t, k, p)' => Making(t, k, p)
      BY DEF Making, Top, Last
    <2> QED
      BY <2>1 DEF ContainerInv, OneMaker
  <1>4. CacheKnows'
    <2>1. \A i \in 1..Len(inst) : inst[i].k \in Containers
      BY Elements DEF ContainerInv
    <2> QED
      BY <2>1 DEF SameInstances, ContainerInv, CacheKnows
  <1>5. OneInstance'
    <2>1. DOMAIN inst' = DOMAIN inst /\ DOMAIN inst = 1..Len(inst)
      BY Elements DEF SameInstances, ContainerInv
    <2> QED
      BY <2>1 DEF SameInstances, ContainerInv, OneInstance
  <1> QED
    BY <1>1, <1>2, <1>3, <1>4, <1>5 DEF ContainerInv

\* A teardown changes the state of an instance.
LEMMA TeardownKeeps ==
  ASSUME ContainerInv, NEW t \in Tasks, TeardownBegins(t) \/ TeardownEnds(t)
  PROVE  ContainerInv'
  <1>1. UNCHANGED <<pc, home, want, frames, cache, age>>
    BY DEF TeardownBegins, TeardownEnds
  <1>a. inst \in Seq(Instance) /\ DOMAIN inst = 1..Len(inst) /\ Len(inst) \in Nat
    BY Elements DEF ContainerInv, ContainerTyped
  <1>2. \/ inst' = inst
        \/ \E i \in 1..Len(inst), s \in {"closing", "closed"} :
             inst' = [inst EXCEPT ![i] = [inst[i] EXCEPT !.state = s]]
    <2>1. CASE TeardownBegins(t)
      <3>1. PICK i \in Range(exits[Closes(t)]) : inst' = [inst EXCEPT ![i].state = "closing"]
        BY <2>1 DEF TeardownBegins
      <3>2. CASE i \in DOMAIN inst
        BY <1>a, <3>1, <3>2
      <3>3. CASE i \notin DOMAIN inst
        <4>1. inst' = [j \in DOMAIN inst |-> inst[j]]
          BY <1>a, <3>1, <3>3
        <4> QED
          BY <1>a, <4>1
      <3> QED
        BY <3>2, <3>3
    <2>2. CASE TeardownEnds(t)
      BY <1>a, <2>2 DEF TeardownEnds, Under
    <2> QED
      BY <2>1, <2>2
  <1>3. SameInstances
    <2>0. inst \in Seq(Instance) /\ \A x \in 1..Len(inst) : inst[x] \in Instance
      BY Elements DEF ContainerInv, ContainerTyped
    <2>b. CASE inst' = inst
      BY <2>0, <2>b DEF SameInstances
    <2> SUFFICES ASSUME inst' # inst PROVE SameInstances
      BY <2>b
    <2>a. PICK i \in 1..Len(inst), s \in {"closing", "closed"} :
            inst' = [inst EXCEPT ![i] = [inst[i] EXCEPT !.state = s]]
      BY <1>2, <2>0
    <2> DEFINE new == [inst[i] EXCEPT !.state = s]
    <2>1. /\ new \in Instance /\ new.p = inst[i].p /\ new.k = inst[i].k
          /\ new.late = inst[i].late
      BY <2>0 DEF Instance
    <2> HIDE DEF new
    <2>2. inst' = [inst EXCEPT ![i] = new]
      BY <2>a DEF new
    <2>3. inst' \in Seq(Instance) /\ Len(inst') = Len(inst)
      BY <2>0, <2>1, <2>2
    <2>4. \A j \in 1..Len(inst) : inst'[j] = IF j = i THEN new ELSE inst[j]
      BY <2>0, <2>2
    <2> QED
      BY <2>1, <2>3, <2>4 DEF SameInstances
  <1>4. ContainerTyped'
    BY <1>1, <1>3 DEF ContainerInv, ContainerTyped, SameInstances
  <1> QED
    BY <1>1, <1>3, <1>4, NothingMade DEF Closing

\* A task begins, ends, leaves, or gives up with what it was resolving.
LEMMA ComingAndGoing ==
  ASSUME ContainerInv,
         \/ \E c \in Calls : Begin(c) \/ BeginRefused(c)
         \/ \E t \in Tasks : Refused(t) \/ Fails(t) \/ Resolved(t)
         \/ Leave \/ Shutdown
  PROVE  ContainerInv'
  <1>0. ContainerTyped /\ FramesNest /\ "boot" \in Tasks /\ "leave" \in Tasks /\ Calls \subseteq Tasks
    BY DEF ContainerInv, Tasks
  <1>a. UNCHANGED <<cache, age, inst>> /\ SameInstances
    BY <1>0 DEF Begin, BeginRefused, Refused, Fails, Resolved, Leave, Shutdown, SameInstances,
                ContainerTyped
  <1>1. ASSUME NEW c \in Calls, Begin(c) PROVE ContainerInv'
    <2>1. PICK h \in Where[c], w \in Wants[c] :
            /\ pc[c] = "idle" /\ home' = [home EXCEPT ![c] = h]
            /\ want' = [want EXCEPT ![c] = w] /\ pc' = [pc EXCEPT ![c] = "resolving"]
            /\ frames' = frames
      BY <1>1 DEF Begin
    <2>2. h \in {"app", "session"} /\ w \in Seq(Providers) /\ c # "leave"
      BY ScopesAssumption
    <2>3. ContainerTyped'
      BY <1>0, <1>a, <2>1, <2>2 DEF ContainerTyped
    <2>4. \A k \in Containers : Closing(k) => Closing(k)'
      BY <1>0, <2>1, ClosingStays
    <2>5. frames[c] = <<>>
      BY <1>0, <2>1 DEF FramesNest
    <2>6. \A t \in Tasks : frames[t] # <<>> => pc'[t] = pc[t] /\ want'[t] = want[t]
      BY <1>0, <2>1, <2>5 DEF ContainerTyped
    <2> QED
      BY <1>a, <2>1, <2>3, <2>4, <2>6, NothingMade
  <1>2. ASSUME NEW t \in Tasks, NEW a \in {"serving", "closing", "done"},
               pc' = [pc EXCEPT ![t] = a], UNCHANGED <<home, want, frames>>,
               frames[t] = <<>>, pc[t] \in {"closing", "done"} => a \in {"closing", "done"}
        PROVE  ContainerInv'
    <2>1. ContainerTyped'
      BY <1>0, <1>2, <1>a DEF ContainerTyped
    <2>2. \A k \in Containers : Closing(k) => Closing(k)'
      BY <1>0, <1>2, ClosingStays
    <2>3. \A u \in Tasks : frames[u] # <<>> => pc'[u] = pc[u]
      BY <1>0, <1>2 DEF ContainerTyped
    <2> QED
      BY <1>2, <1>a, <2>1, <2>2, <2>3, NothingMade
  <1>3. ASSUME NEW c \in Calls, BeginRefused(c) PROVE ContainerInv'
    BY <1>0, <1>2, <1>3 DEF BeginRefused, FramesNest
  <1>4. ASSUME NEW t \in Tasks, Resolved(t) PROVE ContainerInv'
    BY <1>2, <1>4 DEF Resolved
  <1>5. ASSUME Leave PROVE ContainerInv'
    BY <1>0, <1>2, <1>5 DEF Leave, FramesNest
  <1>6. ASSUME Shutdown PROVE ContainerInv'
    BY <1>0, <1>2, <1>6 DEF Shutdown, FramesNest
  <1>7. ASSUME NEW t \in Tasks, Refused(t) \/ Fails(t) PROVE ContainerInv'
    <2>1. PICK a \in {"dead", "closing"} :
            /\ pc[t] = "resolving" /\ pc' = [pc EXCEPT ![t] = a] /\ home' = home
            /\ frames' = [frames EXCEPT ![t] = <<>>] /\ want' = [want EXCEPT ![t] = <<>>]
      BY <1>7 DEF Refused, Fails, Unwind, Seeking, At
    <2>2. ContainerTyped'
      BY <1>0, <1>a, <2>1 DEF ContainerTyped
    <2>3. \A k \in Containers : Closing(k) => Closing(k)'
      BY <1>0, <2>1, ClosingStays
    <2>4. \A u \in Tasks : \/ frames'[u] = <<>>
                           \/ frames'[u] = frames[u] /\ pc'[u] = pc[u] /\ want'[u] = want[u]
      BY <1>0, <2>1 DEF ContainerTyped
    <2> QED
      BY <1>a, <2>2, <2>3, <2>4, NothingMade
  <1> QED
    BY <1>1, <1>3, <1>4, <1>5, <1>6, <1>7

\* Closing a container empties its cache, and it is closing then.
LEMMA ClosedKeeps == ASSUME ContainerInv, NEW t \in Tasks, Closed(t) PROVE ContainerInv'
  <1>0. /\ ContainerTyped /\ FramesNest /\ LocksAreFirst /\ OneMaker /\ CacheKnows /\ OneInstance
        /\ pc[t] = "closing" /\ pc' = [pc EXCEPT ![t] = "done"]
        /\ UNCHANGED <<home, want, frames, inst>>
    BY DEF Closed, ContainerInv
  <1>1. \A k \in Containers : Closing(k) => Closing(k)'
    BY <1>0, ClosingStays
  <1>2. Closes(t) \in Containers /\ Closing(Closes(t))'
    BY <1>0 DEF Closes, Closing, Tasks, Containers, ContainerTyped
  <1>3. \A k \in Containers : ~Closing(k)' => cache'[k] = cache[k] /\ age'[k] = age[k]
    BY <1>0, <1>2 DEF Closed, ContainerTyped
  <1>4. ContainerTyped'
    <2>1. cache' \in [Containers -> [Providers -> Nat]] /\ age' \in [Containers -> Nat]
      <3>1. CASE raised[Closes(t)]
        BY <1>0, <3>1 DEF Closed, ContainerTyped
      <3>2. CASE ~raised[Closes(t)]
        <4>1. /\ cache' = [cache EXCEPT ![Closes(t)] = [p \in Providers |-> 0]]
              /\ age' = [age EXCEPT ![Closes(t)] = age[Closes(t)] + 1]
          BY <3>2 DEF Closed
        <4>2. [p \in Providers |-> 0] \in [Providers -> Nat]
          OBVIOUS
        <4>3. cache' \in [Containers -> [Providers -> Nat]]
          BY <1>0, <1>2, <4>1, <4>2 DEF ContainerTyped
        <4>4. age' \in [Containers -> Nat]
          BY <1>0, <1>2, <4>1 DEF ContainerTyped
        <4> QED
          BY <4>3, <4>4
      <3> QED
        BY <3>1, <3>2
    <2>2. pc' \in [Tasks -> {"idle", "resolving", "serving", "closing", "done", "dead"}]
          /\ pc'["leave"] # "resolving"
      BY <1>0 DEF ContainerTyped
    <2> QED
      BY <1>0, <2>1, <2>2 DEF ContainerTyped
  <1>5. FramesNest'
    BY <1>0 DEF FramesNest, ContainerTyped
  <1>6. LocksAreFirst'
    <2>1. \A u \in Tasks : \A n \in 1..Len(frames[u]) : frames[u][n].k \in Containers
      BY <1>0, Elements
    <2> QED
      BY <1>0, <1>1, <1>3, <2>1 DEF LocksAreFirst
  <1>7. OneMaker'
    <2>1. \A u \in Tasks, k \in Containers, p \in Providers :
            Making(u, k, p)' <=> Making(u, k, p)
      BY <1>0 DEF Making, Top, Last
    <2> QED
      BY <1>0, <1>1, <1>3, <2>1 DEF OneMaker
  <1>8. CacheKnows'
    <2>1. \A i \in 1..Len(inst) : inst[i].k \in Containers
      BY <1>0, Elements
    <2> QED
      BY <1>0, <1>1, <1>3, <2>1 DEF CacheKnows
  <1>9. OneInstance'
    BY <1>0 DEF OneInstance
  <1> QED
    BY <1>4, <1>5, <1>6, <1>7, <1>8, <1>9 DEF ContainerInv

-----------------------------------------------------------------------------
(* Frames and what is delivered to them                                    *)

\* A frame that may wait: it is at its dependencies while there are some.
Waits(f) == f \in Frame /\ f.at = "deps" /\ f.todo # <<>>

\* The answer to a frame, or a new frame, is one that asks for its lock if it
\* has all it needs, and is under no lock unless it is not cached.
LEMMA ReadyFrame ==
  ASSUME ContainerTyped, LocksAreFirst, NEW f \in Frame, f.at = "deps"
  PROVE  /\ Ready(f) \in Frame /\ Ready(f).p = f.p /\ Ready(f).k = f.k
         /\ Ready(f).at = "deps" => Ready(f).todo # <<>>
         /\ Ready(f).at = "produce" => ~IsCached(f.p)
         /\ ~Closing(f.k) /\ f.age = 0 => Ready(f).age = 0
  <1>0. /\ f.k \in Containers /\ f.p \in Providers /\ f.todo \in Seq(Providers)
        /\ f.uses \in SUBSET Nat /\ f.age \in Nat /\ age[f.k] \in Nat
    BY DEF Frame, ContainerTyped
  <1>1. CASE f.todo # <<>>
    <2>1. Ready(f) = f
      BY <1>1 DEF Ready
    <2> QED
      BY <1>0, <1>1, <2>1
  <1>2. CASE f.todo = <<>>
    <2> DEFINE a == IF IsCached(f.p) THEN "lock" ELSE "produce"
    <2>1. Ready(f) = [f EXCEPT !.at = a, !.age = age[f.k]]
      BY <1>2 DEF Ready
    <2>2. a \in {"lock", "produce"} /\ (a = "produce" => ~IsCached(f.p))
      OBVIOUS
    <2> HIDE DEF a
    <2>3. /\ Ready(f) \in Frame /\ Ready(f).p = f.p /\ Ready(f).k = f.k /\ Ready(f).at = a
          /\ Ready(f).age = age[f.k]
      BY <1>0, <2>1, <2>2 DEF Frame
    <2>4. ~Closing(f.k) => age[f.k] = 0
      BY <1>0 DEF LocksAreFirst
    <2> QED
      BY <2>2, <2>3, <2>4
  <1> QED
    BY <1>1, <1>2

\* What Deliver does to the frames: the innermost of fs is answered.
LEMMA Delivered ==
  ASSUME ContainerTyped, LocksAreFirst, NEW t \in Tasks, NEW fs \in Seq(Frame), NEW i \in Nat,
         want[t] # <<>>, fs # <<>> => Waits(fs[Len(fs)]),
         \A n \in 1..Len(fs) : ~Closing(fs[n].k) => fs[n].age = 0,
         Deliver(t, fs, i)
  PROVE  /\ want' \in [Tasks -> Seq(Providers)] /\ frames' \in [Tasks -> Seq(Frame)]
         /\ \A u \in Tasks : u # t => frames'[u] = frames[u] /\ want'[u] = want[u]
         /\ frames'[t] # <<>> => want'[t] = want[t]
         /\ Len(frames'[t]) = Len(fs)
         /\ \A n \in 1..Len(fs) : /\ n < Len(fs) => frames'[t][n] = fs[n]
                                  /\ ~Closing(frames'[t][n].k) => frames'[t][n].age = 0
                                  /\ frames'[t][n].k = fs[n].k
         /\ fs # <<>> => LET f == frames'[t][Len(fs)]
                         IN /\ f.at = "deps" => f.todo # <<>>
                            /\ f.at = "produce" => ~IsCached(f.p)
  <1>1. CASE fs = <<>>
    <2>1. frames' = [frames EXCEPT ![t] = <<>>] /\ want' = [want EXCEPT ![t] = Tail(want[t])]
      BY <1>1 DEF Deliver
    <2>2. Tail(want[t]) \in Seq(Providers)
      BY DEF ContainerTyped
    <2>3. frames'[t] = <<>> /\ \A u \in Tasks : u # t => frames'[u] = frames[u] /\ want'[u] = want[u]
      BY <2>1 DEF ContainerTyped
    <2>4. want' \in [Tasks -> Seq(Providers)] /\ frames' \in [Tasks -> Seq(Frame)]
      BY <2>1, <2>2 DEF ContainerTyped
    <2> QED
      BY <1>1, <2>3, <2>4
  <1>2. CASE fs # <<>>
    <2> DEFINE n0 == Len(fs)
               f0 == fs[n0]
               f1 == [f0 EXCEPT !.uses = f0.uses \cup {i}, !.todo = Tail(f0.todo)]
               new == [fs EXCEPT ![n0] = Ready(f1)]
    <2>0. n0 \in 1..Len(fs) /\ Len(fs) \in Nat /\ f0 \in Frame /\ f0.at = "deps" /\ f0.todo # <<>>
      BY <1>2 DEF Waits
    <2>1. frames' = [frames EXCEPT ![t] = new] /\ want' = want
      BY <1>2 DEF Deliver, ReplaceAt, Last
    <2>2. f0.uses \in SUBSET Nat /\ f0.todo \in Seq(Providers) /\ Tail(f0.todo) \in Seq(Providers)
      BY <2>0 DEF Frame
    <2> HIDE DEF n0, f0
    <2>3. /\ f1 \in Frame /\ f1.at = "deps" /\ f1.p = f0.p /\ f1.k = f0.k /\ f1.age = f0.age
      BY <2>0, <2>2 DEF Frame
    <2> HIDE DEF f1
    <2>4. /\ Ready(f1) \in Frame /\ Ready(f1).k = f0.k /\ Ready(f1).p = f0.p
          /\ Ready(f1).at = "deps" => Ready(f1).todo # <<>>
          /\ Ready(f1).at = "produce" => ~IsCached(f0.p)
          /\ ~Closing(f0.k) /\ f0.age = 0 => Ready(f1).age = 0
      BY <2>3, ReadyFrame
    <2>5. /\ new \in Seq(Frame) /\ Len(new) = Len(fs)
          /\ \A n \in 1..Len(fs) : new[n] = IF n = n0 THEN Ready(f1) ELSE fs[n]
      BY <2>0, <2>4
    <2> HIDE DEF new
    <2>6. frames'[t] = new /\ \A u \in Tasks : u # t => frames'[u] = frames[u]
      BY <2>1 DEF ContainerTyped
    <2>7. want' \in [Tasks -> Seq(Providers)] /\ frames' \in [Tasks -> Seq(Frame)]
      BY <2>1, <2>5 DEF ContainerTyped
    <2>8. \A n \in 1..Len(fs) : ~Closing(new[n].k) => new[n].age = 0
      BY <2>4, <2>5 DEF f0
    <2>9. \A n \in 1..Len(fs) : n < Len(fs) => new[n] = fs[n]
      BY <2>0, <2>5 DEF n0
    <2>10. new[Len(fs)] = Ready(f1)
      BY <2>0, <2>5 DEF n0
    <2>11. \A n \in 1..Len(fs) : new[n].k = fs[n].k
      BY <2>4, <2>5 DEF f0
    <2> QED
      BY <2>1, <2>4, <2>5, <2>6, <2>7, <2>8, <2>9, <2>10, <2>11
  <1> QED
    BY <1>1, <1>2

-----------------------------------------------------------------------------
(* The steps of resolve                                                    *)

\* What the frames of task t must be for a step of it to keep the invariant.
GoodFrames(t) ==
  /\ want' \in [Tasks -> Seq(Providers)] /\ frames' \in [Tasks -> Seq(Frame)]
  /\ \A u \in Tasks : u # t => frames'[u] = frames[u] /\ want'[u] = want[u]
  /\ frames'[t] # <<>> => want'[t] # <<>>
  /\ \A n \in 1..Len(frames'[t]) :
       /\ frames'[t][n].at = "deps" => frames'[t][n].todo # <<>>
       /\ n < Len(frames'[t]) => frames'[t][n].at = "deps"
       /\ ~Closing(frames'[t][n].k) => frames'[t][n].age = 0

\* Good frames keep what does not depend on the cache.
LEMMA FramesKeep ==
  ASSUME ContainerInv, NEW t \in Tasks, pc[t] = "resolving", GoodFrames(t),
         UNCHANGED <<pc, age>>
  PROVE  FramesNest' /\ LocksAreFirst'
  <1>0. FramesNest /\ LocksAreFirst /\ pc' = pc /\ age' = age
    BY DEF ContainerInv
  <1>1. FramesNest'
    <2> SUFFICES ASSUME NEW u \in Tasks
                 PROVE  /\ frames'[u] # <<>> => pc[u] = "resolving" /\ want'[u] # <<>>
                        /\ \A n \in 1..Len(frames'[u]) :
                             /\ frames'[u][n].at = "deps" => frames'[u][n].todo # <<>>
                             /\ n < Len(frames'[u]) => frames'[u][n].at = "deps"
      BY <1>0 DEF FramesNest
    <2>1. CASE u = t
      BY <2>1 DEF GoodFrames
    <2>2. CASE u # t
      <3>1. frames'[u] = frames[u] /\ want'[u] = want[u]
        BY <2>2 DEF GoodFrames
      <3> QED
        BY <1>0, <3>1 DEF FramesNest
    <2> QED
      BY <2>1, <2>2
  <1>2. LocksAreFirst'
    <2>1. ASSUME NEW u \in Tasks, NEW n \in 1..Len(frames'[u]), ~Closing(frames'[u][n].k)
          PROVE  frames'[u][n].age = 0
      <3>1. CASE u = t
        BY <2>1, <3>1 DEF GoodFrames
      <3>2. CASE u # t
        <4>1. frames'[u] = frames[u]
          BY <3>2 DEF GoodFrames
        <4> QED
          BY <1>0, <2>1, <4>1 DEF LocksAreFirst
      <3> QED
        BY <3>1, <3>2
    <2>2. \A k \in Containers : ~Closing(k) => age'[k] = 0
      BY <1>0 DEF LocksAreFirst
    <2> QED
      BY <1>0, <2>1, <2>2 DEF LocksAreFirst, Closing
  <1> QED
    BY <1>1, <1>2

\* A step that makes nothing: whoever begins to make something is alone.
LEMMA NotYetMade ==
  ASSUME ContainerInv, NEW t \in Tasks, pc[t] = "resolving", GoodFrames(t),
         UNCHANGED <<pc, home, age, cache, inst>>,
         \A k \in Containers : \A p \in Providers :
           IsCached(p) /\ ~Closing(k) /\ Making(t, k, p)' =>
             cache[k][p] = 0 /\ \A u \in Tasks : u # t => ~Making(u, k, p)
  PROVE  ContainerInv'
  <1>0. FramesNest' /\ LocksAreFirst'
    BY FramesKeep
  <1>1. ContainerTyped'
    BY DEF ContainerInv, ContainerTyped, GoodFrames
  <1>2. OneMaker'
    <2>1. \A u \in Tasks : u # t => \A k \in Containers, p \in Providers :
            Making(u, k, p)' <=> Making(u, k, p)
      BY DEF GoodFrames, Making, Top, Last
    <2>2. ASSUME NEW k \in Containers, NEW p \in Providers, IsCached(p), ~Closing(k),
                 NEW u \in Tasks, Making(u, k, p)'
          PROVE  cache[k][p] = 0 /\ \A v \in Tasks : Making(v, k, p)' => v = u
      <3>1. CASE u = t
        BY <2>1, <2>2, <3>1
      <3>2. CASE u # t
        <4>1. Making(u, k, p) /\ ~Making(t, k, p)'
          BY <2>1, <2>2, <3>2
        <4> QED
          BY <2>1, <2>2, <4>1 DEF ContainerInv, OneMaker
      <3> QED
        BY <3>1, <3>2
    <2> QED
      BY <2>2 DEF OneMaker, Closing
  <1>3. CacheKnows' /\ OneInstance'
    BY DEF ContainerInv, CacheKnows, OneInstance, Closing
  <1> QED
    BY <1>0, <1>1, <1>2, <1>3 DEF ContainerInv

\* The innermost frame, and the ones around it.
LEMMA Around ==
  ASSUME ContainerInv, NEW t \in Tasks, frames[t] # <<>>
  PROVE  /\ Len(frames[t]) \in Nat \ {0} /\ Top(t) = frames[t][Len(frames[t])]
         /\ Top(t) \in Frame /\ Top(t).k \in Containers /\ Top(t).p \in Providers
         /\ want[t] # <<>> /\ pc[t] = "resolving"
         /\ ~Closing(Top(t).k) => Top(t).age = 0
         /\ Top(t).at = "deps" => Top(t).todo # <<>>
         /\ Front(frames[t]) \in Seq(Frame) /\ Len(Front(frames[t])) = Len(frames[t]) - 1
         /\ \A n \in 1..(Len(frames[t]) - 1) :
              /\ Front(frames[t])[n] = frames[t][n] /\ Waits(frames[t][n])
              /\ ~Closing(frames[t][n].k) => frames[t][n].age = 0
  <1>0. ContainerTyped /\ FramesNest /\ LocksAreFirst
    BY DEF ContainerInv
  <1>1. frames[t] \in Seq(Frame)
    BY <1>0 DEF ContainerTyped
  <1>2. Len(frames[t]) \in Nat \ {0} /\ Top(t) = frames[t][Len(frames[t])]
    BY <1>1 DEF Top, Last
  <1>3. \A n \in 1..Len(frames[t]) : frames[t][n] \in Frame
    BY <1>0, Elements
  <1>4. Front(frames[t]) \in Seq(Frame) /\ Len(Front(frames[t])) = Len(frames[t]) - 1
        /\ \A n \in 1..(Len(frames[t]) - 1) : Front(frames[t])[n] = frames[t][n]
    BY <1>1, <1>2 DEF Front
  <1>5. ASSUME NEW n \in 1..(Len(frames[t]) - 1)
        PROVE  /\ Waits(frames[t][n])
               /\ ~Closing(frames[t][n].k) => frames[t][n].age = 0
    <2>1. n \in 1..Len(frames[t]) /\ n < Len(frames[t])
      BY <1>2
    <2> QED
      BY <1>0, <1>3, <2>1 DEF FramesNest, LocksAreFirst, Waits
  <1>6. /\ Top(t) \in Frame /\ Top(t).k \in Containers /\ Top(t).p \in Providers
        /\ ~Closing(Top(t).k) => Top(t).age = 0
        /\ Top(t).at = "deps" => Top(t).todo # <<>>
    <2>1. Len(frames[t]) \in 1..Len(frames[t])
      BY <1>2
    <2> QED
      BY <1>0, <1>2, <2>1, Elements DEF LocksAreFirst, FramesNest
  <1>7. want[t] # <<>> /\ pc[t] = "resolving"
    BY <1>0 DEF FramesNest
  <1> QED
    BY <1>2, <1>4, <1>5, <1>6, <1>7

\* After a delivery to fs the frames are good, and t makes nothing cached.
LEMMA DeliveryIsGood ==
  ASSUME ContainerInv, NEW t \in Tasks, NEW fs \in Seq(Frame), NEW i \in Nat,
         want[t] # <<>>, fs # <<>> => Waits(fs[Len(fs)]),
         \A n \in 1..Len(fs) : /\ ~Closing(fs[n].k) => fs[n].age = 0
                               /\ n < Len(fs) => Waits(fs[n]),
         Deliver(t, fs, i)
  PROVE  /\ GoodFrames(t)
         /\ \A k, p : IsCached(p) => ~Making(t, k, p)'
  <1>0. ContainerTyped /\ LocksAreFirst /\ Len(fs) \in Nat
    BY DEF ContainerInv
  <1>1. /\ want' \in [Tasks -> Seq(Providers)] /\ frames' \in [Tasks -> Seq(Frame)]
        /\ \A u \in Tasks : u # t => frames'[u] = frames[u] /\ want'[u] = want[u]
        /\ frames'[t] # <<>> => want'[t] = want[t]
        /\ Len(frames'[t]) = Len(fs)
        /\ \A n \in 1..Len(fs) : /\ n < Len(fs) => frames'[t][n] = fs[n]
                                 /\ ~Closing(frames'[t][n].k) => frames'[t][n].age = 0
        /\ fs # <<>> => /\ frames'[t][Len(fs)].at = "deps" => frames'[t][Len(fs)].todo # <<>>
                        /\ frames'[t][Len(fs)].at = "produce" => ~IsCached(frames'[t][Len(fs)].p)
    BY <1>0, Delivered
  <1>2. \A n \in 1..Len(fs) : n < Len(fs) \/ n = Len(fs)
    BY <1>0
  <1>3. GoodFrames(t)
    <2>1. ASSUME NEW n \in 1..Len(frames'[t])
          PROVE  /\ frames'[t][n].at = "deps" => frames'[t][n].todo # <<>>
                 /\ n < Len(frames'[t]) => frames'[t][n].at = "deps"
                 /\ ~Closing(frames'[t][n].k) => frames'[t][n].age = 0
      <3>1. n \in 1..Len(fs) /\ fs # <<>>
        BY <1>0, <1>1
      <3>2. CASE n < Len(fs)
        BY <1>1, <3>1, <3>2 DEF Waits
      <3>3. CASE n = Len(fs)
        BY <1>0, <1>1, <3>1, <3>3
      <3> QED
        BY <1>2, <3>1, <3>2, <3>3
    <2> QED
      BY <1>1, <2>1 DEF GoodFrames
  <1>4. ASSUME NEW k, NEW p, IsCached(p), Making(t, k, p)' PROVE FALSE
    <2>1. frames'[t] # <<>> /\ frames'[t] \in Seq(Frame)
      BY <1>1, <1>4 DEF Making
    <2>2. fs # <<>>
      BY <1>0, <1>1, <2>1
    <2>3. frames'[t][Len(fs)].at = "produce" /\ frames'[t][Len(fs)].p = p
      BY <1>1, <1>4 DEF Making, Top, Last
    <2> QED
      BY <1>1, <1>4, <2>2, <2>3
  <1> QED
    BY <1>3, <1>4

\* The frame around the innermost one may be answered.
LEMMA InnerAnswered ==
  ASSUME ContainerInv, NEW t \in Tasks, frames[t] # <<>>, NEW i \in Nat,
         Deliver(t, Front(frames[t]), i)
  PROVE  GoodFrames(t) /\ \A k, p : IsCached(p) => ~Making(t, k, p)'
  <1>1. /\ Front(frames[t]) \in Seq(Frame) /\ Len(Front(frames[t])) = Len(frames[t]) - 1
        /\ Len(frames[t]) \in Nat \ {0} /\ want[t] # <<>>
        /\ \A n \in 1..(Len(frames[t]) - 1) :
             /\ Front(frames[t])[n] = frames[t][n] /\ Waits(frames[t][n])
             /\ ~Closing(frames[t][n].k) => frames[t][n].age = 0
    BY Around
  <1> DEFINE fs == Front(frames[t])
  <1>2. fs \in Seq(Frame) /\ Deliver(t, fs, i)
        /\ \A n \in 1..Len(fs) : Waits(fs[n]) /\ (~Closing(fs[n].k) => fs[n].age = 0)
    BY <1>1
  <1> HIDE DEF fs
  <1>3. fs # <<>> => Waits(fs[Len(fs)])
    <2>1. fs # <<>> => Len(fs) \in 1..Len(fs)
      BY <1>2
    <2> QED
      BY <1>2, <2>1
  <1> QED
    BY <1>1, <1>2, <1>3, DeliveryIsGood

\* A new instance is the first of its provider there, unless it comes late.
LEMMA MadeKeeps ==
  ASSUME ContainerInv, NEW t \in Tasks, frames[t] # <<>>, Made(t, Top(t)),
         UNCHANGED <<pc, home, age>>,
         IsCached(Top(t).p) /\ ~Closing(Top(t).k) =>
           /\ cache[Top(t).k][Top(t).p] = 0
           /\ \A u \in Tasks : u # t => ~Making(u, Top(t).k, Top(t).p)
  PROVE  ContainerInv'
  <1> DEFINE f == Top(t)
             i == Len(inst) + 1
             new == [p |-> f.p, k |-> f.k, uses |-> f.uses, state |-> "open",
                     late |-> Closing(f.k)]
  <1>0. ContainerTyped /\ OneMaker /\ CacheKnows /\ OneInstance /\ pc' = pc
    BY DEF ContainerInv
  <1>1. f \in Frame /\ f.k \in Containers /\ f.p \in Providers /\ pc[t] = "resolving"
        /\ want[t] # <<>>
    BY Around
  <1>2. /\ IsCached(f.p) /\ ~Closing(f.k) => cache[f.k][f.p] = 0
        /\ IsCached(f.p) /\ ~Closing(f.k) => \A u \in Tasks : u # t => ~Making(u, f.k, f.p)
    OBVIOUS
  <1>3. /\ inst' = Append(inst, new)
        /\ cache' = IF IsCached(f.p) THEN [cache EXCEPT ![f.k][f.p] = i] ELSE cache
        /\ Deliver(t, Front(frames[t]), i)
    BY DEF Made
  <1>4. inst \in Seq(Instance) /\ Len(inst) \in Nat /\ i \in Nat /\ DOMAIN inst = 1..Len(inst)
        /\ \A j \in 1..Len(inst) : inst[j].k \in Containers /\ inst[j].p \in Providers
    BY <1>0, Elements DEF ContainerTyped
  <1>5. new \in Instance /\ new.p = f.p /\ new.k = f.k /\ (new.late <=> Closing(f.k))
    <2>1. f.uses \in SUBSET Nat
      BY <1>1 DEF Frame
    <2>2. Closing(f.k) \in BOOLEAN
      BY DEF Closing
    <2> QED
      BY <1>1, <2>1, <2>2 DEF Instance
  <1>6. GoodFrames(t) /\ \A k, p : IsCached(p) => ~Making(t, k, p)'
    BY <1>3, <1>4, InnerAnswered
  <1> HIDE DEF f, new
  <1>7. /\ inst' \in Seq(Instance) /\ Len(inst') = i /\ DOMAIN inst' = 1..i
        /\ inst'[i] = new /\ \A j \in 1..Len(inst) : inst'[j] = inst[j]
    BY <1>3, <1>4, <1>5
  <1>8. \A j \in 1..i : j = i \/ j \in 1..Len(inst)
    BY <1>4
  <1>9. /\ cache' \in [Containers -> [Providers -> Nat]]
        /\ IsCached(f.p) => cache'[f.k][f.p] = i
        /\ \A k \in Containers, p \in Providers :
             IsCached(p) /\ ~(k = f.k /\ p = f.p) => cache'[k][p] = cache[k][p]
    <2> HIDE DEF i
    <2>1. CASE IsCached(f.p)
      <3> DEFINE row == [cache[f.k] EXCEPT ![f.p] = i]
      <3>1. cache' = [cache EXCEPT ![f.k] = row]
        BY <1>3, <2>1
      <3>2. row \in [Providers -> Nat] /\ row[f.p] = i
            /\ \A p \in Providers : p # f.p => row[p] = cache[f.k][p]
        BY <1>0, <1>1, <1>4 DEF ContainerTyped
      <3> HIDE DEF row
      <3> QED
        BY <1>0, <1>1, <3>1, <3>2 DEF ContainerTyped
    <2>2. CASE ~IsCached(f.p)
      BY <1>0, <1>3, <2>2 DEF ContainerTyped
    <2> QED
      BY <2>1, <2>2
  <1> HIDE DEF i
  <1>10. FramesNest' /\ LocksAreFirst'
    BY <1>1, <1>6, FramesKeep
  <1>11. ContainerTyped'
    BY <1>0, <1>6, <1>7, <1>9 DEF ContainerTyped, GoodFrames
  <1>12. OneMaker'
    <2>1. ASSUME NEW k \in Containers, NEW p \in Providers, IsCached(p), ~Closing(k),
                 NEW u \in Tasks, Making(u, k, p)'
          PROVE  cache'[k][p] = 0 /\ \A v \in Tasks : Making(v, k, p)' => v = u
      <3>1. \A v \in Tasks : Making(v, k, p)' => v # t /\ Making(v, k, p)
        BY <1>6, <2>1 DEF GoodFrames, Making, Top, Last
      <3>2. u # t /\ Making(u, k, p)
        BY <2>1, <3>1
      <3>3. ~(k = f.k /\ p = f.p)
        BY <1>2, <2>1, <3>2 DEF f
      <3>4. cache[k][p] = 0 /\ \A v \in Tasks : Making(v, k, p) => v = u
        BY <1>0, <2>1, <3>2 DEF OneMaker
      <3> QED
        BY <1>9, <2>1, <3>1, <3>3, <3>4
    <2> QED
      BY <1>0, <2>1 DEF OneMaker, Closing
  <1>13. \A j \in 1..Len(inst) :
           inst[j].k = f.k /\ inst[j].p = f.p /\ IsCached(f.p) /\ ~inst[j].late => Closing(f.k)
    <2> SUFFICES ASSUME NEW j \in 1..Len(inst), inst[j].k = f.k, inst[j].p = f.p,
                        IsCached(f.p), ~inst[j].late, ~Closing(f.k)
                 PROVE  FALSE
      OBVIOUS
    <2>1. cache[f.k][f.p] = j
      BY <1>0 DEF CacheKnows
    <2>2. cache[f.k][f.p] = 0
      BY <1>2 DEF f
    <2> QED
      BY <1>4, <2>1, <2>2
  <1>14. CacheKnows'
    <2>1. ASSUME NEW j \in 1..i, IsCached(inst'[j].p), ~inst'[j].late, ~Closing(inst'[j].k)
          PROVE  cache'[inst'[j].k][inst'[j].p] = j
      <3>1. CASE j = i
        BY <1>5, <1>7, <1>9, <2>1, <3>1
      <3>2. CASE j \in 1..Len(inst)
        <4>1. inst'[j] = inst[j]
          BY <1>7, <3>2
        <4>2. ~(inst[j].k = f.k /\ inst[j].p = f.p)
          BY <1>13, <2>1, <3>2, <4>1
        <4>3. cache[inst[j].k][inst[j].p] = j
          BY <1>0, <2>1, <3>2, <4>1 DEF CacheKnows
        <4>4. inst[j].k \in Containers /\ inst[j].p \in Providers
          BY <1>4, <3>2
        <4> QED
          BY <1>9, <2>1, <4>1, <4>2, <4>3, <4>4
      <3> QED
        BY <1>8, <3>1, <3>2
    <2> QED
      BY <1>0, <1>7, <2>1 DEF CacheKnows, Closing
  <1>15. OneInstance'
    <2>1. ASSUME NEW a \in 1..i, NEW b \in 1..i, inst'[a].p = inst'[b].p,
                 inst'[a].k = inst'[b].k, IsCached(inst'[a].p), ~inst'[a].late, ~inst'[b].late
          PROVE  a = b
      <3>1. CASE a \in 1..Len(inst) /\ b \in 1..Len(inst)
        BY <1>0, <1>4, <1>7, <2>1, <3>1 DEF OneInstance
      <3>2. CASE a = i /\ b \in 1..Len(inst)
        BY <1>5, <1>7, <1>13, <2>1, <3>2
      <3>3. CASE b = i /\ a \in 1..Len(inst)
        BY <1>5, <1>7, <1>13, <2>1, <3>3
      <3> QED
        BY <1>8, <3>1, <3>2, <3>3
    <2> QED
      BY <1>7, <2>1 DEF OneInstance, IsCached
  <1> QED
    BY <1>10, <1>11, <1>12, <1>14, <1>15 DEF ContainerInv

\* What a task seeks, and the frames it has around it, when it may have it.
LEMMA Sought ==
  ASSUME ContainerInv, NEW t \in Tasks, Seeking(t), Allowed(t, Demand(t))
  PROVE  /\ Demand(t) \in Providers /\ Owner(t, Demand(t)) \in Containers
         /\ want[t] # <<>> /\ frames[t] \in Seq(Frame) /\ Len(frames[t]) \in Nat
         /\ \A n \in 1..Len(frames[t]) :
              Waits(frames[t][n]) /\ (~Closing(frames[t][n].k) => frames[t][n].age = 0)
  <1>0. ContainerTyped /\ pc[t] = "resolving" /\ Asked(t) # <<>> /\ t # "leave"
        /\ frames[t] \in Seq(Frame) /\ Len(frames[t]) \in Nat /\ want[t] \in Seq(Providers)
    BY DEF ContainerInv, ContainerTyped, Seeking
  <1>1. Owner(t, Demand(t)) \in Containers
    <2>1. Owner(t, Demand(t)) \in Owners(t, Demand(t))
      BY DEF Allowed, Owner
    <2>2. Above(t) \subseteq Containers
      BY <1>0 DEF Above, Containers, Tasks, ContainerTyped
    <2> QED
      BY <2>1, <2>2 DEF Owners
  <1>2. CASE frames[t] = <<>>
    BY <1>0, <1>1, <1>2 DEF Asked, Demand
  <1>3. CASE frames[t] # <<>>
    <2>1. Top(t) \in Frame /\ Top(t).at = "deps" /\ Top(t).todo # <<>> /\ want[t] # <<>>
          /\ Top(t) = frames[t][Len(frames[t])] /\ Len(frames[t]) \in Nat \ {0}
          /\ (~Closing(Top(t).k) => Top(t).age = 0)
          /\ \A n \in 1..(Len(frames[t]) - 1) :
               Waits(frames[t][n]) /\ (~Closing(frames[t][n].k) => frames[t][n].age = 0)
      BY <1>3, Around DEF Seeking
    <2>2. Demand(t) \in Providers
      BY <1>3, <2>1 DEF Demand, Asked, Frame
    <2>3. \A n \in 1..Len(frames[t]) : n = Len(frames[t]) \/ n \in 1..(Len(frames[t]) - 1)
      BY <2>1
    <2> QED
      BY <1>0, <1>1, <2>1, <2>2, <2>3 DEF Waits
  <1> QED
    BY <1>2, <1>3

\* An answer from the cache makes nothing.
LEMMA CachedKeeps == ASSUME ContainerInv, NEW t \in Tasks, Cached(t) PROVE ContainerInv'
  <1> DEFINE i == cache[Owner(t, Demand(t))][Demand(t)]
             fs == frames[t]
  <1>1. /\ Demand(t) \in Providers /\ Owner(t, Demand(t)) \in Containers
        /\ want[t] # <<>> /\ fs \in Seq(Frame) /\ Len(fs) \in Nat
        /\ \A n \in 1..Len(fs) : Waits(fs[n]) /\ (~Closing(fs[n].k) => fs[n].age = 0)
    BY Sought DEF Cached
  <1>2. i \in Nat
    BY <1>1 DEF ContainerInv, ContainerTyped
  <1>3. /\ Deliver(t, fs, i) /\ UNCHANGED <<pc, home, age, cache, inst>>
        /\ pc[t] = "resolving"
    BY DEF Cached, Seeking
  <1>4. fs # <<>> => Waits(fs[Len(fs)])
    <2>1. fs # <<>> => Len(fs) \in 1..Len(fs)
      BY <1>1
    <2> QED
      BY <1>1, <2>1
  <1> HIDE DEF i, fs
  <1>5. GoodFrames(t) /\ \A k, p : IsCached(p) => ~Making(t, k, p)'
    BY <1>1, <1>2, <1>3, <1>4, DeliveryIsGood
  <1> QED
    BY <1>3, <1>5, NotYetMade

\* A new frame waits for its dependencies or for its lock.
LEMMA DescendKeeps == ASSUME ContainerInv, NEW t \in Tasks, Descend(t) PROVE ContainerInv'
  <1> DEFINE f0 == [p |-> Demand(t), k |-> Owner(t, Demand(t)), todo |-> Deps[Demand(t)],
                    uses |-> {}, at |-> "deps", age |-> 0]
             f1 == Ready(f0)
             fs == frames[t]
  <1>0. ContainerTyped /\ LocksAreFirst /\ pc[t] = "resolving"
        /\ UNCHANGED <<pc, home, want, age, cache, inst>>
    BY DEF ContainerInv, Descend, Seeking
  <1>1. /\ Demand(t) \in Providers /\ Owner(t, Demand(t)) \in Containers
        /\ want[t] # <<>> /\ fs \in Seq(Frame) /\ Len(fs) \in Nat
        /\ \A n \in 1..Len(fs) : Waits(fs[n]) /\ (~Closing(fs[n].k) => fs[n].age = 0)
    BY Sought DEF Descend
  <1>2. f0 \in Frame /\ f0.at = "deps" /\ f0.age = 0
    BY <1>1, ScopesAssumption DEF Frame
  <1>3. frames' = [frames EXCEPT ![t] = Append(fs, f1)]
    BY DEF Descend
  <1> HIDE DEF f0
  <1>4. /\ f1 \in Frame /\ f1.k = f0.k /\ f1.p = f0.p
        /\ f1.at = "deps" => f1.todo # <<>>
        /\ f1.at = "produce" => ~IsCached(f1.p)
        /\ ~Closing(f1.k) => f1.age = 0
    BY <1>0, <1>2, ReadyFrame
  <1> HIDE DEF f1
  <1>5. /\ frames'[t] = Append(fs, f1) /\ frames' \in [Tasks -> Seq(Frame)]
        /\ \A u \in Tasks : u # t => frames'[u] = frames[u]
    BY <1>0, <1>1, <1>3, <1>4 DEF ContainerTyped
  <1> HIDE DEF fs
  <1>6. /\ Len(frames'[t]) = Len(fs) + 1 /\ frames'[t][Len(fs) + 1] = f1
        /\ \A n \in 1..Len(fs) : frames'[t][n] = fs[n]
        /\ \A n \in 1..(Len(fs) + 1) : n = Len(fs) + 1 \/ n \in 1..Len(fs)
    BY <1>1, <1>4, <1>5
  <1>7. GoodFrames(t)
    <2>1. ASSUME NEW n \in 1..Len(frames'[t])
          PROVE  /\ frames'[t][n].at = "deps" => frames'[t][n].todo # <<>>
                 /\ n < Len(frames'[t]) => frames'[t][n].at = "deps"
                 /\ ~Closing(frames'[t][n].k) => frames'[t][n].age = 0
      <3>1. CASE n = Len(fs) + 1
        BY <1>1, <1>4, <1>6, <3>1
      <3>2. CASE n \in 1..Len(fs)
        BY <1>1, <1>6, <3>2 DEF Waits
      <3> QED
        BY <1>6, <3>1, <3>2
    <2> QED
      BY <1>0, <1>1, <1>5, <2>1 DEF GoodFrames, ContainerTyped
  <1>8. \A k, p : IsCached(p) => ~Making(t, k, p)'
    BY <1>4, <1>6 DEF Making, Top, Last
  <1> QED
    BY <1>0, <1>7, <1>8, NotYetMade

\* A free lock of a container that is not being closed: nobody makes it there.
LEMMA NobodyMakes ==
  ASSUME ContainerInv, NEW t \in Tasks, frames[t] # <<>>, Free(Top(t)), ~Closing(Top(t).k)
  PROVE  \A u \in Tasks : ~Making(u, Top(t).k, Top(t).p)
  <1> SUFFICES ASSUME NEW u \in Tasks, Making(u, Top(t).k, Top(t).p) PROVE FALSE
    OBVIOUS
  <1>1. /\ frames[u] # <<>> /\ Top(u).at = "produce" /\ Top(u).k = Top(t).k
        /\ Top(u).p = Top(t).p
    BY DEF Making
  <1>2. Top(t).age = 0
    BY Around
  <1>3. Top(u).age = 0 /\ Top(u) = frames[u][Len(frames[u])] /\ Len(frames[u]) \in Nat \ {0}
    BY <1>1, Around
  <1>4. Len(frames[u]) \in DOMAIN frames[u]
    <2>1. frames[u] \in Seq(Frame)
      BY DEF ContainerInv, ContainerTyped
    <2> QED
      BY <1>3, <2>1
  <1> QED
    BY <1>1, <1>2, <1>3, <1>4 DEF Free

\* Under the lock the second look at the cache decides.
LEMMA TakeLockKeeps == ASSUME ContainerInv, NEW t \in Tasks, TakeLock(t) PROVE ContainerInv'
  <1> DEFINE f == Top(t)
  <1>0. /\ pc[t] = "resolving" /\ frames[t] # <<>> /\ f.at = "lock"
        /\ Free(f) /\ Locked(t, f) /\ UNCHANGED <<pc, home, age>> /\ ContainerTyped
    BY DEF TakeLock, At, ContainerInv
  <1>1. /\ f \in Frame /\ f.k \in Containers /\ f.p \in Providers /\ want[t] # <<>>
        /\ f = frames[t][Len(frames[t])] /\ Len(frames[t]) \in Nat \ {0}
        /\ ~Closing(f.k) => f.age = 0
        /\ \A n \in 1..(Len(frames[t]) - 1) :
             Waits(frames[t][n]) /\ (~Closing(frames[t][n].k) => frames[t][n].age = 0)
    BY <1>0, Around
  <1>2. ~Closing(f.k) => \A u \in Tasks : ~Making(u, f.k, f.p)
    BY <1>0, NobodyMakes
  <1>3. CASE cache[f.k][f.p] # 0
    <2>1. Deliver(t, Front(frames[t]), cache[f.k][f.p]) /\ UNCHANGED <<inst, cache>>
      BY <1>0, <1>3 DEF Locked
    <2>2. cache[f.k][f.p] \in Nat
      BY <1>0, <1>1 DEF ContainerTyped
    <2>3. GoodFrames(t) /\ \A k, p : IsCached(p) => ~Making(t, k, p)'
      BY <1>0, <2>1, <2>2, InnerAnswered
    <2> QED
      BY <1>0, <2>1, <2>3, NotYetMade
  <1>4. CASE cache[f.k][f.p] = 0 /\ f.p \notin Gens
    <2>1. Made(t, f)
      BY <1>0, <1>4 DEF Locked, Produce
    <2> QED
      BY <1>0, <1>2, <1>4, <2>1, MadeKeeps
  <1>5. CASE cache[f.k][f.p] = 0 /\ f.p \in Gens
    <2> DEFINE fs == frames[t]
               g == [f EXCEPT !.at = "produce"]
               m == Len(fs)
    <2>1. frames' = [frames EXCEPT ![t] = [fs EXCEPT ![m] = g]]
          /\ UNCHANGED <<want, inst, cache>>
      BY <1>0, <1>5 DEF Locked, Produce, ReplaceAt
    <2>2. fs \in Seq(Frame) /\ m \in 1..Len(fs)
      BY <1>0, <1>1 DEF ContainerTyped
    <2>3. g \in Frame /\ g.p = f.p /\ g.k = f.k /\ g.age = f.age /\ g.at = "produce"
      BY <1>1 DEF Frame
    <2> HIDE DEF f, g
    <2>4. /\ frames' \in [Tasks -> Seq(Frame)] /\ Len(frames'[t]) = m /\ frames'[t][m] = g
          /\ \A n \in 1..m : n # m => frames'[t][n] = fs[n]
          /\ \A u \in Tasks : u # t => frames'[u] = frames[u]
      BY <1>0, <2>1, <2>2, <2>3 DEF ContainerTyped
    <2>5. GoodFrames(t)
      <3>1. ASSUME NEW n \in 1..Len(frames'[t])
            PROVE  /\ frames'[t][n].at = "deps" => frames'[t][n].todo # <<>>
                   /\ n < Len(frames'[t]) => frames'[t][n].at = "deps"
                   /\ ~Closing(frames'[t][n].k) => frames'[t][n].age = 0
        <4>1. CASE n = m
          BY <1>1, <2>3, <2>4, <4>1
        <4>2. CASE n # m
          <5>1. n \in 1..(Len(frames[t]) - 1) /\ frames'[t][n] = frames[t][n]
            BY <1>1, <2>4, <4>2
          <5> QED
            BY <1>1, <5>1 DEF Waits
        <4> QED
          BY <4>1, <4>2
      <3> QED
        BY <1>0, <1>1, <2>1, <2>4, <3>1 DEF GoodFrames, ContainerTyped
    <2>6. \A k, p : Making(t, k, p)' => k = f.k /\ p = f.p
      BY <2>3, <2>4 DEF Making, Top, Last
    <2> QED
      BY <1>0, <1>2, <1>5, <2>1, <2>5, <2>6, NotYetMade
  <1>6. cache[f.k][f.p] = 0 => f.p \in Gens \/ f.p \notin Gens
    OBVIOUS
  <1> QED
    BY <1>3, <1>4, <1>5

\* The value of a generator is there: its task was the only one to make it.
LEMMA ProducedKeeps == ASSUME ContainerInv, NEW t \in Tasks, Produced(t) PROVE ContainerInv'
  <1>1. /\ frames[t] # <<>> /\ Top(t).at = "produce" /\ Made(t, Top(t))
        /\ UNCHANGED <<pc, home, age>>
    BY DEF Produced, At
  <1>2. Top(t).k \in Containers /\ Top(t).p \in Providers
    BY <1>1, Around
  <1>3. Making(t, Top(t).k, Top(t).p)
    BY <1>1 DEF Making
  <1>4. IsCached(Top(t).p) /\ ~Closing(Top(t).k) =>
          /\ cache[Top(t).k][Top(t).p] = 0
          /\ \A u \in Tasks : u # t => ~Making(u, Top(t).k, Top(t).p)
    BY <1>2, <1>3 DEF ContainerInv, OneMaker
  <1> QED
    BY <1>1, <1>4, MadeKeeps

-----------------------------------------------------------------------------
\* Every step keeps the invariant.
LEMMA ContainerInvStep == ContainerInv /\ [Next]_vars => ContainerInv'
  <1> SUFFICES ASSUME ContainerInv, [Next]_vars PROVE ContainerInv'
    OBVIOUS
  <1>1. ASSUME NEW c \in Calls, Begin(c) \/ BeginRefused(c) PROVE ContainerInv'
    BY <1>1, ComingAndGoing
  <1>2. ASSUME NEW t \in Tasks, Resolve(t) PROVE ContainerInv'
    BY <1>2, CachedKeeps, DescendKeeps, TakeLockKeeps, ProducedKeeps, ComingAndGoing
       DEF Resolve
  <1>3. ASSUME NEW t \in Tasks, Close(t) PROVE ContainerInv'
    BY <1>3, TeardownKeeps, ClosedKeeps DEF Close
  <1>4. ASSUME NEW t \in Tasks, Fails(t) PROVE ContainerInv'
    BY <1>4, ComingAndGoing
  <1>5. ASSUME Leave \/ Shutdown PROVE ContainerInv'
    BY <1>5, ComingAndGoing
  <1>6. ASSUME UNCHANGED vars PROVE ContainerInv'
    <2>1. UNCHANGED <<pc, home, want, frames, cache, age, inst>>
      BY <1>6 DEF vars
    <2>2. ContainerTyped' /\ SameInstances
      BY <2>1 DEF ContainerInv, ContainerTyped, SameInstances
    <2> QED
      BY <2>1, <2>2, NothingMade DEF Closing
  <1> QED
    BY <1>1, <1>2, <1>3, <1>4, <1>5, <1>6 DEF Next, Progress

\* resolve() makes one instance of a cached provider in a container: for any
\* providers, dependencies and calls, with any failures, cancellations and
\* closings in between.
THEOREM InstancesAreOne == Spec => []OneInstance
  <1>1. ContainerInv => OneInstance
    BY DEF ContainerInv
  <1> QED
    BY <1>1, ContainerInvInit, ContainerInvStep, PTL DEF Spec

-----------------------------------------------------------------------------
(* What is torn down                                                       *)

\* A task resolves in the containers from its own up to the root.
FramesAreOwned ==
  \A t \in Tasks : \A n \in 1..Len(frames[t]) : frames[t][n].k \in Above(t)

\* Who hangs on the session has opened it, and what was made in a container was
\* made once there was one.
MadeInOpen ==
  /\ \A c \in Calls : home[c] = "session" => session
  /\ \A i \in 1..Len(inst) : /\ inst[i].k \in Calls => pc[inst[i].k] # "idle"
                             /\ inst[i].k = "session" => session

\* A stack holds open instances of its container, each once.
StackIsOpen ==
  /\ exits \in [Containers -> Seq(Nat)]
  /\ \A k \in Containers : \A n \in 1..Len(exits[k]) :
       /\ exits[k][n] \in 1..Len(inst)
       /\ inst[exits[k][n]].k = k /\ inst[exits[k][n]].state = "open"
       /\ \A m \in 1..Len(exits[k]) : exits[k][m] = exits[k][n] => m = n

\* A generator that is open is on the stack, and one whose teardown has begun is
\* awaited by the task that closes its container.
OpenIsStacked ==
  \A i \in 1..Len(inst) :
    /\ inst[i].p \in Gens /\ inst[i].state = "open" =>
         \E n \in 1..Len(exits[inst[i].k]) : exits[inst[i].k][n] = i
    /\ inst[i].state = "closing" => \E t \in Tasks : Closes(t) = inst[i].k /\ pc[t] = "closing"

LeakInv == FramesAreOwned /\ MadeInOpen /\ StackIsOpen /\ OpenIsStacked /\ NothingLeaks

\* At first nothing is made.
LEMMA LeakInvInit == Init => LeakInv
  <1> SUFFICES ASSUME Init PROVE LeakInv
    OBVIOUS
  <1>1. \A t \in Tasks : frames[t] = <<>> /\ pc[t] # "done"
    BY DEF Init
  <1>2. \A c \in Calls : home[c] = "app"
    BY DEF Init
  <1>3. inst = <<>> /\ exits = [k \in Containers |-> <<>>]
    BY DEF Init
  <1>4. FramesAreOwned
    BY <1>1 DEF FramesAreOwned
  <1>5. MadeInOpen
    BY <1>2, <1>3 DEF MadeInOpen
  <1>6. StackIsOpen
    BY <1>3 DEF StackIsOpen
  <1>7. OpenIsStacked
    BY <1>3 DEF OpenIsStacked
  <1>8. NothingLeaks
    BY <1>1 DEF NothingLeaks
  <1> QED
    BY <1>4, <1>5, <1>6, <1>7, <1>8 DEF LeakInv

\* The tasks close different containers.
LEMMA OneCloser ==
  ASSUME NEW t \in Tasks
  PROVE  /\ Closes(t) \in Containers
         /\ \A u \in Tasks : Closes(u) = Closes(t) => u = t
  BY ScopesAssumption DEF Closes, Tasks, Containers

\* A step that makes and tears down nothing keeps it, if a container that it
\* closes has nothing open.
LEMMA QuietKeeps ==
  ASSUME ContainerInv, LeakInv, UNCHANGED <<inst, exits>>, FramesAreOwned', MadeInOpen',
         \A t \in Tasks :
           /\ pc[t] = "closing" =>
                \/ pc'[t] = "closing"
                \/ \A i \in 1..Len(inst) : inst[i].k = Closes(t) => inst[i].state # "closing"
           /\ pc'[t] = "done" =>
                \/ pc[t] = "done"
                \/ \A i \in 1..Len(inst) :
                     inst[i].k = Closes(t) /\ inst[i].p \in Gens => inst[i].state = "closed"
  PROVE  LeakInv'
  <1>1. DOMAIN inst = 1..Len(inst) /\ Calls \subseteq Tasks
    BY Elements DEF ContainerInv, Tasks
  <1>3. StackIsOpen'
    BY DEF LeakInv, StackIsOpen
  <1>4. OpenIsStacked'
    <2>1. ASSUME NEW i \in 1..Len(inst), inst[i].state = "closing"
          PROVE  \E t \in Tasks : Closes(t) = inst[i].k /\ pc'[t] = "closing"
      <3>1. PICK t \in Tasks : Closes(t) = inst[i].k /\ pc[t] = "closing"
        BY <2>1 DEF LeakInv, OpenIsStacked
      <3> QED
        BY <2>1, <3>1
    <2> QED
      BY <2>1 DEF LeakInv, OpenIsStacked
  <1>5. NothingLeaks'
    <2>1. ASSUME NEW t \in Tasks, pc'[t] = "done", NEW i \in 1..Len(inst),
                 inst[i].k = Closes(t), inst[i].p \in Gens, ~inst[i].late
          PROVE  inst[i].state = "closed"
      <3>1. CASE pc[t] = "done"
        BY <1>1, <2>1, <3>1 DEF LeakInv, NothingLeaks
      <3>2. CASE pc[t] # "done"
        BY <2>1, <3>2
      <3> QED
        BY <3>1, <3>2
    <2> QED
      BY <1>1, <2>1 DEF NothingLeaks
  <1> QED
    BY <1>3, <1>4, <1>5 DEF LeakInv

\* A container that no task leaves idle again stays in use.
LEMMA StillInUse ==
  ASSUME LeakInv, UNCHANGED <<inst, home, session>>,
         \A t \in Tasks : pc'[t] = "idle" => pc[t] = "idle"
  PROVE  MadeInOpen'
  BY DEF LeakInv, MadeInOpen, Tasks

\* So do tasks that come and go: one that ends without closing has made nothing.
LEMMA ComingAndGoingLeaks ==
  ASSUME ContainerInv, LeakInv,
         \/ \E c \in Calls : Begin(c) \/ BeginRefused(c)
         \/ \E t \in Tasks : Refused(t) \/ Fails(t) \/ Resolved(t)
         \/ Leave \/ Shutdown
  PROVE  LeakInv'
  <1>0. /\ ContainerTyped /\ FramesNest /\ FramesAreOwned /\ MadeInOpen
        /\ "boot" \in Tasks /\ "leave" \in Tasks /\ Calls \subseteq Tasks
        /\ UNCHANGED <<inst, exits>>
    BY DEF ContainerInv, LeakInv, Tasks, Begin, BeginRefused, Refused, Fails, Resolved, Leave, Shutdown
  <1>1. ASSUME NEW c \in Calls, Begin(c) PROVE LeakInv'
    <2>1. PICK h \in Where[c] :
            /\ pc[c] = "idle" /\ home' = [home EXCEPT ![c] = h]
            /\ session' = (session \/ h = "session") /\ pc' = [pc EXCEPT ![c] = "resolving"]
            /\ frames' = frames
      BY <1>1 DEF Begin
    <2>2. frames[c] = <<>> /\ frames["leave"] = <<>>
      BY <1>0, <2>1 DEF FramesNest, ContainerTyped
    <2>3. \A d \in Calls : d # c => home'[d] = home[d]
      BY <1>0, <2>1 DEF ContainerTyped
    <2>4. \A t \in Tasks : t = c \/ t = "leave" \/ Above(t)' = Above(t)
      BY <2>3 DEF Above, Tasks
    <2>5. FramesAreOwned'
      BY <1>0, <2>1, <2>2, <2>4 DEF FramesAreOwned
    <2>6. \A d \in Calls : home'[d] = "session" => session'
      BY <1>0, <2>1 DEF ContainerTyped, MadeInOpen
    <2>a. MadeInOpen'
      <3>1. \A d \in Calls : pc'[d] = "idle" => pc[d] = "idle"
        BY <1>0, <2>1 DEF ContainerTyped
      <3>2. \A i \in 1..Len(inst) : inst[i].k = "session" => session'
        BY <1>0, <2>1 DEF MadeInOpen
      <3> QED
        BY <1>0, <2>6, <3>1, <3>2 DEF MadeInOpen
    <2>7. \A t \in Tasks : pc'[t] = IF t = c THEN "resolving" ELSE pc[t]
      BY <1>0, <2>1 DEF ContainerTyped
    <2> QED
      BY <1>0, <2>1, <2>5, <2>a, <2>7, QuietKeeps
  <1>2. ASSUME NEW t \in Tasks, NEW a \in {"serving", "closing", "dead"},
               pc' = [pc EXCEPT ![t] = a], UNCHANGED <<home, session>>, pc[t] # "closing",
               \A u \in Tasks : frames'[u] = <<>> \/ frames'[u] = frames[u]
        PROVE  LeakInv'
    <2>1. \A u \in Tasks : pc'[u] = IF u = t THEN a ELSE pc[u]
      BY <1>0, <1>2 DEF ContainerTyped
    <2>2. \A u \in Tasks : Above(u)' = Above(u)
      BY <1>2 DEF Above
    <2>3. FramesAreOwned'
      BY <1>0, <1>2, <2>2 DEF FramesAreOwned
    <2> QED
      BY <1>0, <1>2, <2>1, <2>3, StillInUse, QuietKeeps
  <1>3. ASSUME NEW t \in Tasks, pc' = [pc EXCEPT ![t] = "done"], UNCHANGED <<home, session, frames>>,
               pc[t] = "idle", \A i \in 1..Len(inst) : inst[i].k # Closes(t)
        PROVE  LeakInv'
    <2>1. \A u \in Tasks : pc'[u] = IF u = t THEN "done" ELSE pc[u]
      BY <1>0, <1>3 DEF ContainerTyped
    <2>2. FramesAreOwned'
      BY <1>0, <1>3 DEF FramesAreOwned, Above
    <2> QED
      BY <1>0, <1>3, <2>1, <2>2, StillInUse, QuietKeeps
  <1>4. ASSUME NEW c \in Calls, BeginRefused(c) PROVE LeakInv'
    <2>1. Closes(c) = c
      BY ScopesAssumption DEF Closes
    <2>2. \A i \in 1..Len(inst) : inst[i].k # Closes(c)
      BY <1>0, <1>4, <2>1 DEF MadeInOpen, BeginRefused
    <2> QED
      BY <1>0, <1>3, <1>4, <2>2 DEF BeginRefused
  <1>5. ASSUME Leave PROVE LeakInv'
    <2>1. Closes("leave") = "session"
      BY DEF Closes
    <2>2. CASE session
      BY <1>0, <1>2, <1>5, <2>2 DEF Leave
    <2>3. CASE ~session
      <3>1. \A i \in 1..Len(inst) : inst[i].k # Closes("leave")
        BY <1>0, <2>1, <2>3 DEF MadeInOpen
      <3> QED
        BY <1>0, <1>3, <1>5, <2>3, <3>1 DEF Leave
    <2> QED
      BY <2>2, <2>3
  <1>6. ASSUME Shutdown PROVE LeakInv'
    BY <1>0, <1>2, <1>6 DEF Shutdown
  <1>7. ASSUME NEW t \in Tasks, Resolved(t) PROVE LeakInv'
    BY <1>2, <1>7 DEF Resolved
  <1>8. ASSUME NEW t \in Tasks, Refused(t) \/ Fails(t) PROVE LeakInv'
    <2>1. PICK a \in {"dead", "closing"} :
            /\ pc[t] = "resolving" /\ pc' = [pc EXCEPT ![t] = a] /\ UNCHANGED <<home, session>>
            /\ frames' = [frames EXCEPT ![t] = <<>>]
      BY <1>8 DEF Refused, Fails, Unwind, Seeking, At
    <2>2. \A u \in Tasks : frames'[u] = <<>> \/ frames'[u] = frames[u]
      BY <1>0, <2>1 DEF ContainerTyped
    <2> QED
      BY <1>2, <2>1, <2>2
  <1> QED
    BY <1>1, <1>4, <1>5, <1>6, <1>7, <1>8

\* A closed container has nothing on its stack and awaits no teardown.
LEMMA ClosedLeaks == ASSUME ContainerInv, LeakInv, NEW t \in Tasks, Closed(t) PROVE LeakInv'
  <1>0. /\ ContainerTyped /\ StackIsOpen /\ OpenIsStacked /\ pc[t] = "closing"
        /\ pc' = [pc EXCEPT ![t] = "done"] /\ Under(t) = {} /\ exits[Closes(t)] = <<>>
        /\ UNCHANGED <<home, session, frames, inst, exits>>
    BY DEF ContainerInv, LeakInv, Closed
  <1>1. \A u \in Tasks : pc'[u] = IF u = t THEN "done" ELSE pc[u]
    BY <1>0 DEF ContainerTyped
  <1>2. FramesAreOwned'
    BY <1>0 DEF LeakInv, FramesAreOwned, Above
  <1>5. MadeInOpen'
    BY <1>0, <1>1, StillInUse
  <1>3. ASSUME NEW i \in 1..Len(inst), inst[i].k = Closes(t)
        PROVE  inst[i].state # "closing" /\ (inst[i].p \in Gens => inst[i].state = "closed")
    <2>1. inst[i] \in Instance /\ i \in DOMAIN inst
      BY <1>0, Elements
    <2>2. inst[i].state # "closing"
      BY <1>0, <1>3, <2>1 DEF Under
    <2>3. Len(exits[Closes(t)]) = 0
      BY <1>0
    <2>4. inst[i].p \in Gens => inst[i].state # "open"
      BY <1>0, <1>3, <2>3 DEF OpenIsStacked
    <2> QED
      BY <2>1, <2>2, <2>4 DEF Instance
  <1>4. \A u \in Tasks :
          /\ pc[u] = "closing" => \/ pc'[u] = "closing"
                                  \/ \A i \in 1..Len(inst) :
                                       inst[i].k = Closes(u) => inst[i].state # "closing"
          /\ pc'[u] = "done" =>
               \/ pc[u] = "done"
               \/ \A i \in 1..Len(inst) :
                    inst[i].k = Closes(u) /\ inst[i].p \in Gens => inst[i].state = "closed"
    BY <1>1, <1>3
  <1> QED
    BY <1>0, <1>2, <1>4, <1>5, QuietKeeps

\* Where an instance is made there is a task, or the session, that will close it.
LEMMA OwnersAreThere ==
  ASSUME ContainerInv, LeakInv, NEW t \in Tasks, pc[t] = "resolving", NEW k \in Above(t)
  PROVE  (k \in Calls => pc[k] # "idle") /\ (k = "session" => session)
  <1>1. t = "boot" \/ t \in Calls
    BY DEF ContainerInv, ContainerTyped, Tasks
  <1>2. t \in Calls => home[t] \in {"app", "session"}
    BY DEF ContainerInv, ContainerTyped
  <1> QED
    BY <1>1, <1>2, ScopesAssumption DEF Above, LeakInv, MadeInOpen

\* An answer leaves every frame in its container.
LEMMA AnswersAreOwned ==
  ASSUME ContainerInv, LeakInv, NEW t \in Tasks, NEW fs \in Seq(Frame), NEW i \in Nat,
         want[t] # <<>>, fs # <<>> => Waits(fs[Len(fs)]),
         \A n \in 1..Len(fs) : (~Closing(fs[n].k) => fs[n].age = 0) /\ fs[n].k \in Above(t),
         Deliver(t, fs, i), UNCHANGED home
  PROVE  FramesAreOwned'
  <1>0. ContainerTyped /\ LocksAreFirst /\ FramesAreOwned
    BY DEF ContainerInv, LeakInv
  <1>1. /\ \A u \in Tasks : u # t => frames'[u] = frames[u]
        /\ Len(frames'[t]) = Len(fs) /\ \A n \in 1..Len(fs) : frames'[t][n].k = fs[n].k
    BY <1>0, Delivered
  <1>2. \A u \in Tasks : Above(u)' = Above(u)
    BY DEF Above
  <1>3. ASSUME NEW u \in Tasks, NEW n \in 1..Len(frames'[u]) PROVE frames'[u][n].k \in Above(u)
    <2>1. CASE u = t
      BY <1>1, <1>3, <2>1
    <2>2. CASE u # t
      BY <1>0, <1>1, <1>3, <2>2 DEF FramesAreOwned
    <2> QED
      BY <2>1, <2>2
  <1> QED
    BY <1>2, <1>3 DEF FramesAreOwned

\* So does one to the frame around the innermost.
LEMMA InnerIsOwned ==
  ASSUME ContainerInv, LeakInv, NEW t \in Tasks, frames[t] # <<>>, NEW i \in Nat,
         Deliver(t, Front(frames[t]), i), UNCHANGED home
  PROVE  FramesAreOwned'
  <1>1. /\ Front(frames[t]) \in Seq(Frame) /\ Len(Front(frames[t])) = Len(frames[t]) - 1
        /\ Len(frames[t]) \in Nat \ {0} /\ want[t] # <<>>
        /\ \A n \in 1..(Len(frames[t]) - 1) :
             /\ Front(frames[t])[n] = frames[t][n] /\ Waits(frames[t][n])
             /\ ~Closing(frames[t][n].k) => frames[t][n].age = 0
    BY Around
  <1> DEFINE fs == Front(frames[t])
  <1>2. \A n \in 1..(Len(frames[t]) - 1) : n \in 1..Len(frames[t])
    BY <1>1
  <1>3. \A n \in 1..Len(frames[t]) : frames[t][n].k \in Above(t)
    BY DEF LeakInv, FramesAreOwned
  <1>4. fs \in Seq(Frame) /\ Deliver(t, fs, i)
        /\ \A n \in 1..Len(fs) :
             Waits(fs[n]) /\ (~Closing(fs[n].k) => fs[n].age = 0) /\ fs[n].k \in Above(t)
    BY <1>1, <1>2, <1>3
  <1> HIDE DEF fs
  <1>5. fs # <<>> => Waits(fs[Len(fs)])
    <2>1. fs # <<>> => Len(fs) \in 1..Len(fs)
      BY <1>4
    <2> QED
      BY <1>4, <2>1
  <1> QED
    BY <1>1, <1>4, <1>5, AnswersAreOwned

\* A step of resolve that makes nothing.
LEMMA NothingMadeLeaks ==
  ASSUME ContainerInv, LeakInv, FramesAreOwned', UNCHANGED <<pc, home, session, inst, exits>>
  PROVE  LeakInv'
  <1>1. MadeInOpen'
    BY StillInUse
  <1> QED
    BY <1>1, QuietKeeps

\* An answer from the cache, or a new frame.
LEMMA SeekingLeaks ==
  ASSUME ContainerInv, LeakInv, NEW t \in Tasks, Cached(t) \/ Descend(t)
  PROVE  LeakInv'
  <1>0. /\ UNCHANGED <<pc, home, session, inst, exits>> /\ ContainerTyped /\ LocksAreFirst
        /\ FramesAreOwned
    BY DEF Cached, Descend, ContainerInv, LeakInv
  <1>1. /\ Demand(t) \in Providers /\ Owner(t, Demand(t)) \in Containers
        /\ want[t] # <<>> /\ frames[t] \in Seq(Frame) /\ Len(frames[t]) \in Nat
        /\ \A n \in 1..Len(frames[t]) :
             Waits(frames[t][n]) /\ (~Closing(frames[t][n].k) => frames[t][n].age = 0)
    BY Sought DEF Cached, Descend
  <1>2. \A n \in 1..Len(frames[t]) : frames[t][n].k \in Above(t)
    BY <1>0 DEF FramesAreOwned
  <1>3. CASE Cached(t)
    <2> DEFINE i == cache[Owner(t, Demand(t))][Demand(t)]
    <2>1. i \in Nat /\ Deliver(t, frames[t], i)
      BY <1>0, <1>1, <1>3 DEF ContainerTyped, Cached
    <2>2. frames[t] # <<>> => Waits(frames[t][Len(frames[t])])
      <3>1. frames[t] # <<>> => Len(frames[t]) \in 1..Len(frames[t])
        BY <1>1
      <3> QED
        BY <1>1, <3>1
    <2> HIDE DEF i
    <2>3. FramesAreOwned'
      BY <1>0, <1>1, <1>2, <2>1, <2>2, AnswersAreOwned
    <2> QED
      BY <1>0, <2>3, NothingMadeLeaks
  <1>4. CASE Descend(t)
    <2> DEFINE f0 == [p |-> Demand(t), k |-> Owner(t, Demand(t)), todo |-> Deps[Demand(t)],
                      uses |-> {}, at |-> "deps", age |-> 0]
               f1 == Ready(f0)
               fs == frames[t]
    <2>1. f0 \in Frame /\ f0.at = "deps" /\ f0.k = Owner(t, Demand(t))
      BY <1>1, ScopesAssumption DEF Frame
    <2>2. f0.k \in Above(t)
      <3>1. Owner(t, Demand(t)) \in Owners(t, Demand(t))
        BY <1>4 DEF Descend, Allowed, Owner
      <3> QED
        BY <2>1, <3>1 DEF Owners
    <2>3. frames' = [frames EXCEPT ![t] = Append(fs, f1)]
      BY <1>4 DEF Descend
    <2> HIDE DEF f0
    <2>4. f1 \in Frame /\ f1.k = f0.k
      BY <1>0, <2>1, ReadyFrame
    <2> HIDE DEF f1
    <2>5. frames'[t] = Append(fs, f1) /\ \A u \in Tasks : u # t => frames'[u] = frames[u]
      BY <1>0, <2>3 DEF ContainerTyped
    <2>6. /\ \A n \in 1..Len(frames'[t]) : n = Len(fs) + 1 \/ n \in 1..Len(fs)
          /\ frames'[t][Len(fs) + 1] = f1
          /\ \A n \in 1..Len(fs) : frames'[t][n] = fs[n]
      BY <1>1, <2>4, <2>5
    <2>7. \A u \in Tasks : Above(u)' = Above(u)
      BY <1>0 DEF Above
    <2>8. ASSUME NEW u \in Tasks, NEW n \in 1..Len(frames'[u]) PROVE frames'[u][n].k \in Above(u)
      <3>1. CASE u = t
        BY <1>2, <2>2, <2>4, <2>6, <2>8, <3>1
      <3>2. CASE u # t
        BY <1>0, <2>5, <2>8, <3>2 DEF FramesAreOwned
      <3> QED
        BY <3>1, <3>2
    <2>9. FramesAreOwned'
      BY <2>7, <2>8 DEF FramesAreOwned
    <2> QED
      BY <1>0, <2>9, NothingMadeLeaks
  <1> QED
    BY <1>3, <1>4

\* A new instance goes on the stack of its container, or comes late.
LEMMA MadeLeaks ==
  ASSUME ContainerInv, LeakInv, NEW t \in Tasks, frames[t] # <<>>, Made(t, Top(t)),
         UNCHANGED <<pc, home, session>>
  PROVE  LeakInv'
  <1> DEFINE f == Top(t)
             i == Len(inst) + 1
             new == [p |-> f.p, k |-> f.k, uses |-> f.uses, state |-> "open",
                     late |-> Closing(f.k)]
  <1>0. /\ ContainerTyped /\ FramesAreOwned /\ MadeInOpen /\ StackIsOpen /\ OpenIsStacked
        /\ NothingLeaks /\ exits \in [Containers -> Seq(Nat)]
    BY DEF ContainerInv, LeakInv, StackIsOpen
  <1>1. f \in Frame /\ f.k \in Containers /\ f.p \in Providers /\ pc[t] = "resolving"
    BY Around
  <1>2. /\ inst' = Append(inst, new)
        /\ exits' = IF f.p \in Gens THEN [exits EXCEPT ![f.k] = Append(exits[f.k], i)] ELSE exits
        /\ Deliver(t, Front(frames[t]), i)
    BY DEF Made
  <1>3. inst \in Seq(Instance) /\ Len(inst) \in Nat /\ i \in Nat /\ DOMAIN inst = 1..Len(inst)
    BY <1>0, Elements DEF ContainerTyped
  <1>4. FramesAreOwned'
    BY <1>2, <1>3, InnerIsOwned
  <1>5. f.k \in Above(t)
    <2>1. Len(frames[t]) \in 1..Len(frames[t]) /\ f = frames[t][Len(frames[t])]
      BY Around
    <2> QED
      BY <1>0, <2>1 DEF FramesAreOwned
  <1>6. /\ new.p = f.p /\ new.k = f.k /\ new.state = "open"
        /\ Closing(f.k) => new.late
    OBVIOUS
  <1> HIDE DEF f, new
  <1>7. /\ Len(inst') = i /\ DOMAIN inst' = 1..i /\ inst'[i] = new
        /\ \A j \in 1..Len(inst) : inst'[j] = inst[j]
        /\ \A j \in 1..i : j = i \/ j \in 1..Len(inst)
        /\ i \notin 1..Len(inst) /\ i \in 1..i /\ \A j \in 1..Len(inst) : j \in 1..i
    BY <1>2, <1>3
  <1> HIDE DEF i
  <1>8. MadeInOpen'
    <2>1. (f.k \in Calls => pc[f.k] # "idle") /\ (f.k = "session" => session)
      BY <1>1, <1>5, OwnersAreThere
    <2> QED
      BY <1>0, <1>6, <1>7, <2>1 DEF MadeInOpen
  <1>9. \A k \in Containers :
          /\ exits[k] \in Seq(Nat) /\ exits'[k] \in Seq(Nat)
          /\ exits'[k] = IF k = f.k /\ f.p \in Gens THEN Append(exits[k], i) ELSE exits[k]
    BY <1>0, <1>1, <1>2, <1>3
  <1>10. exits' \in [Containers -> Seq(Nat)]
    BY <1>0, <1>1, <1>2, <1>3
  <1>11. ASSUME NEW k \in Containers, k = f.k, f.p \in Gens
         PROVE  /\ Len(exits[k]) \in Nat /\ Len(exits'[k]) = Len(exits[k]) + 1
                /\ exits'[k][Len(exits[k]) + 1] = i
                /\ \A n \in 1..Len(exits[k]) : exits'[k][n] = exits[k][n]
                /\ \A n \in 1..Len(exits'[k]) : n = Len(exits[k]) + 1 \/ n \in 1..Len(exits[k])
    <2>1. exits'[k] = Append(exits[k], i) /\ exits[k] \in Seq(Nat)
      BY <1>9, <1>11
    <2> QED
      BY <1>3, <2>1
  <1>12. StackIsOpen'
    <2>1. ASSUME NEW k \in Containers, NEW n \in 1..Len(exits'[k])
          PROVE  /\ exits'[k][n] \in 1..i
                 /\ inst'[exits'[k][n]].k = k /\ inst'[exits'[k][n]].state = "open"
                 /\ \A m \in 1..Len(exits'[k]) : exits'[k][m] = exits'[k][n] => m = n
      <3>0. \A m \in 1..Len(exits[k]) :
              /\ exits[k][m] \in 1..Len(inst) /\ exits[k][m] # i
              /\ inst[exits[k][m]].k = k /\ inst[exits[k][m]].state = "open"
              /\ \A l \in 1..Len(exits[k]) : exits[k][l] = exits[k][m] => l = m
        BY <1>0, <1>7 DEF StackIsOpen
      <3>1. CASE k = f.k /\ f.p \in Gens
        <4>1. CASE n = Len(exits[k]) + 1
          <5>1. exits'[k][n] = i
            BY <1>11, <3>1, <4>1
          <5>2. \A m \in 1..Len(exits'[k]) : exits'[k][m] = i => m = n
            BY <1>11, <3>0, <3>1, <4>1
          <5> QED
            BY <1>6, <1>7, <3>1, <5>1, <5>2
        <4>2. CASE n \in 1..Len(exits[k])
          <5>1. exits'[k][n] = exits[k][n]
            BY <1>11, <3>1, <4>2
          <5>2. \A m \in 1..Len(exits'[k]) : exits'[k][m] = exits[k][n] => m = n
            BY <1>11, <3>0, <3>1, <4>2
          <5> QED
            BY <1>7, <3>0, <4>2, <5>1, <5>2
        <4> QED
          BY <1>11, <2>1, <3>1, <4>1, <4>2
      <3>2. CASE ~(k = f.k /\ f.p \in Gens)
        <4>1. exits'[k] = exits[k]
          BY <1>9, <3>2
        <4> QED
          BY <1>7, <2>1, <3>0, <4>1
      <3> QED
        BY <3>1, <3>2
    <2> QED
      BY <1>7, <1>10, <2>1 DEF StackIsOpen
  <1>13. OpenIsStacked'
    <2>1. ASSUME NEW j \in 1..i, inst'[j].p \in Gens, inst'[j].state = "open"
          PROVE  \E n \in 1..Len(exits'[inst'[j].k]) : exits'[inst'[j].k][n] = j
      <3>1. CASE j = i
        <4>1. inst'[j].k = f.k /\ f.p \in Gens
          BY <1>6, <1>7, <2>1, <3>1
        <4>2. Len(exits[f.k]) + 1 \in 1..Len(exits'[f.k]) /\ exits'[f.k][Len(exits[f.k]) + 1] = i
          BY <1>1, <1>11, <4>1
        <4> QED
          BY <3>1, <4>1, <4>2
      <3>2. CASE j \in 1..Len(inst)
        <4>1. inst'[j] = inst[j] /\ inst[j].k \in Containers
          BY <1>0, <1>7, <3>2, Elements
        <4>2. PICK n \in 1..Len(exits[inst[j].k]) : exits[inst[j].k][n] = j
          BY <1>0, <2>1, <3>2, <4>1 DEF OpenIsStacked
        <4>3. CASE inst[j].k = f.k /\ f.p \in Gens
          BY <1>11, <4>1, <4>2, <4>3
        <4>4. CASE ~(inst[j].k = f.k /\ f.p \in Gens)
          BY <1>9, <4>1, <4>2, <4>4
        <4> QED
          BY <4>3, <4>4
      <3> QED
        BY <1>7, <3>1, <3>2
    <2>2. ASSUME NEW j \in 1..i, inst'[j].state = "closing"
          PROVE  \E u \in Tasks : Closes(u) = inst'[j].k /\ pc[u] = "closing"
      <3>1. j \in 1..Len(inst) /\ inst'[j] = inst[j]
        BY <1>6, <1>7, <2>2
      <3> QED
        BY <1>0, <2>2, <3>1 DEF OpenIsStacked
    <2> QED
      BY <1>7, <2>1, <2>2 DEF OpenIsStacked
  <1>14. NothingLeaks'
    <2>1. ASSUME NEW u \in Tasks, pc[u] = "done", NEW j \in 1..i,
                 inst'[j].k = Closes(u), inst'[j].p \in Gens, ~inst'[j].late
          PROVE  inst'[j].state = "closed"
      <3>1. CASE j = i
        <4>1. Closing(f.k)
          BY <1>6, <1>7, <2>1, <3>1 DEF Closing
        <4> QED
          BY <1>6, <1>7, <2>1, <3>1, <4>1
      <3>2. CASE j \in 1..Len(inst)
        BY <1>0, <1>3, <1>7, <2>1, <3>2 DEF NothingLeaks
      <3> QED
        BY <1>7, <3>1, <3>2
    <2> QED
      BY <1>7, <2>1 DEF NothingLeaks
  <1> QED
    BY <1>4, <1>8, <1>12, <1>13, <1>14 DEF LeakInv

\* Under the lock.
LEMMA LockedLeaks ==
  ASSUME ContainerInv, LeakInv, NEW t \in Tasks, TakeLock(t) \/ Produced(t)
  PROVE  LeakInv'
  <1> DEFINE f == Top(t)
  <1>0. /\ frames[t] # <<>> /\ UNCHANGED <<pc, home, session>> /\ ContainerTyped /\ FramesAreOwned
        /\ TakeLock(t) => Locked(t, f)
        /\ Produced(t) => Made(t, f)
    BY DEF TakeLock, Produced, At, ContainerInv, LeakInv
  <1>1. /\ f \in Frame /\ f.k \in Containers /\ f.p \in Providers
        /\ f = frames[t][Len(frames[t])] /\ Len(frames[t]) \in Nat \ {0}
    BY <1>0, Around
  <1>2. CASE Made(t, f)
    BY <1>0, <1>2, MadeLeaks
  <1>3. CASE cache[f.k][f.p] # 0 /\ Locked(t, f)
    <2>1. Deliver(t, Front(frames[t]), cache[f.k][f.p]) /\ UNCHANGED <<inst, exits>>
      BY <1>3 DEF Locked
    <2>2. cache[f.k][f.p] \in Nat
      BY <1>0, <1>1 DEF ContainerTyped
    <2>3. FramesAreOwned'
      BY <1>0, <2>1, <2>2, InnerIsOwned
    <2> QED
      BY <1>0, <2>1, <2>3, NothingMadeLeaks
  <1>4. CASE cache[f.k][f.p] = 0 /\ Locked(t, f) /\ f.p \in Gens
    <2> DEFINE fs == frames[t]
               g == [f EXCEPT !.at = "produce"]
               m == Len(fs)
    <2>1. frames' = [frames EXCEPT ![t] = [fs EXCEPT ![m] = g]] /\ UNCHANGED <<inst, exits>>
      BY <1>4 DEF Locked, Produce, ReplaceAt
    <2>2. fs \in Seq(Frame) /\ m \in 1..Len(fs)
      BY <1>0, <1>1 DEF ContainerTyped
    <2>3. g \in Frame /\ g.k = fs[m].k
      BY <1>1 DEF Frame
    <2> HIDE DEF f, g
    <2>4. /\ Len(frames'[t]) = Len(fs)
          /\ \A n \in 1..Len(fs) : frames'[t][n].k = fs[n].k
          /\ \A u \in Tasks : u # t => frames'[u] = frames[u]
      BY <1>0, <2>1, <2>2, <2>3 DEF ContainerTyped
    <2>5. \A u \in Tasks : Above(u)' = Above(u)
      BY <1>0 DEF Above
    <2>6. FramesAreOwned'
      BY <1>0, <2>4, <2>5 DEF FramesAreOwned
    <2> QED
      BY <1>0, <2>1, <2>6, NothingMadeLeaks
  <1>5. CASE cache[f.k][f.p] = 0 /\ Locked(t, f) /\ f.p \notin Gens
    BY <1>2, <1>5 DEF Locked, Produce
  <1> QED
    BY <1>0, <1>2, <1>3, <1>4, <1>5

\* An instance whose state changes stays what it is.
LEMMA NewState ==
  ASSUME ContainerTyped, NEW i \in 1..Len(inst), NEW s \in {"closing", "closed"},
         inst' = [inst EXCEPT ![i].state = s]
  PROVE  /\ Len(inst') = Len(inst) /\ DOMAIN inst' = 1..Len(inst)
         /\ \A j \in 1..Len(inst) :
              /\ inst'[j].p = inst[j].p /\ inst'[j].k = inst[j].k /\ inst'[j].late = inst[j].late
              /\ inst'[j].state = IF j = i THEN s ELSE inst[j].state
  <1> DEFINE new == [inst[i] EXCEPT !.state = s]
  <1>1. inst \in Seq(Instance) /\ inst[i] \in Instance
    BY Elements DEF ContainerTyped
  <1>2. new.p = inst[i].p /\ new.k = inst[i].k /\ new.late = inst[i].late /\ new.state = s
    BY <1>1 DEF Instance
  <1>3. inst' = [inst EXCEPT ![i] = new]
    OBVIOUS
  <1> HIDE DEF new
  <1>4. /\ Len(inst') = Len(inst) /\ DOMAIN inst' = 1..Len(inst)
        /\ \A j \in 1..Len(inst) : inst'[j] = IF j = i THEN new ELSE inst[j]
    BY <1>1, <1>3
  <1> QED
    BY <1>2, <1>4

\* A teardown begins with the last instance on the stack.
LEMMA TeardownBeginsLeaks ==
  ASSUME ContainerInv, LeakInv, NEW t \in Tasks, TeardownBegins(t)
  PROVE  LeakInv'
  <1> DEFINE k == Closes(t)
             m == Len(exits[k])
  <1>0. /\ ContainerTyped /\ FramesAreOwned /\ MadeInOpen /\ StackIsOpen /\ OpenIsStacked
        /\ NothingLeaks /\ exits \in [Containers -> Seq(Nat)]
        /\ pc[t] = "closing" /\ UNCHANGED <<pc, home, frames, session>> /\ exits[k] # <<>>
    BY DEF ContainerInv, LeakInv, StackIsOpen, TeardownBegins
  <1>1. PICK i : /\ i = exits[k][m] /\ exits' = [exits EXCEPT ![k] = Front(exits[k])]
                 /\ inst' = [inst EXCEPT ![i].state = "closing"]
    BY DEF TeardownBegins, Pop, Last
  <1>2. k \in Containers
    BY OneCloser
  <1> HIDE DEF k
  <1>3. exits[k] \in Seq(Nat) /\ m \in Nat \ {0} /\ m \in 1..m
    BY <1>0, <1>2
  <1>4. /\ Front(exits[k]) \in Seq(Nat) /\ Len(Front(exits[k])) = m - 1
        /\ \A n \in 1..(m - 1) : Front(exits[k])[n] = exits[k][n]
    BY <1>3 DEF Front
  <1>5. /\ exits' \in [Containers -> Seq(Nat)] /\ exits'[k] = Front(exits[k])
        /\ \A l \in Containers : l # k => exits'[l] = exits[l]
    BY <1>0, <1>1, <1>2, <1>4
  <1>6. /\ i \in 1..Len(inst) /\ inst[i].k = k /\ inst[i].state = "open"
        /\ \A n \in 1..m : exits[k][n] = i => n = m
    BY <1>0, <1>1, <1>2, <1>3 DEF StackIsOpen
  <1>7. /\ Len(inst') = Len(inst) /\ DOMAIN inst' = 1..Len(inst)
        /\ \A j \in 1..Len(inst) :
             /\ inst'[j].p = inst[j].p /\ inst'[j].k = inst[j].k /\ inst'[j].late = inst[j].late
             /\ inst'[j].state = IF j = i THEN "closing" ELSE inst[j].state
    BY <1>0, <1>1, <1>6, NewState
  <1>8. FramesAreOwned'
    BY <1>0 DEF FramesAreOwned, Above
  <1>9. MadeInOpen'
    BY <1>0, <1>7 DEF MadeInOpen
  <1> HIDE DEF m
  <1>10. \A l \in Containers : \A n \in 1..Len(exits'[l]) :
           n \in 1..Len(exits[l]) /\ exits'[l][n] = exits[l][n] /\ (l = k => n # m)
    <2>1. ASSUME NEW n \in 1..Len(exits'[k])
          PROVE  n \in 1..Len(exits[k]) /\ exits'[k][n] = exits[k][n] /\ n # m
      BY <1>3, <1>4, <1>5 DEF m
    <2> QED
      BY <1>5, <2>1
  <1>11. StackIsOpen'
    <2>1. ASSUME NEW l \in Containers, NEW n \in 1..Len(exits'[l])
          PROVE  /\ exits'[l][n] \in 1..Len(inst)
                 /\ inst'[exits'[l][n]].k = l /\ inst'[exits'[l][n]].state = "open"
                 /\ \A j \in 1..Len(exits'[l]) : exits'[l][j] = exits'[l][n] => j = n
      <3>1. /\ exits'[l][n] = exits[l][n] /\ n \in 1..Len(exits[l])
            /\ exits[l][n] \in 1..Len(inst) /\ inst[exits[l][n]].k = l
            /\ inst[exits[l][n]].state = "open"
            /\ \A j \in 1..Len(exits[l]) : exits[l][j] = exits[l][n] => j = n
        BY <1>0, <1>10 DEF StackIsOpen
      <3>2. exits[l][n] # i
        BY <1>6, <1>10, <3>1 DEF m
      <3>3. \A j \in 1..Len(exits'[l]) : exits'[l][j] = exits'[l][n] => j = n
        BY <1>10, <3>1
      <3> QED
        BY <1>7, <3>1, <3>2, <3>3
    <2> QED
      BY <1>5, <1>7, <2>1 DEF StackIsOpen
  <1>12. OpenIsStacked'
    <2>1. ASSUME NEW j \in 1..Len(inst), inst[j].p \in Gens, inst'[j].state = "open"
          PROVE  \E n \in 1..Len(exits'[inst[j].k]) : exits'[inst[j].k][n] = j
      <3>1. j # i /\ inst[j].state = "open" /\ inst[j].k \in Containers
        BY <1>0, <1>7, <2>1, Elements
      <3>2. PICK n \in 1..Len(exits[inst[j].k]) : exits[inst[j].k][n] = j
        BY <1>0, <2>1, <3>1 DEF OpenIsStacked
      <3>3. CASE inst[j].k = k
        <4>1. n \in 1..Len(exits[k]) /\ exits[k][n] = j /\ n # m
          BY <1>1, <3>1, <3>2, <3>3
        <4>2. n \in 1..(m - 1)
          BY <1>3, <4>1 DEF m
        <4>3. n \in 1..Len(exits'[k]) /\ exits'[k][n] = j
          BY <1>4, <1>5, <4>1, <4>2
        <4> QED
          BY <3>3, <4>3
      <3>4. CASE inst[j].k # k
        BY <1>5, <3>1, <3>2, <3>4
      <3> QED
        BY <3>3, <3>4
    <2>2. ASSUME NEW j \in 1..Len(inst), inst'[j].state = "closing"
          PROVE  \E u \in Tasks : Closes(u) = inst[j].k /\ pc[u] = "closing"
      <3>1. CASE j = i
        BY <1>0, <1>6, <3>1 DEF k
      <3>2. CASE j # i
        BY <1>0, <1>7, <2>2, <3>2 DEF OpenIsStacked
      <3> QED
        BY <3>1, <3>2
    <2> QED
      BY <1>0, <1>7, <2>1, <2>2 DEF OpenIsStacked
  <1>13. NothingLeaks'
    <2>1. ASSUME NEW u \in Tasks, pc[u] = "done", NEW j \in 1..Len(inst),
                 inst[j].k = Closes(u), inst[j].p \in Gens, ~inst[j].late
          PROVE  inst'[j].state = "closed"
      <3>1. inst[j].state = "closed"
        BY <1>0, <2>1, Elements DEF NothingLeaks
      <3> QED
        BY <1>6, <1>7, <3>1
    <2> QED
      BY <1>0, <1>7, <2>1 DEF NothingLeaks
  <1> QED
    BY <1>8, <1>9, <1>11, <1>12, <1>13 DEF LeakInv

\* A teardown that ends, also one that raises, leaves its instance closed.
LEMMA TeardownEndsLeaks ==
  ASSUME ContainerInv, LeakInv, NEW t \in Tasks, TeardownEnds(t)
  PROVE  LeakInv'
  <1>0. /\ ContainerTyped /\ FramesAreOwned /\ MadeInOpen /\ StackIsOpen /\ OpenIsStacked
        /\ NothingLeaks /\ UNCHANGED <<pc, home, frames, session, exits>>
    BY DEF ContainerInv, LeakInv, TeardownEnds
  <1>1. PICK i \in 1..Len(inst) : /\ inst[i].state = "closing"
                                  /\ inst' = [inst EXCEPT ![i].state = "closed"]
    BY <1>0, Elements DEF TeardownEnds, Under
  <1>2. /\ Len(inst') = Len(inst) /\ DOMAIN inst' = 1..Len(inst) /\ DOMAIN inst = 1..Len(inst)
        /\ \A j \in 1..Len(inst) :
             /\ inst'[j].p = inst[j].p /\ inst'[j].k = inst[j].k /\ inst'[j].late = inst[j].late
             /\ inst'[j].state = IF j = i THEN "closed" ELSE inst[j].state
    BY <1>0, <1>1, NewState, Elements
  <1>3. FramesAreOwned'
    BY <1>0 DEF FramesAreOwned, Above
  <1>4. MadeInOpen'
    BY <1>0, <1>2 DEF MadeInOpen
  <1>5. StackIsOpen'
    BY <1>0, <1>1, <1>2 DEF StackIsOpen
  <1>6. OpenIsStacked'
    BY <1>0, <1>2 DEF OpenIsStacked
  <1>7. NothingLeaks'
    BY <1>0, <1>2 DEF NothingLeaks
  <1> QED
    BY <1>3, <1>4, <1>5, <1>6, <1>7 DEF LeakInv

\* Every step keeps it.
LEMMA LeakInvStep == ContainerInv /\ LeakInv /\ [Next]_vars => LeakInv'
  <1> SUFFICES ASSUME ContainerInv, LeakInv, [Next]_vars PROVE LeakInv'
    OBVIOUS
  <1>1. ASSUME NEW c \in Calls, Begin(c) \/ BeginRefused(c) PROVE LeakInv'
    BY <1>1, ComingAndGoingLeaks
  <1>2. ASSUME NEW t \in Tasks, Resolve(t) PROVE LeakInv'
    BY <1>2, SeekingLeaks, LockedLeaks, ComingAndGoingLeaks DEF Resolve
  <1>3. ASSUME NEW t \in Tasks, Close(t) PROVE LeakInv'
    BY <1>3, TeardownBeginsLeaks, TeardownEndsLeaks, ClosedLeaks DEF Close
  <1>4. ASSUME NEW t \in Tasks, Fails(t) PROVE LeakInv'
    BY <1>4, ComingAndGoingLeaks
  <1>5. ASSUME Leave \/ Shutdown PROVE LeakInv'
    BY <1>5, ComingAndGoingLeaks
  <1>6. ASSUME UNCHANGED vars PROVE LeakInv'
    <2>1. UNCHANGED <<pc, home, session, inst, exits>> /\ FramesAreOwned'
      BY <1>6 DEF vars, LeakInv, FramesAreOwned, Above
    <2> QED
      BY <2>1, NothingMadeLeaks
  <1> QED
    BY <1>1, <1>2, <1>3, <1>4, <1>5, <1>6 DEF Next, Progress

\* A container that has been closed has torn down every instance made in it
\* before: whatever raised, was refused or cancelled, and whichever teardown
\* failed.
THEOREM ContainersCloseWhole == Spec => []NothingLeaks
  <1>1. LeakInv => NothingLeaks
    BY DEF LeakInv
  <1> QED
    BY <1>1, ContainerInvInit, ContainerInvStep, LeakInvInit, LeakInvStep, PTL DEF Spec
=============================================================================
