----------------------------- MODULE Container -----------------------------
(***************************************************************************)
(* The dependency container (infra/di.py) with the three levels the        *)
(* application gives it (infra/bootstrap.py): one container of the         *)
(* application, one of a chat session, one of every call of an injected    *)
(* function.  All tasks run on one event loop; a step of the model is what *)
(* a task does up to an await that may suspend it: waiting for the lock of *)
(* a provider, the provider itself, a teardown.                            *)
(*                                                                         *)
(* Tasks: "boot" starts and shuts down the application, "leave" is the     *)
(* end of the chat session, every member of Calls is one injected call.    *)
(***************************************************************************)
EXTENDS Naturals, Sequences, SequencesExt

CONSTANTS
  Providers,   \* the provider functions
  Scope,       \* [Providers -> {"app", "session", "transient"}]
  Deps,        \* [Providers -> Seq(Providers)]: the Depends of its parameters
  Gens,        \* the providers that are generators: they have a teardown
  Eager,       \* Seq(Providers): resolved when the application starts
  Calls,       \* the calls of injected functions
  Wants,       \* [Calls -> SUBSET Seq(Providers)]: what a call may ask for
  Where,       \* [Calls -> SUBSET {"app", "session"}]: in a chat session or not
  MaxFaults    \* bound: providers and teardowns that raise, tasks cancelled

ASSUME ScopesAssumption ==
  /\ Gens \subseteq Providers /\ MaxFaults \in Nat
  /\ Scope \in [Providers -> {"app", "session", "transient"}]
  /\ Deps \in [Providers -> Seq(Providers)] /\ Eager \in Seq(Providers)
  /\ \A c \in Calls : Wants[c] \subseteq Seq(Providers) /\ Where[c] \subseteq {"app", "session"}
  /\ Calls \cap {"app", "session", "boot", "leave"} = {}

VARIABLES
  root,     \* is Container.root set
  pc,       \* where a task is
  home,     \* the parent of the container of a call: "app" or "session"
  want,     \* what a task has yet to resolve
  frames,   \* the nested resolve() of a task, innermost last
  cache,    \* _cache of a container: provider -> instance, 0 for none
  age,      \* how often _locks of a container was cleared
  exits,    \* _stack of a container: the instances to tear down
  inst,     \* every instance made
  raised,   \* a teardown of this aclose raised
  session,  \* the session has a container
  faults    \* what went wrong so far

vars == <<root, pc, home, want, frames, cache, age, exits, inst, raised,
          session, faults>>

Tasks == Calls \cup {"boot", "leave"}
Containers == Calls \cup {"app", "session"}

(* The container a task closes. *)
Closes(t) == CASE t = "boot" -> "app" [] t = "leave" -> "session" [] OTHER -> t

Level(k) == IF k \in Calls THEN "call" ELSE k
Rank == [app |-> 0, session |-> 1, call |-> 2]
OwnerLevel == [app |-> "app", session |-> "session", transient |-> "call"]

(* The containers from that of task t up to the root. *)
Above(t) == IF t = "boot" THEN {"app"} ELSE {t, home[t], "app"}
Owners(t, p) == {k \in Above(t) : Level(k) = OwnerLevel[Scope[p]]}
Owner(t, p) == CHOOSE k \in Owners(t, p) : TRUE
IsCached(p) == Scope[p] \in {"app", "session"}

Init ==
  /\ root = TRUE /\ session = FALSE /\ faults = 0
  /\ pc = [t \in Tasks |-> IF t = "boot" THEN "resolving" ELSE "idle"]
  /\ home = [c \in Calls |-> "app"]
  /\ want = [t \in Tasks |-> IF t = "boot" THEN Eager ELSE <<>>]
  /\ frames = [t \in Tasks |-> <<>>]
  /\ cache = [k \in Containers |-> [p \in Providers |-> 0]]
  /\ age = [k \in Containers |-> 0]
  /\ exits = [k \in Containers |-> <<>>]
  /\ inst = <<>>
  /\ raised = [k \in Containers |-> FALSE]

-----------------------------------------------------------------------------
(* begin_call: the call container hangs on that of the session, made on    *)
(* first use, or on the root outside a session.                            *)
Begin(c) ==
  /\ pc[c] = "idle" /\ root /\ pc["boot"] = "serving"
  /\ \E h \in Where[c], w \in Wants[c] :
       /\ h = "session" => pc["leave"] = "idle"
       /\ home' = [home EXCEPT ![c] = h]
       /\ want' = [want EXCEPT ![c] = w]
       /\ session' = (session \/ h = "session")
  /\ pc' = [pc EXCEPT ![c] = "resolving"]
  /\ UNCHANGED <<root, frames, cache, age, exits, inst, raised, faults>>

(* After the shutdown there is no root to hang a call on. *)
BeginRefused(c) ==
  /\ pc[c] = "idle" /\ ~root
  /\ pc' = [pc EXCEPT ![c] = "done"]
  /\ UNCHANGED <<root, home, want, frames, cache, age, exits, inst, raised,
                 session, faults>>

-----------------------------------------------------------------------------
(* resolve()                                                               *)

Top(t) == Last(frames[t])
(* What a task resolves now, and the level that depends on it. *)
Asked(t) == IF frames[t] = <<>> THEN want[t] ELSE Top(t).todo
Demand(t) == Head(Asked(t))
Seeking(t) == /\ pc[t] = "resolving" /\ Asked(t) # <<>>
              /\ frames[t] # <<>> => Top(t).at = "deps"

(* A provider must not depend on one of a narrower level. *)
Violates(t, p) ==
  /\ frames[t] # <<>>
  /\ Rank[Level(Owner(t, p))] > Rank[Level(Top(t).k)]

Allowed(t, p) == Owners(t, p) # {} /\ ~Violates(t, p)

(* A frame whose dependencies are there asks for the lock of its provider, *)
(* _lock(provider): the object current at that time, since _locks.clear()  *)
(* makes the next one a new lock.  A transient provider has none.          *)
Ready(f) ==
  IF f.todo # <<>> THEN f
  ELSE [f EXCEPT !.at = IF IsCached(f.p) THEN "lock" ELSE "produce", !.age = age[f.k]]

(* The innermost frame of fs is answered with instance i. *)
Deliver(t, fs, i) ==
  IF fs = <<>>
  THEN /\ frames' = [frames EXCEPT ![t] = <<>>]
       /\ want' = [want EXCEPT ![t] = Tail(@)]
  ELSE /\ frames' = [frames EXCEPT ![t] = ReplaceAt(fs, Len(fs),
                       Ready([Last(fs) EXCEPT !.uses = @ \cup {i}, !.todo = Tail(@)]))]
       /\ UNCHANGED want

(* A cached provider is there already. *)
Cached(t) ==
  /\ Seeking(t) /\ Allowed(t, Demand(t)) /\ IsCached(Demand(t))
  /\ cache[Owner(t, Demand(t))][Demand(t)] # 0
  /\ Deliver(t, frames[t], cache[Owner(t, Demand(t))][Demand(t)])
  /\ UNCHANGED <<root, pc, home, cache, age, exits, inst, raised, session, faults>>

(* Otherwise its own dependencies come first, outside of any lock. *)
Descend(t) ==
  /\ Seeking(t) /\ Allowed(t, Demand(t))
  /\ IsCached(Demand(t)) => cache[Owner(t, Demand(t))][Demand(t)] = 0
  /\ frames' = [frames EXCEPT ![t] = Append(@,
       Ready([p |-> Demand(t), k |-> Owner(t, Demand(t)), todo |-> Deps[Demand(t)],
              uses |-> {}, at |-> "deps", age |-> 0]))]
  /\ UNCHANGED <<root, pc, home, want, cache, age, exits, inst, raised,
                 session, faults>>

At(t, a) == pc[t] = "resolving" /\ frames[t] # <<>> /\ Top(t).at = a

Free(f) ==
  \A t \in Tasks : \A n \in DOMAIN frames[t] :
    LET g == frames[t][n]
    IN ~(g.at = "produce" /\ g.k = f.k /\ g.p = f.p /\ g.age = f.age)

Closing(k) == \E t \in Tasks : Closes(t) = k /\ pc[t] \in {"closing", "done"}

(* _produce: the value is there, its teardown on the stack of its owner.   *)
Made(t, f) ==
  LET i == Len(inst) + 1
  IN /\ inst' = Append(inst, [p |-> f.p, k |-> f.k, uses |-> f.uses,
                              state |-> "open", late |-> Closing(f.k)])
     /\ exits' = IF f.p \in Gens THEN [exits EXCEPT ![f.k] = Append(@, i)] ELSE exits
     /\ cache' = IF IsCached(f.p) THEN [cache EXCEPT ![f.k][f.p] = i] ELSE cache
     /\ Deliver(t, Front(frames[t]), i)

(* A generator is awaited for its value, a plain function is not.          *)
Produce(t, f) ==
  IF f.p \in Gens
  THEN /\ frames' = [frames EXCEPT ![t] = ReplaceAt(@, Len(@), [f EXCEPT !.at = "produce"])]
       /\ UNCHANGED <<want, inst, exits, cache>>
  ELSE Made(t, f)

(* Variant for model checking: no second look at the cache under the lock. *)
LockedUnchecked(t, f) == Produce(t, f)

(* Under the lock the cache is looked at again.                            *)
Locked(t, f) ==
  IF cache[f.k][f.p] # 0
  THEN /\ Deliver(t, Front(frames[t]), cache[f.k][f.p])
       /\ UNCHANGED <<inst, exits, cache>>
  ELSE Produce(t, f)

TakeLock(t) ==
  /\ At(t, "lock") /\ Free(Top(t)) /\ Locked(t, Top(t))
  /\ UNCHANGED <<root, pc, home, age, raised, session, faults>>

Produced(t) ==
  /\ At(t, "produce") /\ Made(t, Top(t))
  /\ UNCHANGED <<root, pc, home, age, raised, session, faults>>

(* Variant for model checking: the lock is not given back on an error.     *)
UnwindHoldingLock(t) ==
  /\ frames' = [frames EXCEPT ![t] = SelectSeq(@, LAMBDA f : f.at = "produce")]
  /\ want' = [want EXCEPT ![t] = <<>>]
  /\ pc' = [pc EXCEPT ![t] = IF t = "boot" THEN "dead" ELSE "closing"]

(* Variant for model checking: the shim closes only after a normal return. *)
UnwindWithoutFinally(t) ==
  /\ frames' = [frames EXCEPT ![t] = <<>>] /\ want' = [want EXCEPT ![t] = <<>>]
  /\ pc' = [pc EXCEPT ![t] = IF t = "boot" THEN "dead" ELSE "done"]

(* A refused dependency, a provider that raises, or a cancelled call: the  *)
(* nested resolves unwind, the finally of the call closes its container;   *)
(* a failed start closes nothing.                                          *)
Unwind(t) ==
  /\ frames' = [frames EXCEPT ![t] = <<>>] /\ want' = [want EXCEPT ![t] = <<>>]
  /\ pc' = [pc EXCEPT ![t] = IF t = "boot" THEN "dead" ELSE "closing"]

Refused(t) ==
  /\ Seeking(t) /\ ~Allowed(t, Demand(t)) /\ Unwind(t)
  /\ UNCHANGED <<root, home, cache, age, exits, inst, raised, session, faults>>

Fails(t) ==
  /\ faults < MaxFaults /\ (At(t, "lock") \/ At(t, "produce")) /\ Unwind(t)
  /\ faults' = faults + 1
  /\ UNCHANGED <<root, home, cache, age, exits, inst, raised, session>>

-----------------------------------------------------------------------------
(* The tasks around it                                                     *)

(* Everything asked for is there.  The function runs, returns or raises,    *)
(* and its container is closed.                                            *)
Resolved(t) ==
  /\ pc[t] = "resolving" /\ want[t] = <<>> /\ frames[t] = <<>>
  /\ pc' = [pc EXCEPT ![t] = IF t = "boot" THEN "serving" ELSE "closing"]
  /\ UNCHANGED <<root, home, want, frames, cache, age, exits, inst, raised,
                 session, faults>>

(* on_chat_end: the container of the session, if there is one, is closed. *)
Leave ==
  /\ pc["leave"] = "idle" /\ pc["boot"] = "serving"
  /\ pc' = [pc EXCEPT !["leave"] = IF session THEN "closing" ELSE "done"]
  /\ UNCHANGED <<root, home, want, frames, cache, age, exits, inst, raised,
                 session, faults>>

(* The lifespan ends: no root any more, then the container of the          *)
(* application is closed.                                                  *)
Shutdown ==
  /\ pc["boot"] = "serving"
  /\ root' = FALSE /\ pc' = [pc EXCEPT !["boot"] = "closing"]
  /\ UNCHANGED <<home, want, frames, cache, age, exits, inst, raised, session,
                 faults>>

(* aclose: the teardowns run last in, first out; one that raises does not  *)
(* keep the others from running, but what follows the stack is skipped.    *)
(* The stack has popped the teardown before it awaits it. *)
Under(t) == {i \in DOMAIN inst : inst[i].k = Closes(t) /\ inst[i].state = "closing"}

Pop(k, i) == exits' = [exits EXCEPT ![k] = Front(@)] /\ i = Last(exits[k])

TeardownBegins(t) ==
  /\ pc[t] = "closing" /\ Under(t) = {} /\ exits[Closes(t)] # <<>>
  /\ \E i \in Range(exits[Closes(t)]) :
       /\ Pop(Closes(t), i) /\ inst' = [inst EXCEPT ![i].state = "closing"]
  /\ UNCHANGED <<root, pc, home, want, frames, cache, age, raised, session, faults>>

TeardownEnds(t) ==
  /\ pc[t] = "closing"
  /\ \E i \in Under(t) : inst' = [inst EXCEPT ![i].state = "closed"]
  /\ \/ UNCHANGED <<raised, faults>>
     \/ /\ faults < MaxFaults /\ faults' = faults + 1
        /\ raised' = [raised EXCEPT ![Closes(t)] = TRUE]
  /\ UNCHANGED <<root, pc, home, want, frames, cache, age, exits, session>>

Closed(t) ==
  LET k == Closes(t)
  IN /\ pc[t] = "closing" /\ Under(t) = {} /\ exits[k] = <<>>
     /\ pc' = [pc EXCEPT ![t] = "done"]
     /\ IF raised[k] THEN UNCHANGED <<cache, age>>
        ELSE /\ cache' = [cache EXCEPT ![k] = [p \in Providers |-> 0]]
             /\ age' = [age EXCEPT ![k] = @ + 1]
     /\ UNCHANGED <<root, home, want, frames, exits, inst, raised, session, faults>>

-----------------------------------------------------------------------------
Resolve(t) ==
  \/ Cached(t) \/ Descend(t) \/ TakeLock(t) \/ Produced(t) \/ Refused(t) \/ Resolved(t)

Close(t) == TeardownBegins(t) \/ TeardownEnds(t) \/ Closed(t)

(* Providers, functions and teardowns return; who begins, leaves or shuts     *)
(* down, and what goes wrong, is up to the environment.                    *)
Progress(t) == Resolve(t) \/ Close(t)

Next ==
  \/ \E c \in Calls : Begin(c) \/ BeginRefused(c)
  \/ \E t \in Tasks : Progress(t) \/ Fails(t)
  \/ Leave
  \/ Shutdown

(* The event loop runs on while any task is ready; that is enough, since no *)
(* step is ever taken back.                                                *)
Spec == Init /\ [][Next]_vars /\ WF_vars(\E t \in Tasks : Progress(t))

-----------------------------------------------------------------------------
(* A cached provider has one instance in a container however many calls    *)
(* ask for it at once (the second look under the lock of resolve), until   *)
(* the container is being closed.                                          *)
OneInstance ==
  \A i, j \in DOMAIN inst :
    /\ inst[i].p = inst[j].p /\ inst[i].k = inst[j].k /\ IsCached(inst[i].p)
    /\ ~inst[i].late /\ ~inst[j].late
    => i = j

(* When a container has been closed nothing made in it is left open, also  *)
(* when a provider raised, a call was cancelled or a teardown raised.      *)
NothingLeaks ==
  \A t \in Tasks : pc[t] = "done" =>
    \A i \in DOMAIN inst :
      inst[i].k = Closes(t) /\ inst[i].p \in Gens /\ ~inst[i].late
        => inst[i].state = "closed"

(* Every injected call ends, also when it waits for a provider another     *)
(* call is making and that one raises: the locks of resolve form no cycle  *)
(* and none stays taken.                                                   *)
CallsEnd == \A c \in Calls : (pc[c] = "resolving") ~> (pc[c] = "done")
=============================================================================
