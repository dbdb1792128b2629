---------------------------- MODULE TurnRegistry ----------------------------
(***************************************************************************)
(* Stopping a turn, at the granularity of threads: boba.cancellation.      *)
(*                                                                         *)
(* A turn owns one TurnCancellation: a flag, the reason it was set for and *)
(* the interrupters of the blocks now running under abort_with.  Two kinds *)
(* of block are registered: the turn's own body (its interrupter cancels   *)
(* the asyncio task, _task_abort) and the operations tools run inside it,  *)
(* in worker threads that may outlive the body (proc.kill, conn.cancel, an *)
(* http task).  Several threads may call cancel(): whoever pressed Stop,   *)
(* the turn itself, and a newer turn of the same chat thread.              *)
(*                                                                         *)
(* Every `with self._lock` section is one step, except that of cancel(),   *)
(* whose two assignments are seen by readers that take no lock.            *)
(***************************************************************************)
EXTENDS Naturals, FiniteSets

CONSTANTS Turn,       \* turns, each with a TurnCancellation of its own
          Op,         \* operations run by tools under abort_with
          Owner,      \* the turn whose context an operation runs in
          Thread,     \* chat threads: the registry's keys
          ThreadOf,   \* the chat thread of a turn
          Stopper,    \* threads that call TurnRegistry.stop
          NoTurn      \* no entry in the registry, no call in progress

ASSUME RegistryAssumption ==
  /\ Owner \in [Op -> Turn]
  /\ ThreadOf \in [Turn -> Thread]
  /\ Turn \cap Op = {} /\ Turn \cap Stopper = {}
  /\ NoTurn \notin Turn \cup Stopper

Reason == {"USER_STOP", "ABORTED", "SUPERSEDED", "FAILED"}
Block == Turn \cup Op
Caller == Turn \cup Stopper
TurnOf(b) == IF b \in Turn THEN b ELSE Owner[b]

VARIABLES
  active,   \* TurnRegistry._turns
  stage,    \* how far `with open(thread_id)` of a turn has come
  event,    \* TurnCancellation._event
  reason,   \* TurnCancellation._reason
  lock,     \* who holds TurnCancellation._lock between two steps
  aborts,   \* TurnCancellation._aborts, of all turns: blocks registered
  block,    \* where a block stands around abort_with
  call,     \* the cancel() in progress in each thread
  calls,    \* how often a block's interrupter has been called
  hit       \* blocks whose interrupter took effect

vars == <<active, stage, event, reason, lock, aborts, block, call, calls, hit>>
registryVars == <<active, stage>>
latchVars == <<event, reason, lock>>
blockVars == <<aborts, block>>
abortVars == <<calls, hit>>

Idle == [at |-> "idle", target |-> NoTurn, why |-> "none", todo |-> {}]
Frame == [at : {"called", "marked", "aborting"}, target : Turn,
          why : Reason, todo : SUBSET Block]
Calling(t, r) == [at |-> "called", target |-> t, why |-> r, todo |-> {}]

TypeOK ==
  /\ active \in [Thread -> Turn \cup {NoTurn}]
  /\ stage \in [Turn -> {"new", "registered", "released"}]
  /\ event \in [Turn -> BOOLEAN]
  /\ reason \in [Turn -> Reason \cup {"none"}]
  /\ lock \in [Turn -> Caller \cup {NoTurn}]
  /\ aborts \in SUBSET Block
  /\ block \in [Block -> {"idle", "checked", "inside", "leaving", "over"}]
  /\ call \in [Caller -> Frame \cup {Idle}]
  /\ calls \in [Block -> Nat]
  /\ hit \in SUBSET Block

Init ==
  /\ active = [th \in Thread |-> NoTurn]
  /\ stage = [t \in Turn |-> "new"]
  /\ event = [t \in Turn |-> FALSE]
  /\ reason = [t \in Turn |-> "none"]
  /\ lock = [t \in Turn |-> NoTurn]
  /\ aborts = {}
  /\ block = [b \in Block |-> "idle"]
  /\ call = [c \in Caller |-> Idle]
  /\ calls = [b \in Block |-> 0]
  /\ hit = {}

-----------------------------------------------------------------------------
(* TurnRegistry.open: _register on entry, _release on every way out.       *)

\* Mutation: the displaced turn is forgotten instead of being cancelled.
RegisterSilently(t) ==
  /\ stage[t] = "new"
  /\ stage' = [stage EXCEPT ![t] = "registered"]
  /\ active' = [active EXCEPT ![ThreadOf[t]] = t]
  /\ UNCHANGED <<call, latchVars, blockVars, abortVars>>

\* The newest turn takes the thread's entry; the turn it displaces is
\* cancelled by the newcomer, outside the registry's lock.
Register(t) ==
  LET stale == active[ThreadOf[t]] IN
  /\ stage[t] = "new"
  /\ stage' = [stage EXCEPT ![t] = "registered"]
  /\ active' = [active EXCEPT ![ThreadOf[t]] = t]
  /\ IF stale = NoTurn
       THEN UNCHANGED call
       ELSE call' = [call EXCEPT ![t] = Calling(stale, "SUPERSEDED")]
  /\ UNCHANGED <<latchVars, blockVars, abortVars>>

\* Mutation: the entry is deleted whoever holds it.
ReleaseBlindly(t) ==
  /\ stage[t] = "registered" /\ block[t] = "over"
  /\ stage' = [stage EXCEPT ![t] = "released"]
  /\ active' = [active EXCEPT ![ThreadOf[t]] = NoTurn]
  /\ UNCHANGED <<latchVars, blockVars, call, abortVars>>

Release(t) ==
  /\ stage[t] = "registered" /\ block[t] = "over"
  /\ stage' = [stage EXCEPT ![t] = "released"]
  /\ active' = IF active[ThreadOf[t]] = t
                 THEN [active EXCEPT ![ThreadOf[t]] = NoTurn]
                 ELSE active
  /\ UNCHANGED <<latchVars, blockVars, call, abortVars>>

(* TurnRegistry.stop: the entry is read under the lock, cancelled after it. *)
Stop(s, th) ==
  /\ call[s] = Idle /\ active[th] # NoTurn
  /\ call' = [call EXCEPT ![s] = Calling(active[th], "USER_STOP")]
  /\ UNCHANGED <<registryVars, latchVars, blockVars, abortVars>>

(* The turn's own code cancels it on the way out of its body: the task was *)
(* taken off, or it failed.                                                *)
CancelSelf(t, r) ==
  /\ block[t] = "inside"
  /\ block' = [block EXCEPT ![t] = "leaving"]
  /\ call' = [call EXCEPT ![t] = Calling(t, r)]
  /\ UNCHANGED <<registryVars, latchVars, aborts, abortVars>>

-----------------------------------------------------------------------------
(* TurnCancellation.cancel                                                 *)

Refuse(c) ==
  LET t == call[c].target IN
  /\ call[c].at = "called" /\ lock[t] = NoTurn /\ event[t]
  /\ call' = [call EXCEPT ![c] = Idle]
  /\ UNCHANGED <<registryVars, latchVars, blockVars, abortVars>>

SetReason(c) ==
  LET t == call[c].target IN
  /\ call[c].at = "called" /\ lock[t] = NoTurn /\ ~event[t]
  /\ lock' = [lock EXCEPT ![t] = c]
  /\ reason' = [reason EXCEPT ![t] = call[c].why]
  /\ call' = [call EXCEPT ![c].at = "marked"]
  /\ UNCHANGED <<registryVars, event, blockVars, abortVars>>

SetEvent(c) ==
  LET t == call[c].target IN
  /\ call[c].at = "marked"
  /\ event' = [event EXCEPT ![t] = TRUE]
  /\ lock' = [lock EXCEPT ![t] = NoTurn]
  /\ call' = [call EXCEPT ![c].at = "aborting",
                          ![c].todo = {b \in aborts : TurnOf(b) = t}]
  /\ UNCHANGED <<registryVars, reason, blockVars, abortVars>>

\* Mutation: an interrupter that raises ends the loop.
CallAbortUnprotected(c, b) ==
  /\ call[c].at = "aborting" /\ b \in call[c].todo
  /\ calls' = [calls EXCEPT ![b] = @ + 1]
  /\ \/ /\ call' = [call EXCEPT ![c].todo = @ \ {b}]
        /\ hit' = hit \cup {b}
     \/ /\ call' = [call EXCEPT ![c] = Idle]
        /\ hit' = hit
  /\ UNCHANGED <<registryVars, latchVars, blockVars>>

\* The interrupter works, or raises and the loop goes on to the next one.
CallAbort(c, b) ==
  /\ call[c].at = "aborting" /\ b \in call[c].todo
  /\ call' = [call EXCEPT ![c].todo = @ \ {b}]
  /\ calls' = [calls EXCEPT ![b] = @ + 1]
  /\ hit' \in {hit, hit \cup {b}}
  /\ UNCHANGED <<registryVars, latchVars, blockVars>>

CancelReturns(c) ==
  /\ call[c].at = "aborting" /\ call[c].todo = {}
  /\ call' = [call EXCEPT ![c] = Idle]
  /\ UNCHANGED <<registryVars, latchVars, blockVars, abortVars>>

-----------------------------------------------------------------------------
(* TurnCancellation.abort_with, around the turn's body or an operation     *)

CanEnter(b) ==
  /\ block[b] = "idle"
  /\ IF b \in Turn THEN stage[b] = "registered" /\ call[b] = Idle
                   ELSE block[Owner[b]] = "inside"

\* raise_if_cancelled: no lock is taken, nothing is registered yet.
Check(b) ==
  /\ CanEnter(b)
  /\ block' = [block EXCEPT ![b] = IF event[TurnOf(b)] THEN "over"
                                                       ELSE "checked"]
  /\ UNCHANGED <<registryVars, latchVars, aborts, call, abortVars>>

AddAbort(b) ==
  /\ block[b] = "checked" /\ lock[TurnOf(b)] = NoTurn
  /\ aborts' = aborts \cup {b}
  /\ block' = [block EXCEPT ![b] = "inside"]
  /\ UNCHANGED <<registryVars, latchVars, call, abortVars>>

\* The block ends by itself, or because its interrupter took effect.
Leave(b) ==
  /\ block[b] = "inside"
  /\ block' = [block EXCEPT ![b] = "leaving"]
  /\ UNCHANGED <<registryVars, latchVars, aborts, call, abortVars>>

DropAbort(b) ==
  /\ block[b] = "leaving" /\ lock[TurnOf(b)] = NoTurn
  /\ b \in Turn => call[b] = Idle
  /\ aborts' = aborts \ {b}
  /\ block' = [block EXCEPT ![b] = "over"]
  /\ UNCHANGED <<registryVars, latchVars, call, abortVars>>

-----------------------------------------------------------------------------
Cancelling(c) == \/ Refuse(c) \/ SetReason(c) \/ SetEvent(c)
                 \/ CancelReturns(c)
                 \/ \E b \in Block : CallAbort(c, b)

Next ==
  \/ \E t \in Turn : \/ Register(t) \/ Release(t)
                     \/ \E r \in {"ABORTED", "FAILED"} : CancelSelf(t, r)
  \/ \E s \in Stopper, th \in Thread : Stop(s, th)
  \/ \E c \in Caller : Cancelling(c)
  \/ \E b \in Block : Check(b) \/ AddAbort(b) \/ Leave(b) \/ DropAbort(b)

\* Threads in the middle of a call run on, and so does a block that entered
\* or was interrupted.  Nobody has to press Stop, open a turn or start a
\* tool, and a block nobody interrupts may run for ever.
Fairness ==
  /\ \A c \in Caller : WF_vars(Cancelling(c))
  /\ \A b \in Block : /\ WF_vars(AddAbort(b)) /\ WF_vars(DropAbort(b))
                      /\ WF_vars(b \in hit /\ Leave(b))

Spec == Init /\ [][Next]_vars
FairSpec == Spec /\ Fairness

-----------------------------------------------------------------------------
(* Properties                                                              *)

\* A thread is about to set the flag of turn t.
Condemned(t) == \E c \in Caller : /\ call[c].target = t
                                  /\ call[c].at \in {"called", "marked"}

\* Of the turns of one chat thread that have opened and not yet released,
\* only the one the registry can reach runs on: any other has been stopped
\* or its superseder is on the way to stop it (_register).
OneLiveTurn ==
  \A t \in Turn : stage[t] = "registered" /\ active[ThreadOf[t]] # t
                    => event[t] \/ Condemned(t)

\* Whoever sees the flag set finds the reason of the stop (cancel assigns it
\* first): ChatTurn labels the outcome and words the note from it.
ReasonBeforeFlag == \A t \in Turn : event[t] => reason[t] # "none"

\* A turn leaves the registry only by its own release, never by that of an
\* older turn of the thread (_release compares identities).
EntryOutlivesOlderTurns ==
  [][\A th \in Thread : active[th] # NoTurn /\ active'[th] = NoTurn
       => /\ stage[active[th]] = "registered"
          /\ stage'[active[th]] = "released"]_vars

\* cancel is idempotent under races: the first reason stands and the flag is
\* never taken back, whoever else stops the turn.
FirstReasonStands ==
  [][\A t \in Turn : event[t] => event'[t] /\ reason'[t] = reason[t]]_vars

\* However many threads stop the turn, an interrupter is called once: a
\* second task.cancel would hit the report of the stop.
InterruptedOnce == \A b \in Block : calls[b] <= 1

\* A block whose interrupter was registered when the flag was set comes to
\* its end, unless that very interrupter failed: an interrupter that raises
\* does not rob the others, and cancel() keeps no lock the block needs.
StoppedBlockEnds ==
  \A b \in Block : (\E c \in Caller : b \in call[c].todo)
                      ~> (block[b] = "over" \/ (calls[b] = 1 /\ b \notin hit))

=============================================================================
