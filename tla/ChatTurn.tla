------------------------------ MODULE ChatTurn ------------------------------
(***************************************************************************)
(* The turns of one chat thread on the event loop: ChatTurn.run and what   *)
(* stops it.                                                               *)
(*                                                                         *)
(* A turn is an asyncio task.  Between two awaits it runs alone, so a step *)
(* goes from one await to the next; pc names the await it is suspended in. *)
(* A cancellation reaches the task in two hops: cancel() calls the task's  *)
(* interrupter, which queues task.cancel on the loop (soon); once that ran *)
(* the next resumption of the task raises CancelledError (thrown).  chainlit *)
(* takes the task off on its own as well (TaskCancel).  The report of a    *)
(* stop and the closing task_end run as tasks of their own, shielded from  *)
(* both.  Calls of TurnRegistry are steps of the loop's thread here; the   *)
(* races between threads are TurnRegistry's.                               *)
(***************************************************************************)
EXTENDS Naturals, Sequences

CONSTANTS Turn,        \* turns (messages of the user) of one chat thread
          Tab,         \* browser tabs open on the thread
          NoTurn,      \* no turn in the registry
          MaxCancels,  \* how often chainlit cancels a task (bound)
          MaxFaults    \* how often a write to the history fails (bound)

ASSUME ChatAssumption ==
  /\ NoTurn \notin Turn
  /\ MaxCancels \in Nat /\ MaxFaults \in Nat

VARIABLES
  pc,        \* the await a turn is suspended in
  outcome,   \* ChatTurn._outcome
  reason,    \* TurnCancellation: flag and reason, "none" while not stopped
  soon,      \* task.cancel is queued by call_soon_threadsafe
  thrown,    \* the task's next step raises CancelledError
  registry,  \* TurnRegistry._turns of this thread
  active,    \* ChatTurn._ACTIVE of this thread
  report,    \* the task of _stopped
  notes,     \* what the turn has left in the agent's history (_remember)
  ending,    \* the task of emitter.task_end
  loading,   \* tabs that show the loading indicator
  resuming,  \* tabs inside the wrapper of on_chat_resume
  cancels, faults

vars == <<pc, outcome, reason, soon, thrown, registry, active, report,
          notes, ending, loading, resuming, cancels, faults>>
places == <<registry, active>>
signals == <<reason, soon>>
screen == <<loading, resuming>>
bounds == <<cancels, faults>>

\* Inside `with TurnRegistry.open`: the task's interrupter is registered.
Inside == {"starting", "streaming", "reporting", "failing", "recording"}

Init ==
  /\ pc = [t \in Turn |-> "new"]
  /\ outcome = [t \in Turn |-> "ok"] /\ reason = [t \in Turn |-> "none"]
  /\ soon = [t \in Turn |-> FALSE] /\ thrown = [t \in Turn |-> FALSE]
  /\ registry = NoTurn /\ active = NoTurn
  /\ report = [t \in Turn |-> "none"] /\ notes = [t \in Turn |-> <<>>]
  /\ ending = [t \in Turn |-> "none"]
  /\ loading = {} /\ resuming = {} /\ cancels = 0 /\ faults = 0

-----------------------------------------------------------------------------
(* Cancellation                                                            *)

\* Mutation: the flag goes up but the task's interrupter is not called.
CancelWithoutAbort(t, r) ==
  /\ reason' = [reason EXCEPT ![t] = IF reason[t] = "none" THEN r ELSE @]
  /\ UNCHANGED soon

\* TurnCancellation.cancel of a turn whose body is registered.
Cancel(t, r) ==
  IF reason[t] # "none"
    THEN UNCHANGED signals
    ELSE /\ reason' = [reason EXCEPT ![t] = r]
         /\ soon' = [soon EXCEPT ![t] = TRUE]

\* on_stop: the Stop button of any tab.
StopPressed ==
  /\ registry # NoTurn
  /\ Cancel(registry, "USER_STOP")
  /\ UNCHANGED <<pc, outcome, thrown, places, report, notes, ending,
                 screen, bounds>>

\* chainlit takes the task of the turn off.
TaskCancel(t) ==
  /\ pc[t] \notin {"new", "done"} /\ cancels < MaxCancels
  /\ cancels' = cancels + 1
  /\ thrown' = [thrown EXCEPT ![t] = TRUE]
  /\ UNCHANGED <<pc, outcome, signals, places, report, notes, ending,
                 screen, faults>>

\* The loop runs the queued task.cancel; a finished task ignores it.
TaskCancelQueued(t) ==
  /\ soon[t]
  /\ soon' = [soon EXCEPT ![t] = FALSE]
  /\ thrown' = [thrown EXCEPT ![t] = pc[t] # "done"]
  /\ UNCHANGED <<pc, outcome, reason, places, report, notes, ending,
                 screen, bounds>>

-----------------------------------------------------------------------------
(* The way out: `with open` ends, then the finally of run                  *)

\* Mutation: the turn stays in _ACTIVE until the indicator is off.
ExitStillActive(t) ==
  /\ pc' = [pc EXCEPT ![t] = "finishing"]
  /\ registry' = IF registry = t THEN NoTurn ELSE registry
  /\ ending' = [ending EXCEPT ![t] = "sending"]
  /\ UNCHANGED active

Exit(t) ==
  /\ pc' = [pc EXCEPT ![t] = "finishing"]
  /\ registry' = IF registry = t THEN NoTurn ELSE registry
  /\ active' = IF active = t THEN NoTurn ELSE active
  /\ ending' = [ending EXCEPT ![t] = "sending"]

\* CancelledError at an await outside the try of _run (task_start and
\* close_answer), or while the report or the failure is being written.
Unwind(t) ==
  /\ thrown[t] /\ pc[t] \in (Inside \ {"streaming"}) \cup {"closing"}
  /\ thrown' = [thrown EXCEPT ![t] = FALSE]
  /\ Exit(t)
  \* task_start may have reached the tabs before the cancellation
  /\ loading' \in IF pc[t] = "starting" THEN {loading, Tab} ELSE {loading}
  \* and so may have the failure's note the history
  /\ notes' \in IF pc[t] = "recording"
                  THEN {notes, [notes EXCEPT ![t] = Append(@, "error")]}
                  ELSE {notes}
  /\ UNCHANGED <<outcome, signals, report, resuming, bounds>>

-----------------------------------------------------------------------------
(* ChatTurn.run and _run, from await to await                              *)

Start(t) ==
  /\ pc[t] = "new"
  /\ pc' = [pc EXCEPT ![t] = "starting"]
  /\ active' = t /\ registry' = t
  /\ IF registry = NoTurn THEN UNCHANGED signals
                          ELSE Cancel(registry, "SUPERSEDED")
  /\ UNCHANGED <<outcome, thrown, report, notes, ending, screen, bounds>>

Started(t) ==
  /\ pc[t] = "starting" /\ ~thrown[t]
  /\ pc' = [pc EXCEPT ![t] = "streaming"]
  /\ loading' = Tab
  /\ UNCHANGED <<outcome, signals, thrown, places, report, notes, ending,
                 resuming, bounds>>

\* `except CancelledError` and `except ToolStopped`: the report starts as a
\* task of its own and the turn waits for it under a shield.
BeginReport(t) ==
  /\ pc' = [pc EXCEPT ![t] = "reporting"]
  /\ outcome' = [outcome EXCEPT ![t] = reason'[t]]
  /\ report' = [report EXCEPT ![t] = "drawing"]
  /\ UNCHANGED <<places, notes, ending, screen, bounds>>

StreamCancelled(t) ==
  /\ pc[t] = "streaming" /\ thrown[t]
  /\ thrown' = [thrown EXCEPT ![t] = FALSE]
  /\ Cancel(t, "ABORTED")
  /\ BeginReport(t)

\* A chunk arrives, or a tool gives up, after the flag went up.
StreamStopped(t) ==
  /\ pc[t] = "streaming" /\ ~thrown[t] /\ reason[t] # "none"
  /\ UNCHANGED <<signals, thrown>>
  /\ BeginReport(t)

StreamFails(t) ==
  /\ pc[t] = "streaming" /\ ~thrown[t]
  /\ pc' = [pc EXCEPT ![t] = "failing"]
  /\ outcome' = [outcome EXCEPT ![t] = "FAILED"]
  /\ Cancel(t, "FAILED")
  /\ UNCHANGED <<thrown, places, report, notes, ending, screen, bounds>>

StreamEnds(t) ==
  /\ pc[t] = "streaming" /\ ~thrown[t]
  /\ pc' = [pc EXCEPT ![t] = "closing"]
  /\ registry' = IF registry = t THEN NoTurn ELSE registry
  /\ UNCHANGED <<outcome, signals, thrown, active, report, notes, ending,
                 screen, bounds>>

\* The shielded report is over.  Whether _run then returns (ToolStopped), or
\* raises CancelledError or what broke the report, the way out is the same.
Reported(t) ==
  /\ pc[t] = "reporting" /\ ~thrown[t]
  /\ report[t] \in {"finished", "broken"}
  /\ Exit(t)
  /\ UNCHANGED <<outcome, signals, thrown, report, notes, screen, bounds>>

\* The message of the failure is shown, or that fails too.
FailureDrawn(t) ==
  /\ pc[t] = "failing" /\ ~thrown[t]
  /\ \/ /\ pc' = [pc EXCEPT ![t] = "recording"]
        /\ UNCHANGED <<places, ending, faults>>
     \/ /\ faults < MaxFaults /\ faults' = faults + 1
        /\ Exit(t)
  /\ UNCHANGED <<outcome, signals, thrown, report, notes, screen, cancels>>

FailureRecorded(t) ==
  /\ pc[t] = "recording" /\ ~thrown[t]
  /\ \/ /\ notes' = [notes EXCEPT ![t] = Append(@, "error")]
        /\ Exit(t) /\ UNCHANGED faults
     \/ /\ faults < MaxFaults /\ faults' = faults + 1
        /\ Exit(t) /\ UNCHANGED notes
  /\ UNCHANGED <<outcome, signals, thrown, report, screen, cancels>>

AnswerClosed(t) ==
  /\ pc[t] = "closing" /\ ~thrown[t]
  /\ Exit(t)
  /\ UNCHANGED <<outcome, signals, thrown, report, notes, screen, bounds>>

\* _finish_ui ends with the task_end it waits for, or swallows a cancellation.
Finished(t) ==
  /\ pc[t] = "finishing" /\ (thrown[t] \/ ending[t] = "sent")
  /\ pc' = [pc EXCEPT ![t] = "done"]
  /\ thrown' = [thrown EXCEPT ![t] = FALSE]
  /\ UNCHANGED <<outcome, signals, places, report, notes, ending, screen,
                 bounds>>

-----------------------------------------------------------------------------
(* The detached tasks                                                      *)

\* _draw_stop: a feed that is gone is no failure.
ReportDrawn(t) ==
  /\ report[t] = "drawing"
  /\ report' = [report EXCEPT ![t] = "recording"]
  /\ UNCHANGED <<pc, outcome, signals, thrown, places, notes, ending,
                 screen, bounds>>

ReportRecorded(t) ==
  /\ report[t] = "recording"
  /\ \/ /\ report' = [report EXCEPT ![t] = "finished"]
        /\ notes' = [notes EXCEPT ![t] = Append(@, "stopped")]
        /\ UNCHANGED faults
     \/ /\ faults < MaxFaults /\ faults' = faults + 1
        /\ report' = [report EXCEPT ![t] = "broken"]
        /\ UNCHANGED notes
  /\ UNCHANGED <<pc, outcome, signals, thrown, places, ending, screen,
                 cancels>>

TaskEndSent(t) ==
  /\ ending[t] = "sending"
  /\ ending' = [ending EXCEPT ![t] = "sent"]
  /\ loading' = {}
  /\ UNCHANGED <<pc, outcome, signals, thrown, places, report, notes,
                 resuming, bounds>>

(* on_chat_resume in a tab that returns to the thread: chainlit's wrapper  *)
(* sends task_start before the handler and task_end after it, unless the   *)
(* handler found a live turn and muted it (keep_loading).                  *)
ResumeTab(b) ==
  /\ b \notin resuming
  /\ resuming' = resuming \cup {b} /\ loading' = loading \cup {b}
  /\ UNCHANGED <<pc, outcome, signals, thrown, places, report, notes,
                 ending, bounds>>

TabResumed(b) ==
  /\ b \in resuming
  /\ resuming' = resuming \ {b}
  /\ loading' = IF active = NoTurn THEN loading \ {b} ELSE loading
  /\ UNCHANGED <<pc, outcome, signals, thrown, places, report, notes,
                 ending, bounds>>

-----------------------------------------------------------------------------
\* Steps the loop owes a task that is ready to run.  The stream itself may
\* stay silent for ever, so what it brings is not owed.
TurnStep(t) ==
  \/ Started(t) \/ StreamCancelled(t) \/ Unwind(t) \/ Reported(t)
  \/ FailureDrawn(t) \/ FailureRecorded(t) \/ AnswerClosed(t) \/ Finished(t)
ReportStep(t) == ReportDrawn(t) \/ ReportRecorded(t)

Next ==
  \/ StopPressed
  \/ \E t \in Turn : \/ Start(t) \/ TurnStep(t) \/ ReportStep(t) \/ TaskEndSent(t)
                     \/ StreamStopped(t) \/ StreamFails(t) \/ StreamEnds(t)
                     \/ TaskCancel(t) \/ TaskCancelQueued(t)
  \/ \E b \in Tab : ResumeTab(b) \/ TabResumed(b)

Fairness ==
  /\ \A t \in Turn : /\ WF_vars(TurnStep(t)) /\ WF_vars(ReportStep(t))
                     /\ WF_vars(TaskEndSent(t)) /\ WF_vars(TaskCancelQueued(t))
  /\ \A b \in Tab : WF_vars(TabResumed(b))

Spec == Init /\ [][Next]_vars
FairSpec == Spec /\ Fairness

-----------------------------------------------------------------------------
(* Properties                                                              *)

\* Once every turn is over and every tab settled no tab keeps the loading
\* indicator: the last task_end comes after the turn left _ACTIVE.
NoStuckLoading ==
  (/\ \A t \in Turn : pc[t] \in {"new", "done"} /\ ending[t] # "sending"
   /\ resuming = {}) => loading = {}

\* A stopped turn comes to its end, however its stream behaves.
StoppedTurnEnds == \A t \in Turn : reason[t] # "none" ~> pc[t] = "done"

=============================================================================
