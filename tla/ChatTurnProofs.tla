--------------------------- MODULE ChatTurnProofs ---------------------------
(***************************************************************************)
(* Theorems about the turns of a chat thread and the tabs that show it: a  *)
(* turn leaves no tab loading, for any number of turns of a thread and any *)
(* tabs that return to it, whatever is stopped, cancelled, superseded or   *)
(* fails in between.                                                       *)
(***************************************************************************)
EXTENDS ChatTurn, TLAPS

-----------------------------------------------------------------------------

\* A turn between its start and its way out, on which it leaves _ACTIVE.
Live == Inside \cup {"closing"}
Place == Live \cup {"new", "finishing", "done"}

TurnTyped ==
  /\ pc \in [Turn -> Place]
  /\ ending \in [Turn -> {"none", "sending", "sent"}]
  /\ active \in Turn \cup {NoTurn}
  /\ loading \subseteq Tab /\ resuming \subseteq Tab

\* on_chat_resume keeps the indicator only for a turn that has still to end.
ActiveIsLive == active # NoTurn => pc[active] \in Live

\* Whatever tab shows the indicator, somebody is about to take it off: the tab's
\* own wrapper, or a task_end that is to come or on its way.
SomebodyEndsIt ==
  \/ loading \subseteq resuming
  \/ \E t \in Turn : pc[t] \in Live \/ ending[t] = "sending"

LoadingInv == TurnTyped /\ ActiveIsLive /\ SomebodyEndsIt

-----------------------------------------------------------------------------
\* At first nothing is shown.
LEMMA LoadingInvInit == Init => LoadingInv
  BY ChatAssumption DEF Init, LoadingInv, TurnTyped, ActiveIsLive, SomebodyEndsIt, Place

\* The way out of a turn leaves a task_end on its way.
LEMMA ExitKeeps ==
  ASSUME LoadingInv, NEW t \in Turn, Exit(t), loading' \subseteq Tab, resuming' = resuming
  PROVE  LoadingInv'
<1> USE DEF LoadingInv
<1>1. TurnTyped'
  BY ChatAssumption DEF Exit, TurnTyped, Place
<1>2. ActiveIsLive'
  BY ChatAssumption DEF Exit, TurnTyped, ActiveIsLive
<1>3. ending'[t] = "sending"
  BY DEF Exit, TurnTyped
<1> QED
  BY <1>1, <1>2, <1>3 DEF SomebodyEndsIt

\* A turn that goes on among the awaits before its way out.
LEMMA LiveKeeps ==
  ASSUME LoadingInv, NEW t \in Turn, NEW place \in Live, pc' = [pc EXCEPT ![t] = place],
         active' \in {active, t}, UNCHANGED <<ending, resuming>>, loading' \subseteq Tab
  PROVE  LoadingInv'
<1> USE DEF LoadingInv
<1>1. pc'[t] = place /\ \A u \in Turn : u # t => pc'[u] = pc[u]
  BY DEF TurnTyped
<1>2. TurnTyped'
  BY DEF TurnTyped, Place
<1>3. ActiveIsLive'
  BY <1>1 DEF TurnTyped, ActiveIsLive
<1> QED
  BY <1>1, <1>2, <1>3 DEF SomebodyEndsIt

\* A step of something the indicator has nothing to do with.
LEMMA RestKeeps ==
  ASSUME LoadingInv, UNCHANGED <<pc, active, ending, loading, resuming>>
  PROVE  LoadingInv'
  BY DEF LoadingInv, TurnTyped, ActiveIsLive, SomebodyEndsIt

\* A turn whose way out is behind it ends.
LEMMA FinishedKeeps ==
  ASSUME LoadingInv, NEW t \in Turn, Finished(t)
  PROVE  LoadingInv'
<1> USE DEF LoadingInv
<1>1. /\ pc[t] = "finishing" /\ pc' = [pc EXCEPT ![t] = "done"]
      /\ UNCHANGED <<active, ending, loading, resuming>>
  BY DEF Finished, places, screen
<1>2. "finishing" \notin Live
  BY DEF Live, Inside
<1>3. TurnTyped'
  BY <1>1 DEF TurnTyped, Place
<1>4. \A u \in Turn : pc[u] \in Live => pc'[u] \in Live
  BY <1>1, <1>2 DEF TurnTyped
<1> QED
  BY <1>1, <1>3, <1>4 DEF TurnTyped, ActiveIsLive, SomebodyEndsIt

\* A task_end takes the indicator off every tab.
LEMMA TaskEndKeeps ==
  ASSUME LoadingInv, NEW t \in Turn, TaskEndSent(t)
  PROVE  LoadingInv'
  BY DEF LoadingInv, TaskEndSent, places, TurnTyped, ActiveIsLive, SomebodyEndsIt

\* A tab shows the indicator while it returns, and keeps it for a live turn only.
LEMMA ResumeKeeps ==
  ASSUME LoadingInv, NEW b \in Tab, ResumeTab(b) \/ TabResumed(b)
  PROVE  LoadingInv'
<1> USE DEF LoadingInv
<1>1. UNCHANGED <<pc, active, ending>> /\ TurnTyped' /\ ActiveIsLive'
  BY DEF ResumeTab, TabResumed, places, TurnTyped, ActiveIsLive
<1>2. CASE \E t \in Turn : pc[t] \in Live \/ ending[t] = "sending"
  BY <1>1, <1>2 DEF SomebodyEndsIt
<1>3. CASE ~ \E t \in Turn : pc[t] \in Live \/ ending[t] = "sending"
  <2>1. active = NoTurn
    BY <1>3 DEF TurnTyped, ActiveIsLive
  <2>2. loading \subseteq resuming
    BY <1>3 DEF SomebodyEndsIt
  <2>3. loading' \subseteq resuming'
    BY <2>1, <2>2 DEF ResumeTab, TabResumed
  <2> QED
    BY <1>1, <2>3 DEF SomebodyEndsIt
<1> QED
  BY <1>2, <1>3

-----------------------------------------------------------------------------
\* Every step keeps the invariant.
LEMMA LoadingInvStep == LoadingInv /\ [Next]_vars => LoadingInv'
<1> SUFFICES ASSUME LoadingInv, [Next]_vars PROVE LoadingInv'
  OBVIOUS
<1> USE DEF places, signals, screen, bounds
<1>1. loading \subseteq Tab
  BY DEF LoadingInv, TurnTyped
<1>2. CASE StopPressed
  BY <1>2, RestKeeps DEF StopPressed
<1>3. ASSUME NEW t \in Turn, TaskCancel(t) \/ TaskCancelQueued(t) \/ ReportStep(t)
      PROVE  LoadingInv'
  BY <1>3, RestKeeps DEF TaskCancel, TaskCancelQueued, ReportStep, ReportDrawn, ReportRecorded
<1>4. ASSUME NEW t \in Turn, Start(t) PROVE LoadingInv'
  <2>1. /\ pc' = [pc EXCEPT ![t] = "starting"] /\ "starting" \in Live /\ active' = t
        /\ UNCHANGED <<ending, resuming, loading>>
    BY <1>4 DEF Start, Live, Inside
  <2> QED
    BY <1>1, <2>1, LiveKeeps
<1>5. ASSUME NEW t \in Turn, Started(t) PROVE LoadingInv'
  <2>1. /\ pc' = [pc EXCEPT ![t] = "streaming"] /\ "streaming" \in Live /\ loading' = Tab
        /\ UNCHANGED <<active, ending, resuming>>
    BY <1>5 DEF Started, Live, Inside
  <2> QED
    BY <2>1, LiveKeeps
<1>6. ASSUME NEW t \in Turn, StreamCancelled(t) \/ StreamStopped(t) PROVE LoadingInv'
  <2>1. /\ pc' = [pc EXCEPT ![t] = "reporting"] /\ "reporting" \in Live
        /\ UNCHANGED <<active, ending, resuming, loading>>
    BY <1>6 DEF StreamCancelled, StreamStopped, BeginReport, Live, Inside
  <2> QED
    BY <1>1, <2>1, LiveKeeps
<1>7. ASSUME NEW t \in Turn, StreamFails(t) \/ StreamEnds(t) PROVE LoadingInv'
  <2>1. PICK place \in {"failing", "closing"} : pc' = [pc EXCEPT ![t] = place]
    BY <1>7 DEF StreamFails, StreamEnds
  <2>2. place \in Live /\ UNCHANGED <<active, ending, resuming, loading>>
    BY <1>7, <2>1 DEF StreamFails, StreamEnds, Live, Inside
  <2> QED
    BY <1>1, <2>1, <2>2, LiveKeeps
<1>8. ASSUME NEW t \in Turn, Unwind(t) PROVE LoadingInv'
  BY <1>1, <1>8, ExitKeeps DEF Unwind
<1>9. ASSUME NEW t \in Turn, Reported(t) \/ AnswerClosed(t) \/ FailureRecorded(t)
      PROVE  LoadingInv'
  BY <1>1, <1>9, ExitKeeps DEF Reported, AnswerClosed, FailureRecorded
<1>10. ASSUME NEW t \in Turn, FailureDrawn(t) PROVE LoadingInv'
  <2>1. UNCHANGED <<resuming, loading>>
    BY <1>10 DEF FailureDrawn
  <2>2. CASE Exit(t)
    BY <1>1, <2>1, <2>2, ExitKeeps
  <2>3. CASE ~Exit(t)
    <3>1. /\ pc' = [pc EXCEPT ![t] = "recording"] /\ "recording" \in Live
          /\ UNCHANGED <<active, ending>>
      BY <1>10, <2>3 DEF FailureDrawn, Live, Inside
    <3> QED
      BY <1>1, <2>1, <3>1, LiveKeeps
  <2> QED
    BY <2>2, <2>3
<1>11. CASE UNCHANGED vars
  BY <1>11, RestKeeps DEF vars
<1> QED
  BY <1>2, <1>3, <1>4, <1>5, <1>6, <1>7, <1>8, <1>9, <1>10, <1>11,
     FinishedKeeps, TaskEndKeeps, ResumeKeeps DEF Next, TurnStep

\* Once the turns are over and the tabs settled, no tab shows the indicator:
\* the last task_end comes after its turn has left _ACTIVE, and a tab that
\* returns keeps the indicator only for a turn that is still there.
THEOREM NoTabIsLeftLoading == Spec => []NoStuckLoading
<1>1. LoadingInv => NoStuckLoading
  BY DEF LoadingInv, SomebodyEndsIt, NoStuckLoading, Live, Inside
<1> QED
  BY <1>1, LoadingInvInit, LoadingInvStep, PTL DEF Spec
=============================================================================
