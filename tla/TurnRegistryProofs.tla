------------------------- MODULE TurnRegistryProofs -------------------------
(***************************************************************************)
(* Machine-checked proofs about TurnRegistry, for any number of turns,     *)
(* operations, chat threads and threads pressing Stop.                     *)
(***************************************************************************)
EXTENDS TurnRegistry, TLAPS

USE RegistryAssumption DEF Block, Caller, TurnOf, Reason

\* What a turn's own thread may be doing at each stage of its life: it calls
\* cancel() for the displaced turn before its body, for itself after it.
OwnThreadFree ==
  \A t \in Turn :
    /\ stage[t] = "new" => call[t] = Idle /\ block[t] = "idle"
    /\ block[t] \in {"checked", "inside"} => call[t] = Idle

\* What is known of a flag while somebody sets it: the lock is held from the
\* reason to the flag, and interrupters are called only after the flag.
FlagProtocol ==
  \A c \in Caller :
    /\ call[c].at = "marked" => /\ lock[call[c].target] = c
                                /\ ~event[call[c].target]
                                /\ reason[call[c].target] # "none"
    /\ call[c].at = "aborting" => /\ event[call[c].target]
                                  /\ \A b \in call[c].todo :
                                       /\ TurnOf(b) = call[c].target
                                       /\ calls[b] = 0

\* Only the thread that raised the flag of a turn goes through its
\* interrupters.
OneAborter ==
  \A c, d \in Caller :
    (/\ call[c].at = "aborting" /\ call[d].at = "aborting"
     /\ call[c].target = call[d].target) => c = d

\* No interrupter has been called before the flag is up.
QuietBeforeFlag == \A b \in Block : ~event[TurnOf(b)] => calls[b] = 0

\* The registry maps a chat thread to a turn of that thread that is open.
EntryIsOpen ==
  \A th \in Thread : active[th] # NoTurn
    => ThreadOf[active[th]] = th /\ stage[active[th]] = "registered"

IInv == /\ TypeOK /\ OwnThreadFree /\ FlagProtocol /\ OneAborter
        /\ QuietBeforeFlag /\ EntryIsOpen /\ OneLiveTurn /\ ReasonBeforeFlag /\ InterruptedOnce

-----------------------------------------------------------------------------
\* A thread that is not in cancel() has no frame.
LEMMA IdleFrame == /\ Idle.at = "idle" /\ Idle.target = NoTurn
                   /\ Idle.todo = {} /\ Idle \notin Frame
  BY DEF Idle, Frame

\* A call of cancel() begins with a frame that has called nothing yet.
LEMMA CallingFrame ==
  ASSUME NEW t \in Turn, NEW r \in Reason
  PROVE  /\ Calling(t, r) \in Frame
         /\ Calling(t, r).at = "called"
         /\ Calling(t, r).target = t
         /\ Calling(t, r).todo = {}
  BY DEF Calling, Frame

\* The initial state has the right types.
LEMMA TypeInit == Init => TypeOK
  BY DEF Init, TypeOK

\* Every step keeps the types: one case per action.
LEMMA TypeStep == TypeOK /\ [Next]_vars => TypeOK'
  <1> SUFFICES ASSUME TypeOK, [Next]_vars PROVE TypeOK'
    OBVIOUS
  <1> USE DEF TypeOK, registryVars, latchVars, blockVars, abortVars
  <1>1. ASSUME NEW t \in Turn, Register(t) PROVE TypeOK'
    <2>1. active[ThreadOf[t]] # NoTurn
            => Calling(active[ThreadOf[t]], "SUPERSEDED") \in Frame
      BY CallingFrame
    <2>2. QED BY <1>1, <2>1 DEF Register
  <1>2. ASSUME NEW t \in Turn, Release(t) PROVE TypeOK'
    BY <1>2 DEF Release
  <1>3. ASSUME NEW t \in Turn, NEW r \in {"ABORTED", "FAILED"}, CancelSelf(t, r)
        PROVE TypeOK'
    <2>1. Calling(t, r) \in Frame
      BY CallingFrame
    <2>2. QED BY <1>3, <2>1 DEF CancelSelf
  <1>4. ASSUME NEW s \in Stopper, NEW th \in Thread, Stop(s, th) PROVE TypeOK'
    <2>1. Calling(active[th], "USER_STOP") \in Frame
      BY <1>4, CallingFrame DEF Stop
    <2>2. QED BY <1>4, <2>1 DEF Stop
  <1>5. ASSUME NEW c \in Caller, Cancelling(c) PROVE TypeOK'
    <2>1. CASE Refuse(c)
      BY <2>1 DEF Refuse
    <2>2. CASE SetReason(c)
      BY <2>2, IdleFrame DEF SetReason, Frame
    <2>3. CASE SetEvent(c)
      BY <2>3, IdleFrame DEF SetEvent, Frame
    <2>4. CASE CancelReturns(c)
      BY <2>4 DEF CancelReturns
    <2>5. ASSUME NEW b \in Block, CallAbort(c, b) PROVE TypeOK'
      BY <2>5, IdleFrame DEF CallAbort, Frame
    <2>6. QED BY <1>5, <2>1, <2>2, <2>3, <2>4, <2>5 DEF Cancelling
  <1>6. ASSUME NEW b \in Block, Check(b) \/ AddAbort(b) \/ Leave(b) \/ DropAbort(b)
        PROVE TypeOK'
    BY <1>6 DEF Check, AddAbort, Leave, DropAbort
  <1>7. CASE UNCHANGED vars
    BY <1>7 DEF vars
  <1>8. QED BY <1>1, <1>2, <1>3, <1>4, <1>5, <1>6, <1>7 DEF Next

\* Type correctness of the registry and of every cancellation it reaches.
THEOREM TypeCorrect == Spec => []TypeOK
  BY TypeInit, TypeStep, PTL DEF Spec

-----------------------------------------------------------------------------
(* The inductive invariant.                                                *)

\* The initial state satisfies the inductive invariant.
LEMMA InvInit == Init => IInv
  <1> SUFFICES ASSUME Init PROVE IInv
    OBVIOUS
  <1>1. \A c \in Caller : call[c] = Idle /\ call[c].at = "idle"
    BY IdleFrame DEF Init
  <1>2. FlagProtocol /\ OneAborter /\ QuietBeforeFlag
    BY <1>1 DEF Init, FlagProtocol, OneAborter, QuietBeforeFlag
  <1>3. OwnThreadFree
    BY DEF Init, OwnThreadFree
  <1>4. EntryIsOpen /\ OneLiveTurn
    BY DEF Init, EntryIsOpen, OneLiveTurn
  <1>5. ReasonBeforeFlag /\ InterruptedOnce
    BY DEF Init, ReasonBeforeFlag, InterruptedOnce
  <1>6. QED BY TypeInit, <1>2, <1>3, <1>4, <1>5 DEF IInv

\* Every step keeps the inductive invariant: one case per action.
LEMMA InvStep == IInv /\ [Next]_vars => IInv'
  <1> SUFFICES ASSUME IInv, [Next]_vars PROVE IInv'
    OBVIOUS
  <1>0. TypeOK'
    BY TypeStep DEF IInv
  <1> USE <1>0, IdleFrame
      DEF IInv, TypeOK, registryVars, latchVars, blockVars, abortVars
  <1> DEFINE Others == OwnThreadFree /\ FlagProtocol /\ OneAborter /\ QuietBeforeFlag /\ EntryIsOpen
                       /\ OneLiveTurn /\ ReasonBeforeFlag /\ InterruptedOnce
  <1>1. ASSUME NEW t \in Turn, Register(t) PROVE Others'
    <2> DEFINE stale == active[ThreadOf[t]]
    <2>1. /\ call[t] = Idle /\ block[t] = "idle" /\ t # NoTurn /\ t \in Caller
          /\ stage' = [stage EXCEPT ![t] = "registered"]
          /\ active' = [active EXCEPT ![ThreadOf[t]] = t]
      BY <1>1 DEF Register, OwnThreadFree
    <2>2. \A c \in Caller : c # t => call'[c] = call[c]
      BY <1>1 DEF Register
    <2>3. \/ stale = NoTurn /\ call'[t] = Idle
          \/ /\ stale \in Turn /\ call'[t].at = "called"
             /\ call'[t].target = stale /\ call'[t].todo = {}
      BY <1>1, <2>1, CallingFrame DEF Register
    <2>4. UNCHANGED <<latchVars, blockVars, abortVars>>
      BY <1>1 DEF Register
    <2>5. OwnThreadFree'
      BY <2>1, <2>2, <2>4, <1>1 DEF OwnThreadFree, Register
    <2>6. FlagProtocol'
      BY <2>1, <2>2, <2>3, <2>4 DEF FlagProtocol
    <2>7. OneAborter' /\ QuietBeforeFlag'
      BY <2>1, <2>2, <2>3, <2>4 DEF OneAborter, QuietBeforeFlag
    <2>8. EntryIsOpen'
      BY <2>1 DEF EntryIsOpen
    <2>9. OneLiveTurn'
      <3> SUFFICES ASSUME NEW u \in Turn, stage'[u] = "registered",
                          active'[ThreadOf[u]] # u
                   PROVE  event'[u] \/ Condemned(u)'
        BY DEF OneLiveTurn
      <3>1. u # t
        BY <2>1
      <3>2. CASE u = stale
        BY <3>2, <2>1, <2>3 DEF Condemned
      <3>3. CASE u # stale
        <4>1. event[u] \/ Condemned(u)
          BY <3>1, <3>3, <2>1 DEF OneLiveTurn
        <4>2. QED BY <4>1, <2>1, <2>2, <2>4 DEF Condemned
      <3>4. QED BY <3>2, <3>3
    <2>10. ReasonBeforeFlag' /\ InterruptedOnce'
      BY <2>4 DEF ReasonBeforeFlag, InterruptedOnce
    <2>11. QED BY <2>5, <2>6, <2>7, <2>8, <2>9, <2>10
  <1>2. ASSUME NEW t \in Turn, Release(t) PROVE Others'
    <2>1. EntryIsOpen'
      BY <1>2 DEF Release, EntryIsOpen
    <2>2. OneLiveTurn'
      BY <1>2 DEF Release, OneLiveTurn, Condemned
    <2>3. OwnThreadFree'
      BY <1>2 DEF Release, OwnThreadFree
    <2>4. FlagProtocol' /\ OneAborter' /\ QuietBeforeFlag' /\ ReasonBeforeFlag' /\ InterruptedOnce'
      BY <1>2 DEF Release, FlagProtocol, OneAborter, QuietBeforeFlag, ReasonBeforeFlag,
                  InterruptedOnce
    <2>5. QED BY <2>1, <2>2, <2>3, <2>4
  <1>3. ASSUME NEW c \in Caller, NEW u \in Turn, NEW r \in Reason,
               call[c] = Idle, call' = [call EXCEPT ![c] = Calling(u, r)],
               UNCHANGED <<registryVars, latchVars, aborts, abortVars>>
        PROVE  /\ FlagProtocol' /\ OneAborter' /\ QuietBeforeFlag' /\ EntryIsOpen'
               /\ OneLiveTurn' /\ ReasonBeforeFlag' /\ InterruptedOnce'
    <2>1. /\ call'[c].at = "called" /\ call'[c].target = u
          /\ call'[c].todo = {}
          /\ \A d \in Caller : d # c => call'[d] = call[d]
      BY <1>3, CallingFrame
    <2>2. FlagProtocol' /\ OneAborter' /\ QuietBeforeFlag'
      BY <1>3, <2>1 DEF FlagProtocol, OneAborter, QuietBeforeFlag
    <2>3. OneLiveTurn'
      BY <1>3, <2>1 DEF OneLiveTurn, Condemned
    <2>4. EntryIsOpen' /\ ReasonBeforeFlag' /\ InterruptedOnce'
      BY <1>3 DEF EntryIsOpen, ReasonBeforeFlag, InterruptedOnce
    <2>5. QED BY <2>2, <2>3, <2>4
  <1>4. ASSUME NEW t \in Turn, NEW r \in {"ABORTED", "FAILED"}, CancelSelf(t, r)
        PROVE Others'
    <2>1. call[t] = Idle
      BY <1>4 DEF CancelSelf, OwnThreadFree
    <2>2. OwnThreadFree'
      BY <1>4, <2>1 DEF CancelSelf, OwnThreadFree
    <2>3. QED BY <1>3, <1>4, <2>1, <2>2 DEF CancelSelf
  <1>5. ASSUME NEW s \in Stopper, NEW th \in Thread, Stop(s, th) PROVE Others'
    <2>1. OwnThreadFree'
      BY <1>5 DEF Stop, OwnThreadFree
    <2>2. QED BY <1>3, <1>5, <2>1 DEF Stop
  <1>6. ASSUME NEW c \in Caller, Cancelling(c) PROVE Others'
    <2> DEFINE u == call[c].target
    <2>1. CASE Refuse(c) \/ CancelReturns(c)
      <3>1. /\ call' = [call EXCEPT ![c] = Idle]
            /\ UNCHANGED <<registryVars, latchVars, blockVars, abortVars>>
            /\ call[c].at = "called" => event[u]
            /\ call[c].at # "marked"
        BY <2>1 DEF Refuse, CancelReturns
      <3>2a. /\ call'[c].at = "idle" /\ call'[c] = Idle
             /\ \A d \in Caller : d # c => call'[d] = call[d]
        BY <3>1
      <3>2b. OwnThreadFree'
        BY <3>1, <3>2a DEF OwnThreadFree
      <3>2c. FlagProtocol'
        BY <3>1, <3>2a DEF FlagProtocol
      <3>2d. OneAborter' /\ QuietBeforeFlag'
        BY <3>1, <3>2a DEF OneAborter, QuietBeforeFlag
      <3>2. OwnThreadFree' /\ FlagProtocol' /\ OneAborter' /\ QuietBeforeFlag'
        BY <3>2b, <3>2c, <3>2d
      <3>3. OneLiveTurn'
        BY <3>1 DEF OneLiveTurn, Condemned
      <3>4. EntryIsOpen' /\ ReasonBeforeFlag' /\ InterruptedOnce'
        BY <3>1 DEF EntryIsOpen, ReasonBeforeFlag, InterruptedOnce
      <3>5. QED BY <3>2, <3>3, <3>4
    <2>2. CASE SetReason(c)
      <3>1. /\ call[c] \in Frame /\ u \in Turn /\ call[c].why \in Reason
            /\ call[c].at = "called" /\ lock[u] = NoTurn /\ ~event[u]
        BY <2>2 DEF SetReason, Frame
      <3>2. /\ call'[c].at = "marked" /\ call'[c].target = u
            /\ \A d \in Caller : d # c => call'[d] = call[d]
        BY <2>2, <3>1 DEF SetReason, Frame
      <3>3. /\ lock' = [lock EXCEPT ![u] = c]
            /\ reason' = [reason EXCEPT ![u] = call[c].why]
            /\ UNCHANGED <<registryVars, event, blockVars, abortVars>>
        BY <2>2 DEF SetReason
      <3>4. \A d \in Caller : d # c /\ call[d].at = "marked"
                               => call[d].target # u /\ call[d].target \in Turn
        BY <3>1 DEF FlagProtocol, Frame
      <3>5. FlagProtocol'
        BY <3>1, <3>2, <3>3, <3>4 DEF FlagProtocol
      <3>6. OneAborter' /\ QuietBeforeFlag'
        BY <3>2, <3>3 DEF OneAborter, QuietBeforeFlag
      <3>7. OwnThreadFree'
        BY <3>1, <3>2, <3>3 DEF OwnThreadFree
      <3>8. OneLiveTurn'
        BY <3>1, <3>2, <3>3 DEF OneLiveTurn, Condemned
      <3>9. EntryIsOpen' /\ ReasonBeforeFlag' /\ InterruptedOnce'
        BY <3>1, <3>3 DEF EntryIsOpen, ReasonBeforeFlag, InterruptedOnce
      <3>10. QED BY <3>5, <3>6, <3>7, <3>8, <3>9
    <2>3. CASE SetEvent(c)
      <3>1. /\ call[c] \in Frame /\ u \in Turn /\ call[c].at = "marked"
            /\ ~event[u] /\ reason[u] # "none" /\ lock[u] = c
        BY <2>3 DEF SetEvent, Frame, FlagProtocol
      <3>2. /\ call'[c].at = "aborting" /\ call'[c].target = u
            /\ call'[c].todo = {b \in aborts : TurnOf(b) = u}
            /\ \A d \in Caller : d # c => call'[d] = call[d]
        BY <2>3, <3>1 DEF SetEvent, Frame
      <3>3. /\ event' = [event EXCEPT ![u] = TRUE]
            /\ lock' = [lock EXCEPT ![u] = NoTurn]
            /\ UNCHANGED <<registryVars, reason, blockVars, abortVars>>
        BY <2>3 DEF SetEvent
      <3>4. \A d \in Caller : d # c /\ call[d].at \in {"marked", "aborting"}
                               => call[d].target # u /\ call[d].target \in Turn
        BY <3>1 DEF FlagProtocol, Frame
      <3>5. \A b \in call'[c].todo : TurnOf(b) = u /\ calls[b] = 0
        BY <3>1, <3>2 DEF OneAborter, QuietBeforeFlag
      <3>6. FlagProtocol'
        <4> SUFFICES ASSUME NEW d \in Caller
                     PROVE  /\ call'[d].at = "marked"
                                 => /\ lock'[call'[d].target] = d
                                    /\ ~event'[call'[d].target]
                                    /\ reason'[call'[d].target] # "none"
                            /\ call'[d].at = "aborting"
                                 => /\ event'[call'[d].target]
                                    /\ \A b \in call'[d].todo :
                                         /\ TurnOf(b) = call'[d].target
                                         /\ calls'[b] = 0
          BY DEF FlagProtocol
        <4>1. CASE d = c
          BY <4>1, <3>1, <3>2, <3>3, <3>5
        <4>2. CASE d # c
          BY <4>2, <3>1, <3>2, <3>3, <3>4 DEF FlagProtocol
        <4>3. QED BY <4>1, <4>2
      <3>7. OneAborter' /\ QuietBeforeFlag'
        <4>1. OneAborter'
          BY <3>1, <3>2, <3>4 DEF OneAborter
        <4>2. QuietBeforeFlag'
          BY <3>1, <3>3 DEF QuietBeforeFlag
        <4>3. QED BY <4>1, <4>2
      <3>8. OwnThreadFree'
        BY <3>1, <3>2, <3>3 DEF OwnThreadFree
      <3>9. OneLiveTurn'
        BY <3>1, <3>2, <3>3 DEF OneLiveTurn, Condemned
      <3>10. EntryIsOpen' /\ ReasonBeforeFlag' /\ InterruptedOnce'
        BY <3>1, <3>3 DEF EntryIsOpen, ReasonBeforeFlag, InterruptedOnce
      <3>11. QED BY <3>6, <3>7, <3>8, <3>9, <3>10
    <2>4. ASSUME NEW b \in Block, CallAbort(c, b) PROVE Others'
      <3>1. /\ call[c] \in Frame /\ u \in Turn /\ call[c].at = "aborting"
            /\ event[u] /\ TurnOf(b) = u /\ calls[b] = 0 /\ b \in call[c].todo
        BY <2>4 DEF CallAbort, Frame, FlagProtocol
      <3>2. /\ call'[c].at = "aborting" /\ call'[c].target = u
            /\ call'[c].todo = call[c].todo \ {b}
            /\ \A d \in Caller : d # c => call'[d] = call[d]
        BY <2>4, <3>1 DEF CallAbort, Frame
      <3>3. /\ calls' = [calls EXCEPT ![b] = 1]
            /\ UNCHANGED <<registryVars, latchVars, blockVars>>
        BY <2>4, <3>1 DEF CallAbort
      <3>4. \A d \in Caller : d # c /\ call[d].at = "aborting"
                               => call[d].target # u /\ b \notin call[d].todo
        BY <3>1 DEF OneAborter, FlagProtocol
      <3>5. FlagProtocol'
        <4> SUFFICES ASSUME NEW d \in Caller
                     PROVE  /\ call'[d].at = "marked"
                                 => /\ lock'[call'[d].target] = d
                                    /\ ~event'[call'[d].target]
                                    /\ reason'[call'[d].target] # "none"
                            /\ call'[d].at = "aborting"
                                 => /\ event'[call'[d].target]
                                    /\ \A x \in call'[d].todo :
                                         /\ TurnOf(x) = call'[d].target
                                         /\ calls'[x] = 0
          BY DEF FlagProtocol
        <4>1. CASE d = c
          BY <4>1, <3>1, <3>2, <3>3 DEF FlagProtocol, Frame
        <4>2. CASE d # c
          BY <4>2, <3>1, <3>2, <3>3, <3>4 DEF FlagProtocol, Frame
        <4>3. QED BY <4>1, <4>2
      <3>6. OneAborter' /\ QuietBeforeFlag'
        BY <3>1, <3>2, <3>3 DEF OneAborter, QuietBeforeFlag
      <3>7. OwnThreadFree'
        BY <3>1, <3>2, <3>3 DEF OwnThreadFree
      <3>8. OneLiveTurn'
        BY <3>1, <3>2, <3>3 DEF OneLiveTurn, Condemned
      <3>9. EntryIsOpen' /\ ReasonBeforeFlag' /\ InterruptedOnce'
        BY <3>1, <3>3 DEF EntryIsOpen, ReasonBeforeFlag, InterruptedOnce
      <3>10. QED BY <3>5, <3>6, <3>7, <3>8, <3>9
    <2>5. QED BY <1>6, <2>1, <2>2, <2>3, <2>4 DEF Cancelling
  <1>7. ASSUME NEW b \in Block,
               Check(b) \/ AddAbort(b) \/ Leave(b) \/ DropAbort(b)
        PROVE Others'
    <2>1. OwnThreadFree'
      BY <1>7 DEF Check, CanEnter, AddAbort, Leave, DropAbort, OwnThreadFree
    <2>2. UNCHANGED <<registryVars, latchVars, call, abortVars>>
      BY <1>7 DEF Check, AddAbort, Leave, DropAbort
    <2>3. QED BY <2>1, <2>2
                 DEF FlagProtocol, OneAborter, QuietBeforeFlag, EntryIsOpen, OneLiveTurn,
                     Condemned, ReasonBeforeFlag, InterruptedOnce
  <1>8. CASE UNCHANGED vars
    BY <1>8 DEF vars, OwnThreadFree, FlagProtocol, OneAborter, QuietBeforeFlag, EntryIsOpen,
                OneLiveTurn, Condemned, ReasonBeforeFlag, InterruptedOnce
  <1>9. QED BY <1>1, <1>2, <1>4, <1>5, <1>6, <1>7, <1>8 DEF Next

\* The inductive invariant holds throughout.
LEMMA Invariant == Spec => []IInv
  BY InvInit, InvStep, PTL DEF Spec

-----------------------------------------------------------------------------
(* What follows from the invariant.                                        *)

\* Of the open turns of a chat thread, those the registry cannot reach have
\* been stopped or are about to be.
THEOREM AtMostOneLiveTurn == Spec => []OneLiveTurn
  BY Invariant, PTL DEF IInv

\* A set flag comes with the reason of the stop.
THEOREM ReasonKnown == Spec => []ReasonBeforeFlag
  BY Invariant, PTL DEF IInv

\* No interrupter is called twice, whoever races to stop the turn.
THEOREM AbortsAreIdempotent == Spec => []InterruptedOnce
  BY Invariant, PTL DEF IInv

\* The first reason of a stop is never replaced, and the flag stays set.
THEOREM FirstReasonWins == Spec => FirstReasonStands
  <1>1. IInv /\ [Next]_vars =>
          [\A t \in Turn : event[t] => event'[t] /\ reason'[t] = reason[t]]_vars
    <2> SUFFICES ASSUME IInv, Next, NEW t \in Turn, event[t]
                 PROVE  event'[t] /\ reason'[t] = reason[t]
      OBVIOUS
    <2> USE DEF IInv, TypeOK, registryVars, latchVars
    <2>1. ASSUME NEW c \in Caller, SetReason(c)
          PROVE event'[t] /\ reason'[t] = reason[t]
      <3>1. call[c].target # t
        BY <2>1 DEF SetReason
      <3>2. QED BY <2>1, <3>1 DEF SetReason
    <2>2. ASSUME NEW c \in Caller, SetEvent(c)
          PROVE event'[t] /\ reason'[t] = reason[t]
      BY <2>2 DEF SetEvent
    <2>3. ASSUME UNCHANGED <<event, reason>>
          PROVE event'[t] /\ reason'[t] = reason[t]
      BY <2>3
    <2>4. QED
      BY <2>1, <2>2, <2>3
         DEF Next, Cancelling, Register, Release, CancelSelf, Stop, Refuse,
             CancelReturns, CallAbort, Check, AddAbort, Leave, DropAbort
  <1>2. QED BY <1>1, Invariant, PTL DEF Spec, FirstReasonStands

\* Only its own release takes a turn out of the registry.
THEOREM EntriesAreSafe == Spec => EntryOutlivesOlderTurns
  <1>1. IInv /\ [Next]_vars =>
          [\A th \in Thread : active[th] # NoTurn /\ active'[th] = NoTurn
             => /\ stage[active[th]] = "registered"
                /\ stage'[active[th]] = "released"]_vars
    <2> SUFFICES ASSUME IInv, Next, NEW th \in Thread,
                        active[th] # NoTurn, active'[th] = NoTurn
                 PROVE  /\ stage[active[th]] = "registered"
                        /\ stage'[active[th]] = "released"
      OBVIOUS
    <2> USE DEF IInv, TypeOK, registryVars
    <2>1. ASSUME NEW t \in Turn, Register(t) PROVE FALSE
      BY <2>1 DEF Register
    <2>2. ASSUME NEW t \in Turn, Release(t)
          PROVE  /\ stage[active[th]] = "registered"
                 /\ stage'[active[th]] = "released"
      BY <2>2 DEF Release
    <2>3. ASSUME UNCHANGED active PROVE FALSE
      BY <2>3
    <2>4. QED
      BY <2>1, <2>2, <2>3
         DEF Next, Cancelling, CancelSelf, Stop, Refuse, SetReason, SetEvent,
             CancelReturns, CallAbort, Check, AddAbort, Leave, DropAbort
  <1>2. QED BY <1>1, Invariant, PTL DEF Spec, EntryOutlivesOlderTurns
=============================================================================
