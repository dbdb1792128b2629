------------------------------- MODULE Cgroup -------------------------------
(***************************************************************************)
(* The cgroup of one sandbox run (boba.sandbox.cgroup): the base is made   *)
(* ready once per process of the application, every run gets a leaf of its *)
(* own.  A controller can be switched on for the children of a directory   *)
(* only while no process is in that directory itself, so the processes of  *)
(* the parent are moved to a leaf `main`, round by round, while they go on *)
(* forking.                                                                *)
(***************************************************************************)
EXTENDS Naturals

CONSTANTS
  MaxRounds,    \* rounds of the evacuation, 10 in the code
  MaxForks,     \* bound: processes born in the parent during one round
  MaxFaults     \* bound: errors of the operating system, in all

ASSUME CgroupAssumption ==
  MaxRounds \in Nat \ {0} /\ MaxForks \in Nat /\ MaxFaults \in Nat

VARIABLES
  acq,          \* where acquire() is
  ready,        \* _prepared: the base is known to have its controllers
  available,    \* the kernel has them on for the base
  listed,       \* processes of the parent that the last round has read
  born,         \* those that came after
  rounds,
  leaf,
  faults        \* bound

baseVars == <<ready, available, listed, born, rounds>>
groupVars == <<acq, leaf, baseVars, faults>>

(* An earlier run of the same process may have prepared the base, or an    *)
(* earlier process.                                                        *)
GroupInit ==
  /\ acq = "idle" /\ leaf = "none"
  /\ available \in BOOLEAN
  /\ ready \in BOOLEAN /\ (ready => available)
  /\ listed = 0 /\ born \in 0 .. 1 /\ (available => born = 0)
  /\ rounds = 0 /\ faults = 0

Fault == faults < MaxFaults /\ faults' = faults + 1

At(from, to) == acq = from /\ acq' = to

Fail(from) ==
  /\ At(from, "failed")
  /\ Fault
  /\ UNCHANGED <<leaf, baseVars>>

-----------------------------------------------------------------------------
(* The other processes of the parent directory, followed for as long as    *)
(* acquire() looks at them.                                                *)

Watched == acq \in {"parent", "evacuate", "moving", "again"}

Fork ==
  /\ Watched /\ listed + born > 0 /\ born < MaxForks
  /\ born' = born + 1
  /\ UNCHANGED <<acq, leaf, ready, available, listed, rounds, faults>>

ProcessEnds ==
  /\ Watched
  /\ \/ listed > 0 /\ listed' = listed - 1 /\ UNCHANGED born
     \/ born > 0 /\ born' = born - 1 /\ UNCHANGED listed
  /\ UNCHANGED <<acq, leaf, ready, available, rounds, faults>>

-----------------------------------------------------------------------------
(* acquire(): under the lock of the class until the base is ready.         *)

Prepare ==
  /\ acq = "prepare"
  /\ acq' = IF ready THEN "mkdir" ELSE IF available THEN "enable" ELSE "parent"
  /\ UNCHANGED <<leaf, baseVars, faults>>

EnableInParent ==
  /\ acq = "parent"
  /\ IF listed + born = 0
     THEN acq' = "enable" /\ available' = TRUE
     ELSE acq' = "evacuate" /\ UNCHANGED available
  /\ UNCHANGED <<leaf, ready, listed, born, rounds, faults>>

ReadProcesses ==
  /\ acq = "evacuate" /\ rounds < MaxRounds
  /\ acq' = IF listed + born = 0 THEN "again" ELSE "moving"
  /\ listed' = listed + born /\ born' = 0
  /\ UNCHANGED <<leaf, ready, available, rounds, faults>>

MoveProcesses ==
  /\ At("moving", "evacuate")
  /\ listed' = 0 /\ rounds' = rounds + 1
  /\ UNCHANGED <<leaf, ready, available, born, faults>>

EvacuationGivesUp ==
  /\ At("evacuate", "failed") /\ rounds = MaxRounds
  /\ UNCHANGED <<leaf, baseVars, faults>>

(* A process may have come between the last round and the second attempt.  *)
EnableAgain ==
  /\ acq = "again"
  /\ IF listed + born = 0
     THEN acq' = "enable" /\ available' = TRUE
     ELSE acq' = "failed" /\ UNCHANGED available
  /\ rounds' = 0
  /\ UNCHANGED <<leaf, ready, listed, born, faults>>

EnableInBase ==
  /\ At("enable", "mkdir")
  /\ ready' = TRUE
  /\ UNCHANGED <<leaf, available, listed, born, rounds, faults>>

MakeLeaf ==
  /\ At("mkdir", "limits")
  /\ leaf' = "made"
  /\ UNCHANGED <<baseVars, faults>>

WriteLimits ==
  /\ At("limits", "made")
  /\ UNCHANGED <<leaf, baseVars, faults>>

LimitsFail ==
  /\ At("limits", "failed")
  /\ Fault
  /\ leaf' = "none"
  /\ UNCHANGED baseVars

AcquireFails ==
  \E step \in {"prepare", "parent", "moving", "again", "enable", "mkdir"} :
    (step = "prepare" => ~ready) /\ Fail(step)

AcquireStep ==
  \/ Prepare \/ EnableInParent \/ ReadProcesses \/ MoveProcesses
  \/ EvacuationGivesUp \/ EnableAgain \/ EnableInBase \/ MakeLeaf
  \/ WriteLimits \/ LimitsFail \/ AcquireFails

GroupNext == AcquireStep \/ Fork \/ ProcessEnds
=============================================================================
