------------------------- MODULE ImageStorageProofs -------------------------
(***************************************************************************)
(* Machine-checked proofs about ImageLauncher, for any number of launchers *)
(* and images and whatever is killed, and their transfer to ImageStorage;  *)
(* then, on top of that invariant and for any uploads and patience:        *)
(* ImageLauncher implements ImageLease, and the storage client never       *)
(* reports a torn file as stored.                                          *)
(***************************************************************************)
EXTENDS ImageStorage, TLAPS

USE DEF FileMode, Acquiring, Serving

\* Two launchers never hold one image.
LockIsExclusive ==
  \A l, m \in Launchers : \A i \in Images : Held(l, i) /\ Held(m, i) => l = m

\* What a launcher has locked and what it has started by the time it gets
\* where it is.
LocksBeforeMounts ==
  \A l \in Launchers :
    /\ daemons[l] \subseteq locks[l]
    /\ pc[l] = "idle" => locks[l] = {} /\ at[l] = 1
    /\ pc[l] \in Acquiring \cup {"idle"} => daemons[l] = {} /\ command[l] = "none"
    /\ pc[l] \in {"checking", "copying", "renaming"} => Current(l) \in locks[l]
    /\ pc[l] \in Acquiring => \A k \in 1..Len(ImagesOf[l]) :
                                k < at[l] => ImagesOf[l][k] \in locks[l]
    /\ pc[l] \in Serving => AllOf(l) \subseteq locks[l]

\* An image appears whole under its name, and before it is mounted.
WholeBeforeMount ==
  /\ \A i \in Images : /\ image[i] # "part"
                       /\ image[i] = "absent" => file[i] = NoFile
  /\ \A l \in Launchers :
       /\ \A i \in daemons[l] : image[i] = "whole"
       /\ pc[l] \in {"copying", "renaming"} => image[Current(l)] = "absent"
       /\ pc[l] = "renaming" => tmp[Current(l)] = "whole"
       /\ pc[l] \in Acquiring => \A k \in 1..Len(ImagesOf[l]) :
                                   k < at[l] => image[ImagesOf[l][k]] = "whole"
       /\ pc[l] \in Serving => \A i \in AllOf(l) : image[i] = "whole"

\* A launcher answers when its operation is over, and what a write has stored
\* is on the disk for as long as its own daemon lives.
SyncedBeforeAnswer ==
  \A l \in Launchers :
    /\ rc[l] = "ok" => pc[l] \in {"stopping", "dead"}
    /\ pc[l] = "running" \/ command[l] # "none" => mode[l] = "run"
    /\ mode[l] = "write" /\ rc[l] = "ok" =>
         \A i \in daemons[l] : file[i] = [by |-> l, whole |-> TRUE] => disk[i] = file[i]

\* A launcher writes nowhere but to its first image.
OwnFile ==
  \A i \in Images : \A l \in Launchers :
    file[i].by = l \/ disk[i].by = l => i = Home(l)

IInv == /\ TypeOK /\ LockIsExclusive /\ LocksBeforeMounts /\ WholeBeforeMount
        /\ SyncedBeforeAnswer /\ OwnFile

-----------------------------------------------------------------------------
\* The position of a launcher is one of its images.
LEMMA CurrentImage ==
  ASSUME TypeOK
  PROVE  \A l \in Launchers :
           /\ at[l] \in 1..Len(ImagesOf[l]) /\ Len(ImagesOf[l]) \in Nat
           /\ Current(l) \in Images /\ Current(l) \in AllOf(l)
           /\ Home(l) \in Images /\ Home(l) \in AllOf(l) /\ AllOf(l) \subseteq Images
  BY LauncherAssumption DEF TypeOK, Current, Home, AllOf

\* A written file is a file.
LEMMA FileTypes ==
  /\ NoFile \in File
  /\ \A l \in Launchers, b \in BOOLEAN : [by |-> l, whole |-> b] \in File
  BY DEF File

\* The initial state has the right types.
LEMMA TypeInit == Init => TypeOK
  BY LauncherAssumption, FileTypes DEF Init, TypeOK

\* The next position in a loop over the images is one of theirs.
LEMMA NextPosition ==
  ASSUME TypeOK, NEW l \in Launchers, at[l] < Len(ImagesOf[l]),
         at' = [at EXCEPT ![l] = @ + 1]
  PROVE  /\ at' \in [Launchers -> Nat \ {0}]
         /\ \A m \in Launchers : at'[m] <= Len(ImagesOf[m])
  <1>1. at[l] \in Nat \ {0} /\ Len(ImagesOf[l]) \in Nat
    BY CurrentImage DEF TypeOK
  <1>2. at[l] + 1 \in Nat \ {0} /\ at[l] + 1 <= Len(ImagesOf[l])
    BY <1>1
  <1>3. QED BY <1>2 DEF TypeOK

\* The loop over the images keeps the types.
LEMMA AcquiredTypes ==
  ASSUME TypeOK, NEW l \in Launchers, Acquired(l)
  PROVE  /\ at' \in [Launchers -> Nat \ {0}]
         /\ \A m \in Launchers : at'[m] <= Len(ImagesOf[m])
         /\ pc' \in [Launchers -> Acquiring \cup Serving \cup {"idle", "stopping", "dead"}]
  <1>1. pc' \in [Launchers -> Acquiring \cup Serving \cup {"idle", "stopping", "dead"}]
    BY DEF Acquired, TypeOK
  <1>2. CASE at[l] < Len(ImagesOf[l])
    BY <1>1, <1>2, NextPosition, CurrentImage DEF Acquired
  <1>3. CASE at[l] = Len(ImagesOf[l])
    <2>1. at[l] \in 1..Len(ImagesOf[l]) /\ Len(ImagesOf[l]) \in Nat
      BY CurrentImage
    <2>2. ~(at[l] < Len(ImagesOf[l])) /\ 1 <= Len(ImagesOf[l])
      BY <1>3, <2>1
    <2>3. at' = [at EXCEPT ![l] = 1]
      BY <2>2 DEF Acquired
    <2>4. QED BY <1>1, <2>2, <2>3 DEF TypeOK
  <1>4. QED BY <1>2, <1>3 DEF Acquired

\* Every step keeps the types: one case per group of actions.
LEMMA TypeStep == TypeOK /\ [LauncherNext]_vars => TypeOK'
  <1> SUFFICES ASSUME TypeOK, [LauncherNext]_vars PROVE TypeOK'
    OBVIOUS
  <1>0. \A l \in Launchers :
          /\ at[l] \in 1..Len(ImagesOf[l]) /\ Len(ImagesOf[l]) \in Nat
          /\ Current(l) \in Images /\ Home(l) \in Images
    BY CurrentImage
  <1> USE <1>0, FileTypes DEF TypeOK, imageVars, launcherVars
  <1>1. ASSUME NEW l \in Launchers, NEW m \in ModesOf[l], Launch(l, m) PROVE TypeOK'
    BY <1>1, LauncherAssumption DEF Launch
  <1>2. ASSUME NEW l \in Launchers, Refuse(l) PROVE TypeOK'
    BY <1>2 DEF Refuse
  <1>3. ASSUME NEW l \in Launchers, Lock(l) PROVE TypeOK'
    BY <1>3 DEF Lock
  <1>4. ASSUME NEW l \in Launchers, ImageExists(l) PROVE TypeOK'
    BY <1>4, AcquiredTypes DEF ImageExists
  <1>5. ASSUME NEW l \in Launchers, BeginCopy(l) PROVE TypeOK'
    BY <1>5 DEF BeginCopy
  <1>6. ASSUME NEW l \in Launchers, EndCopy(l) PROVE TypeOK'
    BY <1>6 DEF EndCopy
  <1>7. ASSUME NEW l \in Launchers, Rename(l) PROVE TypeOK'
    BY <1>7, AcquiredTypes DEF Rename
  <1>8. ASSUME NEW l \in Launchers, AcquireFails(l) PROVE TypeOK'
    BY <1>8 DEF AcquireFails, Stop
  <1>9. ASSUME NEW l \in Launchers, StartDaemon(l) PROVE TypeOK'
    BY <1>9 DEF StartDaemon
  <1>10. ASSUME NEW l \in Launchers, Mounted(l) PROVE TypeOK'
    <2>1. CASE at[l] < Len(ImagesOf[l])
      BY <1>10, <2>1, NextPosition DEF Mounted
    <2>2. CASE at[l] = Len(ImagesOf[l])
      <3>1. ~(at[l] < Len(ImagesOf[l]))
        BY <1>0, <2>2
      <3>2. at' = at /\ pc' = [pc EXCEPT ![l] = "operating"]
        BY <1>10, <3>1 DEF Mounted
      <3>3. QED BY <1>10, <3>2 DEF Mounted
    <2>3. QED BY <1>10, <2>1, <2>2 DEF Mounted
  <1>11. ASSUME NEW l \in Launchers, MountFails(l) PROVE TypeOK'
    BY <1>11 DEF MountFails, Stop
  <1>12. ASSUME NEW l \in Launchers, OpenForWrite(l) PROVE TypeOK'
    BY <1>12 DEF OpenForWrite
  <1>13. ASSUME NEW l \in Launchers, NEW c \in BOOLEAN, WriteEnds(l, c) PROVE TypeOK'
    BY <1>13 DEF WriteEnds, Stop
  <1>14. ASSUME NEW l \in Launchers, WriteRunsOut(l) PROVE TypeOK'
    BY <1>14 DEF WriteRunsOut, Stop
  <1>15. ASSUME NEW l \in Launchers, Read(l) PROVE TypeOK'
    BY <1>15 DEF Read, Stop
  <1>16. ASSUME NEW l \in Launchers, Delete(l) PROVE TypeOK'
    BY <1>16 DEF Delete, Stop
  <1>17. ASSUME NEW l \in Launchers, RunCommand(l) PROVE TypeOK'
    BY <1>17 DEF RunCommand
  <1>18. ASSUME NEW l \in Launchers, CommandWrites(l) PROVE TypeOK'
    BY <1>18 DEF CommandWrites
  <1>19. ASSUME NEW l \in Launchers, CommandEnds(l) PROVE TypeOK'
    BY <1>19 DEF CommandEnds
  <1>20. ASSUME NEW l \in Launchers, OperationFails(l) PROVE TypeOK'
    BY <1>20 DEF OperationFails, Stop
  <1>21. ASSUME NEW l \in Launchers, NEW i \in Images, DaemonExits(l, i) PROVE TypeOK'
    BY <1>21 DEF DaemonExits
  <1>22. ASSUME NEW l \in Launchers, NEW i \in Images, DaemonLost(l, i) PROVE TypeOK'
    BY <1>22 DEF DaemonLost
  <1>23. ASSUME NEW l \in Launchers, Exit(l) PROVE TypeOK'
    BY <1>23 DEF Exit
  <1>24. ASSUME NEW l \in Launchers, Reap(l) PROVE TypeOK'
    BY <1>24 DEF Reap
  <1>25. ASSUME NEW l \in Launchers, Kill(l) PROVE TypeOK'
    BY <1>25 DEF Kill
  <1>26. ASSUME NEW l \in Launchers, LauncherDies(l) PROVE TypeOK'
    BY <1>26 DEF LauncherDies
  <1>27. CASE UNCHANGED vars
    BY <1>27 DEF vars
  <1>28. QED
    BY <1>1, <1>2, <1>3, <1>4, <1>5, <1>6, <1>7, <1>8, <1>9, <1>10, <1>11, <1>12, <1>13, <1>14, <1>15, <1>16, <1>17, <1>18, <1>19, <1>20, <1>21, <1>22, <1>23, <1>24, <1>25, <1>26, <1>27
       DEF LauncherNext, Work, Failure

\* Type correctness of the launchers and of the images.
THEOREM TypeCorrect == LauncherSpec => []TypeOK
  BY TypeInit, TypeStep, PTL DEF LauncherSpec

-----------------------------------------------------------------------------
\* The lock keeps mounts apart, and the making of images.
LEMMA OneAtATime ==
  ASSUME TypeOK, LockIsExclusive, LocksBeforeMounts
  PROVE  /\ ExclusiveMount
         /\ \A l, m \in Launchers :
              /\ pc[l] \in {"checking", "copying", "renaming"}
              /\ pc[m] \in {"checking", "copying", "renaming"}
              /\ Current(l) = Current(m)
              => l = m
         /\ \A l, m \in Launchers :
              pc[l] \in {"checking", "copying", "renaming"} => Current(l) \notin daemons[m]
  <1>1. \A l \in Launchers : \A i \in daemons[l] : i \in Images /\ Held(l, i)
    BY DEF TypeOK, LocksBeforeMounts, Held
  <1>2. \A l \in Launchers : pc[l] \in {"checking", "copying", "renaming"}
          => Current(l) \in Images /\ Held(l, Current(l)) /\ daemons[l] = {}
    BY CurrentImage DEF LocksBeforeMounts, Held, Live
  <1>3. QED BY <1>1, <1>2 DEF LockIsExclusive, ExclusiveMount

\* The initial state satisfies the inductive invariant.
LEMMA InvInit == Init => IInv
  <1> SUFFICES ASSUME Init PROVE IInv
    OBVIOUS
  <1>1. LockIsExclusive
    BY DEF Init, LockIsExclusive, Held
  <1>2. LocksBeforeMounts
    BY DEF Init, LocksBeforeMounts
  <1>3. WholeBeforeMount
    BY DEF Init, WholeBeforeMount
  <1>4. SyncedBeforeAnswer
    BY DEF Init, SyncedBeforeAnswer
  <1>5. OwnFile
    BY LauncherAssumption DEF Init, OwnFile, NoFile
  <1>6. QED BY TypeInit, <1>1, <1>2, <1>3, <1>4, <1>5 DEF IInv

\* Files appear where their writer works: one case per action that moves one.
LEMMA OwnFileStep == TypeOK /\ OwnFile /\ [LauncherNext]_vars => OwnFile'
  <1> SUFFICES ASSUME TypeOK, OwnFile, [LauncherNext]_vars PROVE OwnFile'
    OBVIOUS
  <1>1. \A l \in Launchers : Home(l) \in Images
    BY CurrentImage
  <1>2. NoFile.by \notin Launchers
    BY LauncherAssumption DEF NoFile
  <1> USE <1>1, <1>2 DEF TypeOK, OwnFile, Home, imageVars, launcherVars
  <1>3. CASE UNCHANGED <<file, disk>>
    BY <1>3
  <1>4. ASSUME NEW l \in Launchers, Rename(l) PROVE OwnFile'
    BY <1>4 DEF Rename
  <1>5. ASSUME NEW l \in Launchers, OpenForWrite(l) PROVE OwnFile'
    BY <1>5 DEF OpenForWrite
  <1>6. ASSUME NEW l \in Launchers, NEW c \in BOOLEAN, WriteEnds(l, c) PROVE OwnFile'
    BY <1>6 DEF WriteEnds
  <1>7. ASSUME NEW l \in Launchers, WriteRunsOut(l) PROVE OwnFile'
    BY <1>7 DEF WriteRunsOut
  <1>8. ASSUME NEW l \in Launchers, Delete(l) PROVE OwnFile'
    BY <1>8 DEF Delete
  <1>9. ASSUME NEW l \in Launchers, CommandWrites(l) PROVE OwnFile'
    BY <1>9 DEF CommandWrites
  <1>10. ASSUME NEW l \in Launchers, NEW i \in Images, DaemonExits(l, i) PROVE OwnFile'
    BY <1>10 DEF DaemonExits
  <1>11. ASSUME NEW l \in Launchers, NEW i \in Images, DaemonLost(l, i) PROVE OwnFile'
    BY <1>11 DEF DaemonLost
  <1>12. QED
    BY <1>3, <1>4, <1>5, <1>6, <1>7, <1>8, <1>9, <1>10, <1>11
       DEF LauncherNext, Work, Failure, vars, Launch, Refuse, Lock, ImageExists, BeginCopy,
           EndCopy, AcquireFails, StartDaemon, Mounted, MountFails, Read, RunCommand,
           CommandEnds, OperationFails, Exit, Reap, Kill, LauncherDies

\* Every step keeps the inductive invariant: one case per action, and under it
\* one step per part.
LEMMA InvStep == IInv /\ [LauncherNext]_vars => IInv'
  <1> SUFFICES ASSUME IInv, [LauncherNext]_vars PROVE IInv'
    OBVIOUS
  <1>0. /\ TypeOK /\ TypeOK'
        /\ \A l \in Launchers :
             /\ at[l] \in 1..Len(ImagesOf[l]) /\ Len(ImagesOf[l]) \in Nat
             /\ Current(l) \in Images /\ Current(l) \in AllOf(l)
             /\ Home(l) \in Images /\ Home(l) \in AllOf(l) /\ AllOf(l) \subseteq Images
    BY TypeStep, CurrentImage DEF IInv
  <1>a. /\ ExclusiveMount
        /\ \A l, m \in Launchers :
             /\ pc[l] \in {"checking", "copying", "renaming"}
             /\ pc[m] \in {"checking", "copying", "renaming"}
             /\ Current(l) = Current(m)
             => l = m
        /\ \A l, m \in Launchers :
             pc[l] \in {"checking", "copying", "renaming"} => Current(l) \notin daemons[m]
    BY OneAtATime DEF IInv
  <1>b. OwnFile'
    BY OwnFileStep DEF IInv
  <1> USE <1>0 DEF IInv, imageVars, launcherVars
  <1> DEFINE Rest == LockIsExclusive /\ LocksBeforeMounts /\ WholeBeforeMount /\ SyncedBeforeAnswer
  <1>1. ASSUME NEW l \in Launchers, NEW m \in ModesOf[l], Launch(l, m) PROVE Rest'
    <2>1. LockIsExclusive'
      BY <1>1 DEF Launch, TypeOK, LockIsExclusive, LocksBeforeMounts, Held, Live
    <2>2. LocksBeforeMounts'
      BY <1>1 DEF Launch, TypeOK, LocksBeforeMounts, Current, AllOf
    <2>3. WholeBeforeMount'
      BY <1>1 DEF Launch, TypeOK, LocksBeforeMounts, WholeBeforeMount, Current, AllOf
    <2>4. SyncedBeforeAnswer'
      BY <1>1 DEF Launch, TypeOK, LocksBeforeMounts, WholeBeforeMount, SyncedBeforeAnswer
    <2>5. QED BY <2>1, <2>2, <2>3, <2>4
  <1>2. ASSUME NEW l \in Launchers, Refuse(l) PROVE Rest'
    <2>1. LockIsExclusive'
      BY <1>2 DEF Refuse, TypeOK, LockIsExclusive, LocksBeforeMounts, Held, Live
    <2>2. LocksBeforeMounts'
      BY <1>2 DEF Refuse, TypeOK, LocksBeforeMounts, Current, AllOf
    <2>3. WholeBeforeMount'
      BY <1>2 DEF Refuse, TypeOK, LocksBeforeMounts, WholeBeforeMount, Current, AllOf
    <2>4. SyncedBeforeAnswer'
      BY <1>2 DEF Refuse, TypeOK, LocksBeforeMounts, WholeBeforeMount, SyncedBeforeAnswer
    <2>5. QED BY <2>1, <2>2, <2>3, <2>4
  <1>3. ASSUME NEW l \in Launchers, Lock(l) PROVE Rest'
    <2>1. LockIsExclusive'
      BY <1>3 DEF Lock, TypeOK, LockIsExclusive, LocksBeforeMounts, Held, Live
    <2>2. LocksBeforeMounts'
      BY <1>3 DEF Lock, TypeOK, LocksBeforeMounts, Current, AllOf
    <2>3. WholeBeforeMount'
      BY <1>3 DEF Lock, TypeOK, LocksBeforeMounts, WholeBeforeMount, Current, AllOf
    <2>4. SyncedBeforeAnswer'
      BY <1>3 DEF Lock, TypeOK, LocksBeforeMounts, WholeBeforeMount, SyncedBeforeAnswer
    <2>5. QED BY <2>1, <2>2, <2>3, <2>4
  <1>4. ASSUME NEW l \in Launchers, ImageExists(l) PROVE Rest'
    <2>1. LockIsExclusive'
      <3>1. \A m \in Launchers : Live(m)' <=> Live(m)
        BY <1>4 DEF ImageExists, Acquired, TypeOK, Live
      <3>2. QED BY <3>1, <1>4 DEF ImageExists, LockIsExclusive, Held
    <2>2. LocksBeforeMounts'
      <3>1. \A k \in 1..Len(ImagesOf[l]) : k <= at[l] => ImagesOf[l][k] \in locks[l]
        BY <1>4 DEF ImageExists, LocksBeforeMounts, Current
      <3>2. CASE at[l] < Len(ImagesOf[l])
        <4>1. at'[l] = at[l] + 1 /\ pc'[l] = "locking"
          BY <1>4, <3>2 DEF ImageExists, Acquired, TypeOK
        <4>2. \A k \in 1..Len(ImagesOf[l]) : k < at'[l] => ImagesOf[l][k] \in locks[l]
          BY <3>1, <4>1
        <4>3. \A m \in Launchers \ {l} : at'[m] = at[m] /\ pc'[m] = pc[m]
          BY <1>4 DEF ImageExists, Acquired, TypeOK
        <4>4. QED BY <1>4, <4>1, <4>2, <4>3 DEF ImageExists, TypeOK, LocksBeforeMounts, Current, AllOf
      <3>3. CASE at[l] = Len(ImagesOf[l])
        <4>1. pc'[l] = "mounting" /\ AllOf(l) \subseteq locks[l]
          BY <1>4, <3>1, <3>3 DEF ImageExists, Acquired, TypeOK, AllOf
        <4>2. \A m \in Launchers \ {l} : at'[m] = at[m] /\ pc'[m] = pc[m]
          BY <1>4 DEF ImageExists, Acquired, TypeOK
        <4>3. QED BY <1>4, <4>1, <4>2 DEF ImageExists, TypeOK, LocksBeforeMounts, Current, AllOf
      <3>4. QED BY <1>4, <3>2, <3>3 DEF ImageExists, Acquired
    <2>3. WholeBeforeMount'
      <3>1. \A k \in 1..Len(ImagesOf[l]) : k <= at[l] => image'[ImagesOf[l][k]] = "whole"
        BY <1>4 DEF ImageExists, WholeBeforeMount, Current, TypeOK
      <3>2. /\ \A i \in Images : image[i] = "whole" => image'[i] = "whole"
            /\ \A i \in Images : image'[i] # "part" /\ (image'[i] = "absent" => file'[i] = NoFile)
            /\ \A m \in Launchers \ {l} :
                 /\ at'[m] = at[m] /\ pc'[m] = pc[m]
                 /\ pc[m] \in {"copying", "renaming"} =>
                      tmp'[Current(m)] = tmp[Current(m)] /\ image'[Current(m)] = image[Current(m)]
        BY <1>4, <1>a DEF ImageExists, Acquired, TypeOK, WholeBeforeMount
      <3>3. \A m \in Launchers : \A i \in daemons'[m] : image'[i] = "whole"
        BY <1>4, <3>2 DEF ImageExists, TypeOK, WholeBeforeMount
      <3>4. \A m \in Launchers \ {l} : Current(m)' = Current(m) /\ AllOf(m)' = AllOf(m)
        BY <3>2 DEF Current, AllOf
      <3>5. ASSUME NEW m \in Launchers, m # l
            PROVE  /\ pc'[m] \in {"copying", "renaming"} => image'[Current(m)'] = "absent"
                   /\ pc'[m] = "renaming" => tmp'[Current(m)'] = "whole"
                   /\ pc'[m] \in Acquiring => \A k \in 1..Len(ImagesOf[m]) :
                                         k < at'[m] => image'[ImagesOf[m][k]] = "whole"
                   /\ pc'[m] \in Serving => \A i \in AllOf(m)' : image'[i] = "whole"
        <4>1. m \in Launchers \ {l}
          BY <3>5
        <4>2. \A k \in 1..Len(ImagesOf[m]) : ImagesOf[m][k] \in Images
          BY <1>0 DEF AllOf
        <4>3. QED BY <3>2, <3>4, <4>1, <4>2 DEF WholeBeforeMount
      <3>6. /\ pc'[l] \in {"locking", "mounting"}
            /\ pc'[l] = "locking" => \A k \in 1..Len(ImagesOf[l]) :
                                      k < at'[l] => image'[ImagesOf[l][k]] = "whole"
            /\ pc'[l] = "mounting" => \A i \in AllOf(l)' : image'[i] = "whole"
        <4>1. CASE at[l] < Len(ImagesOf[l])
          <5>1. at'[l] = at[l] + 1 /\ pc'[l] = "locking"
            BY <1>4, <4>1 DEF ImageExists, Acquired, TypeOK
          <5>2. QED BY <3>1, <5>1
        <4>2. CASE at[l] = Len(ImagesOf[l])
          <5>1. pc'[l] = "mounting"
            BY <1>4, <4>2 DEF ImageExists, Acquired, TypeOK
          <5>2. QED BY <3>1, <4>2, <5>1 DEF AllOf
        <4>3. QED BY <1>4, <4>1, <4>2 DEF ImageExists, Acquired
      <3>7. QED BY <3>2, <3>3, <3>5, <3>6 DEF WholeBeforeMount
    <2>4. SyncedBeforeAnswer'
      BY <1>4 DEF ImageExists, Acquired, TypeOK, LocksBeforeMounts, WholeBeforeMount, SyncedBeforeAnswer
    <2>5. QED BY <2>1, <2>2, <2>3, <2>4
  <1>5. ASSUME NEW l \in Launchers, BeginCopy(l) PROVE Rest'
    <2>1. LockIsExclusive'
      BY <1>5 DEF BeginCopy, TypeOK, LockIsExclusive, LocksBeforeMounts, Held, Live
    <2>2. LocksBeforeMounts'
      BY <1>5 DEF BeginCopy, TypeOK, LocksBeforeMounts, Current, AllOf
    <2>3. WholeBeforeMount'
      BY <1>5, <1>a DEF BeginCopy, TypeOK, LocksBeforeMounts, WholeBeforeMount, Current, AllOf
    <2>4. SyncedBeforeAnswer'
      BY <1>5 DEF BeginCopy, TypeOK, LocksBeforeMounts, WholeBeforeMount, SyncedBeforeAnswer
    <2>5. QED BY <2>1, <2>2, <2>3, <2>4
  <1>6. ASSUME NEW l \in Launchers, EndCopy(l) PROVE Rest'
    <2>1. LockIsExclusive'
      BY <1>6 DEF EndCopy, TypeOK, LockIsExclusive, LocksBeforeMounts, Held, Live
    <2>2. LocksBeforeMounts'
      BY <1>6 DEF EndCopy, TypeOK, LocksBeforeMounts, Current, AllOf
    <2>3. WholeBeforeMount'
      BY <1>6 DEF EndCopy, TypeOK, LocksBeforeMounts, WholeBeforeMount, Current, AllOf
    <2>4. SyncedBeforeAnswer'
      BY <1>6 DEF EndCopy, TypeOK, LocksBeforeMounts, WholeBeforeMount, SyncedBeforeAnswer
    <2>5. QED BY <2>1, <2>2, <2>3, <2>4
  <1>7. ASSUME NEW l \in Launchers, Rename(l) PROVE Rest'
    <2>1. LockIsExclusive'
      <3>1. \A m \in Launchers : Live(m)' <=> Live(m)
        BY <1>7 DEF Rename, Acquired, TypeOK, Live
      <3>2. QED BY <3>1, <1>7 DEF Rename, LockIsExclusive, Held
    <2>2. LocksBeforeMounts'
      <3>1. \A k \in 1..Len(ImagesOf[l]) : k <= at[l] => ImagesOf[l][k] \in locks[l]
        BY <1>7 DEF Rename, LocksBeforeMounts, Current
      <3>2. CASE at[l] < Len(ImagesOf[l])
        <4>1. at'[l] = at[l] + 1 /\ pc'[l] = "locking"
          BY <1>7, <3>2 DEF Rename, Acquired, TypeOK
        <4>2. \A k \in 1..Len(ImagesOf[l]) : k < at'[l] => ImagesOf[l][k] \in locks[l]
          BY <3>1, <4>1
        <4>3. \A m \in Launchers \ {l} : at'[m] = at[m] /\ pc'[m] = pc[m]
          BY <1>7 DEF Rename, Acquired, TypeOK
        <4>4. QED BY <1>7, <4>1, <4>2, <4>3 DEF Rename, TypeOK, LocksBeforeMounts, Current, AllOf
      <3>3. CASE at[l] = Len(ImagesOf[l])
        <4>1. pc'[l] = "mounting" /\ AllOf(l) \subseteq locks[l]
          BY <1>7, <3>1, <3>3 DEF Rename, Acquired, TypeOK, AllOf
        <4>2. \A m \in Launchers \ {l} : at'[m] = at[m] /\ pc'[m] = pc[m]
          BY <1>7 DEF Rename, Acquired, TypeOK
        <4>3. locks' = locks /\ daemons' = daemons /\ command' = command
          BY <1>7 DEF Rename
        <4>4. QED BY <4>1, <4>2, <4>3 DEF LocksBeforeMounts, Current, AllOf
      <3>4. QED BY <1>7, <3>2, <3>3 DEF Rename, Acquired
    <2>3. WholeBeforeMount'
      <3>1. \A k \in 1..Len(ImagesOf[l]) : k <= at[l] => image'[ImagesOf[l][k]] = "whole"
        BY <1>7 DEF Rename, WholeBeforeMount, Current, TypeOK
      <3>2. /\ \A i \in Images : image[i] = "whole" => image'[i] = "whole"
            /\ \A i \in Images : image'[i] # "part" /\ (image'[i] = "absent" => file'[i] = NoFile)
            /\ \A m \in Launchers \ {l} :
                 /\ at'[m] = at[m] /\ pc'[m] = pc[m]
                 /\ pc[m] \in {"copying", "renaming"} =>
                      tmp'[Current(m)] = tmp[Current(m)] /\ image'[Current(m)] = image[Current(m)]
        BY <1>7, <1>a DEF Rename, Acquired, TypeOK, WholeBeforeMount
      <3>3. \A m \in Launchers : \A i \in daemons'[m] : image'[i] = "whole"
        BY <1>7, <3>2 DEF Rename, TypeOK, WholeBeforeMount
      <3>4. \A m \in Launchers \ {l} : Current(m)' = Current(m) /\ AllOf(m)' = AllOf(m)
        BY <3>2 DEF Current, AllOf
      <3>5. ASSUME NEW m \in Launchers, m # l
            PROVE  /\ pc'[m] \in {"copying", "renaming"} => image'[Current(m)'] = "absent"
                   /\ pc'[m] = "renaming" => tmp'[Current(m)'] = "whole"
                   /\ pc'[m] \in Acquiring => \A k \in 1..Len(ImagesOf[m]) :
                                         k < at'[m] => image'[ImagesOf[m][k]] = "whole"
                   /\ pc'[m] \in Serving => \A i \in AllOf(m)' : image'[i] = "whole"
        <4>1. m \in Launchers \ {l}
          BY <3>5
        <4>2. \A k \in 1..Len(ImagesOf[m]) : ImagesOf[m][k] \in Images
          BY <1>0 DEF AllOf
        <4>3. QED BY <3>2, <3>4, <4>1, <4>2 DEF WholeBeforeMount
      <3>6. /\ pc'[l] \in {"locking", "mounting"}
            /\ pc'[l] = "locking" => \A k \in 1..Len(ImagesOf[l]) :
                                      k < at'[l] => image'[ImagesOf[l][k]] = "whole"
            /\ pc'[l] = "mounting" => \A i \in AllOf(l)' : image'[i] = "whole"
        <4>1. CASE at[l] < Len(ImagesOf[l])
          <5>1. at'[l] = at[l] + 1 /\ pc'[l] = "locking"
            BY <1>7, <4>1 DEF Rename, Acquired, TypeOK
          <5>2. QED BY <3>1, <5>1
        <4>2. CASE at[l] = Len(ImagesOf[l])
          <5>1. pc'[l] = "mounting"
            BY <1>7, <4>2 DEF Rename, Acquired, TypeOK
          <5>2. QED BY <3>1, <4>2, <5>1 DEF AllOf
        <4>3. QED BY <1>7, <4>1, <4>2 DEF Rename, Acquired
      <3>7. QED BY <3>2, <3>3, <3>5, <3>6 DEF WholeBeforeMount
    <2>4. SyncedBeforeAnswer'
      BY <1>7, <1>a DEF Rename, Acquired, TypeOK, LocksBeforeMounts, WholeBeforeMount, SyncedBeforeAnswer, ExclusiveMount
    <2>5. QED BY <2>1, <2>2, <2>3, <2>4
  <1>8. ASSUME NEW l \in Launchers, AcquireFails(l) PROVE Rest'
    <2>1. LockIsExclusive'
      BY <1>8 DEF AcquireFails, Stop, TypeOK, LockIsExclusive, LocksBeforeMounts, Held, Live
    <2>2. LocksBeforeMounts'
      BY <1>8 DEF AcquireFails, Stop, TypeOK, LocksBeforeMounts, Current, AllOf
    <2>3. WholeBeforeMount'
      BY <1>8, <1>a DEF AcquireFails, Stop, TypeOK, LocksBeforeMounts, WholeBeforeMount, Current, AllOf
    <2>4. SyncedBeforeAnswer'
      BY <1>8 DEF AcquireFails, Stop, TypeOK, LocksBeforeMounts, WholeBeforeMount, SyncedBeforeAnswer
    <2>5. QED BY <2>1, <2>2, <2>3, <2>4
  <1>9. ASSUME NEW l \in Launchers, StartDaemon(l) PROVE Rest'
    <2>1. LockIsExclusive'
      BY <1>9 DEF StartDaemon, TypeOK, LockIsExclusive, LocksBeforeMounts, Held, Live
    <2>2. LocksBeforeMounts'
      BY <1>9 DEF StartDaemon, TypeOK, LocksBeforeMounts, Current, AllOf
    <2>3. WholeBeforeMount'
      BY <1>9 DEF StartDaemon, TypeOK, LocksBeforeMounts, WholeBeforeMount, Current, AllOf
    <2>4. SyncedBeforeAnswer'
      <3>1. pc[l] = "mounting" /\ pc'[l] = "waiting"
        BY <1>9 DEF StartDaemon, TypeOK
      <3>2. \A m \in Launchers \ {l} : pc'[m] = pc[m] /\ daemons'[m] = daemons[m]
        BY <1>9 DEF StartDaemon, TypeOK
      <3>3. rc[l] # "ok" /\ command[l] = command'[l] /\ pc[l] # "running"
        BY <1>9, <3>1 DEF StartDaemon, SyncedBeforeAnswer
      <3>4. QED BY <1>9, <3>1, <3>2, <3>3 DEF StartDaemon, SyncedBeforeAnswer
    <2>5. QED BY <2>1, <2>2, <2>3, <2>4
  <1>10. ASSUME NEW l \in Launchers, Mounted(l) PROVE Rest'
    <2>1. LockIsExclusive'
      <3>1. \A m \in Launchers : Live(m)' <=> Live(m)
        BY <1>10 DEF Mounted, TypeOK, Live
      <3>2. QED BY <3>1, <1>10 DEF Mounted, LockIsExclusive, Held
    <2>2. LocksBeforeMounts'
      BY <1>10 DEF Mounted, TypeOK, LocksBeforeMounts, Current, AllOf
    <2>3. WholeBeforeMount'
      BY <1>10 DEF Mounted, TypeOK, LocksBeforeMounts, WholeBeforeMount, Current, AllOf
    <2>4. SyncedBeforeAnswer'
      <3>1. pc[l] = "waiting" /\ pc'[l] \in {"mounting", "operating"}
        BY <1>10 DEF Mounted, TypeOK
      <3>2. \A m \in Launchers \ {l} : pc'[m] = pc[m]
        BY <1>10 DEF Mounted, TypeOK
      <3>3. rc[l] # "ok"
        BY <3>1 DEF SyncedBeforeAnswer
      <3>4. QED BY <1>10, <3>1, <3>2, <3>3 DEF Mounted, SyncedBeforeAnswer
    <2>5. QED BY <2>1, <2>2, <2>3, <2>4
  <1>11. ASSUME NEW l \in Launchers, MountFails(l) PROVE Rest'
    <2>1. LockIsExclusive'
      BY <1>11 DEF MountFails, Stop, TypeOK, LockIsExclusive, LocksBeforeMounts, Held, Live
    <2>2. LocksBeforeMounts'
      BY <1>11 DEF MountFails, Stop, TypeOK, LocksBeforeMounts, Current, AllOf
    <2>3. WholeBeforeMount'
      BY <1>11 DEF MountFails, Stop, TypeOK, LocksBeforeMounts, WholeBeforeMount, Current, AllOf
    <2>4. SyncedBeforeAnswer'
      BY <1>11 DEF MountFails, Stop, TypeOK, LocksBeforeMounts, WholeBeforeMount, SyncedBeforeAnswer
    <2>5. QED BY <2>1, <2>2, <2>3, <2>4
  <1>12. ASSUME NEW l \in Launchers, OpenForWrite(l) PROVE Rest'
    <2>1. LockIsExclusive'
      BY <1>12 DEF OpenForWrite, Served, TypeOK, LockIsExclusive, LocksBeforeMounts, Held, Live
    <2>2. LocksBeforeMounts'
      BY <1>12 DEF OpenForWrite, Served, TypeOK, LocksBeforeMounts, Current, AllOf
    <2>3. WholeBeforeMount'
      BY <1>12 DEF OpenForWrite, Served, TypeOK, LocksBeforeMounts, WholeBeforeMount, Current, AllOf
    <2>4. SyncedBeforeAnswer'
      BY <1>12 DEF OpenForWrite, Served, TypeOK, LocksBeforeMounts, WholeBeforeMount, SyncedBeforeAnswer
    <2>5. QED BY <2>1, <2>2, <2>3, <2>4
  <1>13. ASSUME NEW l \in Launchers, NEW c \in BOOLEAN, WriteEnds(l, c) PROVE Rest'
    <2>1. LockIsExclusive'
      BY <1>13 DEF WriteEnds, Stop, Served, TypeOK, LockIsExclusive, LocksBeforeMounts, Held, Live
    <2>2. LocksBeforeMounts'
      BY <1>13 DEF WriteEnds, Stop, Served, TypeOK, LocksBeforeMounts, Current, AllOf
    <2>3. WholeBeforeMount'
      BY <1>13 DEF WriteEnds, Stop, Served, TypeOK, LocksBeforeMounts, WholeBeforeMount, Current, AllOf
    <2>4. SyncedBeforeAnswer'
      <3>1. \A m \in Launchers \ {l} : /\ pc'[m] = pc[m] /\ rc'[m] = rc[m]
                                       /\ Home(l) \notin daemons[m]
        BY <1>13, <1>a DEF WriteEnds, Stop, Served, TypeOK, ExclusiveMount
      <3>2. \A i \in Images : i # Home(l) => file'[i] = file[i] /\ disk'[i] = disk[i]
        BY <1>13 DEF WriteEnds, TypeOK
      <3>3. pc'[l] = "stopping" /\ pc[l] = "writing" /\ mode' = mode /\ command' = command
        BY <1>13 DEF WriteEnds, Stop, TypeOK
      <3>4. daemons' = daemons /\ \A m \in Launchers : daemons[m] \subseteq Images
        BY <1>13 DEF WriteEnds, TypeOK
      <3>5. rc[l] # "ok"
        BY <3>3 DEF SyncedBeforeAnswer
      <3>6. disk'[Home(l)] = file'[Home(l)]
        BY <1>13 DEF WriteEnds, Stop, TypeOK
      <3>7. ASSUME NEW m \in Launchers, m # l, mode'[m] = "write", rc'[m] = "ok",
                   NEW i \in daemons'[m], file'[i] = [by |-> m, whole |-> TRUE]
            PROVE  disk'[i] = file'[i]
        BY <3>1, <3>2, <3>3, <3>4, <3>7 DEF SyncedBeforeAnswer
      <3>8. ASSUME NEW i \in daemons'[l], rc'[l] = "ok", file'[i] = [by |-> l, whole |-> TRUE]
            PROVE  disk'[i] = file'[i]
        <4>1. i \in Images /\ file'[i].by = l
          BY <3>4, <3>8
        <4>2. i = Home(l)
          BY <4>1, <1>b DEF OwnFile, Home
        <4>3. QED BY <4>2, <3>6
      <3>9. QED BY <3>1, <3>3, <3>7, <3>8 DEF SyncedBeforeAnswer
    <2>5. QED BY <2>1, <2>2, <2>3, <2>4
  <1>14. ASSUME NEW l \in Launchers, WriteRunsOut(l) PROVE Rest'
    <2>1. LockIsExclusive'
      BY <1>14 DEF WriteRunsOut, Stop, Served, TypeOK, LockIsExclusive, LocksBeforeMounts, Held, Live
    <2>2. LocksBeforeMounts'
      BY <1>14 DEF WriteRunsOut, Stop, Served, TypeOK, LocksBeforeMounts, Current, AllOf
    <2>3. WholeBeforeMount'
      BY <1>14 DEF WriteRunsOut, Stop, Served, TypeOK, LocksBeforeMounts, WholeBeforeMount, Current, AllOf
    <2>4. SyncedBeforeAnswer'
      <3>1. \A m \in Launchers \ {l} : /\ pc'[m] = pc[m] /\ rc'[m] = rc[m]
                                       /\ Home(l) \notin daemons[m]
        BY <1>14, <1>a DEF WriteRunsOut, Stop, Served, TypeOK, ExclusiveMount
      <3>2. \A i \in Images : i # Home(l) => file'[i] = file[i] /\ disk'[i] = disk[i]
        BY <1>14 DEF WriteRunsOut, TypeOK
      <3>3. pc'[l] = "stopping" /\ pc[l] = "writing" /\ mode' = mode /\ command' = command
        BY <1>14 DEF WriteRunsOut, Stop, TypeOK
      <3>4. daemons' = daemons /\ \A m \in Launchers : daemons[m] \subseteq Images
        BY <1>14 DEF WriteRunsOut, TypeOK
      <3>5. rc[l] # "ok"
        BY <3>3 DEF SyncedBeforeAnswer
      <3>6. rc'[l] = "nospace"
        BY <1>14 DEF WriteRunsOut, Stop, TypeOK
      <3>7. ASSUME NEW m \in Launchers, m # l, mode'[m] = "write", rc'[m] = "ok",
                   NEW i \in daemons'[m], file'[i] = [by |-> m, whole |-> TRUE]
            PROVE  disk'[i] = file'[i]
        BY <3>1, <3>2, <3>3, <3>4, <3>7 DEF SyncedBeforeAnswer
      <3>8. ASSUME NEW i \in daemons'[l], rc'[l] = "ok", file'[i] = [by |-> l, whole |-> TRUE]
            PROVE  disk'[i] = file'[i]
        BY <3>6, <3>8
      <3>9. QED BY <3>1, <3>3, <3>7, <3>8 DEF SyncedBeforeAnswer
    <2>5. QED BY <2>1, <2>2, <2>3, <2>4
  <1>15. ASSUME NEW l \in Launchers, Read(l) PROVE Rest'
    <2>1. LockIsExclusive'
      BY <1>15 DEF Read, Stop, TypeOK, LockIsExclusive, LocksBeforeMounts, Held, Live
    <2>2. LocksBeforeMounts'
      BY <1>15 DEF Read, Stop, TypeOK, LocksBeforeMounts, Current, AllOf
    <2>3. WholeBeforeMount'
      BY <1>15 DEF Read, Stop, TypeOK, LocksBeforeMounts, WholeBeforeMount, Current, AllOf
    <2>4. SyncedBeforeAnswer'
      BY <1>15 DEF Read, Stop, TypeOK, LocksBeforeMounts, WholeBeforeMount, SyncedBeforeAnswer
    <2>5. QED BY <2>1, <2>2, <2>3, <2>4
  <1>16. ASSUME NEW l \in Launchers, Delete(l) PROVE Rest'
    <2>1. LockIsExclusive'
      BY <1>16 DEF Delete, Stop, Served, TypeOK, LockIsExclusive, LocksBeforeMounts, Held, Live
    <2>2. LocksBeforeMounts'
      BY <1>16 DEF Delete, Stop, Served, TypeOK, LocksBeforeMounts, Current, AllOf
    <2>3. WholeBeforeMount'
      BY <1>16 DEF Delete, Stop, Served, TypeOK, LocksBeforeMounts, WholeBeforeMount, Current, AllOf
    <2>4. SyncedBeforeAnswer'
      BY <1>16, <1>a DEF Delete, Stop, Served, TypeOK, LocksBeforeMounts, WholeBeforeMount, SyncedBeforeAnswer, ExclusiveMount
    <2>5. QED BY <2>1, <2>2, <2>3, <2>4
  <1>17. ASSUME NEW l \in Launchers, RunCommand(l) PROVE Rest'
    <2>1. LockIsExclusive'
      BY <1>17 DEF RunCommand, TypeOK, LockIsExclusive, LocksBeforeMounts, Held, Live
    <2>2. LocksBeforeMounts'
      BY <1>17 DEF RunCommand, TypeOK, LocksBeforeMounts, Current, AllOf
    <2>3. WholeBeforeMount'
      BY <1>17 DEF RunCommand, TypeOK, LocksBeforeMounts, WholeBeforeMount, Current, AllOf
    <2>4. SyncedBeforeAnswer'
      <3>1. pc[l] = "operating" /\ mode[l] = "run" /\ pc'[l] = "running"
        BY <1>17 DEF RunCommand, TypeOK
      <3>2. \A m \in Launchers \ {l} : pc'[m] = pc[m] /\ command'[m] = command[m]
        BY <1>17 DEF RunCommand, TypeOK
      <3>3. rc[l] # "ok"
        BY <3>1 DEF SyncedBeforeAnswer
      <3>4. QED BY <1>17, <3>1, <3>2, <3>3 DEF RunCommand, SyncedBeforeAnswer
    <2>5. QED BY <2>1, <2>2, <2>3, <2>4
  <1>18. ASSUME NEW l \in Launchers, CommandWrites(l) PROVE Rest'
    <2>1. LockIsExclusive'
      BY <1>18 DEF CommandWrites, Served, TypeOK, LockIsExclusive, LocksBeforeMounts, Held, Live
    <2>2. LocksBeforeMounts'
      BY <1>18 DEF CommandWrites, Served, TypeOK, LocksBeforeMounts, Current, AllOf
    <2>3. WholeBeforeMount'
      BY <1>18 DEF CommandWrites, Served, TypeOK, LocksBeforeMounts, WholeBeforeMount, Current, AllOf
    <2>4. SyncedBeforeAnswer'
      BY <1>18, <1>a DEF CommandWrites, Served, TypeOK, LocksBeforeMounts, WholeBeforeMount, SyncedBeforeAnswer, ExclusiveMount
    <2>5. QED BY <2>1, <2>2, <2>3, <2>4
  <1>19. ASSUME NEW l \in Launchers, CommandEnds(l) PROVE Rest'
    <2>1. LockIsExclusive'
      BY <1>19 DEF CommandEnds, TypeOK, LockIsExclusive, LocksBeforeMounts, Held, Live
    <2>2. LocksBeforeMounts'
      BY <1>19 DEF CommandEnds, TypeOK, LocksBeforeMounts, Current, AllOf
    <2>3. WholeBeforeMount'
      BY <1>19 DEF CommandEnds, TypeOK, LocksBeforeMounts, WholeBeforeMount, Current, AllOf
    <2>4. SyncedBeforeAnswer'
      BY <1>19 DEF CommandEnds, TypeOK, LocksBeforeMounts, WholeBeforeMount, SyncedBeforeAnswer
    <2>5. QED BY <2>1, <2>2, <2>3, <2>4
  <1>20. ASSUME NEW l \in Launchers, OperationFails(l) PROVE Rest'
    <2>1. LockIsExclusive'
      BY <1>20 DEF OperationFails, Stop, TypeOK, LockIsExclusive, LocksBeforeMounts, Held, Live
    <2>2. LocksBeforeMounts'
      BY <1>20 DEF OperationFails, Stop, TypeOK, LocksBeforeMounts, Current, AllOf
    <2>3. WholeBeforeMount'
      BY <1>20 DEF OperationFails, Stop, TypeOK, LocksBeforeMounts, WholeBeforeMount, Current, AllOf
    <2>4. SyncedBeforeAnswer'
      BY <1>20 DEF OperationFails, Stop, TypeOK, LocksBeforeMounts, WholeBeforeMount, SyncedBeforeAnswer
    <2>5. QED BY <2>1, <2>2, <2>3, <2>4
  <1>21. ASSUME NEW l \in Launchers, NEW i \in Images, DaemonExits(l, i) PROVE Rest'
    <2>1. LockIsExclusive'
      BY <1>21 DEF DaemonExits, TypeOK, LockIsExclusive, LocksBeforeMounts, Held, Live
    <2>2. LocksBeforeMounts'
      BY <1>21 DEF DaemonExits, TypeOK, LocksBeforeMounts, Current, AllOf
    <2>3. WholeBeforeMount'
      BY <1>21 DEF DaemonExits, TypeOK, LocksBeforeMounts, WholeBeforeMount, Current, AllOf
    <2>4. SyncedBeforeAnswer'
      BY <1>21 DEF DaemonExits, TypeOK, LocksBeforeMounts, WholeBeforeMount, SyncedBeforeAnswer
    <2>5. QED BY <2>1, <2>2, <2>3, <2>4
  <1>22. ASSUME NEW l \in Launchers, NEW i \in Images, DaemonLost(l, i) PROVE Rest'
    <2>1. LockIsExclusive'
      BY <1>22 DEF DaemonLost, TypeOK, LockIsExclusive, LocksBeforeMounts, Held, Live
    <2>2. LocksBeforeMounts'
      BY <1>22 DEF DaemonLost, TypeOK, LocksBeforeMounts, Current, AllOf
    <2>3. WholeBeforeMount'
      BY <1>22 DEF DaemonLost, TypeOK, LocksBeforeMounts, WholeBeforeMount, Current, AllOf
    <2>4. SyncedBeforeAnswer'
      BY <1>22 DEF DaemonLost, TypeOK, LocksBeforeMounts, WholeBeforeMount, SyncedBeforeAnswer
    <2>5. QED BY <2>1, <2>2, <2>3, <2>4
  <1>23. ASSUME NEW l \in Launchers, Exit(l) PROVE Rest'
    <2>1. LockIsExclusive'
      BY <1>23 DEF Exit, TypeOK, LockIsExclusive, LocksBeforeMounts, Held, Live
    <2>2. LocksBeforeMounts'
      BY <1>23 DEF Exit, TypeOK, LocksBeforeMounts, Current, AllOf
    <2>3. WholeBeforeMount'
      BY <1>23 DEF Exit, TypeOK, LocksBeforeMounts, WholeBeforeMount, Current, AllOf
    <2>4. SyncedBeforeAnswer'
      BY <1>23 DEF Exit, TypeOK, LocksBeforeMounts, WholeBeforeMount, SyncedBeforeAnswer
    <2>5. QED BY <2>1, <2>2, <2>3, <2>4
  <1>24. ASSUME NEW l \in Launchers, Reap(l) PROVE Rest'
    <2>1. LockIsExclusive'
      BY <1>24 DEF Reap, TypeOK, LockIsExclusive, LocksBeforeMounts, Held, Live
    <2>2. LocksBeforeMounts'
      BY <1>24 DEF Reap, TypeOK, LocksBeforeMounts, Current, AllOf
    <2>3. WholeBeforeMount'
      BY <1>24 DEF Reap, TypeOK, LocksBeforeMounts, WholeBeforeMount, Current, AllOf
    <2>4. SyncedBeforeAnswer'
      BY <1>24 DEF Reap, TypeOK, LocksBeforeMounts, WholeBeforeMount, SyncedBeforeAnswer
    <2>5. QED BY <2>1, <2>2, <2>3, <2>4
  <1>25. ASSUME NEW l \in Launchers, Kill(l) PROVE Rest'
    <2>1. LockIsExclusive'
      BY <1>25 DEF Kill, Live, TypeOK, LockIsExclusive, LocksBeforeMounts, Held
    <2>2. LocksBeforeMounts'
      BY <1>25 DEF Kill, Live, TypeOK, LocksBeforeMounts, Current, AllOf
    <2>3. WholeBeforeMount'
      BY <1>25 DEF Kill, Live, TypeOK, LocksBeforeMounts, WholeBeforeMount, Current, AllOf
    <2>4. SyncedBeforeAnswer'
      BY <1>25 DEF Kill, Live, TypeOK, LocksBeforeMounts, WholeBeforeMount, SyncedBeforeAnswer
    <2>5. QED BY <2>1, <2>2, <2>3, <2>4
  <1>26. ASSUME NEW l \in Launchers, LauncherDies(l) PROVE Rest'
    <2>1. LockIsExclusive'
      BY <1>26 DEF LauncherDies, Live, TypeOK, LockIsExclusive, LocksBeforeMounts, Held
    <2>2. LocksBeforeMounts'
      BY <1>26 DEF LauncherDies, Live, TypeOK, LocksBeforeMounts, Current, AllOf
    <2>3. WholeBeforeMount'
      BY <1>26 DEF LauncherDies, Live, TypeOK, LocksBeforeMounts, WholeBeforeMount, Current, AllOf
    <2>4. SyncedBeforeAnswer'
      BY <1>26 DEF LauncherDies, Live, TypeOK, LocksBeforeMounts, WholeBeforeMount, SyncedBeforeAnswer
    <2>5. QED BY <2>1, <2>2, <2>3, <2>4
  <1>27. ASSUME UNCHANGED vars PROVE Rest'
    <2>1. LockIsExclusive'
      BY <1>27 DEF vars, LockIsExclusive, Held, Live
    <2>2. LocksBeforeMounts'
      BY <1>27 DEF vars, LocksBeforeMounts, Current, AllOf
    <2>3. WholeBeforeMount'
      BY <1>27 DEF vars, WholeBeforeMount, Current, AllOf
    <2>4. SyncedBeforeAnswer'
      BY <1>27 DEF vars, SyncedBeforeAnswer
    <2>5. QED BY <2>1, <2>2, <2>3, <2>4
  <1>28. QED
    BY <1>b, <1>1, <1>2, <1>3, <1>4, <1>5, <1>6, <1>7, <1>8, <1>9, <1>10, <1>11, <1>12, <1>13, <1>14, <1>15, <1>16, <1>17, <1>18, <1>19, <1>20, <1>21, <1>22, <1>23, <1>24, <1>25, <1>26, <1>27
       DEF LauncherNext, Work, Failure

\* The inductive invariant holds in every behaviour.
LEMMA Invariant == LauncherSpec => []IInv
  BY InvInit, InvStep, PTL DEF LauncherSpec

-----------------------------------------------------------------------------
\* An image is mounted by one launcher at a time, whoever is killed.
THEOREM MountsAreExclusive == LauncherSpec => []ExclusiveMount
  <1>1. IInv => ExclusiveMount
    BY OneAtATime DEF IInv
  <1>2. QED BY <1>1, Invariant, PTL

\* What is mounted is a complete copy of the template.
THEOREM MountsAreWhole == LauncherSpec => []MountedIsWhole
  <1>1. IInv => MountedIsWhole
    BY DEF IInv, WholeBeforeMount, MountedIsWhole
  <1>2. QED BY <1>1, Invariant, PTL

\* Only a mount changes what an image that is there contains.
LEMMA ContentStep ==
  ASSUME IInv, [LauncherNext]_vars, NEW i \in Images,
         image[i] # "absent", file'[i] # file[i]
  PROVE  \E l \in Launchers : i \in daemons[l]
  <1> USE DEF IInv, TypeOK, imageVars, launcherVars
  <1>1. \A l \in Launchers : Current(l) \in Images
    BY CurrentImage
  <1>2. CASE UNCHANGED file
    BY <1>2
  <1>3. ASSUME NEW l \in Launchers, Rename(l) PROVE FALSE
    BY <1>1, <1>3 DEF Rename, WholeBeforeMount
  <1>4. ASSUME NEW l \in Launchers,
               \/ OpenForWrite(l) \/ WriteRunsOut(l) \/ Delete(l) \/ CommandWrites(l)
               \/ \E complete \in BOOLEAN : WriteEnds(l, complete)
        PROVE  i \in daemons[l]
    BY <1>4 DEF OpenForWrite, WriteRunsOut, Delete, CommandWrites, WriteEnds, Served
  <1>5. ASSUME NEW l \in Launchers, NEW k \in Images, DaemonExits(l, k) \/ DaemonLost(l, k)
        PROVE  i \in daemons[l]
    BY <1>5 DEF DaemonExits, DaemonLost
  <1>6. QED
    BY <1>2, <1>3, <1>4, <1>5
       DEF LauncherNext, Work, Failure, vars, Launch, Refuse, Lock, ImageExists, BeginCopy,
           EndCopy, AcquireFails, StartDaemon, Mounted, MountFails, Read, RunCommand,
           CommandEnds, OperationFails, Exit, Reap, Kill, LauncherDies

\* The contents of an image change only through its mount.
THEOREM ImagesAreKept == LauncherSpec => ChangedOnlyByMount
  <1> DEFINE Kept == \A i \in Images : image[i] # "absent" /\ file'[i] # file[i] =>
                       \E l \in Launchers : i \in daemons[l]
  <1>1. IInv /\ [LauncherNext]_vars => [Kept]_vars
    BY ContentStep
  <1>2. QED BY <1>1, Invariant, PTL DEF LauncherSpec, ChangedOnlyByMount

\* A stored file is changed only through the mount of another launcher.
LEMMA DurableStep ==
  ASSUME IInv, [LauncherNext]_vars, NEW i \in Images, NEW l \in Launchers,
         file[i] = [by |-> l, whole |-> TRUE], mode[l] = "write", rc[l] = "ok",
         file'[i] # file[i]
  PROVE  \E m \in Launchers \ {l} : i \in daemons[m]
  <1> USE DEF IInv, TypeOK, imageVars, launcherVars
  <1>1. image[i] # "absent"
    BY LauncherAssumption DEF WholeBeforeMount, NoFile
  <1>2. PICK m \in Launchers : i \in daemons[m]
    BY <1>1, ContentStep
  <1>3. ASSUME m = l PROVE FALSE
    <2>1. \A n \in Launchers : i \in daemons[n] => n = l
      BY <1>2, <1>3, OneAtATime DEF ExclusiveMount
    <2>2. disk[i] = file[i] /\ command[l] = "none" /\ pc[l] \in {"stopping", "dead"}
      BY <1>2, <1>3 DEF SyncedBeforeAnswer
    <2>3. \A n \in Launchers : Current(n) \in Images
      BY CurrentImage
    <2>4. ASSUME NEW n \in Launchers, Rename(n) PROVE FALSE
      BY <1>1, <2>3, <2>4 DEF Rename, WholeBeforeMount
    <2>5. ASSUME NEW n \in Launchers,
                 \/ OpenForWrite(n) \/ WriteRunsOut(n) \/ Delete(n) \/ CommandWrites(n)
                 \/ \E complete \in BOOLEAN : WriteEnds(n, complete)
          PROVE  FALSE
      <3>1. n # l
        BY <2>2, <2>5 DEF OpenForWrite, WriteRunsOut, Delete, CommandWrites, WriteEnds
      <3>2. i \in daemons[n]
        BY <2>5 DEF OpenForWrite, WriteRunsOut, Delete, CommandWrites, WriteEnds, Served
      <3>3. QED BY <3>1, <3>2, <2>1
    <2>6. ASSUME NEW n \in Launchers, NEW k \in Images, DaemonExits(n, k) \/ DaemonLost(n, k)
          PROVE  FALSE
      BY <2>2, <2>6 DEF DaemonExits, DaemonLost
    <2>7. QED
      BY <2>4, <2>5, <2>6
         DEF LauncherNext, Work, Failure, vars, Launch, Refuse, Lock, ImageExists, BeginCopy,
             EndCopy, AcquireFails, StartDaemon, Mounted, MountFails, Read, RunCommand,
             CommandEnds, OperationFails, Exit, Reap, Kill, LauncherDies
  <1>4. QED BY <1>2, <1>3

\* What a write has stored outlives the crash of its own daemon.
THEOREM WritesAreDurable == LauncherSpec => StoredIsDurable
  <1> DEFINE Kept == \A i \in Images : \A l \in Launchers :
                       /\ file[i] = [by |-> l, whole |-> TRUE] /\ mode[l] = "write" /\ rc[l] = "ok"
                       /\ file'[i] # file[i]
                       => \E m \in Launchers \ {l} : i \in daemons[m]
  <1>1. IInv /\ [LauncherNext]_vars => [Kept]_vars
    BY DurableStep
  <1>2. QED BY <1>1, Invariant, PTL DEF LauncherSpec, StoredIsDurable

-----------------------------------------------------------------------------
\* A step of the storage and of the sandbox is one of the launchers, or leaves
\* them alone.
LEMMA StorageStep == TypeOK /\ [StorageNext]_allVars => [LauncherNext]_vars
  <1> SUFFICES ASSUME TypeOK, [StorageNext]_allVars PROVE [LauncherNext]_vars
    OBVIOUS
  <1>1. ASSUME NEW l \in Launchers, NEW m \in ModesOf[l], Call(l, m) PROVE LauncherNext
    BY <1>1 DEF Call, LauncherNext
  <1>2. ASSUME NEW l \in Launchers, "read" \in ModesOf[l], CallStream(l) PROVE LauncherNext
    BY <1>2 DEF CallStream, LauncherNext
  <1>3. ASSUME NEW l \in Launchers, SandboxCall(l) PROVE LauncherNext
    BY <1>3 DEF SandboxCall, LauncherNext
  <1>4. ASSUME NEW l \in Launchers,
               \/ Feed(l) \/ FeedBlocks(l) \/ Taken(l) \/ PipeBreaks(l) \/ FeedEnds(l)
               \/ SourceFails(l) \/ Answer(l) \/ Poll(l) \/ GiveUp(l) \/ Abandon(l)
        PROVE  UNCHANGED vars
    BY <1>4 DEF Feed, FeedBlocks, Taken, PipeBreaks, FeedEnds, SourceFails, Answer, Poll,
                GiveUp, Abandon
  <1>5. ASSUME NEW l \in Launchers, EndOfInput(l) PROVE LauncherNext
    BY <1>5 DEF EndOfInput, LauncherNext
  <1>6. ASSUME NEW l \in Launchers, Stalled(l) \/ CloseStream(l)
        PROVE  Kill(l) \/ UNCHANGED vars
    <2>1. killed' = [killed EXCEPT ![l] = killed[l] \/ Live(l)]
      BY <1>6 DEF Stalled, CloseStream
    <2>2. UNCHANGED <<pc, mode, at, locks, daemons, command, rc, imageVars>>
      BY <1>6 DEF Stalled, CloseStream
    <2>3. killed[l] \in BOOLEAN /\ [killed EXCEPT ![l] = killed[l]] = killed
      BY DEF TypeOK
    <2>4. CASE Live(l) /\ ~killed[l]
      <3>1. killed' = [killed EXCEPT ![l] = TRUE]
        BY <2>1, <2>4
      <3>2. QED BY <2>2, <2>4, <3>1 DEF Kill
    <2>5. CASE ~Live(l) \/ killed[l]
      <3>1. (killed[l] \/ Live(l)) = killed[l]
        BY <2>3, <2>5, Zenon
      <3>2. killed' = killed
        BY <2>1, <2>3, <3>1
      <3>3. QED BY <2>2, <3>2 DEF vars, launcherVars, imageVars
    <2>6. QED BY <2>4, <2>5
  <1>7. ASSUME NEW l \in Launchers, LauncherStep(l) \/ Deadline(l) \/ Break(l)
        PROVE  LauncherNext
    BY <1>7 DEF LauncherStep, Deadline, Break, LauncherNext
  <1>8. CASE UNCHANGED allVars
    BY <1>8 DEF allVars
  <1>9. QED
    BY <1>1, <1>2, <1>3, <1>4, <1>5, <1>6, <1>7, <1>8 DEF StorageNext, HostStep, LauncherNext

\* The storage and the sandbox use the images only through launchers, so all
\* of the above holds of them.
THEOREM StorageUsesLaunchers == StorageSpec => LauncherSpec
  <1>1. StorageInit => Init
    BY DEF StorageInit
  <1>2. QED BY <1>1, StorageStep, TypeInit, TypeStep, PTL DEF StorageSpec, LauncherSpec

\* Once nothing of a launcher is left, nothing of it comes back.
LEMMA GoneStays ==
  ASSUME TypeOK, [LauncherNext]_vars, NEW l \in Launchers, Gone(l)
  PROVE  Gone(l)'
  <1> USE DEF Gone, TypeOK, imageVars, launcherVars
  <1>1. CASE UNCHANGED vars
    BY <1>1 DEF vars
  <1>2. ASSUME NEW m \in Launchers, NEW k \in ModesOf[m], Launch(m, k) PROVE Gone(l)'
    BY <1>2 DEF Launch
  <1>3. ASSUME NEW m \in Launchers, NEW c \in BOOLEAN, WriteEnds(m, c) PROVE Gone(l)'
    BY <1>3 DEF WriteEnds, Stop
  <1>4. ASSUME NEW m \in Launchers, Work(m) PROVE Gone(l)'
    <2>1. ASSUME Lock(m) \/ BeginCopy(m) \/ EndCopy(m) \/ StartDaemon(m) \/ Mounted(m) PROVE Gone(l)'
      BY <2>1 DEF Lock, BeginCopy, EndCopy, StartDaemon, Mounted
    <2>2. ASSUME ImageExists(m) \/ Rename(m) PROVE Gone(l)'
      BY <2>2 DEF ImageExists, Rename, Acquired
    <2>3. ASSUME OpenForWrite(m) \/ Read(m) \/ Delete(m) \/ RunCommand(m) \/ CommandEnds(m) PROVE Gone(l)'
      BY <2>3 DEF OpenForWrite, Read, Delete, RunCommand, CommandEnds, Stop
    <2>4. ASSUME NEW i \in Images, DaemonExits(m, i) \/ DaemonLost(m, i) PROVE Gone(l)'
      BY <2>4 DEF DaemonExits, DaemonLost
    <2>5. ASSUME Exit(m) \/ Reap(m) PROVE Gone(l)'
      BY <2>5 DEF Exit, Reap
    <2>6. QED BY <1>4, <2>1, <2>2, <2>3, <2>4, <2>5 DEF Work
  <1>5. ASSUME NEW m \in Launchers, Failure(m) PROVE Gone(l)'
    BY <1>5 DEF Failure, AcquireFails, MountFails, WriteRunsOut, OperationFails, Stop
  <1>6. ASSUME NEW m \in Launchers,
               Refuse(m) \/ CommandWrites(m) \/ Kill(m) \/ LauncherDies(m)
        PROVE  Gone(l)'
    BY <1>6 DEF Refuse, CommandWrites, Kill, LauncherDies, Live
  <1>7. QED BY <1>1, <1>2, <1>3, <1>4, <1>5, <1>6 DEF LauncherNext

\* A caller is told how its operation ended only when all of it is gone.
LEMMA AnswerStep ==
  ASSUME host \in [Launchers -> Answered \cup {"idle", "waiting", "streaming", "stalling",
                                               "stalled", "abandoned"}],
         [StorageNext]_allVars
  PROVE  /\ host' \in [Launchers -> Answered \cup {"idle", "waiting", "streaming", "stalling",
                                                  "stalled", "abandoned"}]
         /\ \A l \in Launchers : host'[l] \in {"ok", "absent", "full"} =>
              host[l] \in {"ok", "absent", "full"} \/ (Gone(l) /\ UNCHANGED vars)
  <1> USE DEF Answered
  <1>1. CASE UNCHANGED host
    BY <1>1
  <1>2. ASSUME NEW m \in Launchers, NEW k \in ModesOf[m], Call(m, k)
        PROVE  host' = [host EXCEPT ![m] = "waiting"]
    BY <1>2 DEF Call
  <1>3. ASSUME NEW m \in Launchers, CallStream(m)
        PROVE  host' = [host EXCEPT ![m] = "streaming"]
    BY <1>3 DEF CallStream
  <1>4. ASSUME NEW m \in Launchers, SourceFails(m)
        PROVE  host' = [host EXCEPT ![m] = "error"] \/ host' = host
    BY <1>4 DEF SourceFails
  <1>5. ASSUME NEW m \in Launchers, Answer(m)
        PROVE  /\ Gone(m) /\ UNCHANGED vars
               /\ \E x \in Answered : host' = [host EXCEPT ![m] = x]
    BY <1>5 DEF Answer
  <1>6. ASSUME NEW m \in Launchers, GiveUp(m) \/ Stalled(m) \/ Abandon(m) \/ CloseStream(m)
        PROVE  \E x \in {"stalling", "stalled", "abandoned"} : host' = [host EXCEPT ![m] = x]
    BY <1>6 DEF GiveUp, Stalled, Abandon, CloseStream
  <1>7. QED
    BY <1>1, <1>2, <1>3, <1>4, <1>5, <1>6
       DEF StorageNext, HostStep, SandboxCall, LauncherStep, Deadline, Break, Feed, FeedBlocks,
           Taken, PipeBreaks, FeedEnds, EndOfInput, Poll, hostVars, allVars

\* When the answer comes nothing of the operation is left.
THEOREM AnswersAreFinal == StorageSpec => []AnsweredIsOver
  <1> DEFINE Over == /\ TypeOK
                     /\ host \in [Launchers -> Answered \cup {"idle", "waiting", "streaming",
                                                "stalling", "stalled", "abandoned"}]
                     /\ \A l \in Launchers : host[l] \in {"ok", "absent", "full"} => Gone(l)
  <1>1. StorageInit => Over
    BY TypeInit DEF StorageInit
  <1>2. Over /\ [StorageNext]_allVars => Over'
    <2> SUFFICES ASSUME Over, [StorageNext]_allVars PROVE Over'
      OBVIOUS
    <2>1. [LauncherNext]_vars
      BY StorageStep
    <2>2. TypeOK'
      BY <2>1, TypeStep
    <2>3. ASSUME NEW l \in Launchers, host'[l] \in {"ok", "absent", "full"} PROVE Gone(l)'
      <3>1. CASE host[l] \in {"ok", "absent", "full"}
        BY <2>1, <3>1, GoneStays
      <3>2. CASE Gone(l) /\ UNCHANGED vars
        BY <3>2 DEF Gone, vars, launcherVars
      <3>3. QED BY <2>3, <3>1, <3>2, AnswerStep
    <2>4. QED BY <2>2, <2>3, AnswerStep
  <1>3. Over => AnsweredIsOver
    BY DEF AnsweredIsOver, Gone, Held, Live
  <1>4. QED BY <1>1, <1>2, <1>3, PTL DEF StorageSpec


-----------------------------------------------------------------------------
(* ImageLauncher implements ImageLease                                     *)

\* An image differs from its disk only while a launcher that has come to its
\* operation has it mounted.
UsedBeforeDirty ==
  /\ \A i \in Images : file[i] # disk[i] =>
       \E l \in Launchers : i \in daemons[l] /\ pc[l] \in {"writing", "running", "stopping", "dead"}
  /\ \A l \in Launchers :
       pc[l] \in {"mounting", "waiting", "operating", "writing"} => command[l] = "none"

LInv == IInv /\ UsedBeforeDirty

-----------------------------------------------------------------------------
Using == {"writing", "running", "stopping", "dead"}
Before == {"mounting", "waiting", "operating", "writing"}

\* What the steps of one launcher must not do.
LEMMA StillUsed ==
  ASSUME UsedBeforeDirty, NEW l \in Launchers,
         \A m \in Launchers \ {l} :
           pc'[m] = pc[m] /\ daemons'[m] = daemons[m] /\ command'[m] = command[m],
         \A i \in Images : file'[i] # disk'[i] =>
           file[i] # disk[i] \/ (i \in daemons'[l] /\ pc'[l] \in Using),
         \A i \in daemons[l] : pc[l] \in Using /\ file'[i] # disk'[i] =>
           i \in daemons'[l] /\ pc'[l] \in Using,
         pc'[l] \in Before => command'[l] = "none"
  PROVE  UsedBeforeDirty'
  <1>1. ASSUME NEW i \in Images, file'[i] # disk'[i]
        PROVE  \E m \in Launchers : i \in daemons'[m] /\ pc'[m] \in Using
    <2>1. CASE file[i] # disk[i]
      <3>1. PICK m \in Launchers : i \in daemons[m] /\ pc[m] \in Using
        BY <2>1 DEF UsedBeforeDirty, Using
      <3>2. QED BY <1>1, <3>1
    <2>2. QED BY <1>1, <2>1
  <1>2. QED BY <1>1 DEF UsedBeforeDirty, Using, Before

\* A clean image stays so but for the steps that serve a file.
LEMMA DirtyStep == LInv /\ [LauncherNext]_vars => UsedBeforeDirty'
  <1> SUFFICES ASSUME LInv, [LauncherNext]_vars PROVE UsedBeforeDirty'
    OBVIOUS
  <1>0. /\ TypeOK /\ ExclusiveMount /\ LocksBeforeMounts /\ UsedBeforeDirty
        /\ \A l \in Launchers : Home(l) \in Images /\ Current(l) \in Images
    BY CurrentImage, OneAtATime DEF LInv, IInv
  <1> DEFINE Others(l) ==
        \A m \in Launchers \ {l} :
          pc'[m] = pc[m] /\ daemons'[m] = daemons[m] /\ command'[m] = command[m]
             Kept(l) == pc[l] \in Using => pc'[l] \in Using
             Unused(l) == pc'[l] \in Before => command'[l] = "none"
  <1> USE <1>0 DEF TypeOK, imageVars, launcherVars
  <1>1. ASSUME NEW l \in Launchers,
               \/ \E m \in ModesOf[l] : Launch(l, m)
               \/ Refuse(l) \/ Lock(l) \/ ImageExists(l) \/ BeginCopy(l) \/ EndCopy(l) \/ Rename(l)
               \/ AcquireFails(l)
        PROVE  UsedBeforeDirty'
    <2>1. Others(l) /\ daemons' = daemons /\ command' = command
      <3>1. CASE \E m \in ModesOf[l] : Launch(l, m)
        BY <3>1 DEF Launch
      <3>2. CASE Refuse(l) \/ Lock(l) \/ BeginCopy(l) \/ EndCopy(l) \/ AcquireFails(l)
        BY <3>2 DEF Refuse, Lock, BeginCopy, EndCopy, AcquireFails, Stop
      <3>3. CASE ImageExists(l) \/ Rename(l)
        BY <3>3 DEF ImageExists, Rename, Acquired
      <3>4. QED BY <1>1, <3>1, <3>2, <3>3
    <2>2. pc[l] \in Acquiring \cup {"idle"}
      BY <1>1 DEF Launch, Refuse, Lock, ImageExists, BeginCopy, EndCopy, Rename, AcquireFails
    <2>3. pc[l] \notin Using /\ command[l] = "none"
      BY <2>2 DEF LocksBeforeMounts, Using
    <2>4. \A i \in Images : file'[i] # disk'[i] => file[i] # disk[i]
      <3>1. CASE Rename(l)
        BY <3>1 DEF Rename
      <3>2. CASE ~Rename(l)
        BY <1>1, <3>2 DEF Launch, Refuse, Lock, ImageExists, BeginCopy, EndCopy, AcquireFails, Stop
      <3>3. QED BY <3>1, <3>2
    <2>5. QED BY <2>1, <2>3, <2>4, StillUsed
  <1>2. ASSUME NEW l \in Launchers, StartDaemon(l) \/ Mounted(l) \/ MountFails(l)
        PROVE  UsedBeforeDirty'
    <2>1. Others(l) /\ Unused(l) /\ pc[l] \notin Using
      BY <1>2 DEF StartDaemon, Mounted, MountFails, Stop, UsedBeforeDirty, Using, Before
    <2>2. UNCHANGED <<file, disk>>
      BY <1>2 DEF StartDaemon, Mounted, MountFails, Stop
    <2>3. QED BY <2>1, <2>2, StillUsed
  <1>3. ASSUME NEW l \in Launchers, OpenForWrite(l) \/ CommandWrites(l) PROVE UsedBeforeDirty'
    <2>1. Others(l) /\ daemons' = daemons /\ Kept(l) /\ Unused(l)
      BY <1>3 DEF OpenForWrite, CommandWrites, UsedBeforeDirty, Using, Before
    <2>2. Home(l) \in daemons[l] /\ pc'[l] \in Using
      <3>1. CASE OpenForWrite(l)
        BY <3>1 DEF OpenForWrite, Served, Using
      <3>2. CASE CommandWrites(l)
        <4>1. Home(l) \in daemons[l] /\ command[l] # "none" /\ pc' = pc
          BY <3>2 DEF CommandWrites, Served
        <4>2. pc[l] \notin Acquiring \cup {"idle", "mounting", "waiting", "operating", "writing"}
          BY <4>1 DEF UsedBeforeDirty, LocksBeforeMounts
        <4>3. QED BY <4>1, <4>2 DEF Using
      <3>3. QED BY <1>3, <3>1, <3>2
    <2>3. \A i \in Images \ {Home(l)} : file'[i] = file[i] /\ disk'[i] = disk[i]
      BY <1>3 DEF OpenForWrite, CommandWrites
    <2>4. QED BY <2>1, <2>2, <2>3, StillUsed
  <1>4. ASSUME NEW l \in Launchers,
               \/ WriteRunsOut(l) \/ Read(l) \/ Delete(l)
               \/ \E c \in BOOLEAN : WriteEnds(l, c)
        PROVE  UsedBeforeDirty'
    <2>1. Others(l) /\ daemons' = daemons /\ pc'[l] \in Using /\ pc'[l] \notin Before
      BY <1>4 DEF WriteRunsOut, Read, Delete, WriteEnds, Stop, Using, Before
    <2>2. Home(l) \in daemons[l]
      BY <1>4 DEF WriteRunsOut, Read, Delete, WriteEnds, Served
    <2>3. \A i \in Images \ {Home(l)} : file'[i] = file[i] /\ disk'[i] = disk[i]
      BY <1>4 DEF WriteRunsOut, Read, Delete, WriteEnds, Stop
    <2>4. QED BY <2>1, <2>2, <2>3, StillUsed
  <1>5. ASSUME NEW l \in Launchers, RunCommand(l) \/ CommandEnds(l) \/ OperationFails(l)
        PROVE  UsedBeforeDirty'
    <2>1. Others(l) /\ daemons' = daemons /\ Kept(l) /\ pc'[l] \notin Before
      BY <1>5 DEF RunCommand, CommandEnds, OperationFails, Stop, Using, Before
    <2>2. UNCHANGED <<file, disk>>
      BY <1>5 DEF RunCommand, CommandEnds, OperationFails, Stop
    <2>3. QED BY <2>1, <2>2, StillUsed
  <1>6. ASSUME NEW l \in Launchers, NEW i \in Images, DaemonExits(l, i) \/ DaemonLost(l, i)
        PROVE  UsedBeforeDirty'
    <2>1. Others(l) /\ pc' = pc /\ command' = command /\ daemons'[l] = daemons[l] \ {i}
      BY <1>6 DEF DaemonExits, DaemonLost
    <2>2. /\ file'[i] = disk'[i]
          /\ \A j \in Images \ {i} : file'[j] = file[j] /\ disk'[j] = disk[j]
      BY <1>6 DEF DaemonExits, DaemonLost
    <2>3. Unused(l)
      BY <2>1 DEF UsedBeforeDirty, Before
    <2>4. QED BY <2>1, <2>2, <2>3, StillUsed
  <1>7. ASSUME NEW l \in Launchers, Exit(l) \/ Reap(l) \/ Kill(l) \/ LauncherDies(l)
        PROVE  UsedBeforeDirty'
    <2>1. Others(l) /\ daemons' = daemons /\ Kept(l) /\ Unused(l)
      BY <1>7 DEF Exit, Reap, Kill, LauncherDies, UsedBeforeDirty, Using, Before
    <2>2. UNCHANGED <<file, disk>>
      BY <1>7 DEF Exit, Reap, Kill, LauncherDies
    <2>3. QED BY <2>1, <2>2, StillUsed
  <1>8. CASE UNCHANGED vars
    BY <1>8 DEF vars, UsedBeforeDirty
  <1>9. QED
    BY <1>1, <1>2, <1>3, <1>4, <1>5, <1>6, <1>7, <1>8 DEF LauncherNext, Work, Failure

LEMMA LeaseInvariant == LauncherSpec => []LInv
  <1>1. Init => UsedBeforeDirty
    BY DEF Init, UsedBeforeDirty
  <1>2. LInv /\ [LauncherNext]_vars => LInv'
    BY DirtyStep, InvStep DEF LInv
  <1>3. QED BY <1>1, <1>2, InvInit, PTL DEF LauncherSpec, LInv

-----------------------------------------------------------------------------
\* Who holds an image, while the locks exclude one another.
HoldersKnown ==
  \A i \in Images : /\ Holder(i) \in Launchers \cup {"nobody"}
                    /\ \A l \in Launchers : Held(l, i) <=> Holder(i) = l

LEMMA HolderIs == LockIsExclusive => HoldersKnown
  <1> SUFFICES ASSUME LockIsExclusive, NEW i \in Images
               PROVE  /\ Holder(i) \in Launchers \cup {"nobody"}
                      /\ \A l \in Launchers : Held(l, i) <=> Holder(i) = l
    BY DEF HoldersKnown
  <1>1. CASE \E l \in Launchers : Held(l, i)
    <2>1. PICK l \in Launchers : Held(l, i)
      BY <1>1
    <2>2. \A m \in Launchers : Held(m, i) <=> m = l
      BY <2>1 DEF LockIsExclusive
    <2>3. Holder(i) = l
      BY <2>1, <2>2 DEF Holder
    <2>4. QED BY <2>2, <2>3
  <1>2. CASE ~\E l \in Launchers : Held(l, i)
    BY <1>2, LauncherAssumption DEF Holder
  <1>3. QED BY <1>1, <1>2

LEMMA HolderIsNext == LockIsExclusive' => HoldersKnown'
  BY HolderIs, PTL

Up(l) == Live(l) \/ daemons[l] # {} \/ command[l] # "none"

\* A step of one launcher that neither locks nor is its last keeps all leases.
LEMMA LeasesStay ==
  ASSUME LockIsExclusive, LockIsExclusive', NEW l \in Launchers,
         \A m \in Launchers \ {l} : UNCHANGED <<pc[m], daemons[m], command[m]>>,
         locks' = locks, locks[l] = {} \/ (Up(l) <=> Up(l)')
  PROVE  Leases' = Leases
  <1>1. \A m \in Launchers, i \in Images : Held(m, i)' <=> Held(m, i)
    BY DEF Held, Up, Live
  <1>2. \A i \in Images : Holder(i)' = Holder(i)
    BY <1>1, HolderIs, HolderIsNext DEF HoldersKnown
  <1>3. QED BY <1>2 DEF Leases

\* Its last step ends its leases and no others.
LEMMA LeasesEnd ==
  ASSUME LockIsExclusive, LockIsExclusive', NEW l \in Launchers,
         \A m \in Launchers \ {l} : UNCHANGED <<pc[m], daemons[m], command[m]>>,
         locks' = locks, ~Up(l)'
  PROVE  Leases' = [i \in Images |-> IF Leases[i] = l THEN "nobody" ELSE Leases[i]]
  <1>1. \A i \in Images : /\ ~Held(l, i)'
                          /\ \A m \in Launchers \ {l} : Held(m, i)' <=> Held(m, i)
    BY DEF Held, Up, Live
  <1>2. \A i \in Images : Holder(i)' = IF Holder(i) = l THEN "nobody" ELSE Holder(i)
    BY <1>1, HolderIs, HolderIsNext, LauncherAssumption DEF HoldersKnown
  <1>3. QED BY <1>2 DEF Leases

\* The steps that are none to the leases.
LEMMA OtherSteps ==
  ASSUME LInv, LInv', NEW l \in Launchers,
         \/ \E m \in ModesOf[l] : Launch(l, m)
         \/ Refuse(l) \/ ImageExists(l) \/ BeginCopy(l) \/ EndCopy(l) \/ Rename(l)
         \/ AcquireFails(l) \/ StartDaemon(l) \/ Mounted(l) \/ MountFails(l) \/ Read(l)
         \/ RunCommand(l) \/ CommandEnds(l) \/ OperationFails(l) \/ Kill(l)
  PROVE  UNCHANGED Lease!leaseVars
  <1> USE DEF LInv, IInv, TypeOK, imageVars, launcherVars
  <1>1. CASE \E m \in ModesOf[l] : Launch(l, m)
    <2>1. UNCHANGED <<locks, file, disk>> /\ locks[l] = {}
      BY <1>1 DEF Launch, LocksBeforeMounts
    <2>2. \A m \in Launchers \ {l} : UNCHANGED <<pc[m], daemons[m], command[m]>>
      BY <1>1 DEF Launch
    <2>3. QED BY <2>1, <2>2, LeasesStay DEF Lease!leaseVars
  <1>2. CASE Refuse(l)
    <2>1. UNCHANGED <<locks, file, disk>> /\ locks[l] = {}
      BY <1>2 DEF Refuse, LocksBeforeMounts
    <2>2. \A m \in Launchers \ {l} : UNCHANGED <<pc[m], daemons[m], command[m]>>
      BY <1>2 DEF Refuse
    <2>3. QED BY <2>1, <2>2, LeasesStay DEF Lease!leaseVars
  <1>3. CASE ImageExists(l) \/ BeginCopy(l) \/ EndCopy(l) \/ AcquireFails(l)
    <2>1. UNCHANGED <<locks, file, disk>> /\ Live(l) /\ Live(l)'
      BY <1>3 DEF ImageExists, Acquired, BeginCopy, EndCopy, AcquireFails, Stop, Live
    <2>2. \A m \in Launchers \ {l} : UNCHANGED <<pc[m], daemons[m], command[m]>>
      BY <1>3 DEF ImageExists, Acquired, BeginCopy, EndCopy, AcquireFails, Stop
    <2>3. QED BY <2>1, <2>2, LeasesStay DEF Lease!leaseVars, Up
  <1>4. CASE Rename(l)
    <2>1. file[Current(l)] = NoFile /\ disk[Current(l)] = NoFile
      BY <1>4, CurrentImage DEF Rename, WholeBeforeMount, UsedBeforeDirty
    <2>2. UNCHANGED <<file, disk>>
      BY <1>4, <2>1 DEF Rename
    <2>3. UNCHANGED locks /\ Live(l) /\ Live(l)'
      BY <1>4 DEF Rename, Acquired, Live
    <2>4. \A m \in Launchers \ {l} : UNCHANGED <<pc[m], daemons[m], command[m]>>
      BY <1>4 DEF Rename, Acquired
    <2>5. QED BY <2>2, <2>3, <2>4, LeasesStay DEF Lease!leaseVars, Up
  <1>5. CASE StartDaemon(l) \/ Mounted(l) \/ MountFails(l) \/ Read(l)
    <2>1. UNCHANGED <<locks, file, disk>> /\ Live(l) /\ Live(l)'
      BY <1>5 DEF StartDaemon, Mounted, MountFails, Read, Stop, Live
    <2>2. \A m \in Launchers \ {l} : UNCHANGED <<pc[m], daemons[m], command[m]>>
      BY <1>5 DEF StartDaemon, Mounted, MountFails, Read, Stop
    <2>3. QED BY <2>1, <2>2, LeasesStay DEF Lease!leaseVars, Up
  <1>6. CASE RunCommand(l) \/ CommandEnds(l) \/ OperationFails(l) \/ Kill(l)
    <2>1. UNCHANGED <<locks, file, disk>> /\ Live(l) /\ Live(l)'
      BY <1>6 DEF RunCommand, CommandEnds, OperationFails, Kill, Stop, Live
    <2>2. \A m \in Launchers \ {l} : UNCHANGED <<pc[m], daemons[m], command[m]>>
      BY <1>6 DEF RunCommand, CommandEnds, OperationFails, Kill, Stop
    <2>3. QED BY <2>1, <2>2, LeasesStay DEF Lease!leaseVars, Up
  <1>7. QED BY <1>1, <1>2, <1>3, <1>4, <1>5, <1>6

\* The steps that take, use, settle and end leases.
LEMMA TakeSteps ==
  ASSUME LInv, LInv', NEW l \in Launchers, Lock(l)
  PROVE  \E i \in Images : Lease!Take(l, i)
  <1> USE DEF LInv, IInv, TypeOK, imageVars, launcherVars
  <1>1. PICK i \in Images : i = Current(l)
    BY CurrentImage
  <1>2. \A m \in Launchers : ~Held(m, i)
    BY <1>1 DEF Lock
  <1>3. /\ locks'[l] = locks[l] \cup {i} /\ pc[l] = "locking" /\ pc'[l] = "checking"
        /\ \A m \in Launchers \ {l} : locks'[m] = locks[m] /\ pc'[m] = pc[m]
        /\ UNCHANGED <<daemons, command, file, disk>>
    BY <1>1 DEF Lock
  <1>4. /\ Held(l, i)'
        /\ \A j \in Images \ {i}, m \in Launchers : Held(m, j)' <=> Held(m, j)
    BY <1>3 DEF Held, Live
  <1>5. Holder(i) = "nobody" /\ Holder(i)' = l
    BY <1>2, <1>4, HolderIs, HolderIsNext, LauncherAssumption DEF HoldersKnown
  <1>6. \A j \in Images \ {i} : Holder(j)' = Holder(j)
    BY <1>4, HolderIs, HolderIsNext, LauncherAssumption DEF HoldersKnown
  <1>7. Leases' = [Leases EXCEPT ![i] = l]
    <2>1. \A j \in Images : Holder(j)' = IF j = i THEN l ELSE Holder(j)
      BY <1>5, <1>6
    <2>2. QED BY <2>1 DEF Leases
  <1>8. QED BY <1>3, <1>5, <1>7 DEF Lease!Take, Lease!Nobody, Leases

LEMMA PutSteps ==
  ASSUME LInv, LInv', NEW l \in Launchers,
         \/ OpenForWrite(l) \/ WriteRunsOut(l) \/ Delete(l) \/ CommandWrites(l)
         \/ \E c \in BOOLEAN : WriteEnds(l, c)
  PROVE  (\E i \in Images : Lease!Put(l, i)) \/ UNCHANGED Lease!leaseVars
  <1> USE DEF LInv, IInv, TypeOK, imageVars, launcherVars
  <1> DEFINE i == Home(l)
  <1>1. i \in Images /\ i \in daemons[l]
    BY CurrentImage DEF OpenForWrite, WriteRunsOut, Delete, CommandWrites, WriteEnds, Served
  <1>2. Leases[i] = l
    BY <1>1, HolderIs DEF LocksBeforeMounts, Held, HoldersKnown, Leases
  <1>3. UNCHANGED <<locks, daemons>>
    BY DEF OpenForWrite, WriteRunsOut, Delete, CommandWrites, WriteEnds, Stop
  <1>4. \A m \in Launchers \ {l} : UNCHANGED <<pc[m], daemons[m], command[m]>>
    BY DEF OpenForWrite, WriteRunsOut, Delete, CommandWrites, WriteEnds, Stop
  <1>5. Leases' = Leases
    BY <1>1, <1>3, <1>4, LeasesStay DEF Up
  <1>6. \A x \in Lease!FilesOf(l) : file' = [file EXCEPT ![i] = x]
          /\ disk' \in {disk, [disk EXCEPT ![i] = x]} => Lease!Put(l, i)
    BY <1>2, <1>5 DEF Lease!Put
  <1>7. NoFile \in Lease!FilesOf(l)
    BY DEF NoFile, Lease!FilesOf, Lease!Nothing, Lease!Nobody
  <1>8. \A b \in BOOLEAN : [by |-> l, whole |-> b] \in Lease!FilesOf(l)
    BY DEF Lease!FilesOf
  <1> DEFINE Set(f, x) == [f EXCEPT ![i] = x]
  <1>9. CASE OpenForWrite(l)
    <2>1. file' = Set(file, [by |-> l, whole |-> FALSE]) /\ disk' = disk
      BY <1>9 DEF OpenForWrite
    <2>2. QED BY <1>1, <1>6, <1>8, <2>1
  <1>10. CASE WriteRunsOut(l)
    <2>1. file' \in {file, Set(file, NoFile)} /\ disk' = disk
      BY <1>10 DEF WriteRunsOut
    <2>2. CASE file' = file
      BY <1>5, <2>1, <2>2 DEF Lease!leaseVars
    <2>3. CASE file' = Set(file, NoFile)
      BY <1>1, <1>6, <1>7, <2>1, <2>3
    <2>4. QED BY <2>1, <2>2, <2>3
  <1>11. CASE Delete(l)
    <2>1. file' = Set(file, NoFile) /\ disk' = disk
      BY <1>11 DEF Delete
    <2>2. QED BY <1>1, <1>6, <1>7, <2>1
  <1>12. CASE CommandWrites(l)
    <2>1. file' = Set(file, [by |-> l, whole |-> TRUE]) /\ disk' = disk
      BY <1>12 DEF CommandWrites
    <2>2. QED BY <1>1, <1>6, <1>8, <2>1
  <1>13. ASSUME NEW c \in BOOLEAN, WriteEnds(l, c) PROVE \E j \in Images : Lease!Put(l, j)
    <2>1. /\ file' = Set(file, [by |-> l, whole |-> c])
          /\ disk' = Set(disk, [by |-> l, whole |-> c])
      BY <1>13 DEF WriteEnds
    <2>2. QED BY <1>1, <1>6, <1>8, <2>1
  <1>14. QED BY <1>9, <1>10, <1>11, <1>12, <1>13

\* What a launcher holds but has not mounted is on the disk.
LEMMA UnmountedIsClean ==
  ASSUME LInv, NEW l \in Launchers, NEW i \in Images, Leases[i] = l, i \notin daemons[l]
  PROVE  file[i] = disk[i]
  <1> USE DEF LInv, IInv
  <1>1. Held(l, i)
    BY HolderIs DEF HoldersKnown, Leases
  <1>2. \A m \in Launchers : i \in daemons[m] => m = l
    BY <1>1 DEF LocksBeforeMounts, Held, LockIsExclusive
  <1>3. QED BY <1>2 DEF UsedBeforeDirty

LEMMA SettleSteps ==
  ASSUME LInv, LInv', NEW l \in Launchers, NEW i \in Images,
         DaemonExits(l, i) \/ DaemonLost(l, i)
  PROVE  Lease!Settle(l, i)
  <1> USE DEF LInv, IInv, TypeOK, imageVars, launcherVars
  <1>1. i \in daemons[l] /\ UNCHANGED <<pc, locks, command>>
    BY DEF DaemonExits, DaemonLost
  <1>2. Leases[i] = l
    BY <1>1, HolderIs DEF LocksBeforeMounts, Held, HoldersKnown, Leases
  <1>3. \E x \in {file[i], disk[i]} :
          file' = [file EXCEPT ![i] = x] /\ disk' = [disk EXCEPT ![i] = x]
    BY DEF DaemonExits, DaemonLost
  <1>4. \A m \in Launchers \ {l} : UNCHANGED <<pc[m], daemons[m], command[m]>>
    BY <1>1 DEF DaemonExits, DaemonLost
  <1>5. CASE Up(l)'
    <2>1. Leases' = Leases
      BY <1>1, <1>4, <1>5, LeasesStay DEF Up
    <2>2. QED BY <1>2, <1>3, <2>1 DEF Lease!Settle
  <1>6. CASE ~Up(l)'
    <2>1. Leases' = [j \in Images |-> IF Leases[j] = l THEN "nobody" ELSE Leases[j]]
      BY <1>1, <1>4, <1>6, LeasesEnd
    <2>2. daemons[l] \subseteq {i}
      BY <1>6 DEF Up, DaemonExits, DaemonLost
    <2>3. \A j \in Images \ {i} : Leases[j] = l => file[j] = disk[j]
      BY <2>2, UnmountedIsClean
    <2>4. \A j \in Images : Leases[j] = l => file'[j] = disk'[j]
      BY <1>3, <2>3
    <2>5. Lease!Ends(l)
      BY <2>1, <2>4 DEF Lease!Ends, Lease!Nobody
    <2>6. QED BY <1>2, <1>3, <2>5 DEF Lease!Settle
  <1>7. QED BY <1>5, <1>6

LEMMA LeaveSteps ==
  ASSUME LInv, LInv', NEW l \in Launchers, Exit(l) \/ Reap(l) \/ LauncherDies(l)
  PROVE  Lease!Leave(l) \/ UNCHANGED Lease!leaseVars
  <1> USE DEF LInv, IInv, TypeOK, imageVars, launcherVars
  <1>1. UNCHANGED <<locks, daemons, file, disk>> /\ Up(l)
    BY DEF Exit, Reap, LauncherDies, Up, Live
  <1>2. \A m \in Launchers \ {l} : UNCHANGED <<pc[m], daemons[m], command[m]>>
    BY DEF Exit, Reap, LauncherDies
  <1>3. CASE Up(l)'
    <2>1. Leases' = Leases
      BY <1>1, <1>2, <1>3, LeasesStay
    <2>2. QED BY <1>1, <2>1 DEF Lease!leaseVars
  <1>4. CASE ~Up(l)'
    <2>1. Leases' = [j \in Images |-> IF Leases[j] = l THEN "nobody" ELSE Leases[j]]
      BY <1>1, <1>2, <1>4, LeasesEnd
    <2>2. daemons[l] = {}
      BY <1>1, <1>4 DEF Up
    <2>3. \A j \in Images : Leases[j] = l => file'[j] = disk'[j]
      BY <1>1, <2>2, UnmountedIsClean
    <2>4. QED BY <1>1, <2>1, <2>3 DEF Lease!Leave, Lease!Ends, Lease!Nobody
  <1>5. QED BY <1>3, <1>4

LEMMA LeaseStep == LInv /\ LInv' /\ [LauncherNext]_vars => [Lease!LeaseNext]_(Lease!leaseVars)
  <1> SUFFICES ASSUME LInv, LInv', [LauncherNext]_vars
               PROVE  [Lease!LeaseNext]_(Lease!leaseVars)
    OBVIOUS
  <1>1. ASSUME NEW l \in Launchers, Lock(l) PROVE Lease!LeaseNext
    BY <1>1, TakeSteps DEF Lease!LeaseNext
  <1>2. ASSUME NEW l \in Launchers,
               \/ OpenForWrite(l) \/ WriteRunsOut(l) \/ Delete(l) \/ CommandWrites(l)
               \/ \E c \in BOOLEAN : WriteEnds(l, c)
        PROVE  [Lease!LeaseNext]_(Lease!leaseVars)
    BY <1>2, PutSteps DEF Lease!LeaseNext
  <1>3. ASSUME NEW l \in Launchers, NEW i \in Images, DaemonExits(l, i) \/ DaemonLost(l, i)
        PROVE  Lease!LeaseNext
    BY <1>3, SettleSteps DEF Lease!LeaseNext
  <1>4. ASSUME NEW l \in Launchers, Exit(l) \/ Reap(l) \/ LauncherDies(l)
        PROVE  [Lease!LeaseNext]_(Lease!leaseVars)
    BY <1>4, LeaveSteps DEF Lease!LeaseNext
  <1>5. CASE UNCHANGED vars
    <2>1. \A l \in Launchers, i \in Images : Held(l, i)' <=> Held(l, i)
      BY <1>5 DEF vars, launcherVars, Held, Live
    <2>2. \A i \in Images : Holder(i)' = Holder(i)
      BY <2>1, HolderIs, HolderIsNext DEF HoldersKnown, LInv, IInv
    <2>3. QED BY <1>5, <2>2 DEF vars, imageVars, Leases, Lease!leaseVars
  <1>6. QED
    BY <1>1, <1>2, <1>3, <1>4, <1>5, OtherSteps DEF LauncherNext, Work, Failure

\* Launchers that may be killed at any moment give and take images as leases:
\* ImageLauncher implements ImageLease.
THEOREM LaunchersLease == LauncherSpec => LeaseIsKept
  <1>1. Init => Lease!LeaseInit
    <2> SUFFICES ASSUME Init PROVE Lease!LeaseInit
      OBVIOUS
    <2>1. \A i \in Images : Holder(i) = "nobody"
      BY DEF Init, Holder, Held
    <2>2. QED BY <2>1 DEF Init, Leases, NoFile, Lease!LeaseInit, Lease!Nothing, Lease!Nobody
  <1>2. QED BY <1>1, LeaseStep, LeaseInvariant, PTL DEF LauncherSpec, LeaseIsKept, Lease!LeaseSpec

\* So do the operations of the storage and the commands of the sandbox.
THEOREM StorageLeases == StorageSpec => LeaseIsKept
  BY LaunchersLease, StorageUsesLaunchers

-----------------------------------------------------------------------------
(* Torn files are reported                                                 *)

Hosts == Answered \cup {"idle", "waiting", "streaming", "stalling", "stalled", "abandoned"}
Pipes == {"none", "open", "full", "closing", "closed"}

HostTyped ==
  /\ host \in [Launchers -> Hosts] /\ stdin \in [Launchers -> Pipes]
  /\ fed \in [Launchers -> Nat]

\* Launcher l wrote image i and did not come to the end.
Torn(l, i) ==
  \/ file[i] = [by |-> l, whole |-> FALSE]
  \/ disk[i] = [by |-> l, whole |-> FALSE]

\* A pipe belongs to a write, and no write answers 0 before its end.
PipesAreWrites ==
  \A l \in Launchers :
    /\ stdin[l] # "none" => mode[l] = "write" /\ pc[l] # "idle"
    /\ stdin[l] \in {"open", "full", "closing"} => rc[l] # "ok"

\* Who still waits for an upload whose pipe was closed too early will find its
\* launcher dead; a pipe is closing only when nobody waits.
EarlyEndIsKnown ==
  \A l \in Launchers :
    /\ stdin[l] = "closed" /\ host[l] = "waiting" /\ fed[l] # Chunks
         => pc[l] = "dead" /\ rc[l] # "ok"
    /\ stdin[l] = "closing" => host[l] # "waiting"

AnswersAreCodes ==
  \A l \in Launchers :
    /\ host[l] = "streaming" => mode[l] = "read" /\ pc[l] # "idle"
    /\ host[l] = "ok" => rc[l] = "ok" /\ pc[l] = "dead"

TornByWriters ==
  \A i \in Images : \A l \in Launchers : Torn(l, i) =>
    /\ mode[l] = "write" /\ pc[l] # "idle"
    /\ rc[l] = "ok" => host[l] \notin {"waiting", "ok"}

TornInv ==
  IInv /\ HostTyped /\ PipesAreWrites /\ EarlyEndIsKnown /\ AnswersAreCodes /\ TornByWriters

-----------------------------------------------------------------------------
(* What the launchers do by themselves                                     *)

\* A step of launcher m other than the end of its input.
Inner(m) ==
  \/ \E k \in ModesOf[m] : Launch(m, k)
  \/ Refuse(m) \/ Work(m) \/ Failure(m) \/ CommandWrites(m) \/ Kill(m) \/ LauncherDies(m)

\* What such a step can do to a launcher and to the files it wrote.
Quiet(l) ==
  /\ pc[l] # "idle" => pc'[l] # "idle" /\ mode'[l] = mode[l]
  /\ pc[l] = "dead" => pc'[l] = "dead" /\ rc'[l] = rc[l]
  /\ rc'[l] = "ok" /\ rc[l] # "ok" => mode[l] # "write"
  /\ \A i \in Images : Torn(l, i)' =>
       Torn(l, i) \/ (mode[l] = "write" /\ pc[l] = "operating" /\ rc'[l] = rc[l])

\* No launcher finishes a write without the end of its input.
LEMMA InnerIsQuiet ==
  ASSUME TypeOK, SyncedBeforeAnswer, NEW m \in Launchers, Inner(m), NEW l \in Launchers
  PROVE  Quiet(l)
  <1> USE DEF TypeOK, imageVars, launcherVars
  <1>0. \A j \in Launchers : Home(j) \in Images /\ Current(j) \in Images
    BY CurrentImage
  <1>a. \A i \in Images : [by |-> l, whole |-> FALSE] # NoFile
    BY DEF NoFile
  <1>1. CASE \E k \in ModesOf[m] : Launch(m, k)
    BY <1>1 DEF Launch, Quiet, Torn
  <1>2. CASE Refuse(m) \/ Kill(m) \/ LauncherDies(m)
    BY <1>2 DEF Refuse, Kill, LauncherDies, Live, Quiet, Torn
  <1>3. CASE Lock(m) \/ BeginCopy(m) \/ EndCopy(m) \/ StartDaemon(m) \/ Mounted(m)
             \/ Exit(m) \/ Reap(m)
    BY <1>3 DEF Lock, BeginCopy, EndCopy, StartDaemon, Mounted, Exit, Reap, Quiet, Torn
  <1>4. CASE ImageExists(m)
    BY <1>4 DEF ImageExists, Acquired, Quiet, Torn
  <1>5. CASE Rename(m)
    <2>1. UNCHANGED <<mode, rc>>
      BY <1>5 DEF Rename
    <2>2. pc[l] # "idle" => pc'[l] # "idle"
      BY <1>5 DEF Rename, Acquired
    <2>3. pc[l] = "dead" => pc'[l] = "dead"
      BY <1>5 DEF Rename, Acquired
    <2>4. ASSUME NEW i \in Images, Torn(l, i)' PROVE Torn(l, i)
      BY <2>4, <1>5, <1>0, <1>a DEF Rename, Torn
    <2> QED
      BY <2>1, <2>2, <2>3, <2>4 DEF Quiet
  <1>6. CASE OpenForWrite(m)
    <2>1. /\ UNCHANGED <<mode, rc, disk>> /\ mode[m] = "write" /\ pc[m] = "operating"
          /\ pc' = [pc EXCEPT ![m] = "writing"]
          /\ file' = [file EXCEPT ![Home(m)] = [by |-> m, whole |-> FALSE]]
      BY <1>6 DEF OpenForWrite
    <2>2. ASSUME NEW i \in Images, Torn(l, i)', l # m PROVE Torn(l, i)
      BY <2>1, <2>2, <1>0 DEF Torn
    <2> QED
      BY <2>1, <2>2 DEF Quiet
  <1>7. CASE Read(m) \/ RunCommand(m) \/ CommandEnds(m)
    <2>1. CASE Read(m)
      BY <2>1 DEF Read, Stop, Quiet, Torn
    <2>2. CASE RunCommand(m)
      BY <2>2 DEF RunCommand, Quiet, Torn
    <2>3. CASE CommandEnds(m)
      <3>1. mode[m] = "run"
        BY <2>3 DEF CommandEnds, SyncedBeforeAnswer
      <3> QED
        BY <2>3, <3>1 DEF CommandEnds, Quiet, Torn
    <2> QED
      BY <1>7, <2>1, <2>2, <2>3
  <1>8. CASE Delete(m)
    <2>1. /\ UNCHANGED <<mode, disk>> /\ mode[m] = "delete" /\ pc[m] = "operating"
          /\ pc' = [pc EXCEPT ![m] = "stopping"]
          /\ \E code \in {"notfound", "ok"} : rc' = [rc EXCEPT ![m] = code]
          /\ file' = [file EXCEPT ![Home(m)] = NoFile]
      BY <1>8 DEF Delete, Stop
    <2>2. ASSUME NEW i \in Images, Torn(l, i)' PROVE Torn(l, i)
      BY <2>1, <2>2, <1>0, <1>a DEF Torn
    <2> QED
      BY <2>1, <2>2 DEF Quiet
  <1>9. CASE CommandWrites(m)
    <2>1. /\ UNCHANGED <<pc, mode, rc, disk>>
          /\ file' = [file EXCEPT ![Home(m)] = [by |-> m, whole |-> TRUE]]
      BY <1>9 DEF CommandWrites
    <2>2. ASSUME NEW i \in Images, Torn(l, i)' PROVE Torn(l, i)
      BY <2>1, <2>2, <1>0 DEF Torn
    <2> QED
      BY <2>1, <2>2 DEF Quiet
  <1>10. ASSUME NEW i \in Images, DaemonExits(m, i) \/ DaemonLost(m, i) PROVE Quiet(l)
    <2>1. UNCHANGED <<pc, mode, rc>>
      BY <1>10 DEF DaemonExits, DaemonLost
    <2>2. /\ \A j \in Images : j # i => file'[j] = file[j] /\ disk'[j] = disk[j]
          /\ file'[i] \in {file[i], disk[i]} /\ disk'[i] \in {file[i], disk[i]}
      BY <1>10 DEF DaemonExits, DaemonLost
    <2>3. ASSUME NEW j \in Images, Torn(l, j)' PROVE Torn(l, j)
      BY <2>2, <2>3 DEF Torn
    <2> QED
      BY <2>1, <2>3 DEF Quiet
  <1>11. CASE AcquireFails(m) \/ MountFails(m) \/ OperationFails(m)
    BY <1>11 DEF AcquireFails, MountFails, OperationFails, Stop, Quiet, Torn
  <1>12. CASE WriteRunsOut(m)
    <2>1. /\ UNCHANGED <<mode, disk>> /\ pc[m] = "writing"
          /\ pc' = [pc EXCEPT ![m] = "stopping"] /\ rc' = [rc EXCEPT ![m] = "nospace"]
          /\ file' \in {file, [file EXCEPT ![Home(m)] = NoFile]}
      BY <1>12 DEF WriteRunsOut, Stop
    <2>2. ASSUME NEW i \in Images, Torn(l, i)' PROVE Torn(l, i)
      BY <2>1, <2>2, <1>0, <1>a DEF Torn
    <2> QED
      BY <2>1, <2>2 DEF Quiet
  <1> QED
    BY <1>1, <1>2, <1>3, <1>4, <1>5, <1>6, <1>7, <1>8, <1>9, <1>10, <1>11, <1>12
    DEF Inner, Work, Failure

-----------------------------------------------------------------------------
(* What the storage client does                                            *)

Stays(l) == UNCHANGED <<host[l], stdin[l], fed[l]>>

Calls(l) ==
  /\ pc[l] = "idle" /\ pc'[l] = "locking" /\ rc'[l] = rc[l] /\ fed'[l] = fed[l]
  /\ \/ /\ host'[l] = "waiting" /\ stdin'[l] \in {"none", "open"}
        /\ stdin'[l] = "open" => mode'[l] = "write"
     \/ host'[l] = "streaming" /\ mode'[l] = "read" /\ stdin'[l] = stdin[l]

Feeds(l) ==
  /\ host'[l] = host[l] /\ UNCHANGED vars
  /\ \/ stdin[l] \in {"open", "full"} /\ stdin'[l] \in {"open", "full"}
     \/ stdin[l] = "closing" /\ stdin'[l] = "closed"
     \/ /\ stdin[l] \in {"open", "full", "closing"} /\ stdin'[l] = "closed"
        /\ fed'[l] = fed[l] /\ (fed[l] = Chunks \/ pc[l] = "dead")

Gives(l) ==
  /\ fed'[l] = fed[l] /\ UNCHANGED <<pc, mode, rc, file, disk>>
  /\ host'[l] # "waiting" /\ (host'[l] \in {"streaming", "ok"} => host'[l] = host[l])
  /\ \/ stdin'[l] = stdin[l]
     \/ stdin[l] \in {"open", "full"} /\ stdin'[l] \in {"closed", "closing"}

Answers(l) ==
  /\ UNCHANGED vars /\ UNCHANGED <<stdin[l], fed[l]>>
  /\ stdin[l] \in {"none", "closed"} /\ host[l] \in {"waiting", "streaming"}
  /\ host'[l] \in Answered /\ (host'[l] = "ok" => rc[l] = "ok" /\ pc[l] = "dead")

\* All that can happen to an operation while the launchers go on.
LEMMA HostSteps ==
  ASSUME HostTyped, PipesAreWrites, TypeOK, [StorageNext]_allVars, NEW l \in Launchers
  PROVE  Stays(l) \/ Calls(l) \/ Feeds(l) \/ Gives(l) \/ Answers(l)
  <1> USE DEF HostTyped, Hosts, Pipes
  <1>1. CASE UNCHANGED allVars
    BY <1>1 DEF allVars, hostVars, Stays
  <1>2. ASSUME NEW m \in Launchers, l # m, \/ (\E k \in ModesOf[m] : Call(m, k))
                                          \/ CallStream(m) \/ SandboxCall(m) \/ HostStep(m)
                                          \/ LauncherStep(m) \/ Deadline(m) \/ Break(m)
        PROVE  Stays(l)
    BY <1>2 DEF Call, CallStream, SandboxCall, HostStep, LauncherStep, Deadline, Break, Feed,
      FeedBlocks, Taken, PipeBreaks, FeedEnds, SourceFails, EndOfInput, Answer, Poll, GiveUp,
      Stalled, Abandon, CloseStream, hostVars, Stays
  <1>3. ASSUME SandboxCall(l) \/ LauncherStep(l) \/ Deadline(l) \/ Break(l) \/ EndOfInput(l)
               \/ Poll(l)
        PROVE  Stays(l)
    BY <1>3 DEF SandboxCall, LauncherStep, Deadline, Break, EndOfInput, Poll, hostVars, Stays
  <1>4. ASSUME NEW k \in ModesOf[l], Call(l, k) PROVE Calls(l)
    BY <1>4 DEF Call, Launch, Calls, TypeOK
  <1>5. ASSUME CallStream(l) PROVE Calls(l)
    BY <1>5 DEF CallStream, Launch, Calls, TypeOK
  <1>6. ASSUME Feed(l) \/ FeedBlocks(l) \/ Taken(l) \/ PipeBreaks(l) \/ FeedEnds(l)
        PROVE  Feeds(l)
    BY <1>6 DEF Feed, FeedBlocks, Taken, PipeBreaks, FeedEnds, Feeds
  <1>7. ASSUME SourceFails(l) PROVE Gives(l) \/ Feeds(l)
    BY <1>7 DEF SourceFails, Gives, Feeds, vars, launcherVars, imageVars
  <1>8. ASSUME GiveUp(l) PROVE Gives(l)
    BY <1>8 DEF GiveUp, Gives, vars, launcherVars, imageVars
  <1>9. ASSUME Stalled(l) \/ Abandon(l) \/ CloseStream(l) PROVE Gives(l)
    BY <1>9 DEF Stalled, Abandon, CloseStream, Gives, vars, launcherVars, imageVars
  <1>10. ASSUME Answer(l) PROVE Answers(l)
    BY <1>10 DEF Answer, Answers, Answered, Gone
  <1> QED
    BY <1>1, <1>2, <1>3, <1>4, <1>5, <1>6, <1>7, <1>8, <1>9, <1>10
    DEF StorageNext, HostStep

\* A step of the storage is one of a launcher that does not end a write, the
\* end of an input, or leaves the launchers alone.
LEMMA StorageIsQuiet ==
  ASSUME TypeOK, SyncedBeforeAnswer, [StorageNext]_allVars, NEW l \in Launchers
  PROVE  Quiet(l) \/ EndOfInput(l)
  <1>1. ASSUME UNCHANGED vars PROVE Quiet(l)
    BY <1>1 DEF vars, launcherVars, imageVars, Quiet, Torn
  <1>2. ASSUME NEW m \in Launchers, EndOfInput(m), m # l PROVE Quiet(l)
    <2>1. Home(m) \in Images
      BY CurrentImage
    <2>2. PICK c \in BOOLEAN : WriteEnds(m, c)
      BY <1>2 DEF EndOfInput
    <2>3. /\ pc' = [pc EXCEPT ![m] = "stopping"] /\ rc' = [rc EXCEPT ![m] = "ok"]
          /\ mode' = mode
          /\ file' = [file EXCEPT ![Home(m)] = [by |-> m, whole |-> c]]
          /\ disk' = [disk EXCEPT ![Home(m)] = [by |-> m, whole |-> c]]
      BY <2>2 DEF WriteEnds, Stop
    <2>4. pc'[l] = pc[l] /\ rc'[l] = rc[l] /\ mode'[l] = mode[l]
      BY <1>2, <2>3 DEF TypeOK
    <2>5. ASSUME NEW i \in Images, Torn(l, i)' PROVE Torn(l, i)
      <3>1. CASE i = Home(m)
        <4>1. file'[i].by = m /\ disk'[i].by = m
          BY <2>1, <2>3, <3>1 DEF TypeOK
        <4> QED
          BY <1>2, <2>5, <4>1 DEF Torn
      <3>2. CASE i # Home(m)
        BY <2>3, <2>5, <3>2 DEF Torn, TypeOK
      <3> QED
        BY <3>1, <3>2
    <2> QED
      BY <2>4, <2>5 DEF Quiet
  <1>3. ASSUME NEW m \in Launchers, Stalled(m) \/ CloseStream(m) PROVE Quiet(l)
    BY <1>3 DEF Stalled, CloseStream, imageVars, Quiet, Torn
  <1>4. ASSUME NEW m \in Launchers,
               \/ (\E k \in ModesOf[m] : Call(m, k)) \/ CallStream(m) \/ SandboxCall(m)
               \/ LauncherStep(m) \/ Deadline(m) \/ Break(m)
        PROVE  Inner(m)
    <2>1. ASSUME NEW k \in ModesOf[m], Call(m, k) PROVE Inner(m)
      BY <2>1 DEF Call, Inner
    <2>2. CASE CallStream(m)
      BY <2>2 DEF CallStream, Launch, Inner
    <2>3. CASE SandboxCall(m)
      BY <2>3 DEF SandboxCall, Launch, Inner
    <2>4. CASE LauncherStep(m) \/ Deadline(m) \/ Break(m)
      BY <2>4 DEF LauncherStep, Deadline, Break, Inner
    <2> QED
      BY <1>4, <2>1, <2>2, <2>3, <2>4
  <1>5. ASSUME NEW m \in Launchers,
               \/ Feed(m) \/ FeedBlocks(m) \/ Taken(m) \/ PipeBreaks(m) \/ FeedEnds(m)
               \/ SourceFails(m) \/ Answer(m) \/ Poll(m) \/ GiveUp(m) \/ Abandon(m)
        PROVE  UNCHANGED vars
    BY <1>5 DEF Feed, FeedBlocks, Taken, PipeBreaks, FeedEnds, SourceFails, Answer, Poll,
                GiveUp, Abandon
  <1>6. UNCHANGED allVars => UNCHANGED vars
    BY DEF allVars
  <1> QED
    BY <1>1, <1>2, <1>3, <1>4, <1>5, <1>6, InnerIsQuiet DEF StorageNext, HostStep

-----------------------------------------------------------------------------
\* Every step of the storage keeps it, seen from one launcher.
LEMMA TornStep == TornInv /\ [StorageNext]_allVars => TornInv'
  <1> SUFFICES ASSUME TornInv, [StorageNext]_allVars PROVE TornInv'
    OBVIOUS
  <1>0. TypeOK /\ SyncedBeforeAnswer /\ OwnFile /\ HostTyped /\ PipesAreWrites
    BY DEF TornInv, IInv
  <1>1. IInv'
    BY <1>0, StorageStep, InvStep DEF TornInv
  <1>2. HostTyped'
    <2>1. ASSUME NEW m \in Launchers, Call(m, "write") \/ Call(m, "read") \/ Call(m, "delete")
          PROVE  HostTyped'
      BY <2>1, <1>0 DEF Call, HostTyped, Hosts, Pipes
    <2>2. ASSUME NEW m \in Launchers, CallStream(m) \/ SandboxCall(m) \/ LauncherStep(m)
                                      \/ Deadline(m) \/ Break(m)
          PROVE  HostTyped'
      BY <2>2, <1>0
      DEF CallStream, SandboxCall, LauncherStep, Deadline, Break, hostVars, HostTyped, Hosts
    <2>3. ASSUME NEW m \in Launchers, Feed(m) \/ FeedBlocks(m) \/ Taken(m) \/ PipeBreaks(m)
                                      \/ FeedEnds(m) \/ EndOfInput(m) \/ Poll(m)
          PROVE  HostTyped'
      BY <2>3, <1>0
      DEF Feed, FeedBlocks, Taken, PipeBreaks, FeedEnds, EndOfInput, Poll, hostVars, HostTyped, Pipes
    <2>4. ASSUME NEW m \in Launchers, SourceFails(m) \/ Answer(m) \/ GiveUp(m) \/ Stalled(m)
                                      \/ Abandon(m) \/ CloseStream(m)
          PROVE  HostTyped'
      BY <2>4, <1>0 DEF SourceFails, Answer, GiveUp, Stalled, Abandon, CloseStream, HostTyped,
        Hosts, Answered, Pipes
    <2>5. CASE UNCHANGED allVars
      BY <2>5, <1>0 DEF allVars, hostVars, HostTyped
    <2>6. ASSUME NEW m \in Launchers, NEW k \in ModesOf[m], Call(m, k) PROVE HostTyped'
      BY <2>6, <2>1 DEF Call
    <2> QED
      BY <2>2, <2>3, <2>4, <2>5, <2>6 DEF StorageNext, HostStep
  <1>3. ASSUME NEW l \in Launchers
        PROVE  /\ (Quiet(l) \/ EndOfInput(l))
               /\ Stays(l) \/ Calls(l) \/ Feeds(l) \/ Gives(l) \/ Answers(l)
    BY <1>0, StorageIsQuiet, HostSteps
  <1>4. ASSUME NEW l \in Launchers, EndOfInput(l)
        PROVE  /\ pc[l] = "writing" /\ pc'[l] = "stopping" /\ rc'[l] = "ok"
               /\ mode'[l] = mode[l] /\ Stays(l) /\ stdin[l] = "closed"
               /\ Home(l) \in Images
               /\ \A i \in Images : Torn(l, i)' => fed[l] # Chunks
    <2>1. Home(l) \in Images
      BY <1>0, CurrentImage
    <2>2. /\ stdin[l] = "closed" /\ UNCHANGED <<host, stdin, fed>>
          /\ pc[l] = "writing"
          /\ pc' = [pc EXCEPT ![l] = "stopping"] /\ rc' = [rc EXCEPT ![l] = "ok"]
          /\ mode' = mode
          /\ file' = [file EXCEPT ![Home(l)] = [by |-> l, whole |-> (fed[l] = Chunks)]]
          /\ disk' = [disk EXCEPT ![Home(l)] = [by |-> l, whole |-> (fed[l] = Chunks)]]
      BY <1>4 DEF EndOfInput, WriteEnds, Stop, hostVars
    <2>3. ASSUME NEW i \in Images, Torn(l, i)', fed[l] = Chunks PROVE FALSE
      <3>1. i = Home(l)
        BY <1>0, <2>2, <2>3 DEF Torn, OwnFile, TypeOK
      <3>2. (fed[l] = Chunks) = TRUE
        BY <2>3
      <3>3. file'[i] = [by |-> l, whole |-> TRUE] /\ disk'[i] = [by |-> l, whole |-> TRUE]
        BY <1>0, <2>1, <2>2, <3>1, <3>2 DEF TypeOK
      <3>4. [by |-> l, whole |-> TRUE].whole # [by |-> l, whole |-> FALSE].whole
        OBVIOUS
      <3> QED
        BY <2>3, <3>3, <3>4 DEF Torn
    <2> QED
      BY <1>0, <2>1, <2>2, <2>3 DEF TypeOK, Stays
  <1>5. ASSUME NEW l \in Launchers
        PROVE  /\ pc[l] # "idle" => pc'[l] # "idle" /\ mode'[l] = mode[l]
               /\ pc[l] = "dead" => pc'[l] = "dead" /\ rc'[l] = rc[l]
               /\ rc'[l] = "ok" /\ rc[l] # "ok" => mode[l] # "write" \/ EndOfInput(l)
    BY <1>3, <1>4 DEF Quiet
  <1>6. PipesAreWrites'
    <2> SUFFICES ASSUME NEW l \in Launchers
                 PROVE  /\ stdin'[l] # "none" => mode'[l] = "write" /\ pc'[l] # "idle"
                        /\ stdin'[l] \in {"open", "full", "closing"} => rc'[l] # "ok"
      BY DEF PipesAreWrites
    <2>0. /\ stdin[l] # "none" => mode[l] = "write" /\ pc[l] # "idle"
          /\ stdin[l] \in {"open", "full", "closing"} => rc[l] # "ok"
          /\ pc[l] = "idle" => rc[l] # "ok"
      BY <1>0 DEF PipesAreWrites, SyncedBeforeAnswer
    <2>1. CASE Stays(l)
      BY <2>0, <2>1, <1>4, <1>5 DEF Stays
    <2>2. CASE Calls(l)
      BY <2>0, <2>2 DEF Calls
    <2>3. CASE Feeds(l) \/ Gives(l) \/ Answers(l)
      <3>1. UNCHANGED <<pc, mode, rc>>
        BY <2>3 DEF Feeds, Gives, Answers, vars, launcherVars
      <3>2. /\ stdin'[l] # "none" => stdin[l] # "none"
            /\ stdin'[l] \in {"open", "full", "closing"} =>
                 stdin[l] \in {"open", "full", "closing"}
        BY <2>3 DEF Feeds, Gives, Answers
      <3> QED
        BY <2>0, <3>1, <3>2
    <2> QED
      BY <1>3, <2>1, <2>2, <2>3
  <1>7. EarlyEndIsKnown'
    <2> SUFFICES ASSUME NEW l \in Launchers
                 PROVE  /\ stdin'[l] = "closed" /\ host'[l] = "waiting" /\ fed'[l] # Chunks
                             => pc'[l] = "dead" /\ rc'[l] # "ok"
                        /\ stdin'[l] = "closing" => host'[l] # "waiting"
      BY DEF EarlyEndIsKnown
    <2>0. /\ stdin[l] = "closed" /\ host[l] = "waiting" /\ fed[l] # Chunks
               => pc[l] = "dead" /\ rc[l] # "ok"
          /\ stdin[l] = "closing" => host[l] # "waiting"
          /\ stdin[l] # "none" => pc[l] # "idle"
          /\ stdin[l] \in {"open", "full", "closing"} => rc[l] # "ok"
      BY DEF TornInv, EarlyEndIsKnown, PipesAreWrites
    <2>1. CASE Stays(l)
      BY <2>0, <2>1, <1>5 DEF Stays
    <2>2. CASE Calls(l)
      BY <2>0, <2>2 DEF Calls
    <2>3. CASE Feeds(l)
      BY <2>0, <2>3 DEF Feeds, vars, launcherVars
    <2>4. CASE Gives(l)
      BY <2>4 DEF Gives
    <2>5. CASE Answers(l)
      BY <2>5 DEF Answers, Answered
    <2> QED
      BY <1>3, <2>1, <2>2, <2>3, <2>4, <2>5
  <1>8. AnswersAreCodes'
    <2> SUFFICES ASSUME NEW l \in Launchers
                 PROVE  /\ host'[l] = "streaming" => mode'[l] = "read" /\ pc'[l] # "idle"
                        /\ host'[l] = "ok" => rc'[l] = "ok" /\ pc'[l] = "dead"
      BY DEF AnswersAreCodes
    <2>0. /\ host[l] = "streaming" => mode[l] = "read" /\ pc[l] # "idle"
          /\ host[l] = "ok" => rc[l] = "ok" /\ pc[l] = "dead"
      BY DEF TornInv, AnswersAreCodes
    <2>1. CASE Stays(l)
      BY <2>0, <2>1, <1>5 DEF Stays
    <2>2. CASE Calls(l)
      BY <2>2 DEF Calls
    <2>3. CASE Feeds(l)
      BY <2>0, <2>3 DEF Feeds, vars, launcherVars
    <2>4. CASE Gives(l)
      BY <2>0, <2>4 DEF Gives
    <2>5. CASE Answers(l)
      BY <2>5 DEF Answers, Answered, vars, launcherVars
    <2> QED
      BY <1>3, <2>1, <2>2, <2>3, <2>4, <2>5
  <1>9. TornByWriters'
    <2> SUFFICES ASSUME NEW i \in Images, NEW l \in Launchers, Torn(l, i)'
                 PROVE  /\ mode'[l] = "write" /\ pc'[l] # "idle"
                        /\ rc'[l] = "ok" => host'[l] \notin {"waiting", "ok"}
      BY DEF TornByWriters
    <2>0. /\ Torn(l, i) => /\ mode[l] = "write" /\ pc[l] # "idle"
                           /\ rc[l] = "ok" => host[l] \notin {"waiting", "ok"}
          /\ stdin[l] # "none" => mode[l] = "write"
          /\ stdin[l] = "closed" /\ host[l] = "waiting" /\ fed[l] # Chunks => pc[l] = "dead"
          /\ host[l] = "streaming" => mode[l] = "read"
          /\ host[l] = "ok" => pc[l] = "dead"
          /\ rc[l] = "ok" => pc[l] \in {"stopping", "dead"}
      BY <1>0 DEF TornInv, TornByWriters, PipesAreWrites, EarlyEndIsKnown, AnswersAreCodes,
                  SyncedBeforeAnswer
    <2>1. CASE EndOfInput(l)
      BY <2>0, <2>1, <1>4 DEF Stays
    <2>2. CASE Quiet(l)
      <3>1. mode[l] = "write" /\ pc[l] # "idle"
        BY <2>0, <2>2 DEF Quiet
      <3>2. mode'[l] = "write" /\ pc'[l] # "idle"
        BY <3>1, <1>5
      <3>3. ASSUME rc'[l] = "ok" PROVE host'[l] \notin {"waiting", "ok"}
        <4>1. rc[l] = "ok" /\ Torn(l, i)
          BY <2>0, <2>2, <3>1, <3>3 DEF Quiet
        <4>2. host[l] \notin {"waiting", "ok", "streaming"}
          BY <2>0, <4>1
        <4> QED
          BY <1>3, <3>1, <4>2 DEF Stays, Calls, Feeds, Gives, Answers
      <3> QED
        BY <3>2, <3>3
    <2> QED
      BY <1>3, <2>1, <2>2
  <1> QED
    BY <1>1, <1>2, <1>6, <1>7, <1>8, <1>9 DEF TornInv

\* A file that was cut off, because its source failed, its caller gave up or
\* left, or its launcher died, was never reported as stored.
THEOREM TornFilesAreReported == StorageSpec => []TornIsReported
  <1>1. StorageInit => TornInv
    <2> SUFFICES ASSUME StorageInit PROVE TornInv
      OBVIOUS
    <2>1. IInv
      BY InvInit DEF StorageInit
    <2>2. HostTyped /\ PipesAreWrites /\ EarlyEndIsKnown /\ AnswersAreCodes
      BY DEF StorageInit, Init, HostTyped, Hosts, Pipes, PipesAreWrites, EarlyEndIsKnown,
             AnswersAreCodes
    <2>3. TornByWriters
      BY DEF StorageInit, Init, TornByWriters, Torn, NoFile
    <2> QED
      BY <2>1, <2>2, <2>3 DEF TornInv
  <1>2. TornInv => TornIsReported
    <2> SUFFICES ASSUME TornInv, NEW i \in Images, ~file[i].whole
                 PROVE  host[file[i].by] # "ok"
      BY DEF TornIsReported
    <2>1. file[i] \in [by : Launchers, whole : BOOLEAN]
      BY DEF TornInv, IInv, TypeOK, File, NoFile
    <2>2. file[i] = [by |-> file[i].by, whole |-> FALSE] /\ file[i].by \in Launchers
      BY <2>1
    <2>3. Torn(file[i].by, i)
      BY <2>2 DEF Torn
    <2> QED
      BY <2>2, <2>3 DEF TornInv, TornByWriters, AnswersAreCodes
  <1> QED
    BY <1>1, <1>2, TornStep, PTL DEF StorageSpec
=============================================================================
