--------------------------- MODULE ImageLauncher ---------------------------
(***************************************************************************)
(* boba.workspace.launcher: one launcher process per operation over the    *)
(* ext4 images of a user.  It locks its images in the order given, makes   *)
(* those that do not exist, mounts each with a fuse2fs daemon, does one    *)
(* operation and shuts the daemons down.                                   *)
(*                                                                         *)
(* The lock is a flock of a descriptor that the daemons and the command    *)
(* inherit: the kernel drops it when the last of them is gone.  Launcher,  *)
(* daemons and command live in one pid namespace; a kill reaches them one  *)
(* by one, in any order, and each may take steps until it does.            *)
(*                                                                         *)
(* An image holds at most one file, as by and whole: who wrote it and      *)
(* whether to the end.  file is what the mount shows, disk what is in the  *)
(* image when the daemon loses its caches.                                 *)
(***************************************************************************)
EXTENDS Naturals, Sequences, FiniteSets

CONSTANTS Launchers,
          Images,
          ImagesOf,   \* the --image arguments of a launcher, in order
          ModesOf     \* the operations it may be started for

FileMode == {"write", "read", "delete"}

ASSUME LauncherAssumption ==
  /\ "nobody" \notin Launchers
  /\ ImagesOf \in [Launchers -> Seq(Images)]
  /\ \A l \in Launchers :
       /\ Len(ImagesOf[l]) > 0
       /\ \A j, k \in 1..Len(ImagesOf[l]) : ImagesOf[l][j] = ImagesOf[l][k] => j = k
  /\ ModesOf \in [Launchers -> SUBSET (FileMode \cup {"run"})]

VARIABLES
  pc,       \* where Launcher.run of a launcher is
  mode,     \* LauncherMode it was started with
  at,       \* position in its loop over the images
  locks,    \* images whose lock descriptor it has opened and locked
  daemons,  \* images whose fuse2fs, started by it, is alive
  command,  \* its command: "running", or "left" when something of it stayed
  killed,   \* its namespace is being killed
  rc,       \* LauncherExit
  image,    \* what there is under the name of an image
  tmp,      \* <image>.tmp.<pid>: pids repeat in every new namespace
  file, disk

launcherVars == <<pc, mode, at, locks, daemons, command, killed, rc>>
imageVars == <<image, tmp, file, disk>>
vars == <<launcherVars, imageVars>>

NoFile == [by |-> "nobody", whole |-> TRUE]
File == [by : Launchers, whole : BOOLEAN] \cup {NoFile}

Current(l) == ImagesOf[l][at[l]]
AllOf(l) == {ImagesOf[l][k] : k \in 1..Len(ImagesOf[l])}

Acquiring == {"locking", "checking", "copying", "renaming"}
Serving == {"mounting", "waiting", "operating", "writing", "running"}

TypeOK ==
  /\ pc \in [Launchers -> Acquiring \cup Serving \cup {"idle", "stopping", "dead"}]
  /\ mode \in [Launchers -> FileMode \cup {"run"}]
  /\ at \in [Launchers -> Nat \ {0}]
  /\ \A l \in Launchers : at[l] <= Len(ImagesOf[l])
  /\ locks \in [Launchers -> SUBSET Images]
  /\ daemons \in [Launchers -> SUBSET Images]
  /\ command \in [Launchers -> {"none", "running", "left"}]
  /\ killed \in [Launchers -> BOOLEAN]
  /\ rc \in [Launchers -> {"none", "ok", "mount", "notfound", "nospace", "killed"}]
  /\ image \in [Images -> {"absent", "part", "whole"}]
  /\ tmp \in [Images -> {"absent", "part", "whole"}]
  /\ file \in [Images -> File] /\ disk \in [Images -> File]

Init ==
  /\ pc = [l \in Launchers |-> "idle"] /\ mode = [l \in Launchers |-> "run"]
  /\ at = [l \in Launchers |-> 1]
  /\ locks = [l \in Launchers |-> {}] /\ daemons = [l \in Launchers |-> {}]
  /\ command = [l \in Launchers |-> "none"]
  /\ killed = [l \in Launchers |-> FALSE] /\ rc = [l \in Launchers |-> "none"]
  /\ image = [i \in Images |-> "absent"] /\ tmp = [i \in Images |-> "absent"]
  /\ file = [i \in Images |-> NoFile] /\ disk = [i \in Images |-> NoFile]

Live(l) == pc[l] \notin {"idle", "dead"}

\* No process of the launcher is left.
Gone(l) == pc[l] = "dead" /\ daemons[l] = {} /\ command[l] = "none"

\* Mutation: set_inheritable and pass_fds are forgotten.
HeldByLauncher(l, i) == i \in locks[l] /\ Live(l)

\* The flock of l on image i is in force.
Held(l, i) == i \in locks[l] /\ (Live(l) \/ daemons[l] # {} \/ command[l] # "none")

-----------------------------------------------------------------------------
(* Locks and images                                                        *)

\* Launcher.run with a valid plan.
Launch(l, m) ==
  /\ pc[l] = "idle" /\ m \in ModesOf[l]
  /\ pc' = [pc EXCEPT ![l] = "locking"] /\ mode' = [mode EXCEPT ![l] = m]
  /\ UNCHANGED <<at, locks, daemons, command, killed, rc, imageVars>>

\* _plan rejects the arguments: no lock has been asked for.
Refuse(l) ==
  /\ pc[l] = "idle"
  /\ pc' = [pc EXCEPT ![l] = "dead"] /\ rc' = [rc EXCEPT ![l] = "mount"]
  /\ UNCHANGED <<mode, at, locks, daemons, command, killed, imageVars>>

\* ImageStore._lock: flock waits until nobody holds the image.
Lock(l) ==
  /\ pc[l] = "locking"
  /\ \A m \in Launchers : ~Held(m, Current(l))
  /\ locks' = [locks EXCEPT ![l] = @ \cup {Current(l)}]
  /\ pc' = [pc EXCEPT ![l] = "checking"]
  /\ UNCHANGED <<mode, at, daemons, command, killed, rc, imageVars>>

\* The loop of acquire goes on, or the loop of mount begins.
Acquired(l) ==
  \/ /\ at[l] < Len(ImagesOf[l])
     /\ at' = [at EXCEPT ![l] = @ + 1] /\ pc' = [pc EXCEPT ![l] = "locking"]
  \/ /\ at[l] = Len(ImagesOf[l])
     /\ at' = [at EXCEPT ![l] = 1] /\ pc' = [pc EXCEPT ![l] = "mounting"]

ImageExists(l) ==
  /\ pc[l] = "checking" /\ image[Current(l)] # "absent"
  /\ Acquired(l)
  /\ UNCHANGED <<mode, locks, daemons, command, killed, rc, imageVars>>

BeginCopy(l) ==
  /\ pc[l] = "checking" /\ image[Current(l)] = "absent"
  /\ tmp' = [tmp EXCEPT ![Current(l)] = "part"]
  /\ pc' = [pc EXCEPT ![l] = "copying"]
  /\ UNCHANGED <<mode, at, locks, daemons, command, killed, rc, image, file, disk>>

EndCopy(l) ==
  /\ pc[l] = "copying"
  /\ tmp' = [tmp EXCEPT ![Current(l)] = "whole"]
  /\ pc' = [pc EXCEPT ![l] = "renaming"]
  /\ UNCHANGED <<mode, at, locks, daemons, command, killed, rc, image, file, disk>>

\* os.rename: the template holds no file.
Rename(l) ==
  /\ pc[l] = "renaming"
  /\ LET i == Current(l) IN
       /\ image' = [image EXCEPT ![i] = tmp[i]] /\ tmp' = [tmp EXCEPT ![i] = "absent"]
       /\ file' = [file EXCEPT ![i] = NoFile] /\ disk' = [disk EXCEPT ![i] = NoFile]
  /\ Acquired(l)
  /\ UNCHANGED <<mode, locks, daemons, command, killed, rc>>

\* An exception ends the run with this code, by way of shutdown.
Stop(l, code) ==
  /\ pc' = [pc EXCEPT ![l] = "stopping"] /\ rc' = [rc EXCEPT ![l] = code]
  /\ UNCHANGED <<mode, at, locks, command, killed>>

\* Opening the lock, a missing template, or the copy fails: no copy is left.
AcquireFails(l) ==
  /\ \/ pc[l] \in {"locking", "copying", "renaming"}
     \/ pc[l] = "checking" /\ image[Current(l)] = "absent"
  /\ tmp' = IF pc[l] \in {"copying", "renaming"}
              THEN [tmp EXCEPT ![Current(l)] = "absent"] ELSE tmp
  /\ Stop(l, "mount")
  /\ UNCHANGED <<daemons, image, file, disk>>

-----------------------------------------------------------------------------
(* Mounts                                                                  *)

StartDaemon(l) ==
  /\ pc[l] = "mounting"
  /\ daemons' = [daemons EXCEPT ![l] = @ \cup {Current(l)}]
  /\ pc' = [pc EXCEPT ![l] = "waiting"]
  /\ UNCHANGED <<mode, at, locks, command, killed, rc, imageVars>>

Mounted(l) ==
  /\ pc[l] = "waiting"
  /\ \/ /\ at[l] < Len(ImagesOf[l])
        /\ at' = [at EXCEPT ![l] = @ + 1] /\ pc' = [pc EXCEPT ![l] = "mounting"]
     \/ /\ at[l] = Len(ImagesOf[l])
        /\ at' = at /\ pc' = [pc EXCEPT ![l] = "operating"]
  /\ UNCHANGED <<mode, locks, daemons, command, killed, rc, imageVars>>

\* No fuse2fs, or no mount within mount_wait_sec, or the daemon exits.
MountFails(l) ==
  /\ \/ pc[l] \in {"mounting", "waiting"} /\ daemons' = daemons
     \/ pc[l] = "waiting" /\ daemons' = [daemons EXCEPT ![l] = @ \ {Current(l)}]
  /\ Stop(l, "mount")
  /\ UNCHANGED imageVars

-----------------------------------------------------------------------------
(* The operation; the file operations use the first image                  *)

Home(l) == ImagesOf[l][1]

\* Whether the mount answers; without it every file operation fails.
Served(l) == Home(l) \in daemons[l]

\* open(path, "wb") truncates what was there.
OpenForWrite(l) ==
  /\ pc[l] = "operating" /\ mode[l] = "write" /\ Served(l)
  /\ file' = [file EXCEPT ![Home(l)] = [by |-> l, whole |-> FALSE]]
  /\ pc' = [pc EXCEPT ![l] = "writing"]
  /\ UNCHANGED <<mode, at, locks, daemons, command, killed, rc, image, tmp, disk>>

\* Mutation: no fsync.
WriteEndsUnsynced(l, complete) ==
  /\ pc[l] = "writing" /\ Served(l)
  /\ file' = [file EXCEPT ![Home(l)] = [by |-> l, whole |-> complete]]
  /\ Stop(l, "ok")
  /\ UNCHANGED <<daemons, image, tmp, disk>>

\* End of input, flush and fsync.  The launcher cannot tell an input that
\* was cut off from one that ended.
WriteEnds(l, complete) ==
  /\ pc[l] = "writing" /\ Served(l)
  /\ file' = [file EXCEPT ![Home(l)] = [by |-> l, whole |-> complete]]
  /\ disk' = [disk EXCEPT ![Home(l)] = [by |-> l, whole |-> complete]]
  /\ Stop(l, "ok")
  /\ UNCHANGED <<daemons, image, tmp>>

\* ENOSPC and its like: the partial file is removed, unless that fails too.
WriteRunsOut(l) ==
  /\ pc[l] = "writing" /\ Served(l)
  /\ file' \in {file, [file EXCEPT ![Home(l)] = NoFile]}
  /\ Stop(l, "nospace")
  /\ UNCHANGED <<daemons, image, tmp, disk>>

Read(l) ==
  /\ pc[l] = "operating" /\ mode[l] = "read" /\ Served(l)
  /\ Stop(l, IF file[Home(l)] = NoFile THEN "notfound" ELSE "ok")
  /\ UNCHANGED <<daemons, imageVars>>

Delete(l) ==
  /\ pc[l] = "operating" /\ mode[l] = "delete" /\ Served(l)
  /\ Stop(l, IF file[Home(l)] = NoFile THEN "notfound" ELSE "ok")
  /\ file' = [file EXCEPT ![Home(l)] = NoFile]
  /\ UNCHANGED <<daemons, image, tmp, disk>>

RunCommand(l) ==
  /\ pc[l] = "operating" /\ mode[l] = "run"
  /\ command' = [command EXCEPT ![l] = "running"]
  /\ pc' = [pc EXCEPT ![l] = "running"]
  /\ UNCHANGED <<mode, at, locks, daemons, killed, rc, imageVars>>

\* The command, or what it left in the background, while the mount is there.
CommandWrites(l) ==
  /\ command[l] # "none" /\ Served(l)
  /\ file' = [file EXCEPT ![Home(l)] = [by |-> l, whole |-> TRUE]]
  /\ UNCHANGED <<launcherVars, image, tmp, disk>>

\* subprocess.call returns when the command itself has ended; its own code
\* is not looked at here.
CommandEnds(l) ==
  /\ pc[l] = "running"
  /\ \E c \in {"none", "left"} : command' = [command EXCEPT ![l] = c]
  /\ rc' = [rc EXCEPT ![l] = "ok"]
  /\ pc' = [pc EXCEPT ![l] = "stopping"]
  /\ UNCHANGED <<mode, at, locks, daemons, killed, imageVars>>

\* Any other error of the operation.
OperationFails(l) ==
  /\ pc[l] \in {"operating", "writing"}
  /\ Stop(l, "mount")
  /\ UNCHANGED <<daemons, imageVars>>

-----------------------------------------------------------------------------
(* The end                                                                 *)

\* A daemon leaves on SIGTERM: its caches go to the image.
DaemonExits(l, i) ==
  /\ pc[l] = "stopping" /\ i \in daemons[l]
  /\ daemons' = [daemons EXCEPT ![l] = @ \ {i}]
  /\ disk' = [disk EXCEPT ![i] = file[i]]
  /\ UNCHANGED <<pc, mode, at, locks, command, killed, rc, image, tmp, file>>

\* It is killed, by shutdown after shutdown_wait_sec or with its namespace:
\* what it had not written yet may be lost.
DaemonLost(l, i) ==
  /\ pc[l] = "stopping" \/ killed[l]
  /\ i \in daemons[l]
  /\ daemons' = [daemons EXCEPT ![l] = @ \ {i}]
  /\ \E x \in {file[i], disk[i]} :
       file' = [file EXCEPT ![i] = x] /\ disk' = [disk EXCEPT ![i] = x]
  /\ UNCHANGED <<pc, mode, at, locks, command, killed, rc, image, tmp>>

\* shutdown is over.
Exit(l) ==
  /\ pc[l] = "stopping" /\ daemons[l] = {}
  /\ pc' = [pc EXCEPT ![l] = "dead"]
  /\ UNCHANGED <<mode, at, locks, daemons, command, killed, rc, imageVars>>

\* The first process of the namespace ends with the launcher, and the kernel
\* kills everything that is left in there.
Reap(l) ==
  /\ command[l] # "none" /\ (killed[l] \/ pc[l] = "dead")
  /\ command' = [command EXCEPT ![l] = "none"]
  /\ UNCHANGED <<pc, mode, at, locks, daemons, killed, rc, imageVars>>

\* bwrap is killed, with --die-with-parent: by a timeout, a stop, the memory
\* limit, the end of the server.
Kill(l) ==
  /\ Live(l) /\ ~killed[l]
  /\ killed' = [killed EXCEPT ![l] = TRUE]
  /\ UNCHANGED <<pc, mode, at, locks, daemons, command, rc, imageVars>>

LauncherDies(l) ==
  /\ Live(l) /\ killed[l]
  /\ pc' = [pc EXCEPT ![l] = "dead"] /\ rc' = [rc EXCEPT ![l] = "killed"]
  /\ UNCHANGED <<mode, at, locks, daemons, command, killed, imageVars>>

\* What a killed namespace still has to do.
Dying(l) ==
  \/ LauncherDies(l) \/ (killed[l] /\ Reap(l))
  \/ \E i \in Images : killed[l] /\ DaemonLost(l, i)

\* What the launcher, its daemons and its command do by themselves.
Work(l) ==
  \/ Lock(l) \/ ImageExists(l) \/ BeginCopy(l) \/ EndCopy(l) \/ Rename(l)
  \/ StartDaemon(l) \/ Mounted(l)
  \/ OpenForWrite(l) \/ Read(l) \/ Delete(l) \/ RunCommand(l) \/ CommandEnds(l)
  \/ (\E i \in Images : DaemonExits(l, i) \/ DaemonLost(l, i))
  \/ Exit(l) \/ Reap(l)

Failure(l) ==
  AcquireFails(l) \/ MountFails(l) \/ WriteRunsOut(l) \/ OperationFails(l)

LauncherNext ==
  \E l \in Launchers :
    \/ \E m \in ModesOf[l] : Launch(l, m)
    \/ \E complete \in BOOLEAN : WriteEnds(l, complete)
    \/ Refuse(l) \/ Work(l) \/ Failure(l) \/ CommandWrites(l)
    \/ Kill(l) \/ LauncherDies(l)

LauncherSpec == Init /\ [][LauncherNext]_vars

-----------------------------------------------------------------------------
(* What the lock is for                                                    *)

\* An image is mounted by one launcher at a time, also while the processes of
\* a killed launcher are dying (test_concurrent_bash_calls_serialized).
ExclusiveMount ==
  \A l, m \in Launchers : daemons[l] \cap daemons[m] # {} => l = m

\* What is mounted is a complete copy of the template, whoever was killed
\* while copying (ImageStore._materialize).
MountedIsWhole ==
  \A l \in Launchers : \A i \in daemons[l] : image[i] = "whole"

\* The contents of an image change only through its mount: the template never
\* replaces an image that is there (test_image_not_recreated_on_second_call).
ChangedOnlyByMount ==
  [][\A i \in Images : image[i] # "absent" /\ file'[i] # file[i] =>
       \E l \in Launchers : i \in daemons[l]]_vars

\* What a write has answered 0 for is not taken back when its own daemon is
\* killed in shutdown (fsync in FileOperations.write).
StoredIsDurable ==
  [][\A i \in Images : \A l \in Launchers :
       /\ file[i] = [by |-> l, whole |-> TRUE] /\ mode[l] = "write" /\ rc[l] = "ok"
       /\ file'[i] # file[i]
       => \E m \in Launchers \ {l} : i \in daemons[m]]_vars

\* The launcher whose lock on an image is in force.
Holder(i) ==
  IF \E l \in Launchers : Held(l, i) THEN CHOOSE l \in Launchers : Held(l, i) ELSE "nobody"

Leases == [i \in Images |-> Holder(i)]

Lease == INSTANCE ImageLease WITH
  Owners <- Launchers, owner <- Leases, content <- file, durable <- disk

\* Launchers that are killed at any moment, with daemons and commands that
\* outlive them, still give and take images as ImageLease promises: nobody
\* else changes an image, and when its lock is free its disk is what it shows
\* (test_storage_waits_for_busy_image, test_lock_held_blocks_second_owner).
LeaseIsKept == Lease!LeaseSpec
=============================================================================
