---------------------------- MODULE ImageStorage ----------------------------
(***************************************************************************)
(* ImageStorageClient of the chat: an attachment is written, read or       *)
(* deleted by a launcher of its own, and _watch gives up when nothing was  *)
(* accepted for op_timeout_sec.  The sandbox runs its commands over the    *)
(* same images; a call of the sandbox is only its launcher, which          *)
(* run_subprocess kills at its deadline.                                   *)
(*                                                                         *)
(* A chunk counts as accepted when the pipe has taken it: the little that  *)
(* asyncio buffers without making drain wait is not told apart.            *)
(***************************************************************************)
EXTENDS ImageLauncher

CONSTANTS Chunks,    \* chunks of an upload
          PipeRoom,  \* chunks the pipe takes while the launcher does not read
          Patience,  \* op_timeout_sec, in polls of _watch
          MayHang,   \* launchers that need not go on
          MaxFaults  \* bound on failures and crashes

ASSUME StorageAssumption ==
  /\ Chunks \in Nat /\ PipeRoom \in Nat /\ Patience \in Nat \ {0}
  /\ MayHang \subseteq Launchers /\ MaxFaults \in Nat

VARIABLES
  host,   \* what the caller of the operation knows
  stdin,  \* the pipe to the launcher: "full" when drain waits for it,
          \* "closing" when close and wait_closed came before it had room
  fed,    \* chunks it has accepted
  idle,   \* OpProgress.idle_sec, in polls
  faults

hostVars == <<host, stdin, fed, idle, faults>>
allVars == <<vars, hostVars>>

\* What an operation has come to.
Answered == {"ok", "absent", "full", "error"}

StorageInit ==
  /\ Init
  /\ host = [l \in Launchers |-> "idle"]
  /\ stdin = [l \in Launchers |-> "none"]
  /\ fed = [l \in Launchers |-> 0] /\ idle = [l \in Launchers |-> 0]
  /\ faults = 0

\* _spawn, and the task of _exchange.
Call(l, m) ==
  /\ m \in FileMode
  /\ Launch(l, m)
  /\ host' = [host EXCEPT ![l] = "waiting"]
  /\ stdin' = [stdin EXCEPT ![l] = IF m = "write" THEN "open" ELSE "none"]
  /\ UNCHANGED <<fed, idle, faults>>

\* read_stream: the same launcher, without _watch.
CallStream(l) ==
  /\ Launch(l, "read")
  /\ host' = [host EXCEPT ![l] = "streaming"]
  /\ UNCHANGED <<stdin, fed, idle, faults>>

\* SandboxRunner starts a launcher, or one whose plan is rejected.
SandboxCall(l) ==
  /\ "run" \in ModesOf[l]
  /\ Launch(l, "run") \/ Refuse(l)
  /\ UNCHANGED hostVars

-----------------------------------------------------------------------------
(* _exchange and _feed: a task of its own, it goes on without the caller   *)

\* A chunk of the source is written and drained.
Feed(l) ==
  /\ stdin[l] = "open" /\ Live(l)
  /\ fed[l] < IF pc[l] = "writing" THEN Chunks ELSE PipeRoom
  /\ fed' = [fed EXCEPT ![l] = @ + 1] /\ idle' = [idle EXCEPT ![l] = 0]
  /\ UNCHANGED <<vars, host, stdin, faults>>

\* A chunk finds no room: drain waits.
FeedBlocks(l) ==
  /\ stdin[l] = "open" /\ Live(l) /\ PipeRoom <= fed[l] /\ fed[l] < Chunks
  /\ stdin' = [stdin EXCEPT ![l] = "full"]
  /\ UNCHANGED <<vars, host, fed, idle, faults>>

\* The launcher reads what was waiting.
Taken(l) ==
  /\ stdin[l] \in {"full", "closing"} /\ pc[l] = "writing"
  /\ fed' = [fed EXCEPT ![l] = @ + 1]
  /\ \/ /\ stdin[l] = "full"
        /\ stdin' = [stdin EXCEPT ![l] = "open"] /\ idle' = [idle EXCEPT ![l] = 0]
     \/ /\ stdin[l] = "closing"
        /\ stdin' = [stdin EXCEPT ![l] = "closed"] /\ idle' = idle
  /\ UNCHANGED <<vars, host, faults>>

\* Nobody is left to read.
PipeBreaks(l) ==
  /\ stdin[l] \in {"full", "closing"} /\ pc[l] = "dead"
  /\ stdin' = [stdin EXCEPT ![l] = "closed"]
  /\ UNCHANGED <<vars, host, fed, idle, faults>>

\* The source is exhausted, or its next chunk finds the pipe broken.
FeedEnds(l) ==
  /\ stdin[l] = "open" /\ (fed[l] = Chunks \/ pc[l] = "dead")
  /\ stdin' = [stdin EXCEPT ![l] = "closed"]
  /\ UNCHANGED <<vars, host, fed, idle, faults>>

\* Mutation: an error of the source ends the file.
SourceFailsQuietly(l) ==
  /\ stdin[l] = "open" /\ fed[l] < Chunks
  /\ stdin' = [stdin EXCEPT ![l] = "closed"]
  /\ UNCHANGED <<vars, host, fed, idle, faults>>

\* The source raises: stdin is closed, and the error goes to the caller at
\* once.  The launcher is left to store what it has got.
SourceFails(l) ==
  /\ stdin[l] = "open" /\ fed[l] < Chunks
  /\ stdin' = [stdin EXCEPT ![l] = "closed"]
  /\ host' = [host EXCEPT ![l] = IF @ = "waiting" THEN "error" ELSE @]
  /\ UNCHANGED <<vars, fed, idle, faults>>

\* The launcher sees the end of its input.
EndOfInput(l) ==
  /\ stdin[l] = "closed"
  /\ WriteEnds(l, fed[l] = Chunks)
  /\ UNCHANGED hostVars

\* Both pipes are at their end, which they reach when nobody holds them, and
\* the code of the launcher says what to answer (_check and its callers).
Answer(l) ==
  /\ host[l] \in {"waiting", "streaming"} /\ stdin[l] \in {"none", "closed"} /\ Gone(l)
  /\ host' = [host EXCEPT ![l] = CASE rc[l] = "ok" -> "ok"
                                   [] rc[l] = "notfound" -> "absent"
                                   [] rc[l] = "nospace" -> "full"
                                   [] OTHER -> "error"]
  /\ UNCHANGED <<vars, stdin, fed, idle, faults>>

-----------------------------------------------------------------------------
(* _watch                                                                  *)

\* A poll finds the exchange unfinished.
Poll(l) ==
  /\ host[l] = "waiting" /\ idle[l] < Patience
  /\ idle' = [idle EXCEPT ![l] = @ + 1]
  /\ UNCHANGED <<vars, host, stdin, fed, faults>>

\* The exchange is cancelled, which closes stdin: what the pipe has not taken
\* is still waited for, in gather.
GiveUp(l) ==
  /\ host[l] = "waiting" /\ idle[l] = Patience
  /\ host' = [host EXCEPT ![l] = "stalling"]
  /\ stdin' = [stdin EXCEPT ![l] = CASE @ = "open" -> "closed"
                                     [] @ = "full" -> "closing"
                                     [] OTHER -> @]
  /\ UNCHANGED <<vars, fed, idle, faults>>

\* Mutation: the process of a stalled exchange is forgotten.
StalledAndLeft(l) ==
  /\ host[l] = "stalling" /\ stdin[l] # "closing"
  /\ host' = [host EXCEPT ![l] = "stalled"]
  /\ UNCHANGED <<vars, stdin, fed, idle, faults>>

\* The exchange has ended, and bwrap is killed.
Stalled(l) ==
  /\ host[l] = "stalling" /\ stdin[l] # "closing"
  /\ host' = [host EXCEPT ![l] = "stalled"]
  /\ killed' = [killed EXCEPT ![l] = @ \/ Live(l)]
  /\ UNCHANGED <<pc, mode, at, locks, daemons, command, rc, imageVars, stdin, fed, idle, faults>>

\* The caller is cancelled in _op: nobody watches the exchange any more.
Abandon(l) ==
  /\ host[l] \in {"waiting", "stalling"}
  /\ host' = [host EXCEPT ![l] = "abandoned"]
  /\ UNCHANGED <<vars, stdin, fed, idle, faults>>

\* The reader of a stream leaves: the generator kills the launcher.
CloseStream(l) ==
  /\ host[l] = "streaming"
  /\ host' = [host EXCEPT ![l] = "abandoned"]
  /\ killed' = [killed EXCEPT ![l] = @ \/ Live(l)]
  /\ UNCHANGED <<pc, mode, at, locks, daemons, command, rc, imageVars, stdin, fed, idle, faults>>

HostStep(l) ==
  \/ Feed(l) \/ FeedBlocks(l) \/ Taken(l) \/ PipeBreaks(l)
  \/ FeedEnds(l) \/ SourceFails(l) \/ EndOfInput(l) \/ Answer(l)
  \/ Poll(l) \/ GiveUp(l) \/ Stalled(l) \/ Abandon(l) \/ CloseStream(l)

LauncherStep(l) ==
  /\ Work(l) \/ CommandWrites(l) \/ LauncherDies(l)
  /\ UNCHANGED hostVars

\* run_subprocess kills the command at its deadline or when its turn stops.
Deadline(l) ==
  /\ mode[l] = "run" /\ Kill(l)
  /\ UNCHANGED hostVars

\* Something fails, or the launcher of a storage operation is killed.
Break(l) ==
  /\ faults < MaxFaults /\ faults' = faults + 1
  /\ Failure(l) \/ (mode[l] # "run" /\ Kill(l))
  /\ UNCHANGED <<host, stdin, fed, idle>>

StorageNext ==
  \E l \in Launchers :
    \/ \E m \in ModesOf[l] : Call(l, m)
    \/ ("read" \in ModesOf[l] /\ CallStream(l))
    \/ SandboxCall(l) \/ HostStep(l) \/ LauncherStep(l) \/ Deadline(l) \/ Break(l)

\* Processes that may not hang go on and read what they are sent, killed ones
\* die, the event loop polls, takes answers and gives up, and a command is
\* killed at its deadline.  No source owes a chunk or its end.
Fairness ==
  \A l \in Launchers :
    /\ l \notin MayHang => /\ WF_allVars(Work(l) /\ UNCHANGED hostVars)
                           /\ WF_allVars(EndOfInput(l)) /\ WF_allVars(Taken(l))
    /\ WF_allVars(Dying(l) /\ UNCHANGED hostVars)
    /\ WF_allVars(Reap(l) /\ UNCHANGED hostVars)
    /\ WF_allVars(PipeBreaks(l)) /\ WF_allVars(Answer(l))
    /\ WF_allVars(Poll(l)) /\ WF_allVars(GiveUp(l)) /\ WF_allVars(Stalled(l))
    /\ WF_allVars(Deadline(l))

StorageSpec == StorageInit /\ [][StorageNext]_allVars /\ Fairness

-----------------------------------------------------------------------------
(* What the callers rely on                                                *)

\* A file that was cut off was never reported as stored.
TornIsReported ==
  \A i \in Images : ~file[i].whole => host[file[i].by] # "ok"

\* The launcher of a command ends, whoever holds its images, and so does that
\* of a call that stalled: no image stays locked.  Nobody watches the launcher
\* of a stream, or of a call whose caller left or whose source failed, and the
\* one whose pipe is full is not killed.
LaunchersEnd ==
  \A l \in Launchers :
    Live(l) ~> \/ Gone(l) \/ stdin[l] = "closing"
               \/ host[l] \in {"abandoned", "error", "streaming"}

\* When the answer comes nothing of the operation is left that could touch the
\* image or make the next operation wait.
AnsweredIsOver ==
  \A l \in Launchers : host[l] \in {"ok", "absent", "full"} =>
    Gone(l) /\ \A i \in Images : ~Held(l, i)
=============================================================================
