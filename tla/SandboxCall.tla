----------------------------- MODULE SandboxCall -----------------------------
(***************************************************************************)
(* One call of a tool in the sandbox, end to end: the thread of the host   *)
(* (runner, process_runner, caller), the process it starts, the payload in *)
(* it (boba.toolkit.payload with the operations of the postgres tool) or   *)
(* the command of the user, the pipes between them, and the Stop of the    *)
(* turn, which comes from another thread.  A request and an output are     *)
(* counted in units of what one write of a pipe takes.                     *)
(***************************************************************************)
EXTENDS Cgroup, Sequences

CONSTANTS
  MaxInput,     \* units of a request
  PipeRoom,     \* units a pipe holds before its writer blocks
  MaxRows,      \* rows the database has for a query
  Limit,        \* max_rows of the tool
  Capacities    \* what max_bytes leaves room for, in rows

ASSUME CallAssumption ==
  {MaxInput, PipeRoom, MaxRows, Limit} \subseteq Nat /\ Capacities \subseteq Nat

VARIABLES
  job,          \* what is called, and what the database has
  pc,           \* the thread of the host
  unsent,       \* units of the request the host has still to write
  inPipe, inClosed,
  proc,         \* the process the host started (bwrap), as the host sees it
  code,         \* its exit status
  tree,         \* the processes inside
  prog,         \* the payload or the command in it
  emitted,      \* rows, or units of output, it has written
  tx,           \* its transaction
  out, outOpen, \* the pipe to the host
  got,          \* what the sink has taken
  frames,       \* trailers and error frames the decoder has seen
  stopped, registered, aborting,   \* the turn: flag, interrupter, its call
  expired, timedOut,
  answer

pipes == <<unsent, inPipe, inClosed, out, outOpen>>
procVars == <<proc, code, tree>>
payloadVars == <<prog, emitted, tx>>
hostVars == <<got, frames, timedOut, answer>>
turnVars == <<stopped, registered, aborting>>
callVars == <<job, pc, pipes, procVars, payloadVars, hostVars, turnVars, expired>>
vars == <<callVars, groupVars>>

Kinds == {"query", "copy", "command"}

Jobs == [kind : Kinds, grouped : BOOLEAN, input : 0 .. MaxInput,
         rows : 0 .. MaxRows, room : Capacities]

(* The JSON of a query is never empty; a command may have no stdin.        *)
Possible(j) == j.kind # "command" => j.input > 0

Row(n) == [frame |-> "chunk", row |-> n]
Trailer(truncated) == [frame |-> "trailer", truncated |-> truncated]
ErrorFrame == [frame |-> "error"]
Cut == [frame |-> "cut"]   \* truncated_stdout, of a command

Least(a, b) == IF a < b THEN a ELSE b

Init ==
  /\ GroupInit
  /\ job \in {j \in Jobs : Possible(j)}
  /\ ~job.grouped => ~available /\ born = 0
  /\ pc = "prepare"
  /\ unsent = job.input /\ inPipe = 0 /\ inClosed = FALSE
  /\ proc = "none" /\ code = 0 /\ tree = "none"
  /\ prog = IF job.kind = "command" THEN "run" ELSE "read"
  /\ emitted = 0 /\ tx = "none"
  /\ out = <<>> /\ outOpen = TRUE
  /\ got = <<>> /\ frames = <<>>
  /\ stopped = FALSE /\ registered = FALSE /\ aborting = FALSE
  /\ expired = FALSE /\ timedOut = FALSE /\ answer = "none"

Goto(from, to) == pc = from /\ pc' = to

-----------------------------------------------------------------------------
(* The process and what is in it.  When the outer process is gone its tree *)
(* dies (--die-with-parent), a moment later.                               *)

Killed == IF proc = "running" THEN "killed" ELSE proc

TreeStarts ==
  /\ proc = "running" /\ tree = "none"
  /\ tree' = "running"
  /\ UNCHANGED <<job, pc, pipes, proc, code, payloadVars, hostVars, turnVars,
                 expired, groupVars>>

Dies ==
  /\ proc = "killed"
  /\ proc' = "zombie" /\ code' = 9
  /\ tree' = IF tree = "running" THEN "dying" ELSE IF tree = "none" THEN "dead" ELSE tree
  /\ UNCHANGED <<job, pc, pipes, payloadVars, hostVars, turnVars, expired,
                 groupVars>>

TreeDies ==
  /\ tree = "dying"
  /\ tree' = "dead"
  /\ tx' = IF tx = "open" THEN "aborted" ELSE tx
  /\ UNCHANGED <<job, pc, pipes, proc, code, prog, emitted, hostVars,
                 turnVars, expired, groupVars>>

-----------------------------------------------------------------------------
(* The payload: request, connection, rows one by one, commit, trailer.     *)

Runs == tree = "running"

PayloadOnly == UNCHANGED <<job, pc, unsent, inClosed, proc, code, tree,
                           hostVars, turnVars, expired, groupVars>>

Write(frame) == outOpen /\ Len(out) < PipeRoom /\ out' = Append(out, frame)

ReadInput ==
  /\ Runs /\ prog \in {"read", "run"} /\ inPipe > 0
  /\ inPipe' = inPipe - 1
  /\ UNCHANGED <<payloadVars, out, outOpen>> /\ PayloadOnly

(* A request cut short is no JSON: an error the payload does not declare.  *)
ParseRequest ==
  /\ Runs /\ prog = "read" /\ inPipe = 0 /\ inClosed
  /\ prog' = IF unsent = 0 THEN "connect" ELSE "crash"
  /\ UNCHANGED <<emitted, tx, inPipe, out, outOpen>> /\ PayloadOnly

Connect ==
  /\ Runs /\ prog = "connect"
  /\ prog' \in {"execute", "error"}
  /\ UNCHANGED <<emitted, tx, inPipe, out, outOpen>> /\ PayloadOnly

Execute ==
  /\ Runs /\ prog = "execute"
  /\ \/ prog' = "emit" /\ tx' = "open"
     \/ prog' = "error" /\ tx' = "aborted"
  /\ UNCHANGED <<emitted, inPipe, out, outOpen>> /\ PayloadOnly

(* A query stops at its limit, a copy when its bytes are used up.          *)
Share == IF job.kind = "copy" THEN job.room ELSE Limit

EmitRow ==
  /\ Runs /\ prog = "emit" /\ emitted < Least(job.rows, Share)
  /\ Write(Row(emitted + 1))
  /\ emitted' = emitted + 1
  /\ UNCHANGED <<prog, tx, inPipe, outOpen>> /\ PayloadOnly

QueryFails ==
  /\ Runs /\ prog = "emit"
  /\ prog' = "error" /\ tx' = "aborted"
  /\ UNCHANGED <<emitted, inPipe, out, outOpen>> /\ PayloadOnly

Commit ==
  /\ Runs /\ prog = "emit" /\ emitted = Least(job.rows, Share)
  /\ prog' = "report" /\ tx' = "committed"
  /\ UNCHANGED <<emitted, inPipe, out, outOpen>> /\ PayloadOnly

WriteTrailer ==
  /\ Runs /\ prog = "report"
  /\ Write(Trailer(job.rows > Share))
  /\ prog' = "end"
  /\ UNCHANGED <<emitted, tx, inPipe, outOpen>> /\ PayloadOnly

WriteError ==
  /\ Runs /\ prog = "error"
  /\ Write(ErrorFrame)
  /\ prog' = "crash"
  /\ UNCHANGED <<emitted, tx, inPipe, outOpen>> /\ PayloadOnly

(* The main process of the sandbox ends; a command may end as it likes, an *)
(* out-of-memory kill or an error nobody declared may end a payload.       *)
Ends(status) ==
  /\ Runs
  /\ proc' = "zombie" /\ code' = status /\ tree' = "dying"
  /\ UNCHANGED <<job, pc, pipes, payloadVars, hostVars, turnVars, expired>>

PayloadEnds ==
  /\ \/ prog = "end" /\ Ends(0)
     \/ prog = "crash" /\ Ends(1)
  /\ UNCHANGED groupVars

PayloadDies ==
  /\ prog \notin {"end", "crash", "run"}
  /\ Fault /\ Ends(1)
  /\ UNCHANGED <<acq, leaf, baseVars>>

CommandWrites ==
  /\ Runs /\ prog = "run" /\ emitted < job.rows
  /\ Write(Row(emitted + 1))
  /\ emitted' = emitted + 1
  /\ UNCHANGED <<prog, tx, inPipe, outOpen>> /\ PayloadOnly

CommandCloses ==
  /\ Runs /\ prog = "run" /\ outOpen
  /\ outOpen' = FALSE
  /\ UNCHANGED <<payloadVars, inPipe, out>> /\ PayloadOnly

CommandEnds == prog = "run" /\ (Ends(0) \/ Ends(1)) /\ UNCHANGED groupVars

SandboxNext ==
  \/ TreeStarts \/ Dies \/ TreeDies
  \/ ReadInput \/ ParseRequest \/ Connect \/ Execute \/ EmitRow \/ QueryFails
  \/ Commit \/ WriteTrailer \/ WriteError \/ PayloadEnds \/ PayloadDies
  \/ CommandWrites \/ CommandCloses \/ CommandEnds

-----------------------------------------------------------------------------
(* The thread of the host, up to the process.                              *)

HostOnly == UNCHANGED <<job, payloadVars>>
NoProcess == UNCHANGED <<pipes, procVars, turnVars>>
NoGroup == UNCHANGED groupVars
Keep == UNCHANGED <<got, frames, timedOut, expired>>

(* Rendering the profile, its directories and the command line.            *)
Prepared ==
  /\ IF job.grouped
     THEN Goto("prepare", "acquire") /\ acq' = "prepare"
     ELSE Goto("prepare", "start") /\ UNCHANGED acq
  /\ HostOnly /\ NoProcess /\ Keep
  /\ UNCHANGED <<answer, leaf, baseVars, faults>>

PrepareFails ==
  /\ Goto("prepare", "done") /\ Fault
  /\ answer' = "failed"
  /\ HostOnly /\ NoProcess /\ Keep
  /\ UNCHANGED <<acq, leaf, baseVars>>

Acquired ==
  /\ acq = "made" /\ Goto("acquire", "start")
  /\ HostOnly /\ NoProcess /\ Keep /\ NoGroup /\ UNCHANGED answer

NotAcquired ==
  /\ acq = "failed" /\ Goto("acquire", "done")
  /\ answer' = "failed"
  /\ HostOnly /\ NoProcess /\ Keep /\ NoGroup

Start ==
  /\ Goto("start", "limits")
  /\ proc' = "running"
  /\ UNCHANGED <<pipes, code, tree, turnVars, answer>>
  /\ HostOnly /\ Keep /\ NoGroup

\* Mutation: a process that is already killed is not waited for.
StartFailsHere ==
  /\ (Goto("start", "finish") \/ Goto("limits", "finish"))
  /\ Fault
  /\ answer' = "failed"
  /\ HostOnly /\ NoProcess /\ Keep
  /\ UNCHANGED <<acq, leaf, baseVars>>

(* Popen fails and leaves nothing; the limits fail and leave the process.  *)
StartFails ==
  /\ (Goto("start", "release") \/ Goto("limits", "release"))
  /\ Fault
  /\ answer' = "failed"
  /\ HostOnly /\ NoProcess /\ Keep
  /\ UNCHANGED <<acq, leaf, baseVars>>

ApplyLimits ==
  /\ Goto("limits", "enter")
  /\ HostOnly /\ NoProcess /\ Keep /\ NoGroup /\ UNCHANGED answer

(* abort_with: a turn that has been stopped raises before it registers.    *)
Enter ==
  /\ IF stopped
     THEN Goto("enter", "release") /\ answer' = "stopped"
     ELSE Goto("enter", "register") /\ UNCHANGED answer
  /\ HostOnly /\ NoProcess /\ Keep /\ NoGroup

Register ==
  /\ Goto("register", "feed")
  /\ registered' = TRUE
  /\ UNCHANGED <<pipes, procVars, stopped, aborting, answer>>
  /\ HostOnly /\ Keep /\ NoGroup

-----------------------------------------------------------------------------
(* Feeding: the request is written before anything is read and before the  *)
(* deadline is set.                                                        *)

NoReader == tree = "dead"

Feed ==
  /\ pc = "feed" /\ unsent > 0 /\ inPipe < PipeRoom /\ ~NoReader
  /\ unsent' = unsent - 1 /\ inPipe' = inPipe + 1
  /\ UNCHANGED <<pc, inClosed, out, outOpen, procVars, turnVars, answer>>
  /\ HostOnly /\ Keep /\ NoGroup

FeedEnds ==
  /\ unsent = 0 \/ NoReader
  /\ Goto("feed", "pump")
  /\ inClosed' = TRUE
  /\ UNCHANGED <<unsent, inPipe, out, outOpen, procVars, turnVars, answer>>
  /\ HostOnly /\ Keep /\ NoGroup

-----------------------------------------------------------------------------
(* Pumping: the flag, the deadline, then what can be read.                 *)

Expire ==
  /\ pc = "pump" /\ ~expired
  /\ expired' = TRUE
  /\ UNCHANGED <<job, pc, pipes, procVars, payloadVars, hostVars, turnVars, groupVars>>

PumpStops ==
  /\ stopped /\ Goto("pump", "reap")
  /\ HostOnly /\ NoProcess /\ Keep /\ NoGroup /\ UNCHANGED answer

PumpExpires ==
  /\ expired /\ Goto("pump", "reap")
  /\ timedOut' = TRUE /\ proc' = Killed
  /\ UNCHANGED <<pipes, code, tree, turnVars, got, frames, expired, answer>>
  /\ HostOnly /\ NoGroup

PumpEof ==
  /\ out = <<>> /\ (tree = "dead" \/ ~outOpen)
  /\ Goto("pump", "reap")
  /\ HostOnly /\ NoProcess /\ Keep /\ NoGroup /\ UNCHANGED answer

(* What the sink of the tool says to the next row: RowCollector refuses it *)
(* before, TextCollector after it has taken it.                            *)
SinkRefuses ==
  IF job.kind = "query"
  THEN IF Len(got) + 1 > job.room THEN "too_large"
       ELSE IF Len(got) >= Limit THEN "too_many" ELSE "none"
  ELSE IF Len(got) + 1 > job.room THEN "too_large"
       ELSE IF Len(got) + 1 > Limit THEN "too_many" ELSE "none"

PumpRead ==
  /\ pc = "pump" /\ out # <<>>
  /\ out' = Tail(out)
  /\ UNCHANGED <<unsent, inPipe, inClosed, outOpen, procVars, turnVars>>
  /\ LET frame == Head(out) IN
     \/ /\ job.kind = "command"
        /\ IF Len(got) < job.room
           THEN got' = Append(got, frame.row) /\ UNCHANGED frames
           ELSE frames' = <<Cut>> /\ UNCHANGED got
        /\ UNCHANGED <<pc, answer>>
     \/ /\ job.kind # "command" /\ frame.frame # "chunk"
        /\ frames' = Append(frames, frame)
        /\ UNCHANGED <<pc, got, answer>>
     \/ /\ job.kind # "command" /\ frame.frame = "chunk" /\ SinkRefuses = "none"
        /\ got' = Append(got, frame.row)
        /\ UNCHANGED <<pc, frames, answer>>
     \/ /\ job.kind # "command" /\ frame.frame = "chunk" /\ SinkRefuses # "none"
        /\ answer' = SinkRefuses /\ pc' = "abort"
        /\ UNCHANGED <<got, frames>>
  /\ UNCHANGED <<timedOut, expired>>
  /\ HostOnly /\ NoGroup

(* A sink that raises: the process is killed and waited for.               *)
AbortKills ==
  /\ Goto("abort", "aborted")
  /\ proc' = Killed
  /\ UNCHANGED <<pipes, code, tree, turnVars, answer>>
  /\ HostOnly /\ Keep /\ NoGroup

AbortEnds ==
  /\ proc = "zombie" /\ Goto("aborted", "release")
  /\ proc' = "reaped" /\ registered' = FALSE
  /\ UNCHANGED <<pipes, code, tree, stopped, aborting, answer>>
  /\ HostOnly /\ Keep /\ NoGroup

Reap ==
  /\ proc = "zombie" /\ Goto("reap", "leave")
  /\ proc' = "reaped"
  /\ UNCHANGED <<pipes, code, tree, turnVars, answer>>
  /\ HostOnly /\ Keep /\ NoGroup

\* Mutation: only a call whose deadline has passed is killed after the wait.
ReapKillsNot ==
  /\ pc = "reap" /\ proc = "running" /\ timedOut
  /\ proc' = "killed"
  /\ UNCHANGED <<pc, pipes, code, tree, turnVars, answer>>
  /\ HostOnly /\ Keep /\ NoGroup

(* wait(timeout=5) runs out.                                               *)
ReapKills ==
  /\ pc = "reap" /\ proc = "running"
  /\ proc' = "killed"
  /\ UNCHANGED <<pc, pipes, code, tree, turnVars, answer>>
  /\ HostOnly /\ Keep /\ NoGroup

Leave ==
  /\ Goto("leave", "release")
  /\ registered' = FALSE
  /\ answer' = IF stopped THEN "stopped" ELSE answer
  /\ UNCHANGED <<pipes, procVars, stopped, aborting>>
  /\ HostOnly /\ Keep /\ NoGroup

-----------------------------------------------------------------------------
(* Releasing the leaf: whoever is left in it is killed, then rmdir is      *)
(* tried until it works or five seconds are over.                          *)

Release ==
  /\ IF job.grouped
     THEN /\ Goto("release", "rmdir")
          /\ proc' = Killed
          /\ tree' = IF tree = "running" THEN "dying" ELSE tree
     ELSE /\ Goto("release", "finish")
          /\ UNCHANGED <<proc, tree>>
  /\ UNCHANGED <<pipes, code, turnVars, answer>>
  /\ HostOnly /\ Keep /\ NoGroup

Empty == tree \in {"none", "dead"} /\ proc \notin {"running", "killed"}

Released(state) ==
  /\ Goto("rmdir", "finish")
  /\ leaf' = state
  /\ HostOnly /\ NoProcess /\ Keep /\ UNCHANGED <<answer, acq, baseVars, faults>>

RemoveLeaf == Empty /\ Released("gone")
ReleaseExpires == ~Empty /\ Released("left")

-----------------------------------------------------------------------------
(* finish() of the decoder and what the tool makes of it.                  *)

\* Mutation: the exit status and the trailer are looked at, the deadline is not.
VerdictLate ==
  IF \E i \in 1 .. Len(frames) : frames[i].frame = "error" THEN "failed"
  ELSE IF frames = <<>> /\ code = 0 THEN "failed"
  ELSE "ok"

Verdict ==
  IF timedOut THEN "failed"
  ELSE IF \E i \in 1 .. Len(frames) : frames[i].frame = "error" THEN "failed"
  ELSE IF code # 0 THEN "failed"
  ELSE IF frames = <<>> THEN "failed"
  ELSE IF job.kind = "copy" /\ frames[1].truncated THEN "too_large"
  ELSE "ok"

Finish ==
  /\ Goto("finish", "done")
  /\ answer' = IF answer # "none" THEN answer
               ELSE IF job.kind = "command" THEN "text" ELSE Verdict
  /\ HostOnly /\ NoProcess /\ Keep /\ NoGroup

HostStep ==
  \/ Prepared \/ PrepareFails \/ Acquired \/ NotAcquired \/ Start \/ StartFails
  \/ ApplyLimits \/ Enter \/ Register \/ Feed \/ FeedEnds
  \/ PumpStops \/ PumpExpires \/ PumpEof \/ PumpRead
  \/ AbortKills \/ AbortEnds \/ Reap \/ ReapKills \/ Leave
  \/ Release \/ RemoveLeaf \/ ReleaseExpires \/ Finish

-----------------------------------------------------------------------------
(* Stop, from another thread: the interrupters are copied under the lock   *)
(* of the turn and called after it.                                        *)

Stop ==
  /\ ~stopped /\ pc # "done"
  /\ stopped' = TRUE /\ aborting' = registered
  /\ UNCHANGED <<job, pc, pipes, procVars, payloadVars, hostVars, registered,
                 expired, groupVars>>

\* Mutation: a stop that has been called only sets the flag.
CallAbortIdle ==
  /\ aborting
  /\ aborting' = FALSE
  /\ UNCHANGED <<job, pc, pipes, procVars, payloadVars, hostVars, stopped,
                 registered, expired, groupVars>>

CallAbort ==
  /\ aborting
  /\ aborting' = FALSE /\ proc' = Killed
  /\ UNCHANGED <<job, pc, pipes, code, tree, payloadVars, hostVars, stopped,
                 registered, expired, groupVars>>

(* An orphan: the pipes of a call that is over are closed when its objects *)
(* are collected.                                                          *)
Collected ==
  /\ pc = "done" /\ ~inClosed
  /\ inClosed' = TRUE
  /\ UNCHANGED <<job, pc, unsent, inPipe, out, outOpen, procVars, payloadVars,
                 hostVars, turnVars, expired, groupVars>>

Next ==
  \/ HostStep \/ SandboxNext \/ Stop \/ CallAbort \/ Expire \/ Collected
  \/ GroupNext /\ UNCHANGED callVars

Spec == Init /\ [][Next]_vars

(* The host runs, the clock goes on, signals arrive and a prepared cgroup  *)
(* is a few writes.  Nothing is owed by the payload: it may hang anywhere. *)
CallFairness ==
  /\ WF_vars(HostStep) /\ WF_vars(Expire) /\ WF_vars(CallAbort)
  /\ WF_vars(Dies) /\ WF_vars(TreeDies)
  /\ WF_vars(AcquireStep /\ UNCHANGED callVars)

FairSpec == Spec /\ CallFairness

-----------------------------------------------------------------------------
(* Properties.                                                             *)

(* When a call is over its leaf is not forgotten, and its process is gone  *)
(* -- except that without a cgroup a call stopped between the start of the *)
(* process and its interrupter (or one whose limits cannot be set) leaves  *)
(* the process running: nobody kills it.                                   *)
NothingIsLeft ==
  pc = "done" =>
    /\ leaf # "made"
    /\ proc = "running" => ~job.grouped /\ answer \in {"stopped", "failed"}

(* An interrupter that is called ends the call, also one that is blocked   *)
(* writing to a process that does not read.                                *)
StopEndsCall == aborting ~> pc = "done"

(* From the moment its output is read a call ends, whatever the payload    *)
(* does: it hangs, closes its output, or leaves children behind.           *)
PumpedCallEnds == pc = "pump" ~> pc = "done"

(* "Hard timeout of the execution of the process": every call that has     *)
(* started its process ends (it does not: the deadline is set after the    *)
(* request has been written, and the write waits for a reader).            *)
CallEnds == pc = "limits" ~> pc = "done"

-----------------------------------------------------------------------------
=============================================================================
