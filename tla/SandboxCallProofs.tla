------------------------- MODULE SandboxCallProofs -------------------------
(***************************************************************************)
(* What the model is told of a sandboxed call is the answer of the         *)
(* database or the output of the command, and no call forgets its process  *)
(* or its leaf: machine-checked for requests, tables, limits and pipes of  *)
(* any size, wherever the call is stopped, killed or cut off.              *)
(***************************************************************************)
EXTENDS ToolCall, TLAPS

Chunk == [frame : {"chunk"}, row : Nat]
Frame == Chunk \cup [frame : {"trailer"}, truncated : BOOLEAN]
           \cup [frame : {"error"}]

CallTyped ==
  /\ job \in Jobs /\ emitted \in Nat /\ got \in Seq(Nat)
  /\ out \in Seq(Frame) /\ frames \in Seq(Frame \cup {Cut})

-----------------------------------------------------------------------------
(* The stream from the payload to the sink                                 *)

\* The frame a payload ends its output with, when it ends it.
FinalFrame(f) ==
  \/ f = Trailer(job.rows > Share) /\ prog = "end"
  \/ f = ErrorFrame /\ prog = "crash"

\* The first n frames in the pipe are the rows that follow those the sink has.
RowsComing(n) == \A i \in 1..n : out[i] = Row(Len(got) + i)

\* The final frame is not written, or is in the pipe, or has been read.
NotOver ==
  frames = <<>> /\ emitted = Len(got) + Len(out) /\ RowsComing(Len(out))
OverSoon ==
  /\ frames = <<>> /\ out # <<>> /\ emitted + 1 = Len(got) + Len(out)
  /\ RowsComing(Len(out) - 1) /\ FinalFrame(out[Len(out)])
Over ==
  out = <<>> /\ emitted = Len(got) /\ Len(frames) = 1 /\ FinalFrame(frames[1])

TooMuch == {"too_large", "too_many"}

\* The sink has the rows from the first one on, and no row is lost between the
\* payload and the sink unless the sink has refused one.
RowsInOrder ==
  job.kind # "command" =>
    /\ \A i \in 1..Len(got) : got[i] = i
    /\ answer \notin TooMuch => NotOver \/ OverSoon \/ Over

\* What a command wrote is with the host or in the pipe until some is cut.
OutputIsCounted ==
  job.kind = "command" =>
    /\ prog = "run" /\ (frames = <<>> => emitted = Len(got) + Len(out))
    /\ \A i \in 1..Len(out) : out[i] \in Chunk

\* A payload reports what it has committed.
CommittedLast ==
  /\ job.kind # "command" => prog # "run"
  /\ prog \in {"read", "connect", "execute"} => emitted = 0
  /\ prog \in {"report", "end"} => tx = "committed" /\ emitted = Least(job.rows, Share)

Stream == CallTyped /\ RowsInOrder /\ OutputIsCounted /\ CommittedLast

-----------------------------------------------------------------------------
(* The thread of the host                                                  *)

\* An answer is made on a way out, "ok" from a trailer at the very end.
Unanswered ==
  {"prepare", "acquire", "start", "limits", "enter", "register", "feed", "pump", "reap",
   "leave"}
AnswersCome ==
  /\ pc \in Unanswered => answer = "none"
  /\ answer = "ok" =>
       /\ pc = "done" /\ job.kind # "command" /\ frames = <<Trailer(job.rows > Share)>>
       /\ job.kind = "copy" => job.rows <= Share

\* A leaf is made for a call that will come to its release.
LeafIsHeld ==
  /\ ~job.grouped \/ pc = "prepare" => acq = "idle"
  /\ pc \notin {"prepare", "acquire"} => acq \in {"idle", "made", "failed"}
  /\ leaf = "made" => acq \in {"limits", "made"} /\ pc \notin {"prepare", "finish", "done"}

\* The process is waited for, or killed with its leaf, or given up with an error.
ProcessIsHeld ==
  /\ pc \in {"prepare", "acquire", "start"} => proc = "none"
  /\ tree = "running" => proc \in {"running", "killed"}
  /\ pc = "leave" => proc = "reaped"
  /\ pc = "release" /\ proc = "running" => answer \in {"stopped", "failed"}
  /\ pc = "rmdir" => job.grouped /\ proc # "running"
  /\ pc \in {"finish", "done"} /\ proc = "running" =>
       ~job.grouped /\ answer \in {"stopped", "failed"}

Control == AnswersCome /\ LeafIsHeld /\ ProcessIsHeld

-----------------------------------------------------------------------------
\* A result says what the call has left.
Results == {"table", "text", "affected"}
ToldWhatIs ==
  /\ told # Untold => pc = "done"
  /\ told.as \in Results => answer = "ok"
  /\ told.as = "table" => job.kind = "query" /\ told.note = (frames = <<Trailer(TRUE)>>)
  /\ told.as = "text" => job.kind = "copy"
  /\ told.as = "json" => job.kind = "command" /\ told.cut = (frames # <<>>)

ToolInv == Stream /\ Control /\ ToldWhatIs

-----------------------------------------------------------------------------
\* A call begins with nothing written, answered or made.
LEMMA ToolInvInit == ToolInit => ToolInv
  <1> SUFFICES ASSUME ToolInit PROVE ToolInv
    OBVIOUS
  <1> USE DEF ToolInit, Init, GroupInit
  <1>1. CallTyped
    BY DEF CallTyped
  <1>2. RowsInOrder /\ OutputIsCounted /\ CommittedLast
    BY DEF RowsInOrder, NotOver, RowsComing, OutputIsCounted, CommittedLast
  <1>3. Control
    BY DEF Control, AnswersCome, LeafIsHeld, ProcessIsHeld
  <1>4. ToldWhatIs
    BY DEF ToldWhatIs, Untold, Results
  <1> QED
    BY <1>1, <1>2, <1>3, <1>4 DEF ToolInv, Stream

-----------------------------------------------------------------------------
(* The thread of the host                                                  *)

\* The bounds of a call are natural numbers.
LEMMA Amounts ==
  ASSUME job \in Jobs
  PROVE  job.rows \in Nat /\ job.room \in Nat /\ Share \in Nat /\ Limit \in Nat
  <1>1. MaxRows \in Nat /\ Limit \in Nat /\ Capacities \subseteq Nat
    BY CallAssumption
  <1>2. job.rows \in 0..MaxRows /\ job.room \in Capacities
    BY DEF Jobs
  <1>3. job.rows \in Nat
    BY <1>1, <1>2, SMT
  <1>4. job.room \in Nat
    BY <1>1, <1>2, Zenon
  <1> QED
    BY <1>1, <1>3, <1>4, Zenon DEF Share

\* A verdict is "ok" over the trailer of a payload, and over no cut of an export.
LEMMA VerdictIsOk ==
  ASSUME Stream, answer \notin TooMuch, job.kind # "command", Verdict = "ok"
  PROVE  /\ frames = <<Trailer(job.rows > Share)>>
         /\ job.kind = "copy" => job.rows <= Share
  <1> USE DEF Stream, CallTyped
  <1>1. NotOver \/ OverSoon \/ Over
    BY DEF RowsInOrder
  <1>2. frames # <<>> /\ (\A i \in 1..Len(frames) : frames[i].frame # "error")
    BY DEF Verdict
  <1>3. Over
    BY <1>1, <1>2 DEF NotOver, OverSoon
  <1>4. Len(frames) = 1 /\ FinalFrame(frames[1]) /\ frames[1].frame # "error"
    BY <1>2, <1>3 DEF Over
  <1>5. frames[1] = Trailer(job.rows > Share)
    BY <1>4 DEF FinalFrame, ErrorFrame
  <1>6. frames = <<frames[1]>>
    BY <1>4
  <1>7. job.kind = "copy" => ~frames[1].truncated
    BY <1>2 DEF Verdict
  <1>8. job.rows \in Nat /\ Share \in Nat
    BY Amounts
  <1>9. (job.rows > Share) \in BOOLEAN
    BY <1>8
  <1>10. frames[1].truncated = (job.rows > Share)
    BY <1>5, <1>9 DEF Trailer
  <1>11. job.kind = "copy" => ~(job.rows > Share)
    BY <1>7, <1>9, <1>10, Zenon
  <1>12. job.kind = "copy" => job.rows <= Share
    BY <1>8, <1>11
  <1> QED
    BY <1>5, <1>6, <1>12, Zenon

\* Each step of the host keeps its leaf and its process.
LEMMA HostControl == ASSUME Stream, Control, HostStep PROVE Control'
  <1> USE DEF Control, AnswersCome, Unanswered, LeafIsHeld, ProcessIsHeld, Goto, HostOnly,
              NoProcess, NoGroup, Keep, pipes, procVars, payloadVars, hostVars, turnVars,
              groupVars, baseVars, Share, Trailer, Killed
  <1>1. CASE Prepared
    BY <1>1 DEF Prepared
  <1>2. CASE PrepareFails
    BY <1>2 DEF PrepareFails
  <1>3. CASE Acquired
    BY <1>3 DEF Acquired
  <1>4. CASE NotAcquired
    BY <1>4 DEF NotAcquired
  <1>5. CASE Start
    BY <1>5 DEF Start
  <1>6. CASE StartFails
    BY <1>6 DEF StartFails
  <1>7. CASE ApplyLimits
    BY <1>7 DEF ApplyLimits
  <1>8. CASE Enter
    BY <1>8 DEF Enter
  <1>9. CASE Register
    BY <1>9 DEF Register
  <1>10. CASE Feed \/ FeedEnds
    BY <1>10 DEF Feed, FeedEnds
  <1>11. CASE PumpStops \/ PumpExpires \/ PumpEof
    BY <1>11 DEF PumpStops, PumpExpires, PumpEof
  <1>12. CASE PumpRead
    BY <1>12 DEF PumpRead, SinkRefuses
  <1>13. CASE AbortKills \/ AbortEnds
    BY <1>13 DEF AbortKills, AbortEnds
  <1>14. CASE Reap \/ ReapKills
    BY <1>14 DEF Reap, ReapKills
  <1>15. CASE Leave
    BY <1>15 DEF Leave
  <1>16. CASE Release
    BY <1>16 DEF Release
  <1>17. CASE RemoveLeaf \/ ReleaseExpires
    BY <1>17 DEF RemoveLeaf, ReleaseExpires, Released
  <1>18. CASE Finish
    <2>1. answer = "none" /\ job.kind # "command" /\ Verdict = "ok" =>
            /\ frames = <<Trailer(job.rows > Share)>>
            /\ job.kind = "copy" => job.rows <= Share
      BY VerdictIsOk DEF TooMuch
    <2> HIDE DEF Share, Trailer
    <2>2. Share' = Share
      BY <1>18 DEF Finish, Share
    <2>3. AnswersCome'
      <3>1. answer' = "ok" => answer = "ok" \/ (answer = "none" /\ job.kind # "command" /\ Verdict = "ok")
        BY <1>18 DEF Finish
      <3>2. answer # "ok"
        BY <1>18 DEF Finish
      <3>3. pc' = "done" /\ UNCHANGED <<job, frames>>
        BY <1>18 DEF Finish
      <3>4. Trailer(job.rows > Share)' = Trailer(job.rows > Share)
        BY <2>2, <3>3 DEF Trailer
      <3> QED
        BY <2>1, <2>2, <3>1, <3>2, <3>3, <3>4 
    <2>4. (LeafIsHeld /\ ProcessIsHeld)'
      BY <1>18 DEF Finish
    <2> QED
      BY <2>3, <2>4
  <1> QED
    BY <1>1, <1>2, <1>3, <1>4, <1>5, <1>6, <1>7, <1>8, <1>9, <1>10, <1>11, <1>12, <1>13,
       <1>14, <1>15, <1>16, <1>17, <1>18 DEF HostStep

\* The sandbox answers nothing; it ends its process, and starts none.
LEMMA SandboxControl == ASSUME Control, SandboxNext PROVE Control'
  <1>1. UNCHANGED <<pc, answer, job, frames, acq, leaf>>
    BY DEF SandboxNext, TreeStarts, Dies, TreeDies, ReadInput, ParseRequest, Connect, Execute,
           EmitRow, QueryFails, Commit, WriteTrailer, WriteError, PayloadEnds, PayloadDies,
           CommandWrites, CommandCloses, CommandEnds, Ends, PayloadOnly, hostVars, groupVars
  <1>2. \/ UNCHANGED <<proc, tree>>
        \/ proc = "running" /\ UNCHANGED proc
        \/ proc = "killed" /\ proc' = "zombie" /\ tree' # "running"
        \/ UNCHANGED proc /\ tree' # "running"
        \/ tree = "running" /\ proc' = "zombie" /\ tree' = "dying"
    <2>1. CASE TreeStarts \/ TreeDies
      BY <2>1 DEF TreeStarts, TreeDies
    <2>2. CASE Dies
      BY <2>2 DEF Dies
    <2>3. CASE PayloadEnds \/ PayloadDies \/ CommandEnds
      BY <2>3 DEF PayloadEnds, PayloadDies, CommandEnds, Ends, Runs
    <2>4. CASE UNCHANGED <<proc, tree>>
      BY <2>4
    <2> QED
      BY <2>1, <2>2, <2>3, <2>4 DEF SandboxNext, ReadInput, ParseRequest, Connect, Execute,
           EmitRow, QueryFails, Commit, WriteTrailer, WriteError, CommandWrites, CommandCloses,
           PayloadOnly
  <1>3. AnswersCome'
    BY <1>1 DEF Control, AnswersCome, Unanswered, Trailer, Share
  <1>4. LeafIsHeld'
    BY <1>1 DEF Control, LeafIsHeld
  <1>5. ProcessIsHeld'
    BY <1>1, <1>2 DEF Control, ProcessIsHeld
  <1> QED
    BY <1>3, <1>4, <1>5 DEF Control

\* A stop kills the process or does nothing; a clock and a collector do neither.
LEMMA OthersControl ==
  ASSUME Control, Stop \/ CallAbort \/ Expire \/ Collected \/ StopLate \/ NeverRun
  PROVE  Control'
  <1> USE DEF Control, AnswersCome, Unanswered, LeafIsHeld, ProcessIsHeld, Goto,
              pipes, procVars, hostVars, turnVars, groupVars, Share, Trailer, Killed
  <1>1. CASE Stop \/ Expire \/ Collected \/ StopLate
    BY <1>1 DEF Stop, Expire, Collected, StopLate
  <1>2. CASE CallAbort
    BY <1>2 DEF CallAbort
  <1>3. CASE NeverRun
    BY <1>3 DEF NeverRun
  <1> QED
    BY <1>1, <1>2, <1>3

\* A leaf is made while its call waits for it.
LEMMA GroupControl == ASSUME Control, GroupNext, UNCHANGED callVars PROVE Control'
  <1>1. UNCHANGED <<pc, answer, job, frames, proc, tree>>
    BY DEF callVars, hostVars, procVars
  <1>2. AnswersCome'
    BY <1>1 DEF Control, AnswersCome, Unanswered, Trailer, Share
  <1>3. ProcessIsHeld'
    BY <1>1 DEF Control, ProcessIsHeld
  <1>4. LeafIsHeld'
    <2>1. CASE Fork \/ ProcessEnds
      BY <1>1, <2>1 DEF Control, LeafIsHeld, Fork, ProcessEnds
    <2>2. CASE AcquireStep
      <3>1. acq \notin {"idle", "made", "failed"}
        BY <2>2 DEF AcquireStep, Prepare, EnableInParent, ReadProcesses, MoveProcesses,
                    EvacuationGivesUp, EnableAgain, EnableInBase, MakeLeaf, WriteLimits,
                    LimitsFail, AcquireFails, Fail, At
      <3>2. pc = "acquire" /\ job.grouped
        BY <3>1 DEF Control, LeafIsHeld
      <3>3. leaf' = "made" => acq' \in {"limits", "made"}
        BY <2>2 DEF Control, LeafIsHeld, AcquireStep, Prepare, EnableInParent, ReadProcesses,
                    MoveProcesses, EvacuationGivesUp, EnableAgain, EnableInBase, MakeLeaf,
                    WriteLimits, LimitsFail, AcquireFails, Fail, At
      <3> QED
        BY <1>1, <3>2, <3>3 DEF LeafIsHeld
    <2> QED
      BY <2>1, <2>2 DEF GroupNext
  <1> QED
    BY <1>2, <1>3, <1>4 DEF Control

-----------------------------------------------------------------------------
(* The stream from the payload to the sink                                 *)

\* A step that leaves the pipe, the sink and the payload alone.
LEMMA StreamKept ==
  ASSUME Stream, UNCHANGED <<job, prog, emitted, out, got, frames>>,
         tx = "committed" => tx' = "committed",
         answer \in TooMuch => answer' \in TooMuch
  PROVE  Stream'
  <1>1. CallTyped'
    BY DEF Stream, CallTyped
  <1>2. RowsInOrder'
    BY DEF Stream, RowsInOrder, NotOver, OverSoon, Over, RowsComing, FinalFrame, Trailer, Share,
           Row, ErrorFrame
  <1>3. OutputIsCounted'
    BY DEF Stream, OutputIsCounted
  <1>4. CommittedLast'
    BY DEF Stream, CommittedLast, Least, Share
  <1> QED
    BY <1>1, <1>2, <1>3, <1>4 DEF Stream

\* Until it ends its output a payload has written rows and nothing else.
LEMMA OnlyRows ==
  ASSUME Stream, job.kind # "command", answer \notin TooMuch, prog \notin {"end", "crash"}
  PROVE  NotOver
  BY DEF Stream, RowsInOrder, OverSoon, Over, FinalFrame

\* A step of the payload that writes nothing.
LEMMA ProgMoves ==
  ASSUME Stream, prog \notin {"end", "crash"}, job.kind # "command",
         UNCHANGED <<job, emitted, out, got, frames, answer>>, CommittedLast'
  PROVE  Stream'
  <1>1. CallTyped'
    BY DEF Stream, CallTyped
  <1>2. RowsInOrder'
    <2>1. answer \notin TooMuch => NotOver'
      BY OnlyRows DEF NotOver, RowsComing, Row
    <2> QED
      BY <2>1 DEF Stream, RowsInOrder
  <1>3. OutputIsCounted'
    BY DEF OutputIsCounted
  <1> QED
    BY <1>1, <1>2, <1>3 DEF Stream

\* A row goes to the end of the pipe.
LEMMA RowIsWritten ==
  ASSUME Stream, prog \in {"emit", "run"}, Write(Row(emitted + 1)), emitted' = emitted + 1,
         UNCHANGED <<job, prog, tx, got, frames, answer>>
  PROVE  Stream'
  <1>1. emitted \in Nat /\ got \in Seq(Nat) /\ out \in Seq(Frame)
    BY DEF Stream, CallTyped
  <1>2. Row(emitted + 1) \in Chunk /\ Row(emitted + 1) \in Frame
    BY <1>1 DEF Row, Chunk, Frame
  <1>3. out' = Append(out, Row(emitted + 1))
    BY DEF Write
  <1>4. /\ out' \in Seq(Frame) /\ Len(out') = Len(out) + 1 /\ Len(out) \in Nat
        /\ \A i \in 1..Len(out) : out'[i] = out[i]
        /\ out'[Len(out) + 1] = Row(emitted + 1)
    BY <1>1, <1>2, <1>3
  <1> HIDE DEF Write
  <1>5. CallTyped'
    BY <1>1, <1>4 DEF Stream, CallTyped
  <1>6. RowsInOrder'
    <2>1. SUFFICES ASSUME job.kind # "command"
                   PROVE  /\ \A i \in 1..Len(got) : got[i] = i
                          /\ answer \notin TooMuch => NotOver'
      BY <2>1 DEF RowsInOrder
    <2>2. \A i \in 1..Len(got) : got[i] = i
      BY <2>1 DEF Stream, RowsInOrder
    <2>3. ASSUME answer \notin TooMuch PROVE NotOver'
      <3>1. frames = <<>> /\ emitted = Len(got) + Len(out) /\ RowsComing(Len(out))
        BY <2>1, <2>3, OnlyRows DEF NotOver
      <3>2. \A i \in 1..Len(out) + 1 : out'[i] = Row(Len(got) + i)
        <4>1. Len(got) + (Len(out) + 1) = emitted + 1
          BY <1>1, <1>4, <3>1
        <4>2. out'[Len(out) + 1] = Row(Len(got) + (Len(out) + 1))
          BY <1>4, <4>1
        <4>3. \A i \in 1..Len(out) : out'[i] = Row(Len(got) + i)
          BY <1>4, <3>1 DEF RowsComing
        <4>4. \A i \in 1..Len(out) + 1 : i \in 1..Len(out) \/ i = Len(out) + 1
          BY <1>4
        <4> QED
          BY <4>2, <4>3, <4>4, Zenon
      <3>3. emitted' = Len(got) + Len(out')
        BY <1>1, <1>4, <3>1
      <3> QED
        BY <1>4, <3>1, <3>2, <3>3 DEF NotOver, RowsComing, Row
    <2> QED
      BY <2>2, <2>3
  <1>7. OutputIsCounted'
    BY <1>1, <1>2, <1>4 DEF Stream, OutputIsCounted
  <1>8. CommittedLast'
    BY DEF Stream, CommittedLast
  <1> QED
    BY <1>5, <1>6, <1>7, <1>8 DEF Stream

\* The final frame goes to the end of the pipe.
LEMMA EndIsWritten ==
  ASSUME Stream, job.kind # "command", prog \notin {"end", "crash"},
         NEW f \in Frame, Write(f), FinalFrame(f)', CommittedLast',
         UNCHANGED <<job, emitted, got, frames, answer>>
  PROVE  Stream'
  <1>1. emitted \in Nat /\ got \in Seq(Nat) /\ out \in Seq(Frame)
    BY DEF Stream, CallTyped
  <1>2. out' = Append(out, f)
    BY DEF Write
  <1>3. /\ out' \in Seq(Frame) /\ Len(out') = Len(out) + 1 /\ Len(out) \in Nat
        /\ \A i \in 1..Len(out) : out'[i] = out[i]
        /\ out'[Len(out')] = f /\ out' # <<>>
    BY <1>1, <1>2
  <1>4. CallTyped'
    BY <1>1, <1>3 DEF Stream, CallTyped
  <1>5. RowsInOrder'
    <2>1. ASSUME answer \notin TooMuch PROVE OverSoon'
      <3>1. frames = <<>> /\ emitted = Len(got) + Len(out) /\ RowsComing(Len(out))
        BY <2>1, OnlyRows DEF NotOver
      <3>2. Len(out') - 1 = Len(out) /\ emitted + 1 = Len(got) + Len(out')
        BY <1>1, <1>3, <3>1
      <3>3. \A i \in 1..Len(out) : out'[i] = Row(Len(got) + i)
        BY <1>3, <3>1 DEF RowsComing
      <3>4. RowsComing(Len(out) - 1)'
        BY <3>2, <3>3 DEF RowsComing, Row
      <3>5. FinalFrame(out[Len(out)])'
        BY <1>3
      <3> QED
        BY <1>3, <3>1, <3>2, <3>4, <3>5 DEF OverSoon
    <2> QED
      BY <2>1 DEF Stream, RowsInOrder
  <1>6. OutputIsCounted'
    BY DEF OutputIsCounted
  <1> QED
    BY <1>4, <1>5, <1>6 DEF Stream

\* The sandbox writes rows, then one final frame.
LEMMA SandboxStream == ASSUME Stream, Control, SandboxNext PROVE Stream'
  <1> USE DEF PayloadOnly, hostVars, payloadVars, Runs
  <1>1. CASE TreeStarts \/ Dies \/ TreeDies
    BY <1>1, StreamKept DEF TreeStarts, Dies, TreeDies, pipes
  <1>2. CASE ReadInput \/ CommandCloses
    BY <1>2, StreamKept DEF ReadInput, CommandCloses
  <1>3. CASE PayloadEnds \/ PayloadDies \/ CommandEnds
    BY <1>3, StreamKept DEF PayloadEnds, PayloadDies, CommandEnds, Ends, pipes
  <1>4. CASE EmitRow \/ CommandWrites
    BY <1>4, RowIsWritten DEF EmitRow, CommandWrites
  <1>5. SUFFICES ASSUME ParseRequest \/ Connect \/ Execute \/ QueryFails \/ Commit
                        \/ WriteTrailer \/ WriteError
                 PROVE  Stream'
    BY <1>1, <1>2, <1>3, <1>4, <1>5 DEF SandboxNext
  <1>6. job.kind # "command" /\ prog \notin {"end", "crash"}
    BY <1>5 DEF Stream, OutputIsCounted, ParseRequest, Connect, Execute, QueryFails, Commit,
                WriteTrailer, WriteError
  <1>7. CASE ParseRequest \/ Connect \/ Execute \/ QueryFails \/ Commit
    <2>1. CommittedLast'
      BY <1>7 DEF Stream, CommittedLast, ParseRequest, Connect, Execute, QueryFails, Commit,
                  Least, Share
    <2>2. UNCHANGED <<job, emitted, out, got, frames, answer>>
      BY <1>7 DEF ParseRequest, Connect, Execute, QueryFails, Commit
    <2> QED
      BY <1>6, <2>1, <2>2, ProgMoves
  <1>8. CASE WriteTrailer
    <2>1. CommittedLast'
      BY <1>8 DEF Stream, CommittedLast, WriteTrailer, Least, Share
    <2>2. (job.rows > Share) \in BOOLEAN
      <3>1. job.rows \in Nat /\ Share \in Nat
        BY Amounts DEF Stream, CallTyped
      <3> QED
        BY <3>1
    <2>3. Trailer(job.rows > Share) \in Frame
      BY <2>2 DEF Trailer, Frame
    <2>4. PICK f \in Frame : f = Trailer(job.rows > Share)
      BY <2>3
    <2>5. FinalFrame(f)'
      BY <1>8, <2>4 DEF WriteTrailer, FinalFrame, Trailer, Share
    <2>6. Write(f) /\ UNCHANGED <<job, emitted, got, frames, answer>>
      BY <1>8, <2>4 DEF WriteTrailer
    <2> QED
      BY <1>6, <2>1, <2>5, <2>6, EndIsWritten
  <1>9. CASE WriteError
    <2>1. CommittedLast'
      BY <1>9 DEF Stream, CommittedLast, WriteError
    <2>2. ErrorFrame \in Frame /\ FinalFrame(ErrorFrame)'
      BY <1>9 DEF WriteError, FinalFrame, ErrorFrame, Frame
    <2>3. Write(ErrorFrame) /\ UNCHANGED <<job, emitted, got, frames, answer>>
      BY <1>9 DEF WriteError
    <2> QED
      BY <1>6, <2>1, <2>2, <2>3, EndIsWritten
  <1> QED
    BY <1>5, <1>7, <1>8, <1>9

\* The sink takes the next row or the final frame, or refuses, or the output of
\* a command is cut.
LEMMA PumpStream == ASSUME Stream, Control, PumpRead PROVE Stream'
  <1>1. /\ emitted \in Nat /\ got \in Seq(Nat) /\ out \in Seq(Frame)
        /\ frames \in Seq(Frame \cup {Cut}) /\ Len(got) \in Nat
    BY DEF Stream, CallTyped
  <1>2. /\ out # <<>> /\ out' = Tail(out) /\ out[1] \in Frame
        /\ Len(out') \in Nat /\ Len(out) = Len(out') + 1 /\ out' \in Seq(Frame)
        /\ \A i \in 1..Len(out') : out'[i] = out[i + 1]
    BY <1>1 DEF PumpRead
  <1>7. /\ Len(out') \in Nat /\ Len(out) = Len(out') + 1
        /\ emitted \in Nat /\ Len(got) \in Nat /\ emitted' = emitted
    BY <1>1, <1>2 DEF PumpRead, HostOnly, payloadVars
  <1>3. answer = "none" /\ UNCHANGED <<job, prog, emitted, tx>>
    BY DEF PumpRead, Control, AnswersCome, Unanswered, HostOnly, payloadVars
  <1>4. CommittedLast'
    BY <1>3 DEF Stream, CommittedLast, Least, Share
  <1>5. CASE job.kind = "command"
    <2>1. \A i \in 1..Len(out) : out[i] \in Chunk
      BY <1>5 DEF Stream, OutputIsCounted
    <2>2. out[1].row \in Nat
      BY <1>2, <2>1 DEF Chunk
    <2>3. \/ got' = Append(got, out[1].row) /\ UNCHANGED frames
          \/ frames' = <<Cut>> /\ UNCHANGED got
      BY <1>5, <1>2 DEF PumpRead
    <2>4. CallTyped'
      <3>1. got' \in Seq(Nat)
        <4>1. \A s \in Seq(Nat), n \in Nat : Append(s, n) \in Seq(Nat)
          OBVIOUS
        <4> QED
          BY <1>1, <2>2, <2>3, <4>1, Zenon
      <3>2. frames' \in Seq(Frame \cup {Cut})
        <4>1. <<Cut>> \in Seq(Frame \cup {Cut})
          OBVIOUS
        <4> QED
          BY <1>1, <2>3, <4>1, Zenon
      <3> QED
        BY <1>2, <1>3, <3>1, <3>2 DEF CallTyped, Stream
    <2>5. OutputIsCounted'
      <3>1. frames' = <<>> => got' = Append(got, out[1].row) /\ frames = <<>>
        BY <2>3
      <3>2. frames' = <<>> => Len(got') = Len(got) + 1 /\ emitted = Len(got) + Len(out)
        BY <1>1, <1>5, <2>2, <3>1 DEF Stream, OutputIsCounted
      <3>3. frames' = <<>> => emitted' = Len(got') + Len(out')
        BY <1>7, <3>2
      <3>4. \A i \in 1..Len(out') : out'[i] \in Chunk
        BY <1>2, <2>1
      <3> QED
        BY <1>3, <1>5, <3>3, <3>4 DEF Stream, OutputIsCounted
    <2> QED
      BY <1>3, <1>4, <1>5, <2>4, <2>5 DEF Stream, RowsInOrder
  <1>6. CASE job.kind # "command"
    <2>1. /\ \A i \in 1..Len(got) : got[i] = i
          /\ NotOver \/ OverSoon
      BY <1>2, <1>3, <1>6 DEF Stream, RowsInOrder, TooMuch, Over
    <2>2. OutputIsCounted'
      BY <1>3, <1>6 DEF OutputIsCounted
    <2>3. ASSUME out[1].frame # "chunk", frames' = Append(frames, out[1]), UNCHANGED <<got, answer>>
          PROVE  Stream'
      <3>1. CallTyped'
        BY <1>1, <1>2, <1>3, <2>3 DEF CallTyped, Stream
      <3>2. ~NotOver
        BY <1>2, <2>3 DEF NotOver, RowsComing, Row
      <3>3. Len(out) = 1
        <4>1. Len(out) # 1 => 1 \in 1..Len(out) - 1
          BY <1>7
        <4>2. RowsComing(Len(out) - 1)
          BY <2>1, <3>2 DEF OverSoon
        <4> QED
          <5>1. ASSUME Len(out) # 1 PROVE out[1] = Row(Len(got) + 1)
            BY <4>1, <4>2, <5>1, Zenon DEF RowsComing
          <5>2. \A n : Row(n).frame = "chunk"
            BY DEF Row
          <5> QED
            BY <2>3, <5>1, <5>2, Zenon
      <3>4. emitted = Len(got) /\ frames = <<>> /\ FinalFrame(out[1])
        BY <1>1, <2>1, <3>2, <3>3 DEF OverSoon
      <3>5. out' = <<>> /\ frames' = <<out[1]>>
        BY <1>1, <1>2, <2>3, <3>3, <3>4
      <3>6. FinalFrame(frames[1])'
        BY <1>3, <3>4, <3>5 DEF FinalFrame, Trailer, Share, ErrorFrame
      <3>7. Over'
        BY <1>3, <2>3, <3>4, <3>5, <3>6 DEF Over
      <3>8. RowsInOrder'
        BY <2>1, <2>3, <3>7 DEF RowsInOrder
      <3> QED
        BY <1>4, <2>2, <3>1, <3>8 DEF Stream
    <2>4. ASSUME out[1].frame = "chunk", got' = Append(got, out[1].row), UNCHANGED <<frames, answer>>
          PROVE  Stream'
      <3>1. out[1] = Row(Len(got) + 1)
        <4>1. CASE NotOver
          BY <1>2, <4>1 DEF NotOver, RowsComing
        <4>2. CASE OverSoon
          <5>1. Len(out) # 1
            BY <2>4, <4>2 DEF OverSoon, FinalFrame, Trailer, ErrorFrame
          <5>2. 1 \in 1..Len(out) - 1
            BY <1>7, <5>1
          <5> QED
            BY <4>2, <5>2 DEF OverSoon, RowsComing
        <4> QED
          BY <2>1, <4>1, <4>2
      <3>2. out[1].row = Len(got) + 1
        BY <3>1 DEF Row
      <3>3. /\ got' \in Seq(Nat) /\ Len(got') = Len(got) + 1
            /\ \A i \in 1..Len(got') : got'[i] = i
        BY <1>1, <2>1, <2>4, <3>2
      <3>4. CallTyped'
        BY <1>1, <1>2, <1>3, <2>4, <3>3 DEF CallTyped, Stream
      <3>5. ASSUME NEW n \in 0..Len(out'), RowsComing(n + 1)
            PROVE  \A i \in 1..n : out'[i] = Row(Len(got') + i)
        <4>1. \A i \in 1..n : i + 1 \in 1..n + 1 /\ i \in 1..Len(out')
          BY <1>7
        <4>2. \A i \in 1..n : out'[i] = Row(Len(got) + (i + 1))
          BY <1>2, <3>5, <4>1 DEF RowsComing
        <4>3. \A i \in 1..n : Len(got) + (i + 1) = Len(got') + i
          BY <1>7, <3>3
        <4> QED
          BY <4>2, <4>3
      <3>6. NotOver => NotOver'
        <4> SUFFICES ASSUME NotOver PROVE NotOver'
          OBVIOUS
        <4>1. frames' = <<>> /\ emitted = Len(got) + Len(out) /\ RowsComing(Len(out))
          BY <2>4 DEF NotOver
        <4>2. emitted' = Len(got') + Len(out')
          BY <1>7, <3>3, <4>1
        <4>3. \A i \in 1..Len(out') : out'[i] = Row(Len(got') + i)
          BY <1>7, <3>5, <4>1
        <4> QED
          BY <4>1, <4>2, <4>3 DEF NotOver, RowsComing, Row
      <3>7. OverSoon => OverSoon'
        <4> SUFFICES ASSUME OverSoon PROVE OverSoon'
          OBVIOUS
        <4>1. Len(out) # 1
          BY <2>4 DEF OverSoon, FinalFrame, Trailer, ErrorFrame
        <4>6. Len(out') \in 1..Len(out') /\ Len(out') - 1 \in 0..Len(out') /\ Len(out) - 1 = Len(out')
          BY <1>7, <4>1
        <4>8. out'[Len(out')] = out[Len(out)]
          BY <1>2, <1>7, <4>6, Zenon
        <4>2. out' # <<>> /\ out'[Len(out')] = out[Len(out)]
          BY <4>6, <4>8
        <4>3. FinalFrame(out[Len(out)])'
          BY <1>3, <4>2 DEF OverSoon, FinalFrame, Trailer, Share, ErrorFrame
        <4>4. \A i \in 1..Len(out') - 1 : out'[i] = Row(Len(got') + i)
          <5>1. RowsComing(Len(out') - 1 + 1)
            BY <1>7, <4>6 DEF OverSoon
          <5> QED
            BY <3>5, <4>6, <5>1
        <4>7. emitted + 1 = Len(got) + Len(out)
          BY DEF OverSoon
        <4>5. emitted' + 1 = Len(got') + Len(out')
          BY <1>7, <3>3, <4>7
        <4> QED
          BY <2>4, <4>2, <4>3, <4>4, <4>5 DEF OverSoon, RowsComing, Row
      <3>8. RowsInOrder'
        BY <2>1, <3>3, <3>6, <3>7 DEF RowsInOrder
      <3> QED
        BY <1>4, <2>2, <3>4, <3>8 DEF Stream
    <2>5. ASSUME answer' = SinkRefuses, SinkRefuses # "none", UNCHANGED <<got, frames>>
          PROVE  Stream'
      <3>1. answer' \in TooMuch
        BY <2>5 DEF SinkRefuses, TooMuch
      <3>2. CallTyped'
        BY <1>1, <1>2, <1>3, <2>5 DEF CallTyped, Stream
      <3>3. RowsInOrder'
        BY <2>1, <2>5, <3>1 DEF RowsInOrder
      <3> QED
        BY <1>4, <2>2, <3>2, <3>3 DEF Stream
    <2> QED
      BY <1>2, <1>6, <2>3, <2>4, <2>5 DEF PumpRead
  <1> QED
    BY <1>5, <1>6

\* Only the pump takes from the pipe, and no answer is changed for another.
LEMMA HostStream == ASSUME Stream, Control, HostStep PROVE Stream'
  <1>1. CASE PumpRead
    BY <1>1, PumpStream
  <1>2. CASE ~PumpRead
    <2>1. UNCHANGED <<job, prog, emitted, tx>>
      BY DEF HostStep, Prepared, PrepareFails, Acquired, NotAcquired, Start, StartFails,
             ApplyLimits, Enter, Register, Feed, FeedEnds, PumpStops, PumpExpires, PumpEof,
             PumpRead, AbortKills, AbortEnds, Reap, ReapKills, Leave, Release, RemoveLeaf,
             ReleaseExpires, Released, Finish, HostOnly, payloadVars
    <2>2. UNCHANGED <<out, got, frames>>
      BY <1>2 DEF HostStep, Prepared, PrepareFails, Acquired, NotAcquired, Start, StartFails,
             ApplyLimits, Enter, Register, Feed, FeedEnds, PumpStops, PumpExpires, PumpEof,
             AbortKills, AbortEnds, Reap, ReapKills, Leave, Release, RemoveLeaf,
             ReleaseExpires, Released, Finish, Keep, NoProcess, pipes
    <2>3. answer = "none" \/ answer' = answer
      BY <1>2 DEF Control, AnswersCome, Unanswered, Goto, HostStep, Prepared, PrepareFails,
             Acquired, NotAcquired, Start, StartFails, ApplyLimits, Enter, Register, Feed,
             FeedEnds, PumpStops, PumpExpires, PumpEof, AbortKills, AbortEnds, Reap, ReapKills,
             Leave, Release, RemoveLeaf, ReleaseExpires, Released, Finish
    <2> QED
      BY <2>1, <2>2, <2>3, StreamKept DEF TooMuch
  <1> QED
    BY <1>1, <1>2

\* Nobody else touches the stream.
LEMMA OthersStream ==
  ASSUME Stream,
         \/ Stop \/ CallAbort \/ Expire \/ Collected \/ StopLate \/ NeverRun
         \/ UNCHANGED callVars
  PROVE  Stream'
  BY StreamKept DEF Stop, CallAbort, Expire, Collected, StopLate, NeverRun, callVars,
     hostVars, payloadVars, pipes

-----------------------------------------------------------------------------
(* What is told                                                            *)

\* A call that is over stays as it is.
LEMMA OverIsOver ==
  ASSUME Stream, Control, pc = "done", Next
  PROVE  pc' = "done" /\ UNCHANGED <<job, answer, frames>>
  <1>1. ~HostStep
    BY DEF HostStep, Prepared, PrepareFails, Acquired, NotAcquired, Start, StartFails,
           ApplyLimits, Enter, Register, Feed, FeedEnds, PumpStops, PumpExpires, PumpEof,
           PumpRead, AbortKills, AbortEnds, Reap, ReapKills, Leave, Release, RemoveLeaf,
           ReleaseExpires, Released, Finish, Goto
  <1>2. CASE SandboxNext
    BY <1>2 DEF SandboxNext, TreeStarts, Dies, TreeDies, ReadInput, ParseRequest, Connect,
           Execute, EmitRow, QueryFails, Commit, WriteTrailer, WriteError, PayloadEnds,
           PayloadDies, CommandWrites, CommandCloses, CommandEnds, Ends, PayloadOnly, hostVars
  <1>3. CASE Stop \/ CallAbort \/ Expire \/ Collected \/ UNCHANGED callVars
    BY <1>3 DEF Stop, CallAbort, Expire, Collected, callVars, hostVars
  <1> QED
    BY <1>1, <1>2, <1>3 DEF Next

\* The tools and the calls they make.
LEMMA ToolJobs ==
  /\ DOMAIN JobOf = {"pg_listing", "ch_listing", "pg_query", "ch_query", "pg_export", "bash"}
  /\ \A tool \in {"pg_listing", "ch_listing", "pg_query", "ch_query"} : JobOf[tool] = "query"
  /\ JobOf["pg_export"] = "copy" /\ JobOf["bash"] = "command"
  BY DEF JobOf

\* A tool tells a result of a call that answered, and nothing else by that name.
LEMMA ToldByTool ==
  ASSUME NEW tool \in DOMAIN JobOf, JobOf[tool] = job.kind, NEW result \in Returned(tool)
  PROVE  /\ result.as \in Results => answer = "ok"
         /\ result.as = "table" => job.kind = "query" /\ result.note = (frames = <<Trailer(TRUE)>>)
         /\ result.as = "text" => job.kind = "copy"
         /\ result.as = "json" => job.kind = "command" /\ result.cut = (frames # <<>>)
  <1>1. SqlErrors \cup {Error("sql_failed")} \subseteq {Error("sql_failed"),
                                           Error("result_too_large"), Error("too_many_rows")}
    BY DEF SqlErrors, If
  <1>2. \A kind : Error(kind).as = "error"
    BY DEF Error
  <1>3. result \in SqlErrors \cup {Error("sql_failed")} => result.as = "error"
    BY <1>1, <1>2, Zenon
  <1>4. CASE tool \in {"pg_listing", "ch_listing", "ch_query", "pg_query"}
    <2>1. job.kind = "query"
      BY <1>4, ToolJobs
    <2>2. \A r \in Table : answer = "ok" /\ r = [as |-> "table", note |-> frames = <<Trailer(TRUE)>>]
      BY Zenon DEF Table, If
    <2>3. \/ result \in Table
          \/ result \in SqlErrors \cup {Error("sql_failed")}
          \/ answer = "ok" /\ result = [as |-> "affected"]
      <3>1. result \in Table \cup (SqlErrors \cup {Error("sql_failed")})
                        \cup If(answer = "ok" /\ job.rows = 0, [as |-> "affected"])
        BY <1>4 DEF Returned, PgListing, PgQuery, ChListing, ChQuery, If
      <3> QED
        BY <3>1, Zenon DEF If
    <2>4. CASE result \in Table
      <3>1. answer = "ok" /\ result.as = "table" /\ result.note = (frames = <<Trailer(TRUE)>>)
        <4>1. answer = "ok"
          BY <2>2, <2>4, Zenon
        <4>2. result = [as |-> "table", note |-> frames = <<Trailer(TRUE)>>]
          BY <2>2, <2>4, Zenon
        <4>3. result.as = "table"
          BY <4>2, SMT
        <4>4. result.note = (frames = <<Trailer(TRUE)>>)
          BY <4>2, Zenon
        <4> QED
          BY <4>1, <4>3, <4>4, Zenon
      <3>2. result.as # "text" /\ result.as # "json"
        BY <3>1
      <3> QED
        BY <2>1, <3>1, <3>2, Zenon
    <2>5. CASE result.as = "error"
      BY <2>5 DEF Results
    <2>6. CASE answer = "ok" /\ result = [as |-> "affected"]
      BY <2>6 DEF Results
    <2> QED
      BY <1>3, <2>3, <2>4, <2>5, <2>6
  <1>5. CASE tool = "pg_export"
    <2>1. job.kind = "copy"
      BY <1>5, ToolJobs
    <2>2. \/ answer = "ok" /\ result = [as |-> "text"]
          \/ result \in SqlErrors \cup {Error("sql_failed")}
      BY <1>5 DEF Returned, PgExport, If
    <2> QED
      BY <1>3, <2>1, <2>2 DEF Results
  <1>6. CASE tool = "bash"
    <2>1. job.kind = "command"
      BY <1>6, ToolJobs
    <2>2. result = [as |-> "json", ok |-> ~timedOut /\ code = 0, cut |-> frames # <<>>]
      BY <1>6 DEF Returned, Bash, If
    <2>3. result.as = "json" /\ result.cut = (frames # <<>>)
      BY <2>2, Zenon
    <2> QED
      BY <2>1, <2>3 DEF Results
  <1> QED
    BY <1>4, <1>5, <1>6, ToolJobs

\* What has been told of a call stays what the call has left.
LEMMA ToldStays ==
  ASSUME ToldWhatIs, UNCHANGED told,
         told # Untold => pc' = "done" /\ UNCHANGED <<job, answer, frames>>
  PROVE  ToldWhatIs'
  <1>1. CASE told = Untold
    BY <1>1 DEF ToldWhatIs, Untold, Results
  <1>2. CASE told # Untold
    <2>1. pc' = "done" /\ UNCHANGED <<job, answer, frames, told>>
      BY <1>2
    <2>2. Trailer(TRUE)' = Trailer(TRUE)
      BY DEF Trailer
    <2> QED
      BY <2>1, <2>2, Zenon DEF ToldWhatIs
  <1> QED
    BY <1>1, <1>2

\* What a tool tells is what its call has left, or says that there is nothing.
LEMMA ToldIsSo == ASSUME ToolInv, ToolNext PROVE ToldWhatIs'
  <1>1. Stream /\ Control /\ ToldWhatIs
    BY DEF ToolInv
  <1>2. CASE Next /\ UNCHANGED told
    <2>1. told # Untold => pc = "done"
      BY <1>1 DEF ToldWhatIs
    <2> QED
      BY <1>1, <1>2, <2>1, OverIsOver, ToldStays
  <1>3. CASE Denied \/ NotStarted \/ UnknownTarget
    <2>1. pc' = "done" /\ (told' = Error("ToolAccessDeniedError") \/ told' = Stopped
                           \/ told' = Error("unknown_target"))
      BY <1>3 DEF Denied, NotStarted, UnknownTarget, NeverRun, Goto
    <2>2. told'.as \notin Results \cup {"json"}
      BY <2>1 DEF Results, Error, Stopped
    <2> QED
      BY <2>1, <2>2 DEF ToldWhatIs, Results
  <1>4. CASE StopLate
    BY <1>1, <1>4, ToldStays DEF StopLate, hostVars
  <1>5. CASE Unwound
    BY <1>5 DEF Unwound, vars, callVars, ToldWhatIs, Results, Stopped
  <1>6. ASSUME NEW tool \in DOMAIN JobOf, Guarded(tool) PROVE ToldWhatIs'
    BY <1>6 DEF Guarded, CallOver, vars, callVars, ToldWhatIs, Results, Error
  <1>7. ASSUME NEW tool \in DOMAIN JobOf, Tell(tool) PROVE ToldWhatIs'
    <2>1. PICK result \in Returned(tool) : told' = IF stopped THEN Stopped ELSE result
      BY <1>7 DEF Tell
    <2>2. pc' = "done" /\ JobOf[tool] = job.kind /\ UNCHANGED <<job, answer, frames>>
      BY <1>7 DEF Tell, CallOver, vars, callVars, hostVars
    <2>3. CASE stopped
      BY <2>1, <2>2, <2>3 DEF ToldWhatIs, Results, Stopped
    <2>4. CASE ~stopped
      <3>1. told' = result
        BY <2>1, <2>4
      <3>2. /\ result.as \in Results => answer = "ok"
            /\ result.as = "table" => job.kind = "query"
                                       /\ result.note = (frames = <<Trailer(TRUE)>>)
            /\ result.as = "text" => job.kind = "copy"
            /\ result.as = "json" => job.kind = "command" /\ result.cut = (frames # <<>>)
        BY <2>2, ToldByTool
      <3>3. Trailer(TRUE)' = Trailer(TRUE)
        BY DEF Trailer
      <3> QED
        BY <2>2, <3>1, <3>2, <3>3, Zenon DEF ToldWhatIs
    <2> QED
      BY <2>3, <2>4
  <1> QED
    BY <1>2, <1>3, <1>4, <1>5, <1>6, <1>7 DEF ToolNext

\* Every step keeps the invariant.
LEMMA ToolInvStep == ASSUME ToolInv, [ToolNext]_toolVars PROVE ToolInv'
  <1>1. Stream /\ Control /\ ToldWhatIs
    BY DEF ToolInv
  <1>2. (Stream /\ Control)'
    <2>1. CASE HostStep
      BY <1>1, <2>1, HostStream, HostControl
    <2>2. CASE SandboxNext
      BY <1>1, <2>2, SandboxStream, SandboxControl
    <2>3. CASE Stop \/ CallAbort \/ Expire \/ Collected \/ StopLate \/ NeverRun
      BY <1>1, <2>3, OthersStream, OthersControl
    <2>4. CASE GroupNext /\ UNCHANGED callVars
      BY <1>1, <2>4, OthersStream, GroupControl
    <2>5. CASE UNCHANGED vars
      BY <1>1, <2>5, OthersStream DEF vars, callVars, hostVars, procVars, groupVars, Control,
         AnswersCome, Unanswered, LeafIsHeld, ProcessIsHeld, Trailer, Share
    <2>6. \/ Next \/ NeverRun \/ StopLate \/ UNCHANGED vars
      BY DEF ToolNext, Denied, NotStarted, UnknownTarget, Unwound, Tell, Guarded, toolVars
    <2> QED
      BY <2>1, <2>2, <2>3, <2>4, <2>5, <2>6 DEF Next
  <1>3. ToldWhatIs'
    BY <1>1, ToldIsSo, ToldStays DEF toolVars, vars, callVars, hostVars, ToldWhatIs
  <1> QED
    BY <1>2, <1>3 DEF ToolInv

-----------------------------------------------------------------------------
(* The results                                                             *)

\* A call that is over holds no leaf, and no process but one it gave up with an
\* error and had no cgroup for.
LEMMA NothingFollows == ToolInv => NothingIsLeft
  BY DEF ToolInv, Control, AnswersCome, LeafIsHeld, ProcessIsHeld, NothingIsLeft

\* What the invariant says of the call, of what was told of it.
LEMMA FaithFollows == ToolInv => AnswerIsFaithful
  <1> SUFFICES ASSUME ToolInv PROVE AnswerIsFaithful
    OBVIOUS
  <1>1. Stream /\ Control /\ ToldWhatIs
    BY DEF ToolInv
  <1>2. /\ job \in Jobs /\ job.rows \in Nat /\ Share \in Nat /\ Limit \in Nat
        /\ emitted \in Nat /\ Len(got) \in Nat
    BY <1>1, Amounts DEF Stream, CallTyped
  <1>3. (job.rows > Share) \in BOOLEAN
    BY <1>2
  <1>4. ASSUME answer = "ok"
        PROVE  /\ frames = <<Trailer(job.rows > Share)>> /\ tx = "committed"
               /\ Len(got) = Least(job.rows, Share) /\ job.kind # "command"
               /\ \A i \in 1..Len(got) : got[i] = i
               /\ job.kind = "copy" => job.rows <= Share
    <2>1. /\ frames = <<Trailer(job.rows > Share)>> /\ job.kind # "command"
          /\ job.kind = "copy" => job.rows <= Share
      BY <1>1, <1>4 DEF Control, AnswersCome
    <2>2. frames # <<>> /\ frames[1] = Trailer(job.rows > Share)
      BY <2>1
    <2>3. NotOver \/ OverSoon \/ Over
      BY <1>1, <1>4, <2>1 DEF Stream, RowsInOrder, TooMuch
    <2>4. Over
      BY <2>2, <2>3 DEF NotOver, OverSoon
    <2>5. Trailer(job.rows > Share) # ErrorFrame
      BY DEF Trailer, ErrorFrame
    <2>6. emitted = Len(got) /\ prog = "end"
      BY <2>2, <2>4, <2>5 DEF Over, FinalFrame
    <2>7. tx = "committed" /\ emitted = Least(job.rows, Share)
      BY <1>1, <2>6 DEF Stream, CommittedLast
    <2>8. \A i \in 1..Len(got) : got[i] = i
      BY <1>1, <2>1 DEF Stream, RowsInOrder
    <2> QED
      BY <2>1, <2>6, <2>7, <2>8
  <1>5. ASSUME told.as = "table"
        PROVE  job.kind = "query" /\ answer = "ok" /\ told.note = (job.rows > Len(got))
    <2>1. job.kind = "query" /\ answer = "ok" /\ told.note = (frames = <<Trailer(TRUE)>>)
      BY <1>1, <1>5 DEF ToldWhatIs, Results
    <2>2. frames = <<Trailer(job.rows > Share)>> /\ Len(got) = Least(job.rows, Share)
      BY <1>4, <2>1
    <2>3. (job.rows > Len(got)) = (job.rows > Share)
      BY <1>2, <2>2 DEF Least
    <2>4. ASSUME job.rows > Share PROVE frames = <<Trailer(TRUE)>>
      <3>1. (job.rows > Share) = TRUE
        BY <1>3, <2>4
      <3> QED
        BY <2>2, <3>1
    <2>5. ASSUME ~(job.rows > Share) PROVE frames # <<Trailer(TRUE)>>
      <3>1. (job.rows > Share) = FALSE
        BY <1>3, <2>5
      <3>2. frames = <<Trailer(FALSE)>>
        BY <2>2, <3>1
      <3> QED
        BY <3>2 DEF Trailer
    <2>6. (frames = <<Trailer(TRUE)>>) = (job.rows > Share)
      BY <1>3, <2>4, <2>5, Zenon
    <2> QED
      BY <2>1, <2>3, <2>6
  <1>6. told.as = "text" => job.kind = "copy" /\ answer = "ok"
    BY <1>1 DEF ToldWhatIs, Results
  <1>7. told.as = "affected" => answer = "ok"
    BY <1>1 DEF ToldWhatIs, Results
  <1>8. told.as \in {"table", "text"} =>
          /\ Len(got) = IF job.kind = "query" THEN Least(job.rows, Limit) ELSE job.rows
          /\ \A i \in 1..Len(got) : got[i] = i
    <2>1. told.as = "table" => Len(got) = Least(job.rows, Limit)
      BY <1>4, <1>5 DEF Share
    <2>2. told.as = "text" => Len(got) = job.rows /\ job.kind # "query"
      BY <1>2, <1>4, <1>6 DEF Least
    <2> QED
      BY <1>4, <1>5, <1>6, <2>1, <2>2
  <1>9. told.as = "json" /\ ~told.cut => emitted = Len(got) + Len(out)
    <2>1. told.as = "json" /\ ~told.cut => job.kind = "command" /\ frames = <<>>
      BY <1>1, Zenon DEF ToldWhatIs
    <2> QED
      BY <1>1, <2>1 DEF Stream, OutputIsCounted
  <1> QED
    BY <1>4, <1>5, <1>6, <1>7, <1>8, <1>9 DEF AnswerIsFaithful

\* The invariant of a call, in every state of every behaviour.
LEMMA CallKeepsInv == ToolSpec => []ToolInv
  BY ToolInvInit, ToolInvStep, PTL DEF ToolSpec

\* When a call is over, its leaf is not forgotten and its process is gone, but
\* for the one without a cgroup whose call was stopped or failed before anyone
\* could kill it (run_process, abort_with, Cgroup.release).
THEOREM CallLeavesNothing == ToolSpec => []NothingIsLeft
  BY CallKeepsInv, NothingFollows, PTL

\* What the model is told of a call is the answer of the database, whole or
\* marked and committed, and the output of a command, whole or marked as cut
\* (SqlResult, PgExecutor.execute_copy, RunResult).
THEOREM CallTellsTheAnswer == ToolSpec => []AnswerIsFaithful
  BY CallKeepsInv, FaithFollows, PTL

=============================================================================
