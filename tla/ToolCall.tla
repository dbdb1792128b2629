------------------------------ MODULE ToolCall ------------------------------
(***************************************************************************)
(* What the model is told of a call of the database tools and of bash: the *)
(* guards every tool is wrapped in (access, stop, errors: load_tools), the *)
(* tools themselves around one SandboxCall, and the result they pack.      *)
(***************************************************************************)
EXTENDS SandboxCall

VARIABLE told   \* the ToolResult, or what went past it

toolVars == <<vars, told>>

Untold == [as |-> "nothing"]
Stopped == [as |-> "stopped"]
Error(kind) == [as |-> "error", error_kind |-> kind]

JobOf ==
  [tool \in {"pg_listing", "ch_listing", "pg_query", "ch_query", "pg_export", "bash"} |->
     CASE tool = "pg_export" -> "copy" [] tool = "bash" -> "command" [] OTHER -> "query"]

ToolInit == Init /\ told = Untold

-----------------------------------------------------------------------------
(* Before the call                                                         *)

NeverRun ==
  /\ Goto("prepare", "done")
  /\ UNCHANGED <<job, pipes, procVars, payloadVars, hostVars, turnVars, expired, groupVars>>

\* ToolAccessGuard: the role of the user does not have the tool.
Denied == NeverRun /\ told' = Error("ToolAccessDeniedError")

\* CancellableTools finds the turn stopped.
NotStarted == stopped /\ NeverRun /\ told' = Stopped

\* connection_name is not in the whitelist.
UnknownTarget == job.kind # "command" /\ NeverRun /\ told' = Error("unknown_target")

-----------------------------------------------------------------------------
(* After it                                                                *)

\* Stop may still come before the guard looks again.
StopLate ==
  /\ pc = "done" /\ told = Untold /\ ~stopped
  /\ stopped' = TRUE
  /\ UNCHANGED <<job, pc, pipes, procVars, payloadVars, hostVars, registered, aborting,
                 expired, groupVars, told>>

If(condition, result) == IF condition THEN {result} ELSE {}

Table == If(answer = "ok", [as |-> "table", note |-> frames = <<Trailer(TRUE)>>])

\* What a database tool makes of the failures of its call.
SqlErrors ==
  If(answer = "failed", Error("sql_failed"))
  \cup If(answer = "too_large", Error("result_too_large"))
  \cup If(answer = "too_many", Error("too_many_rows"))

PgListing == Table \cup SqlErrors

\* A statement that has no rows to give tells how many it changed.
PgQuery == Table \cup SqlErrors \cup If(answer = "ok" /\ job.rows = 0, [as |-> "affected"])

PgExport == If(answer = "ok", [as |-> "text"]) \cup SqlErrors

\* The listings of clickhouse catch neither limit of their collector.
ChListing == Table \cup If(answer = "failed", Error("sql_failed"))

ChQuery == Table \cup SqlErrors

Bash ==
  If(answer = "text", [as |-> "json", ok |-> ~timedOut /\ code = 0, cut |-> frames # <<>>])

Returned(tool) ==
  CASE tool = "pg_listing" -> PgListing [] tool = "pg_query" -> PgQuery
    [] tool = "pg_export" -> PgExport [] tool = "ch_listing" -> ChListing
    [] tool = "ch_query" -> ChQuery [] tool = "bash" -> Bash

CallOver(tool) == pc = "done" /\ told = Untold /\ JobOf[tool] = job.kind

\* The guard lets a result of a turn that has been stopped go no further.
Tell(tool) ==
  /\ CallOver(tool)
  /\ \E result \in Returned(tool) : told' = IF stopped THEN Stopped ELSE result
  /\ UNCHANGED vars

\* What the tool does not catch goes past that guard, and ToolErrorGuard makes
\* an answer of it, also when the turn has been stopped: the sandbox that
\* could not start, or a limit.
Guarded(tool) ==
  /\ CallOver(tool)
  /\ answer \in {"failed", "too_large", "too_many"}
  /\ answer = "failed" \/ Returned(tool) = {}
  /\ told' = Error("raised")
  /\ UNCHANGED vars

\* ToolStopped of the call is a BaseException.
Unwound ==
  /\ pc = "done" /\ told = Untold /\ answer = "stopped"
  /\ told' = Stopped
  /\ UNCHANGED vars

ToolNext ==
  \/ Next /\ UNCHANGED told
  \/ Denied \/ NotStarted \/ UnknownTarget
  \/ StopLate \/ Unwound
  \/ \E tool \in DOMAIN JobOf : Tell(tool) \/ Guarded(tool)

ToolSpec == ToolInit /\ [][ToolNext]_toolVars /\ CallFairness

-----------------------------------------------------------------------------
\* A result is the answer of the database: the rows from the first one on,
\* each once, as many as the limit lets through, with a note exactly when there
\* were more, and the query is committed, whatever was killed, cut off or
\* stopped on the way; an export is whole; and the output of a command either
\* is all it wrote or is marked as cut (SqlResult, PgExecutor.execute_copy,
\* RunResult).
AnswerIsFaithful ==
  /\ told.as \in {"table", "text"} =>
       /\ Len(got) = IF job.kind = "query" THEN Least(job.rows, Limit) ELSE job.rows
       /\ \A i \in 1 .. Len(got) : got[i] = i
  /\ told.as = "table" => told.note = (job.rows > Len(got))
  /\ told.as \in {"table", "text", "affected"} => tx = "committed"
  /\ told.as = "json" /\ ~told.cut => emitted = Len(got) + Len(out)
=============================================================================
