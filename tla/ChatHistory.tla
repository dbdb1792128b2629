----------------------------- MODULE ChatHistory -----------------------------
(***************************************************************************)
(* A chat thread over several turns: the history the checkpointer keeps,   *)
(* the feed in the user's tab, and the attachments (rows of elements, files*)
(* in the user's image).  on_message with the rewind of an edited question,*)
(* AgentTracer and ChatView drawing the turn, the stop and the failure of a*)
(* turn, the tab that comes back (on_chat_resume), the upload route,       *)
(* create_element and delete_element of PostgresDataLayer, send_file.      *)
(*                                                                         *)
(* The tracer's callbacks are awaits: a step is sent to the tab before it  *)
(* is noted as pending, so the two are two steps here.  chainlit runs      *)
(* create_element as a background task.  Turns of one thread follow one    *)
(* another; what two turns at once do to each other is ChatTurn's subject. *)
(***************************************************************************)
EXTENDS ChatFeed

CONSTANTS
  Questions, Calls, Names,
  ToolOf,      \* the tool of a call: its name says what it may give
  ChartName,   \* the name charts are stored under
  MaxAnswers,  \* messages of the model and notes of stops and failures
  MaxUploads, MaxEdits, MaxFaults, MaxResumes

ASSUME HistoryAssumption ==
  /\ ForeignCalls \subseteq Calls
  /\ ToolOf \in [Calls -> {"visualize", "send_file", "other"}]
  /\ ChartName \in Names
  /\ MaxAnswers \in Nat /\ MaxUploads \in Nat /\ MaxEdits \in Nat /\ MaxFaults \in Nat
  /\ MaxResumes \in Nat

VARIABLES
  messages,   \* the history of the thread
  feed,       \* what the tab shows
  pc,         \* where on_message is
  turn,       \* the question of the turn
  sent,       \* LiveSink._sent
  opened,     \* ChatView: <<container is there, answer is open>>
  thought,    \* AgentTracer._reasoning of the message being generated
  said,       \* the message being generated has a text
  calls,      \* calls of the tool node: state of each
  pending,    \* AgentTracer._tool_steps
  doomed,     \* elements the rewind has still to delete
  draft,      \* the message to save: <<id, calls>>
  ended,      \* how the last turn ended
  snapshot,   \* get_thread of a tab that comes back
  reloaded,   \* a tab came back during the turn
  rows,       \* table elements
  files,      \* the upload directory of the thread: name -> its last writer
  creating,   \* create_element tasks under way: element -> row
  shared,     \* names written or pointed to more than once
  missed,     \* elements a rewind found not yet created
  uploads, edits, faults, resumes,
  answers     \* ids given to messages of the model

drawing == <<sent, opened, thought, said, calls, pending>>
attachments == <<rows, files, creating, shared, missed, uploads>>
todo == <<doomed, draft>>
tab == <<snapshot, reloaded, resumes>>
bounds == <<edits, faults, answers>>
vars == <<messages, feed, pc, turn, drawing, todo, ended, tab, attachments, bounds>>

NoTurn == "none"
NoDraft == <<0, <<>>>>
Outcomes == {"text", "error", "chart"}
MayGive(c) ==
  CASE ToolOf[c] = "visualize" -> {"chart", "error"}
    [] ToolOf[c] = "send_file" -> {"text"}
    [] OTHER                   -> {"text", "error"}

Init ==
  /\ messages = <<>> /\ feed = <<>>
  /\ pc = "idle" /\ turn = NoTurn
  /\ sent = {} /\ opened = [container |-> FALSE, answer |-> FALSE]
  /\ thought = FALSE /\ said = FALSE
  /\ calls = <<>> /\ pending = {}
  /\ doomed = {} /\ draft = NoDraft /\ ended = "ok"
  /\ snapshot = <<>> /\ reloaded = FALSE /\ resumes = 0
  /\ rows = <<>> /\ files = <<>> /\ creating = <<>>
  /\ shared = {} /\ missed = {} /\ uploads = 0
  /\ edits = 0 /\ faults = 0 /\ answers = 0

Without(f, x) == [y \in DOMAIN f \ {x} |-> f[y]]

(* Ids are used once: not again what the history, a tab, a thread read for *)
(* one or an attachment still knows.                                       *)
Fresh(ids) == ids \ {messages[i].id : i \in DOMAIN messages}
FreshCalls ==
  Calls \ (CallsOf(messages) \cup DOMAIN calls
             \cup {id[1] : id \in DOMAIN rows \cup DOMAIN creating
                                 \cup DOMAIN feed \cup DOMAIN snapshot})

-----------------------------------------------------------------------------
(* Attachments.  An object key is the thread and the name: two elements of *)
(* one name are one file.                                                  *)

Unwritten == StepId(0, 0, "upload")

Row(name, writer) == [name |-> name, writer |-> writer]

Pointed(name) ==
  \/ name \in {rows[id].name : id \in DOMAIN rows}
  \/ name \in {creating[id].name : id \in DOMAIN creating}

Taken(name) == name \in DOMAIN files \/ Pointed(name)

Stored(name, writer) ==
  /\ files' = With(files, name, writer)
  /\ shared' = IF Taken(name) THEN shared \cup {name} ELSE shared

(* UploadRoute.upload: the body flows into the image under its own name.   *)
Upload(name) ==
  /\ uploads < MaxUploads /\ uploads' = uploads + 1
  /\ Stored(name, StepId(uploads', 0, "upload"))
  /\ UNCHANGED <<rows, creating, missed, messages, feed, pc, turn, drawing, todo,
                 ended, tab, bounds>>

(* create_element of a file that is in the image already: the row alone.   *)
Attached(id, name) ==
  /\ creating' = With(creating, id, Row(name, files[name]))
  /\ shared' = IF Pointed(name) THEN shared \cup {name} ELSE shared

(* create_element of a chart: its row is committed after the upload.       *)
ChartUploads(id) ==
  /\ id \in DOMAIN creating /\ creating[id].writer = Unwritten
  /\ creating' = [creating EXCEPT ![id].writer = id]
  /\ files' = With(files, creating[id].name, id)
  /\ UNCHANGED <<rows, shared, missed, uploads, messages, feed, pc, turn, drawing,
                 todo, ended, tab, bounds>>

(* A variant that commits the row of a chart before its upload.            *)
CreateCommitsEarly(id) ==
  /\ id \in DOMAIN creating
  /\ rows' = With(rows, id, creating[id])
  /\ creating' = Without(creating, id)
  /\ UNCHANGED <<files, shared, missed, uploads, messages, feed, pc, turn, drawing,
                 todo, ended, tab, bounds>>

CreateCommits(id) ==
  /\ id \in DOMAIN creating /\ creating[id].writer # Unwritten
  /\ rows' = With(rows, id, creating[id])
  /\ creating' = Without(creating, id)
  /\ UNCHANGED <<files, shared, missed, uploads, messages, feed, pc, turn, drawing,
                 todo, ended, tab, bounds>>

CreateFails(id) ==
  /\ id \in DOMAIN creating
  /\ faults < MaxFaults /\ faults' = faults + 1
  /\ creating' = Without(creating, id)
  /\ UNCHANGED <<rows, files, shared, missed, uploads, messages, feed, pc, turn, drawing,
                 todo, ended, tab, edits, answers>>

-----------------------------------------------------------------------------
(* on_message.                                                             *)

Put(id, state) ==
  /\ feed' = IF id \in sent /\ id \notin DOMAIN feed THEN feed
             ELSE Shown(feed, id, state)
  /\ sent' = sent \cup {id}

(* A view and a tracer live as long as their turn. *)
Dropped ==
  /\ opened' = [container |-> FALSE, answer |-> FALSE]
  /\ thought' = FALSE /\ said' = FALSE /\ calls' = <<>> /\ pending' = {}

BeginsTurn(q) == pc' = "model" /\ turn' = q /\ sent' = {} /\ Dropped

(* A new question, perhaps with an uploaded file.                          *)
Ask(q, names) ==
  /\ pc = "idle" /\ q \in Fresh(Questions)
  /\ names \subseteq DOMAIN files /\ Cardinality(names) <= 1
  /\ IF names = {} THEN UNCHANGED <<creating, shared>>
     ELSE LET name == CHOOSE n \in names : TRUE
          IN  Attached(StepId(q, 0, "element"), name)
  /\ BeginsTurn(q)
  /\ messages' = Append(messages, Human(q))
  /\ feed' = Shown(feed, StepId(q, 0, "question"), "asked")
  /\ UNCHANGED <<todo, ended, tab, rows, files, missed, uploads, bounds>>

(* A question whose id is in the history: an edit.  Its plan is made of the *)
(* history read here.                                                      *)
Edit(q) ==
  /\ pc = "idle" /\ IsAsked(messages, q)
  /\ edits < MaxEdits /\ edits' = edits + 1
  /\ pc' = "rewinding" /\ turn' = q
  /\ doomed' = TailElements(messages, q)
  /\ UNCHANGED <<messages, feed, drawing, draft, ended, tab, attachments, faults, answers>>

(* delete_element: the row and, by its name, the file.  apply follows the   *)
(* order of its plan; here any order may be the one of the plan.           *)
DeleteElement(id) ==
  /\ pc = "rewinding" /\ id \in doomed
  /\ doomed' = doomed \ {id}
  /\ missed' = IF id \in DOMAIN creating THEN missed \cup {id} ELSE missed
  /\ IF id \in DOMAIN rows
       THEN rows' = Without(rows, id) /\ files' = Without(files, rows[id].name)
       ELSE UNCHANGED <<rows, files>>
  /\ UNCHANGED <<messages, feed, pc, turn, drawing, draft, ended, tab, creating,
                 shared, uploads, bounds>>

(* The transaction rolls back; the handler shows the error and ends.       *)
DeleteFails ==
  /\ pc = "rewinding" /\ doomed # {}
  /\ faults < MaxFaults /\ faults' = faults + 1
  /\ pc' = "idle" /\ doomed' = {} /\ turn' = NoTurn
  /\ UNCHANGED <<messages, feed, drawing, draft, ended, tab, attachments, edits, answers>>

(* A variant of apply that truncates first and deletes then.               *)
TruncateFirst ==
  /\ pc = "rewinding"
  /\ messages' = Rewound(messages, turn)
  /\ pc' = "refreshing" /\ doomed' = {}
  /\ UNCHANGED <<feed, turn, drawing, draft, ended, tab, attachments, bounds>>

(* aupdate_state.                                                          *)
Truncate ==
  /\ pc = "rewinding" /\ doomed = {}
  /\ messages' = Rewound(messages, turn)
  /\ pc' = "refreshing"
  /\ UNCHANGED <<feed, turn, drawing, todo, ended, tab, attachments, bounds>>

(* refresh_view: the tab is given the thread anew; then the turn begins.   *)
Refresh ==
  /\ pc = "refreshing"
  /\ feed' = Replay(messages)
  /\ BeginsTurn(turn) /\ reloaded' = FALSE
  /\ UNCHANGED <<messages, todo, ended, snapshot, resumes, attachments, bounds>>

RefreshFails ==
  /\ pc = "refreshing"
  /\ faults < MaxFaults /\ faults' = faults + 1
  /\ pc' = "idle" /\ ended' = "failed" /\ turn' = NoTurn
  /\ UNCHANGED <<messages, feed, drawing, todo, tab, attachments, edits, answers>>

-----------------------------------------------------------------------------
(* The turn: the tracer's callbacks draw, the graph saves a node's messages *)
(* when the node is over.                                                  *)

unturned == <<turn, todo, ended, tab, attachments, bounds>>

(* on_llm_new_token with reasoning: the container.                         *)
Thinks ==
  /\ pc = "model" /\ ~thought /\ ~said
  /\ thought' = TRUE
  /\ IF opened.container THEN UNCHANGED <<feed, sent>>
     ELSE Put(StepId(turn, 0, "process"), "open")
  /\ opened' = [opened EXCEPT !.container = TRUE]
  /\ UNCHANGED <<messages, pc, said, calls, pending, unturned>>

(* _on_chunk: the text goes into the one answer of the turn.               *)
Says ==
  /\ pc = "model" /\ ~said
  /\ said' = TRUE
  /\ opened' = [opened EXCEPT !.answer = TRUE]
  /\ feed' = IF opened.answer THEN feed
             ELSE Shown(feed, StepId(turn, 0, "answer"), "said")
  /\ UNCHANGED <<messages, pc, sent, thought, calls, pending, unturned>>

(* on_llm_end draws the thinking; the message's calls are chosen.          *)
ModelEnds(chosen) ==
  /\ pc = "model" /\ answers < MaxAnswers /\ answers' = answers + 1
  /\ ToSet(chosen) \subseteq FreshCalls
  /\ IF thought THEN Put(StepId(answers', 0, "thinking"), "done")
                ELSE UNCHANGED <<feed, sent>>
  /\ calls' = [c \in ToSet(chosen) |-> "called"]
  /\ pc' = "saving" /\ draft' = <<answers', chosen>>
  /\ UNCHANGED <<messages, turn, opened, thought, said, pending, doomed, ended, tab,
                 attachments, edits, faults>>

SaveAnswer ==
  /\ pc = "saving"
  /\ messages' = Append(messages, Ai(draft[1], thought, said, draft[2]))
  /\ draft' = NoDraft /\ thought' = FALSE /\ said' = FALSE
  /\ pc' = IF draft[2] = <<>> THEN "closing" ELSE "tools"
  /\ UNCHANGED <<feed, turn, sent, opened, calls, pending, doomed, ended, tab,
                 attachments, bounds>>

(* A call of a tool the session does not have: answered without a callback.*)
Refuse(c) ==
  /\ pc = "tools" /\ c \in ForeignCalls /\ c \in DOMAIN calls
  /\ calls[c] = "called"
  /\ calls' = [calls EXCEPT ![c] = "error"]
  /\ UNCHANGED <<messages, feed, pc, sent, opened, thought, said, pending, unturned>>

(* on_tool_start: the container and the step are sent, ...                 *)
SendsStep(c) ==
  /\ pc = "tools" /\ c \in DOMAIN calls \ ForeignCalls /\ calls[c] = "called"
  /\ LET process == StepId(turn, 0, "process")
         step == StepId(c, 0, "tool")
     IN  /\ feed' = Shown(IF process \in sent THEN feed ELSE Process(feed, turn),
                          step, "running")
         /\ sent' = sent \cup {process, step}
  /\ opened' = [opened EXCEPT !.container = TRUE]
  /\ calls' = [calls EXCEPT ![c] = "sent"]
  /\ UNCHANGED <<messages, pc, thought, said, pending, unturned>>

(* ... and the note that it runs.                                          *)
NotesStep(c) ==
  /\ pc = "tools" /\ c \in DOMAIN calls /\ calls[c] = "sent"
  /\ pending' = pending \cup {c}
  /\ calls' = [calls EXCEPT ![c] = "running"]
  /\ UNCHANGED <<messages, feed, pc, sent, opened, thought, said, unturned>>

(* send_file runs inside a live turn; its row points to a file that is     *)
(* there.                                                                  *)
SendFile(c, name) ==
  /\ pc = "tools" /\ c \in pending /\ name \in DOMAIN files
  /\ ToolOf[c] = "send_file"
  /\ ElementId(c) \notin DOMAIN rows \cup DOMAIN creating
  /\ Attached(ElementId(c), name)
  /\ UNCHANGED <<messages, feed, pc, turn, drawing, todo, ended, tab, rows,
                 files, missed, uploads, bounds>>

(* on_tool_end, on_tool_error.                                             *)
ToolEnds(c, outcome) ==
  /\ pc = "tools" /\ c \in pending /\ outcome \in MayGive(c)
  /\ pending' = pending \ {c}
  /\ calls' = [calls EXCEPT ![c] = IF outcome = "chart" THEN "drawing" ELSE outcome]
  /\ Put(StepId(c, 0, "tool"), ToolState(outcome))
  /\ UNCHANGED <<messages, pc, opened, thought, said, unturned>>

(* _chart: a step of its own with the chart as its element.                *)
DrawsChart(c) ==
  /\ pc = "tools" /\ c \in DOMAIN calls /\ calls[c] = "drawing"
  /\ calls' = [calls EXCEPT ![c] = "chart"]
  /\ Put(StepId(c, 0, "chart"), "drawn")
  /\ creating' = With(creating, ElementId(c), Row(ChartName, Unwritten))
  /\ shared' = IF Taken(ChartName) THEN shared \cup {ChartName} ELSE shared
  /\ UNCHANGED <<messages, pc, turn, opened, thought, said, pending, todo, ended,
                 tab, rows, files, missed, uploads, bounds>>

SaveResults ==
  /\ pc = "tools" /\ \A c \in DOMAIN calls : calls[c] \in Outcomes
  /\ LET order == messages[Len(messages)].calls
     IN  messages' = messages \o [i \in DOMAIN order |-> Tool(order[i], calls[order[i]])]
  /\ calls' = <<>> /\ pc' = "model"
  /\ UNCHANGED <<feed, sent, opened, thought, said, pending, unturned>>

(* close_answer: an empty turn gets a message too.                         *)
TurnEnds ==
  /\ pc = "closing"
  /\ feed' = Shown(feed, StepId(turn, 0, "answer"), "said")
  /\ pc' = "idle" /\ ended' = "ok" /\ turn' = NoTurn /\ Dropped
  /\ UNCHANGED <<messages, sent, todo, tab, attachments, bounds>>

Running == {"model", "saving", "tools"}

(* Stop: the tasks of the node are cancelled at their await.               *)
StopTurn ==
  /\ pc \in Running /\ answers < MaxAnswers
  /\ pc' = "stopping" /\ draft' = NoDraft
  /\ UNCHANGED <<messages, feed, turn, drawing, doomed, ended, tab, attachments, bounds>>

(* stop_pending, one step at a time.                                       *)
StopPending(c) ==
  /\ pc = "stopping" /\ c \in pending
  /\ pending' = pending \ {c}
  /\ Put(StepId(c, 0, "tool"), "stopped")
  /\ UNCHANGED <<messages, pc, opened, thought, said, calls, unturned>>

(* A variant of stop_pending that closes one step.                         *)
RememberEarly ==
  /\ pc = "stopping" /\ Cardinality(pending) <= 1 /\ answers < MaxAnswers
  /\ answers' = answers + 1
  /\ feed' = Shown(feed, StepId(turn, 0, "answer"), "said")
  /\ messages' = Append(messages, Note(answers', "stopped"))
  /\ pc' = "idle" /\ ended' = "stopped" /\ turn' = NoTurn /\ Dropped
  /\ UNCHANGED <<sent, todo, tab, attachments, edits, faults>>

(* rewrite_answer and the note in the history.                             *)
Remember ==
  /\ pc = "stopping" /\ pending = {} /\ answers < MaxAnswers
  /\ answers' = answers + 1
  /\ feed' = Shown(feed, StepId(turn, 0, "answer"), "said")
  /\ messages' = Append(messages, Note(answers', "stopped"))
  /\ pc' = "idle" /\ ended' = "stopped" /\ turn' = NoTurn /\ Dropped
  /\ UNCHANGED <<sent, todo, tab, attachments, edits, faults>>

(* The model fails: the error in the feed and in the history.              *)
TurnFails ==
  /\ pc \in {"model", "saving"}
  /\ answers < MaxAnswers /\ answers' = answers + 1
  /\ faults < MaxFaults /\ faults' = faults + 1
  /\ Put(StepId(turn, 0, "error"), "said")
  /\ messages' = Append(messages, Note(answers', "error"))
  /\ pc' = "idle" /\ draft' = NoDraft /\ ended' = "failed" /\ turn' = NoTurn /\ Dropped
  /\ UNCHANGED <<doomed, tab, attachments, edits>>

-----------------------------------------------------------------------------
(* A tab comes back: get_thread, then on_chat_resume.                      *)

ResumeReads ==
  /\ snapshot = <<>> /\ messages # <<>>
  /\ resumes < MaxResumes /\ resumes' = resumes + 1
  /\ snapshot' = Replay(messages)
  /\ UNCHANGED <<messages, feed, pc, turn, drawing, todo, ended, reloaded,
                 attachments, bounds>>

TurnIsActive == pc \in Running \cup {"closing", "stopping"}

(* A variant of resume_steps that takes every call of the node for running. *)
ResumeCalls ==
  LET container == StepId(turn, 0, "process")
      ids == {StepId(c, 0, "tool") : c \in DOMAIN calls}
               \cup (IF opened.container THEN {container} ELSE {})
  IN  [id \in ids |-> IF id = container THEN "open" ELSE "running"]

ResumeSteps ==
  LET container == StepId(turn, 0, "process")
      answer == StepId(turn, 0, "answer")
      ids == (IF opened.container THEN {container} ELSE {})
               \cup {StepId(c, 0, "tool") : c \in pending}
               \cup (IF opened.answer THEN {answer} ELSE {})
  IN  [id \in ids |-> CASE id = container -> "open"
                        [] id = answer -> "said"
                        [] OTHER -> "running"]

ResumeShows ==
  /\ snapshot # <<>>
  /\ feed' = IF TurnIsActive THEN Merge(snapshot, ResumeSteps) ELSE snapshot
  /\ snapshot' = <<>>
  /\ reloaded' = (pc # "idle" \/ snapshot # Replay(messages))
  /\ UNCHANGED <<messages, pc, turn, drawing, todo, ended, resumes,
                 attachments, bounds>>

-----------------------------------------------------------------------------
(* Up to two calls at once, in one order: nothing depends on which is first. *)
Chosen ==
  {SetToSeq(s) : s \in {t \in SUBSET Calls : IsFiniteSet(t) /\ Cardinality(t) <= 2}}

ModelSteps ==
  \/ Thinks
  \/ Says
  \/ \E chosen \in Chosen : ModelEnds(chosen)
  \/ SaveAnswer
  \/ SaveResults
  \/ TurnEnds

ToolSteps ==
  \/ \E c \in Calls : Refuse(c)
  \/ \E c \in Calls : SendsStep(c)
  \/ \E c \in Calls : NotesStep(c)
  \/ \E c \in Calls, name \in Names : SendFile(c, name)
  \/ \E c \in Calls, outcome \in Outcomes : ToolEnds(c, outcome)
  \/ \E c \in Calls : DrawsChart(c)

Next ==
  \/ \E name \in Names : Upload(name)
  \/ \E id \in DOMAIN creating : ChartUploads(id)
  \/ \E id \in DOMAIN creating : CreateCommits(id)
  \/ \E id \in DOMAIN creating : CreateFails(id)
  \/ \E q \in Questions, names \in SUBSET Names : Ask(q, names)
  \/ \E q \in Questions : Edit(q)
  \/ \E id \in doomed : DeleteElement(id)
  \/ DeleteFails
  \/ Truncate
  \/ Refresh
  \/ RefreshFails
  \/ ModelSteps
  \/ ToolSteps
  \/ StopTurn
  \/ \E c \in Calls : StopPending(c)
  \/ Remember
  \/ TurnFails
  \/ ResumeReads
  \/ ResumeShows

Spec == Init /\ [][Next]_vars

-----------------------------------------------------------------------------
(* The steps of a process: everything but what was said, which the live     *)
(* tab keeps in one answer per turn and the replay in one per message.     *)
ProcessRoles == {"process", "thinking", "tool", "chart", "question"}
ProcessIds(steps) == {id \in DOMAIN steps : id[3] \in ProcessRoles}

AtRest == pc = "idle" /\ snapshot = <<>>

(* The contract of ChatView's ids: when a thread is at rest, a step the tab *)
(* shows and the history replays is in the same state in both; a turn that *)
(* ended has drawn nothing the history does not replay; and a tab that saw *)
(* the turns from the beginning has every step of them.                    *)
ReplayAgrees ==
  AtRest =>
    LET replayed == Replay(messages)
        own == Replay(DropForeign(messages))
    IN  /\ \A id \in ProcessIds(feed) \cap DOMAIN replayed : feed[id] = replayed[id]
        /\ ended = "ok" => {id \in sent : id[3] \in ProcessRoles} \subseteq DOMAIN replayed
        /\ ~reloaded => ProcessIds(own) \subseteq DOMAIN feed

(* After a stop no step of the turn is left running in the tab (stop_pending)*)
(* but one the stop caught between its drawing and its note.               *)
StepsAreClosed ==
  [][pc = "stopping" /\ pc' = "idle" =>
       \A c \in DOMAIN calls :
         LET id == StepId(c, 0, "tool")
         IN  id \in DOMAIN feed' /\ feed'[id] = "running" => calls[c] = "sent"]_vars

(* Whatever was stopped, failed or edited before, the model is shown calls  *)
(* with their results and results with their calls (build_llm_view).       *)
ModelSeesWholeExchanges == pc = "model" => WholeExchanges(LlmView(messages))

(* An attachment whose name no other upload, chart or sent file took serves *)
(* what was stored for it, through commits, rollbacks and rewinds.         *)
ServedIsOwn ==
  \A id \in DOMAIN rows :
    rows[id].name \notin shared =>
      /\ rows[id].name \in DOMAIN files
      /\ files[rows[id].name] = rows[id].writer

(* When the history is cut at an edited question, the attachments of the    *)
(* messages cut off are gone, but those still being created (apply).       *)
RewindIsComplete ==
  [][Len(messages') < Len(messages) =>
       TailElements(messages, turn) \cap DOMAIN rows' \subseteq missed]_vars

(* ThreadRewind.apply deletes what hangs on the tail: no step takes the file*)
(* of an attachment that stays.                                            *)
AttachmentsStay ==
  [][\A id \in DOMAIN rows \cap DOMAIN rows' :
       rows[id].name \in DOMAIN files => rows[id].name \in DOMAIN files']_vars
===============================================================================
