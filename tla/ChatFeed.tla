------------------------------- MODULE ChatFeed -------------------------------
(***************************************************************************)
(* What is made of the messages of a chat thread: the feed of the tab      *)
(* (ChatView, ConversationTranscript), the view of the model               *)
(* (build_llm_view), the plan of a rewind (ThreadRewind.plan).  Messages   *)
(* are the history the checkpointer keeps; a text is kept as "there is     *)
(* one", a step as the state a reader sees.                                *)
(***************************************************************************)
EXTENDS Naturals, Sequences, FiniteSets, TLC, SequencesExt, Picking

CONSTANTS
  ForeignCalls,    \* calls of tools the session does not have
  HistoryMessages  \* replies of earlier turns the model is shown

ASSUME FeedAssumption == HistoryMessages \in Nat \ {0}

NoMessage == [kind |-> "none", id |-> 0, thinks |-> FALSE, says |-> FALSE,
              calls |-> <<>>, mark |-> "none", outcome |-> "none"]

Human(q) == [NoMessage EXCEPT !.kind = "human", !.id = q]
Ai(id, thinks, says, calls) ==
  [NoMessage EXCEPT !.kind = "ai", !.id = id, !.thinks = thinks,
                    !.says = says, !.calls = calls]
Note(id, mark) ==
  [NoMessage EXCEPT !.kind = "ai", !.id = id, !.says = TRUE, !.mark = mark]
Tool(call, outcome) ==
  [NoMessage EXCEPT !.kind = "tool", !.id = call, !.outcome = outcome]

CallsOf(ms) == UNION {ToSet(ms[i].calls) : i \in DOMAIN ms}
-----------------------------------------------------------------------------
(* A step of the feed is addressed by its key, its number under the key    *)
(* and its role; of one thread, so the thread is left out.                 *)

StepId(key, n, role) == <<key, n, role>>
ElementId(call) == StepId(call, 0, "element")

With(f, x, v) == [y \in DOMAIN f \cup {x} |-> IF y = x THEN v ELSE f[y]]
Shown(steps, id, state) == With(steps, id, state)

Process(steps, turn) == Shown(steps, StepId(turn, 0, "process"), "open")

ToolState(outcome) == IF outcome = "error" THEN "failed" ELSE "done"

Ended(steps, call, outcome) ==
  LET ended == Shown(steps, StepId(call, 0, "tool"), ToolState(outcome))
  IN  IF outcome = "chart"
        THEN Shown(ended, StepId(call, 0, "chart"), "drawn")
        ELSE ended

(* ConversationTranscript: one pass over the messages.                     *)
Begin == [turn |-> "none", answers |-> 0, steps |-> <<>>]

Question(f, m) ==
  [turn |-> m.id, answers |-> 0,
   steps |-> Shown(f.steps, StepId(m.id, 0, "question"), "asked")]

Answer(f, role) ==
  [turn |-> f.turn, answers |-> f.answers + 1,
   steps |-> Shown(f.steps, StepId(f.turn, f.answers, role), "said")]

Thinking(f, m) ==
  [f EXCEPT !.steps = Shown(Process(@, f.turn), StepId(m.id, 0, "thinking"), "done")]

Assistant(f, m) ==
  LET thought == IF m.thinks THEN Thinking(f, m) ELSE f
  IN  CASE m.mark = "error" -> Answer(f, "error")
        [] m.mark # "error" /\ m.says -> Answer(thought, "answer")
        [] OTHER -> thought

ToolResult(f, m) ==
  [f EXCEPT !.steps = Ended(Process(@, f.turn), m.id, m.outcome)]

Replayed(f, m) ==
  CASE m.kind = "human" -> Question(f, m)
    [] m.kind = "tool"  -> ToolResult(f, m)
    [] OTHER            -> Assistant(f, m)

Pass(ms) ==
  LET f[n \in 0..Len(ms)] == IF n = 0 THEN Begin ELSE Replayed(f[n - 1], ms[n])
  IN  f

Replay(ms) == Pass(ms)[Len(ms)].steps

(* on_chat_resume: the live steps take the place of the replayed ones.     *)
Merge(replayed, live) ==
  [id \in DOMAIN live \cup DOMAIN replayed |->
     IF id \in DOMAIN live THEN live[id] ELSE replayed[id]]

-----------------------------------------------------------------------------
(* build_llm_view: of the earlier turns only what was said; of the current *)
(* one everything but the calls of tools the session does not have.        *)

LastQuestion(ms) ==
  LET asked == {i \in DOMAIN ms : ms[i].kind = "human"}
  IN  IF asked = {} THEN 1 ELSE CHOOSE i \in asked : \A j \in asked : j <= i

(* A variant of IsReply that drops the results and leaves the calls.       *)
IsSaid(m) == m.kind # "tool"

IsReply(m) == m.kind # "tool" /\ m.calls = <<>>

Replies(ms) ==
  LET said == Picked(ms, {i \in DOMAIN ms : IsReply(ms[i])})
      from == IF Len(said) > HistoryMessages THEN Len(said) - HistoryMessages + 1 ELSE 1
  IN  SubSeq(said, from, Len(said))

IsForeign(m) == ToSet(m.calls) \cap ForeignCalls # {}

DropForeign(ms) ==
  LET dropped == CallsOf(Picked(ms, {i \in DOMAIN ms : IsForeign(ms[i])}))
      Kept(m) == ~IsForeign(m) /\ ~(m.kind = "tool" /\ m.id \in dropped)
  IN  Picked(ms, {i \in DOMAIN ms : Kept(ms[i])})

LlmView(ms) ==
  LET start == LastQuestion(ms)
  IN  Replies(SubSeq(ms, 1, start - 1)) \o DropForeign(SubSeq(ms, start, Len(ms)))

(* Every call the model sees has its result after it, every result its     *)
(* call before it: what the API of the model asks of a history.            *)
WholeExchanges(view) ==
  \A i \in DOMAIN view :
    /\ \A c \in ToSet(view[i].calls) :
         \E j \in DOMAIN view : j > i /\ view[j].kind = "tool" /\ view[j].id = c
    /\ view[i].kind = "tool" =>
         \E j \in 1 .. i - 1 : view[i].id \in ToSet(view[j].calls)

-----------------------------------------------------------------------------
(* ThreadRewind.plan: what follows the question.                           *)

IsAsked(ms, q) == \E i \in DOMAIN ms : ms[i].kind = "human" /\ ms[i].id = q

After(ms, q) ==
  LET at == CHOOSE i \in DOMAIN ms :
              /\ ms[i].kind = "human" /\ ms[i].id = q
              /\ \A j \in 1 .. i - 1 : ~(ms[j].kind = "human" /\ ms[j].id = q)
  IN  SubSeq(ms, at + 1, Len(ms))

TailElements(ms, q) == {ElementId(c) : c \in CallsOf(After(ms, q))}

Rewound(ms, q) == SubSeq(ms, 1, Len(ms) - Len(After(ms, q)))
===============================================================================
