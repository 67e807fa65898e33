-------------------------- MODULE AgentTranscript --------------------------
(***************************************************************************)
(* The transcript of one agent.  The record's history.json is appended to  *)
(* by the worker, through history.append (agent_worker.py _persist,        *)
(* agent_controller.py _append_history), and by the operator               *)
(* (agent_controller.py continue_agent); the worker works on a copy of its *)
(* own, which it replaces when it resumes, and sends the model a bounded   *)
(* view of that copy (agent_worker.py _api_messages).  A message is known  *)
(* by its place in the dialogue: operator message n, the answer of turn t  *)
(* with its tool calls, the result of call i of turn t.                    *)
(***************************************************************************)
EXTENDS Naturals, Sequences, Functions

CONSTANTS
  Kinds,       \* kinds of tool calls the model may ask for, of AllKinds
  MaxCalls,    \* bound: tool calls of one answer (the code has 32)
  Budget,      \* max_model_calls
  ChildBudget, \* MAX_CHILD_MODEL_CALLS
  Window,      \* MAX_CONTEXT_MESSAGES
  MaxFeedback, \* bound: messages of the operator after the task
  CanStop      \* the operator may stop the agent, and recover it

AllKinds == {"tool", "submit", "child"}

TranscriptAssumption ==
  /\ Kinds \subseteq AllKinds /\ CanStop \in BOOLEAN
  /\ {MaxCalls, Budget, ChildBudget, Window} \subseteq Nat \ {0} /\ MaxFeedback \in Nat

VARIABLES
  stored,     \* history.json of the (latest) record
  history,    \* the worker's copy
  request,    \* the messages of the model request that is answered next
  state,      \* metadata "state"
  submitted,  \* metadata "submitted_head" is set
  commands,   \* commands in the runtime's queue
  modelCalls, \* runtime.model_calls
  fed,        \* messages of the operator so far
  turn,       \* number of the latest answer
  at,         \* where the worker is
  calls,      \* tool calls of the answer it handles
  next,       \* the call it is at
  inTurn,     \* submitted_patch of _handle_tool_calls
  childCalls  \* model calls of the child that runs

record == <<stored, state, submitted, commands, modelCalls, fed>>
worker == <<history, request, turn, at, calls, next, inTurn, childCalls>>
vars   == <<record, worker>>

User(n)       == [role |-> "user", turn |-> n, calls |-> 0]
Answer(t, n)  == [role |-> "assistant", turn |-> t, calls |-> n]
Result(t, i)  == [role |-> "tool", turn |-> t, calls |-> i]
Message == [role : {"user", "assistant", "tool"}, turn : Nat, calls : Nat]

TypeOK ==
  /\ {stored, history, request} \subseteq Seq(Message)
  /\ state \in {"starting", "running", "halted", "awaiting_review", "review_received",
                "stopped", "failed"}
  /\ submitted \in BOOLEAN /\ commands \in 0 .. MaxFeedback
  /\ modelCalls \in 0 .. Budget /\ fed \in 0 .. MaxFeedback
  /\ turn \in 0 .. Budget * (1 + MaxFeedback)
  /\ at \in {"initial", "model", "answered", "calling", "child", "called", "halting",
             "posting", "waiting", "resuming", "reporting", "ended"}
  /\ calls \in Seq(Kinds) /\ Len(calls) <= MaxCalls /\ next \in 1 .. MaxCalls
  /\ at \in {"calling", "child", "called"} => next <= Len(calls)
  /\ inTurn \in BOOLEAN /\ childCalls \in 0 .. ChildBudget

Init ==
  /\ stored = <<User(0)>> /\ history = <<>> /\ request = <<>>
  /\ state = "starting" /\ submitted = FALSE /\ commands = 0 /\ modelCalls = 0
  /\ fed = 0 /\ turn = 0 /\ at = "initial" /\ calls = <<>> /\ next = 1
  /\ inTurn = FALSE /\ childCalls = 0

Goto(l) == at' = l

\* initialize: the whole stored transcript, and the report "running"
Initialize ==
  /\ at = "initial" /\ Goto("model")
  /\ history' = stored /\ state' = "running"
  /\ UNCHANGED <<stored, submitted, commands, modelCalls, fed, request, turn, calls, next, inTurn, childCalls>>

-----------------------------------------------------------------------------
(* One turn of the loop *)

\* _api_messages: the latest messages, at most Window and as many as the byte
\* budget leaves (kept), without tool results at the front.
View(h, kept) ==
  LET latest == SubSeq(h, Len(h) - kept + 1, Len(h))
      begins == {i \in DOMAIN latest : latest[i].role # "tool"}
  IN  IF begins = {} THEN <<>>
      ELSE SubSeq(latest, CHOOSE i \in begins : \A j \in begins : i <= j, Len(latest))

Kept(h) == {n \in 1 .. Window : n <= Len(h)}

\* _model_complete: checked and counted in one step, before the model is called
BudgetIsSpent == modelCalls >= Budget

\* The worker's model.complete, answered with tool calls or none.
CompleteTurn(kept, asked) ==
  /\ at = "model" /\ ~BudgetIsSpent /\ kept \in Kept(history)
  /\ request' = View(history, kept)
  /\ modelCalls' = modelCalls + 1 /\ turn' = turn + 1 /\ calls' = asked
  /\ Goto("answered")
  /\ UNCHANGED <<stored, state, submitted, commands, fed, history, next, inTurn, childCalls>>

\* The refusal ends the worker process with code 1; its monitor settles the record.
TurnRefused ==
  /\ at = "model" /\ BudgetIsSpent
  /\ Goto("ended") /\ state' = "failed"
  /\ UNCHANGED <<stored, submitted, commands, modelCalls, fed, history, request, turn, calls, next, inTurn, childCalls>>

\* _persist: appended to the record, then to the worker's copy
Persisted(msg) == stored' = Append(stored, msg) /\ history' = Append(history, msg)

PersistAnswer ==
  /\ at = "answered" /\ Persisted(Answer(turn, Len(calls)))
  /\ request' = <<>> /\ next' = 1 /\ inTurn' = FALSE
  /\ Goto(IF calls = <<>> THEN "halting" ELSE "calling")
  /\ UNCHANGED <<state, submitted, commands, modelCalls, fed, turn, calls, childCalls>>

\* A tool that changes nothing here, or a submission that is refused.
RunTool ==
  /\ at = "calling" /\ calls[next] \in {"tool", "submit"} /\ Goto("called")
  /\ UNCHANGED <<record, history, request, turn, calls, next, inTurn, childCalls>>

SubmitPatch ==
  /\ at = "calling" /\ calls[next] = "submit" /\ Goto("called")
  /\ state' = "awaiting_review" /\ submitted' = TRUE /\ inTurn' = TRUE
  /\ UNCHANGED <<stored, commands, modelCalls, fed, history, request, turn, calls, next, childCalls>>

BeginChild ==
  /\ at = "calling" /\ calls[next] = "child" /\ Goto("child") /\ childCalls' = 0
  /\ UNCHANGED <<record, history, request, turn, calls, next, inTurn>>

\* A model call of the child, out of the same budget: its text ends it; its tool
\* calls stay in the child's own history, but may submit a patch.
ChildTurn(submits, ends) ==
  /\ at = "child" /\ ~BudgetIsSpent /\ childCalls < ChildBudget
  /\ modelCalls' = modelCalls + 1 /\ childCalls' = childCalls + 1
  /\ ends => ~submits
  /\ IF submits THEN state' = "awaiting_review" /\ submitted' = TRUE
                ELSE UNCHANGED <<state, submitted>>
  /\ Goto(IF ends THEN "called" ELSE "child")
  /\ UNCHANGED <<stored, commands, fed, history, request, turn, calls, next, inTurn>>

\* A child without budget is an error result of its parent's tool call.
ChildFails ==
  /\ at = "child" /\ (BudgetIsSpent \/ childCalls = ChildBudget) /\ Goto("called")
  /\ UNCHANGED <<record, history, request, turn, calls, next, inTurn, childCalls>>

AfterResult ==
  IF next < Len(calls) THEN "calling" ELSE IF inTurn THEN "posting" ELSE "model"

PersistResult ==
  /\ at = "called" /\ Persisted(Result(turn, next))
  /\ Goto(AfterResult) /\ next' = IF at' = "calling" THEN next + 1 ELSE next
  /\ UNCHANGED <<state, submitted, commands, modelCalls, fed, request, turn, calls, inTurn, childCalls>>

-----------------------------------------------------------------------------
(* Waiting for the operator *)

ReportHalted ==
  /\ at = "halting" /\ Goto("posting") /\ state' = "halted"
  /\ UNCHANGED <<stored, submitted, commands, modelCalls, fed, history, request, turn, calls, next, inTurn, childCalls>>

\* _wait_for_command reports once more why it waits.
PostWait ==
  /\ at = "posting" /\ Goto("waiting")
  /\ state' = IF inTurn THEN "awaiting_review" ELSE "halted"
  /\ UNCHANGED <<stored, submitted, commands, modelCalls, fed, history, request, turn, calls, next, inTurn, childCalls>>

TakeCommand ==
  /\ at = "waiting" /\ commands > 0 /\ commands' = commands - 1 /\ Goto("resuming")
  /\ UNCHANGED <<stored, state, submitted, modelCalls, fed, history, request, turn, calls, next, inTurn, childCalls>>

Resumed_Kept == history
Resumed == stored
Resume ==
  /\ at = "resuming" /\ Goto("reporting") /\ history' = Resumed
  /\ UNCHANGED <<record, request, turn, calls, next, inTurn, childCalls>>

ReportRunning ==
  /\ at = "reporting" /\ Goto("model") /\ state' = "running"
  /\ UNCHANGED <<stored, submitted, commands, modelCalls, fed, history, request, turn, calls, next, inTurn, childCalls>>

-----------------------------------------------------------------------------
(* The operator *)

\* continue_agent on a live agent, at any state that passes for waiting
ContinueLive ==
  /\ at \notin {"initial", "ended"} /\ fed < MaxFeedback
  /\ state \in {"halted", "awaiting_review", "review_received"}
  /\ fed' = fed + 1 /\ stored' = Append(stored, User(fed + 1))
  /\ commands' = commands + 1 /\ state' = "review_received"
  /\ UNCHANGED <<submitted, modelCalls, worker>>

Stop ==
  /\ CanStop /\ at \notin {"initial", "ended"} /\ Goto("ended") /\ state' = "stopped"
  /\ UNCHANGED <<stored, submitted, commands, modelCalls, fed, history, request, turn, calls, next, inTurn, childCalls>>

\* continue_agent on a stopped agent: a new record with the stored transcript and
\* the message, and a new worker
Recover ==
  /\ at = "ended" /\ state = "stopped" /\ ~submitted /\ fed < MaxFeedback
  /\ fed' = fed + 1 /\ stored' = Append(stored, User(fed + 1))
  /\ state' = "starting" /\ commands' = 0 /\ modelCalls' = 0
  /\ history' = <<>> /\ request' = <<>> /\ Goto("initial")
  /\ UNCHANGED <<submitted, turn, calls, next, inTurn, childCalls>>

Asked == UNION {[1 .. n -> Kinds] : n \in 0 .. MaxCalls}
WorkerStep ==
  \/ Initialize \/ TurnRefused \/ PersistAnswer
  \/ \E kept \in 1 .. Window, asked \in Asked : CompleteTurn(kept, asked)
  \/ RunTool \/ SubmitPatch \/ BeginChild \/ ChildFails \/ PersistResult
  \/ \E submits, ends \in BOOLEAN : ChildTurn(submits, ends)
  \/ ReportHalted \/ PostWait \/ TakeCommand \/ Resume \/ ReportRunning
Next == WorkerStep \/ ContinueLive \/ Stop \/ Recover

Spec == Init /\ [][Next]_vars

\* The worker's process runs and its requests are answered.
Fairness == WF_vars(WorkerStep)
FairSpec == Spec /\ Fairness

-----------------------------------------------------------------------------
(* Properties *)

\* The record has each message once, and the worker knows none that the record has not,
\* nor in another order: what a crash of the worker loses can be read from the record
\* (_persist).
CopyIsOfRecord ==
  /\ \A k, l \in DOMAIN stored : stored[k] = stored[l] => k = l
  /\ \A i \in DOMAIN history : \E k \in DOMAIN stored : stored[k] = history[i]
  /\ \A i \in DOMAIN history, k, l \in DOMAIN stored :
       i > 1 /\ stored[k] = history[i - 1] /\ stored[l] = history[i] => k < l

\* A worker that waits with nothing queued has read every message of the operator,
\* however messages, reports and the worker's steps interleaved.
FeedbackIsRead == at = "waiting" /\ commands = 0 => history = stored

\* No request to the model holds a tool result without the answer that asked for it
\* (agent_worker.py:533-534).
NoOrphanResult ==
  \A i \in DOMAIN request : request[i].role = "tool" =>
    \E j \in 1 .. i - 1 : request[j].role = "assistant" /\ request[j].turn = request[i].turn

\* No request of the worker holds a tool call without its result (a model interface
\* refuses such a request), although the window may cut the transcript anywhere.
CallsAreAnswered ==
  \A i \in DOMAIN request : request[i].role = "assistant" =>
    \A n \in 1 .. request[i].calls :
      \E j \in DOMAIN request : j > i /\ request[j] = Result(request[i].turn, n)

\* Every message of the operator reaches the worker's copy, unless the worker ends
\* (its budget is spent, or the agent is stopped).
FeedbackIsTakenUp ==
  \A n \in 1 .. MaxFeedback : fed >= n ~> (User(n) \in Range(history) \/ at = "ended")
=============================================================================
