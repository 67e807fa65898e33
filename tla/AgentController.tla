-------------------------- MODULE AgentController --------------------------
(***************************************************************************)
(* The lifecycle of agents under one AgentController (agent_controller.py):*)
(* starting, running, waiting for commands, submitting patches, stopping,  *)
(* deciding about submissions, recovering and reaping, with the worker     *)
(* process of every agent, the one request it may have outstanding on its  *)
(* IPC connection, and restarts of the controller.                         *)
(*                                                                         *)
(* The controller is one asyncio loop: the code between two awaits is one  *)
(* action here, and everything that can happen during an await is another  *)
(* action that may come in between.                                        *)
(***************************************************************************)
EXTENDS Naturals

CONSTANTS
  Agents,           \* the agent ids start_agent draws (secrets.token_hex: never reused)
  Heads,            \* the commits a worker may submit
  NoAgent,          \* "parent_agent_id": None
  NoHead,           \* no "submitted_head" (or decision about one) in the metadata
  WorkerExitCodes,  \* how the processes of worker_command can end: "ok" is code 0
  MaxCommands       \* bound: commands that wait in one agent's queue

ASSUME ControllerAssumption ==
  /\ NoAgent \notin Agents
  /\ NoHead \notin Heads
  /\ WorkerExitCodes \subseteq {"ok", "error"}
  /\ MaxCommands \in Nat \ {0}

VARIABLES
  \* Durable: the metadata file of the agent, its snapshot, the review artifacts
  state,          \* metadata "state"; "unused" before create, "removed" after remove
  submittedHead,  \* metadata "submitted_head"
  acknowledged,   \* head of "patch_applied_acknowledgement"
  rejected,       \* head of "patch_rejection"
  parent,         \* metadata "parent_agent_id"
  snapshot,       \* the private snapshot is on disk
  exported,       \* heads patch_submit_callback has exported
  \* Memory of the controller process
  starting,       \* progress of the start_agent call: "no", "created", "spawned"
  source,         \* the agent that call recovers, NoAgent for a fresh start
  restarting,     \* _restarting_agents
  runtime,        \* the agent is in _runtimes
  stopRequested,  \* _AgentRuntime.stop_requested
  timer,          \* _enforce_runtime_limit still sleeps
  monitor,        \* _monitor_process: "none", "waiting" for the process, "done"
  stopper,        \* stop_agent calls: "idle", "closing" the connection, "terminating"
  commands,       \* length of _AgentRuntime.commands
  connected,      \* the worker's connection is open
  \* The worker process and its outstanding request
  process,        \* "none", "live", or how it ended
  pc,             \* where the worker's loop is
  rpc,            \* the outstanding request, and for a submission how far it got
  rpcHead         \* the head of an outstanding submission

durable == <<state, submittedHead, acknowledged, rejected, parent, snapshot, exported>>
startup == <<starting, source, restarting>>
memory  == <<runtime, stopRequested, timer, monitor, stopper, commands, connected>>
worker  == <<process, pc, rpc, rpcHead>>
vars    == <<durable, startup, memory, worker>>

-----------------------------------------------------------------------------
RecordStates == {"starting", "running", "halted", "awaiting_review",
                 "review_received", "stopping", "stopped", "failed"}
TerminalStates == {"stopped", "failed"}
ContinuableStates == {"halted", "stopped", "awaiting_review", "review_received"}
RecoverableStates == {"halted", "stopped"}
DecidableStates == {"awaiting_review", "stopped", "halted", "failed"}

\* The states a worker reports, and what its loop does once the report is in.
Reports == {"running", "halted", "awaiting_review"}
Locations == {"none", "connecting", "working", "submitted", "halting",
              "waiting", "resuming", "exiting"}

TypeOK ==
  /\ state \in [Agents -> RecordStates \cup {"unused", "removed"}]
  /\ submittedHead \in [Agents -> Heads \cup {NoHead}]
  /\ acknowledged \in [Agents -> Heads \cup {NoHead}]
  /\ rejected \in [Agents -> Heads \cup {NoHead}]
  /\ parent \in [Agents -> Agents \cup {NoAgent}]
  /\ snapshot \in [Agents -> BOOLEAN]
  /\ exported \in [Agents -> SUBSET Heads]
  /\ starting \in [Agents -> {"no", "created", "spawned"}]
  /\ source \in [Agents -> Agents \cup {NoAgent}]
  /\ restarting \subseteq Agents
  /\ runtime \in [Agents -> BOOLEAN]
  /\ stopRequested \in [Agents -> BOOLEAN]
  /\ timer \in [Agents -> BOOLEAN]
  /\ monitor \in [Agents -> {"none", "waiting", "done"}]
  /\ stopper \in [Agents -> {"idle", "closing", "terminating"}]
  /\ commands \in [Agents -> 0..MaxCommands]
  /\ connected \in [Agents -> BOOLEAN]
  /\ process \in [Agents -> {"none", "live", "ok", "error"}]
  /\ pc \in [Agents -> Locations]
  /\ rpc \in [Agents -> Reports \cup {"none", "submit", "record"}]
  /\ rpcHead \in [Agents -> Heads \cup {NoHead}]

Init ==
  /\ state = [a \in Agents |-> "unused"]
  /\ submittedHead = [a \in Agents |-> NoHead]
  /\ acknowledged = [a \in Agents |-> NoHead]
  /\ rejected = [a \in Agents |-> NoHead]
  /\ parent = [a \in Agents |-> NoAgent]
  /\ snapshot = [a \in Agents |-> FALSE]
  /\ exported = [a \in Agents |-> {}]
  /\ starting = [a \in Agents |-> "no"]
  /\ source = [a \in Agents |-> NoAgent]
  /\ restarting = {}
  /\ runtime = [a \in Agents |-> FALSE]
  /\ stopRequested = [a \in Agents |-> FALSE]
  /\ timer = [a \in Agents |-> FALSE]
  /\ monitor = [a \in Agents |-> "none"]
  /\ stopper = [a \in Agents |-> "idle"]
  /\ commands = [a \in Agents |-> 0]
  /\ connected = [a \in Agents |-> FALSE]
  /\ process = [a \in Agents |-> "none"]
  /\ pc = [a \in Agents |-> "none"]
  /\ rpc = [a \in Agents |-> "none"]
  /\ rpcHead = [a \in Agents |-> NoHead]

-----------------------------------------------------------------------------
Exists(a) == state[a] \in RecordStates

\* The check of continue_agent, the two decisions and _reap_agent: "runtime is
\* not None and runtime.process.returncode is None", that is, a managed worker lives.
Live(a) == runtime[a] /\ process[a] = "live"

\* patch_decision_matches: a decision counts only for the head it names.
Undecided(a) == /\ submittedHead[a] # NoHead
                /\ acknowledged[a] # submittedHead[a]
                /\ rejected[a] # submittedHead[a]

\* Mutants: stop_agent, or the runtime limit, sends no signal.
Signalled_ByLimit(a) == stopRequested[a] /\ ~timer[a]
Signalled_ByStop(a) == stopper[a] = "terminating"

\* A signal is on its way: stop_agent and _enforce_runtime_limit terminate the
\* process and kill it three seconds later.
Signalled(a) == \/ stopper[a] = "terminating"
                \/ stopRequested[a] /\ ~timer[a]
-----------------------------------------------------------------------------
(* Starting an agent *)

\* start_agent up to its first await: copy the source, create the record. A
\* failure in this part undoes it before anything else runs, so it is no step.
CreateRecord(a, p) ==
  /\ state[a] = "unused"
  /\ state' = [state EXCEPT ![a] = "starting"]
  /\ snapshot' = [snapshot EXCEPT ![a] = TRUE]
  /\ starting' = [starting EXCEPT ![a] = "created"]
  /\ source' = [source EXCEPT ![a] = p]
  /\ UNCHANGED <<submittedHead, acknowledged, rejected, parent, exported,
                 memory, worker>>

StartAgent(a) ==
  /\ CreateRecord(a, NoAgent)
  /\ UNCHANGED restarting

\* create_subprocess_exec: the worker runs, and may talk, before it is registered.
SpawnWorker(a) ==
  /\ starting[a] = "created"
  /\ starting' = [starting EXCEPT ![a] = "spawned"]
  /\ process' = [process EXCEPT ![a] = "live"]
  /\ pc' = [pc EXCEPT ![a] = "connecting"]
  /\ connected' = [connected EXCEPT ![a] = TRUE]
  /\ UNCHANGED <<durable, source, restarting, runtime, stopRequested, timer,
                 monitor, stopper, commands, rpc, rpcHead>>

\* Mutant: the guard of the new agent is released in place of the old one's.
ReleaseGuard_NewAgent(a) == restarting' = restarting \ {a}

\* The finally clause of the continue_agent call that a's start serves, if any.
ReleaseGuard(a) == restarting' = restarting \ {source[a]}

\* The rest of start_agent, and of the continue_agent call it serves, if any:
\* no await separates the new state, the registration and the parent link.
RegisterRuntime(a) ==
  /\ starting[a] = "spawned"
  /\ state' = [state EXCEPT ![a] = "running"]
  /\ runtime' = [runtime EXCEPT ![a] = TRUE]
  /\ monitor' = [monitor EXCEPT ![a] = "waiting"]
  /\ timer' = [timer EXCEPT ![a] = TRUE]
  /\ starting' = [starting EXCEPT ![a] = "no"]
  /\ ReleaseGuard(a)
  /\ parent' = [parent EXCEPT ![a] = source[a]]
  /\ source' = [source EXCEPT ![a] = NoAgent]
  /\ UNCHANGED <<submittedHead, acknowledged, rejected, snapshot, exported,
                 stopRequested, stopper, commands, connected, worker>>

\* The except branch: kill the process, remove the snapshot and the record.
FailStart(a) ==
  /\ starting[a] # "no"
  /\ state' = [state EXCEPT ![a] = "removed"]
  /\ snapshot' = [snapshot EXCEPT ![a] = FALSE]
  /\ starting' = [starting EXCEPT ![a] = "no"]
  /\ ReleaseGuard(a)
  /\ source' = [source EXCEPT ![a] = NoAgent]
  /\ connected' = [connected EXCEPT ![a] = FALSE]
  /\ process' = [process EXCEPT ![a] = "none"]
  /\ pc' = [pc EXCEPT ![a] = "none"]
  /\ rpc' = [rpc EXCEPT ![a] = "none"]
  /\ UNCHANGED <<submittedHead, acknowledged, rejected, parent, exported,
                 runtime, stopRequested, timer, monitor, stopper, commands, rpcHead>>
-----------------------------------------------------------------------------
(* The worker and the controller's handlers for its requests *)

CanSend(a) == process[a] = "live" /\ connected[a] /\ rpc[a] = "none"

\* The worker reports a state: "running" when it has loaded its history, first or
\* again; "halted" when the model returned no tool call and once more when it
\* starts to wait; "awaiting_review" after a turn that submitted a patch. A turn
\* needs model.complete, which fails while the runtime is not registered.
ReportState(a) ==
  /\ CanSend(a)
  /\ \E new \in Reports :
       /\ \/ new = "running" /\ pc[a] \in {"connecting", "resuming"}
          \/ new = "halted" /\ pc[a] \in {"working", "halting"} /\ runtime[a]
          \/ new = "awaiting_review" /\ pc[a] = "submitted"
       /\ rpc' = [rpc EXCEPT ![a] = new]
  /\ UNCHANGED <<durable, startup, memory, process, pc, rpcHead>>

\* Mutant: a worker that takes up feedback waits for the next command.
AfterReport_WaitsAgain(a) ==
  IF pc[a] = "connecting" THEN "working"
  ELSE IF pc[a] = "working" THEN "halting"
  ELSE IF pc[a] \in {"halting", "submitted", "resuming"} THEN "waiting"
  ELSE pc[a]

\* Where the worker is once its report has been answered.
AfterReport(a) ==
  IF pc[a] \in {"connecting", "resuming"} THEN "working"
  ELSE IF pc[a] = "working" THEN "halting"
  ELSE IF pc[a] \in {"halting", "submitted"} THEN "waiting"
  ELSE pc[a]

\* Mutant: reports are accepted from agents in a terminal state.
AcceptsReport_Always(a) == Exists(a)

\* _update_state refuses a report for a missing record or a terminal state.
AcceptsReport(a) == Exists(a) /\ state[a] \notin TerminalStates

\* A dead or disconnected worker's report may already be in the controller's
\* buffer. A refusal is an error the worker does not survive.
HandleUpdateState(a) ==
  /\ rpc[a] \in Reports
  /\ IF AcceptsReport(a)
     THEN /\ state' = [state EXCEPT ![a] = rpc[a]]
          /\ pc' = [pc EXCEPT ![a] = AfterReport(a)]
     ELSE /\ pc' = [pc EXCEPT ![a] = IF @ = "none" THEN "none" ELSE "exiting"]
          /\ UNCHANGED state
  /\ rpc' = [rpc EXCEPT ![a] = "none"]
  /\ UNCHANGED <<submittedHead, acknowledged, rejected, parent, snapshot, exported,
                 startup, memory, process, rpcHead>>

\* A request in the buffer of a connection that goes away is never handled.
LoseRequest(a) ==
  /\ rpc[a] \in Reports \cup {"submit"}
  /\ ~connected[a] \/ process[a] # "live"
  /\ rpc' = [rpc EXCEPT ![a] = "none"]
  /\ rpcHead' = [rpcHead EXCEPT ![a] = NoHead]
  /\ UNCHANGED <<durable, startup, memory, process, pc>>

\* The submit_patch_queue tool: any turn may submit, more than once.
SubmitPatch(a) ==
  /\ CanSend(a)
  /\ runtime[a]
  /\ pc[a] \in {"working", "submitted"}
  /\ \E h \in Heads : rpcHead' = [rpcHead EXCEPT ![a] = h]
  /\ rpc' = [rpc EXCEPT ![a] = "submit"]
  /\ UNCHANGED <<durable, startup, memory, process, pc>>

\* Mutant: the series is recorded although the callback has exported nothing.
ExportPatch_Skipped(a) ==
  /\ rpc[a] = "submit"
  /\ snapshot[a]
  /\ rpc' = [rpc EXCEPT ![a] = "record"]
  /\ UNCHANGED <<durable, startup, memory, process, pc, rpcHead>>

\* _submit_patch: the two Git checks read the snapshot, then the callback exports
\* the series. Nothing cancels the handler when the worker or its connection goes.
ExportPatch(a) ==
  /\ rpc[a] = "submit"
  /\ snapshot[a]
  /\ exported' = [exported EXCEPT ![a] = @ \cup {rpcHead[a]}]
  /\ rpc' = [rpc EXCEPT ![a] = "record"]
  /\ UNCHANGED <<state, submittedHead, acknowledged, rejected, parent, snapshot,
                 startup, memory, process, pc, rpcHead>>

\* The end of _submit_patch: an unconditional metadata update. The turn that called
\* the tool remembers the submission; one whose delegated child called it does not.
RecordSubmission(a) ==
  /\ rpc[a] = "record"
  /\ Exists(a)
  /\ state' = [state EXCEPT ![a] = "awaiting_review"]
  /\ submittedHead' = [submittedHead EXCEPT ![a] = rpcHead[a]]
  /\ rpc' = [rpc EXCEPT ![a] = "none"]
  /\ rpcHead' = [rpcHead EXCEPT ![a] = NoHead]
  /\ \E turn \in {"submitted", "working"} :
       pc' = [pc EXCEPT ![a] = IF @ = "working" THEN turn ELSE @]
  /\ UNCHANGED <<acknowledged, rejected, parent, snapshot, exported,
                 startup, memory, process>>

\* A check or the export fails, the request times out (also when the export has
\* been done), or there is no record left to update. The tool reports an error.
FailSubmission(a) ==
  /\ rpc[a] \in {"submit", "record"}
  /\ rpc' = [rpc EXCEPT ![a] = "none"]
  /\ rpcHead' = [rpcHead EXCEPT ![a] = NoHead]
  /\ UNCHANGED <<durable, startup, memory, process, pc>>

\* Mutant: the worker does not know the command and waits for the next one.
AwaitCommand_Ignored(a) ==
  /\ process[a] = "live"
  /\ pc[a] = "waiting"
  /\ commands[a] > 0
  /\ commands' = [commands EXCEPT ![a] = @ - 1]
  /\ UNCHANGED <<durable, startup, runtime, stopRequested, timer, monitor, stopper,
                 connected, worker>>

\* agent.await_command is answered; the worker then reloads its history.
AwaitCommand(a) ==
  /\ process[a] = "live"
  /\ pc[a] = "waiting"
  /\ commands[a] > 0
  /\ commands' = [commands EXCEPT ![a] = @ - 1]
  /\ pc' = [pc EXCEPT ![a] = "resuming"]
  /\ UNCHANGED <<durable, startup, runtime, stopRequested, timer, monitor, stopper,
                 connected, process, rpc, rpcHead>>
-----------------------------------------------------------------------------
(* The end of a worker *)

ProcessEnds(a, code) ==
  /\ process[a] = "live"
  /\ process' = [process EXCEPT ![a] = code]
  /\ pc' = [pc EXCEPT ![a] = "none"]
  /\ UNCHANGED <<durable, startup, memory, rpc, rpcHead>>

\* The process ends by itself: with code 0 only when it waits for no answer
\* (AgentWorkerClient.request is sequential), with an error at any time.
WorkerExit(a) ==
  \E code \in WorkerExitCodes :
    /\ code = "ok" => rpc[a] = "none"
    /\ ProcessEnds(a, code)

KillWorker(a) == Signalled(a) /\ ProcessEnds(a, "error")

\* _monitor_process after process.wait(). Its early return (the runtime is gone)
\* is not reachable: _reap_agent needs a state that only this task produces.
MonitorProcess(a) ==
  /\ monitor[a] = "waiting"
  /\ process[a] \in {"ok", "error"}
  /\ state' = [state EXCEPT ![a] =
                  IF @ \in TerminalStates THEN @
                  ELSE IF stopRequested[a] THEN "stopped"
                  ELSE IF process[a] = "error" THEN "failed" ELSE "halted"]
  /\ timer' = [timer EXCEPT ![a] = FALSE]
  /\ monitor' = [monitor EXCEPT ![a] = "done"]
  /\ connected' = [connected EXCEPT ![a] = FALSE]
  /\ UNCHANGED <<submittedHead, acknowledged, rejected, parent, snapshot, exported,
                 startup, runtime, stopRequested, stopper, commands, worker>>

\* _enforce_runtime_limit when it wakes up: it marks the agent and signals.
RuntimeLimit(a) ==
  /\ timer[a]
  /\ Live(a)
  /\ timer' = [timer EXCEPT ![a] = FALSE]
  /\ stopRequested' = [stopRequested EXCEPT ![a] = TRUE]
  /\ state' = [state EXCEPT ![a] = "stopping"]
  /\ UNCHANGED <<submittedHead, acknowledged, rejected, parent, snapshot, exported,
                 startup, runtime, monitor, stopper, commands, connected, worker>>
-----------------------------------------------------------------------------
(* Stopping *)

\* The first part of stop_agent for the registered agents of S. Calls that
\* overlap for one agent run the same steps and are one here.
BeginStop(S) ==
  /\ \A a \in S : runtime[a]
  /\ stopRequested' = [a \in Agents |-> stopRequested[a] \/ a \in S]
  /\ state' = [a \in Agents |-> IF a \in S THEN "stopping" ELSE state[a]]
  /\ connected' = [a \in Agents |-> connected[a] /\ a \notin S]
  /\ stopper' = [a \in Agents |-> IF a \in S /\ stopper[a] = "idle"
                                  THEN "closing" ELSE stopper[a]]
  /\ UNCHANGED <<submittedHead, acknowledged, rejected, parent, snapshot, exported,
                 startup, runtime, timer, monitor, commands, worker>>

StopAgent(a) == BeginStop({a})

\* Mutant: the inactive path does not ask whether there is a runtime.
StopInactive_AnyRuntime(a) ==
  /\ state[a] = "awaiting_review"
  /\ state' = [state EXCEPT ![a] = "stopped"]
  /\ UNCHANGED <<submittedHead, acknowledged, rejected, parent, snapshot, exported,
                 startup, memory, worker>>

\* stop_agent without a runtime acts on awaiting_review only; else it is no step.
StopInactive(a) ==
  /\ ~runtime[a]
  /\ state[a] = "awaiting_review"
  /\ state' = [state EXCEPT ![a] = "stopped"]
  /\ UNCHANGED <<submittedHead, acknowledged, rejected, parent, snapshot, exported,
                 startup, memory, worker>>

\* stop_agent after close_worker: signal the process if it still lives.
TerminateWorker(a) ==
  /\ stopper[a] = "closing"
  /\ stopper' = [stopper EXCEPT ![a] = "terminating"]
  /\ UNCHANGED <<durable, startup, runtime, stopRequested, timer, monitor, commands,
                 connected, worker>>

\* stop_agent has awaited the process and its monitor.
StopReturns(a) ==
  /\ stopper[a] = "terminating"
  /\ process[a] # "live"
  /\ monitor[a] = "done"
  /\ stopper' = [stopper EXCEPT ![a] = "idle"]
  /\ UNCHANGED <<durable, startup, runtime, stopRequested, timer, monitor, commands,
                 connected, worker>>

\* One agent of stop_agents: submissions are excluded. (An agent that awaits
\* review has one, so the call never gets to StopInactive from here.)
BulkStop(a) ==
  /\ submittedHead[a] = NoHead
  /\ StopAgent(a)

\* shutdown gathers one stop_agent call per registered agent; their first parts
\* run back to back. The restart that follows is ControllerRestart.
Shutdown ==
  /\ \E a \in Agents : runtime[a]
  /\ BeginStop({a \in Agents : runtime[a]})
-----------------------------------------------------------------------------
(* Continuing *)

\* continue_agent with a live worker: append to the history, queue the command.
ContinueLive(a) ==
  /\ Live(a)
  /\ state[a] \in ContinuableStates
  /\ commands[a] < MaxCommands
  /\ commands' = [commands EXCEPT ![a] = @ + 1]
  /\ state' = [state EXCEPT ![a] = "review_received"]
  /\ UNCHANGED <<submittedHead, acknowledged, rejected, parent, snapshot, exported,
                 startup, runtime, stopRequested, timer, monitor, stopper, connected,
                 worker>>

\* Mutant: nothing excludes a second recovery of the same agent.
Recover_Unguarded(a, c) ==
  /\ ~Live(a)
  /\ state[a] \in RecoverableStates
  /\ submittedHead[a] = NoHead
  /\ snapshot[a]
  /\ restarting' = restarting \cup {a}
  /\ CreateRecord(c, a)

\* continue_agent without one: start agent c from a's snapshot and history.
Recover(a, c) ==
  /\ ~Live(a)
  /\ state[a] \in RecoverableStates
  /\ submittedHead[a] = NoHead
  /\ snapshot[a]
  /\ a \notin restarting
  /\ restarting' = restarting \cup {a}
  /\ CreateRecord(c, a)

\* One agent of restart_agents. Its check is stricter than continue_agent's.
BulkRestart(a, c) ==
  /\ state[a] = "stopped"
  /\ submittedHead[a] = NoHead
  /\ Recover(a, c)
-----------------------------------------------------------------------------
(* Decisions about submissions, reaping *)

\* Mutant: a decision is taken while the worker may still submit again.
Decidable_Live(a) == /\ submittedHead[a] # NoHead
                     /\ state[a] \in DecidableStates

\* The checks both decisions make: something is submitted, no worker runs.
Decidable(a) == /\ submittedHead[a] # NoHead
                /\ ~Live(a)
                /\ state[a] \in DecidableStates

\* acknowledge_submitted_patch_applied; repeating it for the same head is no step.
Acknowledge(a) ==
  /\ Decidable(a)
  /\ acknowledged' = [acknowledged EXCEPT ![a] = submittedHead[a]]
  /\ UNCHANGED <<state, submittedHead, rejected, parent, snapshot, exported,
                 startup, memory, worker>>

\* reject_submitted_patch.
Reject(a) ==
  /\ Decidable(a)
  /\ rejected' = [rejected EXCEPT ![a] = submittedHead[a]]
  /\ UNCHANGED <<state, submittedHead, acknowledged, parent, snapshot, exported,
                 startup, memory, worker>>

\* Mutants: an agent is reaped as soon as a stop is asked for; any earlier decision
\* allows it; no decision is asked for.
Reapable_Stopping(a) == state[a] \in {"stopping", "stopped", "failed"} /\ ~Undecided(a)
Reapable_AnyDecision(a) ==
  /\ state[a] \in {"stopped", "failed"}
  /\ \/ submittedHead[a] = NoHead
     \/ acknowledged[a] # NoHead
     \/ rejected[a] # NoHead
  /\ ~Live(a)
Reapable_Undecided(a) == state[a] \in {"stopped", "failed"} /\ ~Live(a)

\* The checks of reap_agents and of _reap_agent, which follow without an await.
Reapable(a) ==
  /\ state[a] \in {"stopped", "failed"}
  /\ ~Undecided(a)
  /\ ~Live(a)

\* _reap_agent: the snapshot goes, the _AgentRuntime is dropped, the record removed.
Reap(a) ==
  /\ Reapable(a)
  /\ snapshot' = [snapshot EXCEPT ![a] = FALSE]
  /\ runtime' = [runtime EXCEPT ![a] = FALSE]
  /\ commands' = [commands EXCEPT ![a] = 0]
  /\ stopRequested' = [stopRequested EXCEPT ![a] = FALSE]
  /\ state' = [state EXCEPT ![a] = "removed"]
  /\ submittedHead' = [submittedHead EXCEPT ![a] = NoHead]
  /\ acknowledged' = [acknowledged EXCEPT ![a] = NoHead]
  /\ rejected' = [rejected EXCEPT ![a] = NoHead]
  /\ parent' = [parent EXCEPT ![a] = NoAgent]
  /\ UNCHANGED <<exported, startup, timer, monitor, stopper, connected, worker>>
-----------------------------------------------------------------------------
(* Restarts of the controller *)

\* Mutant: __init__ leaves the records alone.
StateAfterRestart_Kept(a) == state[a]

\* The loop in __init__: only "running" is taken for stale.
StateAfterRestart(a) == IF state[a] = "running" THEN "stopped" ELSE state[a]

\* All memory is lost, the workers die with their parent (bwrap --die-with-parent)
\* and __init__ goes through the records.
Reinitialise ==
  /\ state' = [a \in Agents |-> StateAfterRestart(a)]
  /\ starting' = [a \in Agents |-> "no"]
  /\ source' = [a \in Agents |-> NoAgent]
  /\ restarting' = {}
  /\ runtime' = [a \in Agents |-> FALSE]
  /\ stopRequested' = [a \in Agents |-> FALSE]
  /\ timer' = [a \in Agents |-> FALSE]
  /\ monitor' = [a \in Agents |-> "none"]
  /\ stopper' = [a \in Agents |-> "idle"]
  /\ commands' = [a \in Agents |-> 0]
  /\ connected' = [a \in Agents |-> FALSE]
  /\ process' = [a \in Agents |-> "none"]
  /\ pc' = [a \in Agents |-> "none"]
  /\ rpc' = [a \in Agents |-> "none"]
  /\ rpcHead' = [a \in Agents |-> NoHead]
  /\ UNCHANGED <<submittedHead, acknowledged, rejected, parent, exported>>

\* A crash, or the exit after shutdown, and the next construction.
ControllerRestart ==
  /\ Reinitialise
  /\ UNCHANGED snapshot

\* A crash between remove_project_snapshot and store.remove: the record survives.
CrashInReap(a) ==
  /\ Reapable(a)
  /\ snapshot' = [snapshot EXCEPT ![a] = FALSE]
  /\ Reinitialise
-----------------------------------------------------------------------------
WorkerStep(a) ==
  \/ ReportState(a) \/ SubmitPatch(a) \/ AwaitCommand(a) \/ WorkerExit(a)

ControllerStep(a) ==
  \/ SpawnWorker(a) \/ RegisterRuntime(a) \/ FailStart(a)
  \/ HandleUpdateState(a) \/ LoseRequest(a)
  \/ ExportPatch(a) \/ RecordSubmission(a) \/ FailSubmission(a)
  \/ KillWorker(a) \/ MonitorProcess(a) \/ RuntimeLimit(a)
  \/ TerminateWorker(a) \/ StopReturns(a)

OperatorStep(a) ==
  \/ StartAgent(a) \/ StopAgent(a) \/ StopInactive(a) \/ BulkStop(a)
  \/ ContinueLive(a) \/ Acknowledge(a) \/ Reject(a) \/ Reap(a)

Next ==
  \/ \E a \in Agents : WorkerStep(a) \/ ControllerStep(a) \/ OperatorStep(a)
  \/ \E a, c \in Agents : Recover(a, c) \/ BulkRestart(a, c)
  \/ Shutdown
  \/ ControllerRestart
  \/ \E a \in Agents : CrashInReap(a)

Spec == Init /\ [][Next]_vars
-----------------------------------------------------------------------------
(* Fairness: the loop runs every ready callback, the kernel delivers SIGKILL and   *)
(* every await of these steps has a timeout. The model-call budget bounds the      *)
(* turns, and MAX_TOOL_CALLS_PER_TURN the submissions of a turn, so a live worker  *)
(* reports in the end although submissions keep interrupting it (SF).              *)
Fairness == \A a \in Agents :
  /\ WF_vars(SpawnWorker(a) \/ RegisterRuntime(a) \/ FailStart(a))
  /\ WF_vars(HandleUpdateState(a))
  /\ WF_vars(RecordSubmission(a) \/ FailSubmission(a))
  /\ WF_vars(KillWorker(a))
  /\ WF_vars(MonitorProcess(a))
  /\ WF_vars(TerminateWorker(a))
  /\ WF_vars(StopReturns(a))
  /\ WF_vars(AwaitCommand(a))
  /\ SF_vars(ReportState(a))

FairSpec == Spec /\ Fairness
-----------------------------------------------------------------------------
(* Safety *)

\* No worker runs on a deleted copy of the project: reaping, the clean-up of a
\* failed start and a crash in a reap never remove the snapshot of a live worker.
LiveWorkerHasSnapshot ==
  \A a \in Agents : process[a] = "live" => snapshot[a]

\* Every live worker can be found and stopped: it is registered in _runtimes, or
\* the start_agent call that spawned it has not returned yet.
LiveWorkerIsManaged ==
  \A a \in Agents : process[a] = "live" => runtime[a] \/ starting[a] = "spawned"

\* "stopped" and "failed" tell the truth: no worker of the agent runs, so it may be
\* reaped or recovered, whatever reports and submissions were still under way.
TerminalMeansDead ==
  \A a \in Agents : state[a] \in TerminalStates => process[a] # "live"

\* An agent whose worker ended by itself is settled once the monitor has run: it can
\* be recovered, reaped or decided about, and no late report makes it look active.
\* (Not so after a stop_agent call that came too late: see StoppedIsDecidable.)
ExitedAgentSettled ==
  \A a \in Agents : runtime[a] /\ monitor[a] = "done" /\ ~stopRequested[a]
                     => state[a] \in {"failed", "halted", "awaiting_review"}

\* After a restart, and once a start is over, only a registered agent is "running".
RunningIsManaged ==
  \A a \in Agents : state[a] = "running" => runtime[a] \/ starting[a] = "spawned"

\* Feedback the operator was told is delivered reaches the worker: while the record
\* says "review_received", a command waits in the queue or the worker has taken it.
FeedbackNotLost ==
  \A a \in Agents : Live(a) /\ state[a] = "review_received" =>
                     commands[a] > 0 \/ pc[a] = "resuming"

\* A worker that waits for a command while none is queued is shown as waiting, in
\* a state from which continue_agent accepts the next command.
IdleWorkerContinuable ==
  \A a \in Agents :
    Live(a) /\ pc[a] = "waiting" /\ commands[a] = 0 /\ ~stopRequested[a]
      => state[a] \in {"halted", "awaiting_review"}

\* The record names only heads that the callback has exported: what the operator is
\* asked to review was there before he is asked, also when the worker has died since.
SubmissionIsExported ==
  \A a \in Agents : submittedHead[a] # NoHead => submittedHead[a] \in exported[a]

\* An agent is recovered by one start_agent call at a time (_restarting_agents).
OneRecoveryAtATime ==
  \A c, d \in Agents : source[c] = source[d] /\ source[c] # NoAgent => c = d

\* What a step has to leave of an agent whose submission awaits a decision.
UndecidedKept(a) ==
  Undecided(a) => state'[a] \in RecordStates /\ submittedHead'[a] # NoHead /\ snapshot'[a]

\* While the operator has not decided about the submitted head, no step removes the
\* record, forgets the head or deletes the snapshot.
UndecidedWorkPreserved == [][\A a \in Agents : UndecidedKept(a)]_vars

\* A stopped or failed agent leaves its state only by another stop_agent call, by a
\* submission that was under way, or by being reaped: no report revives it.
TerminalStaysTerminal ==
  [][\A a \in Agents : state[a] \in TerminalStates =>
       state'[a] \in TerminalStates \cup {"stopping", "awaiting_review", "removed"}]_vars
-----------------------------------------------------------------------------
(* The inductive invariant: what one agent's variables have to do with each other *)

\* Nothing of an agent exists before its record.
UnusedIsIdle(a) ==
  state[a] = "unused" =>
    /\ starting[a] = "no" /\ ~runtime[a] /\ monitor[a] = "none"
    /\ process[a] = "none" /\ pc[a] = "none" /\ rpc[a] = "none"
    /\ submittedHead[a] = NoHead

\* While start_agent is under way its agent has a snapshot, is not registered, and
\* the worker can have done no more than report that it runs.
StartIsFresh(a) ==
  starting[a] # "no" =>
    /\ state[a] \in {"starting", "running"}
    /\ snapshot[a]
    /\ ~runtime[a] /\ monitor[a] = "none"
    /\ submittedHead[a] = NoHead
    /\ pc[a] \in {"none", "connecting", "working"}
    /\ rpc[a] \in {"none", "running"}
    /\ rpc[a] = "running" => pc[a] # "working"

\* A live worker, an unanswered request and a record that says "running" belong to
\* a registered agent or to a start_agent call.
WorkIsManaged(a) ==
  \/ process[a] = "live"
  \/ Exists(a) /\ rpc[a] # "none"
  \/ state[a] = "running"
  => runtime[a] \/ starting[a] = "spawned"

\* A registered agent has its record, and is not shown as stopped or failed before
\* its monitor has seen the process end: _reap_agent drops no monitored agent.
RuntimeHasRecord(a) ==
  /\ runtime[a] => Exists(a)
  /\ monitor[a] = "waiting" => runtime[a] /\ state[a] \notin TerminalStates

\* What is submitted, or is about to be recorded, is exported and has its record;
\* the snapshot stays until the operator has decided.
SubmissionIsKept(a) ==
  /\ rpc[a] \in {"submit", "record"} => rpcHead[a] \in Heads
  /\ rpc[a] = "record" => rpcHead[a] \in exported[a]
  /\ rpc[a] = "record" /\ Exists(a) => snapshot[a]
  /\ submittedHead[a] # NoHead => Exists(a) /\ submittedHead[a] \in exported[a]
  /\ Undecided(a) => snapshot[a]

\* A worker has its snapshot; the states that allow reaping mean that it is dead.
WorkerIsSafe(a) ==
  process[a] = "live" => snapshot[a] /\ state[a] \notin TerminalStates

\* The recovering start of an agent holds the guard of the agent it recovers.
RecoveryIsGuarded ==
  /\ \A c \in Agents : source[c] # NoAgent => source[c] \in restarting
  /\ OneRecoveryAtATime

AgentInv(a) ==
  /\ UnusedIsIdle(a)
  /\ StartIsFresh(a)
  /\ WorkIsManaged(a)
  /\ RuntimeHasRecord(a)
  /\ SubmissionIsKept(a)
  /\ WorkerIsSafe(a)

\* The inductive invariant of Spec: what ties the record, the snapshot, the runtime,
\* the worker, its request and the recovery guard of an agent together.
IndInv ==
  /\ TypeOK
  /\ \A a \in Agents : AgentInv(a)
  /\ RecoveryIsGuarded

\* A report that is under way fits the place in the worker's loop that sent it.
ReportFits(a) ==
  /\ rpc[a] = "running" => pc[a] \in {"connecting", "resuming", "none"}
  /\ rpc[a] = "halted" => pc[a] \in {"working", "halting", "none"}
  /\ rpc[a] = "awaiting_review" => pc[a] \in {"submitted", "none"}

\* What an ended worker leaves: code 0 comes without an unanswered request, and the
\* monitor of a worker nobody stopped has settled the agent.
EndIsSettled(a) ==
  /\ process[a] = "ok" => rpc[a] = "none"
  /\ monitor[a] = "done" => process[a] # "live"
  /\ runtime[a] /\ ~stopRequested[a] => state[a] # "stopped"
  /\ runtime[a] /\ monitor[a] = "done" /\ ~stopRequested[a] =>
       \/ state[a] = "failed"
       \/ state[a] \in {"halted", "awaiting_review"} /\ rpc[a] = "none"

\* The inductive invariant of the worker's dialogue with the controller.
DialogueInv ==
  /\ \A a \in Agents : ReportFits(a) /\ EndIsSettled(a)
  /\ FeedbackNotLost
  /\ IdleWorkerContinuable
-----------------------------------------------------------------------------
(* Liveness, under FairSpec *)

\* stop_agent returns, whatever the worker does meanwhile.
StopCompletes == \A a \in Agents : stopper[a] # "idle" ~> stopper[a] = "idle"

\* The worker of a stop_agent call or past its runtime limit does not survive it.
StopRequestKills ==
  \A a \in Agents : stopRequested[a] /\ process[a] = "live" ~> process[a] # "live"

\* The restart guard is released, so that a failed recovery can be tried again.
RestartGuardReleased ==
  \A a \in Agents : a \in restarting ~> a \notin restarting

\* A live worker takes up feedback: the agent does not stay in "review_received".
FeedbackAnswered ==
  \A a \in Agents : process[a] = "live" /\ state[a] = "review_received"
                     ~> process[a] # "live" \/ state[a] # "review_received"
-----------------------------------------------------------------------------
(* What the documents say and the code does not do *)

\* When stop_agent has returned, a submitted patch can be acknowledged or rejected
\* (docs/remote-agent-review.md:25, apply_agent_patch).
StoppedIsDecidable ==
  \A a \in Agents : /\ runtime[a] /\ monitor[a] = "done"
                     /\ stopRequested[a] /\ stopper[a] = "idle"
                     /\ submittedHead[a] # NoHead
                     => Decidable(a)

\* An agent that has submitted a patch has no child recovered from it
\* (README.md:72).
NoRecoveredSubmission ==
  \A a, c \in Agents : parent[c] = a => submittedHead[a] = NoHead
=============================================================================
