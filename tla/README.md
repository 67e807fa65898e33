# Verification of the agent system

This directory holds a TLA+ development about the agent system of this repository: a
controller that runs coding agents in sandboxes, each on a private snapshot of a Git project,
collects the patches they submit, and lets an operator review, continue, recover and reap them.
It says what is modelled, what TLC checks, what TLAPS proves, and what is left.

## 1. Inventory

| Component | Source | State it keeps | Operations | How it interacts |
|---|---|---|---|---|
| Controller | `agent_controller.py` | `_runtimes`, `_restarting_agents`, allowlists; per agent a process, an IPC server, a queue of commands, a monitor task, a timer | start, stop (single, bulk, shutdown), continue, recover, restart in bulk, acknowledge, reject, reap, handlers for worker requests | writes the store; spawns workers; calls the submit callback; called by `mcp_agent.py` and the remote service |
| Worker | `agent_worker.py` | place in its loop, transcript, tools | initialize, model turn, tool calls, submit, wait for a command, resume | one sequential JSON-RPC connection to the controller |
| IPC | `agent_ipc.py` | the one connection, whether it is closing | serve, close worker, stop, request | between the two |
| Store | `agent_store.py` | `metadata.json`, `history.json`, `history_summary.json` per agent | create, update metadata, append history, cache summary, remove | only through the controller |
| Snapshots | `agent_snapshot.py` | a directory per agent | create, remove | used by controller and sandbox |
| Local MCP server | `mcp_agent.py` | the controller and the model client of the process | tool wrappers, import of pending patches, summaries | controller, remote adapter, review store |
| Remote service | `remote_agent_service.py`, `remote_agent_protocol.py`, `remote_agent_daemon.py` | socket, lock, patch artifacts, pending sync in the metadata | start, continue, sync, stop, reap, patches | wraps a controller for SSH clients |
| Uploads | `remote_agent_upload.py` | incoming, staged and published checkouts | prepare, publish, finalize, start, clean up | feeds `start_agent` of the remote service |
| Remote adapter | `remote_agent_adapter.py` | none (client) | start, continue with sync, retrieve patches | SSH and rsync to the remote service |
| Review store | `mcp_tgit_review.py` | manifests of series, Maildir | export, import, list, acknowledge, wait for mail | written by export (controller) and import (MCP server) |
| Interactive workflows | `interactive_workflow.py`, `mcp_trebasei.py`, `mcp_tmergetool.py` | a session per repository: process, pending edit, state | start, edit request, resolve, abort, step, wait | a Git process calls back over a socket |
| Deployment | `deploy_remote_agent.py` | application, staging and backup directory, unit and service on the host | deploy | SSH; calls the runtime preparation |
| Remote runtime | `prepare_remote_runtime.py` | staging and published versions on the host | prepare | rsync and SSH; read by the remote service |
| Patch selection | `git_patch_selection.py`, `mcp_tgit.py` | none; the index | choose lines of a diff, stage, unstage | pure algorithm and `git apply` |
| Applying patches | `mcp_tgit.py` `apply_agent_patch` | the operator's repository, its `git am` session | apply, stop the agent, acknowledge | controller, local or through the remote adapter |

What is hard here, and what makes each component correct:

* **Controller and worker.** Two processes and many coroutines change one record: the worker's
  reports, the monitor of its process, the runtime limit, stop calls, continuations, and a
  submission that awaits Git and an export before it writes. Every one of them reads and writes
  the record without a lock; only code without an `await` is atomic. It is correct if no live
  worker loses its snapshot or escapes the controller, submitted work is never destroyed before
  the operator has decided about exactly that head, terminal states tell the truth, feedback is
  never dropped, stop calls end, an agent is recovered once at a time, and crashes keep all this.
* **Transcript and connection.** The operator appends to a transcript of which the worker has a
  copy; a request may be given up while its handler runs. Correct if no message is lost or met out
  of order, the model never sees half a tool exchange, and handlers of an agent never overlap.
* **Store and snapshots.** A crash between two files; a summary stamped with the wrong version; a
  source that changes while it is copied. Correct if readers see no partial record, no summary of
  another history and no snapshot without the objects of its commit.
* **Remote service, uploads, adapter.** Requests repeated after time-outs, crashes between the
  start of an agent and the clean-up of its upload, an artifact that is replaced before the head
  is recorded. Correct if one finalized upload starts one agent, and artifact and head agree.
* **Review store.** A manifest and a Maildir written one after the other, by several processes.
  Correct if an import can be repeated after any failure and no acknowledgement is lost.
* **Interactive workflows.** An edit request that times out while it is resolved or aborted.
  Correct if every request is answered once and abort always ends the Git process.
* **Deployment and runtime.** Failure between two remote commands. Correct if one working copy
  survives, and what runs, or is published, is what was validated.
* **Applying patches.** Four steps in two processes, of which the agent knows nothing. Correct if
  what is acknowledged is what was applied.
* **Patch selection.** Line numbers of a part of a diff. Correct if the chosen lines, and only those,
  get to their place.

`PROJECT.json` lists all hazards with their lines and the properties that cover them.

## 2. Plan

The order is by how much depends on the behaviour. All modules of it are written.

1. `AgentController`: lifecycle of agents, workers, submissions, decisions, crashes, with
   `MCAgentController` and `AgentControllerProofs`.
2. `PatchCustody`: the abstract specification of what the controller promises about submitted work;
   `AgentCustody` (the refinement mapping) and `AgentCustodyProofs`.
3. The agent's process: `AgentTranscript`, `AgentIpc`, `SummaryCache`, `ProjectSnapshot`.
4. The remote service: `RemoteUpload`, `RemoteSync`, `RemotePatches`, `RemoteProtocol`,
   `ServiceSocket`.
5. The operator's side: `ReviewStore`, `ReviewMail`, `InteractiveSession`, `PatchSelection`,
   `ApplyPatch`.
6. The installation: `Deploy`, `RemoteRuntime`.
7. `RemoteSystem` and `LocalSystem`: the modules of 3 to 6 side by side, with `MCRemote` and
   `MCLocal`; `MCLive` for what must eventually happen.
8. `RemoteTransferProofs`, `RemoteServiceProofs`, `LocalToolProofs`, `LocalAgentProofs`,
   `LocalSessionProofs`, `LocalSelectionProofs`: the safety properties of these systems for every value
   of the constants.

Left: abstract specifications for uploads and for the custody of applied patches, as `PatchCustody` is
one for the controller.

## 3. The model of the controller

`AgentController.tla` has four groups of variables, named as in the code where possible.

| Group | Variables | Code |
|---|---|---|
| durable | `state`, `submittedHead`, `acknowledged`, `rejected`, `parent` | fields of `metadata.json`; `state` also has "unused" (no record yet) and "removed" |
| | `snapshot`, `exported` | the snapshot directory; the heads the submit callback has exported |
| start-up | `starting`, `source`, `restarting` | a `start_agent` call between its awaits, the agent it recovers, `_restarting_agents` |
| memory | `runtime`, `stopRequested`, `timer`, `monitor`, `stopper`, `commands`, `connected` | `_AgentRuntime`, its tasks and queue, `stop_agent` calls, the IPC connection |
| worker | `process`, `pc`, `rpc`, `rpcHead` | the process, its place in `AgentWorker.run`, its outstanding request |

**Atomicity.** The controller is one asyncio loop. The code between two awaits is one action;
whatever can run during an await is another action. So `start_agent` is `CreateRecord`,
`SpawnWorker`, then `RegisterRuntime` or, at any point, `FailStart`; `_submit_patch` is
`ExportPatch`, then `RecordSubmission` or `FailSubmission`; `stop_agent` is `BeginStop`,
`TerminateWorker`, `KillWorker` and `StopReturns`. The checks and effects of continuing, deciding
and reaping have no await between them and are one action each. `commands.put` on an unbounded
queue does not suspend. In `start_agent` the acquisition of `_lock` does not suspend either: no
other code holds it.

**Failures.** The worker may end with an error at any time. A request of a dead or disconnected
worker may be lost (`LoseRequest`) or still be handled: `_serve_peer` finishes what is in its
buffer, and nothing cancels `_submit_patch` when its worker dies. The controller may crash between
any two steps (`ControllerRestart`) and within `_reap_agent` (`CrashInReap`).

**Abstractions.** Commits are model values; Git checks and the export either succeed or fail.
The transcript, the model and the tools appear only as the worker's choice to submit, go on or
stop. A submission by a delegated child is seen by the controller but not by the turn of its
parent (`_run_child` does not set `submitted_patch`), so after `RecordSubmission` the worker is
either "submitted" or still "working". The clean-up of a failed start is one step although it
awaits the end of the process: the worker is killed first and its record disappears in the end.
Overlapping `stop_agent` calls for one agent do the same steps and are one. Agent ids are never
reused. `stop_reason`, models, names and timestamps are left out.

**What the controller promises.** `PatchCustody.tla` says it without processes, requests, states
and crashes: per agent a head in custody (`held`), whether record and snapshot are there (`kept`)
and the exported heads (`archive`). A head is archived before it is submitted, it stays in
custody until the operator decides or the agent submits another one, and nothing is dropped
while something is held. `AgentCustody.tla` maps the controller to it: `held` is the
submitted head while `patch_decision_matches` is false, what `list_agents_requiring_attention`
shows as `submitted_patch`; `kept` is a record and its snapshot, what `_reap_agent` removes;
`archive` is `exported`. `Archive` is implemented by the first part of `_submit_patch`, `Submit` by
its second part (which is a `Decide` if the head has been decided about before: a head recorded
once more is not shown again), `Create` by `start_agent` also for a recovery, `Drop` by
reaping, a failed start and a crash within a reap, and every other step is a stutter.

**Runs.** All are in `MCAgentController` with a `.cfg` each.

| Run | Instance | Shows |
|---|---|---|
| `controller_one` | 1 agent, 2 commits, 2 queued commands, both exit codes | the invariants about one agent, the two action properties, and `ImplementsCustody`: the controller refines `PatchCustody` |
| `controller_two` | 2 agents, 1 commit | the inductive invariant, of which the type invariant is a part, with recovery of one agent by the other, shutdown and crashes |
| `controller_siblings` | 3 agents, no submissions | one agent is not recovered twice at a time |
| `controller_live` | 1 agent, 1 commit, 2 queued commands, `FairSpec` | stop calls return, workers that have to stop die, feedback is taken up |
| `controller_recover` | 2 agents, no submissions, `FairSpec` | the restart guard is always given back |
| `stop_after_exit`, `late_submission` | 1 and 2 agents | two findings, section 6 |

The bounds: two commits let an agent submit again after a decision, which is what a decision about
a stale head needs; two commands are the least with which one command is queued while another
is being taken up; two agents are a parent and its child, and three a parent with two children:
with two, no second start could collide with the first. The run with three agents is cut down by
the constraint `OneFamily` (one agent is started by the operator, the others are recovered, and a
recovered worker goes no further than its connection), and nothing is submitted in it, since an
agent that has submitted is not recovered. Symmetry over agents and commits is used in the safety runs only. `WorkerExitCodes` has "ok" in the runs with one
agent: the worker of this repository never gets the "shutdown" command and so never ends with
code 0, but `worker_command` is a parameter of the controller. Deadlock is not checked: a system
in which every agent is reaped and no id is left may stop, and a controller without agents waits.

**Fairness** (`FairSpec`, liveness runs only). The loop runs every ready callback and the awaits
of the steps with weak fairness end: the spawn succeeds or fails, a submission ends by itself or
by the request time-out of the IPC server, SIGKILL follows SIGTERM by three seconds, a dead
process is noticed. `ReportState` has strong fairness, because submissions interrupt the worker:
its model-call budget and `MAX_TOOL_CALLS_PER_TURN` bound how often. Nothing is assumed of the
operator, the model, crashes or the runtime limit.

## 4. The other parts

**Composition.** The parts below have files, tables, sockets and processes of their own, and meet
only where one module already has both sides: `RemotePatches` has service, controller and importing
tools, `RemoteUpload` and `RemoteSync` have adapter and service, `AgentTranscript` has controller and
worker, `ApplyPatch` has the operator's repository and the controller. What is left shares no state,
so a behaviour of all of them is an interleaving of a behaviour of each, and an invariant or an action
property of one is violated in the whole only if it is violated in that one. `RemoteSystem` and
`LocalSystem` therefore put the instances side by side with a variable `focus`: the part in focus takes
steps, the others stay in an initial state. Their properties are conjunctions, one per part, of the
invariants and action properties its module states. `MCRemote` and `MCLocal` extend them for TLC. That
a behaviour of the system is one of each part, whatever is in focus, is proved (`TransfersAreParts`,
`ToolsAreParts`). `MCLive` does the same for liveness, with the fairness of the part in focus; the others
are at places where no step of theirs is bound to happen.

What is fixed in the two systems is what the properties need: one process writes the review store, one
submits mail, one client steps the sessions (`Operator`), a merge has no abort, as
`step_git_mergetool` has none, an update is a first deployment and one more. The rest are constants.

| Run | Property | Of | Bounds |
|---|---|---|---|
| `remote` | `UploadSafety` | `RemoteUpload` | 3 start calls, 2 upload ids, 1 crash, removals that fail or are cut |
| | `SyncSafety` | `RemoteSync` | 2 continuations with a bundle and 1 without, to a running and to an ended worker, updates that fail, 1 crash |
| | `PatchSafety` | `RemotePatches` | 3 submissions, two of one size, 2 tool calls whose imports overlap, 1 failed write or crash |
| | `ProtocolSafety` | `RemoteProtocol` | every operation; one field missing, superfluous or out of bounds; sizes at and next to the limit |
| | `DeploySafety` | `Deploy` | 5 deployments that fail anywhere; and 2 with a stop that fails and restarts of the host |
| | `RuntimeSafety` | `RemoteRuntime` | 1 version prepared again and again, 2 mounts, 3 changes of the source |
| | `ServingIsReachable` | `ServiceSocket` | 3 processes |
| `local` | `StoreSafety` | `ReviewStore` | 1 process, 2 artifacts of 2 messages, 2 replies, 1 fault |
| | `MailSafety` | `ReviewMail` | 3 messages, 1 submitter, 1 wait |
| | `SessionSafety` | `InteractiveSession` | rebase: 2 sessions, 2 git processes, 1 edit, aborts; rebase with 3 edits: 1 session, 2 git processes, no abort; mergetool: 2 sessions, 2 git processes |
| | `TranscriptSafety` | `AgentTranscript` | 2 calls per answer, 2 model calls, 2 of a child, 1 feedback, stops; and a window of 4 on 4 answers and 2 feedbacks |
| | `IpcSafety` | `AgentIpc` | 2 connections, 4 requests each |
| | `RecordSafety` | `SummaryCache` | 3 summaries, 4 versions, failures, crashes |
| | `SelectionSafety` | `PatchSelection` | every diff of 6 lines, every selection, both directions |
| | `SnapshotSafety` | `ProjectSnapshot` | 2 snapshots; a linked worktree with 2 commits and cut removals; a clone that is repacked |
| | `ApplySafety` | `ApplyPatch` | 2 calls, 3 submissions, 1 restart |
| `live` | `StartAnswered` | `RemoteUpload` | 2 calls, 1 crash, clean-up |
| | `ProxyAnswers` | `RemoteProtocol` | as above, two operations |
| | `WaitEnds` | `ReviewMail` | 2 messages, 1 wait |
| | `SessionAnswers` | `InteractiveSession` | 1 rebase, 1 edit |
| | `FeedbackIsTakenUp` | `AgentTranscript` | 3 model calls, 2 feedbacks |
| | `IpcEnds` | `AgentIpc` | 2 connections, 2 requests each |
| `apply_unseen` | `AcknowledgedIsApplied` | `ApplyPatch` | a finding, section 6 |
| `stage_partial` | `StagesSelection` | `PatchSelection` | a finding, section 6 |

The bounds are the least with which the cases exist that the code has to tell apart: a start that is
repeated, one that waits for the lock and one that meets the id of another; a bundle prepared while
another is consumed; a submission before, during and after an import, an import during another; a deployment after one that
failed after one that succeeded; a predecessor that ends while two successors start; a hunk before, between and after
others. Symmetry is not used. Nothing is said of deadlock: each part may come to its end.

### The agent's process

* **`AgentTranscript`** (`agent_worker.py`, `agent_controller.py`). `stored` is `history.json`,
  `history` the worker's copy; a message is known by its place in the dialogue. The worker's actions
  are the steps of `run` and `_handle_tool_calls` between two requests: ask the model (`_model_complete`
  checks and counts the budget in one step, also for a delegated child), persist an answer, call a
  tool, submit, persist a result, report, wait, resume with the record. `ContinueLive`, `Stop` and
  `Recover` are the operator's. `View` is `_api_messages`. The contents of messages are left out.
* **`AgentIpc`** (`agent_ipc.py`). Both ends of each connection, the queues between them, the
  request whose handler runs. Handlers return at any time, or `wait_for` ends them; the client's
  time-out closes its end. `TurnAway` is the second connection.
* **`SummaryCache`** (`agent_store.py`, `summarize_agent_history`). The files of a record and the store
  operation under way, one file per step; the clean-up of a failed creation may itself stop half-way; a summary call reads the version, waits, and stamps its
  result with the version of then.
* **`ProjectSnapshot`** (`agent_snapshot.py`). Per tree the work tree, HEAD, objects by kind, and the
  tree `.git` leads to. `Inspect`, `CopyPart` (one part of the Git directory each), `Redirect`, `Verify`,
  `AgentStarts` are `create_project_snapshot`; the operator's Git commits and repacks in two steps each.

### The remote service

* **`RemoteUpload`** (`remote_agent_adapter.py`, `remote_agent_upload.py`). Per id the contents of
  `incoming/` and `completed/`; per call where its client is, what the service has of its request, and
  the answer. A client that gives up leaves its request behind and may begin again. Prepare and finalize do not await
  and are one action each; the start is `StartBegins`, `AgentStarted` or `StartFails`,
  `ConsumeUpload`. Prepare and finalize of other requests run between these. The removal of a consumed
  upload may fail, which answers "error" although the agent exists, or be cut by a crash; either leaves
  any part of the upload (`Remains`). `origin` has the agents made of what is under an id, `retained` those
  of them whose upload was not removed whole.
* **`RemoteSync`**. `pending` is what the metadata names; `found` what `_continue` has read before its
  await. `ContinueLive` is the path of a worker that still runs, which has no await, starts no child and
  consumes the pending sync; the restart of an ended one is `ContinueBegins`, `ChildCreated` or `StartFails`,
  `ContinueReturns`, whose updates of the metadata may fail with the child running (`kept`). What else
  happens to the agent's record is any change (`AgentChanges`); its order is the matter of
  `AgentController`.
* **`RemotePatches`** (`remote_agent_service.py`, `agent_controller.py`, `remote_agent_adapter.py`,
  `mcp_agent.py`). The artifact and the recorded head, written one after the other; three tools with
  different checks (digest, or size alone) that list, copy and import. An import loads the manifest,
  writes the mbox of the next number and writes the manifest, each a step (`LoadManifest`, `WriteMbox`,
  `WriteManifest`), because imports run in threads and take no lock; `overlapped` remembers that two of them
  were between these at the same time.
* **`RemoteProtocol`** (`remote_agent_protocol.py`, `remote_agent_service.py`). One request over three hops. The
  tables of fields are those of `validate_request`, the adapter's methods and the handlers.
* **`ServiceSocket`**. `flock` without waiting, the probe of the socket, bind, the listener closed
  first at the end, the socket removed and then the lock given up.

### The operator's side

* **`ReviewStore`, `ReviewMail`** (`mcp_tgit_review.py`, the notices of `mcp_agent.py`). The manifest
  and the copy each process works on; mbox, manifest and Maildir are written one after the other. A
  scan lists `new/`, then `cur/`, while a mail reader moves messages.
* **`InteractiveSession`** (`interactive_workflow.py`, `mcp_trebasei.py`, `mcp_tmergetool.py`). Session
  objects, the process of each, edit requests on their way over the bridge, tool calls. What holds the
  session's lock without an await is one action; `start()` holds it over the spawn. `Expire` is the
  time-out of an edit, which cancels its future; the handler goes on in a later turn. An abort answers
  the editor whether or not the file could be moved back (`Restored`). `git mergetool` runs the bridge
  without a path (`mcp_tmergetool.py:99, 131`), which ends before it connects (`:239-241`): only a
  rebase has edits.
* **`PatchSelection`** (`git_patch_selection.py`, `stage_lines` and `unstage_lines`). The script of a
  diff, with the lines the caller names and the direction (`reverse`: `unstage_lines` applies the patch
  with `-R`); `ApplyHunk` is what `git apply --unidiff-zero` does with a hunk: find its old lines, where
  the numbers say or elsewhere, and insert what is only added where the numbers say.
* **`ApplyPatch`** (`apply_agent_patch`). One agent that submits, ends, is restarted and reaped, and
  calls that retrieve an artifact, run `git am`, stop and acknowledge. `Remote` says whether the tools
  reach the controller that runs the agent: in local mode the Git server makes a controller in its own
  process, which has no runtime of the agent (`Reached`).

### The installation

* **`Deploy`** (`deploy_remote_agent.py`). Three directories on the host, unit and service; an action per remote
  command, each of which may fail before, within or after its effect.
* **`RemoteRuntime`** (`prepare_remote_runtime.py`). Per version a staging and a published directory,
  described by the editions of the local runtime its files come from.

### Fairness

| Module | Assumed | Why |
|---|---|---|
| `RemoteUpload` | a start that has the lock goes on; `StartBegins` strongly | the loop runs ready callbacks, `start_agent` ends, `asyncio.Lock` is fair to its waiters |
| `RemoteProtocol` | the proxy and the service read and forward, the proxy's and the client's timers fire | both are `wait_for` or `timeout=`; no handler is assumed to return |
| `ReviewMail` | a waiting call goes on scanning | it polls with a deadline |
| `InteractiveSession` | spawn, abort, watcher and bridge go on; what needs the session's lock strongly | the lock is only held over a spawn, git ends when it is killed, edits have a time-out |
| `AgentTranscript` | the worker takes steps | its requests have time-outs |
| `AgentIpc` | both time-outs fire, a served connection that is shut ends | `request_timeout_seconds` on both sides |

Nothing is assumed of the operator, of clients, of git's user-visible progress, of handlers or of
failures.

## 5. Proofs

`AgentControllerProofs.tla` proves, for every set of agents and commits, every bound on the queue
and every subset of exit codes (`ControllerAssumption`), the safety properties of the runs above.

* `IndInv` is the type invariant, `RecoveryIsGuarded` and, for every agent, `AgentInv`:
  `UnusedIsIdle` and `StartIsFresh` say what a `start_agent` call may find and leave, `WorkIsManaged`
  that live workers and open requests belong to somebody, `RuntimeHasRecord` that the monitor comes
  before any terminal state of its agent, `SubmissionIsKept` that what is about to be recorded is
  exported and has its snapshot, `WorkerIsSafe` that a worker has a snapshot and no terminal state.
  None of the properties is inductive alone: that reaping cannot hit a live worker, for instance,
  needs that the terminal states are written only by the monitor (`RuntimeHasRecord`), or for agents
  that no start is under way for (`StartIsFresh`). Even `TypeOK` needs `SubmissionIsKept`, because a
  submission without a head would be recorded as one.
* `TypeStep`, `AgentStep` and `RecoveryStep` show that a step keeps the three parts, one case per
  action; `IndInvCorrect` puts them together. The invariants follow by definition.
* `UndecidedTheorem` and `TerminalStaysTheorem` prove the action properties from `IndInv`, again by
  cases over the actions.
* `DialogueInv` adds what reports fit the worker's place and what an ended worker leaves;
  `DialogueCorrect` proves it relative to `IndInv` and yields `ExitedAgentSettled`,
  `FeedbackNotLost` and `IdleWorkerContinuable`.

`AgentCustodyProofs.tla` proves `Spec => ImplementsCustody` (`RefinementTheorem`).

* `CustodyInv` adds to `IndInv` that there is no snapshot without a record, so that an export
  happens for a kept agent, and that an agent with a decision neither starts nor works, which
  gives `DecisionEndsWork`; it is inductive relative to `IndInv` (`CustodyInvStep`).
* `StutterStep`, `KeepStep`, `DecideStep`, `SubmitStep` and `ArchiveStep` say what a step has to do
  with `HeldHead`, `IsKept` and `exported` to be a stutter or a step of `PatchCustody`;
  `CustodyStep` shows, action by action, that every step of the controller does one of these.

`RemoteServiceProofs.tla` proves of `ServiceSocket`, for every number of processes, that one service
serves at a time (`OneServiceTheorem`) and that its socket is where clients look for it
(`ReachableTheorem`); `SocketIsPart` brings this to the composed service. The inductive `SocketInv` adds
to the latter that every process between `AcquireLock` and `ReleaseLock` holds the lock (`HoldsLock`).
Neither property is inductive alone: that a service which starts, or ends, does not remove the socket of
another one needs that no other can serve while it holds the lock.

The other proofs are about the two systems of section 4, for every value of their constants under
`RemoteAssumption` and `LocalAssumption` (the assumptions each module makes on its own constants: bounds
are naturals, windows hold a message, sets that are counted are finite, "nobody" is nobody). Each theorem named
`...Theorem` states the property of the run. Its inductive invariant contains the property where
that is possible, and adds what the following parts say.

| Property | Invariant | What it adds, and why |
|---|---|---|
| `UploadSafety` | `UploadInv` | a request belongs to a client that waits for it or has given up; (`RequestOfClient`); an upload has one writer, and is not sealed while it is written (`OneWriter`); no agent is made of it while it is written, and while it can be started only those whose removal has left something of it (`MadeOfUpload`); a client has an agent from the end of its start (`MadeByStart`), and what a start copies is there (`StartHasUpload`) |
| `SyncSafety` | `SyncInv` | a staged bundle is final; `_restarting_agents` admits one start, whose bundle stays staged (`OneStart`); a call has at most one child, and is over when its update is lost (`ChildOfCall`); what a child has mounted and its parent has consumed is neither pending nor read by a start again (`MountedOnce`) |
| `PatchSafety` | `PatchInv` | an artifact is that of the recorded head or of the submission under way; what a tool has copied and checked is what it has listed (`CheckedIsListed`) and was submitted (`ArtifactsAreTried`); not only the manifest but every copy an import has loaded is a list of different series (`IsManifest`, `ImportsLoaded`), and lacks the one to be added; without overlap it is the manifest, and the mbox written is still there (`OneImport`) |
| `ProtocolSafety` | `ProtocolInv` | what runs was validated by client and service, and no reply comes before the handler's end (`LastWord`); `ReadsAreChecked` compares the tables of fields operation by operation |
| `DeploySafety` | `DeployInv`, `UpdateInv` | what the steps have reached (`Staged`); the service is off from its stop until it runs the new build (`OffWhileDeployed`); for the update, which copy works at each of its steps (`CopyIsKept`) |
| `RuntimeSafety` | `RuntimeInv` | what an attempt has reached at each step, beside what earlier ones left in staging (`Attempt`) |
| `IpcSafety` | `IpcInv` | the latest request of a client is in exactly one place: in its queue, with its handler, or answered (`OneOutstanding`). `InStep` follows from it, `OneHandler` from `HandlerIsServed` |
| `ApplySafety` | `ApplyInv` | a live worker is one the controller reaches (`LiveIsReached`), and a call that stops or acknowledges has applied (`StoppingHasApplied`) |
| `MailSafety` | `MailInv` | what a scan has not seen is in a directory it still lists, or has arrived since (`ScanIsComplete`), although the reader moves it meanwhile |
| `StoreSafety` | `StoreInv` | the manifest a process works on is the one on disk but for its own change (`CopyIsManifest`), and its job is a revision of it |
| `RecordSafety` | `RecordInv` | which files there are at each step of the operation under way, and that no summary is stamped with a version to come (`StampIsOld`) |
| `SnapshotSafety` | `SnapshotInv` | the operator's commits are an initial segment; the tree of the commit that was read is in the source until it is in the copy (`BaseIsCopied`), also when the source is itself a snapshot |
| `TranscriptSafety` | `TranscriptInv` | see below |
| `SessionSafety` | `SessionInv` | see below |
| `SelectionSafety` | `SelectionInv` | see below |

* **Transcript.** With feedback, `CopyIsOfRecord` is not inductive: that an append to the record puts no
  message there twice needs `RecordIsFresh`, what is still to be persisted is not there yet, and
  that needs `Counted`, recoveries restart the count of calls but come with a message. `FeedbackIsRead` needs
  `CopyIsCurrent`: with nothing queued, the worker has read the whole record. For the window, record and copy are sequences of
  blocks, an answer and its results, of which the last may be incomplete exactly while its calls are
  made (`InBlocks`, `EndsInBlock`). `WindowIsAnEnd` shows that the window is an end of the copy that begins
  with no result, `WindowIsWhole` that such an end cuts no block. Where an induction over the
  transcript would be natural, the least index with a property is taken (lemma `Least`, from the library's
  well-founded orders).
* **Sessions.** Calls, the watcher, the bridge and git run between each other's awaits. `ClientInv` says on
  which session a call works at each of its steps, `SpawnInv` that the lock over an await is
  only the spawn's, `AliveInv` that the git that works is the repository's or the one that is being
  aborted, `FileInv` where the file of an edit is: away while the edit is open or expired, after an
  error, or in an aborted session. With several edits and no abort (`PicksInv`) `EditorInv` ties an edit
  on the bridge to the git of the repository's session, and `ShownInv` says that what a client may acknowledge has been shown
  and is all git asks for: the hypothesis is that a client acknowledges an answer once (`Repeats <- FALSE`);
  section 6 has what happens otherwise. A merge takes the steps of a rebase that asks for no edit, and
  `NothingToMerge` (`MergeStepsAreRebase`), so the invariant of a rebase (`RebaseInv`) is also its own.
* **Selection.** For diffs of any length. `SelectionInv` says that between two hunks the index has
  the lines `Standing` once each: those of both versions, those a selected change takes away and has not
  yet, those a change that is made has brought. That git finds a hunk's old lines somewhere keeps this,
  wherever that is (`Replaced`); with it the index has the right lines in the end. That whole
  hunks from the top get to their place needs the numbers: `CurrentIs` and `StartsAre` show, from the way
  the parser counts and git numbers the headers, that a hunk starts after as many lines as the diff has
  before it; `PrefixHunkIs` that these are the lines of the index above it, because all changes above
  it are made, and that its old lines come next; `PrefixPlaceIs` that git then chooses this place:
  a hunk with old lines has no other, one without is put where the numbers say (at the top, if
  they say 0). So no such hunk is refused and the index stays in the order of the diff. Numbers
  are sizes of sets of entries, and a list in order is given by ranks (`Listed`), so that facts about
  cardinalities take the place of an induction over the diff.

`LocalAgentProofs` and `LocalSessionProofs` also prove the action properties (`StartHasItsCommit`,
`StartHasItsFiles`, `CheckoutIsTheOperators`, `AbortStopsGit`), `LocalToolProofs` those of the store and the
record (`ManifestOnlyGrows`, `RemovedStaysRemoved`, `AppendInvalidates`), `RemoteServiceProofs`
`PublishedStays`: one case per action, from the invariant of the table.

Proving changed the models where TLC could not tell: `AfterResult` was a `CASE` whose guards overlap, of
which TLC takes the first and TLA+ any (it is an `IF` now, as in the code); `CopyIsOfRecord` compared filtered
sequences and now says order and presence message by message, which is stronger; `SessionAssumption`
asks for finitely many edits. `PatchSelection` lists lines in order by their rank, where it filtered a
sequence, and both directions are one specification with the variable `reverse`.

**Only model-checked:**

* Liveness: `StopCompletes`, `StopRequestKills`, `FeedbackAnswered`, `RestartGuardReleased`, and `StartAnswered`,
  `ProxyAnswers`, `WaitEnds`, `SessionAnswers`, `FeedbackIsTakenUp`, `IpcEnds` of the run `live`. The prover
  handles neither fairness nor ENABLED.

Every safety property of the passing runs has a theorem.

## 6. Findings

* **A stop that comes too late** (`stop_after_exit`, `agent_controller.py:914`). `stop_agent` writes
  "stopping" before it looks at the process. When the worker has ended and its monitor has run, that
  state stays: the agent cannot be continued, decided about or reaped. `apply_agent_patch` stops the
  agent and then acknowledges its patch (`docs/remote-agent-review.md:25`), and is refused. A late
  report in the buffer can even turn "stopping" into "running"; `ExitedAgentSettled` holds only for
  agents nobody has stopped.
* **A late submission** (`late_submission`, `agent_controller.py:580`). A submission that was being
  exported when its agent was stopped is recorded after the agent has been recovered, although
  recovery is to be "refused if a patch was submitted, to prevent duplicate submissions"
  (`README.md:72`).
* **An unseen submission is acknowledged** (`apply_unseen`, `agent_controller.py:708`).
  `apply_agent_patch` retrieves nothing and names no head: it applies a file, stops the agent and
  acknowledges whatever is submitted then. An agent that submits again in between has the newer
  submission acknowledged, although nobody has applied it ("Pass agent_id to acknowledge the submitted
  patch after application succeeds", `mcp_tgit.py:338`), and it may be reaped. `ApplySafety` says what
  does hold.
* **Lines are staged at another place** (`stage_partial`, `git_patch_selection.py:148`). The header
  of a selected hunk has the numbers of the full diff. When an earlier change is left out, an added
  line goes where these numbers say, which is off by the size of that change. `SelectionSafety` shows
  that no other lines are staged, and that whole hunks from the top get to their place.

### Statements that do not hold

The modules state more than is true of the code. The following statements are violated by an instance
with the constants given (others: none, or the least); they have no run of their own. Where a statement is part of a
property of section 4, that property is checked without these constants.

| Statement | Constants | What happens | Against |
|---|---|---|---|
| `RemoteUpload!RetainedThroughStartup` | `Cleanup = TRUE` | `cleanup_abandoned` does not take the lock of the start and removes the upload it copies (`remote_agent_upload.py:249`). Nothing but tests calls it | "Async start handler that retains uploads through awaited startup", `remote_agent_upload.py:211` |
| `RemoteUpload!OneAgentPerUpload` with all of `origin[u]` | 2 calls | a removal that fails answers "error" beside the agent, and what it leaves is started again (`remote_agent_upload.py:234`) | "so the upload is retained if controller startup fails", `:193` |
| `RemoteUpload!SealedIsComplete` without `retained` | 1 call | a removal that fails, or is cut by a crash, leaves part of an upload in `completed/`, which a start accepts unless it is empty (`:229`) | "Mark an upload complete after its rsync transfer succeeds", `:163` |
| `RemoteSync!SyncNotDropped` | 1 call | a running worker gets the messages, nobody mounts the bundle, and `_continue` clears it (`remote_agent_service.py:305`); or it clears, after its await, another bundle than it has read | "consume the parent's pending state", `:303` |
| `RemoteSync!OneChildPerBundle` without `kept` | 2 calls | the update of the metadata fails after the child has started (`agent_controller.py:889`, `remote_agent_service.py:305`): an error is answered, the sync stays pending and the next continuation mounts it in another child | "consume the parent's pending state", `:303` |
| `RemotePatches!MboxIsRevision` | 2 calls | two overlapping imports take one number: the manifest is that of one, the mbox that of the other (`mcp_tgit_review.py:474-481`) | "import a complete remote mbox into the normal review store", `:417` |
| `RemotePatches!RevisionsStay` | 2 calls | the later of them writes the manifest without the revision of the other (`mcp_tgit_review.py:481`) | "imported as another revision", `docs/remote-agent-review.md:58` |
| `RemotePatches!RevisionMatchesHead` | `MaxFailures = 1` | the artifact is replaced, the record of the head fails: the new artifact is listed and imported as the old head (`:247`) | `docs/remote-agent-review.md:69` |
| `RemotePatches!RevisionsInOrder` | 2 calls | two overlapping imports finish in the other order (`mcp_agent.py:319`) | "imported as another revision", `docs/remote-agent-review.md:58` |
| `ReviewStore!ManifestOnlyGrows` | 2 `Procs` | two read-change-write of one manifest (`mcp_tgit_review.py:733`) | "Mark review messages as seen by the agent", `:716` |
| `ReviewStore!ReportedIsNoticed` | `MaxFaults = 1` | an import repeated after a failed delivery is "idempotent": no messages, no notice (`:473`) | `README.md:74` |
| `ReviewMail!CapturedOnce` | 2 `Submitters` | check and write of a message are two steps (`:749`) | "makes repeated Mutt submissions idempotent", `:746` |
| `InteractiveSession!OneGit` | 2 calls, 3 sessions and runs, rebase | two first calls both start git (`interactive_workflow.py:407`) | "The first call starts the rebase session", `mcp_trebasei.py:131` |
| `InteractiveSession!AcknowledgedIsShown` | `Repeats = TRUE`, 2 edits | a repeated `has_edit` acknowledges the next edit (`:419`) | "one idempotent step call", `mcp_trebasei.py:129` |
| `InteractiveSession!NeedsEditIsLive` | 2 edits, `MayAbort` | a bridge request after the abort makes a session whose git is gone (`:547`) | "returns `needs_edit` when Git requests editor input", `mcp_trebasei.py:132` |
| `InteractiveSession!NoForeignAbort` | 2 edits, `MayAbort` | the task that aborts after a failed edit meets the next operation (`:551`) | "Set `abort=true` to cancel", `mcp_trebasei.py:134` |
| `InteractiveSession!AbortedFileIsBack` | 1 edit, `MayAbort` | `abort` ignores a move that fails and answers the editor; the file stays under the client's name (`interactive_workflow.py:347`) | "Set `abort=true` to cancel", `mcp_trebasei.py:134` |
| `InteractiveSession!MergeAsks` | mergetool | the command has no `$MERGED`, so the bridge gets no path and ends (`mcp_tmergetool.py:131`, `:239`): no merge asks for an edit | "returns `needs_edit` when an editor bridge request is active", `:161` |
| `InteractiveSession!NothingIsCompleted` | mergetool, 1 edit | nothing to merge: the call ends without a terminal state (`mcp_tmergetool.py:112`) | "Terminal states are `completed` and `error`", `:164` |
| `RemoteProtocol!AdapterIsUnderstood` | | `reap_agents` and `restart_agents` need a field the adapter does not send (`remote_agent_protocol.py:102`) | "Bulk reap through one remote protocol request", `remote_agent_adapter.py:205` |
| `RemoteProtocol!AcceptedAtEveryHop` | | only the service counts the newline into the limit (`remote_agent_service.py:443`) | "Forward exactly one bounded SSH request", `:488` |
| `AgentTranscript!NoOrphanResult` | a submission, 1 call per answer, budget 4, window 2 | feedback gets between a submission and its result, and the window cuts there (`agent_controller.py:580`) | "Never start a request with orphaned tool results", `agent_worker.py:533` |
| `SummaryCache!CachedIsCurrent` | 2 versions | a summary of the history before an append gets the version after it (`agent_store.py:98`) | "only if it matches the current transcript version", `:82` |
| `ProjectSnapshot!HeadIsWhole` | linked, 2 commits, `MayRepack` | pack and loose objects are copied around a repack, only the commit is verified (`agent_snapshot.py:195`) | "the complete common Git directory is copied", `:6` |
| `ProjectSnapshot!StartedIsWhole` | 2 snapshots, `MayBeCut` | an agent is recovered from a snapshot removed half-way (`agent_controller.py:849`) | "Recovery requires a valid managed snapshot", `README.md:72` |
| `Deploy!KeepsWorkingCopy` | 3 deployments | a repeated deployment removes the only validated copy (`deploy_remote_agent.py:118`) | "Keep the old complete app available", `:114` |
| `Deploy!RunningIsValidated` | `HostMayRestart` | the host starts what has failed its validation (`:142`) | `docs/agent-runtime.md:70` |
| `Deploy!ServedIsDeployed` | `StopMayFail` | a service that could not be stopped is not restarted (`:116`) | "The persistent service starts using that environment", `docs/agent-runtime.md:65` |
| `RemoteRuntime!PublishedIsMirror` | 1 change | files of a failed attempt stay in the staging directory (`prepare_remote_runtime.py:133`) | "Mirror this Python runtime", `:74` |
| `ApplyPatch!StoppedIsAcknowledged` | 1 call | the stop of a worker that has ended leaves "stopping", as in the first finding | `docs/remote-agent-review.md:25` |
| `ApplyPatch!AcknowledgedIsOver` | `Remote = FALSE` | in local mode the tool's own controller has no runtime to stop, and acknowledges beside a live worker (`mcp_tgit.py:379`) | `docs/remote-agent-review.md:25` |


## 7. Not modelled

* The language model client (`llm.py`), the tools of a worker, MCP discovery and tool allowlists: no
  state that several actors share.
* The wrappers around Git, StGit, apt and test runners but for `stage_lines`, `unstage_lines` and
  `apply_agent_patch`: one command each, on state that belongs to the command.
* The arguments of the sandbox and the root file system (`agent_sandbox.py`,
  `create_sandbox_rootfs.py`, `agent_project.py`), the scripts around Git notes and summaries.
* Parsing: of mail, diffs, mboxes, JSON lines and configuration. The modules take what is parsed.
* Cancellation of `start_agent` by the MCP host, which is outside this code.
* Records that say "starting", "stopping" or "review_received" after a crash are in the model of the
  controller, but no document promises that they are repaired, so no property is stated about them.
