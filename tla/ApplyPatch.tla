----------------------------- MODULE ApplyPatch -----------------------------
(***************************************************************************)
(* apply_agent_patch (mcp_tgit.py) for the submission of one agent: git am *)
(* in the operator's repository, then stop_agent, then the acknowledgement *)
(* of the submission, which unlocks reaping.  The agent works on until it  *)
(* is stopped, and may submit again; what AgentController models in full   *)
(* is here as far as these calls meet it.  Submissions are numbered in     *)
(* their order; an artifact is the submission it was exported from.        *)
(***************************************************************************)
EXTENDS Naturals, FiniteSets

CONSTANTS
  Calls,          \* calls of apply_agent_patch with the agent's id
  Remote,         \* remote mode: the calls reach the controller that runs the agent
  MaxSubmissions, \* bound
  MaxRestarts     \* bound: restarts of the controller

ApplyAssumption ==
  Remote \in BOOLEAN /\ MaxSubmissions \in Nat \ {0} /\ MaxRestarts \in Nat

VARIABLES
  state,         \* metadata "state"
  live,          \* the worker's process runs
  runtime,       \* the agent is in _runtimes of the controller that has started it
  submitted,     \* metadata "submitted_head", 0 for none
  acknowledged,  \* "submitted_head" of metadata "patch_applied_acknowledgement"
  restarts,
  artifact,      \* the submission whose artifact a call is given
  pc,            \* where a call is
  applied,       \* the submissions that are commits of the operator's repository
  inSession      \* git am has left a session in the repository

agent == <<state, live, runtime, submitted, acknowledged, restarts>>
call  == <<artifact, pc>>
tree  == <<applied, inSession>>
vars  == <<agent, call, tree>>

Submissions == 1 .. MaxSubmissions
Inactive == {"awaiting_review", "stopped", "halted", "failed"}

TypeOK ==
  /\ state \in Inactive \cup {"running", "stopping", "reaped"}
  /\ live \in BOOLEAN /\ runtime \in BOOLEAN /\ inSession \in BOOLEAN
  /\ submitted \in 0 .. MaxSubmissions /\ acknowledged \in 0 .. submitted
  /\ restarts \in 0 .. MaxRestarts
  /\ artifact \in [Calls -> 0 .. submitted] /\ applied \subseteq 1 .. submitted
  /\ pc \in [Calls -> {"new", "given", "applied", "stopping", "stopped", "done", "failed",
                       "notAcknowledged"}]

Init ==
  /\ state = "running" /\ live = TRUE /\ runtime = TRUE
  /\ submitted = 0 /\ acknowledged = 0 /\ restarts = 0
  /\ artifact = [c \in Calls |-> 0] /\ pc = [c \in Calls |-> "new"]
  /\ applied = {} /\ inSession = FALSE
-----------------------------------------------------------------------------
(* The agent and its controller *)

\* (A submission that is exported while the agent is stopped is modelled there.)
Submit ==
  /\ live /\ state \notin {"stopping", "reaped"} /\ submitted < MaxSubmissions
  /\ submitted' = submitted + 1 /\ state' = "awaiting_review"
  /\ UNCHANGED <<live, runtime, acknowledged, restarts, call, tree>>

\* _monitor_process: by itself, or because stop_agent has ended it.
WorkerEnds ==
  /\ live /\ live' = FALSE
  /\ IF state \in {"stopped", "failed", "reaped"} THEN UNCHANGED state
     ELSE state' \in IF state = "stopping" THEN {"stopped"} ELSE {"halted", "failed"}
  /\ UNCHANGED <<runtime, submitted, acknowledged, restarts, call, tree>>

\* The controller's process and its workers end; the next one repairs its records.
\* Requests to it fail.
Repaired == IF state = "running" THEN "stopped" ELSE state

Restart ==
  /\ restarts < MaxRestarts /\ restarts' = restarts + 1
  /\ live' = FALSE /\ runtime' = FALSE /\ state' = Repaired
  /\ pc' = [c \in Calls |-> IF pc[c] = "stopping" THEN "notAcknowledged" ELSE pc[c]]
  /\ UNCHANGED <<submitted, acknowledged, artifact, tree>>

\* _reap_agent, which the operator calls when it likes.
Reap ==
  /\ ~live /\ state \in {"stopped", "failed", "halted"}
  /\ submitted = acknowledged
  /\ state' = "reaped" /\ runtime' = FALSE
  /\ UNCHANGED <<live, submitted, acknowledged, restarts, call, tree>>
-----------------------------------------------------------------------------
(* The tool *)

\* A call is given the artifact of the submission there is, and may come much later.
Retrieve(c) ==
  /\ pc[c] = "new" /\ submitted # 0 /\ state # "reaped"
  /\ artifact' = [artifact EXCEPT ![c] = submitted]
  /\ pc' = [pc EXCEPT ![c] = "given"]
  /\ UNCHANGED <<agent, tree>>

\* "If applying fails, no stop or acknowledgement is attempted."
AfterFailure == "failed"

GitAm(c) ==
  /\ pc[c] = "given"
  /\ \/ \* the repository must be clean
        inSession /\ pc' = [pc EXCEPT ![c] = "failed"] /\ UNCHANGED tree
     \/ /\ ~inSession
        /\ pc' = [pc EXCEPT ![c] = "applied"]
        /\ applied' = applied \cup {artifact[c]} /\ UNCHANGED inSession
     \/ /\ ~inSession /\ inSession' = TRUE
        /\ pc' = [pc EXCEPT ![c] = AfterFailure] /\ UNCHANGED applied
  /\ UNCHANGED <<agent, artifact>>

\* The operator's git am --abort.
AbortAm == inSession /\ inSession' = FALSE /\ UNCHANGED <<agent, call, applied>>

\* The runtime that a call can reach: in local mode the tool makes a controller in its
\* own process, which repairs the records like a restarted one.
Reached_Own == FALSE
Reached == runtime /\ Remote
Found == IF Remote THEN state ELSE Repaired

\* stop_agent up to the end of the worker; nothing is stopped without a runtime.
StopBegins(c) ==
  /\ pc[c] = "applied"
  /\ IF state = "reaped"
     THEN pc' = [pc EXCEPT ![c] = "notAcknowledged"] /\ UNCHANGED state
     ELSE IF Reached
     THEN state' = "stopping" /\ pc' = [pc EXCEPT ![c] = "stopping"]
     ELSE /\ state' = IF Found = "awaiting_review" THEN "stopped" ELSE Found
          /\ pc' = [pc EXCEPT ![c] = "stopped"]
  /\ UNCHANGED <<live, runtime, submitted, acknowledged, restarts, artifact, tree>>

StopReturns(c) ==
  /\ pc[c] = "stopping" /\ ~live
  /\ pc' = [pc EXCEPT ![c] = "stopped"]
  /\ UNCHANGED <<agent, artifact, tree>>

\* RemoteAgentClient.request gives up after 30 s; the stop goes on.
StopTimesOut(c) ==
  /\ pc[c] = "stopping"
  /\ pc' = [pc EXCEPT ![c] = "notAcknowledged"]
  /\ UNCHANGED <<agent, artifact, tree>>

\* acknowledge_submitted_patch_applied: what is submitted now is acknowledged.
IsInactive == ~(Reached /\ live) /\ state \in Inactive

Acknowledge(c) ==
  /\ pc[c] = "stopped"
  /\ IF IsInactive
     THEN acknowledged' = submitted /\ pc' = [pc EXCEPT ![c] = "done"]
     ELSE pc' = [pc EXCEPT ![c] = "notAcknowledged"] /\ UNCHANGED acknowledged
  /\ UNCHANGED <<state, live, runtime, submitted, restarts, artifact, tree>>

Next ==
  \/ Submit \/ WorkerEnds \/ Restart \/ Reap \/ AbortAm
  \/ \E c \in Calls :
       Retrieve(c) \/ GitAm(c) \/ StopBegins(c) \/ StopReturns(c) \/ StopTimesOut(c)
       \/ Acknowledge(c)

Spec == Init /\ [][Next]_vars
-----------------------------------------------------------------------------
\* An acknowledged submission was applied, or a call has applied an older one and met the
\* newer one in the metadata: no failure, time-out, restart or second call can have a
\* submission acknowledged for which nothing was applied.
NothingAppliedNothingAcknowledged ==
  acknowledged # 0 => \E c \in Calls : /\ artifact[c] \in applied
                                       /\ artifact[c] <= acknowledged

\* docs/remote-agent-review.md:25: "It stops the agent before acknowledging": no worker
\* goes on under an acknowledgement, so that no later submission slips under it and the
\* snapshot of a live worker is not reaped. It holds in remote mode only.
AcknowledgedIsOver == acknowledged # 0 => ~live /\ submitted = acknowledged

\* mcp_tgit.py:338 "Pass agent_id to acknowledge the submitted patch after application
\* succeeds", docs/agent-selection-cleanup.md:39 "A newer head invalidates an older
\* disposition": what is acknowledged is what was applied. A submission that comes between
\* the retrieval of the artifact and the stop violates it.
AcknowledgedIsApplied == acknowledged # 0 => acknowledged \in applied

\* docs/remote-agent-review.md:25 "the tool stops the associated agent if needed and
\* acknowledges its submitted patch": a stop that has returned leads to an acknowledgement.
\* The stop of a worker that has ended by itself leaves "stopping" and violates it.
StoppedIsAcknowledged ==
  \A c \in Calls : pc[c] = "notAcknowledged" /\ restarts = 0 => state # "stopping" \/ live
=============================================================================
