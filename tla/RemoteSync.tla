----------------------------- MODULE RemoteSync -----------------------------
(***************************************************************************)
(* The continuation of a remote agent on a newer base:                    *)
(* RemoteAgentAdapter.continue_agent (remote_agent_adapter.py) uploads a   *)
(* Git bundle of the controller's HEAD, prepare_sync and finalize_sync     *)
(* (remote_agent_upload.py, remote_agent_service.py) stage it and record   *)
(* it in the agent's metadata, and _continue starts a child that mounts    *)
(* it when the agent's worker has ended, or queues the messages for the    *)
(* worker when it still runs.  Every call draws a new sync id, so a call   *)
(* stands for its bundle.                                                  *)
(***************************************************************************)
EXTENDS Naturals

CONSTANTS
  Calls,       \* calls of continue_agent for one agent; each has its own sync id
  Plain,       \* those without a project_root, which bring no bundle
  None,        \* no bundle
  MaxCrashes   \* bound: crashes of the service

SyncAssumption ==
  /\ Plain \subseteq Calls /\ None \notin Calls
  /\ MaxCrashes \in Nat

VARIABLES
  agent,      \* the agent's record: "inactive" is halted or stopped without a submission,
              \* "reviewing" what only a running worker can continue from, "working" any other
  live,       \* the agent's worker runs
  pending,    \* "pending_sync_base" and "sync_bundle_path": the call they come from
  bundle,     \* sync/<id>: "absent", "prepared", "uploaded", "staged"
  pc,         \* where the caller is
  request,    \* what the service has of the caller's request
  found,      \* the pending bundle _continue has read
  restarting, \* the agent is in _restarting_agents
  children,   \* the children started: [by |-> call, mount |-> bundle]
  kept,       \* the calls whose update of the metadata after a start has failed or was cut
  answer,     \* the response on its way to the caller
  crashes

caller == <<pc, answer>>
record == <<agent, live, pending>>
child  == <<children, kept>>
vars   == <<record, bundle, caller, request, found, restarting, child, crashes>>

Waiting == {"preparing", "finalizing", "continuing"}

TypeOK ==
  /\ agent \in {"working", "reviewing", "inactive"} /\ live \in BOOLEAN /\ restarting \in BOOLEAN
  /\ pending \in Calls \cup {None}
  /\ bundle \in [Calls -> {"absent", "prepared", "uploaded", "staged"}]
  /\ pc \in [Calls -> Waiting \cup {"new", "bundling", "done", "failed"}]
  /\ request \in [Calls -> {"none", "prepare", "finalize", "continue", "starting"}]
  /\ found \in [Calls -> Calls \cup {None}]
  /\ children \subseteq [by : Calls, mount : Calls \cup {None}] /\ kept \subseteq Calls
  /\ answer \in [Calls -> {"none", "ok", "error"}]
  /\ crashes \in 0 .. MaxCrashes

Init ==
  /\ agent = "working" /\ live = TRUE /\ restarting = FALSE /\ pending = None
  /\ bundle = [c \in Calls |-> "absent"]
  /\ pc = [c \in Calls |-> "new"]
  /\ request = [c \in Calls |-> "none"] /\ answer = request
  /\ found = [c \in Calls |-> None]
  /\ children = {} /\ kept = {} /\ crashes = 0
-----------------------------------------------------------------------------
(* The caller *)

Send(c, stage, operation) ==
  /\ pc' = [pc EXCEPT ![c] = stage]
  /\ request' = [request EXCEPT ![c] = operation]

\* Without a project, or when the agent's base is the HEAD, "continue" is sent at once.
BeginContinue(c) ==
  /\ pc[c] = "new"
  /\ IF c \in Plain THEN Send(c, "continuing", "continue") ELSE Send(c, "preparing", "prepare")
  /\ UNCHANGED <<record, bundle, answer, found, restarting, child, crashes>>

\* rsync of the bundle into the prepared directory, then finalize_sync.
UploadBundle(c) ==
  /\ pc[c] = "bundling"
  /\ bundle' = [bundle EXCEPT ![c] = "uploaded"]
  /\ Send(c, "finalizing", "finalize")
  /\ UNCHANGED <<record, answer, found, restarting, child, crashes>>

ReceiveOk(c) ==
  /\ pc[c] \in Waiting /\ answer[c] = "ok"
  /\ answer' = [answer EXCEPT ![c] = "none"]
  /\ \/ pc[c] = "preparing" /\ pc' = [pc EXCEPT ![c] = "bundling"] /\ UNCHANGED request
     \/ pc[c] = "finalizing" /\ Send(c, "continuing", "continue")
     \/ pc[c] = "continuing" /\ pc' = [pc EXCEPT ![c] = "done"] /\ UNCHANGED request
  /\ UNCHANGED <<record, bundle, found, restarting, child, crashes>>

\* An error response, the 30 s time-out or a failing rsync end the call; a request
\* that has reached the service stays there.
GiveUp(c) ==
  /\ pc[c] \in Waiting \cup {"bundling"}
  /\ pc' = [pc EXCEPT ![c] = "failed"]
  /\ answer' = [answer EXCEPT ![c] = "none"]
  /\ UNCHANGED <<record, bundle, request, found, restarting, child, crashes>>
-----------------------------------------------------------------------------
(* The service *)

Respond(c, result) ==
  /\ request' = [request EXCEPT ![c] = "none"]
  /\ answer' = [answer EXCEPT ![c] = IF pc[c] \in Waiting THEN result ELSE "none"]

PrepareSync(c) ==
  /\ request[c] = "prepare"
  /\ bundle' = [bundle EXCEPT ![c] = "prepared"]
  /\ Respond(c, "ok")
  /\ UNCHANGED <<record, pc, found, restarting, child, crashes>>

\* The bundle and base a continuation reads are recorded once the bundle is verified.
Recorded(c, verified) == IF verified THEN c ELSE pending

\* _finalize_sync refuses agents that are not inactive; finalize_sync checks size,
\* digest and heads of the bundle and removes the directory when one of them fails.
FinalizeSync(c) ==
  /\ request[c] = "finalize"
  /\ \/ /\ agent # "inactive"
        /\ Respond(c, "error") /\ UNCHANGED <<pending, bundle>>
     \/ \E verified \in BOOLEAN :
          /\ agent = "inactive"
          /\ bundle' = [bundle EXCEPT ![c] = IF verified THEN "staged" ELSE "absent"]
          /\ pending' = Recorded(c, verified)
          /\ Respond(c, IF verified THEN "ok" ELSE "error")
  /\ UNCHANGED <<agent, live, pc, found, restarting, child, crashes>>

MayRestart == agent = "inactive" /\ ~restarting

\* _continue and continue_agent up to the await of start_agent, for an agent whose worker
\* has ended: the pending bundle is read, the sync callback and the controller check that
\* its file is there.
ContinueBegins(c) ==
  /\ request[c] = "continue" /\ ~live
  /\ IF MayRestart /\ (pending # None => bundle[pending] = "staged")
     THEN /\ found' = [found EXCEPT ![c] = pending]
          /\ restarting' = TRUE
          /\ request' = [request EXCEPT ![c] = "starting"] /\ UNCHANGED answer
     ELSE Respond(c, "error") /\ UNCHANGED <<found, restarting>>
  /\ UNCHANGED <<record, bundle, pc, child, crashes>>

PendingAfter_Kept(read) == pending
PendingAfter(read) == IF read # None THEN None ELSE pending

\* _continue while the worker runs, which has no await: the messages are appended and
\* queued, the state is written and the pending sync is consumed although nobody mounts
\* it.  Each of the writes may fail.
ContinueLive(c) ==
  /\ request[c] = "continue" /\ live
  /\ \/ /\ agent = "working"
        /\ Respond(c, "error") /\ UNCHANGED <<agent, pending>>
     \/ /\ agent # "working" /\ agent' = "reviewing"
        /\ pending' = PendingAfter(pending)
        /\ Respond(c, "ok")
     \/ /\ agent # "working" /\ agent' \in {agent, "reviewing"}
        /\ Respond(c, "error") /\ UNCHANGED pending
  /\ UNCHANGED <<live, bundle, pc, found, restarting, child, crashes>>

\* start_agent raises, and removes what it has created; the sync stays pending.
StartFails(c) ==
  /\ request[c] = "starting"
  /\ restarting' = FALSE
  /\ children' = {x \in children : x.by # c}
  /\ Respond(c, "error")
  /\ UNCHANGED <<record, bundle, pc, found, kept, crashes>>

\* start_agent has created the child, which mounts the bundle.
ChildCreated(c) ==
  /\ request[c] = "starting" /\ [by |-> c, mount |-> found[c]] \notin children
  /\ children' = children \cup {[by |-> c, mount |-> found[c]]}
  /\ UNCHANGED <<record, bundle, caller, request, found, restarting, kept, crashes>>

\* start_agent returns: the child gets its parent's id and the pending sync of the parent
\* is consumed, whichever it is by now; the staged file stays for the worker that mounts
\* it.  When one of the two updates fails, the child runs and the sync stays pending.
ContinueReturns(c) ==
  /\ request[c] = "starting" /\ [by |-> c, mount |-> found[c]] \in children
  /\ restarting' = FALSE
  /\ \/ pending' = PendingAfter(found[c]) /\ Respond(c, "ok") /\ UNCHANGED kept
     \/ kept' = kept \cup {c} /\ Respond(c, "error") /\ UNCHANGED pending
  /\ UNCHANGED <<agent, live, bundle, pc, found, children, crashes>>

\* The worker reports, submits or ends, the operator stops it or sends feedback, and the
\* monitor and a restart of the service write what they find: what may happen to the
\* agent's record, and in which order, is modelled in AgentController.
AgentChanges ==
  /\ agent' \in {"working", "reviewing", "inactive"}
  /\ live' \in BOOLEAN /\ (live' => live)
  /\ UNCHANGED <<pending, bundle, caller, request, found, restarting, child, crashes>>

\* The updates of a continuation that has started its child are cut.
Crash ==
  /\ crashes < MaxCrashes
  /\ crashes' = crashes + 1
  /\ live' = FALSE /\ restarting' = FALSE
  /\ kept' = kept \cup {c \in Calls : request[c] = "starting"}
  /\ request' = [c \in Calls |-> "none"] /\ answer' = request'
  /\ UNCHANGED <<agent, pending, bundle, pc, found, children>>

Step(c) ==
  \/ BeginContinue(c) \/ UploadBundle(c) \/ ReceiveOk(c) \/ GiveUp(c)
  \/ PrepareSync(c) \/ FinalizeSync(c) \/ ContinueBegins(c) \/ ContinueLive(c)
  \/ StartFails(c) \/ ChildCreated(c) \/ ContinueReturns(c)

Next == AgentChanges \/ Crash \/ \E c \in Calls : Step(c)
Spec == Init /\ [][Next]_vars
-----------------------------------------------------------------------------
(* Safety *)

\* Metadata never names a bundle that has not been verified or is gone, whatever
\* fails, crashes or overlaps: a later continuation would be refused for good.
PendingIsStaged == pending # None => bundle[pending] = "staged"

\* The file a child mounts stays as long as the child ("retain the file for the
\* worker lifetime", _continue), although parents consume and callers give up.
ChildKeepsItsBundle == \A x \in children : x.mount # None => bundle[x.mount] = "staged"

\* A bundle is consumed by one child beside those whose parent could not be updated: only
\* a failing update or a crash between the creation of a child and the update of its
\* parent leads to a second one.
OneChildPerBundle ==
  \A x, y \in children :
    x.mount # None /\ x.mount = y.mount /\ x.by \notin kept /\ y.by \notin kept => x = y

\* A caller that is told that its continuation has failed has no child it does not know of,
\* unless it was only the update of the metadata that failed.
AnswerIsTrue ==
  \A c \in Calls : pc[c] = "continuing" /\ answer[c] = "error" =>
    ((\E x \in children : x.by = c) <=> c \in kept)

\* A pending sync goes away only into a child that mounts it ("consume the parent's
\* pending state"). It does not hold: _continue clears it when the messages go to a worker
\* that still runs, and clears what is pending by the time start_agent returns, not what it
\* has read before.
SyncNotDropped ==
  [][pending # None /\ pending' # pending /\ pending' = None
     => \E x \in children : x.mount = pending]_vars
=============================================================================
