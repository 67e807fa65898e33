---------------------------- MODULE RemoteSystem ----------------------------
(***************************************************************************)
(* The parts of the remote service and of its installation side by side.   *)
(* They share no state: an upload, a synchronization, a submission, a      *)
(* request on the wire, a deployment, a runtime and the socket each have   *)
(* files, tables and connections of their own.  A behaviour of all of them *)
(* is an interleaving of behaviours of each, and a property of one is      *)
(* violated by all of them together only if by that one alone.  So one of  *)
(* them is in focus and takes its steps, and the others stay where they    *)
(* begin.                                                                  *)
(***************************************************************************)
EXTENDS ServiceSocket

CONSTANTS
  None,                                        \* nobody
  Clients, UploadIds, MaxUploadCrashes,        \* RemoteUpload
  SyncCalls, Plain, MaxSyncCrashes,            \* RemoteSync
  Heads, SameSize, Imports, MaxWriteFailures,  \* RemotePatches
  Limit,                                       \* RemoteProtocol
  MaxDeploys,                                  \* Deploy
  Versions, Mounts, MaxEdits                   \* RemoteRuntime

VARIABLES
  focus,   \* the component whose steps are taken
  incoming, completed, upload, uploadPc, uploadRequest, uploadAnswer, uploadLock,
  origin, made, retained, uploadCrashes,
  agent, working, pending, bundle, syncPc, syncRequest, found, restarting, children,
  kept, syncAnswer, syncCrashes,
  submitted, artifact, export, live, tried, failures, tool, patchPc, listed, size, copy,
  revisions, mbox, loaded, overlapped,
  message, checks, wirePc, proxy, wireService, reply, response,
  app, backup, deployStaging, runtimes, checked, enabled, deployService, workers, build,
  deployStep,
  local, runtimeStaging, published, version, todo, runtimeStep

Upload == INSTANCE RemoteUpload WITH
  NoClient <- None, Cleanup <- FALSE, MaxCrashes <- MaxUploadCrashes, pc <- uploadPc,
  request <- uploadRequest, answer <- uploadAnswer, lock <- uploadLock,
  crashes <- uploadCrashes
uploadVars ==
  <<incoming, completed, upload, uploadPc, uploadRequest, uploadAnswer, uploadLock,
    origin, made, retained, uploadCrashes>>

Sync == INSTANCE RemoteSync WITH
  Calls <- SyncCalls, MaxCrashes <- MaxSyncCrashes, pc <- syncPc, request <- syncRequest,
  answer <- syncAnswer, crashes <- syncCrashes, live <- working
syncVars ==
  <<agent, working, pending, bundle, syncPc, syncRequest, found, restarting, children,
    kept, syncAnswer, syncCrashes>>

Patches == INSTANCE RemotePatches WITH
  Calls <- Imports, MaxFailures <- MaxWriteFailures, pc <- patchPc
patchVars ==
  <<submitted, artifact, export, live, tried, failures, tool, patchPc, listed, size,
    copy, revisions, mbox, loaded, overlapped>>

Protocol == INSTANCE RemoteProtocol WITH
  pc <- wirePc, service <- wireService
wireVars ==
  <<message, checks, wirePc, proxy, wireService, reply, response>>

Deploys == INSTANCE Deploy WITH
  StopMayFail <- FALSE, HostMayRestart <- FALSE, staging <- deployStaging,
  service <- deployService, step <- deployStep
Update == INSTANCE Deploy WITH
  MaxDeploys <- 2, StopMayFail <- TRUE, HostMayRestart <- TRUE,
  staging <- deployStaging, service <- deployService, step <- deployStep
deployVars ==
  <<app, backup, deployStaging, runtimes, checked, enabled, deployService, workers,
    build, deployStep>>

Runtime == INSTANCE RemoteRuntime WITH
  staging <- runtimeStaging, step <- runtimeStep
runtimeVars ==
  <<local, runtimeStaging, published, version, todo, runtimeStep>>

Foci == {"upload", "sync", "patches", "protocol", "deploy", "update", "runtime", "socket"}

RemoteInit ==
  /\ focus \in Foci
  /\ IF focus = "protocol" THEN Protocol!Init
     ELSE /\ message = [operation |-> "list_agents", fields |-> {}, bad |-> {}, size |-> 4,
                        more |-> FALSE, idOk |-> TRUE]
          /\ checks = TRUE /\ wirePc = "new" /\ proxy = "idle" /\ wireService = "idle"
          /\ reply = "none" /\ response = "none"
  /\ Upload!Init
  /\ focus # "upload" => upload = [c \in Clients |-> CHOOSE u \in UploadIds : TRUE]
  /\ Sync!Init
  /\ Patches!Init
  /\ focus # "patches" => tool = [c \in Imports |-> "review"]
  /\ IF focus = "update" THEN Update!Init ELSE Deploys!Init
  /\ Runtime!Init
  /\ Init

UploadStep ==
  /\ focus = "upload" /\ Upload!Next
  /\ UNCHANGED <<focus, syncVars, patchVars, wireVars, deployVars, runtimeVars, vars>>
SyncStep ==
  /\ focus = "sync" /\ Sync!Next
  /\ UNCHANGED <<focus, uploadVars, patchVars, wireVars, deployVars, runtimeVars, vars>>
PatchesStep ==
  /\ focus = "patches" /\ Patches!Next
  /\ UNCHANGED <<focus, uploadVars, syncVars, wireVars, deployVars, runtimeVars, vars>>
ProtocolStep ==
  /\ focus = "protocol" /\ Protocol!Next
  /\ UNCHANGED <<focus, uploadVars, syncVars, patchVars, deployVars, runtimeVars, vars>>
DeploysStep ==
  /\ focus = "deploy" /\ Deploys!Next
  /\ UNCHANGED <<focus, uploadVars, syncVars, patchVars, wireVars, runtimeVars, vars>>
UpdateStep ==
  /\ focus = "update" /\ Update!Next
  /\ UNCHANGED <<focus, uploadVars, syncVars, patchVars, wireVars, runtimeVars, vars>>
RuntimeStep ==
  /\ focus = "runtime" /\ Runtime!Next
  /\ UNCHANGED <<focus, uploadVars, syncVars, patchVars, wireVars, deployVars, vars>>
SocketStep ==
  /\ focus = "socket" /\ Next
  /\ UNCHANGED <<focus, uploadVars, syncVars, patchVars, wireVars, deployVars,
                 runtimeVars>>

RemoteNext ==
  \/ UploadStep \/ SyncStep \/ PatchesStep \/ ProtocolStep \/ DeploysStep \/ UpdateStep
  \/ RuntimeStep \/ SocketStep
RemoteVars == <<focus, uploadVars, syncVars, patchVars, wireVars, deployVars,
              runtimeVars, vars>>
RemoteSpec == RemoteInit /\ [][RemoteNext]_RemoteVars

ASSUME RemoteAssumption ==
  /\ Upload!UploadAssumption /\ Sync!SyncAssumption /\ Patches!PatchAssumption
  /\ Protocol!LimitAssumption /\ Deploys!DeployAssumption /\ Update!DeployAssumption
  /\ Runtime!RuntimeAssumption
-----------------------------------------------------------------------------
\* An upload becomes one agent however its start is repeated, and another one only after a
\* removal that has failed or was cut; what is sealed is a whole transfer that stays while it
\* is copied, the lock of start_async_handler is held exactly by a start under way, and an
\* answer is true of the agent the client has, unless it is the removal that failed.
UploadSafety ==
  /\ Upload!TypeOK /\ Upload!OneAgentPerUpload /\ Upload!SealedIsComplete
  /\ Upload!AnswerIsTrue /\ Upload!LockIsHeld /\ Upload!RetainedThroughStartup

\* What an agent's metadata names as its pending bundle is staged and verified, the bundle
\* a child mounts stays and is mounted by one child, and a continuation that is said to have
\* failed has none, unless an update of the metadata has failed or was cut (_continue,
\* finalize_sync).
SyncSafety ==
  /\ Sync!TypeOK /\ Sync!PendingIsStaged /\ Sync!ChildKeepsItsBundle
  /\ Sync!OneChildPerBundle /\ Sync!AnswerIsTrue

\* Whatever is submitted while an artifact is listed, copied and checked, a revision names
\* the series of the head it is imported as, and each artifact is one revision; its mbox is a
\* submission of the agent, and the one that is named while no two imports overlap.  A
\* recorded head has an artifact also when writes fail, of which the first is then not true.
PatchSafety ==
  /\ Patches!TypeOK /\ Patches!HeadHasArtifact /\ Patches!OneRevisionPerArtifact
  /\ failures = 0 => Patches!RevisionMatchesHead
  /\ Patches!MboxIsSubmission
  /\ ~overlapped => Patches!MboxIsRevision

\* A handler only gets requests with every field it reads, in bounds; an "ok" is that of a
\* handler that returned, an error that names the request means nothing of it still runs.
ProtocolSafety ==
  /\ Protocol!TypeOK
  /\ Protocol!HandlerInputsChecked /\ Protocol!OkIsExecuted /\ Protocol!FailedIsOver

\* After any sequence of deployments that fail at any step the service runs what has been
\* validated, the runtime of its workers is that of its code, and a deployment that reports
\* success is what runs; one update keeps a validated copy on the host, also when the
\* service cannot be stopped or the host restarts.
DeploySafety ==
  /\ focus # "update" =>
       /\ Deploys!TypeOK /\ Deploys!RunningIsValidated /\ Deploys!ServedIsDeployed
       /\ Deploys!SameCode
  /\ focus = "update" => Update!TypeOK /\ Update!KeepsWorkingCopy

\* A published runtime is what its import check ran with, whatever attempts at the version
\* failed before, and never changes while agents may run on it.
RuntimeSafety ==
  /\ [](Runtime!TypeOK /\ Runtime!PublishedWasTried)
  /\ Runtime!PublishedStays
=============================================================================
