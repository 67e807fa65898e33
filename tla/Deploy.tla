------------------------------- MODULE Deploy -------------------------------
(***************************************************************************)
(* deploy_remote_agent.py: the new application is staged beside the old    *)
(* one, promoted, given a runtime, validated in its final place and only   *)
(* then started.  Every step is a command on another host and may fail,    *)
(* before, in the middle of or after its effect; the operator then deploys *)
(* again.  Deployments are numbered, and so are the applications.          *)
(***************************************************************************)
EXTENDS Naturals

CONSTANTS
  MaxDeploys,      \* bound on the deployments
  StopMayFail,     \* the command that stops the service may fail: its status is ignored
  HostMayRestart   \* the host may restart, and start what is enabled

DeployAssumption ==
  /\ MaxDeploys \in Nat \ {0}
  /\ {StopMayFail, HostMayRestart} \subseteq BOOLEAN

Builds == 1..MaxDeploys
NoApp == [build |-> 0, whole |-> FALSE]
Directories == [build: 0..MaxDeploys, whole: BOOLEAN]
Off == 0                                     \* the service does not run
Steps == {"stop", "clear", "stage", "sync", "backup", "promote", "runtime", "validate",
          "unit", "clean"}

VARIABLES
  app, backup, staging,   \* the three directories on the host
  runtimes,               \* the builds whose runtime has been published
  checked,                \* the builds that have been validated in their final place
  enabled,                \* the unit is enabled
  service,                \* the build the service runs, or Off
  workers,                \* the build of the runtime it gives to workers
  build,                  \* the last deployment
  step                    \* its next step, "failed" or "done"

vars == <<app, backup, staging, runtimes, checked, enabled, service, workers, build, step>>
dirs == <<app, backup, staging>>
host == <<enabled, service, workers>>

TypeOK ==
  /\ {app, backup, staging} \subseteq Directories
  /\ app.build # 0 => app.whole
  /\ runtimes \subseteq Builds /\ checked \subseteq Builds
  /\ enabled \in BOOLEAN
  /\ service \in 0..MaxDeploys /\ workers \in 0..MaxDeploys
  /\ build \in 0..MaxDeploys
  /\ step \in Steps \union {"done", "failed"}

Init ==
  /\ app = NoApp /\ backup = NoApp /\ staging = NoApp
  /\ runtimes = {} /\ checked = {}
  /\ enabled = FALSE /\ service = Off /\ workers = Off
  /\ build = 0 /\ step = "done"

NewestRuntime == IF runtimes = {} THEN app.build
                 ELSE CHOOSE r \in runtimes : \A q \in runtimes : q <= r

\* systemd starts the service: it runs the application and selects the newest runtime.
Starts ==
  /\ service' = app.build
  /\ workers' = IF app = NoApp THEN Off ELSE NewestRuntime

Begin ==
  /\ step \in {"done", "failed"}
  /\ build < MaxDeploys
  /\ build' = build + 1
  /\ step' = "stop"
  /\ UNCHANGED <<dirs, runtimes, checked, host>>

Stopped == Off

StopService ==
  /\ step = "stop"
  /\ step' = "clear"
  /\ \/ service' = Stopped
     \/ StopMayFail /\ service' = service
  /\ workers' = IF service' = Off THEN Off ELSE workers
  /\ UNCHANGED <<dirs, runtimes, checked, enabled, build>>

ClearBackup ==
  /\ step = "clear"
  /\ backup' = NoApp
  /\ step' = "stage"
  /\ UNCHANGED <<app, staging, runtimes, checked, host, build>>

Stage ==
  /\ step = "stage"
  /\ staging' = [build |-> build, whole |-> FALSE]
  /\ step' = "sync"
  /\ UNCHANGED <<app, backup, runtimes, checked, host, build>>

AfterSync == IF staging'.whole THEN "backup" ELSE "failed"

Sync ==
  /\ step = "sync"
  /\ \E whole \in BOOLEAN : staging' = [staging EXCEPT !.whole = whole]
  /\ step' = AfterSync
  /\ UNCHANGED <<app, backup, runtimes, checked, host, build>>

BackedUp == app

BackUp ==
  /\ step = "backup"
  /\ backup' = IF app = NoApp THEN backup ELSE BackedUp
  /\ app' = NoApp
  /\ step' = "promote"
  /\ UNCHANGED <<staging, runtimes, checked, host, build>>

Promote ==
  /\ step = "promote"
  /\ app' = staging
  /\ staging' = NoApp
  /\ step' = "runtime"
  /\ UNCHANGED <<backup, runtimes, checked, host, build>>

\* Mutant: a runtime that cannot be prepared is no reason to stop.
AfterRuntime_Ignored == "validate"
AfterRuntime == IF build \in runtimes' THEN "validate" ELSE "failed"

\* prepare_remote_runtime publishes a runtime or raises (module RemoteRuntime).
PrepareRuntime ==
  /\ step = "runtime"
  /\ runtimes' \in {runtimes, runtimes \union {build}}
  /\ step' = AfterRuntime
  /\ UNCHANGED <<dirs, checked, host, build>>

AfterCheck == IF build \in checked' THEN "unit" ELSE "failed"

Validate ==
  /\ step = "validate"
  /\ checked' \in {checked, checked \union {build}}
  /\ step' = AfterCheck
  /\ UNCHANGED <<dirs, runtimes, host, build>>

\* The unit is installed; enable --now starts the service unless it runs.
EnableNow ==
  /\ step = "unit"
  /\ enabled' = TRUE
  /\ IF service = Off THEN Starts ELSE UNCHANGED <<service, workers>>
  /\ step' = "clean"
  /\ UNCHANGED <<dirs, runtimes, checked, build>>

RemoveBackup ==
  /\ step = "clean"
  /\ backup' = NoApp
  /\ step' = "done"
  /\ UNCHANGED <<app, staging, runtimes, checked, host, build>>

\* A command fails, or the deploying process is killed; rm may have removed some files.
Fail ==
  /\ step \in Steps \ {"stop"}
  /\ step' = "failed"
  /\ \/ step \in {"clear", "clean"} /\ backup' = [backup EXCEPT !.whole = FALSE]
     \/ UNCHANGED backup
  /\ UNCHANGED <<app, staging, runtimes, checked, host, build>>

HostRestarts ==
  /\ HostMayRestart
  /\ enabled
  /\ Starts
  /\ UNCHANGED <<dirs, runtimes, checked, enabled, build, step>>

Next ==
  \/ Begin \/ StopService \/ ClearBackup \/ Stage \/ Sync \/ BackUp \/ Promote
  \/ PrepareRuntime \/ Validate \/ EnableNow \/ RemoveBackup \/ Fail \/ HostRestarts

Spec == Init /\ [][Next]_vars

(***************************************************************************)
(* Properties.                                                             *)
(***************************************************************************)
Works(d) == d.whole /\ d.build \in checked

\* deploy_remote_agent.py:114 "Keep the old complete app available until the new one has
\* been validated": once an application has been validated, one stays on the host, as the
\* application or as its backup, whatever fails.
KeepsWorkingCopy == checked # {} => Works(app) \/ Works(backup)

\* docs/agent-runtime.md:70 "Deployment validates the final remote interpreter/package
\* before enabling or restarting the service, and avoids leaving a partially updated live
\* app on failure": what runs has been validated.
RunningIsValidated == service # Off => service \in checked

\* docs/agent-runtime.md:65 "The persistent service starts using that environment": after a
\* deployment that reported success the service runs the application it has deployed.
ServedIsDeployed == step = "done" /\ build # 0 => service = build /\ app.build = build

\* docs/agent-runtime.md:36 "The service and worker must therefore see the same installed
\* code": the runtime selected for workers is of the application the service runs.
SameCode == service # Off => workers = service
=============================================================================
