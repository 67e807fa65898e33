------------------------- MODULE RemoteServiceProofs -------------------------
(***************************************************************************)
(* Proofs for requests on the wire, for the deployment of the remote       *)
(* service, for the runtimes it selects, and for its socket.  The initial  *)
(* states of the first three depend on the part that is in focus, so their *)
(* invariants are joined in ServiceInv.                                    *)
(***************************************************************************)
EXTENDS RemoteSystem, TLAPS

-----------------------------------------------------------------------------
(* Requests on the wire *)

\* The handler of each operation reads checked fields only.
LEMMA ReadsAreChecked ==
  \A op \in Protocol!Operations : Protocol!Reads[op] \subseteq Protocol!Checked(op)
<1> SUFFICES ASSUME NEW op \in Protocol!Operations
             PROVE  Protocol!Reads[op] \subseteq Protocol!Checked(op)
  OBVIOUS
<1> QED
  BY DEF Protocol!Operations, Protocol!Reads, Protocol!Checked, Protocol!WithoutAgent, Protocol!Expected

\* What the adapter sends are names of fields.
LEMMA AdapterSendsFields ==
  \A op \in Protocol!Operations : Protocol!AdapterFields[op] \subseteq Protocol!FieldNames
<1> SUFFICES ASSUME NEW op \in Protocol!Operations
             PROVE  Protocol!AdapterFields[op] \subseteq Protocol!FieldNames
  OBVIOUS
<1> QED
  BY DEF Protocol!Operations, Protocol!AdapterFields, Protocol!FieldNames, Protocol!Expected

\* A handler runs on what the service has validated, and what is sent or forwarded is
\* the service's last word.
RunsValidated == wireService \in {"running", "done"} => Protocol!Validate(message)
LastWord ==
  /\ proxy \in {"idle", "reading"} => wireService = "idle"
  /\ wirePc = "new" => proxy = "idle"
  /\ reply # "none" => wireService \in {"done", "failed", "gone"}
  /\ "ok" \in {reply, response} => wireService = "done"
  /\ "error" \in {reply, response} => wireService \in {"done", "failed"}

\* The inductive invariant of a request, from the adapter to the handler and back.
ProtocolInv ==
  /\ Protocol!TypeOK /\ Protocol!OkIsExecuted /\ Protocol!FailedIsOver
  /\ RunsValidated /\ LastWord

\* What a handler reads is among what Validate has checked.
LEMMA ProtocolInvSafe == ProtocolInv => ProtocolSafety
  BY ReadsAreChecked
  DEF ProtocolInv, ProtocolSafety, RunsValidated, Protocol!HandlerInputsChecked, Protocol!Validate

\* A request has not been sent.
LEMMA ProtocolInit == Protocol!Init => ProtocolInv
<1> SUFFICES ASSUME Protocol!Init PROVE ProtocolInv
  OBVIOUS
<1>1. /\ message.operation \in Protocol!Operations \cup {"unknown"}
      /\ message.fields \subseteq Protocol!FieldNames /\ message.bad \subseteq message.fields
  <2>1. PICK op \in Protocol!Operations :
          \/ message \in Protocol!Message(op, Protocol!AdapterFields[op], {})
          \/ message \in Protocol!Message("unknown", {}, {})
          \/ \E f \in Protocol!AdapterFields[op] :
               \/ message \in Protocol!Message(op, Protocol!AdapterFields[op] \ {f}, {})
               \/ message \in Protocol!Message(op, Protocol!AdapterFields[op], {f})
          \/ \E f \in Protocol!FieldNames :
               message \in Protocol!Message(op, Protocol!AdapterFields[op] \cup {f}, {})
    <3> DEFINE Sent(op) ==
          Protocol!Message(op, Protocol!AdapterFields[op], {}) \cup Protocol!Message("unknown", {}, {})
          \cup (UNION {Protocol!Message(op, Protocol!AdapterFields[op] \ {f}, {}) \cup
                       Protocol!Message(op, Protocol!AdapterFields[op], {f})
                       : f \in Protocol!AdapterFields[op]})
          \cup (UNION {Protocol!Message(op, Protocol!AdapterFields[op] \cup {f}, {})
                       : f \in Protocol!FieldNames})
    <3>1. message \in UNION {Sent(op) : op \in Protocol!Operations}
      BY DEF Protocol!Init, Protocol!Messages
    <3>2. PICK op \in Protocol!Operations : message \in Sent(op)
      <4> HIDE DEF Sent
      <4> QED
        BY <3>1
    <3> QED
      BY <3>2
  <2> QED
    BY <2>1, AdapterSendsFields DEF Protocol!Message
<1> QED
  BY <1>1 DEF Protocol!Init, ProtocolInv, Protocol!TypeOK, Protocol!Replies,
     Protocol!OkIsExecuted, Protocol!FailedIsOver, RunsValidated, LastWord

\* Checks on either side, connections that end, and handlers that return or raise.
LEMMA ProtocolStepInv == ProtocolInv /\ [Protocol!Next]_wireVars => ProtocolInv'
<1> SUFFICES ASSUME ProtocolInv, [Protocol!Next]_wireVars PROVE ProtocolInv'
  OBVIOUS
<1> USE DEF ProtocolInv, Protocol!TypeOK, Protocol!Replies, Protocol!OkIsExecuted,
          Protocol!FailedIsOver, RunsValidated, LastWord
<1>0. message' = message => Protocol!Validate(message)' = Protocol!Validate(message)
  BY DEF Protocol!Validate
<1>1. CASE Protocol!ClientSends
  BY <1>0, <1>1 DEF Protocol!ClientSends
<1>2. CASE Protocol!ProxyReads
  BY <1>0, <1>2 DEF Protocol!ProxyReads
<1>3. CASE Protocol!ServiceReads
  BY <1>0, <1>3 DEF Protocol!ServiceReads
<1>4. CASE Protocol!HandlerReturns
  BY <1>0, <1>4 DEF Protocol!HandlerReturns
<1>5. CASE Protocol!HandlerRaises
  BY <1>0, <1>5 DEF Protocol!HandlerRaises, Protocol!AfterRaise
<1>6. CASE Protocol!ServiceDies
  BY <1>0, <1>6 DEF Protocol!ServiceDies
<1>7. CASE Protocol!ProxyForwards
  BY <1>0, <1>7 DEF Protocol!ProxyForwards, Protocol!Forwarded
<1>8. CASE Protocol!ProxyTimesOut
  BY <1>0, <1>8 DEF Protocol!ProxyTimesOut
<1>9. CASE Protocol!ClientReceives
  BY <1>0, <1>9 DEF Protocol!ClientReceives
<1>10. CASE Protocol!ClientTimesOut
  BY <1>0, <1>10 DEF Protocol!ClientTimesOut
<1>11. CASE UNCHANGED wireVars
  BY <1>0, <1>11 DEF wireVars
<1> QED
  BY <1>1, <1>2, <1>3, <1>4, <1>5, <1>6, <1>7, <1>8, <1>9, <1>10, <1>11 DEF Protocol!Next
-----------------------------------------------------------------------------
(* Deployments that fail at any step *)

\* What the steps of a deployment have reached; builds are numbered upwards.
Staged ==
  /\ deployStep \notin {"done", "failed"} => build # 0
  /\ deployStep = "sync" => deployStaging = [build |-> build, whole |-> FALSE]
  /\ deployStep \in {"backup", "promote"} => deployStaging = [build |-> build, whole |-> TRUE]
  /\ deployStep \in {"runtime", "validate", "unit", "clean"} =>
       app = [build |-> build, whole |-> TRUE]
  /\ deployStep \in {"validate", "unit", "clean"} => build \in runtimes
  /\ deployStep \in {"unit", "clean"} => build \in checked
  /\ \A r \in runtimes : r <= build

\* The service is off from its stop until it runs the new build.
OffWhileDeployed ==
  /\ deployStep \in Deploys!Steps \ {"stop", "clean"} => deployService = Deploys!Off
  /\ deployStep = "clean" => deployService = build

\* The inductive invariant of deployments whose service stops when it is told to.
DeployInv ==
  /\ Deploys!TypeOK /\ Deploys!RunningIsValidated /\ Deploys!ServedIsDeployed
  /\ Deploys!SameCode /\ Staged /\ OffWhileDeployed

\* Each command succeeds, or fails before, within or after its effect.
LEMMA DeployStepInv == DeployInv /\ [Deploys!Next]_deployVars => DeployInv'
<1> SUFFICES ASSUME DeployInv, [Deploys!Next]_deployVars PROVE DeployInv'
  OBVIOUS
<1> USE RemoteAssumption
    DEF Deploys!DeployAssumption, Deploys!Builds, Deploys!NoApp, Deploys!Directories,
      Deploys!Off, Deploys!Steps, Deploys!dirs, Deploys!host, DeployInv, Deploys!TypeOK,
      Deploys!RunningIsValidated, Deploys!ServedIsDeployed, Deploys!SameCode, Staged,
      OffWhileDeployed
<1>1. CASE Deploys!Begin
  BY <1>1 DEF Deploys!Begin
<1>2. CASE Deploys!StopService
  BY <1>2 DEF Deploys!StopService, Deploys!Stopped
<1>3. CASE Deploys!ClearBackup
  BY <1>3 DEF Deploys!ClearBackup
<1>4. CASE Deploys!Stage
  BY <1>4 DEF Deploys!Stage
<1>5. CASE Deploys!Sync
  <2>1. PICK whole \in BOOLEAN : deployStaging' = [deployStaging EXCEPT !.whole = whole]
    BY <1>5 DEF Deploys!Sync
  <2>2. deployStaging' = [build |-> build, whole |-> whole]
    BY <1>5, <2>1 DEF Deploys!Sync
  <2>3. deployStep' = IF whole THEN "backup" ELSE "failed"
    BY <1>5, <2>2 DEF Deploys!Sync, Deploys!AfterSync
  <2> QED
    BY <1>5, <2>2, <2>3 DEF Deploys!Sync
<1>6. CASE Deploys!BackUp
  BY <1>6 DEF Deploys!BackUp, Deploys!BackedUp
<1>7. CASE Deploys!Promote
  BY <1>7 DEF Deploys!Promote
<1>8. CASE Deploys!PrepareRuntime
  BY <1>8 DEF Deploys!PrepareRuntime, Deploys!AfterRuntime
<1>9. CASE Deploys!Validate
  BY <1>9 DEF Deploys!Validate, Deploys!AfterCheck
<1>10. CASE Deploys!EnableNow
  <2>1. Deploys!NewestRuntime = build
    <3>1. build \in runtimes /\ \A q \in runtimes : q \in Nat /\ q <= build
      BY <1>10 DEF Deploys!EnableNow
    <3>2. \A r \in runtimes : (\A q \in runtimes : q <= r) => r = build
      BY <3>1
    <3> QED
      BY ONLY <3>1, <3>2 DEF Deploys!NewestRuntime
  <2> QED
    BY <1>10, <2>1 DEF Deploys!EnableNow, Deploys!Starts
<1>11. CASE Deploys!RemoveBackup
  BY <1>11 DEF Deploys!RemoveBackup
<1>12. CASE Deploys!Fail
  BY <1>12 DEF Deploys!Fail
<1>13. CASE Deploys!HostRestarts
  BY <1>13 DEF Deploys!HostRestarts
<1>14. CASE UNCHANGED deployVars
  BY <1>14 DEF deployVars
<1> QED
  BY <1>1, <1>2, <1>3, <1>4, <1>5, <1>6, <1>7, <1>8, <1>9, <1>10, <1>11, <1>12, <1>13, <1>14
  DEF Deploys!Next

\* One update of a host on which a first deployment may have succeeded or failed, and a
\* service that does not stop or comes back: a validated copy is where the steps have
\* brought it.
FirstIsUnchecked ==
  /\ build = 0 => checked = {}
  /\ build < 2 /\ deployStep \in {"stop", "clear", "stage", "sync", "backup", "promote",
                                  "runtime", "validate"} => checked = {}
CopyIsKept ==
  checked # {} =>
    /\ deployStep \in {"stop", "clear", "stage", "sync", "backup", "unit", "clean", "done"} =>
         Update!Works(app)
    /\ deployStep \in {"promote", "runtime", "validate"} => Update!Works(backup)
    /\ deployStep = "failed" =>
         Update!Works(app) \/ (build = 2 /\ Update!Works(backup))

UpdateInv == Update!TypeOK /\ Staged /\ FirstIsUnchecked /\ CopyIsKept

\* The newest runtime is that of a build there has been.
LEMMA NewestIsBuild == UpdateInv => Update!NewestRuntime \in 0..2
<1> SUFFICES ASSUME UpdateInv PROVE Update!NewestRuntime \in 0..2
  OBVIOUS
<1>1. /\ app.build \in 0..2
      /\ \A r \in runtimes : r \in 0..2 /\ (r = 1 \/ r = 2)
  BY DEF UpdateInv, Update!TypeOK, Update!Builds, Update!Directories
<1>2. runtimes # {} => \E r \in runtimes : \A q \in runtimes : q <= r
  <2>1. CASE 2 \in runtimes
    BY <1>1, <2>1
  <2>2. CASE 2 \notin runtimes
    <3>1. \A r \in runtimes : r = 1
      BY <1>1, <2>2
    <3> QED
      BY <3>1
  <2> QED
    BY <2>1, <2>2
<1>3. runtimes # {} => Update!NewestRuntime \in runtimes
  BY <1>2 DEF Update!NewestRuntime
<1>4. runtimes = {} => Update!NewestRuntime = app.build
  BY DEF Update!NewestRuntime
<1>5. CASE runtimes = {}
  BY <1>1, <1>4, <1>5
<1>6. CASE runtimes # {}
  BY <1>1, <1>3, <1>6
<1> QED
  BY <1>5, <1>6

\* A service that cannot be stopped and a host that restarts change what runs, not which
\* copies are whole.
LEMMA UpdateStepInv == UpdateInv /\ [Update!Next]_deployVars => UpdateInv'
<1> SUFFICES ASSUME UpdateInv, [Update!Next]_deployVars PROVE UpdateInv'
  OBVIOUS
<1> USE DEF Update!Builds, Update!NoApp, Update!Directories, Update!Off, Update!Steps,
          Update!dirs, Update!host, UpdateInv, Update!TypeOK, Staged, FirstIsUnchecked,
          CopyIsKept, Update!Works
<1>1. CASE Update!Begin
  <2>1. CASE deployStep = "done"
    BY <1>1, <2>1 DEF Update!Begin
  <2>2. CASE deployStep = "failed"
    BY <1>1, <2>2 DEF Update!Begin
  <2> QED
    BY <1>1, <2>1, <2>2 DEF Update!Begin
<1>2. CASE Update!StopService
  BY <1>2 DEF Update!StopService, Update!Stopped
<1>3. CASE Update!ClearBackup
  BY <1>3 DEF Update!ClearBackup
<1>4. CASE Update!Stage
  BY <1>4 DEF Update!Stage
<1>5. CASE Update!Sync
  <2>1. PICK whole \in BOOLEAN : deployStaging' = [deployStaging EXCEPT !.whole = whole]
    BY <1>5 DEF Update!Sync
  <2>2. deployStaging' = [build |-> build, whole |-> whole]
    BY <1>5, <2>1 DEF Update!Sync
  <2>3. deployStep' = IF whole THEN "backup" ELSE "failed"
    BY <1>5, <2>2 DEF Update!Sync, Update!AfterSync
  <2> QED
    BY <1>5, <2>2, <2>3 DEF Update!Sync
<1>6. CASE Update!BackUp
  BY <1>6 DEF Update!BackUp, Update!BackedUp
<1>7. CASE Update!Promote
  BY <1>7 DEF Update!Promote
<1>8. CASE Update!PrepareRuntime
  BY <1>8 DEF Update!PrepareRuntime, Update!AfterRuntime
<1>9. CASE Update!Validate
  BY <1>9 DEF Update!Validate, Update!AfterCheck
<1>10. CASE Update!EnableNow
  BY <1>10, NewestIsBuild DEF Update!EnableNow, Update!Starts
<1>11. CASE Update!RemoveBackup
  BY <1>11 DEF Update!RemoveBackup
<1>12. CASE Update!Fail
  <2>1. CASE UNCHANGED backup
    BY <1>12, <2>1 DEF Update!Fail
  <2>2. CASE deployStep \in {"clear", "clean"} /\ backup' = [backup EXCEPT !.whole = FALSE]
    <3>1. backup' \in Update!Directories
      BY <2>2
    <3> QED
      BY <1>12, <2>2, <3>1 DEF Update!Fail
  <2> QED
    BY <1>12, <2>1, <2>2 DEF Update!Fail
<1>13. CASE Update!HostRestarts
  BY <1>13, NewestIsBuild DEF Update!HostRestarts, Update!Starts
<1>14. CASE UNCHANGED deployVars
  BY <1>14 DEF deployVars
<1> QED
  BY <1>1, <1>2, <1>3, <1>4, <1>5, <1>6, <1>7, <1>8, <1>9, <1>10, <1>11, <1>12, <1>13, <1>14
  DEF Update!Next

\* Both kinds of deployment begin on an empty host.
LEMMA DeployInit == Deploys!Init \/ Update!Init => DeployInv /\ UpdateInv
<1> SUFFICES ASSUME Deploys!Init \/ Update!Init PROVE DeployInv /\ UpdateInv
  OBVIOUS
<1> USE RemoteAssumption
    DEF Deploys!DeployAssumption, Deploys!Init, Update!Init, Deploys!NoApp, Update!NoApp,
      Deploys!Directories, Update!Directories, Deploys!Off, Update!Off, Deploys!Steps,
      Update!Steps, Staged
<1>1. Deploys!TypeOK
  <2>1. app \in Deploys!Directories
    <3>1. app = [build |-> 0, whole |-> FALSE] /\ 0 \in 0 .. MaxDeploys
      OBVIOUS
    <3> QED
      BY ONLY <3>1 DEF Deploys!Directories
  <2>3. app.build = 0
    OBVIOUS
  <2>2. {build, deployService, workers} \subseteq 0 .. MaxDeploys
    OBVIOUS
  <2> QED
    BY <2>1, <2>2, <2>3 DEF Deploys!TypeOK
<1>2. Update!TypeOK
  <2>1. app \in Update!Directories
    <3>1. app = [build |-> 0, whole |-> FALSE] /\ 0 \in 0 .. 2
      OBVIOUS
    <3> QED
      BY ONLY <3>1 DEF Update!Directories
  <2>2. app.build = 0
    OBVIOUS
  <2>3. {build, deployService, workers} \subseteq 0 .. 2
    OBVIOUS
  <2> QED
    BY <2>1, <2>2, <2>3 DEF Update!TypeOK
<1>3. DeployInv
  BY <1>1 DEF DeployInv, Deploys!RunningIsValidated, Deploys!ServedIsDeployed,
     Deploys!SameCode, OffWhileDeployed
<1>4. UpdateInv
  BY <1>2 DEF UpdateInv, FirstIsUnchecked, CopyIsKept
<1> QED
  BY <1>3, <1>4

-----------------------------------------------------------------------------
(* Runtimes *)

\* What an attempt at a version has reached; what is left of earlier ones is in staging.
Attempt ==
  /\ runtimeStep # "idle" => version \in Versions
  /\ runtimeStep \in {"copy", "check", "describe", "publish"} => runtimeStaging[version].here
  /\ runtimeStep = "copy" => Mounts \subseteq runtimeStaging[version].whole \cup todo
  /\ runtimeStep \in {"check", "describe", "publish"} =>
       runtimeStaging[version].whole = Mounts
  /\ runtimeStep \in {"describe", "publish"} =>
       runtimeStaging[version].tried = runtimeStaging[version].from
  /\ runtimeStep = "publish" => runtimeStaging[version].manifest

\* The inductive invariant of runtimes.
RuntimeInv == Runtime!TypeOK /\ Runtime!PublishedWasTried /\ Attempt

\* What a step may do to a directory leaves it one.
LEMMA DirectoryChanges ==
  ASSUME NEW d \in Runtime!Directories
  PROVE  /\ [d EXCEPT !.here = TRUE] \in Runtime!Directories
         /\ [d EXCEPT !.linked = TRUE] \in Runtime!Directories
         /\ [d EXCEPT !.linked = TRUE, !.tried = d.from] \in Runtime!Directories
         /\ [d EXCEPT !.manifest = TRUE] \in Runtime!Directories
         /\ \A m \in Mounts, e \in Runtime!Editions, w \in SUBSET Mounts :
              [d EXCEPT !.from[m] = @ \union {e}, !.whole = w] \in Runtime!Directories
<1> USE DEF Runtime!Directories
<1>1. [d EXCEPT !.here = TRUE] \in Runtime!Directories
  OBVIOUS
<1>2. [d EXCEPT !.linked = TRUE] \in Runtime!Directories
  OBVIOUS
<1>3. [d EXCEPT !.linked = TRUE, !.tried = d.from] \in Runtime!Directories
  OBVIOUS
<1>4. [d EXCEPT !.manifest = TRUE] \in Runtime!Directories
  OBVIOUS
<1>5. ASSUME NEW m \in Mounts, NEW e \in Runtime!Editions, NEW w \in SUBSET Mounts
      PROVE  [d EXCEPT !.from[m] = @ \union {e}, !.whole = w] \in Runtime!Directories
  OBVIOUS
<1> HIDE DEF Runtime!Directories
<1> QED
  BY <1>1, <1>2, <1>3, <1>4, <1>5

\* Nothing has been published.
LEMMA RuntimeInit == Runtime!Init => RuntimeInv
<1> SUFFICES ASSUME Runtime!Init PROVE RuntimeInv
  OBVIOUS
<1>1. Runtime!NoDirectory \in Runtime!Directories
  BY DEF Runtime!NoDirectory, Runtime!NoFiles, Runtime!Directories
<1>2. Runtime!NoDirectory.here = FALSE
  BY DEF Runtime!NoDirectory
<1> QED
  BY RemoteAssumption, <1>1, <1>2
  DEF Runtime!Init, RuntimeInv, Runtime!TypeOK, Runtime!PublishedWasTried, Attempt,
      Runtime!RuntimeAssumption, Runtime!Editions

\* Commands that fail in between, clean-ups that fail as well, and later attempts.
LEMMA RuntimeStepInv == RuntimeInv /\ [Runtime!Next]_runtimeVars => RuntimeInv'
<1> SUFFICES ASSUME RuntimeInv, [Runtime!Next]_runtimeVars PROVE RuntimeInv'
  OBVIOUS
<1>0. Runtime!NoDirectory \in Runtime!Directories
  BY DEF Runtime!NoDirectory, Runtime!NoFiles, Runtime!Directories
<1> USE RemoteAssumption
    DEF Runtime!RuntimeAssumption, RuntimeInv, Runtime!TypeOK, Runtime!PublishedWasTried,
      Attempt
<1>1. CASE Runtime!Edit
  BY <1>1 DEF Runtime!Edit, Runtime!Editions
<1>2. ASSUME NEW v \in Versions, Runtime!Begin(v) PROVE RuntimeInv'
  <2> DEFINE old == runtimeStaging[v]
             new == [old EXCEPT !.here = TRUE]
  <2>1. runtimeStaging' = [runtimeStaging EXCEPT ![v] = new] /\ v \in Versions
    BY <1>2 DEF Runtime!Begin
  <2>2. old \in Runtime!Directories
    BY <2>1
  <2>3. new \in Runtime!Directories
    BY ONLY <2>2, DirectoryChanges
  <2>4. runtimeStaging' \in [Versions -> Runtime!Directories]
    BY <2>1, <2>3
  <2>5. runtimeStaging'[v].here
    BY <2>1, <2>2 DEF Runtime!Directories
  <2>6. Runtime!TypeOK' /\ Runtime!PublishedWasTried'
    BY <1>2, <2>4 DEF Runtime!Begin
  <2>7. Attempt'
    BY <1>2, <2>1, <2>5 DEF Runtime!Begin
  <2> QED
    BY <2>6, <2>7
<1>3. ASSUME NEW m \in Mounts, Runtime!Transfer(m) PROVE RuntimeInv'
  <2> DEFINE old == runtimeStaging[version]
             new == [old EXCEPT !.from[m] = @ \union {local}, !.whole = @ \union {m}]
  <2>1. runtimeStaging' = [runtimeStaging EXCEPT ![version] = new] /\ version \in Versions
    BY <1>3 DEF Runtime!Transfer
  <2>2. old \in Runtime!Directories
    BY <2>1
  <2>3. new \in Runtime!Directories
    <3>1. old.whole \union {m} \in SUBSET Mounts /\ local \in Runtime!Editions
      BY <2>2 DEF Runtime!Directories
    <3> QED
      BY ONLY <2>2, <3>1, m \in Mounts, DirectoryChanges
  <2>4. runtimeStaging' \in [Versions -> Runtime!Directories]
    BY <2>1, <2>3
  <2> QED
    BY <1>3, <2>1, <2>2, <2>4 DEF Runtime!Transfer, Runtime!Directories
<1>4. ASSUME NEW m \in Mounts, Runtime!TransferFails(m) PROVE RuntimeInv'
  <2> DEFINE old == runtimeStaging[version]
             new == [old EXCEPT !.from[m] = @ \union {local}, !.whole = @ \ {m}]
  <2>1. runtimeStaging' = [runtimeStaging EXCEPT ![version] = new] /\ version \in Versions
    BY <1>4 DEF Runtime!TransferFails, Runtime!AfterFailure
  <2>2. old \in Runtime!Directories
    BY <2>1
  <2>3. new \in Runtime!Directories
    <3>1. old.whole \ {m} \in SUBSET Mounts /\ local \in Runtime!Editions
      BY <2>2 DEF Runtime!Directories
    <3> QED
      BY ONLY <2>2, <3>1, m \in Mounts, DirectoryChanges
  <2>4. runtimeStaging' \in [Versions -> Runtime!Directories]
    BY <2>1, <2>3
  <2> QED
    BY <1>4, <2>1, <2>2, <2>4 DEF Runtime!TransferFails, Runtime!AfterFailure, Runtime!Directories
<1>5. CASE Runtime!Preflight
  <2>1. CASE runtimeStep' = "describe"
    <3> DEFINE old == runtimeStaging[version]
               new == [old EXCEPT !.linked = TRUE, !.tried = old.from]
    <3>1. runtimeStaging' = [runtimeStaging EXCEPT ![version] = new] /\ version \in Versions
      BY <1>5, <2>1 DEF Runtime!Preflight, Runtime!AfterRefusal
    <3>2. old \in Runtime!Directories
      BY <3>1
    <3>3. new \in Runtime!Directories
      BY ONLY <3>2, DirectoryChanges
    <3>4. runtimeStaging' \in [Versions -> Runtime!Directories]
      BY <3>1, <3>3
    <3> QED
      BY <1>5, <2>1, <3>1, <3>2, <3>4 DEF Runtime!Preflight, Runtime!AfterRefusal, Runtime!Directories
  <2>2. CASE runtimeStep' = "clean"
    <3> DEFINE old == runtimeStaging[version]
               new == [old EXCEPT !.linked = TRUE]
    <3>1. runtimeStaging' = [runtimeStaging EXCEPT ![version] = new] /\ version \in Versions
      BY <1>5, <2>2 DEF Runtime!Preflight, Runtime!AfterRefusal
    <3>2. old \in Runtime!Directories
      BY <3>1
    <3>3. new \in Runtime!Directories
      BY ONLY <3>2, DirectoryChanges
    <3>4. runtimeStaging' \in [Versions -> Runtime!Directories]
      BY <3>1, <3>3
    <3> QED
      BY <1>5, <2>2, <3>1, <3>2, <3>4 DEF Runtime!Preflight, Runtime!AfterRefusal, Runtime!Directories
  <2> QED
    BY <1>5, <2>1, <2>2 DEF Runtime!Preflight, Runtime!AfterRefusal
<1>6. CASE Runtime!WriteManifest
  <2> DEFINE old == runtimeStaging[version]
             new == [old EXCEPT !.manifest = TRUE]
  <2>1. runtimeStaging' = [runtimeStaging EXCEPT ![version] = new] /\ version \in Versions
    BY <1>6 DEF Runtime!WriteManifest
  <2>2. old \in Runtime!Directories
    BY <2>1
  <2>3. new \in Runtime!Directories
    BY ONLY <2>2, DirectoryChanges
  <2>4. runtimeStaging' \in [Versions -> Runtime!Directories]
    BY <2>1, <2>3
  <2>5. /\ new.manifest /\ new.here = old.here /\ new.whole = old.whole
        /\ new.tried = old.tried /\ new.from = old.from
    BY <2>2 DEF Runtime!Directories
  <2>6. Runtime!TypeOK' /\ Runtime!PublishedWasTried'
    BY <1>6, <2>4 DEF Runtime!WriteManifest
  <2>7. runtimeStaging'[version] = new /\ version' = version /\ runtimeStep' = "publish"
    BY <1>6, <2>1 DEF Runtime!WriteManifest
  <2>8. Attempt'
    BY <1>6, <2>1, <2>5, <2>7 DEF Runtime!WriteManifest
  <2> QED
    BY <2>6, <2>8
<1>7. CASE Runtime!Publish
  BY <1>0, <1>7 DEF Runtime!Publish, Runtime!MayPublish
<1>8. CASE Runtime!Fail
  BY <1>8 DEF Runtime!Fail
<1>9. CASE Runtime!CleanUp
  BY <1>0, <1>9 DEF Runtime!CleanUp
<1>10. CASE UNCHANGED runtimeVars
  BY <1>10 DEF runtimeVars
<1> QED
  BY <1>1, <1>2, <1>3, <1>4, <1>5, <1>6, <1>7, <1>8, <1>9, <1>10 DEF Runtime!Next

\* Only a rename onto a free version changes what is published.
LEMMA PublishedStep ==
  RuntimeInv /\ Runtime!Next =>
    \A v \in Versions : published[v].here => published'[v] = published[v]
  BY DEF RuntimeInv, Runtime!TypeOK, Runtime!Next, Runtime!Edit, Runtime!Begin,
     Runtime!Transfer, Runtime!TransferFails, Runtime!Preflight, Runtime!WriteManifest,
     Runtime!Publish, Runtime!MayPublish, Runtime!Fail, Runtime!CleanUp

-----------------------------------------------------------------------------
(* The three parts within the whole service *)

\* What the service does with a request, and what is done to its runtimes, is a
\* behaviour of RemoteProtocol and of RemoteRuntime, whichever part is in focus.
LEMMA RemoteStep ==
  [RemoteNext]_RemoteVars =>
    /\ UNCHANGED focus
    /\ [Protocol!Next]_wireVars /\ [Runtime!Next]_runtimeVars
    /\ focus # "update" => [Deploys!Next]_deployVars
    /\ focus = "update" => [Update!Next]_deployVars
<1> SUFFICES ASSUME [RemoteNext]_RemoteVars
             PROVE  /\ UNCHANGED focus
                    /\ [Protocol!Next]_wireVars /\ [Runtime!Next]_runtimeVars
                    /\ focus # "update" => [Deploys!Next]_deployVars
                    /\ focus = "update" => [Update!Next]_deployVars
  OBVIOUS
<1>1. CASE RemoteNext
  BY <1>1 DEF RemoteNext, UploadStep, SyncStep, PatchesStep, ProtocolStep, DeploysStep,
     UpdateStep, RuntimeStep, SocketStep
<1>2. CASE UNCHANGED RemoteVars
  BY <1>2 DEF RemoteVars
<1> QED
  BY <1>1, <1>2

\* The inductive invariant of the three parts, by the deployments that are in focus.
ServiceInv ==
  /\ ProtocolInv /\ RuntimeInv
  /\ focus # "update" => DeployInv
  /\ focus = "update" => UpdateInv

\* remote_agent_service.py on a request, deploy_remote_agent.py and
\* prepare_remote_runtime.py: their inductive invariants hold in every reachable state.
THEOREM ServiceInvCorrect == RemoteSpec => []ServiceInv
<1>1. RemoteInit => ServiceInv
  <2>1. RemoteInit => ProtocolInv
    <3>1. CASE focus = "protocol"
      BY <3>1, ProtocolInit DEF RemoteInit
    <3>2. CASE focus # "protocol"
      BY <3>2 DEF RemoteInit, ProtocolInv, Protocol!TypeOK, Protocol!Replies,
         Protocol!OkIsExecuted, Protocol!FailedIsOver, RunsValidated, LastWord,
         Protocol!Operations, Protocol!Expected
    <3> QED
      BY <3>1, <3>2
  <2> QED
    BY <2>1, RuntimeInit, DeployInit DEF RemoteInit, ServiceInv
<1>2. ServiceInv /\ [RemoteNext]_RemoteVars => ServiceInv'
  BY RemoteStep, ProtocolStepInv, RuntimeStepInv, DeployStepInv, UpdateStepInv DEF ServiceInv
<1> QED
  BY <1>1, <1>2, PTL DEF RemoteSpec

\* A handler only gets requests with every field it reads, in bounds; an "ok" is that of a
\* handler that returned, and after an error nothing of the request still runs.
THEOREM ProtocolTheorem == RemoteSpec => []ProtocolSafety
<1>1. ServiceInv => ProtocolSafety
  BY ProtocolInvSafe DEF ServiceInv
<1> QED
  BY <1>1, ServiceInvCorrect, PTL

\* After any number of deployments that fail at any step the service runs what has been
\* validated, on the runtime of its code, and a success is what runs; one update keeps a
\* validated copy whatever else the host does.
THEOREM DeployTheorem == RemoteSpec => []DeploySafety
<1>1. ServiceInv => DeploySafety
  <2>1. UpdateInv => Update!KeepsWorkingCopy
    BY DEF UpdateInv, CopyIsKept, Update!TypeOK, Update!KeepsWorkingCopy, Update!Steps
  <2> QED
    BY <2>1 DEF ServiceInv, DeployInv, UpdateInv, DeploySafety
<1> QED
  BY <1>1, ServiceInvCorrect, PTL

\* A published runtime is what its import check ran with, and never changes.
THEOREM RuntimeTheorem == RemoteSpec => RuntimeSafety
<1>1. ServiceInv => Runtime!TypeOK /\ Runtime!PublishedWasTried
  BY DEF ServiceInv, RuntimeInv
<1>2. ServiceInv /\ [RemoteNext]_RemoteVars =>
        [\A v \in Versions : published[v].here => published'[v] = published[v]]_Runtime!vars
  BY RemoteStep, PublishedStep DEF ServiceInv, Runtime!vars, runtimeVars
<1> QED
  BY <1>1, <1>2, ServiceInvCorrect, PTL DEF RemoteSpec, RuntimeSafety, Runtime!PublishedStays

-----------------------------------------------------------------------------
(* The socket, for any number of processes *)

\* Where a process is between AcquireLock and ReleaseLock.
Inside == {"probing", "binding", "serving", "stopping", "unlocking"}

\* A process that may bind, serve or remove the socket holds the lock.
HoldsLock == \A p \in Services : at[p] \in Inside => lock = p

\* The inductive invariant of the socket.
SocketInv == TypeOK /\ HoldsLock /\ ServingIsReachable

\* Initially no process is inside.
LEMMA SocketInit == Init => SocketInv
  BY ServiceAssumption DEF Init, SocketInv, TypeOK, HoldsLock, ServingIsReachable, Inside

\* One step of one process keeps the invariant.
LEMMA SocketStepInv == SocketInv /\ [Next]_vars => SocketInv'
<1> SUFFICES ASSUME SocketInv, [Next]_vars PROVE SocketInv'
  OBVIOUS
<1> USE ServiceAssumption DEF SocketInv, TypeOK, HoldsLock, ServingIsReachable, Inside, Goes
<1>1. CASE UNCHANGED vars
  BY <1>1 DEF vars
<1>2. CASE Next
  <2>1. PICK p \in Services : \/ Start(p) \/ AcquireLock(p) \/ ProbeSocket(p) \/ Bind(p)
                              \/ Interrupt(p) \/ RemoveSocket(p) \/ ReleaseLock(p) \/ Crash(p)
    BY <1>2 DEF Next
  <2>2. CASE Start(p)
    BY <2>2 DEF Start
  <2>3. CASE AcquireLock(p)
    BY <2>3 DEF AcquireLock, MayLock
  <2>4. CASE ProbeSocket(p)
    BY <2>4 DEF ProbeSocket, Released
  <2>5. CASE Bind(p)
    BY <2>5 DEF Bind
  <2>6. CASE Interrupt(p)
    BY <2>6 DEF Interrupt, Closed, HeldWhileStopping
  <2>7. CASE RemoveSocket(p)
    BY <2>7 DEF RemoveSocket
  <2>8. CASE ReleaseLock(p)
    BY <2>8 DEF ReleaseLock, Released
  <2>9. CASE Crash(p)
    BY <2>9 DEF Crash, Released
  <2> QED
    BY <2>1, <2>2, <2>3, <2>4, <2>5, <2>6, <2>7, <2>8, <2>9
<1> QED
  BY <1>1, <1>2

\* remote_agent_service.py, start and end of the service: from AcquireLock to ReleaseLock a
\* process holds the lock, whoever else starts, ends or crashes.
THEOREM SocketInvCorrect == Spec => []SocketInv
  BY SocketInit, SocketStepInv, PTL DEF Spec

\* Types, and only processes that serve listen.
THEOREM SocketTypes == Spec => []TypeOK
  BY SocketInvCorrect, PTL DEF SocketInv

\* remote_agent_service.py:149: two processes never serve at a time.
THEOREM OneServiceTheorem == Spec => []OneService
<1>1. SocketInv => OneService
  BY DEF SocketInv, HoldsLock, OneService, Inside
<1> QED
  BY <1>1, SocketInvCorrect, PTL

\* remote_agent_service.py:149: a service that serves can be reached.
THEOREM ReachableTheorem == Spec => []ServingIsReachable
  BY SocketInvCorrect, PTL DEF SocketInv
\* What RemoteSystem does to lock, socket file and listeners is a behaviour of ServiceSocket.
THEOREM SocketIsPart == RemoteSpec => Spec
<1>1. RemoteInit => Init
  BY DEF RemoteInit
<1>2. [RemoteNext]_RemoteVars => [Next]_vars
  <2> SUFFICES ASSUME [RemoteNext]_RemoteVars PROVE [Next]_vars
    OBVIOUS
  <2>1. CASE RemoteNext
    BY <2>1 DEF RemoteNext, UploadStep, SyncStep, PatchesStep, ProtocolStep, DeploysStep,
       UpdateStep, RuntimeStep, SocketStep
  <2>2. CASE UNCHANGED RemoteVars
    BY <2>2 DEF RemoteVars
  <2> QED
    BY <2>1, <2>2
<1> QED
  BY <1>1, <1>2, PTL DEF RemoteSpec, Spec
=============================================================================
