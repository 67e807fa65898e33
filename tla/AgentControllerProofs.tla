----------------------- MODULE AgentControllerProofs -----------------------
(***************************************************************************)
(* Proofs about AgentController, for any set of agents and commits, any    *)
(* bound on the queue and any way in which worker processes end.           *)
(***************************************************************************)
EXTENDS AgentController, TLAPS

\* A step keeps the type of every variable. The head that _submit_patch exports and
\* records is one the worker sent: this takes SubmissionIsKept.
LEMMA TypeStep == IndInv /\ [Next]_vars => TypeOK'
<1> SUFFICES ASSUME IndInv, [Next]_vars PROVE TypeOK'
  OBVIOUS
<1> TypeOK
  BY DEF IndInv
<1> USE ControllerAssumption
    DEF TypeOK, RecordStates, Locations, Reports, TerminalStates,
        durable, startup, memory, worker
<1>1. ASSUME NEW a \in Agents, WorkerStep(a) PROVE TypeOK'
  <2>1. CASE ReportState(a) BY <2>1 DEF ReportState
  <2>2. CASE SubmitPatch(a) BY <2>2 DEF SubmitPatch
  <2>3. CASE AwaitCommand(a) BY <2>3 DEF AwaitCommand
  <2>4. CASE WorkerExit(a) BY <2>4 DEF WorkerExit, ProcessEnds
  <2> QED BY <1>1, <2>1, <2>2, <2>3, <2>4 DEF WorkerStep
<1>2. ASSUME NEW a \in Agents, ControllerStep(a) PROVE TypeOK'
  <2>1. CASE SpawnWorker(a) BY <2>1 DEF SpawnWorker
  <2>2. CASE RegisterRuntime(a) BY <2>2 DEF RegisterRuntime, ReleaseGuard
  <2>3. CASE FailStart(a) BY <2>3 DEF FailStart, ReleaseGuard
  <2>4. CASE HandleUpdateState(a) BY <2>4 DEF HandleUpdateState, AcceptsReport, AfterReport
  <2>5. CASE LoseRequest(a) BY <2>5 DEF LoseRequest
  <2>6. CASE ExportPatch(a)
    <3>1. rpcHead[a] \in Heads
      BY <2>6 DEF ExportPatch, IndInv, AgentInv, SubmissionIsKept
    <3> QED BY <2>6, <3>1 DEF ExportPatch
  <2>7. CASE RecordSubmission(a) BY <2>7 DEF RecordSubmission
  <2>8. CASE FailSubmission(a) BY <2>8 DEF FailSubmission
  <2>9. CASE KillWorker(a) BY <2>9 DEF KillWorker, ProcessEnds
  <2>10. CASE MonitorProcess(a) BY <2>10 DEF MonitorProcess
  <2>11. CASE RuntimeLimit(a) BY <2>11 DEF RuntimeLimit
  <2>12. CASE TerminateWorker(a) BY <2>12 DEF TerminateWorker
  <2>13. CASE StopReturns(a) BY <2>13 DEF StopReturns
  <2> QED BY <1>2, <2>1, <2>2, <2>3, <2>4, <2>5, <2>6, <2>7, <2>8, <2>9,
             <2>10, <2>11, <2>12, <2>13 DEF ControllerStep
<1>3. ASSUME NEW a \in Agents, OperatorStep(a) PROVE TypeOK'
  <2>1. CASE StartAgent(a) BY <2>1 DEF StartAgent, CreateRecord
  <2>2. CASE StopAgent(a) BY <2>2 DEF StopAgent, BeginStop
  <2>3. CASE StopInactive(a) BY <2>3 DEF StopInactive
  <2>4. CASE BulkStop(a) BY <2>4 DEF BulkStop, StopAgent, BeginStop
  <2>5. CASE ContinueLive(a) BY <2>5 DEF ContinueLive
  <2>6. CASE Acknowledge(a) BY <2>6 DEF Acknowledge
  <2>7. CASE Reject(a) BY <2>7 DEF Reject
  <2>8. CASE Reap(a) BY <2>8 DEF Reap
  <2> QED BY <1>3, <2>1, <2>2, <2>3, <2>4, <2>5, <2>6, <2>7, <2>8 DEF OperatorStep
<1>4. ASSUME NEW a \in Agents, NEW c \in Agents, Recover(a, c) PROVE TypeOK'
  <2>1. restarting' \subseteq Agents
    BY <1>4 DEF Recover
  <2>2. UNCHANGED <<submittedHead, acknowledged, rejected, parent, exported, memory, worker>>
    BY <1>4 DEF Recover, CreateRecord
  <2>3. /\ state' = [state EXCEPT ![c] = "starting"]
        /\ snapshot' = [snapshot EXCEPT ![c] = TRUE]
        /\ starting' = [starting EXCEPT ![c] = "created"]
        /\ source' = [source EXCEPT ![c] = a]
    BY <1>4 DEF Recover, CreateRecord
  <2> QED BY <2>1, <2>2, <2>3
<1>5. ASSUME NEW a \in Agents, NEW c \in Agents, BulkRestart(a, c) PROVE TypeOK'
  BY <1>4, <1>5 DEF BulkRestart
<1>6. CASE Shutdown BY <1>6 DEF Shutdown, BeginStop
<1>7. CASE ControllerRestart BY <1>7 DEF ControllerRestart, Reinitialise, StateAfterRestart
<1>8. ASSUME NEW a \in Agents, CrashInReap(a) PROVE TypeOK'
  BY <1>8 DEF CrashInReap, Reinitialise, StateAfterRestart
<1>9. CASE UNCHANGED vars BY <1>9 DEF vars
<1> QED BY <1>1, <1>2, <1>3, <1>4, <1>5, <1>6, <1>7, <1>8, <1>9 DEF Next

\* A step keeps what ties the variables of one agent together.
LEMMA AgentStep == IndInv /\ [Next]_vars => \A b \in Agents : AgentInv(b)'
<1> SUFFICES ASSUME IndInv, [Next]_vars, NEW b \in Agents PROVE AgentInv(b)'
  OBVIOUS
<1> TypeOK /\ \A a \in Agents : AgentInv(a)
  BY DEF IndInv
<1> USE ControllerAssumption
    DEF TypeOK, RecordStates, Locations, Reports, TerminalStates,
        durable, startup, memory, worker, Exists, Undecided,
        AgentInv, UnusedIsIdle, StartIsFresh, WorkIsManaged, RuntimeHasRecord,
        SubmissionIsKept, WorkerIsSafe
<1>0. ASSUME NEW S \in SUBSET Agents, BeginStop(S) PROVE AgentInv(b)'
  <2>1. CASE b \in S
    <3>1. state'[b] = "stopping" /\ runtime'[b]
      BY <1>0, <2>1 DEF BeginStop
    <3>2. starting[b] = "no" /\ state[b] # "unused"
      BY <1>0, <2>1 DEF BeginStop
    <3>3. UNCHANGED <<submittedHead, acknowledged, rejected, snapshot, exported,
                      starting, monitor, process, pc, rpc, rpcHead>>
      BY <1>0 DEF BeginStop
    <3>4. Exists(b) /\ Exists(b)'
      BY <1>0, <2>1, <3>1 DEF BeginStop
    <3>5. UnusedIsIdle(b)' /\ WorkIsManaged(b)' /\ RuntimeHasRecord(b)' /\ WorkerIsSafe(b)'
      BY <3>1, <3>3
    <3>6. StartIsFresh(b)' /\ SubmissionIsKept(b)'
      BY <3>2, <3>3, <3>4
    <3> QED BY <3>5, <3>6
  <2>2. CASE b \notin S BY <1>0, <2>2 DEF BeginStop
  <2> QED BY <2>1, <2>2
<1>1. ASSUME NEW a \in Agents, WorkerStep(a) PROVE AgentInv(b)'
  <2>1. CASE ReportState(a) BY <2>1 DEF ReportState, CanSend
  <2>2. CASE SubmitPatch(a) BY <2>2 DEF SubmitPatch, CanSend
  <2>3. CASE AwaitCommand(a) BY <2>3 DEF AwaitCommand
  <2>4. CASE WorkerExit(a) BY <2>4 DEF WorkerExit, ProcessEnds
  <2> QED BY <1>1, <2>1, <2>2, <2>3, <2>4 DEF WorkerStep
<1>2. ASSUME NEW a \in Agents, ControllerStep(a) PROVE AgentInv(b)'
  <2>1. CASE SpawnWorker(a) BY <2>1 DEF SpawnWorker
  <2>2. CASE RegisterRuntime(a) BY <2>2 DEF RegisterRuntime, ReleaseGuard
  <2>3. CASE FailStart(a) BY <2>3 DEF FailStart, ReleaseGuard
  <2>4. CASE HandleUpdateState(a) BY <2>4 DEF HandleUpdateState, AcceptsReport, AfterReport
  <2>5. CASE LoseRequest(a) BY <2>5 DEF LoseRequest
  <2>6. CASE ExportPatch(a) BY <2>6 DEF ExportPatch
  <2>7. CASE RecordSubmission(a) BY <2>7 DEF RecordSubmission
  <2>8. CASE FailSubmission(a) BY <2>8 DEF FailSubmission
  <2>9. CASE KillWorker(a) BY <2>9 DEF KillWorker, ProcessEnds
  <2>10. CASE MonitorProcess(a)
    <3>1. CASE b # a BY <2>10, <3>1 DEF MonitorProcess
    <3>2. CASE b = a
      <4>1. state'[a] \in {"stopped", "failed", "halted"}
        BY <2>10 DEF MonitorProcess
      <4>2. starting[a] = "no" /\ process[a] # "live" /\ Exists(a)
        BY <2>10 DEF MonitorProcess
      <4>3. UNCHANGED <<submittedHead, acknowledged, rejected, snapshot, exported,
                        starting, runtime, process, pc, rpc, rpcHead>>
        BY <2>10 DEF MonitorProcess
      <4>4. RuntimeHasRecord(a)'
        BY <2>10, <4>1 DEF MonitorProcess
      <4>5. UnusedIsIdle(a)' /\ StartIsFresh(a)' /\ WorkerIsSafe(a)'
        BY <4>1, <4>2, <4>3
      <4>6. WorkIsManaged(a)' /\ SubmissionIsKept(a)'
        BY <4>1, <4>2, <4>3
      <4> QED BY <3>2, <4>4, <4>5, <4>6
    <3> QED BY <3>1, <3>2
  <2>11. CASE RuntimeLimit(a) BY <2>11 DEF RuntimeLimit, Live
  <2>12. CASE TerminateWorker(a) BY <2>12 DEF TerminateWorker
  <2>13. CASE StopReturns(a) BY <2>13 DEF StopReturns
  <2> QED BY <1>2, <2>1, <2>2, <2>3, <2>4, <2>5, <2>6, <2>7, <2>8, <2>9, <2>10, <2>11, <2>12, <2>13 DEF ControllerStep
<1>3. ASSUME NEW a \in Agents, OperatorStep(a) PROVE AgentInv(b)'
  <2>1. CASE StartAgent(a) BY <2>1 DEF StartAgent, CreateRecord
  <2>2. CASE StopAgent(a) BY <2>2, <1>0 DEF StopAgent
  <2>3. CASE StopInactive(a) BY <2>3 DEF StopInactive
  <2>4. CASE BulkStop(a) BY <2>4, <1>0 DEF BulkStop, StopAgent
  <2>5. CASE ContinueLive(a) BY <2>5 DEF ContinueLive, Live
  <2>6. CASE Acknowledge(a) BY <2>6 DEF Acknowledge
  <2>7. CASE Reject(a) BY <2>7 DEF Reject
  <2>8. CASE Reap(a) BY <2>8 DEF Reap, Reapable, Live
  <2> QED BY <1>3, <2>1, <2>2, <2>3, <2>4, <2>5, <2>6, <2>7, <2>8 DEF OperatorStep
<1>4. ASSUME NEW a \in Agents, NEW c \in Agents, Recover(a, c) PROVE AgentInv(b)'
  <2>1. state[c] = "unused"
    BY <1>4 DEF Recover, CreateRecord
  <2>2. UNCHANGED <<submittedHead, acknowledged, rejected, exported, memory, worker>>
    BY <1>4 DEF Recover, CreateRecord
  <2>3. /\ state' = [state EXCEPT ![c] = "starting"]
        /\ snapshot' = [snapshot EXCEPT ![c] = TRUE]
        /\ starting' = [starting EXCEPT ![c] = "created"]
    BY <1>4 DEF Recover, CreateRecord
  <2>4. CASE b = c BY <2>1, <2>2, <2>3, <2>4
  <2>5. CASE b # c BY <2>2, <2>3, <2>5
  <2> QED BY <2>4, <2>5
<1>5. ASSUME NEW a \in Agents, NEW c \in Agents, BulkRestart(a, c) PROVE AgentInv(b)'
  BY <1>4, <1>5 DEF BulkRestart
<1>6. CASE Shutdown BY <1>6, <1>0 DEF Shutdown
<1>7. CASE ControllerRestart BY <1>7 DEF ControllerRestart, Reinitialise, StateAfterRestart
<1>8. ASSUME NEW a \in Agents, CrashInReap(a) PROVE AgentInv(b)'
  BY <1>8 DEF CrashInReap, Reinitialise, StateAfterRestart, Reapable
<1>9. CASE UNCHANGED vars BY <1>9 DEF vars
<1> QED BY <1>1, <1>2, <1>3, <1>4, <1>5, <1>6, <1>7, <1>8, <1>9 DEF Next

-----------------------------------------------------------------------------
\* Only these steps start or end a recovery; the guard is taken before the agent that
\* recovers exists, and is given back by the step that ends the start_agent call.
LEMMA RecoveryStep == IndInv /\ [Next]_vars => RecoveryIsGuarded'
<1> SUFFICES ASSUME IndInv, [Next]_vars PROVE RecoveryIsGuarded'
  OBVIOUS
<1> TypeOK /\ RecoveryIsGuarded /\ \A a \in Agents : AgentInv(a)
  BY DEF IndInv
<1> USE ControllerAssumption DEF TypeOK, RecoveryIsGuarded, OneRecoveryAtATime
<1>1. CASE UNCHANGED <<source, restarting>> BY <1>1
<1>2. ASSUME NEW a \in Agents, NEW q \in Agents \cup {NoAgent},
             source' = [source EXCEPT ![a] = NoAgent],
             restarting' = restarting \ {q}, q = source[a]
      PROVE RecoveryIsGuarded'
  <2>1. \A c \in Agents : source'[c] # NoAgent => c # a /\ source'[c] = source[c]
    BY <1>2
  <2> QED BY <1>2, <2>1
<1>3. ASSUME NEW c \in Agents, StartAgent(c) PROVE RecoveryIsGuarded'
  <2>1. source' = [source EXCEPT ![c] = NoAgent] /\ restarting' = restarting
    BY <1>3 DEF StartAgent, CreateRecord
  <2> QED BY <2>1
<1>4. ASSUME NEW a \in Agents, NEW c \in Agents, Recover(a, c) PROVE RecoveryIsGuarded'
  <2>1. /\ a \notin restarting
        /\ restarting' = restarting \cup {a}
        /\ source' = [source EXCEPT ![c] = a]
    BY <1>4 DEF Recover, CreateRecord
  <2>2. \A d \in Agents : source[d] # a
    BY <2>1
  <2> QED BY <2>1, <2>2
<1>5. CASE Reinitialise
  <2>1. \A a \in Agents : source'[a] = NoAgent
    BY <1>5 DEF Reinitialise, StateAfterRestart
  <2> QED BY <2>1
<1>6. ASSUME NEW a \in Agents, WorkerStep(a) PROVE RecoveryIsGuarded'
  BY <1>6, <1>1 DEF WorkerStep, ReportState, SubmitPatch, AwaitCommand, WorkerExit,
                    ProcessEnds, startup
<1>7. ASSUME NEW a \in Agents, ControllerStep(a) PROVE RecoveryIsGuarded'
  <2>1. CASE RegisterRuntime(a) BY <2>1, <1>2 DEF RegisterRuntime, ReleaseGuard
  <2>2. CASE FailStart(a) BY <2>2, <1>2 DEF FailStart, ReleaseGuard
  <2>3. CASE SpawnWorker(a) BY <2>3, <1>1 DEF SpawnWorker
  <2>4. CASE HandleUpdateState(a) \/ LoseRequest(a) \/ ExportPatch(a)
             \/ RecordSubmission(a) \/ FailSubmission(a)
    BY <2>4, <1>1 DEF HandleUpdateState, AcceptsReport, LoseRequest, ExportPatch, RecordSubmission,
                      FailSubmission, startup
  <2>5. CASE KillWorker(a) \/ MonitorProcess(a) \/ RuntimeLimit(a)
             \/ TerminateWorker(a) \/ StopReturns(a)
    BY <2>5, <1>1 DEF KillWorker, ProcessEnds, MonitorProcess, RuntimeLimit,
                      TerminateWorker, StopReturns, startup
  <2> QED BY <1>7, <2>1, <2>2, <2>3, <2>4, <2>5 DEF ControllerStep
<1>8. ASSUME NEW a \in Agents, OperatorStep(a) PROVE RecoveryIsGuarded'
  <2>1. CASE StartAgent(a) BY <2>1, <1>3
  <2>2. CASE StopAgent(a) \/ StopInactive(a) \/ BulkStop(a)
    BY <2>2, <1>1 DEF StopAgent, BulkStop, BeginStop, StopInactive, startup
  <2>3. CASE ContinueLive(a) \/ Acknowledge(a) \/ Reject(a) \/ Reap(a)
    BY <2>3, <1>1 DEF ContinueLive, Acknowledge, Reject, Reap, startup
  <2> QED BY <1>8, <2>1, <2>2, <2>3 DEF OperatorStep
<1>9. ASSUME NEW a \in Agents, NEW c \in Agents, BulkRestart(a, c)
      PROVE RecoveryIsGuarded'
  BY <1>9, <1>4 DEF BulkRestart
<1>10. CASE Shutdown BY <1>10, <1>1 DEF Shutdown, BeginStop, startup
<1>11. CASE ControllerRestart BY <1>11, <1>5 DEF ControllerRestart
<1>12. ASSUME NEW a \in Agents, CrashInReap(a) PROVE RecoveryIsGuarded'
  BY <1>12, <1>5 DEF CrashInReap
<1>13. CASE UNCHANGED vars BY <1>13, <1>1 DEF vars, startup
<1> QED BY <1>4, <1>6, <1>7, <1>8, <1>9, <1>10, <1>11, <1>12, <1>13 DEF Next

\* The inductive invariant: every other theorem below follows from it.
THEOREM IndInvCorrect == Spec => []IndInv
<1>1. Init => IndInv
  <2> SUFFICES ASSUME Init PROVE IndInv
    OBVIOUS
  <2>1. TypeOK
    BY ControllerAssumption DEF Init, TypeOK, RecordStates, Locations, Reports
  <2>2. ASSUME NEW a \in Agents PROVE AgentInv(a)
    BY <2>2 DEF Init, AgentInv, UnusedIsIdle, StartIsFresh, WorkIsManaged, Exists,
                RecordStates, RuntimeHasRecord, SubmissionIsKept, Undecided, WorkerIsSafe
  <2>3. RecoveryIsGuarded
    BY DEF Init, RecoveryIsGuarded, OneRecoveryAtATime
  <2> QED BY <2>1, <2>2, <2>3 DEF IndInv
<1>2. IndInv /\ [Next]_vars => IndInv'
  BY TypeStep, AgentStep, RecoveryStep DEF IndInv
<1> QED BY <1>1, <1>2, PTL DEF Spec

\* Every variable of every agent keeps its type: each step writes only states, heads,
\* locations and request names that the code knows.
THEOREM TypeCorrect == Spec => []TypeOK
<1>1. IndInv => TypeOK
  BY DEF IndInv
<1> QED BY <1>1, IndInvCorrect, PTL
-----------------------------------------------------------------------------
(* The safety properties *)

\* No step of reaping, of a failed start or of a crash takes the snapshot from under a
\* live worker (_reap_agent, the except branch of start_agent).
THEOREM SnapshotTheorem == Spec => []LiveWorkerHasSnapshot
<1>1. IndInv => LiveWorkerHasSnapshot
  BY DEF IndInv, AgentInv, WorkerIsSafe, LiveWorkerHasSnapshot
<1> QED BY <1>1, IndInvCorrect, PTL

\* A live worker is in _runtimes or belongs to a start_agent call: stop_agent and
\* shutdown find it, or that call registers or kills it.
THEOREM ManagedTheorem == Spec => []LiveWorkerIsManaged
<1>1. IndInv => LiveWorkerIsManaged
  BY DEF IndInv, AgentInv, WorkIsManaged, LiveWorkerIsManaged
<1> QED BY <1>1, IndInvCorrect, PTL

\* No record says "running" once its agent is out of _runtimes, not even after a crash
\* at any point and whatever reports were in the controller's buffers.
THEOREM RunningTheorem == Spec => []RunningIsManaged
<1>1. IndInv => RunningIsManaged
  BY DEF IndInv, AgentInv, WorkIsManaged, RunningIsManaged
<1> QED BY <1>1, IndInvCorrect, PTL

\* "stopped" and "failed" mean that no worker of the agent is alive.
THEOREM TerminalTheorem == Spec => []TerminalMeansDead
<1>1. IndInv => TerminalMeansDead
  BY DEF IndInv, AgentInv, WorkerIsSafe, TerminalMeansDead
<1> QED BY <1>1, IndInvCorrect, PTL

\* _submit_patch records only what the callback has exported before.
THEOREM ExportTheorem == Spec => []SubmissionIsExported
<1>1. IndInv => SubmissionIsExported
  BY DEF IndInv, AgentInv, SubmissionIsKept, SubmissionIsExported
<1> QED BY <1>1, IndInvCorrect, PTL

\* _restarting_agents excludes two recoveries of one agent at a time.
THEOREM RecoveryTheorem == Spec => []OneRecoveryAtATime
<1>1. IndInv => OneRecoveryAtATime
  BY DEF IndInv, RecoveryIsGuarded
<1> QED BY <1>1, IndInvCorrect, PTL

\* The steps that leave the record and the snapshot of every agent alone.
LEMMA SilentSteps ==
  ASSUME NEW a \in Agents,
         \/ WorkerStep(a)
         \/ SpawnWorker(a) \/ LoseRequest(a) \/ FailSubmission(a)
         \/ KillWorker(a) \/ TerminateWorker(a) \/ StopReturns(a)
  PROVE  UNCHANGED <<state, submittedHead, acknowledged, rejected, snapshot>>
BY DEF WorkerStep, ReportState, SubmitPatch, AwaitCommand, WorkerExit, ProcessEnds,
       SpawnWorker, LoseRequest, FailSubmission, KillWorker, TerminateWorker,
       StopReturns, durable

\* Submitted work is safe until the operator has decided about exactly this head: a
\* decision about an earlier head of the same agent does not open the way for reaping.
THEOREM UndecidedTheorem == Spec => UndecidedWorkPreserved
<1>1. ASSUME IndInv, Next, NEW b \in Agents, Undecided(b) PROVE UndecidedKept(b)
  <2>1. /\ TypeOK
        /\ Exists(b) /\ submittedHead[b] # NoHead /\ snapshot[b]
        /\ starting[b] = "no" /\ state[b] # "unused"
    BY <1>1 DEF IndInv, AgentInv, SubmissionIsKept, StartIsFresh, Undecided, Exists,
                RecordStates
  <2> USE <2>1 DEF TypeOK, Exists, RecordStates, UndecidedKept
  <2>2. CASE UNCHANGED <<state, submittedHead, snapshot>> BY <2>2
  <2>3. ASSUME NEW S \in SUBSET Agents, BeginStop(S) PROVE UndecidedKept(b)
    BY <2>3 DEF BeginStop
  <2>4. ASSUME NEW c \in Agents, NEW p, CreateRecord(c, p) PROVE UndecidedKept(b)
    BY <2>4 DEF CreateRecord
  <2>5. CASE Reinitialise /\ snapshot'[b] BY <2>5 DEF Reinitialise, StateAfterRestart
  <2>6. ASSUME NEW a \in Agents, WorkerStep(a) PROVE UndecidedKept(b)
    BY <2>6, <2>2, SilentSteps
  <2>7. ASSUME NEW a \in Agents, ControllerStep(a) PROVE UndecidedKept(b)
    <3>1. CASE RegisterRuntime(a) BY <3>1 DEF RegisterRuntime, ReleaseGuard
    <3>2. CASE FailStart(a) BY <3>2 DEF FailStart, ReleaseGuard
    <3>3. CASE HandleUpdateState(a) BY <3>3 DEF HandleUpdateState, AcceptsReport, Reports
    <3>4. CASE ExportPatch(a) BY <3>4, <2>2 DEF ExportPatch
    <3>5. CASE RecordSubmission(a)
      <4>1. rpcHead[a] # NoHead
        BY <3>5, <1>1, ControllerAssumption
           DEF RecordSubmission, IndInv, AgentInv, SubmissionIsKept
      <4> QED BY <3>5, <4>1 DEF RecordSubmission
    <3>6. CASE MonitorProcess(a) BY <3>6 DEF MonitorProcess
    <3>7. CASE RuntimeLimit(a) BY <3>7 DEF RuntimeLimit
    <3> QED BY <2>7, <2>2, SilentSteps, <3>1, <3>2, <3>3, <3>4, <3>5, <3>6, <3>7
            DEF ControllerStep
  <2>8. ASSUME NEW a \in Agents, OperatorStep(a) PROVE UndecidedKept(b)
    <3>1. CASE StartAgent(a) BY <3>1, <2>4 DEF StartAgent
    <3>2. CASE StopAgent(a) \/ BulkStop(a) BY <3>2, <2>3 DEF StopAgent, BulkStop
    <3>3. CASE StopInactive(a) BY <3>3 DEF StopInactive
    <3>4. CASE ContinueLive(a) BY <3>4 DEF ContinueLive
    <3>5. CASE Acknowledge(a) \/ Reject(a) BY <3>5, <2>2 DEF Acknowledge, Reject
    <3>6. CASE Reap(a)
      <4>1. a # b
        BY <3>6, <1>1 DEF Reap, Reapable
      <4> QED BY <3>6, <4>1 DEF Reap
    <3> QED BY <2>8, <3>1, <3>2, <3>3, <3>4, <3>5, <3>6 DEF OperatorStep
  <2>9. ASSUME NEW a \in Agents, NEW c \in Agents, Recover(a, c) \/ BulkRestart(a, c)
        PROVE UndecidedKept(b)
    BY <2>9, <2>4 DEF Recover, BulkRestart
  <2>10. CASE Shutdown BY <2>10, <2>3 DEF Shutdown
  <2>11. CASE ControllerRestart BY <2>11, <2>5 DEF ControllerRestart
  <2>12. ASSUME NEW a \in Agents, CrashInReap(a) PROVE UndecidedKept(b)
    <3>1. a # b
      BY <2>12, <1>1 DEF CrashInReap, Reapable
    <3>2. snapshot'[b]
      BY <2>12, <3>1 DEF CrashInReap
    <3> QED BY <2>12, <3>2, <2>5 DEF CrashInReap
  <2> QED BY <1>1, <2>6, <2>7, <2>8, <2>9, <2>10, <2>11, <2>12 DEF Next
<1>2. IndInv /\ [Next]_vars => [\A a \in Agents : UndecidedKept(a)]_vars
  BY <1>1 DEF UndecidedKept
<1> QED BY <1>2, IndInvCorrect, PTL DEF Spec, UndecidedWorkPreserved

\* A report that was under way when the worker was stopped or failed cannot revive the
\* agent: _update_state refuses it, and nobody else leaves a terminal state but a new
\* stop_agent call, a submission under way and the reaper.
THEOREM TerminalStaysTheorem == Spec => TerminalStaysTerminal
<1> DEFINE Left(b) ==
      state'[b] \in TerminalStates \cup {"stopping", "awaiting_review", "removed"}
<1>1. ASSUME IndInv, Next, NEW b \in Agents, state[b] \in TerminalStates PROVE Left(b)
  <2>1. /\ TypeOK
        /\ starting[b] = "no" /\ process[b] # "live" /\ state[b] # "unused"
    BY <1>1 DEF IndInv, AgentInv, StartIsFresh, WorkerIsSafe, TerminalStates
  <2> USE <1>1, <2>1 DEF TypeOK, TerminalStates
  <2>2. CASE UNCHANGED state BY <2>2
  <2>3. ASSUME NEW S \in SUBSET Agents, BeginStop(S) PROVE Left(b)
    BY <2>3 DEF BeginStop
  <2>4. ASSUME NEW c \in Agents, NEW p, CreateRecord(c, p) PROVE Left(b)
    BY <2>4 DEF CreateRecord
  <2>5. CASE Reinitialise BY <2>5 DEF Reinitialise, StateAfterRestart
  <2>6. ASSUME NEW a \in Agents, WorkerStep(a) PROVE Left(b)
    BY <2>6, <2>2, SilentSteps
  <2>7. ASSUME NEW a \in Agents, ControllerStep(a) PROVE Left(b)
    <3>1. CASE RegisterRuntime(a) BY <3>1 DEF RegisterRuntime, ReleaseGuard
    <3>2. CASE FailStart(a) BY <3>2 DEF FailStart, ReleaseGuard
    <3>3. CASE HandleUpdateState(a) BY <3>3 DEF HandleUpdateState, AcceptsReport
    <3>4. CASE ExportPatch(a) BY <3>4, <2>2 DEF ExportPatch
    <3>5. CASE RecordSubmission(a) BY <3>5 DEF RecordSubmission
    <3>6. CASE MonitorProcess(a) BY <3>6 DEF MonitorProcess
    <3>7. CASE RuntimeLimit(a) BY <3>7 DEF RuntimeLimit
    <3> QED BY <2>7, <2>2, SilentSteps, <3>1, <3>2, <3>3, <3>4, <3>5, <3>6, <3>7
            DEF ControllerStep
  <2>8. ASSUME NEW a \in Agents, OperatorStep(a) PROVE Left(b)
    <3>1. CASE StartAgent(a) BY <3>1, <2>4 DEF StartAgent
    <3>2. CASE StopAgent(a) \/ BulkStop(a) BY <3>2, <2>3 DEF StopAgent, BulkStop
    <3>3. CASE StopInactive(a) BY <3>3 DEF StopInactive
    <3>4. CASE ContinueLive(a) BY <3>4 DEF ContinueLive, Live
    <3>5. CASE Acknowledge(a) \/ Reject(a) BY <3>5, <2>2 DEF Acknowledge, Reject
    <3>6. CASE Reap(a) BY <3>6 DEF Reap
    <3> QED BY <2>8, <3>1, <3>2, <3>3, <3>4, <3>5, <3>6 DEF OperatorStep
  <2>9. ASSUME NEW a \in Agents, NEW c \in Agents, Recover(a, c) \/ BulkRestart(a, c)
        PROVE Left(b)
    BY <2>9, <2>4 DEF Recover, BulkRestart
  <2>10. CASE Shutdown BY <2>10, <2>3 DEF Shutdown
  <2>11. CASE ControllerRestart BY <2>11, <2>5 DEF ControllerRestart
  <2>12. ASSUME NEW a \in Agents, CrashInReap(a) PROVE Left(b)
    BY <2>12, <2>5 DEF CrashInReap
  <2> QED BY <1>1, <2>6, <2>7, <2>8, <2>9, <2>10, <2>11, <2>12 DEF Next
<1>2. IndInv /\ [Next]_vars => [\A a \in Agents : state[a] \in TerminalStates =>
         state'[a] \in TerminalStates \cup {"stopping", "awaiting_review", "removed"}]_vars
  BY <1>1
<1> QED BY <1>2, IndInvCorrect, PTL DEF Spec, TerminalStaysTerminal
-----------------------------------------------------------------------------
(* The dialogue of worker and controller *)

\* A step keeps the dialogue of each agent consistent.
LEMMA DialogueStep == IndInv /\ DialogueInv /\ [Next]_vars => DialogueInv'
<1> DEFINE Dialogue(b) ==
      /\ ReportFits(b)
      /\ EndIsSettled(b)
      /\ Live(b) /\ state[b] = "review_received" => commands[b] > 0 \/ pc[b] = "resuming"
      /\ Live(b) /\ pc[b] = "waiting" /\ commands[b] = 0 /\ ~stopRequested[b]
           => state[b] \in {"halted", "awaiting_review"}
<1> SUFFICES ASSUME IndInv, DialogueInv, [Next]_vars, NEW b \in Agents
             PROVE  Dialogue(b)'
  BY DEF DialogueInv, FeedbackNotLost, IdleWorkerContinuable
<1> /\ TypeOK
    /\ \A a \in Agents : /\ UnusedIsIdle(a) /\ StartIsFresh(a) /\ WorkIsManaged(a)
                         /\ RuntimeHasRecord(a) /\ WorkerIsSafe(a)
    /\ \A a \in Agents : Dialogue(a)
  BY DEF IndInv, AgentInv, DialogueInv, FeedbackNotLost, IdleWorkerContinuable
<1> USE ControllerAssumption
    DEF TypeOK, RecordStates, Locations, Reports, TerminalStates,
        durable, startup, memory, worker, Exists, Live, ReportFits, EndIsSettled,
        UnusedIsIdle, StartIsFresh, WorkIsManaged, RuntimeHasRecord, WorkerIsSafe
<1>0. ASSUME NEW S \in SUBSET Agents, BeginStop(S) PROVE Dialogue(b)'
  <2>1. CASE b \in S BY <1>0, <2>1 DEF BeginStop
  <2>2. CASE b \notin S BY <1>0, <2>2 DEF BeginStop
  <2> QED BY <2>1, <2>2
<1>1. ASSUME NEW a \in Agents, WorkerStep(a) PROVE Dialogue(b)'
  <2>1. CASE ReportState(a) BY <2>1 DEF ReportState, CanSend
  <2>2. CASE SubmitPatch(a) BY <2>2 DEF SubmitPatch, CanSend
  <2>3. CASE AwaitCommand(a) BY <2>3 DEF AwaitCommand
  <2>4. CASE WorkerExit(a) BY <2>4 DEF WorkerExit, ProcessEnds
  <2> QED BY <1>1, <2>1, <2>2, <2>3, <2>4 DEF WorkerStep
<1>2. ASSUME NEW a \in Agents, ControllerStep(a) PROVE Dialogue(b)'
  <2>1. CASE SpawnWorker(a) BY <2>1 DEF SpawnWorker
  <2>2. CASE RegisterRuntime(a) BY <2>2 DEF RegisterRuntime, ReleaseGuard
  <2>3. CASE FailStart(a) BY <2>3 DEF FailStart, ReleaseGuard
  <2>4. CASE HandleUpdateState(a) BY <2>4 DEF HandleUpdateState, AcceptsReport, AfterReport
  <2>5. CASE LoseRequest(a) BY <2>5 DEF LoseRequest
  <2>6. CASE ExportPatch(a) BY <2>6 DEF ExportPatch
  <2>7. CASE RecordSubmission(a) BY <2>7 DEF RecordSubmission
  <2>8. CASE FailSubmission(a) BY <2>8 DEF FailSubmission
  <2>9. CASE KillWorker(a) BY <2>9 DEF KillWorker, ProcessEnds
  <2>10. CASE MonitorProcess(a) BY <2>10 DEF MonitorProcess
  <2>11. CASE RuntimeLimit(a) BY <2>11 DEF RuntimeLimit
  <2>12. CASE TerminateWorker(a) BY <2>12 DEF TerminateWorker
  <2>13. CASE StopReturns(a) BY <2>13 DEF StopReturns
  <2> QED BY <1>2, <2>1, <2>2, <2>3, <2>4, <2>5, <2>6, <2>7, <2>8, <2>9, <2>10, <2>11, <2>12, <2>13 DEF ControllerStep
<1>3. ASSUME NEW a \in Agents, OperatorStep(a) PROVE Dialogue(b)'
  <2>1. CASE StartAgent(a) BY <2>1 DEF StartAgent, CreateRecord
  <2>2. CASE StopAgent(a) BY <2>2, <1>0 DEF StopAgent, BulkStop
  <2>3. CASE StopInactive(a) BY <2>3 DEF StopInactive
  <2>4. CASE BulkStop(a) BY <2>4, <1>0 DEF StopAgent, BulkStop
  <2>5. CASE ContinueLive(a) BY <2>5 DEF ContinueLive, ContinuableStates
  <2>6. CASE Acknowledge(a) BY <2>6 DEF Acknowledge
  <2>7. CASE Reject(a) BY <2>7 DEF Reject
  <2>8. CASE Reap(a) BY <2>8 DEF Reap, Reapable
  <2> QED BY <1>3, <2>1, <2>2, <2>3, <2>4, <2>5, <2>6, <2>7, <2>8 DEF OperatorStep
<1>4. ASSUME NEW a \in Agents, NEW c \in Agents, Recover(a, c) PROVE Dialogue(b)'
  <2>1. state[c] = "unused" /\ state' = [state EXCEPT ![c] = "starting"]
    BY <1>4 DEF Recover, CreateRecord
  <2>2. UNCHANGED <<memory, worker>>
    BY <1>4 DEF Recover, CreateRecord
  <2> QED BY <2>1, <2>2
<1>5. ASSUME NEW a \in Agents, NEW c \in Agents, BulkRestart(a, c) PROVE Dialogue(b)'
  BY <1>4, <1>5 DEF BulkRestart
<1>6. CASE Shutdown BY <1>6, <1>0 DEF Shutdown
<1>7. CASE Reinitialise BY <1>7 DEF Reinitialise, StateAfterRestart
<1>8. CASE UNCHANGED vars BY <1>8 DEF vars
<1> QED BY <1>1, <1>2, <1>3, <1>4, <1>5, <1>6, <1>7, <1>8
        DEF Next, ControllerRestart, CrashInReap

\* The two inductive invariants together.
THEOREM DialogueCorrect == Spec => []DialogueInv
<1>1. Init => DialogueInv
  BY DEF Init, DialogueInv, ReportFits, EndIsSettled, FeedbackNotLost,
         IdleWorkerContinuable, Live
<1> QED BY <1>1, DialogueStep, IndInvCorrect, PTL DEF Spec

\* An agent whose worker ended by itself is left in a state in which the operator can
\* deal with it, whatever the worker had sent before it died.
THEOREM ExitedTheorem == Spec => []ExitedAgentSettled
<1>1. DialogueInv => ExitedAgentSettled
  BY DEF DialogueInv, EndIsSettled, ExitedAgentSettled
<1> QED BY <1>1, DialogueCorrect, PTL

\* The record says "review_received" only while the worker still has to take the
\* feedback from its queue or is taking it.
THEOREM FeedbackTheorem == Spec => []FeedbackNotLost
<1>1. DialogueInv => FeedbackNotLost
  BY DEF DialogueInv
<1> QED BY <1>1, DialogueCorrect, PTL

\* A worker that waits with an empty queue is shown in a state that lets the operator
\* continue it.
THEOREM IdleTheorem == Spec => []IdleWorkerContinuable
<1>1. DialogueInv => IdleWorkerContinuable
  BY DEF DialogueInv
<1> QED BY <1>1, DialogueCorrect, PTL
=============================================================================
