------------------------- MODULE AgentCustodyProofs -------------------------
(***************************************************************************)
(* Proof that AgentController implements PatchCustody.                     *)
(***************************************************************************)
EXTENDS AgentCustody, AgentControllerProofs

\* A step keeps snapshots with their records, and starts no work after a decision.
LEMMA CustodyInvStep == IndInv /\ CustodyInv /\ [Next]_vars => CustodyInv'
<1> DEFINE Inv(b) ==
      /\ snapshot[b] => Exists(b)
      /\ acknowledged[b] # NoHead \/ rejected[b] # NoHead =>
           process[b] # "live" /\ starting[b] = "no" /\ state[b] # "unused"
<1> SUFFICES ASSUME IndInv, CustodyInv, [Next]_vars, NEW b \in Agents PROVE Inv(b)'
  BY DEF CustodyInv
<1> /\ TypeOK
    /\ \A a \in Agents : UnusedIsIdle(a) /\ StartIsFresh(a) /\ WorkIsManaged(a)
    /\ \A a \in Agents : Inv(a)
  BY DEF IndInv, AgentInv, CustodyInv
<1> USE ControllerAssumption
    DEF TypeOK, RecordStates, Reports, TerminalStates, durable, startup, memory, worker,
        Exists, UnusedIsIdle, StartIsFresh, WorkIsManaged
<1>0. ASSUME NEW S \in SUBSET Agents, BeginStop(S) PROVE Inv(b)'
  BY <1>0 DEF BeginStop
<1>1. ASSUME NEW a \in Agents, WorkerStep(a) PROVE Inv(b)'
  <2>1. CASE ReportState(a) BY <2>1 DEF ReportState, CanSend
  <2>2. CASE SubmitPatch(a) BY <2>2 DEF SubmitPatch, CanSend
  <2>3. CASE AwaitCommand(a) BY <2>3 DEF AwaitCommand
  <2>4. CASE WorkerExit(a) BY <2>4 DEF WorkerExit, ProcessEnds
  <2> QED BY <1>1, <2>1, <2>2, <2>3, <2>4 DEF WorkerStep
<1>2. ASSUME NEW a \in Agents, ControllerStep(a) PROVE Inv(b)'
  <2>1. CASE SpawnWorker(a) BY <2>1 DEF SpawnWorker
  <2>2. CASE RegisterRuntime(a) BY <2>2 DEF RegisterRuntime
  <2>3. CASE FailStart(a) BY <2>3 DEF FailStart
  <2>4. CASE HandleUpdateState(a) BY <2>4 DEF HandleUpdateState, AcceptsReport
  <2>5. CASE LoseRequest(a) BY <2>5 DEF LoseRequest
  <2>6. CASE ExportPatch(a) BY <2>6 DEF ExportPatch
  <2>7. CASE RecordSubmission(a) BY <2>7 DEF RecordSubmission
  <2>8. CASE FailSubmission(a) BY <2>8 DEF FailSubmission
  <2>9. CASE KillWorker(a) BY <2>9 DEF KillWorker, ProcessEnds
  <2>10. CASE MonitorProcess(a) BY <2>10 DEF MonitorProcess
  <2>11. CASE RuntimeLimit(a) BY <2>11 DEF RuntimeLimit
  <2>12. CASE TerminateWorker(a) BY <2>12 DEF TerminateWorker
  <2>13. CASE StopReturns(a) BY <2>13 DEF StopReturns
  <2> QED BY <1>2, <2>1, <2>2, <2>3, <2>4, <2>5, <2>6, <2>7, <2>8, <2>9, <2>10, <2>11, <2>12, <2>13 DEF ControllerStep
<1>3. ASSUME NEW a \in Agents, OperatorStep(a) PROVE Inv(b)'
  <2>1. CASE StartAgent(a) BY <2>1 DEF StartAgent, CreateRecord
  <2>2. CASE StopAgent(a) BY <2>2, <1>0 DEF StopAgent, BulkStop
  <2>3. CASE StopInactive(a) BY <2>3 DEF StopInactive
  <2>4. CASE BulkStop(a) BY <2>4, <1>0 DEF StopAgent, BulkStop
  <2>5. CASE ContinueLive(a) BY <2>5 DEF ContinueLive
  <2>6. CASE Acknowledge(a) BY <2>6 DEF Acknowledge, Decidable, Live
  <2>7. CASE Reject(a) BY <2>7 DEF Reject, Decidable, Live
  <2>8. CASE Reap(a) BY <2>8 DEF Reap
  <2> QED BY <1>3, <2>1, <2>2, <2>3, <2>4, <2>5, <2>6, <2>7, <2>8 DEF OperatorStep
<1>4. ASSUME NEW a \in Agents, NEW c \in Agents, Recover(a, c) PROVE Inv(b)'
  BY <1>4 DEF Recover, CreateRecord
<1>5. ASSUME NEW a \in Agents, NEW c \in Agents, BulkRestart(a, c) PROVE Inv(b)'
  BY <1>4, <1>5 DEF BulkRestart
<1>6. CASE Shutdown BY <1>6, <1>0 DEF Shutdown
<1>7. CASE Reinitialise /\ snapshot'[b] \in {snapshot[b], FALSE}
  BY <1>7 DEF Reinitialise, StateAfterRestart
<1>8. CASE ControllerRestart BY <1>8, <1>7 DEF ControllerRestart
<1>9. ASSUME NEW a \in Agents, CrashInReap(a) PROVE Inv(b)'
  BY <1>9, <1>7 DEF CrashInReap
<1>10. CASE UNCHANGED vars BY <1>10 DEF vars
<1> QED BY <1>1, <1>2, <1>3, <1>4, <1>5, <1>6, <1>8, <1>9, <1>10 DEF Next

\* The strengthening the refinement needs holds in every reachable state.
THEOREM CustodyInvCorrect == Spec => []CustodyInv
<1>1. Init => CustodyInv
  BY DEF Init, CustodyInv
<1> QED BY <1>1, CustodyInvStep, IndInvCorrect, PTL DEF Spec

\* After acknowledge or reject no worker of the agent runs, now or later: the decided
\* head is the last one of its agent.
THEOREM DecisionTheorem == Spec => []DecisionEndsWork
<1>1. CustodyInv => DecisionEndsWork
  BY DEF CustodyInv, DecisionEndsWork
<1> QED BY <1>1, CustodyInvCorrect, PTL
-----------------------------------------------------------------------------
(* The refinement: what a step does to held, kept and archive of one agent, when *)
(* it leaves those of the others alone, is a step of PatchCustody or a stutter.  *)

\* Nothing that PatchCustody sees has changed.
LEMMA StutterStep ==
  ASSUME \A b \in Agents : HeldHead(b)' = HeldHead(b) /\ IsKept(b)' = IsKept(b),
         exported' = exported
  PROVE  [Custody!Next]_(Custody!vars)
BY DEF Custody!vars

\* The record or the snapshot of an agent that holds nothing comes or goes.
LEMMA KeepStep ==
  ASSUME NEW a \in Agents, HeldHead(a) = NoHead,
         \A b \in Agents : HeldHead(b)' = HeldHead(b),
         \A b \in Agents : b # a => IsKept(b)' = IsKept(b),
         exported' = exported
  PROVE  [Custody!Next]_(Custody!vars)
<1>0. CASE IsKept(a)' = IsKept(a)
  BY <1>0, StutterStep
<1>1. CASE IsKept(a) /\ IsKept(a)' # IsKept(a)
  <2>1. Custody!Drop(a)
    BY <1>1 DEF Custody!Drop, IsKept
  <2> QED BY <2>1 DEF Custody!Next
<1>2. CASE ~IsKept(a) /\ IsKept(a)' # IsKept(a)
  <2>1. Custody!Create(a)
    BY <1>2 DEF Custody!Create, IsKept
  <2> QED BY <2>1 DEF Custody!Next
<1> QED BY <1>0, <1>1, <1>2

\* A held head is let go.
LEMMA DecideStep ==
  ASSUME NEW a \in Agents, HeldHead(a)' \in {NoHead, HeldHead(a)},
         \A b \in Agents : b # a => HeldHead(b)' = HeldHead(b),
         \A b \in Agents : IsKept(b)' = IsKept(b),
         exported' = exported
  PROVE  [Custody!Next]_(Custody!vars)
<1>1. CASE HeldHead(a)' = HeldHead(a)
  BY <1>1, StutterStep
<1>2. CASE HeldHead(a)' # HeldHead(a)
  <2>1. Custody!Decide(a)
    BY <1>2 DEF Custody!Decide
  <2> QED BY <2>1 DEF Custody!Next
<1> QED BY <1>1, <1>2

\* An exported head comes into custody.
LEMMA SubmitStep ==
  ASSUME NEW a \in Agents, NEW h \in Heads, IsKept(a), HeldHead(a)' = h, h \in exported[a],
         \A b \in Agents : b # a => HeldHead(b)' = HeldHead(b),
         \A b \in Agents : IsKept(b)' = IsKept(b),
         exported' = exported
  PROVE  [Custody!Next]_(Custody!vars)
<1>1. Custody!Submit(a, h)
  BY DEF Custody!Submit
<1> QED BY <1>1 DEF Custody!Next

\* A head is exported.
LEMMA ArchiveStep ==
  ASSUME NEW a \in Agents, NEW h \in Heads, IsKept(a),
         \A b \in Agents : HeldHead(b)' = HeldHead(b) /\ IsKept(b)' = IsKept(b),
         exported' = [exported EXCEPT ![a] = @ \cup {h}]
  PROVE  [Custody!Next]_(Custody!vars)
<1>1. Custody!Archive(a, h)
  BY DEF Custody!Archive
<1> QED BY <1>1 DEF Custody!Next

\* Every step of the controller, a worker or the operator is one of the above.
LEMMA CustodyStep == IndInv /\ CustodyInv /\ [Next]_vars => [Custody!Next]_(Custody!vars)
<1> DEFINE Goal == [Custody!Next]_(Custody!vars)
<1> SUFFICES ASSUME IndInv, CustodyInv, [Next]_vars PROVE Goal
  OBVIOUS
<1> /\ TypeOK
    /\ \A a \in Agents : StartIsFresh(a) /\ SubmissionIsKept(a)
                          /\ UnusedIsIdle(a) /\ RuntimeHasRecord(a)
    /\ \A a \in Agents : snapshot[a] => Exists(a)
  BY DEF IndInv, AgentInv, CustodyInv
<1> USE ControllerAssumption
    DEF TypeOK, RecordStates, Reports, TerminalStates, durable, startup, memory, worker
<1> HIDE DEF Goal
<1>a. ASSUME exported' = exported,
             \A b \in Agents : HeldHead(b)' = HeldHead(b) /\ IsKept(b)' = IsKept(b)
      PROVE  Goal
  BY <1>a, StutterStep DEF Goal
<1>b. ASSUME UNCHANGED <<submittedHead, acknowledged, rejected, snapshot, exported>>,
             \A b \in Agents : Exists(b)' = Exists(b)
      PROVE  Goal
  BY <1>a, <1>b DEF HeldHead, Undecided, IsKept
<1>c. ASSUME UNCHANGED <<state, submittedHead, acknowledged, rejected, snapshot, exported>>
      PROVE  Goal
  BY <1>b, <1>c DEF Exists
<1>d. ASSUME NEW a \in Agents, NEW p, CreateRecord(a, p) PROVE Goal
  <2>1. HeldHead(a) = NoHead /\ \A b \in Agents : HeldHead(b)' = HeldHead(b)
    BY <1>d DEF CreateRecord, HeldHead, Undecided, UnusedIsIdle
  <2>2. /\ \A b \in Agents : b # a => IsKept(b)' = IsKept(b)
        /\ exported' = exported
    BY <1>d DEF CreateRecord, IsKept, Exists
  <2> QED BY <2>1, <2>2, KeepStep DEF Goal
<1>e. ASSUME NEW S \in SUBSET Agents, BeginStop(S) PROVE Goal
  BY <1>e, <1>b DEF BeginStop, Exists, RuntimeHasRecord
<1>1. ASSUME NEW a \in Agents, WorkerStep(a) PROVE Goal
  <2>1. CASE ReportState(a) BY <2>1, <1>c DEF ReportState
  <2>2. CASE SubmitPatch(a) BY <2>2, <1>c DEF SubmitPatch
  <2>3. CASE AwaitCommand(a) BY <2>3, <1>c DEF AwaitCommand
  <2>4. CASE WorkerExit(a) BY <2>4, <1>c DEF WorkerExit, ProcessEnds
  <2> QED BY <1>1, <2>1, <2>2, <2>3, <2>4 DEF WorkerStep
<1>2. ASSUME NEW a \in Agents, ControllerStep(a) PROVE Goal
  <2>1. CASE SpawnWorker(a) BY <2>1, <1>c DEF SpawnWorker
  <2>2. CASE RegisterRuntime(a) BY <2>2, <1>b DEF RegisterRuntime, StartIsFresh, Exists
  <2>3. CASE FailStart(a)
    <3>1. HeldHead(a) = NoHead /\ \A b \in Agents : HeldHead(b)' = HeldHead(b)
      BY <2>3 DEF FailStart, HeldHead, Undecided, StartIsFresh
    <3>2. /\ \A b \in Agents : b # a => IsKept(b)' = IsKept(b)
          /\ exported' = exported
      BY <2>3 DEF FailStart, IsKept, Exists
    <3> QED BY <3>1, <3>2, KeepStep DEF Goal
  <2>4. CASE HandleUpdateState(a)
    <3>1. UNCHANGED <<submittedHead, acknowledged, rejected, snapshot, exported>>
      BY <2>4 DEF HandleUpdateState
    <3>2. \A b \in Agents : Exists(b)' = Exists(b)
      BY <2>4 DEF HandleUpdateState, AcceptsReport, Exists
    <3> QED BY <3>1, <3>2, <1>b
  <2>5. CASE LoseRequest(a) BY <2>5, <1>c DEF LoseRequest
  <2>6. CASE ExportPatch(a)
    <3>1. rpcHead[a] \in Heads /\ IsKept(a)
      BY <2>6 DEF ExportPatch, SubmissionIsKept, IsKept
    <3>2. /\ exported' = [exported EXCEPT ![a] = @ \cup {rpcHead[a]}]
          /\ UNCHANGED <<state, submittedHead, acknowledged, rejected, snapshot>>
      BY <2>6 DEF ExportPatch
    <3>3. \A b \in Agents : HeldHead(b)' = HeldHead(b) /\ IsKept(b)' = IsKept(b)
      BY <3>2 DEF HeldHead, Undecided, IsKept, Exists
    <3> QED BY <3>1, <3>2, <3>3, ArchiveStep DEF Goal
  <2>7. CASE RecordSubmission(a)
    <3>1. /\ IsKept(a)
          /\ submittedHead'[a] \in exported[a]
          /\ exported' = exported
      BY <2>7 DEF RecordSubmission, SubmissionIsKept, IsKept
    <3>2. \A b \in Agents : IsKept(b)' = IsKept(b)
      BY <2>7 DEF RecordSubmission, IsKept, Exists
    <3>3. \A b \in Agents : b # a => HeldHead(b)' = HeldHead(b)
      BY <2>7 DEF RecordSubmission, HeldHead, Undecided
    <3>4. CASE Undecided(a)'
      <4>1. HeldHead(a)' = submittedHead'[a] /\ submittedHead'[a] \in Heads
        BY <3>1, <3>4 DEF HeldHead
      <4> QED BY <3>1, <3>2, <3>3, <4>1, SubmitStep DEF Goal
    <3>5. CASE ~Undecided(a)'
      <4>1. HeldHead(a)' = NoHead
        BY <3>5 DEF HeldHead
      <4> QED BY <3>1, <3>2, <3>3, <4>1, DecideStep DEF Goal
    <3> QED BY <3>4, <3>5
  <2>8. CASE FailSubmission(a) BY <2>8, <1>c DEF FailSubmission
  <2>9. CASE KillWorker(a) BY <2>9, <1>c DEF KillWorker, ProcessEnds
  <2>10. CASE MonitorProcess(a) BY <2>10, <1>b DEF MonitorProcess, Exists, RuntimeHasRecord
  <2>11. CASE RuntimeLimit(a) BY <2>11, <1>b DEF RuntimeLimit, Exists, Live, RuntimeHasRecord
  <2>12. CASE TerminateWorker(a) BY <2>12, <1>c DEF TerminateWorker
  <2>13. CASE StopReturns(a) BY <2>13, <1>c DEF StopReturns
  <2> QED BY <1>2, <2>1, <2>2, <2>3, <2>4, <2>5, <2>6, <2>7, <2>8, <2>9, <2>10, <2>11, <2>12, <2>13 DEF ControllerStep
<1>3. ASSUME NEW a \in Agents, OperatorStep(a) PROVE Goal
  <2>1. CASE StartAgent(a) BY <2>1, <1>d DEF StartAgent
  <2>2. CASE StopAgent(a) BY <2>2, <1>e DEF StopAgent
  <2>3. CASE StopInactive(a) BY <2>3, <1>b DEF StopInactive, Exists
  <2>4. CASE BulkStop(a) BY <2>4, <1>e DEF StopAgent, BulkStop
  <2>5. CASE ContinueLive(a) BY <2>5, <1>b DEF ContinueLive, ContinuableStates, Exists
  <2>6. CASE Acknowledge(a) \/ Reject(a)
    <3>1. /\ HeldHead(a)' = NoHead
          /\ \A b \in Agents : b # a => HeldHead(b)' = HeldHead(b)
      BY <2>6 DEF Acknowledge, Reject, HeldHead, Undecided
    <3>2. /\ \A b \in Agents : IsKept(b)' = IsKept(b)
          /\ exported' = exported
      BY <2>6 DEF Acknowledge, Reject, IsKept, Exists
    <3> QED BY <3>1, <3>2, DecideStep DEF Goal
  <2>7. CASE Reap(a)
    <3>1. HeldHead(a) = NoHead /\ \A b \in Agents : HeldHead(b)' = HeldHead(b)
      BY <2>7 DEF Reap, Reapable, HeldHead, Undecided
    <3>2. /\ \A b \in Agents : b # a => IsKept(b)' = IsKept(b)
          /\ exported' = exported
      BY <2>7 DEF Reap, IsKept, Exists
    <3> QED BY <3>1, <3>2, KeepStep DEF Goal
  <2> QED BY <1>3, <2>1, <2>2, <2>3, <2>4, <2>5, <2>6, <2>7 DEF OperatorStep
<1>4. ASSUME NEW a \in Agents, NEW c \in Agents, Recover(a, c) PROVE Goal
  BY <1>4, <1>d DEF Recover
<1>5. ASSUME NEW a \in Agents, NEW c \in Agents, BulkRestart(a, c) PROVE Goal
  BY <1>4, <1>5 DEF BulkRestart
<1>6. CASE Shutdown BY <1>6, <1>e DEF Shutdown
<1>7. CASE ControllerRestart
  BY <1>7, <1>b DEF ControllerRestart, Reinitialise, StateAfterRestart, Exists
<1>8. ASSUME NEW a \in Agents, CrashInReap(a) PROVE Goal
  <2>1. HeldHead(a) = NoHead /\ \A b \in Agents : HeldHead(b)' = HeldHead(b)
    BY <1>8 DEF CrashInReap, Reinitialise, Reapable, HeldHead, Undecided
  <2>2. /\ \A b \in Agents : b # a => IsKept(b)' = IsKept(b)
        /\ exported' = exported
    BY <1>8 DEF CrashInReap, Reinitialise, StateAfterRestart, IsKept, Exists
  <2> QED BY <2>1, <2>2, KeepStep DEF Goal
<1>9. CASE UNCHANGED vars BY <1>9, <1>c DEF vars
<1> QED BY <1>1, <1>2, <1>3, <1>4, <1>5, <1>6, <1>7, <1>8, <1>9 DEF Next

\* AgentController implements PatchCustody: submitted work is exported before it is
\* held, held until it is decided about or replaced, and kept as long as it is held.
THEOREM RefinementTheorem == Spec => ImplementsCustody
<1>1. Init => Custody!Init
  <2> SUFFICES ASSUME Init PROVE Custody!Init
    OBVIOUS
  <2>1. \A a \in Agents : HeldHead(a) = NoHead
    BY DEF Init, HeldHead
  <2>2. \A a \in Agents : IsKept(a) = FALSE
    BY DEF Init, IsKept
  <2>3. exported = [a \in Agents |-> {}]
    BY DEF Init
  <2> QED BY <2>1, <2>2, <2>3 DEF Custody!Init
<1> QED BY <1>1, CustodyStep, IndInvCorrect, CustodyInvCorrect, PTL
        DEF Spec, ImplementsCustody, Custody!Spec
=============================================================================
