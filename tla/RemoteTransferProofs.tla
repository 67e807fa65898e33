------------------------ MODULE RemoteTransferProofs ------------------------
(***************************************************************************)
(* Proofs for the transfers to the remote service: uploads that become     *)
(* agents, bundles that are staged for an agent and mounted by a child, and *)
(* submissions that are imported.  Each has an inductive invariant over its *)
(* own variables; that the parts interleave is used once, at the end.      *)
(***************************************************************************)
EXTENDS RemoteSystem, Sequences, FiniteSetTheorems, TLAPS

\* The client holds the only permission to write the upload: it has been told so, uses
\* it, or asks for the upload to be sealed.
Writing(c) ==
  \/ uploadPc[c] = "preparing" /\ uploadAnswer[c] = "ok"
  \/ uploadPc[c] = "uploading"
  \/ uploadRequest[c] = "finalize"

\* What the service has of a client's request is what the client waits for, or has given
\* up waiting for, and is not answered yet.
RequestOfClient ==
  \A c \in Clients :
    /\ uploadPc[c] \in {"new", "uploading", "done"} => uploadRequest[c] = "none"
    /\ uploadPc[c] = "preparing" => uploadRequest[c] \in {"none", "prepare"}
    /\ uploadPc[c] = "finalizing" => uploadRequest[c] \in {"none", "finalize"}
    /\ uploadPc[c] = "starting" => uploadRequest[c] \in Upload!StartSteps \cup {"none"}
    /\ uploadRequest[c] # "none" => uploadAnswer[c] = "none"
    /\ uploadPc[c] \notin Upload!Waiting => uploadAnswer[c] = "none"

\* An upload that is written is not sealed yet, and has one writer.
OneWriter ==
  /\ \A c \in Clients : Writing(c) =>
       incoming[upload[c]] # "absent" /\ completed[upload[c]] = "absent"
  /\ \A c, d \in Clients : Writing(c) /\ Writing(d) /\ upload[c] = upload[d] => c = d
  /\ \A c \in Clients : uploadRequest[c] = "finalize" => incoming[upload[c]] = "full"

\* The agents an upload has made: none while it is written; while it can be started, and no
\* start is about to remove it, only those whose removal has left something of it.
MadeOfUpload ==
  \A u \in UploadIds :
    /\ incoming[u] # "absent" => origin[u] = {} /\ completed[u] = "absent"
    /\ completed[u] # "absent" /\ (\A c \in Clients : upload[c] = u => uploadRequest[c] # "started")
         => origin[u] \subseteq retained

\* A client has an agent from the end of its start.
MadeByStart ==
  \A c \in Clients :
    /\ uploadPc[c] \in {"new", "preparing", "uploading", "finalizing"} => c \notin made
    /\ uploadRequest[c] # "none" => (c \in made <=> uploadRequest[c] = "started") /\ c \notin retained

\* What a start copies or removes is there, and the agent that was made is one of it.
StartHasUpload ==
  \A c \in Clients :
    /\ uploadRequest[c] \in {"starting", "started"} => completed[upload[c]] \notin {"absent", "empty"}
    /\ uploadRequest[c] = "started" => c \in origin[upload[c]]

\* The inductive invariant of uploads.
UploadInv ==
  /\ UploadSafety /\ RequestOfClient /\ OneWriter /\ MadeOfUpload /\ MadeByStart
  /\ StartHasUpload

\* No client has asked for anything.
LEMMA UploadInit == Upload!Init => UploadInv
<1> SUFFICES ASSUME Upload!Init PROVE UploadInv
  OBVIOUS
<1> USE RemoteAssumption DEF Upload!UploadAssumption, Upload!Init, Upload!Waiting, Upload!StartSteps
<1>1. UploadSafety
  BY DEF UploadSafety, Upload!TypeOK, Upload!OneAgentPerUpload, Upload!SealedIsComplete,
     Upload!AnswerIsTrue, Upload!LockIsHeld, Upload!RetainedThroughStartup, Upload!Contents
<1>2. RequestOfClient /\ OneWriter /\ MadeOfUpload /\ MadeByStart /\ StartHasUpload
  BY DEF RequestOfClient, OneWriter, Writing, MadeOfUpload, MadeByStart, StartHasUpload
<1> QED
  BY <1>1, <1>2 DEF UploadInv

\* The steps of clients, of the service and of its crashes: lost answers and repeated
\* starts leave one agent for each upload, and one more for each removal of it that has
\* failed or was cut.
LEMMA UploadStepInv == UploadInv /\ [Upload!Next]_uploadVars => UploadInv'
<1> SUFFICES ASSUME UploadInv, [Upload!Next]_uploadVars PROVE UploadInv'
  OBVIOUS
<1> USE RemoteAssumption
    DEF Upload!UploadAssumption, Upload!Waiting, Upload!StartSteps, Upload!Contents,
      UploadInv, UploadSafety, Upload!TypeOK, Upload!OneAgentPerUpload,
      Upload!SealedIsComplete, Upload!AnswerIsTrue, Upload!LockIsHeld,
      Upload!RetainedThroughStartup, RequestOfClient, OneWriter, Writing, MadeOfUpload,
      MadeByStart, StartHasUpload, Upload!disk, Upload!client, Upload!agents
<1>0. \A content \in Upload!Contents : Upload!Remains[content] \subseteq Upload!Contents \ {"absent"}
  BY DEF Upload!Remains
<1>1. CASE UNCHANGED uploadVars
  BY <1>1 DEF uploadVars
<1>2. CASE Upload!Crash
  <2> USE <1>2 DEF Upload!Crash
  <2>1. CASE Upload!RemovalIsCut
    <3>1. PICK c \in Clients :
            /\ uploadRequest[c] = "started"
            /\ \/ completed' = Upload!Consumed(upload[c]) /\ UNCHANGED retained
               \/ /\ \E rest \in Upload!Remains[completed[upload[c]]] :
                       completed' = [completed EXCEPT ![upload[c]] = rest]
                  /\ retained' = retained \cup {c}
      BY <2>1 DEF Upload!RemovalIsCut
    <3>2. CASE completed' = Upload!Consumed(upload[c]) /\ UNCHANGED retained
      BY <3>1, <3>2 DEF Upload!Consumed
    <3>3. ASSUME NEW rest \in Upload!Remains[completed[upload[c]]],
                 completed' = [completed EXCEPT ![upload[c]] = rest],
                 retained' = retained \cup {c}
          PROVE  UploadInv'
      <4>1. rest \in Upload!Contents \ {"absent"}
        BY <1>0
      <4>2. Upload!TypeOK'
        BY <3>1, <3>3, <4>1
      <4>3. Upload!OneAgentPerUpload'
        BY <3>1, <3>3, <4>1
      <4>4. Upload!SealedIsComplete'
        BY <3>1, <3>3, <4>1
      <4>5. Upload!AnswerIsTrue'
        BY <3>1, <3>3, <4>1
      <4>6. Upload!LockIsHeld' /\ Upload!RetainedThroughStartup'
        BY <3>1, <3>3, <4>1
      <4>7. RequestOfClient'
        BY <3>1, <3>3, <4>1
      <4>8. OneWriter'
        BY <3>1, <3>3, <4>1
      <4>9. MadeOfUpload'
        BY <3>1, <3>3, <4>1
      <4>10. MadeByStart' /\ StartHasUpload'
        BY <3>1, <3>3, <4>1
      <4> QED
        BY <4>2, <4>3, <4>4, <4>5, <4>6, <4>7, <4>8, <4>9, <4>10
    <3> QED
      BY <3>1, <3>2, <3>3
  <2>2. CASE (\A c \in Clients : uploadRequest[c] # "started") /\ UNCHANGED <<completed, retained>>
    BY <2>2
  <2> QED
    BY <2>1, <2>2
<1>3. ASSUME NEW c \in Clients, Upload!ClientStep(c) PROVE UploadInv'
  <2>1. CASE Upload!Begin(c)
    BY <2>1 DEF Upload!Begin, Upload!Send
  <2>2. CASE Upload!BeginAgain(c)
    BY <2>2 DEF Upload!BeginAgain, Upload!Send
  <2>3. CASE Upload!RsyncBegins(c)
    BY <2>3 DEF Upload!RsyncBegins
  <2>4. CASE Upload!RsyncEnds(c)
    BY <2>4 DEF Upload!RsyncEnds, Upload!Send
  <2>5. CASE Upload!RsyncFails(c)
    BY <2>5 DEF Upload!RsyncFails
  <2>6. CASE Upload!Receive(c)
    <3> USE <2>6 DEF Upload!Receive, Upload!Send
    <3>1. CASE uploadAnswer[c] = "error"
      BY <3>1
    <3>2. CASE uploadAnswer[c] = "ok" /\ uploadPc[c] = "preparing"
      BY <3>2
    <3>3. CASE uploadAnswer[c] = "ok" /\ uploadPc[c] = "finalizing"
      BY <3>3
    <3>4. CASE uploadAnswer[c] = "ok" /\ uploadPc[c] = "starting"
      BY <3>4
    <3> QED
      BY <3>1, <3>2, <3>3, <3>4
  <2>7. CASE Upload!ClientTimeout(c)
    BY <2>7 DEF Upload!ClientTimeout
  <2> QED
    BY <1>3, <2>1, <2>2, <2>3, <2>4, <2>5, <2>6, <2>7 DEF Upload!ClientStep
<1>4. ASSUME NEW c \in Clients, Upload!ServiceStep(c) PROVE UploadInv'
  <2>1. CASE Upload!CreateIncoming(c)
    <3> USE <2>1 DEF Upload!CreateIncoming, Upload!Respond, Upload!IsFreeId
    <3>1. Upload!TypeOK' /\ Upload!OneAgentPerUpload'
      OBVIOUS
    <3>2. Upload!SealedIsComplete' /\ Upload!AnswerIsTrue'
      OBVIOUS
    <3>3. Upload!LockIsHeld' /\ Upload!RetainedThroughStartup'
      OBVIOUS
    <3>4. RequestOfClient' /\ OneWriter'
      OBVIOUS
    <3>5. MadeOfUpload'
      OBVIOUS
    <3>6. MadeByStart' /\ StartHasUpload'
      OBVIOUS
    <3> QED
      BY <3>1, <3>2, <3>3, <3>4, <3>5, <3>6
  <2>2. CASE Upload!FinalizeUpload(c)
    <3> USE <2>2 DEF Upload!FinalizeUpload, Upload!Respond
    <3>1. Upload!TypeOK' /\ Upload!OneAgentPerUpload'
      OBVIOUS
    <3>2. Upload!SealedIsComplete' /\ Upload!AnswerIsTrue'
      OBVIOUS
    <3>3. Upload!LockIsHeld' /\ Upload!RetainedThroughStartup'
      OBVIOUS
    <3>4. RequestOfClient' /\ OneWriter'
      OBVIOUS
    <3>5. MadeOfUpload'
      OBVIOUS
    <3>6. MadeByStart' /\ StartHasUpload'
      OBVIOUS
    <3> QED
      BY <3>1, <3>2, <3>3, <3>4, <3>5, <3>6
  <2>3. CASE Upload!StartBegins(c)
    BY <2>3 DEF Upload!StartBegins, Upload!StartAllowed, Upload!Respond
  <2>4. CASE Upload!StartFails(c)
    BY <2>4 DEF Upload!StartFails, Upload!Respond, Upload!ReleaseLock
  <2>5. CASE Upload!AgentStarted(c)
    BY <2>5 DEF Upload!AgentStarted
  <2>6. CASE Upload!ConsumeUpload(c)
    <3> USE <2>6 DEF Upload!ConsumeUpload, Upload!Consumed, Upload!Respond, Upload!ReleaseLock
    <3>1. CASE completed' = Upload!Consumed(upload[c]) /\ UNCHANGED retained
      BY <3>1
    <3>2. ASSUME NEW rest \in Upload!Remains[completed[upload[c]]],
                 completed' = [completed EXCEPT ![upload[c]] = rest],
                 retained' = retained \cup {c}
          PROVE  UploadInv'
      <4>1. rest \in Upload!Contents \ {"absent"}
        BY <1>0
      <4>2. Upload!TypeOK'
        BY <3>2, <4>1
      <4>3. Upload!OneAgentPerUpload'
        BY <3>2, <4>1
      <4>4. Upload!SealedIsComplete'
        BY <3>2, <4>1
      <4>5. Upload!AnswerIsTrue'
        BY <3>2, <4>1
      <4>6. Upload!LockIsHeld' /\ Upload!RetainedThroughStartup'
        BY <3>2, <4>1
      <4>7. RequestOfClient'
        BY <3>2, <4>1
      <4>8. OneWriter'
        BY <3>2, <4>1
      <4>9. MadeOfUpload'
        BY <3>2, <4>1
      <4>10. MadeByStart' /\ StartHasUpload'
        BY <3>2, <4>1
      <4> QED
        BY <4>2, <4>3, <4>4, <4>5, <4>6, <4>7, <4>8, <4>9, <4>10
    <3> QED
      BY <3>1, <3>2
  <2> QED
    BY <1>4, <2>1, <2>2, <2>3, <2>4, <2>5, <2>6 DEF Upload!ServiceStep
<1> QED
  BY <1>1, <1>2, <1>3, <1>4 DEF Upload!Next, Upload!CleanupAbandoned
-----------------------------------------------------------------------------
(* Continuations on a newer base *)

Starting(c) == syncRequest[c] = "starting"
HasChild(c) == \E x \in children : x.by = c

\* What the service has of a call is what its caller waits for, or has given up.
RequestOfCall ==
  \A c \in SyncCalls :
    /\ syncPc[c] \in {"new", "bundling", "done"} => syncRequest[c] = "none"
    /\ syncPc[c] = "preparing" => syncRequest[c] \in {"none", "prepare"}
    /\ syncPc[c] = "finalizing" => syncRequest[c] \in {"none", "finalize"}
    /\ syncPc[c] = "continuing" => syncRequest[c] \in {"none", "continue", "starting"}
    /\ syncRequest[c] # "none" => syncAnswer[c] = "none"
    /\ syncPc[c] \notin Sync!Waiting => syncAnswer[c] = "none"

\* A staged bundle is not prepared, uploaded or finalized again.
StagedIsFinal ==
  \A c \in SyncCalls : bundle[c] = "staged" =>
    /\ syncPc[c] \notin {"new", "preparing", "bundling"}
    /\ syncRequest[c] \notin {"prepare", "finalize"}

\* _restarting_agents admits one start, what it has read stays staged, and what it mounts is
\* what it has read.
OneStart ==
  /\ \A c \in SyncCalls : Starting(c) => restarting
  /\ \A c, d \in SyncCalls : Starting(c) /\ Starting(d) => c = d
  /\ \A c \in SyncCalls : Starting(c) /\ found[c] # None => bundle[found[c]] = "staged"
  /\ \A x \in children : Starting(x.by) => x.mount = found[x.by]

\* A call has at most one child, once its start is under way; a call whose update is lost is
\* over.
ChildOfCall ==
  /\ \A x, y \in children : x.by = y.by => x = y
  /\ \A c \in SyncCalls : HasChild(c) =>
       /\ syncPc[c] \in {"continuing", "done", "failed"}
       /\ syncRequest[c] \in {"none", "starting"}
  /\ \A c \in kept : syncRequest[c] = "none" /\ syncPc[c] \in {"continuing", "done", "failed"}

\* A bundle that was mounted and consumed is not pending, nor read by a start, again.
MountedOnce ==
  \A x \in children : x.mount # None /\ x.by \notin kept /\ ~Starting(x.by) =>
    /\ pending # x.mount
    /\ \A c \in SyncCalls : Starting(c) => found[c] # x.mount

\* The inductive invariant of synchronizations.
SyncInv == SyncSafety /\ RequestOfCall /\ StagedIsFinal /\ OneStart /\ ChildOfCall /\ MountedOnce

\* No bundle has been made.
LEMMA SyncInit == Sync!Init => SyncInv
<1> SUFFICES ASSUME Sync!Init PROVE SyncInv
  OBVIOUS
<1> USE RemoteAssumption DEF Sync!SyncAssumption, Sync!Init, Sync!Waiting
<1>1. Sync!TypeOK
  <2> USE DEF Sync!TypeOK
  <2>1. syncCrashes \in 0 .. MaxSyncCrashes
    OBVIOUS
  <2>2. children \subseteq [by : SyncCalls, mount : SyncCalls \cup {None}]
    OBVIOUS
  <2> QED
    BY <2>1, <2>2
<1>2. SyncSafety
  BY <1>1 DEF SyncSafety, Sync!PendingIsStaged, Sync!ChildKeepsItsBundle,
     Sync!OneChildPerBundle, Sync!AnswerIsTrue
<1>3. RequestOfCall /\ StagedIsFinal /\ OneStart /\ ChildOfCall /\ MountedOnce
  BY DEF RequestOfCall, StagedIsFinal, OneStart, ChildOfCall, HasChild, MountedOnce, Starting
<1> QED
  BY <1>2, <1>3 DEF SyncInv

\* The steps of callers, of _continue for a worker that has ended and for one that runs, of
\* finalize_sync, and of failures and crashes between the start of a child and the removal
\* of the pending bundle from the metadata.
LEMMA SyncStepInv == SyncInv /\ [Sync!Next]_syncVars => SyncInv'
<1> SUFFICES ASSUME SyncInv, [Sync!Next]_syncVars PROVE SyncInv'
  OBVIOUS
<1> USE RemoteAssumption
    DEF Sync!SyncAssumption, Sync!Waiting, Sync!caller, Sync!record, Sync!child, SyncInv,
      SyncSafety, Sync!TypeOK, Sync!PendingIsStaged, Sync!ChildKeepsItsBundle,
      Sync!OneChildPerBundle, Sync!AnswerIsTrue, RequestOfCall, StagedIsFinal, OneStart,
      ChildOfCall, HasChild, MountedOnce, Starting
<1>1. CASE UNCHANGED syncVars
  BY <1>1 DEF syncVars
<1>2. CASE Sync!AgentChanges
  BY <1>2 DEF Sync!AgentChanges
<1>3. CASE Sync!Crash
  <2> USE <1>3 DEF Sync!Crash
  <2>1. Sync!TypeOK'
    <3>1. syncCrashes' \in 0 .. MaxSyncCrashes /\ kept' \subseteq SyncCalls
      OBVIOUS
    <3> QED
      BY <3>1
  <2>2. Sync!PendingIsStaged' /\ Sync!ChildKeepsItsBundle'
    OBVIOUS
  <2>3. Sync!OneChildPerBundle'
    OBVIOUS
  <2>4. Sync!AnswerIsTrue'
    OBVIOUS
  <2>5. RequestOfCall'
    OBVIOUS
  <2>6. StagedIsFinal'
    OBVIOUS
  <2>7. OneStart'
    OBVIOUS
  <2>8. ChildOfCall'
    OBVIOUS
  <2>9. MountedOnce'
    OBVIOUS
  <2> QED
    BY <2>1, <2>2, <2>3, <2>4, <2>5, <2>6, <2>7, <2>8, <2>9
<1>4. ASSUME NEW c \in SyncCalls, Sync!Step(c) PROVE SyncInv'
  <2>1. CASE Sync!BeginContinue(c)
    BY <2>1 DEF Sync!BeginContinue, Sync!Send
  <2>2. CASE Sync!UploadBundle(c)
    BY <2>2 DEF Sync!UploadBundle, Sync!Send
  <2>3. CASE Sync!ReceiveOk(c)
    BY <2>3 DEF Sync!ReceiveOk, Sync!Send
  <2>4. CASE Sync!GiveUp(c)
    BY <2>4 DEF Sync!GiveUp
  <2>5. CASE Sync!PrepareSync(c)
    BY <2>5 DEF Sync!PrepareSync, Sync!Respond
  <2>6. CASE Sync!FinalizeSync(c)
    BY <2>6 DEF Sync!FinalizeSync, Sync!Respond, Sync!Recorded
  <2>7. CASE Sync!ContinueBegins(c)
    <3> USE <2>7 DEF Sync!ContinueBegins, Sync!Respond
    <3>1. CASE Sync!MayRestart /\ (pending # None => bundle[pending] = "staged")
      <4> USE <3>1 DEF Sync!MayRestart
      <4>1. Sync!TypeOK'
        <5>1. found' \in [SyncCalls -> SyncCalls \cup {None}]
          OBVIOUS
        <5>2. syncRequest' \in [SyncCalls -> {"none", "prepare", "finalize", "continue", "starting"}]
          OBVIOUS
        <5>3. restarting' \in BOOLEAN /\ UNCHANGED <<agent, working, pending, bundle, syncPc, syncAnswer,
                 children, kept, syncCrashes>>
          OBVIOUS
        <5> QED
          BY ONLY <5>1, <5>2, <5>3, Sync!TypeOK DEF Sync!TypeOK
      <4>2. Sync!PendingIsStaged' /\ Sync!ChildKeepsItsBundle'
        OBVIOUS
      <4>3. Sync!OneChildPerBundle'
        OBVIOUS
      <4>4. Sync!AnswerIsTrue'
        OBVIOUS
      <4>5. RequestOfCall'
        OBVIOUS
      <4>6. StagedIsFinal'
        OBVIOUS
      <4>7. OneStart'
        OBVIOUS
      <4>8. ChildOfCall'
        OBVIOUS
      <4>9. MountedOnce'
        OBVIOUS
      <4> QED
        BY <4>1, <4>2, <4>3, <4>4, <4>5, <4>6, <4>7, <4>8, <4>9
    <3>2. CASE ~(Sync!MayRestart /\ (pending # None => bundle[pending] = "staged"))
      BY <3>2
    <3> QED
      BY <3>1, <3>2
  <2>8. CASE Sync!ContinueLive(c)
    BY <2>8 DEF Sync!ContinueLive, Sync!PendingAfter, Sync!Respond
  <2>9. CASE Sync!StartFails(c)
    <3> USE <2>9 DEF Sync!StartFails, Sync!Respond
    <3>1. Sync!TypeOK'
      OBVIOUS
    <3>2. Sync!PendingIsStaged' /\ Sync!ChildKeepsItsBundle'
      OBVIOUS
    <3>3. Sync!OneChildPerBundle'
      OBVIOUS
    <3>4. Sync!AnswerIsTrue'
      OBVIOUS
    <3>5. RequestOfCall'
      OBVIOUS
    <3>6. StagedIsFinal'
      OBVIOUS
    <3>7. OneStart'
      OBVIOUS
    <3>8. ChildOfCall'
      OBVIOUS
    <3>9. MountedOnce'
      OBVIOUS
    <3> QED
      BY <3>1, <3>2, <3>3, <3>4, <3>5, <3>6, <3>7, <3>8, <3>9
  <2>10. CASE Sync!ChildCreated(c)
    BY <2>10 DEF Sync!ChildCreated
  <2>11. CASE Sync!ContinueReturns(c)
    <3> USE <2>11 DEF Sync!ContinueReturns, Sync!PendingAfter, Sync!Respond
    <3>1. CASE pending' = Sync!PendingAfter(found[c]) /\ Sync!Respond(c, "ok") /\ UNCHANGED kept
      <4> USE <3>1
      <4>1. Sync!TypeOK'
        OBVIOUS
      <4>2. Sync!PendingIsStaged' /\ Sync!ChildKeepsItsBundle'
        OBVIOUS
      <4>3. Sync!OneChildPerBundle'
        OBVIOUS
      <4>4. Sync!AnswerIsTrue'
        OBVIOUS
      <4>5. RequestOfCall'
        OBVIOUS
      <4>6. StagedIsFinal'
        OBVIOUS
      <4>7. OneStart'
        OBVIOUS
      <4>8. ChildOfCall'
        OBVIOUS
      <4>9. MountedOnce'
        OBVIOUS
      <4> QED
        BY <4>1, <4>2, <4>3, <4>4, <4>5, <4>6, <4>7, <4>8, <4>9
    <3>2. CASE kept' = kept \cup {c} /\ Sync!Respond(c, "error") /\ UNCHANGED pending
      <4> USE <3>2
      <4>1. Sync!TypeOK'
        <5>1. children' \subseteq [by : SyncCalls, mount : SyncCalls \cup {None}] /\ kept' \subseteq SyncCalls
          OBVIOUS
        <5>2. /\ syncAnswer' \in [SyncCalls -> {"none", "ok", "error"}]
              /\ syncRequest' \in [SyncCalls -> {"none", "prepare", "finalize", "continue", "starting"}]
          OBVIOUS
        <5> QED
          BY <5>1, <5>2
      <4>2. Sync!PendingIsStaged' /\ Sync!ChildKeepsItsBundle'
        OBVIOUS
      <4>3. Sync!OneChildPerBundle'
        OBVIOUS
      <4>4. Sync!AnswerIsTrue'
        OBVIOUS
      <4>5. RequestOfCall'
        OBVIOUS
      <4>6. StagedIsFinal'
        OBVIOUS
      <4>7. OneStart'
        OBVIOUS
      <4>8. ChildOfCall'
        OBVIOUS
      <4>9. MountedOnce'
        OBVIOUS
      <4> QED
        BY <4>1, <4>2, <4>3, <4>4, <4>5, <4>6, <4>7, <4>8, <4>9
    <3> QED
      BY <3>1, <3>2
  <2> QED
    BY <1>4, <2>1, <2>2, <2>3, <2>4, <2>5, <2>6, <2>7, <2>8, <2>9, <2>10, <2>11 DEF Sync!Step
<1> QED
  BY <1>1, <1>2, <1>3, <1>4 DEF Sync!Next
-----------------------------------------------------------------------------
(* Submissions and their import *)

\* The head is recorded of the artifact that is there, as long as no write has failed.
ArtifactOfHead ==
  /\ export.step # "idle" => export.head \in Heads
  /\ export.step = "written" => artifact = export.head
  /\ failures = 0 /\ export.step # "written" => artifact = submitted

\* A call has metadata of an artifact, which agree while no write has failed, and what
\* it imports is the artifact that was listed.
CheckedIsListed ==
  \A c \in Imports :
    /\ failures = 0 => listed[c].head = listed[c].digest
    /\ patchPc[c] \in {"listed", "sized", "copied", "checked", "loaded", "stored"} =>
         listed[c].digest \in Heads
    /\ patchPc[c] \in {"checked", "loaded", "stored"} => copy[c] = listed[c].digest
    /\ patchPc[c] \in {"loaded", "stored"} => listed[c].head \in Heads

\* Every artifact there is, on whichever side, was exported from a head that was submitted.
IsTried(h) == \E k \in DOMAIN tried : tried[k] = h
ArtifactsAreTried ==
  /\ export.step # "idle" => IsTried(export.head)
  /\ artifact # None => IsTried(artifact)
  /\ \A c \in Imports : listed[c].digest # None => IsTried(listed[c].digest)
  /\ \A n \in DOMAIN mbox : IsTried(mbox[n])

\* A list of revisions as manifests hold it.
IsManifest(list) ==
  /\ \A i, j \in DOMAIN list : list[i].artifact = list[j].artifact => i = j
  /\ failures = 0 => \A i \in DOMAIN list : list[i].head = list[i].artifact
  /\ \A i \in DOMAIN list : i \in DOMAIN mbox

\* An import has loaded a manifest without its artifact, and has written its mbox before it
\* writes the manifest; as long as no two have overlapped, the manifest and the mbox are
\* still its own.
ImportsLoaded ==
  \A c \in Imports : patchPc[c] \in Patches!Importing =>
    /\ IsManifest(loaded[c])
    /\ \A i \in DOMAIN loaded[c] : loaded[c][i].artifact # copy[c]
    /\ patchPc[c] = "stored" => Len(loaded[c]) + 1 \in DOMAIN mbox
OneImport ==
  ~overlapped => Patches!MboxIsRevision /\ \A c \in Imports : patchPc[c] \in Patches!Importing =>
    /\ loaded[c] = revisions
    /\ patchPc[c] = "stored" => mbox[Len(loaded[c]) + 1] = copy[c]
    /\ \A d \in Imports : patchPc[d] \in Patches!Importing => c = d

\* The inductive invariant of submissions and their imports.
PatchInv ==
  /\ Patches!TypeOK /\ Patches!HeadHasArtifact /\ IsManifest(revisions)
  /\ ArtifactOfHead /\ CheckedIsListed /\ ArtifactsAreTried /\ ImportsLoaded /\ OneImport

\* What the runs check of submissions follows.
LEMMA PatchInvSafe == PatchInv => PatchSafety
<1> SUFFICES ASSUME PatchInv PROVE PatchSafety
  OBVIOUS
<1>1. Patches!OneRevisionPerArtifact /\ (failures = 0 => Patches!RevisionMatchesHead)
  BY DEF PatchInv, IsManifest, Patches!OneRevisionPerArtifact, Patches!RevisionMatchesHead
<1>2. Patches!MboxIsSubmission
  BY DEF PatchInv, IsManifest, ArtifactsAreTried, IsTried, Patches!MboxIsSubmission
<1> QED
  BY <1>1, <1>2 DEF PatchInv, PatchSafety, OneImport

\* What a sequence holds after another element has been added.
LEMMA AppendedTo ==
  ASSUME NEW S, NEW s \in Seq(S), NEW e \in S
  PROVE  /\ Append(s, e) \in Seq(S)
         /\ \A i \in DOMAIN Append(s, e) :
              \/ i \in DOMAIN s /\ Append(s, e)[i] = s[i]
              \/ i = Len(s) + 1 /\ Append(s, e)[i] = e
  OBVIOUS

\* Nothing has been submitted.
LEMMA PatchInit == Patches!Init => PatchInv
<1> SUFFICES ASSUME Patches!Init PROVE PatchInv
  OBVIOUS
<1> USE RemoteAssumption
    DEF Patches!PatchAssumption, Patches!Init, Patches!Idle, Patches!NotListed
<1>1. Patches!TypeOK
  <2>1. mbox \in [DOMAIN mbox -> Heads] /\ DOMAIN mbox \subseteq Nat
    OBVIOUS
  <2>2. revisions \in Seq(Patches!Revision) /\ loaded \in [Imports -> Seq(Patches!Revision)]
        /\ tried \in Seq(Heads)
    OBVIOUS
  <2>3. failures \in 0 .. MaxWriteFailures /\ listed \in [Imports -> Patches!Metadata]
    BY DEF Patches!Metadata
  <2> QED
    BY <2>1, <2>2, <2>3 DEF Patches!TypeOK
<1>2. Patches!HeadHasArtifact /\ IsManifest(revisions)
  BY DEF Patches!HeadHasArtifact, IsManifest
<1>3. ArtifactOfHead /\ CheckedIsListed /\ ArtifactsAreTried
  BY DEF ArtifactOfHead, CheckedIsListed, ArtifactsAreTried
<1>4. ImportsLoaded /\ OneImport
  BY DEF ImportsLoaded, OneImport, Patches!Importing, Patches!MboxIsRevision
<1> QED
  BY <1>1, <1>2, <1>3, <1>4 DEF PatchInv

\* The steps of the agent that submits, of the export that writes the artifact, and of the
\* operator's calls that list it, copy it, check it and import it in three steps.
LEMMA PatchStepInv == PatchInv /\ [Patches!Next]_patchVars => PatchInv'
<1> SUFFICES ASSUME PatchInv, [Patches!Next]_patchVars PROVE PatchInv'
  OBVIOUS
<1> USE RemoteAssumption
    DEF Patches!PatchAssumption, Patches!Idle, Patches!service, Patches!call, Patches!store,
      PatchInv, Patches!TypeOK, Patches!Metadata, Patches!Revision, Patches!HeadHasArtifact,
      Patches!MboxIsRevision, Patches!Importing, ArtifactOfHead, CheckedIsListed, IsTried,
      ArtifactsAreTried, IsManifest, ImportsLoaded, OneImport
<1>1. CASE UNCHANGED patchVars
  <2> USE <1>1 DEF patchVars
  <2>1. Patches!TypeOK'
    OBVIOUS
  <2>2. Patches!HeadHasArtifact' /\ IsManifest(revisions)'
    OBVIOUS
  <2>3. ArtifactOfHead' /\ CheckedIsListed'
    OBVIOUS
  <2>4. ArtifactsAreTried'
    OBVIOUS
  <2>5. ImportsLoaded'
    OBVIOUS
  <2>6. OneImport'
    OBVIOUS
  <2> QED
    BY <2>1, <2>2, <2>3, <2>4, <2>5, <2>6
<1>2. ASSUME NEW h \in Heads, Patches!ExportBegins(h) PROVE PatchInv'
  <2> USE <1>2 DEF Patches!ExportBegins
  <2>1. /\ tried' \in Seq(Heads) /\ Len(tried) + 1 \in DOMAIN tried'
        /\ tried'[Len(tried) + 1] = h
        /\ \A k \in DOMAIN tried : k \in DOMAIN tried' /\ tried'[k] = tried[k]
    OBVIOUS
  <2>2. Patches!TypeOK'
    BY <2>1
  <2>3. Patches!HeadHasArtifact' /\ IsManifest(revisions)'
    BY <2>1
  <2>4. ArtifactOfHead' /\ CheckedIsListed'
    BY <2>1
  <2>5. ArtifactsAreTried'
    BY <2>1
  <2>6. ImportsLoaded'
    BY <2>1
  <2>7. OneImport'
    BY <2>1
  <2> QED
    BY <2>2, <2>3, <2>4, <2>5, <2>6, <2>7
<1>3. CASE Patches!ExportFails
  <2> USE <1>3 DEF Patches!ExportFails
  <2>1. Patches!TypeOK'
    OBVIOUS
  <2>2. Patches!HeadHasArtifact' /\ IsManifest(revisions)'
    OBVIOUS
  <2>3. ArtifactOfHead' /\ CheckedIsListed'
    OBVIOUS
  <2>4. ArtifactsAreTried'
    OBVIOUS
  <2>5. ImportsLoaded'
    OBVIOUS
  <2>6. OneImport'
    OBVIOUS
  <2> QED
    BY <2>1, <2>2, <2>3, <2>4, <2>5, <2>6
<1>4. CASE Patches!WriteArtifact
  <2> USE <1>4 DEF Patches!WriteArtifact, Patches!Written
  <2>1. Patches!TypeOK'
    OBVIOUS
  <2>2. Patches!HeadHasArtifact' /\ IsManifest(revisions)'
    OBVIOUS
  <2>3. ArtifactOfHead' /\ CheckedIsListed'
    OBVIOUS
  <2>4. ArtifactsAreTried'
    OBVIOUS
  <2>5. ImportsLoaded'
    OBVIOUS
  <2>6. OneImport'
    OBVIOUS
  <2> QED
    BY <2>1, <2>2, <2>3, <2>4, <2>5, <2>6
<1>5. CASE Patches!RecordHead
  <2> USE <1>5 DEF Patches!RecordHead
  <2>1. Patches!TypeOK'
    OBVIOUS
  <2>2. Patches!HeadHasArtifact' /\ IsManifest(revisions)'
    OBVIOUS
  <2>3. ArtifactOfHead' /\ CheckedIsListed'
    OBVIOUS
  <2>4. ArtifactsAreTried'
    OBVIOUS
  <2>5. ImportsLoaded'
    OBVIOUS
  <2>6. OneImport'
    OBVIOUS
  <2> QED
    BY <2>1, <2>2, <2>3, <2>4, <2>5, <2>6
<1>6. CASE Patches!RecordFails
  <2> USE <1>6 DEF Patches!RecordFails
  <2>1. Patches!TypeOK'
    <3>1. failures' \in 0 .. MaxWriteFailures
      OBVIOUS
    <3> QED
      BY <3>1
  <2>2. Patches!HeadHasArtifact' /\ IsManifest(revisions)'
    OBVIOUS
  <2>3. ArtifactOfHead' /\ CheckedIsListed'
    OBVIOUS
  <2>4. ArtifactsAreTried'
    OBVIOUS
  <2>5. ImportsLoaded'
    OBVIOUS
  <2>6. OneImport'
    OBVIOUS
  <2> QED
    BY <2>1, <2>2, <2>3, <2>4, <2>5, <2>6
<1>7. ASSUME NEW c \in Imports, Patches!List(c) PROVE PatchInv'
  <2> USE <1>7 DEF Patches!List, Patches!ServiceAnswers
  <2>1. Patches!TypeOK'
    OBVIOUS
  <2>2. Patches!HeadHasArtifact' /\ IsManifest(revisions)'
    OBVIOUS
  <2>3. ArtifactOfHead' /\ CheckedIsListed'
    OBVIOUS
  <2>4. ArtifactsAreTried'
    OBVIOUS
  <2>5. ImportsLoaded'
    OBVIOUS
  <2>6. OneImport'
    OBVIOUS
  <2> QED
    BY <2>1, <2>2, <2>3, <2>4, <2>5, <2>6
<1>8. ASSUME NEW c \in Imports, Patches!AskSize(c) PROVE PatchInv'
  <2> USE <1>8 DEF Patches!AskSize
  <2>1. Patches!TypeOK'
    OBVIOUS
  <2>2. Patches!HeadHasArtifact' /\ IsManifest(revisions)'
    OBVIOUS
  <2>3. ArtifactOfHead' /\ CheckedIsListed'
    OBVIOUS
  <2>4. ArtifactsAreTried'
    OBVIOUS
  <2>5. ImportsLoaded'
    OBVIOUS
  <2>6. OneImport'
    OBVIOUS
  <2> QED
    BY <2>1, <2>2, <2>3, <2>4, <2>5, <2>6
<1>9. ASSUME NEW c \in Imports, Patches!Copy(c) PROVE PatchInv'
  <2> USE <1>9 DEF Patches!Copy
  <2>1. Patches!TypeOK'
    OBVIOUS
  <2>2. Patches!HeadHasArtifact' /\ IsManifest(revisions)'
    OBVIOUS
  <2>3. ArtifactOfHead' /\ CheckedIsListed'
    OBVIOUS
  <2>4. ArtifactsAreTried'
    OBVIOUS
  <2>5. ImportsLoaded'
    OBVIOUS
  <2>6. OneImport'
    OBVIOUS
  <2> QED
    BY <2>1, <2>2, <2>3, <2>4, <2>5, <2>6
<1>10. ASSUME NEW c \in Imports, Patches!Check(c) PROVE PatchInv'
  <2> USE <1>10 DEF Patches!Check, Patches!Accepted
  <2>1. Patches!TypeOK'
    OBVIOUS
  <2>2. Patches!HeadHasArtifact' /\ IsManifest(revisions)'
    OBVIOUS
  <2>3. ArtifactOfHead' /\ CheckedIsListed'
    OBVIOUS
  <2>4. ArtifactsAreTried'
    OBVIOUS
  <2>5. ImportsLoaded'
    OBVIOUS
  <2>6. OneImport'
    OBVIOUS
  <2> QED
    BY <2>1, <2>2, <2>3, <2>4, <2>5, <2>6
<1>11. ASSUME NEW c \in Imports, Patches!LoadManifest(c) PROVE PatchInv'
  <2> USE <1>11 DEF Patches!LoadManifest, Patches!HeadIsValid, Patches!IsNew
  <2>1. CASE /\ patchPc' = [patchPc EXCEPT ![c] = IF Patches!HeadIsValid(c) THEN "done" ELSE "failed"]
             /\ UNCHANGED <<loaded, overlapped>>
    <3> USE <2>1
    <3>1. \A d \in Imports : patchPc'[d] = patchPc[d] \/ patchPc'[d] \in {"done", "failed"}
      OBVIOUS
    <3>2. Patches!TypeOK'
      <4>1. patchPc' \in [Imports -> {"new", "listed", "sized", "copied", "checked", "done",
               "failed"} \cup Patches!Importing]
        OBVIOUS
      <4> QED
        BY <4>1
    <3>3. Patches!HeadHasArtifact' /\ IsManifest(revisions)'
      OBVIOUS
    <3>4. ArtifactOfHead' /\ CheckedIsListed' /\ ArtifactsAreTried'
      BY <3>1
    <3>5. ImportsLoaded'
      BY <3>1
    <3>6. OneImport'
      BY <3>1
    <3> QED
      BY <3>2, <3>3, <3>4, <3>5, <3>6
  <2>2. CASE /\ Patches!HeadIsValid(c) /\ Patches!IsNew(copy[c])
             /\ patchPc' = [patchPc EXCEPT ![c] = "loaded"]
             /\ loaded' = [loaded EXCEPT ![c] = revisions]
             /\ overlapped' = (overlapped \/ \E d \in Imports : patchPc[d] \in Patches!Importing)
    <3> USE <2>2
    <3>1. \A d \in Imports \ {c} : patchPc'[d] = patchPc[d] /\ loaded'[d] = loaded[d]
      OBVIOUS
    <3>2. patchPc'[c] = "loaded" /\ loaded'[c] = revisions
      OBVIOUS
    <3>3. Patches!TypeOK'
      OBVIOUS
    <3>4. Patches!HeadHasArtifact' /\ IsManifest(revisions)'
      OBVIOUS
    <3>5. ArtifactOfHead' /\ CheckedIsListed' /\ ArtifactsAreTried'
      BY <3>1, <3>2
    <3>6. ImportsLoaded'
      <4> SUFFICES ASSUME NEW d \in Imports, patchPc'[d] \in Patches!Importing
                   PROVE  /\ IsManifest(loaded[d])'
                          /\ \A i \in DOMAIN loaded'[d] : loaded'[d][i].artifact # copy'[d]
                          /\ patchPc'[d] = "stored" => Len(loaded'[d]) + 1 \in DOMAIN mbox'
        BY DEF ImportsLoaded
      <4>1. CASE d = c
        BY <3>2, <4>1
      <4>2. CASE d # c
        BY <3>1, <4>2
      <4> QED
        BY <4>1, <4>2
    <3>7. OneImport'
      <4> SUFFICES ASSUME ~overlapped' PROVE
                     /\ Patches!MboxIsRevision'
                     /\ \A d \in Imports : patchPc'[d] \in Patches!Importing =>
                          /\ loaded'[d] = revisions'
                          /\ patchPc'[d] = "stored" => mbox'[Len(loaded'[d]) + 1] = copy'[d]
                          /\ \A e \in Imports : patchPc'[e] \in Patches!Importing => d = e
        BY DEF OneImport
      <4>1. ~overlapped /\ \A d \in Imports : patchPc[d] \notin Patches!Importing
        OBVIOUS
      <4>2. \A d \in Imports \ {c} : patchPc'[d] \notin Patches!Importing
        BY <3>1, <4>1
      <4>3. Patches!MboxIsRevision'
        BY <4>1
      <4> QED
        BY ONLY <2>2, <3>2, <4>2, <4>3, UNCHANGED revisions
    <3> QED
      BY <3>3, <3>4, <3>5, <3>6, <3>7
  <2> QED
    BY <2>1, <2>2
<1>12. ASSUME NEW c \in Imports, Patches!WriteMbox(c) PROVE PatchInv'
  <2> USE <1>12 DEF Patches!WriteMbox, Patches!NextRevision
  <2>1. Patches!TypeOK'
    <3>1. mbox' \in [DOMAIN mbox' -> Heads] /\ DOMAIN mbox' \subseteq Nat
      OBVIOUS
    <3>2. patchPc' \in [Imports -> {"new", "listed", "sized", "copied", "checked", "done",
             "failed"} \cup Patches!Importing]
      OBVIOUS
    <3> QED
      BY <3>1, <3>2
  <2>2. Patches!HeadHasArtifact' /\ IsManifest(revisions)'
    OBVIOUS
  <2>3. ArtifactOfHead' /\ CheckedIsListed'
    OBVIOUS
  <2>4. ArtifactsAreTried'
    OBVIOUS
  <2>5. ImportsLoaded'
    OBVIOUS
  <2>6. OneImport'
    OBVIOUS
  <2> QED
    BY <2>1, <2>2, <2>3, <2>4, <2>5, <2>6
<1>13. ASSUME NEW c \in Imports, Patches!WriteManifest(c) PROVE PatchInv'
  <2> USE <1>13 DEF Patches!WriteManifest
  <2> DEFINE revision == [head |-> listed[c].head, artifact |-> copy[c]]
  <2>1. loaded[c] \in Seq(Patches!Revision) /\ revision \in Patches!Revision
    OBVIOUS
  <2>2. /\ revisions' \in Seq(Patches!Revision)
        /\ \A i \in DOMAIN revisions' :
             \/ i \in DOMAIN loaded[c] /\ revisions'[i] = loaded[c][i]
             \/ i = Len(loaded[c]) + 1 /\ revisions'[i] = revision
    BY <2>1, AppendedTo
  <2>3. Patches!TypeOK'
    BY <2>2
  <2>4. Patches!HeadHasArtifact' /\ IsManifest(revisions)'
    BY <2>2
  <2>5. ArtifactOfHead' /\ CheckedIsListed'
    BY <2>2
  <2>6. ArtifactsAreTried'
    BY <2>2
  <2>7. ImportsLoaded'
    BY <2>2
  <2>8. OneImport'
    BY <2>2
  <2> QED
    BY <2>3, <2>4, <2>5, <2>6, <2>7, <2>8
<1>14. ASSUME NEW c \in Imports, Patches!CallFails(c) PROVE PatchInv'
  <2> USE <1>14 DEF Patches!CallFails
  <2>1. Patches!TypeOK'
    OBVIOUS
  <2>2. Patches!HeadHasArtifact' /\ IsManifest(revisions)'
    OBVIOUS
  <2>3. ArtifactOfHead' /\ CheckedIsListed'
    OBVIOUS
  <2>4. ArtifactsAreTried'
    OBVIOUS
  <2>5. ImportsLoaded'
    OBVIOUS
  <2>6. OneImport'
    OBVIOUS
  <2> QED
    BY <2>1, <2>2, <2>3, <2>4, <2>5, <2>6
<1> QED
  BY <1>1, <1>2, <1>3, <1>4, <1>5, <1>6, <1>7, <1>8, <1>9, <1>10, <1>11, <1>12, <1>13, <1>14
     DEF Patches!Next
-----------------------------------------------------------------------------
(* The three parts within the whole service *)

\* What the service does to its uploads is a behaviour of RemoteUpload, whichever part
\* is in focus; likewise for synchronizations and submissions.
THEOREM TransfersAreParts == RemoteSpec => Upload!Spec /\ Sync!Spec /\ Patches!Spec
<1>1. RemoteInit => Upload!Init /\ Sync!Init /\ Patches!Init
  BY DEF RemoteInit
<1>2. [RemoteNext]_RemoteVars =>
        [Upload!Next]_Upload!vars /\ [Sync!Next]_Sync!vars /\ [Patches!Next]_Patches!vars
  <2> SUFFICES ASSUME [RemoteNext]_RemoteVars
               PROVE  /\ [Upload!Next]_Upload!vars /\ [Sync!Next]_Sync!vars
                      /\ [Patches!Next]_Patches!vars
    OBVIOUS
  <2> USE DEF RemoteVars, uploadVars, syncVars, patchVars, Upload!vars, Upload!disk,
            Upload!client, Upload!agents, Sync!vars, Sync!record, Sync!caller, Sync!child,
            Patches!vars, Patches!service, Patches!call, Patches!store
  <2>1. CASE RemoteNext
    BY <2>1 DEF RemoteNext, UploadStep, SyncStep, PatchesStep, ProtocolStep, DeploysStep,
       UpdateStep, RuntimeStep, SocketStep
  <2>2. CASE UNCHANGED RemoteVars
    BY <2>2
  <2> QED
    BY <2>1, <2>2
<1> QED
  BY <1>1, <1>2, PTL DEF RemoteSpec, Upload!Spec, Sync!Spec, Patches!Spec

\* remote_agent_service.py, uploads: the inductive invariant holds in every reachable state.
THEOREM UploadInvCorrect == Upload!Spec => []UploadInv
<1>1. [Upload!Next]_Upload!vars => [Upload!Next]_uploadVars
  BY DEF Upload!vars, uploadVars, Upload!disk, Upload!client, Upload!agents
<1> QED
  BY <1>1, UploadInit, UploadStepInv, PTL DEF Upload!Spec

\* remote_agent_service.py, bundles: the inductive invariant holds in every reachable state.
THEOREM SyncInvCorrect == Sync!Spec => []SyncInv
<1>1. [Sync!Next]_Sync!vars => [Sync!Next]_syncVars
  BY DEF Sync!vars, syncVars, Sync!record, Sync!caller, Sync!child
<1> QED
  BY <1>1, SyncInit, SyncStepInv, PTL DEF Sync!Spec

\* agent_controller.py and mcp_tgit_review.py, submitted patches: the inductive invariant
\* holds in every reachable state.
THEOREM PatchInvCorrect == Patches!Spec => []PatchInv
<1>1. [Patches!Next]_Patches!vars => [Patches!Next]_patchVars
  BY DEF Patches!vars, patchVars, Patches!service, Patches!call, Patches!store
<1> QED
  BY <1>1, PatchInit, PatchStepInv, PTL DEF Patches!Spec

\* However starts are repeated, removals fail and the service crashes, an upload becomes one
\* agent, and another one only after a removal that has failed or was cut; what is sealed is
\* a whole transfer that stays while it is copied, and an answer is true.
THEOREM UploadTheorem == RemoteSpec => []UploadSafety
<1>1. UploadInv => UploadSafety
  BY DEF UploadInv
<1> QED
  BY <1>1, TransfersAreParts, UploadInvCorrect, PTL

\* However continuations race with each other, with the agent's worker and with failing
\* updates and crashes, what is pending is staged, the bundle of a child stays, and a bundle
\* has one child, and another one only after an update that has failed or was cut.
THEOREM SyncTheorem == RemoteSpec => []SyncSafety
<1>1. SyncInv => SyncSafety
  BY DEF SyncInv
<1> QED
  BY <1>1, TransfersAreParts, SyncInvCorrect, PTL

\* Whatever is submitted while an artifact is listed, copied and checked, and however imports
\* overlap, a revision names the series of the head it is imported as, each artifact is one
\* revision and an mbox is a submission: the one that is named, while no two imports overlap.
THEOREM PatchTheorem == RemoteSpec => []PatchSafety
  BY TransfersAreParts, PatchInvCorrect, PatchInvSafe, PTL
=============================================================================
