---------------------------- MODULE LocalSystem -----------------------------
(***************************************************************************)
(* The parts of the operator's side and of an agent's own process side by  *)
(* side: the review store and its mail, interactive Git sessions, a        *)
(* worker's transcript and its connection, the agent records, the index    *)
(* selections, the application of submitted patches and the project        *)
(* snapshots.  As in RemoteSystem they share no state, so one of them is   *)
(* in focus and takes its steps.                                           *)
(***************************************************************************)
EXTENDS AgentIpc

CONSTANTS
  Operator,                                      \* the one process or client of its kind
  Artifacts, SeriesParts, Replies, MaxFaults,    \* ReviewStore
  Mails, ToAgent, Waiters,                       \* ReviewMail
  RebaseEdits, PickEdits, MaxSessions, MaxRuns,  \* InteractiveSession
  MaxCalls, Budget, ChildBudget, Window, MaxFeedback,  \* AgentTranscript: Feedback
  ViewBudget, ViewWindow, ViewFeedback,          \* AgentTranscript: View
  SummaryCalls, MaxVersions,                     \* SummaryCache
  MaxEntries,                                    \* PatchSelection
  Snapshots, Checkout, MaxCommits, CloneCommits, \* ProjectSnapshot
  ApplyCalls, MaxSubmissions, MaxRestarts        \* ApplyPatch

VARIABLES
  focus,   \* the component whose steps are taken
  revisions, storeAcknowledged, mbox, maildir, replies, notices, reported, storePc,
  storeJob, copy, faults,
  new, cur, submission, mailPc, existing, seen, got, before, present,
  current, created, git, code, result, pending, timedOut, aborting, spawner, edit,
  owner, file, operation, runs, late, sessionPc, my, hasEdit, answer, shown,
  stored, history, request, workerState, workerSubmitted, commands, modelCalls, fed,
  turn, at, calls, next, inTurn, childCalls,
  directory, metadata, version, summary, step, hurt, call, read,
  reverse, script, oldLines, newLines, hunkTodo, image, patched, refused,
  files, head, objects, gitOf, marker, agents, snapshotJob, base, snapshotTodo, packing,
  writing,
  applyState, live, runtime, applySubmitted, applyAcknowledged, restarts, artifact,
  applyPc, applied, inSession

Store == INSTANCE ReviewStore WITH
  Procs <- {Operator}, Parts <- SeriesParts, acknowledged <- storeAcknowledged,
  pc <- storePc, job <- storeJob
storeVars ==
  <<revisions, storeAcknowledged, mbox, maildir, replies, notices, reported, storePc,
    storeJob, copy, faults>>

Mail == INSTANCE ReviewMail WITH
  Submitters <- {Operator}, pc <- mailPc
mailVars ==
  <<new, cur, submission, mailPc, existing, seen, got, before, present>>

Rebase == INSTANCE InteractiveSession WITH
  Calls <- {Operator}, NoCall <- None, Edits <- RebaseEdits, NoEdit <- None,
  Tool <- "rebase", MayAbort <- TRUE, Repeats <- FALSE, pc <- sessionPc
Picks == INSTANCE InteractiveSession WITH
  Calls <- {Operator}, NoCall <- None, Edits <- PickEdits, NoEdit <- None,
  MaxSessions <- 1, Tool <- "rebase", MayAbort <- FALSE, Repeats <- FALSE, pc <- sessionPc
Merge == INSTANCE InteractiveSession WITH
  Calls <- {Operator}, NoCall <- None, Edits <- RebaseEdits, NoEdit <- None,
  Tool <- "mergetool", MayAbort <- FALSE, Repeats <- FALSE, pc <- sessionPc
sessionVars ==
  <<current, created, git, code, result, pending, timedOut, aborting, spawner, edit,
    owner, file, operation, runs, late, sessionPc, my, hasEdit, answer, shown>>

Feedback == INSTANCE AgentTranscript WITH
  Kinds <- {"tool", "submit", "child"}, CanStop <- TRUE, state <- workerState,
  submitted <- workerSubmitted
View == INSTANCE AgentTranscript WITH
  Kinds <- {"tool"}, Budget <- ViewBudget, Window <- ViewWindow,
  MaxFeedback <- ViewFeedback, CanStop <- FALSE, state <- workerState,
  submitted <- workerSubmitted
workerVars ==
  <<stored, history, request, workerState, workerSubmitted, commands, modelCalls, fed,
    turn, at, calls, next, inTurn, childCalls>>

Summary == INSTANCE SummaryCache WITH
  Calls <- SummaryCalls, Failing <- TRUE, Crashing <- TRUE
recordVars ==
  <<directory, metadata, version, summary, step, hurt, call, read>>

Hunks == INSTANCE PatchSelection WITH
  todo <- hunkTodo
hunkVars ==
  <<reverse, script, oldLines, newLines, hunkTodo, image, patched, refused>>

Worktree == INSTANCE ProjectSnapshot WITH
  Linked <- TRUE, MayRepack <- FALSE, MayBeCut <- TRUE, job <- snapshotJob,
  todo <- snapshotTodo
Clone == INSTANCE ProjectSnapshot WITH
  MaxCommits <- CloneCommits, Linked <- FALSE, MayRepack <- TRUE, MayBeCut <- FALSE,
  job <- snapshotJob, todo <- snapshotTodo
snapshotVars ==
  <<files, head, objects, gitOf, marker, agents, snapshotJob, base, snapshotTodo,
    packing, writing>>

Apply == INSTANCE ApplyPatch WITH
  Calls <- ApplyCalls, Remote <- TRUE, state <- applyState,
  submitted <- applySubmitted, acknowledged <- applyAcknowledged,
  pc <- applyPc
applyVars ==
  <<applyState, live, runtime, applySubmitted, applyAcknowledged, restarts, artifact,
    applyPc, applied, inSession>>

Foci == {"store", "mail", "rebase", "picks", "mergetool", "feedback", "view", "summary",
          "hunks", "worktree", "clone", "apply", "ipc"}

LocalInit ==
  /\ focus \in Foci
  /\ Store!Init
  /\ Mail!Init
  /\ IF focus = "picks" THEN Picks!Init ELSE Rebase!Init
  /\ IF focus = "view" THEN View!Init ELSE Feedback!Init
  /\ Summary!Init
  /\ Hunks!Init
  /\ focus # "hunks" => script = <<"both">> /\ ~reverse
  /\ IF focus = "clone" THEN Clone!Init ELSE Worktree!Init
  /\ Apply!Init
  /\ Init

StoreStep ==
  /\ focus = "store" /\ Store!Next
  /\ UNCHANGED <<focus, mailVars, sessionVars, workerVars, recordVars, hunkVars,
                 snapshotVars, applyVars, vars>>
MailStep ==
  /\ focus = "mail" /\ Mail!Next
  /\ UNCHANGED <<focus, storeVars, sessionVars, workerVars, recordVars, hunkVars,
                 snapshotVars, applyVars, vars>>
RebaseStep ==
  /\ focus = "rebase" /\ Rebase!Next
  /\ UNCHANGED <<focus, storeVars, mailVars, workerVars, recordVars, hunkVars,
                 snapshotVars, applyVars, vars>>
PicksStep ==
  /\ focus = "picks" /\ Picks!Next
  /\ UNCHANGED <<focus, storeVars, mailVars, workerVars, recordVars, hunkVars,
                 snapshotVars, applyVars, vars>>
MergeStep ==
  /\ focus = "mergetool" /\ Merge!Next
  /\ UNCHANGED <<focus, storeVars, mailVars, workerVars, recordVars, hunkVars,
                 snapshotVars, applyVars, vars>>
FeedbackStep ==
  /\ focus = "feedback" /\ Feedback!Next
  /\ UNCHANGED <<focus, storeVars, mailVars, sessionVars, recordVars, hunkVars,
                 snapshotVars, applyVars, vars>>
ViewStep ==
  /\ focus = "view" /\ View!Next
  /\ UNCHANGED <<focus, storeVars, mailVars, sessionVars, recordVars, hunkVars,
                 snapshotVars, applyVars, vars>>
SummaryStep ==
  /\ focus = "summary" /\ Summary!Next
  /\ UNCHANGED <<focus, storeVars, mailVars, sessionVars, workerVars, hunkVars,
                 snapshotVars, applyVars, vars>>
HunksStep ==
  /\ focus = "hunks" /\ Hunks!Next
  /\ UNCHANGED <<focus, storeVars, mailVars, sessionVars, workerVars, recordVars,
                 snapshotVars, applyVars, vars>>
WorktreeStep ==
  /\ focus = "worktree" /\ Worktree!Next
  /\ UNCHANGED <<focus, storeVars, mailVars, sessionVars, workerVars, recordVars,
                 hunkVars, applyVars, vars>>
CloneStep ==
  /\ focus = "clone" /\ Clone!Next
  /\ UNCHANGED <<focus, storeVars, mailVars, sessionVars, workerVars, recordVars,
                 hunkVars, applyVars, vars>>
ApplyStep ==
  /\ focus = "apply" /\ Apply!Next
  /\ UNCHANGED <<focus, storeVars, mailVars, sessionVars, workerVars, recordVars,
                 hunkVars, snapshotVars, vars>>
IpcStep ==
  /\ focus = "ipc" /\ Next
  /\ UNCHANGED <<focus, storeVars, mailVars, sessionVars, workerVars, recordVars,
                 hunkVars, snapshotVars, applyVars>>

LocalNext ==
  \/ StoreStep \/ MailStep \/ RebaseStep \/ PicksStep \/ MergeStep \/ FeedbackStep
  \/ ViewStep \/ SummaryStep \/ HunksStep \/ WorktreeStep \/ CloneStep \/ ApplyStep
  \/ IpcStep
LocalVars == <<focus, storeVars, mailVars, sessionVars, workerVars, recordVars,
              hunkVars, snapshotVars, applyVars, vars>>
LocalSpec == LocalInit /\ [][LocalNext]_LocalVars

ASSUME LocalAssumption ==
  /\ Store!ReviewAssumption /\ Mail!MailAssumption
  /\ Rebase!SessionAssumption /\ Picks!SessionAssumption /\ Merge!SessionAssumption
  /\ Feedback!TranscriptAssumption /\ View!TranscriptAssumption
  /\ Summary!SummaryAssumption
  /\ Hunks!SelectionAssumption
  /\ Worktree!SnapshotAssumption /\ Clone!SnapshotAssumption
  /\ Apply!ApplyAssumption
-----------------------------------------------------------------------------
\* One process at a time: the mbox of a revision is that revision's, what was delivered is
\* known, an artifact is one revision, and revisions and acknowledgements are never lost,
\* whatever deliveries fail and wherever the process crashes.
StoreSafety ==
  /\ [](/\ Store!TypeOK /\ Store!RevisionHasItsMbox /\ Store!DeliveredIsKnown
        /\ Store!OneRevisionPerArtifact)
  /\ Store!ManifestOnlyGrows

\* While mail is delivered and a mail reader moves it between the two listings of a scan:
\* only fresh mail ends a wait, none is overlooked, and a repeated submission is kept once.
MailSafety ==
  /\ Mail!TypeOK /\ Mail!OnlyFreshMail /\ Mail!TimeoutMissesNothing /\ Mail!CapturedOnce

\* Of rebase sessions that are stepped, repeated, timed out and aborted: one git works at a
\* time, it is told that its file is edited only when the file is back, only an abort may
\* leave it away, a session with a result has no git, and an abort that returns has ended
\* its git.  Of a rebase with several edits and no abort: an edit is only acknowledged when
\* it was shown, and a session waits exactly when its editor does.  Of a merge, which asks
\* for no edit: one git, and no result while it works.
SessionSafety ==
  /\ [](focus \notin {"picks", "mergetool"} =>
          Rebase!TypeOK /\ Rebase!OneGit /\ Rebase!AnsweredFileIsBack /\ Rebase!ResultIsFinal)
  /\ [](focus = "picks" => Picks!TypeOK /\ Picks!AcknowledgedIsShown /\ Picks!PendingIsOpen)
  /\ [](focus = "mergetool" => Merge!TypeOK /\ Merge!OneGit /\ Merge!ResultIsFinal)
  /\ Rebase!AbortStopsGit

\* However feedback, stops and recoveries interleave with the worker's steps, its copy is
\* of the record and it never waits with feedback unread; the window on a long transcript
\* never shows the model a result without its call, nor a call without its result.
TranscriptSafety ==
  /\ focus # "view" =>
       Feedback!TypeOK /\ Feedback!CopyIsOfRecord /\ Feedback!FeedbackIsRead
  /\ focus = "view" => View!TypeOK /\ View!NoOrphanResult /\ View!CallsAreAnswered

\* Of two calls of apply_agent_patch in remote mode and an agent that submits, ends or is
\* restarted between their steps: nothing is acknowledged when nothing was applied, and no
\* worker goes on, or submits, under an acknowledgement.
ApplySafety ==
  /\ Apply!TypeOK /\ Apply!NothingAppliedNothingAcknowledged /\ Apply!AcknowledgedIsOver

\* The server never runs two handlers of an agent, a client that goes on never meets the
\* answer to an earlier request, and worker_connected is true exactly while one is served.
IpcSafety == TypeOK /\ OneHandler /\ InStep /\ ConnectedIsServed

\* The record of an agent is whole or absent between operations, a removed one is never
\* brought back by a late summary, and an append ends the validity of the cached summary,
\* although writes fail and the controller crashes.
RecordSafety ==
  /\ [](Summary!TypeOK /\ Summary!RecordIsWhole)
  /\ Summary!RemovedStaysRemoved /\ Summary!AppendInvalidates

\* Whatever lines are staged (unstaged), the index gets those and no others, and whole
\* hunks from the top get to their place.
SelectionSafety == Hunks!TypeOK /\ Hunks!PrefixIsExact /\ Hunks!RightLines

\* An agent starts from a commit whose objects its snapshot has, in any chain of snapshots
\* of a linked worktree, while the operator commits and a removal is cut short, and none
\* moves the operator's HEAD; it has all the files when no removal is cut short.
SnapshotSafety ==
  /\ [](IF focus = "clone" THEN Clone!TypeOK ELSE Worktree!TypeOK)
  /\ Worktree!CheckoutIsTheOperators
  /\ [][focus = "worktree" => Worktree!StartHasItsCommit]_snapshotVars
  /\ [][focus = "clone" => Clone!StartHasItsFiles]_snapshotVars
=============================================================================
