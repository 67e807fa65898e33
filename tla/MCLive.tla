------------------------------- MODULE MCLive -------------------------------
(***************************************************************************)
(* Liveness of the parts beside the controller, side by side as in         *)
(* MCRemote: one is in focus, and the fairness its module states is that   *)
(* of its own processes and timers.                                        *)
(***************************************************************************)
EXTENDS Naturals

CONSTANTS None, c1, c2, u1, mail1, mail2, e1

VARIABLES
  focus,   \* the component whose steps are taken
  incoming, completed, upload, uploadPc, uploadRequest, uploadAnswer, lock, origin,
  made, retained, crashes,
  message, checks, wirePc, proxy, service, reply, response,
  new, cur, submission, mailPc, existing, seen, got, before, present,
  current, created, git, code, result, pending, timedOut, aborting, spawner, edit,
  owner, file, operation, runs, late, sessionPc, my, hasEdit, sessionAnswer, shown,
  stored, history, workerRequest, state, submitted, commands, modelCalls, fed, turn, at,
  calls, next, inTurn, childCalls,
  client, server, connected, writer, closing, number, waiting, requests, answers,
  handling

Upload == INSTANCE RemoteUpload WITH
  Clients <- {c1, c2}, UploadIds <- {u1}, NoClient <- None, Cleanup <- TRUE,
  MaxCrashes <- 1, pc <- uploadPc, request <- uploadRequest, answer <- uploadAnswer
uploadVars ==
  <<incoming, completed, upload, uploadPc, uploadRequest, uploadAnswer, lock, origin,
    made, retained, crashes>>

Protocol == INSTANCE RemoteProtocol WITH
  Limit <- 5, pc <- wirePc
wireVars ==
  <<message, checks, wirePc, proxy, service, reply, response>>

Mail == INSTANCE ReviewMail WITH
  Mails <- {mail1, mail2}, ToAgent <- {mail1}, Submitters <- {c1}, Waiters <- {c1},
  pc <- mailPc
mailVars ==
  <<new, cur, submission, mailPc, existing, seen, got, before, present>>

Rebase == INSTANCE InteractiveSession WITH
  Calls <- {c1}, NoCall <- None, Edits <- {e1}, NoEdit <- None, MaxSessions <- 1,
  MaxRuns <- 1, Tool <- "rebase", MayAbort <- TRUE, Repeats <- FALSE, pc <- sessionPc,
  answer <- sessionAnswer
sessionVars ==
  <<current, created, git, code, result, pending, timedOut, aborting, spawner, edit,
    owner, file, operation, runs, late, sessionPc, my, hasEdit, sessionAnswer, shown>>

Feedback == INSTANCE AgentTranscript WITH
  Kinds <- {"tool", "submit", "child"}, MaxCalls <- 1, Budget <- 3, ChildBudget <- 1,
  Window <- 3, MaxFeedback <- 2, CanStop <- FALSE, request <- workerRequest
workerVars ==
  <<stored, history, workerRequest, state, submitted, commands, modelCalls, fed, turn,
    at, calls, next, inTurn, childCalls>>

Ipc == INSTANCE AgentIpc WITH
  Peers <- {c1, c2}, MaxRequests <- 2
ipcVars ==
  <<client, server, connected, writer, closing, number, waiting, requests, answers,
    handling>>

Foci == {"upload", "protocol", "mail", "rebase", "feedback", "ipc"}

LiveInit ==
  /\ focus \in Foci
  /\ IF focus = "protocol" THEN Protocol!Init /\ message.operation \in {"status", "reap_agents"}
     ELSE /\ message = [operation |-> "list_agents", fields |-> {}, bad |-> {}, size |-> 4,
                        more |-> FALSE, idOk |-> TRUE]
          /\ checks = TRUE /\ wirePc = "new" /\ proxy = "idle" /\ service = "idle"
          /\ reply = "none" /\ response = "none"
  /\ Upload!Init
  /\ Mail!Init
  /\ Rebase!Init
  /\ Feedback!Init
  /\ Ipc!Init

UploadStep ==
  /\ focus = "upload" /\ Upload!Next
  /\ UNCHANGED <<focus, wireVars, mailVars, sessionVars, workerVars, ipcVars>>
ProtocolStep ==
  /\ focus = "protocol" /\ Protocol!Next
  /\ UNCHANGED <<focus, uploadVars, mailVars, sessionVars, workerVars, ipcVars>>
MailStep ==
  /\ focus = "mail" /\ Mail!Next
  /\ UNCHANGED <<focus, uploadVars, wireVars, sessionVars, workerVars, ipcVars>>
RebaseStep ==
  /\ focus = "rebase" /\ Rebase!Next
  /\ UNCHANGED <<focus, uploadVars, wireVars, mailVars, workerVars, ipcVars>>
FeedbackStep ==
  /\ focus = "feedback" /\ Feedback!Next
  /\ UNCHANGED <<focus, uploadVars, wireVars, mailVars, sessionVars, ipcVars>>
IpcStep ==
  /\ focus = "ipc" /\ Ipc!Next
  /\ UNCHANGED <<focus, uploadVars, wireVars, mailVars, sessionVars, workerVars>>

LiveNext ==
  \/ UploadStep \/ ProtocolStep \/ MailStep \/ RebaseStep \/ FeedbackStep \/ IpcStep
LiveVars == <<focus, uploadVars, wireVars, mailVars, sessionVars, workerVars, ipcVars>>
LiveSpec == LiveInit /\ [][LiveNext]_LiveVars

\* A part out of focus takes no steps: those of which a step that must happen is possible
\* from the beginning are fair in focus.
LiveFairness ==
  /\ Upload!Fairness /\ Protocol!Fairness /\ Rebase!Fairness /\ Ipc!Fairness
  /\ WF_mailVars(/\ focus = "mail"
                 /\ Mail!ScanBegins(c1) \/ Mail!BaselineEnds(c1) \/ Mail!ScanEnds(c1))
  /\ WF_workerVars(focus = "feedback" /\ Feedback!WorkerStep)
FairSpec == LiveSpec /\ LiveFairness

ASSUME LiveAssumption ==
  /\ Upload!UploadAssumption /\ Protocol!LimitAssumption /\ Mail!MailAssumption
  /\ Rebase!SessionAssumption /\ Feedback!TranscriptAssumption /\ Ipc!IpcAssumption
-----------------------------------------------------------------------------
\* Every start that the service has taken up is answered or ended by a crash: the lock of
\* the start before it is given back whatever happened to it (start_async_handler).
StartAnswered == Upload!StartAnswered

\* A proxy that has been given a request always ends, whatever the service does with it.
ProxyAnswers == Protocol!ProxyAnswers

\* A message for the agent that arrives while wait_for_mail sleeps ends the wait, unless the
\* wait times out.
WaitEnds == Mail!WaitEnds

\* Every editor that git starts gets an answer, from the operator, the abort or the time
\* limit, and every call with abort=true returns.
SessionAnswers == Rebase!EditorAnswered /\ Rebase!AbortAnswered

\* Every message of the operator gets into the worker's transcript, unless the worker ends.
FeedbackIsTakenUp == Feedback!FeedbackIsTakenUp

\* Every request of a worker ends, and a server that is stopped ends its connection,
\* whatever the handlers do.
IpcEnds == Ipc!RequestEnds /\ Ipc!StopDisconnects
=============================================================================
