---------------------------- MODULE RemoteUpload ----------------------------
(***************************************************************************)
(* The way of an uploaded project to a remote agent: RemoteAgentAdapter    *)
(* .start (remote_agent_adapter.py) on the client, RemoteUploadManager     *)
(* (remote_agent_upload.py) in the service.  An upload is prepared, filled *)
(* by rsync, sealed by a rename into completed/, copied by start_agent and *)
(* then removed.  A removal takes one entry after the other: it may fail,  *)
(* or be cut by a crash, with any part of the upload left.  Requests       *)
(* outlive the clients that have timed out; the service may crash between  *)
(* any two steps; cleanup_abandoned runs in a process of its own and       *)
(* shares only the publication lock.                                       *)
(*                                                                         *)
(* The handlers of prepare and finalize do not await: each is one action.  *)
(***************************************************************************)
EXTENDS Naturals

CONSTANTS
  Clients,     \* calls of RemoteAgentAdapter.start, or of a client that repeats "start"
  UploadIds,   \* the upload ids these calls use
  NoClient,    \* nobody holds _async_start_lock
  Cleanup,     \* cleanup_abandoned is run (the service itself never calls it)
  MaxCrashes   \* bound: crashes of the service

UploadAssumption ==
  /\ NoClient \notin Clients
  /\ Cleanup \in BOOLEAN
  /\ MaxCrashes \in Nat

VARIABLES
  incoming,   \* incoming/<id>: "absent", "empty", "partial", "full"
  completed,  \* completed/<id>
  upload,     \* the upload id a client uses
  pc,         \* where the client is
  request,    \* what the service has of the client's request, and how far it got
  answer,     \* the response on its way to the client
  lock,       \* holder of _async_start_lock
  origin,     \* the clients whose start made an agent of what is now under an id
  made,       \* the clients whose start has made an agent
  retained,   \* those of them whose upload was not removed whole after it
  crashes

disk   == <<incoming, completed>>
client == <<upload, pc>>
agents == <<origin, made, retained>>
vars   == <<disk, client, request, answer, lock, agents, crashes>>

Contents   == {"absent", "empty", "partial", "full"}
Waiting    == {"preparing", "finalizing", "starting"}
StartSteps == {"queued", "starting", "started"}

\* What a removal that does not come to its end leaves of a directory.
Remains == [full |-> {"full", "partial", "empty"}, partial |-> {"partial", "empty"},
            empty |-> {"empty"}, absent |-> {}]

TypeOK ==
  /\ incoming \in [UploadIds -> Contents] /\ completed \in [UploadIds -> Contents]
  /\ upload \in [Clients -> UploadIds]
  /\ pc \in [Clients -> Waiting \cup {"new", "uploading", "done", "failed"}]
  /\ request \in [Clients -> StartSteps \cup {"none", "prepare", "finalize"}]
  /\ answer \in [Clients -> {"none", "ok", "error"}]
  /\ lock \in Clients \cup {NoClient}
  /\ origin \in [UploadIds -> SUBSET Clients]
  /\ made \subseteq Clients /\ retained \subseteq made
  /\ crashes \in 0 .. MaxCrashes

Init ==
  /\ incoming = [u \in UploadIds |-> "absent"] /\ completed = incoming
  /\ upload \in [Clients -> UploadIds]
  /\ pc = [c \in Clients |-> "new"]
  /\ request = [c \in Clients |-> "none"] /\ answer = request
  /\ lock = NoClient
  /\ origin = [u \in UploadIds |-> {}] /\ made = {} /\ retained = {}
  /\ crashes = 0
-----------------------------------------------------------------------------
(* The client *)

Send(c, stage, operation) ==
  /\ pc' = [pc EXCEPT ![c] = stage]
  /\ request' = [request EXCEPT ![c] = operation]

\* RemoteAgentAdapter.start: the upload is prepared under a new or a given id.
Begin(c) ==
  /\ pc[c] = "new"
  /\ Send(c, "preparing", "prepare")
  /\ UNCHANGED <<disk, upload, answer, lock, agents, crashes>>

\* A client that repeats the start of an upload that was finalized before: the
\* service retains an upload whose start has failed.
BeginAgain(c) ==
  /\ pc[c] = "new"
  /\ \E d \in Clients \ {c} : upload[d] = upload[c] /\ pc[d] \in {"starting", "failed"}
  /\ Send(c, "starting", "queued")
  /\ UNCHANGED <<disk, upload, answer, lock, agents, crashes>>

\* rsync -a into incoming/<id>, which it creates when it is not there.  A clean-up
\* that runs meanwhile may take files it has written.
RsyncBegins(c) ==
  LET u == upload[c] IN
  /\ pc[c] = "uploading" /\ incoming[u] # "partial"
  /\ incoming' = [incoming EXCEPT ![u] = "partial"]
  /\ UNCHANGED <<completed, client, request, answer, lock, agents, crashes>>

RsyncEnds(c) ==
  LET u == upload[c] IN
  /\ pc[c] = "uploading" /\ incoming[u] = "partial"
  /\ \E written \in IF Cleanup THEN {"partial", "full"} ELSE {"full"} :
       incoming' = [incoming EXCEPT ![u] = written]
  /\ Send(c, "finalizing", "finalize")
  /\ UNCHANGED <<completed, upload, answer, lock, agents, crashes>>

RsyncFails(c) ==
  /\ pc[c] = "uploading"
  /\ pc' = [pc EXCEPT ![c] = "failed"]
  /\ UNCHANGED <<disk, upload, request, answer, lock, agents, crashes>>

\* The client takes the response; an error ends the call.
Receive(c) ==
  /\ pc[c] \in Waiting /\ answer[c] # "none"
  /\ answer' = [answer EXCEPT ![c] = "none"]
  /\ IF answer[c] = "error"
     THEN pc' = [pc EXCEPT ![c] = "failed"] /\ UNCHANGED request
     ELSE CASE pc[c] = "preparing" -> pc' = [pc EXCEPT ![c] = "uploading"] /\ UNCHANGED request
            [] pc[c] = "finalizing" -> Send(c, "starting", "queued")
            [] pc[c] = "starting" -> pc' = [pc EXCEPT ![c] = "done"] /\ UNCHANGED request
  /\ UNCHANGED <<disk, upload, lock, agents, crashes>>

\* RemoteAgentClient.request gives up after 30 s (or ssh fails).  What has reached
\* the service stays there; a request that has not started may also be lost.
ClientTimeout(c) ==
  /\ pc[c] \in Waiting
  /\ pc' = [pc EXCEPT ![c] = "failed"]
  /\ \/ UNCHANGED request
     \/ request[c] \in {"prepare", "finalize", "queued"} /\ lock # c
        /\ request' = [request EXCEPT ![c] = "none"]
  /\ answer' = [answer EXCEPT ![c] = "none"]
  /\ UNCHANGED <<disk, upload, lock, agents, crashes>>
-----------------------------------------------------------------------------
(* The service *)

Respond(c, result) ==
  /\ request' = [request EXCEPT ![c] = "none"]
  /\ answer' = [answer EXCEPT ![c] = IF pc[c] \in Waiting THEN result ELSE "none"]

\* create_incoming refuses an id that is in either directory.
IsFreeId(u) == completed[u] = "absent" /\ incoming[u] = "absent"

CreateIncoming(c) ==
  LET u == upload[c] IN
  /\ request[c] = "prepare"
  /\ IF IsFreeId(u)
     THEN /\ incoming' = [incoming EXCEPT ![u] = "empty"]
          /\ origin' = [origin EXCEPT ![u] = {}]
          /\ Respond(c, "ok")
     ELSE Respond(c, "error") /\ UNCHANGED <<incoming, origin>>
  /\ UNCHANGED <<completed, client, lock, made, retained, crashes>>

\* finalize_upload_handler seals a non-empty upload by renaming it.
FinalizeUpload(c) ==
  LET u == upload[c] IN
  /\ request[c] = "finalize"
  /\ IF completed[u] = "absent" /\ incoming[u] \notin {"absent", "empty"}
     THEN /\ completed' = [completed EXCEPT ![u] = incoming[u]]
          /\ incoming' = [incoming EXCEPT ![u] = "absent"]
          /\ Respond(c, "ok")
     ELSE Respond(c, "error") /\ UNCHANGED disk
  /\ UNCHANGED <<client, lock, agents, crashes>>

\* start_async_handler, up to the await of start_agent.  The copy into the agent's
\* snapshot is taken while start_agent runs.
StartAllowed_NoLock(c) == TRUE
StartAllowed(c) == lock = NoClient

StartBegins(c) ==
  /\ request[c] = "queued" /\ StartAllowed(c)
  /\ IF completed[upload[c]] \in {"absent", "empty"}
     THEN Respond(c, "error") /\ UNCHANGED lock
     ELSE /\ lock' = c
          /\ request' = [request EXCEPT ![c] = "starting"]
          /\ UNCHANGED answer
  /\ UNCHANGED <<disk, client, agents, crashes>>

ReleaseLock_OnSuccess(c) == lock' = IF request[c] = "started" THEN NoClient ELSE lock
ReleaseLock(c) == lock' = NoClient

\* start_agent raises: the lock is released, the upload is retained.
StartFails(c) ==
  /\ request[c] = "starting"
  /\ Respond(c, "error")
  /\ ReleaseLock(c)
  /\ UNCHANGED <<disk, client, agents, crashes>>

AgentStarted(c) ==
  /\ request[c] = "starting"
  /\ request' = [request EXCEPT ![c] = "started"]
  /\ origin' = [origin EXCEPT ![upload[c]] = @ \cup {c}]
  /\ made' = made \cup {c}
  /\ UNCHANGED <<disk, client, answer, lock, retained, crashes>>

\* rmtree, the release of the lock and the response, with no await in between.  When
\* rmtree raises, the request is answered with an error although the agent exists.
Consumed(u) == [completed EXCEPT ![u] = "absent"]

ConsumeUpload(c) ==
  LET u == upload[c] IN
  /\ request[c] = "started"
  /\ \/ /\ completed' = Consumed(u)
        /\ Respond(c, IF completed[u] = "absent" THEN "error" ELSE "ok")
        /\ UNCHANGED retained
     \/ /\ \E rest \in Remains[completed[u]] : completed' = [completed EXCEPT ![u] = rest]
        /\ Respond(c, "error")
        /\ retained' = retained \cup {c}
  /\ ReleaseLock(c)
  /\ UNCHANGED <<incoming, client, origin, made, crashes>>

\* Memory and connections are lost; the directories and the agents' records stay.  A
\* removal under way is cut.
RemovalIsCut ==
  \E c \in Clients :
    LET u == upload[c] IN
    /\ request[c] = "started"
    /\ \/ completed' = Consumed(u) /\ UNCHANGED retained
       \/ /\ \E rest \in Remains[completed[u]] : completed' = [completed EXCEPT ![u] = rest]
          /\ retained' = retained \cup {c}

Crash ==
  /\ crashes < MaxCrashes
  /\ crashes' = crashes + 1
  /\ lock' = NoClient
  /\ request' = [c \in Clients |-> "none"] /\ answer' = request'
  /\ \/ RemovalIsCut
     \/ (\A c \in Clients : request[c] # "started") /\ UNCHANGED <<completed, retained>>
  /\ UNCHANGED <<incoming, client, origin, made>>

\* cleanup_abandoned takes any directory older than its limit, in both places (rsync
\* -a gives a directory the time stamp of the project, so a new one may be old).
\* A removal that takes several directories, or is seen before its end, is several of
\* these steps.
CleanupAbandoned(u) ==
  /\ Cleanup
  /\ \/ /\ \E rest \in Remains[incoming[u]] \cup {"absent"} :
             incoming' = [incoming EXCEPT ![u] = rest]
        /\ UNCHANGED completed
     \/ /\ \E rest \in Remains[completed[u]] \cup {"absent"} :
             completed' = [completed EXCEPT ![u] = rest]
        /\ UNCHANGED incoming
  /\ UNCHANGED <<client, request, answer, lock, agents, crashes>>

ClientStep(c) ==
  \/ Begin(c) \/ BeginAgain(c) \/ RsyncBegins(c) \/ RsyncEnds(c) \/ RsyncFails(c)
  \/ Receive(c) \/ ClientTimeout(c)

ServiceStep(c) ==
  \/ CreateIncoming(c) \/ FinalizeUpload(c) \/ StartBegins(c) \/ StartFails(c)
  \/ AgentStarted(c) \/ ConsumeUpload(c)

Next ==
  \/ \E c \in Clients : ClientStep(c) \/ ServiceStep(c)
  \/ Crash
  \/ \E u \in UploadIds : CleanupAbandoned(u)

Spec == Init /\ [][Next]_vars

\* The loop runs every handler on, start_agent returns or raises, and asyncio.Lock
\* serves its waiters in turn.
Fairness ==
  \A c \in Clients :
    /\ WF_vars(StartFails(c) \/ AgentStarted(c)) /\ WF_vars(ConsumeUpload(c))
    /\ SF_vars(StartBegins(c))
FairSpec == Spec /\ Fairness
-----------------------------------------------------------------------------
(* Safety *)

\* However often its start is sent again, at the same time or later, an upload becomes
\* one agent beside those whose upload could not be removed: only a removal that has
\* failed or was cut by a crash leaves one that can be started again
\* (start_async_handler).
OneAgentPerUpload ==
  \A u \in UploadIds : \A c, d \in origin[u] \ retained : c = d

\* What has been sealed is complete: a start never copies half a transfer (prepare
\* refuses a second writer, finalize only follows a finished rsync).  Half an upload is
\* what a failed or cut removal has left of one that already became an agent.
SealedIsComplete ==
  \A u \in UploadIds :
    completed[u] \notin {"absent", "full"} => origin[u] \cap retained # {}

\* A client that is told that its start has failed has no agent it does not know of,
\* unless it was only the removal that failed; one that is told "ok" has one, and its
\* upload is gone.
AnswerIsTrue ==
  \A c \in Clients : pc[c] = "starting" =>
    /\ answer[c] = "error" => (c \in made <=> c \in retained)
    /\ answer[c] = "ok" => c \in made \ retained

\* The lock is held exactly by a start that is under way, also after failures,
\* time-outs of its client and crashes.
LockIsHeld == \A c \in Clients : request[c] \in {"starting", "started"} <=> lock = c

\* While start_agent is awaited the upload it copies is there ("Async start handler
\* that retains uploads through awaited startup"), and whole unless an earlier removal
\* has left less of it.  Not so when cleanup_abandoned runs meanwhile.
RetainedThroughStartup ==
  \A c \in Clients : request[c] = "starting" =>
    /\ completed[upload[c]] \notin {"absent", "empty"}
    /\ origin[upload[c]] \cap retained = {} => completed[upload[c]] = "full"

\* Every start the service has taken up is answered, or ended by a crash.
StartAnswered == \A c \in Clients : request[c] \in StartSteps ~> request[c] \notin StartSteps
=============================================================================
