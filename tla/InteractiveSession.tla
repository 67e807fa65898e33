------------------------- MODULE InteractiveSession -------------------------
(***************************************************************************)
(* Interactive Git over MCP (interactive_workflow.py, mcp_trebasei.py,     *)
(* mcp_tmergetool.py) for one repository.  A tool call starts git; git's   *)
(* editor is a bridge process that asks the session over a socket and      *)
(* waits; later calls show the request to the client, acknowledge it, and  *)
(* report how git ended.  `git mergetool` runs the bridge without a path,  *)
(* which it refuses before it asks: that session is never asked to edit.   *)
(* The session's lock is only ever held over an await by start(), so every *)
(* other handler is one action that needs the lock to be free.  The        *)
(* manager's lock is never held over an await.                             *)
(***************************************************************************)
EXTENDS Naturals, FiniteSets

CONSTANTS
  Calls,        \* the clients: each has at most one tool call under way
  NoCall,
  Edits,        \* the edit requests of git, in any order
  NoEdit,
  MaxSessions,  \* bound: session objects made for tool calls
  MaxRuns,      \* bound: git processes started
  Tool,         \* "rebase" (step_git_rebasei) or "mergetool" (step_git_mergetool)
  MayAbort,     \* calls with abort=true are made
  Repeats       \* a client may repeat a call, has_edit=true included

SessionAssumption ==
  /\ NoCall \notin Calls /\ NoEdit \notin Edits /\ IsFiniteSet(Edits)
  /\ MaxSessions \in Nat /\ MaxRuns \in Nat
  /\ Tool \in {"rebase", "mergetool"}
  /\ MayAbort \in BOOLEAN /\ Repeats \in BOOLEAN

\* A bridge may need a session of its own.
Sessions == 1 .. MaxSessions + Cardinality(Edits)

VARIABLES
  current,    \* the session under the repository's path, 0 when there is none
  created,    \* session objects made
  git,        \* of a session: "none", "alive", "exited", "collected", "reported"
  code,       \* how its git has ended
  result,     \* self.result: with it goes finished_event
  pending,    \* self.pending_request
  timedOut,   \* self.last_error
  aborting,   \* self._abort_requested
  spawner,    \* the call in start(), which holds the session's lock
  edit,       \* where an edit request is
  owner,      \* the session whose present git asked, or 0
  file,       \* where the file to edit is: "there" or "moved" into the repository
  operation,  \* the work of git under way on disk, 0 when there is none
  runs,       \* git processes started
  late,       \* _on_bridge_request_error under way, each with the operation it is about
  pc, my,     \* of a call: where it is, and the session it works on
  hasEdit, answer,
  shown       \* the edit requests some answer has listed

manager == <<current, created>>
process == <<git, code, runs>>
session == <<result, pending, timedOut, aborting, spawner>>
editing == <<edit, owner, file>>
calls   == <<pc, my, hasEdit, answer, shown>>
vars    == <<manager, process, session, editing, operation, late, calls>>

AtBridge == {"sent", "open", "resolved", "failed", "expired"}
CallAt   == {"idle", "launching", "spawning", "nothing", "advancing", "waiting",
             "popped", "terminating", "cleaning"}
Answers  == {"none", "needs_edit", "completed", "error", "aborted", "running", "other", "refused"}

TypeOK ==
  /\ current \in 0 .. created /\ created \in 0 .. MaxSessions + Cardinality(Edits)
  /\ git \in [Sessions -> {"none", "alive", "exited", "collected", "reported"}]
  /\ code \in [Sessions -> {"completed", "error"}]
  /\ result \in [Sessions -> {"none", "completed", "error", "aborted"}]
  /\ pending \in [Sessions -> Edits \cup {NoEdit}]
  /\ timedOut \in [Sessions -> BOOLEAN] /\ aborting \in [Sessions -> BOOLEAN]
  /\ spawner \in [Sessions -> Calls \cup {NoCall}]
  /\ edit \in [Edits -> AtBridge \cup {"unused", "ok", "error"}]
  /\ owner \in [Edits -> 0 .. created] /\ file \in [Edits -> {"there", "moved"}]
  /\ operation \in 0 .. MaxRuns /\ runs \in 0 .. MaxRuns /\ late \subseteq 0 .. MaxRuns
  /\ pc \in [Calls -> CallAt] /\ my \in [Calls -> 0 .. created]
  /\ hasEdit \in [Calls -> BOOLEAN] /\ answer \in [Calls -> Answers]
  /\ shown \subseteq Edits

Init ==
  /\ current = 0 /\ created = 0
  /\ git = [s \in Sessions |-> "none"] /\ code = [s \in Sessions |-> "error"]
  /\ result = [s \in Sessions |-> "none"] /\ pending = [s \in Sessions |-> NoEdit]
  /\ timedOut = [s \in Sessions |-> FALSE] /\ aborting = timedOut
  /\ spawner = [s \in Sessions |-> NoCall]
  /\ edit = [e \in Edits |-> "unused"] /\ owner = [e \in Edits |-> 0]
  /\ file = [e \in Edits |-> "there"]
  /\ operation = 0 /\ runs = 0 /\ late = {}
  /\ pc = [c \in Calls |-> "idle"] /\ my = [c \in Calls |-> 0]
  /\ hasEdit = [c \in Calls |-> FALSE] /\ answer = [c \in Calls |-> "none"]
  /\ shown = {}
-----------------------------------------------------------------------------
(* self.running: the output of git has not been collected yet; a bridge that git
   has left behind keeps the pipes open. *)
Running(s) == git[s] \in {"alive", "exited"}
LockFree(s) == spawner[s] = NoCall
Idle(s) == ~Running(s) /\ result[s] = "none" /\ pending[s] = NoEdit
NeedsEdit(s) == pending[s] # NoEdit /\ edit[pending[s]] = "open"

\* SESSIONS.get_or_create: s is the repository's session, made when there is none.
GetOrCreate(s) ==
  \/ current # 0 /\ s = current /\ UNCHANGED manager
  \/ current = 0 /\ s = created + 1 /\ current' = s /\ created' = s

MayCreate == current # 0 \/ created < MaxSessions
MayRun == runs + Cardinality({c \in Calls : pc[c] = "spawning"}) < MaxRuns

\* get_state
State(s) ==
  IF NeedsEdit(s) THEN "needs_edit"
  ELSE IF result[s] # "none" THEN result[s]
  ELSE IF Running(s) THEN "running"
  ELSE IF timedOut[s] THEN "error" ELSE "other"

\* The end of a step: the answer, and remove_if_finished after a terminal state.
Removable(s) == ~Running(s) /\ pending[s] = NoEdit

Return(c, state) ==
  /\ pc' = [pc EXCEPT ![c] = "idle"]
  /\ answer' = [answer EXCEPT ![c] = state]
  /\ shown' = IF state = "needs_edit" THEN shown \cup {pending[my[c]]} ELSE shown
  /\ current' = IF state \in {"completed", "error"} /\ current # 0 /\ Removable(current)
                THEN 0 ELSE current
  /\ UNCHANGED <<created, my, hasEdit>>

Goto(c, where) == pc' = [pc EXCEPT ![c] = where]
-----------------------------------------------------------------------------
(* Tool calls *)

\* step_git_rebasei and step(): the launcher is called only for an idle session.  A
\* client says has_edit after it was shown a request, or repeats what it said.
BeginStep(c, has) ==
  /\ pc[c] = "idle" /\ MayCreate
  /\ has => answer[c] = "needs_edit" \/ (Repeats /\ hasEdit[c])
  /\ \E s \in Sessions :
       /\ GetOrCreate(s)
       /\ my' = [my EXCEPT ![c] = s]
       /\ Goto(c, IF Idle(s) THEN "launching" ELSE "advancing")
  /\ hasEdit' = [hasEdit EXCEPT ![c] = has]
  /\ UNCHANGED <<process, session, editing, operation, late, answer, shown>>

\* _make_mergetool_launcher: "No unmerged paths found", nothing is started.
NothingToMerge(c) ==
  /\ Tool = "mergetool" /\ pc[c] = "launching"
  /\ Goto(c, "nothing")
  /\ UNCHANGED <<manager, process, session, editing, operation, late, my, hasEdit, answer, shown>>

\* The launcher, after _detect_operation, up to the spawn; the watcher of an earlier
\* git has long finished by then.
MayStart(s) == ~Running(s)

Cleared(s) == [result EXCEPT ![s] = "none"]

StartGit(c) ==
  /\ pc[c] = "launching" /\ MayCreate /\ MayRun
  /\ \E s \in Sessions :
       /\ GetOrCreate(s) /\ LockFree(s) /\ git[s] # "collected"
       /\ IF ~MayStart(s)
          THEN Goto(c, "advancing") /\ UNCHANGED session
          ELSE /\ Goto(c, "spawning")
               /\ spawner' = [spawner EXCEPT ![s] = c]
               /\ result' = Cleared(s)
               /\ pending' = [pending EXCEPT ![s] = NoEdit]
               /\ timedOut' = [timedOut EXCEPT ![s] = FALSE]
               /\ aborting' = [aborting EXCEPT ![s] = FALSE]
  /\ UNCHANGED <<process, editing, operation, late, my, hasEdit, answer, shown>>

\* git runs: a new rebase, or the one under way continued.  start() cleared the
\* request, so has_edit finds nothing to acknowledge and the call waits.
Spawned(c) ==
  /\ pc[c] = "spawning"
  /\ \E s \in Sessions :
       /\ spawner[s] = c
       /\ spawner' = [spawner EXCEPT ![s] = NoCall]
       /\ git' = [git EXCEPT ![s] = "alive"]
       /\ owner' = [e \in Edits |-> IF owner[e] = s THEN 0 ELSE owner[e]]
  /\ runs' = runs + 1
  /\ operation' = IF operation = 0 THEN runs' ELSE operation
  /\ Goto(c, IF spawner[my[c]] = c THEN "waiting" ELSE "advancing")
  /\ UNCHANGED <<manager, code, result, pending, timedOut, aborting, edit, file, late,
                 my, hasEdit, answer, shown>>

\* submit_edit_resolution, with the first get_state of wait_for_action.
SyncedBack(e) == [file EXCEPT ![e] = "there"]

AfterSubmit(s) == [pending EXCEPT ![s] = NoEdit]

GoOn(c) == Goto(c, "waiting")

Submit(c) ==
  LET s == my[c]  e == pending[s] IN
  /\ pc[c] = "advancing" /\ hasEdit[c] /\ LockFree(s) /\ NeedsEdit(s)
  /\ file' = SyncedBack(e)
  /\ edit' = [edit EXCEPT ![e] = "resolved"]
  /\ pending' = AfterSubmit(s)
  /\ GoOn(c)
  /\ UNCHANGED <<manager, process, result, timedOut, aborting, spawner, owner, operation,
                 late, my, hasEdit, answer, shown>>

\* The file cannot be moved back, or the request has just timed out.
SubmitFails(c) ==
  LET s == my[c] IN
  /\ pc[c] = "advancing" /\ hasEdit[c] /\ LockFree(s)
  /\ pending[s] # NoEdit /\ (NeedsEdit(s) => file[pending[s]] = "moved")
  /\ Return(c, "refused")
  /\ UNCHANGED <<process, session, editing, operation, late>>

\* No request to acknowledge: wait_for_action answers at once or waits.
Advance(c) ==
  LET s == my[c] IN
  /\ pc[c] = "advancing" /\ LockFree(s)
  /\ hasEdit[c] => pending[s] = NoEdit
  /\ IF State(s) \in {"needs_edit", "completed", "error"}
     THEN Return(c, State(s))
     ELSE Goto(c, "waiting") /\ UNCHANGED <<manager, my, hasEdit, answer, shown>>
  /\ UNCHANGED <<process, session, editing, operation, late>>

\* An event of the session, or wait_for_change_seconds have passed.
Wake(c) ==
  /\ pc[c] \in {"waiting", "nothing"} /\ LockFree(my[c])
  /\ Return(c, State(my[c]))
  /\ UNCHANGED <<process, session, editing, operation, late>>

\* abort=true takes the session out of the manager, then aborts it.
PopSession(c) ==
  /\ MayAbort /\ Tool = "rebase" /\ pc[c] = "idle"
  /\ my' = [my EXCEPT ![c] = current]
  /\ current' = 0
  /\ Goto(c, IF current = 0 THEN "cleaning" ELSE "popped")
  /\ UNCHANGED <<created, process, session, editing, operation, late, hasEdit, answer, shown>>

\* Where the file of an aborted edit ends up: a move that fails is passed over.
Restored(e) == {"there", file[e]}

Abort(c) ==
  LET s == my[c]  e == pending[s] IN
  /\ pc[c] = "popped" /\ LockFree(s)
  /\ aborting' = [aborting EXCEPT ![s] = TRUE]
  /\ pending' = [pending EXCEPT ![s] = NoEdit]
  /\ IF e = NoEdit THEN UNCHANGED editing
     ELSE /\ \E place \in Restored(e) : file' = [file EXCEPT ![e] = place]
          /\ edit' = [edit EXCEPT ![e] = IF @ = "open" THEN "failed" ELSE @]
          /\ UNCHANGED owner
  /\ IF git[s] = "none"
     THEN result' = [result EXCEPT ![s] = "aborted"] /\ Goto(c, "cleaning")
     ELSE Goto(c, "terminating") /\ UNCHANGED result
  /\ UNCHANGED <<manager, process, timedOut, spawner, operation, late, my, hasEdit, answer, shown>>

\* terminate or kill; the bridge of git lives on.
Terminate(c) ==
  LET s == my[c] IN
  /\ pc[c] = "terminating" /\ git[s] = "alive"
  /\ git' = [git EXCEPT ![s] = "exited"]
  /\ code' = [code EXCEPT ![s] = "error"]
  /\ UNCHANGED <<manager, runs, session, editing, operation, late, calls>>

\* proc.wait, then finished_event or five seconds.
Ended_Signalled(s) == TRUE
Ended_Aborted(s) == result[s] = "aborted"
Ended(s) == git[s] # "alive"

AbortWaited(c) ==
  /\ pc[c] = "terminating" /\ Ended(my[c])
  /\ Goto(c, "cleaning")
  /\ UNCHANGED <<manager, process, session, editing, operation, late, my, hasEdit, answer, shown>>

\* _abort_git_operation, and the answer.
AbortReturns(c) ==
  /\ pc[c] = "cleaning"
  /\ operation' = 0
  /\ Goto(c, "idle")
  /\ answer' = [answer EXCEPT ![c] = "aborted"]
  /\ UNCHANGED <<manager, process, session, editing, late, my, hasEdit, shown>>
-----------------------------------------------------------------------------
(* Git, and the handler of its editor *)

AtEditor(s) == \E e \in Edits : owner[e] = s /\ edit[e] \in AtBridge

\* An editor that fails makes git stop.  `git mergetool` gives the bridge no path, and
\* main() returns before it connects.
RunEditor(s, e) ==
  /\ Tool = "rebase" /\ git[s] = "alive" /\ ~AtEditor(s) /\ edit[e] = "unused"
  /\ \A f \in Edits : owner[f] = s => edit[f] = "ok"
  /\ edit' = [edit EXCEPT ![e] = "sent"]
  /\ owner' = [owner EXCEPT ![e] = s]
  /\ UNCHANGED <<manager, process, session, file, operation, late, calls>>

\* A rebase ends, stops (its directory stays) or fails; a mergetool ends or fails.
GitExits(s, how) ==
  /\ git[s] = "alive" /\ ~AtEditor(s)
  /\ how = "completed" => \A e \in Edits : owner[e] = s => edit[e] = "ok"
  /\ git' = [git EXCEPT ![s] = "exited"]
  /\ code' = [code EXCEPT ![s] = how]
  /\ IF how = "completed" THEN operation' = 0 ELSE operation' \in {0, operation}
  /\ UNCHANGED <<manager, runs, session, editing, late, calls>>

\* communicate() returns when nobody holds the pipes.
Collect(s) ==
  /\ git[s] = "exited" /\ ~AtEditor(s)
  /\ git' = [git EXCEPT ![s] = "collected"]
  /\ UNCHANGED <<manager, code, runs, session, editing, operation, late, calls>>

\* The rest of _watch_process, without the lock.
Outcome(s) == IF aborting[s] THEN "aborted" ELSE code[s]

Report(s) ==
  /\ git[s] = "collected"
  /\ git' = [git EXCEPT ![s] = "reported"]
  /\ result' = [result EXCEPT ![s] = Outcome(s)]
  /\ UNCHANGED <<manager, code, runs, pending, timedOut, aborting, spawner, editing,
                 operation, late, calls>>

\* _client_handler and on_edit_request up to its await.
Accepts(s) == ~NeedsEdit(s)

OpenEdit(e) ==
  /\ edit[e] = "sent"
  /\ \E s \in Sessions :
       /\ GetOrCreate(s) /\ LockFree(s)
       /\ IF Accepts(s)
          THEN /\ edit' = [edit EXCEPT ![e] = "open"]
               /\ pending' = [pending EXCEPT ![s] = e]
               /\ \E place \in {"there", "moved"} : file' = [file EXCEPT ![e] = place]
          ELSE edit' = [edit EXCEPT ![e] = "failed"] /\ UNCHANGED <<pending, file>>
  /\ UNCHANGED <<process, result, timedOut, aborting, spawner, owner, operation, late, calls>>

\* wait_for cancels the future; the handler goes on in a later turn of the loop.
Expire(e) ==
  /\ edit[e] = "open"
  /\ edit' = [edit EXCEPT ![e] = "expired"]
  /\ UNCHANGED <<manager, process, session, owner, file, operation, late, calls>>

\* The answer to the bridge; an error also starts on_request_error.
Reply(e, status) ==
  /\ edit' = [edit EXCEPT ![e] = status]
  /\ late' = IF status = "error" THEN late \cup {operation} ELSE late

ExpiredReplies(e) ==
  LET holders == {s \in Sessions : pending[s] = e} IN
  /\ edit[e] = "expired" /\ \A s \in holders : LockFree(s)
  /\ pending' = [s \in Sessions |-> IF s \in holders THEN NoEdit ELSE pending[s]]
  /\ timedOut' = [s \in Sessions |-> s \in holders \/ timedOut[s]]
  /\ Reply(e, "error")
  /\ UNCHANGED <<manager, process, result, aborting, spawner, owner, file, operation, calls>>

BridgeReplies(e) ==
  /\ edit[e] \in {"resolved", "failed"}
  /\ Reply(e, IF edit[e] = "resolved" THEN "ok" ELSE "error")
  /\ UNCHANGED <<manager, process, session, owner, file, operation, calls>>

\* _on_bridge_request_error, a task of its own: it aborts whatever is under way.
LateAbort(o) ==
  /\ o \in late
  /\ late' = late \ {o}
  /\ operation' = 0
  /\ UNCHANGED <<manager, process, session, editing, calls>>

CallStep(c) ==
  \/ \E has \in BOOLEAN : BeginStep(c, has)
  \/ NothingToMerge(c) \/ StartGit(c) \/ Spawned(c) \/ Submit(c) \/ SubmitFails(c)
  \/ Advance(c) \/ Wake(c) \/ PopSession(c) \/ Abort(c) \/ Terminate(c)
  \/ AbortWaited(c) \/ AbortReturns(c)

GitStep(s) ==
  \/ \E e \in Edits : RunEditor(s, e)
  \/ \E how \in {"completed", "error"} : GitExits(s, how)
  \/ Collect(s) \/ Report(s)

EditStep(e) == OpenEdit(e) \/ Expire(e) \/ ExpiredReplies(e) \/ BridgeReplies(e)

Next ==
  \/ \E c \in Calls : CallStep(c)
  \/ \E s \in Sessions : GitStep(s)
  \/ \E e \in Edits : EditStep(e)
  \/ \E o \in late : LateAbort(o)

Spec == Init /\ [][Next]_vars

\* The loop runs its tasks on, the lock is handed to its waiters in turn, timers
\* fire, and a terminated git ends.  Nobody is bound to make a call.
Fairness ==
  /\ \A c \in Calls :
       /\ WF_vars(Spawned(c)) /\ SF_vars(Abort(c)) /\ WF_vars(Terminate(c))
       /\ WF_vars(AbortWaited(c)) /\ WF_vars(AbortReturns(c))
  /\ \A s \in Sessions : WF_vars(Collect(s)) /\ WF_vars(Report(s))
  /\ \A e \in Edits :
       SF_vars(OpenEdit(e)) /\ WF_vars(Expire(e)) /\ SF_vars(ExpiredReplies(e))
       /\ WF_vars(BridgeReplies(e))
FairSpec == Spec /\ Fairness
-----------------------------------------------------------------------------
(* Properties *)

\* One git at a time works on the repository: "The first call starts the rebase
\* session; later calls advance it."
OneGit == Cardinality({s \in Sessions : git[s] = "alive"}) <= 1

\* git is not told that its file is edited before the file is back where git reads it
\* (submit_edit_resolution), and when a request fails with the file still in the
\* repository, its session was aborted: no other failure forgets where the file is.
AnsweredFileIsBack ==
  \A e \in Edits : file[e] = "moved" =>
    /\ edit[e] \notin {"resolved", "ok"}
    /\ edit[e] = "failed" => \E s \in Sessions : aborting[s]

\* Nor that its session is aborted: abort() moves the file back first.
AbortedFileIsBack == \A e \in Edits : edit[e] = "failed" => file[e] = "there"

\* A session waits for an edit exactly while the editor waits for the session.
PendingIsOpen ==
  /\ \A s \in Sessions : pending[s] # NoEdit => edit[pending[s]] \in {"open", "expired"}
  /\ \A e \in Edits : edit[e] = "open" => \E s \in Sessions : pending[s] = e

\* A session that has a result has no git at work: the result is of its last git.
ResultIsFinal == \A s \in Sessions : result[s] # "none" => ~Running(s)

\* "The tool returns `needs_edit` when Git requests editor input": some git waits for
\* the edit that an answer shows.
NeedsEditIsLive ==
  [][\A c \in Calls : pc[c] # "idle" /\ pc'[c] = "idle" /\ answer'[c] = "needs_edit"
       => git[owner[pending[my[c]]]] = "alive"]_vars

\* Only an edit that a client has been shown is acknowledged for it.
AcknowledgedIsShown == \A e \in Edits : edit[e] \in {"resolved", "ok"} => e \in shown

\* What is aborted on behalf of a failed edit is the operation it belonged to.
NoForeignAbort == [][\A o \in late \ late' : operation \in {0, o}]_vars

\* When abort=true returns, the git of the session it has aborted is gone.
AbortStopsGit ==
  [][\A c \in Calls : pc[c] = "cleaning" /\ my[c] # 0 /\ pc'[c] = "idle" => git[my[c]] # "alive"]_vars

\* "Terminal states are `completed` and `error`": a mergetool call that finds nothing
\* to merge says so.
NothingIsCompleted ==
  [][\A c \in Calls : pc[c] = "nothing" /\ pc'[c] = "idle" => answer'[c] = "completed"]_vars

\* mcp_tmergetool.py:161: "The tool returns `needs_edit` when an editor bridge request is
\* active": git mergetool ends after the client was shown what to edit.
MergeAsks ==
  \A s \in Sessions : Tool = "mergetool" /\ result[s] # "none" => \E e \in shown : owner[e] = s

\* Every editor gets an answer; every abort returns.
EditorAnswered == \A e \in Edits : edit[e] = "sent" ~> edit[e] \in {"ok", "error"}
AbortAnswered == \A c \in Calls : pc[c] = "popped" ~> pc[c] = "idle"
=============================================================================
