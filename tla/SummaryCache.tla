---------------------------- MODULE SummaryCache ----------------------------
(***************************************************************************)
(* The record of one agent on disk (agent_store.py): metadata.json,        *)
(* history.json and the cached summary, each written by replacing a file,  *)
(* with the failures and crashes that fall between two files; and          *)
(* summarize_agent_history (mcp_agent.py), which reads the transcript,     *)
(* waits for the language model and then caches the summary under the      *)
(* version (mtime and size) the transcript has by then.  A transcript is   *)
(* known by its number of appends.                                         *)
(***************************************************************************)
EXTENDS Naturals

CONSTANTS
  Calls,       \* calls of summarize_agent_history
  None,        \* no summary
  MaxVersions, \* bound: versions of the transcript
  Failing,     \* writes and removals of files may fail
  Crashing     \* the controller may crash between two files

SummaryAssumption == MaxVersions \in Nat \ {0} /\ Failing \in BOOLEAN /\ Crashing \in BOOLEAN

VARIABLES
  directory, \* the agent's directory exists
  metadata,  \* metadata.json exists
  version,   \* version of history.json, 0: no file
  summary,   \* history_summary.json: [of, stamp] or None
  step,      \* the store operation under way: "idle", "creating", "appending", "removing"
  hurt,      \* a crash, a failed removal or a failed clean-up has left a part of the record
  call,      \* a summary call: "new", "asking", "done", "failed"
  read       \* the version a call has sent to the model

vars == <<directory, metadata, version, summary, step, hurt, call, read>>

Versions == 1 .. MaxVersions

TypeOK ==
  /\ directory \in BOOLEAN /\ metadata \in BOOLEAN /\ hurt \in BOOLEAN
  /\ version \in 0 .. MaxVersions
  /\ summary \in [of : Versions, stamp : Versions] \cup {None}
  /\ step \in {"idle", "creating", "appending", "removing"}
  /\ call \in [Calls -> {"new", "asking", "done", "failed"}]
  /\ read \in [Calls -> 0 .. MaxVersions]

Init ==
  /\ directory = TRUE /\ metadata = FALSE /\ version = 0 /\ summary = None
  /\ step = "creating" /\ hurt = FALSE
  /\ call = [c \in Calls |-> "new"] /\ read = [c \in Calls |-> 0]

\* The store's operations are not interrupted by the controller's other tasks.
Idle == step = "idle"

-----------------------------------------------------------------------------
(* create *)

WriteMetadata ==
  /\ step = "creating" /\ ~metadata /\ metadata' = TRUE
  /\ UNCHANGED <<directory, version, summary, step, hurt, call, read>>

WriteHistory ==
  /\ step = "creating" /\ metadata /\ version' = 1 /\ step' = "idle"
  /\ UNCHANGED <<directory, metadata, summary, hurt, call, read>>

Undone == directory' = FALSE /\ metadata' = FALSE

\* The clean-up of a failed create may fail too; a write may have failed after it had
\* replaced the file.
PartlyUndone ==
  /\ metadata' \in BOOLEAN /\ version' \in {0, IF metadata THEN 1 ELSE 0}
  /\ UNCHANGED directory

CreateFails ==
  /\ Failing /\ step = "creating" /\ step' = "idle"
  /\ \/ Undone /\ UNCHANGED <<version, hurt>>
     \/ PartlyUndone /\ hurt' = TRUE
  /\ UNCHANGED <<summary, call, read>>

-----------------------------------------------------------------------------
(* append_history: the transcript is replaced, then the summary removed *)

AppendHistory ==
  /\ Idle /\ version \in 1 .. MaxVersions - 1
  /\ version' = version + 1 /\ step' = "appending"
  /\ UNCHANGED <<directory, metadata, summary, hurt, call, read>>

\* A stale summary stays when it cannot be removed.
UnlinkSummary ==
  /\ step = "appending" /\ step' = "idle"
  /\ summary' = None \/ (Failing /\ UNCHANGED summary)
  /\ UNCHANGED <<directory, metadata, version, hurt, call, read>>

-----------------------------------------------------------------------------
(* summarize_agent_history *)

\* get_cached_summary returns a summary.
Cached_Always == summary # None
Cached == summary # None /\ summary.stamp = version

AnswerFromCache(c) ==
  /\ Idle /\ call[c] = "new" /\ Cached /\ call' = [call EXCEPT ![c] = "done"]
  /\ UNCHANGED <<directory, metadata, version, summary, step, hurt, read>>

AskModel(c) ==
  /\ Idle /\ call[c] = "new" /\ ~Cached /\ metadata /\ version # 0
  /\ call' = [call EXCEPT ![c] = "asking"] /\ read' = [read EXCEPT ![c] = version]
  /\ UNCHANGED <<directory, metadata, version, summary, step, hurt>>

\* cache_summary: it needs the version of the transcript file first.
CacheSummary(c) ==
  /\ version # 0
  /\ summary' = [of |-> read[c], stamp |-> version] /\ directory' = TRUE

Caches(c) ==
  /\ Idle /\ call[c] = "asking" /\ CacheSummary(c) /\ call' = [call EXCEPT ![c] = "done"]
  /\ UNCHANGED <<metadata, version, step, hurt, read>>

\* No record, the model's answer is unusable, or the transcript is gone by then.
CallFails(c) ==
  /\ Idle
  /\ \/ call[c] = "new" /\ ~Cached /\ (version = 0 \/ ~metadata)
     \/ call[c] = "asking"
  /\ call' = [call EXCEPT ![c] = "failed"]
  /\ UNCHANGED <<directory, metadata, version, summary, step, hurt, read>>

-----------------------------------------------------------------------------
(* remove, file by file, in the order the directory lists them *)

RemoveBegins ==
  /\ Idle /\ directory /\ metadata /\ step' = "removing"
  /\ UNCHANGED <<directory, metadata, version, summary, hurt, call, read>>

RemoveFile ==
  /\ step = "removing"
  /\ \/ metadata /\ metadata' = FALSE /\ UNCHANGED <<version, summary>>
     \/ version # 0 /\ version' = 0 /\ UNCHANGED <<metadata, summary>>
     \/ summary # None /\ summary' = None /\ UNCHANGED <<metadata, version>>
  /\ UNCHANGED <<directory, step, hurt, call, read>>

RemoveDirectory ==
  /\ step = "removing" /\ ~metadata /\ version = 0 /\ summary = None
  /\ directory' = FALSE /\ step' = "idle"
  /\ UNCHANGED <<metadata, version, summary, hurt, call, read>>

RemoveFails ==
  /\ Failing /\ step = "removing" /\ step' = "idle" /\ hurt' = TRUE
  /\ UNCHANGED <<directory, metadata, version, summary, call, read>>

\* The controller dies and starts again, at most once: what is under way ends where it is.
Crash ==
  /\ Crashing /\ ~hurt /\ hurt' = TRUE /\ step' = "idle"
  /\ call' = [c \in Calls |-> IF call[c] = "asking" THEN "failed" ELSE call[c]]
  /\ UNCHANGED <<directory, metadata, version, summary, read>>

Next ==
  \/ WriteMetadata \/ WriteHistory \/ CreateFails \/ AppendHistory \/ UnlinkSummary
  \/ RemoveBegins \/ RemoveFile \/ RemoveDirectory \/ RemoveFails \/ Crash
  \/ \E c \in Calls : AnswerFromCache(c) \/ AskModel(c) \/ Caches(c) \/ CallFails(c)

Spec == Init /\ [][Next]_vars

-----------------------------------------------------------------------------
(* Properties *)

\* What is removed stays removed: no call that was waiting for the model while its agent
\* was reaped brings a part of the record back (_atomic_write makes directories).
RemovedStaysRemoved == [][~directory => ~directory']_vars

\* A record is whole or absent while no operation is under way, whatever writes fail;
\* only a crash, or a removal or clean-up that fails itself, leaves a part of it.
RecordIsWhole == Idle /\ ~hurt => IF directory THEN metadata /\ version # 0
                                  ELSE ~metadata /\ version = 0 /\ summary = None

\* README.md:68: cached summaries are "invalidated automatically whenever history is
\* appended", also when the crash comes before the file is removed.
AppendInvalidates == [][version' > version => ~Cached']_vars

\* agent_store.py:82: a summary is only returned "if it matches the current transcript
\* version".
CachedIsCurrent == Cached => summary.of = version
=============================================================================
