--------------------------- MODULE RemotePatches ----------------------------
(***************************************************************************)
(* The way of one remote agent's submissions to the operator's review      *)
(* store.  The service replaces the artifact <agent>.patch before the      *)
(* controller records the new head (remote_agent_service.py _submit_patch, *)
(* agent_controller.py _submit_patch); the client lists metadata, copies   *)
(* the artifact with rsync, compares digests (remote_agent_adapter.py) and *)
(* imports it (mcp_agent.py) in a thread: import_patch_series loads the    *)
(* manifest of the series, writes the mbox under the next number and       *)
(* writes the manifest, without a lock (mcp_tgit_review.py).  An artifact  *)
(* is identified with the head it was exported from; two artifacts may     *)
(* have the same size.  The Maildir is modelled in ReviewStore.            *)
(***************************************************************************)
EXTENDS Naturals, Sequences

CONSTANTS
  Heads,        \* the commits the agent submits
  SameSize,     \* pairs of heads whose artifacts have the same number of bytes
  Calls,        \* calls of the operator's tools
  None,         \* no head, no artifact
  MaxFailures   \* bound: writes of the metadata that fail, and crashes of the service

PatchAssumption ==
  /\ None \notin Heads /\ SameSize \subseteq Heads \X Heads
  /\ MaxFailures \in Nat

VARIABLES
  submitted,  \* metadata "submitted_head"
  artifact,   \* patches/<agent>.patch
  export,     \* the submission under way: [step, head]
  live,       \* the worker runs: only a live worker submits
  tried,      \* heads the worker has submitted, in order
  failures,
  tool,       \* "review", "pending" or "retrieve": the tool of a call
  pc,         \* where a call is
  listed,     \* the metadata a call has: [head, digest]
  size,       \* the artifact whose size retrieve_patch has asked for
  copy,       \* the file a call has copied
  revisions,  \* the revisions in the manifest of the series: [head, artifact], in order
  mbox,       \* the artifact in v<number>.mbox
  loaded,     \* the revisions of the manifest a call has loaded
  overlapped  \* two imports of the series were under way at the same time

service == <<submitted, artifact, export, live, tried, failures>>
call    == <<tool, pc, listed, size, copy>>
store   == <<revisions, mbox, loaded, overlapped>>
vars    == <<service, call, store>>

Revision  == [head : Heads, artifact : Heads]
Importing == {"loaded", "stored"}

Metadata == [head : Heads \cup {None}, digest : Heads \cup {None}]
Idle == [step |-> "idle", head |-> None]
NotListed == [head |-> None, digest |-> None]

TypeOK ==
  /\ submitted \in Heads \cup {None} /\ artifact \in Heads \cup {None}
  /\ export \in [step : {"idle", "exporting", "written"}, head : Heads \cup {None}]
  /\ live \in BOOLEAN /\ tried \in Seq(Heads) /\ failures \in 0 .. MaxFailures
  /\ tool \in [Calls -> {"review", "pending", "retrieve"}]
  /\ pc \in [Calls -> {"new", "listed", "sized", "copied", "checked", "done", "failed"} \cup Importing]
  /\ listed \in [Calls -> Metadata]
  /\ size \in [Calls -> Heads \cup {None}] /\ copy \in [Calls -> Heads \cup {None}]
  /\ revisions \in Seq(Revision) /\ loaded \in [Calls -> Seq(Revision)]
  /\ mbox \in [DOMAIN mbox -> Heads] /\ DOMAIN mbox \subseteq Nat
  /\ overlapped \in BOOLEAN

Init ==
  /\ submitted = None /\ artifact = None /\ export = Idle /\ live = TRUE
  /\ tried = <<>> /\ failures = 0
  /\ tool \in [Calls -> {"review", "pending", "retrieve"}]
  /\ pc = [c \in Calls |-> "new"]
  /\ listed = [c \in Calls |-> NotListed]
  /\ size = [c \in Calls |-> None] /\ copy = size
  /\ revisions = <<>> /\ mbox = <<>> /\ loaded = [c \in Calls |-> <<>>]
  /\ overlapped = FALSE
-----------------------------------------------------------------------------
(* The service *)

\* patch.submit: Git exports the series in a thread.
ExportBegins(h) ==
  /\ live /\ export = Idle /\ \A i \in DOMAIN tried : tried[i] # h
  /\ export' = [step |-> "exporting", head |-> h]
  /\ tried' = Append(tried, h)
  /\ UNCHANGED <<submitted, artifact, live, failures, call, store>>

\* The export is refused: empty, too large, no clean worktree.
ExportFails ==
  /\ export.step = "exporting"
  /\ export' = Idle
  /\ UNCHANGED <<submitted, artifact, live, tried, failures, call, store>>

\* Written to a temporary file, then os.replace: readers see the old or the new file.
Written(h) == h

WriteArtifact ==
  /\ export.step = "exporting"
  /\ artifact' = Written(export.head)
  /\ export' = [export EXCEPT !.step = "written"]
  /\ UNCHANGED <<submitted, live, tried, failures, call, store>>

\* No await since the artifact was replaced: nothing of the service comes in between,
\* but rsync reads the file from outside.
RecordHead ==
  /\ export.step = "written"
  /\ submitted' = export.head
  /\ export' = Idle
  /\ UNCHANGED <<artifact, live, tried, failures, call, store>>

\* The metadata cannot be written (a full disk), or the service crashes, which ends
\* the worker.
RecordFails ==
  /\ export.step = "written" /\ failures < MaxFailures
  /\ failures' = failures + 1
  /\ export' = Idle
  /\ live' \in BOOLEAN
  /\ UNCHANGED <<submitted, artifact, tried, call, store>>
-----------------------------------------------------------------------------
(* The client *)

\* A response of the service: its loop is not inside _submit_patch then.
ServiceAnswers == export.step # "written"

\* "patches", or "pending_patches", which lists agents with a submission only.
List(c) ==
  /\ pc[c] = "new" /\ ServiceAnswers
  /\ artifact # None
  /\ tool[c] = "pending" => submitted # None
  /\ listed' = [listed EXCEPT ![c] = [head |-> submitted, digest |-> artifact]]
  /\ pc' = [pc EXCEPT ![c] = "listed"]
  /\ UNCHANGED <<service, tool, size, copy, store>>

\* retrieve_patch asks for the metadata once more, and keeps the size.
AskSize(c) ==
  /\ pc[c] = "listed" /\ tool[c] # "pending" /\ ServiceAnswers
  /\ size' = [size EXCEPT ![c] = artifact]
  /\ pc' = [pc EXCEPT ![c] = "sized"]
  /\ UNCHANGED <<service, tool, listed, copy, store>>

\* rsync of the artifact as it is now, also while the service is about to record.
Copy(c) ==
  /\ pc[c] = IF tool[c] = "pending" THEN "listed" ELSE "sized"
  /\ copy' = [copy EXCEPT ![c] = artifact]
  /\ pc' = [pc EXCEPT ![c] = "copied"]
  /\ UNCHANGED <<service, tool, listed, size, store>>

HasSize(h, g) == h = g \/ <<h, g>> \in SameSize \/ <<g, h>> \in SameSize

\* retrieve_patches compares size and digest with the metadata of the listing;
\* retrieve_patch compares the size, and review_remote_agent then the digest.
Accepted_BySize(c) ==
  tool[c] = "pending" => HasSize(copy[c], listed[c].digest)
Accepted(c) ==
  IF tool[c] = "pending" THEN copy[c] = listed[c].digest
  ELSE /\ HasSize(copy[c], size[c])
       /\ tool[c] = "review" => copy[c] = listed[c].digest

Check(c) ==
  /\ pc[c] = "copied"
  /\ pc' = [pc EXCEPT ![c] = IF ~Accepted(c) THEN "failed"
                             ELSE IF tool[c] = "retrieve" THEN "done" ELSE "checked"]
  /\ UNCHANGED <<service, tool, listed, size, copy, store>>

\* An artifact whose digest is in the provenance is not imported again.
IsNew(a) == \A i \in DOMAIN revisions : revisions[i].artifact # a

\* import_patch_series refuses a submission without a head.
HeadIsValid(c) == listed[c].head # None

\* The manifest is loaded once; what is written later is based on it.
LoadManifest(c) ==
  /\ pc[c] = "checked"
  /\ IF ~HeadIsValid(c) \/ ~IsNew(copy[c])
     THEN /\ pc' = [pc EXCEPT ![c] = IF HeadIsValid(c) THEN "done" ELSE "failed"]
          /\ UNCHANGED <<loaded, overlapped>>
     ELSE /\ pc' = [pc EXCEPT ![c] = "loaded"]
          /\ loaded' = [loaded EXCEPT ![c] = revisions]
          /\ overlapped' = (overlapped \/ \E d \in Calls : pc[d] \in Importing)
  /\ UNCHANGED <<service, tool, listed, size, copy, revisions, mbox>>

NextRevision(c) == Len(loaded[c]) + 1

\* v<number>.mbox is replaced as a whole, also when there is one.
WriteMbox(c) ==
  /\ pc[c] = "loaded"
  /\ mbox' = [n \in DOMAIN mbox \cup {NextRevision(c)} |->
               IF n = NextRevision(c) THEN copy[c] ELSE mbox[n]]
  /\ pc' = [pc EXCEPT ![c] = "stored"]
  /\ UNCHANGED <<service, tool, listed, size, copy, revisions, loaded, overlapped>>

\* The manifest is replaced by the loaded one and the new revision.
WriteManifest(c) ==
  /\ pc[c] = "stored"
  /\ revisions' = Append(loaded[c], [head |-> listed[c].head, artifact |-> copy[c]])
  /\ pc' = [pc EXCEPT ![c] = "done"]
  /\ UNCHANGED <<service, tool, listed, size, copy, mbox, loaded, overlapped>>

CallFails(c) ==
  /\ pc[c] \notin {"new", "done", "failed"}
  /\ pc' = [pc EXCEPT ![c] = "failed"]
  /\ UNCHANGED <<service, tool, listed, size, copy, store>>

Next ==
  \/ \E h \in Heads : ExportBegins(h)
  \/ ExportFails \/ WriteArtifact \/ RecordHead \/ RecordFails
  \/ \E c \in Calls :
       \/ List(c) \/ AskSize(c) \/ Copy(c) \/ Check(c)
       \/ LoadManifest(c) \/ WriteMbox(c) \/ WriteManifest(c) \/ CallFails(c)

Spec == Init /\ [][Next]_vars
-----------------------------------------------------------------------------
(* Safety *)

\* A recorded head can be fetched: its artifact, or that of a newer submission, is
\* there (the artifact is replaced as a whole, before the head is recorded).
HeadHasArtifact == submitted # None => artifact # None

\* What the manifest names as a commit is the digest of the series exported from that
\* commit, whatever the agent submits while the artifact is listed, copied and checked.
RevisionMatchesHead == \A i \in DOMAIN revisions : revisions[i].head = revisions[i].artifact

\* The same artifact is one revision of the series, however many calls import it, also at
\* the same time.
OneRevisionPerArtifact ==
  \A i, j \in DOMAIN revisions : revisions[i].artifact = revisions[j].artifact => i = j

\* The mbox the operator reads as a revision is there and is one of the agent's
\* submissions; it is the one the manifest names.  Two imports that overlap both take the
\* next number, and leave the manifest of one with the mbox of the other
\* (import_patch_series): then only the former holds.
MboxIsSubmission ==
  \A i \in DOMAIN revisions : i \in DOMAIN mbox /\ \E k \in DOMAIN tried : tried[k] = mbox[i]
MboxIsRevision ==
  \A i \in DOMAIN revisions : i \in DOMAIN mbox /\ mbox[i] = revisions[i].artifact

\* A revision stays what it is once it is in the manifest.  It does not hold: of two imports
\* that overlap the later one replaces the revision of the other.
RevisionsStay ==
  [][\A i \in DOMAIN revisions : i \in DOMAIN revisions' /\ revisions'[i] = revisions[i]]_vars

Position(h) == CHOOSE i \in DOMAIN tried : tried[i] = h

\* A later revision is a later submission ("The agent's subsequent committed
\* submission can be imported as another revision"). Two overlapping calls break it.
RevisionsInOrder ==
  \A i, j \in DOMAIN revisions :
    i < j => Position(revisions[i].artifact) < Position(revisions[j].artifact)
=============================================================================
