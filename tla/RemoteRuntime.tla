---------------------------- MODULE RemoteRuntime ----------------------------
(***************************************************************************)
(* prepare_remote_runtime.py: the trees of the local runtime are copied to *)
(* a staging directory on another host, tried out there, described by a    *)
(* manifest and published under their version by a rename.  Any command    *)
(* may fail, also the clean-up, and the operator may repeat a version.     *)
(***************************************************************************)
EXTENDS Naturals

CONSTANTS
  Versions,        \* names of versions, chosen by the operator or generated
  None,            \* no version
  Mounts,          \* the trees of the runtime layout
  MaxEdits         \* bound on the changes of the local runtime

RuntimeAssumption ==
  /\ None \notin Versions /\ Mounts # {}
  /\ MaxEdits \in Nat

Editions == 0..MaxEdits      \* of the local runtime: each lacks a file of the one before

\* A directory on the host: the editions whose files a mount holds, the mounts whose copy
\* is complete, the links of the import check and the files it ran with, the manifest.
Directories == [here: BOOLEAN, from: [Mounts -> SUBSET Editions], whole: SUBSET Mounts,
                linked: BOOLEAN, tried: [Mounts -> SUBSET Editions], manifest: BOOLEAN]
NoFiles == [m \in Mounts |-> {}]
NoDirectory == [here |-> FALSE, from |-> NoFiles, whole |-> {}, linked |-> FALSE,
                tried |-> NoFiles, manifest |-> FALSE]

VARIABLES
  local,           \* the edition of the local runtime
  staging,         \* per version, the directory .staging-<version>
  published,       \* per version, the directory versions/<version>
  version,         \* the version that is being prepared
  todo,            \* the mounts still to be copied
  step             \* "idle", "copy", "check", "describe", "publish" or "clean"

vars == <<local, staging, published, version, todo, step>>

TypeOK ==
  /\ local \in Editions
  /\ staging \in [Versions -> Directories] /\ published \in [Versions -> Directories]
  /\ version \in Versions \union {None}
  /\ todo \subseteq Mounts
  /\ step \in {"idle", "copy", "check", "describe", "publish", "clean"}
  /\ \A v \in Versions : published[v].here => published[v].whole = Mounts /\ published[v].manifest

Init ==
  /\ local = 0
  /\ staging = [v \in Versions |-> NoDirectory]
  /\ published = [v \in Versions |-> NoDirectory]
  /\ version = None /\ todo = {} /\ step = "idle"

\* The operator changes the environment or the code between two calls.
Edit ==
  /\ step = "idle"
  /\ local < MaxEdits
  /\ local' = local + 1
  /\ UNCHANGED <<staging, published, version, todo, step>>

Begin(v) ==
  /\ step = "idle"
  /\ version' = v
  /\ staging' = [staging EXCEPT ![v].here = TRUE]
  /\ todo' = Mounts
  /\ step' = "copy"
  /\ UNCHANGED <<local, published>>

\* rsync adds and replaces files; without --delete it removes none.
Transfer(m) ==
  /\ step = "copy" /\ m \in todo
  /\ staging' = [staging EXCEPT ![version].from[m] = @ \union {local},
                                ![version].whole = @ \union {m}]
  /\ todo' = todo \ {m}
  /\ step' = IF todo' = {} THEN "check" ELSE "copy"
  /\ UNCHANGED <<local, published, version>>

AfterFailure == "clean"

TransferFails(m) ==
  /\ step = "copy" /\ m \in todo
  /\ staging' = [staging EXCEPT ![version].from[m] = @ \union {local},
                                ![version].whole = @ \ {m}]
  /\ step' = AfterFailure
  /\ todo' = {}
  /\ UNCHANGED <<local, published, version>>

AfterRefusal == "clean"

\* The staged interpreter imports the worker through links it makes first; a link that
\* is there already is an error.
Preflight ==
  /\ step = "check"
  /\ ~staging[version].linked
  /\ \/ /\ staging' = [staging EXCEPT ![version].linked = TRUE, ![version].tried = staging[version].from]
        /\ step' = "describe"
     \/ /\ staging' = [staging EXCEPT ![version].linked = TRUE]
        /\ step' = AfterRefusal
  /\ UNCHANGED <<local, published, version, todo>>

WriteManifest ==
  /\ step = "describe"
  /\ staging' = [staging EXCEPT ![version].manifest = TRUE]
  /\ step' = "publish"
  /\ UNCHANGED <<local, published, version, todo>>

\* mv -T neither replaces a directory that holds files nor moves into it.
\* Mutant: mv without -T, or over what is there.
MayPublish_Any(v) == TRUE
MayPublish(v) == ~published[v].here

Publish ==
  /\ step = "publish"
  /\ MayPublish(version)
  /\ published' = [published EXCEPT ![version] = staging[version]]
  /\ staging' = [staging EXCEPT ![version] = NoDirectory]
  /\ version' = None /\ step' = "idle"
  /\ UNCHANGED <<local, todo>>

\* Any command fails.
Fail ==
  /\ step \in {"copy", "check", "describe", "publish"}
  /\ step' = "clean"
  /\ todo' = {}
  /\ UNCHANGED <<local, staging, published, version>>

\* rm -rf of the staging directory, which may fail as well.
CleanUp ==
  /\ step = "clean"
  /\ \/ staging' = [staging EXCEPT ![version] = NoDirectory]
     \/ UNCHANGED staging
  /\ version' = None /\ step' = "idle"
  /\ UNCHANGED <<local, published, todo>>

Next ==
  \/ Edit \/ Preflight \/ WriteManifest \/ Publish \/ Fail \/ CleanUp
  \/ \E v \in Versions : Begin(v)
  \/ \E m \in Mounts : Transfer(m) \/ TransferFails(m)

Spec == Init /\ [][Next]_vars

(***************************************************************************)
(* Properties.                                                             *)
(***************************************************************************)
\* test_prepare_remote_runtime.py:14 and :86: what is published, and what the service
\* selects (remote_agent_service.py:57), is exactly what the import check ran with,
\* whatever calls for the same version have failed before.
PublishedWasTried == \A v \in Versions : published[v].here => published[v].tried = published[v].from

\* prepare_remote_runtime.py:74 "publish it as an immutable version": nothing changes a
\* runtime that agents may be running on.
PublishedStays ==
  [][\A v \in Versions : published[v].here => published'[v] = published[v]]_vars

\* prepare_remote_runtime.py:74 "Mirror this Python runtime": a mount that is published
\* has no files of another edition.
PublishedIsMirror ==
  \A v \in Versions, m \in Mounts : published[v].here =>
    \E e \in Editions : published[v].from[m] = {e}
=============================================================================
