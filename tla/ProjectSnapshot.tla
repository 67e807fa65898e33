-------------------------- MODULE ProjectSnapshot --------------------------
(***************************************************************************)
(* Snapshots of a checkout (agent_snapshot.py): the copy of a work tree    *)
(* and its Git directory while the operator's Git works on the checkout,   *)
(* its verification, its removal file by file, and snapshots of snapshots, *)
(* which is how agents are recovered.  The controller makes or removes one *)
(* snapshot at a time: the functions never await.                          *)
(***************************************************************************)
EXTENDS Naturals, FiniteSets

CONSTANTS
  Snapshots,       \* the roots of snapshots, one per agent id
  Checkout,        \* the operator's checkout
  None,            \* no snapshot
  MaxCommits,      \* bound: commits are numbered in the order they are made
  Linked,          \* the checkout is a linked worktree
  MayRepack,       \* the operator's Git may repack the checkout
  MayBeCut         \* a removal may fail or be killed half-way

SnapshotAssumption ==
  /\ Checkout \notin Snapshots /\ None \notin Snapshots \union {Checkout}
  /\ MaxCommits \in Nat \ {0}
  /\ {Linked, MayRepack, MayBeCut} \subseteq BOOLEAN

Trees == Snapshots \union {Checkout}
Commits == 1..MaxCommits
Absent == 0                              \* HEAD of a tree without references

\* The object directory: packs, and the loose objects by kind.
ObjectDirs == {"pack", "commit", "tree"}
GitParts == ObjectDirs \union {"refs"}
Parts == GitParts \union {"files"}
NoObjects == [d \in ObjectDirs |-> {}]

VARIABLES
  files,       \* the work tree: "none", "part" or "whole"
  head,        \* the commit HEAD resolves to
  objects,     \* the commits whose objects lie in an object directory
  gitOf,       \* the tree whose Git directory .git leads to
  marker,      \* trees with the file .agent-snapshot
  agents,      \* agents that have been started and are in the store
  job,         \* what the controller is doing
  base,        \* base_commit as read from the source
  todo,        \* parts that are still to be copied
  packing,     \* the operator's Git has written a pack and not yet pruned
  writing      \* the operator's Git has written a commit and not yet moved HEAD

vars == <<files, head, objects, gitOf, marker, agents, job, base, todo, packing, writing>>
treeVars == <<files, head, objects, gitOf, marker>>

\* A snapshot is being copied, has to be verified, or a copy has failed.
Unfinished == {"copy", "common", "verify", "failed"}
NoJob == [kind |-> "none", tree |-> None, of |-> None]

TypeOK ==
  /\ files \in [Trees -> {"none", "part", "whole"}]
  /\ head \in [Trees -> 0..MaxCommits]
  /\ objects \in [Trees -> [ObjectDirs -> SUBSET Commits]]
  /\ gitOf \in [Trees -> Trees]
  /\ marker \subseteq Snapshots
  /\ agents \subseteq Snapshots
  /\ job \in [kind: {"none", "remove", "mark"} \union Unfinished,
              tree: Snapshots \union {None}, of: Trees \union {None}]
  /\ job.kind \in Unfinished => job.tree \notin marker \union agents
  /\ base \in 0..MaxCommits
  /\ todo \subseteq Parts
  /\ packing \in BOOLEAN /\ writing \in BOOLEAN

Init ==
  /\ files = [t \in Trees |-> IF t = Checkout THEN "whole" ELSE "none"]
  /\ head = [t \in Trees |-> IF t = Checkout THEN 1 ELSE Absent]
  /\ objects = [t \in Trees |-> IF t = Checkout
                                THEN [NoObjects EXCEPT !["commit"] = {1}, !["tree"] = {1}]
                                ELSE NoObjects]
  /\ gitOf = [t \in Trees |-> t]
  /\ marker = {} /\ agents = {}
  /\ job = NoJob /\ base = Absent /\ todo = {}
  /\ packing = FALSE /\ writing = FALSE

HasCommit(t, c) == c \in objects[t]["pack"] \union objects[t]["commit"]
HasTree(t, c) == c \in objects[t]["pack"] \union objects[t]["tree"]

\* git rev-parse --verify HEAD^{commit} asks for the commit object only.
HeadResolves(t) == LET g == gitOf[t] IN head[g] # Absent /\ HasCommit(g, head[g])

\* The project directory and the whole snapshot are there as long as a file is.
ProjectExists(t) ==
  \/ files[t] # "none"
  \/ ~Linked /\ (head[t] # Absent \/ objects[t] # NoObjects)
RootExists(t) == ProjectExists(t) \/ t \in marker \/ head[t] # Absent \/ objects[t] # NoObjects

(***************************************************************************)
(* The operator's Git on the checkout, and the agents' in their snapshots. *)
(***************************************************************************)
NewestCommit == CHOOSE c \in Commits : HasCommit(Checkout, c) /\ \A d \in Commits : HasCommit(Checkout, d) => d <= c

WriteCommit ==
  /\ ~writing
  /\ NewestCommit < MaxCommits
  /\ writing' = TRUE
  /\ objects' = [objects EXCEPT ![Checkout] = [d \in ObjectDirs |->
                   IF d = "pack" THEN @[d] ELSE @[d] \union {NewestCommit + 1}]]
  /\ UNCHANGED <<files, head, gitOf, marker, agents, job, base, todo, packing>>

MoveHead ==
  /\ writing
  /\ writing' = FALSE
  /\ head' = [head EXCEPT ![Checkout] = NewestCommit]
  /\ UNCHANGED <<files, objects, gitOf, marker, agents, job, base, todo, packing>>

WritePack ==
  /\ MayRepack /\ ~packing /\ ~writing
  /\ packing' = TRUE
  /\ objects' = [objects EXCEPT ![Checkout]["pack"] = @ \union objects[Checkout]["commit"]]
  /\ UNCHANGED <<files, head, gitOf, marker, agents, job, base, todo, writing>>

PruneLoose ==
  /\ packing /\ ~writing
  /\ packing' = FALSE
  /\ objects' = [objects EXCEPT ![Checkout] = [d \in ObjectDirs |->
                   IF d = "pack" THEN @[d] ELSE @[d] \ @["pack"]]]
  /\ UNCHANGED <<files, head, gitOf, marker, agents, job, base, todo, writing>>

\* An agent commits: Git follows .git, wherever it leads.
AgentCommits(t) ==
  LET g == gitOf[t] IN
  /\ t \in agents
  /\ head[g] # Absent /\ head[g] < MaxCommits
  /\ head' = [head EXCEPT ![g] = @ + 1]
  /\ objects' = [objects EXCEPT ![g]["commit"] = @ \union {head[g] + 1},
                                ![g]["tree"] = @ \union {head[g] + 1}]
  /\ UNCHANGED <<files, gitOf, marker, agents, job, base, todo, packing, writing>>

(***************************************************************************)
(* create_project_snapshot.                                                *)
(***************************************************************************)
\* continue_agent only asks for the directory of the recorded project.
MayCopy(s) == s = Checkout \/ (s \in agents /\ ProjectExists(s))

IsFree(t) == ~RootExists(t) /\ t \notin agents

\* The checks before anything is written; they read the base commit.
Inspect(s, t) ==
  /\ job = NoJob
  /\ IsFree(t)
  /\ MayCopy(s) /\ HeadResolves(s)
  /\ job' = [kind |-> "copy", tree |-> t, of |-> s]
  /\ base' = head[gitOf[s]]
  /\ todo' = IF Linked THEN {"files"} ELSE Parts
  /\ UNCHANGED <<treeVars, agents, packing, writing>>

\* cp copies one part of the source after the other, in no order.
CopyPart(p) ==
  LET t == job.tree  s == job.of  g == gitOf[job.of] IN
  /\ job.kind \in {"copy", "common"}
  /\ p \in todo
  /\ todo' = todo \ {p}
  /\ files' = IF p = "files" THEN [files EXCEPT ![t] = files[s]] ELSE files
  /\ gitOf' = IF p = "files" /\ Linked THEN [gitOf EXCEPT ![t] = g] ELSE gitOf
  /\ head' = IF p = "refs" THEN [head EXCEPT ![t] = head[g]] ELSE head
  /\ objects' = IF p \in ObjectDirs THEN [objects EXCEPT ![t][p] = objects[g][p]] ELSE objects
  /\ UNCHANGED <<marker, agents, job, base, packing, writing>>

\* cp fails and leaves what it has copied so far.
AfterFailedCopy(kind) == "failed"

CopyFails(p) ==
  /\ job.kind \in {"copy", "common"}
  /\ p \in todo
  /\ todo' = todo \ {p}
  /\ files' = IF p = "files" THEN [files EXCEPT ![job.tree] = "part"] ELSE files
  /\ job' = [job EXCEPT !.kind = AfterFailedCopy(@)]
  /\ UNCHANGED <<head, objects, gitOf, marker, agents, base, packing, writing>>

\* The work tree is copied; a linked worktree needs the common Git directory too.
CopyEnds ==
  /\ job.kind = "copy" /\ todo = {}
  /\ IF Linked THEN job' = [job EXCEPT !.kind = "common"] /\ todo' = GitParts
               ELSE job' = [job EXCEPT !.kind = "verify"] /\ todo' = {}
  /\ UNCHANGED <<treeVars, agents, base, packing, writing>>

\* Where .git leads once gitdir and .git have been written.
Redirected(t) == t

Redirect ==
  /\ job.kind = "common" /\ todo = {}
  /\ gitOf' = [gitOf EXCEPT ![job.tree] = Redirected(job.tree)]
  /\ job' = [job EXCEPT !.kind = "verify"]
  /\ UNCHANGED <<files, head, objects, marker, agents, base, todo, packing, writing>>

\* Mutant: that HEAD resolves is verified, but not that it is the commit read first.
Verified_Resolves(t) == HeadResolves(t)

\* The snapshot's HEAD resolves, to the commit read before the copy.
Verified(t) == HeadResolves(t) /\ head[gitOf[t]] = base

Verify ==
  /\ job.kind = "verify"
  /\ Verified(job.tree)
  /\ marker' = marker \union {job.tree}
  /\ job' = [job EXCEPT !.kind = "mark"]
  /\ UNCHANGED <<files, head, objects, gitOf, agents, base, todo, packing, writing>>

\* The rest of start_agent: the agent enters the store.
AgentStarts ==
  /\ job.kind = "mark"
  /\ agents' = agents \union {job.tree}
  /\ job' = NoJob /\ base' = Absent
  /\ UNCHANGED <<treeVars, todo, packing, writing>>

\* Any step of the creation fails: the destination is removed.
CreateFails ==
  LET t == job.tree IN
  /\ job.kind \in Unfinished \union {"mark"}
  /\ files' = [files EXCEPT ![t] = "none"]
  /\ head' = [head EXCEPT ![t] = Absent]
  /\ objects' = [objects EXCEPT ![t] = NoObjects]
  /\ gitOf' = [gitOf EXCEPT ![t] = t]
  /\ marker' = marker \ {t}
  /\ job' = NoJob /\ base' = Absent /\ todo' = {}
  /\ UNCHANGED <<agents, packing, writing>>

(***************************************************************************)
(* remove_project_snapshot, for an agent that is reaped.                   *)
(***************************************************************************)
\* A directory that is not a snapshot is refused.
MayRemove(t) == ProjectExists(t) /\ t \in marker

RemoveBegins(t) ==
  /\ job = NoJob
  /\ t \in agents
  /\ MayRemove(t)
  /\ job' = [kind |-> "remove", tree |-> t, of |-> None]
  /\ UNCHANGED <<treeVars, agents, base, todo, packing, writing>>

\* rmtree removes the entries in no order, a directory of files one by one.
RemovePart ==
  LET t == job.tree IN
  /\ job.kind = "remove"
  /\ \/ /\ files[t] # "none"
        /\ files' = [files EXCEPT ![t] = IF @ = "whole" THEN "part" ELSE "none"]
        /\ UNCHANGED <<head, objects, marker>>
     \/ /\ head[t] # Absent
        /\ head' = [head EXCEPT ![t] = Absent]
        /\ UNCHANGED <<files, objects, marker>>
     \/ /\ objects[t] # NoObjects
        /\ objects' = [objects EXCEPT ![t] = NoObjects]
        /\ UNCHANGED <<files, head, marker>>
     \/ /\ t \in marker
        /\ marker' = marker \ {t}
        /\ UNCHANGED <<files, head, objects>>
  /\ UNCHANGED <<gitOf, agents, job, base, todo, packing, writing>>

\* Then the record goes.  A reap whose snapshot is gone altogether ends here too.
RemoveEnds(t) ==
  /\ job = NoJob \/ (job.kind = "remove" /\ job.tree = t)
  /\ t \in agents
  /\ ~RootExists(t)
  /\ agents' = agents \ {t}
  /\ gitOf' = [gitOf EXCEPT ![t] = t]
  /\ job' = NoJob
  /\ UNCHANGED <<files, head, objects, marker, base, todo, packing, writing>>

RemoveIsCut ==
  /\ MayBeCut
  /\ job.kind = "remove"
  /\ job' = NoJob
  /\ UNCHANGED <<treeVars, agents, base, todo, packing, writing>>

\* The controller dies while it makes a snapshot: what has been copied stays.
CrashInCreate ==
  /\ job.kind \in Unfinished \union {"mark"}
  /\ job' = NoJob /\ base' = Absent /\ todo' = {}
  /\ UNCHANGED <<treeVars, agents, packing, writing>>

Next ==
  \/ WriteCommit \/ MoveHead \/ WritePack \/ PruneLoose
  \/ \E t \in Snapshots : AgentCommits(t) \/ RemoveBegins(t) \/ RemoveEnds(t)
  \/ \E s \in Trees, t \in Snapshots : Inspect(s, t)
  \/ \E p \in Parts : CopyPart(p) \/ CopyFails(p)
  \/ CopyEnds \/ Redirect \/ Verify \/ AgentStarts \/ CreateFails
  \/ RemovePart \/ RemoveIsCut \/ CrashInCreate

Spec == Init /\ [][Next]_vars

(***************************************************************************)
(* Properties.                                                             *)
(***************************************************************************)
\* agent_snapshot.py:6 "the complete common Git directory is copied", :126 "independent":
\* whatever the operator's Git did during the copy, an agent starts from a commit whose
\* objects are in its snapshot.
StartHasItsCommit ==
  \A t \in agents' \ agents : HasCommit(t, head[t]) /\ HasTree(t, head[t])
HeadIsWhole == [][StartHasItsCommit]_vars

\* test_agent_snapshot.py:41-47, "independent": only the operator moves HEAD of the
\* checkout, no agent does, through whichever chain of snapshots it got its copy.
CheckoutIsTheOperators ==
  [][head[Checkout]' # head[Checkout] => writing]_vars

\* README.md:72: "Recovery requires a valid managed snapshot": no agent starts from a
\* work tree of which files are missing, because a copy failed or a removal went half-way.
StartHasItsFiles == \A t \in agents' \ agents : files[t] = "whole"
StartedIsWhole == [][StartHasItsFiles]_vars
=============================================================================
