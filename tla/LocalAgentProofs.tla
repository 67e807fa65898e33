-------------------------- MODULE LocalAgentProofs --------------------------
(***************************************************************************)
(* Proofs for the snapshots agents work in and for their transcripts.      *)
(***************************************************************************)
EXTENDS LocalSystem, SequenceTheorems, WellFoundedInduction, TLAPS

-----------------------------------------------------------------------------
(* Snapshots of a checkout *)

\* An agent's Git directory is that of its own snapshot, from the verification on.
OwnGit ==
  /\ \A t \in agents \cup {Checkout} : gitOf[t] = t
  /\ snapshotJob.kind \in {"verify", "mark"} => gitOf[snapshotJob.tree] = snapshotJob.tree

\* A snapshot is made of a tree that stays, in a directory no agent has.
JobOfTrees ==
  /\ snapshotJob.kind # "none" => snapshotJob.tree \in Snapshots
  /\ snapshotJob.kind \in {"copy", "common"} => snapshotJob.of \in agents \cup {Checkout}
  /\ snapshotJob.kind = "mark" => snapshotJob.tree \notin agents

\* The operator's commits are those up to the newest one.
CommitsOfCheckout(max) ==
  \E n \in 1 .. max : \A c \in 1 .. max :
    c \in objects[Checkout]["pack"] \cup objects[Checkout]["commit"] <=> c <= n

\* Nothing is packed.  The operator's Git writes commits whole; an agent may have got a
\* commit of the operator's without its tree, but not the one it is at.
HeadsAreWhole ==
  /\ \A t \in Snapshots \cup {Checkout} : objects[t]["pack"] = {}
  /\ objects[Checkout]["commit"] = objects[Checkout]["tree"]
  /\ \A t \in agents : head[t] # 0 /\ head[t] \in objects[t]["commit"] => head[t] \in objects[t]["tree"]

\* The tree of the commit that was read first is in the source, and then in the copy.
BaseIsCopied ==
  LET t == snapshotJob.tree IN
  /\ snapshotJob.kind = "copy" => snapshotTodo \subseteq {"files"}
  /\ snapshotJob.kind \in {"copy", "common"} => base \in objects[snapshotJob.of]["tree"]
  /\ snapshotJob.kind = "common" => "tree" \in snapshotTodo \/ base \in objects[t]["tree"]
  /\ snapshotJob.kind \in {"verify", "mark"} => base \in objects[t]["tree"]
  /\ snapshotJob.kind = "mark" => head[t] = base /\ base \in objects[t]["commit"]

\* The inductive invariant of snapshots of a linked worktree.
WorktreeInv ==
  /\ Worktree!TypeOK /\ OwnGit /\ JobOfTrees /\ CommitsOfCheckout(MaxCommits)
  /\ HeadsAreWhole /\ BaseIsCopied

\* Files are only missing from a snapshot that is being made or removed.
FilesAreWhole ==
  LET t == snapshotJob.tree IN
  /\ snapshotJob.kind # "common"
  /\ files[Checkout] = "whole"
  /\ \A s \in agents : files[s] = "whole" \/ (snapshotJob.kind = "remove" /\ t = s)
  /\ snapshotJob.kind = "copy" => "files" \in snapshotTodo \/ files[t] = "whole"
  /\ snapshotJob.kind \in {"verify", "mark"} => files[t] = "whole"

\* Without a link every tree has a Git directory of its own.
NoLinks == \A s \in Snapshots \cup {Checkout} : gitOf[s] = s

\* The inductive invariant of snapshots of a checkout with a Git directory of its own.
CloneInv ==
  /\ Clone!TypeOK /\ NoLinks /\ JobOfTrees /\ CommitsOfCheckout(CloneCommits)
  /\ FilesAreWhole

\* The invariant of the snapshots, of either kind of checkout.
SnapshotInv == IF focus = "clone" THEN CloneInv ELSE WorktreeInv

-----------------------------------------------------------------------------
(* Operators of the snapshots *)

\* The largest of an initial segment of the commits.
LEMMA Largest ==
  ASSUME NEW max \in Nat, NEW own, NEW n \in 1 .. max,
         \A c \in 1 .. max : c \in own <=> c <= n
  PROVE  (CHOOSE c \in 1 .. max : c \in own /\ \A d \in 1 .. max : d \in own => d <= c) = n
<1> DEFINE P(c) == c \in own /\ \A d \in 1 .. max : d \in own => d <= c
<1>1. P(n)
  OBVIOUS
<1>2. ASSUME NEW c \in 1 .. max, P(c) PROVE c = n
  BY <1>1, <1>2
<1> HIDE DEF P
<1>3. (CHOOSE c \in 1 .. max : P(c)) = n
  BY <1>1, <1>2
<1> QED
  BY <1>3 DEF P

\* The newest commit of the operator's Git is the last of those it has.
LEMMA NewestOfWorktree ==
  ASSUME CommitsOfCheckout(MaxCommits)
  PROVE  /\ Worktree!NewestCommit \in 1 .. MaxCommits
         /\ \A c \in 1 .. MaxCommits :
              c \in objects[Checkout]["pack"] \cup objects[Checkout]["commit"]
                <=> c <= Worktree!NewestCommit
<1> PICK n \in 1 .. MaxCommits : \A c \in 1 .. MaxCommits :
      c \in objects[Checkout]["pack"] \cup objects[Checkout]["commit"] <=> c <= n
  BY DEF CommitsOfCheckout
<1>1. MaxCommits \in Nat
  BY LocalAssumption DEF Worktree!SnapshotAssumption
<1>2. Worktree!NewestCommit = n
  BY <1>1, Largest DEF Worktree!NewestCommit, Worktree!HasCommit, Worktree!Commits
<1> QED
  BY <1>2

\* The newest commit of a checkout of its own is one that was written whole.
LEMMA NewestOfClone ==
  ASSUME CommitsOfCheckout(CloneCommits)
  PROVE  /\ Clone!NewestCommit \in 1 .. CloneCommits
         /\ \A c \in 1 .. CloneCommits :
              c \in objects[Checkout]["pack"] \cup objects[Checkout]["commit"]
                <=> c <= Clone!NewestCommit
<1> PICK n \in 1 .. CloneCommits : \A c \in 1 .. CloneCommits :
      c \in objects[Checkout]["pack"] \cup objects[Checkout]["commit"] <=> c <= n
  BY DEF CommitsOfCheckout
<1>1. CloneCommits \in Nat
  BY LocalAssumption DEF Clone!SnapshotAssumption
<1>2. Clone!NewestCommit = n
  BY <1>1, Largest DEF Clone!NewestCommit, Clone!HasCommit, Clone!Commits
<1> QED
  BY <1>2

-----------------------------------------------------------------------------
(* Snapshots of a linked worktree *)

\* The operator's first commit.
LEMMA WorktreeInit == Worktree!Init => WorktreeInv
<1> SUFFICES ASSUME Worktree!Init PROVE WorktreeInv
  OBVIOUS
<1> USE LocalAssumption DEF Worktree!SnapshotAssumption, Worktree!Trees
<1>1. Worktree!TypeOK
  <2>1. objects \in [Worktree!Trees -> [Worktree!ObjectDirs -> SUBSET Worktree!Commits]]
    <3>1. 1 \in Worktree!Commits
      BY DEF Worktree!Commits
    <3>2. Worktree!NoObjects \in [Worktree!ObjectDirs -> SUBSET Worktree!Commits]
      BY DEF Worktree!NoObjects
    <3>3. [Worktree!NoObjects EXCEPT !["commit"] = {1}, !["tree"] = {1}]
            \in [Worktree!ObjectDirs -> SUBSET Worktree!Commits]
      BY <3>1, <3>2
    <3> QED
      BY <3>2, <3>3 DEF Worktree!Init
  <2>2. head \in [Worktree!Trees -> 0 .. MaxCommits] /\ base \in 0 .. MaxCommits
    BY DEF Worktree!Init, Worktree!Absent
  <2>3. snapshotJob = Worktree!NoJob /\ snapshotJob.kind = "none"
    BY DEF Worktree!Init, Worktree!NoJob
  <2>4. snapshotJob \in [kind : {"none", "remove", "mark"} \cup Worktree!Unfinished,
                        tree : Snapshots \cup {None}, of : Worktree!Trees \cup {None}]
    BY <2>3 DEF Worktree!NoJob
  <2> QED
    BY <2>1, <2>2, <2>3, <2>4 DEF Worktree!Init, Worktree!TypeOK, Worktree!Unfinished
<1>2. OwnGit /\ JobOfTrees
  BY DEF Worktree!Init, Worktree!NoJob, OwnGit, JobOfTrees
<1>3. /\ objects[Checkout]["pack"] = {} /\ objects[Checkout]["commit"] = {1}
      /\ objects[Checkout]["tree"] = {1}
      /\ \A t \in Snapshots : objects[t]["pack"] = {}
  BY DEF Worktree!Init, Worktree!NoObjects, Worktree!ObjectDirs
<1>4. CommitsOfCheckout(MaxCommits)
  <2>1. 1 \in 1 .. MaxCommits /\ \A c \in 1 .. MaxCommits : c \in {} \cup {1} <=> c <= 1
    OBVIOUS
  <2> QED
    BY <1>3, <2>1 DEF CommitsOfCheckout
<1>5. HeadsAreWhole
  BY <1>3 DEF HeadsAreWhole, Worktree!Init
<1>6. BaseIsCopied
  BY DEF BaseIsCopied, Worktree!Init, Worktree!NoJob
<1> QED
  BY <1>1, <1>2, <1>4, <1>5, <1>6 DEF WorktreeInv

\* The operator's commits, in the two steps of a commit.
LEMMA WorktreeOperator ==
  WorktreeInv /\ (Worktree!WriteCommit \/ Worktree!MoveHead \/ Worktree!WritePack \/ Worktree!PruneLoose)
    => WorktreeInv'
<1> SUFFICES ASSUME WorktreeInv,
                    Worktree!WriteCommit \/ Worktree!MoveHead \/ Worktree!WritePack \/ Worktree!PruneLoose
             PROVE  WorktreeInv'
  OBVIOUS
<1> USE LocalAssumption DEF Worktree!SnapshotAssumption, WorktreeInv, Worktree!Trees
<1>1. CASE Worktree!WriteCommit
  <2> DEFINE n == Worktree!NewestCommit
             o == [d \in Worktree!ObjectDirs |-> IF d = "pack" THEN objects[Checkout][d]
                                                 ELSE objects[Checkout][d] \cup {n + 1}]
  <2>0. /\ n < MaxCommits
        /\ objects' = [objects EXCEPT ![Checkout] = o] /\ writing' = TRUE
        /\ UNCHANGED <<files, head, gitOf, marker, agents, snapshotJob, base, snapshotTodo, packing>>
    BY <1>1 DEF Worktree!WriteCommit
  <2>1. /\ n \in 1 .. MaxCommits /\ n + 1 \in 1 .. MaxCommits
        /\ \A c \in 1 .. MaxCommits :
             c \in objects[Checkout]["pack"] \cup objects[Checkout]["commit"] <=> c <= n
    BY <2>0, NewestOfWorktree
  <2> HIDE DEF n
  <2>2. /\ o["pack"] = objects[Checkout]["pack"] /\ o["commit"] = objects[Checkout]["commit"] \cup {n + 1}
        /\ o["tree"] = objects[Checkout]["tree"] \cup {n + 1}
        /\ o \in [Worktree!ObjectDirs -> SUBSET Worktree!Commits]
    BY <2>1 DEF Worktree!TypeOK, Worktree!ObjectDirs, Worktree!Commits
  <2> HIDE DEF o
  <2>3. Worktree!TypeOK'
    BY <2>0, <2>2 DEF Worktree!TypeOK
  <2>4. objects'[Checkout] = o /\ \A t \in Snapshots : objects'[t] = objects[t]
    BY <2>0 DEF Worktree!TypeOK
  <2>5. OwnGit' /\ JobOfTrees'
    BY <2>0 DEF OwnGit, JobOfTrees
  <2>6. CommitsOfCheckout(MaxCommits)'
    <3>1. \A c \in 1 .. MaxCommits :
             c \in o["pack"] \cup o["commit"] <=> c <= n + 1
      BY <2>1, <2>2
    <3> QED
      BY <2>1, <2>4, <3>1 DEF CommitsOfCheckout
  <2>7. HeadsAreWhole'
    BY <2>0, <2>2, <2>4 DEF HeadsAreWhole, Worktree!TypeOK
  <2>8. BaseIsCopied'
    BY <2>0, <2>2, <2>4 DEF BaseIsCopied, JobOfTrees, Worktree!TypeOK
  <2> QED
    BY <2>3, <2>5, <2>6, <2>7, <2>8
<1>2. CASE Worktree!MoveHead
  <2>0. /\ head' = [head EXCEPT ![Checkout] = Worktree!NewestCommit] /\ writing' = FALSE
        /\ UNCHANGED <<files, objects, gitOf, marker, agents, snapshotJob, base, snapshotTodo, packing>>
    BY <1>2 DEF Worktree!MoveHead
  <2>1. Worktree!NewestCommit \in 0 .. MaxCommits
    BY NewestOfWorktree
  <2>2. Worktree!TypeOK'
    BY <2>0, <2>1 DEF Worktree!TypeOK
  <2>3. \A t \in Snapshots : head'[t] = head[t]
    BY <2>0 DEF Worktree!TypeOK
  <2>4. OwnGit' /\ JobOfTrees' /\ CommitsOfCheckout(MaxCommits)'
    BY <2>0 DEF OwnGit, JobOfTrees, CommitsOfCheckout
  <2>5. HeadsAreWhole' /\ BaseIsCopied'
    BY <2>0, <2>3 DEF HeadsAreWhole, BaseIsCopied, JobOfTrees, Worktree!TypeOK
  <2> QED
    BY <2>2, <2>4, <2>5
<1>3. CASE Worktree!WritePack
  BY <1>3 DEF Worktree!WritePack
<1>4. CASE Worktree!PruneLoose
  <2>0. /\ objects' = [objects EXCEPT ![Checkout] = [d \in Worktree!ObjectDirs |->
                         IF d = "pack" THEN objects[Checkout][d]
                         ELSE objects[Checkout][d] \ objects[Checkout]["pack"]]]
        /\ packing' = FALSE
        /\ UNCHANGED <<files, head, gitOf, marker, agents, snapshotJob, base, snapshotTodo, writing>>
    BY <1>4 DEF Worktree!PruneLoose
  <2>1. objects[Checkout]["pack"] = {}
    BY DEF HeadsAreWhole
  <2>2. objects' = objects
    BY <2>0, <2>1 DEF Worktree!TypeOK
  <2>3. Worktree!TypeOK'
    BY <2>0, <2>2, ZenonT(60) DEF Worktree!TypeOK
  <2>4. /\ OwnGit' /\ JobOfTrees' /\ CommitsOfCheckout(MaxCommits)'
        /\ HeadsAreWhole' /\ BaseIsCopied'
    BY <2>0, <2>2 DEF OwnGit, JobOfTrees, CommitsOfCheckout, HeadsAreWhole, BaseIsCopied
  <2> QED
    BY <2>3, <2>4
<1> QED
  BY <1>1, <1>2, <1>3, <1>4

\* An agent's commit lands in its own snapshot.
LEMMA WorktreeAgent ==
  ASSUME WorktreeInv, NEW t \in Snapshots, Worktree!AgentCommits(t)
  PROVE  WorktreeInv'
<1> USE LocalAssumption DEF Worktree!SnapshotAssumption, WorktreeInv, Worktree!Trees
<1> DEFINE n == head[t] + 1
<1>0. gitOf[t] = t /\ t # Checkout
  BY DEF Worktree!AgentCommits, OwnGit
<1>1. /\ t \in agents /\ head[t] < MaxCommits
      /\ head' = [head EXCEPT ![t] = n]
      /\ objects' = [objects EXCEPT ![t]["commit"] = @ \cup {n}, ![t]["tree"] = @ \cup {n}]
      /\ UNCHANGED <<files, gitOf, marker, agents, snapshotJob, base, snapshotTodo, packing, writing>>
  BY <1>0 DEF Worktree!AgentCommits
<1>2. head[t] \in 0 .. MaxCommits /\ n \in Worktree!Commits /\ n \in 0 .. MaxCommits
  BY <1>1 DEF Worktree!TypeOK, Worktree!Commits
<1> HIDE DEF n
<1>3. /\ objects'[t]["pack"] = objects[t]["pack"]
      /\ objects'[t]["commit"] = objects[t]["commit"] \cup {n}
      /\ objects'[t]["tree"] = objects[t]["tree"] \cup {n}
      /\ \A s \in Worktree!Trees : s # t => objects'[s] = objects[s] /\ head'[s] = head[s]
      /\ head'[t] = n
      /\ objects' \in [Worktree!Trees -> [Worktree!ObjectDirs -> SUBSET Worktree!Commits]]
  BY <1>1, <1>2 DEF Worktree!TypeOK, Worktree!ObjectDirs
<1>4. Worktree!TypeOK'
  BY <1>1, <1>2, <1>3 DEF Worktree!TypeOK
<1>5. OwnGit' /\ JobOfTrees' /\ CommitsOfCheckout(MaxCommits)'
  BY <1>0, <1>1, <1>3 DEF OwnGit, JobOfTrees, CommitsOfCheckout
<1>6. HeadsAreWhole'
  BY <1>0, <1>1, <1>3 DEF HeadsAreWhole, Worktree!TypeOK
<1>7. BaseIsCopied'
  <2>1. snapshotJob.kind \in {"copy", "common", "verify", "mark"} => snapshotJob.tree # t
    BY <1>1 DEF Worktree!TypeOK, Worktree!Unfinished, JobOfTrees
  <2>2. snapshotJob.kind \in {"copy", "common"} => base \in objects'[snapshotJob.of]["tree"]
    BY <1>1, <1>3 DEF BaseIsCopied, JobOfTrees, Worktree!TypeOK
  <2> QED
    BY <1>1, <1>3, <2>1, <2>2 DEF BaseIsCopied, JobOfTrees
<1> QED
  BY <1>4, <1>5, <1>6, <1>7

\* The commit that is read has its tree in the source.
LEMMA WorktreeInspect ==
  ASSUME WorktreeInv, NEW s \in Worktree!Trees, NEW t \in Snapshots, Worktree!Inspect(s, t)
  PROVE  WorktreeInv'
<1> USE LocalAssumption DEF Worktree!SnapshotAssumption, WorktreeInv, Worktree!Trees
<1>0. s \in agents \cup {Checkout} /\ gitOf[s] = s
  BY DEF Worktree!Inspect, Worktree!MayCopy, OwnGit
<1>1. /\ snapshotJob' = [kind |-> "copy", tree |-> t, of |-> s]
      /\ base' = head[s] /\ snapshotTodo' = {"files"}
      /\ t \notin marker \cup agents
      /\ UNCHANGED <<files, head, objects, gitOf, marker, agents, packing, writing>>
  BY <1>0 DEF Worktree!Inspect, Worktree!IsFree, Worktree!RootExists, Worktree!treeVars
<1>2. head[s] # 0 /\ head[s] \in objects[s]["pack"] \cup objects[s]["commit"]
  BY <1>0 DEF Worktree!Inspect, Worktree!HeadResolves, Worktree!HasCommit, Worktree!Absent
<1>3. head[s] \in objects[s]["tree"]
  BY <1>0, <1>2 DEF HeadsAreWhole
<1>4. Worktree!TypeOK'
  <2>1. /\ snapshotJob' \in [kind : {"none", "remove", "mark"} \cup Worktree!Unfinished,
                            tree : Snapshots \cup {None}, of : Worktree!Trees \cup {None}]
        /\ snapshotTodo' \subseteq Worktree!Parts
    BY <1>1 DEF Worktree!Unfinished, Worktree!Parts
  <2> QED
    BY <1>1, <2>1 DEF Worktree!TypeOK
<1>5. /\ snapshotJob'.kind = "copy" /\ snapshotJob'.tree = t /\ snapshotJob'.of = s
  BY <1>1
<1>6. OwnGit' /\ JobOfTrees' /\ CommitsOfCheckout(MaxCommits)' /\ HeadsAreWhole'
  BY <1>0, <1>1, <1>5 DEF OwnGit, JobOfTrees, CommitsOfCheckout, HeadsAreWhole
<1>7. BaseIsCopied'
  BY <1>1, <1>3, <1>5 DEF BaseIsCopied
<1> QED
  BY <1>4, <1>6, <1>7

\* What is copied lies in a directory no agent has.  Until .git is rewritten it may lead to
\* the source.
LEMMA WorktreeCopy ==
  ASSUME WorktreeInv, NEW p \in Worktree!Parts, Worktree!CopyPart(p)
  PROVE  WorktreeInv'
<1> USE LocalAssumption DEF Worktree!SnapshotAssumption, WorktreeInv, Worktree!Trees
<1> DEFINE t == snapshotJob.tree
           s == snapshotJob.of
<1>0. /\ snapshotJob.kind \in {"copy", "common"} /\ p \in snapshotTodo
      /\ s \in agents \cup {Checkout} /\ gitOf[s] = s
      /\ t \in Snapshots /\ t \notin agents /\ t # s
  BY DEF Worktree!CopyPart, OwnGit, JobOfTrees, Worktree!TypeOK, Worktree!Unfinished
<1>1. /\ snapshotTodo' = snapshotTodo \ {p}
      /\ files' = IF p = "files" THEN [files EXCEPT ![t] = files[s]] ELSE files
      /\ gitOf' = IF p = "files" THEN [gitOf EXCEPT ![t] = s] ELSE gitOf
      /\ head' = IF p = "refs" THEN [head EXCEPT ![t] = head[s]] ELSE head
      /\ objects' = IF p \in Worktree!ObjectDirs THEN [objects EXCEPT ![t][p] = objects[s][p]] ELSE objects
      /\ UNCHANGED <<marker, agents, snapshotJob, base, packing, writing>>
  BY <1>0 DEF Worktree!CopyPart
<1>2. /\ \A u \in Worktree!Trees : u # t => objects'[u] = objects[u] /\ head'[u] = head[u]
         /\ gitOf'[u] = gitOf[u]
      /\ \A d \in Worktree!ObjectDirs :
           objects'[t][d] = IF p = d THEN objects[s][d] ELSE objects[t][d]
      /\ objects' \in [Worktree!Trees -> [Worktree!ObjectDirs -> SUBSET Worktree!Commits]]
  BY <1>0, <1>1 DEF Worktree!TypeOK
<1> HIDE DEF s, t
<1>3. Worktree!TypeOK'
  <2>1. s \in Worktree!Trees /\ t \in Worktree!Trees
    BY <1>0 DEF Worktree!TypeOK
  <2>2. files' \in [Worktree!Trees -> {"none", "part", "whole"}]
    BY <1>1, <2>1 DEF Worktree!TypeOK
  <2>3. gitOf' \in [Worktree!Trees -> Worktree!Trees] /\ head' \in [Worktree!Trees -> 0 .. MaxCommits]
    BY <1>1, <2>1 DEF Worktree!TypeOK
  <2> QED
    BY <1>1, <1>2, <2>2, <2>3 DEF Worktree!TypeOK
<1>4. OwnGit' /\ JobOfTrees' /\ CommitsOfCheckout(MaxCommits)'
  <2>1. OwnGit'
    BY <1>0, <1>1, <1>2 DEF OwnGit, Worktree!TypeOK
  <2>2. JobOfTrees'
    BY <1>0, <1>1 DEF JobOfTrees
  <2>3. objects'[Checkout] = objects[Checkout]
    BY <1>0, <1>2
  <2> QED
    BY <2>1, <2>2, <2>3 DEF CommitsOfCheckout
<1>5. HeadsAreWhole'
  <2>1. "pack" \in Worktree!ObjectDirs
    BY DEF Worktree!ObjectDirs
  <2> QED
    BY <1>0, <1>1, <1>2, <2>1 DEF HeadsAreWhole, Worktree!TypeOK
<1>6. BaseIsCopied'
  <2>1. "tree" \in Worktree!ObjectDirs
    BY DEF Worktree!ObjectDirs
  <2>2. base \in objects'[s]["tree"]
    BY <1>0, <1>2 DEF BaseIsCopied, s, Worktree!TypeOK
  <2>3. snapshotJob.kind = "common" => "tree" \in snapshotTodo' \/ base \in objects'[t]["tree"]
    BY <1>0, <1>1, <1>2, <2>1 DEF BaseIsCopied, s, t
  <2> QED
    BY <1>0, <1>1, <2>2, <2>3 DEF BaseIsCopied, s, t
<1> QED
  BY <1>3, <1>4, <1>5, <1>6

\* The other steps of a creation up to the verification.
LEMMA WorktreeMake ==
  WorktreeInv /\ (\/ Worktree!CopyEnds \/ Worktree!Redirect \/ Worktree!Verify
                  \/ \E p \in Worktree!Parts : Worktree!CopyFails(p))
    => WorktreeInv'
<1> SUFFICES ASSUME WorktreeInv,
                    \/ Worktree!CopyEnds \/ Worktree!Redirect \/ Worktree!Verify
                    \/ \E p \in Worktree!Parts : Worktree!CopyFails(p)
             PROVE  WorktreeInv'
  OBVIOUS
<1> USE LocalAssumption DEF Worktree!SnapshotAssumption, WorktreeInv, Worktree!Trees
<1> DEFINE t == snapshotJob.tree
<1>1. CASE Worktree!CopyEnds
  <2>0. /\ snapshotJob.kind = "copy"
        /\ snapshotJob' = [snapshotJob EXCEPT !.kind = "common"]
        /\ snapshotTodo' = Worktree!GitParts
        /\ UNCHANGED <<files, head, objects, gitOf, marker, agents, base, packing, writing>>
    BY <1>1 DEF Worktree!CopyEnds, Worktree!treeVars
  <2>1. snapshotJob'.kind = "common" /\ snapshotJob'.tree = t /\ snapshotJob'.of = snapshotJob.of
    BY <2>0 DEF Worktree!TypeOK
  <2>2. Worktree!TypeOK'
    BY <2>0, <2>1 DEF Worktree!TypeOK, Worktree!Unfinished, Worktree!Parts
  <2>3. /\ OwnGit' /\ JobOfTrees' /\ CommitsOfCheckout(MaxCommits)' /\ HeadsAreWhole'
    BY <2>0, <2>1 DEF OwnGit, JobOfTrees, CommitsOfCheckout, HeadsAreWhole
  <2>4. BaseIsCopied'
    BY <2>0, <2>1 DEF BaseIsCopied, Worktree!GitParts, Worktree!ObjectDirs
  <2> QED
    BY <2>2, <2>3, <2>4
<1>2. CASE Worktree!Redirect
  <2>0. /\ snapshotJob.kind = "common" /\ snapshotTodo = {}
        /\ gitOf' = [gitOf EXCEPT ![t] = t]
        /\ snapshotJob' = [snapshotJob EXCEPT !.kind = "verify"]
        /\ UNCHANGED <<files, head, objects, marker, agents, base, snapshotTodo, packing, writing>>
    BY <1>2 DEF Worktree!Redirect, Worktree!Redirected
  <2>1. snapshotJob'.kind = "verify" /\ snapshotJob'.tree = t /\ snapshotJob'.of = snapshotJob.of
    BY <2>0 DEF Worktree!TypeOK
  <2>2. t \in Snapshots
    BY <2>0 DEF JobOfTrees
  <2>3. gitOf'[t] = t /\ \A u \in Worktree!Trees : gitOf[u] = u => gitOf'[u] = u
    BY <2>0, <2>2 DEF Worktree!TypeOK
  <2>4. Worktree!TypeOK'
    BY <2>0, <2>1, <2>2 DEF Worktree!TypeOK, Worktree!Unfinished
  <2>5. /\ OwnGit' /\ JobOfTrees' /\ CommitsOfCheckout(MaxCommits)' /\ HeadsAreWhole'
    BY <2>0, <2>1, <2>2, <2>3 DEF OwnGit, JobOfTrees, CommitsOfCheckout, HeadsAreWhole, Worktree!TypeOK
  <2>6. BaseIsCopied'
    BY <2>0, <2>1 DEF BaseIsCopied
  <2> QED
    BY <2>4, <2>5, <2>6
<1>3. CASE Worktree!Verify
  <2>0. /\ snapshotJob.kind = "verify" /\ Worktree!Verified(t)
        /\ marker' = marker \cup {t}
        /\ snapshotJob' = [snapshotJob EXCEPT !.kind = "mark"]
        /\ UNCHANGED <<files, head, objects, gitOf, agents, base, snapshotTodo, packing, writing>>
    BY <1>3 DEF Worktree!Verify
  <2>1. snapshotJob'.kind = "mark" /\ snapshotJob'.tree = t /\ snapshotJob'.of = snapshotJob.of
    BY <2>0 DEF Worktree!TypeOK
  <2>2. t \in Snapshots /\ gitOf[t] = t /\ t \notin agents
    BY <2>0 DEF JobOfTrees, OwnGit, Worktree!TypeOK, Worktree!Unfinished
  <2>3. head[t] = base /\ base \in objects[t]["commit"]
    BY <2>0, <2>2 DEF Worktree!Verified, Worktree!HeadResolves, Worktree!HasCommit, HeadsAreWhole
  <2>4. Worktree!TypeOK'
    BY <2>0, <2>1, <2>2 DEF Worktree!TypeOK, Worktree!Unfinished
  <2>5. /\ OwnGit' /\ JobOfTrees' /\ CommitsOfCheckout(MaxCommits)' /\ HeadsAreWhole'
    BY <2>0, <2>1, <2>2 DEF OwnGit, JobOfTrees, CommitsOfCheckout, HeadsAreWhole
  <2>6. BaseIsCopied'
    BY <2>0, <2>1, <2>3 DEF BaseIsCopied
  <2> QED
    BY <2>4, <2>5, <2>6
<1>4. ASSUME NEW p \in Worktree!Parts, Worktree!CopyFails(p) PROVE WorktreeInv'
  <2>0. /\ snapshotJob.kind \in {"copy", "common"}
        /\ snapshotTodo' = snapshotTodo \ {p}
        /\ files' = IF p = "files" THEN [files EXCEPT ![t] = "part"] ELSE files
        /\ snapshotJob' = [snapshotJob EXCEPT !.kind = "failed"]
        /\ UNCHANGED <<head, objects, gitOf, marker, agents, base, packing, writing>>
    BY <1>4 DEF Worktree!CopyFails, Worktree!AfterFailedCopy
  <2>1. snapshotJob'.kind = "failed" /\ snapshotJob'.tree = t /\ snapshotJob'.of = snapshotJob.of
    BY <2>0 DEF Worktree!TypeOK
  <2>2. files' \in [Worktree!Trees -> {"none", "part", "whole"}]
    BY <2>0 DEF Worktree!TypeOK
  <2>3. Worktree!TypeOK'
    BY <2>0, <2>1, <2>2 DEF Worktree!TypeOK, Worktree!Unfinished
  <2>4. /\ OwnGit' /\ JobOfTrees' /\ CommitsOfCheckout(MaxCommits)' /\ HeadsAreWhole' /\ BaseIsCopied'
    BY <2>0, <2>1 DEF OwnGit, JobOfTrees, CommitsOfCheckout, HeadsAreWhole, BaseIsCopied
  <2> QED
    BY <2>3, <2>4
<1> QED
  BY <1>1, <1>2, <1>3, <1>4

\* The end of a creation: the agent starts, the destination is removed, or it stays as it is.
LEMMA WorktreeEnds ==
  WorktreeInv /\ (Worktree!AgentStarts \/ Worktree!CreateFails \/ Worktree!CrashInCreate)
    => WorktreeInv'
<1> SUFFICES ASSUME WorktreeInv, Worktree!AgentStarts \/ Worktree!CreateFails \/ Worktree!CrashInCreate
             PROVE  WorktreeInv'
  OBVIOUS
<1> USE LocalAssumption DEF Worktree!SnapshotAssumption, WorktreeInv, Worktree!Trees
<1> DEFINE t == snapshotJob.tree
<1>0. snapshotJob' = Worktree!NoJob /\ base' = 0 /\ snapshotJob.kind \in Worktree!Unfinished \cup {"mark"}
      /\ UNCHANGED <<packing, writing>>
  BY DEF Worktree!AgentStarts, Worktree!CreateFails, Worktree!CrashInCreate, Worktree!Absent
<1>1. snapshotJob'.kind = "none"
      /\ snapshotJob' \in [kind : {"none", "remove", "mark"} \cup Worktree!Unfinished,
                           tree : Snapshots \cup {None}, of : Worktree!Trees \cup {None}]
  BY <1>0 DEF Worktree!NoJob
<1>2. t \in Snapshots /\ t \notin agents
  BY <1>0 DEF JobOfTrees, Worktree!TypeOK, Worktree!Unfinished
<1>3. JobOfTrees' /\ BaseIsCopied'
  BY <1>1 DEF JobOfTrees, BaseIsCopied
<1>4. CASE Worktree!AgentStarts
  <2>0. /\ snapshotJob.kind = "mark" /\ agents' = agents \cup {t}
        /\ UNCHANGED <<files, head, objects, gitOf, marker, snapshotTodo>>
    BY <1>4 DEF Worktree!AgentStarts, Worktree!treeVars
  <2>1. Worktree!TypeOK'
    BY <1>0, <1>1, <1>2, <2>0 DEF Worktree!TypeOK, Worktree!Unfinished
  <2>2. OwnGit' /\ CommitsOfCheckout(MaxCommits)'
    BY <1>1, <2>0 DEF OwnGit, CommitsOfCheckout
  <2>3. HeadsAreWhole'
    BY <2>0 DEF HeadsAreWhole, BaseIsCopied
  <2> QED
    BY <1>3, <2>1, <2>2, <2>3
<1>5. CASE Worktree!CreateFails
  <2>0. /\ files' = [files EXCEPT ![t] = "none"] /\ head' = [head EXCEPT ![t] = 0]
        /\ objects' = [objects EXCEPT ![t] = Worktree!NoObjects]
        /\ gitOf' = [gitOf EXCEPT ![t] = t]
        /\ marker' = marker \ {t} /\ snapshotTodo' = {} /\ agents' = agents
    BY <1>5 DEF Worktree!CreateFails, Worktree!Absent
  <2>1. Worktree!NoObjects \in [Worktree!ObjectDirs -> SUBSET Worktree!Commits]
        /\ Worktree!NoObjects["pack"] = {}
    BY DEF Worktree!NoObjects, Worktree!ObjectDirs
  <2>2. \A u \in Worktree!Trees : u # t => objects'[u] = objects[u] /\ head'[u] = head[u]
        /\ gitOf'[u] = gitOf[u]
    BY <2>0 DEF Worktree!TypeOK
  <2>3. objects'[t] = Worktree!NoObjects /\ gitOf'[t] = t /\ t # Checkout
    BY <1>2, <2>0 DEF Worktree!TypeOK
  <2>4. Worktree!TypeOK'
    BY <1>0, <1>1, <1>2, <2>0, <2>1 DEF Worktree!TypeOK, Worktree!Unfinished
  <2>5. OwnGit' /\ CommitsOfCheckout(MaxCommits)'
    BY <1>1, <1>2, <2>0, <2>2, <2>3 DEF OwnGit, CommitsOfCheckout, Worktree!TypeOK
  <2>6. HeadsAreWhole'
    BY <1>2, <2>0, <2>1, <2>2, <2>3 DEF HeadsAreWhole, Worktree!TypeOK
  <2> QED
    BY <1>3, <2>4, <2>5, <2>6
<1>6. CASE Worktree!CrashInCreate
  <2>0. UNCHANGED <<files, head, objects, gitOf, marker, agents>> /\ snapshotTodo' = {}
    BY <1>6 DEF Worktree!CrashInCreate, Worktree!treeVars
  <2>1. Worktree!TypeOK'
    BY <1>0, <1>1, <2>0 DEF Worktree!TypeOK, Worktree!Unfinished
  <2>2. OwnGit' /\ CommitsOfCheckout(MaxCommits)' /\ HeadsAreWhole'
    BY <1>1, <2>0 DEF OwnGit, CommitsOfCheckout, HeadsAreWhole
  <2> QED
    BY <1>3, <2>1, <2>2
<1> QED
  BY <1>4, <1>5, <1>6

\* The removal of an agent's snapshot, and of what a cut removal has left.
LEMMA WorktreeRemove ==
  WorktreeInv /\ (Worktree!RemovePart \/ Worktree!RemoveIsCut
                  \/ \E t \in Snapshots : Worktree!RemoveBegins(t) \/ Worktree!RemoveEnds(t))
    => WorktreeInv'
<1> SUFFICES ASSUME WorktreeInv,
                    Worktree!RemovePart \/ Worktree!RemoveIsCut
                      \/ \E t \in Snapshots : Worktree!RemoveBegins(t) \/ Worktree!RemoveEnds(t)
             PROVE  WorktreeInv'
  OBVIOUS
<1> USE LocalAssumption DEF Worktree!SnapshotAssumption, WorktreeInv, Worktree!Trees
<1>0. Worktree!NoJob.kind = "none"
      /\ Worktree!NoJob \in [kind : {"none", "remove", "mark"} \cup Worktree!Unfinished,
                             tree : Snapshots \cup {None}, of : Worktree!Trees \cup {None}]
  BY DEF Worktree!NoJob
<1>1. CASE Worktree!RemovePart
  <2> DEFINE t == snapshotJob.tree
  <2>0. /\ snapshotJob.kind = "remove" /\ t \in Snapshots /\ t # Checkout
        /\ UNCHANGED <<gitOf, agents, snapshotJob, base, snapshotTodo, packing, writing>>
    BY <1>1 DEF Worktree!RemovePart, JobOfTrees
  <2>1. /\ files' = files \/ files' = [files EXCEPT ![t] = IF files[t] = "whole" THEN "part" ELSE "none"]
        /\ head' = head \/ head' = [head EXCEPT ![t] = 0]
        /\ objects' = objects \/ objects' = [objects EXCEPT ![t] = Worktree!NoObjects]
        /\ marker' = marker \/ marker' = marker \ {t}
    BY <1>1 DEF Worktree!RemovePart, Worktree!Absent
  <2>2. Worktree!NoObjects \in [Worktree!ObjectDirs -> SUBSET Worktree!Commits]
        /\ Worktree!NoObjects["pack"] = {} /\ Worktree!NoObjects["commit"] = {}
    BY DEF Worktree!NoObjects, Worktree!ObjectDirs
  <2>3. /\ \A u \in Worktree!Trees : u # t => objects'[u] = objects[u] /\ head'[u] = head[u]
        /\ objects'[t] = objects[t] \/ objects'[t] = Worktree!NoObjects
        /\ head'[t] = head[t] \/ head'[t] = 0
    BY <2>0, <2>1 DEF Worktree!TypeOK
  <2> HIDE DEF t
  <2>4. Worktree!TypeOK'
    <3>1. files' \in [Worktree!Trees -> {"none", "part", "whole"}]
      BY <2>0, <2>1 DEF Worktree!TypeOK
    <3>2. head' \in [Worktree!Trees -> 0 .. MaxCommits]
      BY <2>0, <2>1 DEF Worktree!TypeOK
    <3>3. objects' \in [Worktree!Trees -> [Worktree!ObjectDirs -> SUBSET Worktree!Commits]]
      BY <2>0, <2>1, <2>2 DEF Worktree!TypeOK
    <3> QED
      BY <2>0, <2>1, <3>1, <3>2, <3>3 DEF Worktree!TypeOK, Worktree!Unfinished
  <2>5. OwnGit' /\ JobOfTrees' /\ CommitsOfCheckout(MaxCommits)'
    BY <2>0, <2>3 DEF OwnGit, JobOfTrees, CommitsOfCheckout
  <2>6. HeadsAreWhole'
    BY <2>0, <2>2, <2>3 DEF HeadsAreWhole, Worktree!TypeOK
  <2>7. BaseIsCopied'
    BY <2>0 DEF BaseIsCopied
  <2> QED
    BY <2>4, <2>5, <2>6, <2>7
<1>2. CASE Worktree!RemoveIsCut
  <2>0. snapshotJob' = Worktree!NoJob
        /\ UNCHANGED <<files, head, objects, gitOf, marker, agents, base, snapshotTodo, packing, writing>>
    BY <1>2 DEF Worktree!RemoveIsCut, Worktree!treeVars
  <2>1. Worktree!TypeOK'
    BY <1>0, <2>0 DEF Worktree!TypeOK, Worktree!Unfinished
  <2>2. /\ OwnGit' /\ JobOfTrees' /\ CommitsOfCheckout(MaxCommits)' /\ HeadsAreWhole' /\ BaseIsCopied'
    BY <1>0, <2>0 DEF OwnGit, JobOfTrees, CommitsOfCheckout, HeadsAreWhole, BaseIsCopied
  <2> QED
    BY <2>1, <2>2
<1>3. ASSUME NEW t \in Snapshots, Worktree!RemoveBegins(t) PROVE WorktreeInv'
  <2>0. snapshotJob' = [kind |-> "remove", tree |-> t, of |-> None]
        /\ UNCHANGED <<files, head, objects, gitOf, marker, agents, base, snapshotTodo, packing, writing>>
    BY <1>3 DEF Worktree!RemoveBegins, Worktree!treeVars
  <2>1. snapshotJob'.kind = "remove" /\ snapshotJob'.tree = t
    BY <2>0
  <2>2. Worktree!TypeOK'
    BY <2>0, <2>1 DEF Worktree!TypeOK, Worktree!Unfinished
  <2>3. /\ OwnGit' /\ JobOfTrees' /\ CommitsOfCheckout(MaxCommits)' /\ HeadsAreWhole' /\ BaseIsCopied'
    BY <2>0, <2>1 DEF OwnGit, JobOfTrees, CommitsOfCheckout, HeadsAreWhole, BaseIsCopied
  <2> QED
    BY <2>2, <2>3
<1>4. ASSUME NEW t \in Snapshots, Worktree!RemoveEnds(t) PROVE WorktreeInv'
  <2>0. /\ snapshotJob' = Worktree!NoJob
        /\ agents' = agents \ {t} /\ gitOf' = [gitOf EXCEPT ![t] = t]
        /\ UNCHANGED <<files, head, objects, marker, base, snapshotTodo, packing, writing>>
    BY <1>4 DEF Worktree!RemoveEnds
  <2>1. Worktree!TypeOK'
    BY <1>0, <2>0 DEF Worktree!TypeOK, Worktree!Unfinished
  <2>2. /\ OwnGit' /\ JobOfTrees' /\ CommitsOfCheckout(MaxCommits)' /\ HeadsAreWhole' /\ BaseIsCopied'
    BY <1>0, <2>0 DEF OwnGit, JobOfTrees, CommitsOfCheckout, HeadsAreWhole, BaseIsCopied, Worktree!TypeOK
  <2> QED
    BY <2>1, <2>2
<1> QED
  BY <1>1, <1>2, <1>3, <1>4

\* Every step keeps the invariant, starts agents whole, and only moves HEAD of the checkout
\* to end a commit of the operator's.
LEMMA WorktreeStepInv == WorktreeInv /\ [Worktree!Next]_snapshotVars => WorktreeInv'
<1> SUFFICES ASSUME WorktreeInv, [Worktree!Next]_snapshotVars PROVE WorktreeInv'
  OBVIOUS
<1>1. CASE Worktree!Next
  BY <1>1, WorktreeOperator, WorktreeAgent, WorktreeInspect, WorktreeCopy, WorktreeMake, WorktreeEnds,
     WorktreeRemove DEF Worktree!Next
<1>2. CASE UNCHANGED snapshotVars
  BY <1>2 DEF snapshotVars, WorktreeInv, Worktree!TypeOK, OwnGit, JobOfTrees, CommitsOfCheckout,
              HeadsAreWhole, BaseIsCopied
<1> QED
  BY <1>1, <1>2

\* The action properties of a step on a linked checkout follow from its invariant.
LEMMA WorktreeStepSafe ==
  ASSUME WorktreeInv, [Worktree!Next]_snapshotVars
  PROVE  /\ Worktree!StartHasItsCommit
         /\ head'[Checkout] # head[Checkout] => writing
<1> USE LocalAssumption DEF Worktree!SnapshotAssumption, WorktreeInv
<1>1. Worktree!StartHasItsCommit
  <2> SUFFICES ASSUME NEW t \in agents' \ agents
               PROVE  Worktree!HasCommit(t, head[t]) /\ Worktree!HasTree(t, head[t])
    BY DEF Worktree!StartHasItsCommit
  <2>1. agents' # agents /\ ~(agents' \subseteq agents)
    OBVIOUS
  <2>2. Worktree!AgentStarts
    BY <2>1 DEF Worktree!Next, snapshotVars, Worktree!WriteCommit, Worktree!MoveHead, Worktree!WritePack,
       Worktree!PruneLoose,
      Worktree!AgentCommits, Worktree!RemoveBegins, Worktree!RemoveEnds, Worktree!Inspect, Worktree!CopyPart,
      Worktree!CopyFails, Worktree!CopyEnds, Worktree!Redirect, Worktree!Verify, Worktree!CreateFails,
      Worktree!RemovePart, Worktree!RemoveIsCut, Worktree!CrashInCreate
  <2>3. snapshotJob.kind = "mark" /\ t = snapshotJob.tree
    BY <2>2 DEF Worktree!AgentStarts
  <2> QED
    BY <2>3 DEF BaseIsCopied, Worktree!HasCommit, Worktree!HasTree
<1>2. ASSUME head'[Checkout] # head[Checkout] PROVE writing
  <2>1. head' # head
    BY <1>2
  <2>2. ASSUME NEW t \in Snapshots, NEW h, head' = [head EXCEPT ![t] = h] PROVE FALSE
    BY <1>2, <2>2 DEF Worktree!TypeOK, Worktree!Trees
  <2>3. CASE Worktree!MoveHead
    BY <2>3 DEF Worktree!MoveHead
  <2>4. CASE \E t \in Snapshots : Worktree!AgentCommits(t)
    BY <2>2, <2>4 DEF Worktree!AgentCommits, OwnGit
  <2>5. CASE \E p \in Worktree!Parts : Worktree!CopyPart(p)
    BY <2>1, <2>2, <2>5 DEF Worktree!CopyPart, JobOfTrees
  <2>6. CASE Worktree!CreateFails
    BY <2>1, <2>2, <2>6 DEF Worktree!CreateFails, JobOfTrees, Worktree!Unfinished
  <2>7. CASE Worktree!RemovePart
    BY <2>1, <2>2, <2>7 DEF Worktree!RemovePart, JobOfTrees
  <2> QED
    BY <2>1, <2>3, <2>4, <2>5, <2>6, <2>7 DEF Worktree!Next, snapshotVars, Worktree!WriteCommit,
       Worktree!WritePack, Worktree!PruneLoose,
      Worktree!RemoveBegins, Worktree!RemoveEnds, Worktree!Inspect,
      Worktree!CopyFails, Worktree!CopyEnds, Worktree!Redirect, Worktree!Verify, Worktree!AgentStarts,
      Worktree!RemoveIsCut, Worktree!CrashInCreate, Worktree!treeVars
<1> QED
  BY <1>1, <1>2

-----------------------------------------------------------------------------
(* Snapshots of a checkout with a Git directory of its own *)

\* The invariant of a checkout of its own holds at first.
LEMMA CloneInit == Clone!Init => CloneInv
<1> SUFFICES ASSUME Clone!Init PROVE CloneInv
  OBVIOUS
<1> USE LocalAssumption DEF Clone!SnapshotAssumption, Clone!Trees
<1>1. 1 \in Clone!Commits /\ Clone!NoObjects \in [Clone!ObjectDirs -> SUBSET Clone!Commits]
  BY DEF Clone!Commits, Clone!NoObjects
<1>2. [Clone!NoObjects EXCEPT !["commit"] = {1}, !["tree"] = {1}]
         \in [Clone!ObjectDirs -> SUBSET Clone!Commits]
  BY <1>1
<1>3. snapshotJob.kind = "none"
      /\ snapshotJob \in [kind : {"none", "remove", "mark"} \cup Clone!Unfinished,
                          tree : Snapshots \cup {None}, of : Clone!Trees \cup {None}]
  BY DEF Clone!Init, Clone!NoJob
<1>4. Clone!TypeOK
  <2>1. objects \in [Clone!Trees -> [Clone!ObjectDirs -> SUBSET Clone!Commits]]
    BY <1>1, <1>2 DEF Clone!Init
  <2>2. head \in [Clone!Trees -> 0 .. CloneCommits] /\ base \in 0 .. CloneCommits
    BY DEF Clone!Init, Clone!Absent
  <2> QED
    BY <1>3, <2>1, <2>2 DEF Clone!Init, Clone!TypeOK, Clone!Unfinished
<1>5. objects[Checkout]["pack"] = {} /\ objects[Checkout]["commit"] = {1}
  BY DEF Clone!Init, Clone!NoObjects, Clone!ObjectDirs
<1>6. CommitsOfCheckout(CloneCommits)
  <2>1. 1 \in 1 .. CloneCommits /\ \A c \in 1 .. CloneCommits : c \in {} \cup {1} <=> c <= 1
    OBVIOUS
  <2> QED
    BY <1>5, <2>1 DEF CommitsOfCheckout
<1>7. NoLinks /\ JobOfTrees /\ FilesAreWhole
  BY <1>3 DEF Clone!Init, NoLinks, JobOfTrees, FilesAreWhole
<1> QED
  BY <1>4, <1>6, <1>7 DEF CloneInv

\* The operator's commits and repacking: a commit is in a pack before it is pruned.
LEMMA CloneOperator ==
  CloneInv /\ (Clone!WriteCommit \/ Clone!MoveHead \/ Clone!WritePack \/ Clone!PruneLoose)
    => CloneInv'
<1> SUFFICES ASSUME CloneInv,
                    Clone!WriteCommit \/ Clone!MoveHead \/ Clone!WritePack \/ Clone!PruneLoose
             PROVE  CloneInv'
  OBVIOUS
<1> USE LocalAssumption DEF Clone!SnapshotAssumption, CloneInv, Clone!Trees
<1> DEFINE n == Clone!NewestCommit
           o == objects[Checkout]
<1>0. UNCHANGED <<files, gitOf, marker, agents, snapshotJob, base, snapshotTodo>>
  BY DEF Clone!WriteCommit, Clone!MoveHead, Clone!WritePack, Clone!PruneLoose
<1>1. NoLinks' /\ JobOfTrees' /\ FilesAreWhole'
  BY <1>0 DEF NoLinks, JobOfTrees, FilesAreWhole
<1>2. n \in 1 .. CloneCommits /\ \A c \in 1 .. CloneCommits : c \in o["pack"] \cup o["commit"] <=> c <= n
  BY NewestOfClone
<1>3. o \in [Clone!ObjectDirs -> SUBSET Clone!Commits]
  BY DEF Clone!TypeOK
<1> HIDE DEF n
<1>4. ASSUME NEW new_ \in [Clone!ObjectDirs -> SUBSET Clone!Commits],
             objects' = [objects EXCEPT ![Checkout] = new_], head' = head,
             packing' \in BOOLEAN, writing' \in BOOLEAN,
             NEW m \in 1 .. CloneCommits,
             \A c \in 1 .. CloneCommits : c \in new_["pack"] \cup new_["commit"] <=> c <= m
      PROVE  CloneInv'
  <2>1. objects'[Checkout] = new_
    BY <1>4 DEF Clone!TypeOK
  <2>2. Clone!TypeOK'
    BY <1>0, <1>4 DEF Clone!TypeOK
  <2> QED
    BY <1>1, <1>4, <2>1, <2>2 DEF CommitsOfCheckout
<1>5. CASE Clone!WriteCommit
  <2> DEFINE w == [d \in Clone!ObjectDirs |-> IF d = "pack" THEN o[d] ELSE o[d] \cup {n + 1}]
  <2>0. n < CloneCommits /\ objects' = [objects EXCEPT ![Checkout] = w] /\ writing' = TRUE
        /\ UNCHANGED <<head, packing>>
    BY <1>5 DEF Clone!WriteCommit, n
  <2>1. n + 1 \in Clone!Commits /\ n + 1 \in 1 .. CloneCommits
    BY <1>2, <2>0 DEF Clone!Commits
  <2>2. /\ w \in [Clone!ObjectDirs -> SUBSET Clone!Commits]
        /\ w["pack"] = o["pack"] /\ w["commit"] = o["commit"] \cup {n + 1}
    BY <1>3, <2>1 DEF Clone!ObjectDirs
  <2>3. \A c \in 1 .. CloneCommits : c \in w["pack"] \cup w["commit"] <=> c <= n + 1
    BY <1>2, <2>2
  <2> HIDE DEF w
  <2> QED
    BY <1>4, <2>0, <2>1, <2>2, <2>3 DEF Clone!TypeOK
<1>6. CASE Clone!MoveHead
  <2>0. head' = [head EXCEPT ![Checkout] = n] /\ writing' = FALSE /\ UNCHANGED <<objects, packing>>
    BY <1>6 DEF Clone!MoveHead, n
  <2>1. head' \in [Clone!Trees -> 0 .. CloneCommits]
    BY <1>2, <2>0 DEF Clone!TypeOK
  <2>2. Clone!TypeOK'
    BY <1>0, <2>0, <2>1 DEF Clone!TypeOK
  <2> QED
    BY <1>1, <2>0, <2>2 DEF CommitsOfCheckout
<1>7. CASE Clone!WritePack
  <2> DEFINE w == [o EXCEPT !["pack"] = @ \cup o["commit"]]
  <2>0. objects' = [objects EXCEPT ![Checkout] = w] /\ packing' = TRUE /\ UNCHANGED <<head, writing>>
    BY <1>7 DEF Clone!WritePack, Clone!TypeOK
  <2>1. /\ w \in [Clone!ObjectDirs -> SUBSET Clone!Commits]
        /\ w["pack"] \cup w["commit"] = o["pack"] \cup o["commit"]
    BY <1>3 DEF Clone!ObjectDirs
  <2> HIDE DEF w
  <2> QED
    BY <1>2, <1>4, <2>0, <2>1 DEF Clone!TypeOK
<1>8. CASE Clone!PruneLoose
  <2> DEFINE w == [d \in Clone!ObjectDirs |-> IF d = "pack" THEN o[d] ELSE o[d] \ o["pack"]]
  <2>0. objects' = [objects EXCEPT ![Checkout] = w] /\ packing' = FALSE /\ UNCHANGED <<head, writing>>
    BY <1>8 DEF Clone!PruneLoose
  <2>1. /\ w \in [Clone!ObjectDirs -> SUBSET Clone!Commits]
        /\ w["pack"] \cup w["commit"] = o["pack"] \cup o["commit"]
    BY <1>3 DEF Clone!ObjectDirs
  <2> HIDE DEF w
  <2> QED
    BY <1>2, <1>4, <2>0, <2>1 DEF Clone!TypeOK
<1> QED
  BY <1>5, <1>6, <1>7, <1>8

\* An agent's commit lands in its own snapshot.
LEMMA CloneAgent ==
  ASSUME CloneInv, NEW t \in Snapshots, Clone!AgentCommits(t)
  PROVE  CloneInv'
<1> USE LocalAssumption DEF Clone!SnapshotAssumption, CloneInv, Clone!Trees
<1> DEFINE n == head[t] + 1
<1>1. /\ t # Checkout /\ head[t] < CloneCommits
      /\ head' = [head EXCEPT ![t] = n]
      /\ objects' = [objects EXCEPT ![t]["commit"] = @ \cup {n}, ![t]["tree"] = @ \cup {n}]
      /\ UNCHANGED <<files, gitOf, marker, agents, snapshotJob, base, snapshotTodo, packing, writing>>
  BY DEF Clone!AgentCommits, NoLinks
<1>2. head[t] \in 0 .. CloneCommits /\ n \in Clone!Commits /\ n \in 0 .. CloneCommits
  BY <1>1 DEF Clone!TypeOK, Clone!Commits
<1> HIDE DEF n
<1>3. /\ objects'[Checkout] = objects[Checkout]
      /\ objects' \in [Clone!Trees -> [Clone!ObjectDirs -> SUBSET Clone!Commits]]
  BY <1>1, <1>2 DEF Clone!TypeOK, Clone!ObjectDirs
<1>4. Clone!TypeOK'
  BY <1>1, <1>2, <1>3 DEF Clone!TypeOK
<1> QED
  BY <1>1, <1>3, <1>4 DEF NoLinks, JobOfTrees, CommitsOfCheckout, FilesAreWhole

\* A creation up to the verification: its source has all its files.
LEMMA CloneMake ==
  CloneInv /\ (Clone!CopyEnds \/ Clone!Redirect \/ Clone!Verify
               \/ (\E p \in Clone!Parts : Clone!CopyPart(p) \/ Clone!CopyFails(p))
               \/ \E s \in Clone!Trees, t \in Snapshots : Clone!Inspect(s, t))
    => CloneInv'
<1> SUFFICES ASSUME CloneInv,
               Clone!CopyEnds \/ Clone!Redirect \/ Clone!Verify
               \/ (\E p \in Clone!Parts : Clone!CopyPart(p) \/ Clone!CopyFails(p))
               \/ \E s \in Clone!Trees, t \in Snapshots : Clone!Inspect(s, t)
             PROVE  CloneInv'
  OBVIOUS
<1> USE LocalAssumption DEF Clone!SnapshotAssumption, CloneInv, Clone!Trees
<1>1. CASE Clone!CopyEnds
  <2>0. /\ snapshotJob.kind = "copy" /\ snapshotTodo = {} /\ snapshotTodo' = {}
        /\ snapshotJob' = [snapshotJob EXCEPT !.kind = "verify"]
        /\ UNCHANGED <<files, head, objects, gitOf, marker, agents, base, packing, writing>>
    BY <1>1 DEF Clone!CopyEnds, Clone!treeVars
  <2>1. /\ snapshotJob'.kind = "verify" /\ snapshotJob'.tree = snapshotJob.tree
        /\ snapshotJob'.of = snapshotJob.of
    BY <2>0 DEF Clone!TypeOK
  <2>2. Clone!TypeOK'
    BY <2>0, <2>1 DEF Clone!TypeOK, Clone!Unfinished
  <2> QED
    BY <2>0, <2>1, <2>2 DEF NoLinks, JobOfTrees, CommitsOfCheckout, FilesAreWhole
<1>2. CASE Clone!Redirect
  BY <1>2 DEF Clone!Redirect, FilesAreWhole
<1>3. CASE Clone!Verify
  <2>0. /\ snapshotJob.kind = "verify"
        /\ marker' = marker \cup {snapshotJob.tree}
        /\ snapshotJob' = [snapshotJob EXCEPT !.kind = "mark"]
        /\ UNCHANGED <<files, head, objects, gitOf, agents, base, snapshotTodo, packing, writing>>
    BY <1>3 DEF Clone!Verify
  <2>1. /\ snapshotJob'.kind = "mark" /\ snapshotJob'.tree = snapshotJob.tree
        /\ snapshotJob'.of = snapshotJob.of
    BY <2>0 DEF Clone!TypeOK
  <2>2. snapshotJob.tree \in Snapshots /\ snapshotJob.tree \notin agents
    BY <2>0 DEF JobOfTrees, Clone!TypeOK, Clone!Unfinished
  <2>3. Clone!TypeOK'
    BY <2>0, <2>1, <2>2 DEF Clone!TypeOK, Clone!Unfinished
  <2> QED
    BY <2>0, <2>1, <2>2, <2>3 DEF NoLinks, JobOfTrees, CommitsOfCheckout, FilesAreWhole
<1>4. ASSUME NEW p \in Clone!Parts, Clone!CopyPart(p) PROVE CloneInv'
  <2> DEFINE t == snapshotJob.tree
             s == snapshotJob.of
  <2>0. /\ snapshotJob.kind = "copy" /\ s \in agents \cup {Checkout} /\ gitOf[s] = s
        /\ t \in Snapshots /\ t \notin agents /\ t # Checkout
        /\ files[s] = "whole"
    BY <1>4 DEF Clone!CopyPart, NoLinks, JobOfTrees, FilesAreWhole, Clone!TypeOK, Clone!Unfinished
  <2>1. /\ snapshotTodo' = snapshotTodo \ {p}
        /\ files' = IF p = "files" THEN [files EXCEPT ![t] = "whole"] ELSE files
        /\ head' = IF p = "refs" THEN [head EXCEPT ![t] = head[s]] ELSE head
        /\ objects' = IF p \in Clone!ObjectDirs THEN [objects EXCEPT ![t][p] = objects[s][p]] ELSE objects
        /\ UNCHANGED <<gitOf, marker, agents, snapshotJob, base, packing, writing>>
    BY <1>4, <2>0 DEF Clone!CopyPart
  <2>2. s \in Clone!Trees /\ t \in Clone!Trees
    BY <2>0 DEF Clone!TypeOK
  <2> HIDE DEF s, t
  <2>3. /\ objects'[Checkout] = objects[Checkout]
        /\ objects' \in [Clone!Trees -> [Clone!ObjectDirs -> SUBSET Clone!Commits]]
    BY <2>0, <2>1, <2>2 DEF Clone!TypeOK
  <2>4. files' \in [Clone!Trees -> {"none", "part", "whole"}] /\ head' \in [Clone!Trees -> 0 .. CloneCommits]
    BY <2>1, <2>2 DEF Clone!TypeOK
  <2>5. Clone!TypeOK'
    BY <2>1, <2>3, <2>4 DEF Clone!TypeOK
  <2>6. FilesAreWhole'
    <3>1. files'[t] = IF p = "files" THEN "whole" ELSE files[t]
      BY <2>1, <2>2 DEF Clone!TypeOK
    <3>2. \A u \in Clone!Trees : u # t => files'[u] = files[u]
      BY <2>1, <2>2 DEF Clone!TypeOK
    <3> QED
      BY <2>0, <2>1, <3>1, <3>2 DEF FilesAreWhole, t, Clone!TypeOK
  <2> QED
    BY <2>1, <2>3, <2>5, <2>6 DEF NoLinks, JobOfTrees, CommitsOfCheckout
<1>5. ASSUME NEW p \in Clone!Parts, Clone!CopyFails(p) PROVE CloneInv'
  <2> DEFINE t == snapshotJob.tree
  <2>0. /\ snapshotJob.kind = "copy"
        /\ snapshotTodo' = snapshotTodo \ {p}
        /\ files' = IF p = "files" THEN [files EXCEPT ![t] = "part"] ELSE files
        /\ snapshotJob' = [snapshotJob EXCEPT !.kind = "failed"]
        /\ UNCHANGED <<head, objects, gitOf, marker, agents, base, packing, writing>>
    BY <1>5 DEF Clone!CopyFails, Clone!AfterFailedCopy, FilesAreWhole
  <2>1. snapshotJob'.kind = "failed" /\ snapshotJob'.tree = t /\ snapshotJob'.of = snapshotJob.of
    BY <2>0 DEF Clone!TypeOK
  <2>2. t \in Snapshots /\ t \notin agents /\ t # Checkout
    BY <2>0 DEF JobOfTrees, Clone!TypeOK, Clone!Unfinished
  <2>3. files' \in [Clone!Trees -> {"none", "part", "whole"}]
        /\ \A u \in Clone!Trees : u # t => files'[u] = files[u]
    BY <2>0 DEF Clone!TypeOK
  <2>4. Clone!TypeOK'
    BY <2>0, <2>1, <2>3 DEF Clone!TypeOK, Clone!Unfinished
  <2> QED
    BY <2>0, <2>1, <2>2, <2>3, <2>4 DEF NoLinks, JobOfTrees, CommitsOfCheckout, FilesAreWhole, Clone!TypeOK
<1>6. ASSUME NEW s \in Clone!Trees, NEW t \in Snapshots, Clone!Inspect(s, t) PROVE CloneInv'
  <2>1. /\ s \in agents \cup {Checkout} /\ gitOf[s] = s
        /\ snapshotJob = Clone!NoJob
        /\ snapshotJob' = [kind |-> "copy", tree |-> t, of |-> s]
        /\ base' = head[s] /\ snapshotTodo' = Clone!Parts
        /\ t \notin marker \cup agents
        /\ UNCHANGED <<files, head, objects, gitOf, marker, agents, packing, writing>>
    BY <1>6 DEF Clone!Inspect, Clone!IsFree, Clone!RootExists, Clone!treeVars, Clone!MayCopy, NoLinks
  <2>2. /\ snapshotJob'.kind = "copy" /\ snapshotJob'.tree = t /\ snapshotJob'.of = s
        /\ snapshotJob.kind = "none" /\ "files" \in snapshotTodo'
    BY <2>1 DEF Clone!NoJob, Clone!Parts
  <2>3. snapshotJob' \in [kind : {"none", "remove", "mark"} \cup Clone!Unfinished,
                          tree : Snapshots \cup {None}, of : Clone!Trees \cup {None}]
    BY <2>1 DEF Clone!Unfinished
  <2>4. Clone!TypeOK'
    BY <2>1, <2>3 DEF Clone!TypeOK
  <2> QED
    BY <2>1, <2>2, <2>4 DEF NoLinks, JobOfTrees, CommitsOfCheckout, FilesAreWhole
<1> QED
  BY <1>1, <1>2, <1>3, <1>4, <1>5, <1>6

\* The end of a creation.
LEMMA CloneEnds ==
  CloneInv /\ (Clone!AgentStarts \/ Clone!CreateFails \/ Clone!CrashInCreate) => CloneInv'
<1> SUFFICES ASSUME CloneInv, Clone!AgentStarts \/ Clone!CreateFails \/ Clone!CrashInCreate
             PROVE  CloneInv'
  OBVIOUS
<1> USE LocalAssumption DEF Clone!SnapshotAssumption, CloneInv, Clone!Trees
<1> DEFINE t == snapshotJob.tree
<1>0. snapshotJob' = Clone!NoJob /\ base' = 0 /\ snapshotJob.kind \in Clone!Unfinished \cup {"mark"}
      /\ UNCHANGED <<packing, writing>>
  BY DEF Clone!AgentStarts, Clone!CreateFails, Clone!CrashInCreate, Clone!Absent
<1>1. snapshotJob'.kind = "none"
      /\ snapshotJob' \in [kind : {"none", "remove", "mark"} \cup Clone!Unfinished,
                           tree : Snapshots \cup {None}, of : Clone!Trees \cup {None}]
  BY <1>0 DEF Clone!NoJob
<1>2. t \in Snapshots /\ t # Checkout /\ snapshotJob.kind # "remove"
  BY <1>0 DEF JobOfTrees, Clone!Unfinished
<1>3. JobOfTrees'
  BY <1>1 DEF JobOfTrees
<1>4. CASE Clone!AgentStarts
  <2>0. /\ snapshotJob.kind = "mark" /\ agents' = agents \cup {t}
        /\ UNCHANGED <<files, head, objects, gitOf, marker, snapshotTodo>>
    BY <1>4 DEF Clone!AgentStarts, Clone!treeVars
  <2>1. Clone!TypeOK'
    BY <1>0, <1>1, <1>2, <2>0 DEF Clone!TypeOK, Clone!Unfinished
  <2> QED
    BY <1>1, <1>3, <2>0, <2>1 DEF NoLinks, CommitsOfCheckout, FilesAreWhole
<1>5. CASE Clone!CreateFails
  <2>0. /\ files' = [files EXCEPT ![t] = "none"] /\ head' = [head EXCEPT ![t] = 0]
        /\ objects' = [objects EXCEPT ![t] = Clone!NoObjects]
        /\ gitOf' = [gitOf EXCEPT ![t] = t]
        /\ marker' = marker \ {t} /\ snapshotTodo' = {} /\ agents' = agents
    BY <1>5 DEF Clone!CreateFails, Clone!Absent
  <2>1. Clone!NoObjects \in [Clone!ObjectDirs -> SUBSET Clone!Commits]
    BY DEF Clone!NoObjects
  <2>2. objects'[Checkout] = objects[Checkout] /\ gitOf' = gitOf
        /\ \A u \in Clone!Trees : u # t => files'[u] = files[u]
    BY <1>2, <2>0 DEF Clone!TypeOK, NoLinks
  <2>3. t \notin agents
    BY <1>0 DEF Clone!TypeOK, JobOfTrees
  <2>4. Clone!TypeOK'
    BY <1>0, <1>1, <1>2, <2>0, <2>1 DEF Clone!TypeOK, Clone!Unfinished
  <2>5. FilesAreWhole'
    BY <1>1, <1>2, <2>0, <2>2, <2>3 DEF FilesAreWhole, Clone!TypeOK
  <2> QED
    BY <1>3, <2>2, <2>4, <2>5 DEF NoLinks, CommitsOfCheckout
<1>6. CASE Clone!CrashInCreate
  <2>0. UNCHANGED <<files, head, objects, gitOf, marker, agents>> /\ snapshotTodo' = {}
    BY <1>6 DEF Clone!CrashInCreate, Clone!treeVars
  <2>1. Clone!TypeOK'
    BY <1>0, <1>1, <2>0 DEF Clone!TypeOK, Clone!Unfinished
  <2> QED
    BY <1>1, <1>2, <1>3, <2>0, <2>1 DEF NoLinks, CommitsOfCheckout, FilesAreWhole
<1> QED
  BY <1>4, <1>5, <1>6

\* A removal, which is not cut: files are missing until the agent's record is gone.
LEMMA CloneRemove ==
  CloneInv /\ (Clone!RemovePart \/ Clone!RemoveIsCut
               \/ \E t \in Snapshots : Clone!RemoveBegins(t) \/ Clone!RemoveEnds(t))
    => CloneInv'
<1> SUFFICES ASSUME CloneInv,
                    Clone!RemovePart \/ Clone!RemoveIsCut
                      \/ \E t \in Snapshots : Clone!RemoveBegins(t) \/ Clone!RemoveEnds(t)
             PROVE  CloneInv'
  OBVIOUS
<1> USE LocalAssumption DEF Clone!SnapshotAssumption, CloneInv, Clone!Trees
<1>0. Clone!NoJob.kind = "none"
      /\ Clone!NoJob \in [kind : {"none", "remove", "mark"} \cup Clone!Unfinished,
                          tree : Snapshots \cup {None}, of : Clone!Trees \cup {None}]
  BY DEF Clone!NoJob
<1>1. CASE Clone!RemovePart
  <2> DEFINE t == snapshotJob.tree
  <2>0. /\ snapshotJob.kind = "remove" /\ t \in Snapshots /\ t # Checkout
        /\ UNCHANGED <<gitOf, agents, snapshotJob, base, snapshotTodo, packing, writing>>
    BY <1>1 DEF Clone!RemovePart, JobOfTrees
  <2>1. /\ files' = files \/ files' = [files EXCEPT ![t] = IF files[t] = "whole" THEN "part" ELSE "none"]
        /\ head' = head \/ head' = [head EXCEPT ![t] = 0]
        /\ objects' = objects \/ objects' = [objects EXCEPT ![t] = Clone!NoObjects]
        /\ marker' = marker \/ marker' = marker \ {t}
    BY <1>1 DEF Clone!RemovePart, Clone!Absent
  <2>2. Clone!NoObjects \in [Clone!ObjectDirs -> SUBSET Clone!Commits]
    BY DEF Clone!NoObjects
  <2>3. /\ \A u \in Clone!Trees : u # t => files'[u] = files[u]
        /\ objects'[Checkout] = objects[Checkout]
    BY <2>0, <2>1 DEF Clone!TypeOK
  <2>4. files' \in [Clone!Trees -> {"none", "part", "whole"}]
    BY <2>0, <2>1 DEF Clone!TypeOK
  <2>5. head' \in [Clone!Trees -> 0 .. CloneCommits]
    BY <2>0, <2>1 DEF Clone!TypeOK
  <2>6. objects' \in [Clone!Trees -> [Clone!ObjectDirs -> SUBSET Clone!Commits]]
    BY <2>0, <2>1, <2>2 DEF Clone!TypeOK
  <2>7. Clone!TypeOK'
    BY <2>0, <2>1, <2>4, <2>5, <2>6 DEF Clone!TypeOK, Clone!Unfinished
  <2>8. FilesAreWhole'
    BY <2>0, <2>3 DEF FilesAreWhole, Clone!TypeOK
  <2> QED
    BY <2>0, <2>3, <2>7, <2>8 DEF NoLinks, JobOfTrees, CommitsOfCheckout
<1>2. CASE Clone!RemoveIsCut
  BY <1>2 DEF Clone!RemoveIsCut
<1>3. ASSUME NEW t \in Snapshots, Clone!RemoveBegins(t) PROVE CloneInv'
  <2>0. snapshotJob' = [kind |-> "remove", tree |-> t, of |-> None] /\ snapshotJob = Clone!NoJob
        /\ UNCHANGED <<files, head, objects, gitOf, marker, agents, base, snapshotTodo, packing, writing>>
    BY <1>3 DEF Clone!RemoveBegins, Clone!treeVars
  <2>1. snapshotJob'.kind = "remove" /\ snapshotJob'.tree = t
    BY <2>0
  <2>2. Clone!TypeOK'
    BY <2>0, <2>1 DEF Clone!TypeOK, Clone!Unfinished
  <2> QED
    BY <1>0, <2>0, <2>1, <2>2 DEF NoLinks, JobOfTrees, CommitsOfCheckout, FilesAreWhole
<1>4. ASSUME NEW t \in Snapshots, Clone!RemoveEnds(t) PROVE CloneInv'
  <2>0. /\ snapshotJob = Clone!NoJob \/ snapshotJob.tree = t
        /\ snapshotJob' = Clone!NoJob
        /\ agents' = agents \ {t} /\ gitOf' = [gitOf EXCEPT ![t] = t]
        /\ UNCHANGED <<files, head, objects, marker, base, snapshotTodo, packing, writing>>
    BY <1>4 DEF Clone!RemoveEnds
  <2>1. Clone!TypeOK'
    BY <1>0, <2>0 DEF Clone!TypeOK, Clone!Unfinished
  <2> QED
    BY <1>0, <2>0, <2>1 DEF NoLinks, JobOfTrees, CommitsOfCheckout, FilesAreWhole, Clone!TypeOK
<1> QED
  BY <1>1, <1>2, <1>3, <1>4

\* Every step on a checkout of its own preserves its invariant.
LEMMA CloneStepInv == CloneInv /\ [Clone!Next]_snapshotVars => CloneInv'
<1> SUFFICES ASSUME CloneInv, [Clone!Next]_snapshotVars PROVE CloneInv'
  OBVIOUS
<1>1. CASE Clone!Next
  BY <1>1, CloneOperator, CloneAgent, CloneMake, CloneEnds, CloneRemove DEF Clone!Next
<1>2. CASE UNCHANGED snapshotVars
  BY <1>2 DEF snapshotVars, CloneInv, Clone!TypeOK, NoLinks, JobOfTrees, CommitsOfCheckout, FilesAreWhole
<1> QED
  BY <1>1, <1>2

\* An agent that starts has all its files, and only the end of a commit of the operator's
\* moves HEAD of the checkout.
LEMMA CloneStepSafe ==
  ASSUME CloneInv, [Clone!Next]_snapshotVars
  PROVE  /\ Clone!StartHasItsFiles
         /\ head'[Checkout] # head[Checkout] => writing
<1> USE LocalAssumption DEF Clone!SnapshotAssumption, CloneInv
<1>1. Clone!StartHasItsFiles
  <2> SUFFICES ASSUME NEW t \in agents' \ agents PROVE files[t] = "whole"
    BY DEF Clone!StartHasItsFiles
  <2>1. agents' # agents /\ ~(agents' \subseteq agents)
    OBVIOUS
  <2>2. Clone!AgentStarts
    BY <2>1 DEF Clone!Next, snapshotVars, Clone!WriteCommit, Clone!MoveHead, Clone!WritePack, Clone!PruneLoose,
      Clone!AgentCommits, Clone!RemoveBegins, Clone!RemoveEnds, Clone!Inspect, Clone!CopyPart,
      Clone!CopyFails, Clone!CopyEnds, Clone!Redirect, Clone!Verify, Clone!CreateFails,
      Clone!RemovePart, Clone!RemoveIsCut, Clone!CrashInCreate
  <2> QED
    BY <2>2 DEF Clone!AgentStarts, FilesAreWhole
<1>2. ASSUME head'[Checkout] # head[Checkout] PROVE writing
  <2>1. head' # head
    BY <1>2
  <2>2. ASSUME NEW t \in Snapshots, NEW h, head' = [head EXCEPT ![t] = h] PROVE FALSE
    BY <1>2, <2>2 DEF Clone!TypeOK, Clone!Trees
  <2>3. CASE Clone!MoveHead
    BY <2>3 DEF Clone!MoveHead
  <2>4. CASE \E t \in Snapshots : Clone!AgentCommits(t)
    BY <2>2, <2>4 DEF Clone!AgentCommits, NoLinks
  <2>5. CASE \E p \in Clone!Parts : Clone!CopyPart(p)
    BY <2>1, <2>2, <2>5 DEF Clone!CopyPart, JobOfTrees
  <2>6. CASE Clone!CreateFails
    BY <2>1, <2>2, <2>6 DEF Clone!CreateFails, JobOfTrees, Clone!Unfinished
  <2>7. CASE Clone!RemovePart
    BY <2>1, <2>2, <2>7 DEF Clone!RemovePart, JobOfTrees
  <2> QED
    BY <2>1, <2>3, <2>4, <2>5, <2>6, <2>7 DEF Clone!Next, snapshotVars, Clone!WriteCommit, Clone!WritePack,
       Clone!PruneLoose,
      Clone!RemoveBegins, Clone!RemoveEnds, Clone!Inspect,
      Clone!CopyFails, Clone!CopyEnds, Clone!Redirect, Clone!Verify, Clone!AgentStarts,
      Clone!RemoveIsCut, Clone!CrashInCreate, Clone!treeVars
<1> QED
  BY <1>1, <1>2

-----------------------------------------------------------------------------
(* Snapshots in the system of the operator's side *)

\* The steps of the system, seen by the snapshots.
LEMMA SnapshotSteps ==
  LocalNext => \/ focus = "worktree" /\ Worktree!Next
               \/ focus = "clone" /\ Clone!Next
               \/ UNCHANGED snapshotVars
BY DEF LocalNext, StoreStep, MailStep, RebaseStep, PicksStep, MergeStep, FeedbackStep, ViewStep, SummaryStep,
       HunksStep, WorktreeStep, CloneStep, ApplyStep, IpcStep

\* A behaviour stays with one component of the system.
LEMMA FocusStays == LocalNext => focus' = focus
BY DEF LocalNext, StoreStep, MailStep, RebaseStep, PicksStep, MergeStep, FeedbackStep, ViewStep, SummaryStep,
       HunksStep, WorktreeStep, CloneStep, ApplyStep, IpcStep

\* No step of the system breaks the invariant of the snapshots.
LEMMA SnapshotStepInv == SnapshotInv /\ [LocalNext]_LocalVars => SnapshotInv'
<1> SUFFICES ASSUME SnapshotInv, [LocalNext]_LocalVars PROVE SnapshotInv'
  OBVIOUS
<1>1. focus' = focus
  BY FocusStays DEF LocalVars
<1>2. CASE focus = "clone"
  <2>1. [Clone!Next]_snapshotVars
    BY <1>2, SnapshotSteps DEF LocalVars
  <2> QED
    BY <1>1, <1>2, <2>1, CloneStepInv DEF SnapshotInv
<1>3. CASE focus # "clone"
  <2>1. [Worktree!Next]_snapshotVars
    BY <1>3, SnapshotSteps DEF LocalVars
  <2> QED
    BY <1>1, <1>3, <2>1, WorktreeStepInv DEF SnapshotInv
<1> QED
  BY <1>2, <1>3

\* Every state of the snapshots is as the copy, the redirection and the verification need it
\* (agent_snapshot.py:create_project_snapshot, remove_project_snapshot).
THEOREM SnapshotInvCorrect == LocalSpec => []SnapshotInv
<1>1. LocalInit => SnapshotInv
  BY WorktreeInit, CloneInit DEF LocalInit, SnapshotInv
<1>2. SnapshotInv /\ [LocalNext]_LocalVars => SnapshotInv'
  BY SnapshotStepInv
<1> QED
  BY <1>1, <1>2, PTL DEF LocalSpec

\* agent_snapshot.py: an agent starts from a commit whose objects its snapshot has, in any
\* chain of snapshots of a linked worktree; it has all the files when removals are not cut
\* short; and no agent moves HEAD of the operator's checkout.
THEOREM SnapshotTheorem == LocalSpec => SnapshotSafety
<1>1. SnapshotInv => IF focus = "clone" THEN Clone!TypeOK ELSE Worktree!TypeOK
  BY DEF SnapshotInv, CloneInv, WorktreeInv
<1>2. SnapshotInv /\ [LocalNext]_LocalVars => [head[Checkout]' # head[Checkout] => writing]_Worktree!vars
  <2> SUFFICES ASSUME SnapshotInv, [LocalNext]_LocalVars, head'[Checkout] # head[Checkout]
               PROVE  writing
    OBVIOUS
  <2>1. CASE focus = "clone"
    <3>1. [Clone!Next]_snapshotVars
      BY <2>1, SnapshotSteps DEF LocalVars
    <3> QED
      BY <2>1, <3>1, CloneStepSafe DEF SnapshotInv
  <2>2. CASE focus # "clone"
    <3>1. [Worktree!Next]_snapshotVars
      BY <2>2, SnapshotSteps DEF LocalVars
    <3> QED
      BY <2>2, <3>1, WorktreeStepSafe DEF SnapshotInv
  <2> QED
    BY <2>1, <2>2
<1>3. SnapshotInv /\ [LocalNext]_LocalVars => [focus = "worktree" => Worktree!StartHasItsCommit]_snapshotVars
  <2> SUFFICES ASSUME SnapshotInv, [LocalNext]_LocalVars, focus = "worktree"
               PROVE  Worktree!StartHasItsCommit
    OBVIOUS
  <2>1. [Worktree!Next]_snapshotVars
    BY SnapshotSteps DEF LocalVars
  <2> QED
    BY <2>1, WorktreeStepSafe DEF SnapshotInv
<1>4. SnapshotInv /\ [LocalNext]_LocalVars => [focus = "clone" => Clone!StartHasItsFiles]_snapshotVars
  <2> SUFFICES ASSUME SnapshotInv, [LocalNext]_LocalVars, focus = "clone"
               PROVE  Clone!StartHasItsFiles
    OBVIOUS
  <2>1. [Clone!Next]_snapshotVars
    BY SnapshotSteps DEF LocalVars
  <2> QED
    BY <2>1, CloneStepSafe DEF SnapshotInv
<1> QED
  BY <1>1, <1>2, <1>3, <1>4, SnapshotInvCorrect, PTL
     DEF LocalSpec, SnapshotSafety, Worktree!CheckoutIsTheOperators

-----------------------------------------------------------------------------
(* The transcript of a worker: feedback *)

\* What the worker's variables hold, in a loop with these bounds.
WorkerTypes(kinds, budget, messages) ==
  /\ stored \in Seq(Feedback!Message) /\ history \in Seq(Feedback!Message)
  /\ request \in Seq(Feedback!Message)
  /\ workerState \in {"starting", "running", "halted", "awaiting_review", "review_received",
                      "stopped", "failed"}
  /\ workerSubmitted \in BOOLEAN /\ inTurn \in BOOLEAN
  /\ commands \in Nat /\ modelCalls \in 0 .. budget /\ fed \in 0 .. messages
  /\ turn \in Nat
  /\ at \in {"initial", "model", "answered", "calling", "child", "called", "halting",
             "posting", "waiting", "resuming", "reporting", "ended"}
  /\ calls \in Seq(kinds) /\ Len(calls) <= MaxCalls /\ next \in 1 .. MaxCalls
  /\ at \in {"calling", "child", "called"} => next <= Len(calls)
  /\ childCalls \in 0 .. ChildBudget

\* The operator's messages and the calls of the model are counted: a recovery, which
\* starts the count of calls again, comes with a message.
Counted(budget) ==
  /\ commands <= fed
  /\ turn <= budget * fed + modelCalls

\* Every message has a place of its own: what is still to be persisted is not in the record.
IsFresh(m) ==
  /\ m.role = "user" => m.turn <= fed
  /\ m.role # "user" =>
       /\ m.turn <= turn
       /\ m.turn = turn => at # "answered"
       /\ m.turn = turn /\ m.role = "tool" /\ at \in {"calling", "child", "called"} => m.calls < next

\* The record holds no message that is still to be persisted.
RecordIsFresh == \A k \in DOMAIN stored : IsFresh(stored[k])

\* With nothing queued, a worker in its loop has read the whole record.
CopyIsCurrent ==
  at \notin {"initial", "resuming", "ended"} /\ commands = 0 => history = stored

\* The inductive invariant of the worker's copy.
FeedbackInv ==
  /\ WorkerTypes({"tool", "submit", "child"}, Budget, MaxFeedback) /\ Counted(Budget)
  /\ RecordIsFresh /\ Feedback!CopyIsOfRecord /\ CopyIsCurrent

\* Every set of naturals that has an element has a least one.
LEMMA Least ==
  ASSUME NEW T \in SUBSET Nat, T # {}
  PROVE  \E x \in T : \A y \in T : x <= y
<1> DEFINE R == {ss \in Nat \X Nat : ss[1] < ss[2]}
<1>1. IsWellFoundedOn(R, Nat)
  BY NatLessThanWellFounded DEF OpToRel
<1>2. PICK x \in T : \A y \in T : ~(<<y, x>> \in R)
  <2> HIDE DEF R
  <2> QED
    BY <1>1, WFMin
<1>3. ASSUME NEW y \in T PROVE x <= y
  <2>1. <<y, x>> \in Nat \X Nat /\ <<y, x>>[1] = y /\ <<y, x>>[2] = x
    OBVIOUS
  <2>2. ~(y < x)
    BY <1>2, <2>1
  <2> QED
    BY <2>2
<1> QED
  BY <1>3

\* What Append does to a sequence, index by index.
LEMMA Appended ==
  ASSUME NEW S, NEW s \in Seq(S), NEW e \in S
  PROVE  /\ Append(s, e) \in Seq(S) /\ Len(s) \in Nat /\ Len(Append(s, e)) = Len(s) + 1
         /\ DOMAIN s = 1 .. Len(s) /\ DOMAIN Append(s, e) = 1 .. Len(s) + 1
         /\ Append(s, e)[Len(s) + 1] = e
         /\ \A i \in 1 .. Len(s) : Append(s, e)[i] = s[i]
  OBVIOUS

\* v is what h ends with.
IsEndOf(v, h) ==
  \/ v = <<>>
  \/ \E m \in Nat : Len(v) + m = Len(h) /\ \A i \in 1 .. Len(v) : v[i] = h[m + i]

\* A sequence from c on is an end of it, and begins with its c-th element.
LEMMA SubSeqIsEnd ==
  ASSUME NEW S, NEW h \in Seq(S), NEW c \in 1 .. Len(h)
  PROVE  /\ SubSeq(h, c, Len(h)) \in Seq(S)
         /\ Len(SubSeq(h, c, Len(h))) = Len(h) - c + 1
         /\ SubSeq(h, c, Len(h))[1] = h[c]
         /\ IsEndOf(SubSeq(h, c, Len(h)), h)
<1> DEFINE v == SubSeq(h, c, Len(h))
<1>0. Len(h) \in Nat /\ c \in Nat /\ c - 1 \in Nat /\ c <= Len(h)
      /\ \A i \in c .. Len(h) : h[i] \in S
  OBVIOUS
<1>1. /\ v \in Seq(S) /\ Len(v) = IF c <= Len(h) THEN Len(h) - c + 1 ELSE 0
      /\ \A i \in 1 .. Len(h) - c + 1 : v[i] = h[c + i - 1]
  BY <1>0, SubSeqProperties
<1> HIDE DEF v
<1>2. Len(v) = Len(h) - c + 1 /\ Len(v) + (c - 1) = Len(h)
  BY <1>0, <1>1
<1>3. \A i \in 1 .. Len(v) : c + i - 1 = (c - 1) + i
  BY <1>0, <1>2
<1>4. \A i \in 1 .. Len(v) : v[i] = h[(c - 1) + i]
  BY <1>1, <1>2, <1>3
<1>5. v[1] = h[c]
  BY <1>0, <1>1
<1> QED
  BY <1>0, <1>1, <1>2, <1>4, <1>5 DEF IsEndOf, v

\* An end of an end is an end.
LEMMA EndOfEnd ==
  ASSUME NEW S, NEW h \in Seq(S), NEW g \in Seq(S), NEW v \in Seq(S), IsEndOf(g, h), IsEndOf(v, g)
  PROVE  IsEndOf(v, h)
<1>1. CASE v = <<>>
  BY <1>1 DEF IsEndOf
<1>2. CASE v # <<>>
  <2>1. PICK m \in Nat : Len(v) + m = Len(g) /\ \A i \in 1 .. Len(v) : v[i] = g[m + i]
    BY <1>2 DEF IsEndOf
  <2>2. g # <<>>
    BY <1>2, <2>1
  <2>3. PICK d \in Nat : Len(g) + d = Len(h) /\ \A i \in 1 .. Len(g) : g[i] = h[d + i]
    BY <2>2 DEF IsEndOf
  <2>4. Len(v) \in Nat /\ Len(g) \in Nat /\ Len(h) \in Nat /\ d + m \in Nat
    OBVIOUS
  <2>5. Len(v) + (d + m) = Len(h)
    BY <2>1, <2>3, <2>4
  <2>6. \A i \in 1 .. Len(v) : v[i] = h[(d + m) + i]
    <3> SUFFICES ASSUME NEW i \in 1 .. Len(v) PROVE v[i] = h[(d + m) + i]
      OBVIOUS
    <3>1. m + i \in 1 .. Len(g) /\ d + (m + i) = (d + m) + i
      BY <2>1, <2>4
    <3> QED
      BY <2>1, <2>3, <3>1
  <2> QED
    BY <2>4, <2>5, <2>6 DEF IsEndOf
<1> QED
  BY <1>1, <1>2

\* The window on a transcript is an end of it that begins with no tool result.
Window_(h, kept) ==
  LET latest == SubSeq(h, Len(h) - kept + 1, Len(h))
      begins == {i \in DOMAIN latest : latest[i].role # "tool"}
  IN  IF begins = {} THEN <<>>
      ELSE SubSeq(latest, CHOOSE i \in begins : \A j \in begins : i <= j, Len(latest))

\* The window on a transcript is an end of it that begins with no tool result.
LEMMA WindowIsAnEnd ==
  ASSUME NEW S, NEW h \in Seq(S), NEW kept \in 1 .. Len(h)
  PROVE  /\ Window_(h, kept) \in Seq(S)
         /\ IsEndOf(Window_(h, kept), h)
         /\ Window_(h, kept) # <<>> => Window_(h, kept)[1].role # "tool"
<1> DEFINE latest == SubSeq(h, Len(h) - kept + 1, Len(h))
           begins == {i \in DOMAIN latest : latest[i].role # "tool"}
           c == CHOOSE i \in begins : \A j \in begins : i <= j
           v == SubSeq(latest, c, Len(latest))
<1>1. Window_(h, kept) = IF begins = {} THEN <<>> ELSE v
  BY DEF Window_
<1>2. latest \in Seq(S) /\ IsEndOf(latest, h)
  <2>1. Len(h) - kept + 1 \in 1 .. Len(h)
    OBVIOUS
  <2> QED
    BY <2>1, SubSeqIsEnd
<1> HIDE DEF latest
<1>3. CASE begins = {}
  <2>1. <<>> \in Seq(S)
    OBVIOUS
  <2> QED
    BY <1>1, <1>3, <2>1 DEF IsEndOf
<1>4. CASE begins # {}
  <2>1. begins \in SUBSET Nat /\ begins \subseteq 1 .. Len(latest)
    BY <1>2
  <2>2. \E i \in begins : \A j \in begins : i <= j
    BY <1>4, <2>1, Least
  <2>3. c \in begins
    BY <2>2
  <2> HIDE DEF c
  <2>4. c \in 1 .. Len(latest) /\ latest[c].role # "tool"
    BY <2>1, <2>3
  <2>5. v \in Seq(S) /\ IsEndOf(v, latest) /\ v[1] = latest[c]
    BY <1>2, <2>4, SubSeqIsEnd
  <2> HIDE DEF v, begins
  <2>6. IsEndOf(v, h)
    BY <1>2, <2>5, EndOfEnd
  <2> QED
    BY <1>1, <1>4, <2>4, <2>5, <2>6
<1> QED
  BY <1>3, <1>4

\* The two parts of Feedback!CopyIsOfRecord: no message twice, and none missing or displaced.
Once(s) == \A k, l \in DOMAIN s : s[k] = s[l] => k = l
\* Every message of h is one of s, and neighbours in h are in order in s.
IsCopyOf(h, s) ==
  /\ \A i \in DOMAIN h : \E k \in DOMAIN s : s[k] = h[i]
  /\ \A i \in DOMAIN h, k, l \in DOMAIN s : i > 1 /\ s[k] = h[i - 1] /\ s[l] = h[i] => k < l

\* CopyIsOfRecord is the conjunction of the two.
LEMMA CopyIsCopy == Feedback!CopyIsOfRecord <=> Once(stored) /\ IsCopyOf(history, stored)
BY DEF Feedback!CopyIsOfRecord, Once, IsCopyOf

\* A new message at the end of the record, and of the copy.
LEMMA AppendToRecord ==
  ASSUME NEW S, NEW s \in Seq(S), NEW h \in Seq(S), NEW m \in S,
         Once(s), IsCopyOf(h, s), \A k \in DOMAIN s : s[k] # m
  PROVE  Once(Append(s, m)) /\ IsCopyOf(h, Append(s, m)) /\ IsCopyOf(Append(h, m), Append(s, m))
<1> DEFINE t == Append(s, m)
           g == Append(h, m)
<1>1. /\ Len(s) \in Nat /\ DOMAIN s = 1 .. Len(s) /\ DOMAIN t = 1 .. Len(s) + 1
      /\ t[Len(s) + 1] = m /\ \A k \in DOMAIN s : t[k] = s[k]
  BY Appended
<1>2. /\ Len(h) \in Nat /\ DOMAIN h = 1 .. Len(h) /\ DOMAIN g = 1 .. Len(h) + 1
      /\ g[Len(h) + 1] = m /\ \A i \in DOMAIN h : g[i] = h[i]
  BY Appended
<1> HIDE DEF t, g
<1>3. \A k \in DOMAIN t : (t[k] = m <=> k = Len(s) + 1) /\ (k # Len(s) + 1 => k \in DOMAIN s)
  BY <1>1
<1>4. Once(t)
  BY <1>1, <1>3 DEF Once
<1>5. \A i \in DOMAIN h : h[i] # m
  BY DEF IsCopyOf
<1>6. \A i \in DOMAIN h, k \in DOMAIN t : t[k] = h[i] => k \in DOMAIN s /\ s[k] = h[i]
  BY <1>1, <1>3, <1>5
<1>7. \A i \in DOMAIN h : i > 1 => i - 1 \in DOMAIN h
  BY <1>2
<1>8. IsCopyOf(h, t)
  <2>1. \A i \in DOMAIN h : \E k \in DOMAIN t : t[k] = h[i]
    BY <1>1 DEF IsCopyOf
  <2>2. ASSUME NEW i \in DOMAIN h, NEW k \in DOMAIN t, NEW l \in DOMAIN t,
               i > 1, t[k] = h[i - 1], t[l] = h[i]
        PROVE  k < l
    BY <1>6, <1>7, <2>2 DEF IsCopyOf
  <2> QED
    BY <2>1, <2>2 DEF IsCopyOf
<1>9. IsCopyOf(g, t)
  <2>1. \A i \in DOMAIN g : i \in DOMAIN h \/ i = Len(h) + 1
    BY <1>2
  <2>2. \A i \in DOMAIN g : \E k \in DOMAIN t : t[k] = g[i]
    BY <1>1, <1>2, <1>8, <2>1 DEF IsCopyOf
  <2>3. ASSUME NEW i \in DOMAIN g, NEW k \in DOMAIN t, NEW l \in DOMAIN t,
               i > 1, t[k] = g[i - 1], t[l] = g[i]
        PROVE  k < l
    <3>1. CASE i \in DOMAIN h
      BY <1>2, <1>7, <1>8, <2>3, <3>1 DEF IsCopyOf
    <3>2. CASE i = Len(h) + 1
      <4>1. l = Len(s) + 1
        BY <1>2, <1>3, <2>3, <3>2
      <4>2. i - 1 \in DOMAIN h /\ g[i - 1] = h[i - 1]
        BY <1>2, <2>3, <3>2
      <4>3. k \in DOMAIN s
        BY <1>6, <2>3, <4>2
      <4> QED
        BY <1>1, <4>1, <4>3
    <3> QED
      BY <2>1, <3>1, <3>2
  <2> QED
    BY <2>2, <2>3 DEF IsCopyOf
<1> QED
  BY <1>4, <1>8, <1>9 DEF t, g

\* A record is a copy of itself, and nothing is a copy of any record.
LEMMA CopyOfItself ==
  ASSUME NEW S, NEW s \in Seq(S), Once(s)
  PROVE  IsCopyOf(s, s) /\ IsCopyOf(<<>>, s)
<1>1. \A i \in DOMAIN s : i > 1 => i - 1 \in DOMAIN s
  OBVIOUS
<1>2. ASSUME NEW i \in DOMAIN s, NEW k \in DOMAIN s, NEW l \in DOMAIN s,
             i > 1, s[k] = s[i - 1], s[l] = s[i]
      PROVE  k < l
  <2>1. k = i - 1 /\ l = i
    BY <1>1, <1>2 DEF Once
  <2> QED
    BY <2>1
<1> QED
  BY <1>2 DEF IsCopyOf

\* Messages, and the worker's places.
LEMMA Messages ==
  /\ \A n \in Nat : Feedback!User(n) \in Feedback!Message
  /\ \A t, n \in Nat : Feedback!Answer(t, n) \in Feedback!Message /\ Feedback!Result(t, n) \in Feedback!Message
  /\ \A n : Feedback!User(n).role = "user" /\ Feedback!User(n).turn = n
  /\ \A t, n : /\ Feedback!Answer(t, n).role = "assistant" /\ Feedback!Answer(t, n).turn = t
               /\ Feedback!Answer(t, n).calls = n
               /\ Feedback!Result(t, n).role = "tool" /\ Feedback!Result(t, n).turn = t
               /\ Feedback!Result(t, n).calls = n
BY DEF Feedback!User, Feedback!Answer, Feedback!Result, Feedback!Message

\* The number of turns is bounded by that of the operator's messages.
LEMMA TurnsAreBounded ==
  ASSUME NEW budget \in Nat, NEW messages \in Nat, NEW f \in 0 .. messages, NEW m \in 0 .. budget,
         NEW t \in Nat, t <= budget * f + m
  PROVE  t \in 0 .. budget * (1 + messages)
<1>1. budget * f <= budget * messages
  <2>1. PICK d \in Nat : f + d = messages
    <3>1. messages - f \in Nat /\ f + (messages - f) = messages
      OBVIOUS
    <3> QED
      BY <3>1
  <2>2. budget * messages = budget * f + budget * d /\ budget * d \in Nat /\ budget * f \in Nat
    BY <2>1
  <2> QED
    BY <2>2
<1>2. budget * (1 + messages) = budget + budget * messages
  OBVIOUS
<1>3. budget * f \in Nat /\ budget * messages \in Nat
  OBVIOUS
<1> DEFINE x == budget * f
           y == budget * messages
<1>4. x \in Nat /\ y \in Nat /\ x <= y /\ t <= x + m
  BY <1>1, <1>3
<1>5. t <= budget + y
  <2> HIDE DEF x, y
  <2> QED
    BY <1>4
<1> QED
  BY <1>2, <1>5

\* The bound on the turns grows with every feedback taken up.
LEMMA CountStep ==
  ASSUME NEW budget \in Nat, NEW f \in Nat, NEW m \in 0 .. budget, NEW t \in Nat, t <= budget * f + m
  PROVE  /\ t <= budget * (f + 1) + 0
         /\ t <= budget * (f + 1) + m
<1>1. budget * (f + 1) = budget * f + budget /\ budget * f \in Nat
  OBVIOUS
<1> QED
  BY <1>1

\* The invariant of the worker with feedback bounds its variables.
LEMMA FeedbackInvTypes == FeedbackInv => Feedback!TypeOK
<1> SUFFICES ASSUME FeedbackInv PROVE Feedback!TypeOK
  OBVIOUS
<1>1. Budget \in Nat /\ MaxFeedback \in Nat
  BY LocalAssumption DEF Feedback!TranscriptAssumption
<1>2. turn \in 0 .. Budget * (1 + MaxFeedback)
  BY <1>1, TurnsAreBounded DEF FeedbackInv, WorkerTypes, Counted
<1>3. commands \in 0 .. MaxFeedback
  BY <1>1 DEF FeedbackInv, WorkerTypes, Counted
<1> HIDE DEF FeedbackInv
<1>4. WorkerTypes({"tool", "submit", "child"}, Budget, MaxFeedback)
  BY DEF FeedbackInv
<1> QED
  BY <1>2, <1>3, <1>4 DEF WorkerTypes, Feedback!TypeOK

\* The invariant of the worker with feedback holds at first.
LEMMA FeedbackInit == Feedback!Init => FeedbackInv
<1> SUFFICES ASSUME Feedback!Init PROVE FeedbackInv
  OBVIOUS
<1> USE LocalAssumption DEF Feedback!TranscriptAssumption
<1>1. stored \in Seq(Feedback!Message) /\ DOMAIN stored = {1} /\ stored[1] = Feedback!User(0)
  BY Messages DEF Feedback!Init
<1>2. /\ history = <<>> /\ request = <<>> /\ workerState = "starting" /\ workerSubmitted = FALSE
      /\ commands = 0 /\ modelCalls = 0
      /\ fed = 0 /\ turn = 0 /\ at = "initial" /\ calls = <<>> /\ next = 1
      /\ inTurn = FALSE /\ childCalls = 0
  BY DEF Feedback!Init
<1>3. WorkerTypes({"tool", "submit", "child"}, Budget, MaxFeedback)
  <2>1. <<>> \in Seq(Feedback!Message) /\ <<>> \in Seq({"tool", "submit", "child"}) /\ Len(<<>>) = 0
    OBVIOUS
  <2>2. 0 \in 0 .. Budget /\ 0 \in 0 .. ChildBudget /\ 1 \in 1 .. MaxCalls /\ 0 \in 0 .. MaxFeedback
        /\ 0 \in Nat /\ 0 <= MaxCalls
    OBVIOUS
  <2> QED
    BY ONLY <1>1, <1>2, <2>1, <2>2 DEF WorkerTypes
<1>4. Counted(Budget)
  BY <1>2 DEF Counted
<1>5. RecordIsFresh /\ CopyIsCurrent
  BY <1>1, <1>2, Messages DEF RecordIsFresh, IsFresh, CopyIsCurrent
<1>6. Once(stored)
  BY <1>1 DEF Once
<1>7. Feedback!CopyIsOfRecord
  BY <1>1, <1>2, <1>6, CopyOfItself, CopyIsCopy
<1> QED
  BY <1>3, <1>4, <1>5, <1>7 DEF FeedbackInv

\* Reports, tools, the child's turns and the stop leave the transcript alone.
LEMMA FeedbackReports ==
  FeedbackInv /\ (\/ Feedback!TurnRefused \/ Feedback!RunTool \/ Feedback!SubmitPatch \/ Feedback!BeginChild
                  \/ (\E submits, ends \in BOOLEAN : Feedback!ChildTurn(submits, ends))
                  \/ Feedback!ChildFails \/ Feedback!ReportHalted \/ Feedback!PostWait \/ Feedback!ReportRunning
                  \/ Feedback!TakeCommand \/ Feedback!Stop)
    => FeedbackInv'
<1> SUFFICES ASSUME FeedbackInv,
                  \/ Feedback!TurnRefused \/ Feedback!RunTool \/ Feedback!SubmitPatch \/ Feedback!BeginChild
                  \/ (\E submits, ends \in BOOLEAN : Feedback!ChildTurn(submits, ends))
                  \/ Feedback!ChildFails \/ Feedback!ReportHalted \/ Feedback!PostWait \/ Feedback!ReportRunning
                  \/ Feedback!TakeCommand \/ Feedback!Stop
             PROVE  FeedbackInv'
  OBVIOUS
<1> USE LocalAssumption DEF Feedback!TranscriptAssumption, Feedback!Goto, Feedback!record,
       Feedback!BudgetIsSpent
<1>0. /\ UNCHANGED <<stored, fed, history, request, turn, calls, next>>
      /\ at' # "answered" /\ (at' \in {"calling", "child", "called"} => at \in {"calling", "child", "called"})
      /\ \/ at' \in {"initial", "resuming", "ended"}
         \/ at \notin {"initial", "resuming", "ended"} /\ commands' = commands
      /\ commands' <= commands /\ modelCalls' >= modelCalls
  BY DEF FeedbackInv, WorkerTypes, Feedback!TurnRefused, Feedback!RunTool, Feedback!SubmitPatch,
     Feedback!BeginChild,
         Feedback!ChildTurn, Feedback!ChildFails, Feedback!ReportHalted, Feedback!PostWait,
         Feedback!ReportRunning, Feedback!TakeCommand, Feedback!Stop
<1> HIDE DEF FeedbackInv
<1>1. WorkerTypes({"tool", "submit", "child"}, Budget, MaxFeedback)
  BY DEF FeedbackInv
<1>2. WorkerTypes({"tool", "submit", "child"}, Budget, MaxFeedback)'
  <2>1. CASE Feedback!TurnRefused
    BY <1>0, <1>1, <2>1 DEF WorkerTypes, Feedback!TurnRefused
  <2>2. CASE Feedback!RunTool
    BY <1>0, <1>1, <2>2 DEF WorkerTypes, Feedback!RunTool
  <2>3. CASE Feedback!SubmitPatch
    BY <1>0, <1>1, <2>3 DEF WorkerTypes, Feedback!SubmitPatch
  <2>4. CASE Feedback!BeginChild
    BY <1>0, <1>1, <2>4 DEF WorkerTypes, Feedback!BeginChild
  <2>5. CASE Feedback!ChildFails
    BY <1>0, <1>1, <2>5 DEF WorkerTypes, Feedback!ChildFails
  <2>6. CASE Feedback!ReportHalted
    BY <1>0, <1>1, <2>6 DEF WorkerTypes, Feedback!ReportHalted
  <2>7. CASE Feedback!PostWait
    BY <1>0, <1>1, <2>7 DEF WorkerTypes, Feedback!PostWait
  <2>8. CASE Feedback!ReportRunning
    BY <1>0, <1>1, <2>8 DEF WorkerTypes, Feedback!ReportRunning
  <2>9. CASE Feedback!TakeCommand
    BY <1>0, <1>1, <2>9 DEF WorkerTypes, Feedback!TakeCommand
  <2>10. CASE Feedback!Stop
    BY <1>0, <1>1, <2>10 DEF WorkerTypes, Feedback!Stop
  <2>11. ASSUME NEW submits \in BOOLEAN, NEW ends \in BOOLEAN, Feedback!ChildTurn(submits, ends)
       PROVE  WorkerTypes({"tool", "submit", "child"}, Budget, MaxFeedback)'
    <3>1. modelCalls' \in 0 .. Budget /\ childCalls' \in 0 .. ChildBudget
      BY <1>1, <2>11 DEF WorkerTypes, Feedback!ChildTurn
    <3>2. at' \in {"called", "child"} /\ at = "child" /\ UNCHANGED <<commands, inTurn>>
      BY <2>11 DEF Feedback!ChildTurn
    <3>3. /\ workerState' = workerState \/ workerState' = "awaiting_review"
          /\ workerSubmitted' = workerSubmitted \/ workerSubmitted' = TRUE
      BY <2>11 DEF Feedback!ChildTurn
    <3> QED
      BY <1>0, <1>1, <3>1, <3>2, <3>3 DEF WorkerTypes
  <2> QED
    BY <2>1, <2>2, <2>3, <2>4, <2>5, <2>6, <2>7, <2>8, <2>9, <2>10, <2>11
<1>3. Counted(Budget)'
  BY <1>0, <1>1, <1>2 DEF FeedbackInv, Counted, WorkerTypes
<1>4. RecordIsFresh'
  BY <1>0, <1>1 DEF FeedbackInv, RecordIsFresh, IsFresh
<1>5. Feedback!CopyIsOfRecord' /\ CopyIsCurrent'
  BY <1>0 DEF FeedbackInv, Feedback!CopyIsOfRecord, CopyIsCurrent
<1> QED
  BY <1>2, <1>3, <1>4, <1>5 DEF FeedbackInv

\* The worker reads the whole record.
LEMMA FeedbackReads == FeedbackInv /\ (Feedback!Initialize \/ Feedback!Resume) => FeedbackInv'
<1> SUFFICES ASSUME FeedbackInv, Feedback!Initialize \/ Feedback!Resume PROVE FeedbackInv'
  OBVIOUS
<1>0. /\ history' = stored /\ at' \in {"model", "reporting"} /\ workerState' \in {workerState, "running"}
      /\ UNCHANGED <<stored, workerSubmitted, commands, modelCalls, fed, request, turn, calls, next, inTurn,
            childCalls>>
  BY DEF Feedback!Initialize, Feedback!Resume, Feedback!Resumed, Feedback!Goto, Feedback!record
<1>1. WorkerTypes({"tool", "submit", "child"}, Budget, MaxFeedback)'
  BY <1>0 DEF FeedbackInv, WorkerTypes
<1>2. Counted(Budget)' /\ RecordIsFresh' /\ CopyIsCurrent'
  BY <1>0 DEF FeedbackInv, Counted, RecordIsFresh, IsFresh, CopyIsCurrent
<1>3. Once(stored) /\ stored \in Seq(Feedback!Message)
  BY CopyIsCopy DEF FeedbackInv, WorkerTypes
<1>4. Feedback!CopyIsOfRecord'
  BY <1>0, <1>3, CopyOfItself DEF Feedback!CopyIsOfRecord, Once, IsCopyOf
<1> QED
  BY <1>1, <1>2, <1>4 DEF FeedbackInv

\* The model is asked with a window on the copy, and answers in a turn of its own.
LEMMA FeedbackTurn ==
  ASSUME FeedbackInv, NEW kept \in 1 .. Window, NEW asked \in Feedback!Asked,
         Feedback!CompleteTurn(kept, asked)
  PROVE  FeedbackInv'
<1> USE LocalAssumption DEF Feedback!TranscriptAssumption
<1>0. /\ at = "model" /\ at' = "answered" /\ modelCalls < Budget /\ modelCalls' = modelCalls + 1
      /\ turn' = turn + 1 /\ calls' = asked
      /\ UNCHANGED <<stored, workerState, workerSubmitted, commands, fed, history, next, inTurn, childCalls>>
  BY DEF Feedback!CompleteTurn, Feedback!Goto, Feedback!BudgetIsSpent, FeedbackInv, WorkerTypes
<1>1. request' \in Seq(Feedback!Message)
  <2>1. kept \in 1 .. Len(history) /\ history \in Seq(Feedback!Message)
    BY DEF Feedback!CompleteTurn, Feedback!Kept, FeedbackInv, WorkerTypes
  <2>2. request' = Window_(history, kept)
    BY DEF Feedback!CompleteTurn, Feedback!View, Window_
  <2> QED
    BY <2>1, <2>2, WindowIsAnEnd
<1>2. asked \in Seq({"tool", "submit", "child"}) /\ Len(asked) <= MaxCalls
  <2>1. PICK n \in 0 .. MaxCalls : asked \in [1 .. n -> {"tool", "submit", "child"}]
    BY DEF Feedback!Asked
  <2> QED
    BY <2>1
<1>3. WorkerTypes({"tool", "submit", "child"}, Budget, MaxFeedback)'
  <2>1. modelCalls' \in 0 .. Budget /\ turn' \in Nat
    BY <1>0 DEF FeedbackInv, WorkerTypes
  <2> QED
    BY <1>0, <1>1, <1>2, <2>1 DEF FeedbackInv, WorkerTypes
<1>4. Counted(Budget)'
  <2> DEFINE x == Budget * fed
  <2>1. x \in Nat /\ turn <= x + modelCalls /\ turn \in Nat /\ modelCalls \in Nat
    BY DEF FeedbackInv, WorkerTypes, Counted
  <2>2. turn' <= x + modelCalls'
    <3> HIDE DEF x
    <3> QED
      BY <1>0, <2>1
  <2> QED
    BY <1>0, <2>2 DEF FeedbackInv, Counted
<1>5. RecordIsFresh'
  <2>1. stored \in Seq(Feedback!Message) /\ turn \in Nat /\ RecordIsFresh
    BY DEF FeedbackInv, WorkerTypes
  <2>2. ASSUME NEW x \in Feedback!Message, IsFresh(x) PROVE IsFresh(x)'
    <3>1. x.turn \in Nat
      BY DEF Feedback!Message
    <3> QED
      BY <1>0, <2>1, <2>2, <3>1 DEF IsFresh
  <2>3. \A k \in DOMAIN stored : stored[k] \in Feedback!Message
    BY <2>1
  <2> QED
    BY <1>0, <2>1, <2>2, <2>3 DEF RecordIsFresh
<1>6. Feedback!CopyIsOfRecord' /\ CopyIsCurrent'
  BY <1>0 DEF FeedbackInv, Feedback!CopyIsOfRecord, CopyIsCurrent
<1> QED
  BY <1>3, <1>4, <1>5, <1>6 DEF FeedbackInv

\* What the worker persists is at the end of the record and of its copy.
LEMMA FeedbackPersists ==
  ASSUME FeedbackInv, NEW m \in Feedback!Message, \A k \in DOMAIN stored : stored[k] # m,
         stored' = Append(stored, m), history' = Append(history, m), commands' = commands,
         at \notin {"initial", "resuming", "ended"}
  PROVE  /\ stored' \in Seq(Feedback!Message) /\ history' \in Seq(Feedback!Message)
         /\ Feedback!CopyIsOfRecord' /\ CopyIsCurrent'
<1>1. stored \in Seq(Feedback!Message) /\ history \in Seq(Feedback!Message)
  BY DEF FeedbackInv, WorkerTypes
<1>2. Once(stored) /\ IsCopyOf(history, stored)
  BY CopyIsCopy DEF FeedbackInv
<1>3. Once(stored') /\ IsCopyOf(history', stored')
  BY <1>1, <1>2, AppendToRecord
<1>4. Feedback!CopyIsOfRecord'
  BY <1>3 DEF Feedback!CopyIsOfRecord, Once, IsCopyOf
<1>5. CopyIsCurrent'
  BY DEF FeedbackInv, CopyIsCurrent
<1> QED
  BY <1>1, <1>4, <1>5, Appended

\* A record with a fresh message more is fresh, when what was fresh remains so.
LEMMA RecordStaysFresh ==
  ASSUME stored \in Seq(Feedback!Message), RecordIsFresh, NEW m \in Feedback!Message,
         stored' = Append(stored, m), IsFresh(m)',
         \A x \in Feedback!Message : IsFresh(x) => IsFresh(x)'
  PROVE  RecordIsFresh'
<1>1. \A x : (\E k \in DOMAIN stored' : stored'[k] = x) => IsFresh(x)'
  <2> SUFFICES ASSUME NEW x, NEW k \in DOMAIN stored', stored'[k] = x PROVE IsFresh(x)'
    OBVIOUS
  <2>1. x = m \/ (k \in DOMAIN stored /\ stored[k] = x)
    BY Appended
  <2> QED
    BY <2>1 DEF RecordIsFresh
<1> QED
  BY <1>1 DEF RecordIsFresh

\* Persisting the answer of the model preserves the invariant.
LEMMA FeedbackAnswer == FeedbackInv /\ Feedback!PersistAnswer => FeedbackInv'
<1> SUFFICES ASSUME FeedbackInv, Feedback!PersistAnswer PROVE FeedbackInv'
  OBVIOUS
<1> USE LocalAssumption DEF Feedback!TranscriptAssumption
<1> PICK m : m = Feedback!Answer(turn, Len(calls))
  OBVIOUS
<1>0. /\ at = "answered" /\ stored' = Append(stored, m) /\ history' = Append(history, m)
      /\ request' = <<>> /\ next' = 1 /\ inTurn' = FALSE
      /\ at' = IF calls = <<>> THEN "halting" ELSE "calling"
      /\ UNCHANGED <<workerState, workerSubmitted, commands, modelCalls, fed, turn, calls, childCalls>>
  BY DEF Feedback!PersistAnswer, Feedback!Persisted, Feedback!Goto
<1>1. WorkerTypes({"tool", "submit", "child"}, Budget, MaxFeedback)
  BY DEF FeedbackInv
<1>2. /\ m \in Feedback!Message /\ m.role = "assistant" /\ m.turn = turn /\ turn \in Nat
  <2>1. turn \in Nat /\ Len(calls) \in Nat
    BY <1>1 DEF WorkerTypes
  <2> QED
    BY <2>1, Messages
<1>3. \A k \in DOMAIN stored : stored[k] # m
  BY <1>0, <1>2 DEF FeedbackInv, RecordIsFresh, IsFresh
<1>4. /\ stored' \in Seq(Feedback!Message) /\ history' \in Seq(Feedback!Message)
      /\ Feedback!CopyIsOfRecord' /\ CopyIsCurrent'
  BY <1>0, <1>2, <1>3, FeedbackPersists
<1>5. WorkerTypes({"tool", "submit", "child"}, Budget, MaxFeedback)'
  <2>1. at' \in {"halting", "calling"} /\ (at' = "calling" => 1 <= Len(calls)) /\ 1 \in 1 .. MaxCalls
    BY <1>0, <1>1 DEF WorkerTypes
  <2>2. <<>> \in Seq(Feedback!Message)
    OBVIOUS
  <2> QED
    BY <1>0, <1>1, <1>4, <2>1, <2>2 DEF WorkerTypes
<1>6. RecordIsFresh'
  <2>1. IsFresh(m)' /\ \A x \in Feedback!Message : IsFresh(x) => IsFresh(x)'
    BY <1>0, <1>2 DEF IsFresh
  <2> QED
    BY <1>0, <1>1, <1>2, <2>1, RecordStaysFresh DEF FeedbackInv, WorkerTypes
<1>7. Counted(Budget)'
  BY <1>0 DEF FeedbackInv, Counted
<1> QED
  BY <1>4, <1>5, <1>6, <1>7 DEF FeedbackInv

\* Persisting the result of a call preserves the invariant.
LEMMA FeedbackResult == FeedbackInv /\ Feedback!PersistResult => FeedbackInv'
<1> SUFFICES ASSUME FeedbackInv, Feedback!PersistResult PROVE FeedbackInv'
  OBVIOUS
<1> USE LocalAssumption DEF Feedback!TranscriptAssumption
<1> PICK m : m = Feedback!Result(turn, next)
  OBVIOUS
<1>0. /\ at = "called" /\ stored' = Append(stored, m) /\ history' = Append(history, m)
      /\ \/ at' = "calling" /\ next < Len(calls) /\ next' = next + 1
         \/ at' \in {"posting", "model"} /\ next' = next
      /\ UNCHANGED <<workerState, workerSubmitted, commands, modelCalls, fed, request, turn, calls, inTurn,
            childCalls>>
  <2>1. /\ at = "called" /\ stored' = Append(stored, m) /\ history' = Append(history, m)
        /\ at' = Feedback!AfterResult /\ next' = IF at' = "calling" THEN next + 1 ELSE next
        /\ UNCHANGED <<workerState, workerSubmitted, commands, modelCalls, fed, request, turn, calls, inTurn,
              childCalls>>
    BY DEF Feedback!PersistResult, Feedback!Persisted, Feedback!Goto
  <2>2. \/ Feedback!AfterResult = "calling" /\ next < Len(calls)
        \/ Feedback!AfterResult \in {"posting", "model"}
    BY DEF Feedback!AfterResult
  <2> QED
    BY <2>1, <2>2
<1>1. WorkerTypes({"tool", "submit", "child"}, Budget, MaxFeedback)
  BY DEF FeedbackInv
<1>2. /\ m \in Feedback!Message /\ m.role = "tool" /\ m.turn = turn /\ m.calls = next
      /\ turn \in Nat /\ next \in Nat
  <2>1. turn \in Nat /\ next \in Nat
    BY <1>1 DEF WorkerTypes
  <2> QED
    BY <2>1, Messages
<1>3. \A k \in DOMAIN stored : stored[k] # m
  <2>1. ~IsFresh(m)
    BY <1>0, <1>2 DEF IsFresh
  <2> QED
    BY <2>1 DEF FeedbackInv, RecordIsFresh
<1>4. /\ stored' \in Seq(Feedback!Message) /\ history' \in Seq(Feedback!Message)
      /\ Feedback!CopyIsOfRecord' /\ CopyIsCurrent'
  BY <1>0, <1>2, <1>3, FeedbackPersists
<1>5. WorkerTypes({"tool", "submit", "child"}, Budget, MaxFeedback)'
  <2>1. next' \in 1 .. MaxCalls /\ (at' = "calling" => next' <= Len(calls)) /\ at' \in {"calling", "posting",
           "model"}
    BY <1>0, <1>1 DEF WorkerTypes
  <2> QED
    BY <1>0, <1>1, <1>4, <2>1 DEF WorkerTypes
<1>6. RecordIsFresh'
  <2>1. ASSUME NEW x \in Feedback!Message, IsFresh(x) PROVE IsFresh(x)'
    <3>1. x.calls \in Nat
      BY DEF Feedback!Message
    <3> QED
      BY <1>0, <1>2, <2>1, <3>1 DEF IsFresh
  <2>2. IsFresh(m)'
    BY <1>0, <1>2 DEF IsFresh
  <2> QED
    BY <1>0, <1>1, <1>2, <2>1, <2>2, RecordStaysFresh DEF FeedbackInv, WorkerTypes
<1>7. Counted(Budget)'
  BY <1>0 DEF FeedbackInv, Counted
<1> QED
  BY <1>4, <1>5, <1>6, <1>7 DEF FeedbackInv

\* The operator's message goes to the record alone; a recovery starts with an empty copy.
LEMMA FeedbackOperator == FeedbackInv /\ (Feedback!ContinueLive \/ Feedback!Recover) => FeedbackInv'
<1> SUFFICES ASSUME FeedbackInv, Feedback!ContinueLive \/ Feedback!Recover PROVE FeedbackInv'
  OBVIOUS
<1> USE LocalAssumption DEF Feedback!TranscriptAssumption
<1> PICK m : m = Feedback!User(fed + 1)
  OBVIOUS
<1>0. /\ fed < MaxFeedback /\ fed' = fed + 1 /\ stored' = Append(stored, m)
      /\ UNCHANGED <<workerSubmitted, turn, calls, next, inTurn, childCalls>>
      /\ workerState' \in {"review_received", "starting"}
      /\ \/ commands' = commands + 1 /\ UNCHANGED <<modelCalls, history, request, at>>
         \/ commands' = 0 /\ modelCalls' = 0 /\ history' = <<>> /\ request' = <<>> /\ at' = "initial"
  BY DEF Feedback!ContinueLive, Feedback!Recover, Feedback!worker, Feedback!Goto
<1>1. WorkerTypes({"tool", "submit", "child"}, Budget, MaxFeedback)
  BY DEF FeedbackInv
<1>2. /\ m \in Feedback!Message /\ m.role = "user" /\ m.turn = fed + 1 /\ fed \in Nat
  <2>1. fed + 1 \in Nat /\ fed \in Nat
    BY <1>1 DEF WorkerTypes
  <2> QED
    BY <2>1, Messages
<1>3. \A k \in DOMAIN stored : stored[k] # m
  BY <1>2 DEF FeedbackInv, RecordIsFresh, IsFresh
<1>4. stored \in Seq(Feedback!Message) /\ history \in Seq(Feedback!Message) /\ stored' \in Seq(Feedback!Message)
  BY <1>0, <1>1, <1>2, Appended DEF WorkerTypes
<1>5. Feedback!CopyIsOfRecord'
  <2>1. Once(stored) /\ IsCopyOf(history, stored)
    BY CopyIsCopy DEF FeedbackInv
  <2>2. Once(stored') /\ IsCopyOf(history, stored')
    BY <1>0, <1>2, <1>3, <1>4, <2>1, AppendToRecord
  <2>3. IsCopyOf(<<>>, stored')
    BY <1>4, <2>2, CopyOfItself
  <2>4. IsCopyOf(history', stored')
    BY <1>0, <2>2, <2>3
  <2> QED
    BY <2>2, <2>4 DEF Feedback!CopyIsOfRecord, Once, IsCopyOf
<1>6. CopyIsCurrent'
  BY <1>0, <1>1 DEF CopyIsCurrent, WorkerTypes
<1>7. WorkerTypes({"tool", "submit", "child"}, Budget, MaxFeedback)'
  <2>1. fed' \in 0 .. MaxFeedback /\ commands' \in Nat /\ modelCalls' \in 0 .. Budget
    BY <1>0, <1>1 DEF WorkerTypes
  <2>2. <<>> \in Seq(Feedback!Message)
    OBVIOUS
  <2>3. request' \in Seq(Feedback!Message) /\ history' \in Seq(Feedback!Message)
    BY <1>0, <1>1, <2>2 DEF WorkerTypes
  <2> QED
    BY <1>0, <1>1, <1>4, <2>1, <2>3 DEF WorkerTypes
<1>8. RecordIsFresh'
  <2>1. ASSUME NEW x \in Feedback!Message, IsFresh(x) PROVE IsFresh(x)'
    <3>1. x.turn \in Nat
      BY DEF Feedback!Message
    <3>2. at' = at \/ at' = "initial"
      BY <1>0
    <3> QED
      BY <1>0, <1>2, <2>1, <3>1, <3>2 DEF IsFresh
  <2>2. IsFresh(m)'
    BY <1>0, <1>2 DEF IsFresh
  <2> QED
    BY <1>0, <1>2, <1>4, <2>1, <2>2, RecordStaysFresh DEF FeedbackInv
<1>9. Counted(Budget)'
  <2>1. /\ turn <= Budget * (fed + 1) + 0
        /\ turn <= Budget * (fed + 1) + modelCalls
    BY <1>1, <1>2, CountStep DEF FeedbackInv, Counted, WorkerTypes
  <2>2. commands' <= fed'
    BY <1>0, <1>1, <1>2, SMTT(30) DEF FeedbackInv, Counted, WorkerTypes
  <2> QED
    BY <1>0, <2>1, <2>2 DEF Counted
<1> QED
  BY <1>5, <1>6, <1>7, <1>8, <1>9 DEF FeedbackInv

\* Every step of the worker with feedback preserves its invariant.
LEMMA FeedbackStepInv == FeedbackInv /\ [Feedback!Next]_workerVars => FeedbackInv'
<1> SUFFICES ASSUME FeedbackInv, [Feedback!Next]_workerVars PROVE FeedbackInv'
  OBVIOUS
<1>1. CASE Feedback!Next
  BY <1>1, FeedbackReports, FeedbackReads, FeedbackTurn, FeedbackAnswer, FeedbackResult, FeedbackOperator
     DEF Feedback!Next, Feedback!WorkerStep
<1>2. CASE UNCHANGED workerVars
  BY <1>2 DEF workerVars, FeedbackInv, WorkerTypes, Counted, RecordIsFresh, IsFresh, Feedback!CopyIsOfRecord,
     CopyIsCurrent
<1> QED
  BY <1>1, <1>2

-----------------------------------------------------------------------------
(* The transcript of a worker: the window on it *)

\* A result is preceded by its answer and the results before it; an answer is followed by
\* its results, of which those from the n-th on may still be missing at the end.
InBlocks(h, calling, n) == \A i \in DOMAIN h :
  /\ h[i].role = "tool" =>
       \E a \in DOMAIN h : /\ a < i /\ h[a].role = "assistant" /\ h[a].turn = h[i].turn
                           /\ \A k \in a + 1 .. i : h[k].role = "tool"
  /\ h[i].role = "assistant" => \A j \in 1 .. h[i].calls :
       \/ i + j \in DOMAIN h /\ h[i + j] = View!Result(h[i].turn, j)
       \/ calling /\ n <= j /\ i + n = Len(h) + 1

\* The answer of turn t with l calls, of which the n-th is next, is the last block.
EndsInBlock(h, n, t, l) == \E a \in DOMAIN h :
  /\ a + n = Len(h) + 1 /\ h[a] = View!Answer(t, l)
  /\ \A k \in a + 1 .. Len(h) : h[k].role = "tool"

\* The latest answer is the end of the transcript while its calls are made.
Calling == at \in {"calling", "called"}

\* h is in blocks, the last of them as far as the calls of this turn were made.
TranscriptInBlocks(h) == InBlocks(h, Calling, next) /\ (Calling => EndsInBlock(h, next, turn, Len(calls)))

\* A worker without submissions and children only waits between turns.
WaitsBetweenTurns ==
  /\ at # "child"
  /\ at \in {"model", "answered", "calling", "called", "halting"} => workerState = "running"

\* The inductive invariant of the window.
ViewInv ==
  /\ WorkerTypes({"tool"}, ViewBudget, ViewFeedback) /\ Counted(ViewBudget) /\ WaitsBetweenTurns
  /\ TranscriptInBlocks(stored) /\ TranscriptInBlocks(history)
  /\ View!NoOrphanResult /\ View!CallsAreAnswered

\* The invariant of the transcript, of either worker.
TranscriptInv == IF focus = "view" THEN ViewInv ELSE FeedbackInv

\* A message that is no result begins a block.
LEMMA AppendBlock ==
  ASSUME NEW h \in Seq(View!Message), NEW n, InBlocks(h, FALSE, n),
         NEW m \in View!Message, m.role # "tool",
         NEW calling \in BOOLEAN, m.role = "assistant" /\ ~calling => m.calls = 0
  PROVE  InBlocks(Append(h, m), calling, 1)
<1> DEFINE g == Append(h, m)
<1>1. /\ Len(h) \in Nat /\ Len(g) = Len(h) + 1 /\ DOMAIN h = 1 .. Len(h) /\ DOMAIN g = 1 .. Len(h) + 1
      /\ g[Len(h) + 1] = m /\ \A i \in DOMAIN h : g[i] = h[i]
  BY Appended
<1> HIDE DEF g
<1> SUFFICES ASSUME NEW i \in DOMAIN g
             PROVE  /\ g[i].role = "tool" =>
                         \E a \in DOMAIN g : /\ a < i /\ g[a].role = "assistant" /\ g[a].turn = g[i].turn
                                             /\ \A k \in a + 1 .. i : g[k].role = "tool"
                    /\ g[i].role = "assistant" => \A j \in 1 .. g[i].calls :
                         \/ i + j \in DOMAIN g /\ g[i + j] = View!Result(g[i].turn, j)
                         \/ calling /\ 1 <= j /\ i + 1 = Len(g) + 1
  BY DEF InBlocks, g
<1>2. CASE i \in DOMAIN h
  <2>1. ASSUME g[i].role = "tool"
        PROVE  \E a \in DOMAIN g : /\ a < i /\ g[a].role = "assistant" /\ g[a].turn = g[i].turn
                                   /\ \A k \in a + 1 .. i : g[k].role = "tool"
    <3>1. PICK a \in DOMAIN h : /\ a < i /\ h[a].role = "assistant" /\ h[a].turn = h[i].turn
                                /\ \A k \in a + 1 .. i : h[k].role = "tool"
      BY <1>1, <1>2, <2>1 DEF InBlocks
    <3>2. \A k \in a + 1 .. i : k \in DOMAIN h
      BY <1>1, <1>2
    <3> QED
      BY <1>1, <1>2, <3>1, <3>2
  <2>2. ASSUME g[i].role = "assistant", NEW j \in 1 .. g[i].calls
        PROVE  i + j \in DOMAIN g /\ g[i + j] = View!Result(g[i].turn, j)
    <3>1. i + j \in DOMAIN h /\ h[i + j] = View!Result(h[i].turn, j)
      BY <1>1, <1>2, <2>2 DEF InBlocks
    <3> QED
      BY <1>1, <1>2, <3>1
  <2> QED
    BY <2>1, <2>2
<1>3. CASE i = Len(h) + 1
  BY <1>1, <1>3 DEF View!Message
<1> QED
  BY <1>1, <1>2, <1>3

\* An answer at the end of a transcript begins a block, of which all results are missing.
LEMMA AppendAnswer ==
  ASSUME NEW h \in Seq(View!Message), NEW t \in Nat, NEW l \in Nat
  PROVE  EndsInBlock(Append(h, View!Answer(t, l)), 1, t, l)
<1> DEFINE m == View!Answer(t, l)
           g == Append(h, m)
<1>0. m \in View!Message
  BY DEF View!Answer, View!Message
<1> HIDE DEF m
<1>1. Len(h) \in Nat /\ Len(g) = Len(h) + 1 /\ DOMAIN g = 1 .. Len(h) + 1 /\ g[Len(h) + 1] = m
  BY <1>0, Appended
<1> HIDE DEF g
<1>2. Len(g) \in DOMAIN g /\ Len(g) + 1 = Len(g) + 1 /\ g[Len(g)] = m
      /\ \A k \in Len(g) + 1 .. Len(g) : g[k].role = "tool"
  BY <1>1
<1>3. EndsInBlock(g, 1, t, l)
  BY <1>2 DEF EndsInBlock, m
<1> QED
  BY <1>3 DEF g, m

\* The result of the n-th call of the latest answer.
LEMMA AppendResult ==
  ASSUME NEW h \in Seq(View!Message), NEW t \in Nat, NEW l \in Nat, NEW n \in Nat \ {0}, n <= l,
         InBlocks(h, TRUE, n), EndsInBlock(h, n, t, l)
  PROVE  /\ n < l => /\ InBlocks(Append(h, View!Result(t, n)), TRUE, n + 1)
                     /\ EndsInBlock(Append(h, View!Result(t, n)), n + 1, t, l)
         /\ n = l => \A x : InBlocks(Append(h, View!Result(t, n)), FALSE, x)
<1> DEFINE m == View!Result(t, n)
           g == Append(h, m)
<1>0. m \in View!Message /\ m.role = "tool" /\ m.turn = t
  BY DEF View!Result, View!Message
<1>1. /\ Len(h) \in Nat /\ Len(g) = Len(h) + 1 /\ DOMAIN h = 1 .. Len(h) /\ DOMAIN g = 1 .. Len(h) + 1
      /\ g[Len(h) + 1] = m /\ \A i \in DOMAIN h : g[i] = h[i]
  BY <1>0, Appended
<1>2. PICK e \in DOMAIN h : /\ e + n = Len(h) + 1 /\ h[e] = View!Answer(t, l)
                            /\ \A k \in e + 1 .. Len(h) : h[k].role = "tool"
  BY DEF EndsInBlock
<1>3. h[e].role = "assistant" /\ h[e].turn = t /\ h[e].calls = l
  BY <1>2 DEF View!Answer
<1>4. g[Len(h) + 1] = View!Result(t, n)
  BY <1>1
<1> HIDE DEF g, m
<1>5. \A k \in e + 1 .. Len(g) : g[k].role = "tool"
  <2> SUFFICES ASSUME NEW k \in e + 1 .. Len(g) PROVE g[k].role = "tool"
    OBVIOUS
  <2>1. k = Len(h) + 1 \/ (k \in e + 1 .. Len(h) /\ k \in DOMAIN h)
    BY <1>1
  <2> QED
    BY <1>0, <1>1, <1>2, <2>1
<1>6. ASSUME NEW i \in DOMAIN g, g[i].role = "tool"
      PROVE  \E a \in DOMAIN g : /\ a < i /\ g[a].role = "assistant" /\ g[a].turn = g[i].turn
                                 /\ \A k \in a + 1 .. i : g[k].role = "tool"
  <2>1. CASE i \in DOMAIN h
    <3>1. PICK a \in DOMAIN h : /\ a < i /\ h[a].role = "assistant" /\ h[a].turn = h[i].turn
                                /\ \A k \in a + 1 .. i : h[k].role = "tool"
      BY <1>1, <1>6, <2>1 DEF InBlocks
    <3>2. \A k \in a + 1 .. i : k \in DOMAIN h
      BY <1>1, <2>1
    <3> QED
      BY <1>1, <2>1, <3>1, <3>2
  <2>2. CASE i = Len(h) + 1
    <3>1. e \in DOMAIN g /\ e < i /\ g[e].role = "assistant" /\ g[e].turn = g[i].turn
      BY <1>0, <1>1, <1>3, <2>2
    <3> QED
      BY <1>1, <1>5, <2>2, <3>1
  <2> QED
    BY <1>1, <2>1, <2>2
<1>7. ASSUME NEW i \in DOMAIN g, g[i].role = "assistant", NEW j \in 1 .. g[i].calls
      PROVE  \/ i + j \in DOMAIN g /\ g[i + j] = View!Result(g[i].turn, j)
             \/ i = e /\ n + 1 <= j /\ j <= l
  <2>1. i \in DOMAIN h /\ g[i] = h[i]
    BY <1>0, <1>1, <1>7
  <2>2. CASE i + j \in DOMAIN h /\ h[i + j] = View!Result(h[i].turn, j)
    BY <1>1, <2>1, <2>2
  <2>3. CASE n <= j /\ i + n = Len(h) + 1
    <3>1. i = e
      BY <1>1, <1>2, <2>1, <2>3
    <3>2. j \in Nat /\ j <= l
      BY <1>3, <1>7, <2>1, <3>1
    <3>3. CASE j = n
      BY <1>1, <1>3, <1>4, <2>1, <2>3, <3>1, <3>3
    <3> QED
      BY <2>3, <3>1, <3>2, <3>3
  <2> QED
    BY <1>7, <2>1, <2>2, <2>3 DEF InBlocks
<1>8. ASSUME n < l PROVE InBlocks(g, TRUE, n + 1) /\ EndsInBlock(g, n + 1, t, l)
  <2>1. e \in DOMAIN g /\ g[e] = View!Answer(t, l)
    BY <1>1, <1>2
  <2>0. e \in Nat /\ n \in Nat /\ Len(g) = Len(h) + 1 /\ e + n = Len(h) + 1
    BY <1>1, <1>2
  <2>2. e + (n + 1) = Len(g) + 1
    BY <1>1, <2>0
  <2> QED
    BY <1>5, <1>6, <1>7, <2>1, <2>2, <2>0 DEF InBlocks, EndsInBlock
<1>9. ASSUME n = l, NEW x PROVE InBlocks(g, FALSE, x)
  BY <1>6, <1>7, <1>9 DEF InBlocks
<1> QED
  BY <1>8, <1>9 DEF g, m

\* A window that begins with no result cuts no block, whatever the number of messages.
LEMMA WindowIsWhole ==
  ASSUME NEW h \in Seq(View!Message), NEW n, InBlocks(h, FALSE, n),
         NEW v \in Seq(View!Message), IsEndOf(v, h), v # <<>> => v[1].role # "tool"
  PROVE  /\ \A i \in DOMAIN v : v[i].role = "tool" =>
              \E j \in 1 .. i - 1 : v[j].role = "assistant" /\ v[j].turn = v[i].turn
         /\ \A i \in DOMAIN v : v[i].role = "assistant" =>
              \A c \in 1 .. v[i].calls : \E j \in DOMAIN v : j > i /\ v[j] = View!Result(v[i].turn, c)
<1>1. CASE v = <<>>
  BY <1>1
<1>2. CASE v # <<>>
  <2>1. PICK d \in Nat : Len(v) + d = Len(h) /\ \A i \in 1 .. Len(v) : v[i] = h[d + i]
    BY <1>2 DEF IsEndOf
  <2>2. /\ Len(v) \in Nat /\ Len(h) \in Nat /\ DOMAIN v = 1 .. Len(v) /\ DOMAIN h = 1 .. Len(h)
        /\ 1 \in DOMAIN v
    BY <1>2
  <2>3. \A i \in DOMAIN v : d + i \in DOMAIN h /\ v[i] \in View!Message
    BY <2>1, <2>2
  <2>4. ASSUME NEW i \in DOMAIN v, v[i].role = "tool"
        PROVE  \E j \in 1 .. i - 1 : v[j].role = "assistant" /\ v[j].turn = v[i].turn
    <3>1. PICK a \in DOMAIN h :
             /\ a < d + i /\ h[a].role = "assistant" /\ h[a].turn = h[d + i].turn
             /\ \A k \in a + 1 .. d + i : h[k].role = "tool"
      BY <2>1, <2>2, <2>3, <2>4 DEF InBlocks
    <3>2. d < a
      <4>1. h[d + 1].role # "tool"
        BY <1>2, <2>1, <2>2
      <4>2. d + 1 <= d + i
        BY <2>2
      <4> QED
        BY <2>2, <3>1, <4>1, <4>2
    <3>3. a - d \in 1 .. i - 1 /\ d + (a - d) = a /\ a - d \in DOMAIN v
      BY <2>1, <2>2, <3>1, <3>2
    <3> QED
      BY <2>1, <2>2, <3>1, <3>3
  <2>5. ASSUME NEW i \in DOMAIN v, v[i].role = "assistant", NEW c \in 1 .. v[i].calls
        PROVE  \E j \in DOMAIN v : j > i /\ v[j] = View!Result(v[i].turn, c)
    <3>m. v[i] \in View!Message
      BY <2>3
    <3>l. v[i].calls \in Nat
      BY <3>m DEF View!Message
    <3>0. c \in Nat /\ c > 0
      BY <3>l
    <3>1. d + i + c \in DOMAIN h /\ h[d + i + c] = View!Result(h[d + i].turn, c)
      BY <2>1, <2>2, <2>3, <2>5 DEF InBlocks
    <3>2. i + c \in DOMAIN v /\ d + (i + c) = d + i + c /\ i + c > i
      BY <2>1, <2>2, <3>0, <3>1
    <3> QED
      BY <2>1, <2>2, <3>1, <3>2
  <2> QED
    BY <2>4, <2>5
<1> QED
  BY <1>1, <1>2

\* Both workers have the same messages.
LEMMA SameMessages ==
  /\ View!Message = Feedback!Message
  /\ \A n : View!User(n) = Feedback!User(n)
  /\ \A t, n : View!Answer(t, n) = Feedback!Answer(t, n) /\ View!Result(t, n) = Feedback!Result(t, n)
BY DEF View!Message, View!User, View!Answer, View!Result,
       Feedback!Message, Feedback!User, Feedback!Answer, Feedback!Result

\* The invariant of the worker with long turns bounds its variables.
LEMMA ViewInvTypes == ViewInv => View!TypeOK
<1> SUFFICES ASSUME ViewInv PROVE View!TypeOK
  OBVIOUS
<1>1. ViewBudget \in Nat /\ ViewFeedback \in Nat
  BY LocalAssumption DEF View!TranscriptAssumption
<1>2. turn \in 0 .. ViewBudget * (1 + ViewFeedback)
  BY <1>1, TurnsAreBounded DEF ViewInv, WorkerTypes, Counted
<1>3. commands \in 0 .. ViewFeedback
  BY <1>1 DEF ViewInv, WorkerTypes, Counted
<1> HIDE DEF ViewInv
<1>4. WorkerTypes({"tool"}, ViewBudget, ViewFeedback)
  BY DEF ViewInv
<1>5. View!Message = Feedback!Message
  BY SameMessages
<1> QED
  BY <1>2, <1>3, <1>4, <1>5 DEF WorkerTypes, View!TypeOK

\* The invariant of the worker with long turns holds at first.
LEMMA ViewInit == View!Init => ViewInv
<1> SUFFICES ASSUME View!Init PROVE ViewInv
  OBVIOUS
<1> USE LocalAssumption DEF View!TranscriptAssumption
<1>1. stored \in Seq(Feedback!Message) /\ DOMAIN stored = {1} /\ stored[1] = Feedback!User(0)
  BY Messages, SameMessages DEF View!Init
<1>2. /\ history = <<>> /\ request = <<>> /\ workerState = "starting" /\ workerSubmitted = FALSE
      /\ commands = 0 /\ modelCalls = 0
      /\ fed = 0 /\ turn = 0 /\ at = "initial" /\ calls = <<>> /\ next = 1
      /\ inTurn = FALSE /\ childCalls = 0
  BY DEF View!Init
<1>3. WorkerTypes({"tool"}, ViewBudget, ViewFeedback)
  <2>1. <<>> \in Seq(Feedback!Message) /\ <<>> \in Seq({"tool"}) /\ Len(<<>>) = 0
    OBVIOUS
  <2>2. 0 \in 0 .. ViewBudget /\ 0 \in 0 .. ChildBudget /\ 1 \in 1 .. MaxCalls /\ 0 \in 0 .. ViewFeedback
        /\ 0 \in Nat /\ 0 <= MaxCalls
    OBVIOUS
  <2> QED
    BY ONLY <1>1, <1>2, <2>1, <2>2 DEF WorkerTypes
<1>4. Counted(ViewBudget) /\ WaitsBetweenTurns /\ ~Calling
  BY <1>2 DEF Counted, WaitsBetweenTurns, Calling
<1>5. InBlocks(stored, Calling, next)
  BY <1>1, Messages DEF InBlocks
<1>6. InBlocks(history, Calling, next) /\ View!NoOrphanResult /\ View!CallsAreAnswered
  <2>1. DOMAIN history = {} /\ DOMAIN request = {}
    BY <1>2
  <2> QED
    BY <2>1 DEF InBlocks, View!NoOrphanResult, View!CallsAreAnswered
<1> QED
  BY <1>3, <1>4, <1>5, <1>6 DEF ViewInv, TranscriptInBlocks

\* Reports and tools leave the transcript alone, and no child runs.
LEMMA ViewReports ==
  ViewInv /\ (\/ View!TurnRefused \/ View!RunTool \/ View!SubmitPatch \/ View!BeginChild
              \/ (\E submits, ends \in BOOLEAN : View!ChildTurn(submits, ends))
              \/ View!ChildFails \/ View!ReportHalted \/ View!PostWait \/ View!ReportRunning
              \/ View!TakeCommand \/ View!Stop)
    => ViewInv'
<1> SUFFICES ASSUME ViewInv,
                  \/ View!TurnRefused \/ View!RunTool \/ View!SubmitPatch \/ View!BeginChild
                  \/ (\E submits, ends \in BOOLEAN : View!ChildTurn(submits, ends))
                  \/ View!ChildFails \/ View!ReportHalted \/ View!PostWait \/ View!ReportRunning
                  \/ View!TakeCommand \/ View!Stop
             PROVE  ViewInv'
  OBVIOUS
<1>1. WorkerTypes({"tool"}, ViewBudget, ViewFeedback) /\ WaitsBetweenTurns
  BY DEF ViewInv
<1>2. at = "calling" => calls[next] = "tool"
  BY <1>1 DEF WorkerTypes
<1>3. \/ View!TurnRefused \/ View!RunTool \/ View!ReportHalted \/ View!PostWait
      \/ View!ReportRunning \/ View!TakeCommand
  BY <1>1, <1>2 DEF WaitsBetweenTurns, View!SubmitPatch, View!BeginChild, View!ChildTurn, View!ChildFails,
     View!Stop
<1>4. /\ UNCHANGED <<stored, fed, history, request, turn, calls, next, workerSubmitted, modelCalls, inTurn,
            childCalls>>
      /\ commands' \in Nat /\ commands' <= commands
      /\ \/ at = "model" /\ at' = "ended" /\ workerState' = "failed"
         \/ at = "calling" /\ at' = "called" /\ workerState' = workerState
         \/ at = "halting" /\ at' = "posting" /\ workerState' = "halted"
         \/ at = "posting" /\ at' = "waiting" /\ workerState' \in {"awaiting_review", "halted"}
         \/ at = "reporting" /\ at' = "model" /\ workerState' = "running"
         \/ at = "waiting" /\ at' = "resuming" /\ workerState' = workerState
  BY <1>1, <1>3 DEF WorkerTypes, View!TurnRefused, View!RunTool, View!ReportHalted, View!PostWait,
       View!ReportRunning, View!TakeCommand, View!Goto, View!record
<1>5. WorkerTypes({"tool"}, ViewBudget, ViewFeedback)' /\ WaitsBetweenTurns'
  BY <1>1, <1>4 DEF WorkerTypes, WaitsBetweenTurns
<1>6. Counted(ViewBudget)'
  BY <1>4, <1>1 DEF ViewInv, Counted, WorkerTypes
<1>7. Calling' = Calling
  BY <1>4 DEF Calling
<1>8. TranscriptInBlocks(stored)' /\ TranscriptInBlocks(history)'
  BY <1>4, <1>7 DEF ViewInv, TranscriptInBlocks
<1>9. View!NoOrphanResult' /\ View!CallsAreAnswered'
  BY <1>4 DEF ViewInv, View!NoOrphanResult, View!CallsAreAnswered
<1> QED
  BY <1>5, <1>6, <1>8, <1>9 DEF ViewInv

\* The worker reads the whole record.
LEMMA ViewReads == ViewInv /\ (View!Initialize \/ View!Resume) => ViewInv'
<1> SUFFICES ASSUME ViewInv, View!Initialize \/ View!Resume PROVE ViewInv'
  OBVIOUS
<1>1. /\ at \in {"initial", "resuming"} /\ history' = stored
      /\ \/ at' = "model" /\ workerState' = "running"
         \/ at' = "reporting" /\ workerState' = workerState
      /\ UNCHANGED <<stored, workerSubmitted, commands, modelCalls, fed, request, turn, calls, next, inTurn,
            childCalls>>
  BY DEF View!Initialize, View!Resume, View!Resumed, View!Goto, View!record
<1>2. WorkerTypes({"tool"}, ViewBudget, ViewFeedback)' /\ WaitsBetweenTurns'
  BY <1>1 DEF ViewInv, WorkerTypes, WaitsBetweenTurns
<1>3. Counted(ViewBudget)' /\ View!NoOrphanResult' /\ View!CallsAreAnswered'
  BY <1>1 DEF ViewInv, Counted, View!NoOrphanResult, View!CallsAreAnswered
<1>4. Calling' = Calling
  BY <1>1 DEF Calling
<1>5. TranscriptInBlocks(stored)' /\ TranscriptInBlocks(history)'
  BY <1>1, <1>4 DEF ViewInv, TranscriptInBlocks
<1> QED
  BY <1>2, <1>3, <1>5 DEF ViewInv

\* Outside the calls of an answer, the transcript is whole whichever call is next.
LEMMA Whole ==
  ASSUME NEW h, NEW n, InBlocks(h, FALSE, n)
  PROVE  \A x : InBlocks(h, FALSE, x)
BY DEF InBlocks

\* The model is asked with a window on the copy: no block of it is cut.
LEMMA ViewTurn ==
  ASSUME ViewInv, NEW kept \in 1 .. ViewWindow, NEW asked \in View!Asked,
         View!CompleteTurn(kept, asked)
  PROVE  ViewInv'
<1> USE LocalAssumption DEF View!TranscriptAssumption
<1>0. /\ at = "model" /\ at' = "answered" /\ modelCalls < ViewBudget /\ modelCalls' = modelCalls + 1
      /\ turn' = turn + 1 /\ calls' = asked
      /\ UNCHANGED <<stored, workerState, workerSubmitted, commands, fed, history, next, inTurn, childCalls>>
  BY DEF View!CompleteTurn, View!Goto, View!BudgetIsSpent, ViewInv, WorkerTypes
<1>1. history \in Seq(View!Message) /\ kept \in 1 .. Len(history) /\ request' = Window_(history, kept)
  <2>1. history \in Seq(View!Message) /\ kept \in 1 .. Len(history)
    BY SameMessages DEF View!CompleteTurn, View!Kept, ViewInv, WorkerTypes
  <2>2. request' = Window_(history, kept)
    BY DEF View!CompleteTurn, View!View, Window_
  <2> QED
    BY <2>1, <2>2
<1>2. /\ request' \in Seq(View!Message) /\ IsEndOf(request', history)
      /\ request' # <<>> => request'[1].role # "tool"
  BY <1>1, WindowIsAnEnd
<1>3. asked \in Seq({"tool"}) /\ Len(asked) <= MaxCalls
  <2>1. PICK n \in 0 .. MaxCalls : asked \in [1 .. n -> {"tool"}]
    BY DEF View!Asked
  <2> QED
    BY <2>1
<1>4. WorkerTypes({"tool"}, ViewBudget, ViewFeedback)' /\ WaitsBetweenTurns'
  <2>1. modelCalls' \in 0 .. ViewBudget /\ turn' \in Nat
    BY <1>0 DEF ViewInv, WorkerTypes
  <2> QED
    BY <1>0, <1>2, <1>3, <2>1, SameMessages DEF ViewInv, WorkerTypes, WaitsBetweenTurns
<1>5. Counted(ViewBudget)'
  <2> DEFINE x == ViewBudget * fed
  <2>1. x \in Nat /\ turn <= x + modelCalls /\ turn \in Nat /\ modelCalls \in Nat
    BY DEF ViewInv, WorkerTypes, Counted
  <2>2. turn' <= x + modelCalls'
    <3> HIDE DEF x
    <3> QED
      BY <1>0, <2>1
  <2> QED
    BY <1>0, <2>2 DEF ViewInv, Counted
<1>6. ~Calling /\ ~Calling'
  BY <1>0 DEF Calling
<1>7. InBlocks(stored, FALSE, next) /\ InBlocks(history, FALSE, next)
  <2>1. Calling = FALSE
    BY <1>6 DEF Calling
  <2> QED
    BY <2>1 DEF ViewInv, TranscriptInBlocks
<1>8. TranscriptInBlocks(stored)' /\ TranscriptInBlocks(history)'
  <2>1. Calling' = FALSE
    BY <1>6 DEF Calling
  <2> QED
    BY <1>0, <1>7, <2>1 DEF TranscriptInBlocks, InBlocks
<1>9. View!NoOrphanResult' /\ View!CallsAreAnswered'
  BY <1>1, <1>2, <1>7, WindowIsWhole DEF View!NoOrphanResult, View!CallsAreAnswered
<1> QED
  BY <1>4, <1>5, <1>8, <1>9 DEF ViewInv

\* The answer begins a block, which its calls leave open.
LEMMA ViewAnswer == ViewInv /\ View!PersistAnswer => ViewInv'
<1> SUFFICES ASSUME ViewInv, View!PersistAnswer PROVE ViewInv'
  OBVIOUS
<1> USE LocalAssumption DEF View!TranscriptAssumption
<1> PICK l : l = Len(calls)
  OBVIOUS
<1> PICK m : m = View!Answer(turn, l)
  OBVIOUS
<1>0. /\ at = "answered" /\ stored' = Append(stored, m) /\ history' = Append(history, m)
      /\ request' = <<>> /\ next' = 1 /\ inTurn' = FALSE
      /\ at' = IF calls = <<>> THEN "halting" ELSE "calling"
      /\ UNCHANGED <<workerState, workerSubmitted, commands, modelCalls, fed, turn, calls, childCalls>>
  BY DEF View!PersistAnswer, View!Persisted, View!Goto
<1>1. /\ WorkerTypes({"tool"}, ViewBudget, ViewFeedback) /\ WaitsBetweenTurns
      /\ turn \in Nat /\ l \in Nat /\ (calls = <<>> <=> l = 0)
      /\ stored \in Seq(View!Message) /\ history \in Seq(View!Message)
  BY SameMessages DEF ViewInv, WorkerTypes
<1>2. m \in View!Message /\ m.role = "assistant" /\ m.calls = l
  BY <1>1, Messages, SameMessages
<1>3. stored' \in Seq(View!Message) /\ history' \in Seq(View!Message)
  BY <1>0, <1>1, <1>2, Appended
<1>4. WorkerTypes({"tool"}, ViewBudget, ViewFeedback)' /\ WaitsBetweenTurns'
  <2>1. at' \in {"halting", "calling"} /\ (at' = "calling" => 1 <= Len(calls)) /\ 1 \in 1 .. MaxCalls
    BY <1>0, <1>1
  <2>2. <<>> \in Seq(Feedback!Message)
    OBVIOUS
  <2>3. workerState = "running"
    BY <1>0, <1>1 DEF WaitsBetweenTurns
  <2> QED
    BY <1>0, <1>1, <1>3, <2>1, <2>2, <2>3, SameMessages DEF WorkerTypes, WaitsBetweenTurns
<1>5. Counted(ViewBudget)'
  BY <1>0 DEF ViewInv, Counted
<1>6. Calling = FALSE /\ Calling' \in BOOLEAN /\ (Calling' <=> l # 0)
  BY <1>0, <1>1 DEF Calling
<1>7. ASSUME NEW h \in Seq(View!Message), TranscriptInBlocks(h)
      PROVE  InBlocks(Append(h, m), Calling', 1) /\ EndsInBlock(Append(h, m), 1, turn, l)
  <2>1. InBlocks(h, FALSE, next)
    BY <1>6, <1>7 DEF TranscriptInBlocks
  <2>2. PICK c \in BOOLEAN : c = Calling'
    BY <1>6
  <2>3. m.role = "assistant" /\ ~c => m.calls = 0
    BY <1>2, <1>6, <2>2
  <2>4. InBlocks(Append(h, m), c, 1)
    BY <1>2, <2>1, <2>3, AppendBlock
  <2> QED
    BY <1>1, <2>2, <2>4, AppendAnswer
<1>8. TranscriptInBlocks(stored)' /\ TranscriptInBlocks(history)'
  <2>1. /\ InBlocks(stored', Calling', 1) /\ EndsInBlock(stored', 1, turn, l)
        /\ InBlocks(history', Calling', 1) /\ EndsInBlock(history', 1, turn, l)
    BY <1>0, <1>1, <1>7 DEF ViewInv
  <2>2. next' = 1 /\ turn' = turn /\ Len(calls') = l
    BY <1>0
  <2> QED
    BY <2>1, <2>2 DEF TranscriptInBlocks, InBlocks, EndsInBlock
<1>9. View!NoOrphanResult' /\ View!CallsAreAnswered'
  <2>1. DOMAIN request' = {}
    BY <1>0
  <2> QED
    BY <2>1 DEF View!NoOrphanResult, View!CallsAreAnswered
<1> QED
  BY <1>4, <1>5, <1>8, <1>9 DEF ViewInv

\* A result goes to the place its call left for it; the last one closes the block.
LEMMA ViewResult == ViewInv /\ View!PersistResult => ViewInv'
<1> SUFFICES ASSUME ViewInv, View!PersistResult PROVE ViewInv'
  OBVIOUS
<1> USE LocalAssumption DEF View!TranscriptAssumption
<1> PICK l : l = Len(calls)
  OBVIOUS
<1> PICK n : n = next
  OBVIOUS
<1> PICK m : m = View!Result(turn, n)
  OBVIOUS
<1>0. /\ at = "called" /\ stored' = Append(stored, m) /\ history' = Append(history, m)
      /\ \/ at' = "calling" /\ n < l /\ next' = n + 1
         \/ at' \in {"posting", "model"} /\ ~(n < l) /\ next' = n
      /\ UNCHANGED <<workerState, workerSubmitted, commands, modelCalls, fed, request, turn, calls, inTurn,
            childCalls>>
  <2>1. /\ at = "called" /\ stored' = Append(stored, m) /\ history' = Append(history, m)
        /\ at' = View!AfterResult /\ next' = IF at' = "calling" THEN next + 1 ELSE next
        /\ UNCHANGED <<workerState, workerSubmitted, commands, modelCalls, fed, request, turn, calls, inTurn,
              childCalls>>
    BY DEF View!PersistResult, View!Persisted, View!Goto
  <2>2. \/ View!AfterResult = "calling" /\ n < l
        \/ View!AfterResult \in {"posting", "model"} /\ ~(n < l)
    BY DEF View!AfterResult
  <2> QED
    BY <2>1, <2>2
<1>1. /\ WorkerTypes({"tool"}, ViewBudget, ViewFeedback) /\ WaitsBetweenTurns
      /\ turn \in Nat /\ l \in Nat /\ n \in Nat \ {0} /\ n <= l
      /\ stored \in Seq(View!Message) /\ history \in Seq(View!Message)
  BY <1>0, SameMessages DEF ViewInv, WorkerTypes
<1>2. m \in View!Message
  BY <1>1, Messages, SameMessages
<1>3. stored' \in Seq(View!Message) /\ history' \in Seq(View!Message)
  BY <1>0, <1>1, <1>2, Appended
<1>4. WorkerTypes({"tool"}, ViewBudget, ViewFeedback)' /\ WaitsBetweenTurns'
  <2>0. n \in 1 .. MaxCalls /\ l <= MaxCalls /\ MaxCalls \in Nat
    BY <1>1 DEF WorkerTypes
  <2>1. next' \in 1 .. MaxCalls /\ (at' = "calling" => next' <= l) /\ at' \in {"calling", "posting", "model"}
    <3>1. CASE at' = "calling" /\ n < l /\ next' = n + 1
      BY <1>1, <2>0, <3>1
    <3>2. CASE at' \in {"posting", "model"} /\ next' = n
      BY <2>0, <3>2
    <3> QED
      BY <1>0, <3>1, <3>2
  <2>2. workerState = "running"
    BY <1>0, <1>1 DEF WaitsBetweenTurns
  <2> QED
    BY <1>0, <1>1, <1>3, <2>1, <2>2, SameMessages DEF WorkerTypes, WaitsBetweenTurns
<1>5. Counted(ViewBudget)'
  BY <1>0 DEF ViewInv, Counted
<1>6. Calling = TRUE /\ (Calling' <=> n < l) /\ Calling' \in BOOLEAN
  BY <1>0, <1>1 DEF Calling
<1>7. ASSUME NEW h \in Seq(View!Message), TranscriptInBlocks(h)
      PROVE  /\ n < l => InBlocks(Append(h, m), TRUE, n + 1) /\ EndsInBlock(Append(h, m), n + 1, turn, l)
             /\ n = l => InBlocks(Append(h, m), FALSE, n)
  <2>1. InBlocks(h, TRUE, n) /\ EndsInBlock(h, n, turn, l)
    BY <1>6, <1>7 DEF TranscriptInBlocks
  <2> QED
    BY <1>1, <2>1, AppendResult
<1>8. TranscriptInBlocks(stored)' /\ TranscriptInBlocks(history)'
  <2>1. ASSUME n < l PROVE TranscriptInBlocks(stored)' /\ TranscriptInBlocks(history)'
    <3>1. next' = n + 1 /\ turn' = turn /\ Len(calls') = l /\ Calling' = TRUE
      BY <1>0, <1>6, <2>1
    <3>2. /\ InBlocks(stored', TRUE, n + 1) /\ EndsInBlock(stored', n + 1, turn, l)
          /\ InBlocks(history', TRUE, n + 1) /\ EndsInBlock(history', n + 1, turn, l)
      BY <1>0, <1>1, <1>7, <2>1 DEF ViewInv
    <3> QED
      BY <3>1, <3>2 DEF TranscriptInBlocks, InBlocks, EndsInBlock
  <2>2. ASSUME n = l PROVE TranscriptInBlocks(stored)' /\ TranscriptInBlocks(history)'
    <3>1. next' = n /\ Calling' = FALSE
      BY <1>0, <1>1, <1>6, <2>2
    <3>2. InBlocks(stored', FALSE, n) /\ InBlocks(history', FALSE, n)
      BY <1>0, <1>1, <1>7, <2>2 DEF ViewInv
    <3> QED
      BY <3>1, <3>2 DEF TranscriptInBlocks, InBlocks
  <2> QED
    BY <1>1, <2>1, <2>2
<1>9. View!NoOrphanResult' /\ View!CallsAreAnswered'
  BY <1>0 DEF ViewInv, View!NoOrphanResult, View!CallsAreAnswered
<1> QED
  BY <1>4, <1>5, <1>8, <1>9 DEF ViewInv

\* The operator's message goes to the record between two blocks.
LEMMA ViewOperator == ViewInv /\ (View!ContinueLive \/ View!Recover) => ViewInv'
<1> SUFFICES ASSUME ViewInv, View!ContinueLive \/ View!Recover PROVE ViewInv'
  OBVIOUS
<1> USE LocalAssumption DEF View!TranscriptAssumption
<1> PICK m : m = View!User(fed + 1)
  OBVIOUS
<1>1. WorkerTypes({"tool"}, ViewBudget, ViewFeedback) /\ WaitsBetweenTurns
  BY DEF ViewInv
<1>0. /\ fed < ViewFeedback /\ fed' = fed + 1 /\ stored' = Append(stored, m)
      /\ UNCHANGED <<workerSubmitted, turn, calls, next, inTurn, childCalls>>
      /\ workerState' \in {"review_received", "starting"}
      /\ \/ commands' = commands + 1 /\ UNCHANGED <<modelCalls, history, request, at>>
         \/ commands' = 0 /\ modelCalls' = 0 /\ history' = <<>> /\ request' = <<>> /\ at' = "initial"
      /\ at \notin {"model", "answered", "calling", "called", "halting"}
  BY <1>1 DEF View!ContinueLive, View!Recover, View!worker, View!Goto, WaitsBetweenTurns
<1>2. /\ m \in View!Message /\ m.role = "user" /\ fed \in Nat
      /\ stored \in Seq(View!Message) /\ history \in Seq(View!Message) /\ request \in Seq(View!Message)
  <2>1. fed + 1 \in Nat /\ fed \in Nat
    BY <1>1 DEF WorkerTypes
  <2> QED
    BY <1>1, <2>1, Messages, SameMessages DEF WorkerTypes
<1>3. stored' \in Seq(View!Message)
  BY <1>0, <1>2, Appended
<1>4. WorkerTypes({"tool"}, ViewBudget, ViewFeedback)' /\ WaitsBetweenTurns'
  <2>1. fed' \in 0 .. ViewFeedback /\ commands' \in Nat /\ modelCalls' \in 0 .. ViewBudget
    BY <1>0, <1>1, SMTT(30) DEF WorkerTypes
  <2>2. <<>> \in Seq(View!Message)
    OBVIOUS
  <2>3. request' \in Seq(View!Message) /\ history' \in Seq(View!Message)
    BY <1>0, <1>2, <2>2
  <2>4. /\ at' \notin {"model", "answered", "calling", "child", "called", "halting"}
        /\ at' \in {"initial", "posting", "waiting", "resuming", "reporting", "ended"}
    BY <1>0, <1>1 DEF WorkerTypes, WaitsBetweenTurns
  <2> QED
    BY <1>0, <1>1, <1>3, <2>1, <2>3, <2>4, SameMessages DEF WorkerTypes, WaitsBetweenTurns
<1>5. Counted(ViewBudget)'
  <2>1. /\ turn <= ViewBudget * (fed + 1) + 0
        /\ turn <= ViewBudget * (fed + 1) + modelCalls
    BY <1>1, <1>2, CountStep DEF ViewInv, Counted, WorkerTypes
  <2>2. commands' <= fed'
    BY <1>0, <1>1, <1>2 DEF ViewInv, Counted, WorkerTypes
  <2> QED
    BY <1>0, <2>1, <2>2 DEF Counted
<1>6. Calling = FALSE /\ Calling' = FALSE
  BY <1>0 DEF Calling
<1>7. InBlocks(stored, FALSE, next) /\ InBlocks(history, FALSE, next)
  BY <1>6 DEF ViewInv, TranscriptInBlocks
<1>8. InBlocks(stored', FALSE, next) /\ InBlocks(history', FALSE, next)
  <2>1. InBlocks(stored', FALSE, next)
    <3>1. InBlocks(Append(stored, m), FALSE, 1)
      BY <1>2, <1>7, AppendBlock
    <3> QED
      BY <1>0, <3>1, Whole
  <2>2. InBlocks(<<>>, FALSE, next)
    BY DEF InBlocks
  <2> QED
    BY <1>0, <1>7, <2>1, <2>2
<1>9. TranscriptInBlocks(stored)' /\ TranscriptInBlocks(history)'
  <2>1. next' = next
    BY <1>0
  <2> QED
    BY <1>6, <1>8, <2>1 DEF TranscriptInBlocks, InBlocks
<1>10. View!NoOrphanResult' /\ View!CallsAreAnswered'
  <2>1. CASE request' = request
    BY <2>1 DEF ViewInv, View!NoOrphanResult, View!CallsAreAnswered
  <2>2. CASE request' = <<>>
    <3>1. DOMAIN request' = {}
      BY <2>2
    <3> QED
      BY <3>1 DEF View!NoOrphanResult, View!CallsAreAnswered
  <2> QED
    BY <1>0, <2>1, <2>2
<1> QED
  BY <1>4, <1>5, <1>9, <1>10 DEF ViewInv

\* Every step of the worker with long turns preserves its invariant.
LEMMA ViewStepInv == ViewInv /\ [View!Next]_workerVars => ViewInv'
<1> SUFFICES ASSUME ViewInv, [View!Next]_workerVars PROVE ViewInv'
  OBVIOUS
<1>1. CASE View!Next
  BY <1>1, ViewReports, ViewReads, ViewTurn, ViewAnswer, ViewResult, ViewOperator
     DEF View!Next, View!WorkerStep
<1>2. CASE UNCHANGED workerVars
  BY <1>2 DEF workerVars, ViewInv, WorkerTypes, Counted, WaitsBetweenTurns, TranscriptInBlocks, Calling,
              InBlocks, EndsInBlock, View!NoOrphanResult, View!CallsAreAnswered
<1> QED
  BY <1>1, <1>2

-----------------------------------------------------------------------------
(* The transcript, in the system *)

\* A step of the system is one of the worker in focus, or leaves its variables alone.
LEMMA TranscriptSteps ==
  ASSUME [LocalNext]_LocalVars
  PROVE  /\ focus = "view" => [View!Next]_workerVars
         /\ focus # "view" => [Feedback!Next]_workerVars
BY DEF LocalNext, LocalVars, StoreStep, MailStep, RebaseStep, PicksStep, MergeStep, FeedbackStep, ViewStep,
       SummaryStep, HunksStep, WorktreeStep, CloneStep, ApplyStep, IpcStep

\* No step of the system breaks the invariant of the transcripts.
LEMMA TranscriptStepInv == TranscriptInv /\ [LocalNext]_LocalVars => TranscriptInv'
<1> SUFFICES ASSUME TranscriptInv, [LocalNext]_LocalVars PROVE TranscriptInv'
  OBVIOUS
<1>1. focus' = focus
  BY FocusStays DEF LocalVars
<1>2. CASE focus = "view"
  BY <1>1, <1>2, TranscriptSteps, ViewStepInv DEF TranscriptInv
<1>3. CASE focus # "view"
  BY <1>1, <1>3, TranscriptSteps, FeedbackStepInv DEF TranscriptInv
<1> QED
  BY <1>2, <1>3

\* Every message of a worker's record has a place of its own there and in the worker's
\* copy, and the messages of either form whole blocks of an answer and its results.
THEOREM TranscriptInvCorrect == LocalSpec => []TranscriptInv
<1>1. LocalInit => TranscriptInv
  <2> SUFFICES ASSUME LocalInit PROVE TranscriptInv
    OBVIOUS
  <2>1. CASE focus = "view"
    <3>1. View!Init
      BY ONLY LocalInit, <2>1, Zenon DEF LocalInit
    <3> QED
      BY <2>1, <3>1, ViewInit DEF TranscriptInv
  <2>2. CASE focus # "view"
    <3>1. Feedback!Init
      BY ONLY LocalInit, <2>2, Zenon DEF LocalInit
    <3> QED
      BY <2>2, <3>1, FeedbackInit DEF TranscriptInv
  <2> QED
    BY <2>1, <2>2
<1> QED
  BY <1>1, TranscriptStepInv, PTL DEF LocalSpec

\* A worker's copy is of its record and it never waits with feedback unread, however
\* messages of the operator, stops and recoveries interleave with its steps; and the window
\* it sends the model cuts no answer from its results, wherever it begins
\* (agent_worker.py _persist, _wait_for_command, _api_messages).
THEOREM TranscriptTheorem == LocalSpec => []TranscriptSafety
<1>1. TranscriptInv => TranscriptSafety
  <2>1. FeedbackInv => Feedback!TypeOK /\ Feedback!CopyIsOfRecord /\ Feedback!FeedbackIsRead
    BY FeedbackInvTypes DEF FeedbackInv, CopyIsCurrent, Feedback!FeedbackIsRead
  <2>2. ViewInv => View!TypeOK /\ View!NoOrphanResult /\ View!CallsAreAnswered
    BY ViewInvTypes DEF ViewInv
  <2> QED
    BY <2>1, <2>2 DEF TranscriptInv, TranscriptSafety
<1> QED
  BY <1>1, TranscriptInvCorrect, PTL
=============================================================================
