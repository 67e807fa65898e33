------------------------- MODULE LocalSessionProofs -------------------------
(***************************************************************************)
(* Proofs about LocalSystem: the interactive Git sessions of one client.   *)
(***************************************************************************)
EXTENDS LocalSystem, FiniteSetTheorems, TLAPS

\* Where the client's call is, and the session it works on.
place == sessionPc[Operator]
mine  == my[Operator]
\* Where a call stands that steps the session.
Steps == {"launching", "spawning", "nothing", "advancing", "waiting"}

\* A call that steps works on the repository's session, one that aborts on the session
\* it has taken from the repository.
ClientInv ==
  /\ place \in Steps => mine = current /\ current # 0
  /\ place \in {"popped", "terminating"} => mine # current /\ mine # 0

\* Sessions that are not made have no git, and no result.
UnmadeInv(sessions) ==
  \A s \in sessions : s > created => git[s] = "none" /\ result[s] = "none" /\ spawner[s] = None

\* The lock of a session is held over an await by the spawn alone, which finds no git,
\* nor the result of one.
SpawnInv(sessions) ==
  /\ \A s \in sessions : spawner[s] = IF place = "spawning" /\ s = current THEN Operator ELSE None
  /\ place = "spawning" => git[current] \in {"none", "reported"} /\ result[current] = "none" /\ runs < MaxRuns

\* The git that works is the repository's, or the one that is being aborted.
AliveInv(sessions) ==
  /\ \A s \in sessions : git[s] = "alive" => s = current \/ (place \in {"popped", "terminating"} /\ s = mine)
  /\ place \in {"popped", "terminating"} /\ current # 0 => git[current] = "none"
  /\ place = "cleaning" /\ mine # 0 => git[mine] # "alive"

\* An aborted session is not the repository's, nor one that is made later.
AbortedInv == \A s \in Rebase!Sessions : aborting[s] => s # current /\ s <= created

\* A file is only away while its edit is open or expired, when it has ended in an error, or
\* when an abort could not move it back.
FileInv ==
  /\ AbortedInv
  /\ \A e \in RebaseEdits : file[e] = "moved" =>
       /\ edit[e] \notin {"unused", "sent", "resolved", "ok"}
       /\ edit[e] = "failed" => \E s \in Rebase!Sessions : aborting[s]

\* The inductive invariant of a rebase.
RebaseInv ==
  /\ Rebase!TypeOK /\ ClientInv /\ UnmadeInv(Rebase!Sessions) /\ SpawnInv(Rebase!Sessions)
  /\ AliveInv(Rebase!Sessions) /\ FileInv /\ Rebase!ResultIsFinal

\* Without aborts: the editor that is at work is that of the repository's git, and the
\* session waits for it exactly while it waits for the session.
EditorInv ==
  /\ \A e \in PickEdits : edit[e] \in Picks!AtBridge =>
       /\ current # 0 /\ owner[e] = current /\ Picks!Running(current)
       /\ \A f \in PickEdits : edit[f] \in Picks!AtBridge => f = e
       /\ edit[e] \in {"open", "expired"} <=> pending[current] = e
  /\ \A s \in Picks!Sessions : pending[s] # None =>
       s = current /\ edit[pending[s]] \in {"open", "expired"}
  /\ place = "launching" => ~Picks!Running(current)

\* The client may say has_edit.
MayAcknowledge ==
  \/ place = "idle" /\ answer[Operator] = "needs_edit"
  \/ place = "advancing" /\ hasEdit[Operator]

\* What it may acknowledge it has been shown, and git asks for nothing else before that.
ShownInv ==
  /\ Picks!AcknowledgedIsShown
  /\ MayAcknowledge => \E e \in shown :
       /\ owner[e] = current /\ edit[e] \in {"open", "expired", "error"} /\ current # 0
       /\ \A f \in PickEdits : edit[f] \in Picks!AtBridge => f = e

\* The client makes no call with abort=true.
NoAbort == place \notin {"popped", "terminating", "cleaning"}

\* The inductive invariant of a rebase with several edits.
PicksInv ==
  /\ Picks!TypeOK /\ ClientInv /\ UnmadeInv(Picks!Sessions) /\ SpawnInv(Picks!Sessions)
  /\ AliveInv(Picks!Sessions) /\ NoAbort
  /\ EditorInv /\ ShownInv

\* The sessions share their variables; a behaviour is about one of them.
SessionInv == IF focus = "picks" THEN PicksInv ELSE RebaseInv

-----------------------------------------------------------------------------
(* A rebase *)

\* What the constants of a rebase are.
LEMMA RebaseSessions ==
  /\ Rebase!Cardinality(RebaseEdits) \in Nat /\ MaxSessions \in Nat /\ MaxRuns \in Nat
  /\ Rebase!Sessions = 1 .. MaxSessions + Rebase!Cardinality(RebaseEdits)
  /\ None # Operator /\ None \notin RebaseEdits
<1>1. IsFiniteSet(RebaseEdits) /\ MaxSessions \in Nat /\ MaxRuns \in Nat /\ None # Operator
      /\ None \notin RebaseEdits
  BY LocalAssumption DEF Rebase!SessionAssumption, Rebase!IsFiniteSet, IsFiniteSet
<1>2. Rebase!Cardinality(RebaseEdits) = Cardinality(RebaseEdits)
  BY DEF Rebase!Cardinality, Cardinality, Rebase!IsFiniteSet, IsFiniteSet
<1> QED
  BY <1>1, <1>2, FS_CardinalityType DEF Rebase!Sessions

\* The invariant of a rebase holds at first.
LEMMA RebaseInit == Rebase!Init => RebaseInv
<1> SUFFICES ASSUME Rebase!Init PROVE RebaseInv
  OBVIOUS
<1> USE RebaseSessions DEF place, mine
<1>1. Rebase!TypeOK
  BY DEF Rebase!Init, Rebase!TypeOK, Rebase!CallAt, Rebase!Answers, Rebase!AtBridge
<1>2. ClientInv /\ UnmadeInv(Rebase!Sessions) /\ SpawnInv(Rebase!Sessions) /\ AliveInv(Rebase!Sessions)
  BY DEF Rebase!Init, ClientInv, UnmadeInv, SpawnInv, AliveInv, Steps
<1>3. FileInv /\ Rebase!ResultIsFinal
  BY DEF Rebase!Init, FileInv, AbortedInv, Rebase!ResultIsFinal, Rebase!Running
<1> QED
  BY <1>1, <1>2, <1>3 DEF RebaseInv

\* The repository's session is made when there is none.
LEMMA RebaseGetOrCreate ==
  ASSUME Rebase!TypeOK, NEW s \in Rebase!Sessions, Rebase!GetOrCreate(s)
  PROVE  /\ current' = s /\ s \in 0 .. created'
         /\ created \in Nat /\ created' \in 0 .. MaxSessions + Rebase!Cardinality(RebaseEdits)
         /\ 0 .. created \subseteq 0 .. created'
         /\ current # 0 => s = current /\ created' = created
         /\ current = 0 => s > created
BY RebaseSessions DEF Rebase!TypeOK, Rebase!GetOrCreate, Rebase!manager

\* git, its output and its editor.
LEMMA RebaseGit ==
  ASSUME RebaseInv, NEW s \in Rebase!Sessions, Rebase!GitStep(s)
  PROVE  RebaseInv'
<1> USE RebaseSessions DEF place, mine, Rebase!manager, Rebase!process, Rebase!session, Rebase!editing,
       Rebase!calls
<1>1. CASE \E e \in RebaseEdits : Rebase!RunEditor(s, e)
  <2> PICK e \in RebaseEdits : Rebase!RunEditor(s, e)
    BY <1>1
  <2>0. s \in 0 .. created
    BY DEF RebaseInv, Rebase!RunEditor, UnmadeInv, Rebase!TypeOK
  <2>1. Rebase!TypeOK'
    BY <2>0 DEF RebaseInv, Rebase!RunEditor, Rebase!TypeOK, Rebase!CallAt, Rebase!Answers, Rebase!AtBridge
  <2>2. (ClientInv /\ UnmadeInv(Rebase!Sessions) /\ SpawnInv(Rebase!Sessions) /\ AliveInv(Rebase!Sessions)
        /\ Rebase!ResultIsFinal)'
    BY DEF RebaseInv, Rebase!RunEditor, ClientInv, UnmadeInv, SpawnInv, AliveInv, Steps, Rebase!ResultIsFinal,
       Rebase!Running
  <2>3. FileInv'
    BY DEF RebaseInv, Rebase!RunEditor, FileInv, AbortedInv, Rebase!TypeOK
  <2> QED
    BY <2>1, <2>2, <2>3 DEF RebaseInv
<1>2. CASE \E how \in {"completed", "error"} : Rebase!GitExits(s, how)
  <2> PICK how \in {"completed", "error"} : Rebase!GitExits(s, how)
    BY <1>2
  <2>1. Rebase!TypeOK'
    BY DEF RebaseInv, Rebase!GitExits, Rebase!TypeOK, Rebase!CallAt, Rebase!Answers, Rebase!AtBridge
  <2>2. (ClientInv /\ UnmadeInv(Rebase!Sessions) /\ SpawnInv(Rebase!Sessions) /\ AliveInv(Rebase!Sessions)
        /\ Rebase!ResultIsFinal)'
    BY DEF RebaseInv, Rebase!GitExits, ClientInv, UnmadeInv, SpawnInv, AliveInv, Steps, Rebase!ResultIsFinal,
       Rebase!Running, Rebase!TypeOK
  <2>3. FileInv'
    BY DEF RebaseInv, Rebase!GitExits, FileInv, AbortedInv
  <2> QED
    BY <2>1, <2>2, <2>3 DEF RebaseInv
<1>3. CASE Rebase!Collect(s)
  <2>1. Rebase!TypeOK'
    BY <1>3 DEF RebaseInv, Rebase!Collect, Rebase!TypeOK, Rebase!CallAt, Rebase!Answers, Rebase!AtBridge
  <2>2. (ClientInv /\ UnmadeInv(Rebase!Sessions) /\ SpawnInv(Rebase!Sessions) /\ AliveInv(Rebase!Sessions)
        /\ Rebase!ResultIsFinal)'
    BY <1>3 DEF RebaseInv, Rebase!Collect, ClientInv, UnmadeInv, SpawnInv, AliveInv, Steps,
       Rebase!ResultIsFinal, Rebase!Running, Rebase!TypeOK
  <2>3. FileInv'
    BY <1>3 DEF RebaseInv, Rebase!Collect, FileInv, AbortedInv
  <2> QED
    BY <2>1, <2>2, <2>3 DEF RebaseInv
<1>4. CASE Rebase!Report(s)
  <2>1. Rebase!TypeOK'
    BY <1>4 DEF RebaseInv, Rebase!Report, Rebase!Outcome, Rebase!TypeOK, Rebase!CallAt, Rebase!Answers,
       Rebase!AtBridge
  <2>2. (ClientInv /\ UnmadeInv(Rebase!Sessions) /\ SpawnInv(Rebase!Sessions) /\ AliveInv(Rebase!Sessions)
        /\ Rebase!ResultIsFinal)'
    BY <1>4 DEF RebaseInv, Rebase!Report, ClientInv, UnmadeInv, SpawnInv, AliveInv, Steps,
       Rebase!ResultIsFinal, Rebase!Running, Rebase!TypeOK
  <2>3. FileInv'
    BY <1>4 DEF RebaseInv, Rebase!Report, FileInv, AbortedInv
  <2> QED
    BY <2>1, <2>2, <2>3 DEF RebaseInv
<1> QED
  BY <1>1, <1>2, <1>3, <1>4 DEF Rebase!GitStep
\* The requests of git's editor, and what an error of theirs brings about.
LEMMA RebaseEditor ==
  ASSUME RebaseInv, NEW e \in RebaseEdits, Rebase!EditStep(e)
  PROVE  RebaseInv'
<1> USE RebaseSessions DEF place, mine, Rebase!manager, Rebase!process, Rebase!session, Rebase!editing,
       Rebase!calls
<1>1. CASE Rebase!OpenEdit(e)
  <2> PICK s \in Rebase!Sessions :
           /\ Rebase!GetOrCreate(s) /\ Rebase!LockFree(s)
           /\ \/ /\ edit' = [edit EXCEPT ![e] = "open"]
                 /\ pending' = [pending EXCEPT ![s] = e]
                 /\ \E there \in {"there", "moved"} : file' = [file EXCEPT ![e] = there]
              \/ edit' = [edit EXCEPT ![e] = "failed"] /\ UNCHANGED <<pending, file>>
    BY <1>1 DEF Rebase!OpenEdit
  <2>0. /\ current' \in 0 .. created' /\ 0 .. created \subseteq 0 .. created'
        /\ created' \in 0 .. MaxSessions + Rebase!Cardinality(RebaseEdits)
    BY RebaseGetOrCreate DEF RebaseInv
  <2>1. Rebase!TypeOK'
    <3>1. /\ edit' \in [RebaseEdits -> Rebase!AtBridge \cup {"unused", "ok", "error"}]
          /\ pending' \in [Rebase!Sessions -> RebaseEdits \cup {None}]
          /\ file' \in [RebaseEdits -> {"there", "moved"}]
      <4>1. ASSUME NEW there \in {"there", "moved"}, file' = [file EXCEPT ![e] = there]
            PROVE  file' \in [RebaseEdits -> {"there", "moved"}]
        BY <4>1 DEF RebaseInv, Rebase!TypeOK
      <4>2. file' \in [RebaseEdits -> {"there", "moved"}]
        BY <4>1 DEF RebaseInv, Rebase!TypeOK
      <4>3. edit' \in [RebaseEdits -> Rebase!AtBridge \cup {"unused", "ok", "error"}]
        BY DEF RebaseInv, Rebase!TypeOK, Rebase!AtBridge
      <4>4. pending' \in [Rebase!Sessions -> RebaseEdits \cup {None}]
        BY DEF RebaseInv, Rebase!TypeOK
      <4> QED
        BY <4>2, <4>3, <4>4
    <3>2. owner \in [RebaseEdits -> 0 .. created'] /\ my \in [{Operator} -> 0 .. created']
      BY <2>0 DEF RebaseInv, Rebase!TypeOK
    <3> QED
      BY <1>1, <2>0, <3>1, <3>2 DEF RebaseInv, Rebase!OpenEdit, Rebase!TypeOK
  <2>2. (ClientInv /\ UnmadeInv(Rebase!Sessions) /\ SpawnInv(Rebase!Sessions) /\ AliveInv(Rebase!Sessions)
        /\ Rebase!ResultIsFinal)'
    <3>1. ClientInv' /\ UnmadeInv(Rebase!Sessions)'
      BY <1>1 DEF RebaseInv, Rebase!OpenEdit, Rebase!GetOrCreate, ClientInv, UnmadeInv, Steps, Rebase!TypeOK
    <3>2. SpawnInv(Rebase!Sessions)'
      BY <1>1 DEF RebaseInv, Rebase!OpenEdit, Rebase!GetOrCreate, ClientInv, UnmadeInv, SpawnInv, Steps,
         Rebase!TypeOK
    <3>3. AliveInv(Rebase!Sessions)' /\ Rebase!ResultIsFinal'
      BY <1>1 DEF RebaseInv, Rebase!OpenEdit, Rebase!GetOrCreate, ClientInv, UnmadeInv, AliveInv, Steps,
         Rebase!ResultIsFinal, Rebase!Running, Rebase!TypeOK
    <3> QED
      BY <3>1, <3>2, <3>3
  <2>3. FileInv'
    BY <1>1, SMTT(30) DEF RebaseInv, Rebase!OpenEdit, Rebase!GetOrCreate, Rebase!Accepts, Rebase!NeedsEdit,
       Rebase!LockFree, FileInv, AbortedInv, Rebase!TypeOK
  <2> QED
    BY <2>1, <2>2, <2>3 DEF RebaseInv
<1>2. CASE Rebase!Expire(e)
  <2>1. Rebase!TypeOK'
    BY <1>2 DEF RebaseInv, Rebase!Expire, Rebase!TypeOK, Rebase!CallAt, Rebase!Answers, Rebase!AtBridge
  <2>2. (ClientInv /\ UnmadeInv(Rebase!Sessions) /\ SpawnInv(Rebase!Sessions) /\ AliveInv(Rebase!Sessions)
        /\ Rebase!ResultIsFinal)'
    BY <1>2 DEF RebaseInv, Rebase!Expire, ClientInv, UnmadeInv, SpawnInv, AliveInv, Steps,
       Rebase!ResultIsFinal, Rebase!Running, Rebase!TypeOK
  <2>3. FileInv'
    BY <1>2 DEF RebaseInv, Rebase!Expire, FileInv, AbortedInv, Rebase!TypeOK
  <2> QED
    BY <2>1, <2>2, <2>3 DEF RebaseInv
<1>3. CASE Rebase!ExpiredReplies(e)
  <2>1. Rebase!TypeOK'
    BY <1>3 DEF RebaseInv, Rebase!ExpiredReplies, Rebase!Reply, Rebase!LockFree, Rebase!TypeOK, Rebase!CallAt,
       Rebase!Answers, Rebase!AtBridge
  <2>2. (ClientInv /\ UnmadeInv(Rebase!Sessions) /\ SpawnInv(Rebase!Sessions) /\ AliveInv(Rebase!Sessions)
        /\ Rebase!ResultIsFinal)'
    BY <1>3 DEF RebaseInv, Rebase!ExpiredReplies, Rebase!Reply, Rebase!LockFree, ClientInv, UnmadeInv,
       SpawnInv, AliveInv, Steps, Rebase!ResultIsFinal, Rebase!Running, Rebase!TypeOK
  <2>3. FileInv'
    BY <1>3 DEF RebaseInv, Rebase!ExpiredReplies, Rebase!Reply, Rebase!LockFree, FileInv, AbortedInv,
       Rebase!TypeOK
  <2> QED
    BY <2>1, <2>2, <2>3 DEF RebaseInv
<1>4. CASE Rebase!BridgeReplies(e)
  <2>1. Rebase!TypeOK'
    BY <1>4 DEF RebaseInv, Rebase!BridgeReplies, Rebase!Reply, Rebase!TypeOK, Rebase!CallAt, Rebase!Answers,
       Rebase!AtBridge
  <2>2. (ClientInv /\ UnmadeInv(Rebase!Sessions) /\ SpawnInv(Rebase!Sessions) /\ AliveInv(Rebase!Sessions)
        /\ Rebase!ResultIsFinal)'
    BY <1>4 DEF RebaseInv, Rebase!BridgeReplies, Rebase!Reply, ClientInv, UnmadeInv, SpawnInv, AliveInv, Steps,
       Rebase!ResultIsFinal, Rebase!Running, Rebase!TypeOK
  <2>3. FileInv'
    BY <1>4 DEF RebaseInv, Rebase!BridgeReplies, Rebase!Reply, FileInv, AbortedInv, Rebase!TypeOK
  <2> QED
    BY <2>1, <2>2, <2>3 DEF RebaseInv
<1> QED
  BY <1>1, <1>2, <1>3, <1>4 DEF Rebase!EditStep

\* An abort scheduled for an operation that is already over preserves the invariant.
LEMMA RebaseLateAbort ==
  ASSUME RebaseInv, NEW o \in late, Rebase!LateAbort(o)
  PROVE  RebaseInv'
<1> USE RebaseSessions DEF place, mine, Rebase!manager, Rebase!process, Rebase!session, Rebase!editing,
       Rebase!calls
<1>1. CASE Rebase!LateAbort(o)
  <2>1. Rebase!TypeOK'
    BY <1>1 DEF RebaseInv, Rebase!LateAbort, Rebase!TypeOK, Rebase!CallAt, Rebase!Answers, Rebase!AtBridge
  <2>2. (ClientInv /\ UnmadeInv(Rebase!Sessions) /\ SpawnInv(Rebase!Sessions) /\ AliveInv(Rebase!Sessions)
        /\ Rebase!ResultIsFinal)'
    BY <1>1 DEF RebaseInv, Rebase!LateAbort, ClientInv, UnmadeInv, SpawnInv, AliveInv, Steps,
       Rebase!ResultIsFinal, Rebase!Running, Rebase!TypeOK
  <2>3. FileInv'
    BY <1>1 DEF RebaseInv, Rebase!LateAbort, FileInv, AbortedInv, Rebase!TypeOK
  <2> QED
    BY <2>1, <2>2, <2>3 DEF RebaseInv
<1> QED
  BY <1>1
\* A call returns, and may take the session it has finished from the repository.
LEMMA RebaseReturn ==
  ASSUME RebaseInv, NEW state \in Rebase!Answers, place \in {"advancing", "waiting", "nothing"},
         Rebase!Return(Operator, state), state = "needs_edit" => pending[mine] \in RebaseEdits,
         UNCHANGED <<Rebase!process, Rebase!session, Rebase!editing, operation, late>>
  PROVE  RebaseInv'
<1> USE RebaseSessions DEF place, mine, Rebase!manager, Rebase!process, Rebase!session, Rebase!editing,
       Rebase!calls, Rebase!Goto
<1>1. Rebase!TypeOK'
  BY DEF RebaseInv, Rebase!Return, Rebase!Removable, Rebase!Running, Rebase!TypeOK, Rebase!CallAt,
     Rebase!Answers, Rebase!AtBridge
<1>2. (ClientInv /\ UnmadeInv(Rebase!Sessions) /\ SpawnInv(Rebase!Sessions) /\ AliveInv(Rebase!Sessions)
      /\ Rebase!ResultIsFinal)'
  BY DEF RebaseInv, Rebase!Return, Rebase!Removable, Rebase!Running, ClientInv, UnmadeInv, SpawnInv, AliveInv,
     Steps, Rebase!ResultIsFinal, Rebase!Running, Rebase!TypeOK
<1>3. FileInv'
  BY DEF RebaseInv, Rebase!Return, Rebase!Removable, Rebase!Running, FileInv, AbortedInv, Rebase!TypeOK
<1> QED
  BY <1>1, <1>2, <1>3 DEF RebaseInv

\* A step that begins finds or makes the session.
LEMMA RebaseBegins ==
  ASSUME RebaseInv, \E has \in BOOLEAN : Rebase!BeginStep(Operator, has)
  PROVE  RebaseInv'
<1> USE RebaseSessions DEF place, mine, Rebase!manager, Rebase!process, Rebase!session, Rebase!editing,
       Rebase!calls, Rebase!Goto
<1> PICK has \in BOOLEAN : Rebase!BeginStep(Operator, has)
  OBVIOUS
<1> PICK s \in Rebase!Sessions : /\ Rebase!GetOrCreate(s) /\ my' = [my EXCEPT ![Operator] = s]
                                 /\ sessionPc' = [sessionPc EXCEPT ![Operator] = IF Rebase!Idle(s) THEN "launching" ELSE "advancing"]
  BY DEF Rebase!BeginStep
<1>0. /\ current' = s /\ s \in 0 .. created'
      /\ created \in Nat /\ created' \in 0 .. MaxSessions + Rebase!Cardinality(RebaseEdits)
      /\ 0 .. created \subseteq 0 .. created'
      /\ (current # 0 => s = current /\ created' = created) /\ (current = 0 => s > created)
  BY RebaseGetOrCreate DEF RebaseInv
<1>p. place = "idle" /\ place' \in {"launching", "advancing"} /\ mine' = s
  BY DEF RebaseInv, Rebase!TypeOK, Rebase!BeginStep
<1>1. Rebase!TypeOK'
  <2>1. sessionPc' \in [{Operator} -> Rebase!CallAt] /\ my' \in [{Operator} -> 0 .. created']
    BY <1>0 DEF RebaseInv, Rebase!TypeOK, Rebase!CallAt
  <2>2. hasEdit' \in [{Operator} -> BOOLEAN]
    BY DEF RebaseInv, Rebase!TypeOK, Rebase!BeginStep
  <2>3. owner \in [RebaseEdits -> 0 .. created']
    BY <1>0 DEF RebaseInv, Rebase!TypeOK
  <2> QED
    BY <1>0, <2>1, <2>2, <2>3 DEF RebaseInv, Rebase!TypeOK, Rebase!BeginStep
<1>2. (ClientInv /\ UnmadeInv(Rebase!Sessions) /\ SpawnInv(Rebase!Sessions) /\ AliveInv(Rebase!Sessions)
      /\ Rebase!ResultIsFinal)'
  BY <1>0, <1>p DEF RebaseInv, Rebase!BeginStep, ClientInv, UnmadeInv, SpawnInv, AliveInv, Steps,
     Rebase!ResultIsFinal, Rebase!Running, Rebase!TypeOK
<1>3. FileInv'
  BY <1>0 DEF RebaseInv, Rebase!BeginStep, FileInv, AbortedInv, Rebase!TypeOK
<1> QED
  BY <1>1, <1>2, <1>3 DEF RebaseInv

\* Starting git preserves the invariant.
LEMMA RebaseStarts == RebaseInv /\ Rebase!StartGit(Operator) => RebaseInv'
<1> SUFFICES ASSUME RebaseInv, Rebase!StartGit(Operator) PROVE RebaseInv'
  OBVIOUS
<1> USE RebaseSessions DEF place, mine, Rebase!manager, Rebase!process, Rebase!session, Rebase!editing,
       Rebase!calls, Rebase!Goto
<1>0. /\ place = "launching" /\ mine = current /\ current \in Rebase!Sessions
  BY DEF RebaseInv, Rebase!StartGit, ClientInv, Steps, Rebase!TypeOK
<1>l. Rebase!Cardinality({c \in {Operator} : sessionPc[c] = "spawning"}) = 0
  <2>1. {c \in {Operator} : sessionPc[c] = "spawning"} = {}
    BY <1>0
  <2>2. Rebase!Cardinality({}) = Cardinality({})
    BY DEF Rebase!Cardinality, Cardinality, Rebase!IsFiniteSet, IsFiniteSet
  <2> QED
    BY <2>1, <2>2, FS_EmptySet
<1>m. runs < MaxRuns
  BY <1>l DEF Rebase!StartGit, Rebase!MayRun, RebaseInv, Rebase!TypeOK
<1>s. /\ UNCHANGED Rebase!manager /\ Rebase!LockFree(current) /\ git[current] # "collected"
      /\ IF ~Rebase!MayStart(current)
         THEN sessionPc' = [sessionPc EXCEPT ![Operator] = "advancing"] /\ UNCHANGED Rebase!session
         ELSE /\ sessionPc' = [sessionPc EXCEPT ![Operator] = "spawning"]
              /\ spawner' = [spawner EXCEPT ![current] = Operator]
              /\ result' = [result EXCEPT ![current] = "none"]
              /\ pending' = [pending EXCEPT ![current] = None]
              /\ timedOut' = [timedOut EXCEPT ![current] = FALSE]
              /\ aborting' = [aborting EXCEPT ![current] = FALSE]
      /\ UNCHANGED <<Rebase!process, Rebase!editing, operation, late, my, hasEdit, answer, shown>>
  BY <1>0 DEF Rebase!StartGit, Rebase!GetOrCreate, Rebase!Cleared
<1> HIDE DEF Rebase!StartGit
<1>1. Rebase!TypeOK'
  <2>1. sessionPc' \in [{Operator} -> Rebase!CallAt]
    BY <1>s DEF RebaseInv, Rebase!TypeOK, Rebase!CallAt
  <2>2. /\ spawner' \in [Rebase!Sessions -> {Operator} \cup {None}]
        /\ result' \in [Rebase!Sessions -> {"none", "completed", "error", "aborted"}]
        /\ pending' \in [Rebase!Sessions -> RebaseEdits \cup {None}]
        /\ timedOut' \in [Rebase!Sessions -> BOOLEAN] /\ aborting' \in [Rebase!Sessions -> BOOLEAN]
    BY <1>s, ZenonT(60) DEF RebaseInv, Rebase!TypeOK
  <2>3. UNCHANGED <<Rebase!manager, Rebase!process, Rebase!editing, operation, late, my, hasEdit, answer, shown>>
    BY <1>s
  <2> QED
    BY <2>1, <2>2, <2>3 DEF RebaseInv, Rebase!TypeOK
<1>2. (ClientInv /\ UnmadeInv(Rebase!Sessions) /\ SpawnInv(Rebase!Sessions) /\ AliveInv(Rebase!Sessions)
      /\ Rebase!ResultIsFinal)'
  <2>1. ClientInv' /\ UnmadeInv(Rebase!Sessions)'
    BY <1>0, <1>s DEF RebaseInv, ClientInv, UnmadeInv, Steps, Rebase!TypeOK
  <2>2. SpawnInv(Rebase!Sessions)'
    BY <1>0, <1>m, <1>s DEF RebaseInv, ClientInv, SpawnInv, Steps, Rebase!Running, Rebase!TypeOK,
       Rebase!MayStart
  <2>3. AliveInv(Rebase!Sessions)' /\ Rebase!ResultIsFinal'
    BY <1>0, <1>s DEF RebaseInv, AliveInv, Rebase!ResultIsFinal, Rebase!Running, Rebase!TypeOK, Steps
  <2> QED
    BY <2>1, <2>2, <2>3
<1>3. FileInv'
  BY <1>0, <1>s DEF RebaseInv, FileInv, AbortedInv, Rebase!TypeOK
<1> QED
  BY <1>1, <1>2, <1>3 DEF RebaseInv
\* git runs in the session whose lock the spawn held.
LEMMA RebaseSpawned == RebaseInv /\ Rebase!Spawned(Operator) => RebaseInv'
<1> SUFFICES ASSUME RebaseInv, Rebase!Spawned(Operator) PROVE RebaseInv'
  OBVIOUS
<1> USE RebaseSessions DEF place, mine, Rebase!manager, Rebase!process, Rebase!session, Rebase!editing,
       Rebase!calls, Rebase!Goto
<1>a. /\ place = "spawning" /\ mine = current /\ current \in Rebase!Sessions /\ spawner[current] = Operator
      /\ \A s \in Rebase!Sessions : spawner[s] = Operator => s = current
  BY DEF RebaseInv, Rebase!Spawned, ClientInv, SpawnInv, Steps, Rebase!TypeOK
<1>0. /\ place = "spawning" /\ mine = current /\ current \in Rebase!Sessions
      /\ spawner' = [spawner EXCEPT ![current] = None] /\ git' = [git EXCEPT ![current] = "alive"]
      /\ owner' = [e \in RebaseEdits |-> IF owner[e] = current THEN 0 ELSE owner[e]]
  <2>1. PICK s \in Rebase!Sessions :
          /\ spawner[s] = Operator
          /\ spawner' = [spawner EXCEPT ![s] = None] /\ git' = [git EXCEPT ![s] = "alive"]
          /\ owner' = [e \in RebaseEdits |-> IF owner[e] = s THEN 0 ELSE owner[e]]
    BY DEF Rebase!Spawned
  <2>2. s = current
    BY <1>a, <2>1
  <2> QED
    BY <1>a, <2>1, <2>2
<1>b. /\ runs' = runs + 1 /\ operation' \in {operation, runs'}
      /\ sessionPc' = [sessionPc EXCEPT ![Operator] = "waiting"]
      /\ UNCHANGED <<current, created, code, result, pending, timedOut, aborting, edit, file, late, my,
            hasEdit, answer, shown>>
  BY <1>a DEF Rebase!Spawned
<1>1. Rebase!TypeOK'
  <2>1. runs \in Nat /\ runs < MaxRuns
    BY <1>a DEF RebaseInv, SpawnInv, Rebase!TypeOK
  <2>2. runs' \in 0 .. MaxRuns /\ operation' \in 0 .. MaxRuns
    BY <1>b, <2>1 DEF RebaseInv, Rebase!TypeOK
  <2>3. owner' \in [RebaseEdits -> 0 .. created]
    BY <1>0 DEF RebaseInv, Rebase!TypeOK
  <2>4. /\ git' \in [Rebase!Sessions -> {"none", "alive", "exited", "collected", "reported"}]
        /\ spawner' \in [Rebase!Sessions -> {Operator} \cup {None}]
        /\ sessionPc' \in [{Operator} -> Rebase!CallAt]
    BY <1>0, <1>b DEF RebaseInv, Rebase!TypeOK, Rebase!CallAt
  <2> QED
    BY <1>b, <2>2, <2>3, <2>4 DEF RebaseInv, Rebase!TypeOK
<1>2. (ClientInv /\ UnmadeInv(Rebase!Sessions) /\ SpawnInv(Rebase!Sessions) /\ AliveInv(Rebase!Sessions)
      /\ Rebase!ResultIsFinal)'
  <2>1. ClientInv' /\ UnmadeInv(Rebase!Sessions)'
    BY <1>0, <1>b DEF RebaseInv, ClientInv, UnmadeInv, Steps, Rebase!TypeOK
  <2>2. SpawnInv(Rebase!Sessions)'
    BY <1>0, <1>b DEF RebaseInv, SpawnInv, Rebase!TypeOK
  <2>3. AliveInv(Rebase!Sessions)' /\ Rebase!ResultIsFinal'
    BY <1>0, <1>b DEF RebaseInv, SpawnInv, AliveInv, Rebase!ResultIsFinal, Rebase!Running, Rebase!TypeOK
  <2> QED
    BY <2>1, <2>2, <2>3
<1>3. FileInv'
  BY <1>0 DEF RebaseInv, Rebase!Spawned, FileInv, AbortedInv, Rebase!TypeOK
<1> QED
  BY <1>1, <1>2, <1>3 DEF RebaseInv

\* The file is moved back before the editor is answered.
LEMMA RebaseSubmits == RebaseInv /\ Rebase!Submit(Operator) => RebaseInv'
<1> SUFFICES ASSUME RebaseInv, Rebase!Submit(Operator) PROVE RebaseInv'
  OBVIOUS
<1> USE RebaseSessions DEF place, mine, Rebase!manager, Rebase!process, Rebase!session, Rebase!editing,
       Rebase!calls, Rebase!Goto
<1>a. mine \in Rebase!Sessions /\ pending[mine] # None
  BY DEF RebaseInv, Rebase!Submit, Rebase!NeedsEdit, ClientInv, Steps, Rebase!TypeOK
<1>0. mine \in Rebase!Sessions /\ pending[mine] \in RebaseEdits
  BY <1>a DEF RebaseInv, Rebase!TypeOK
<1>1. Rebase!TypeOK'
  BY <1>0 DEF RebaseInv, Rebase!Submit, Rebase!LockFree, Rebase!NeedsEdit, Rebase!SyncedBack,
     Rebase!AfterSubmit, Rebase!GoOn, Rebase!TypeOK, Rebase!CallAt, Rebase!Answers, Rebase!AtBridge
<1>2. (ClientInv /\ UnmadeInv(Rebase!Sessions) /\ SpawnInv(Rebase!Sessions) /\ AliveInv(Rebase!Sessions)
      /\ Rebase!ResultIsFinal)'
  BY <1>0 DEF RebaseInv, Rebase!Submit, Rebase!LockFree, Rebase!NeedsEdit, Rebase!SyncedBack,
     Rebase!AfterSubmit, Rebase!GoOn, ClientInv, UnmadeInv, SpawnInv, AliveInv, Steps, Rebase!ResultIsFinal,
        Rebase!Running, Rebase!TypeOK
<1>3. FileInv'
  BY <1>0 DEF RebaseInv, Rebase!Submit, Rebase!LockFree, Rebase!NeedsEdit, Rebase!SyncedBack,
     Rebase!AfterSubmit, Rebase!GoOn, FileInv, AbortedInv, Rebase!TypeOK
<1> QED
  BY <1>1, <1>2, <1>3 DEF RebaseInv

\* Taking the session from the repository preserves the invariant.
LEMMA RebasePops == RebaseInv /\ Rebase!PopSession(Operator) => RebaseInv'
<1> SUFFICES ASSUME RebaseInv, Rebase!PopSession(Operator) PROVE RebaseInv'
  OBVIOUS
<1> USE RebaseSessions DEF place, mine, Rebase!manager, Rebase!process, Rebase!session, Rebase!editing,
       Rebase!calls, Rebase!Goto
<1>1. Rebase!TypeOK'
  BY DEF RebaseInv, Rebase!PopSession, Rebase!TypeOK, Rebase!CallAt, Rebase!Answers, Rebase!AtBridge
<1>2. (ClientInv /\ UnmadeInv(Rebase!Sessions) /\ SpawnInv(Rebase!Sessions) /\ AliveInv(Rebase!Sessions)
      /\ Rebase!ResultIsFinal)'
  BY DEF RebaseInv, Rebase!PopSession, ClientInv, UnmadeInv, SpawnInv, AliveInv, Steps, Rebase!ResultIsFinal,
     Rebase!Running, Rebase!TypeOK
<1>3. FileInv'
  BY DEF RebaseInv, Rebase!PopSession, FileInv, AbortedInv, Rebase!TypeOK
<1> QED
  BY <1>1, <1>2, <1>3 DEF RebaseInv

\* A session with git is only aborted when its git has ended.
LEMMA RebaseAborts == RebaseInv /\ Rebase!Abort(Operator) => RebaseInv'
<1> SUFFICES ASSUME RebaseInv, Rebase!Abort(Operator) PROVE RebaseInv'
  OBVIOUS
<1> USE RebaseSessions DEF place, mine, Rebase!manager, Rebase!process, Rebase!session, Rebase!editing,
       Rebase!calls, Rebase!Goto
<1>0. mine \in Rebase!Sessions
  BY DEF RebaseInv, Rebase!Abort, ClientInv, Rebase!TypeOK
<1>e. /\ aborting' = [aborting EXCEPT ![mine] = TRUE] /\ UNCHANGED <<current, created>>
      /\ mine # current /\ mine <= created
  BY DEF RebaseInv, Rebase!Abort, ClientInv, Rebase!TypeOK
<1>f. \/ UNCHANGED <<edit, file>>
      \/ \E e \in RebaseEdits : \E to \in {"there", file[e]} :
           /\ file' = [file EXCEPT ![e] = to]
           /\ edit' = [edit EXCEPT ![e] = IF @ = "open" THEN "failed" ELSE @]
  <2>1. CASE pending[mine] = None
    BY <2>1 DEF Rebase!Abort
  <2>2. CASE pending[mine] \in RebaseEdits
    BY <2>2 DEF Rebase!Abort, Rebase!Restored
  <2> QED
    BY <1>0, <2>1, <2>2, ZenonT(60) DEF RebaseInv, Rebase!TypeOK
<1>g. /\ file' \in [RebaseEdits -> {"there", "moved"}]
      /\ edit' \in [RebaseEdits -> Rebase!AtBridge \cup {"unused", "ok", "error"}]
  <2>1. CASE UNCHANGED <<edit, file>>
    BY <2>1 DEF RebaseInv, Rebase!TypeOK
  <2>2. ASSUME NEW e \in RebaseEdits, NEW to \in {"there", file[e]},
               file' = [file EXCEPT ![e] = to],
               edit' = [edit EXCEPT ![e] = IF @ = "open" THEN "failed" ELSE @]
        PROVE  /\ file' \in [RebaseEdits -> {"there", "moved"}]
               /\ edit' \in [RebaseEdits -> Rebase!AtBridge \cup {"unused", "ok", "error"}]
    <3>1. to \in {"there", "moved"}
      BY DEF RebaseInv, Rebase!TypeOK
    <3>2. file' \in [RebaseEdits -> {"there", "moved"}]
      BY <2>2, <3>1 DEF RebaseInv, Rebase!TypeOK
    <3>3. edit' \in [RebaseEdits -> Rebase!AtBridge \cup {"unused", "ok", "error"}]
      BY <2>2 DEF RebaseInv, Rebase!TypeOK, Rebase!AtBridge
    <3> QED
      BY <3>2, <3>3
  <2> QED
    BY <1>f, <2>1, <2>2
<1>1. Rebase!TypeOK'
  <2>1. /\ aborting' \in [Rebase!Sessions -> BOOLEAN]
           /\ pending' \in [Rebase!Sessions -> RebaseEdits \cup {None}]
        /\ result' \in [Rebase!Sessions -> {"none", "completed", "error", "aborted"}]
        /\ sessionPc' \in [{Operator} -> Rebase!CallAt]
    BY <1>0, ZenonT(60) DEF RebaseInv, Rebase!Abort, Rebase!TypeOK, Rebase!CallAt
  <2>2. UNCHANGED <<current, created, git, code, runs, timedOut, spawner, operation, late, my, hasEdit, answer,
           shown, owner>>
    BY DEF Rebase!Abort
  <2> QED
    BY <1>g, <2>1, <2>2 DEF RebaseInv, Rebase!TypeOK
<1>2. (ClientInv /\ UnmadeInv(Rebase!Sessions) /\ SpawnInv(Rebase!Sessions) /\ AliveInv(Rebase!Sessions)
      /\ Rebase!ResultIsFinal)'
  BY <1>0 DEF RebaseInv, Rebase!Abort, Rebase!LockFree, ClientInv, UnmadeInv, SpawnInv, AliveInv, Steps,
     Rebase!ResultIsFinal, Rebase!Running, Rebase!TypeOK
<1>3. FileInv'
  <2>1. AbortedInv'
    BY <1>0, <1>e DEF RebaseInv, FileInv, AbortedInv, Rebase!TypeOK
  <2>2. CASE UNCHANGED <<edit, file>>
    BY <1>0, <1>e, <2>1, <2>2 DEF RebaseInv, FileInv, Rebase!TypeOK
  <2>3. ASSUME NEW e \in RebaseEdits, NEW to \in {"there", file[e]},
               file' = [file EXCEPT ![e] = to],
               edit' = [edit EXCEPT ![e] = IF @ = "open" THEN "failed" ELSE @]
        PROVE  FileInv'
    BY <1>0, <1>e, <2>1, <2>3 DEF RebaseInv, FileInv, Rebase!TypeOK
  <2> QED
    BY <1>f, <2>2, <2>3
<1> QED
  BY <1>1, <1>2, <1>3 DEF RebaseInv

\* Terminating the git of an aborted session preserves the invariant.
LEMMA RebaseTerminates == RebaseInv /\ Rebase!Terminate(Operator) => RebaseInv'
<1> SUFFICES ASSUME RebaseInv, Rebase!Terminate(Operator) PROVE RebaseInv'
  OBVIOUS
<1> USE RebaseSessions DEF place, mine, Rebase!manager, Rebase!process, Rebase!session, Rebase!editing,
       Rebase!calls, Rebase!Goto
<1>1. Rebase!TypeOK'
  BY DEF RebaseInv, Rebase!Terminate, Rebase!TypeOK, Rebase!CallAt, Rebase!Answers, Rebase!AtBridge
<1>2. (ClientInv /\ UnmadeInv(Rebase!Sessions) /\ SpawnInv(Rebase!Sessions) /\ AliveInv(Rebase!Sessions)
      /\ Rebase!ResultIsFinal)'
  BY DEF RebaseInv, Rebase!Terminate, ClientInv, UnmadeInv, SpawnInv, AliveInv, Steps, Rebase!ResultIsFinal,
     Rebase!Running, Rebase!TypeOK
<1>3. FileInv'
  BY DEF RebaseInv, Rebase!Terminate, FileInv, AbortedInv, Rebase!TypeOK
<1> QED
  BY <1>1, <1>2, <1>3 DEF RebaseInv

\* Waiting for the terminated git preserves the invariant.
LEMMA RebaseWaits == RebaseInv /\ Rebase!AbortWaited(Operator) => RebaseInv'
<1> SUFFICES ASSUME RebaseInv, Rebase!AbortWaited(Operator) PROVE RebaseInv'
  OBVIOUS
<1> USE RebaseSessions DEF place, mine, Rebase!manager, Rebase!process, Rebase!session, Rebase!editing,
       Rebase!calls, Rebase!Goto
<1>1. Rebase!TypeOK'
  BY DEF RebaseInv, Rebase!AbortWaited, Rebase!Ended, Rebase!TypeOK, Rebase!CallAt, Rebase!Answers,
     Rebase!AtBridge
<1>2. (ClientInv /\ UnmadeInv(Rebase!Sessions) /\ SpawnInv(Rebase!Sessions) /\ AliveInv(Rebase!Sessions)
      /\ Rebase!ResultIsFinal)'
  BY DEF RebaseInv, Rebase!AbortWaited, Rebase!Ended, ClientInv, UnmadeInv, SpawnInv, AliveInv, Steps,
     Rebase!ResultIsFinal, Rebase!Running, Rebase!TypeOK
<1>3. FileInv'
  BY DEF RebaseInv, Rebase!AbortWaited, Rebase!Ended, FileInv, AbortedInv, Rebase!TypeOK
<1> QED
  BY <1>1, <1>2, <1>3 DEF RebaseInv

\* The end of an abort preserves the invariant.
LEMMA RebaseAborted == RebaseInv /\ Rebase!AbortReturns(Operator) => RebaseInv'
<1> SUFFICES ASSUME RebaseInv, Rebase!AbortReturns(Operator) PROVE RebaseInv'
  OBVIOUS
<1> USE RebaseSessions DEF place, mine, Rebase!manager, Rebase!process, Rebase!session, Rebase!editing,
       Rebase!calls, Rebase!Goto
<1>1. Rebase!TypeOK'
  BY DEF RebaseInv, Rebase!AbortReturns, Rebase!TypeOK, Rebase!CallAt, Rebase!Answers, Rebase!AtBridge
<1>2. (ClientInv /\ UnmadeInv(Rebase!Sessions) /\ SpawnInv(Rebase!Sessions) /\ AliveInv(Rebase!Sessions)
      /\ Rebase!ResultIsFinal)'
  BY DEF RebaseInv, Rebase!AbortReturns, ClientInv, UnmadeInv, SpawnInv, AliveInv, Steps, Rebase!ResultIsFinal,
     Rebase!Running, Rebase!TypeOK
<1>3. FileInv'
  BY DEF RebaseInv, Rebase!AbortReturns, FileInv, AbortedInv, Rebase!TypeOK
<1> QED
  BY <1>1, <1>2, <1>3 DEF RebaseInv

\* What a call answers at once, or waits for.
LEMMA RebaseAnswers ==
  RebaseInv /\ (Rebase!SubmitFails(Operator) \/ Rebase!Advance(Operator) \/ Rebase!Wake(Operator)) => RebaseInv'
<1> SUFFICES ASSUME RebaseInv,
                  Rebase!SubmitFails(Operator) \/ Rebase!Advance(Operator) \/ Rebase!Wake(Operator)
             PROVE  RebaseInv'
  OBVIOUS
<1> USE RebaseSessions
<1>1. mine \in Rebase!Sessions /\ place \in {"advancing", "waiting", "nothing"}
  BY DEF RebaseInv, Rebase!SubmitFails, Rebase!Advance, Rebase!Wake, ClientInv, Steps, Rebase!TypeOK, place,
     mine
<1>2. /\ Rebase!State(mine) \in Rebase!Answers
      /\ Rebase!State(mine) = "needs_edit" => pending[mine] \in RebaseEdits
  <2>1. result[mine] \in {"none", "completed", "error", "aborted"} /\ pending[mine] \in RebaseEdits \cup {None}
    BY <1>1 DEF RebaseInv, Rebase!TypeOK
  <2> QED
    BY <2>1 DEF Rebase!State, Rebase!NeedsEdit, Rebase!Answers
<1>3. CASE Rebase!SubmitFails(Operator)
  <2>1. "refused" \in Rebase!Answers
    BY DEF Rebase!Answers
  <2>2. Rebase!Return(Operator, "refused") /\ UNCHANGED <<Rebase!process, Rebase!session, Rebase!editing,
           operation, late>>
    BY <1>3 DEF Rebase!SubmitFails
  <2> QED
    BY <1>1, <2>1, <2>2, RebaseReturn
<1>4. CASE Rebase!Advance(Operator)
  <2>1. CASE Rebase!State(mine) \in {"needs_edit", "completed", "error"}
    <3>1. Rebase!Return(Operator, Rebase!State(mine)) /\ UNCHANGED <<Rebase!process, Rebase!session,
             Rebase!editing, operation, late>>
      BY <1>4, <2>1 DEF Rebase!Advance, mine
    <3> QED
      BY <1>1, <1>2, <3>1, RebaseReturn
  <2>2. CASE Rebase!State(mine) \notin {"needs_edit", "completed", "error"}
    <3>1. /\ sessionPc' = [sessionPc EXCEPT ![Operator] = "waiting"]
          /\ UNCHANGED <<current, created, my, hasEdit, answer, shown, Rebase!process, Rebase!session,
                Rebase!editing, operation, late>>
      BY <1>4, <2>2 DEF Rebase!Advance, Rebase!Goto, Rebase!manager, mine
    <3> USE DEF place, mine, Rebase!process, Rebase!session, Rebase!editing
    <3>2. Rebase!TypeOK'
      BY <3>1 DEF RebaseInv, Rebase!TypeOK, Rebase!CallAt
    <3>3. (ClientInv /\ UnmadeInv(Rebase!Sessions) /\ SpawnInv(Rebase!Sessions) /\ AliveInv(Rebase!Sessions)
          /\ Rebase!ResultIsFinal)'
      BY <1>1, <3>1 DEF RebaseInv, ClientInv, UnmadeInv, SpawnInv, AliveInv, Steps, Rebase!ResultIsFinal,
         Rebase!Running, Rebase!TypeOK
    <3>4. FileInv'
      BY <3>1 DEF RebaseInv, FileInv, AbortedInv
    <3> QED
      BY <3>2, <3>3, <3>4 DEF RebaseInv
  <2> QED
    BY <2>1, <2>2
<1>5. CASE Rebase!Wake(Operator)
  <2>1. Rebase!Return(Operator, Rebase!State(mine)) /\ UNCHANGED <<Rebase!process, Rebase!session,
           Rebase!editing, operation, late>>
    BY <1>5 DEF Rebase!Wake, mine
  <2> QED
    BY <1>1, <1>2, <2>1, RebaseReturn
<1> QED
  BY <1>3, <1>4, <1>5

\* Every step of a rebase preserves its invariant.
LEMMA RebaseStepInv == RebaseInv /\ [Rebase!Next]_sessionVars => RebaseInv'
<1> SUFFICES ASSUME RebaseInv, [Rebase!Next]_sessionVars PROVE RebaseInv'
  OBVIOUS
<1>1. CASE UNCHANGED sessionVars
  BY <1>1 DEF sessionVars, RebaseInv, Rebase!TypeOK, ClientInv, UnmadeInv, SpawnInv, AliveInv, FileInv,
     AbortedInv,
              Rebase!ResultIsFinal, Rebase!Running, place, mine, Rebase!AtBridge
<1>2. CASE Rebase!CallStep(Operator)
  <2>1. ~Rebase!NothingToMerge(Operator)
    BY DEF Rebase!NothingToMerge
  <2> QED
    BY <1>2, <2>1, RebaseBegins, RebaseStarts, RebaseSpawned, RebaseSubmits, RebaseAnswers, RebasePops,
       RebaseAborts, RebaseTerminates, RebaseWaits, RebaseAborted
       DEF Rebase!CallStep
<1> QED
  BY <1>1, <1>2, RebaseGit, RebaseEditor, RebaseLateAbort DEF Rebase!Next

\* One git at a time, and an abort that returns has ended it.
LEMMA RebaseIsSafe ==
  ASSUME RebaseInv
  PROVE  /\ Rebase!OneGit /\ Rebase!AnsweredFileIsBack
         /\ place = "cleaning" /\ mine # 0 => git[mine] # "alive"
<1> USE RebaseSessions
<1> DEFINE A == {s \in Rebase!Sessions : git[s] = "alive"}
<1>1. \E x : A \subseteq {x}
  <2>1. \A s, t \in A : s = t
    BY DEF RebaseInv, AliveInv, ClientInv
  <2> QED
    BY <2>1
<1>2. Rebase!Cardinality(A) = Cardinality(A)
  BY DEF Rebase!Cardinality, Cardinality, Rebase!IsFiniteSet, IsFiniteSet
<1>3. Cardinality(A) <= 1
  <2> HIDE DEF A
  <2> PICK x : A \subseteq {x}
    BY <1>1
  <2>1. IsFiniteSet({x}) /\ Cardinality({x}) = 1
    BY FS_Singleton
  <2> QED
    BY <2>1, FS_Subset
<1>4. Rebase!OneGit
  BY <1>2, <1>3 DEF Rebase!OneGit
<1>5. Rebase!AnsweredFileIsBack
  BY DEF RebaseInv, FileInv, AbortedInv, Rebase!AnsweredFileIsBack
<1> QED
  BY <1>4, <1>5 DEF RebaseInv, AliveInv

-----------------------------------------------------------------------------
(* A rebase with several edits *)

\* What the constants of such a rebase are.
LEMMA PicksSessions ==
  /\ Picks!Cardinality(PickEdits) \in Nat /\ MaxRuns \in Nat
  /\ Picks!Sessions = 1 .. 1 + Picks!Cardinality(PickEdits)
  /\ None # Operator /\ None \notin PickEdits
<1>1. IsFiniteSet(PickEdits) /\ MaxRuns \in Nat /\ None # Operator /\ None \notin PickEdits
  BY LocalAssumption DEF Picks!SessionAssumption, Picks!IsFiniteSet, IsFiniteSet
<1>2. Picks!Cardinality(PickEdits) = Cardinality(PickEdits)
  BY DEF Picks!Cardinality, Cardinality, Picks!IsFiniteSet, IsFiniteSet
<1> QED
  BY <1>1, <1>2, FS_CardinalityType DEF Picks!Sessions

\* Its invariant holds at first.
LEMMA PicksInit == Picks!Init => PicksInv
<1> SUFFICES ASSUME Picks!Init PROVE PicksInv
  OBVIOUS
<1> USE PicksSessions DEF place, mine
<1>1. Picks!TypeOK
  BY DEF Picks!Init, Picks!TypeOK, Picks!CallAt, Picks!Answers, Picks!AtBridge
<1>2. ClientInv /\ UnmadeInv(Picks!Sessions) /\ SpawnInv(Picks!Sessions) /\ AliveInv(Picks!Sessions) /\ NoAbort
  BY DEF Picks!Init, ClientInv, UnmadeInv, SpawnInv, AliveInv, Steps, NoAbort
<1>3. EditorInv /\ ShownInv
  BY DEF Picks!Init, EditorInv, ShownInv, MayAcknowledge, Picks!AcknowledgedIsShown, Picks!AtBridge
<1> QED
  BY <1>1, <1>2, <1>3 DEF PicksInv

\* The repository's session is made when there is none.
LEMMA PicksGetOrCreate ==
  ASSUME Picks!TypeOK, NEW s \in Picks!Sessions, Picks!GetOrCreate(s)
  PROVE  /\ current' = s /\ s \in 0 .. created'
         /\ created \in Nat /\ created' \in 0 .. 1 + Picks!Cardinality(PickEdits)
         /\ 0 .. created \subseteq 0 .. created'
         /\ current # 0 => s = current /\ created' = created
         /\ current = 0 => s > created
BY PicksSessions DEF Picks!TypeOK, Picks!GetOrCreate, Picks!manager

\* git, its output and its editor.
LEMMA PicksGit ==
  ASSUME PicksInv, NEW s \in Picks!Sessions, Picks!GitStep(s)
  PROVE  PicksInv'
<1> USE PicksSessions DEF place, mine, Picks!manager, Picks!process, Picks!session, Picks!editing, Picks!Goto
<1>1. CASE \E e \in PickEdits : Picks!RunEditor(s, e)
  <2> PICK e \in PickEdits : Picks!RunEditor(s, e)
    BY <1>1
  <2>a. s = current /\ s \in 0 .. created /\ edit[e] = "unused" /\ git[s] = "alive"
    BY DEF PicksInv, Picks!RunEditor, UnmadeInv, AliveInv, NoAbort, Picks!TypeOK
  <2>b. \A f \in PickEdits : edit[f] \notin Picks!AtBridge
    BY <2>a DEF PicksInv, Picks!RunEditor, Picks!AtEditor, EditorInv
  <2>c. /\ edit' = [edit EXCEPT ![e] = "sent"] /\ owner' = [owner EXCEPT ![e] = s]
        /\ \A f \in PickEdits : owner[f] = s => edit[f] = "ok"
        /\ UNCHANGED <<current, created, git, code, runs, result, pending, timedOut, aborting, spawner, file,
              operation,
                       late, sessionPc, my, hasEdit, answer, shown>>
    BY DEF Picks!RunEditor, Picks!calls
  <2> HIDE DEF Picks!RunEditor
  <2>1. Picks!TypeOK'
    BY <2>a, <2>b, <2>c DEF PicksInv, Picks!TypeOK, Picks!CallAt, Picks!Answers, Picks!AtBridge
  <2>2. (ClientInv /\ UnmadeInv(Picks!Sessions) /\ SpawnInv(Picks!Sessions) /\ AliveInv(Picks!Sessions)
        /\ NoAbort)'
    BY <2>a, <2>b, <2>c DEF PicksInv, ClientInv, UnmadeInv, SpawnInv, AliveInv, Steps, NoAbort, Picks!TypeOK
  <2>3. EditorInv'
    BY <2>a, <2>b, <2>c DEF PicksInv, EditorInv, Picks!Running, Picks!AtBridge, Picks!TypeOK, ClientInv,
       AliveInv, SpawnInv, Steps, NoAbort
  <2>4. ShownInv'
    BY <2>a, <2>b, <2>c DEF PicksInv, ShownInv, MayAcknowledge, Picks!AcknowledgedIsShown, EditorInv,
       Picks!AtBridge, Picks!TypeOK, ClientInv, AliveInv, Steps, NoAbort
  <2> QED
    BY <2>1, <2>2, <2>3, <2>4 DEF PicksInv
<1>2. CASE \E how \in {"completed", "error"} : Picks!GitExits(s, how)
  <2> PICK how \in {"completed", "error"} : Picks!GitExits(s, how)
    BY <1>2
  <2>1. Picks!TypeOK'
    BY DEF PicksInv, Picks!GitExits, Picks!calls, Picks!AtEditor, Picks!TypeOK, Picks!CallAt, Picks!Answers,
       Picks!AtBridge
  <2>2. (ClientInv /\ UnmadeInv(Picks!Sessions) /\ SpawnInv(Picks!Sessions) /\ AliveInv(Picks!Sessions)
        /\ NoAbort)'
    BY DEF PicksInv, Picks!GitExits, Picks!calls, Picks!AtEditor, ClientInv, UnmadeInv, SpawnInv, AliveInv,
       Steps, NoAbort, Picks!TypeOK
  <2>3. EditorInv'
    BY DEF PicksInv, Picks!GitExits, Picks!calls, Picks!AtEditor, EditorInv, Picks!Running, Picks!AtBridge,
       Picks!TypeOK, ClientInv, AliveInv, SpawnInv, Steps, NoAbort
  <2>4. ShownInv'
    BY DEF PicksInv, Picks!GitExits, Picks!calls, Picks!AtEditor, ShownInv, MayAcknowledge,
       Picks!AcknowledgedIsShown, EditorInv, Picks!AtBridge, Picks!TypeOK, ClientInv, AliveInv, Steps, NoAbort
  <2> QED
    BY <2>1, <2>2, <2>3, <2>4 DEF PicksInv
<1>3. CASE Picks!Collect(s)
  <2>1. Picks!TypeOK'
    BY <1>3 DEF PicksInv, Picks!Collect, Picks!calls, Picks!AtEditor, Picks!TypeOK, Picks!CallAt,
       Picks!Answers, Picks!AtBridge
  <2>2. (ClientInv /\ UnmadeInv(Picks!Sessions) /\ SpawnInv(Picks!Sessions) /\ AliveInv(Picks!Sessions)
        /\ NoAbort)'
    BY <1>3 DEF PicksInv, Picks!Collect, Picks!calls, Picks!AtEditor, ClientInv, UnmadeInv, SpawnInv, AliveInv,
       Steps, NoAbort, Picks!TypeOK
  <2>3. EditorInv'
    BY <1>3 DEF PicksInv, Picks!Collect, Picks!calls, Picks!AtEditor, EditorInv, Picks!Running, Picks!AtBridge,
       Picks!TypeOK, ClientInv, AliveInv, SpawnInv, Steps, NoAbort
  <2>4. ShownInv'
    BY <1>3 DEF PicksInv, Picks!Collect, Picks!calls, Picks!AtEditor, ShownInv, MayAcknowledge,
       Picks!AcknowledgedIsShown, EditorInv, Picks!AtBridge, Picks!TypeOK, ClientInv, AliveInv, Steps, NoAbort
  <2> QED
    BY <2>1, <2>2, <2>3, <2>4 DEF PicksInv
<1>4. CASE Picks!Report(s)
  <2>1. Picks!TypeOK'
    BY <1>4 DEF PicksInv, Picks!Report, Picks!calls, Picks!Outcome, Picks!TypeOK, Picks!CallAt, Picks!Answers,
       Picks!AtBridge
  <2>2. (ClientInv /\ UnmadeInv(Picks!Sessions) /\ SpawnInv(Picks!Sessions) /\ AliveInv(Picks!Sessions)
        /\ NoAbort)'
    BY <1>4 DEF PicksInv, Picks!Report, Picks!calls, Picks!Outcome, ClientInv, UnmadeInv, SpawnInv, AliveInv,
       Steps, NoAbort, Picks!TypeOK
  <2>3. EditorInv'
    BY <1>4 DEF PicksInv, Picks!Report, Picks!calls, Picks!Outcome, EditorInv, Picks!Running, Picks!AtBridge,
       Picks!TypeOK, ClientInv, AliveInv, SpawnInv, Steps, NoAbort
  <2>4. ShownInv'
    BY <1>4 DEF PicksInv, Picks!Report, Picks!calls, Picks!Outcome, ShownInv, MayAcknowledge,
       Picks!AcknowledgedIsShown, EditorInv, Picks!AtBridge, Picks!TypeOK, ClientInv, AliveInv, Steps, NoAbort
  <2> QED
    BY <2>1, <2>2, <2>3, <2>4 DEF PicksInv
<1> QED
  BY <1>1, <1>2, <1>3, <1>4 DEF Picks!GitStep

\* The requests of git's editor.
LEMMA PicksEditor ==
  ASSUME PicksInv, NEW e \in PickEdits, Picks!EditStep(e)
  PROVE  PicksInv'
<1> USE PicksSessions DEF place, mine, Picks!manager, Picks!process, Picks!session, Picks!editing, Picks!Goto
<1>1. CASE Picks!OpenEdit(e)
  <2>a. /\ edit[e] = "sent" /\ current # 0 /\ current \in Picks!Sessions /\ owner[e] = current
           /\ Picks!Running(current)
        /\ \A f \in PickEdits : edit[f] \in Picks!AtBridge => f = e
        /\ pending[current] = None
    BY <1>1 DEF PicksInv, EditorInv, Picks!OpenEdit, Picks!AtBridge, Picks!TypeOK
  <2>b. /\ edit' = [edit EXCEPT ![e] = "open"] /\ pending' = [pending EXCEPT ![current] = e]
        /\ \E there \in {"there", "moved"} : file' = [file EXCEPT ![e] = there]
        /\ UNCHANGED <<current, created, git, code, runs, result, timedOut, aborting, spawner, owner, operation,
                       late, sessionPc, my, hasEdit, answer, shown>>
    BY <1>1, <2>a DEF Picks!OpenEdit, Picks!GetOrCreate, Picks!Accepts, Picks!NeedsEdit, Picks!calls
  <2> HIDE DEF Picks!OpenEdit
  <2>1. Picks!TypeOK'
    BY <2>a, <2>b DEF PicksInv, Picks!TypeOK, Picks!CallAt, Picks!Answers, Picks!AtBridge
  <2>2. (ClientInv /\ UnmadeInv(Picks!Sessions) /\ SpawnInv(Picks!Sessions) /\ AliveInv(Picks!Sessions)
        /\ NoAbort)'
    BY <2>a, <2>b DEF PicksInv, ClientInv, UnmadeInv, SpawnInv, AliveInv, Steps, NoAbort, Picks!TypeOK
  <2>3. EditorInv'
    BY <2>a, <2>b DEF PicksInv, EditorInv, Picks!Running, Picks!AtBridge, Picks!TypeOK, ClientInv, AliveInv,
       SpawnInv, Steps, NoAbort
  <2>4. ShownInv'
    BY <2>a, <2>b DEF PicksInv, ShownInv, MayAcknowledge, Picks!AcknowledgedIsShown, EditorInv, Picks!AtBridge,
       Picks!TypeOK, ClientInv, AliveInv, Steps, NoAbort
  <2> QED
    BY <2>1, <2>2, <2>3, <2>4 DEF PicksInv
<1>2. CASE Picks!Expire(e)
  <2>1. Picks!TypeOK'
    BY <1>2 DEF PicksInv, Picks!Expire, Picks!calls, Picks!TypeOK, Picks!CallAt, Picks!Answers, Picks!AtBridge
  <2>2. (ClientInv /\ UnmadeInv(Picks!Sessions) /\ SpawnInv(Picks!Sessions) /\ AliveInv(Picks!Sessions)
        /\ NoAbort)'
    BY <1>2 DEF PicksInv, Picks!Expire, Picks!calls, ClientInv, UnmadeInv, SpawnInv, AliveInv, Steps, NoAbort,
       Picks!TypeOK
  <2>3. EditorInv'
    BY <1>2 DEF PicksInv, Picks!Expire, Picks!calls, EditorInv, Picks!Running, Picks!AtBridge, Picks!TypeOK,
       ClientInv, AliveInv, SpawnInv, Steps, NoAbort
  <2>4. ShownInv'
    BY <1>2 DEF PicksInv, Picks!Expire, Picks!calls, ShownInv, MayAcknowledge, Picks!AcknowledgedIsShown,
       EditorInv, Picks!AtBridge, Picks!TypeOK, ClientInv, AliveInv, Steps, NoAbort
  <2> QED
    BY <2>1, <2>2, <2>3, <2>4 DEF PicksInv
<1>3. CASE Picks!ExpiredReplies(e)
  <2>1. Picks!TypeOK'
    BY <1>3 DEF PicksInv, Picks!ExpiredReplies, Picks!Reply, Picks!calls, Picks!TypeOK, Picks!CallAt,
       Picks!Answers, Picks!AtBridge
  <2>2. (ClientInv /\ UnmadeInv(Picks!Sessions) /\ SpawnInv(Picks!Sessions) /\ AliveInv(Picks!Sessions)
        /\ NoAbort)'
    BY <1>3 DEF PicksInv, Picks!ExpiredReplies, Picks!Reply, Picks!calls, ClientInv, UnmadeInv, SpawnInv,
       AliveInv, Steps, NoAbort, Picks!TypeOK
  <2>3. EditorInv'
    BY <1>3 DEF PicksInv, Picks!ExpiredReplies, Picks!Reply, Picks!calls, EditorInv, Picks!Running,
       Picks!AtBridge, Picks!TypeOK, ClientInv, AliveInv, SpawnInv, Steps, NoAbort
  <2>4. ShownInv'
    BY <1>3 DEF PicksInv, Picks!ExpiredReplies, Picks!Reply, Picks!calls, ShownInv, MayAcknowledge,
       Picks!AcknowledgedIsShown, EditorInv, Picks!AtBridge, Picks!TypeOK, ClientInv, AliveInv, Steps, NoAbort
  <2> QED
    BY <2>1, <2>2, <2>3, <2>4 DEF PicksInv
<1>4. CASE Picks!BridgeReplies(e)
  <2>1. Picks!TypeOK'
    BY <1>4 DEF PicksInv, Picks!BridgeReplies, Picks!Reply, Picks!calls, Picks!TypeOK, Picks!CallAt,
       Picks!Answers, Picks!AtBridge
  <2>2. (ClientInv /\ UnmadeInv(Picks!Sessions) /\ SpawnInv(Picks!Sessions) /\ AliveInv(Picks!Sessions)
        /\ NoAbort)'
    BY <1>4 DEF PicksInv, Picks!BridgeReplies, Picks!Reply, Picks!calls, ClientInv, UnmadeInv, SpawnInv,
       AliveInv, Steps, NoAbort, Picks!TypeOK
  <2>3. EditorInv'
    BY <1>4 DEF PicksInv, Picks!BridgeReplies, Picks!Reply, Picks!calls, EditorInv, Picks!Running,
       Picks!AtBridge, Picks!TypeOK, ClientInv, AliveInv, SpawnInv, Steps, NoAbort
  <2>4. ShownInv'
    BY <1>4 DEF PicksInv, Picks!BridgeReplies, Picks!Reply, Picks!calls, ShownInv, MayAcknowledge,
       Picks!AcknowledgedIsShown, EditorInv, Picks!AtBridge, Picks!TypeOK, ClientInv, AliveInv, Steps, NoAbort
  <2> QED
    BY <2>1, <2>2, <2>3, <2>4 DEF PicksInv
<1> QED
  BY <1>1, <1>2, <1>3, <1>4 DEF Picks!EditStep

\* An abort scheduled for an operation that is already over preserves the invariant.
LEMMA PicksLateAbort ==
  ASSUME PicksInv, NEW o \in late, Picks!LateAbort(o)
  PROVE  PicksInv'
<1> USE PicksSessions DEF place, mine, Picks!manager, Picks!process, Picks!session, Picks!editing, Picks!Goto
<1>1. Picks!TypeOK'
  BY DEF PicksInv, Picks!LateAbort, Picks!calls, Picks!TypeOK, Picks!CallAt, Picks!Answers, Picks!AtBridge
<1>2. (ClientInv /\ UnmadeInv(Picks!Sessions) /\ SpawnInv(Picks!Sessions) /\ AliveInv(Picks!Sessions)
      /\ NoAbort)'
  BY DEF PicksInv, Picks!LateAbort, Picks!calls, ClientInv, UnmadeInv, SpawnInv, AliveInv, Steps, NoAbort,
     Picks!TypeOK
<1>3. EditorInv'
  BY DEF PicksInv, Picks!LateAbort, Picks!calls, EditorInv, Picks!Running, Picks!AtBridge, Picks!TypeOK,
     ClientInv, AliveInv, SpawnInv, Steps, NoAbort
<1>4. ShownInv'
  BY DEF PicksInv, Picks!LateAbort, Picks!calls, ShownInv, MayAcknowledge, Picks!AcknowledgedIsShown,
     EditorInv, Picks!AtBridge, Picks!TypeOK, ClientInv, AliveInv, Steps, NoAbort
<1> QED
  BY <1>1, <1>2, <1>3, <1>4 DEF PicksInv

\* A call returns, and may take the session it has finished from the repository: no editor
\* is at work then.
LEMMA PicksReturn ==
  ASSUME PicksInv, NEW state \in Picks!Answers, place \in {"advancing", "waiting", "nothing"},
         Picks!Return(Operator, state),
         state = "needs_edit" => pending[mine] \in PickEdits /\ edit[pending[mine]] = "open",
         UNCHANGED <<Picks!process, Picks!session, Picks!editing, operation, late>>
  PROVE  PicksInv'
<1> USE PicksSessions DEF place, mine, Picks!manager, Picks!process, Picks!session, Picks!editing, Picks!Goto
<1>1. Picks!TypeOK'
  BY DEF PicksInv, Picks!Return, Picks!Removable, Picks!Running, Picks!TypeOK, Picks!CallAt, Picks!Answers,
     Picks!AtBridge
<1>2. (ClientInv /\ UnmadeInv(Picks!Sessions) /\ SpawnInv(Picks!Sessions) /\ AliveInv(Picks!Sessions)
      /\ NoAbort)'
  BY DEF PicksInv, Picks!Return, Picks!Removable, Picks!Running, ClientInv, UnmadeInv, SpawnInv, AliveInv,
     Steps, NoAbort, Picks!TypeOK
<1>3. EditorInv'
  BY DEF PicksInv, Picks!Return, Picks!Removable, Picks!Running, EditorInv, Picks!Running, Picks!AtBridge,
     Picks!TypeOK, ClientInv, AliveInv, SpawnInv, Steps, NoAbort
<1>4. ShownInv'
  <2>0. mine = current /\ current # 0 /\ place' = "idle" /\ answer'[Operator] = state
        /\ current \in Picks!Sessions
    BY DEF PicksInv, ClientInv, Steps, Picks!Return, Picks!TypeOK
  <2>1. Picks!AcknowledgedIsShown'
    BY DEF PicksInv, Picks!Return, ShownInv, Picks!AcknowledgedIsShown
  <2>2. CASE state = "needs_edit"
    <3>1. PICK e \in PickEdits : e = pending[current] /\ edit[e] = "open"
      BY <2>0, <2>2
    <3>2. e \in shown' /\ current' = current /\ UNCHANGED <<edit, owner>>
      BY <2>0, <2>2, <3>1 DEF Picks!Return
    <3>3. owner[e] = current /\ \A f \in PickEdits : edit[f] \in Picks!AtBridge => f = e
      BY <3>1 DEF PicksInv, EditorInv, Picks!AtBridge
    <3> QED
      BY <2>0, <2>1, <3>1, <3>2, <3>3 DEF ShownInv
  <2>3. CASE state # "needs_edit"
    BY <2>0, <2>1, <2>3 DEF ShownInv, MayAcknowledge
  <2> QED
    BY <2>2, <2>3
<1> QED
  BY <1>1, <1>2, <1>3, <1>4 DEF PicksInv

\* A client says has_edit of what it was shown.
LEMMA PicksBegins ==
  ASSUME PicksInv, \E has \in BOOLEAN : Picks!BeginStep(Operator, has)
  PROVE  PicksInv'
<1> USE PicksSessions DEF place, mine, Picks!manager, Picks!process, Picks!session, Picks!editing, Picks!Goto
<1> PICK has \in BOOLEAN : Picks!BeginStep(Operator, has)
  OBVIOUS
<1> PICK s \in Picks!Sessions : /\ Picks!GetOrCreate(s) /\ my' = [my EXCEPT ![Operator] = s]
                                /\ sessionPc' = [sessionPc EXCEPT ![Operator] = IF Picks!Idle(s) THEN "launching" ELSE "advancing"]
  BY DEF Picks!BeginStep
<1>0. /\ current' = s /\ s \in 0 .. created'
      /\ created \in Nat /\ created' \in 0 .. 1 + Picks!Cardinality(PickEdits)
      /\ 0 .. created \subseteq 0 .. created'
      /\ (current # 0 => s = current /\ created' = created) /\ (current = 0 => s > created)
  BY PicksGetOrCreate DEF PicksInv
<1>a. /\ has => answer[Operator] = "needs_edit"
      /\ hasEdit' = [hasEdit EXCEPT ![Operator] = has]
      /\ UNCHANGED <<Picks!process, Picks!session, Picks!editing, operation, late, answer, shown>>
  BY DEF Picks!BeginStep
<1>p. /\ place = "idle" /\ place' \in {"launching", "advancing"} /\ mine' = s
      /\ place' = "launching" => ~Picks!Running(s)
  BY DEF PicksInv, Picks!TypeOK, Picks!BeginStep, Picks!Idle
<1> HIDE DEF Picks!BeginStep
<1>1. Picks!TypeOK'
  <2>1. sessionPc' \in [{Operator} -> Picks!CallAt] /\ my' \in [{Operator} -> 0 .. created']
    BY <1>0 DEF PicksInv, Picks!TypeOK, Picks!CallAt
  <2>2. hasEdit' \in [{Operator} -> BOOLEAN]
    BY <1>a DEF PicksInv, Picks!TypeOK
  <2>3. owner \in [PickEdits -> 0 .. created']
    BY <1>0 DEF PicksInv, Picks!TypeOK
  <2> QED
    BY <1>0, <1>a, <2>1, <2>2, <2>3 DEF PicksInv, Picks!TypeOK
<1>2. (ClientInv /\ UnmadeInv(Picks!Sessions) /\ SpawnInv(Picks!Sessions) /\ AliveInv(Picks!Sessions)
      /\ NoAbort)'
  BY <1>0, <1>a, <1>p DEF PicksInv, ClientInv, UnmadeInv, SpawnInv, AliveInv, Steps, NoAbort, Picks!TypeOK
<1>3. EditorInv'
  BY <1>0, <1>a, <1>p DEF PicksInv, EditorInv, Picks!Running, Picks!AtBridge, Picks!TypeOK, ClientInv,
     AliveInv, SpawnInv, Steps, NoAbort
<1>4. ShownInv'
  BY <1>0, <1>a, <1>p DEF PicksInv, ShownInv, MayAcknowledge, Picks!AcknowledgedIsShown, EditorInv,
     Picks!AtBridge, Picks!TypeOK, ClientInv, AliveInv, Steps, NoAbort
<1> QED
  BY <1>1, <1>2, <1>3, <1>4 DEF PicksInv

\* Starting git preserves the invariant.
LEMMA PicksStarts == PicksInv /\ Picks!StartGit(Operator) => PicksInv'
<1> SUFFICES ASSUME PicksInv, Picks!StartGit(Operator) PROVE PicksInv'
  OBVIOUS
<1> USE PicksSessions DEF place, mine, Picks!manager, Picks!process, Picks!session, Picks!editing, Picks!Goto
<1>0. /\ place = "launching" /\ mine = current /\ current \in Picks!Sessions /\ ~Picks!Running(current)
  BY DEF PicksInv, EditorInv, Picks!StartGit, ClientInv, Steps, Picks!TypeOK
<1>l. Picks!Cardinality({c \in {Operator} : sessionPc[c] = "spawning"}) = 0
  <2>1. {c \in {Operator} : sessionPc[c] = "spawning"} = {}
    BY <1>0
  <2>2. Picks!Cardinality({}) = Cardinality({})
    BY DEF Picks!Cardinality, Cardinality, Picks!IsFiniteSet, IsFiniteSet
  <2> QED
    BY <2>1, <2>2, FS_EmptySet
<1>m. runs < MaxRuns
  BY <1>l DEF Picks!StartGit, Picks!MayRun, PicksInv, Picks!TypeOK
<1>s. /\ UNCHANGED Picks!manager /\ Picks!LockFree(current) /\ git[current] # "collected"
      /\ sessionPc' = [sessionPc EXCEPT ![Operator] = "spawning"]
      /\ spawner' = [spawner EXCEPT ![current] = Operator]
      /\ result' = [result EXCEPT ![current] = "none"]
      /\ pending' = [pending EXCEPT ![current] = None]
      /\ timedOut' = [timedOut EXCEPT ![current] = FALSE]
      /\ aborting' = [aborting EXCEPT ![current] = FALSE]
      /\ UNCHANGED <<Picks!process, Picks!editing, operation, late, my, hasEdit, answer, shown>>
  BY <1>0 DEF Picks!StartGit, Picks!GetOrCreate, Picks!Cleared, Picks!MayStart
<1> HIDE DEF Picks!StartGit
<1>1. Picks!TypeOK'
  BY <1>0, <1>m, <1>s DEF PicksInv, Picks!TypeOK, Picks!CallAt, Picks!Answers, Picks!AtBridge
<1>2. (ClientInv /\ UnmadeInv(Picks!Sessions) /\ SpawnInv(Picks!Sessions) /\ AliveInv(Picks!Sessions)
      /\ NoAbort)'
  <2>1. git[current] \in {"none", "reported"}
    BY <1>0, <1>s, ZenonT(60) DEF PicksInv, Picks!TypeOK, Picks!Running
  <2>2. place' = "spawning" /\ UNCHANGED <<current, created, git, my, runs>>
    BY <1>s DEF PicksInv, Picks!TypeOK
  <2>3. ClientInv' /\ NoAbort' /\ AliveInv(Picks!Sessions)'
    BY <1>0, <2>2 DEF PicksInv, ClientInv, NoAbort, AliveInv, Steps
  <2>4. current <= created /\ UnmadeInv(Picks!Sessions)'
    BY <1>0, <1>s, <2>2 DEF PicksInv, UnmadeInv, Picks!TypeOK
  <2>5. SpawnInv(Picks!Sessions)'
    BY <1>0, <1>m, <1>s, <2>1, <2>2 DEF PicksInv, SpawnInv, Picks!TypeOK
  <2> QED
    BY <2>3, <2>4, <2>5
<1>3. EditorInv'
  BY <1>0, <1>m, <1>s DEF PicksInv, EditorInv, Picks!Running, Picks!AtBridge, Picks!TypeOK, ClientInv,
     AliveInv, SpawnInv, Steps, NoAbort
<1>4. ShownInv'
  BY <1>0, <1>m, <1>s DEF PicksInv, ShownInv, MayAcknowledge, Picks!AcknowledgedIsShown, EditorInv,
     Picks!AtBridge, Picks!TypeOK, ClientInv, AliveInv, Steps, NoAbort
<1> QED
  BY <1>1, <1>2, <1>3, <1>4 DEF PicksInv

\* git runs in the session whose lock the spawn held; the editors of the one before it
\* are done.
LEMMA PicksSpawned == PicksInv /\ Picks!Spawned(Operator) => PicksInv'
<1> SUFFICES ASSUME PicksInv, Picks!Spawned(Operator) PROVE PicksInv'
  OBVIOUS
<1> USE PicksSessions DEF place, mine, Picks!manager, Picks!process, Picks!session, Picks!editing, Picks!Goto
<1>a. /\ place = "spawning" /\ mine = current /\ current \in Picks!Sessions /\ spawner[current] = Operator
      /\ \A s \in Picks!Sessions : spawner[s] = Operator => s = current
  BY DEF PicksInv, Picks!Spawned, ClientInv, SpawnInv, Steps, Picks!TypeOK
<1>0. /\ place = "spawning" /\ mine = current /\ current \in Picks!Sessions
      /\ git[current] \in {"none", "reported"}
      /\ spawner' = [spawner EXCEPT ![current] = None] /\ git' = [git EXCEPT ![current] = "alive"]
      /\ owner' = [e \in PickEdits |-> IF owner[e] = current THEN 0 ELSE owner[e]]
  <2>1. PICK s \in Picks!Sessions :
          /\ spawner[s] = Operator
          /\ spawner' = [spawner EXCEPT ![s] = None] /\ git' = [git EXCEPT ![s] = "alive"]
          /\ owner' = [e \in PickEdits |-> IF owner[e] = s THEN 0 ELSE owner[e]]
    BY DEF Picks!Spawned
  <2>2. s = current
    BY <1>a, <2>1
  <2> QED
    BY <1>a, <2>1, <2>2 DEF PicksInv, SpawnInv
<1>b. /\ runs' = runs + 1 /\ operation' \in {operation, runs'}
      /\ sessionPc' = [sessionPc EXCEPT ![Operator] = "waiting"]
      /\ UNCHANGED <<current, created, code, result, pending, timedOut, aborting, edit, file, late, my,
            hasEdit, answer, shown>>
  BY <1>a DEF Picks!Spawned
<1> HIDE DEF Picks!Spawned
<1>1. Picks!TypeOK'
  <2>1. runs \in Nat /\ runs < MaxRuns
    BY <1>0 DEF PicksInv, SpawnInv, Picks!TypeOK
  <2>2. runs' \in 0 .. MaxRuns /\ operation' \in 0 .. MaxRuns
    BY <1>b, <2>1 DEF PicksInv, Picks!TypeOK
  <2>3. owner' \in [PickEdits -> 0 .. created]
    BY <1>0 DEF PicksInv, Picks!TypeOK
  <2>4. /\ git' \in [Picks!Sessions -> {"none", "alive", "exited", "collected", "reported"}]
        /\ spawner' \in [Picks!Sessions -> {Operator} \cup {None}]
        /\ sessionPc' \in [{Operator} -> Picks!CallAt]
    BY <1>0, <1>b DEF PicksInv, Picks!TypeOK, Picks!CallAt
  <2> QED
    BY <1>b, <2>2, <2>3, <2>4 DEF PicksInv, Picks!TypeOK
<1>2. (ClientInv /\ UnmadeInv(Picks!Sessions) /\ SpawnInv(Picks!Sessions) /\ AliveInv(Picks!Sessions)
      /\ NoAbort)'
  BY <1>0, <1>b DEF PicksInv, ClientInv, UnmadeInv, SpawnInv, AliveInv, Steps, NoAbort, Picks!TypeOK
<1>3. EditorInv'
  BY <1>0, <1>b DEF PicksInv, EditorInv, Picks!Running, Picks!AtBridge, Picks!TypeOK, ClientInv, AliveInv,
     SpawnInv, Steps, NoAbort
<1>4. ShownInv'
  BY <1>0, <1>b DEF PicksInv, ShownInv, MayAcknowledge, Picks!AcknowledgedIsShown, EditorInv, Picks!AtBridge,
     Picks!TypeOK, ClientInv, AliveInv, Steps, NoAbort
<1> QED
  BY <1>1, <1>2, <1>3, <1>4 DEF PicksInv

\* The edit that is acknowledged is the one that was shown.
LEMMA PicksSubmits == PicksInv /\ Picks!Submit(Operator) => PicksInv'
<1> SUFFICES ASSUME PicksInv, Picks!Submit(Operator) PROVE PicksInv'
  OBVIOUS
<1> USE PicksSessions DEF place, mine, Picks!manager, Picks!process, Picks!session, Picks!editing, Picks!Goto
<1>a. /\ mine = current /\ mine \in Picks!Sessions /\ pending[mine] # None /\ place = "advancing"
         /\ hasEdit[Operator]
      /\ edit[pending[mine]] = "open"
  BY DEF PicksInv, Picks!Submit, Picks!NeedsEdit, ClientInv, Steps, Picks!TypeOK
<1>0. pending[mine] \in PickEdits /\ pending[mine] \in shown
  BY <1>a DEF PicksInv, Picks!TypeOK, ShownInv, MayAcknowledge, Picks!AtBridge
<1>1. Picks!TypeOK'
  BY <1>a, <1>0 DEF PicksInv, Picks!Submit, Picks!LockFree, Picks!NeedsEdit, Picks!SyncedBack,
     Picks!AfterSubmit, Picks!GoOn, Picks!TypeOK, Picks!CallAt, Picks!Answers, Picks!AtBridge
<1>2. (ClientInv /\ UnmadeInv(Picks!Sessions) /\ SpawnInv(Picks!Sessions) /\ AliveInv(Picks!Sessions)
      /\ NoAbort)'
  BY <1>a, <1>0 DEF PicksInv, Picks!Submit, Picks!LockFree, Picks!NeedsEdit, Picks!SyncedBack,
     Picks!AfterSubmit, Picks!GoOn, ClientInv, UnmadeInv, SpawnInv, AliveInv, Steps, NoAbort, Picks!TypeOK
<1>3. EditorInv'
  BY <1>a, <1>0 DEF PicksInv, Picks!Submit, Picks!LockFree, Picks!NeedsEdit, Picks!SyncedBack,
     Picks!AfterSubmit, Picks!GoOn, EditorInv, Picks!Running, Picks!AtBridge, Picks!TypeOK, ClientInv,
        AliveInv, SpawnInv, Steps, NoAbort
<1>4. ShownInv'
  BY <1>a, <1>0 DEF PicksInv, Picks!Submit, Picks!LockFree, Picks!NeedsEdit, Picks!SyncedBack,
     Picks!AfterSubmit, Picks!GoOn, ShownInv, MayAcknowledge, Picks!AcknowledgedIsShown, EditorInv,
        Picks!AtBridge, Picks!TypeOK, ClientInv, AliveInv, Steps, NoAbort
<1> QED
  BY <1>1, <1>2, <1>3, <1>4 DEF PicksInv

\* What a call answers at once, or waits for.
LEMMA PicksAnswers ==
  PicksInv /\ (Picks!SubmitFails(Operator) \/ Picks!Advance(Operator) \/ Picks!Wake(Operator)) => PicksInv'
<1> SUFFICES ASSUME PicksInv,
                  Picks!SubmitFails(Operator) \/ Picks!Advance(Operator) \/ Picks!Wake(Operator)
             PROVE  PicksInv'
  OBVIOUS
<1> USE PicksSessions
<1>1. mine \in Picks!Sessions /\ place \in {"advancing", "waiting", "nothing"}
  BY DEF PicksInv, Picks!SubmitFails, Picks!Advance, Picks!Wake, ClientInv, Steps, Picks!TypeOK, place, mine
<1>2. /\ Picks!State(mine) \in Picks!Answers
      /\ Picks!State(mine) = "needs_edit" => pending[mine] \in PickEdits /\ edit[pending[mine]] = "open"
  <2>1. result[mine] \in {"none", "completed", "error", "aborted"} /\ pending[mine] \in PickEdits \cup {None}
    BY <1>1 DEF PicksInv, Picks!TypeOK
  <2> QED
    BY <2>1 DEF Picks!State, Picks!NeedsEdit, Picks!Answers
<1>3. CASE Picks!SubmitFails(Operator)
  <2>1. "refused" \in Picks!Answers
    BY DEF Picks!Answers
  <2>2. Picks!Return(Operator, "refused") /\ UNCHANGED <<Picks!process, Picks!session, Picks!editing,
           operation, late>>
    BY <1>3 DEF Picks!SubmitFails
  <2> QED
    BY <1>1, <2>1, <2>2, PicksReturn
<1>4. CASE Picks!Advance(Operator)
  <2>1. CASE Picks!State(mine) \in {"needs_edit", "completed", "error"}
    <3>1. Picks!Return(Operator, Picks!State(mine)) /\ UNCHANGED <<Picks!process, Picks!session, Picks!editing,
             operation, late>>
      BY <1>4, <2>1 DEF Picks!Advance, mine
    <3> QED
      BY <1>1, <1>2, <3>1, PicksReturn
  <2>2. CASE Picks!State(mine) \notin {"needs_edit", "completed", "error"}
    <3>0. /\ sessionPc' = [sessionPc EXCEPT ![Operator] = "waiting"]
          /\ UNCHANGED <<current, created, my, hasEdit, answer, shown, Picks!process, Picks!session,
                Picks!editing, operation, late>>
      BY <1>4, <2>2 DEF Picks!Advance, Picks!Goto, Picks!manager, mine
    <3> USE DEF place, mine, Picks!process, Picks!session, Picks!editing
    <3>1. Picks!TypeOK'
      BY <1>1, <3>0 DEF PicksInv, Picks!TypeOK, Picks!CallAt, Picks!Answers, Picks!AtBridge
    <3>2. (ClientInv /\ UnmadeInv(Picks!Sessions) /\ SpawnInv(Picks!Sessions) /\ AliveInv(Picks!Sessions)
          /\ NoAbort)'
      BY <1>1, <3>0 DEF PicksInv, ClientInv, UnmadeInv, SpawnInv, AliveInv, Steps, NoAbort, Picks!TypeOK
    <3>3. EditorInv'
      BY <1>1, <3>0 DEF PicksInv, EditorInv, Picks!Running, Picks!AtBridge, Picks!TypeOK, ClientInv, AliveInv,
         SpawnInv, Steps, NoAbort
    <3>4. ShownInv'
      BY <1>1, <3>0 DEF PicksInv, ShownInv, MayAcknowledge, Picks!AcknowledgedIsShown, EditorInv,
         Picks!AtBridge, Picks!TypeOK, ClientInv, AliveInv, Steps, NoAbort
    <3> QED
      BY <3>1, <3>2, <3>3, <3>4 DEF PicksInv
  <2> QED
    BY <2>1, <2>2
<1>5. CASE Picks!Wake(Operator)
  <2>1. Picks!Return(Operator, Picks!State(mine)) /\ UNCHANGED <<Picks!process, Picks!session, Picks!editing,
           operation, late>>
    BY <1>5 DEF Picks!Wake, mine
  <2> QED
    BY <1>1, <1>2, <2>1, PicksReturn
<1> QED
  BY <1>3, <1>4, <1>5

\* Every step of such a rebase preserves its invariant.
LEMMA PicksStepInv == PicksInv /\ [Picks!Next]_sessionVars => PicksInv'
<1> SUFFICES ASSUME PicksInv, [Picks!Next]_sessionVars PROVE PicksInv'
  OBVIOUS
<1>1. CASE UNCHANGED sessionVars
  BY <1>1 DEF sessionVars, PicksInv, Picks!TypeOK, ClientInv, UnmadeInv, SpawnInv, AliveInv, NoAbort, EditorInv,
              ShownInv, MayAcknowledge, Picks!AcknowledgedIsShown, Picks!Running, place, mine, Picks!AtBridge
<1>2. CASE Picks!CallStep(Operator)
  <2>1. place \notin {"popped", "terminating", "cleaning"}
    BY DEF PicksInv, NoAbort
  <2>2. /\ ~Picks!NothingToMerge(Operator) /\ ~Picks!PopSession(Operator) /\ ~Picks!Abort(Operator)
           /\ ~Picks!Terminate(Operator)
        /\ ~Picks!AbortWaited(Operator) /\ ~Picks!AbortReturns(Operator)
    BY <2>1 DEF place, Picks!NothingToMerge, Picks!PopSession, Picks!Abort, Picks!Terminate, Picks!AbortWaited,
       Picks!AbortReturns
  <2> QED
    BY <1>2, <2>2, PicksBegins, PicksStarts, PicksSpawned, PicksSubmits, PicksAnswers
       DEF Picks!CallStep
<1> QED
  BY <1>1, <1>2, PicksGit, PicksEditor, PicksLateAbort DEF Picks!Next

\* An edit that is acknowledged was shown, and a session waits for an edit exactly while
\* the edit waits for the session.
LEMMA PicksIsSafe == PicksInv => Picks!AcknowledgedIsShown /\ Picks!PendingIsOpen
<1> SUFFICES ASSUME PicksInv PROVE Picks!PendingIsOpen
  BY DEF PicksInv, ShownInv
<1>1. \A e \in PickEdits : edit[e] = "open" => current \in Picks!Sessions /\ pending[current] = e
  BY PicksSessions DEF PicksInv, EditorInv, Picks!AtBridge, Picks!TypeOK
<1>2. \A s \in Picks!Sessions : pending[s] # None => edit[pending[s]] \in {"open", "expired"}
  BY DEF PicksInv, EditorInv
<1> QED
  BY <1>1, <1>2 DEF Picks!PendingIsOpen

-----------------------------------------------------------------------------
-----------------------------------------------------------------------------
(* A merge *)

\* The launcher that finds nothing to merge preserves the invariant.
LEMMA MergeFindsNothing == RebaseInv /\ Merge!NothingToMerge(Operator) => RebaseInv'
<1> SUFFICES ASSUME RebaseInv, Merge!NothingToMerge(Operator) PROVE RebaseInv'
  OBVIOUS
<1> USE RebaseSessions DEF place, mine, Merge!manager, Merge!process, Merge!session, Merge!editing, Merge!Goto
<1>1. Rebase!TypeOK'
  BY DEF RebaseInv, Merge!NothingToMerge, Rebase!TypeOK, Rebase!CallAt
<1>2. (ClientInv /\ UnmadeInv(Rebase!Sessions) /\ SpawnInv(Rebase!Sessions) /\ AliveInv(Rebase!Sessions)
      /\ Rebase!ResultIsFinal)'
  BY DEF RebaseInv, Merge!NothingToMerge, ClientInv, UnmadeInv, SpawnInv, AliveInv, Steps,
     Rebase!ResultIsFinal, Rebase!Running, Rebase!TypeOK
<1>3. FileInv'
  BY DEF RebaseInv, Merge!NothingToMerge, FileInv, AbortedInv, Rebase!TypeOK
<1> QED
  BY <1>1, <1>2, <1>3 DEF RebaseInv

\* A merge has the sessions of the rebase with the same constants.
LEMMA MergeSessions ==
  /\ Merge!Sessions = Rebase!Sessions
  /\ \A S : Merge!Cardinality(S) = Rebase!Cardinality(S)
<1>1. ASSUME NEW S PROVE Merge!Cardinality(S) = Rebase!Cardinality(S)
  BY DEF Merge!Cardinality, Rebase!Cardinality, Merge!IsFiniteSet, Rebase!IsFiniteSet
<1> QED
  BY <1>1 DEF Merge!Sessions, Rebase!Sessions

\* The handlers of the client's calls do what they do in a rebase.
LEMMA MergeCalls ==
  ASSUME Merge!CallStep(Operator), ~Merge!NothingToMerge(Operator)
  PROVE  Rebase!CallStep(Operator)
<1> USE MergeSessions
    DEF Merge!manager, Rebase!manager, Merge!process, Rebase!process, Merge!session, Rebase!session,
       Merge!editing, Rebase!editing, Merge!calls, Rebase!calls, Merge!Goto, Rebase!Goto, Merge!Running,
          Rebase!Running, Merge!LockFree, Rebase!LockFree, Merge!GetOrCreate, Rebase!GetOrCreate,
             Merge!NeedsEdit, Rebase!NeedsEdit
<1>1. ASSUME NEW has \in BOOLEAN, Merge!BeginStep(Operator, has) PROVE Rebase!BeginStep(Operator, has)
  BY <1>1 DEF Merge!BeginStep, Rebase!BeginStep, Merge!Idle, Rebase!Idle, Merge!MayCreate, Rebase!MayCreate
<1>2. Merge!StartGit(Operator) => Rebase!StartGit(Operator)
  BY DEF Merge!StartGit, Rebase!StartGit, Merge!MayCreate, Rebase!MayCreate, Merge!MayRun, Rebase!MayRun,
     Merge!MayStart, Rebase!MayStart, Merge!Cleared, Rebase!Cleared
<1>3. Merge!Spawned(Operator) => Rebase!Spawned(Operator)
  BY DEF Merge!Spawned, Rebase!Spawned
<1>4. Merge!Submit(Operator) => Rebase!Submit(Operator)
  BY DEF Merge!Submit, Rebase!Submit, Merge!SyncedBack, Rebase!SyncedBack, Merge!AfterSubmit,
     Rebase!AfterSubmit, Merge!GoOn, Rebase!GoOn
<1>5. Merge!SubmitFails(Operator) => Rebase!SubmitFails(Operator)
  BY DEF Merge!SubmitFails, Rebase!SubmitFails, Merge!Return, Rebase!Return, Merge!Removable, Rebase!Removable
<1>6. Merge!Advance(Operator) => Rebase!Advance(Operator)
  BY DEF Merge!Advance, Rebase!Advance, Merge!State, Rebase!State, Merge!Return, Rebase!Return,
     Merge!Removable, Rebase!Removable
<1>7. Merge!Wake(Operator) => Rebase!Wake(Operator)
  BY DEF Merge!Wake, Rebase!Wake, Merge!State, Rebase!State, Merge!Return, Rebase!Return, Merge!Removable,
     Rebase!Removable
<1>8. Merge!Abort(Operator) => Rebase!Abort(Operator)
  BY DEF Merge!Abort, Rebase!Abort, Merge!Restored, Rebase!Restored
<1>9. Merge!Terminate(Operator) => Rebase!Terminate(Operator)
  BY DEF Merge!Terminate, Rebase!Terminate
<1>10. Merge!AbortWaited(Operator) => Rebase!AbortWaited(Operator)
  BY DEF Merge!AbortWaited, Rebase!AbortWaited, Merge!Ended, Rebase!Ended
<1>11. Merge!AbortReturns(Operator) => Rebase!AbortReturns(Operator)
  BY DEF Merge!AbortReturns, Rebase!AbortReturns
<1>12. ~Merge!PopSession(Operator)
  BY DEF Merge!PopSession
<1> QED
  BY ONLY Merge!CallStep(Operator), ~Merge!NothingToMerge(Operator), <1>1, <1>2, <1>3, <1>4, <1>5, <1>6, <1>7,
     <1>8, <1>9, <1>10, <1>11, <1>12 DEF Merge!CallStep, Rebase!CallStep

\* So do git, which runs no editor, and the handler of an editor.
LEMMA MergeGit ==
  /\ \A s \in Rebase!Sessions : Merge!GitStep(s) => Rebase!GitStep(s)
  /\ \A e \in RebaseEdits : Merge!EditStep(e) => Rebase!EditStep(e)
  /\ \A o \in late : Merge!LateAbort(o) => Rebase!LateAbort(o)
<1> USE MergeSessions
    DEF Merge!manager, Rebase!manager, Merge!process, Rebase!process, Merge!session, Rebase!session,
       Merge!editing, Rebase!editing, Merge!calls, Rebase!calls, Merge!Goto, Rebase!Goto, Merge!Running,
          Rebase!Running, Merge!LockFree, Rebase!LockFree, Merge!GetOrCreate, Rebase!GetOrCreate,
             Merge!NeedsEdit, Rebase!NeedsEdit
<1>1. ASSUME NEW s \in Rebase!Sessions, Merge!GitStep(s) PROVE Rebase!GitStep(s)
  <2>1. \A e \in RebaseEdits : ~Merge!RunEditor(s, e)
    BY DEF Merge!RunEditor
  <2>2. \A how \in {"completed", "error"} : Merge!GitExits(s, how) => Rebase!GitExits(s, how)
    BY DEF Merge!GitExits, Rebase!GitExits, Merge!AtEditor, Rebase!AtEditor, Merge!AtBridge, Rebase!AtBridge
  <2>3. Merge!Collect(s) => Rebase!Collect(s)
    BY DEF Merge!Collect, Rebase!Collect, Merge!AtEditor, Rebase!AtEditor, Merge!AtBridge, Rebase!AtBridge
  <2>4. Merge!Report(s) => Rebase!Report(s)
    BY DEF Merge!Report, Rebase!Report, Merge!Outcome, Rebase!Outcome
  <2> QED
    BY ONLY <1>1, <2>1, <2>2, <2>3, <2>4 DEF Merge!GitStep, Rebase!GitStep
<1>2. ASSUME NEW e \in RebaseEdits, Merge!EditStep(e) PROVE Rebase!EditStep(e)
  <2>1. Merge!OpenEdit(e) => Rebase!OpenEdit(e)
    BY DEF Merge!OpenEdit, Rebase!OpenEdit, Merge!Accepts, Rebase!Accepts
  <2>2. Merge!Expire(e) => Rebase!Expire(e)
    BY DEF Merge!Expire, Rebase!Expire
  <2>3. Merge!ExpiredReplies(e) => Rebase!ExpiredReplies(e)
    BY DEF Merge!ExpiredReplies, Rebase!ExpiredReplies, Merge!Reply, Rebase!Reply
  <2>4. Merge!BridgeReplies(e) => Rebase!BridgeReplies(e)
    BY DEF Merge!BridgeReplies, Rebase!BridgeReplies, Merge!Reply, Rebase!Reply
  <2> QED
    BY ONLY <1>2, <2>1, <2>2, <2>3, <2>4 DEF Merge!EditStep, Rebase!EditStep
<1>3. \A o \in late : Merge!LateAbort(o) => Rebase!LateAbort(o)
  BY DEF Merge!LateAbort, Rebase!LateAbort
<1> QED
  BY <1>1, <1>2, <1>3

\* Where it launches something, a merge takes the steps of a rebase that asks for no edit.
LEMMA MergeStepsAreRebase ==
  [Merge!Next]_sessionVars => [Rebase!Next]_sessionVars \/ Merge!NothingToMerge(Operator)
<1> SUFFICES ASSUME Merge!Next, ~Merge!NothingToMerge(Operator) PROVE Rebase!Next
  OBVIOUS
<1>1. CASE \E c \in {Operator} : Merge!CallStep(c)
  BY <1>1, MergeCalls DEF Rebase!Next
<1>2. CASE \E s \in Merge!Sessions : Merge!GitStep(s)
  BY <1>2, MergeSessions, MergeGit DEF Rebase!Next
<1>3. CASE \E e \in RebaseEdits : Merge!EditStep(e)
  BY <1>3, MergeGit DEF Rebase!Next
<1>4. CASE \E o \in late : Merge!LateAbort(o)
  BY <1>4, MergeGit DEF Rebase!Next
<1> QED
  BY <1>1, <1>2, <1>3, <1>4 DEF Merge!Next

\* So a merge has what a rebase has.
LEMMA MergeIsSafe == RebaseInv => Merge!TypeOK /\ Merge!OneGit /\ Merge!ResultIsFinal
<1> SUFFICES ASSUME RebaseInv PROVE Merge!TypeOK /\ Merge!OneGit /\ Merge!ResultIsFinal
  OBVIOUS
<1>1. Merge!TypeOK
  BY MergeSessions DEF RebaseInv, Rebase!TypeOK, Merge!TypeOK, Rebase!CallAt, Merge!CallAt, Rebase!Answers,
     Merge!Answers, Rebase!AtBridge, Merge!AtBridge
<1>2. Merge!OneGit
  BY MergeSessions, RebaseIsSafe DEF Rebase!OneGit, Merge!OneGit
<1>3. Merge!ResultIsFinal
  BY MergeSessions DEF RebaseInv, Rebase!ResultIsFinal, Merge!ResultIsFinal, Rebase!Running, Merge!Running
<1> QED
  BY <1>1, <1>2, <1>3

-----------------------------------------------------------------------------
(* The sessions, in the system *)

\* The steps of the system, seen by the sessions.
LEMMA SessionSteps ==
  ASSUME [LocalNext]_LocalVars
  PROVE  /\ focus' = focus
         /\ focus = "picks" => [Picks!Next]_sessionVars
         /\ focus = "mergetool" => [Merge!Next]_sessionVars
         /\ focus \notin {"picks", "mergetool"} => [Rebase!Next]_sessionVars
BY DEF LocalNext, LocalVars, StoreStep, MailStep, RebaseStep, PicksStep, MergeStep, FeedbackStep, ViewStep,
       SummaryStep, HunksStep, WorktreeStep, CloneStep, ApplyStep, IpcStep

\* No step of the system breaks the invariant of the sessions.
LEMMA SessionStepInv == SessionInv /\ [LocalNext]_LocalVars => SessionInv'
<1> SUFFICES ASSUME SessionInv, [LocalNext]_LocalVars PROVE SessionInv'
  OBVIOUS
<1>1. CASE focus = "picks"
  BY <1>1, SessionSteps, PicksStepInv DEF SessionInv
<1>2. CASE focus = "mergetool"
  BY <1>2, SessionSteps, MergeStepsAreRebase, MergeFindsNothing, RebaseStepInv DEF SessionInv
<1>3. CASE focus \notin {"picks", "mergetool"}
  BY <1>3, SessionSteps, RebaseStepInv DEF SessionInv
<1> QED
  BY <1>1, <1>2, <1>3

\* Whatever git, its editors, timeouts and aborts interleave with the client's calls, the
\* git that works is that of the repository's session, or the one that is being aborted,
\* and an editor at work is that git's.
THEOREM SessionInvCorrect == LocalSpec => []SessionInv
<1>1. LocalInit => SessionInv
  <2> SUFFICES ASSUME LocalInit PROVE SessionInv
    OBVIOUS
  <2>1. CASE focus = "picks"
    <3>1. Picks!Init
      BY ONLY LocalInit, <2>1, Zenon DEF LocalInit
    <3> QED
      BY <2>1, <3>1, PicksInit DEF SessionInv
  <2>2. CASE focus # "picks"
    <3>1. Rebase!Init
      BY ONLY LocalInit, <2>2, Zenon DEF LocalInit
    <3> QED
      BY <2>2, <3>1, RebaseInit DEF SessionInv
  <2> QED
    BY <2>1, <2>2
<1> QED
  BY <1>1, SessionStepInv, PTL DEF LocalSpec

\* interactive_workflow.py: one git works on the repository at a time, it is told that its
\* file is edited only when the file is back, a session with a result has no git, and an
\* abort that returns has ended its git; when a rebase asks for several edits, one is
\* acknowledged only when the client was shown it, and a session waits for an edit exactly
\* while the editor waits for the session.
THEOREM SessionTheorem == LocalSpec => SessionSafety
<1>1. SessionInv => (focus \notin {"picks", "mergetool"} =>
        Rebase!TypeOK /\ Rebase!OneGit /\ Rebase!AnsweredFileIsBack /\ Rebase!ResultIsFinal)
  BY RebaseIsSafe DEF SessionInv, RebaseInv
<1>2. SessionInv => (focus = "picks" => Picks!TypeOK /\ Picks!AcknowledgedIsShown /\ Picks!PendingIsOpen)
  BY PicksIsSafe DEF SessionInv, PicksInv
<1>3. SessionInv => (focus = "mergetool" => Merge!TypeOK /\ Merge!OneGit /\ Merge!ResultIsFinal)
  BY MergeIsSafe DEF SessionInv
<1>4. SessionInv =>
        [\A c \in {Operator} : sessionPc[c] = "cleaning" /\ my[c] # 0
        /\ sessionPc'[c] = "idle" => git[my[c]] # "alive"]_Rebase!vars
  BY RebaseIsSafe DEF SessionInv, PicksInv, NoAbort, place, mine
<1> QED
  BY <1>1, <1>2, <1>3, <1>4, SessionInvCorrect, PTL DEF SessionSafety, Rebase!AbortStopsGit
=============================================================================
