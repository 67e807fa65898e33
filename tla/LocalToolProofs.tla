-------------------------- MODULE LocalToolProofs ---------------------------
(***************************************************************************)
(* Proofs for the connection of a worker, the application of a submitted   *)
(* patch, the mailbox, the review store and the record of an agent.        *)
(***************************************************************************)
EXTENDS LocalSystem, FiniteSetTheorems, TLAPS

-----------------------------------------------------------------------------
(* The connection of a worker *)

\* A handler runs on the connection that is served, and only a client that has connected
\* has anything under way.
HandlerIsServed == \A p \in Peers :
  /\ handling[p] # 0 => server[p] \in {"served", "shut"}
  /\ client[p] = "new" => server[p] = "none" /\ requests[p] = <<>> /\ answers[p] = <<>>
  /\ waiting[p] => client[p] = "open"

\* The latest request of a client that goes on is the only one: on its way, with its
\* handler, or answered.  A connection whose writer is shut gets no answer any more.
Outstanding(p) == client[p] = "open" =>
  /\ answers[p] = <<>> \/ (waiting[p] /\ answers[p] = <<number[p]>>)
  /\ server[p] \in {"accepted", "served"} =>
       \/ requests[p] = <<>> /\ handling[p] = 0 /\ (waiting[p] => answers[p] # <<>>)
       \/ waiting[p] /\ requests[p] = <<number[p]>> /\ handling[p] = 0 /\ answers[p] = <<>>
       \/ waiting[p] /\ requests[p] = <<>> /\ handling[p] = number[p] /\ answers[p] = <<>>

OneOutstanding == \A p \in Peers : Outstanding(p)

\* The inductive invariant of a worker's connection.
IpcInv == TypeOK /\ ConnectedIsServed /\ HandlerIsServed /\ OneOutstanding

\* Queues of at most one message.
LEMMA Single ==
  ASSUME NEW S, NEW x \in S
  PROVE  /\ <<x>> \in Seq(S) /\ <<x>> # <<>> /\ Head(<<x>>) = x /\ Tail(<<x>>) = <<>>
         /\ Append(<<>>, x) = <<x>>
         /\ \A i \in DOMAIN <<x>> : <<x>>[i] = x
  OBVIOUS

\* The queues of a connection hold numbers of requests.
LEMMA Queues ==
  ASSUME NEW q \in Seq(Numbers)
  PROVE  /\ q # <<>> => Head(q) \in Numbers /\ Tail(q) \in Seq(Numbers)
         /\ \A n \in Numbers : Append(q, n) \in Seq(Numbers)
  OBVIOUS

\* One handler at a time, and answers in step, follow.
LEMMA IpcInvSafe == IpcInv => IpcSafety
<1> SUFFICES ASSUME IpcInv PROVE IpcSafety
  OBVIOUS
<1> USE DEF IpcInv
<1>1. OneHandler
  BY DEF ConnectedIsServed, HandlerIsServed, OneHandler, TypeOK
<1>2. InStep
  <2> SUFFICES ASSUME NEW p \in Peers, client[p] = "open", NEW i \in DOMAIN answers[p]
               PROVE  waiting[p] /\ answers[p][i] = number[p]
    BY DEF InStep
  <2>1. answers[p] = <<>> \/ (waiting[p] /\ answers[p] = <<number[p]>>)
    BY DEF OneOutstanding, Outstanding
  <2>2. answers[p] # <<>>
    OBVIOUS
  <2> QED
    BY <2>1, <2>2
<1> QED
  BY <1>1, <1>2 DEF IpcSafety

\* Nobody has connected.
LEMMA IpcInit == Init => IpcInv
<1> SUFFICES ASSUME Init PROVE IpcInv
  OBVIOUS
<1>1. TypeOK
  <2>1. <<>> \in Seq(Numbers) /\ 0 \in 0 .. MaxRequests
    BY IpcAssumption
  <2> QED
    BY <2>1 DEF Init, TypeOK
<1>2. ConnectedIsServed
  BY IpcAssumption DEF Init, ConnectedIsServed
<1>3. HandlerIsServed /\ OneOutstanding
  BY DEF Init, HandlerIsServed, OneOutstanding, Outstanding
<1> QED
  BY <1>1, <1>2, <1>3 DEF IpcInv

\* Requests, answers, time limits on either side, closes on either side and the stop.
LEMMA IpcStepInv == IpcInv /\ [Next]_vars => IpcInv'
<1> SUFFICES ASSUME IpcInv, [Next]_vars PROVE IpcInv'
  OBVIOUS
<1> USE IpcAssumption DEF IpcInv, TypeOK, ConnectedIsServed, HandlerIsServed, OneOutstanding, Outstanding
<1>0. \A n \in Numbers : n \in 0 .. MaxRequests /\ n # 0 /\ n \in Nat
  BY DEF Numbers
<1>1. ASSUME NEW p \in Peers, Connect(p) PROVE IpcInv'
  BY <1>1 DEF Connect
<1>2. ASSUME NEW p \in Peers, Serve(p) PROVE IpcInv'
  BY <1>2 DEF Serve, MayServe
<1>3. ASSUME NEW p \in Peers, TurnAway(p) PROVE IpcInv'
  BY <1>3 DEF TurnAway
<1>4. ASSUME NEW p \in Peers, ReadRequest(p) PROVE IpcInv'
  <2>0. /\ server[p] \in {"served", "shut"} /\ handling[p] = 0 /\ requests[p] # <<>>
        /\ handling' = [handling EXCEPT ![p] = Head(requests[p])]
        /\ requests' = [requests EXCEPT ![p] = Tail(requests[p])]
        /\ UNCHANGED <<client, server, connected, writer, closing, number, waiting, answers>>
    BY <1>4 DEF ReadRequest
  <2>1. Head(requests[p]) \in Numbers /\ Tail(requests[p]) \in Seq(Numbers)
    BY <2>0, Queues
  <2>2. TypeOK'
    BY <1>0, <2>0, <2>1
  <2>3. ConnectedIsServed' /\ HandlerIsServed'
    BY <2>0
  <2>4. requests[p] = <<number[p]>> => Head(requests[p]) = number[p] /\ Tail(requests[p]) = <<>>
    BY Single
  <2>5. OneOutstanding'
    <3>1. ASSUME NEW q \in Peers, q # p PROVE Outstanding(q)'
      BY <3>1, <2>0 DEF Outstanding
    <3>2. Outstanding(p)'
      <4>1. /\ handling'[p] = Head(requests[p]) /\ requests'[p] = Tail(requests[p])
            /\ answers'[p] = answers[p] /\ number'[p] = number[p] /\ waiting'[p] = waiting[p]
            /\ client'[p] = client[p] /\ server'[p] = server[p]
        BY <2>0
      <4>2. CASE client[p] = "open" /\ server[p] = "served"
        <5>1. waiting[p] /\ requests[p] = <<number[p]>> /\ answers[p] = <<>>
          BY <2>0, <4>2 DEF Outstanding
        <5> QED
          BY <2>4, <4>1, <5>1 DEF Outstanding
      <4>3. CASE ~(client[p] = "open" /\ server[p] = "served")
        BY <2>0, <4>1, <4>3 DEF Outstanding
      <4> QED
        BY <4>2, <4>3
    <3> QED
      BY <3>1, <3>2
  <2> QED
    BY <2>2, <2>3, <2>5
<1>5. ASSUME NEW p \in Peers, Answer(p) PROVE IpcInv'
  <2>0. /\ handling[p] # 0 /\ handling' = [handling EXCEPT ![p] = 0]
        /\ UNCHANGED <<client, closing, number, waiting, requests>>
    BY <1>5 DEF Answer
  <2>1. CASE server[p] = "served" /\ client[p] = "open"
    <3>1. /\ answers' = [answers EXCEPT ![p] = Append(answers[p], handling[p])]
          /\ UNCHANGED <<connected, writer, server>>
      BY <1>5, <2>1 DEF Answer
    <3>2. handling[p] \in Numbers
      BY <2>0 DEF Numbers
    <3>3. Append(answers[p], handling[p]) \in Seq(Numbers)
      BY <3>2, Queues
    <3>4. waiting[p] /\ requests[p] = <<>> /\ handling[p] = number[p] /\ answers[p] = <<>>
      BY <2>0, <2>1
    <3>5. Append(answers[p], handling[p]) = <<number[p]>> /\ <<number[p]>> # <<>>
      BY <3>4
    <3>6. TypeOK'
      BY <2>0, <3>1, <3>3
    <3>7. ConnectedIsServed' /\ HandlerIsServed'
      BY <2>0, <2>1, <3>1
    <3>8. OneOutstanding'
      <4>1. ASSUME NEW q \in Peers, q # p PROVE Outstanding(q)'
        BY <4>1, <2>0, <3>1 DEF Outstanding
      <4>2. Outstanding(p)'
        <5>1. /\ answers'[p] = <<number[p]>> /\ number'[p] = number[p] /\ waiting'[p]
              /\ requests'[p] = <<>> /\ handling'[p] = 0
          BY <2>0, <3>1, <3>4, <3>5
        <5> QED
          BY <3>5, <5>1 DEF Outstanding
      <4> QED
        BY <4>1, <4>2
    <3> QED
      BY <3>6, <3>7, <3>8
  <2>2. CASE ~(server[p] = "served" /\ client[p] = "open")
    <3>1. /\ connected' = FALSE /\ writer' = None
          /\ server' = [server EXCEPT ![p] = "closed"] /\ UNCHANGED answers
      BY <1>5, <2>2 DEF Answer, Disconnected
    <3>2. TypeOK'
      <4>1. requests' \in [Peers -> Seq(Numbers)] /\ answers' \in [Peers -> Seq(Numbers)]
        BY <2>0, <3>1
      <4>2. server' \in [Peers -> {"none", "accepted", "served", "shut", "closed"}]
        BY <3>1
      <4>3. handling' \in [Peers -> 0 .. MaxRequests]
        BY <2>0
      <4> QED
        BY <2>0, <3>1, <4>1, <4>2, <4>3
    <3>3. ConnectedIsServed' /\ HandlerIsServed'
      BY <2>0, <3>1
    <3>4. OneOutstanding'
      BY <2>0, <3>1
    <3> QED
      BY <3>2, <3>3, <3>4
  <2> QED
    BY <2>1, <2>2
<1>6. ASSUME NEW p \in Peers, ServeEnds(p) PROVE IpcInv'
  <2>1. TypeOK'
    BY <1>6 DEF ServeEnds, Disconnected
  <2>2. ConnectedIsServed'
    BY <1>6 DEF ServeEnds, Disconnected
  <2>3. HandlerIsServed'
    BY <1>6 DEF ServeEnds, Disconnected
  <2>4. OneOutstanding'
    BY <1>6 DEF ServeEnds, Disconnected
  <2> QED
    BY <2>1, <2>2, <2>3, <2>4
<1>7. CASE CloseWorker \/ Stop
  <2>1. /\ ShutWriter /\ closing' \in BOOLEAN
        /\ UNCHANGED <<client, connected, writer, number, waiting, requests, answers, handling>>
    BY <1>7 DEF CloseWorker, Stop
  <2>2. server' \in [Peers -> {"none", "accepted", "served", "shut", "closed"}]
    BY <2>1 DEF ShutWriter
  <2>3. TypeOK'
    BY <2>1, <2>2
  <2>4. ConnectedIsServed' /\ HandlerIsServed'
    BY <2>1 DEF ShutWriter
  <2>5. OneOutstanding'
    BY <2>1 DEF ShutWriter
  <2> QED
    BY <2>3, <2>4, <2>5
<1>8. ASSUME NEW p \in Peers, SendRequest(p) PROVE IpcInv'
  <2>0. /\ client[p] = "open" /\ ~waiting[p] /\ number[p] < MaxRequests
        /\ number' = [number EXCEPT ![p] = number[p] + 1]
        /\ waiting' = [waiting EXCEPT ![p] = TRUE]
        /\ requests' = [requests EXCEPT ![p] = Append(requests[p], number[p] + 1)]
        /\ UNCHANGED <<client, server, connected, writer, closing, answers, handling>>
    BY <1>8 DEF SendRequest
  <2>1. number[p] + 1 \in Numbers
    BY <2>0 DEF Numbers
  <2>2. Append(requests[p], number[p] + 1) \in Seq(Numbers)
    BY <2>1, Queues
  <2>3. TypeOK'
    BY <1>0, <2>0, <2>1, <2>2
  <2>4. ConnectedIsServed' /\ HandlerIsServed'
    BY <2>0
  <2>5. requests[p] = <<>> => Append(requests[p], number[p] + 1) = <<number[p] + 1>>
    BY <2>1
  <2>6. OneOutstanding'
    <3>1. ASSUME NEW q \in Peers, q # p PROVE Outstanding(q)'
      BY <3>1, <2>0 DEF Outstanding
    <3>2. Outstanding(p)'
      <4>1. /\ number'[p] = number[p] + 1 /\ waiting'[p]
            /\ requests'[p] = Append(requests[p], number[p] + 1)
            /\ handling'[p] = handling[p] /\ answers'[p] = answers[p] /\ server'[p] = server[p]
        BY <2>0
      <4>2. answers[p] = <<>>
        BY <2>0 DEF Outstanding
      <4>3. server[p] \in {"accepted", "served"} => requests[p] = <<>> /\ handling[p] = 0
        BY <2>0 DEF Outstanding
      <4> QED
        BY <2>5, <4>1, <4>2, <4>3 DEF Outstanding
    <3> QED
      BY <3>1, <3>2
  <2> QED
    BY <2>3, <2>4, <2>6
<1>9. ASSUME NEW p \in Peers, ReceiveAnswer(p) PROVE IpcInv'
  <2>0. /\ waiting[p] /\ answers[p] # <<>>
        /\ waiting' = [waiting EXCEPT ![p] = FALSE]
        /\ answers' = [answers EXCEPT ![p] = Tail(answers[p])]
        /\ UNCHANGED <<client, server, connected, writer, closing, number, requests, handling>>
    BY <1>9 DEF ReceiveAnswer
  <2>1. Tail(answers[p]) \in Seq(Numbers)
    BY <2>0, Queues
  <2>2. TypeOK'
    BY <2>0, <2>1
  <2>3. ConnectedIsServed' /\ HandlerIsServed'
    BY <2>0
  <2>4. answers[p] = <<number[p]>>
    BY <2>0
  <2>5. Tail(answers[p]) = <<>>
    BY <2>4
  <2>6. OneOutstanding'
    <3>1. ASSUME NEW q \in Peers, q # p PROVE Outstanding(q)'
      BY <3>1, <2>0 DEF Outstanding
    <3>2. Outstanding(p)'
      <4>1. /\ answers'[p] = <<>> /\ ~waiting'[p] /\ handling'[p] = handling[p]
            /\ requests'[p] = requests[p] /\ client'[p] = client[p] /\ server'[p] = server[p]
        BY <2>0, <2>5
      <4>2. client[p] = "open" /\ answers[p] # <<>>
        BY <2>0
      <4>3. server[p] \in {"accepted", "served"} => requests[p] = <<>> /\ handling[p] = 0
        BY <4>2 DEF Outstanding
      <4> QED
        BY <4>1, <4>3 DEF Outstanding
    <3> QED
      BY <3>1, <3>2
  <2> QED
    BY <2>2, <2>3, <2>6
<1>10. ASSUME NEW p \in Peers, ConnectionLost(p) PROVE IpcInv'
  BY <1>10 DEF ConnectionLost
<1>11. ASSUME NEW p \in Peers, ClientTimesOut(p) \/ Close(p) PROVE IpcInv'
  <2>1. /\ client' = [client EXCEPT ![p] = "closed"] /\ waiting' = [waiting EXCEPT ![p] = FALSE]
        /\ UNCHANGED <<server, connected, writer, closing, number, requests, answers, handling>>
    BY <1>11 DEF ClientTimesOut, AfterTimeout, Close
  <2>2. TypeOK' /\ ConnectedIsServed' /\ HandlerIsServed'
    BY <2>1
  <2>3. OneOutstanding'
    BY <2>1
  <2> QED
    BY <2>2, <2>3
<1>12. CASE UNCHANGED vars
  BY <1>12 DEF vars
<1> QED
  BY <1>1, <1>2, <1>3, <1>4, <1>5, <1>6, <1>7, <1>8, <1>9, <1>10, <1>11, <1>12
  DEF Next, HandlerReturns, HandlerTimesOut

-----------------------------------------------------------------------------
(* The application of a submitted patch *)

\* A worker that lives is one the controller can reach.
LiveIsReached == live => runtime

\* A call that has come to the stop has applied its artifact; another one may not have
\* been given any.
StoppingHasApplied ==
  \A c \in ApplyCalls :
    /\ applyPc[c] = "new" => artifact[c] = 0
    /\ applyPc[c] = "given" => artifact[c] # 0
    /\ applyPc[c] \in {"applied", "stopping", "stopped", "done", "notAcknowledged"} =>
         artifact[c] \in applied

\* The inductive invariant of apply_agent_patch.
ApplyInv == ApplySafety /\ LiveIsReached /\ StoppingHasApplied

\* An agent that has submitted nothing.
LEMMA ApplyInit == Apply!Init => ApplyInv
<1> SUFFICES ASSUME Apply!Init PROVE ApplyInv
  OBVIOUS
<1> USE LocalAssumption DEF Apply!ApplyAssumption, Apply!Init
<1>1. Apply!TypeOK
  <2>1. 0 \in 0 .. MaxSubmissions /\ 0 \in 0 .. 0 /\ 0 \in 0 .. MaxRestarts
    OBVIOUS
  <2> QED
    BY <2>1 DEF Apply!TypeOK, Apply!Inactive
<1>2. Apply!NothingAppliedNothingAcknowledged /\ Apply!AcknowledgedIsOver
  BY DEF Apply!NothingAppliedNothingAcknowledged, Apply!AcknowledgedIsOver
<1> QED
  BY <1>1, <1>2 DEF ApplyInv, ApplySafety, LiveIsReached, StoppingHasApplied

\* The agent's submissions and its end, restarts, reaping, and the steps of the calls.
LEMMA ApplyStepInv == ApplyInv /\ [Apply!Next]_applyVars => ApplyInv'
<1> SUFFICES ASSUME ApplyInv, [Apply!Next]_applyVars PROVE ApplyInv'
  OBVIOUS
<1> USE LocalAssumption
    DEF ApplyInv, ApplySafety, LiveIsReached, StoppingHasApplied, Apply!TypeOK,
      Apply!NothingAppliedNothingAcknowledged, Apply!AcknowledgedIsOver,
      Apply!ApplyAssumption, Apply!Inactive, Apply!agent, Apply!call, Apply!tree
<1>1. CASE Apply!Submit
  BY <1>1 DEF Apply!Submit
<1>2. CASE Apply!WorkerEnds
  BY <1>2 DEF Apply!WorkerEnds
<1>3. CASE Apply!Restart
  <2>1. Apply!TypeOK'
    <3>1. applyPc' \in [ApplyCalls -> {"new", "given", "applied", "stopping", "stopped", "done",
                                      "failed", "notAcknowledged"}]
      BY <1>3 DEF Apply!Restart
    <3>2. restarts' \in 0 .. MaxRestarts
      BY <1>3 DEF Apply!Restart
    <3> QED
      BY <1>3, <3>1, <3>2 DEF Apply!Restart, Apply!Repaired
  <2>2. Apply!NothingAppliedNothingAcknowledged' /\ Apply!AcknowledgedIsOver'
    BY <1>3 DEF Apply!Restart, Apply!Repaired
  <2>3. LiveIsReached' /\ StoppingHasApplied'
    BY <1>3 DEF Apply!Restart, Apply!Repaired
  <2> QED
    BY <2>1, <2>2, <2>3
<1>4. CASE Apply!Reap
  BY <1>4 DEF Apply!Reap
<1>5. CASE Apply!AbortAm
  BY <1>5 DEF Apply!AbortAm
<1>6. ASSUME NEW c \in ApplyCalls, Apply!Retrieve(c) PROVE ApplyInv'
  BY <1>6 DEF Apply!Retrieve
<1>7. ASSUME NEW c \in ApplyCalls, Apply!GitAm(c) PROVE ApplyInv'
  <2>1. Apply!TypeOK'
    <3>1. /\ UNCHANGED <<applyState, live, runtime, applySubmitted, applyAcknowledged, restarts,
                         artifact>>
          /\ inSession' \in BOOLEAN
      BY <1>7 DEF Apply!GitAm
    <3>2. applyPc' \in [ApplyCalls -> {"new", "given", "applied", "stopping", "stopped", "done",
                                      "failed", "notAcknowledged"}]
      BY <1>7 DEF Apply!GitAm, Apply!AfterFailure
    <3>3. applied' = applied \/ (applyPc[c] = "given" /\ applied' = applied \cup {artifact[c]})
      BY <1>7 DEF Apply!GitAm
    <3>4. artifact[c] \in 0 .. applySubmitted /\ applySubmitted \in Nat
      OBVIOUS
    <3>5. applyPc[c] = "given" => artifact[c] \in 1 .. applySubmitted
      BY <3>4
    <3>6. applied' \subseteq 1 .. applySubmitted
      BY <3>3, <3>5
    <3> QED
      BY <3>1, <3>2, <3>6
  <2>2. Apply!NothingAppliedNothingAcknowledged' /\ Apply!AcknowledgedIsOver'
    BY <1>7 DEF Apply!GitAm, Apply!AfterFailure
  <2>3. LiveIsReached' /\ StoppingHasApplied'
    BY <1>7 DEF Apply!GitAm, Apply!AfterFailure
  <2> QED
    BY <2>1, <2>2, <2>3
<1>8. ASSUME NEW c \in ApplyCalls, Apply!StopBegins(c) PROVE ApplyInv'
  BY <1>8 DEF Apply!StopBegins, Apply!Reached, Apply!Found, Apply!Repaired
<1>9. ASSUME NEW c \in ApplyCalls, Apply!StopReturns(c) \/ Apply!StopTimesOut(c)
      PROVE  ApplyInv'
  <2>1. Apply!TypeOK'
    BY <1>9 DEF Apply!StopReturns, Apply!StopTimesOut
  <2>2. Apply!NothingAppliedNothingAcknowledged' /\ Apply!AcknowledgedIsOver'
    BY <1>9 DEF Apply!StopReturns, Apply!StopTimesOut
  <2>3. LiveIsReached' /\ StoppingHasApplied'
    BY <1>9 DEF Apply!StopReturns, Apply!StopTimesOut
  <2> QED
    BY <2>1, <2>2, <2>3
<1>10. ASSUME NEW c \in ApplyCalls, Apply!Acknowledge(c) PROVE ApplyInv'
  BY <1>10 DEF Apply!Acknowledge, Apply!IsInactive, Apply!Reached
<1>11. CASE UNCHANGED applyVars
  BY <1>11 DEF applyVars
<1> QED
  BY <1>1, <1>2, <1>3, <1>4, <1>5, <1>6, <1>7, <1>8, <1>9, <1>10, <1>11 DEF Apply!Next

-----------------------------------------------------------------------------
(* The mailbox *)

\* What is about to be stored is not in the Maildir yet.
StoresNew == submission[Operator] # None => submission[Operator] \notin new \cup cur

\* Listing new/ before cur/ misses nothing that was there when the listing began, as a
\* reader only moves messages that way.
ScanIsComplete ==
  \A w \in Waiters :
    /\ mailPc[w] = "baseline" => before[w] \subseteq seen[w] \cup cur
    /\ mailPc[w] = "scanning" => present[w] \subseteq seen[w] \cup cur
    /\ mailPc[w] \in {"sleeping", "scanning", "timeout", "ok"} => before[w] \subseteq existing[w]
    /\ mailPc[w] # "ok" => got[w] = None

\* The inductive invariant of the mailbox.
MailInv == MailSafety /\ StoresNew /\ ScanIsComplete

\* An empty Maildir, and nobody has looked at it.
LEMMA MailInit == Mail!Init => MailInv
  BY DEF Mail!Init, MailInv, MailSafety, StoresNew, ScanIsComplete, Mail!TypeOK,
     Mail!OnlyFreshMail, Mail!TimeoutMissesNothing, Mail!CapturedOnce

\* Submissions, moves of the mail reader, and the scans of the waiters.
LEMMA MailStepInv == MailInv /\ [Mail!Next]_mailVars => MailInv'
<1> SUFFICES ASSUME MailInv, [Mail!Next]_mailVars PROVE MailInv'
  OBVIOUS
<1> USE LocalAssumption
    DEF Mail!MailAssumption, MailInv, MailSafety, StoresNew, ScanIsComplete, Mail!TypeOK,
      Mail!OnlyFreshMail, Mail!TimeoutMissesNothing, Mail!CapturedOnce, Mail!mail, Mail!waiter
<1>1. CASE Mail!CaptureStores(Operator)
  BY <1>1 DEF Mail!CaptureStores
<1>2. ASSUME NEW m \in Mails, Mail!CaptureChecks(Operator, m) PROVE MailInv'
  BY <1>2 DEF Mail!CaptureChecks, Mail!Captured
<1>3. ASSUME NEW m \in Mails, Mail!ReaderMoves(m) PROVE MailInv'
  BY <1>3 DEF Mail!ReaderMoves
<1>4. ASSUME NEW w \in Waiters, Mail!ScanBegins(w) PROVE MailInv'
  BY <1>4 DEF Mail!ScanBegins, Mail!FirstFolder, Mail!Maildir
<1>5. ASSUME NEW w \in Waiters, Mail!BaselineEnds(w) PROVE MailInv'
  BY <1>5 DEF Mail!BaselineEnds, Mail!SecondFolder
<1>6. ASSUME NEW w \in Waiters, Mail!ScanEnds(w) PROVE MailInv'
  BY <1>6 DEF Mail!ScanEnds, Mail!SecondFolder
<1>7. CASE UNCHANGED mailVars
  BY <1>7 DEF mailVars
<1> QED
  BY <1>1, <1>2, <1>3, <1>4, <1>5, <1>6, <1>7 DEF Mail!Next

-----------------------------------------------------------------------------
(* The review store, one process at a time *)

\* What the process works on.
JobFits ==
  /\ storePc[Operator] \in {"export", "import", "stored", "delivering", "notify"} =>
       storeJob[Operator] \in Artifacts
  /\ storePc[Operator] = "acknowledge" => storeJob[Operator] \in Replies

\* Its copy is the manifest, with the revision that is about to be recorded: nobody
\* else writes the manifest in between.
CopyIsManifest ==
  /\ storePc[Operator] \in {"export", "import", "acknowledge"} =>
       copy[Operator].revisions = revisions
  /\ storePc[Operator] = "stored" =>
       /\ copy[Operator].revisions = Append(revisions, storeJob[Operator])
       /\ Len(revisions) + 1 \in DOMAIN mbox
       /\ mbox[Len(revisions) + 1] = storeJob[Operator]
  /\ storePc[Operator] \in {"export", "import", "acknowledge", "stored"} =>
       copy[Operator].acknowledged = storeAcknowledged
  /\ storePc[Operator] \in {"export", "stored"} => ~Store!InSeries(revisions, storeJob[Operator])
  /\ storePc[Operator] \in {"delivering", "notify"} => Store!InSeries(revisions, storeJob[Operator])

\* The inductive invariant of the review store.
StoreInv ==
  /\ Store!TypeOK /\ Store!RevisionHasItsMbox /\ Store!DeliveredIsKnown
  /\ Store!OneRevisionPerArtifact /\ JobFits /\ CopyIsManifest

\* The bound on the revisions is a number.
LEMMA RevisionBound == Store!MaxRevisions \in Nat
<1>1. Store!Cardinality(Artifacts) = Cardinality(Artifacts)
  BY DEF Store!Cardinality, Cardinality
<1>2. IsFiniteSet(Artifacts)
  BY LocalAssumption DEF Store!ReviewAssumption, Store!IsFiniteSet, IsFiniteSet
<1>3. Cardinality(Artifacts) \in Nat
  BY <1>2, FS_CardinalityType
<1> QED
  BY <1>1, <1>3 DEF Store!MaxRevisions

\* A series with another artifact.
LEMMA Extended ==
  ASSUME NEW s \in Seq(Artifacts), NEW a \in Artifacts
  PROVE  /\ Append(s, a) \in Seq(Artifacts)
         /\ Len(Append(s, a)) = Len(s) + 1 /\ Len(s) \in Nat
         /\ DOMAIN s = 1 .. Len(s) /\ DOMAIN Append(s, a) = 1 .. Len(s) + 1
         /\ \A i \in DOMAIN s : Append(s, a)[i] = s[i] /\ s[i] \in Artifacts
         /\ Append(s, a)[Len(s) + 1] = a
  OBVIOUS

\* The series is empty and the process idle.
LEMMA StoreInit == Store!Init => StoreInv
<1> SUFFICES ASSUME Store!Init PROVE StoreInv
  OBVIOUS
<1>1. Store!Empty \in [operation : {"none", "export", "import", "acknowledge"},
                       revisions : Seq(Artifacts), acknowledged : SUBSET Replies]
  BY DEF Store!Empty
<1>2. Store!TypeOK
  BY <1>1, RevisionBound, LocalAssumption
  DEF Store!Init, Store!TypeOK, Store!ReviewAssumption, Store!Message
<1> QED
  BY <1>2
  DEF StoreInv, Store!Init, Store!RevisionHasItsMbox, Store!DeliveredIsKnown,
      Store!OneRevisionPerArtifact, JobFits, CopyIsManifest

\* Operations read the manifest.
LEMMA StoreLoads ==
  ASSUME StoreInv, NEW op \in {"export", "import", "acknowledge"}, NEW item,
         Store!Load(Operator, op, item),
         op = "acknowledge" => item \in Replies,
         op # "acknowledge" => item \in Artifacts,
         op = "export" => ~Store!InSeries(revisions, item),
         UNCHANGED <<revisions, storeAcknowledged, mbox, maildir, notices, reported, replies, faults>>
  PROVE  StoreInv'
<1> DEFINE loaded == [operation |-> op, revisions |-> revisions,
                    acknowledged |-> storeAcknowledged]
<1>1. /\ storePc' = [storePc EXCEPT ![Operator] = op]
      /\ storeJob' = [storeJob EXCEPT ![Operator] = item]
      /\ copy' = [copy EXCEPT ![Operator] = loaded]
  BY DEF Store!Load, Store!Goto
<1>2. loaded \in [operation : {"none", "export", "import", "acknowledge"},
                revisions : Seq(Artifacts), acknowledged : SUBSET Replies]
  BY DEF StoreInv, Store!TypeOK
<1>3. Store!TypeOK'
  BY <1>1, <1>2 DEF StoreInv, Store!TypeOK
<1>4. storePc'[Operator] = op /\ storeJob'[Operator] = item /\ copy'[Operator] = loaded
  BY <1>1 DEF StoreInv, Store!TypeOK
<1>5. JobFits' /\ CopyIsManifest'
  BY <1>4 DEF JobFits, CopyIsManifest, Store!InSeries
<1> QED
  BY <1>3, <1>5
  DEF StoreInv, Store!RevisionHasItsMbox, Store!DeliveredIsKnown, Store!Known, Store!InSeries,
      Store!OneRevisionPerArtifact

\* Operations return.
LEMMA StoreReturns ==
  ASSUME StoreInv, Store!Return(Operator), UNCHANGED <<revisions, mbox, maildir>>,
         storeAcknowledged' \in SUBSET Replies, replies' = replies,
         notices' \in SUBSET Artifacts, reported' \in SUBSET Artifacts, faults' \in 0 .. MaxFaults
  PROVE  StoreInv'
<1>1. /\ storePc' = [storePc EXCEPT ![Operator] = "idle"]
      /\ storeJob' = [storeJob EXCEPT ![Operator] = None]
      /\ copy' = [copy EXCEPT ![Operator] = Store!Empty]
  BY DEF Store!Return, Store!Goto
<1>2. Store!Empty \in [operation : {"none", "export", "import", "acknowledge"},
                       revisions : Seq(Artifacts), acknowledged : SUBSET Replies]
  BY DEF Store!Empty
<1>3. Store!TypeOK'
  BY <1>1, <1>2 DEF StoreInv, Store!TypeOK
<1>4. storePc'[Operator] = "idle"
  BY <1>1 DEF StoreInv, Store!TypeOK
<1>5. JobFits' /\ CopyIsManifest'
  BY <1>4 DEF JobFits, CopyIsManifest
<1> QED
  BY <1>3, <1>5
  DEF StoreInv, Store!RevisionHasItsMbox, Store!DeliveredIsKnown, Store!Known, Store!InSeries,
      Store!OneRevisionPerArtifact

\* Exports, imports and acknowledgements, deliveries message by message, faults at any
\* point, and replies in between.
LEMMA StoreStepInv == StoreInv /\ [Store!Next]_storeVars => StoreInv'
<1> SUFFICES ASSUME StoreInv, [Store!Next]_storeVars PROVE StoreInv'
  OBVIOUS
<1> DEFINE job == storeJob[Operator]
           series == copy[Operator].revisions
<1>0. revisions \in Seq(Artifacts) /\ series \in Seq(Artifacts)
  BY DEF StoreInv, Store!TypeOK
<1>1. ASSUME NEW a \in Artifacts, Store!BeginExport(Operator, a) PROVE StoreInv'
  BY <1>1, StoreLoads DEF Store!BeginExport, Store!manifest
<1>2. ASSUME NEW a \in Artifacts, Store!BeginImport(Operator, a) PROVE StoreInv'
  BY <1>2, StoreLoads DEF Store!BeginImport, Store!manifest
<1>3. ASSUME NEW r \in Replies, Store!BeginAcknowledge(Operator, r) PROVE StoreInv'
  BY <1>3, StoreLoads DEF Store!BeginAcknowledge, Store!manifest
<1>4. CASE Store!ImportAgain(Operator)
  <2>1. reported' \in SUBSET Artifacts
    BY <1>4 DEF Store!ImportAgain, StoreInv, Store!TypeOK, JobFits
  <2> QED
    BY <1>4, <2>1, StoreReturns
    DEF Store!ImportAgain, Store!manifest, StoreInv, Store!TypeOK
<1>5. CASE Store!WriteMbox(Operator)
  <2>1. /\ storePc[Operator] \in {"export", "import"} /\ series = revisions
        /\ job \in Artifacts /\ ~Store!InSeries(revisions, job)
        /\ copy[Operator].acknowledged = storeAcknowledged
    BY <1>5 DEF Store!WriteMbox, Store!IsRepeated, StoreInv, JobFits, CopyIsManifest
  <2>2. /\ Len(series) + 1 \in 1 .. Store!MaxRevisions
        /\ mbox' = [mbox EXCEPT ![Len(series) + 1] = job]
        /\ copy' = [copy EXCEPT ![Operator].revisions = Append(series, job)]
        /\ storePc' = [storePc EXCEPT ![Operator] = "stored"]
        /\ UNCHANGED <<revisions, storeAcknowledged, maildir, replies, notices, reported,
                       storeJob, faults>>
    BY <1>0, <1>5, RevisionBound
    DEF Store!WriteMbox, Store!NextRevision, Store!AfterMbox, Store!Goto, Store!manifest
  <2>3. Append(series, job) \in Seq(Artifacts)
    BY <1>0, <2>1, Extended
  <2>4. /\ copy'[Operator].revisions = Append(series, job)
        /\ copy'[Operator].acknowledged = copy[Operator].acknowledged
        /\ storePc'[Operator] = "stored"
    BY <2>2 DEF StoreInv, Store!TypeOK
  <2>5. Store!TypeOK'
    BY <2>1, <2>2, <2>3 DEF StoreInv, Store!TypeOK
  <2>6. mbox'[Len(revisions) + 1] = job /\ DOMAIN mbox' = DOMAIN mbox
    BY <2>1, <2>2 DEF StoreInv, Store!TypeOK
  <2>7. JobFits' /\ CopyIsManifest'
    BY <2>1, <2>2, <2>4, <2>6 DEF JobFits, CopyIsManifest, Store!InSeries, StoreInv, Store!TypeOK
  <2>8. Store!RevisionHasItsMbox'
    <3> SUFFICES ASSUME NEW n \in DOMAIN revisions PROVE mbox'[n] = revisions[n]
      BY <2>2 DEF Store!RevisionHasItsMbox
    <3>1. n # Len(series) + 1
      BY <1>0, <2>1, Extended
    <3>2. mbox[n] = revisions[n]
      BY DEF StoreInv, Store!RevisionHasItsMbox
    <3>3. mbox' = [i \in DOMAIN mbox |-> IF i = Len(series) + 1 THEN job ELSE mbox[i]]
      BY <2>2
    <3>4. n \in DOMAIN mbox
      <4>1. DOMAIN mbox = 1 .. Store!MaxRevisions
        BY DEF StoreInv, Store!TypeOK
      <4>2. n \in 1 .. Len(revisions) /\ Len(revisions) \in Nat
        BY <1>0, <2>1, Extended
      <4> QED
        BY <2>1, <2>2, <4>1, <4>2, RevisionBound
    <3> QED
      BY <3>1, <3>2, <3>3, <3>4
  <2> QED
    BY <2>2, <2>5, <2>7, <2>8
    DEF StoreInv, Store!DeliveredIsKnown, Store!Known, Store!InSeries,
        Store!OneRevisionPerArtifact
<1>6. CASE Store!WriteManifest(Operator)
  <2>1. /\ series = Append(revisions, job) /\ job \in Artifacts
        /\ Len(revisions) + 1 \in DOMAIN mbox /\ mbox[Len(revisions) + 1] = job
        /\ ~Store!InSeries(revisions, job)
    BY <1>6 DEF Store!WriteManifest, StoreInv, JobFits, CopyIsManifest
  <2>2. /\ revisions' = series /\ storeAcknowledged' = copy[Operator].acknowledged
        /\ storePc' = [storePc EXCEPT ![Operator] = "delivering"]
        /\ UNCHANGED <<mbox, maildir, replies, notices, reported, storeJob, copy, faults>>
    BY <1>6 DEF Store!WriteManifest, Store!Goto
  <2>3. /\ Len(series) = Len(revisions) + 1 /\ Len(revisions) \in Nat
        /\ DOMAIN revisions = 1 .. Len(revisions) /\ DOMAIN series = 1 .. Len(revisions) + 1
        /\ \A i \in DOMAIN revisions : series[i] = revisions[i]
        /\ series[Len(revisions) + 1] = job
    BY <1>0, <2>1, Extended
  <2>4. \A i \in DOMAIN series : i \in DOMAIN revisions \/ i = Len(revisions) + 1
    BY <2>3
  <2>5. Store!TypeOK'
    BY <1>0, <2>2 DEF StoreInv, Store!TypeOK
  <2>6. Store!RevisionHasItsMbox'
    BY <2>1, <2>2, <2>3, <2>4 DEF StoreInv, Store!RevisionHasItsMbox
  <2>7. \A a : Store!InSeries(revisions, a) => Store!InSeries(series, a)
    BY <2>3 DEF Store!InSeries
  <2>8. Store!DeliveredIsKnown'
    BY <2>2, <2>7 DEF StoreInv, Store!DeliveredIsKnown, Store!Known
  <2>9. Store!OneRevisionPerArtifact'
    BY <2>1, <2>2, <2>3, <2>4 DEF StoreInv, Store!OneRevisionPerArtifact, Store!InSeries
  <2>10. Store!InSeries(series, job)
    BY <2>3 DEF Store!InSeries
  <2>11. storePc'[Operator] = "delivering"
    BY <2>2 DEF StoreInv, Store!TypeOK
  <2>12. JobFits' /\ CopyIsManifest'
    BY <2>1, <2>2, <2>10, <2>11 DEF JobFits, CopyIsManifest
  <2> QED
    BY <2>5, <2>6, <2>8, <2>9, <2>12 DEF StoreInv
<1>7. CASE Store!WriteAcknowledgement(Operator)
  <2>1. revisions' = revisions
    BY <1>7 DEF Store!WriteAcknowledgement, StoreInv, CopyIsManifest
  <2>2. storeAcknowledged' \in SUBSET Replies
    BY <1>7 DEF Store!WriteAcknowledgement, Store!NowAcknowledged, StoreInv, Store!TypeOK, JobFits
  <2> QED
    BY <1>7, <2>1, <2>2, StoreReturns
    DEF Store!WriteAcknowledgement, StoreInv, Store!TypeOK
<1>8. CASE Store!Deliver(Operator)
  <2>1. PICK part \in SeriesParts : maildir' = maildir \cup {<<job, part>>}
    BY <1>8 DEF Store!Deliver
  <2>2. job \in Artifacts /\ Store!InSeries(revisions, job)
    BY <1>8 DEF Store!Deliver, StoreInv, JobFits, CopyIsManifest
  <2>3. UNCHANGED <<revisions, storeAcknowledged, mbox, replies, notices, reported, storePc,
                    storeJob, copy, faults>>
    BY <1>8 DEF Store!Deliver, Store!manifest, Store!process
  <2>4. Store!TypeOK'
    BY <2>1, <2>2, <2>3 DEF StoreInv, Store!TypeOK, Store!Message
  <2>5. Store!DeliveredIsKnown'
    BY <2>1, <2>2, <2>3 DEF StoreInv, Store!DeliveredIsKnown, Store!Known, Store!InSeries
  <2> QED
    BY <2>3, <2>4, <2>5
    DEF StoreInv, Store!RevisionHasItsMbox, Store!OneRevisionPerArtifact, JobFits, CopyIsManifest,
        Store!InSeries
<1>9. CASE Store!DeliveryEnds(Operator)
  <2>1. CASE copy[Operator].operation = "import"
    <3>1. /\ storePc' = [storePc EXCEPT ![Operator] = "notify"]
          /\ storePc[Operator] = "delivering"
          /\ UNCHANGED <<revisions, storeAcknowledged, mbox, maildir, replies, notices, reported,
                         storeJob, copy, faults>>
      BY <1>9, <2>1 DEF Store!DeliveryEnds, Store!Goto, Store!manifest
    <3>2. storePc'[Operator] = "notify" /\ Store!TypeOK'
      BY <3>1 DEF StoreInv, Store!TypeOK
    <3> QED
      BY <3>1, <3>2
      DEF StoreInv, Store!RevisionHasItsMbox, Store!OneRevisionPerArtifact,
          Store!DeliveredIsKnown, Store!Known, JobFits, CopyIsManifest, Store!InSeries
  <2>2. CASE copy[Operator].operation # "import"
    BY <1>9, <2>2, StoreReturns
    DEF Store!DeliveryEnds, Store!manifest, StoreInv, Store!TypeOK
  <2> QED
    BY <2>1, <2>2
<1>10. CASE Store!Notify(Operator)
  <2>1. notices' \in SUBSET Artifacts /\ reported' \in SUBSET Artifacts
    BY <1>10 DEF Store!Notify, StoreInv, Store!TypeOK, JobFits
  <2> QED
    BY <1>10, <2>1, StoreReturns DEF Store!Notify, Store!manifest, StoreInv, Store!TypeOK
<1>11. CASE Store!Fault(Operator)
  <2>1. faults' \in 0 .. MaxFaults
    BY <1>11, LocalAssumption DEF Store!Fault, StoreInv, Store!TypeOK, Store!ReviewAssumption
  <2> QED
    BY <1>11, <2>1, StoreReturns DEF Store!Fault, Store!manifest, StoreInv, Store!TypeOK
<1>12. ASSUME NEW r \in Replies, Store!Capture(r) PROVE StoreInv'
  <2>1. UNCHANGED <<revisions, storeAcknowledged, mbox, maildir, notices, reported, storePc,
                    storeJob, copy, faults>>
    BY <1>12 DEF Store!Capture, Store!manifest, Store!process
  <2>2. Store!TypeOK'
    BY <1>12, <2>1 DEF Store!Capture, StoreInv, Store!TypeOK
  <2> QED
    BY <2>1, <2>2
    DEF StoreInv, Store!RevisionHasItsMbox, Store!OneRevisionPerArtifact,
        Store!DeliveredIsKnown, Store!Known, JobFits, CopyIsManifest, Store!InSeries
<1>13. CASE UNCHANGED storeVars
  BY <1>13
  DEF storeVars, StoreInv, Store!TypeOK, Store!RevisionHasItsMbox, Store!OneRevisionPerArtifact,
      Store!DeliveredIsKnown, Store!Known, JobFits, CopyIsManifest, Store!InSeries
<1> QED
  BY <1>1, <1>2, <1>3, <1>4, <1>5, <1>6, <1>7, <1>8, <1>9, <1>10, <1>11, <1>12, <1>13
  DEF Store!Next

\* The manifest is only written to add to it.
LEMMA ManifestStep ==
  StoreInv /\ Store!Next =>
    Store!IsPrefixOf(revisions, revisions') /\ storeAcknowledged \subseteq storeAcknowledged'
<1> SUFFICES ASSUME StoreInv, Store!Next
             PROVE  /\ Store!IsPrefixOf(revisions, revisions')
                    /\ storeAcknowledged \subseteq storeAcknowledged'
  OBVIOUS
<1>0. revisions \in Seq(Artifacts)
  BY DEF StoreInv, Store!TypeOK
<1>1. Store!IsPrefixOf(revisions, revisions)
  BY <1>0 DEF Store!IsPrefixOf
<1>2. CASE Store!WriteManifest(Operator)
  <2>1. /\ revisions' = Append(revisions, storeJob[Operator]) /\ storeJob[Operator] \in Artifacts
        /\ storeAcknowledged' = storeAcknowledged
    BY <1>2 DEF Store!WriteManifest, StoreInv, JobFits, CopyIsManifest
  <2> QED
    BY <1>0, <2>1, Extended DEF Store!IsPrefixOf
<1>3. CASE Store!WriteAcknowledgement(Operator)
  BY <1>1, <1>3
  DEF Store!WriteAcknowledgement, Store!NowAcknowledged, StoreInv, CopyIsManifest
<1>4. CASE UNCHANGED <<revisions, storeAcknowledged>>
  BY <1>1, <1>4
<1> QED
  BY <1>2, <1>3, <1>4
  DEF Store!Next, Store!BeginExport, Store!BeginImport, Store!BeginAcknowledge,
      Store!ImportAgain, Store!WriteMbox, Store!Deliver, Store!DeliveryEnds, Store!Notify,
      Store!Fault, Store!Capture, Store!manifest

-----------------------------------------------------------------------------
(* The record of an agent *)

\* Without a directory there is nothing of a record, and each operation of the store works
\* on a directory that is there; a record nothing has happened to is whole.
RecordOfDirectory ==
  /\ ~directory => ~metadata /\ version = 0 /\ summary = None
  /\ step # "idle" => directory
  /\ step = "creating" => version = 0 /\ summary = None
  /\ step = "appending" => version # 0
  /\ step = "appending" /\ ~hurt => metadata

\* A summary was cached for a version there has been.
StampIsOld == summary # None /\ version # 0 => summary.stamp <= version

\* The model is asked about a transcript.
AskedIsRead == \A c \in SummaryCalls : call[c] = "asking" => read[c] # 0

\* The inductive invariant of a record.
RecordInv ==
  /\ Summary!TypeOK /\ Summary!RecordIsWhole /\ RecordOfDirectory /\ StampIsOld
  /\ AskedIsRead

\* The directory has just been made.
LEMMA RecordInit == Summary!Init => RecordInv
<1> SUFFICES ASSUME Summary!Init PROVE RecordInv
  OBVIOUS
<1>1. Summary!TypeOK
  <2>1. 0 \in 0 .. MaxVersions
    BY LocalAssumption DEF Summary!SummaryAssumption
  <2> QED
    BY <2>1 DEF Summary!Init, Summary!TypeOK
<1> QED
  BY <1>1
  DEF Summary!Init, RecordInv, Summary!RecordIsWhole, Summary!Idle, RecordOfDirectory, StampIsOld,
      AskedIsRead

\* Each file that is written or removed, writes and removals that fail, a crash between
\* two files, and summaries that come late.
LEMMA RecordStepInv == RecordInv /\ [Summary!Next]_recordVars => RecordInv'
<1> SUFFICES ASSUME RecordInv, [Summary!Next]_recordVars PROVE RecordInv'
  OBVIOUS
<1> USE LocalAssumption
    DEF Summary!SummaryAssumption, RecordInv, Summary!TypeOK, Summary!RecordIsWhole,
      Summary!Idle, RecordOfDirectory, StampIsOld, AskedIsRead, Summary!Versions
<1>1. CASE Summary!WriteMetadata \/ Summary!WriteHistory \/ Summary!CreateFails
  <2>0. 1 \in 0 .. MaxVersions
    OBVIOUS
  <2>1. /\ UNCHANGED <<summary, call, read>> /\ version' \in {version, 1} /\ hurt' \in {hurt, TRUE}
        /\ directory' \in {directory, FALSE} /\ metadata' \in BOOLEAN
        /\ step' \in {"creating", "idle"}
    BY <1>1 DEF Summary!WriteMetadata, Summary!WriteHistory, Summary!CreateFails, Summary!Undone,
       Summary!PartlyUndone
  <2>2. Summary!TypeOK'
    BY <2>0, <2>1
  <2>3. CASE Summary!WriteMetadata \/ Summary!WriteHistory
    BY <2>2, <2>3 DEF Summary!WriteMetadata, Summary!WriteHistory
  <2>4. CASE Summary!CreateFails /\ Summary!Undone
    BY <2>2, <2>4 DEF Summary!CreateFails, Summary!Undone, Summary!PartlyUndone
  <2>5. CASE Summary!CreateFails /\ Summary!PartlyUndone
    <3>1. hurt' = TRUE \/ Summary!Undone
      BY <2>5 DEF Summary!CreateFails
    <3>2. /\ step' = "idle" /\ directory /\ directory' /\ summary = None /\ summary' = None
          /\ UNCHANGED <<call, read>>
      BY <2>5 DEF Summary!CreateFails, Summary!PartlyUndone
    <3> QED
      BY <2>2, <2>4, <2>5, <3>1, <3>2 DEF Summary!Undone
  <2> QED
    BY <1>1, <2>3, <2>4, <2>5 DEF Summary!CreateFails
<1>2. CASE Summary!AppendHistory \/ Summary!UnlinkSummary
  BY <1>2 DEF Summary!AppendHistory, Summary!UnlinkSummary
<1>3. CASE Summary!RemoveBegins \/ Summary!RemoveFile \/ Summary!RemoveDirectory
  <2>1. /\ UNCHANGED <<hurt, call, read>> /\ version' \in {0, version}
        /\ summary' \in {None, summary} /\ metadata' \in BOOLEAN /\ directory' \in BOOLEAN
        /\ step' \in {"removing", "idle"}
    BY <1>3 DEF Summary!RemoveBegins, Summary!RemoveFile, Summary!RemoveDirectory
  <2>2. Summary!TypeOK'
    BY <2>1
  <2>3. StampIsOld' /\ AskedIsRead'
    BY <2>1
  <2>4. RecordOfDirectory' /\ Summary!RecordIsWhole'
    BY <1>3, <2>1 DEF Summary!RemoveBegins, Summary!RemoveFile, Summary!RemoveDirectory
  <2> QED
    BY <2>2, <2>3, <2>4
<1>4. CASE Summary!RemoveFails \/ Summary!Crash
  <2>1. /\ UNCHANGED <<directory, metadata, version, summary, read>> /\ step' = "idle"
        /\ hurt' = TRUE
        /\ call' \in [SummaryCalls -> {"new", "asking", "done", "failed"}]
        /\ \A c \in SummaryCalls : call'[c] = "asking" => call[c] = "asking"
    BY <1>4 DEF Summary!RemoveFails, Summary!Crash
  <2>2. Summary!TypeOK'
    BY <2>1
  <2> QED
    BY <2>1, <2>2
<1>5. ASSUME NEW c \in SummaryCalls, Summary!AnswerFromCache(c) \/ Summary!CallFails(c)
      PROVE  RecordInv'
  BY <1>5 DEF Summary!AnswerFromCache, Summary!CallFails
<1>6. ASSUME NEW c \in SummaryCalls, Summary!AskModel(c) PROVE RecordInv'
  BY <1>6 DEF Summary!AskModel
<1>7. ASSUME NEW c \in SummaryCalls, Summary!Caches(c) PROVE RecordInv'
  <2>1. /\ step = "idle" /\ call[c] = "asking" /\ version # 0
        /\ summary' = [of |-> read[c], stamp |-> version] /\ directory' = TRUE
        /\ call' = [call EXCEPT ![c] = "done"]
        /\ UNCHANGED <<metadata, version, step, hurt, read>>
    BY <1>7 DEF Summary!Caches, Summary!CacheSummary
  <2>2. read[c] \in 1 .. MaxVersions /\ version \in 1 .. MaxVersions
    BY <2>1
  <2>3. Summary!TypeOK'
    BY <2>1, <2>2
  <2> QED
    BY <2>1, <2>2, <2>3
<1>8. CASE UNCHANGED recordVars
  BY <1>8 DEF recordVars
<1> QED
  BY <1>1, <1>2, <1>3, <1>4, <1>5, <1>6, <1>7, <1>8 DEF Summary!Next

\* What is removed stays removed, and an append ends the validity of the summary.
LEMMA RecordStep ==
  RecordInv /\ Summary!Next =>
    /\ ~directory => ~directory'
    /\ version' > version => ~Summary!Cached'
<1> SUFFICES ASSUME RecordInv, Summary!Next
             PROVE  /\ ~directory => ~directory'
                    /\ version' > version => ~Summary!Cached'
  OBVIOUS
<1> USE DEF RecordInv, Summary!TypeOK, RecordOfDirectory, StampIsOld, Summary!Versions,
      Summary!Cached, Summary!Idle
<1>1. CASE Summary!WriteMetadata \/ Summary!WriteHistory \/ Summary!CreateFails
  BY <1>1 DEF Summary!WriteMetadata, Summary!WriteHistory, Summary!CreateFails, Summary!Undone,
     Summary!PartlyUndone
<1>2. CASE Summary!AppendHistory \/ Summary!UnlinkSummary
  BY <1>2 DEF Summary!AppendHistory, Summary!UnlinkSummary
<1>3. CASE Summary!RemoveBegins \/ Summary!RemoveFile \/ Summary!RemoveDirectory
  BY <1>3 DEF Summary!RemoveBegins, Summary!RemoveFile, Summary!RemoveDirectory
<1>4. CASE Summary!RemoveFails \/ Summary!Crash
  BY <1>4 DEF Summary!RemoveFails, Summary!Crash
<1>5. ASSUME NEW c \in SummaryCalls,
             \/ Summary!AnswerFromCache(c) \/ Summary!AskModel(c)
             \/ Summary!Caches(c) \/ Summary!CallFails(c)
      PROVE  (~directory => ~directory') /\ version' = version
  BY <1>5 DEF Summary!AnswerFromCache, Summary!AskModel, Summary!Caches, Summary!CacheSummary,
     Summary!CallFails
<1> QED
  BY <1>1, <1>2, <1>3, <1>4, <1>5 DEF Summary!Next

-----------------------------------------------------------------------------
(* The five parts within the whole *)

\* What happens to the store, the mailbox, a record, a submission and a connection is a
\* behaviour of the module of each, whichever part is in focus.
THEOREM ToolsAreParts ==
  LocalSpec => Store!Spec /\ Mail!Spec /\ Summary!Spec /\ Apply!Spec /\ Spec
<1>1. LocalInit => Store!Init /\ Mail!Init /\ Summary!Init /\ Apply!Init /\ Init
  BY DEF LocalInit
<1>2. [LocalNext]_LocalVars =>
        /\ [Store!Next]_Store!vars /\ [Mail!Next]_Mail!vars /\ [Summary!Next]_Summary!vars
        /\ [Apply!Next]_Apply!vars /\ [Next]_vars
  <2> SUFFICES ASSUME [LocalNext]_LocalVars
               PROVE  /\ [Store!Next]_Store!vars /\ [Mail!Next]_Mail!vars
                      /\ [Summary!Next]_Summary!vars /\ [Apply!Next]_Apply!vars /\ [Next]_vars
    OBVIOUS
  <2> USE DEF LocalVars, storeVars, mailVars, recordVars, applyVars, Store!vars,
            Store!manifest, Store!process, Mail!vars, Mail!mail, Mail!waiter, Summary!vars,
            Apply!vars, Apply!agent, Apply!call, Apply!tree
  <2>1. CASE LocalNext
    BY <2>1 DEF LocalNext, StoreStep, MailStep, RebaseStep, PicksStep, MergeStep, FeedbackStep, ViewStep,
       SummaryStep, HunksStep, WorktreeStep, CloneStep, ApplyStep, IpcStep
  <2>2. CASE UNCHANGED LocalVars
    BY <2>2
  <2> QED
    BY <2>1, <2>2
<1> QED
  BY <1>1, <1>2, PTL DEF LocalSpec, Store!Spec, Mail!Spec, Summary!Spec, Apply!Spec, Spec

\* mcp_tgit_review.py, the manifest of a series: the inductive invariant holds in every
\* reachable state.
THEOREM StoreInvCorrect == Store!Spec => []StoreInv
<1>1. [Store!Next]_Store!vars => [Store!Next]_storeVars
  BY DEF Store!vars, storeVars, Store!manifest, Store!process
<1> QED
  BY <1>1, StoreInit, StoreStepInv, PTL DEF Store!Spec

\* agent_store.py and summarize_agent_history: the inductive invariant holds in every
\* reachable state.
THEOREM RecordInvCorrect == Summary!Spec => []RecordInv
<1>1. [Summary!Next]_Summary!vars => [Summary!Next]_recordVars
  BY DEF Summary!vars, recordVars
<1> QED
  BY <1>1, RecordInit, RecordStepInv, PTL DEF Summary!Spec

\* The server never runs two handlers of an agent, a client that goes on never meets the
\* answer to an earlier request, and worker_connected is true exactly while one is served.
THEOREM IpcTheorem == LocalSpec => []IpcSafety
<1>1. Spec => []IpcInv
  BY IpcInit, IpcStepInv, PTL DEF Spec
<1> QED
  BY <1>1, IpcInvSafe, ToolsAreParts, PTL

\* Only fresh mail ends a wait, no mail is overlooked while a reader moves it, and a
\* repeated submission is kept once.
THEOREM MailTheorem == LocalSpec => []MailSafety
<1>1. Mail!Spec => []MailInv
  <2>1. [Mail!Next]_Mail!vars => [Mail!Next]_mailVars
    BY DEF Mail!vars, mailVars, Mail!mail, Mail!waiter
  <2> QED
    BY <2>1, MailInit, MailStepInv, PTL DEF Mail!Spec
<1>2. MailInv => MailSafety
  BY DEF MailInv
<1> QED
  BY <1>1, <1>2, ToolsAreParts, PTL

\* However calls of apply_agent_patch interleave with submissions, ends and restarts,
\* nothing is acknowledged when nothing was applied, and no worker goes on, or submits,
\* under an acknowledgement.
THEOREM ApplyTheorem == LocalSpec => []ApplySafety
<1>1. Apply!Spec => []ApplyInv
  <2>1. [Apply!Next]_Apply!vars => [Apply!Next]_applyVars
    BY DEF Apply!vars, applyVars, Apply!agent, Apply!call, Apply!tree
  <2> QED
    BY <2>1, ApplyInit, ApplyStepInv, PTL DEF Apply!Spec
<1>2. ApplyInv => ApplySafety
  BY DEF ApplyInv
<1> QED
  BY <1>1, <1>2, ToolsAreParts, PTL

\* One process at a time: the mbox of a revision is that revision's, what was delivered is
\* known, an artifact is one revision, and nothing of the manifest is ever lost.
THEOREM StoreTheorem == LocalSpec => StoreSafety
<1>1. StoreInv =>
        /\ Store!TypeOK /\ Store!RevisionHasItsMbox /\ Store!DeliveredIsKnown
        /\ Store!OneRevisionPerArtifact
  BY DEF StoreInv
<1>2. StoreInv /\ [Store!Next]_Store!vars =>
        [/\ Store!IsPrefixOf(revisions, revisions')
         /\ storeAcknowledged \subseteq storeAcknowledged']_Store!vars
  BY ManifestStep
<1>3. Store!Spec => StoreSafety
  BY <1>1, <1>2, StoreInvCorrect, PTL DEF Store!Spec, StoreSafety, Store!ManifestOnlyGrows
<1> QED
  BY <1>3, ToolsAreParts, PTL

\* The record of an agent is whole or absent between operations, a removed one stays
\* removed, and an append ends the validity of the cached summary.
THEOREM RecordTheorem == LocalSpec => RecordSafety
<1>1. RecordInv => Summary!TypeOK /\ Summary!RecordIsWhole
  BY DEF RecordInv
<1>2. RecordInv /\ [Summary!Next]_Summary!vars =>
        /\ [~directory => ~directory']_Summary!vars
        /\ [version' > version => ~Summary!Cached']_Summary!vars
  BY RecordStep
<1>3. Summary!Spec => RecordSafety
  BY <1>1, <1>2, RecordInvCorrect, PTL
  DEF Summary!Spec, RecordSafety, Summary!RemovedStaysRemoved, Summary!AppendInvalidates
<1> QED
  BY <1>3, ToolsAreParts, PTL
=============================================================================
