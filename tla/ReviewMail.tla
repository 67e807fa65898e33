----------------------------- MODULE ReviewMail -----------------------------
(***************************************************************************)
(* The Maildir of the review store as a mailbox (mcp_tgit_review.py):      *)
(* capture_mail stores what Mutt submits under a file name made from its   *)
(* digest, a mail reader moves messages from new/ to cur/, and             *)
(* wait_for_mail waits for a message that has not been there before.  All  *)
(* of them are processes without a lock; a directory is listed at one      *)
(* instant, new/ before cur/.                                              *)
(***************************************************************************)
EXTENDS Naturals, FiniteSets

CONSTANTS
  Mails,       \* the messages, each with its digest
  ToAgent,     \* those addressed to this agent (To or Cc)
  Submitters,  \* processes that run capture_mail, again and again
  Waiters,     \* calls of wait_for_mail
  None

MailAssumption == ToAgent \subseteq Mails /\ None \notin Mails

VARIABLES
  new, cur,      \* the messages in new/ and in cur/
  submission,    \* the message a submitter is about to store
  pc,            \* where a waiter is
  existing,      \* digests a waiter has seen
  seen,          \* what its current scan has read so far
  got,           \* the message it has returned
  before,        \* what was in the Maildir when it was called
  present        \* what was there when its current scan began

mail   == <<new, cur>>
waiter == <<pc, existing, seen, got, before, present>>
vars   == <<mail, submission, waiter>>

Maildir == new \cup cur

TypeOK ==
  /\ new \subseteq Mails /\ cur \subseteq Mails
  /\ submission \in [Submitters -> Mails \cup {None}]
  /\ pc \in [Waiters -> {"called", "baseline", "sleeping", "scanning", "timeout", "ok"}]
  /\ \A f \in {existing, seen, before, present} : f \in [Waiters -> SUBSET Mails]
  /\ got \in [Waiters -> Mails \cup {None}]

Init ==
  /\ new = {} /\ cur = {}
  /\ submission = [s \in Submitters |-> None]
  /\ pc = [w \in Waiters |-> "called"]
  /\ existing = [w \in Waiters |-> {}]
  /\ seen = existing /\ before = existing /\ present = existing
  /\ got = [w \in Waiters |-> None]
-----------------------------------------------------------------------------
\* capture_mail looks for the digest in both folders ...
Captured(m) == m \in new \/ m \in cur

CaptureChecks(s, m) ==
  /\ submission[s] = None /\ ~Captured(m)
  /\ submission' = [submission EXCEPT ![s] = m]
  /\ UNCHANGED <<mail, waiter>>

\* ... and renames a complete temporary file into new/.
CaptureStores(s) ==
  /\ submission[s] # None
  /\ new' = new \cup {submission[s]}
  /\ submission' = [submission EXCEPT ![s] = None]
  /\ UNCHANGED <<cur, waiter>>

\* A mail reader, which is not part of this program.
ReaderMoves(m) ==
  /\ m \in new
  /\ new' = new \ {m} /\ cur' = cur \cup {m}
  /\ UNCHANGED <<submission, waiter>>
-----------------------------------------------------------------------------
(* wait_for_mail: _maildir_messages lists new/, then cur/ *)
FirstFolder_Cur == cur
FirstFolder == new
SecondFolder_New == new
SecondFolder == cur

\* Both scans begin with the first folder: the baseline, and a poll after a sleep.
ScanBegins(w) ==
  /\ pc[w] \in {"called", "sleeping"}
  /\ pc' = [pc EXCEPT ![w] = IF pc[w] = "called" THEN "baseline" ELSE "scanning"]
  /\ seen' = [seen EXCEPT ![w] = FirstFolder]
  /\ before' = IF pc[w] = "called" THEN [before EXCEPT ![w] = Maildir] ELSE before
  /\ present' = [present EXCEPT ![w] = Maildir]
  /\ UNCHANGED <<mail, submission, existing, got>>

BaselineEnds(w) ==
  /\ pc[w] = "baseline"
  /\ pc' = [pc EXCEPT ![w] = "sleeping"]
  /\ existing' = [existing EXCEPT ![w] = seen[w] \cup SecondFolder]
  /\ UNCHANGED <<mail, submission, seen, got, before, present>>

\* The first fresh message to the agent is returned; otherwise the call sleeps, or
\* ends when its time is over.
ScanEnds(w) ==
  LET fresh == (seen[w] \cup SecondFolder) \ existing[w] IN
  /\ pc[w] = "scanning"
  /\ \/ \E m \in fresh \cap ToAgent :
          got' = [got EXCEPT ![w] = m] /\ pc' = [pc EXCEPT ![w] = "ok"]
     \/ /\ fresh \cap ToAgent = {}
        /\ \E next \in {"sleeping", "timeout"} : pc' = [pc EXCEPT ![w] = next]
        /\ UNCHANGED got
  /\ existing' = [existing EXCEPT ![w] = @ \cup fresh]
  /\ UNCHANGED <<mail, submission, seen, before, present>>

Next ==
  \/ \E s \in Submitters : CaptureStores(s) \/ \E m \in Mails : CaptureChecks(s, m)
  \/ \E m \in Mails : ReaderMoves(m)
  \/ \E w \in Waiters : ScanBegins(w) \/ BaselineEnds(w) \/ ScanEnds(w)

Spec == Init /\ [][Next]_vars
Fairness == \A w \in Waiters : WF_vars(ScanBegins(w) \/ BaselineEnds(w) \/ ScanEnds(w))
FairSpec == Spec /\ Fairness
-----------------------------------------------------------------------------
(* Safety *)

\* A wait is satisfied only by a message that was not there when it began, although
\* the mail reader moves messages while the folders are listed ("Existing mail must
\* not immediately satisfy a wait ... a Maildir rename from new/ to cur/ does not
\* appear to be a fresh message").
OnlyFreshMail == \A w \in Waiters : got[w] # None => got[w] \notin before[w]

\* A call times out only when no message for the agent had arrived before its last
\* scan: a message that is moved between the two listings is not overlooked.
TimeoutMissesNothing ==
  \A w \in Waiters : pc[w] = "timeout" => present[w] \cap ToAgent \subseteq existing[w]

\* A message is kept once however often it is submitted ("A stable content-addressed
\* filename makes repeated Mutt submissions idempotent"). It takes two submissions at
\* the same time, and a mail reader, to break it.
CapturedOnce == new \cap cur = {}

\* A message that arrives for a waiting agent is returned, or the call times out.
WaitEnds == \A w \in Waiters :
  pc[w] = "sleeping" /\ (Maildir \ existing[w]) \cap ToAgent # {} ~> pc[w] \in {"ok", "timeout"}
=============================================================================
