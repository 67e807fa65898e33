---------------------------- MODULE ReviewStore -----------------------------
(***************************************************************************)
(* One series of the local review store (mcp_tgit_review.py): its manifest *)
(* (revisions, acknowledged replies), its vN.mbox files and the Maildir    *)
(* that exported patches and captured replies share.  export_patch_series, *)
(* import_patch_series and acknowledge_reviews read the manifest, work on  *)
(* their copy and write it back; the review server, the agent server and   *)
(* its threads do so without a common lock.  mcp_agent.py reports imports  *)
(* for halted agents with a notice in the same Maildir.                    *)
(***************************************************************************)
EXTENDS Naturals, Sequences, FiniteSets

CONSTANTS
  Procs,      \* processes and threads that work on the series
  Artifacts,  \* the patch series that are exported or imported
  Parts,      \* the messages of an artifact: cover letter and patches
  Replies,    \* replies of reviewers
  None,
  MaxFaults   \* bound: failed deliveries, and crashes of a process

ReviewAssumption ==
  /\ None \notin Artifacts \cup Replies
  /\ IsFiniteSet(Artifacts) /\ IsFiniteSet(Parts) /\ Parts # {} /\ MaxFaults \in Nat

Message == Artifacts \X Parts

VARIABLES
  revisions,     \* manifest "revisions": the artifact of each
  acknowledged,  \* manifest "acknowledged_review_ids"
  mbox,          \* vN.mbox files
  maildir,       \* patch messages in the Maildir
  replies,       \* captured replies: [id, to]
  notices,       \* artifacts with an operator notice
  reported,      \* artifacts an import has reported as "ok"
  pc, job,       \* where a process is, and the artifact or reply it works on
  copy,          \* what it has read: [operation, revisions, acknowledged]
  faults

manifest == <<revisions, acknowledged>>
process  == <<pc, job, copy>>
vars     == <<manifest, mbox, maildir, replies, notices, reported, process, faults>>

MaxRevisions == 2 * Cardinality(Artifacts)
Empty == [operation |-> "none", revisions |-> <<>>, acknowledged |-> {}]

TypeOK ==
  /\ revisions \in Seq(Artifacts) /\ acknowledged \subseteq Replies
  /\ mbox \in [1 .. MaxRevisions -> Artifacts \cup {None}]
  /\ maildir \subseteq Message
  /\ replies \subseteq [id : Replies, to : Message]
  /\ notices \subseteq Artifacts /\ reported \subseteq Artifacts
  /\ pc \in [Procs -> {"idle", "export", "import", "acknowledge", "stored", "delivering", "notify"}]
  /\ job \in [Procs -> Artifacts \cup Replies \cup {None}]
  /\ copy \in [Procs -> [operation : {"none", "export", "import", "acknowledge"},
                         revisions : Seq(Artifacts),
                         acknowledged : SUBSET Replies]]
  /\ faults \in 0 .. MaxFaults

Init ==
  /\ revisions = <<>> /\ acknowledged = {}
  /\ mbox = [n \in 1 .. MaxRevisions |-> None]
  /\ maildir = {} /\ replies = {} /\ notices = {} /\ reported = {}
  /\ pc = [p \in Procs |-> "idle"] /\ job = [p \in Procs |-> None]
  /\ copy = [p \in Procs |-> Empty]
  /\ faults = 0

InSeries(s, a) == \E i \in DOMAIN s : s[i] = a
Known(m) == InSeries(revisions, m[1])
-----------------------------------------------------------------------------
Goto(p, l) == pc' = [pc EXCEPT ![p] = l]
Return(p) == Goto(p, "idle") /\ job' = [job EXCEPT ![p] = None] /\ copy' = [copy EXCEPT ![p] = Empty]

\* _load_manifest: the copy the operation works on.
Load(p, operation, item) ==
  /\ pc[p] = "idle"
  /\ Goto(p, operation)
  /\ job' = [job EXCEPT ![p] = item]
  /\ copy' = [copy EXCEPT ![p] = [operation |-> operation, revisions |-> revisions,
                                  acknowledged |-> acknowledged]]

\* The tools check the range and the messages before they read the manifest.  Each
\* export makes messages of its own; an import may be repeated.
BeginExport(p, a) ==
  /\ Load(p, "export", a)
  /\ ~InSeries(revisions, a) /\ \A q \in Procs : job[q] # a
  /\ \A n \in DOMAIN mbox : mbox[n] # a
  /\ UNCHANGED <<manifest, mbox, maildir, replies, notices, reported, faults>>

BeginImport(p, a) ==
  /\ Load(p, "import", a)
  /\ UNCHANGED <<manifest, mbox, maildir, replies, notices, reported, faults>>

\* acknowledge_reviews accepts replies that are captured and belong to the series.
BeginAcknowledge(p, r) ==
  /\ Load(p, "acknowledge", r)
  /\ \E reply \in replies : reply.id = r /\ Known(reply.to)
  /\ UNCHANGED <<manifest, mbox, maildir, replies, notices, reported, faults>>

\* The digest is in the provenance of the copy: "idempotent", nothing is done.
IsRepeated(p) == InSeries(copy[p].revisions, job[p])

ImportAgain(p) ==
  /\ pc[p] = "import" /\ IsRepeated(p)
  /\ reported' = reported \cup {job[p]}
  /\ Return(p)
  /\ UNCHANGED <<manifest, mbox, maildir, replies, notices, faults>>

\* vN.mbox is written under the number that follows the revisions of the copy.
NextRevision(p) == Len(copy[p].revisions) + 1

AfterMbox == "stored"

WriteMbox(p) ==
  /\ pc[p] = "export" \/ (pc[p] = "import" /\ ~IsRepeated(p))
  /\ NextRevision(p) <= MaxRevisions
  /\ mbox' = [mbox EXCEPT ![NextRevision(p)] = job[p]]
  /\ copy' = [copy EXCEPT ![p].revisions = Append(@, job[p])]
  /\ Goto(p, AfterMbox)
  /\ UNCHANGED <<manifest, maildir, replies, notices, reported, job, faults>>

\* _write_manifest replaces the whole manifest by the copy.
WriteManifest(p) ==
  /\ pc[p] = "stored"
  /\ revisions' = copy[p].revisions /\ acknowledged' = copy[p].acknowledged
  /\ Goto(p, "delivering")
  /\ UNCHANGED <<mbox, maildir, replies, notices, reported, job, copy, faults>>

NowAcknowledged_Replaced(p) == {job[p]}
NowAcknowledged(p) == copy[p].acknowledged \cup {job[p]}

WriteAcknowledgement(p) ==
  /\ pc[p] = "acknowledge"
  /\ revisions' = copy[p].revisions
  /\ acknowledged' = NowAcknowledged(p)
  /\ Return(p)
  /\ UNCHANGED <<mbox, maildir, replies, notices, reported, faults>>

\* _import_patches_to_maildir adds the messages that are not there yet, one by one.
Deliver(p) ==
  /\ pc[p] = "delivering"
  /\ \E part \in Parts :
       /\ <<job[p], part>> \notin maildir
       /\ maildir' = maildir \cup {<<job[p], part>>}
  /\ UNCHANGED <<manifest, mbox, replies, notices, reported, process, faults>>

Delivered(p) == \A part \in Parts : <<job[p], part>> \in maildir

\* An export returns; import_pending_remote_agent_patches has a notice to write.
DeliveryEnds(p) ==
  /\ pc[p] = "delivering" /\ Delivered(p)
  /\ IF copy[p].operation = "import" THEN Goto(p, "notify") /\ UNCHANGED <<job, copy>>
                                     ELSE Return(p)
  /\ UNCHANGED <<manifest, mbox, maildir, replies, notices, reported, faults>>

\* _notify_halted_patch, then the agent is reported as imported.
Notify(p) ==
  /\ pc[p] = "notify"
  /\ notices' = notices \cup {job[p]}
  /\ reported' = reported \cup {job[p]}
  /\ Return(p)
  /\ UNCHANGED <<manifest, mbox, maildir, replies, faults>>

\* A write fails and the tool answers with an error, or its process ends.
Fault(p) ==
  /\ pc[p] # "idle" /\ faults < MaxFaults
  /\ faults' = faults + 1
  /\ Return(p)
  /\ UNCHANGED <<manifest, mbox, maildir, replies, notices, reported>>

\* A reviewer answers a message he has got through the Maildir (capture_mail).
Capture(r) ==
  /\ \A reply \in replies : reply.id # r
  /\ \E m \in maildir : replies' = replies \cup {[id |-> r, to |-> m]}
  /\ UNCHANGED <<manifest, mbox, maildir, notices, reported, process, faults>>

Next ==
  \/ \E p \in Procs :
       \/ \E a \in Artifacts : BeginExport(p, a) \/ BeginImport(p, a)
       \/ \E r \in Replies : BeginAcknowledge(p, r)
       \/ ImportAgain(p) \/ WriteMbox(p) \/ WriteManifest(p) \/ WriteAcknowledgement(p)
       \/ Deliver(p) \/ DeliveryEnds(p) \/ Notify(p) \/ Fault(p)
  \/ \E r \in Replies : Capture(r)

Spec == Init /\ [][Next]_vars
-----------------------------------------------------------------------------
(* Safety *)

\* The mbox a revision names holds the messages of that revision, also after crashes
\* that leave a file without a revision.
RevisionHasItsMbox == \A n \in DOMAIN revisions : mbox[n] = revisions[n]

\* What has been delivered for review, and so may be replied to, is a known revision:
\* no reply to a delivered patch is unmatched.
DeliveredIsKnown == \A m \in maildir : Known(m)

\* One revision for one artifact, however often it is imported ("Repeating the import
\* for an identical artifact is idempotent").
OneRevisionPerArtifact ==
  \A i, j \in DOMAIN revisions : revisions[i] = revisions[j] => i = j

IsPrefixOf(s, t) == Len(s) <= Len(t) /\ \A i \in DOMAIN s : s[i] = t[i]

\* Revisions are only added, and acknowledged replies stay acknowledged. It holds as
\* long as one process at a time works on the series: there is no lock.
ManifestOnlyGrows ==
  [][IsPrefixOf(revisions, revisions') /\ acknowledged \subseteq acknowledged']_vars

\* An artifact reported as imported for a halted agent has its messages and its notice
\* in the Maildir (README.md:74). Not so when the delivery or the notice has failed
\* once: repeating the import is "idempotent" and delivers nothing.
ReportedIsNoticed == \A a \in reported : a \in notices
=============================================================================
