---------------------------- MODULE AgentCustody ----------------------------
(***************************************************************************)
(* AgentController implements PatchCustody: the metadata, the snapshots    *)
(* and the exports of the controller, seen as custody of submitted heads.  *)
(***************************************************************************)
EXTENDS AgentController

\* What list_agents_requiring_attention shows as a submitted patch.
HeldHead(a) == IF Undecided(a) THEN submittedHead[a] ELSE NoHead

\* What _reap_agent removes.
IsKept(a) == Exists(a) /\ snapshot[a]

Custody == INSTANCE PatchCustody WITH
  held    <- [a \in Agents |-> HeldHead(a)],
  kept    <- [a \in Agents |-> IsKept(a)],
  archive <- exported

\* Whatever workers, requests, stops, recoveries, reaping and crashes do, the submitted
\* heads are handled as PatchCustody says.
ImplementsCustody == Custody!Spec

\* A decision ends the work: an agent about whose submission the operator has decided
\* has no live worker, so no turn that follows can replace the decided head.
DecisionEndsWork ==
  \A a \in Agents : acknowledged[a] # NoHead \/ rejected[a] # NoHead
                     => process[a] # "live"

\* What the refinement needs beyond IndInv: there is no snapshot without its record,
\* and an agent with a decision is neither starting nor working.
CustodyInv ==
  \A a \in Agents :
    /\ snapshot[a] => Exists(a)
    /\ acknowledged[a] # NoHead \/ rejected[a] # NoHead =>
         process[a] # "live" /\ starting[a] = "no" /\ state[a] # "unused"
=============================================================================
