---------------------------- MODULE PatchCustody ----------------------------
(***************************************************************************)
(* What the controller promises about the patches of its agents, without   *)
(* processes, requests, states and crashes: a submitted head is exported   *)
(* first, stays in custody together with the record and the snapshot it    *)
(* was made in until the operator decides about it, or its agent submits   *)
(* another one, and nothing exported is taken back.                        *)
(***************************************************************************)
CONSTANTS
  Agents,  \* the submitters
  Heads,   \* the commits they may submit
  NoHead   \* nothing in custody

VARIABLES
  held,     \* per agent, the submitted head the operator has to decide about
  kept,     \* per agent, whether its record and its snapshot are there
  archive   \* per agent, the exported heads

vars == <<held, kept, archive>>

Init ==
  /\ held = [a \in Agents |-> NoHead]
  /\ kept = [a \in Agents |-> FALSE]
  /\ archive = [a \in Agents |-> {}]

\* An agent comes to be, with nothing in custody.
Create(a) ==
  /\ ~kept[a]
  /\ kept' = [kept EXCEPT ![a] = TRUE]
  /\ UNCHANGED <<held, archive>>

\* A head is exported; the agent may still fail to submit it.
Archive(a, h) ==
  /\ kept[a]
  /\ archive' = [archive EXCEPT ![a] = @ \cup {h}]
  /\ UNCHANGED <<held, kept>>

\* An exported head comes into custody, in place of an earlier one.
Submit(a, h) ==
  /\ kept[a]
  /\ h \in archive[a]
  /\ held' = [held EXCEPT ![a] = h]
  /\ UNCHANGED <<kept, archive>>

\* The operator acknowledges or rejects the head.
Decide(a) ==
  /\ held[a] # NoHead
  /\ held' = [held EXCEPT ![a] = NoHead]
  /\ UNCHANGED <<kept, archive>>

\* Record and snapshot go, wholly or in part.
Drop(a) ==
  /\ kept[a]
  /\ held[a] = NoHead
  /\ kept' = [kept EXCEPT ![a] = FALSE]
  /\ UNCHANGED <<held, archive>>

Next == \E a \in Agents :
  \/ Create(a) \/ Decide(a) \/ Drop(a)
  \/ \E h \in Heads : Archive(a, h) \/ Submit(a, h)

Spec == Init /\ [][Next]_vars
=============================================================================
