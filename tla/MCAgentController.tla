------------------------- MODULE MCAgentController -------------------------
EXTENDS AgentCustody, FiniteSets, TLC

Symmetry == Permutations(Agents) \cup Permutations(Heads)

\* Bound: one agent is started by the operator, every other one recovers it or another
\* child, and a child gets no further than its connection.
OneFamily ==
  /\ Cardinality({a \in Agents : /\ Exists(a)
                                 /\ source[a] = NoAgent
                                 /\ parent[a] = NoAgent}) <= 1
  /\ \A a \in Agents : parent[a] # NoAgent => pc[a] \in {"none", "connecting"}
=============================================================================
