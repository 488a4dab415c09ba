---------------------------- MODULE MCAgentTasks ----------------------------
EXTENDS AgentTasks, TLC

CONSTANTS a, b, r1, r2

\* The oldest task belongs to organization a.
MCOrgOf == [t \in Tasks |-> IF t = 1 THEN a ELSE b]
\* The two oldest tasks belong to organization a.
MCOlderOfA == [t \in Tasks |-> IF t < 3 THEN a ELSE b]
MCOneOrg == [t \in Tasks |-> a]
MCRunners == {r1, r2}
Symmetry == Permutations(MCRunners)
=============================================================================
