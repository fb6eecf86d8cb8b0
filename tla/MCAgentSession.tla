-------------------------- MODULE MCAgentSession --------------------------
(* AgentSession for TLC: k1 opens session s1, k2 opens s2; k3 and k4        *)
(* continue s1.  A .cfg takes two or three of the keys.                    *)
EXTENDS AgentSession, TLC
CONSTANTS k1, k2, k3, k4, s1, s2, c1, c2
OpenKeys == Keys \ {k3, k4}
TargetOf == [k \in Keys |-> IF k = k2 THEN s2 ELSE s1]
Symmetry == Permutations(Callers)
=============================================================================
