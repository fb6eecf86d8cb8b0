----------------------------- MODULE MCAgentRun -----------------------------
(* Small instances of AgentRun for TLC. *)
EXTENDS AgentRun, TLC

DispatcherSymmetry == Permutations(Dispatchers)
=============================================================================
