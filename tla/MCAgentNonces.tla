---------------------------- MODULE MCAgentNonces ----------------------------
(* Constants of AgentNonces for TLC. *)
EXTENDS AgentNonces, TLC

\* Agents, requests and connections are never told apart by name.
Symmetry == Permutations(Agent) \cup Permutations(Message) \cup Permutations(Connection)
=============================================================================
