---------------------------- MODULE MCAgentRuntime ----------------------------
(* Instances of AgentRuntime: two tasks are enough for a sub-agent and its    *)
(* command, or for two tasks of the main agent that end in either order.      *)
EXTENDS AgentRuntime, TLC

Symmetry == Permutations(Task)
==============================================================================
