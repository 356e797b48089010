------------------------------ MODULE MCAgents ------------------------------
(***************************************************************************)
(* A subagent with its first task, two messages, one close and one         *)
(* interrupt of the parent's turn.                                         *)
(***************************************************************************)
EXTENDS Agents, TLC

MCSymmetry == Permutations(Senders) \cup Permutations(Stops)
=============================================================================
