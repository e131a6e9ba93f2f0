---------------------------- MODULE MCAgentTurn ----------------------------
(* AgentTurn on small sets. *)
EXTENDS AgentTurn, TLC

\* A search of a mark stands for every tool that changes nothing.
Asks == {c \in Call : c.tool # "other" /\ (c.tool = "trademark_search" => c.mark # Blank)}
=============================================================================
