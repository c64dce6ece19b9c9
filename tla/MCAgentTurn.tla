---------------------------- MODULE MCAgentTurn ----------------------------
(* Small instances of AgentTurn for TLC. *)
EXTENDS AgentTurn, TLC

(* Refuted: what the text says and the code does not keep.  README, section 3,   *)
(* names the configuration that shows each one.                                *)

(* tests/test_agent_graph.py:51-52, "That bypass must only apply to the     *)
(* turn that actually asked for a health check".                            *)
OnlyHealthQueriesBypass == Finished /\ draft = "unaudited" => asked
=============================================================================
