----------------------------- MODULE MCWorkers -----------------------------
(* A small instance of Workers for TLC. *)
EXTENDS Workers, TLC
Symmetry == Permutations(Jobs) \cup Permutations(Stories)

(* Refuted: what the text says and the code does not keep.  README, section 3,   *)
(* names the configuration that shows each one.                                *)

(* "the cross-refresh escalation log guarantees a recurring story never      *)
(* re-bills": also when scans overlap or break off.                          *)
NeverRebilled == \A s \in Stories : billed[s] <= 1

(* "Cancelled after LLM call -- discarding result": a fetch that has been    *)
(* cancelled does not become the news of the day.                            *)
CancelledNewsDiscarded ==
    [][cache'["news"] # cache["news"] => cache'["news"] \notin cancelled]_vars
=============================================================================
