-------------------------- MODULE MCWatchConditions --------------------------
(* Small instances of WatchConditions for TLC. *)
EXTENDS WatchConditions, TLC

(* Refuted: what the text says and the code does not keep.  README, section 3,   *)
(* names the configuration that shows each one.                                *)

(* tools/watch_conditions.py:14-15, "fires ONCE into the alerts inbox (3.2) *)
(* and is then resolved, so it can never flap".                             *)
FiresOnce ==
  \A i, j \in DOMAIN inbox : inbox[i].key = inbox[j].key => i = j
=============================================================================
