----------------------------- MODULE MCWatchdog -----------------------------
(* A small instance of Watchdog for TLC. *)
EXTENDS Watchdog

(* The default settings, and alert-only kills beside adoption.              *)
DefaultAndAdopting == {[kill |-> TRUE, revive |-> TRUE, adopt |-> FALSE],
                       [kill |-> FALSE, revive |-> TRUE, adopt |-> TRUE]}

(* Refuted: what the text says and the code does not keep.  README, section 3,   *)
(* names the configuration that shows each one.                                *)

(* scripts/cairniq_watchdog.py:13-16, "so a runaway stops and STAYS down":  *)
(* once the watchdog has disabled the server, none is serving.              *)
RunawayStops == [][Disable => ~PortOpen']_vars
=============================================================================
