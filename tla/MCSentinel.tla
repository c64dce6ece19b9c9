----------------------------- MODULE MCSentinel -----------------------------
(* Small instances of Sentinel for TLC. *)
EXTENDS Sentinel, TLC

MCBoundaries == [m \in Metrics |-> <<3, 6>>]

(* Refuted: what the text says and the code does not keep.  README, section 3,   *)
(* names the configuration that shows each one.                                *)

(* tools/drawdown_playbook.py:330-333, the "void if already true when armed" *)
(* rule: a ladder must not fire "for levels the tape crossed before anybody *)
(* armed them".  A rung the user wrote when the last reading had passed it  *)
(* is not announced before a reading has found it not reached.              *)
LateRungsStaySilent ==
  [][tick.pc = "idle" => tick'.pending \cap {<<"rung", r>> : r \in late} = {}]_sentinelVars
=============================================================================
