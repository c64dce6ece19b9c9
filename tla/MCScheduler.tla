---------------------------- MODULE MCScheduler ----------------------------
(* Small instances of Scheduler for TLC: two tasks of the table, one job for *)
(* the whole installation with verified output and a daily marker, and a     *)
(* loop over some of the profiles without either.                            *)
EXTENDS Scheduler, Engines

MCTable == <<funnel_signal_scan, weekly_review>>

MCNumTasks == Len(MCTable)
MCMarked   == Having(MCTable, "marked")
MCVerified == Having(MCTable, "verified")
MCBridged  == Failing(MCTable)
MCSwitched == Having(MCTable, "switched")
MCWindowed == Having(MCTable, "windowed")
MCGlobal   == Having(MCTable, "global")
MCUnasked  == Having(MCTable, "unasked")
MCNarrowed == Having(MCTable, "narrowed")

(* In clock units. *)
MCCooldown == [t \in Tasks |-> t - 1]

(* Refuted: what the text says and the code does not keep.  README, section 3,   *)
(* names the configuration that shows each one.                                *)

(* tools/scheduler.py:9-10, "Overlap Lock": a task never runs twice at once. *)
NoOverlap ==
  \A s1, s2 \in Slots :
    threads[s1].stage # "idle" /\ threads[s1].task = threads[s2].task => s1 = s2
=============================================================================
