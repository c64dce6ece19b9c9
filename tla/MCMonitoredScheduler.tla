------------------------ MODULE MCMonitoredScheduler ------------------------
(* Small instances of MonitoredScheduler for TLC: a task of the table that   *)
(* reports from its thread, and one that does so from its coroutine or never.*)
EXTENDS MonitoredScheduler, Engines

CONSTANT Silent   \* does the second task never report

MCTable == <<watch_conditions, IF Silent THEN cache_cleanup ELSE edgar_events>>

MCNumTasks     == Len(MCTable)
MCMarked       == Having(MCTable, "marked")
MCVerified     == Having(MCTable, "verified")
MCBridged      == Failing(MCTable)
MCSwitched     == Having(MCTable, "switched")
MCWindowed     == Having(MCTable, "windowed")
MCGlobal       == Having(MCTable, "global")
MCUnasked      == Having(MCTable, "unasked")
MCNarrowed     == Having(MCTable, "narrowed")
MCInstrumented == Having(MCTable, "reports")
MCInThread     == Having(MCTable, "inThread")

MCCooldown == [t \in Tasks |-> 0]

(* Refuted: what the text says and the code does not keep.  README, section 3,   *)
(* names the configuration that shows each one.                                *)

(* tools/scheduler.py:561-563 of an uninstrumented engine: "this engine is  *)
(* never asked to declare production, and is judged on liveness and errors  *)
(* alone".                                                                  *)
UninstrumentedNeverIdle == \A t \in Tasks \ Instrumented : beat[t].idle = 0
=============================================================================
