------------------------- MODULE MonitoredScheduler -------------------------
(***************************************************************************)
(* The scheduler together with its heartbeat: _try_run opens a reporting   *)
(* window before it awaits a task and records the run in its finally       *)
(* clause; the tasks report into the window, some from the coroutine after *)
(* the thread has returned, some from inside the thread.                   *)
(***************************************************************************)
EXTENDS Scheduler

CONSTANTS
  Instrumented,   (* tasks that report production or skips at all           *)
  InThread,       (* those that report from their worker thread             *)
  IdleThreshold

NoEngine == 0

ASSUME MonitorAssumption ==
  /\ Instrumented \subseteq Tasks
  /\ Windowed \subseteq Instrumented
  /\ InThread \subseteq Instrumented \ Marked
  /\ IdleThreshold \in Nat \ {0}

VARIABLES
  window, beat    (* see EngineHeartbeat                                     *)

HB == INSTANCE EngineHeartbeat WITH Engines <- Tasks

monitor == <<window, beat>>
mvars   == <<vars, monitor>>

MonitorTypeOK == HB!TypeOK

MonitorInit ==
  /\ Init
  /\ HB!Init

MStartRun(t) ==
  /\ StartRun(t)
  /\ window' = HB!Opened(t)
  /\ UNCHANGED beat

MDeclineRun(t) ==
  /\ DeclineRun(t)
  /\ HB!RecordRun(t, HB!Declined(window), "ok")

MFailAtGate(t) == FailAtGate(t) /\ HB!RecordRun(t, window, "error")

MTimeOut(t) == TimeOut(t) /\ HB!RecordRun(t, window, "timeout")

(* The coroutine reports what the thread returned, unless the thread has    *)
(* done so itself or the task is not instrumented.                          *)
Reports(t) ==
  IF t \in Instrumented \ InThread
  THEN {HB!Declined(window), HB!Produced(window, TRUE), HB!Produced(window, FALSE)}
  ELSE {window}

MAwaitedReturns(t, s) ==
  /\ AwaitedReturns(t, s)
  /\ IF TotalFailure(threads[s])
     THEN HB!RecordRun(t, window, "error")
     ELSE \E w \in Reports(t) : HB!RecordRun(t, w, "ok")

(* CancelledError is not an Exception: status is still STATUS_OK when the   *)
(* finally clause records the run.                                          *)
MCancelRun(t) == CancelRun(t) /\ HB!RecordRun(t, window, "ok")

(* note_production from inside the thread, whoever's window is open.        *)
MWorkUnverified(s) ==
  /\ WorkUnverified(s)
  /\ IF threads[s].task \in InThread
     THEN \E some \in BOOLEAN : window' = HB!Produced(window, some)
     ELSE UNCHANGED window
  /\ UNCHANGED beat

MProcessEnds ==
  /\ ProcessEnds
  /\ window' = HB!Closed
  /\ UNCHANGED beat

Unmonitored ==
  \/ ClockTick \/ Tick \/ Stop \/ LeaveLoop \/ Boot
  \/ \E t \in Tasks :
       \/ SkipDisabled(t) \/ SkipPaused(t) \/ SkipCoolingOrLocked(t) \/ Submit(t)
       \/ \E s \in Slots : ThreadStarts(t, s)
  \/ \E s \in Slots :
       \/ \E p \in Profiles : SkipProfile(s, p) \/ BeginProfile(s, p)
       \/ WorkSucceeds(s) \/ WorkFails(s) \/ WorkInVain(s)
       \/ MarkDone(s) \/ MarkFails(s) \/ OrphanEnds(s)

MonitorNext ==
  \/ Unmonitored /\ UNCHANGED monitor
  \/ \E t \in Tasks :
       \/ MStartRun(t) \/ MDeclineRun(t) \/ MFailAtGate(t) \/ MTimeOut(t)
       \/ MCancelRun(t)
       \/ \E s \in Slots : MAwaitedReturns(t, s)
  \/ \E s \in Slots : MWorkUnverified(s)
  \/ MProcessEnds

MonitorSpec == MonitorInit /\ [][MonitorNext]_mvars

-----------------------------------------------------------------------------
(* Properties.                                                             *)

(* A window is open exactly while _loop waits for its engine: no return,    *)
(* error, timeout, cancellation or restart leaves one open for the next     *)
(* engine's reports, or closes the one in use.                              *)
WindowMatchesRun ==
  \A t \in Tasks : window.engine = t <=> (awaiting # NoRun /\ pos = t)
=============================================================================
