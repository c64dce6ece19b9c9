------------------------------ MODULE Engines ------------------------------
(***************************************************************************)
(* SCHEDULED_TASKS of tools/scheduler.py: what Scheduler needs to know of  *)
(* each of the nineteen task functions.  What a task does for a profile is *)
(* WorkSucceeds, WorkFails, WorkInVain or WorkUnverified there.            *)
(***************************************************************************)
EXTENDS Integers, Sequences, SequencesExt

(* What a task function may do:                                            *)
(*   switched   has a switch in funnel_config.json                           *)
(*   windowed   declines before it starts a thread (closed, no LLM key)    *)
(*   global     has one job, whose exception reaches the coroutine         *)
(*   unasked    does not look at SCHEDULER_ENABLED                         *)
(*   narrowed   may leave profiles out of its loop                         *)
(*   marked     keeps a daily marker                                       *)
(*   verified   writes it only if the job returned output                  *)
(*   bridged    calls _raise_if_total_failure                              *)
(*   reports    tells the heartbeat what it produced ...                   *)
(*   inThread   ... from within its thread                                 *)
Traits == {"switched", "windowed", "global", "unasked", "narrowed", "marked", "verified",
           "bridged", "reports", "inThread"}

(* Seconds, as everything below. *)
Hour == 3600
Day  == 24 * Hour
TICK_INTERVAL_SECONDS == 300

(* How long the windows are open on a day: the session, from its close to   *)
(* midnight, before it opens, and Sunday evening.                          *)
MarketHours == 16 * Hour - (9 * Hour + 1800)
AfterClose  == 24 * Hour - (16 * Hour + 900)
PreMarket(start) == 9 * Hour + 1500 - start
SundayEvening == 6 * Hour

Task(cooldown, timeout, window, traits) ==
  [cooldown |-> cooldown, timeout |-> timeout, window |-> window, traits |-> traits]

exchange_rate == Task(3600, 60, Day, {"switched", "global", "unasked", "reports"})

(* CAIRNIQ_CACHE_WARM makes it decline.  A listing that fails is no profiles. *)
cache_warm == Task(600, 300, Day, {"windowed", "unasked", "narrowed", "reports"})

portfolio_snapshot == Task(300, 120, AfterClose, {"switched", "windowed", "marked", "reports"})

position_snapshot ==
  Task(300, 180, AfterClose, {"windowed", "marked", "verified", "reports"})

availability_report == Task(86400, 60, Day, {"global", "unasked", "reports"})

(* The scoreboard, which only reads, has a second thread. *)
catalyst_resolution == Task(86400, 300, Day, {"global", "unasked", "reports"})

score_recommendations == Task(86400, 120, Day, {"switched", "reports"})

cache_cleanup == Task(86400, 30, Day, {"switched", "global", "unasked"})

housekeeping == Task(86400, 600, Day, {"global", "unasked", "reports"})

premarket_pulse ==
  Task(300, 180, PreMarket(6 * Hour), {"switched", "windowed", "marked", "bridged", "reports"})

(* get_priority_precompute_profiles is the allow-list. *)
priority_precompute ==
  Task(300, 900, PreMarket(7 * Hour),
       {"switched", "windowed", "narrowed", "marked", "verified", "bridged", "reports"})

funnel_signal_scan ==
  Task(1800, 240, AfterClose,
       {"switched", "windowed", "global", "marked", "verified", "reports"})

edgar_events == Task(1800, 300, Day, {"switched", "windowed", "marked", "reports"})

event_radar == Task(3600, 180, Day, {"switched", "windowed", "marked", "reports"})

watch_conditions ==
  Task(1800, 120, MarketHours, {"switched", "windowed", "reports", "inThread"})

intraday_sentinel ==
  Task(21600, 180, MarketHours, {"switched", "windowed", "reports", "inThread"})

(* Without a key only its model half is left out. *)
observation_consolidation == Task(86400, 240, Day, {"switched", "bridged", "reports"})

(* The thread looks at the window: outside it, no profile is reviewed. *)
weekly_review == Task(3600, 180, SundayEvening, {"narrowed", "reports"})

fund_shares_record ==
  Task(300, 240, AfterClose, {"windowed", "global", "marked", "verified", "reports"})

SCHEDULED_TASKS ==
  <<exchange_rate, cache_warm, portfolio_snapshot, position_snapshot, availability_report,
    catalyst_resolution, score_recommendations, cache_cleanup, housekeeping,
    premarket_pulse, priority_precompute, funnel_signal_scan, edgar_events, event_radar,
    watch_conditions, intraday_sentinel, observation_consolidation, weekly_review,
    fund_shares_record>>

(* The positions in a table of the tasks with a trait. *)
Having(table, trait) == {t \in DOMAIN table : trait \in table[t].traits}

(* Tasks that fail when all their work failed. *)
Failing(table) == Having(table, "bridged") \cup Having(table, "global")

(* What a table has to satisfy for Scheduler and MonitoredScheduler, and so  *)
(* for the theorems about them.                                             *)
Fits(table) ==
  /\ \A t \in DOMAIN table : table[t].traits \subseteq Traits
  /\ Having(table, "verified") \subseteq Having(table, "marked")
  /\ Having(table, "unasked") \cap Having(table, "marked") = {}
  /\ Having(table, "narrowed") \cap Having(table, "global") = {}
  /\ Having(table, "windowed") \subseteq Having(table, "reports")
  /\ Having(table, "inThread") \subseteq Having(table, "reports") \ Having(table, "marked")

(* The longest the loop may take to come back to a task.                   *)
Pass(table) ==
  TICK_INTERVAL_SECONDS + FoldLeft(LAMBDA sum, task : sum + task.timeout, 0, table)

(* A look at a task on which it declines starts its cooldown as well.  A    *)
(* daily task is looked at again within its window all the same, also if    *)
(* every task before it takes as long as it may.                            *)
WindowSeen(table) ==
  \A t \in Having(table, "marked") : table[t].cooldown + Pass(table) <= table[t].window

ASSUME TableFits == Fits(SCHEDULED_TASKS)
ASSUME EveryDailyTaskSeen == WindowSeen(SCHEDULED_TASKS)
=============================================================================
