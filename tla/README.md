# CairnIQ verification project

TLA+ models, TLC runs and TLAPS proofs for the parts of CairnIQ whose correctness
depends on the order of events: the background scheduler and its heartbeat, the
alerts inbox, the watch conditions, the intraday sentinel with the deployment
ladder, the agent graph with its compliance gate, a chat turn between its worker
thread and its stream, the background workers of the news page, the
recommendation ledger, the observation log, the lessons and their gate, and the
watchdog that looks after the server.

Paths below are relative to the repository root (`tools/scheduler.py`, ...).
A run is repeated with `tlc -workers 2 -config <cfg> <module>`, a proof with
`tlapm <module>.tla`.

## 1. Inventory

| Component | State it keeps | Operations | Hard behaviour |
|---|---|---|---|
| Scheduler `tools/scheduler.py` | `scheduler_runs.json` (cooldowns), daily markers in the cache; in memory: streaks, breakers, locks | loop, guards of `_try_run`, per-profile worker loop, stop/start | time-outs that cancel a coroutine but not its thread, midnight, crash and restart, one slow engine |
| Heartbeat `tools/engine_heartbeat.py` | one global reporting window, `engine_heartbeat.json` | begin, note_production, note_skipped, record_run | reports from threads nobody awaits any more |
| Alerts inbox `tools/alerts.py` | `alerts.jsonl` and its `.tmp` | raise_alert, mark_read, get_alerts | read-modify-write without a lock, shared temporary file, crash at any file operation |
| Watch conditions `tools/watch_conditions.py` | `watch_conditions.jsonl` | add, cancel, evaluate | minutes of quote fetching between load and rewrite; alert before state |
| Intraday sentinel `tools/intraday_sentinel.py` | `intraday_sentinel_state.json` | one tick | hysteresis, stale bars, unreadable state, crash between state and delivery |
| Deployment ladder `tools/drawdown_playbook.py` | rungs in `user_memory.json`, fired rungs in the sentinel's state | evaluate_deployment_ladder, set_playbook | the user edits the ladder during an episode |
| Agent graph `agent/graph.py`, `agent/nodes/` | the checkpointed `AgentState` of a thread | six nodes and their edges | fields without a reducer survive the turn, retry gate, stop in the middle of a turn |
| Chat route `api/routers/chat.py`, `tools/chat_history.py` | `_active_chat_runs`, `_active_sessions`, `chat_history.json`, interactions kept for rating | post, stream, recover, finalize, stop, open and delete a chat | event loop and worker thread both persist; the client may go at any moment |
| Background workers `api/background.py`, `api/routers/news.py`, `agent/catalyst_engine.py`, `tools/catalyst_*.py` | markers, cancel event and thread of each kind; daily cache; escalation log, scenario cache, predictions | requests, four workers, chained scan | check-then-start, cancel event replaced, a scan that writes five files and may break off |
| Recommendation ledger `tools/memory.py` | `past_recommendations`, theses in `user_memory.json` | add_recommendation, report, theses, score, trim | a scorer saves the file it loaded before it fetched prices |
| Observations `tools/observations.py`, `tools/observation_consolidation.py` | `observations.json` | record, sweep, consolidate | two passes and turn threads save whole logs over one another |
| Lessons `tools/pending_lessons.py`, `tools/memory.py` | `pending_lessons.json`, `lessons_learned` | draft, confirm, discard, teach, edit, delete | promotion in two files, cap, kills in between |
| Watchdog `scripts/cairniq_watchdog.py`, launchd's job, `server.py` guard | `.watchdog_state.json` | one run every two minutes | launchd, the operator and a foreign server act between any two looks |
| LLM budget `agent/llm_budget.py` | rolling buckets | record, over budget | checked before, charged after |
| Checkpointer `agent/checkpointer.py` | SQLite file per profile | put, get | profile bound per call |
| Questrade `tools/questrade.py` | one-time refresh token | refresh | token spent before its successor is stored |

How they interact. The scheduler's coroutine runs the engines (sentinel, watch
conditions, weekly review, observation sweep and consolidation, scorer, ...), each
in a worker thread, and opens a heartbeat window around each of them. Engines and
request handlers write the same per-profile files; what they find out goes into the
alerts inbox. A chat turn is a worker thread that invokes the agent graph over a
checkpointed thread; its answer is harvested for calls (the ledger), watch
conditions and observations. The news worker chains the catalyst scan. The watchdog
is a process of its own: it shares with the server only the port, launchd's job,
the log and the budget file.

Almost all persistent state is a JSON file that an operation loads as a whole and
saves as a whole, without a lock, while other threads run in between. Most hazards
of the list in `PROJECT.json` come from there, and many models have the same shape:
a step that loads, a step that saves what was loaded and changed, and history
variables that record what an older copy has overwritten, so that the properties
can say what survives all the same.

The components not modelled, with the reasons, are listed in `PROJECT.json` and
in section 7.

## 2. Modules

| Module | Models | Role |
|---|---|---|
| `Scheduler` | `tools/scheduler.py` | the base machine |
| `Engines` | the nineteen tasks of `tools/scheduler.py` | the table `SCHEDULED_TASKS`: what each task may do, from which the instances of `Scheduler` are cut |
| `EngineHeartbeat` | `tools/engine_heartbeat.py` | operators over the window and the store |
| `MonitoredScheduler` | both | EXTENDS `Scheduler`, INSTANCEs `EngineHeartbeat`; each step of the scheduler with what it reports |
| `Inbox` | what `tools/alerts.py` promises | abstract: a call is one step |
| `Alerts` | `tools/alerts.py` by file operation | implements `Inbox` as long as no two callers overlap (checked and proved) |
| `WatchConditions` | `tools/watch_conditions.py` | EXTENDS `Inbox`: an alert of an evaluation is a step of the inbox |
| `Sentinel` | `tools/intraday_sentinel.py`, ladder of `tools/drawdown_playbook.py` | one tick in four steps |
| `AgentTurn` | `agent/graph.py`, `agent/nodes/*` | one step per node and edge |
| `ChatTurn` | `api/routers/chat.py`, `tools/chat_history.py` | a turn's worker and its stream |
| `Workers` | `api/background.py`, `api/routers/news.py`, catalyst files | jobs and requests |
| `Ledger` | recommendations and theses of `tools/memory.py` | one step per call; a scorer in two |
| `Observations` | `tools/observations.py`, `tools/observation_consolidation.py` | writers, sweep, two passes |
| `Lessons` | `tools/pending_lessons.py`, lessons of `tools/memory.py` | drafts, gate, lessons by hand |
| `Watchdog` | `scripts/cairniq_watchdog.py`, launchd, `server.py` guard, hard caps of `agent/llm_budget.py` | one run look by look |
| `Selections` | `[x for x in xs if ...]` | what a list keeps, as used by `ChatTurn`, `Ledger`, `Lessons`, `Observations`, `WatchConditions` |
| `SchedulerProofs`, `WatchConditionsProofs`, `AgentTurnProofs`, `ChatTurnProofs`, `WorkersProofs`, `LessonsProofs`, `WatchdogProofs`, `SelectionsProofs` | theorems and lemmas | section 5 |
| `MC*` | instances for TLC | and the claims TLC refutes |

Operators whose comment begins with "Mutant:" are plausible bugs. They are used by
no specification; `PROJECT.json` names the definition each one replaces and the
property that then fails.

### Scheduler

`_loop` stands at task `pos` of the table and waits (`awaiting`) for nothing, for
the task's own gate, for the executor, or for worker thread `s`. `SkipDisabled`,
`SkipPaused`, `SkipCoolingOrLocked` and `StartRun` are the guards of `_try_run` in
the code's order; the breaker closes itself when it is looked at on a later day
(`CloseStaleCircuit`). A run ends by `DeclineRun` (outside its window), `FailAtGate`,
`AwaitedReturns`, `TimeOut` or `CancelRun`, each with what it does to cooldown, lock,
streak and breaker. A worker thread goes through the profiles: `SkipProfile`,
`BeginProfile`, then the job succeeds, raises, or comes back with its output
unchecked (`WorkUnverified`), and `MarkDone` or `MarkFails` follow for tasks with a
daily marker. After a time-out the thread goes on by
itself (`OrphanEnds`).

The tasks differ in the sets that are constants of the module. `Engines` gives each of
the nineteen its row: cooldown, time-out, how long its window is open on a day, and
what it may do (`Traits`). TLC evaluates two assumptions on the whole table:
`TableFits`, that it satisfies what the theorems assume, and `EveryDailyTaskSeen`: a
task that declines outside its window has its cooldown started by that
(`DeclineRun` records a run), and is looked at again within the window all the same,
even if every other task takes as long as its time-out lets it. The sentinel's row
would not pass: six hours of cooldown in a window of six and a half.

Abstractions: the clock is a small integer, and midnight may come with any tick;
windows are open or not by choice. A profile is worked on in any order. The switches
and cooldowns of `funnel_config.json` are read afresh each time, so each reading may
give another answer (`Switched`, `Overrides`). A global job is a loop over the one
profile "default". `_record_run` may fail silently, as in the code.

### Alerts and Inbox

`Alerts` has files (inodes), the two directory entries, and for each caller the list
it has computed. `Open` truncates, `Flush` writes when the file is closed (over
whatever another caller has put there), `Replace` renames whatever has the temporary
name. A refresh of an unread alert rewrites the file with the fields the model does
not have; it is a stuttering step of `Inbox`.

### WatchConditions

Loading, each judgement, and the rewrite are separate steps of a thread, so anything
can happen between them. A condition's level stands for symbol, metric, operator and
threshold; a quote is a nondeterministic verdict (no quote, miss, hit). Expiry is
nondeterministic. `raced` records whether two calls ever overlapped: the parts of the
properties that begin with `~raced` say what holds as long as none did, the others
hold whatever the threads do.

### Sentinel

A tick is `ReadMarket` (load the state, bands, ladder), `ReadHoldings` (crosses,
spikes, pruning), `WriteState` or `WriteStateFails`, `Deliver`; `Crash` and
`EditLadder` may come at any moment. An unreadable state file is a tick on `Blank`
memory, an unreadable playbook an empty ladder. `BandWithHysteresis` is the closed
form of the two loops of `_band_with_hysteresis`. Not modelled: ticks that overlap
after a scheduler time-out, and the inbox's dedup keys (day stamp, episode stamp),
which can only hide a repetition.

### AgentTurn

`seg` describes the messages from the last human one on: their number, whether a
health keyword occurs in the non-tool ones, who has answered, whether a verdict of
RiskManager is among them. `handoff`, `risk` and `retry` are the checkpointed fields
without a reducer. A node's step includes the edge that leaves it, as the
checkpointer stores them. `NewTurn` resets `retry`, and nothing else, because
`api/routers/chat.py` does. `StopTurn` is a cancel, an exception or a crash at any
node. In every reachable state `seg.judged` is false when RiskManager runs, so the
redundancy check (`SkipAudit`) is dead code under this routing; the step theorem
proves it, and the mutant of `Correction` shows what it would do if it were not.
Only the messages' number, authors and keywords are kept, so an audit is taken to
read the draft at hand (the hazard list has the line where that may not be so).

### ChatTurn

`run[t]` holds the locals of the two halves of a turn: the worker thread
(`Produce`, `InvokeReturns` or `InvokeFails`, `Recover`, `WorkerEnds`) and the
generator of the response (`TakeItem`, `FrameSent`, `CloseStream`, `TearDown`,
`DropUnseen`). Whichever finalizes goes through `JoinSession`, `LoadFile` and
`StoreFile`. The event loop is one thread: no endpoint and no other generator runs
while a generator finalizes (`LoopFree`); the worker's finalize interleaves with
everything. An answer is a sequence of numbered pieces, each streamed live or only
found in the final state, so that "each message once" can be said. `disturbed`
records that another request touched the turn's session meanwhile.

Not kept: titles, lenses, privacy, feedback other than which question an answer is
filed under, and the cap on text sizes.

### Workers

A job is a request that becomes a thread, or a thread that the scheduler or another
job starts. `AskText`, `AskCostly` and `ScheduledRun` are what starts one;
`CancelNews`, `RenewNews` and `RegisterNews` the three parts of `start_news_fetch`;
both looks at the cancel event read the global one of that moment
(`NewsCancelled`). A catalyst scan goes through `BeginScan`, `Extract`, `Escalate`,
`ReadScenarios`, `StoreScenarios`, `Annotate`, `RecordIds`, `ReadKeys`,
`AppendPredictions`, and may break off anywhere (`ScanFails`). `MarkerAges` is the
time after which a marker counts as stuck. One profile, one day of the cache.

### Ledger

The handlers of the event loop load and save without giving way: `Restate`,
`EnterCall`, `Report` and the thesis actions are one step each. A scorer loads
(`Load`), fetches prices, and saves the whole file it loaded (`Save`), or nothing
(`NothingGraded`). `Restatement` and `Trimmed` are the closed forms of the loops of
`_collapse_restatements` and `_trim_recommendations`. `Legacy` includes a ledger
written before restatements were collapsed. `due` and `raced` are history: calls owed
a grade, and calls an older file has dropped or closed again.

### Observations

Turn threads and the event loop append a row in two steps, load and save. The sweep
(`SweepLoad`, `SweepJudges`) adds verdicts; a pass (`Ask`, `ModelFails` or
`ModelReplies`, `MarkSave`) shows unread rows to a model and marks them in the log as
loaded after the answer. `SaveFails` and `Crash` are the faults. What the model
proposes is drafted, which is the module `Lessons`.

### Lessons

Two files. A pass drafts in its thread (`DraftLoad`, `DraftSave`), feedback on the
event loop; a confirmation loads the queue, promotes (`Promote`), and saves the queue
it had loaded without the draft (`RemoveDraft`). `Teach`, `EditLesson` and
`DeleteLesson` are single handlers. `OtherLoad` and `OtherSave` are any other writer
of `user_memory.json`. Wordings that the code's similarity test takes for the same
are one text.

### Watchdog

`World` is what goes on between two looks: launchd respawns, the single-instance
guard (`PassGuard`, `StopAtGuard`) and the bind of `server.py`, servers started by
hand, bootstrap and bootout, usage crossing a hard cap. A run of the script is
`Wake` (state, budget, restart storm), then `Disable`, or `Probe` and either
`AskOwner`, `FindServed`, `FindOrphan`, `Adopt` (the port is open) or `FindUnloaded`,
`FindStarting`, `FindDormant` (it is not), `Kick`, and `Save`. `Reads` and `Finds` let
`launchctl` and `lsof` fail, `Unsaved` is a kill or a state file that cannot be
written. The ten-minute cooldown is one bit that time clears.

## 3. Runs

Passing runs:

| Run | Question | States |
|---|---|---|
| `scheduler_engines` | lock, breaker, pause alert, markers and progress under all interleavings | 1.5 M |
| `heartbeat_window` | is the window open exactly while its engine is awaited | 1.1 M |
| `alerts_serial` | does one caller at a time implement the inbox through crashes and failed writes | 11 k |
| `watch_threads` | what survives two threads overwriting each other, and what holds when they do not | 6.4 M |
| `sentinel_news` | no repetition, no false news, nothing swallowed | 1.3 M |
| `agent_gate` | does advice pass the gate, does the retry budget hold, does every turn end | 1.1 k |
| `chat_turns` | is an answer persisted whole and once, can every run be stopped, does every turn settle | 1.4 M |
| `workers_jobs` | does the page ever wait for nobody, is a story paid for once, do buttons open | 2.9 M |
| `ledger_scored` | do open calls agree, does trimming cost a call its grade, are grades earned | 1.3 M |
| `observations_passes` | is only what was read marked, is a call judged once, does the backlog drain | 1.9 M |
| `lessons_gate` | does any draft or lesson vanish, is a rule a lesson once | 6.2 M |
| `watchdog_supervises` | are kickstarts earned, does a dormant or unsupervised server stay unnoticed | 1.4 M |

### Claims of the code's own documentation that TLC refutes

Each row is a further configuration; its property stands in the MC module under
"Refuted".  TLC prints the behaviour.

| Configuration | Property | The text | What TLC shows |
|---|---|---|---|
| `MCScheduler_overlap` | `NoOverlap` | "If a tick fires while the task is still running, the new tick is silently skipped" (`tools/scheduler.py:9-10`) | time-out, lock freed, cooldown over: the task runs beside its abandoned thread |
| `MCMonitoredScheduler_foreign` | `UninstrumentedNeverIdle` | "never asked to declare production" (`tools/scheduler.py:561-563`) | an abandoned thread declares zero production into the next engine's window |
| `MCAlerts_lost` | `DeliveredKept` | "persist to the per-profile inbox ... None on failure" (`tools/alerts.py:134-139`) | the second of two concurrent calls overwrites the first's alert |
| `MCWatchConditions_twice` | `FiresOnce` | "fires ONCE" (`tools/watch_conditions.py:14-15`) | alert sent, rewrite lost, alert read, alert sent again |
| `MCSentinel_ladder` | `LateRungsStaySilent` | "must not immediately fire" (`tools/drawdown_playbook.py:327-331`) | a rung written at a passed depth into a ladder already seen fires on the next tick |
| `MCAgentTurn_bypass` | `OnlyHealthQueriesBypass` | "must only apply to the turn that actually asked for a health check" (`tests/test_agent_graph.py:51-52`) | the draft contains a keyword and skips the audit |
| `MCChatTurn_lost` | `TurnNeverLost` | "Runs exactly once per turn, from whichever side reaches the end first" (`api/routers/chat.py:639`) | the client goes after the worker's check (or at the last frame, or before the generator is entered): neither side persists |
| `MCChatTurn_lost`, with this invariant | `QuestionIsTrigger` | "Capture the triggering human message BEFORE appending the assistant reply" (`api/routers/chat.py:668`) | a second message, or a reload of the saved copy, comes first: the answer is filed under another question or under none |
| `MCWorkers_cancel` | `CancelledNewsDiscarded` | "Cancelled after LLM call — discarding result" (`api/background.py:66`) | the start that cancels replaces the event the old thread looks at; its result becomes the news |
| `MCWorkers_cancel`, with this invariant | `NeverRebilled` | "a recurring story never re-bills" (`api/background.py:448`) | two scans overlap, or one breaks off between paying and recording |
| `MCLedger_flip` | `LatestCallOpen` | "a SELL supersedes an earlier BUY instead of the two coexisting" (`tools/memory.py:1844-1846`) | BUY, SELL, BUY on one day: the last BUY is taken for a restatement (line 1812), the SELL stays the open call |
| `MCWatchdog_runaway` | `RunawayStops` | "so a runaway stops and STAYS down" (`scripts/cairniq_watchdog.py:15-16`) | the runaway is a server started by hand; disabling the job leaves it serving |

### Remarks without a property

Found while modelling; each restates one or two lines of code.

- `cache_warm` says that the `scheduler` block of `funnel_config.json` switches it off
  (`tools/scheduler.py:397-398`); `get_scheduler_settings` reads only the twelve names of
  `DEFAULT_SCHEDULER_SETTINGS`, and seven tasks of the table, this one among them, have
  no switch there (`Switched`). The sentinel "lands roughly twice a session" (`:1388-1390`)
  only if its last look before the session, on which it declined, was hours ago. The
  weekly review has no daily marker: once the user has read it, the next hour of Sunday
  evening delivers it again, where `:749-750` speaks of one alert per week.
- The snapshot task marks the day although `portfolio_tracker` swallowed its error
  (`tools/scheduler.py:457`); a marker written after midnight carries the new day
  (`:196`); a run cancelled by shutdown is recorded as ok (`:1822`).
- `list_conditions` calls "newest first" a file that `_trim` has regrouped
  (`tools/watch_conditions.py:421`).
- The comment "risk_retry_count >= 1 always routes to Supervisor" (`agent/graph.py:76`)
  describes a test that reads `<= 1`; the cap holds because the node counts past it.
- A client that goes between the worker's choice of buffer and its second look
  (`api/routers/chat.py:892`) makes the recovered answer repeat or lack pieces. A
  deleted chat is written back by a worker that had loaded the file before. `chat_history.json` has lost
  updates; its cap keeps the sessions created last, not those used last. Opening a
  chat while a turn is under way drops the message that has not been saved.
- The finally blocks of pulse and priority clear the marker of a newer run
  (`MarkText`, `Leave`), so a page may start a second one; the news marker has the
  identity test.
- A scorer keeps the whole of `user_memory.json` while it asks for prices: calls,
  lessons, facts and theses entered meanwhile are lost when it saves
  (`OtherSave`, `Save`). A restatement on the same day overwrites
  `price_at_advice`, also by nothing; a restatement keeps an older "executed".
- Lessons are edited and deleted by index, on a list that may have shifted since the
  page was loaded; `update_lesson` does not look for a twin (`edits`). Confirming
  drops the draft even if the lesson could not be stored
  (`tools/pending_lessons.py:160-163`). A pass that saves an older queue brings
  confirmed and discarded drafts back.
- An open port clears the watchdog's `disabled_at` while its job is still unloaded. In
  adopt mode an orphan never raises the one-time alert. A state file that can never be
  written keeps `down_checks` at one: no revival, which is why `Noticed` needs
  `MaxFaults` finite. The stop of an orphan looks at the listener found before, so a
  job restarted within these seconds could be the one stopped (`Adopt`, listener "job").

### Bounds, and why they are enough

- Scheduler: two rows of the table (`funnel_signal_scan`: one global job, switch, window, marker,
  verification; `weekly_review`: a loop over some of the profiles with none of these), one
  profile, two worker threads, threshold 2, one clock step, cooldowns 0 and 1 and an
  override by 0. Two tasks are needed for one to wait
  behind the other; the second thread lets an abandoned run and its successor
  work on the same day; threshold 2 tells "one failure late" from "on time"; the clock step is
  either a cooldown or midnight. Larger values are covered by the proofs.
- Heartbeat: `watch_conditions`, which reports from its thread, and `edgar_events`, which
  does so from its coroutine and marks the day without verification; one worker. The clock stands still: the window does not depend on
  it. Larger values are covered by the proof.
- Alerts: one caller, two keys and the empty key, three alerts over a cap of two: enough to
  refresh, to append, to evict, and to fail or crash at every file operation; two callers
  are what `MCAlerts_lost` is about.
- Watch conditions: two threads, two levels, two conditions, a store that keeps one
  resolved record: enough for a cap smaller than the live conditions, for a
  restatement beside a new level, and for every overlap of two calls.
- Sentinel: one banded metric with boundaries 3 and 6 and margin 1, readings 0, 3, 4
  and 7 (below, inside the dead zone, above, past two), rungs 3 and 7, one holding
  with one cross and its volume. Metrics and holdings do not interact except
  through pruning.
- Agent: valve 3 (10 in the code) and up to two tool messages per node, so that the
  valve is reached inside a turn; turns are unbounded.
- Chat: two turns of one thread (a second message during the first, and the first's
  finalize during the second), two pieces for one of them (one delivered, one not), a
  file of one session. Threads interact only through the file's cap.
- Workers: three jobs of any kinds (a cancelled fetch, its successor and the scan one of
  them chains; two scans and a third that meets what they left), two stories, one
  escalation per scan, so that the cap leaves one out. The proofs cover any number.
- Ledger: one ticker (tickers do not interact), three actions (two of one bias),
  horizons of one and two days, retention two, one completed row kept, three days, three
  new rows, one scorer: enough to close early, to grade late, to trim and to save over.
- Observations: one turn thread, the event loop, both passes, four rows over a log of
  two, gate and citations two, one fault.
- Lessons: three wordings over caps of two, three drafts, one pass, one fault.
- Watchdog: two confirmations, two tries (three in the code), a storm of two starts
  (eight), one fault, two settings of the switches: the default, and alert-only kills
  beside adoption.

`MaxAlerts`, `MaxConds`, `Horizon`, `MaxCalls`, `MaxDay`, `MaxRows`, `MaxDrafts` and
`MaxFaults` bound counters that the code does not bound. A job and a chat turn happen
once each; `workers_jobs` therefore ends, and its cfg allows the deadlock.

### Fairness

- `scheduler_engines`: weak fairness of `LoopStep` only: the event loop keeps
  running and its timers (`wait_for`, the tick) fire. Worker threads get no fairness,
  they may hang for ever; that is what the time-out is for.
- `agent_gate`: weak fairness of `NodeStep`: the worker thread of a turn keeps invoking
  the graph; each node's model calls have time-outs of their own.
- `chat_turns`: weak fairness of "some turn takes a step of its own": as long as a
  thread or the event loop can go on, one of them does. Clients owe nothing.
- `observations_passes`: strong fairness of the scheduled pass (the day comes round,
  and a model that is asked again and again answers in the end), weak fairness of what
  a thread has begun. The forced pass and the writers owe nothing.
- `watchdog_supervises`: weak fairness of the watchdog's steps (launchd starts the
  script every two minutes, every call in it has a time-out), of the budget's bucket
  rolling over and of the cooldown (time passes). The server, launchd's respawns and
  the operator owe nothing.

All other properties are safety.

## 4. Properties worth a word

- `RetryStormBounded` counts failures (`burn`) independently of the streak the code
  keeps, so a streak reset at the wrong moment shows.
- `ReportsHold` relates what a call returned to what the file holds at any later time,
  and says that a read alert stays read.
- `LifecycleRespected` is an action property of the file: live conditions are never
  evicted, resolved ones never change, only armed ones fire, cancelled ones never do.
- `NoRefire` and `NothingConsumed` are the two halves of the sentinel's promise, over
  a history of what was told that is cleared only by readings.
- `AdviceAudited` allows unaudited advice only under a keyword, the bypass the code
  intends; `MCAgentTurn_bypass` shows that the keyword need not be the user's.
- `WholeAnswer` and `AnswerKept` are what is left of "persist it exactly once": an
  exact statement of the moments at which the client may go without loss.
- `MarkerMeansWork` holds of the news because only one finally block may clear its
  marker, and of the others because none leaves without clearing it; the proof needs
  both arguments.
- `OpenRowsAgree` holds whatever the scorer saves over, since every state of the file is
  one that was saved before plus grades; `CallKept` is what a trim may cost.
- `DraftKept`: between the two files of a confirmation a kill leaves the draft in the
  queue, never in neither file. `LessonKept` ties the cap to the warning the user got.
- `ReviveEarned` counts kickstarts (`kicks`, `recent`) independently of the state file,
  so a counter stranded there shows; the mutant is the bug that a comment of
  `_check_liveness` warns of.
- `Noticed` quantifies over every crash, lost file and failing tool within `MaxFaults`.

## 5. Proofs

All theorems hold for every value of the constants allowed by the `ASSUME`s.

`SchedulerProofs` (assuming `SchedulerAssumption`). `IInv` adds to the type invariant
that a task is awaited only at its position (`RunInv`), how streak, breaker, alert and
failure counts hang together across midnight (`BreakerInv`: a closed breaker leaves
room for one more failure; a breaker of an earlier day has seen no failure today; only
a closed breaker holds the lock), and that a thread about to mark has produced
(`ThreadInv`). None of the properties is inductive without it: `RetryStormBounded`
speaks of a count that the code does not keep. Theorems: `TypeCorrect`, `LockCorrect`,
`BreakerCorrect`, `PauseAlertCorrect`, `MarkerCorrect`.

Its second half is about `MonitoredScheduler` (the same assumption). Every step of the
monitored scheduler is a step of the scheduler or leaves its variables alone
(`MonitorRefines`), so `IInv` and all that follows from it carry over. `WindowCorrect`
then needs only what the heartbeat's operators do to the window, and one fact of the
scheduler: an end of a run comes from a task that was awaited, and awaits nothing
afterwards.

`SelectionsProofs` (no assumption). What a filtered list is: `Selections` defines it
without recursion, through the rank of a kept place, so that what it keeps, its order
and its length can be proved (`KeptItems`) by the library's facts about cardinality
instead of by induction over the list. The list stores below rest on it.

`WatchConditionsProofs` (assuming `InboxAssumption`, `WatchAssumption` and, in its last
part, `SentinelAssumption`).
First the inbox. `NoUnreadTwins`: no two unread alerts have the same key. The argument:
the cap takes a suffix, marking only sets read flags, and an append is guarded by the
absence of an unread twin; order and types are carried along. Then the store. `IInv`
says of the file, and of every list a call has in hand, that it is fit to be the file
(`GoodList`: levels and ids unique, only a condition seen on the other side is armed,
a voided one never is); and of the one call under way, as long as no two have
overlapped, how its list descends from the file (`Kin`) and that nobody was paged for
what is unarmed or cancelled (`Quiet`). A lemma for each change of the list (append,
replace, expire, trim) says that it keeps the list fit. Theorems: `StoreIsSound`,
`PagesAreCrossings`, the action property `LifecycleIsRespected`, and the refinement
`StoreRefinesInbox` (`WatchSpec => Spec`: to the inbox the store is one more caller),
for any threads, levels and caps.

Last the sentinel. `SentinelIInv` says of the file, and of the memory of the tick under
way, that it stands by every level that was told and not re-armed (`StandsBy`), that it
takes for absent only what some reading found absent (`Founded`), and that what it has
noted since the tick began is about to be announced (`Noted`). Each of the two readings
carries all three along (`MarketReading`, `HoldingsReading`); for the bands this rests
on where the two loops of `_band_with_hysteresis` stop (`BandFacts`). Theorems:
`SentinelIsSound`, `NothingRefires`, and the action property `NothingIsConsumed`, for any
metrics, boundaries, rungs, holdings and signals. The proof needs a margin above zero,
as the code's constants have: with none, a reading on a boundary is on neither side of
it, and the band above would be announced without having been found absent.

`AgentTurnProofs` (assuming `AgentAssumption` and, in its second half,
`ObservationsAssumption`). `IInv` says where an unaudited or
audited draft can be (`DraftInv`), that a judged segment is on its way out
(`JudgedInv`), and that within a turn the retry budget is used only by audits
(`RetryInv`). Theorems: `GateCorrect`, `RetryCorrect`, `HandoffCorrect`, for any valve
and any number of tool messages.

Its second half is about the log the turns feed (`Observations`). `VerdictOnce` is not
inductive: a copy loaded before the sweep is saved after it, and the sweep then runs
again. `ObservationsInv` says of the file and of every copy in flight what makes such a
save harmless (`FitLog`): rows stand in the order they were made, a call with a verdict
on the list carries its mark on the same list (`JudgedMarked`), so that no sweep over
that list judges it again, and what is marked as read had been shown. A list stays fit
when rows are marked (`FitWhenMarked`), when its end is cut off (`FitEnd`) and when new
rows join it (`FitWithNew`). Theorems: `LogIsTrue`, `CallsAreJudgedOnce`, for any
threads, gates and caps.

`ChatTurnProofs` (assuming `ChatAssumption`). The invariant follows one turn at a time
(`TurnInv`): what has been made is, piece by piece, in the stream's hands, in the queue,
or beyond its end; which half may still persist; what was persisted is what had been
made. With it go the facts that relate turns: a thread serves one turn, a session
changes under a turn only if the turn is marked disturbed, an answer is in a session
once. Theorems: `ChatIsSafe`, `WholeAnswerIsSaved`, `AnswersAreKept`,
`RunsAreStoppable`, `QuestionsAreOwn`, for any turns, threads, message counts and
history caps. `ChatAssumption` asks that `None` is no turn, no thread and no list of
entries, as in the code, where it is Python's `None`.

`LessonsProofs` (assuming `LedgerAssumption`, `LegacyAssumption` and, in its second
half, `LessonsAssumption`). First the ledger. `LedgerIInv` says of the file, and of the
file every scorer holds, that it is fit to be the ledger of the day (`FitLedger`: grades
earned, open rows in agreement, a call closed only together with its restatements), and
that an owed call has an open row that waits for a grade (`CallsStand`). The properties
are not inductive without it: a scorer puts back the file it loaded, so what holds of the
file must hold of what it holds; `_collapse_restatements` folds a row only as far back as
the last closed one of its stance, so that a stance open on both sides of a closed row
would end up with two rows (`Unbroken` excludes it); and a row with every grade may be
trimmed, so `CallKept` must be carried by rows that have not. What trimming keeps is
`TrimmedFacts`, what a new call leaves `CallJoins`. Theorems: `LedgerIsSound`,
`AdviceAgrees`, `CallsAreKept` and the action property `AnchorsAreKept`, for any symbols,
actions, horizons, bounds, scorers and legacy ledgers. `LegacyAssumption` is what an
older version may have left: it appended restatements, but closed a contradicted call
with all of its restatements and graded like this one. The proof changed the model in
one place: with two scorers, a save can close again a call that was entered anew after
it had been closed, so `raced` counts the calls a save finds open on file and not in its
own copy, and not only those it drops.

Then the lessons. The invariant says where a draft can
be between the two files of a confirmation, that what a writer holds was the file
once, and that a rule is a lesson once unless the user typed it in again. Theorems:
`LessonsAreSound`, `DraftsAreKept`, `LessonsAreKept`, for any rules, writers and caps.

`WorkersProofs` (assuming `WorkersAssumption`). Types are split into what concerns the
jobs (`JobsOK`) and the rest (`FlatOK`). `MarkerInv`: while the news are marked as being
fetched, a request is about to register its thread or the registered one is at work;
for the other kinds some worker is unfinished. Every step but those of the finally
blocks leaves a worker at work (`Persistence`), which leaves the two finally blocks to
look at. `ScanInv`: as long as scans neither overlap nor break off there is at most
one; a story that has been paid for is in a log or in its hand (`Accounted`); what it
read still is so (`Relies`). Theorems: `WorkersTypesCorrect`, `MarkerCorrect`,
`OnceCorrect`, `ButtonsCorrect`, for any number of jobs and stories and any cap.

`WatchdogProofs` (assuming `AlertsAssumption` and, in its second half,
`WatchdogAssumption`). First the file of the alerts inbox. Its theorems carry the
hypothesis `[]OneAtATime`: never are two callers inside `raise_alert` or `mark_read`, of
however many there are; without it `MCAlerts_lost` refutes the promise. `AlertsIInv`
says what a caller may then rely on (`OnItsWay`): the list in its hand is one call of the
inbox away from what is on file, or the same; the temporary name leads to no file that
`alerts.jsonl` names; that file is empty when its lines are written and holds the list
when it is renamed, whatever a crash or a failed write has left under the temporary name
before. That an alert leaves only through the cap (`DeliveredKept`) needs the inbox to be
in order and to hold only delivered alerts: what falls out is then older than as many
delivered alerts as the cap holds (`AppendFacts`, `OrderedCount`). Theorems:
`ReportsAreTrue` and the refinement `AlertsRefineInbox`, for any callers, keys and caps.

Then the watchdog. `TallyInv`: as long as nothing was lost,
the tries on record are the kickstarts since the port was last seen served, but for
the one that has been decided and not made; while a cooldown runs, one is on record;
an adoption begins only without one. A lemma for each action says what it makes of the
watchdog's own record, and nothing that the world does touches it, except that a
listener may be gone. Theorems: `TallyCorrect`, `ReviveCorrect`, for any limits,
settings and number of faults.

Only model-checked:

- the liveness properties (`EveryEngineConsidered`, `EveryTurnEnds`, `EveryTurnSettles`,
  `BacklogDrains`, `Noticed`), because liveness under fairness is out of the prover's
  reach.

Every other property of a run is stated by a theorem.

## 6. Plan

Done: the modules of section 2 and the proofs of section 5. Next, in this order:

1. Model overlapping sentinel ticks with the inbox's dedup keys; the broker's one-time
   refresh token (four separate writes; a lock time-out shorter than the request it
   guards); the soft gate of the LLM budget; the tool loop inside a node.
2. Compose `Ledger` and `Lessons`, which share `user_memory.json`: a scorer's save drops
   lessons (`OtherSave`) in the same step in which it drops calls.

## 7. Not modelled, and why

Numerics (portfolio analytics, optimizers, simulation, technicals) have no state
machine. Market data clients, scanners and web readers are input: where it matters it
is an arbitrary reading. They make up most of the lines of the repository, which is why
the share of its lines that the map covers stays small. Prompts, the tool loops inside
a node and the deterministic audits are abstracted to the messages and verdicts they
leave. Pages, templates, settings and the server are HTTP and HTML. Login, profiles and
secrets are outside a correctness model; a profile is a model value, and markers and
caches of several profiles are taken to be independent, although the news, pulse and
catalyst markers are global to the process. The evaluation harness is an offline tool.

Parts of modelled components that are left out: conditions captured and alerts raised
from inside an escalation; the watchdog's serving probe (`_check_serving`, which only
reports) and its walk up the process tree of a listener; the counts of the LLM budget;
titles, lenses and ratings of a chat; wording, prices and grades of a call; the
similarity test of lessons. The daily cache's `set_cached` is taken to be one step per
file (it is not atomic on disk). Checkpointer, Questrade, weekly review, fund flows,
event radar, graph memory and housekeeping have state of their own and are not
modelled yet; `PROJECT.json` says why for each.
