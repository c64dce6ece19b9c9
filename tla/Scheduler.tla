----------------------------- MODULE Scheduler -----------------------------
(***************************************************************************)
(* The in-process background scheduler of tools/scheduler.py.               *)
(*                                                                         *)
(* One event-loop coroutine (_loop) walks the task table in order and, for *)
(* each task, applies the guards of _try_run: config gate, circuit         *)
(* breaker, cooldown registry, overlap lock, timeout.  A task's own        *)
(* coroutine checks its window and then hands a per-profile loop, or one   *)
(* job for the whole installation, to a worker thread (asyncio.to_thread). *)
(* A timeout cancels the coroutine only: the thread it was waiting for     *)
(* goes on by itself.  Cooldowns and daily markers are on disk and survive *)
(* a restart; streaks, breakers and locks are in memory and do not.        *)
(*                                                                         *)
(* The tasks differ in what the sets below say of them; Engines has the    *)
(* nineteen that exist.                                                    *)
(***************************************************************************)
EXTENDS Integers, FiniteSets

CONSTANTS
  NumTasks,     (* length of SCHEDULED_TASKS                                *)
  Profiles,     (* the real profiles list_available_profiles returns        *)
  OptedIn,      (* those whose SCHEDULER_ENABLED setting is on              *)
  Marked,       (* tasks that keep a daily "done" marker per profile        *)
  Verified,     (* those that mark a day done only on verified output       *)
  Bridged,      (* tasks that fail when all of their work failed            *)
  Switched,     (* tasks that funnel_config.json can switch off             *)
  Windowed,     (* tasks that may decline before they start a thread        *)
  Global,       (* tasks with one job instead of one for each profile       *)
  Unasked,      (* tasks that do not ask whether the scheduler is wanted    *)
  Narrowed,     (* tasks that may leave profiles out of their loop          *)
  Home,         (* "default", which global tasks are bound to               *)
  Cooldown,     (* cooldown_seconds of each task, in clock units            *)
  Overrides,    (* the cooldowns funnel_config.json may have instead        *)
  MaxFailures,  (* MAX_CONSECUTIVE_FAILURES                                 *)
  PoolSize,     (* worker threads of the event loop's default executor      *)
  Horizon,      (* bound on the clock                                       *)
  NoProfile     (* a worker thread between two profiles                     *)

Tasks == 1..NumTasks
Slots == 1..PoolSize

ASSUME SchedulerAssumption ==
  /\ NumTasks \in Nat \ {0}
  /\ OptedIn \subseteq Profiles
  /\ NoProfile \notin Profiles
  /\ Marked \subseteq Tasks
  /\ Verified \subseteq Marked
  /\ Bridged \subseteq Tasks
  /\ Switched \subseteq Tasks
  /\ Windowed \subseteq Tasks
  /\ Global \subseteq Bridged
  /\ Unasked \subseteq Tasks \ Marked
  /\ Narrowed \subseteq Tasks \ Global
  /\ Home \in Profiles
  /\ Cooldown \in [Tasks -> Nat]
  /\ Overrides \subseteq Int
  /\ MaxFailures \in Nat \ {0}
  /\ PoolSize \in Nat \ {0}
  /\ Horizon \in Nat

VARIABLES
  now,       (* time.time()                                                *)
  today,     (* the US/Eastern calendar day, counted from 1                *)
  status,    (* "up", "stopping", "stopped" (loop left), "down" (no process)*)
  lastRun,   (* scheduler_runs.json: time of the last recorded run         *)
  marker,    (* daily_cache: day of the last "done" marker, per profile    *)
  streak,    (* _failure_streak                                            *)
  openedOn,  (* _circuit_opened_on                                         *)
  locked,    (* _locks: is the task's asyncio.Lock held                    *)
  pos,       (* index of the task _loop is at; 0 while it waits for a tick *)
  awaiting,  (* what the coroutine of task pos is waiting for              *)
  threads,   (* the executor's worker threads                              *)
  (* History variables, read by no action. *)
  burn,      (* failures of a task since its last success, today           *)
  alerts,    (* breaker alerts raised for a task today by this process     *)
  produced   (* has a run of the task ever produced this profile's output   *)

env     == <<now, today>>
breaker == <<streak, openedOn>>
run     == <<pos, awaiting>>
mem     == <<breaker, locked, run>>
disk    == <<lastRun, marker>>
hist    == <<burn, alerts, produced>>
vars    == <<env, status, mem, disk, threads, hist>>

Never == -1     \* registry.get(task_name, 0): epoch 0 is long ago
NoDay == 0      \* no marker, no breaker

(* What the awaited coroutine is doing: nothing, evaluating its own gates,  *)
(* waiting for the executor to start its thread, or waiting for the thread. *)
NoRun  == -2
Gate   == -1
Queued == 0

IdleThread ==
  [task |-> 0, todo |-> {}, profile |-> NoProfile, stage |-> "idle",
   good |-> FALSE, bad |-> FALSE]

Thread ==
  [task : 0..NumTasks, todo : SUBSET Profiles, profile : Profiles \cup {NoProfile},
   stage : {"idle", "loop", "work", "mark"}, good : BOOLEAN, bad : BOOLEAN]

TypeOK ==
  /\ now \in Nat
  /\ today \in Nat \ {0}
  /\ status \in {"up", "stopping", "stopped", "down"}
  /\ lastRun \in [Tasks -> Nat \cup {Never}]
  /\ marker \in [Tasks -> [Profiles -> Nat]]
  /\ streak \in [Tasks -> Nat]
  /\ openedOn \in [Tasks -> Nat]
  /\ locked \in [Tasks -> BOOLEAN]
  /\ pos \in 0..NumTasks
  /\ awaiting \in {NoRun, Gate, Queued} \cup Slots
  /\ threads \in [Slots -> Thread]
  /\ burn \in [Tasks -> Nat]
  /\ alerts \in [Tasks -> Nat]
  /\ produced \in [Tasks -> [Profiles -> BOOLEAN]]

Init ==
  /\ now = 0
  /\ today = 1
  /\ status = "up"
  /\ lastRun = [t \in Tasks |-> Never]
  /\ marker = [t \in Tasks |-> [p \in Profiles |-> NoDay]]
  /\ streak = [t \in Tasks |-> 0]
  /\ openedOn = [t \in Tasks |-> NoDay]
  /\ locked = [t \in Tasks |-> FALSE]
  /\ pos = 0
  /\ awaiting = NoRun
  /\ threads = [s \in Slots |-> IdleThread]
  /\ burn = [t \in Tasks |-> 0]
  /\ alerts = [t \in Tasks |-> 0]
  /\ produced = [t \in Tasks |-> [p \in Profiles |-> FALSE]]

-----------------------------------------------------------------------------
(* Time.                                                                   *)

ClockTick ==
  /\ now < Horizon
  /\ now' = now + 1
  /\ \/ UNCHANGED <<today, burn, alerts>>
     \/ /\ today' = today + 1          \* midnight, US/Eastern
        /\ burn' = [t \in Tasks |-> 0]
        /\ alerts' = [t \in Tasks |-> 0]
  /\ UNCHANGED <<status, mem, disk, threads, produced>>

-----------------------------------------------------------------------------
(* The loop: guards of _try_run.                                           *)

NextPos == IF pos = NumTasks THEN 0 ELSE pos + 1

(* _can_run *)
CanRun(t, cooldown) == lastRun[t] = Never \/ now - lastRun[t] >= cooldown

(* get_scheduler_cooldowns reads funnel_config.json afresh each time, and   *)
(* the settings page may rewrite it at any moment.                         *)
EffectiveCooldowns(t) == {Cooldown[t]} \cup Overrides

(* _circuit_is_open *)
CircuitOpen(t) == openedOn[t] # NoDay /\ openedOn[t] = today

(* ... which also closes a breaker tripped on an earlier day. *)
CloseStaleCircuit(t) ==
  LET stale == openedOn[t] # NoDay /\ openedOn[t] # today
  IN /\ openedOn' = [openedOn EXCEPT ![t] = IF stale THEN NoDay ELSE @]
     /\ streak' = [streak EXCEPT ![t] = IF stale THEN 0 ELSE @]

(* The 30 s start-up delay and the TICK_INTERVAL_SECONDS wait. *)
Tick ==
  /\ status = "up"
  /\ pos = 0
  /\ pos' = 1
  /\ UNCHANGED <<env, status, breaker, locked, awaiting, disk, threads,
                 hist>>

AtTask(t) == status = "up" /\ pos = t /\ awaiting = NoRun

(* So any reading of it may say "off" of a task that                        *)
(* DEFAULT_SCHEDULER_SETTINGS names (Guard 0).                              *)
SkipDisabled(t) ==
  /\ AtTask(t) /\ t \in Switched
  /\ pos' = NextPos
  /\ UNCHANGED <<env, status, breaker, locked, awaiting, disk, threads,
                 hist>>

SkipPaused(t) ==
  /\ AtTask(t)
  /\ CircuitOpen(t)
  /\ pos' = NextPos
  /\ UNCHANGED <<env, status, breaker, locked, awaiting, disk, threads,
                 hist>>

SkipCoolingOrLocked(t) ==
  /\ AtTask(t)
  /\ ~CircuitOpen(t)
  /\ locked[t] \/ \E c \in EffectiveCooldowns(t) : ~CanRun(t, c)
  /\ CloseStaleCircuit(t)
  /\ pos' = NextPos
  /\ UNCHANGED <<env, status, locked, awaiting, disk, threads, hist>>

StartRun(t) ==
  /\ AtTask(t)
  /\ ~CircuitOpen(t)
  /\ ~locked[t] /\ \E c \in EffectiveCooldowns(t) : CanRun(t, c)
  /\ CloseStaleCircuit(t)
  /\ locked' = [locked EXCEPT ![t] = TRUE]
  /\ awaiting' = Gate
  /\ UNCHANGED <<env, status, pos, disk, threads, hist>>

-----------------------------------------------------------------------------
(* How a run ends: _record_run, release of the lock, _record_outcome.       *)

(* _record_run: a write that fails with OSError is logged and ignored. *)
RecordRun(t) ==
  \/ lastRun' = [lastRun EXCEPT ![t] = now]
  \/ UNCHANGED lastRun

(* Mutant: the breaker trips one failure late. *)
RecordOutcomeLate(t, ok) ==
  LET n     == streak[t] + 1
      trips == ~ok /\ n > MaxFailures /\ openedOn[t] = NoDay
  IN /\ streak' = [streak EXCEPT ![t] = IF ok THEN 0 ELSE n]
     /\ openedOn' = [openedOn EXCEPT ![t] = IF trips THEN today ELSE @]
     /\ alerts' = [alerts EXCEPT ![t] = IF trips THEN @ + 1 ELSE @]
     /\ burn' = [burn EXCEPT ![t] = IF ok THEN 0 ELSE @ + 1]

(* Mutant: every failure raises the pause alert. *)
RecordOutcomeNoisy(t, ok) ==
  LET n     == streak[t] + 1
      trips == ~ok /\ n >= MaxFailures /\ openedOn[t] = NoDay
  IN /\ streak' = [streak EXCEPT ![t] = IF ok THEN 0 ELSE n]
     /\ openedOn' = [openedOn EXCEPT ![t] = IF trips THEN today ELSE @]
     /\ alerts' = [alerts EXCEPT ![t] = IF ok THEN @ ELSE @ + 1]
     /\ burn' = [burn EXCEPT ![t] = IF ok THEN 0 ELSE @ + 1]

RecordOutcome(t, ok) ==
  LET n     == streak[t] + 1
      trips == ~ok /\ n >= MaxFailures /\ openedOn[t] = NoDay
  IN /\ streak' = [streak EXCEPT ![t] = IF ok THEN 0 ELSE n]
     /\ openedOn' = [openedOn EXCEPT ![t] = IF trips THEN today ELSE @]
     /\ alerts' = [alerts EXCEPT ![t] = IF trips THEN @ + 1 ELSE @]
     /\ burn' = [burn EXCEPT ![t] = IF ok THEN 0 ELSE @ + 1]

ReleaseLock(t) ==
  /\ locked' = [locked EXCEPT ![t] = FALSE]
  /\ awaiting' = NoRun
  /\ pos' = NextPos

Running(t) == status \in {"up", "stopping"} /\ pos = t /\ awaiting # NoRun

(* Outside its window, or no LLM key: the task returns normally at once. *)
DeclineRun(t) ==
  /\ Running(t) /\ awaiting = Gate /\ t \in Windowed
  /\ RecordRun(t)
  /\ RecordOutcome(t, TRUE)
  /\ ReleaseLock(t)
  /\ UNCHANGED <<env, status, marker, threads, produced>>

(* The task fails before it reaches a thread, or its thread before it       *)
(* reaches the first profile.                                               *)
FailAtGate(t) ==
  /\ Running(t) /\ awaiting = Gate
  /\ RecordOutcome(t, FALSE)
  /\ ReleaseLock(t)
  /\ UNCHANGED <<env, status, disk, threads, produced>>

(* await asyncio.to_thread(_run_all): submit the per-profile loop ... *)
Submit(t) ==
  /\ Running(t) /\ awaiting = Gate
  /\ awaiting' = Queued
  /\ UNCHANGED <<env, status, breaker, locked, pos, disk, threads, hist>>

(* The profiles a run goes through: a global task has one job; the          *)
(* precompute's allow-list and the review's window leave some out, or all.  *)
Scopes(t) ==
  IF t \in Global THEN {{Home}}
  ELSE IF t \in Narrowed THEN SUBSET Profiles
  ELSE {Profiles}

(* ... which a free worker thread picks up. *)
ThreadStarts(t, s) ==
  /\ Running(t) /\ awaiting = Queued
  /\ threads[s].stage = "idle"
  /\ \E todo \in Scopes(t) :
       threads' = [threads EXCEPT ![s] =
                     [IdleThread EXCEPT !.task = t, !.todo = todo, !.stage = "loop"]]
  /\ awaiting' = s
  /\ UNCHANGED <<env, status, breaker, locked, pos, disk, hist>>

(* _raise_if_total_failure: no considered profile is a non-failure.  The    *)
(* exception of a global job reaches the coroutine by itself.               *)
TotalFailure(th) == th.task \in Bridged /\ th.bad /\ ~th.good

AwaitedReturns(t, s) ==
  LET ok == ~TotalFailure(threads[s])
  IN /\ Running(t) /\ awaiting = s
     /\ threads[s].stage = "loop" /\ threads[s].todo = {}
     /\ IF ok THEN RecordRun(t) ELSE UNCHANGED lastRun
     /\ RecordOutcome(t, ok)
     /\ ReleaseLock(t)
     /\ threads' = [threads EXCEPT ![s] = IdleThread]
     /\ UNCHANGED <<env, status, marker, produced>>

(* Mutant: the timeout path forgets the lock. *)
TimeOutKeepsLock(t) ==
  /\ Running(t) /\ awaiting # Gate
  /\ RecordOutcome(t, FALSE)
  /\ awaiting' = NoRun /\ pos' = NextPos
  /\ UNCHANGED <<env, status, locked, disk, threads, produced>>

(* Mutant: only a call the executor has not started yet can time out. *)
TimeOutOnlyQueued(t) ==
  /\ Running(t) /\ awaiting = Queued
  /\ RecordOutcome(t, FALSE)
  /\ ReleaseLock(t)
  /\ UNCHANGED <<env, status, disk, threads, produced>>

(* asyncio.wait_for gives up: a queued call is dropped, a running thread    *)
(* is not interrupted.                                                      *)
TimeOut(t) ==
  /\ Running(t) /\ awaiting # Gate
  /\ RecordOutcome(t, FALSE)
  /\ ReleaseLock(t)
  /\ UNCHANGED <<env, status, disk, threads, produced>>

-----------------------------------------------------------------------------
(* A worker thread: one profile after the other, whether or not anyone     *)
(* still waits for it.                                                     *)

Alive == status # "down"

(* is_scheduler_enabled: the profile's setting, or anybody's for a global   *)
(* task.                                                                    *)
Wanted(t, p) ==
  t \in Unasked \/ p \in OptedIn \/ (t \in Global /\ OptedIn # {})

SkipProfile(s, p) ==
  LET wanted == Wanted(threads[s].task, p)
  IN /\ Alive /\ threads[s].stage = "loop" /\ p \in threads[s].todo
     /\ ~wanted \/ marker[threads[s].task][p] = today
     /\ threads' = [threads EXCEPT ![s].todo = @ \ {p}, ![s].good = @ \/ wanted]
     /\ UNCHANGED <<env, status, mem, disk, hist>>

BeginProfile(s, p) ==
  /\ Alive /\ threads[s].stage = "loop" /\ p \in threads[s].todo
  /\ Wanted(threads[s].task, p) /\ marker[threads[s].task][p] # today
  /\ threads' = [threads EXCEPT ![s].todo = @ \ {p}, ![s].profile = p,
                                ![s].stage = "work"]
  /\ UNCHANGED <<env, status, mem, disk, hist>>

(* The profile's job produced its output. *)
WorkSucceeds(s) ==
  LET th == threads[s]
  IN /\ Alive /\ th.stage = "work" /\ th.task \in Marked
     /\ threads' = [threads EXCEPT ![s].stage = "mark"]
     /\ produced' = [produced EXCEPT ![th.task][th.profile] = TRUE]
     /\ UNCHANGED <<env, status, mem, disk, burn, alerts>>

BackToLoop(s, ok) ==
  threads' = [threads EXCEPT ![s].stage = "loop", ![s].profile = NoProfile,
                             ![s].good = @ \/ ok, ![s].bad = @ \/ ~ok]

(* Mutant: the day is marked done although the job failed. *)
WorkFailsMarked(s) ==
  /\ Alive /\ threads[s].stage = "work"
  /\ threads' = [threads EXCEPT ![s].stage = "mark"]
  /\ UNCHANGED <<env, status, mem, disk, hist>>

(* The job raised, or reported that it recorded nothing. *)
WorkFails(s) ==
  /\ Alive /\ threads[s].stage = "work"
  /\ BackToLoop(s, FALSE)
  /\ UNCHANGED <<env, status, mem, disk, hist>>

(* A global job that verifies its output came back without any: it will be  *)
(* tried again, but nothing was raised and the run counts as a good one.    *)
WorkInVain(s) ==
  /\ Alive /\ threads[s].stage = "work"
  /\ threads[s].task \in Global \cap Verified
  /\ BackToLoop(s, TRUE)
  /\ UNCHANGED <<env, status, mem, disk, hist>>

(* A job that does not verify its output came back, perhaps with nothing. *)
(* It is done, for the day if it keeps a daily marker.                     *)
WorkUnverified(s) ==
  /\ Alive /\ threads[s].stage = "work"
  /\ threads[s].task \notin Verified
  /\ IF threads[s].task \in Marked
     THEN threads' = [threads EXCEPT ![s].stage = "mark"]
     ELSE BackToLoop(s, TRUE)
  /\ UNCHANGED <<env, status, mem, disk, hist>>

(* _mark_done_today: the marker's date is the date of this call. *)
MarkDone(s) ==
  LET th == threads[s]
  IN /\ Alive /\ th.stage = "mark"
     /\ marker' = [marker EXCEPT ![th.task][th.profile] = today]
     /\ BackToLoop(s, TRUE)
     /\ UNCHANGED <<env, status, mem, lastRun, hist>>

(* set_cached raised: the profile counts as failed and is redone. *)
MarkFails(s) ==
  /\ Alive /\ threads[s].stage = "mark"
  /\ BackToLoop(s, FALSE)
  /\ UNCHANGED <<env, status, mem, disk, hist>>

(* An abandoned thread reaches its end; its result goes nowhere. *)
OrphanEnds(s) ==
  /\ Alive /\ threads[s].stage = "loop" /\ threads[s].todo = {}
  /\ awaiting # s
  /\ threads' = [threads EXCEPT ![s] = IdleThread]
  /\ UNCHANGED <<env, status, mem, disk, hist>>

-----------------------------------------------------------------------------
(* stop(), a crash, and the next boot.                                     *)

Stop ==
  /\ status = "up"
  /\ status' = "stopping"
  /\ UNCHANGED <<env, mem, disk, threads, hist>>

(* _loop sees the shutdown event between two tasks, or while it waits. *)
LeaveLoop ==
  /\ status = "stopping" /\ awaiting = NoRun
  /\ status' = "stopped"
  /\ pos' = 0
  /\ UNCHANGED <<env, breaker, locked, awaiting, disk, threads, hist>>

(* stop() waited 10 s in vain: CancelledError unwinds _try_run, which       *)
(* releases the lock and reaches neither _record_run nor _record_outcome.   *)
CancelRun(t) ==
  /\ status = "stopping" /\ Running(t)
  /\ status' = "stopped"
  /\ locked' = [locked EXCEPT ![t] = FALSE]
  /\ awaiting' = NoRun
  /\ pos' = 0
  /\ UNCHANGED <<env, breaker, disk, threads, hist>>

(* The process ends, orderly or not: memory and threads are gone. *)
ProcessEnds ==
  /\ Alive
  /\ status' = "down"
  /\ streak' = [t \in Tasks |-> 0]
  /\ openedOn' = [t \in Tasks |-> NoDay]
  /\ locked' = [t \in Tasks |-> FALSE]
  /\ pos' = 0
  /\ awaiting' = NoRun
  /\ threads' = [s \in Slots |-> IdleThread]
  /\ burn' = [t \in Tasks |-> 0]
  /\ alerts' = [t \in Tasks |-> 0]
  /\ UNCHANGED <<env, disk, produced>>

Boot ==
  /\ status = "down"
  /\ status' = "up"
  /\ UNCHANGED <<env, mem, disk, threads, hist>>

-----------------------------------------------------------------------------
(* Every way the awaited run of t can end while the loop lives. *)
EndRun(t) ==
  \/ DeclineRun(t) \/ FailAtGate(t) \/ TimeOut(t)
  \/ \E s \in Slots : AwaitedReturns(t, s)

(* The event loop: what asyncio keeps scheduling. *)
LoopStep ==
  \/ Tick
  \/ \E t \in Tasks :
       \/ SkipDisabled(t) \/ SkipPaused(t) \/ SkipCoolingOrLocked(t)
       \/ StartRun(t) \/ Submit(t) \/ EndRun(t)

(* A worker thread's own steps. *)
ProfileStep(s) ==
  \/ \E p \in Profiles : SkipProfile(s, p) \/ BeginProfile(s, p)
  \/ WorkSucceeds(s) \/ WorkFails(s) \/ WorkInVain(s) \/ WorkUnverified(s)
  \/ MarkDone(s) \/ MarkFails(s) \/ OrphanEnds(s)

ThreadStep(s) == ProfileStep(s) \/ \E t \in Tasks : ThreadStarts(t, s)

LifecycleStep ==
  \/ Stop \/ LeaveLoop \/ ProcessEnds \/ Boot
  \/ \E t \in Tasks : CancelRun(t)

Next ==
  \/ ClockTick
  \/ LoopStep
  \/ \E s \in Slots : ThreadStep(s)
  \/ LifecycleStep

Spec == Init /\ [][Next]_vars

(* The event loop is fair and its timers fire; worker threads may hang.     *)
FairSpec == Spec /\ WF_vars(LoopStep)

-----------------------------------------------------------------------------
(* Properties.                                                             *)

(* A task's lock is held exactly while _loop waits for that task: whichever *)
(* way a run ends (return, exception, timeout, cancellation), the lock is   *)
(* released, or Guard 2 would skip the engine for ever.                     *)
LockMatchesRun ==
  \A t \in Tasks : locked[t] <=> (awaiting # NoRun /\ pos = t)

(* The circuit breaker's purpose: without a success or a restart in         *)
(* between, a task fails at most MAX_CONSECUTIVE_FAILURES times on one      *)
(* Eastern day, whatever the interleaving of rollovers, timeouts and        *)
(* abandoned threads.                                                       *)
RetryStormBounded == \A t \in Tasks : burn[t] <= MaxFailures

(* "one alert fires on trip": a process raises at most one pause alert per  *)
(* task and day, and a task that is paused has raised it.                   *)
OneAlertPerPause ==
  \A t \in Tasks : alerts[t] <= 1 /\ (CircuitOpen(t) => alerts[t] = 1)

(* A task that verifies its output writes a daily marker only after some    *)
(* run of it produced that profile's output.                                *)
MarkedMeansProduced ==
  \A t \in Verified, p \in Profiles : marker[t][p] # NoDay => produced[t][p]

(* One hung worker thread never stops the other engines: as long as the     *)
(* process stays up, _loop comes back to every task.                        *)
EveryEngineConsidered ==
  \A t \in Tasks : []<>(pos = t \/ status # "up")
=============================================================================
