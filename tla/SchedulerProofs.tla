-------------------------- MODULE SchedulerProofs --------------------------
(***************************************************************************)
(* Proofs about Scheduler for every number of tasks, profiles, worker      *)
(* threads and every failure threshold, and about MonitoredScheduler, the  *)
(* scheduler with its heartbeat (in the second half).                      *)
(***************************************************************************)
EXTENDS MonitoredScheduler, TLAPS

(* The loop only waits for a run while it stands at a task. *)
RunInv == LockMatchesRun /\ (awaiting # NoRun => pos \in Tasks)

(* How the breaker's variables hang together.  A breaker that is not open  *)
(* leaves room for one more failure; one tripped on an earlier day has let  *)
(* no failure happen today; and a task only runs with its breaker closed.  *)
BreakerInv ==
  \A t \in Tasks :
    /\ burn[t] <= streak[t] /\ streak[t] <= MaxFailures
    /\ openedOn[t] <= today
    /\ openedOn[t] = NoDay => streak[t] < MaxFailures /\ alerts[t] = 0
    /\ openedOn[t] = today => alerts[t] = 1
    /\ openedOn[t] \notin {NoDay, today} => burn[t] = 0 /\ alerts[t] = 0
    /\ locked[t] => openedOn[t] = NoDay

(* A thread that is about to write a verified task's marker has output to   *)
(* show for it.                                                             *)
ThreadInv ==
  \A s \in Slots :
    /\ threads[s].stage # "idle" => threads[s].task \in Tasks
    /\ threads[s].stage \in {"work", "mark"} => threads[s].profile \in Profiles
    /\ threads[s].stage = "mark" /\ threads[s].task \in Verified =>
         produced[threads[s].task][threads[s].profile]

IInv == TypeOK /\ RunInv /\ BreakerInv /\ ThreadInv /\ MarkedMeansProduced

USE SchedulerAssumption DEF NoDay, Never, NoRun, Gate, Queued

LEMMA IdleType == IdleThread \in Thread
  BY DEF IdleThread, Thread

(* The record updates of a thread's steps keep its shape. *)
LEMMA StartUpdate ==
  ASSUME NEW t \in Tasks, NEW todo \in SUBSET Profiles
  PROVE  [IdleThread EXCEPT !.task = t, !.todo = todo, !.stage = "loop"] \in Thread
<1>1. t \in 0..NumTasks
  BY DEF Tasks
<1> QED
  BY <1>1 DEF Thread, IdleThread

LEMMA ScopesType ==
  ASSUME NEW t, NEW todo \in Scopes(t)
  PROVE  todo \in SUBSET Profiles
  BY DEF Scopes

LEMMA SkipUpdate ==
  ASSUME NEW th \in Thread, NEW p \in Profiles, NEW ok \in BOOLEAN
  PROVE  [th EXCEPT !.todo = @ \ {p}, !.good = @ \/ ok] \in Thread
  BY DEF Thread

LEMMA WorkUpdate ==
  ASSUME NEW th \in Thread, NEW p \in Profiles
  PROVE  [th EXCEPT !.todo = @ \ {p}, !.profile = p, !.stage = "work"] \in Thread
  BY DEF Thread

LEMMA MarkUpdate ==
  ASSUME NEW th \in Thread
  PROVE  [th EXCEPT !.stage = "mark"] \in Thread
  BY DEF Thread

LEMMA LoopUpdate ==
  ASSUME NEW th \in Thread, NEW ok \in BOOLEAN
  PROVE  [th EXCEPT !.stage = "loop", !.profile = NoProfile,
                    !.good = @ \/ ok, !.bad = @ \/ ~ok] \in Thread
  BY DEF Thread

LEMMA LoopType ==
  ASSUME threads \in [Slots -> Thread], NEW s \in Slots, NEW ok \in BOOLEAN,
         BackToLoop(s, ok)
  PROVE  threads' \in [Slots -> Thread]
<1>1. threads[s] \in Thread
  OBVIOUS
<1> QED
  BY <1>1, LoopUpdate DEF BackToLoop

LEMMA ProducedUpdate ==
  ASSUME NEW f \in [Tasks -> [Profiles -> BOOLEAN]], NEW t, NEW p
  PROVE  [f EXCEPT ![t][p] = TRUE] \in [Tasks -> [Profiles -> BOOLEAN]]
  OBVIOUS

LEMMA OutcomeType ==
  ASSUME TypeOK, NEW t \in Tasks, NEW ok \in BOOLEAN, RecordOutcome(t, ok)
  PROVE  /\ streak' \in [Tasks -> Nat]
         /\ openedOn' \in [Tasks -> Nat]
         /\ alerts' \in [Tasks -> Nat]
         /\ burn' \in [Tasks -> Nat]
  BY DEF TypeOK, RecordOutcome

LEMMA ReleaseType ==
  ASSUME TypeOK, NEW t \in Tasks, ReleaseLock(t)
  PROVE  /\ locked' \in [Tasks -> BOOLEAN]
         /\ awaiting' = NoRun
         /\ pos' \in 0..NumTasks
  BY DEF TypeOK, ReleaseLock, NextPos

LEMMA TypeStep == TypeOK /\ ThreadInv /\ [Next]_vars => TypeOK'
<1> SUFFICES ASSUME TypeOK, ThreadInv, [Next]_vars PROVE TypeOK'
  OBVIOUS
<1> USE DEF TypeOK, env, breaker, run, mem, disk, hist
<1>1. CASE ClockTick
  BY <1>1 DEF ClockTick
<1>2. CASE Tick
  BY <1>2 DEF Tick
<1>3. ASSUME NEW t \in Tasks, SkipDisabled(t) \/ SkipPaused(t) PROVE TypeOK'
  BY <1>3 DEF SkipDisabled, SkipPaused, AtTask, NextPos
<1>4. ASSUME NEW t \in Tasks, SkipCoolingOrLocked(t) PROVE TypeOK'
  BY <1>4 DEF SkipCoolingOrLocked, AtTask, NextPos, CloseStaleCircuit
<1>5. ASSUME NEW t \in Tasks, StartRun(t) PROVE TypeOK'
  BY <1>5 DEF StartRun, AtTask, CloseStaleCircuit
<1>6. ASSUME NEW t \in Tasks, DeclineRun(t) PROVE TypeOK'
  <2>1. RecordOutcome(t, TRUE) /\ ReleaseLock(t)
    BY <1>6 DEF DeclineRun
  <2>2. lastRun' \in [Tasks -> Nat \cup {Never}]
    BY <1>6 DEF DeclineRun, RecordRun
  <2>3. UNCHANGED <<env, status, marker, threads, produced>>
    BY <1>6 DEF DeclineRun
  <2> QED
    BY <2>1, <2>2, <2>3, OutcomeType, ReleaseType
<1>7. ASSUME NEW t \in Tasks, FailAtGate(t) \/ TimeOut(t) PROVE TypeOK'
  BY <1>7, OutcomeType, ReleaseType DEF FailAtGate, TimeOut
<1>8. ASSUME NEW t \in Tasks, Submit(t) PROVE TypeOK'
  BY <1>8 DEF Submit
<1>9. ASSUME NEW t \in Tasks, NEW s \in Slots, AwaitedReturns(t, s) PROVE TypeOK'
  <2> DEFINE ok == ~TotalFailure(threads[s])
  <2>1. ok \in BOOLEAN
    BY DEF TotalFailure
  <2>2. threads' \in [Slots -> Thread]
    BY <1>9, IdleType DEF AwaitedReturns
  <2>3. lastRun' \in [Tasks -> Nat \cup {Never}]
    BY <1>9 DEF AwaitedReturns, RecordRun
  <2>4. RecordOutcome(t, ok) /\ ReleaseLock(t)
    BY <1>9 DEF AwaitedReturns
  <2> HIDE DEF ok
  <2>5. UNCHANGED <<env, status, marker, produced>>
    BY <1>9 DEF AwaitedReturns
  <2> QED
    BY <2>1, <2>2, <2>3, <2>4, <2>5, OutcomeType, ReleaseType
<1>10. ASSUME NEW t \in Tasks, NEW s \in Slots, ThreadStarts(t, s) PROVE TypeOK'
  <2>1. PICK todo \in Scopes(t) :
          threads' = [threads EXCEPT ![s] =
                        [IdleThread EXCEPT !.task = t, !.todo = todo, !.stage = "loop"]]
    BY <1>10 DEF ThreadStarts
  <2>2. threads' \in [Slots -> Thread]
    BY <2>1, ScopesType, StartUpdate
  <2>3. awaiting' \in {NoRun, Gate, Queued} \cup Slots
    BY <1>10 DEF ThreadStarts
  <2> QED
    BY <1>10, <2>2, <2>3 DEF ThreadStarts
<1>11. ASSUME NEW s \in Slots, NEW p \in Profiles, SkipProfile(s, p) \/ BeginProfile(s, p)
       PROVE TypeOK'
  <2>1. threads[s] \in Thread
    OBVIOUS
  <2>2. ASSUME SkipProfile(s, p) PROVE threads' \in [Slots -> Thread]
    <3>1. Wanted(threads[s].task, p) \in BOOLEAN
      BY DEF Wanted
    <3> QED
      BY <2>1, <2>2, <3>1, SkipUpdate DEF SkipProfile
  <2>3. ASSUME BeginProfile(s, p) PROVE threads' \in [Slots -> Thread]
    BY <2>1, <2>3, WorkUpdate DEF BeginProfile
  <2> QED
    BY <1>11, <2>2, <2>3 DEF SkipProfile, BeginProfile
<1>12. ASSUME NEW s \in Slots, WorkSucceeds(s) \/ WorkUnverified(s) PROVE TypeOK'
  <2>1. [threads[s] EXCEPT !.stage = "mark"] \in Thread
    BY MarkUpdate
  <2>2. threads' \in [Slots -> Thread]
    BY <1>12, <2>1, LoopType DEF WorkSucceeds, WorkUnverified
  <2>3. produced' \in [Tasks -> [Profiles -> BOOLEAN]]
    <3>1. CASE WorkUnverified(s)
      BY <3>1 DEF WorkUnverified
    <3>2. CASE WorkSucceeds(s)
      <4>1. produced' = [produced EXCEPT ![threads[s].task][threads[s].profile] = TRUE]
        BY <3>2 DEF WorkSucceeds
      <4> QED
        BY <4>1, ProducedUpdate
    <3> QED
      BY <1>12, <3>1, <3>2
  <2> QED
    BY <1>12, <2>2, <2>3 DEF WorkSucceeds, WorkUnverified
<1>13. ASSUME NEW s \in Slots, WorkFails(s) \/ WorkInVain(s) \/ MarkFails(s) PROVE TypeOK'
  <2>1. threads' \in [Slots -> Thread]
    BY <1>13, LoopType DEF WorkFails, WorkInVain, MarkFails
  <2> QED
    BY <1>13, <2>1 DEF WorkFails, WorkInVain, MarkFails
<1>14. ASSUME NEW s \in Slots, MarkDone(s) PROVE TypeOK'
  <2>1. threads' \in [Slots -> Thread]
    BY <1>14, LoopType DEF MarkDone
  <2> QED
    BY <1>14, <2>1 DEF MarkDone
<1>15. ASSUME NEW s \in Slots, OrphanEnds(s) PROVE TypeOK'
  BY <1>15, IdleType DEF OrphanEnds
<1>16. CASE Stop \/ LeaveLoop \/ Boot
  BY <1>16 DEF Stop, LeaveLoop, Boot
<1>17. CASE ProcessEnds
  BY <1>17, IdleType DEF ProcessEnds
<1>18. ASSUME NEW t \in Tasks, CancelRun(t) PROVE TypeOK'
  BY <1>18 DEF CancelRun
<1>19. CASE UNCHANGED vars
  BY <1>19 DEF vars
<1> QED
  BY <1>1, <1>2, <1>3, <1>4, <1>5, <1>6, <1>7, <1>8, <1>9, <1>10, <1>11, <1>12, <1>13,
     <1>14, <1>15, <1>16, <1>17, <1>18, <1>19
     DEF Next, LoopStep, EndRun, ThreadStep, ProfileStep, LifecycleStep
-----------------------------------------------------------------------------
(* The lock.                                                               *)

LEMMA RunStep ==
  ASSUME TypeOK, RunInv, [Next]_vars
  PROVE  RunInv'
<1> USE DEF TypeOK, RunInv, LockMatchesRun, env, breaker, run, mem, disk, hist
<1>1. CASE ClockTick \/ Stop \/ Boot \/ UNCHANGED vars
  BY <1>1 DEF ClockTick, Stop, Boot, vars
<1>8. CASE Tick \/ LeaveLoop
  <2>1. \A t \in Tasks : ~locked[t]
    BY <1>8 DEF Tick, LeaveLoop, Tasks
  <2> QED
    BY <1>8, <2>1 DEF Tick, LeaveLoop, Tasks
<1>7. CASE ProcessEnds
  BY <1>7 DEF ProcessEnds
<1>2. ASSUME NEW t \in Tasks,
             SkipDisabled(t) \/ SkipPaused(t) \/ SkipCoolingOrLocked(t) \/ StartRun(t)
      PROVE  RunInv'
  BY <1>2 DEF SkipDisabled, SkipPaused, SkipCoolingOrLocked, StartRun, AtTask
<1>3. ASSUME NEW t \in Tasks, EndRun(t) PROVE RunInv'
  <2>1. Running(t) /\ ReleaseLock(t)
    BY <1>3 DEF EndRun, DeclineRun, FailAtGate, TimeOut, AwaitedReturns
  <2> QED
    BY <2>1 DEF Running, ReleaseLock
<1>4. ASSUME NEW t \in Tasks, Submit(t) \/ \E s \in Slots : ThreadStarts(t, s)
      PROVE  RunInv'
  <2>1. \A s \in Slots : s # NoRun
    BY DEF Slots
  <2>2. Running(t) /\ UNCHANGED <<pos, locked>>
    BY <1>4 DEF Submit, ThreadStarts
  <2>3. CASE Submit(t)
    BY <2>2, <2>3 DEF Submit, Running
  <2>4. ASSUME NEW s \in Slots, ThreadStarts(t, s) PROVE RunInv'
    <3>1. awaiting' # NoRun
      BY <2>1, <2>4 DEF ThreadStarts
    <3> QED
      BY <2>2, <3>1 DEF Running
  <2> QED
    BY <1>4, <2>3, <2>4
<1>5. ASSUME NEW t \in Tasks, CancelRun(t) PROVE RunInv'
  BY <1>5 DEF CancelRun, Running
<1>6. ASSUME NEW s \in Slots, ProfileStep(s) PROVE RunInv'
  BY <1>6 DEF ProfileStep, SkipProfile, BeginProfile, WorkSucceeds, WorkFails,
              WorkInVain, WorkUnverified, MarkDone, MarkFails, OrphanEnds
<1> QED
  BY <1>1, <1>2, <1>3, <1>4, <1>5, <1>6, <1>7, <1>8
     DEF Next, LoopStep, ThreadStep, LifecycleStep

-----------------------------------------------------------------------------
(* The circuit breaker.                                                    *)

(* A run that ends, whatever its outcome, leaves the breaker consistent.   *)
LEMMA OutcomeKeepsBreaker ==
  ASSUME TypeOK, BreakerInv, NEW t \in Tasks, NEW ok, RecordOutcome(t, ok), locked[t],
         locked' = [locked EXCEPT ![t] = FALSE], UNCHANGED today
  PROVE  BreakerInv'
<1>1. openedOn[t] = NoDay /\ streak[t] < MaxFailures /\ alerts[t] = 0
  BY DEF BreakerInv
<1>2. ASSUME NEW u \in Tasks, u # t
      PROVE  /\ streak'[u] = streak[u] /\ openedOn'[u] = openedOn[u]
             /\ alerts'[u] = alerts[u] /\ burn'[u] = burn[u] /\ locked'[u] = locked[u]
  BY <1>2 DEF TypeOK, RecordOutcome
<1>3. /\ streak'[t] = IF ok THEN 0 ELSE streak[t] + 1
      /\ openedOn'[t] = IF ~ok /\ streak[t] + 1 >= MaxFailures THEN today ELSE NoDay
      /\ alerts'[t] = IF ~ok /\ streak[t] + 1 >= MaxFailures THEN 1 ELSE 0
      /\ burn'[t] = IF ok THEN 0 ELSE burn[t] + 1
      /\ ~locked'[t]
  BY <1>1 DEF TypeOK, RecordOutcome
<1> QED
  BY <1>1, <1>2, <1>3 DEF TypeOK, BreakerInv

LEMMA BreakerStep ==
  ASSUME TypeOK, RunInv, BreakerInv, [Next]_vars
  PROVE  BreakerInv'
<1> USE DEF TypeOK, env, breaker, run, mem, disk, hist
<1>1. CASE ClockTick
  BY <1>1 DEF ClockTick, BreakerInv
<1>2. CASE Tick \/ Stop \/ LeaveLoop \/ Boot \/ UNCHANGED vars
  BY <1>2 DEF Tick, Stop, LeaveLoop, Boot, vars, BreakerInv
<1>3. CASE ProcessEnds
  BY <1>3 DEF ProcessEnds, BreakerInv
<1>4. ASSUME NEW t \in Tasks, SkipDisabled(t) \/ SkipPaused(t) PROVE BreakerInv'
  BY <1>4 DEF SkipDisabled, SkipPaused, BreakerInv
<1>5. ASSUME NEW t \in Tasks, SkipCoolingOrLocked(t) \/ StartRun(t) PROVE BreakerInv'
  <2>1. /\ ~CircuitOpen(t) /\ CloseStaleCircuit(t)
        /\ UNCHANGED <<today, burn, alerts>>
        /\ locked' = locked \/ locked' = [locked EXCEPT ![t] = TRUE]
    BY <1>5 DEF SkipCoolingOrLocked, StartRun
  <2>2. ASSUME NEW u \in Tasks, u # t
        PROVE  streak'[u] = streak[u] /\ openedOn'[u] = openedOn[u] /\ locked'[u] = locked[u]
    BY <2>1, <2>2 DEF CloseStaleCircuit
  <2>3. /\ openedOn'[t] = NoDay /\ alerts[t] = 0
        /\ streak'[t] = IF openedOn[t] # NoDay THEN 0 ELSE streak[t]
    BY <2>1 DEF CloseStaleCircuit, CircuitOpen, BreakerInv
  <2> QED
    BY <2>1, <2>2, <2>3 DEF BreakerInv, CircuitOpen
<1>6. ASSUME NEW t \in Tasks, EndRun(t) PROVE BreakerInv'
  <2>1. locked[t]
    BY <1>6 DEF EndRun, DeclineRun, FailAtGate, TimeOut, AwaitedReturns, Running, RunInv, LockMatchesRun
  <2>2. PICK ok : RecordOutcome(t, ok)
    BY <1>6 DEF EndRun, DeclineRun, FailAtGate, TimeOut, AwaitedReturns, TotalFailure
  <2>3. locked' = [locked EXCEPT ![t] = FALSE] /\ UNCHANGED today
    BY <1>6 DEF EndRun, DeclineRun, FailAtGate, TimeOut, AwaitedReturns, ReleaseLock
  <2> QED
    BY <2>1, <2>2, <2>3, OutcomeKeepsBreaker
<1>7. ASSUME NEW t \in Tasks,
             Submit(t) \/ CancelRun(t) \/ \E s \in Slots : ThreadStarts(t, s)
      PROVE  BreakerInv'
  BY <1>7, ZenonT(60) DEF Submit, ThreadStarts, CancelRun, BreakerInv
<1>8. ASSUME NEW s \in Slots, ProfileStep(s) PROVE BreakerInv'
  BY <1>8 DEF ProfileStep, SkipProfile, BeginProfile, WorkSucceeds, WorkFails,
              WorkInVain, WorkUnverified, MarkDone, MarkFails, OrphanEnds, BreakerInv
<1> QED
  BY <1>1, <1>2, <1>3, <1>4, <1>5, <1>6, <1>7, <1>8
     DEF Next, LoopStep, ThreadStep, LifecycleStep
-----------------------------------------------------------------------------
(* Worker threads and daily markers.                                       *)

LEMMA ThreadStepInv ==
  ASSUME TypeOK, ThreadInv, [Next]_vars
  PROVE  ThreadInv'
<1> USE DEF TypeOK, ThreadInv, env, breaker, run, mem, disk, hist
<1>1. CASE ClockTick \/ Tick \/ Stop \/ LeaveLoop \/ Boot \/ UNCHANGED vars
  BY <1>1 DEF ClockTick, Tick, Stop, LeaveLoop, Boot, vars
<1>2. CASE ProcessEnds
  BY <1>2 DEF ProcessEnds, IdleThread
<1>3. ASSUME NEW t \in Tasks,
             \/ SkipDisabled(t) \/ SkipPaused(t) \/ SkipCoolingOrLocked(t) \/ StartRun(t)
             \/ Submit(t) \/ CancelRun(t)
      PROVE  ThreadInv'
  BY <1>3 DEF SkipDisabled, SkipPaused, SkipCoolingOrLocked, StartRun, Submit, CancelRun,
              AtTask, Running
<1>4. ASSUME NEW t \in Tasks, DeclineRun(t) \/ FailAtGate(t) \/ TimeOut(t)
      PROVE  ThreadInv'
  BY <1>4 DEF DeclineRun, FailAtGate, TimeOut, ReleaseLock
<1>5. ASSUME NEW t \in Tasks, NEW s \in Slots, AwaitedReturns(t, s) PROVE ThreadInv'
  BY <1>5 DEF AwaitedReturns, ReleaseLock, IdleThread
<1>6. ASSUME NEW t \in Tasks, NEW s \in Slots, ThreadStarts(t, s) PROVE ThreadInv'
  <2>1. PICK todo :
          threads' = [threads EXCEPT ![s] =
                        [IdleThread EXCEPT !.task = t, !.todo = todo, !.stage = "loop"]]
    BY <1>6 DEF ThreadStarts
  <2>2. UNCHANGED produced
    BY <1>6 DEF ThreadStarts
  <2> QED
    BY <2>1, <2>2 DEF IdleThread
<1>7. ASSUME NEW s \in Slots, NEW p \in Profiles, SkipProfile(s, p) \/ BeginProfile(s, p)
      PROVE  ThreadInv'
  <2>1. threads[s] \in Thread /\ threads[s].stage = "loop"
    BY <1>7 DEF SkipProfile, BeginProfile
  <2>2. /\ threads'[s].task = threads[s].task
        /\ threads'[s].stage \in {"loop", "work"}
        /\ threads'[s].stage = "work" => threads'[s].profile = p
    BY <1>7, <2>1 DEF SkipProfile, BeginProfile, Thread
  <2>3. \A r \in Slots : r # s => threads'[r] = threads[r]
    BY <1>7 DEF SkipProfile, BeginProfile
  <2> QED
    BY <1>7, <2>1, <2>2, <2>3 DEF SkipProfile, BeginProfile
<1>8. ASSUME NEW s \in Slots, WorkSucceeds(s) PROVE ThreadInv'
  BY <1>8 DEF WorkSucceeds, Thread
<1>9. ASSUME NEW s \in Slots, WorkUnverified(s) PROVE ThreadInv'
  <2>1. /\ threads[s] \in Thread /\ threads[s].task \in Tasks \ Verified
        /\ threads[s].profile \in Profiles
    BY <1>9 DEF WorkUnverified
  <2>2. threads'[s].task = threads[s].task
    BY <1>9, <2>1 DEF WorkUnverified, BackToLoop, Thread
  <2>3. threads'[s].stage = "loop" \/ threads'[s].profile = threads[s].profile
    BY <1>9, <2>1 DEF WorkUnverified, BackToLoop, Thread
  <2>4. \A r \in Slots : r # s => threads'[r] = threads[r]
    BY <1>9 DEF WorkUnverified, BackToLoop
  <2>5. UNCHANGED produced
    BY <1>9 DEF WorkUnverified
  <2> QED
    BY <2>1, <2>2, <2>3, <2>4, <2>5
<1>10. ASSUME NEW s \in Slots, WorkFails(s) \/ WorkInVain(s) \/ MarkFails(s) \/ MarkDone(s)
       PROVE  ThreadInv'
  <2>1. threads[s] \in Thread /\ threads[s].stage \in {"work", "mark"}
    BY <1>10 DEF WorkFails, WorkInVain, MarkFails, MarkDone
  <2>2. PICK ok \in BOOLEAN : BackToLoop(s, ok)
    BY <1>10 DEF WorkFails, WorkInVain, MarkFails, MarkDone
  <2>3. /\ threads'[s].task = threads[s].task
        /\ threads'[s].stage = "loop"
    BY <2>1, <2>2 DEF BackToLoop, Thread
  <2>4. \A r \in Slots : r # s => threads'[r] = threads[r]
    BY <2>2 DEF BackToLoop
  <2>5. UNCHANGED produced
    BY <1>10 DEF WorkFails, WorkInVain, MarkFails, MarkDone
  <2> QED
    BY <2>1, <2>3, <2>4, <2>5
<1>11. ASSUME NEW s \in Slots, OrphanEnds(s) PROVE ThreadInv'
  BY <1>11 DEF OrphanEnds, IdleThread
<1> QED
  BY <1>1, <1>2, <1>3, <1>4, <1>5, <1>6, <1>7, <1>8, <1>9, <1>10, <1>11
     DEF Next, LoopStep, EndRun, ThreadStep, ProfileStep, LifecycleStep

LEMMA MarkedStep ==
  ASSUME TypeOK, ThreadInv, MarkedMeansProduced, [Next]_vars
  PROVE  MarkedMeansProduced'
<1> USE DEF TypeOK, MarkedMeansProduced, env, breaker, run, mem, disk, hist
<1>1. CASE UNCHANGED <<marker, produced>>
  BY <1>1
<1>2. ASSUME NEW s \in Slots, WorkSucceeds(s) PROVE MarkedMeansProduced'
  BY <1>2 DEF WorkSucceeds, ThreadInv, Thread
<1>3. ASSUME NEW s \in Slots, MarkDone(s) PROVE MarkedMeansProduced'
  BY <1>3 DEF MarkDone, ThreadInv, Thread
<1>4. UNCHANGED <<marker, produced>> \/ \E s \in Slots : WorkSucceeds(s) \/ MarkDone(s)
  BY ZenonT(60) DEF Next, LoopStep, EndRun, ThreadStep, ProfileStep, LifecycleStep, ClockTick, Tick,
         Stop, LeaveLoop, Boot, ProcessEnds, CancelRun, SkipDisabled, SkipPaused,
         SkipCoolingOrLocked, StartRun, Submit, DeclineRun, FailAtGate, TimeOut,
         AwaitedReturns, ThreadStarts, SkipProfile, BeginProfile, WorkFails,
         WorkInVain, WorkUnverified, MarkFails, OrphanEnds, vars
<1> QED
  BY <1>1, <1>2, <1>3, <1>4

-----------------------------------------------------------------------------
LEMMA InitIInv == Init => IInv
<1> SUFFICES ASSUME Init PROVE IInv
  OBVIOUS
<1>1. TypeOK
  BY IdleType DEF Init, TypeOK
<1> QED
  BY <1>1 DEF Init, IInv, RunInv, LockMatchesRun, BreakerInv, ThreadInv, IdleThread,
              MarkedMeansProduced, Tasks

LEMMA StepIInv == IInv /\ [Next]_vars => IInv'
  BY TypeStep, RunStep, BreakerStep, ThreadStepInv, MarkedStep DEF IInv, RunInv

(* The strengthening is inductive: it holds of every reachable state.      *)
THEOREM SchedulerInvariant == Spec => []IInv
  BY InitIInv, StepIInv, PTL DEF Spec

(* Every variable keeps its type, for all constants.                       *)
THEOREM TypeCorrect == Spec => []TypeOK
<1>1. IInv => TypeOK
  BY DEF IInv
<1> QED
  BY <1>1, SchedulerInvariant, PTL

(* However a run ends, the engine's lock is free again.                    *)
THEOREM LockCorrect == Spec => []LockMatchesRun
<1>1. IInv => LockMatchesRun
  BY DEF IInv, RunInv
<1> QED
  BY <1>1, SchedulerInvariant, PTL

(* No task fails more than MaxFailures times a day without a success or a  *)
(* restart in between: the retry storm the breaker is there to stop.       *)
THEOREM BreakerCorrect == Spec => []RetryStormBounded
<1>1. IInv => RetryStormBounded
  BY DEF IInv, TypeOK, BreakerInv, RetryStormBounded
<1> QED
  BY <1>1, SchedulerInvariant, PTL

(* A process raises one pause alert per task and day, never two, and none  *)
(* is missing for a paused task.                                           *)
THEOREM PauseAlertCorrect == Spec => []OneAlertPerPause
<1>1. IInv => OneAlertPerPause
  BY DEF IInv, TypeOK, BreakerInv, OneAlertPerPause, CircuitOpen
<1> QED
  BY <1>1, SchedulerInvariant, PTL

(* A verified task never writes off a profile whose output does not exist. *)
THEOREM MarkerCorrect == Spec => []MarkedMeansProduced
<1>1. IInv => MarkedMeansProduced
  BY DEF IInv
<1> QED
  BY <1>1, SchedulerInvariant, PTL

-----------------------------------------------------------------------------
(* The scheduler with its heartbeat.  The monitor only observes: its steps  *)
(* are steps of the scheduler, so the scheduler's invariants carry over, and *)
(* the reporting window follows from them.                                  *)

WindowInv == MonitorTypeOK /\ WindowMatchesRun

-----------------------------------------------------------------------------
(* The monitor's steps are the scheduler's.                                 *)
LEMMA MonitorObserves == [MonitorNext]_mvars => [Next]_vars
<1> SUFFICES ASSUME [MonitorNext]_mvars PROVE [Next]_vars
  OBVIOUS
<1> USE DEF Next, LoopStep, EndRun, ThreadStep, ProfileStep, LifecycleStep
<1>1. CASE Unmonitored
  BY <1>1 DEF Unmonitored
<1>2. ASSUME NEW t \in Tasks,
             \/ MStartRun(t) \/ MDeclineRun(t) \/ MFailAtGate(t) \/ MTimeOut(t) \/ MCancelRun(t)
             \/ \E s \in Slots : MAwaitedReturns(t, s)
      PROVE  Next
  BY <1>2 DEF MStartRun, MDeclineRun, MFailAtGate, MTimeOut, MCancelRun, MAwaitedReturns
<1>3. CASE (\E s \in Slots : MWorkUnverified(s)) \/ MProcessEnds
  BY <1>3 DEF MWorkUnverified, MProcessEnds
<1>4. CASE UNCHANGED mvars
  BY <1>4 DEF mvars
<1> QED
  BY <1>1, <1>2, <1>3, <1>4 DEF MonitorNext

(* Composing the scheduler with the heartbeat takes no behaviour of its own: *)
(* whatever holds of the scheduler alone holds of the monitored one.        *)
THEOREM MonitorRefines == MonitorSpec => Spec
<1>1. MonitorInit => Init
  BY DEF MonitorInit
<1> QED
  BY <1>1, MonitorObserves, PTL DEF MonitorSpec, Spec

-----------------------------------------------------------------------------
(* What the heartbeat's operators do to the window and to the store.        *)

LEMMA EngineType == NoEngine \notin Tasks
  BY DEF NoEngine, Tasks

LEMMA ClosedType == HB!Closed \in [engine : Tasks \cup {NoEngine}, reported : BOOLEAN,
                                   some : BOOLEAN, skipped : BOOLEAN]
  BY DEF HB!Closed

LEMMA OpenedType ==
  ASSUME NEW t \in Tasks
  PROVE  /\ HB!Opened(t) \in [engine : Tasks \cup {NoEngine}, reported : BOOLEAN,
                              some : BOOLEAN, skipped : BOOLEAN]
         /\ HB!Opened(t).engine = t
  BY DEF HB!Opened, HB!Closed

LEMMA ReportKeepsEngine ==
  ASSUME MonitorTypeOK, NEW some \in BOOLEAN
  PROVE  /\ HB!Produced(window, some) \in [engine : Tasks \cup {NoEngine}, reported : BOOLEAN,
                                           some : BOOLEAN, skipped : BOOLEAN]
         /\ HB!Produced(window, some).engine = window.engine
         /\ HB!Declined(window) \in [engine : Tasks \cup {NoEngine}, reported : BOOLEAN,
                                     some : BOOLEAN, skipped : BOOLEAN]
  BY DEF MonitorTypeOK, HB!TypeOK, HB!Produced, HB!Declined

(* A recorded run leaves the window closed and the store well typed.        *)
LEMMA RecordType ==
  ASSUME MonitorTypeOK, NEW t \in Tasks, NEW status_ \in {"ok", "error", "timeout"},
         NEW w \in [engine : Tasks \cup {NoEngine}, reported : BOOLEAN,
                    some : BOOLEAN, skipped : BOOLEAN],
         HB!RecordRun(t, w, status_)
  PROVE  MonitorTypeOK' /\ window'.engine = NoEngine
<1>1. window' = HB!Closed
  BY DEF HB!RecordRun
<1>2. HB!Folded(beat[t], w, t, status_) \in
        [last : {"never", "ok", "skipped", "error", "timeout"}, idle : 0..IdleThreshold,
         ever : BOOLEAN]
  <2> DEFINE rec == beat[t]
             own == IF w.engine = t THEN w ELSE HB!Closed
             last == IF status_ = "ok" /\ own.skipped THEN "skipped" ELSE status_
             judged == last = "ok" /\ own.reported
             next == IF rec.idle < IdleThreshold THEN rec.idle + 1 ELSE rec.idle
  <2>1. rec \in [last : {"never", "ok", "skipped", "error", "timeout"}, idle : 0..IdleThreshold,
                 ever : BOOLEAN]
    BY DEF MonitorTypeOK, HB!TypeOK
  <2>2. own \in [engine : Tasks \cup {NoEngine}, reported : BOOLEAN,
                 some : BOOLEAN, skipped : BOOLEAN]
    BY ClosedType
  <2>3. last \in {"never", "ok", "skipped", "error", "timeout"} /\ judged \in BOOLEAN
    BY <2>2
  <2>4. next \in 0..IdleThreshold /\ 0 \in 0..IdleThreshold
    BY <2>1, MonitorAssumption
  <2>5. (IF ~judged THEN rec.idle ELSE IF own.some THEN 0 ELSE next) \in 0..IdleThreshold
    BY <2>1, <2>4
  <2>6. (rec.ever \/ (judged /\ own.some)) \in BOOLEAN
    OBVIOUS
  <2> HIDE DEF rec, own, last, judged, next
  <2> QED
    BY <2>3, <2>5, <2>6 DEF HB!Folded, rec, own, last, judged, next
<1>3. beat' \in [Tasks -> [last : {"never", "ok", "skipped", "error", "timeout"},
                           idle : 0..IdleThreshold, ever : BOOLEAN]]
  BY <1>2 DEF HB!RecordRun, MonitorTypeOK, HB!TypeOK
<1> QED
  BY <1>1, <1>3, ClosedType DEF MonitorTypeOK, HB!TypeOK, HB!Closed

-----------------------------------------------------------------------------
(* The window.                                                              *)

(* A run that ends leaves nobody awaited.                                   *)
LEMMA EndsAwaitNone ==
  ASSUME NEW t \in Tasks,
         \/ MDeclineRun(t) \/ MFailAtGate(t) \/ MTimeOut(t) \/ MCancelRun(t)
         \/ \E s \in Slots : MAwaitedReturns(t, s)
  PROVE  awaiting' = NoRun
  BY DEF MDeclineRun, MFailAtGate, MTimeOut, MCancelRun, MAwaitedReturns, DeclineRun, FailAtGate,
         TimeOut, CancelRun, AwaitedReturns, ReleaseLock

LEMMA EndRecords ==
  ASSUME MonitorTypeOK, NEW t \in Tasks,
         \/ MDeclineRun(t) \/ MFailAtGate(t) \/ MTimeOut(t) \/ MCancelRun(t)
         \/ \E s \in Slots : MAwaitedReturns(t, s)
  PROVE  MonitorTypeOK' /\ window'.engine = NoEngine
<1> DEFINE W == [engine : Tasks \cup {NoEngine}, reported : BOOLEAN,
                 some : BOOLEAN, skipped : BOOLEAN]
<1>1. window \in W /\ HB!Declined(window) \in W /\ HB!Produced(window, TRUE) \in W
        /\ HB!Produced(window, FALSE) \in W
  BY ReportKeepsEngine DEF MonitorTypeOK, HB!TypeOK
<1>2. Reports(t) \subseteq W
  BY <1>1 DEF Reports
<1> HIDE DEF W
<1>3. \E w \in W, st \in {"ok", "error", "timeout"} : HB!RecordRun(t, w, st)
  BY <1>1, <1>2 DEF MDeclineRun, MFailAtGate, MTimeOut, MCancelRun, MAwaitedReturns
<1> QED
  BY <1>3, RecordType DEF W

LEMMA WindowStep == IInv /\ WindowInv /\ [MonitorNext]_mvars => WindowInv'
<1> SUFFICES ASSUME IInv, WindowInv, [MonitorNext]_mvars PROVE WindowInv'
  OBVIOUS
<1> USE DEF WindowInv
<1>1. CASE Unmonitored /\ UNCHANGED monitor
  <2>1. MonitorTypeOK' /\ window' = window
    BY <1>1 DEF monitor, MonitorTypeOK, HB!TypeOK
  <2>2. \A t \in Tasks : (awaiting # NoRun /\ pos = t) <=> (awaiting # NoRun /\ pos = t)'
    <3> USE DEF IInv, RunInv, env, breaker, run, mem, disk, hist
    <3>1. CASE ClockTick \/ Stop \/ Boot
      BY <3>1 DEF ClockTick, Stop, Boot
    <3>2. CASE Tick \/ LeaveLoop
      BY <3>2 DEF Tick, LeaveLoop, Tasks
    <3>3. ASSUME NEW t \in Tasks, SkipDisabled(t) \/ SkipPaused(t) \/ SkipCoolingOrLocked(t)
          PROVE  \A u \in Tasks : (awaiting # NoRun /\ pos = u) <=> (awaiting # NoRun /\ pos = u)'
      BY <3>3 DEF SkipDisabled, SkipPaused, SkipCoolingOrLocked, AtTask
    <3>4. ASSUME NEW t \in Tasks, Submit(t) \/ \E s \in Slots : ThreadStarts(t, s)
          PROVE  \A u \in Tasks : (awaiting # NoRun /\ pos = u) <=> (awaiting # NoRun /\ pos = u)'
      <4>1. \A s \in Slots : s # NoRun
        BY DEF Slots, NoRun
      <4>2. Queued # NoRun
        BY DEF Queued, NoRun
      <4> QED
        BY <3>4, <4>1, <4>2 DEF Submit, ThreadStarts, Running
    <3>5. ASSUME NEW s \in Slots,
                 \/ \E p \in Profiles : SkipProfile(s, p) \/ BeginProfile(s, p)
                 \/ WorkSucceeds(s) \/ WorkFails(s) \/ WorkInVain(s)
                 \/ MarkDone(s) \/ MarkFails(s) \/ OrphanEnds(s)
          PROVE  UNCHANGED <<awaiting, pos>>
      BY <3>5 DEF SkipProfile, BeginProfile, WorkSucceeds, WorkFails, WorkInVain,
                  MarkDone, MarkFails, OrphanEnds
    <3> QED
      BY <1>1, <3>1, <3>2, <3>3, <3>4, <3>5 DEF Unmonitored
  <2> QED
    BY <2>1, <2>2 DEF WindowMatchesRun
<1>2. ASSUME NEW t \in Tasks, MStartRun(t) PROVE WindowInv'
  <2>1. MonitorTypeOK' /\ window'.engine = t
    BY <1>2, OpenedType DEF MStartRun, MonitorTypeOK, HB!TypeOK
  <2>2. awaiting' # NoRun /\ pos' = t
    BY <1>2 DEF MStartRun, StartRun, AtTask, Gate, NoRun
  <2> QED
    BY <2>1, <2>2 DEF WindowMatchesRun
<1>3. ASSUME NEW t \in Tasks,
             \/ MDeclineRun(t) \/ MFailAtGate(t) \/ MTimeOut(t) \/ MCancelRun(t)
             \/ \E s \in Slots : MAwaitedReturns(t, s)
      PROVE  WindowInv'
  BY <1>3, EndsAwaitNone, EndRecords, EngineType DEF WindowMatchesRun
<1>4. ASSUME NEW s \in Slots, MWorkUnverified(s) PROVE WindowInv'
  <2>1. UNCHANGED <<awaiting, pos>>
    BY <1>4 DEF MWorkUnverified, WorkUnverified, mem, run
  <2>2. MonitorTypeOK' /\ window'.engine = window.engine
    BY <1>4, ReportKeepsEngine DEF MWorkUnverified, MonitorTypeOK, HB!TypeOK
  <2> QED
    BY <2>1, <2>2 DEF WindowMatchesRun
<1>5. CASE MProcessEnds
  <2>1. MonitorTypeOK' /\ window'.engine = NoEngine
    BY <1>5, ClosedType DEF MProcessEnds, MonitorTypeOK, HB!TypeOK, HB!Closed
  <2>2. awaiting' = NoRun
    BY <1>5 DEF MProcessEnds, ProcessEnds
  <2> QED
    BY <2>1, <2>2, EngineType DEF WindowMatchesRun
<1>6. CASE UNCHANGED mvars
  BY <1>6 DEF mvars, monitor, vars, mem, run, MonitorTypeOK, HB!TypeOK, WindowMatchesRun
<1> QED
  BY <1>1, <1>2, <1>3, <1>4, <1>5, <1>6 DEF MonitorNext

LEMMA InitWindow == MonitorInit => WindowInv
<1> SUFFICES ASSUME MonitorInit PROVE WindowInv
  OBVIOUS
<1>1. MonitorTypeOK
  BY ClosedType, MonitorAssumption DEF MonitorInit, MonitorTypeOK, HB!TypeOK, HB!Init, HB!Unseen
<1>2. WindowMatchesRun
  BY EngineType DEF MonitorInit, HB!Init, HB!Closed, Init, WindowMatchesRun
<1> QED
  BY <1>1, <1>2 DEF WindowInv

(* However a run ends, the reporting window is closed with it, and it is     *)
(* open for no engine but the awaited one.                                   *)
THEOREM WindowCorrect == MonitorSpec => []WindowMatchesRun
<1>1. MonitorSpec => []IInv
  BY MonitorRefines, SchedulerInvariant, PTL
<1>2. MonitorSpec => []WindowInv
  BY <1>1, InitWindow, WindowStep, PTL DEF MonitorSpec
<1>3. WindowInv => WindowMatchesRun
  BY DEF WindowInv
<1> QED
  BY <1>2, <1>3, PTL
=============================================================================
