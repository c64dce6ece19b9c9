------------------------------ MODULE Watchdog ------------------------------
(* scripts/cairniq_watchdog.py: the external watchdog, a script that launchd *)
(* runs every two minutes, beside the server it looks after.  It takes the   *)
(* server down when it runs away, starts it again when it lies dormant, and  *)
(* reports a server that launchd does not own.                               *)
(*                                                                           *)
(* launchd, the server processes and the operator go on between any two      *)
(* looks of the watchdog.  A run of the watchdog reads its state file first  *)
(* and writes it last; it may be killed, and launchctl, lsof and the file    *)
(* may fail it, MaxFaults times.                                             *)
EXTENDS Naturals

CONSTANTS
    DownConfirmations,   \* DOWN_CONFIRMATIONS: looks that find the job idle before it is started
    MaxTries,            \* REVIVE_MAX_TRIES: kickstarts before the watchdog only alerts
    MaxRestarts,         \* AIDLC_WATCHDOG_MAX_RESTARTS: starts between two looks that are a storm
    Toggles,             \* the settings of the environment to try: records of Setting
    MaxFaults            \* bound on the faults of one behaviour

Setting == [kill : BOOLEAN, revive : BOOLEAN, adopt : BOOLEAN]

ASSUME WatchdogAssumption ==
    /\ DownConfirmations \in Nat \ {0} /\ MaxTries \in Nat /\ MaxRestarts \in Nat \ {0}
    /\ MaxFaults \in Nat /\ Toggles \subseteq Setting

VARIABLES
    job,      \* launchd's job com.cairniq.server and its process
    foreign,  \* a server started outside launchd
    lines,    \* "Started server process" lines since the last look, at most MaxRestarts
    runaway,  \* llm_budget.json: the usage of this hour or day exceeds a hard cap
    disk,     \* .watchdog_state.json
    wd,       \* the running watchdog: where it is, its copy of the state, what it read
    env,      \* AIDLC_WATCHDOG_AUTOKILL, _AUTOREVIVE, _ADOPT_ORPHAN
    faults,   \* faults so far
    kicks,    \* history: kickstarts since a look last found the port served
    recent,   \* history: kickstarts within the last REVIVE_COOLDOWN_S (at most 2 told apart)
    lost      \* history: the findings of some run have not been saved

world == <<job, foreign, lines, runaway>>
history == <<kicks, recent, lost>>
vars == <<world, disk, wd, env, faults, history>>

Running == {"launched", "starting", "serving"}
Jobs == {"unloaded", "idle", "due"} \cup Running   \* due: launchd is about to respawn it

State == [disabled : BOOLEAN,              \* disabled_at is set
          counted : BOOLEAN,               \* "starts" is known
          down : 0..DownConfirmations,     \* down_checks
          tries : 0..MaxTries,             \* revive_tries
          gaveUp : BOOLEAN,                \* gave_up_alerted
          orphan : BOOLEAN,                \* orphan_alerted
          cool : BOOLEAN]                  \* last_revive is less than REVIVE_COOLDOWN_S ago
Blank == [disabled |-> FALSE, counted |-> FALSE, down |-> 0, tries |-> 0,
          gaveUp |-> FALSE, orphan |-> FALSE, cool |-> FALSE]

(* pid: what launchd said of the job; a process that has ended since is gone *)
Look == [pc : {"asleep", "disable", "probe", "owner", "listener", "adopt", "job", "kick", "save"},
         mem : State, counted : 0..MaxRestarts,
         pid : {"unloaded", "none", "live", "gone"},
         listener : {"none", "job", "foreign", "gone"}]
Asleep == [pc |-> "asleep", mem |-> Blank, counted |-> 0, pid |-> "none", listener |-> "none"]

Init == /\ job \in {"unloaded", "launched"} /\ foreign = "none"
        /\ lines = 0 /\ runaway = FALSE
        /\ disk = Blank /\ wd = Asleep /\ env \in Toggles /\ faults = 0
        /\ kicks = 0 /\ recent = 0 /\ lost = FALSE

PortOpen == job = "serving" \/ foreign = "serving"
Capped(n, cap) == IF n > cap THEN cap ELSE n

Fault == faults < MaxFaults /\ faults' = faults + 1
NoFault == UNCHANGED faults

-----------------------------------------------------------------------------
(* launchd, the servers, the operator, the time.                            *)

JobGone == wd' = [wd EXCEPT !.pid = IF @ = "live" THEN "gone" ELSE @,
                            !.listener = IF @ = "job" THEN "gone" ELSE @]
ForeignGone == wd' = [wd EXCEPT !.listener = IF @ = "foreign" THEN "gone" ELSE @]

(* ThrottleInterval is over: a job that failed is started again.            *)
Respawn == /\ job = "due" /\ job' = "launched"
           /\ UNCHANGED <<foreign, lines, runaway, disk, wd, env, faults, history>>

(* The single-instance guard of server.py.                                  *)
PassGuard ==
    /\ job = "launched" /\ ~PortOpen /\ job' = "starting" /\ lines' = Capped(lines + 1, MaxRestarts)
    /\ UNCHANGED <<foreign, runaway, disk, wd, env, faults, history>>
StopAtGuard ==
    /\ job = "launched" /\ PortOpen /\ job' = "idle" /\ JobGone
    /\ UNCHANGED <<foreign, lines, runaway, disk, env, faults, history>>

Bind == /\ job = "starting"
        /\ IF foreign = "serving" THEN job' = "due" /\ JobGone ELSE job' = "serving" /\ UNCHANGED wd
        /\ UNCHANGED <<foreign, lines, runaway, disk, env, faults, history>>

(* KeepAlive {SuccessfulExit: false}.                                       *)
JobFails == /\ job \in Running /\ job' = "due" /\ JobGone
            /\ UNCHANGED <<foreign, lines, runaway, disk, env, faults, history>>
JobStops == /\ job \in {"starting", "serving"} /\ job' = "idle" /\ JobGone
            /\ UNCHANGED <<foreign, lines, runaway, disk, env, faults, history>>

(* A server outside launchd, past its own guard; it logs elsewhere.         *)
ForeignStarts == /\ foreign = "none" /\ ~PortOpen /\ foreign' = "starting"
                 /\ UNCHANGED <<job, lines, runaway, disk, wd, env, faults, history>>
ForeignBinds == /\ foreign = "starting"
                /\ foreign' = IF job = "serving" THEN "none" ELSE "serving"
                /\ UNCHANGED <<job, lines, runaway, disk, wd, env, faults, history>>
ForeignEnds == /\ foreign # "none" /\ foreign' = "none" /\ ForeignGone
               /\ UNCHANGED <<job, lines, runaway, disk, env, faults, history>>

(* launchctl bootstrap and bootout by hand.                                 *)
LoadByHand == /\ job = "unloaded" /\ job' = "launched"
              /\ UNCHANGED <<foreign, lines, runaway, disk, wd, env, faults, history>>
UnloadByHand == /\ job # "unloaded" /\ job' = "unloaded" /\ JobGone
                /\ UNCHANGED <<foreign, lines, runaway, disk, env, faults, history>>

(* record and _rolled: usage crosses a hard cap; its bucket rolls over.     *)
Overspend == /\ PortOpen /\ ~runaway /\ runaway' = TRUE
             /\ UNCHANGED <<job, foreign, lines, disk, wd, env, faults, history>>
RollOver == /\ runaway /\ runaway' = FALSE
            /\ UNCHANGED <<job, foreign, lines, disk, wd, env, faults, history>>

(* Ten minutes; the call they are counted from is over after thirty seconds. *)
CooldownEnds == /\ wd.pc # "kick"
                /\ disk.cool \/ wd.mem.cool \/ recent > 0
                /\ disk' = [disk EXCEPT !.cool = FALSE]
                /\ wd' = [wd EXCEPT !.mem.cool = FALSE]
                /\ recent' = 0
                /\ UNCHANGED <<world, env, faults, kicks, lost>>

World == \/ Respawn \/ PassGuard \/ StopAtGuard \/ Bind \/ JobFails \/ JobStops
         \/ ForeignStarts \/ ForeignBinds \/ ForeignEnds \/ LoadByHand \/ UnloadByHand \/ Overspend

-----------------------------------------------------------------------------
(* One run of the watchdog.                                                 *)

(* main: load the state, then the budget and the restart storm.             *)
Breach == runaway \/ (disk.counted /\ lines >= MaxRestarts)

Wake ==
    /\ wd.pc = "asleep"
    /\ wd' = [Asleep EXCEPT !.pc = IF ~Breach THEN "probe" ELSE IF env.kill THEN "disable" ELSE "save",
                            !.mem = [disk EXCEPT !.counted = TRUE],
                            !.counted = lines]
    /\ lines' = 0
    /\ UNCHANGED <<job, foreign, runaway, disk, env, history>> /\ NoFault

(* _disable_server: bootout also ends the job's process.                    *)
Disable == /\ wd.pc = "disable"
           /\ job' = "unloaded"
           /\ wd' = [wd EXCEPT !.pc = "save", !.mem.disabled = TRUE]
           /\ UNCHANGED <<foreign, lines, runaway, disk, env, history>> /\ NoFault
DisableFails == /\ wd.pc = "disable" /\ wd' = [wd EXCEPT !.pc = "save"]
                /\ UNCHANGED <<world, disk, env, history>>
                /\ IF job = "unloaded" THEN NoFault ELSE Fault

(* _port_open.                                                              *)
Probe == /\ wd.pc = "probe" /\ wd' = [wd EXCEPT !.pc = IF PortOpen THEN "owner" ELSE "job"]
         /\ UNCHANGED <<world, disk, env, history>> /\ NoFault

(* _job_status, which says "not loaded" also when launchctl fails.          *)
JobStatus == IF job = "unloaded" THEN "unloaded" ELSE IF job \in Running THEN "live" ELSE "none"
Reads(status) == \/ status = JobStatus /\ NoFault
                 \/ status = "unloaded" /\ job # "unloaded" /\ Fault

(* _check_supervision asks launchd, then lsof.                              *)
AskOwner == /\ wd.pc = "owner"
            /\ \E s \in {"unloaded", "none", "live"} :
                  Reads(s) /\ wd' = [wd EXCEPT !.pc = "listener", !.pid = s]
            /\ UNCHANGED <<world, disk, env, history>>

Listener == IF job = "serving" THEN "job" ELSE IF foreign = "serving" THEN "foreign" ELSE "none"
Finds(who) == \/ who = Listener /\ NoFault
              \/ who = "none" /\ Listener # "none" /\ Fault
(* Mutant: an open port is healthy, whoever holds it. *)
OwnedByAnyone(who) == who # "none"
Owned(who) == wd.pid = "live" /\ who = "job"
Orphaned(who) == who # "none" /\ wd.pid # "unloaded" /\ ~Owned(who)

(* Mutant: `pop(a) or pop(b)` leaves the second key where it is. *)
SeenUpShort(m) == [m EXCEPT !.disabled = FALSE, !.down = 0,
                            !.tries = IF m.down > 0 THEN @ ELSE 0, !.gaveUp = FALSE]
(* The port is served, or nothing is known to the contrary.                 *)
SeenUp(m) == [m EXCEPT !.disabled = FALSE, !.down = 0, !.tries = 0, !.gaveUp = FALSE]
Recovered(m, who) == [m EXCEPT !.orphan = @ /\ ~Owned(who)]

FindServed ==
    /\ wd.pc = "listener"
    /\ \E who \in {"none", "job", "foreign"} :
          /\ Finds(who) /\ ~Orphaned(who)
          /\ wd' = [wd EXCEPT !.pc = "save", !.mem = SeenUp(Recovered(@, who))]
    /\ kicks' = 0
    /\ UNCHANGED <<world, disk, env, recent, lost>>

FindOrphan ==
    /\ wd.pc = "listener"
    /\ \E who \in {"job", "foreign"} :
          /\ Finds(who) /\ Orphaned(who)
          /\ \/ ~env.adopt /\ wd' = [wd EXCEPT !.pc = "save", !.mem.orphan = TRUE]
             \/ env.adopt /\ wd.mem.cool /\ wd' = [wd EXCEPT !.pc = "save"]
             \/ env.adopt /\ ~wd.mem.cool /\ wd' = [wd EXCEPT !.pc = "adopt", !.listener = who]
    /\ UNCHANGED <<world, disk, env, history>>

(* _adopt_orphan: the listener found above is stopped, then the job started. *)
Adopt ==
    /\ wd.pc = "adopt"
    /\ \/ wd.listener = "job" /\ job' \in {"idle", "due"} /\ UNCHANGED foreign
       \/ wd.listener = "foreign" /\ foreign' = "none" /\ UNCHANGED job
    /\ wd' = [wd EXCEPT !.pc = "kick", !.mem.cool = TRUE, !.listener = "gone"]
    /\ UNCHANGED <<lines, runaway, disk, env, history>> /\ NoFault
AdoptFails ==
    /\ wd.pc = "adopt" /\ wd' = [wd EXCEPT !.pc = "save"]
    /\ UNCHANGED <<world, disk, env, history>>
    /\ IF wd.listener = "gone" THEN NoFault ELSE Fault

(* The rest of _check_liveness: nobody listens.                             *)
Supervise(m) == [m EXCEPT !.disabled = FALSE]
Idle(m) == [Supervise(m) EXCEPT !.down = Capped(@ + 1, DownConfirmations)]
Confirmed(m) == Idle(m).down = DownConfirmations
GivenUp(m) == Confirmed(m) /\ m.tries >= MaxTries
MayRevive(m) == Confirmed(m) /\ ~GivenUp(m) /\ ~m.cool /\ env.revive
Retried(m) == [Idle(m) EXCEPT !.cool = TRUE, !.tries = @ + 1]
LeftAlone(m) == [Idle(m) EXCEPT !.gaveUp = @ \/ GivenUp(m)]

(* Not loaded: disabled by the watchdog, or by hand.                        *)
FindUnloaded ==
    /\ wd.pc = "job" /\ Reads("unloaded")
    /\ wd' = [wd EXCEPT !.pc = "save"]
    /\ UNCHANGED <<world, disk, env, history>>

(* A process without a port is starting; it is never killed.                *)
FindStarting ==
    /\ wd.pc = "job" /\ Reads("live")
    /\ wd' = [wd EXCEPT !.pc = "save", !.mem = Supervise(@)]
    /\ UNCHANGED <<world, disk, env, history>>

FindDormant ==
    /\ wd.pc = "job" /\ Reads("none")
    /\ wd' = IF MayRevive(wd.mem) THEN [wd EXCEPT !.pc = "kick", !.mem = Retried(@)]
                                  ELSE [wd EXCEPT !.pc = "save", !.mem = LeftAlone(@)]
    /\ UNCHANGED <<world, disk, env, history>>

(* _kickstart, without -k: a running job is left alone.                     *)
Attempted == /\ recent' = Capped(recent + 1, 2)
             /\ kicks' = IF wd.listener = "gone" THEN kicks ELSE Capped(kicks + 1, MaxTries + 1)
             /\ UNCHANGED lost
Kick == /\ wd.pc = "kick" /\ job # "unloaded"
        /\ job' = IF job \in Running THEN job ELSE "launched"
        /\ wd' = [wd EXCEPT !.pc = "save", !.mem.orphan = @ /\ wd.listener # "gone"]
        /\ Attempted
        /\ UNCHANGED <<foreign, lines, runaway, disk, env>> /\ NoFault
KickFails == /\ wd.pc = "kick" /\ wd' = [wd EXCEPT !.pc = "save"]
             /\ Attempted
             /\ UNCHANGED <<world, disk, env>>
             /\ IF job = "unloaded" THEN NoFault ELSE Fault

Save == /\ wd.pc = "save" /\ disk' = wd.mem /\ wd' = Asleep
        /\ UNCHANGED <<world, env, history>> /\ NoFault

(* Killed on the way, or _save_state fails: the file of the last run stays,  *)
(* or, once it has been opened for writing, nothing that can be read.       *)
Unsaved == /\ wd.pc # "asleep"
           /\ \/ disk' = disk /\ lines' = Capped(lines + wd.counted, MaxRestarts)
              \/ wd.pc = "save" /\ disk' = Blank /\ lines' = 0
           /\ wd' = Asleep /\ lost' = TRUE
           /\ UNCHANGED <<job, foreign, runaway, env, kicks, recent>> /\ Fault

WatchStep == \/ Wake \/ Disable \/ DisableFails \/ Probe \/ AskOwner \/ FindServed \/ FindOrphan
             \/ Adopt \/ AdoptFails \/ FindUnloaded \/ FindStarting \/ FindDormant
             \/ Kick \/ KickFails \/ Save

Next == World \/ RollOver \/ CooldownEnds \/ WatchStep \/ Unsaved

Spec == Init /\ [][Next]_vars

(* launchd runs the script every two minutes, every call in it has a time-   *)
(* out, and time passes.  Nobody else has to do anything.                    *)
FairSpec == Spec /\ WF_vars(WatchStep) /\ WF_vars(RollOver) /\ WF_vars(CooldownEnds)

-----------------------------------------------------------------------------
WatchdogTypeOK ==
    /\ job \in Jobs /\ foreign \in {"none", "starting", "serving"}
    /\ ~(job = "serving" /\ foreign = "serving")
    /\ lines \in 0..MaxRestarts /\ runaway \in BOOLEAN
    /\ disk \in State /\ wd \in Look /\ env \in Toggles /\ faults \in 0..MaxFaults
    /\ kicks \in 0..MaxTries + 1 /\ recent \in 0..2 /\ lost \in BOOLEAN

(* "at most once per REVIVE_COOLDOWN_S, and at most REVIVE_MAX_TRIES times   *)
(* before it gives up": whatever the server does between two looks, two      *)
(* kickstarts are a cooldown apart, no more than MaxTries follow each other  *)
(* without the port being seen served, and the watchdog gives up only after  *)
(* that many, as long as no run's findings were lost.                        *)
ReviveEarned ==
    ~lost => /\ recent <= 1 /\ kicks <= MaxTries
             /\ (wd.mem.gaveUp => kicks = MaxTries)

(* Nothing listens, nothing is on its way, and launchd's job lies idle.      *)
Dormant == job = "idle" /\ foreign = "none"

(* Launchd does not own what is served.                                      *)
Unsupervised == foreign = "serving" /\ job # "unloaded"

(* The failures the watchdog exists for do not last unnoticed: a dormant job *)
(* is started again or given up with an alert, and an unsupervised server is *)
(* reported or handed back, unless a runaway takes up every run; through any *)
(* crashes, lost state and failing tools.                                    *)
Noticed ==
    /\ env.revive => []<>(~Dormant \/ disk.gaveUp)
    /\ []<>(~Unsupervised \/ disk.orphan \/ runaway)
=============================================================================
