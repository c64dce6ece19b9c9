---------------------------- MODULE Observations ----------------------------
(***************************************************************************)
(* The observation log of a profile (observations.json) and the passes     *)
(* that read it (tools/observations.py, tools/observation_consolidation.py *)
(* and the engine of tools/scheduler.py that runs both).                   *)
(*                                                                         *)
(* Threads append a row after a turn, the event loop one for a call it     *)
(* issued, a sweep adds the verdict on a call once it is old enough, and   *)
(* consolidation passes (the engine's, and the one a click forces) show    *)
(* unread rows to a model, draft the rules it proposes and mark the rows   *)
(* read.  Every operation loads the whole file and saves the whole file,   *)
(* and others run in between.  The process can be killed between any two   *)
(* steps and a save can fail; it is atomic (json_store.write_json_atomic). *)
(*                                                                         *)
(* A row is its number and what decides its fate.  Which rules a model may *)
(* propose, and the check of its citations, are left out: what a draft     *)
(* goes through once it is made is the module Lessons.                     *)
(***************************************************************************)
EXTENDS Integers, Sequences, FiniteSets, SequencesExt, Selections

CONSTANTS
    Turns,          \* threads that record what a turn showed (observe_turn)
    Scheduled,      \* the pass of the observation engine
    Forced,         \* the pass of POST /api/observations/consolidate
    Gate,           \* CONSOLIDATION_GATE_N
    MinCitations,   \* MIN_CITATIONS
    MaxEvidence,    \* MAX_EVIDENCE_ROWS
    LogCap,         \* MAX_OBSERVATIONS
    MaxRows,        \* bound: rows recorded in a run
    MaxFaults       \* bound: kills of the process and failed saves

ASSUME ObservationsAssumption ==
    /\ Scheduled # Forced
    /\ {Gate, MinCitations, MaxEvidence, LogCap} \subseteq Nat \ {0}
    /\ {MaxRows, MaxFaults} \subseteq Nat
    /\ MinCitations <= Gate /\ MinCitations <= MaxEvidence

VARIABLES
    log,            \* observations.json, oldest first
    turn,           \* the log as each turn thread loaded it, or Idle
    issue,          \* the log as the event loop loaded it for a call it issued, or Idle
    pass,           \* where each pass stands and what it holds
    rows,           \* how many rows were made (bound); they are numbered
    faults,
    shown           \* history: the rows some model was shown

observationsVars == <<log, turn, issue, pass, rows, faults, shown>>

Passes == {Scheduled, Forced}
Row == [id : 1..MaxRows, kind : {"asked", "issued", "verdict"}, of : 0..MaxRows,
        resolved : BOOLEAN, read : BOOLEAN]
Idle == [at |-> "idle"]
Ids(s) == {r.id : r \in ToSet(s)}

ObservationsInit ==
    /\ log = <<>>
    /\ turn = [u \in Turns |-> Idle]
    /\ issue = Idle
    /\ pass = [p \in Passes |-> Idle]
    /\ rows = 0 /\ faults = 0
    /\ shown = {}

-----------------------------------------------------------------------------
(* Writing the log: record_observation and record_rec_issued.               *)

NewObservation(n, kind, of) ==
    [id |-> rows + n, kind |-> kind, of |-> of, resolved |-> FALSE, read |-> FALSE]

(* The log an operation loaded, with its new rows, is what is on file now.  *)
Put(l, new) ==
    /\ rows' = rows + Len(new) /\ rows' <= MaxRows
    /\ log' = LastOf(l \o new, LogCap)

ObserveLoad(u) ==
    /\ turn[u] = Idle
    /\ turn' = [turn EXCEPT ![u] = [at |-> "save", log |-> log]]
    /\ UNCHANGED <<log, issue, pass, rows, faults, shown>>

ObserveSave(u) ==
    /\ turn[u] # Idle
    /\ Put(turn[u].log, <<NewObservation(1, "asked", 0)>>)
    /\ turn' = [turn EXCEPT ![u] = Idle]
    /\ UNCHANGED <<issue, pass, faults, shown>>

IssueLoad ==
    /\ issue = Idle
    /\ issue' = [at |-> "save", log |-> log]
    /\ UNCHANGED <<log, turn, pass, rows, faults, shown>>

IssueSave ==
    /\ issue # Idle
    /\ Put(issue.log, <<NewObservation(1, "issued", 0)>>)
    /\ issue' = Idle
    /\ UNCHANGED <<turn, pass, faults, shown>>

-----------------------------------------------------------------------------
(* The sweep, in the engine's thread ahead of its pass:                     *)
(* resolve_rec_follow_through.                                              *)

SweepLoad ==
    /\ pass[Scheduled] = Idle
    /\ pass' = [pass EXCEPT ![Scheduled] = [at |-> "sweep", log |-> log]]
    /\ UNCHANGED <<log, turn, issue, rows, faults, shown>>

(* Mutant: a call is judged again although it has been resolved. *)
AnyIssued(l) == {i \in DOMAIN l : l[i].kind = "issued"}

Unresolved(l) == {i \in DOMAIN l : l[i].kind = "issued" /\ ~l[i].resolved}

(* The calls old enough to judge are judged, if the portfolio can be read.  *)
SweepJudges ==
    /\ pass[Scheduled].at = "sweep"
    /\ LET l == pass[Scheduled].log
       IN  \E old \in (SUBSET Unresolved(l)) \ {{}} :
             LET at == Ascending(old)
             IN  Put([i \in DOMAIN l |-> [l[i] EXCEPT !.resolved = @ \/ i \in old]],
                     [n \in DOMAIN at |-> NewObservation(n, "verdict", l[at[n]].id)])
    /\ pass' = [pass EXCEPT ![Scheduled] = Idle]
    /\ UNCHANGED <<turn, issue, faults, shown>>

SweepPasses ==
    /\ pass[Scheduled].at = "sweep"
    /\ pass' = [pass EXCEPT ![Scheduled] = Idle]
    /\ UNCHANGED <<log, turn, issue, rows, faults, shown>>

-----------------------------------------------------------------------------
(* A pass: consolidate_observations.                                        *)

Unread(l) == SelectSeq(l, LAMBDA r : ~r.read)

(* The engine waits for the gate, a click only for the rows one rule cites. *)
Enough(p) == Len(Unread(log)) >= IF p = Forced THEN MinCitations ELSE Gate

Batch == Ids(LastOf(Unread(log), MaxEvidence))

Ask(p) ==
    /\ pass[p] = Idle
    /\ Enough(p)
    /\ pass' = [pass EXCEPT ![p] = [at |-> "asked", batch |-> Batch]]
    /\ shown' = shown \cup Batch
    /\ UNCHANGED <<log, turn, issue, rows, faults>>

(* Nothing is marked: evidence no model has read stays unread.              *)
ModelFails(p) ==
    /\ pass[p].at = "asked"
    /\ pass' = [pass EXCEPT ![p] = Idle]
    /\ UNCHANGED <<log, turn, issue, rows, faults, shown>>

(* The rules it proposes are drafted (see Lessons), or none are: either way *)
(* the batch has been considered, and mark_consolidated loads the log.      *)
ModelReplies(p) ==
    /\ pass[p].at = "asked"
    /\ pass' = [pass EXCEPT ![p] = [at |-> "mark", batch |-> @.batch, log |-> log]]
    /\ UNCHANGED <<log, turn, issue, rows, faults, shown>>

(* Mutant: every row on file is marked, shown to the model or not. *)
MarkedAll(l, batch) == [i \in DOMAIN l |-> [l[i] EXCEPT !.read = TRUE]]

(* Mutant: the mark is set on a copy that is not saved. *)
MarkedCopy(l, batch) == l

Marked(l, batch) ==
    [i \in DOMAIN l |-> IF l[i].id \in batch THEN [l[i] EXCEPT !.read = TRUE] ELSE l[i]]

(* The log as loaded is saved with the batch marked, unless it was already. *)
MarkSave(p) ==
    /\ pass[p].at = "mark"
    /\ LET l == Marked(pass[p].log, pass[p].batch)
       IN  log' = IF l = pass[p].log THEN log ELSE l
    /\ pass' = [pass EXCEPT ![p] = Idle]
    /\ UNCHANGED <<turn, issue, rows, faults, shown>>

(* A save that fails leaves the file as it is; no caller looks at that.     *)
SaveFails ==
    /\ faults < MaxFaults /\ faults' = faults + 1
    /\ \/ \E u \in Turns : turn[u] # Idle /\ turn' = [turn EXCEPT ![u] = Idle]
                            /\ UNCHANGED <<issue, pass>>
       \/ issue # Idle /\ issue' = Idle /\ UNCHANGED <<turn, pass>>
       \/ \E p \in Passes : pass[p].at = "mark" /\ pass' = [pass EXCEPT ![p] = Idle]
                             /\ UNCHANGED <<turn, issue>>
    /\ UNCHANGED <<log, rows, shown>>

Crash ==
    /\ faults < MaxFaults /\ faults' = faults + 1
    /\ turn' = [u \in Turns |-> Idle]
    /\ issue' = Idle
    /\ pass' = [p \in Passes |-> Idle]
    /\ UNCHANGED <<log, rows, shown>>

ObservationsNext ==
    \/ \E u \in Turns : ObserveLoad(u) \/ ObserveSave(u)
    \/ IssueLoad \/ IssueSave
    \/ SweepLoad \/ SweepJudges \/ SweepPasses
    \/ \E p \in Passes : Ask(p) \/ ModelFails(p) \/ ModelReplies(p) \/ MarkSave(p)
    \/ SaveFails \/ Crash

ObservationsSpec == ObservationsInit /\ [][ObservationsNext]_observationsVars

(* The engine's day comes round and it asks whenever there is enough to     *)
(* read; a model asked again and again answers in the end; and what a       *)
(* thread or the event loop has begun it carries on with.                   *)
Fairness ==
    /\ SF_observationsVars(Ask(Scheduled)) /\ SF_observationsVars(ModelReplies(Scheduled))
    /\ WF_observationsVars(SweepJudges \/ SweepPasses)
    /\ \A p \in Passes : WF_observationsVars(MarkSave(p))
    /\ \A u \in Turns : WF_observationsVars(ObserveSave(u))
    /\ WF_observationsVars(IssueSave)

ObservationsFairSpec == ObservationsSpec /\ Fairness

-----------------------------------------------------------------------------
(* The log holds the rows its writers make, within its cap.                 *)
ObservationsTypeOK == log \in Seq(Row) /\ Len(log) <= LogCap

(* A row is marked only if a model was shown it: neither what is recorded   *)
(* while a pass waits for its answer nor what a failed pass had read is     *)
(* burned.                                                                  *)
ReadWasShown == \A r \in ToSet(log) : r.read => r.id \in shown

(* The log is well formed, and its marks are true.                          *)
LogInv == ObservationsTypeOK /\ ReadWasShown

(* A call is judged once: its mark and its verdict are saved together, so   *)
(* no save of an older log leaves one without the other.                    *)
VerdictOnce ==
    \A i, j \in DOMAIN log :
        i < j /\ log[i].kind = "verdict" /\ log[j].kind = "verdict" => log[i].of # log[j].of

(* The backlog drains: in the end fewer rows are unread than a pass waits   *)
(* for, although passes fail, are killed and have their marks overwritten.  *)
BacklogDrains == <>[](Len(Unread(log)) < Gate)
=============================================================================
