--------------------------- MODULE EngineHeartbeat ---------------------------
(***************************************************************************)
(* The reporting window and the heartbeat store of                         *)
(* tools/engine_heartbeat.py.  The window is one module global for the     *)
(* whole process: whoever reports, reports for the engine it names.        *)
(***************************************************************************)
EXTENDS Integers

CONSTANTS
  Engines,
  NoEngine,       (* no window is open                                      *)
  IdleThreshold   (* get_engine_health's idle_threshold; the streak is only *)
                  (* compared with it, so counting stops there              *)

VARIABLES
  window,  (* _current                                                      *)
  beat     (* engine_heartbeat.json                                         *)

Closed == [engine |-> NoEngine, reported |-> FALSE, some |-> FALSE, skipped |-> FALSE]

Unseen == [last |-> "never", idle |-> 0, ever |-> FALSE]

TypeOK ==
  /\ window \in [engine : Engines \cup {NoEngine}, reported : BOOLEAN,
                 some : BOOLEAN, skipped : BOOLEAN]
  /\ beat \in [Engines -> [last : {"never", "ok", "skipped", "error", "timeout"},
                           idle : 0..IdleThreshold, ever : BOOLEAN]]

Init ==
  /\ window = Closed
  /\ beat = [e \in Engines |-> Unseen]

(* begin *)
Opened(e) == [Closed EXCEPT !.engine = e]

(* note_production with a zero or a positive count: additive, and even a    *)
(* zero declares that the engine reports production.                        *)
Produced(w, some) ==
  IF w.engine = NoEngine THEN w
  ELSE [w EXCEPT !.reported = TRUE, !.some = @ \/ some]

(* note_skipped *)
Declined(w) ==
  IF w.engine = NoEngine THEN w ELSE [w EXCEPT !.skipped = TRUE]

(* record_run folds what the window holds into the engine's record.         *)
Folded(rec, w, e, status) ==
  LET own    == IF w.engine = e THEN w ELSE Closed
      last   == IF status = "ok" /\ own.skipped THEN "skipped" ELSE status
      judged == last = "ok" /\ own.reported
      next   == IF rec.idle < IdleThreshold THEN rec.idle + 1 ELSE rec.idle
  IN [last |-> last,
      idle |-> IF ~judged THEN rec.idle ELSE IF own.some THEN 0 ELSE next,
      ever |-> rec.ever \/ (judged /\ own.some)]

(* Mutant: the window stays open after the run. *)
RecordRunLeavesOpen(e, w, status) ==
  /\ window' = w
  /\ \/ beat' = [beat EXCEPT ![e] = Folded(@, w, e, status)]
     \/ UNCHANGED beat

(* record_run with the window's contents; a failed _save is ignored.        *)
RecordRun(e, w, status) ==
  /\ window' = Closed
  /\ \/ beat' = [beat EXCEPT ![e] = Folded(@, w, e, status)]
     \/ UNCHANGED beat
=============================================================================
