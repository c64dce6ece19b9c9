--------------------------- MODULE WatchConditions ---------------------------
(***************************************************************************)
(* The trigger store of tools/watch_conditions.py and its way into the     *)
(* alerts inbox.                                                           *)
(*                                                                         *)
(* add_conditions, cancel_condition and evaluate_conditions each load the  *)
(* whole file, change the list in memory and rewrite the file, without a   *)
(* lock; evaluate_conditions fetches quotes in between and raises its      *)
(* alerts before it writes.  A rewrite is one step here; Alerts.tla takes  *)
(* the same tmp + replace code apart.                                      *)
(***************************************************************************)
EXTENDS Inbox, FiniteSets, Selections

CONSTANTS
  Threads,     (* engine threads (also abandoned ones) and request threads  *)
  Levels,      (* triggers: symbol, metric, operator, threshold             *)
  PerTurn,     (* _MAX_ACTIVE_PER_TURN                                      *)
  MaxConditions, (* _MAX_RECORDS of watch_conditions.py                     *)
  MaxConds     (* bound on the conditions ever added                        *)

CondIds == 1..MaxConds

ASSUME WatchAssumption ==
  /\ PerTurn \in Nat \ {0}
  /\ MaxConditions \in Nat \ {0}
  /\ MaxConds \in Nat
  /\ Keys = CondIds      \* an alert about condition id has key "watch:<id>"

VARIABLES
  conds,       (* watch_conditions.jsonl                                    *)
  call,        (* what each thread is doing                                 *)
  lastId,      (* the newest condition id handed out                        *)
  (* History variables, read by no action. *)
  observed,    (* conditions that some evaluation saw unsatisfied           *)
  cancelled,   (* conditions whose cancel_condition returned True           *)
  raced        (* did a call ever load the file while another was under way  *)

vars == <<conds, inbox, call, lastId, observed, cancelled, raced>>

Cond ==
  [id : CondIds, level : Levels, armed : BOOLEAN,
   status : {"active", "fired", "expired", "void", "cancelled"}]

Active(list) == {i \in DOMAIN list : list[i].status = "active"}

Idle == [pc |-> "idle", list |-> <<>>, todo |-> {}, cancels |-> {}]

Call ==
  [pc : {"idle", "judge", "write"}, list : Seq(Cond), todo : SUBSET Nat,
   cancels : SUBSET CondIds]

WatchTypeOK ==
  /\ conds \in Seq(Cond)
  /\ inbox \in Seq(Alert)
  /\ call \in [Threads -> Call]
  /\ \A t \in Threads : call[t].todo \subseteq Active(call[t].list)
  /\ lastId \in 0..MaxConds
  /\ observed \in SUBSET CondIds
  /\ cancelled \in SUBSET CondIds
  /\ raced \in BOOLEAN

WatchInit ==
  /\ conds = <<>>
  /\ inbox = <<>>
  /\ call = [t \in Threads |-> Idle]
  /\ lastId = 0
  /\ observed = {}
  /\ cancelled = {}
  /\ raced = FALSE

-----------------------------------------------------------------------------
(* The file.                                                               *)

IsActive(c) == c.status = "active"
IsResolved(c) == c.status # "active"

LastN(list, n) == SubSeq(list, Len(list) - n + 1, Len(list))

(* Mutant: a blind tail slice. *)
TrimBlind(list) == IF Len(list) > MaxConditions THEN LastN(list, MaxConditions) ELSE list

(* _trim: active conditions first, then the last resolved ones that fit.    *)
Trim(list) ==
  LET active   == KeepAt(list, Active(list))
      resolved == KeepAt(list, DOMAIN list \ Active(list))
      room     == IF Len(active) >= MaxConditions THEN 0 ELSE MaxConditions - Len(active)
  IN active \o IF Len(resolved) > room THEN LastN(resolved, room) ELSE resolved

(* load_conditions, at the start of a call. *)
Loads(t) ==
  /\ call[t].pc = "idle"
  /\ raced' = (raced \/ \E u \in Threads \ {t} : call[u].pc # "idle")

(* The call goes on to rewrite the file with this list.                     *)
Writing(list, cancels) == [Idle EXCEPT !.pc = "write", !.list = list, !.cancels = cancels]

Write(t) ==
  /\ call[t].pc = "write"
  /\ conds' = Trim(call[t].list)
  /\ cancelled' = cancelled \cup call[t].cancels
  /\ call' = [call EXCEPT ![t] = Idle]
  /\ UNCHANGED <<inbox, lastId, observed, raced>>

(* _write_all returns False; the file is as it was.                         *)
WriteFails(t) ==
  /\ call[t].pc = "write"
  /\ call' = [call EXCEPT ![t] = Idle]
  /\ UNCHANGED <<conds, inbox, lastId, observed, cancelled, raced>>

-----------------------------------------------------------------------------
(* add_conditions and cancel_condition.                                    *)

NewCond(id, level) == [id |-> id, level |-> level, armed |-> FALSE, status |-> "active"]

ActiveLevels(list) == {list[i].level : i \in Active(list)}

(* Mutant: a restated trigger is appended again. *)
AddUnchecked(t, levels) ==
  /\ Loads(t)
  /\ lastId + Cardinality(levels) <= MaxConds
  /\ \E order \in [1..Cardinality(levels) -> levels] :
       /\ \A l \in levels : \E i \in DOMAIN order : order[i] = l
       /\ call' = [call EXCEPT ![t] =
            Writing(conds \o [i \in DOMAIN order |-> NewCond(lastId + i, order[i])], {})]
  /\ lastId' = lastId + Cardinality(levels)
  /\ UNCHANGED <<conds, inbox, observed, cancelled>>

(* A level that an active condition has is refreshed (wording and expiry),  *)
(* the others are appended in the order of the answer.                      *)
Add(t, levels) ==
  LET new == levels \ ActiveLevels(conds)
      n   == Cardinality(new)
  IN /\ Loads(t)
     /\ lastId + n <= MaxConds
     /\ \E order \in [1..n -> new] :
          /\ \A l \in new : \E i \in 1..n : order[i] = l
          /\ call' = [call EXCEPT ![t] =
               Writing(conds \o [i \in 1..n |-> NewCond(lastId + i, order[i])], {})]
     /\ lastId' = lastId + n
     /\ UNCHANGED <<conds, inbox, observed, cancelled>>

Cancel(t, i) ==
  /\ Loads(t)
  /\ i \in Active(conds)
  /\ call' = [call EXCEPT ![t] =
       Writing([conds EXCEPT ![i].status = "cancelled"], {conds[i].id})]
  /\ UNCHANGED <<conds, inbox, lastId, observed, cancelled>>

-----------------------------------------------------------------------------
(* evaluate_conditions.                                                    *)

(* Load; expire first; then one market read per symbol, which may take      *)
(* minutes.  Any condition may turn out to be past its expiry.              *)
EvaluateLoads(t, expired) ==
  /\ Loads(t)
  /\ Active(conds) # {}
  /\ expired \subseteq Active(conds)
  /\ call' = [call EXCEPT ![t] =
       [Idle EXCEPT !.pc = "judge", !.todo = Active(conds) \ expired,
                    !.list = [i \in DOMAIN conds |->
                       IF i \in expired THEN [conds[i] EXCEPT !.status = "expired"]
                       ELSE conds[i]]]]
  /\ UNCHANGED <<conds, inbox, lastId, observed, cancelled>>

(* The record the loop is at. *)
Current(t) == CHOOSE i \in call[t].todo : \A j \in call[t].todo : i <= j

Judging(t) == call[t].pc = "judge" /\ call[t].todo # {}

(* ... is done, and this is what became of it. *)
Judged(t, cond) ==
  call' = [call EXCEPT ![t].todo = @ \ {Current(t)},
                       ![t].list = [@ EXCEPT ![Current(t)] = cond]]

(* No value for the metric, or a quote too old to act on. *)
JudgeNoQuote(t) ==
  /\ Judging(t)
  /\ Judged(t, call[t].list[Current(t)])
  /\ UNCHANGED <<conds, inbox, lastId, observed, cancelled, raced>>

(* Not satisfied: armed, if it was not yet. *)
JudgeMiss(t) ==
  LET c == call[t].list[Current(t)]
  IN /\ Judging(t)
     /\ Judged(t, [c EXCEPT !.armed = TRUE])
     /\ observed' = observed \cup {c.id}
     /\ UNCHANGED <<conds, inbox, lastId, cancelled, raced>>

(* raise_alert, which never raises; its result is not looked at.            *)
RaiseAlert(id) ==
  \/ ~HasUnread(inbox, id) /\ Newest(inbox) < MaxAlerts
     /\ RaiseNew(Newest(inbox) + 1, id)
  \/ UNCHANGED inbox

(* Satisfied at its first evaluation. *)
JudgeVoid(t) ==
  LET c == call[t].list[Current(t)]
  IN /\ Judging(t)
     /\ ~c.armed
     /\ Judged(t, [c EXCEPT !.status = "void"])
     /\ UNCHANGED <<conds, inbox, lastId, observed, cancelled, raced>>

(* Mutant: a condition need not be armed to fire. *)
JudgeFireUnarmed(t) ==
  LET c == call[t].list[Current(t)]
  IN /\ Judging(t)
     /\ Judged(t, [c EXCEPT !.status = "fired"])
     /\ RaiseAlert(c.id)
     /\ UNCHANGED <<conds, lastId, observed, cancelled, raced>>

(* Satisfied at a later evaluation: the alert goes out now, the new status  *)
(* is only in memory.                                                       *)
JudgeFire(t) ==
  LET c == call[t].list[Current(t)]
  IN /\ Judging(t)
     /\ c.armed
     /\ Judged(t, [c EXCEPT !.status = "fired"])
     /\ RaiseAlert(c.id)
     /\ UNCHANGED <<conds, lastId, observed, cancelled, raced>>

EvaluateDone(t) ==
  /\ call[t].pc = "judge" /\ call[t].todo = {}
  /\ call' = [call EXCEPT ![t] = Writing(@.list, {})]
  /\ UNCHANGED <<conds, inbox, lastId, observed, cancelled, raced>>

-----------------------------------------------------------------------------
(* The user opens the inbox: mark_read with all_alerts.                     *)
UserReads ==
  /\ inbox' = MarkedRead(inbox, AlertIds)
  /\ UNCHANGED <<conds, call, lastId, observed, cancelled, raced>>

(* The process dies in the middle of whatever it was doing.                 *)
Crash ==
  /\ call' = [t \in Threads |-> Idle]
  /\ UNCHANGED <<conds, inbox, lastId, observed, cancelled, raced>>

Evaluate(t) ==
  \/ \E expired \in SUBSET (DOMAIN conds) : EvaluateLoads(t, expired)
  \/ JudgeNoQuote(t) \/ JudgeMiss(t) \/ JudgeVoid(t) \/ JudgeFire(t)
  \/ EvaluateDone(t)

AnswerLevels ==
  {ls \in SUBSET Levels : ls # {} /\ IsFiniteSet(ls) /\ Cardinality(ls) <= PerTurn}

WatchNext ==
  \/ \E t \in Threads :
       \/ \E levels \in AnswerLevels : Add(t, levels)
       \/ \E i \in DOMAIN conds : Cancel(t, i)
       \/ Evaluate(t)
       \/ Write(t) \/ WriteFails(t)
  \/ UserReads
  \/ Crash

WatchSpec == WatchInit /\ [][WatchNext]_vars

-----------------------------------------------------------------------------
(* Properties.                                                             *)

UniqueActiveIn(list) ==
  \A i, j \in Active(list) : list[i].level = list[j].level => i = j

(* "so a daily precompute cannot turn one commitment into thirty rows": no  *)
(* two live conditions watch the same level, however many threads add,      *)
(* cancel and evaluate at once.                                             *)
UniqueActive == UniqueActiveIn(conds)

(* The file is well formed, and live conditions are unique.                 *)
StoreInv == WatchTypeOK /\ UniqueActive

Alerted(id) == \E i \in DOMAIN inbox : inbox[i].key = id

(* "A condition already satisfied at its FIRST evaluation is voided, not    *)
(* fired": an alert goes out only for a level that was seen on the other    *)
(* side before, whatever the threads overwrite of each other's work.        *)
AlertOnlyAfterMiss == \A id \in CondIds : Alerted(id) => id \in observed

(* As long as no two calls overlapped, a voided condition has never paged   *)
(* the user, also across crashes and failed writes.                         *)
VoidNeverAlerts ==
  ~raced => \A i \in DOMAIN conds : conds[i].status = "void" => ~Alerted(conds[i].id)

(* The user is paged for crossings only.                                    *)
PagesOnlyCrossings == AlertOnlyAfterMiss /\ VoidNeverAlerts

(* What a condition may become by one rewrite of the file.                  *)
LegalChange(old, new) ==
  \/ old = new
  \/ ~old.armed /\ new = [old EXCEPT !.armed = TRUE]
  \/ ~old.armed /\ new = [old EXCEPT !.status = "void"]
  \/ old.armed /\ new = [old EXCEPT !.status = "fired"]
  \/ \E st \in {"expired", "cancelled"} : new = [old EXCEPT !.status = st]

(* A call is about to store that the condition is no longer live. *)
Resolving(id) ==
  \E t \in Threads : /\ call[t].pc = "write"
                     /\ \E i \in DOMAIN call[t].list :
                          call[t].list[i].id = id /\ IsResolved(call[t].list[i])

(* "Cap the store without ever evicting a live condition": a condition      *)
(* leaves the file only once it is resolved (which, in a file full of live  *)
(* ones, is the rewrite that resolves it), a resolved one never changes     *)
(* again, armed is never taken back, only an armed condition fires.         *)
LegalRewrite ==
  \A i \in DOMAIN conds :
    LET old  == conds[i]
        kept == {c \in {conds'[j] : j \in DOMAIN conds'} : c.id = old.id}
    IN IF IsActive(old)
       THEN /\ kept = {} => Resolving(old.id)
            /\ \A c \in kept : LegalChange(old, c)
       ELSE kept \subseteq {old}

(* "Retires a pending condition so it can no longer fire": one whose        *)
(* cancel_condition returned True pages nobody from then on.                *)
CancelledStayQuiet == \A id \in cancelled : Alerted(id)' => Alerted(id)

(* Both, as long as no two calls overlap.                                   *)
LifecycleRespected == [][~raced => LegalRewrite /\ CancelledStayQuiet]_vars
=============================================================================
