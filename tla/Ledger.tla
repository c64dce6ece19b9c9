------------------------------- MODULE Ledger -------------------------------
(***************************************************************************)
(* The advisor's recommendation ledger: the rows past_recommendations and  *)
(* the pinned theses of user_memory.json (tools/memory.py).                *)
(*                                                                         *)
(* Every answer is read for calls, and each call is entered, restated or   *)
(* used to close the calls it contradicts; the user reports what was       *)
(* acted on and edits the theses; and scorers (the daily engine, the       *)
(* scorecard tool, the weekly review) grade the rows that have reached a   *)
(* horizon.  The writers of the event loop load and save the file without  *)
(* giving way, so each is one step, or none if the save fails.  A scorer   *)
(* loads it, asks for prices for as long as that takes, and saves the      *)
(* whole file it loaded.                                                   *)
(*                                                                         *)
(* Prices, reasons, grades of confidence and notes are left out: what a    *)
(* row carries here is what decides whether it is kept, closed or graded.  *)
(***************************************************************************)
EXTENDS Integers, Sequences, FiniteSets, SequencesExt, Selections

CONSTANTS
    Tickers,        \* the symbols advised on
    Actions,        \* the actions advised, among LongBias and ReduceBias
    Scorers,        \* threads that run score_past_recommendations
    Horizons,       \* days after which a call is graded (14, 30 and 90)
    MinHold,        \* _PARTIAL_MIN_HOLD_DAYS
    Retention,      \* _REC_RETENTION_MAX_DAYS
    DoneKeep,       \* _REC_COMPLETED_KEEP
    Legacy,         \* ledgers an older version may have left behind
    MaxDay,         \* bound: the last day of a run
    MaxCalls        \* bound: how many new rows a run enters

LongBias == {"BUY", "ADD", "HOLD"}
ReduceBias == {"SELL", "TRIM"}

ASSUME LedgerAssumption ==
    /\ Actions \subseteq LongBias \cup ReduceBias
    /\ IsFiniteSet(Horizons) /\ Horizons # {} /\ Horizons \subseteq Nat \ {0}
    /\ MinHold \in Nat /\ Retention \in Nat /\ DoneKeep \in Nat
    /\ \A h \in Horizons : h <= Retention
    /\ MaxDay \in Nat \ {0} /\ MaxCalls \in Nat

VARIABLES
    today,          \* the date
    recs,           \* past_recommendations, oldest first
    theses,         \* active_theses: no thesis, a live one, or one with an exit signal
    scorer,         \* what each scorer has loaded, or NotScoring
    entered,        \* how many rows were entered (bound)
    due,            \* the calls entered, not contradicted since and not yet graded
    raced           \* the calls a save of an older file has dropped or closed again

ledgerVars == <<today, recs, theses, scorer, entered, due, raced>>

Rows == [day : Int, ticker : Tickers, action : Actions, open : BOOLEAN,
         closed : Int, said : BOOLEAN, scores : SUBSET Horizons, held : BOOLEAN]
NoThesis == "none"
Held == 0           \* stands among the horizons for the days a closed call was held
NotScoring == [busy |-> FALSE]
Call(r) == [day |-> r.day, ticker |-> r.ticker, action |-> r.action]
OpenCalls(rs) == {Call(r) : r \in {q \in ToSet(rs) : q.open}}
SameStance(r, q) == r.ticker = q.ticker /\ r.action = q.action

(* A horizon is graded only on a call that stood that long, and a call      *)
(* closed early only on the days it was held.                               *)
Earned(r, now) ==
    /\ \A h \in r.scores : (IF r.open THEN now ELSE r.closed) - r.day >= h
    /\ r.held => ~r.open /\ r.closed - r.day >= MinHold

(* The open rows of a ticker point one way, and of a stance this version    *)
(* has written one row at most.                                             *)
Agree(rs) ==
    \A i, j \in DOMAIN rs :
        i < j /\ rs[i].open /\ rs[j].open /\ rs[i].ticker = rs[j].ticker
            => /\ rs[i].action \in LongBias <=> rs[j].action \in LongBias
               /\ SameStance(rs[i], rs[j]) => rs[j].day < 1

(* A call is closed together with its restatements.                         *)
Unbroken(rs) ==
    \A i, j, k \in DOMAIN rs :
        i < k /\ k < j /\ rs[i].open /\ rs[j].open
              /\ SameStance(rs[i], rs[j]) /\ SameStance(rs[i], rs[k])
            => rs[k].open

(* What may be on file was written before the first day of a run, by a      *)
(* version that appended restatements but closed and graded as this one.    *)
ASSUME LegacyAssumption ==
    \A rs \in Legacy :
        /\ rs \in Seq(Rows)
        /\ \A i \in DOMAIN rs : rs[i].day < 1 /\ Earned(rs[i], 1)
        /\ Agree(rs) /\ Unbroken(rs)

LedgerInit ==
    /\ today = 1
    /\ recs \in Legacy
    /\ theses = [t \in Tickers |-> NoThesis]
    /\ scorer = [s \in Scorers |-> NotScoring]
    /\ entered = 0
    /\ due = {} /\ raced = {}

-----------------------------------------------------------------------------
(* Bounding the ledger: _collapse_restatements and _trim_recommendations.   *)

FullyGraded(r) == Horizons \subseteq r.scores

InFlight(r) == r.open /\ ~FullyGraded(r) /\ today - r.day <= Retention

(* A restatement is an open row that follows an open row of its stance with *)
(* no closed one in between: it is folded into the first.                   *)
Restatement(rs, i) ==
    /\ rs[i].open
    /\ \E j \in 1..i - 1 :
         /\ rs[j].open /\ SameStance(rs[j], rs[i])
         /\ \A k \in j + 1..i - 1 : SameStance(rs[k], rs[i]) => rs[k].open

(* Mutant: the latest restatement is kept, not the first call. *)
CollapsedToLast(rs) ==
    KeepAt(rs, {i \in DOMAIN rs :
        ~\E j \in i + 1..Len(rs) : Restatement(rs, j) /\ SameStance(rs[i], rs[j])})

Collapsed(rs) == KeepAt(rs, {i \in DOMAIN rs : ~Restatement(rs, i)})

(* Mutant: the last rows are kept, in flight or not. *)
TrimmedByAge(rows) ==
    LET rs == Collapsed(rows)
    IN  KeepAt(rs, {i \in DOMAIN rs : Len(rs) - i < DoneKeep})

Trimmed(rows) ==
    LET rs == Collapsed(rows)
        done == {i \in DOMAIN rs : ~InFlight(rs[i])}
    IN  KeepAt(rs, {i \in DOMAIN rs :
            i \in done => Cardinality({j \in done : j > i}) < DoneKeep})

-----------------------------------------------------------------------------
(* Entering a call: add_recommendation.                                     *)

(* Already on file: entered today, or open since an earlier day.  The code  *)
(* updates that row's wording and returns.                                  *)
Known(t, a) ==
    \E r \in ToSet(recs) : r.ticker = t /\ r.action = a /\ (r.day = today \/ r.open)

(* Mutant: only a purchase and a sale contradict each other. *)
OppositeTrade(a, b) == {a, b} = {"BUY", "SELL"}

Opposite(a, b) == (a \in LongBias) # (b \in LongBias)

Closing(r, t, a) == r.ticker = t /\ r.open /\ Opposite(r.action, a)

Contradicted(t, a) ==
    [i \in DOMAIN recs |->
        IF Closing(recs[i], t, a)
        THEN [recs[i] EXCEPT !.open = FALSE, !.closed = today]
        ELSE recs[i]]

NewRow(t, a) ==
    [day |-> today, ticker |-> t, action |-> a, open |-> TRUE, closed |-> 0,
     said |-> FALSE, scores |-> {}, held |-> FALSE]

AfterCall(t, a) ==
    Trimmed(IF Known(t, a) THEN recs ELSE Append(Contradicted(t, a), NewRow(t, a)))

Restate(t, a) ==
    /\ Known(t, a)
    /\ recs' = AfterCall(t, a)
    /\ UNCHANGED <<today, theses, scorer, entered, due, raced>>

(* owned: the portfolio could be read and holds the ticker.                 *)
EnterCall(t, a) ==
    /\ ~Known(t, a)
    /\ entered < MaxCalls /\ entered' = entered + 1
    /\ \E owned \in BOOLEAN :
         theses' = IF a \in ReduceBias /\ owned /\ theses[t] # NoThesis
                   THEN [theses EXCEPT ![t] = "exit signal"] ELSE theses
    /\ recs' = AfterCall(t, a)
    /\ due' = {c \in due : c.ticker = t => ~Opposite(c.action, a)}
                \cup {Call(NewRow(t, a))}
    /\ raced' = raced \ {Call(NewRow(t, a))}
    /\ UNCHANGED <<today, scorer>>

Advise(t, a) == Restate(t, a) \/ EnterCall(t, a)

(* set_recommendation_execution: the user says what became of the advice.   *)
Report(t) ==
    /\ \E r \in ToSet(recs) : r.ticker = t /\ r.open
    /\ recs' = [i \in DOMAIN recs |->
                  IF recs[i].ticker = t /\ recs[i].open
                  THEN [recs[i] EXCEPT !.said = TRUE] ELSE recs[i]]
    /\ UNCHANGED <<today, theses, scorer, entered, due, raced>>

(* The user's own theses: add_active_thesis, update_active_thesis (an edit  *)
(* clears the exit signal) and delete_active_thesis.                        *)
PinThesis(t) ==
    /\ theses[t] = NoThesis
    /\ theses' = [theses EXCEPT ![t] = "live"]
    /\ UNCHANGED <<today, recs, scorer, entered, due, raced>>

EditThesis(t) ==
    /\ theses[t] = "exit signal"
    /\ theses' = [theses EXCEPT ![t] = "live"]
    /\ UNCHANGED <<today, recs, scorer, entered, due, raced>>

DeleteThesis(t) ==
    /\ theses[t] # NoThesis
    /\ theses' = [theses EXCEPT ![t] = NoThesis]
    /\ UNCHANGED <<today, recs, scorer, entered, due, raced>>

-----------------------------------------------------------------------------
(* Grading: score_past_recommendations and the load and save around it.     *)

Load(s) ==
    /\ scorer[s] = NotScoring
    /\ scorer' = [scorer EXCEPT ![s] =
            [busy |-> TRUE, day |-> today, recs |-> recs, theses |-> theses]]
    /\ UNCHANGED <<today, recs, theses, entered, due, raced>>

(* Mutant: a closed call goes on to be graded on the horizons. *)
ReachedClosed(r, now) == {h \in Horizons \ r.scores : now - r.day >= h}

(* The horizons a row has reached and was not graded on.  A closed row is   *)
(* graded once, on the days it was held, and on no horizon.                 *)
Reached(r, now) == IF r.open THEN {h \in Horizons \ r.scores : now - r.day >= h} ELSE {}

Gradable(r) == ~r.open /\ ~r.held /\ r.closed - r.day >= MinHold

(* What is left to grade: rows by their place, horizons by their length.    *)
Gradings(rs, now) ==
    (UNION {{i} \X Reached(rs[i], now) : i \in DOMAIN rs})
        \cup ({i \in DOMAIN rs : Gradable(rs[i])} \X {Held})

Graded(rs, priced) ==
    [i \in DOMAIN rs |-> [rs[i] EXCEPT
        !.scores = @ \cup {h \in Horizons : <<i, h>> \in priced},
        !.held = @ \/ <<i, Held>> \in priced]]

(* Whatever of it can be priced is graded, and saving puts back the whole   *)
(* file as it was loaded.                                                   *)
Save(s) ==
    /\ scorer[s] # NotScoring
    /\ \E priced \in SUBSET Gradings(scorer[s].recs, scorer[s].day) :
         /\ priced # {}
         /\ recs' = Graded(scorer[s].recs, priced)
    /\ theses' = scorer[s].theses
    /\ due' = due \ {Call(r) : r \in {q \in ToSet(recs') : FullyGraded(q)}}
    /\ raced' = raced \cup (OpenCalls(recs) \ OpenCalls(scorer[s].recs))
    /\ scorer' = [scorer EXCEPT ![s] = NotScoring]
    /\ UNCHANGED <<today, entered>>

(* Nothing could be graded, so nothing is saved.                            *)
NothingGraded(s) ==
    /\ scorer[s] # NotScoring
    /\ scorer' = [scorer EXCEPT ![s] = NotScoring]
    /\ UNCHANGED <<today, recs, theses, entered, due, raced>>

NextDay ==
    /\ today < MaxDay
    /\ today' = today + 1
    /\ UNCHANGED <<recs, theses, scorer, entered, due, raced>>

LedgerNext ==
    \/ NextDay
    \/ \E t \in Tickers, a \in Actions : Advise(t, a)
    \/ \E t \in Tickers : Report(t) \/ PinThesis(t) \/ EditThesis(t) \/ DeleteThesis(t)
    \/ \E s \in Scorers : Load(s) \/ Save(s) \/ NothingGraded(s)

LedgerSpec == LedgerInit /\ [][LedgerNext]_ledgerVars

-----------------------------------------------------------------------------
(* The ledger holds rows, the theses their states, and only calls that were *)
(* entered are owed a grade: the shapes add_recommendation writes.          *)
LedgerTypeOK ==
    /\ recs \in Seq(Rows)
    /\ theses \in [Tickers -> {NoThesis, "live", "exit signal"}]
    /\ today \in 1..MaxDay
    /\ \A c \in due : c.day \in 1..today

(* Advice never points both ways, and a call restated day after day is on   *)
(* file once: no ticker has an open call to own it beside one to reduce it, *)
(* or two open rows of one stance that this version wrote, however the      *)
(* saves of older files interleave.                                         *)
OpenRowsAgree == Agree(recs)

(* A call that nothing contradicted stays in the ledger until it is graded  *)
(* on every horizon or too old to be, unless a scorer saved over it: bounding *)
(* the ledger never costs a call its grade.                                 *)
CallKept ==
    \A c \in due \ raced :
        today - c.day <= Retention => \E r \in ToSet(recs) : r.open /\ Call(r) = c

(* A grade is always earned, however calls are closed between a scorer's    *)
(* load and its save.                                                       *)
GradesEarned == \A r \in ToSet(recs) : Earned(r, today)

(* Well-formed rows with earned grades.                                     *)
LedgerInv == LedgerTypeOK /\ GradesEarned

(* The first open row of a stance is its anchor: while the stance stays     *)
(* open, no call, report or trim moves its date or forgets what the user    *)
(* said of it (a scorer's save of an older file may).                       *)
Anchor(rs, t, a) ==
    LET own == {i \in DOMAIN rs : rs[i].open /\ rs[i].ticker = t /\ rs[i].action = a}
    IN  IF own = {} THEN {} ELSE {rs[CHOOSE i \in own : \A j \in own : i <= j]}

AnchorKept ==
    [][\/ \E s \in Scorers : Save(s)
       \/ \A t \in Tickers, a \in Actions :
            \A r \in Anchor(recs, t, a), q \in Anchor(recs', t, a) :
                q.day = r.day /\ (r.said => q.said)]_ledgerVars
=============================================================================
