---------------------------- MODULE LessonsProofs ----------------------------
(***************************************************************************)
(* Proofs about what the assistant keeps of its own advice and of its      *)
(* user's corrections: the recommendation ledger (Ledger), for any symbols,*)
(* horizons, bounds and scorers, and the lessons (Lessons), for any        *)
(* wordings, any number of drafting threads and any caps.                  *)
(***************************************************************************)
EXTENDS Lessons, Ledger, SelectionsProofs

-----------------------------------------------------------------------------
(* The recommendation ledger (Ledger).                                      *)

(* A list of rows fit to be the ledger of a day: what a file is, and what a *)
(* scorer holds.                                                            *)
FitLedger(now) ==
    {rs \in Seq(Rows) :
        (\A i \in DOMAIN rs : Earned(rs[i], now)) /\ Agree(rs) /\ Unbroken(rs)}

Theses == [Tickers -> {NoThesis, "live", "exit signal"}]

Scoring(now) ==
    {NotScoring} \cup [busy : {TRUE}, day : 1..now, recs : FitLedger(now), theses : Theses]

(* A call stands while an open row of it waits for a grade.  Rows that have *)
(* every grade may be trimmed, but their calls are owed nothing more.       *)
Stands(rs, c) == \E i \in DOMAIN rs : rs[i].open /\ Call(rs[i]) = c /\ ~FullyGraded(rs[i])

CallsStand == \A c \in due \ raced : today - c.day <= Retention => Stands(recs, c)

LedgerIInv ==
    /\ today \in 1..MaxDay
    /\ recs \in FitLedger(today)
    /\ theses \in Theses
    /\ scorer \in [Scorers -> Scoring(today)]
    /\ \A c \in due : c.day \in 1..today
    /\ CallsStand

LEMMA LedgerBounds ==
  /\ MaxDay \in Nat \ {0} /\ Retention \in Nat /\ MinHold \in Nat
  /\ Horizons # {} /\ \A h \in Horizons : h \in Nat /\ h > 0
  BY LedgerAssumption

LEMMA RowsFields ==
  ASSUME NEW rs \in Seq(Rows)
  PROVE  /\ Len(rs) \in Nat /\ DOMAIN rs = 1..Len(rs)
         /\ \A i \in DOMAIN rs :
              /\ i \in Int /\ rs[i] \in Rows /\ rs[i].day \in Int /\ rs[i].closed \in Int
              /\ rs[i].ticker \in Tickers /\ rs[i].action \in Actions
              /\ rs[i].scores \in SUBSET Horizons
              /\ rs[i].open \in BOOLEAN /\ rs[i].held \in BOOLEAN
<1>1. \A r \in Rows : /\ r.day \in Int /\ r.closed \in Int
                      /\ r.ticker \in Tickers /\ r.action \in Actions
                      /\ r.scores \in SUBSET Horizons
                      /\ r.open \in BOOLEAN /\ r.held \in BOOLEAN
  BY DEF Rows
<1>2. Len(rs) \in Nat /\ DOMAIN rs = 1..Len(rs)
  BY LenProperties
<1>3. ASSUME NEW i \in DOMAIN rs PROVE i \in Int /\ rs[i] \in Rows
  <2>1. i \in 1..Len(rs)
    BY <1>2
  <2> QED BY <1>2, <2>1, ElementOfSeq
<1> QED BY <1>1, <1>2, <1>3

(* What was earned stays earned.                                            *)
LEMMA FitLater ==
  ASSUME NEW now \in Int, NEW later \in Int, now <= later
  PROVE  FitLedger(now) \subseteq FitLedger(later) /\ Scoring(now) \subseteq Scoring(later)
<1>1. ASSUME NEW rs \in FitLedger(now) PROVE rs \in FitLedger(later)
  <2>1. rs \in Seq(Rows) /\ Agree(rs) /\ Unbroken(rs) /\ \A i \in DOMAIN rs : Earned(rs[i], now)
    BY DEF FitLedger
  <2>2. ASSUME NEW i \in DOMAIN rs PROVE Earned(rs[i], later)
    <3>1. /\ rs[i].day \in Int /\ rs[i].closed \in Int
          /\ \A h \in rs[i].scores : h \in Int
      BY <2>1, RowsFields, LedgerBounds
    <3> QED BY <2>1, <3>1 DEF Earned
  <2> QED BY <2>1, <2>2 DEF FitLedger
<1>2. 1..now \subseteq 1..later
  OBVIOUS
<1>3. FitLedger(now) \subseteq FitLedger(later)
  BY <1>1
<1> QED BY <1>2, <1>3 DEF Scoring

(* A list of the same calls, open or closed as before, is fit if its grades *)
(* are earned.                                                              *)
LEMMA FitRegraded ==
  ASSUME NEW now, NEW rs \in FitLedger(now), NEW c \in Seq(Rows), DOMAIN c = DOMAIN rs,
         \A i \in DOMAIN rs : /\ Earned(c[i], now) /\ c[i].day = rs[i].day
                              /\ c[i].ticker = rs[i].ticker /\ c[i].action = rs[i].action
                              /\ c[i].open = rs[i].open
  PROVE  c \in FitLedger(now)
<1>1. Agree(rs) /\ Unbroken(rs)
  BY DEF FitLedger
<1>2. Agree(c)
  BY <1>1, SMTT(30) DEF Agree, SameStance
<1>3. Unbroken(c)
  BY <1>1, ZenonT(60) DEF Unbroken, SameStance
<1> QED BY <1>2, <1>3 DEF FitLedger

(* What is kept of a fit list, in its order, is fit.                        *)
LEMMA FitKept ==
  ASSUME NEW now, NEW rs \in FitLedger(now), NEW S \in SUBSET DOMAIN rs
  PROVE  /\ KeepAt(rs, S) \in FitLedger(now)
         /\ \A n \in DOMAIN KeepAt(rs, S) : \E i \in S : KeepAt(rs, S)[n] = rs[i]
         /\ \A i \in S : \E n \in DOMAIN KeepAt(rs, S) : KeepAt(rs, S)[n] = rs[i]
<1>1. /\ rs \in Seq(Rows) /\ Agree(rs) /\ Unbroken(rs)
      /\ \A i \in DOMAIN rs : Earned(rs[i], now)
  BY DEF FitLedger
<1>2. PICK kept : kept = KeepAt(rs, S)
  OBVIOUS
<1>3. /\ KeepAt(rs, S) \in Seq(Rows)
      /\ \E place \in [DOMAIN KeepAt(rs, S) -> S] :
           /\ \A i \in DOMAIN KeepAt(rs, S) : KeepAt(rs, S)[i] = rs[place[i]]
           /\ \A i, j \in DOMAIN KeepAt(rs, S) : i < j => place[i] < place[j]
           /\ \A k \in S : \E i \in DOMAIN KeepAt(rs, S) : place[i] = k
  <2>1. rs \in Seq(Rows) /\ S \in SUBSET DOMAIN rs
    BY <1>1
  <2> QED BY ONLY <2>1, KeepAtLemma, SMTT(30)
<1>4. PICK place \in [DOMAIN kept -> S] :
           /\ \A i \in DOMAIN kept : kept[i] = rs[place[i]]
           /\ \A i, j \in DOMAIN kept : i < j => place[i] < place[j]
           /\ \A k \in S : \E i \in DOMAIN kept : place[i] = k
  BY <1>2, <1>3
<1>5. \A i \in DOMAIN kept : place[i] \in S /\ place[i] \in DOMAIN rs /\ kept[i] = rs[place[i]]
  BY <1>4
<1>6. Agree(kept)
  BY <1>1, <1>4, <1>5 DEF Agree
<1>7. Unbroken(kept)
  BY <1>1, <1>4, <1>5 DEF Unbroken
<1>8. \A i \in DOMAIN kept : Earned(kept[i], now)
  BY <1>1, <1>5
<1>9. kept \in FitLedger(now)
  BY <1>2, <1>3, <1>6, <1>7, <1>8 DEF FitLedger
<1> QED BY <1>2, <1>4, <1>5, <1>9

(* A call as this version enters it is no restatement, and in a fit list a  *)
(* row that follows an open one of its stance is one if it is open.         *)
LEMMA RestatementFacts ==
  ASSUME NEW now, NEW rs \in FitLedger(now), NEW i \in DOMAIN rs, rs[i].open
  PROVE  /\ rs[i].day >= 1 => ~Restatement(rs, i)
         /\ ~Restatement(rs, i) =>
              \A j \in DOMAIN rs : j < i => ~(rs[j].open /\ SameStance(rs[j], rs[i]))
<1>1. /\ Len(rs) \in Nat /\ DOMAIN rs = 1..Len(rs) /\ i \in Int /\ rs[i].day \in Int
      /\ Agree(rs) /\ Unbroken(rs)
  BY RowsFields DEF FitLedger
<1>2. ASSUME Restatement(rs, i) PROVE rs[i].day < 1
  <2>1. PICK j \in 1..i - 1 : rs[j].open /\ SameStance(rs[j], rs[i])
    BY <1>2 DEF Restatement
  <2>2. j \in DOMAIN rs /\ j < i
    BY <1>1
  <2> QED BY <1>1, <2>1, <2>2 DEF Agree, SameStance
<1>3. ASSUME NEW j \in DOMAIN rs, j < i, rs[j].open, SameStance(rs[j], rs[i])
      PROVE  Restatement(rs, i)
  <2>1. j \in 1..i - 1
    BY <1>1, <1>3
  <2>2. ASSUME NEW k \in j + 1..i - 1, SameStance(rs[k], rs[i]) PROVE rs[k].open
    <3>1. k \in DOMAIN rs /\ j < k /\ k < i
      BY <1>1, <2>1, <2>2
    <3>2. SameStance(rs[j], rs[k])
      BY <1>3, <2>2 DEF SameStance
    <3> QED BY <1>1, <1>3, <3>1, <3>2 DEF Unbroken
  <2> QED BY <1>3, <2>1, <2>2 DEF Restatement
<1> QED BY <1>1, <1>2, <1>3

(* Bounding a fit ledger leaves a fit one, keeps every call that stands and *)
(* is young enough to be graded, and of the open rows of a stance only the  *)
(* first can be left.                                                       *)
LEMMA TrimmedFacts ==
  ASSUME today \in Int, NEW rs \in FitLedger(today)
  PROVE  /\ Trimmed(rs) \in FitLedger(today)
         /\ \A c : /\ c.day >= 1 /\ today - c.day <= Retention /\ Stands(rs, c)
                  => Stands(Trimmed(rs), c)
         /\ \A n \in DOMAIN Trimmed(rs) : Trimmed(rs)[n].open =>
              \E i \in DOMAIN rs :
                /\ Trimmed(rs)[n] = rs[i]
                /\ \A j \in DOMAIN rs : j < i => ~(rs[j].open /\ SameStance(rs[j], rs[i]))
<1> DEFINE S == {i \in DOMAIN rs : ~Restatement(rs, i)}
           c1 == Collapsed(rs)
           done == {i \in DOMAIN c1 : ~InFlight(c1[i])}
           T == {i \in DOMAIN c1 : i \in done => Cardinality({j \in done : j > i}) < DoneKeep}
<1>1. c1 = KeepAt(rs, S) /\ Trimmed(rs) = KeepAt(c1, T)
  BY DEF Collapsed, Trimmed
<1>2. S \in SUBSET DOMAIN rs /\ T \in SUBSET DOMAIN c1
  OBVIOUS
<1>3. \A i \in DOMAIN c1 : InFlight(c1[i]) => i \in T
  OBVIOUS
<1>4. \A i \in DOMAIN rs : ~Restatement(rs, i) <=> i \in S
  OBVIOUS
<1> HIDE DEF S, c1, done, T
<1>5. /\ c1 \in FitLedger(today)
      /\ \A n \in DOMAIN c1 : \E i \in S : c1[n] = rs[i]
      /\ \A i \in S : \E n \in DOMAIN c1 : c1[n] = rs[i]
  BY <1>1, <1>2, FitKept
<1>6. PICK t : t = Trimmed(rs)
  OBVIOUS
<1>7. /\ t \in FitLedger(today)
      /\ \A n \in DOMAIN t : \E i \in T : t[n] = c1[i]
      /\ \A i \in T : \E n \in DOMAIN t : t[n] = c1[i]
  <2>1. /\ KeepAt(c1, T) \in FitLedger(today)
        /\ \A n \in DOMAIN KeepAt(c1, T) : \E i \in T : KeepAt(c1, T)[n] = c1[i]
        /\ \A i \in T : \E n \in DOMAIN KeepAt(c1, T) : KeepAt(c1, T)[n] = c1[i]
    BY ONLY <1>2, <1>5, FitKept
  <2>2. t = KeepAt(c1, T)
    BY <1>1, <1>6
  <2> QED BY <2>1, <2>2
<1>8. ASSUME NEW c, c.day >= 1, today - c.day <= Retention, Stands(rs, c) PROVE Stands(t, c)
  <2>1. PICK i \in DOMAIN rs : rs[i].open /\ Call(rs[i]) = c /\ ~FullyGraded(rs[i])
    BY <1>8 DEF Stands
  <2>2. rs[i].day = c.day
    BY <2>1 DEF Call
  <2>3. i \in S
    BY <1>4, <1>8, <2>1, <2>2, RestatementFacts
  <2>4. PICK n \in DOMAIN c1 : c1[n] = rs[i]
    BY <1>5, <2>3
  <2>5. InFlight(c1[n])
    BY <1>8, <2>1, <2>2, <2>4 DEF InFlight
  <2>6. PICK m \in DOMAIN t : t[m] = c1[n]
    BY <1>3, <1>7, <2>5
  <2> QED BY <2>1, <2>4, <2>6 DEF Stands
<1>9. ASSUME NEW n \in DOMAIN t, t[n].open
      PROVE  \E i \in DOMAIN rs :
                /\ t[n] = rs[i]
                /\ \A j \in DOMAIN rs : j < i => ~(rs[j].open /\ SameStance(rs[j], rs[i]))
  <2>1. PICK m \in DOMAIN c1 : t[n] = c1[m]
    BY <1>2, <1>7
  <2>2. PICK i \in S : c1[m] = rs[i]
    BY <1>5
  <2>3. i \in DOMAIN rs /\ ~Restatement(rs, i) /\ rs[i].open /\ t[n] = rs[i]
    BY <1>2, <1>4, <1>9, <2>1, <2>2
  <2> QED BY <2>3, RestatementFacts
<1> QED BY <1>6, <1>7, <1>8, <1>9

(* A new call on a fit ledger without its stance: what it contradicts is    *)
(* closed and its row joins.                                                *)
Joins(rs, t, a) ==
    /\ today \in 1..MaxDay /\ recs \in FitLedger(today)
    /\ t \in Tickers /\ a \in Actions /\ ~Known(t, a)
    /\ rs = Append(Contradicted(t, a), NewRow(t, a))

LEMMA CallJoins ==
  ASSUME NEW rs, NEW t, NEW a, Joins(rs, t, a)
  PROVE  /\ rs \in FitLedger(today)
         /\ DOMAIN rs = 1..(Len(recs) + 1) /\ Len(recs) \in Nat /\ DOMAIN recs = 1..Len(recs)
         /\ rs[Len(recs) + 1] = NewRow(t, a)
         /\ \A i \in DOMAIN recs : ~Closing(recs[i], t, a) => rs[i] = recs[i]
         /\ \A i \in DOMAIN recs : rs[i].open => ~Closing(recs[i], t, a)
         /\ \A i \in DOMAIN recs : recs[i].open => ~(recs[i].ticker = t /\ recs[i].action = a)
<1>0. /\ today \in 1..MaxDay /\ recs \in FitLedger(today)
      /\ t \in Tickers /\ a \in Actions /\ ~Known(t, a)
      /\ rs = Append(Contradicted(t, a), NewRow(t, a))
  BY DEF Joins
<1> USE <1>0
<1> DEFINE n == Len(recs)
<1>1. /\ recs \in Seq(Rows) /\ n \in Nat /\ DOMAIN recs = 1..n
      /\ Agree(recs) /\ Unbroken(recs) /\ today \in Int
      /\ \A i \in DOMAIN recs : Earned(recs[i], today)
  BY RowsFields DEF FitLedger
<1>2. \A i \in DOMAIN recs :
         /\ i \in Int /\ recs[i] \in Rows /\ recs[i].day \in Int /\ recs[i].closed \in Int
         /\ recs[i].ticker \in Tickers /\ recs[i].action \in Actions
         /\ recs[i].scores \in SUBSET Horizons
         /\ recs[i].open \in BOOLEAN /\ recs[i].held \in BOOLEAN
  BY <1>1, RowsFields
<1>3. \A i \in DOMAIN recs : recs[i].open => ~(recs[i].ticker = t /\ recs[i].action = a)
  BY DEF Known, ToSet
<1>4. PICK q : q = NewRow(t, a)
  OBVIOUS
<1>5. /\ q \in Rows /\ q.day = today /\ q.ticker = t /\ q.action = a /\ q.open
      /\ q.scores = {} /\ ~q.held
  BY <1>1, <1>4 DEF NewRow, Rows
<1>6. PICK c : c = Contradicted(t, a)
  OBVIOUS
<1>7. ASSUME NEW r \in Rows, NEW x, x = [r EXCEPT !.open = FALSE, !.closed = today]
      PROVE  /\ x \in Rows /\ x.day = r.day /\ x.ticker = r.ticker /\ x.action = r.action
             /\ ~x.open /\ x.closed = today /\ x.scores = r.scores /\ x.held = r.held
  BY <1>1, <1>7 DEF Rows
<1>8. ASSUME NEW i \in DOMAIN recs
      PROVE  /\ c[i] \in Rows /\ c[i].day = recs[i].day /\ c[i].ticker = recs[i].ticker
             /\ c[i].action = recs[i].action
             /\ c[i].open => recs[i].open /\ ~Closing(recs[i], t, a)
             /\ ~Closing(recs[i], t, a) => c[i] = recs[i]
             /\ Earned(c[i], today)
  <2>1. CASE Closing(recs[i], t, a)
    <3>1. c[i] = [recs[i] EXCEPT !.open = FALSE, !.closed = today]
      BY <1>6, <2>1 DEF Contradicted
    <3>2. /\ c[i] \in Rows /\ c[i].day = recs[i].day /\ c[i].ticker = recs[i].ticker
          /\ c[i].action = recs[i].action /\ ~c[i].open /\ c[i].closed = today
          /\ c[i].scores = recs[i].scores /\ c[i].held = recs[i].held
      BY <1>2, <1>7, <3>1
    <3>3. recs[i].open /\ Earned(recs[i], today)
      BY <1>1, <2>1 DEF Closing
    <3>4. Earned(c[i], today)
      BY <3>2, <3>3 DEF Earned
    <3> QED BY <2>1, <3>2, <3>4
  <2>2. CASE ~Closing(recs[i], t, a)
    <3>1. c[i] = recs[i]
      BY <1>6, <2>2 DEF Contradicted
    <3> QED BY <1>1, <1>2, <2>2, <3>1
  <2> QED BY <2>1, <2>2
<1>9. c \in [1..n -> Rows]
  BY <1>1, <1>6, <1>8 DEF Contradicted
<1>10. c \in Seq(Rows) /\ Len(c) = n
  BY <1>1, <1>9, SeqDef, LenProperties
<1>11. /\ rs \in Seq(Rows) /\ Len(rs) = n + 1
       /\ \A i \in 1..n : rs[i] = c[i]
       /\ rs[n + 1] = q
  <2>1. rs = Append(c, q)
    BY <1>4, <1>6
  <2> QED BY <1>5, <1>10, <2>1, AppendProperties
<1>12. DOMAIN rs = 1..(n + 1)
  BY <1>11, LenProperties
<1>13. /\ \A i \in DOMAIN recs : ~Closing(recs[i], t, a) => rs[i] = recs[i]
       /\ \A i \in DOMAIN recs : rs[i].open => ~Closing(recs[i], t, a)
  BY <1>1, <1>8, <1>11
<1> HIDE DEF n
<1>14. \A i \in DOMAIN rs : \/ i \in DOMAIN recs /\ i <= n
                            \/ i = n + 1 /\ rs[i] = q
  BY <1>1, <1>11, <1>12
<1>15. \A i \in DOMAIN recs :
         /\ rs[i].day = recs[i].day /\ rs[i].ticker = recs[i].ticker /\ rs[i].action = recs[i].action
         /\ rs[i].open => recs[i].open
         /\ Earned(rs[i], today)
  BY <1>1, <1>8, <1>11
<1>16. \A i \in DOMAIN recs : rs[i].open /\ rs[i].ticker = t =>
          /\ rs[i].action \in LongBias <=> a \in LongBias
          /\ rs[i].action # a
  BY <1>3, <1>13, <1>15 DEF Closing, Opposite
<1>17. \A i \in DOMAIN rs : Earned(rs[i], today)
  BY <1>5, <1>14, <1>15 DEF Earned
<1>18. Agree(rs)
  <2> SUFFICES ASSUME NEW i \in DOMAIN rs, NEW j \in DOMAIN rs, i < j,
                      rs[i].open, rs[j].open, rs[i].ticker = rs[j].ticker
               PROVE  /\ rs[i].action \in LongBias <=> rs[j].action \in LongBias
                      /\ SameStance(rs[i], rs[j]) => rs[j].day < 1
    BY DEF Agree
  <2>1. i \in DOMAIN recs
    BY <1>1, <1>12
  <2>2. CASE j \in DOMAIN recs
    BY <1>1, <1>15, <2>1, <2>2 DEF Agree, SameStance
  <2>3. CASE j = n + 1 /\ rs[j] = q
    BY <1>5, <1>16, <2>1, <2>3 DEF SameStance
  <2> QED BY <1>14, <2>2, <2>3
<1>19. Unbroken(rs)
  <2> SUFFICES ASSUME NEW i \in DOMAIN rs, NEW j \in DOMAIN rs, NEW k \in DOMAIN rs,
                      i < k, k < j, rs[i].open, rs[j].open,
                      SameStance(rs[i], rs[j]), SameStance(rs[i], rs[k])
               PROVE  rs[k].open
    BY DEF Unbroken
  <2>1. i \in DOMAIN recs /\ k \in DOMAIN recs
    BY <1>1, <1>12
  <2>2. CASE j \in DOMAIN recs
    <3>1. recs[i].open /\ recs[j].open /\ SameStance(recs[i], recs[j]) /\ SameStance(recs[i], recs[k])
      BY <1>15, <2>1, <2>2 DEF SameStance
    <3>2. recs[k].open
      BY <1>1, <2>1, <2>2, <3>1 DEF Unbroken
    <3>3. ~Closing(recs[i], t, a)
      BY <1>13, <2>1
    <3>4. ~Closing(recs[k], t, a)
      BY <3>1, <3>3 DEF Closing, SameStance
    <3> QED BY <1>13, <2>1, <3>2, <3>4
  <2>3. CASE j = n + 1 /\ rs[j] = q
    BY <1>5, <1>16, <2>1, <2>3 DEF SameStance
  <2> QED BY <1>14, <2>2, <2>3
<1>20. rs \in FitLedger(today)
  BY <1>11, <1>17, <1>18, <1>19 DEF FitLedger
<1> QED BY <1>1, <1>3, <1>4, <1>11, <1>12, <1>13, <1>20 DEF n

(* The user's word on open rows changes nothing else of them.               *)
LEMMA ReportFacts ==
  ASSUME today \in Int, recs \in FitLedger(today), NEW t \in Tickers, Report(t)
  PROVE  /\ recs' \in FitLedger(today) /\ DOMAIN recs' = DOMAIN recs
         /\ \A i \in DOMAIN recs :
              /\ Call(recs'[i]) = Call(recs[i]) /\ SameStance(recs[i], recs'[i])
              /\ recs'[i].day = recs[i].day
              /\ recs'[i].open = recs[i].open /\ recs'[i].scores = recs[i].scores
              /\ recs[i].said => recs'[i].said
<1>1. /\ recs \in Seq(Rows) /\ Len(recs) \in Nat /\ DOMAIN recs = 1..Len(recs)
      /\ \A i \in DOMAIN recs : recs[i] \in Rows /\ Earned(recs[i], today)
  BY RowsFields DEF FitLedger
<1>2. PICK c : c = recs'
  OBVIOUS
<1>3. ASSUME NEW r \in Rows, NEW x, x = [r EXCEPT !.said = TRUE]
      PROVE  /\ x \in Rows /\ x.day = r.day /\ x.ticker = r.ticker /\ x.action = r.action
             /\ x.open = r.open /\ x.closed = r.closed /\ x.scores = r.scores
             /\ x.held = r.held /\ x.said
  BY <1>3 DEF Rows
<1>4. ASSUME NEW i \in DOMAIN recs
      PROVE  /\ c[i] \in Rows /\ c[i].day = recs[i].day /\ c[i].ticker = recs[i].ticker
             /\ c[i].action = recs[i].action /\ c[i].open = recs[i].open
             /\ c[i].scores = recs[i].scores
             /\ recs[i].said => c[i].said
             /\ Earned(c[i], today)
  <2>1. CASE recs[i].ticker = t /\ recs[i].open
    <3>1. c[i] = [recs[i] EXCEPT !.said = TRUE]
      BY <1>2, <2>1 DEF Report
    <3>2. /\ c[i] \in Rows /\ c[i].day = recs[i].day /\ c[i].ticker = recs[i].ticker
          /\ c[i].action = recs[i].action /\ c[i].open = recs[i].open
          /\ c[i].closed = recs[i].closed /\ c[i].scores = recs[i].scores
          /\ c[i].held = recs[i].held /\ c[i].said
      BY <1>1, <1>3, <3>1
    <3>3. Earned(recs[i], today)
      BY <1>1
    <3>4. Earned(c[i], today)
      BY <3>2, <3>3 DEF Earned
    <3> QED BY <3>2, <3>4
  <2>2. CASE ~(recs[i].ticker = t /\ recs[i].open)
    <3>1. c[i] = recs[i]
      BY <1>2, <2>2 DEF Report
    <3> QED BY <1>1, <3>1
  <2> QED BY <2>1, <2>2
<1>5. DOMAIN c = DOMAIN recs /\ c \in [1..Len(recs) -> Rows]
  BY <1>1, <1>2, <1>4 DEF Report
<1>6. c \in Seq(Rows)
  BY <1>1, <1>5, SeqDef
<1>7. c \in FitLedger(today)
  BY <1>4, <1>5, <1>6, FitRegraded
<1>8. \A i \in DOMAIN recs : Call(c[i]) = Call(recs[i]) /\ SameStance(recs[i], c[i])
  BY <1>4 DEF Call, SameStance
<1> QED BY <1>2, <1>4, <1>5, <1>7, <1>8

(* Grades given on what a scorer loaded on an earlier day are earned today. *)
LEMMA GradedFacts ==
  ASSUME today \in 1..MaxDay, NEW rs \in FitLedger(today), NEW day \in 1..today,
         NEW priced \in SUBSET Gradings(rs, day), NEW c, c = Graded(rs, priced)
  PROVE  /\ c \in FitLedger(today) /\ DOMAIN c = DOMAIN rs
         /\ \A i \in DOMAIN rs : Call(c[i]) = Call(rs[i]) /\ c[i].open = rs[i].open
<1>1. /\ rs \in Seq(Rows) /\ Len(rs) \in Nat /\ DOMAIN rs = 1..Len(rs)
      /\ today \in Int /\ day \in Int /\ day <= today
      /\ \A i \in DOMAIN rs :
            /\ rs[i] \in Rows /\ Earned(rs[i], today) /\ rs[i].day \in Int
            /\ rs[i].scores \in SUBSET Horizons /\ rs[i].held \in BOOLEAN
            /\ rs[i].open \in BOOLEAN
  BY RowsFields DEF FitLedger
<1>2. ASSUME NEW i \in DOMAIN rs, NEW h \in Horizons, <<i, h>> \in priced
      PROVE  rs[i].open /\ today - rs[i].day >= h
  <2>1. <<i, h>> \in Gradings(rs, day) /\ h # Held /\ h \in Int
    BY <1>2, LedgerBounds DEF Held
  <2>2. h \in Reached(rs[i], day)
    BY <2>1 DEF Gradings
  <2> QED BY <1>1, <2>1, <2>2 DEF Reached
<1>3. ASSUME NEW i \in DOMAIN rs, <<i, Held>> \in priced
      PROVE  ~rs[i].open /\ rs[i].closed - rs[i].day >= MinHold
  <2>1. <<i, Held>> \in Gradings(rs, day) /\ Held \notin Horizons
    BY <1>3, LedgerBounds DEF Held
  <2>2. Held \notin Reached(rs[i], day)
    BY <2>1 DEF Reached
  <2>3. Gradable(rs[i])
    BY <2>1, <2>2 DEF Gradings
  <2> QED BY <2>3 DEF Gradable
<1>5. ASSUME NEW i \in DOMAIN rs
      PROVE  /\ c[i] \in Rows /\ c[i].day = rs[i].day /\ c[i].ticker = rs[i].ticker
             /\ c[i].action = rs[i].action /\ c[i].open = rs[i].open
             /\ Earned(c[i], today)
  <2>1. PICK g \in SUBSET Horizons :
          g = rs[i].scores \cup {h \in Horizons : <<i, h>> \in priced}
    BY <1>1
  <2>2. PICK b \in BOOLEAN : b = (rs[i].held \/ <<i, Held>> \in priced)
    OBVIOUS
  <2>3. c[i] = [rs[i] EXCEPT !.scores = g, !.held = b]
    BY <2>1, <2>2 DEF Graded
  <2>4. /\ c[i] \in Rows /\ c[i].day = rs[i].day /\ c[i].ticker = rs[i].ticker
        /\ c[i].action = rs[i].action /\ c[i].open = rs[i].open /\ c[i].closed = rs[i].closed
        /\ c[i].scores = g /\ c[i].held = b
    <3>1. PICK r \in Rows : r = rs[i]
      BY <1>1
    <3>2. PICK x : x = c[i]
      OBVIOUS
    <3>3. x = [r EXCEPT !.scores = g, !.held = b]
      BY <2>3, <3>1, <3>2
    <3>4. /\ x \in Rows /\ x.day = r.day /\ x.ticker = r.ticker /\ x.action = r.action
          /\ x.open = r.open /\ x.closed = r.closed /\ x.scores = g /\ x.held = b
      BY ONLY <3>3 DEF Rows
    <3> QED BY <3>1, <3>2, <3>4
  <2>5. Earned(rs[i], today)
    BY <1>1
  <2>6. \A h \in g : (IF rs[i].open THEN today ELSE rs[i].closed) - rs[i].day >= h
    BY <1>2, <2>1, <2>5 DEF Earned
  <2>7. b => ~rs[i].open /\ rs[i].closed - rs[i].day >= MinHold
    BY <1>3, <2>2, <2>5 DEF Earned
  <2>8. Earned(c[i], today)
    BY <2>4, <2>6, <2>7 DEF Earned
  <2> QED BY <2>4, <2>8
<1>6. DOMAIN c = DOMAIN rs /\ c \in [1..Len(rs) -> Rows]
  BY <1>1, <1>5 DEF Graded
<1>7. c \in Seq(Rows)
  BY <1>1, <1>6, SeqDef
<1>8. c \in FitLedger(today)
  BY <1>5, <1>6, <1>7, FitRegraded
<1> QED BY <1>5, <1>6, <1>8 DEF Call

(* The anchor of a stance is its first open row.                            *)
First(rs, i) ==
    /\ i \in DOMAIN rs /\ rs[i].open
    /\ \A j \in DOMAIN rs : j < i => ~(rs[j].open /\ SameStance(rs[j], rs[i]))

LEMMA AnchorIsFirst ==
  ASSUME NEW rs \in Seq(Rows), NEW t, NEW a, NEW r \in Anchor(rs, t, a)
  PROVE  \E i \in DOMAIN rs : First(rs, i) /\ r = rs[i] /\ r.ticker = t /\ r.action = a
<1>1. PICK own : own = {i \in DOMAIN rs : rs[i].open /\ rs[i].ticker = t /\ rs[i].action = a}
  OBVIOUS
<1>2. own # {} /\ r = rs[CHOOSE i \in own : \A j \in own : i <= j]
  BY <1>1 DEF Anchor
<1>3. own \in SUBSET Nat
  BY <1>1, RowsFields
<1>4. \E i \in own : \A j \in own : i <= j
  BY <1>2, <1>3, MinExists
<1>5. PICK i \in own : r = rs[i] /\ \A j \in own : i <= j
  BY <1>2, <1>4
<1>6. \A j \in own : ~(j < i)
  BY <1>3, <1>5
<1>7. First(rs, i)
  BY <1>1, <1>5, <1>6 DEF First, SameStance
<1> QED BY <1>1, <1>5, <1>7

LEMMA FirstIsUnique ==
  ASSUME NEW rs \in Seq(Rows), NEW i \in DOMAIN rs, NEW j \in DOMAIN rs,
         First(rs, i), First(rs, j), SameStance(rs[i], rs[j])
  PROVE  i = j
<1>1. i \in Int /\ j \in Int
  BY RowsFields
<1>2. ~(i < j) /\ ~(j < i)
  BY DEF First, SameStance
<1> QED BY <1>1, <1>2

-----------------------------------------------------------------------------

LEMMA LedgerStart == LedgerInit => LedgerIInv
<1> SUFFICES ASSUME LedgerInit PROVE LedgerIInv
  OBVIOUS
<1>1. /\ today = 1 /\ recs \in Legacy /\ theses = [t \in Tickers |-> NoThesis]
      /\ scorer = [s \in Scorers |-> NotScoring] /\ due = {}
  BY DEF LedgerInit
<1>2. recs \in FitLedger(today)
  BY <1>1, LegacyAssumption DEF FitLedger
<1>3. theses \in Theses /\ scorer \in [Scorers -> Scoring(today)]
  BY <1>1 DEF Theses, Scoring
<1> QED BY <1>1, <1>2, <1>3, LedgerBounds DEF LedgerIInv, CallsStand

(* A grown or trimmed ledger: what add_recommendation leaves on file.       *)
LEMMA RestateFacts ==
  ASSUME LedgerIInv, NEW t \in Tickers, NEW a \in Actions, Restate(t, a)
  PROVE  /\ recs' \in FitLedger(today)
         /\ \A c \in due \ raced : today - c.day <= Retention => Stands(recs', c)
<1>1. recs' = Trimmed(recs) /\ today \in Int /\ recs \in FitLedger(today)
      /\ \A c \in due : c.day >= 1
  BY LedgerBounds DEF Restate, AfterCall, LedgerIInv
<1>2. /\ Trimmed(recs) \in FitLedger(today)
      /\ \A c : /\ c.day >= 1 /\ today - c.day <= Retention /\ Stands(recs, c)
               => Stands(Trimmed(recs), c)
  BY <1>1, TrimmedFacts
<1> QED BY <1>1, <1>2 DEF LedgerIInv, CallsStand

LEMMA EnterFacts ==
  ASSUME LedgerIInv, NEW t \in Tickers, NEW a \in Actions, EnterCall(t, a)
  PROVE  /\ recs' \in FitLedger(today)
         /\ \A c \in due' : c.day \in 1..today
         /\ \A c \in due' \ raced' : today - c.day <= Retention => Stands(recs', c)
<1>1. /\ today \in 1..MaxDay /\ today \in Int /\ recs \in FitLedger(today) /\ ~Known(t, a)
      /\ \A c \in due : c.day \in 1..today
      /\ CallsStand
  <2>1. ~Known(t, a)
    BY DEF EnterCall
  <2>2. /\ today \in 1..MaxDay /\ recs \in FitLedger(today)
        /\ \A c \in due : c.day \in 1..today
        /\ CallsStand
    BY DEF LedgerIInv
  <2>3. today \in Int
    BY <2>2, LedgerBounds
  <2> QED BY <2>1, <2>2, <2>3
<1>2. PICK rs : rs = Append(Contradicted(t, a), NewRow(t, a))
  OBVIOUS
<1>3. recs' = Trimmed(rs)
  BY <1>2 DEF EnterCall, AfterCall
<1>4. PICK q : q = NewRow(t, a)
  OBVIOUS
<1>5. q.day = today /\ q.ticker = t /\ q.action = a /\ q.open /\ q.scores = {}
  BY <1>4 DEF NewRow
<1>6. /\ due' = {c \in due : c.ticker = t => ~Opposite(c.action, a)} \cup {Call(q)}
      /\ raced' = raced \ {Call(q)}
  BY <1>4 DEF EnterCall
<1>7. /\ rs \in FitLedger(today)
      /\ DOMAIN rs = 1..(Len(recs) + 1) /\ Len(recs) \in Nat /\ DOMAIN recs = 1..Len(recs)
      /\ rs[Len(recs) + 1] = q
      /\ \A i \in DOMAIN recs : ~Closing(recs[i], t, a) => rs[i] = recs[i]
  <2>1. /\ rs \in FitLedger(today)
        /\ DOMAIN rs = 1..(Len(recs) + 1) /\ Len(recs) \in Nat /\ DOMAIN recs = 1..Len(recs)
        /\ rs[Len(recs) + 1] = NewRow(t, a)
        /\ \A i \in DOMAIN recs : ~Closing(recs[i], t, a) => rs[i] = recs[i]
    <3>1. Joins(rs, t, a)
      BY <1>1, <1>2 DEF Joins
    <3> QED BY ONLY <3>1, CallJoins
  <2> QED BY <1>4, <2>1
<1>8. /\ Trimmed(rs) \in FitLedger(today)
      /\ \A c : /\ c.day >= 1 /\ today - c.day <= Retention /\ Stands(rs, c)
               => Stands(Trimmed(rs), c)
  BY <1>1, <1>7, TrimmedFacts
<1>9. Call(q).day = today
  BY <1>5 DEF Call
<1>10. \A c \in due' : c.day \in 1..today
  BY <1>1, <1>6, <1>9
<1>11. Stands(rs, Call(q))
  <2>1. ~FullyGraded(q)
    BY <1>5, LedgerBounds DEF FullyGraded
  <2>2. Len(recs) + 1 \in DOMAIN rs
    BY <1>7
  <2> QED BY <1>5, <1>7, <2>1, <2>2 DEF Stands
<1>12. ASSUME NEW c \in due, c.ticker = t => ~Opposite(c.action, a), Stands(recs, c)
       PROVE  Stands(rs, c)
  <2>1. PICK i \in DOMAIN recs : recs[i].open /\ Call(recs[i]) = c /\ ~FullyGraded(recs[i])
    BY <1>12 DEF Stands
  <2>2. recs[i].ticker = c.ticker /\ recs[i].action = c.action
    BY <2>1 DEF Call
  <2>3. ~Closing(recs[i], t, a)
    BY <1>12, <2>2 DEF Closing
  <2>4. rs[i] = recs[i] /\ i \in DOMAIN rs
    BY <1>7, <2>3
  <2> QED BY <2>1, <2>4 DEF Stands
<1>13. ASSUME NEW c \in due' \ raced', today - c.day <= Retention PROVE Stands(recs', c)
  <2>1. c.day >= 1
    BY <1>1, <1>10, <1>13
  <2>2. CASE c = Call(q)
    BY <1>3, <1>8, <1>11, <1>13, <2>1, <2>2
  <2>3. CASE c # Call(q)
    <3>1. c \in due \ raced /\ (c.ticker = t => ~Opposite(c.action, a))
      BY <1>6, <2>3
    <3>2. Stands(recs, c)
      BY <1>1, <1>13, <3>1 DEF CallsStand
    <3> QED BY <1>3, <1>8, <1>12, <1>13, <2>1, <3>1, <3>2
  <2> QED BY <2>2, <2>3
<1> QED BY <1>3, <1>8, <1>10, <1>13

(* A scorer's save leaves a ledger as fit as the one it loaded.  A call it  *)
(* does not stand up for is one it dropped, closed again or graded to the   *)
(* end.                                                                     *)
LEMMA SaveFacts ==
  ASSUME LedgerIInv, NEW s \in Scorers, Save(s)
  PROVE  /\ recs' \in FitLedger(today) /\ theses' \in Theses
         /\ \A c \in due' \ raced' : today - c.day <= Retention => Stands(recs', c)
<1>1. /\ today \in 1..MaxDay /\ today \in Int /\ recs \in FitLedger(today)
      /\ scorer[s] \in Scoring(today) /\ CallsStand
  BY LedgerBounds DEF LedgerIInv
<1>2. PICK old : old = scorer[s].recs
  OBVIOUS
<1>3. PICK day : day = scorer[s].day
  OBVIOUS
<1>4. scorer[s] # NotScoring
  BY DEF Save
<1>5. old \in FitLedger(today) /\ day \in 1..today /\ scorer[s].theses \in Theses
  BY <1>1, <1>2, <1>3, <1>4 DEF Scoring
<1>6. PICK priced \in SUBSET Gradings(old, day) : recs' = Graded(old, priced)
  BY <1>2, <1>3 DEF Save
<1>7. /\ recs' \in FitLedger(today) /\ DOMAIN recs' = DOMAIN old
      /\ \A i \in DOMAIN old : Call(recs'[i]) = Call(old[i]) /\ recs'[i].open = old[i].open
  BY <1>1, <1>5, <1>6, GradedFacts
<1>8. /\ theses' \in Theses
      /\ due' = due \ {Call(r) : r \in {q \in ToSet(recs') : FullyGraded(q)}}
      /\ raced' = raced \cup (OpenCalls(recs) \ OpenCalls(old))
  BY <1>2, <1>5 DEF Save
<1>9. ASSUME NEW c \in due' \ raced', today - c.day <= Retention PROVE Stands(recs', c)
  <2>1. Stands(recs, c)
    BY <1>1, <1>8, <1>9 DEF CallsStand
  <2>2. c \in OpenCalls(recs)
    BY <2>1 DEF Stands, OpenCalls, ToSet
  <2>3. c \in OpenCalls(old)
    BY <1>8, <2>2
  <2>4. PICK i \in DOMAIN old : old[i].open /\ Call(old[i]) = c
    BY <2>3 DEF OpenCalls, ToSet
  <2>5. i \in DOMAIN recs' /\ recs'[i].open /\ Call(recs'[i]) = c
    BY <1>7, <2>4
  <2>6. ~FullyGraded(recs'[i])
    BY <1>8, <2>5 DEF ToSet
  <2> QED BY <2>5, <2>6 DEF Stands
<1> QED BY <1>7, <1>8, <1>9

LEMMA LedgerStep == LedgerIInv /\ [LedgerNext]_ledgerVars => LedgerIInv'
<1> SUFFICES ASSUME LedgerIInv, [LedgerNext]_ledgerVars PROVE LedgerIInv'
  OBVIOUS
<1>1. /\ today \in 1..MaxDay /\ today \in Int /\ recs \in FitLedger(today) /\ theses \in Theses
      /\ scorer \in [Scorers -> Scoring(today)]
      /\ \A c \in due : c.day \in 1..today
      /\ CallsStand
  BY LedgerBounds DEF LedgerIInv
<1>2. NotScoring \in Scoring(today)
  BY DEF Scoring
<1>3. ASSUME UNCHANGED <<today, recs, due, raced>>, theses' \in Theses,
             scorer' \in [Scorers -> Scoring(today)]
      PROVE  LedgerIInv'
  BY <1>1, <1>3 DEF LedgerIInv, CallsStand
<1>4. CASE NextDay
  <2>1. /\ today' = today + 1 /\ today' \in 1..MaxDay /\ today' \in Int
        /\ UNCHANGED <<recs, theses, scorer, due, raced>>
    BY <1>1, <1>4, LedgerBounds DEF NextDay
  <2>2. FitLedger(today) \subseteq FitLedger(today') /\ Scoring(today) \subseteq Scoring(today')
    BY <1>1, <2>1, FitLater
  <2>3. \A c \in due : c.day \in 1..today'
    BY <1>1, <2>1
  <2>4. \A c \in due \ raced : today' - c.day <= Retention => today - c.day <= Retention
    BY <1>1, <2>1, LedgerBounds
  <2>5. CallsStand'
    BY <1>1, <2>1, <2>4 DEF CallsStand
  <2> QED BY <1>1, <2>1, <2>2, <2>3, <2>5 DEF LedgerIInv
<1>5. ASSUME NEW t \in Tickers, NEW a \in Actions, Restate(t, a) PROVE LedgerIInv'
  <2>1. /\ recs' \in FitLedger(today)
        /\ \A c \in due \ raced : today - c.day <= Retention => Stands(recs', c)
    BY <1>5, RestateFacts
  <2>2. UNCHANGED <<today, theses, scorer, due, raced>>
    BY <1>5 DEF Restate
  <2> QED BY <1>1, <2>1, <2>2 DEF LedgerIInv, CallsStand
<1>6. ASSUME NEW t \in Tickers, NEW a \in Actions, EnterCall(t, a) PROVE LedgerIInv'
  <2>1. /\ recs' \in FitLedger(today)
        /\ \A c \in due' : c.day \in 1..today
        /\ \A c \in due' \ raced' : today - c.day <= Retention => Stands(recs', c)
    BY <1>6, EnterFacts
  <2>2. UNCHANGED <<today, scorer>>
    BY <1>6 DEF EnterCall
  <2>3. theses' = theses \/ theses' = [theses EXCEPT ![t] = "exit signal"]
    BY <1>6 DEF EnterCall
  <2>4. theses' \in Theses
    BY <1>1, <2>3 DEF Theses
  <2> QED BY <1>1, <2>1, <2>2, <2>4 DEF LedgerIInv, CallsStand
<1>7. ASSUME NEW t \in Tickers, Report(t) PROVE LedgerIInv'
  <2>1. /\ recs' \in FitLedger(today) /\ DOMAIN recs' = DOMAIN recs
        /\ \A i \in DOMAIN recs :
             /\ Call(recs'[i]) = Call(recs[i])
             /\ recs'[i].open = recs[i].open /\ recs'[i].scores = recs[i].scores
    BY <1>1, <1>7, ReportFacts
  <2>2. \A c : Stands(recs, c) => Stands(recs', c)
    BY <2>1 DEF Stands, FullyGraded
  <2>3. UNCHANGED <<today, theses, scorer, due, raced>>
    BY <1>7 DEF Report
  <2> QED BY <1>1, <2>1, <2>2, <2>3 DEF LedgerIInv, CallsStand
<1>8. ASSUME NEW t \in Tickers, PinThesis(t) \/ EditThesis(t) \/ DeleteThesis(t)
      PROVE  LedgerIInv'
  <2>1. theses' \in Theses
    BY <1>1, <1>8 DEF PinThesis, EditThesis, DeleteThesis, Theses
  <2>2. UNCHANGED <<today, recs, scorer, due, raced>>
    BY <1>8 DEF PinThesis, EditThesis, DeleteThesis
  <2> QED BY <1>1, <1>3, <2>1, <2>2
<1>9. ASSUME NEW s \in Scorers, Load(s) PROVE LedgerIInv'
  <2>1. [busy |-> TRUE, day |-> today, recs |-> recs, theses |-> theses] \in Scoring(today)
    <3>1. today \in 1..today
      BY <1>1
    <3> QED BY <1>1, <3>1 DEF Scoring
  <2>2. scorer' \in [Scorers -> Scoring(today)]
    BY <1>1, <1>9, <2>1 DEF Load
  <2> QED BY <1>1, <1>3, <1>9, <2>2 DEF Load
<1>10. ASSUME NEW s \in Scorers, Save(s) PROVE LedgerIInv'
  <2>1. /\ recs' \in FitLedger(today) /\ theses' \in Theses
        /\ \A c \in due' \ raced' : today - c.day <= Retention => Stands(recs', c)
    BY <1>10, SaveFacts
  <2>2. today' = today /\ due' \subseteq due
    BY <1>10 DEF Save
  <2>3. scorer' \in [Scorers -> Scoring(today)]
    BY <1>1, <1>2, <1>10 DEF Save
  <2> QED BY <1>1, <2>1, <2>2, <2>3 DEF LedgerIInv, CallsStand
<1>11. ASSUME NEW s \in Scorers, NothingGraded(s) PROVE LedgerIInv'
  <2>1. scorer' \in [Scorers -> Scoring(today)]
    BY <1>1, <1>2, <1>11 DEF NothingGraded
  <2> QED BY <1>1, <1>3, <1>11, <2>1 DEF NothingGraded
<1>12. CASE UNCHANGED ledgerVars
  BY <1>1, <1>3, <1>12 DEF ledgerVars
<1> QED
  BY <1>4, <1>5, <1>6, <1>7, <1>8, <1>9, <1>10, <1>11, <1>12 DEF LedgerNext, Advise

(* The file and what scorers hold are fit, and calls stand.                 *)
THEOREM LedgerInvariant == LedgerSpec => []LedgerIInv
  BY LedgerStart, LedgerStep, PTL DEF LedgerSpec

(* Rows and theses are well formed and every grade was earned, however      *)
(* calls are closed between a scorer's load and its save.                   *)
THEOREM LedgerIsSound == LedgerSpec => []LedgerInv
<1>1. LedgerIInv => LedgerInv
  <2> SUFFICES ASSUME LedgerIInv PROVE LedgerInv
    OBVIOUS
  <2>1. recs \in Seq(Rows) /\ \A i \in DOMAIN recs : Earned(recs[i], today)
    BY DEF LedgerIInv, FitLedger
  <2>2. GradesEarned
    BY <2>1 DEF GradesEarned, ToSet
  <2> QED BY <2>1, <2>2 DEF LedgerIInv, LedgerInv, LedgerTypeOK, Theses
<1> QED BY <1>1, LedgerInvariant, PTL

(* Advice never points both ways, and a stance of this version is open once.*)
THEOREM AdviceAgrees == LedgerSpec => []OpenRowsAgree
<1>1. LedgerIInv => OpenRowsAgree
  BY DEF LedgerIInv, FitLedger, OpenRowsAgree
<1> QED BY <1>1, LedgerInvariant, PTL

(* No bound on the ledger costs a standing call its grade.                  *)
THEOREM CallsAreKept == LedgerSpec => []CallKept
<1>1. LedgerIInv => CallKept
  BY DEF LedgerIInv, CallsStand, Stands, CallKept, ToSet
<1> QED BY <1>1, LedgerInvariant, PTL

(* What an anchor is measured against: every stance open in both lists is   *)
(* anchored in the second by the row that anchors it in the first.          *)
SameAnchors(rs, c) ==
    \A n \in DOMAIN c : First(c, n) =>
        \/ \E i \in DOMAIN rs :
             /\ First(rs, i) /\ SameStance(rs[i], c[n])
             /\ c[n].day = rs[i].day /\ (rs[i].said => c[n].said)
        \/ \A j \in DOMAIN rs : ~(rs[j].open /\ SameStance(rs[j], c[n]))

LEMMA AnchorsAgree ==
  ASSUME NEW rs \in Seq(Rows), NEW c \in Seq(Rows), SameAnchors(rs, c),
         NEW t, NEW a, NEW r \in Anchor(rs, t, a), NEW q \in Anchor(c, t, a)
  PROVE  q.day = r.day /\ (r.said => q.said)
<1>1. PICK i \in DOMAIN rs : First(rs, i) /\ r = rs[i] /\ r.ticker = t /\ r.action = a
  BY AnchorIsFirst
<1>2. PICK n \in DOMAIN c : First(c, n) /\ q = c[n] /\ q.ticker = t /\ q.action = a
  BY AnchorIsFirst
<1>3. rs[i].open /\ SameStance(rs[i], c[n])
  BY <1>1, <1>2 DEF First, SameStance
<1>4. PICK k \in DOMAIN rs : /\ First(rs, k) /\ SameStance(rs[k], c[n])
                             /\ c[n].day = rs[k].day /\ (rs[k].said => c[n].said)
  BY <1>2, <1>3 DEF SameAnchors
<1>5. SameStance(rs[i], rs[k])
  BY <1>3, <1>4 DEF SameStance
<1>6. i = k
  BY <1>1, <1>4, <1>5, FirstIsUnique
<1> QED BY <1>1, <1>2, <1>4, <1>6

LEMMA TrimmedAnchors ==
  ASSUME today \in Int, NEW rs \in FitLedger(today)
  PROVE  \A n \in DOMAIN Trimmed(rs) : Trimmed(rs)[n].open =>
            \E i \in DOMAIN rs : First(rs, i) /\ Trimmed(rs)[n] = rs[i]
<1>1. \A n \in DOMAIN Trimmed(rs) : Trimmed(rs)[n].open =>
        \E i \in DOMAIN rs :
          /\ Trimmed(rs)[n] = rs[i]
          /\ \A j \in DOMAIN rs : j < i => ~(rs[j].open /\ SameStance(rs[j], rs[i]))
  BY TrimmedFacts
<1> QED BY <1>1 DEF First

LEMMA RestateAnchors ==
  ASSUME LedgerIInv, NEW t \in Tickers, NEW a \in Actions, Restate(t, a)
  PROVE  SameAnchors(recs, recs')
<1>1. recs' = Trimmed(recs) /\ today \in Int /\ recs \in FitLedger(today)
  BY LedgerBounds DEF Restate, AfterCall, LedgerIInv
<1>2. \A n \in DOMAIN recs' : recs'[n].open =>
            \E i \in DOMAIN recs : First(recs, i) /\ recs'[n] = recs[i]
  BY <1>1, TrimmedAnchors
<1> QED BY <1>2 DEF SameAnchors, First, SameStance

LEMMA EnterAnchors ==
  ASSUME LedgerIInv, NEW t \in Tickers, NEW a \in Actions, EnterCall(t, a)
  PROVE  SameAnchors(recs, recs')
<1>1. today \in 1..MaxDay /\ recs \in FitLedger(today) /\ t \in Tickers /\ a \in Actions
  BY DEF LedgerIInv
<1>2. ~Known(t, a)
  BY DEF EnterCall
<1>3. today \in Int
  BY <1>1, LedgerBounds
<1>4. PICK rs : rs = Append(Contradicted(t, a), NewRow(t, a))
  OBVIOUS
<1>5. recs' = Trimmed(rs)
  BY <1>2, <1>4 DEF EnterCall, AfterCall
<1>6. PICK q : q = NewRow(t, a)
  OBVIOUS
<1>7. q.ticker = t /\ q.action = a
  BY <1>6 DEF NewRow
<1>8. /\ rs \in FitLedger(today)
      /\ DOMAIN rs = 1..(Len(recs) + 1) /\ Len(recs) \in Nat /\ DOMAIN recs = 1..Len(recs)
      /\ rs[Len(recs) + 1] = q
      /\ \A i \in DOMAIN recs : ~Closing(recs[i], t, a) => rs[i] = recs[i]
      /\ \A i \in DOMAIN recs : rs[i].open => ~Closing(recs[i], t, a)
      /\ \A i \in DOMAIN recs : recs[i].open => ~(recs[i].ticker = t /\ recs[i].action = a)
  <2>1. /\ rs \in FitLedger(today)
        /\ DOMAIN rs = 1..(Len(recs) + 1) /\ Len(recs) \in Nat /\ DOMAIN recs = 1..Len(recs)
        /\ rs[Len(recs) + 1] = NewRow(t, a)
        /\ \A i \in DOMAIN recs : ~Closing(recs[i], t, a) => rs[i] = recs[i]
        /\ \A i \in DOMAIN recs : rs[i].open => ~Closing(recs[i], t, a)
        /\ \A i \in DOMAIN recs : recs[i].open => ~(recs[i].ticker = t /\ recs[i].action = a)
    <3>1. Joins(rs, t, a)
      BY <1>1, <1>2, <1>4 DEF Joins
    <3> QED BY ONLY <3>1, CallJoins
  <2> QED BY <1>6, <2>1
<1>9. \A n \in DOMAIN recs' : recs'[n].open =>
            \E i \in DOMAIN rs : First(rs, i) /\ recs'[n] = rs[i]
  BY <1>3, <1>5, <1>8, TrimmedAnchors
<1>10. ASSUME NEW n \in DOMAIN recs', First(recs', n), NEW i \in DOMAIN rs, First(rs, i),
              recs'[n] = rs[i], i \in DOMAIN recs
       PROVE  First(recs, i) /\ recs'[n] = recs[i]
  <2>1. rs[i] = recs[i] /\ recs[i].open
    BY <1>8, <1>10 DEF First
  <2>2. ASSUME NEW j \in DOMAIN recs, j < i, recs[j].open, SameStance(recs[j], recs[i])
        PROVE  FALSE
    <3>1. ~Closing(recs[i], t, a)
      BY <1>8, <1>10 DEF First
    <3>2. ~Closing(recs[j], t, a)
      BY <2>1, <2>2, <3>1 DEF Closing, SameStance
    <3>3. rs[j] = recs[j] /\ j \in DOMAIN rs
      BY <1>8, <3>2
    <3> QED BY <1>10, <2>1, <2>2, <3>3 DEF First
  <2> QED BY <1>10, <2>1, <2>2 DEF First
<1>11. ASSUME NEW n \in DOMAIN recs', recs'[n] = q
       PROVE  \A j \in DOMAIN recs : ~(recs[j].open /\ SameStance(recs[j], recs'[n]))
  BY <1>7, <1>8, <1>11 DEF SameStance
<1>12. ASSUME NEW n \in DOMAIN recs', First(recs', n)
       PROVE  \/ \E i \in DOMAIN recs :
                   /\ First(recs, i) /\ SameStance(recs[i], recs'[n])
                   /\ recs'[n].day = recs[i].day /\ (recs[i].said => recs'[n].said)
              \/ \A j \in DOMAIN recs : ~(recs[j].open /\ SameStance(recs[j], recs'[n]))
  <2>1. PICK i \in DOMAIN rs : First(rs, i) /\ recs'[n] = rs[i]
    BY <1>9, <1>12 DEF First
  <2>2. i \in DOMAIN recs \/ i = Len(recs) + 1
    BY <1>8
  <2>3. CASE i \in DOMAIN recs
    BY <1>10, <1>12, <2>1, <2>3 DEF SameStance
  <2>4. CASE i = Len(recs) + 1
    BY <1>8, <1>11, <2>1, <2>4
  <2> QED BY <2>2, <2>3, <2>4
<1> QED BY <1>12 DEF SameAnchors

LEMMA ReportAnchors ==
  ASSUME LedgerIInv, NEW t \in Tickers, Report(t)
  PROVE  SameAnchors(recs, recs')
<1>1. today \in Int /\ recs \in FitLedger(today)
  BY LedgerBounds DEF LedgerIInv
<1>2. /\ DOMAIN recs' = DOMAIN recs
      /\ \A i \in DOMAIN recs :
           /\ SameStance(recs[i], recs'[i]) /\ recs'[i].day = recs[i].day
           /\ recs'[i].open = recs[i].open /\ (recs[i].said => recs'[i].said)
  BY <1>1, ReportFacts
<1>3. \A n \in DOMAIN recs' : First(recs', n) => First(recs, n)
  BY <1>2 DEF First, SameStance
<1> QED BY <1>2, <1>3 DEF SameAnchors

LEMMA AnchorStep ==
  ASSUME LedgerIInv, LedgerNext, LedgerIInv'
  PROVE  (\E s \in Scorers : Save(s)) \/ recs' = recs \/ SameAnchors(recs, recs')
<1>1. CASE NextDay
  BY <1>1 DEF NextDay
<1>2. ASSUME NEW t \in Tickers, NEW a \in Actions, Advise(t, a)
      PROVE  SameAnchors(recs, recs')
  BY <1>2, RestateAnchors, EnterAnchors DEF Advise
<1>3. ASSUME NEW t \in Tickers, Report(t) PROVE SameAnchors(recs, recs')
  BY <1>3, ReportAnchors
<1>4. ASSUME NEW t \in Tickers, PinThesis(t) \/ EditThesis(t) \/ DeleteThesis(t)
      PROVE  recs' = recs
  BY <1>4 DEF PinThesis, EditThesis, DeleteThesis
<1>5. ASSUME NEW s \in Scorers, Load(s) \/ NothingGraded(s) PROVE recs' = recs
  BY <1>5 DEF Load, NothingGraded
<1> QED BY <1>1, <1>2, <1>3, <1>4, <1>5 DEF LedgerNext

(* The date of a stance and what the user said of it outlive every call,    *)
(* report and trim.                                                         *)
THEOREM AnchorsAreKept == LedgerSpec => AnchorKept
<1>1. ASSUME LedgerIInv, LedgerIInv', [LedgerNext]_ledgerVars
      PROVE  [\/ \E s \in Scorers : Save(s)
              \/ \A t \in Tickers, a \in Actions :
                   \A r \in Anchor(recs, t, a), q \in Anchor(recs', t, a) :
                       q.day = r.day /\ (r.said => q.said)]_ledgerVars
  <2> SUFFICES ASSUME LedgerNext, ~\E s \in Scorers : Save(s),
                      NEW t \in Tickers, NEW a \in Actions,
                      NEW r \in Anchor(recs, t, a), NEW q \in Anchor(recs', t, a)
               PROVE  q.day = r.day /\ (r.said => q.said)
    BY <1>1
  <2>1. recs' = recs \/ SameAnchors(recs, recs')
    BY <1>1, AnchorStep
  <2>2. recs \in Seq(Rows) /\ recs' \in Seq(Rows)
    BY <1>1 DEF LedgerIInv, FitLedger
  <2>3. CASE recs' = recs
    <3>1. r = q
      BY <2>3 DEF Anchor
    <3> QED BY <3>1
  <2>4. CASE SameAnchors(recs, recs')
    BY <2>2, <2>4, AnchorsAgree
  <2> QED BY <2>1, <2>3, <2>4
<1> QED BY <1>1, LedgerInvariant, PTL DEF LedgerSpec, AnchorKept

-----------------------------------------------------------------------------
(* The drafted and the active lessons (Lessons).                            *)

LEMMA CapsType ==
  /\ PendingCap \in Nat \ {0} /\ LessonCap \in Nat \ {0}
  /\ MaxDrafts \in Nat /\ MaxFaults \in Nat
  BY LessonsAssumption

USE CapsType

(* What a handler, a pass or another writer has loaded is well formed.     *)
Handling ==
  {Idle} \cup [at : {"draft"}, text : Texts, pending : Seq(Draft)]
         \cup [at : {"promote"}, id : 1..MaxDrafts, text : Texts, pending : Seq(Draft)]
         \cup [at : {"remove"}, id : 1..MaxDrafts, pending : Seq(Draft)]
Drafting == {Idle} \cup [at : {"draft"}, text : Texts, pending : Seq(Draft)]
Lesson == {s \in Seq(Texts) : Len(s) <= LessonCap}
Writing == {Idle} \cup [at : {"save"}, lessons : Lesson]

Loaded ==
  /\ loop \in Handling
  /\ pass \in [Passes -> Drafting]
  /\ other \in Writing
  /\ drafts \in 0..MaxDrafts
  /\ rules \subseteq Texts

(* A list without two equal texts, those the user typed in apart.          *)
OnceIn(s, typed) == \A i, j \in DOMAIN s : i < j /\ s[i] = s[j] => s[i] \in typed

(* An older list of lessons that will be saved again holds no rule twice   *)
(* either, and a draft about to leave the queue has been accounted for.    *)
LateInv ==
  /\ other # Idle => OnceIn(other.lessons, edits)
  /\ loop.at = "remove" => loop.id \in gone

IInv == LessonsTypeOK /\ Loaded /\ LessonOnce /\ LateInv /\ DraftKept /\ LessonKept

-----------------------------------------------------------------------------
(* Lists.                                                                  *)

-----------------------------------------------------------------------------
(* The lessons in effect.                                                  *)

(* A new lesson joins at the end; what the cap drops was at risk.          *)
LEMMA AddLessonKeeps ==
  ASSUME lessons \in Lesson, LessonOnce, rules \subseteq ToSet(lessons),
         NEW text \in Texts, AddLesson(text)
  PROVE  /\ lessons' \in Lesson
         /\ OnceIn(lessons', edits)
         /\ rules' \subseteq ToSet(lessons')
         /\ text \in ToSet(lessons')
         /\ rules' \subseteq rules \cup {text}
<1>1. CASE AlreadyLesson(text)
  BY <1>1 DEF AddLesson, AlreadyLesson, LessonOnce, OnceIn
<1>2. CASE ~AlreadyLesson(text)
  <2> DEFINE n == Len(lessons)
             s == Append(lessons, text)
             c == LastOf(s, LessonCap)
  <2>1. n \in Nat /\ n <= LessonCap /\ DOMAIN lessons = 1..n /\ lessons \in Seq(Texts)
        /\ \A i \in 1..n : lessons[i] \in Texts
    BY LenProperties, ElementOfSeq DEF Lesson
  <2>2. /\ s \in Seq(Texts) /\ Len(s) = n + 1
        /\ \A i \in 1..n : s[i] = lessons[i]
        /\ s[n + 1] = text
    BY <2>1, AppendProperties
  <2>3. lessons' = c /\ rules' = (rules \cup {text}) \ ToSet(AtRisk)
    BY <1>2 DEF AddLesson, Kept
  <2> HIDE DEF s
  <2>4. /\ c \in Lesson
        /\ \E d \in Nat : /\ d = IF Len(s) <= LessonCap THEN 0 ELSE Len(s) - LessonCap
                          /\ DOMAIN c = 1..(Len(s) - d)
                          /\ \A i \in 1..(Len(s) - d) : c[i] = s[i + d]
    <3>1. PICK cap \in Nat \ {0} : cap = LessonCap
      OBVIOUS
    <3>2. s \in Seq(Texts) /\ cap \in Nat \ {0}
      BY <2>2
    <3>3. /\ LastOf(s, cap) \in Seq(Texts) /\ Len(LastOf(s, cap)) <= cap
          /\ \E d \in Nat : /\ d = IF Len(s) <= cap THEN 0 ELSE Len(s) - cap
                            /\ DOMAIN LastOf(s, cap) = 1..(Len(s) - d)
                            /\ \A i \in 1..(Len(s) - d) : LastOf(s, cap)[i] = s[i + d]
      BY ONLY <3>2, LastOfLemma
    <3> QED BY <3>1, <3>3 DEF Lesson
  <2> HIDE DEF c, n
  <2>5. PICK d \in Nat : /\ d = IF Len(s) <= LessonCap THEN 0 ELSE Len(s) - LessonCap
                         /\ DOMAIN c = 1..(Len(s) - d)
                         /\ \A i \in 1..(Len(s) - d) : c[i] = s[i + d]
    BY <2>4
  <2>12. /\ d = IF n + 1 <= LessonCap THEN 0 ELSE n + 1 - LessonCap
         /\ DOMAIN c = 1..(n + 1 - d)
         /\ \A i \in 1..(n + 1 - d) : c[i] = s[i + d]
    BY <2>1, <2>2, <2>5
  <2>6. d <= n /\ (d = 0 \/ d = n + 1 - LessonCap)
    BY <2>1, <2>12
  <2>7. \A i \in 1..n : lessons[i] # text
    BY <1>2, <2>1 DEF AlreadyLesson, ToSet
  <2>8. OnceIn(c, edits)
    <3> SUFFICES ASSUME NEW i \in 1..(n + 1 - d), NEW j \in 1..(n + 1 - d), i < j, c[i] = c[j]
                 PROVE  c[i] \in edits
      BY <2>12 DEF OnceIn
    <3>1. i + d \in 1..n /\ j + d \in 1..(n + 1) /\ i + d < j + d
      BY <2>1, <2>12, <2>6
    <3>2. c[i] = lessons[i + d] /\ s[j + d] = lessons[i + d]
      BY <2>2, <2>12, <3>1
    <3>3. j + d \in 1..n
      BY <2>1, <2>2, <2>7, <3>1, <3>2
    <3>4. lessons[j + d] = lessons[i + d]
      BY <2>2, <3>2, <3>3
    <3> QED BY <2>1, <3>1, <3>2, <3>3, <3>4 DEF LessonOnce
  <2>9. text \in ToSet(c)
    <3>1. n + 1 - d \in 1..(n + 1 - d) /\ (n + 1 - d) + d = n + 1
      BY <2>1, <2>12, <2>6
    <3>2. c[n + 1 - d] = text
      BY <2>2, <2>12, <3>1
    <3> QED BY <2>12, <3>1, <3>2 DEF ToSet
  <2>10. (rules \cup {text}) \ ToSet(AtRisk) \subseteq ToSet(c)
    <3> SUFFICES ASSUME NEW x \in rules, x \notin ToSet(AtRisk) PROVE x \in ToSet(c)
      BY <2>9
    <3>1. PICK i \in 1..n : lessons[i] = x
      BY <2>1 DEF ToSet
    <3>2. CASE i > d
      <4>1. i - d \in 1..(n + 1 - d) /\ (i - d) + d = i
        BY <2>1, <2>12, <2>6, <3>2
      <4>2. c[i - d] = x
        BY <2>2, <2>12, <3>1, <4>1
      <4> QED BY <2>12, <4>1, <4>2 DEF ToSet
    <3>3. CASE ~(i > d)
      <4> DEFINE m == n + 1 - LessonCap
                 r == SubSeq(lessons, 1, m)
      <4>1. m \in Int /\ d = m /\ i \in 1..m /\ m <= n
        BY <2>1, <2>12, <2>6, <3>3
      <4>2. AtRisk = r
        BY DEF AtRisk, n
      <4>3. \A k \in 1..m : lessons[k] \in Texts
        BY <2>1, <4>1
      <4> HIDE DEF m
      <4>4. /\ r \in Seq(Texts) /\ Len(r) = (IF 1 <= m THEN m - 1 + 1 ELSE 0)
            /\ \A k \in 1..(m - 1 + 1) : r[k] = lessons[1 + k - 1]
        BY <4>1, <4>3, SubSeqProperties
      <4> HIDE DEF r
      <4>5. DOMAIN r = 1..m /\ r[i] = x
        BY <3>1, <4>1, <4>4, LenProperties
      <4> QED BY <4>1, <4>2, <4>5 DEF ToSet
    <3> QED BY <3>2, <3>3
  <2> QED BY <2>3, <2>4, <2>8, <2>9, <2>10
<1> QED BY <1>1, <1>2

-----------------------------------------------------------------------------
(* The queue of drafts.                                                    *)

(* Whatever queue is saved over the one on file, every draft that leaves   *)
(* is accounted for.                                                       *)
LEMMA PutKeeps ==
  ASSUME NEW loaded, NEW s \in Seq(Draft), pending \in Seq(Draft), PutPending(loaded, s)
  PROVE  /\ pending' \in Seq(Draft) /\ Len(pending') <= PendingCap
         /\ gone \subseteq gone'
         /\ Ids(s) \subseteq Ids(pending') \cup gone'
         /\ Ids(pending) \subseteq Ids(loaded) \cup gone'
  BY LastOfLemma DEF PutPending, Overwritten

(* A draft joins the queue it was made for.                                *)
LEMMA PutDraftKeeps ==
  ASSUME NEW loaded \in Seq(Draft), NEW text \in Texts, PutDraft(loaded, text),
         pending \in Seq(Draft), drafts \in 0..MaxDrafts, DraftKept
  PROVE  /\ pending' \in Seq(Draft) /\ Len(pending') <= PendingCap
         /\ gone \subseteq gone' /\ drafts' \in 0..MaxDrafts
         /\ DraftKept'
<1> DEFINE d == [id |-> drafts', text |-> text]
           s == Append(loaded, d)
<1>1. drafts' = drafts + 1 /\ drafts' \in 1..MaxDrafts /\ PutPending(loaded, s)
  BY DEF PutDraft
<1>2. d \in Draft /\ d.id = drafts'
  BY <1>1 DEF Draft
<1> HIDE DEF d
<1>3. /\ s \in Seq(Draft) /\ Len(s) = Len(loaded) + 1 /\ Len(loaded) \in Nat
      /\ DOMAIN loaded = 1..Len(loaded)
      /\ \A i \in 1..Len(loaded) : s[i] = loaded[i]
      /\ s[Len(loaded) + 1] = d
  BY <1>2, AppendProperties, LenProperties
<1> HIDE DEF s
<1>4. DOMAIN s = 1..(Len(loaded) + 1)
  BY <1>3, LenProperties
<1>5. Ids(loaded) \subseteq Ids(s) /\ drafts' \in Ids(s)
  BY <1>2, <1>3, <1>4 DEF Ids, ToSet
<1>6. /\ pending' \in Seq(Draft) /\ Len(pending') <= PendingCap
      /\ gone \subseteq gone'
      /\ Ids(s) \subseteq Ids(pending') \cup gone'
      /\ Ids(pending) \subseteq Ids(loaded) \cup gone'
  BY <1>1, <1>3, PutKeeps
<1>7. DraftKept'
  BY <1>1, <1>5, <1>6 DEF DraftKept
<1> QED BY <1>1, <1>6, <1>7

(* Removing a draft keeps all others.                                      *)
LEMMA WithoutDraft ==
  ASSUME NEW s \in Seq(Draft), NEW id
  PROVE  /\ Without(s, id) \in Seq(Draft)
         /\ Ids(s) \subseteq Ids(Without(s, id)) \cup {id}
<1> DEFINE S == {i \in DOMAIN s : s[i].id # id}
           c == KeepAt(s, S)
<1>1. c = Without(s, id)
  BY DEF Without
<1>2. /\ c \in Seq(Draft)
      /\ \A k \in S : \E i \in DOMAIN c : c[i] = s[k]
  <2>1. S \in SUBSET DOMAIN s
    OBVIOUS
  <2> HIDE DEF S
  <2> QED BY <2>1, KeptItems
<1> HIDE DEF c
<1>3. Ids(s) \subseteq Ids(c) \cup {id}
  BY <1>2 DEF Ids, ToSet
<1> QED BY <1>1, <1>2, <1>3

-----------------------------------------------------------------------------
(* One handler, pass or writer at a time.                                  *)

(* Loading a queue or a list changes neither file.                         *)
LEMMA LoadStep ==
  ASSUME IInv,
         \/ \E p \in Passes, text \in Texts : DraftLoad(p, text)
         \/ \E text \in Texts : FeedbackLoad(text)
         \/ \E id \in 1..MaxDrafts : DiscardLoad(id) \/ \E text \in Texts : ConfirmLoad(id, text)
         \/ OtherLoad
  PROVE  IInv'
<1> USE DEF IInv, LessonsTypeOK, Loaded, LateInv, Handling, Drafting, Writing, Idle
<1>1. ASSUME NEW p \in Passes, NEW text \in Texts, DraftLoad(p, text) PROVE IInv'
  BY <1>1 DEF DraftLoad, LessonOnce, DraftKept, Ids, LessonKept
<1>2. ASSUME NEW text \in Texts, FeedbackLoad(text) PROVE IInv'
  BY <1>2 DEF FeedbackLoad, LessonOnce, DraftKept, Ids, LessonKept
<1>3. ASSUME NEW id \in 1..MaxDrafts, DiscardLoad(id) PROVE IInv'
  BY <1>3 DEF DiscardLoad, LessonOnce, DraftKept, Ids, LessonKept
<1>4. ASSUME NEW id \in 1..MaxDrafts, NEW text \in Texts, ConfirmLoad(id, text) PROVE IInv'
  BY <1>4 DEF ConfirmLoad, LessonOnce, DraftKept, Ids, LessonKept
<1>5. CASE OtherLoad
  BY <1>5 DEF OtherLoad, Lesson, LessonOnce, OnceIn, DraftKept, Ids, LessonKept
<1> QED BY <1>1, <1>2, <1>3, <1>4, <1>5

(* A queue that was loaded is saved with one more draft.                   *)
LEMMA DraftStep ==
  ASSUME IInv, (\E p \in Passes : DraftSave(p)) \/ FeedbackSave
  PROVE  IInv'
<1>1. /\ pending \in Seq(Draft) /\ drafts \in 0..MaxDrafts /\ DraftKept
      /\ loop \in Handling /\ pass \in [Passes -> Drafting]
  BY DEF IInv, LessonsTypeOK, Loaded
<1>2. ASSUME NEW loaded \in Seq(Draft), NEW text \in Texts, PutDraft(loaded, text),
             UNCHANGED <<lessons, other, rules, edits>>,
             loop' \in {loop, Idle}, pass' \in [Passes -> Drafting]
      PROVE  IInv'
  <2>1. /\ pending' \in Seq(Draft) /\ Len(pending') <= PendingCap
        /\ gone \subseteq gone' /\ drafts' \in 0..MaxDrafts
        /\ DraftKept'
    BY <1>1, <1>2, PutDraftKeeps
  <2>2. LessonsTypeOK' /\ Loaded'
    BY <1>2, <2>1 DEF IInv, LessonsTypeOK, Loaded, Handling
  <2>3. LessonOnce' /\ LateInv' /\ LessonKept'
    BY <1>2, <2>1 DEF IInv, LessonOnce, LateInv, LessonKept, OnceIn, Idle
  <2> QED BY <2>1, <2>2, <2>3 DEF IInv
<1>3. ASSUME NEW p \in Passes, DraftSave(p) PROVE IInv'
  <2>1. pass[p].pending \in Seq(Draft) /\ pass[p].text \in Texts
    BY <1>1, <1>3 DEF DraftSave, Drafting
  <2>2. pass' \in [Passes -> Drafting]
    BY <1>1, <1>3 DEF DraftSave, Drafting
  <2> QED BY <1>2, <1>3, <2>1, <2>2 DEF DraftSave
<1>4. CASE FeedbackSave
  <2>1. loop.pending \in Seq(Draft) /\ loop.text \in Texts
    BY <1>1, <1>4 DEF FeedbackSave, Handling, Idle
  <2> QED BY <1>1, <1>2, <1>4, <2>1 DEF FeedbackSave
<1> QED BY <1>3, <1>4

(* A draft becomes a lesson, or a rule is taught.                          *)
LEMMA AddStep ==
  ASSUME IInv, Promote \/ \E text \in Texts : Teach(text)
  PROVE  IInv'
<1>1. lessons \in Lesson /\ LessonOnce /\ rules \subseteq ToSet(lessons) /\ rules \subseteq Texts
  BY DEF IInv, LessonsTypeOK, Lesson, LessonKept, Loaded
<1>2. ASSUME NEW text \in Texts, AddLesson(text),
             UNCHANGED <<pending, pass, other, drafts, edits>>, gone \subseteq gone',
             loop' \in Handling, loop'.at = "remove" => loop'.id \in gone'
      PROVE  IInv'
  <2>1. /\ lessons' \in Lesson /\ OnceIn(lessons', edits)
        /\ rules' \subseteq ToSet(lessons') /\ rules' \subseteq rules \cup {text}
    BY <1>1, <1>2, AddLessonKeeps
  <2>2. LessonsTypeOK' /\ Loaded'
    BY <1>1, <1>2, <2>1 DEF IInv, LessonsTypeOK, Loaded, Lesson
  <2>3. LessonOnce' /\ LateInv' /\ LessonKept' /\ DraftKept'
    BY <1>2, <2>1 DEF IInv, LessonOnce, LateInv, LessonKept, OnceIn, DraftKept, Ids
  <2> QED BY <2>2, <2>3 DEF IInv
<1>3. CASE Promote
  <2>1. loop.text \in Texts /\ loop.id \in 1..MaxDrafts /\ loop.pending \in Seq(Draft)
    BY <1>3 DEF IInv, Loaded, Promote, Handling, Idle
  <2>2. loop' \in Handling /\ loop'.id \in gone'
    BY <1>3, <2>1 DEF Promote, Handling
  <2> QED BY <1>2, <1>3, <2>1, <2>2 DEF Promote
<1>4. ASSUME NEW text \in Texts, Teach(text) PROVE IInv'
  BY <1>2, <1>4 DEF Teach, IInv, Loaded, LateInv, Idle
<1> QED BY <1>3, <1>4

(* A draft leaves the queue.                                               *)
LEMMA RemoveStep == ASSUME IInv, RemoveDraft PROVE IInv'
<1> DEFINE s == Without(loop.pending, loop.id)
<1>1. loop.pending \in Seq(Draft) /\ loop.id \in gone /\ pending \in Seq(Draft)
  BY DEF IInv, LessonsTypeOK, Loaded, LateInv, RemoveDraft, Handling, Idle
<1>2. s \in Seq(Draft) /\ Ids(loop.pending) \subseteq Ids(s) \cup {loop.id}
  BY <1>1, WithoutDraft
<1>3. PutPending(loop.pending, s)
  BY DEF RemoveDraft
<1> HIDE DEF s
<1>4. /\ pending' \in Seq(Draft) /\ Len(pending') <= PendingCap
      /\ gone \subseteq gone'
      /\ Ids(s) \subseteq Ids(pending') \cup gone'
      /\ Ids(pending) \subseteq Ids(loop.pending) \cup gone'
  BY <1>1, <1>2, <1>3, PutKeeps
<1>5. UNCHANGED <<lessons, pass, other, drafts, rules, edits>> /\ loop' = Idle
  BY DEF RemoveDraft
<1>6. LessonsTypeOK' /\ Loaded'
  BY <1>4, <1>5 DEF IInv, LessonsTypeOK, Loaded, Handling
<1>7. DraftKept'
  BY <1>1, <1>2, <1>4, <1>5 DEF IInv, DraftKept
<1>8. LessonOnce' /\ LateInv' /\ LessonKept'
  BY <1>5 DEF IInv, LessonOnce, LateInv, LessonKept, OnceIn, Idle
<1> QED BY <1>6, <1>7, <1>8 DEF IInv

(* The user edits or deletes a lesson, another writer restores a list.     *)
LEMMA ListStep ==
  ASSUME IInv,
         \/ \E i \in DOMAIN lessons : DeleteLesson(i) \/ \E text \in Texts : EditLesson(i, text)
         \/ OtherSave
  PROVE  IInv'
<1>1. /\ lessons \in Seq(Texts) /\ Len(lessons) <= LessonCap /\ LessonOnce
      /\ DOMAIN lessons = 1..Len(lessons) /\ Len(lessons) \in Nat
  BY LenProperties DEF IInv, LessonsTypeOK
<1>2. ASSUME lessons' \in Lesson, OnceIn(lessons', edits'), rules' \subseteq ToSet(lessons'),
             edits \subseteq edits', rules' \subseteq Texts, other' \in {other, Idle},
             UNCHANGED <<pending, loop, pass, drafts, gone>>
      PROVE  IInv'
  <2>1. LessonsTypeOK' /\ Loaded'
    BY <1>2 DEF IInv, LessonsTypeOK, Loaded, Lesson, Writing
  <2>2. LessonOnce' /\ LateInv' /\ LessonKept' /\ DraftKept'
    BY <1>2 DEF IInv, LessonOnce, LateInv, LessonKept, OnceIn, DraftKept, Ids
  <2> QED BY <2>1, <2>2 DEF IInv
<1>3. ASSUME NEW i \in DOMAIN lessons, DeleteLesson(i) PROVE IInv'
  <2> DEFINE S == DOMAIN lessons \ {i}
             s == KeepAt(lessons, S)
  <2>1. S \in SUBSET DOMAIN lessons /\ s = KeepAt(lessons, S) /\ lessons' = s
    BY <1>3 DEF DeleteLesson
  <2> HIDE DEF S, s
  <2>2. /\ s \in Seq(Texts) /\ Len(s) \in Nat /\ Len(s) <= Len(lessons)
        /\ \A j, k \in DOMAIN s : j < k =>
             \E a, b \in S : a < b /\ s[j] = lessons[a] /\ s[k] = lessons[b]
    <3>1. lessons \in Seq(Texts)
      BY <1>1
    <3> QED BY <2>1, <3>1, KeptItems
  <2>3. lessons' = s /\ rules' = rules \cap ToSet(lessons')
    BY <1>3, <2>1 DEF DeleteLesson
  <2>4. OnceIn(s, edits)
    BY <1>1, <2>1, <2>2 DEF OnceIn, LessonOnce
  <2>5. s \in Lesson
    BY <1>1, <2>2 DEF Lesson
  <2> QED BY <1>2, <1>3, <2>3, <2>4, <2>5 DEF DeleteLesson, IInv, Loaded
<1>4. ASSUME NEW i \in DOMAIN lessons, NEW text \in Texts, EditLesson(i, text) PROVE IInv'
  <2>1. /\ lessons' \in Seq(Texts) /\ Len(lessons') = Len(lessons)
        /\ \A j \in 1..Len(lessons) : lessons'[j] = IF j = i THEN text ELSE lessons[j]
    BY <1>1, <1>4, ExceptSeq DEF EditLesson
  <2>2. DOMAIN lessons' = 1..Len(lessons)
    BY <2>1, LenProperties
  <2>3. edits' = edits \cup {text} /\ rules' = (rules \cap ToSet(lessons')) \cup {text}
    BY <1>4 DEF EditLesson
  <2>4. OnceIn(lessons', edits')
    BY <1>1, <2>1, <2>2, <2>3 DEF OnceIn, LessonOnce
  <2>5. text \in ToSet(lessons')
    BY <1>1, <2>1, <2>2 DEF ToSet
  <2>6. rules' \subseteq ToSet(lessons') /\ rules' \subseteq Texts
    BY <2>3, <2>5 DEF IInv, Loaded
  <2> QED BY <1>1, <1>2, <1>4, <2>1, <2>3, <2>4, <2>6 DEF EditLesson, Lesson
<1>5. CASE OtherSave
  <2>1. other.lessons \in Lesson /\ OnceIn(other.lessons, edits) /\ rules \subseteq Texts
    BY <1>5 DEF OtherSave, IInv, Loaded, Writing, LateInv
  <2> QED BY <1>2, <1>5, <2>1 DEF OtherSave
<1> QED BY <1>3, <1>4, <1>5

(* A save fails or the process is killed: the files stay as they are.      *)
LEMMA FaultStep == ASSUME IInv, SaveFails \/ Crash PROVE IInv'
<1>1. /\ UNCHANGED <<pending, lessons, drafts, rules, edits>>
      /\ gone \subseteq gone'
      /\ other' \in {other, Idle}
  BY DEF SaveFails, Crash
<1>2. pass' \in [Passes -> Drafting]
  BY DEF SaveFails, Crash, IInv, Loaded, Drafting
<1>3. loop' \in Handling /\ (loop'.at = "remove" => loop'.id \in gone')
  <2>1. CASE loop' = Idle
    BY <2>1 DEF Handling, Idle
  <2>2. CASE loop' = loop
    BY <1>1, <2>2 DEF IInv, Loaded, LateInv
  <2>3. CASE /\ loop.at = "promote" /\ gone' = gone \cup {loop.id}
             /\ loop' = [at |-> "remove", id |-> loop.id, pending |-> loop.pending]
    <3>1. loop.id \in 1..MaxDrafts /\ loop.pending \in Seq(Draft)
      BY <2>3 DEF IInv, Loaded, Handling, Idle
    <3> QED BY <2>3, <3>1 DEF Handling
  <2> QED BY <2>1, <2>2, <2>3 DEF SaveFails, Crash
<1>4. LessonsTypeOK' /\ Loaded'
  BY <1>1, <1>2, <1>3 DEF IInv, LessonsTypeOK, Loaded, Writing
<1>5. LessonOnce' /\ LateInv' /\ LessonKept' /\ DraftKept'
  BY <1>1, <1>3 DEF IInv, LessonOnce, LateInv, LessonKept, OnceIn, DraftKept, Ids
<1> QED BY <1>4, <1>5 DEF IInv

-----------------------------------------------------------------------------
(* Every reachable state satisfies the invariant: the two files hold what  *)
(* drafts, confirmations and edits have made of them, crashes included.    *)
THEOREM Invariant == Spec => []IInv
<1>1. Init => IInv
  <2> SUFFICES ASSUME Init PROVE IInv
    OBVIOUS
  <2>1. LessonsTypeOK /\ Loaded
    BY EmptySeq DEF Init, LessonsTypeOK, Loaded, Handling, Drafting, Writing
  <2>2. LessonOnce /\ LateInv /\ DraftKept /\ LessonKept
    BY DEF Init, LessonOnce, LateInv, DraftKept, LessonKept, Idle
  <2> QED BY <2>1, <2>2 DEF IInv
<1>2. IInv /\ [Next]_vars => IInv'
  <2> SUFFICES ASSUME IInv, [Next]_vars PROVE IInv'
    OBVIOUS
  <2>1. CASE UNCHANGED vars
    BY <2>1 DEF vars, IInv, LessonsTypeOK, Loaded, LessonOnce, LateInv, OnceIn, DraftKept, Ids, LessonKept
  <2>2. CASE Next
    BY <2>2, LoadStep, DraftStep, AddStep, RemoveStep, ListStep, FaultStep DEF Next
  <2> QED BY <2>1, <2>2
<1> QED BY <1>1, <1>2, PTL DEF Spec

(* The queue and the lessons are well formed and within their caps, and    *)
(* however often a rule is drafted, confirmed again after a kill or        *)
(* restored by another writer, it is a lesson once, unless the user typed  *)
(* it into another lesson (add_lesson's duplicate check).                  *)
THEOREM LessonsAreSound == Spec => []LessonsInv
<1>1. IInv => LessonsInv
  BY DEF IInv, LessonsInv
<1> QED BY <1>1, Invariant, PTL

(* No draft is lost between the two files of a confirmation, whenever the  *)
(* process is killed or a save fails (confirm_pending_lesson).             *)
THEOREM DraftsAreKept == Spec => []DraftKept
<1>1. IInv => DraftKept
  BY DEF IInv
<1> QED BY <1>1, Invariant, PTL

(* A lesson is retired only as one the user was told was at risk           *)
(* (lessons_pending_eviction), or deleted, edited or overwritten.          *)
THEOREM LessonsAreKept == Spec => []LessonKept
<1>1. IInv => LessonKept
  BY DEF IInv
<1> QED BY <1>1, Invariant, PTL
=============================================================================
