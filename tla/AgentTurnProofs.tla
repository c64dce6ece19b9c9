-------------------------- MODULE AgentTurnProofs --------------------------
(***************************************************************************)
(* Proofs about AgentTurn for every safety valve and every number of tool  *)
(* messages, and about Observations, the log the turns feed, for any       *)
(* number of turn threads and any caps.                                    *)
(***************************************************************************)
EXTENDS AgentTurn, Observations, SelectionsProofs, TLAPS

(* Only a segment the risk manager has answered in holds a verdict, and the *)
(* supervisor is the next to see it.                                        *)
JudgedInv ==
  seg.judged => /\ at \in {"Supervisor", "idle"}
                /\ "RiskManager" \in seg.responded /\ seg.count > 0

(* Where unaudited and audited advice can be.  The supervisor only meets    *)
(* unaudited advice in a segment with a keyword, and after an audit there   *)
(* is nothing left for it to do but finish.                                 *)
DraftInv ==
  /\ at = "Supervisor" /\ draft = "unaudited" => seg.kw
  /\ at = "Supervisor" /\ draft = "audited" => seg.judged
  /\ at = "Supervisor" /\ seg.count = 0 => draft = "none"
  /\ at = "NewsAnalyst" => draft = "none"

(* The retry budget within a turn: what is used of it was used by audits.   *)
RetryInv ==
  /\ at # "idle" => retry <= audits
  /\ at \in Workers => retry <= 1
  /\ at = "Supervisor" /\ retry = 2 => seg.judged
  /\ at = "Supervisor" /\ draft = "audited" /\ risk = "CRITICAL_FAIL" => audits = 2

IInv == /\ AgentTypeOK /\ JudgedInv /\ DraftInv /\ RetryInv
        /\ AdviceAudited /\ ShippedFlaggedAfterRetry

LEMMA HumanType ==
  ASSUME NEW kw \in BOOLEAN, NEW summons \in Summonable \cup {"none"}
  PROVE  Human(kw, summons) \in Segment
  BY DEF Human, Segment

(* An answer adds at least one message and its author to the segment.       *)
LEMMA SayFacts ==
  ASSUME seg \in Segment, NEW w \in Workers, NEW n \in Nat, NEW kw \in BOOLEAN,
         Say(w, n, kw)
  PROVE  /\ seg' \in Segment
         /\ seg'.count > 0
         /\ seg'.judged = seg.judged
         /\ seg'.kw = (seg.kw \/ kw)
<1> DEFINE c == seg.count + (IF n = 0 THEN 1 ELSE n + 2)
           k == seg.kw \/ kw
           r == seg.responded \cup {w}
<1>1. c \in Nat /\ c > 0
  BY DEF Segment
<1>2. k \in BOOLEAN /\ r \in SUBSET Workers
  BY DEF Segment
<1>3. seg' = [seg EXCEPT !.count = c, !.kw = k, !.responded = r]
  BY Zenon DEF Say
<1> HIDE DEF c, k, r
<1>4. seg' \in Segment /\ seg'.count = c /\ seg'.kw = k /\ seg'.judged = seg.judged
  BY <1>1, <1>2, <1>3 DEF Segment
<1> QED
  BY <1>1, <1>4 DEF k

LEMMA InitIInv == Init => IInv
<1> SUFFICES ASSUME Init PROVE IInv
  OBVIOUS
<1>1. seg \in Segment /\ ~seg.judged
  <2>1. seg = Human(FALSE, "none")
    BY DEF Init
  <2> QED
    BY <2>1, HumanType DEF Human
<1>2. AgentTypeOK
  <2>1. handoff \in BOOLEAN /\ asked \in BOOLEAN /\ wanted \in BOOLEAN
    BY Zenon DEF Init
  <2>2. at \in Workers \cup {"Supervisor", "idle"} /\ retry \in 0..2 /\ audits \in 0..2
    BY DEF Init
  <2>3. /\ risk \in {"PASS", "FAIL", "CRITICAL_FAIL"}
        /\ draft \in {"none", "unaudited", "audited"}
        /\ ended \in {"none", "finished", "stopped"}
    BY DEF Init
  <2> QED
    BY <1>1, <2>1, <2>2, <2>3 DEF AgentTypeOK
<1>3. JudgedInv /\ DraftInv
  BY <1>1 DEF Init, JudgedInv, DraftInv
<1>4. RetryInv /\ AdviceAudited /\ ShippedFlaggedAfterRetry
  BY DEF Init, RetryInv, AdviceAudited, ShippedFlaggedAfterRetry, Finished, Workers
<1> QED
  BY <1>2, <1>3, <1>4 DEF IInv

LEMMA StepIInv == IInv /\ [Next]_vars => IInv'
<1> SUFFICES ASSUME IInv, [Next]_vars PROVE IInv'
  OBVIOUS
<1> USE DEF IInv, AgentTypeOK, JudgedInv, DraftInv, RetryInv, AdviceAudited,
            ShippedFlaggedAfterRetry, Finished, checkpoint, hist
<1>1. ASSUME NEW kw \in BOOLEAN, NEW summons \in Summonable \cup {"none"},
             NewTurn(kw, summons)
      PROVE  IInv'
  <2>1. seg' \in Segment /\ ~seg'.judged
    BY <1>1, HumanType DEF NewTurn, Human
  <2>2. AgentTypeOK'
    <3>1. handoff' \in BOOLEAN /\ asked' \in BOOLEAN /\ wanted' \in BOOLEAN
      BY <1>1, Zenon DEF NewTurn
    <3> QED
      BY <1>1, <2>1, <3>1 DEF NewTurn
  <2>3. JudgedInv' /\ DraftInv'
    BY <1>1, <2>1 DEF NewTurn
  <2>4. RetryInv' /\ AdviceAudited' /\ ShippedFlaggedAfterRetry'
    BY <1>1 DEF NewTurn, Workers
  <2> QED
    BY <2>2, <2>3, <2>4
<1>2. CASE Supervise
  <2>1. /\ seg.judged => SupervisorNext = "FINISH"
        /\ SupervisorNext \in (Workers \ {"NewsAnalyst"}) \cup {"FINISH", "NewsAnalyst"}
        /\ SupervisorNext = "NewsAnalyst" => seg.count = 0
    BY DEF SupervisorNext, Workers, Summonable, Segment
  <2>2. CASE SupervisorNext = "FINISH"
    BY <1>2, <2>2 DEF Supervise, Workers
  <2>3. CASE SupervisorNext # "FINISH"
    BY <1>2, <2>1, <2>3 DEF Supervise, Workers
  <2> QED
    BY <2>2, <2>3
<1>3. ASSUME NEW kw \in BOOLEAN, DeepReason(kw) PROVE IInv'
  <2>1. /\ seg' \in Segment /\ seg'.count > 0 /\ seg'.judged = seg.judged
        /\ Say("DeepReasoning", 0, kw)
    BY <1>3, SayFacts DEF DeepReason, AfterDeepReasoning, Workers
  <2> QED
    BY <1>3, <2>1 DEF DeepReason, AfterDeepReasoning, Advise, Workers
<1>4. ASSUME NEW kw \in BOOLEAN, NEW n \in Nat, NEW marker \in BOOLEAN,
             at = "MarketAnalyst", Say("MarketAnalyst", n, kw),
             handoff' \in BOOLEAN, wanted' \in BOOLEAN, AfterMarketAnalyst(marker)
      PROVE  IInv'
  <2>1. seg' \in Segment /\ seg'.judged = seg.judged
    BY <1>4, SayFacts DEF Workers
  <2> QED
    BY <1>4, <2>1 DEF AfterMarketAnalyst, Advise, Workers
<1>5. ASSUME NEW kw \in BOOLEAN, ManagePortfolio(kw) PROVE IInv'
  <2>1. seg' \in Segment /\ seg'.judged = seg.judged
    BY <1>5, SayFacts DEF ManagePortfolio, Workers
  <2> QED
    BY <1>5, <2>1 DEF ManagePortfolio, Advise, Workers
<1>6. ASSUME NEW kw \in BOOLEAN, NEW n \in Nat, AnalyseNews(n, kw) PROVE IInv'
  <2>1. seg' \in Segment /\ seg'.judged = seg.judged /\ seg'.count > 0
    BY <1>6, SayFacts DEF AnalyseNews, Workers
  <2> QED
    BY <1>6, <2>1 DEF AnalyseNews, Workers
<1>7. ASSUME NEW kw \in BOOLEAN, NEW verdict \in {"PASS", "FAIL", "CRITICAL_FAIL"},
             ManageRisk(verdict, kw)
      PROVE  IInv'
  <2>1. at = "RiskManager" /\ ~seg.judged /\ Audit(verdict, kw) /\ AfterRiskManager
    BY <1>7 DEF ManageRisk
  <2>2. retry \in 0..1 /\ audits \in 0..2 /\ retry <= audits
    BY <2>1 DEF Workers
  <2>3. CASE verdict = "CRITICAL_FAIL" /\ retry < 1
    <3>1. seg' \in Segment /\ ~seg'.judged
      BY <2>1, <2>3, HumanType DEF Audit, Correction, Human
    <3>2. at' = "DeepReasoning" /\ retry' = 1 /\ audits' \in 1..2
      BY <2>1, <2>2, <2>3 DEF Audit, AfterRiskManager
    <3> QED
      BY <1>7, <2>1, <2>3, <3>1, <3>2 DEF ManageRisk, Audit, Workers
  <2>4. CASE ~(verdict = "CRITICAL_FAIL" /\ retry < 1)
    <3> DEFINE c == seg.count + (IF verdict = "CRITICAL_FAIL" THEN 2 ELSE 1)
               k == seg.kw \/ kw
               r == seg.responded \cup {"RiskManager"}
    <3>3. seg' = [seg EXCEPT !.count = c, !.kw = k, !.judged = TRUE, !.responded = r]
      BY <2>1, <2>4, Zenon DEF Audit
    <3>4. c \in Nat /\ c > 0 /\ k \in BOOLEAN
      BY DEF Segment
    <3>5. r \in SUBSET Workers /\ "RiskManager" \in r
      BY DEF Segment, Workers
    <3> HIDE DEF c, k, r
    <3>1. /\ seg' \in Segment /\ seg'.judged
          /\ seg'.count > 0 /\ "RiskManager" \in seg'.responded
      BY <3>3, <3>4, <3>5 DEF Segment
    <3>2. /\ at' = "Supervisor" /\ risk' = verdict
          /\ retry' \in 0..2 /\ audits' \in 1..2 /\ retry' <= audits'
          /\ verdict = "CRITICAL_FAIL" => audits' = 2
      BY <2>1, <2>2, <2>4 DEF Audit, AfterRiskManager
    <3> QED
      BY <1>7, <2>1, <3>1, <3>2 DEF ManageRisk, Audit, Workers
  <2> QED
    BY <2>3, <2>4
<1>8. CASE StopTurn
  BY <1>8 DEF StopTurn, Workers
<1>9. CASE UNCHANGED vars
  BY <1>9 DEF vars
<1>10. 0..MaxTools \subseteq Nat
  BY AgentAssumption
<1>11. ASSUME NEW kw \in BOOLEAN, NEW n \in 0..MaxTools, NEW lens \in BOOLEAN,
              NEW marker \in BOOLEAN, AnalyseMarket(n, kw, lens, marker)
       PROVE  IInv'
  <2>1. n \in Nat /\ (lens \/ marker) \in BOOLEAN
    BY <1>10
  <2> QED
    BY <1>4, <1>11, <2>1 DEF AnalyseMarket
<1>12. ASSUME NEW kw \in BOOLEAN, NEW marker \in BOOLEAN, AnswerDirectly(kw, marker)
       PROVE  IInv'
  BY <1>4, <1>12 DEF AnswerDirectly
<1> HIDE DEF IInv
<1> QED
  BY <1>1, <1>2, <1>3, <1>5, <1>6, <1>7, <1>8, <1>9, <1>10, <1>11, <1>12
     DEF Next, NodeStep

(* The strengthening holds of every reachable state.                        *)
THEOREM AgentInvariant == Spec => []IInv
  BY InitIInv, StepIInv, PTL DEF Spec

(* No turn ends with advice the risk manager has not read unless a health   *)
(* keyword stands in its last segment, however long the turn.               *)
THEOREM GateCorrect == Spec => []AdviceAudited
<1>1. IInv => AdviceAudited
  BY DEF IInv
<1> QED
  BY <1>1, AgentInvariant, PTL

(* Every turn has its full retry, whatever earlier turns used up.           *)
THEOREM RetryCorrect == Spec => []ShippedFlaggedAfterRetry
<1>1. IInv => ShippedFlaggedAfterRetry
  BY DEF IInv
<1> QED
  BY <1>1, AgentInvariant, PTL

(* A handoff flag of an earlier turn never sends an answer to deep          *)
(* reasoning.                                                               *)
THEOREM HandoffCorrect == Spec => HandoffIsFresh
<1>1. ASSUME IInv, [Next]_vars
      PROVE  [at = "MarketAnalyst" /\ at' = "DeepReasoning" => wanted']_vars
  <2> SUFFICES ASSUME at = "MarketAnalyst", at' = "DeepReasoning" PROVE wanted'
    OBVIOUS
  <2>1. ASSUME NEW kw, NEW n, NEW lens \in BOOLEAN, NEW marker \in BOOLEAN,
               AnalyseMarket(n, kw, lens, marker) \/ AnswerDirectly(kw, marker)
        PROVE  wanted'
    BY <2>1 DEF AnalyseMarket, AnswerDirectly, AfterMarketAnalyst
  <2> QED
    BY <1>1, <2>1 DEF Next, NodeStep, NewTurn, Supervise, DeepReason, AfterDeepReasoning, ManagePortfolio,
                      AnalyseNews, ManageRisk, StopTurn, vars
<1> QED
  BY <1>1, AgentInvariant, PTL DEF Spec, HandoffIsFresh

-----------------------------------------------------------------------------
(* The observation log (Observations).                                      *)

(* A list of rows fit to be the log when n rows have been made and the rows *)
(* of S shown: they stand in the order they were made in, none is marked    *)
(* that was not shown, no call has two verdicts, and a call with a verdict  *)
(* carries its mark.                                                        *)
InOrder(l) == \A i, j \in DOMAIN l : i < j => l[i].id < l[j].id
MarkedShown(l, S) == \A i \in DOMAIN l : l[i].read => l[i].id \in S
JudgedOnce(l) ==
    \A i, j \in DOMAIN l :
        i < j /\ l[i].kind = "verdict" /\ l[j].kind = "verdict" => l[i].of # l[j].of
JudgedMarked(l) ==
    \A i \in DOMAIN l : l[i].kind = "verdict" =>
        /\ l[i].of < l[i].id
        /\ \A j \in DOMAIN l : l[j].kind = "issued" /\ l[j].id = l[i].of => l[j].resolved

FitLog(n, S) ==
    {l \in Seq(Row) :
        /\ InOrder(l)
        /\ \A i \in DOMAIN l : l[i].id <= n
        /\ MarkedShown(l, S)
        /\ JudgedOnce(l)
        /\ JudgedMarked(l)}

(* What a thread, the event loop or a pass holds is as fit as the file: it  *)
(* was the file once, and rows are only made and shown.                     *)
Filed(n, S) == {l \in FitLog(n, S) : Len(l) <= LogCap}
Holding(n, S) == {Idle} \cup [at : {"save"}, log : Filed(n, S)]
Passing(n, S) ==
    {Idle} \cup [at : {"sweep"}, log : Filed(n, S)]
           \cup [at : {"asked"}, batch : SUBSET S]
           \cup [at : {"mark"}, batch : SUBSET S, log : Filed(n, S)]

ObservationsInv ==
    /\ rows \in 0..MaxRows
    /\ log \in Filed(rows, shown)
    /\ turn \in [Turns -> Holding(rows, shown)]
    /\ issue \in Holding(rows, shown)
    /\ pass \in [Passes -> Passing(rows, shown)]

LEMMA ObservationsCaps == LogCap \in Nat \ {0} /\ MaxEvidence \in Nat \ {0} /\ MaxRows \in Nat
  BY ObservationsAssumption

LEMMA RowFields ==
  ASSUME NEW l \in Seq(Row)
  PROVE  \A i \in DOMAIN l : /\ l[i] \in Row /\ l[i].id \in Int /\ l[i].of \in Int
                             /\ l[i].resolved \in BOOLEAN /\ l[i].read \in BOOLEAN
<1>1. \A r \in Row : /\ r.id \in Int /\ r.of \in Int
                     /\ r.resolved \in BOOLEAN /\ r.read \in BOOLEAN
  BY ObservationsCaps DEF Row
<1>2. ASSUME NEW i \in DOMAIN l PROVE l[i] \in Row
  <2>1. i \in 1..Len(l)
    BY LenProperties
  <2> QED BY <2>1, ElementOfSeq
<1> QED BY <1>1, <1>2

(* Rows made and shown later do not make a list less fit.                   *)
LEMMA FitGrows ==
  ASSUME NEW n \in Int, NEW m \in Int, n <= m, NEW S, NEW T, S \subseteq T
  PROVE  /\ Filed(n, S) \subseteq Filed(m, T)
         /\ Holding(n, S) \subseteq Holding(m, T)
         /\ Passing(n, S) \subseteq Passing(m, T)
<1>1. ASSUME NEW l \in FitLog(n, S) PROVE l \in FitLog(m, T)
  <2>1. l \in Seq(Row) /\ InOrder(l) /\ JudgedOnce(l) /\ JudgedMarked(l)
    BY <1>1 DEF FitLog
  <2>2. \A i \in DOMAIN l : l[i].id \in Int /\ l[i].id <= n
    BY <1>1, <2>1, RowFields DEF FitLog
  <2>3. \A i \in DOMAIN l : l[i].id <= m
    BY <2>2
  <2>4. MarkedShown(l, S)
    BY <1>1 DEF FitLog
  <2>5. MarkedShown(l, T)
    BY <2>4 DEF MarkedShown
  <2> QED BY <2>1, <2>3, <2>5 DEF FitLog
<1>2. Filed(n, S) \subseteq Filed(m, T) /\ SUBSET S \subseteq SUBSET T
  BY <1>1 DEF Filed
<1>3. Holding(n, S) \subseteq Holding(m, T)
  BY <1>2 DEF Holding
<1>4. Passing(n, S) \subseteq Passing(m, T)
  BY <1>2 DEF Passing
<1> QED BY <1>2, <1>3, <1>4

(* A list stays fit when calls of it are marked as judged, or rows that     *)
(* were shown as read.                                                      *)
LEMMA FitWhenMarked ==
  ASSUME NEW n \in Int, NEW S, NEW l \in FitLog(n, S), NEW c \in Seq(Row),
         DOMAIN c = DOMAIN l,
         \A i \in DOMAIN l : /\ c[i].id = l[i].id /\ c[i].kind = l[i].kind /\ c[i].of = l[i].of
                             /\ l[i].resolved => c[i].resolved
                             /\ c[i].read => l[i].read \/ l[i].id \in S
  PROVE  c \in FitLog(n, S)
<1>1. /\ InOrder(l) /\ JudgedOnce(l) /\ JudgedMarked(l) /\ MarkedShown(l, S)
      /\ \A i \in DOMAIN l : l[i].id <= n
  BY DEF FitLog
<1>2. InOrder(c)
  BY <1>1 DEF InOrder
<1>3. MarkedShown(c, S) /\ \A i \in DOMAIN c : c[i].id <= n
  BY <1>1 DEF MarkedShown
<1>4. JudgedOnce(c)
  BY <1>1 DEF JudgedOnce
<1>5. JudgedMarked(c)
  BY <1>1 DEF JudgedMarked
<1> QED BY <1>2, <1>3, <1>4, <1>5 DEF FitLog

(* The end of a fit list is fit.                                            *)
LEMMA FitEnd ==
  ASSUME NEW n \in Int, NEW S, NEW l \in FitLog(n, S)
  PROVE  LastOf(l, LogCap) \in FitLog(n, S) /\ Len(LastOf(l, LogCap)) <= LogCap
<1> DEFINE c == LastOf(l, LogCap)
<1>1. l \in Seq(Row) /\ Len(l) \in Nat /\ DOMAIN l = 1..Len(l)
  BY LenProperties DEF FitLog
<1> HIDE DEF c
<1>0. PICK cap \in Nat \ {0} : cap = LogCap
  BY ObservationsCaps
<1>2. /\ c \in Seq(Row) /\ Len(c) <= LogCap
      /\ \E d \in Nat : /\ DOMAIN c = 1..(Len(l) - d)
                        /\ \A i \in 1..(Len(l) - d) : c[i] = l[i + d]
  <2>1. /\ LastOf(l, cap) \in Seq(Row) /\ Len(LastOf(l, cap)) <= cap
        /\ \E d \in Nat :
              /\ d = IF Len(l) <= cap THEN 0 ELSE Len(l) - cap
              /\ DOMAIN LastOf(l, cap) = 1..(Len(l) - d)
              /\ \A i \in 1..(Len(l) - d) : LastOf(l, cap)[i] = l[i + d]
    <3>1. l \in Seq(Row)
      BY <1>1
    <3> QED BY ONLY <3>1, LastOfLemma
  <2>2. c = LastOf(l, cap)
    BY <1>0 DEF c
  <2> QED BY <1>0, <2>1, <2>2
<1> HIDE DEF c
<1>3. PICK d \in Nat : /\ DOMAIN c = 1..(Len(l) - d)
                       /\ \A i \in 1..(Len(l) - d) : c[i] = l[i + d]
  BY <1>2
<1>4. \A i \in DOMAIN c : i \in Int /\ i + d \in DOMAIN l /\ c[i] = l[i + d]
  BY <1>1, <1>3
<1>5. \A i, j \in DOMAIN c : i < j => i + d < j + d
  BY <1>4
<1>6. /\ InOrder(l) /\ JudgedOnce(l) /\ JudgedMarked(l) /\ MarkedShown(l, S)
      /\ \A i \in DOMAIN l : l[i].id <= n
  BY DEF FitLog
<1>7. InOrder(c)
  BY <1>4, <1>5, <1>6 DEF InOrder
<1>8. MarkedShown(c, S) /\ \A i \in DOMAIN c : c[i].id <= n
  BY <1>4, <1>6 DEF MarkedShown
<1>9. JudgedOnce(c)
  BY <1>4, <1>5, <1>6 DEF JudgedOnce
<1>10. JudgedMarked(c)
  BY <1>4, <1>6 DEF JudgedMarked
<1> QED BY <1>2, <1>7, <1>8, <1>9, <1>10 DEF c, FitLog

(* New rows for a list: numbered on, unread, and a verdict among them is on *)
(* a call that is marked and has no other.                                  *)
Fresh(new, l, n) ==
    /\ new \in Seq(Row)
    /\ \A k \in DOMAIN new : new[k].id = n + k /\ ~new[k].read
    /\ JudgedOnce(new)
    /\ \A k \in DOMAIN new : new[k].kind = "verdict" =>
          /\ new[k].of <= n
          /\ \A i \in DOMAIN l :
                /\ l[i].kind = "verdict" => l[i].of # new[k].of
                /\ l[i].kind = "issued" /\ l[i].id = new[k].of => l[i].resolved

(* A fit list stays fit when such rows join it.                             *)
LEMMA FitWithNew ==
  ASSUME NEW n \in Nat, NEW S, NEW l \in FitLog(n, S), NEW new, Fresh(new, l, n)
  PROVE  l \o new \in FitLog(n + Len(new), S)
<1> DEFINE c == l \o new
           a == Len(l)
           b == Len(new)
<1>1. /\ l \in Seq(Row) /\ a \in Nat /\ DOMAIN l = 1..a
      /\ new \in Seq(Row) /\ b \in Nat /\ DOMAIN new = 1..b
  BY LenProperties DEF FitLog, Fresh
<1>2. /\ c \in Seq(Row) /\ Len(c) = a + b
      /\ \A i \in 1..(a + b) : c[i] = IF i <= a THEN l[i] ELSE new[i - a]
  BY <1>1, ConcatProperties
<1>3. DOMAIN c = 1..(a + b)
  BY <1>2, LenProperties
<1>4. /\ InOrder(l) /\ JudgedOnce(l) /\ JudgedMarked(l) /\ MarkedShown(l, S)
      /\ \A i \in DOMAIN l : l[i].id <= n
  BY DEF FitLog
<1>5. /\ \A k \in DOMAIN new : new[k].id = n + k /\ ~new[k].read
      /\ JudgedOnce(new)
      /\ \A k \in DOMAIN new : new[k].kind = "verdict" =>
          /\ new[k].of <= n
          /\ \A i \in DOMAIN l :
                /\ l[i].kind = "verdict" => l[i].of # new[k].of
                /\ l[i].kind = "issued" /\ l[i].id = new[k].of => l[i].resolved
  BY DEF Fresh
<1>6. \A i \in DOMAIN l : l[i].id \in Int /\ l[i].of \in Int
  BY <1>1, RowFields
<1>7. \A k \in DOMAIN new : new[k].id \in Int /\ new[k].of \in Int
  BY <1>1, RowFields
<1> HIDE DEF a, b, c
<1>8. \A i \in DOMAIN c : \/ i \in DOMAIN l /\ i <= a /\ c[i] = l[i]
                          \/ i - a \in DOMAIN new /\ ~(i <= a) /\ c[i] = new[i - a]
  BY <1>1, <1>2, <1>3
<1>9. \A i \in DOMAIN c : i \in Int
  BY <1>3
<1>10. InOrder(c)
  <2> SUFFICES ASSUME NEW i \in DOMAIN c, NEW j \in DOMAIN c, i < j PROVE c[i].id < c[j].id
    BY DEF InOrder
  <2>1. CASE j <= a
    BY <1>1, <1>4, <1>8, <1>9, <2>1 DEF InOrder
  <2>2. CASE ~(j <= a) /\ i <= a
    <3>1. c[i] = l[i] /\ i \in DOMAIN l /\ c[j] = new[j - a] /\ j - a \in DOMAIN new
      BY <1>8, <2>2
    <3>2. l[i].id <= n /\ l[i].id \in Int /\ new[j - a].id = n + (j - a) /\ j - a >= 1
      BY <1>1, <1>4, <1>5, <1>6, <1>9, <3>1
    <3> QED BY <1>1, <1>9, <3>1, <3>2
  <2>3. CASE ~(j <= a) /\ ~(i <= a)
    <3>1. /\ c[i] = new[i - a] /\ i - a \in DOMAIN new
          /\ c[j] = new[j - a] /\ j - a \in DOMAIN new
      BY <1>8, <2>3
    <3>2. new[i - a].id = n + (i - a) /\ new[j - a].id = n + (j - a)
      BY <1>5, <3>1
    <3> QED BY <1>1, <1>9, <3>1, <3>2
  <2> QED BY <2>1, <2>2, <2>3
<1>11. \A i \in DOMAIN c : c[i].id <= n + b
  <2> SUFFICES ASSUME NEW i \in DOMAIN c PROVE c[i].id <= n + b
    OBVIOUS
  <2>1. CASE i <= a
    <3>1. c[i].id <= n /\ c[i].id \in Int
      BY <1>4, <1>6, <1>8, <2>1
    <3> QED BY <1>1, <3>1
  <2>2. CASE ~(i <= a)
    <3>1. i - a \in 1..b /\ c[i].id = n + (i - a)
      BY <1>1, <1>5, <1>8, <2>2
    <3> QED BY <1>1, <1>9, <3>1
  <2> QED BY <2>1, <2>2
<1>12. MarkedShown(c, S)
  BY <1>4, <1>5, <1>8 DEF MarkedShown
<1>13. JudgedOnce(c)
  <2> SUFFICES ASSUME NEW i \in DOMAIN c, NEW j \in DOMAIN c, i < j,
                      c[i].kind = "verdict", c[j].kind = "verdict"
               PROVE  c[i].of # c[j].of
    BY DEF JudgedOnce
  <2>1. CASE j <= a
    BY <1>1, <1>4, <1>8, <1>9, <2>1 DEF JudgedOnce
  <2>2. CASE ~(j <= a) /\ i <= a
    BY <1>5, <1>8, <2>2
  <2>3. CASE ~(j <= a) /\ ~(i <= a)
    <3>1. /\ c[i] = new[i - a] /\ i - a \in DOMAIN new
          /\ c[j] = new[j - a] /\ j - a \in DOMAIN new /\ i - a < j - a
      BY <1>1, <1>8, <1>9, <2>3
    <3> QED BY <1>5, <3>1 DEF JudgedOnce
  <2> QED BY <2>1, <2>2, <2>3
<1>14. JudgedMarked(c)
  <2> SUFFICES ASSUME NEW i \in DOMAIN c, c[i].kind = "verdict"
               PROVE  /\ c[i].of < c[i].id
                      /\ \A j \in DOMAIN c : c[j].kind = "issued" /\ c[j].id = c[i].of => c[j].resolved
    BY DEF JudgedMarked
  <2>1. c[i].of < c[i].id /\ c[i].of <= n /\ c[i].of \in Int
    <3>1. CASE i <= a
      <4>1. i \in DOMAIN l /\ c[i] = l[i]
        BY <1>8, <3>1
      <4>2. l[i].of < l[i].id
        BY <1>4, <4>1 DEF JudgedMarked
      <4> QED BY <1>4, <1>6, <4>1, <4>2
    <3>2. CASE ~(i <= a)
      <4>1. i - a \in DOMAIN new /\ c[i] = new[i - a]
        BY <1>8, <3>2
      <4>2. new[i - a].id = n + (i - a) /\ new[i - a].of <= n /\ i - a \in 1..b
        BY <1>1, <1>5, <4>1
      <4> QED BY <1>1, <1>7, <1>9, <4>1, <4>2
    <3> QED BY <3>1, <3>2
  <2>2. ASSUME NEW j \in DOMAIN c, c[j].kind = "issued", c[j].id = c[i].of PROVE c[j].resolved
    <3>1. CASE ~(j <= a)
      <4>1. j - a \in 1..b /\ c[j].id = n + (j - a)
        BY <1>1, <1>5, <1>8, <3>1
      <4> QED BY <1>1, <1>9, <2>1, <2>2, <4>1
    <3>2. CASE j <= a /\ i <= a
      BY <1>4, <1>8, <2>2, <3>2 DEF JudgedMarked
    <3>3. CASE j <= a /\ ~(i <= a)
      BY <1>5, <1>8, <2>2, <3>3
    <3> QED BY <3>1, <3>2, <3>3
  <2> QED BY <2>1, <2>2
<1> QED BY <1>2, <1>10, <1>11, <1>12, <1>13, <1>14 DEF FitLog, b, c

(* What is saved is fit, and within the cap.                                *)
LEMMA PutKeeps ==
  ASSUME rows \in 0..MaxRows, NEW l \in FitLog(rows, shown), NEW new, Fresh(new, l, rows),
         Put(l, new)
  PROVE  /\ rows' \in 0..MaxRows /\ rows <= rows'
         /\ log' \in Filed(rows', shown)
<1>1. rows \in Nat /\ Len(new) \in Nat
  BY LenProperties DEF Fresh
<1>2. rows' = rows + Len(new) /\ rows' <= MaxRows /\ log' = LastOf(l \o new, LogCap)
  BY DEF Put
<1>3. l \o new \in FitLog(rows + Len(new), shown)
  BY <1>1, FitWithNew
<1>4. rows + Len(new) \in Int
  BY <1>1
<1>5. /\ LastOf(l \o new, LogCap) \in FitLog(rows + Len(new), shown)
      /\ Len(LastOf(l \o new, LogCap)) <= LogCap
  BY <1>3, <1>4, FitEnd
<1> QED BY <1>1, <1>2, <1>5, ObservationsCaps DEF Filed

(* A thread and the event loop each add one row.                            *)
LEMMA RowJoins ==
  ASSUME rows \in 0..MaxRows, NEW l \in FitLog(rows, shown),
         NEW kind \in {"asked", "issued"}, Put(l, <<NewObservation(1, kind, 0)>>)
  PROVE  /\ rows' \in 0..MaxRows /\ rows <= rows'
         /\ log' \in Filed(rows', shown)
<1>1. PICK r : r = NewObservation(1, kind, 0)
  OBVIOUS
<1>2. PICK new : new = <<r>>
  OBVIOUS
<1>3. Len(new) = 1 /\ DOMAIN new = 1..1 /\ new[1] = r
  BY <1>2
<1>4. rows \in Int /\ rows + 1 \in 1..MaxRows
  BY <1>1, <1>2, <1>3, ObservationsCaps DEF Put
<1>5. r \in Row /\ r.id = rows + 1 /\ ~r.read /\ r.kind # "verdict"
  BY <1>1, <1>4, ObservationsCaps DEF Row, NewObservation
<1>6. new \in Seq(Row)
  BY <1>2, <1>5
<1>7. \A k \in DOMAIN new : k = 1 /\ new[k] = r
  BY <1>3
<1>8. Fresh(new, l, rows)
  BY <1>5, <1>6, <1>7 DEF Fresh, JudgedOnce
<1>9. Put(l, new)
  BY <1>1, <1>2
<1> QED BY <1>8, <1>9, PutKeeps

(* The calls a sweep judges are marked as it adds their verdicts.           *)
Judged(l, old) == [i \in DOMAIN l |-> [l[i] EXCEPT !.resolved = @ \/ i \in old]]

LEMMA JudgedFields ==
  ASSUME NEW n \in Int, NEW S, NEW l \in FitLog(n, S), NEW old
  PROVE  /\ Judged(l, old) \in FitLog(n, S)
         /\ DOMAIN Judged(l, old) = DOMAIN l
         /\ \A i \in DOMAIN l :
              /\ Judged(l, old)[i].id = l[i].id /\ Judged(l, old)[i].kind = l[i].kind
              /\ Judged(l, old)[i].of = l[i].of
              /\ (l[i].resolved \/ i \in old) => Judged(l, old)[i].resolved
<1>1. PICK c : c = Judged(l, old)
  OBVIOUS
<1>2. l \in Seq(Row) /\ Len(l) \in Nat /\ DOMAIN l = 1..Len(l) /\ \A i \in DOMAIN l : l[i] \in Row
  BY LenProperties, RowFields DEF FitLog
<1>3. ASSUME NEW r \in Row, NEW b \in BOOLEAN, NEW q, q = [r EXCEPT !.resolved = b]
      PROVE  /\ q \in Row /\ q.id = r.id /\ q.kind = r.kind /\ q.of = r.of
             /\ q.read = r.read /\ q.resolved = b
  BY <1>3 DEF Row
<1>4. ASSUME NEW i \in DOMAIN l
      PROVE  /\ c[i] \in Row /\ c[i].id = l[i].id /\ c[i].kind = l[i].kind
             /\ c[i].of = l[i].of /\ c[i].read = l[i].read
             /\ (l[i].resolved \/ i \in old) => c[i].resolved
  <2>1. PICK b \in BOOLEAN : b = (l[i].resolved \/ i \in old)
    OBVIOUS
  <2>2. c[i] = [l[i] EXCEPT !.resolved = b]
    BY <1>1, <2>1 DEF Judged
  <2> QED BY <1>2, <1>3, <2>1, <2>2
<1>5. DOMAIN c = DOMAIN l /\ c \in [1..Len(l) -> Row]
  BY <1>1, <1>2, <1>4 DEF Judged
<1>6. c \in Seq(Row)
  BY <1>2, <1>5, SeqDef
<1>7. c \in FitLog(n, S)
  BY <1>4, <1>5, <1>6, FitWhenMarked
<1> QED BY <1>1, <1>4, <1>5, <1>7

LEMMA SweepKeeps ==
  ASSUME rows \in 0..MaxRows, NEW l \in FitLog(rows, shown),
         NEW old \in SUBSET Unresolved(l), NEW a, a = Ascending(old),
         NEW new, new = [k \in DOMAIN a |-> NewObservation(k, "verdict", l[a[k]].id)],
         Put(Judged(l, old), new)
  PROVE  /\ rows' \in 0..MaxRows /\ rows <= rows'
         /\ log' \in Filed(rows', shown)
<1> DEFINE m == Cardinality(old)
<1>1. /\ l \in Seq(Row) /\ Len(l) \in Nat /\ DOMAIN l = 1..Len(l) /\ rows \in Nat
      /\ InOrder(l) /\ JudgedMarked(l) /\ \A i \in DOMAIN l : l[i].id <= rows
  BY LenProperties DEF FitLog
<1>2. /\ old \in SUBSET Int /\ IsFiniteSet(old)
      /\ \A i \in old : i \in DOMAIN l /\ l[i].kind = "issued" /\ ~l[i].resolved
  <2>1. IsFiniteSet(1..Len(l)) /\ old \subseteq 1..Len(l)
    BY <1>1, FS_Interval DEF Unresolved
  <2> QED BY <1>1, <2>1, FS_Subset DEF Unresolved
<1>3. /\ m \in Nat /\ a \in [1..m -> old]
      /\ \A i, j \in 1..m : i < j => a[i] < a[j]
  <2>1. /\ Cardinality(old) \in Nat /\ Ascending(old) \in [1..Cardinality(old) -> old]
        /\ \A i, j \in 1..Cardinality(old) : i < j => Ascending(old)[i] < Ascending(old)[j]
    BY ONLY <1>2, AscendingLemma
  <2> QED BY <2>1
<1> HIDE DEF m
<1>4. /\ DOMAIN new = 1..m
      /\ \A k \in 1..m : new[k] = NewObservation(k, "verdict", l[a[k]].id)
  BY <1>3
<1>5. Len(new) = m
  <2>1. new \in [1..m -> {new[k] : k \in 1..m}]
    BY <1>4
  <2> QED BY <1>3, <2>1, SeqDef, LenProperties
<1>6. rows + m <= MaxRows
  BY <1>5 DEF Put
<1>7. \A k \in 1..m : /\ a[k] \in DOMAIN l /\ l[a[k]].kind = "issued" /\ ~l[a[k]].resolved
                       /\ l[a[k]].id \in 1..MaxRows /\ l[a[k]].id <= rows /\ a[k] \in old
  BY <1>1, <1>2, <1>3, RowFields DEF Row
<1>8. ASSUME NEW k \in 1..m
      PROVE  /\ new[k] \in Row /\ new[k].id = rows + k /\ ~new[k].read
             /\ new[k].of = l[a[k]].id /\ new[k].kind = "verdict"
  <2>0. rows \in Nat /\ m \in Nat /\ k \in 1..m /\ rows + m <= MaxRows /\ MaxRows \in Nat
    BY <1>1, <1>3, <1>6, ObservationsCaps
  <2>1. rows + k \in 1..MaxRows /\ l[a[k]].id \in 0..MaxRows
    <3>1. rows + k \in 1..MaxRows
      BY ONLY <2>0
    <3> QED BY <1>7, <2>0, <3>1
  <2>2. PICK x \in 0..MaxRows : x = l[a[k]].id
    BY <2>1
  <2>4. PICK y \in 1..MaxRows : y = rows + k
    BY <2>1
  <2>3. new[k] = [id |-> y, kind |-> "verdict", of |-> x,
                  resolved |-> FALSE, read |-> FALSE]
    BY <1>4, <2>2, <2>4 DEF NewObservation
  <2>5. ASSUME NEW q, q = [id |-> y, kind |-> "verdict", of |-> x,
                           resolved |-> FALSE, read |-> FALSE]
        PROVE  /\ q \in Row /\ q.id = y /\ ~q.read /\ q.of = x /\ q.kind = "verdict"
    BY ONLY <2>5 DEF Row
  <2> QED BY <2>2, <2>3, <2>4, <2>5
<1>9. new \in Seq(Row)
  <2>1. new \in [1..m -> Row]
    BY <1>4, <1>8
  <2> QED BY <1>3, <2>1, SeqDef
<1>10. \A i, j \in DOMAIN l : i < j => l[i].id # l[j].id
  BY <1>1, RowFields DEF InOrder
<1>11. JudgedOnce(new)
  <2> SUFFICES ASSUME NEW i \in 1..m, NEW j \in 1..m, i < j PROVE new[i].of # new[j].of
    BY <1>4 DEF JudgedOnce
  <2> QED BY <1>3, <1>7, <1>8, <1>10
<1>12. PICK c : c = Judged(l, old)
  OBVIOUS
<1>13. /\ c \in FitLog(rows, shown) /\ DOMAIN c = DOMAIN l
       /\ \A i \in DOMAIN l : /\ c[i].id = l[i].id /\ c[i].kind = l[i].kind
                              /\ c[i].of = l[i].of
                              /\ (l[i].resolved \/ i \in old) => c[i].resolved
  BY <1>1, <1>12, JudgedFields
<1>14. ASSUME NEW k \in 1..m, NEW i \in DOMAIN c
       PROVE  /\ c[i].kind = "verdict" => c[i].of # new[k].of
              /\ c[i].kind = "issued" /\ c[i].id = new[k].of => c[i].resolved
  <2>1. PICK b \in DOMAIN l : b = a[k]
    BY <1>7
  <2>2. b \in old /\ l[b].kind = "issued" /\ ~l[b].resolved /\ new[k].of = l[b].id
    BY <1>7, <1>8, <2>1
  <2>4. i \in DOMAIN l
    BY <1>13
  <2>5. /\ c[i].id = l[i].id /\ c[i].kind = l[i].kind /\ c[i].of = l[i].of
        /\ (l[i].resolved \/ i \in old) => c[i].resolved
    BY <1>13, <2>4
  <2>6. ASSUME c[i].kind = "verdict", c[i].of = l[b].id PROVE FALSE
    BY <1>1, <2>2, <2>4, <2>5, <2>6 DEF JudgedMarked
  <2>7. ASSUME c[i].kind = "issued", c[i].id = l[b].id PROVE c[i].resolved
    <3>1. i \in Int /\ b \in Int
      BY <1>1, <2>4
    <3>2. ~(i < b) /\ ~(b < i)
      BY <1>10, <2>4, <2>5, <2>7
    <3> QED BY <2>2, <2>5, <3>1, <3>2
  <2> QED BY <2>2, <2>6, <2>7
<1>15. \A k \in 1..m : new[k].of <= rows
  BY <1>7, <1>8
<1>16. Fresh(new, c, rows)
  BY <1>4, <1>8, <1>9, <1>11, <1>14, <1>15 DEF Fresh
<1>17. Put(c, new)
  BY <1>12
<1> QED BY <1>13, <1>16, <1>17, PutKeeps

(* Marking the rows of a batch that was shown.                              *)
LEMMA MarkedKeeps ==
  ASSUME NEW n \in Int, NEW S, NEW l \in FitLog(n, S), NEW batch \in SUBSET S
  PROVE  /\ Marked(l, batch) \in FitLog(n, S)
         /\ l \in Filed(n, S) => Marked(l, batch) \in Filed(n, S)
<1>1. PICK c : c = Marked(l, batch)
  OBVIOUS
<1>2. l \in Seq(Row) /\ Len(l) \in Nat /\ DOMAIN l = 1..Len(l) /\ \A i \in DOMAIN l : l[i] \in Row
  BY LenProperties, RowFields DEF FitLog
<1>3. ASSUME NEW r \in Row, NEW q, q = [r EXCEPT !.read = TRUE]
      PROVE  /\ q \in Row /\ q.id = r.id /\ q.kind = r.kind /\ q.of = r.of
             /\ q.resolved = r.resolved
  BY <1>3 DEF Row
<1>4. ASSUME NEW i \in DOMAIN l
      PROVE  /\ c[i] \in Row /\ c[i].id = l[i].id /\ c[i].kind = l[i].kind
             /\ c[i].of = l[i].of
             /\ l[i].resolved => c[i].resolved
             /\ c[i].read => l[i].read \/ l[i].id \in S
  <2>1. CASE l[i].id \in batch
    <3>1. c[i] = [l[i] EXCEPT !.read = TRUE]
      BY <1>1, <2>1 DEF Marked
    <3> QED BY <1>2, <1>3, <2>1, <3>1
  <2>2. CASE l[i].id \notin batch
    <3>1. c[i] = l[i]
      BY <1>1, <2>2 DEF Marked
    <3> QED BY <1>2, <3>1
  <2> QED BY <2>1, <2>2
<1>5. DOMAIN c = DOMAIN l /\ c \in [1..Len(l) -> Row]
  BY <1>1, <1>2, <1>4 DEF Marked
<1>6. c \in Seq(Row) /\ Len(c) = Len(l)
  BY <1>2, <1>5, SeqDef, LenProperties
<1>7. c \in FitLog(n, S)
  BY <1>4, <1>5, <1>6, FitWhenMarked
<1> QED BY <1>1, <1>6, <1>7 DEF Filed

LEMMA ObservationsStart == ObservationsInit => ObservationsInv
<1> SUFFICES ASSUME ObservationsInit PROVE ObservationsInv
  OBVIOUS
<1>1. log = <<>> /\ rows = 0 /\ shown = {} /\ issue = Idle
      /\ turn = [u \in Turns |-> Idle] /\ pass = [p \in Passes |-> Idle]
  BY DEF ObservationsInit
<1>2. log \in Seq(Row) /\ Len(log) = 0 /\ DOMAIN log = {}
  BY <1>1
<1>3. log \in Filed(rows, shown)
  BY <1>2, ObservationsCaps DEF Filed, FitLog, InOrder, MarkedShown, JudgedOnce, JudgedMarked
<1>4. Idle \in Holding(rows, shown) /\ Idle \in Passing(rows, shown)
  BY DEF Holding, Passing
<1> QED BY <1>1, <1>3, <1>4, ObservationsCaps DEF ObservationsInv

(* What the operations hold, taken apart.                                   *)
LEMMA Held ==
  ASSUME ObservationsInv
  PROVE  /\ \A u \in Turns : turn[u] # Idle => turn[u].log \in Filed(rows, shown)
         /\ issue # Idle => issue.log \in Filed(rows, shown)
         /\ \A p \in Passes :
              /\ pass[p].at = "sweep" => pass[p].log \in Filed(rows, shown)
              /\ pass[p].at = "asked" => pass[p].batch \in SUBSET shown
              /\ pass[p].at = "mark" => /\ pass[p].batch \in SUBSET shown
                                        /\ pass[p].log \in Filed(rows, shown)
<1>1. \A h \in Holding(rows, shown) : h # Idle => h.log \in Filed(rows, shown)
  BY DEF Holding
<1>2. \A h \in Passing(rows, shown) :
         /\ h.at = "sweep" => h.log \in Filed(rows, shown)
         /\ h.at = "asked" => h.batch \in SUBSET shown
         /\ h.at = "mark" => h.batch \in SUBSET shown /\ h.log \in Filed(rows, shown)
  BY DEF Passing, Idle
<1> QED BY <1>1, <1>2 DEF ObservationsInv

LEMMA ObservationsStep == ObservationsInv /\ [ObservationsNext]_observationsVars => ObservationsInv'
<1> SUFFICES ASSUME ObservationsInv, [ObservationsNext]_observationsVars PROVE ObservationsInv'
  OBVIOUS
<1>1. /\ rows \in 0..MaxRows /\ rows \in Int
      /\ log \in Filed(rows, shown)
      /\ turn \in [Turns -> Holding(rows, shown)]
      /\ issue \in Holding(rows, shown)
      /\ pass \in [Passes -> Passing(rows, shown)]
  BY ObservationsCaps DEF ObservationsInv
<1>2. Idle \in Holding(rows, shown) /\ Idle \in Passing(rows, shown)
  BY DEF Holding, Passing
<1>3. Scheduled \in Passes /\ Forced \in Passes
  BY DEF Passes
(* What an operation has to show: the file and whatever is held are fit for *)
(* the rows made and shown so far, of which there are never fewer.          *)
<1>4. ASSUME rows' \in 0..MaxRows, rows <= rows', shown \subseteq shown',
             log' \in Filed(rows', shown'),
             turn' \in [Turns -> Holding(rows, shown)],
             issue' \in Holding(rows, shown),
             pass' \in [Passes -> Passing(rows, shown')]
      PROVE  ObservationsInv'
  <2>1. rows' \in Int
    BY <1>4, ObservationsCaps
  <2>2. Holding(rows, shown) \subseteq Holding(rows', shown')
    BY <1>1, <1>4, <2>1, FitGrows
  <2>3. Passing(rows, shown') \subseteq Passing(rows', shown')
    BY <1>1, <1>4, <2>1, FitGrows
  <2> QED BY <1>4, <2>2, <2>3 DEF ObservationsInv
<1>5. ASSUME NEW u \in Turns, ObserveLoad(u) PROVE ObservationsInv'
  <2>1. [at |-> "save", log |-> log] \in Holding(rows, shown)
    BY <1>1 DEF Holding
  <2>2. turn' \in [Turns -> Holding(rows, shown)]
    BY <1>1, <1>5, <2>1 DEF ObserveLoad
  <2> QED BY <1>1, <1>4, <1>5, <2>2 DEF ObserveLoad
<1>6. ASSUME NEW u \in Turns, ObserveSave(u) PROVE ObservationsInv'
  <2>1. turn[u].log \in Filed(rows, shown)
    BY <1>6, Held DEF ObserveSave
  <2>2. /\ rows' \in 0..MaxRows /\ rows <= rows'
        /\ log' \in Filed(rows', shown)
    BY <1>1, <1>6, <2>1, RowJoins DEF ObserveSave, Filed
  <2>3. turn' \in [Turns -> Holding(rows, shown)]
    BY <1>1, <1>2, <1>6 DEF ObserveSave
  <2> QED BY <1>1, <1>4, <1>6, <2>2, <2>3 DEF ObserveSave
<1>7. CASE IssueLoad
  <2>1. issue' \in Holding(rows, shown)
    BY <1>1, <1>7 DEF Holding, IssueLoad
  <2> QED BY <1>1, <1>4, <1>7, <2>1 DEF IssueLoad
<1>8. CASE IssueSave
  <2>1. issue.log \in Filed(rows, shown)
    BY <1>8, Held DEF IssueSave
  <2>2. /\ rows' \in 0..MaxRows /\ rows <= rows'
        /\ log' \in Filed(rows', shown)
    BY <1>1, <1>8, <2>1, RowJoins DEF IssueSave, Filed
  <2>3. issue' \in Holding(rows, shown)
    BY <1>2, <1>8 DEF IssueSave
  <2> QED BY <1>1, <1>4, <1>8, <2>2, <2>3 DEF IssueSave
<1>9. CASE SweepLoad
  <2>1. [at |-> "sweep", log |-> log] \in Passing(rows, shown)
    BY <1>1 DEF Passing
  <2>2. pass' \in [Passes -> Passing(rows, shown)]
    BY <1>1, <1>9, <2>1 DEF SweepLoad
  <2> QED BY <1>1, <1>4, <1>9, <2>2 DEF SweepLoad
<1>10. CASE SweepJudges
  <2>1. PICK l : l = pass[Scheduled].log
    OBVIOUS
  <2>2. l \in FitLog(rows, shown)
    BY <1>3, <1>10, <2>1, Held DEF SweepJudges, Filed
  <2>3. PICK old \in SUBSET Unresolved(l) :
          Put(Judged(l, old),
              [n \in DOMAIN Ascending(old) |-> NewObservation(n, "verdict", l[Ascending(old)[n]].id)])
    BY <1>10, <2>1 DEF SweepJudges, Judged
  <2>4. /\ rows' \in 0..MaxRows /\ rows <= rows'
        /\ log' \in Filed(rows', shown)
    BY <1>1, <2>2, <2>3, SweepKeeps
  <2>5. pass' \in [Passes -> Passing(rows, shown)] /\ UNCHANGED <<turn, issue, shown>>
    BY <1>1, <1>2, <1>10 DEF SweepJudges
  <2> QED BY <1>1, <1>4, <2>4, <2>5
<1>11. CASE SweepPasses
  <2>1. pass' \in [Passes -> Passing(rows, shown)]
    BY <1>1, <1>2, <1>11 DEF SweepPasses
  <2> QED BY <1>1, <1>4, <1>11, <2>1 DEF SweepPasses
<1>12. ASSUME NEW p \in Passes, Ask(p) PROVE ObservationsInv'
  <2>1. shown \subseteq shown' /\ Batch \in SUBSET shown'
    BY <1>12 DEF Ask
  <2>2. /\ Passing(rows, shown) \subseteq Passing(rows, shown')
        /\ Filed(rows, shown) \subseteq Filed(rows, shown')
    <3>1. rows <= rows
      BY <1>1
    <3> QED BY <1>1, <2>1, <3>1, FitGrows
  <2>3. [at |-> "asked", batch |-> Batch] \in Passing(rows, shown')
    BY <2>1 DEF Passing
  <2>4. pass' \in [Passes -> Passing(rows, shown')]
    BY <1>1, <1>12, <2>2, <2>3 DEF Ask
  <2>5. rows' = rows /\ log' = log /\ turn' = turn /\ issue' = issue
    BY <1>12 DEF Ask
  <2> QED BY <1>1, <1>4, <2>1, <2>2, <2>4, <2>5
<1>13. ASSUME NEW p \in Passes, ModelFails(p) PROVE ObservationsInv'
  <2>1. pass' \in [Passes -> Passing(rows, shown)]
    BY <1>1, <1>2, <1>13 DEF ModelFails
  <2> QED BY <1>1, <1>4, <1>13, <2>1 DEF ModelFails
<1>14. ASSUME NEW p \in Passes, ModelReplies(p) PROVE ObservationsInv'
  <2>1. pass[p].batch \in SUBSET shown
    BY <1>14, Held DEF ModelReplies
  <2>2. [at |-> "mark", batch |-> pass[p].batch, log |-> log] \in Passing(rows, shown)
    BY <1>1, <2>1 DEF Passing
  <2>3. pass' \in [Passes -> Passing(rows, shown)]
    BY <1>1, <1>14, <2>2 DEF ModelReplies
  <2> QED BY <1>1, <1>4, <1>14, <2>3 DEF ModelReplies
<1>15. ASSUME NEW p \in Passes, MarkSave(p) PROVE ObservationsInv'
  <2>1. pass[p].batch \in SUBSET shown /\ pass[p].log \in Filed(rows, shown)
    BY <1>15, Held DEF MarkSave
  <2>2. Marked(pass[p].log, pass[p].batch) \in Filed(rows, shown)
    BY <1>1, <2>1, MarkedKeeps DEF Filed
  <2>3. log' \in Filed(rows, shown)
    BY <1>1, <1>15, <2>2 DEF MarkSave
  <2>4. pass' \in [Passes -> Passing(rows, shown)]
    BY <1>1, <1>2, <1>15 DEF MarkSave
  <2> QED BY <1>1, <1>4, <1>15, <2>3, <2>4 DEF MarkSave
<1>16. CASE SaveFails \/ Crash
  <2>1. /\ turn' \in [Turns -> Holding(rows, shown)]
        /\ issue' \in Holding(rows, shown)
        /\ pass' \in [Passes -> Passing(rows, shown)]
    BY <1>1, <1>2, <1>16 DEF SaveFails, Crash
  <2> QED BY <1>1, <1>4, <1>16, <2>1 DEF SaveFails, Crash
<1>17. CASE UNCHANGED observationsVars
  BY <1>1, <1>4, <1>17 DEF observationsVars
<1> QED
  BY <1>5, <1>6, <1>7, <1>8, <1>9, <1>10, <1>11, <1>12, <1>13, <1>14, <1>15, <1>16, <1>17
     DEF ObservationsNext

(* The file and every copy of it in flight are well formed.                 *)
THEOREM ObservationsInvariant == ObservationsSpec => []ObservationsInv
  BY ObservationsStart, ObservationsStep, PTL DEF ObservationsSpec

(* The log is well formed and only rows that some model was shown are       *)
(* marked as read, whatever saves, failures and kills come between a load   *)
(* and its save.                                                            *)
THEOREM LogIsTrue == ObservationsSpec => []LogInv
<1>1. ObservationsInv => LogInv
  <2> SUFFICES ASSUME ObservationsInv PROVE LogInv
    OBVIOUS
  <2>1. log \in Seq(Row) /\ Len(log) <= LogCap /\ MarkedShown(log, shown)
    BY DEF ObservationsInv, Filed, FitLog
  <2>2. ReadWasShown
    BY <2>1 DEF MarkedShown, ReadWasShown, ToSet
  <2> QED BY <2>1, <2>2 DEF LogInv, ObservationsTypeOK
<1> QED BY <1>1, ObservationsInvariant, PTL

(* No call is judged twice, however the sweep's copy and the other writers' *)
(* copies are saved over one another.                                       *)
THEOREM CallsAreJudgedOnce == ObservationsSpec => []VerdictOnce
<1>1. ObservationsInv => VerdictOnce
  BY DEF ObservationsInv, Filed, FitLog, JudgedOnce, VerdictOnce
<1> QED BY <1>1, ObservationsInvariant, PTL
=============================================================================
