--------------------------- MODULE WorkersProofs ---------------------------
(***************************************************************************)
(* Proofs about Workers for any jobs, stories and escalation cap.          *)
(***************************************************************************)
EXTENDS Workers, FiniteSetTheorems, TLAPS

Busy(j) == job[j].pc \notin {"unused", "done"}

(* While the news are marked as being fetched, a request is about to        *)
(* register its thread, or the registered thread is still at work: it is    *)
(* the only one whose finally block clears the mark.                        *)
NewsInv ==
    marker["news"] # None =>
        \/ \E j \in Jobs : At(j, "news", "register")
        \/ newsThread \in Jobs /\ job[newsThread].kind = "news" /\ Busy(newsThread)

MarkerInv ==
    /\ NewsInv
    /\ \A k \in Kinds \ {"news"} : marker[k] # None => Unfinished(k) # {}

Scanning(j) == job[j].kind = "catalyst" /\ job[j].pc \notin {"unused", "spawned", "done"}

(* What the scan at j can rely on when none has overlapped or broken off.   *)
Relies(j) ==
    /\ job[j].pc = "escalate" => job[j].todo \cap (seenLog \cup escalatedLog) = {}
    /\ job[j].pc = "merge" => job[j].base = scenarios
    /\ job[j].pc = "annotate" => Merged(job[j]) = scenarios
    /\ job[j].pc = "predict" => job[j].base = {s \in Stories : predicted[s] > 0}

(* A story that has been paid for is in the log, or the scan at j has it in *)
(* hand and will record it.                                                 *)
Accounted(s, j) ==
    \/ s \in seenLog \cup escalatedLog
    \/ /\ job[j].pc \in {"escalate", "merge", "annotate", "record"}
       /\ s \in job[j].found \ job[j].todo

ScanInv ==
    ~upset =>
        /\ \A i, j \in Jobs : Scanning(i) /\ Scanning(j) => i = j
        /\ \A s \in Stories : billed[s] > 0 =>
              \/ s \in seenLog \cup escalatedLog
              \/ \E j \in Jobs : Scanning(j) /\ Accounted(s, j)
        /\ \A j \in Jobs : Scanning(j) => Relies(j)
        /\ OncePerStory /\ ButtonsOpen


-----------------------------------------------------------------------------
(* How the two ways of changing a job change it.                            *)

LEMMA UnusedType == Unused \in Job
  BY DEF Unused, Job

LEMMA GotoFacts ==
  ASSUME job \in [Jobs -> Job], NEW j \in Jobs, NEW pc, Goto(j, pc),
         pc \in {"unused", "asked", "renew", "register", "spawned", "running", "model", "chain",
                 "gather", "escalate", "merge", "annotate", "record", "readkeys", "predict",
                 "leaving", "done"}
  PROVE  /\ job' \in [Jobs -> Job]
         /\ job'[j].pc = pc
         /\ job'[j].kind = job[j].kind /\ job'[j].found = job[j].found
         /\ job'[j].todo = job[j].todo /\ job'[j].done = job[j].done
         /\ job'[j].base = job[j].base
         /\ \A i \in Jobs \ {j} : job'[i] = job[i]
  BY DEF Goto, Job

LEMMA NewFacts ==
  ASSUME job \in [Jobs -> Job], NEW j \in Jobs, NEW k \in Kinds, NEW pc, New(j, k, pc),
         pc \in {"asked", "spawned", "running"}
  PROVE  /\ job' \in [Jobs -> Job]
         /\ job'[j].pc = pc /\ job'[j].kind = k
         /\ job'[j].todo = {} /\ job'[j].done = {}
         /\ \A i \in Jobs \ {j} : job'[i] = job[i]
  BY DEF New, Job, Unused

-----------------------------------------------------------------------------
(* Types.                                                                  *)

(* The cap on escalations is a cardinality, so sets of stories are finite.   *)
LEMMA FiniteParts == ASSUME NEW S \in SUBSET Stories PROVE IsFiniteSet(S)
  BY WorkersAssumption, FS_Subset

(* The parts of the type invariant that concern the jobs.                   *)
JobOK(r) ==
    /\ r.todo \cup r.done \subseteq r.found
    /\ Cardinality(r.todo \cup r.done) <= EscalationCap
    /\ r.pc \in {"spawned", "gather"} => r.done = {}

JobsOK == job \in [Jobs -> Job] /\ \A j \in Jobs : JobOK(job[j])

(* A job that has found nothing, and one that keeps what it has found.       *)
LEMMA EmptyJobOK == ASSUME NEW r, r.todo = {}, r.done = {} PROVE JobOK(r)
<1>1. r.todo \cup r.done = {} /\ Cardinality({}) = 0
  BY FS_EmptySet
<1> QED
  BY <1>1, WorkersAssumption DEF JobOK

LEMMA SameJobOK ==
  ASSUME NEW r, NEW q, JobOK(r), q.found = r.found, q.todo = r.todo, q.done = r.done,
         q.pc \in {"spawned", "gather"} => r.done = {}
  PROVE  JobOK(q)
<1>1. q.todo \cup q.done = r.todo \cup r.done
  OBVIOUS
<1> QED
  BY <1>1 DEF JobOK

(* Both ways of changing a job keep these parts.                             *)
LEMMA GotoKeepsJobs ==
  ASSUME JobsOK, NEW j \in Jobs, NEW pc, Goto(j, pc),
         pc \in {"unused", "asked", "renew", "register", "spawned", "running", "model", "chain",
                 "gather", "escalate", "merge", "annotate", "record", "readkeys", "predict",
                 "leaving", "done"},
         pc \in {"spawned", "gather"} => job[j].done = {}
  PROVE  JobsOK'
<1>1. /\ job' \in [Jobs -> Job] /\ \A i \in Jobs \ {j} : job'[i] = job[i]
      /\ job'[j].found = job[j].found /\ job'[j].todo = job[j].todo
      /\ job'[j].done = job[j].done /\ job'[j].pc = pc
  BY GotoFacts DEF JobsOK
<1>2. JobOK(job[j])
  BY DEF JobsOK
<1>3. JobOK(job'[j])
  BY <1>1, <1>2, SameJobOK
<1> QED
  BY <1>1, <1>3 DEF JobsOK

LEMMA NewKeepsJobs ==
  ASSUME JobsOK, NEW j \in Jobs, NEW k \in Kinds, NEW pc, New(j, k, pc),
         pc \in {"asked", "spawned", "running"}
  PROVE  JobsOK'
<1>1. JobOK(job'[j])
  BY NewFacts, EmptyJobOK DEF JobsOK
<1> QED
  BY <1>1, NewFacts DEF JobsOK

(* The remaining steps change the stories at hand: one case for each.        *)
LEMMA JobsStep == JobsOK /\ scenarios \in SUBSET Stories /\ [Next]_vars => JobsOK'
<1> SUFFICES ASSUME JobsOK, scenarios \in SUBSET Stories, [Next]_vars PROVE JobsOK'
  OBVIOUS
<1>1. CASE job' = job
  BY <1>1 DEF JobsOK
<1>2. ASSUME NEW j \in Jobs, NEW pc, Goto(j, pc),
             pc \in {"renew", "register", "running", "model", "chain", "escalate", "merge",
                     "annotate", "record", "readkeys", "predict", "leaving", "done"}
      PROVE  JobsOK'
  BY <1>2, GotoKeepsJobs
<1>3. ASSUME Request PROVE JobsOK'
  BY <1>3, NewKeepsJobs DEF Request, AskText, AskCostly, ScheduledRun
<1>4. ASSUME NEW j \in Jobs, ChainScan(j) PROVE JobsOK'
  <2>1. CASE Goto(j, "leaving")
    BY <1>2, <2>1
  <2>2. ASSUME NEW i \in Jobs, job[i].pc = "unused",
               job' = [job EXCEPT ![i] = [Unused EXCEPT !.kind = "catalyst", !.pc = "spawned"],
                                  ![j].pc = "leaving"]
        PROVE  JobsOK'
    <3>1. i # j
      BY <1>4, <2>2 DEF ChainScan, At
    <3>2. [Unused EXCEPT !.kind = "catalyst", !.pc = "spawned"] \in Job
      BY DEF Unused, Job, Kinds
    <3>3. job' \in [Jobs -> Job]
      BY <2>2, <3>1, <3>2, ZenonT(60) DEF JobsOK, Job
    <3>4. /\ job'[i] = [Unused EXCEPT !.kind = "catalyst", !.pc = "spawned"]
          /\ job'[j] = [job[j] EXCEPT !.pc = "leaving"]
          /\ \A l \in Jobs \ {i, j} : job'[l] = job[l]
      BY <2>2, <3>1, <3>2 DEF JobsOK
    <3>5. /\ job'[i].todo = {} /\ job'[i].done = {}
          /\ job'[j].todo = job[j].todo /\ job'[j].done = job[j].done
          /\ job'[j].found = job[j].found
      BY <3>4 DEF Unused, JobsOK, Job
    <3>6. JobOK(job'[i])
      BY <3>5, EmptyJobOK
    <3>7. JobOK(job'[j])
      <4>1. job'[j].pc = "leaving" /\ JobOK(job[j])
        BY <3>4 DEF JobsOK, Job
      <4> QED
        BY <3>5, <4>1, SameJobOK
    <3> QED
      BY <3>3, <3>4, <3>6, <3>7 DEF JobsOK
  <2> QED
    BY <1>4, <2>1, <2>2 DEF ChainScan
<1>8. ASSUME NEW j \in Jobs, BeginScan(j) PROVE JobsOK'
  BY <1>8, GotoKeepsJobs DEF BeginScan, At, JobsOK, JobOK
<1>5. ASSUME NEW j \in Jobs, Extract(j) PROVE JobsOK'
  <2>1. PICK found \in SUBSET Stories : \E strong \in SUBSET found : \E c \in Chosen(strong) :
          job' = [job EXCEPT ![j].pc = "escalate", ![j].found = found, ![j].todo = c]
    BY <1>5 DEF Extract
  <2>0. PICK strong \in SUBSET found : \E c \in Chosen(strong) :
          job' = [job EXCEPT ![j].pc = "escalate", ![j].found = found, ![j].todo = c]
    BY <2>1
  <2>6. PICK c \in Chosen(strong) :
          job' = [job EXCEPT ![j].pc = "escalate", ![j].found = found, ![j].todo = c]
    BY <2>0
  <2>2. c \subseteq found /\ Cardinality(c) <= EscalationCap
    BY WorkersAssumption DEF Chosen, Eligible
  <2>3. job' = [job EXCEPT ![j] = [@ EXCEPT !.pc = "escalate", !.found = found, !.todo = c]]
    BY <2>6 DEF JobsOK
  <2>4. job[j] \in Job /\ job[j].done = {}
    BY <1>5 DEF JobsOK, JobOK, Extract, At
  <2>5. [job[j] EXCEPT !.pc = "escalate", !.found = found, !.todo = c] \in Job
    BY <2>2, <2>4 DEF Job
  <2>7. job' \in [Jobs -> Job] /\ \A i \in Jobs \ {j} : job'[i] = job[i]
    BY <2>3, <2>5 DEF JobsOK
  <2>8. job'[j].found = found /\ job'[j].todo = c /\ job'[j].done = {} /\ job'[j].pc = "escalate"
    BY <2>3, <2>4 DEF JobsOK, Job
  <2>9. c \cup {} = c
    OBVIOUS
  <2>10. JobOK(job'[j])
    BY <2>2, <2>8, <2>9 DEF JobOK
  <2> QED
    BY <2>7, <2>10 DEF JobsOK
<1>6. ASSUME NEW j \in Jobs, Escalate(j) PROVE JobsOK'
  <2>1. PICK s \in job[j].todo, ok \in BOOLEAN :
          job' = [job EXCEPT ![j].todo = @ \ {s}, ![j].done = IF ok THEN @ \cup {s} ELSE @]
    BY <1>6 DEF Escalate
  <2> DEFINE rest == job[j].todo \ {s}
             made == IF ok THEN job[j].done \cup {s} ELSE job[j].done
  <2>2. rest \in SUBSET Stories /\ made \in SUBSET Stories
    BY DEF JobsOK, Job
  <2>3. job' = [job EXCEPT ![j] = [@ EXCEPT !.todo = rest, !.done = made]]
    BY <2>1 DEF JobsOK
  <2> HIDE DEF rest, made
  <2>9. job[j] \in Job /\ job[j].pc = "escalate" /\ JobOK(job[j])
    BY <1>6 DEF JobsOK, Escalate, At
  <2>10. [job[j] EXCEPT !.todo = rest, !.done = made] \in Job
    BY <2>2, <2>9 DEF Job
  <2>4. /\ job' \in [Jobs -> Job] /\ \A i \in Jobs \ {j} : job'[i] = job[i]
        /\ job'[j].found = job[j].found /\ job'[j].todo = rest /\ job'[j].done = made
        /\ job'[j].pc = "escalate"
    BY <2>3, <2>9, <2>10 DEF JobsOK, Job
  <2>5. rest \cup made \subseteq job[j].todo \cup job[j].done
    BY DEF rest, made
  <2>6. job[j].todo \cup job[j].done \in SUBSET Stories
    BY DEF JobsOK, Job
  <2>7. Cardinality(rest \cup made) <= Cardinality(job[j].todo \cup job[j].done)
    BY <2>5, <2>6, FiniteParts, FS_Subset
  <2>8. /\ Cardinality(rest \cup made) \in Nat
        /\ Cardinality(job[j].todo \cup job[j].done) \in Nat
    BY <2>2, <2>6, FiniteParts, FS_CardinalityType, rest \cup made \in SUBSET Stories
  <2>11. Cardinality(rest \cup made) <= EscalationCap
    BY <2>7, <2>8, <2>9, WorkersAssumption DEF JobOK
  <2>12. JobOK(job'[j])
    BY <2>4, <2>5, <2>9, <2>11 DEF JobOK
  <2> QED
    BY <2>4, <2>12 DEF JobsOK
<1>7. ASSUME NEW j \in Jobs, NEW b \in SUBSET Stories, NEW pc \in {"merge", "predict"},
             job' = [job EXCEPT ![j].pc = pc, ![j].base = b]
      PROVE  JobsOK'
  <2>1. /\ job' \in [Jobs -> Job] /\ \A i \in Jobs \ {j} : job'[i] = job[i]
        /\ job'[j].found = job[j].found /\ job'[j].todo = job[j].todo
        /\ job'[j].done = job[j].done /\ job'[j].pc = pc
    BY <1>7, ZenonT(60) DEF JobsOK, Job
  <2>2. JobOK(job'[j])
    BY <2>1, SameJobOK DEF JobsOK
  <2> QED
    BY <2>1, <2>2 DEF JobsOK
<1>9. ASSUME NEW j \in Jobs, \/ CancelNews(j) \/ RenewNews(j) \/ RegisterNews(j) \/ BeforeModel(j)
                              \/ AfterModel(j) \/ LeaveNews(j)
      PROVE  JobsOK'
  BY <1>2, <1>9 DEF CancelNews, RenewNews, RegisterNews, BeforeModel, AfterModel, LeaveNews
<1>10. ASSUME NEW j \in Jobs, NEW k \in Kinds, MarkText(j, k) \/ TextReturns(j, k) \/ Leave(j, k)
       PROVE  JobsOK'
  BY <1>2, <1>10 DEF MarkText, TextReturns, Leave
<1>11. ASSUME NEW j \in Jobs, StoreScenarios(j) \/ Annotate(j) \/ RecordIds(j)
                               \/ AppendPredictions(j) \/ ScanFails(j)
       PROVE  JobsOK'
  BY <1>2, <1>11 DEF StoreScenarios, Annotate, RecordIds, AppendPredictions, ScanFails
<1>12. ASSUME NEW j \in Jobs, ReadScenarios(j) \/ ReadKeys(j)
       PROVE  JobsOK'
  BY <1>2, <1>7, <1>12 DEF ReadScenarios, ReadKeys
<1>13. ASSUME NEW j \in Jobs, JobStep(j) PROVE JobsOK'
  BY <1>4, <1>5, <1>6, <1>8, <1>9, <1>10, <1>11, <1>12, <1>13 DEF JobStep, ScanStep
<1> QED
  BY <1>1, <1>3, <1>13 DEF Next, MarkerAges, vars

(* The rest of the types.                                                   *)
FlatOK ==
    /\ marker \in [Kinds -> {None, "recent", "stuck"}]
    /\ newsThread \in Jobs \cup {None} /\ newsEvent \in Jobs \cup {None}
    /\ cancelled \subseteq Jobs \cup {None}
    /\ cache \in [Kinds \ {"catalyst"} -> Jobs \cup {None}]
    /\ list = None \/ list \in [ids : SUBSET Stories, buttons : SUBSET Stories]
    /\ scenarios \cup seenLog \cup escalatedLog \subseteq Stories
    /\ predicted \in [Stories -> 0..2] /\ billed \in [Stories -> 0..2] /\ upset \in BOOLEAN

LEMMA TypeParts == JobsOK /\ FlatOK => WorkersTypeOK
  BY DEF JobsOK, JobOK, FlatOK, WorkersTypeOK

(* The variables other than the jobs.                                        *)
LEMMA FlatStep == JobsOK /\ FlatOK /\ [Next]_vars => FlatOK'
<1> SUFFICES ASSUME JobsOK, FlatOK, [Next]_vars PROVE FlatOK'
  OBVIOUS
<1> USE DEF FlatOK, texts, scans
<1>1. CASE UNCHANGED vars
  BY <1>1 DEF vars
<1>2. CASE MarkerAges
  BY <1>2 DEF MarkerAges
<1>3. CASE Request
  BY <1>3 DEF Request, AskText, AskCostly, ScheduledRun
<1>4. ASSUME NEW j \in Jobs, \/ CancelNews(j) \/ RenewNews(j) \/ RegisterNews(j) \/ BeforeModel(j)
                              \/ ChainScan(j) \/ LeaveNews(j)
      PROVE  FlatOK'
  BY <1>4, ZenonT(60) DEF CancelNews, RenewNews, RegisterNews, BeforeModel, ChainScan, LeaveNews, Kinds
<1>5. ASSUME NEW j \in Jobs, AfterModel(j) PROVE FlatOK'
  BY <1>5 DEF AfterModel, Kinds
<1>6. ASSUME NEW j \in Jobs, NEW k \in Kinds, MarkText(j, k) \/ TextReturns(j, k) \/ Leave(j, k)
      PROVE  FlatOK'
  BY <1>6 DEF MarkText, TextReturns, Leave, Kinds
<1>7. ASSUME NEW j \in Jobs, BeginScan(j) PROVE FlatOK'
  <2>1. upset' \in BOOLEAN
    BY <1>7, Zenon DEF BeginScan
  <2> QED
    BY <1>7, <2>1 DEF BeginScan, Kinds
<1>8. ASSUME NEW j \in Jobs, Extract(j) PROVE FlatOK'
  BY <1>8 DEF Extract
<1>9. ASSUME NEW j \in Jobs, Escalate(j) PROVE FlatOK'
  <2>1. PICK s \in job[j].todo : billed' = [billed EXCEPT ![s] = IF @ = 2 THEN 2 ELSE @ + 1]
    BY <1>9 DEF Escalate
  <2>2. s \in Stories
    BY DEF JobsOK, Job
  <2>3. (IF billed[s] = 2 THEN 2 ELSE billed[s] + 1) \in 0..2
    BY <2>2
  <2>4. billed' \in [Stories -> 0..2]
    BY <2>1, <2>2, <2>3
  <2> QED
    BY <1>9, <2>4 DEF Escalate
<1>10. ASSUME NEW j \in Jobs, ReadScenarios(j) \/ ReadKeys(j) \/ ScanFails(j) PROVE FlatOK'
  BY <1>10 DEF ReadScenarios, ReadKeys, ScanFails
<1>11. ASSUME NEW j \in Jobs, StoreScenarios(j) \/ Annotate(j) \/ RecordIds(j) PROVE FlatOK'
  <2>1. job[j].found \in SUBSET Stories /\ job[j].done \in SUBSET Stories
                                       /\ job[j].base \in SUBSET Stories
    BY DEF JobsOK, Job
  <2> QED
    BY <1>11, <2>1 DEF StoreScenarios, Annotate, RecordIds, Merged, Buttons
<1>12. ASSUME NEW j \in Jobs, AppendPredictions(j) PROVE FlatOK'
  <2>1. predicted' \in [Stories -> 0..2]
    BY <1>12 DEF AppendPredictions
  <2> QED
    BY <1>12, <2>1 DEF AppendPredictions
<1> QED
  BY <1>1, <1>2, <1>3, <1>4, <1>5, <1>6, <1>7, <1>8, <1>9, <1>10, <1>11, <1>12
     DEF Next, JobStep, ScanStep

-----------------------------------------------------------------------------
(* Markers.                                                                *)

(* No job comes to its end, and none changes its kind.                      *)
Persist == \A i \in Jobs : Busy(i) => Busy(i)' /\ job'[i].kind = job[i].kind

(* A job that moves on or begins leaves every other one at work.              *)
LEMMA GotoPersists ==
  ASSUME JobsOK, NEW j \in Jobs, NEW pc, Goto(j, pc),
         pc \in {"renew", "register", "running", "model", "chain", "gather", "escalate", "merge",
                 "annotate", "record", "readkeys", "predict", "leaving"}
  PROVE  Persist
  BY GotoFacts DEF Persist, Busy, JobsOK

LEMMA NewPersists ==
  ASSUME JobsOK, NEW j \in Jobs, NEW k \in Kinds, NEW pc, New(j, k, pc),
         pc \in {"asked", "spawned", "running"}, job[j].pc = "unused"
  PROVE  Persist
  BY NewFacts DEF Persist, Busy, JobsOK

(* Every step but those of the finally blocks.                              *)
LEMMA Persistence ==
  ASSUME JobsOK, FlatOK, Next,
         \A j \in Jobs : ~LeaveNews(j) /\ \A k \in Kinds : ~Leave(j, k)
  PROVE  Persist
<1>1. CASE job' = job
  BY <1>1 DEF Persist, Busy
<1>2. CASE Request
  BY <1>2, NewPersists DEF Request, AskText, AskCostly, ScheduledRun
<1>3. ASSUME NEW j \in Jobs, \/ CancelNews(j) \/ RenewNews(j) \/ RegisterNews(j) \/ BeforeModel(j)
                              \/ AfterModel(j)
      PROVE  Persist
  BY <1>3, GotoPersists DEF CancelNews, RenewNews, RegisterNews, BeforeModel, AfterModel
<1>4. ASSUME NEW j \in Jobs, ChainScan(j) PROVE Persist
  <2>1. CASE Goto(j, "leaving")
    BY <2>1, GotoPersists
  <2>2. ASSUME NEW i \in Jobs, job[i].pc = "unused",
               job' = [job EXCEPT ![i] = [Unused EXCEPT !.kind = "catalyst", !.pc = "spawned"],
                                  ![j].pc = "leaving"]
        PROVE  Persist
    <3>1. i # j
      BY <1>4, <2>2 DEF ChainScan, At
    <3>2. /\ job'[j] = [job[j] EXCEPT !.pc = "leaving"]
          /\ \A l \in Jobs \ {i, j} : job'[l] = job[l]
      BY <2>2, <3>1 DEF JobsOK
    <3>3. job'[j].pc = "leaving" /\ job'[j].kind = job[j].kind
      BY <3>2 DEF JobsOK, Job
    <3> QED
      BY <2>2, <3>2, <3>3 DEF Persist, Busy
  <2> QED
    BY <1>4, <2>1, <2>2 DEF ChainScan
<1>5. ASSUME NEW j \in Jobs, NEW k \in Kinds, MarkText(j, k) \/ TextReturns(j, k) PROVE Persist
  BY <1>5, GotoPersists DEF MarkText, TextReturns
<1>6. ASSUME NEW j \in Jobs, \/ BeginScan(j) \/ StoreScenarios(j) \/ Annotate(j) \/ RecordIds(j)
                              \/ AppendPredictions(j) \/ ScanFails(j)
      PROVE  Persist
  BY <1>6, GotoPersists
     DEF BeginScan, StoreScenarios, Annotate, RecordIds, AppendPredictions, ScanFails
<1>7. ASSUME NEW j \in Jobs, NEW r, job' = [job EXCEPT ![j] = r], r.kind = job[j].kind,
             r.pc \in {"escalate", "merge", "predict"}
      PROVE  Persist
  BY <1>7 DEF Persist, Busy, JobsOK
<1>8. ASSUME NEW j \in Jobs, Extract(j) PROVE Persist
  <2>1. PICK found, c : job' = [job EXCEPT ![j].pc = "escalate", ![j].found = found, ![j].todo = c]
    BY <1>8 DEF Extract
  <2>2. job' = [job EXCEPT ![j] = [job[j] EXCEPT !.pc = "escalate", !.found = found, !.todo = c]]
    BY <2>1 DEF JobsOK
  <2>3. job[j] \in Job
    BY DEF JobsOK
  <2> QED
    BY <1>7, <2>2, <2>3 DEF Job
<1>9. ASSUME NEW j \in Jobs, Escalate(j) PROVE Persist
  <2>1. PICK d, e : job' = [job EXCEPT ![j].todo = d, ![j].done = e]
    BY <1>9 DEF Escalate
  <2>2. job' = [job EXCEPT ![j] = [job[j] EXCEPT !.todo = d, !.done = e]]
    BY <2>1 DEF JobsOK
  <2>3. job[j] \in Job /\ job[j].pc = "escalate"
    BY <1>9 DEF JobsOK, Escalate, At
  <2> QED
    BY <1>7, <2>2, <2>3 DEF Job
<1>10. ASSUME NEW j \in Jobs, ReadScenarios(j) \/ ReadKeys(j) PROVE Persist
  <2>1. CASE \E pc \in {"record", "merge", "predict"} : Goto(j, pc)
    BY <2>1, GotoPersists
  <2>2. ASSUME NEW pc \in {"merge", "predict"}, NEW b, job' = [job EXCEPT ![j].pc = pc, ![j].base = b]
        PROVE  Persist
    <3>1. job' = [job EXCEPT ![j] = [job[j] EXCEPT !.pc = pc, !.base = b]]
      BY <2>2 DEF JobsOK
    <3>2. job[j] \in Job
      BY DEF JobsOK
    <3> QED
      BY <1>7, <3>1, <3>2 DEF Job
  <2> QED
    BY <1>10, <2>1, <2>2 DEF ReadScenarios, ReadKeys
<1> QED
  BY <1>1, <1>2, <1>3, <1>4, <1>5, <1>6, <1>8, <1>9, <1>10 DEF Next, JobStep, ScanStep, MarkerAges

(* The marker invariant is inductive: only a finally block can break it.      *)
LEMMA MarkerStep == JobsOK /\ FlatOK /\ MarkerInv /\ [Next]_vars => MarkerInv'
<1> SUFFICES ASSUME JobsOK, FlatOK, MarkerInv, [Next]_vars PROVE MarkerInv'
  OBVIOUS
<1> USE DEF texts, scans
<1>1. CASE UNCHANGED vars
  BY <1>1 DEF vars, MarkerInv, NewsInv, At, Busy, Unfinished
(* A marker that was set before, and nobody who has left since.             *)
<1>2. ASSUME Persist, NEW k \in Kinds \ {"news"}, marker'[k] # None => marker[k] # None
      PROVE  marker'[k] # None => Unfinished(k)' # {}
  BY <1>2 DEF MarkerInv, Unfinished, Persist, Busy
<1>3. ASSUME Persist, marker'["news"] # None => marker["news"] # None, newsThread' = newsThread,
             \A j \in Jobs : At(j, "news", "register") => At(j, "news", "register")'
      PROVE  NewsInv'
  BY <1>3 DEF MarkerInv, NewsInv, Persist, Busy
<1>4. ASSUME NEW j \in Jobs, NEW k \in Kinds, marker' = [marker EXCEPT ![k] = None],
             newsThread' = newsThread, NEW pc \in {"leaving", "done"}, Goto(j, pc),
             k # "news", job[j].kind = k
      PROVE  MarkerInv'
  <2>1. /\ \A i \in Jobs \ {j} : job'[i] = job[i]
        /\ \A i \in Jobs : job'[i].kind = job[i].kind
    BY <1>4, GotoFacts DEF JobsOK
  <2>2. \A l \in Kinds \ {k} : marker'[l] = marker[l]
    BY <1>4 DEF FlatOK
  <2>3. marker'[k] = None
    BY <1>4 DEF FlatOK
  <2>4. NewsInv'
    <3>1. "news" \in Kinds
      BY DEF Kinds
    <3> QED
      BY <1>4, <2>1, <2>2, <3>1 DEF MarkerInv, NewsInv, At, Busy
  <2>5. ASSUME NEW l \in Kinds \ {"news"}, marker'[l] # None PROVE Unfinished(l)' # {}
    BY <1>4, <2>1, <2>2, <2>3, <2>5 DEF MarkerInv, Unfinished
  <2> QED
    BY <2>4, <2>5 DEF MarkerInv
<1>5. ASSUME NEW j \in Jobs, NEW k \in Kinds, Leave(j, k) PROVE MarkerInv'
  BY <1>4, <1>5 DEF Leave, At
<1>6. ASSUME NEW j \in Jobs, LeaveNews(j) PROVE MarkerInv'
  <2>1. /\ \A i \in Jobs \ {j} : job'[i] = job[i]
        /\ job[j].kind = "news" /\ job'[j].kind = "news" /\ job[j].pc = "leaving"
    BY <1>6, GotoFacts DEF JobsOK, LeaveNews, At
  <2>2. \A k \in Kinds \ {"news"} : marker'[k] = marker[k]
    BY <1>6 DEF LeaveNews, FlatOK
  <2>3. NewsInv'
    <3>1. CASE newsThread = j
      BY <1>6, <3>1 DEF LeaveNews, FlatOK, NewsInv, Kinds
    <3>2. CASE newsThread # j
      BY <1>6, <2>1, <3>2 DEF LeaveNews, MarkerInv, NewsInv, At, Busy
    <3> QED
      BY <3>1, <3>2
  <2>4. ASSUME NEW k \in Kinds \ {"news"}, marker'[k] # None PROVE Unfinished(k)' # {}
    BY <2>1, <2>2, <2>4 DEF MarkerInv, Unfinished
  <2> QED
    BY <2>3, <2>4 DEF MarkerInv
<1>7. ASSUME Next, \A j \in Jobs : ~LeaveNews(j) /\ \A k \in Kinds : ~Leave(j, k)
      PROVE  MarkerInv'
  <2>1. Persist
    BY <1>7, Persistence
  <2>2. CASE MarkerAges
    <3>1. \A k \in Kinds : marker'[k] # None => marker[k] # None
      BY <2>2, WorkersAssumption DEF MarkerAges, FlatOK
    <3>2. job' = job /\ newsThread' = newsThread
      BY <2>2 DEF MarkerAges
    <3> QED
      BY <1>2, <1>3, <2>1, <3>1, <3>2 DEF MarkerInv, At, Kinds
  <2>3. CASE Request
    <3>1. ASSUME NEW j \in Jobs, job[j].pc = "unused", NEW k \in Kinds, NEW pc, New(j, k, pc),
                 NEW i \in Jobs, At(i, "news", "register")
          PROVE  At(i, "news", "register")'
      BY <3>1 DEF New, JobsOK, At
    <3>2. \A i \in Jobs : At(i, "news", "register") => At(i, "news", "register")'
      BY <2>3, <3>1 DEF Request, AskText, AskCostly, ScheduledRun
    <3>3. UNCHANGED <<marker, newsThread>>
      BY <2>3 DEF Request, AskText, AskCostly, ScheduledRun
    <3> QED
      BY <1>2, <1>3, <2>1, <3>2, <3>3 DEF MarkerInv
  <2>4. ASSUME NEW j \in Jobs, CancelNews(j) PROVE MarkerInv'
    <3>1. marker'["news"] = None /\ \A k \in Kinds \ {"news"} : marker'[k] = marker[k]
      BY <2>4 DEF CancelNews, FlatOK, Kinds
    <3> QED
      BY <1>2, <2>1, <3>1 DEF MarkerInv, NewsInv
  <2>5. ASSUME NEW j \in Jobs, RenewNews(j) PROVE MarkerInv'
    <3>1. \A k \in Kinds \ {"news"} : marker'[k] = marker[k]
      BY <2>5 DEF RenewNews, FlatOK
    <3>2. At(j, "news", "register")'
      BY <2>5, GotoFacts DEF RenewNews, At, JobsOK
    <3> QED
      BY <1>2, <2>1, <3>1, <3>2 DEF MarkerInv, NewsInv
  <2>6. ASSUME NEW j \in Jobs, RegisterNews(j) PROVE MarkerInv'
    <3>1. marker' = marker /\ newsThread' = j
      BY <2>6 DEF RegisterNews
    <3>2. job'[j].kind = "news" /\ Busy(j)'
      BY <2>6, GotoFacts DEF RegisterNews, At, JobsOK, Busy
    <3> QED
      BY <1>2, <2>1, <3>1, <3>2 DEF MarkerInv, NewsInv
(* The other steps of a job leave the registration of news alone.           *)
  <2>7. ASSUME NEW j \in Jobs, newsThread' = newsThread,
               \A i \in Jobs \ {j} : At(i, "news", "register") => At(i, "news", "register")',
               ~At(j, "news", "register"),
               \A k \in Kinds : marker'[k] # None => marker[k] # None \/ (k # "news" /\ Unfinished(k)' # {})
        PROVE  MarkerInv'
    <3>1. NewsInv'
      BY <1>3, <2>1, <2>7 DEF Kinds
    <3> QED
      BY <1>2, <2>1, <2>7, <3>1 DEF MarkerInv
  <2>8. ASSUME NEW j \in Jobs, NEW pc, Goto(j, pc), job[j].pc # "register",
               pc \in {"running", "model", "chain", "gather", "escalate", "merge",
                       "annotate", "record", "readkeys", "predict", "leaving"},
               newsThread' = newsThread,
               \A k \in Kinds : marker'[k] # None => marker[k] # None \/ (k # "news" /\ job[j].kind = k)
        PROVE  MarkerInv'
    <3>1. /\ \A i \in Jobs \ {j} : job'[i] = job[i]
          /\ job'[j].kind = job[j].kind /\ job'[j].pc \notin {"unused", "done"}
      BY <2>8, GotoFacts DEF JobsOK
    <3>2. \A k \in Kinds : job[j].kind = k => Unfinished(k)' # {}
      BY <3>1 DEF Unfinished
    <3> QED
      BY <2>7, <2>8, <3>1, <3>2 DEF At
  <2>9. ASSUME NEW j \in Jobs, BeforeModel(j) \/ AfterModel(j) PROVE MarkerInv'
    BY <2>8, <2>9 DEF BeforeModel, AfterModel, At
  <2>10. ASSUME NEW j \in Jobs, ChainScan(j) PROVE MarkerInv'
    <3>1. UNCHANGED <<marker, newsThread>> /\ ~At(j, "news", "register")
      BY <2>10 DEF ChainScan, At
    <3>2. ASSUME NEW i \in Jobs \ {j}, At(i, "news", "register") PROVE At(i, "news", "register")'
      BY <2>10, <3>2, GotoFacts DEF ChainScan, At, JobsOK
    <3> QED
      BY <2>7, <3>1, <3>2
  <2>11. ASSUME NEW j \in Jobs, NEW k \in Kinds, MarkText(j, k) \/ TextReturns(j, k)
         PROVE  MarkerInv'
    BY <2>8, <2>11 DEF MarkText, TextReturns, At, FlatOK
  <2>12. ASSUME NEW j \in Jobs, BeginScan(j) PROVE MarkerInv'
    BY <2>8, <2>12 DEF BeginScan, At, FlatOK
  <2>13. ASSUME NEW j \in Jobs, \/ StoreScenarios(j) \/ Annotate(j) \/ RecordIds(j)
                                \/ AppendPredictions(j) \/ ScanFails(j)
         PROVE  MarkerInv'
    BY <2>8, <2>13 DEF StoreScenarios, Annotate, RecordIds, AppendPredictions, ScanFails, At
  <2>14. ASSUME NEW j \in Jobs, Extract(j) \/ Escalate(j) \/ ReadScenarios(j) \/ ReadKeys(j)
         PROVE  MarkerInv'
    <3>1. UNCHANGED <<marker, newsThread>> /\ ~At(j, "news", "register")
      BY <2>14 DEF Extract, Escalate, ReadScenarios, ReadKeys, At
    <3>2. \A i \in Jobs \ {j} : job'[i] = job[i]
      BY <2>14, GotoFacts DEF Extract, Escalate, ReadScenarios, ReadKeys, JobsOK
    <3> QED
      BY <2>7, <3>1, <3>2 DEF At
  <2> QED
    BY <1>7, <2>2, <2>3, <2>4, <2>5, <2>6, <2>9, <2>10, <2>11, <2>12, <2>13, <2>14
       DEF Next, JobStep, ScanStep
<1> QED
  BY <1>1, <1>5, <1>6, <1>7

(* What the marker invariant says to a reader of the pages.                   *)
LEMMA MarkerFollows == JobsOK /\ MarkerInv => MarkerMeansWork
<1> SUFFICES ASSUME JobsOK, MarkerInv, marker["news"] # None PROVE Unfinished("news") # {}
  BY DEF MarkerInv, MarkerMeansWork
<1> QED
  BY DEF MarkerInv, NewsInv, At, Busy, Unfinished

-----------------------------------------------------------------------------
(* Scans.                                                                  *)

(* Steps that move no scan forward: a scan may end, none begins or changes. *)
LEMMA ScanFrame ==
  ASSUME ScanInv, UNCHANGED scans,
         \A i \in Jobs : Scanning(i)' => job'[i] = job[i],
         \A i \in Jobs : Scanning(i) => job'[i] = job[i] \/ job[i].pc = "leaving"
  PROVE  ScanInv'
<1> SUFFICES ASSUME ~upset PROVE ScanInv'
  BY DEF ScanInv, scans
<1> USE DEF scans, ScanInv
<1>1. \A i \in Jobs : Scanning(i)' => Scanning(i)
  BY DEF Scanning
<1>2. \A s \in Stories, i \in Jobs :
        Scanning(i) /\ Accounted(s, i) => s \in seenLog \cup escalatedLog \/ (Scanning(i) /\ Accounted(s, i))'
  BY DEF Accounted, Scanning
<1>3. \A i \in Jobs : Scanning(i)' => Relies(i)'
  BY <1>1 DEF Relies, Merged
<1>4. OncePerStory' /\ ButtonsOpen'
  BY DEF OncePerStory, ButtonsOpen
<1>5. \A s \in Stories : billed'[s] > 0 =>
        \/ s \in seenLog' \cup escalatedLog'
        \/ \E j \in Jobs : Scanning(j)' /\ Accounted(s, j)'
  BY <1>2
<1> QED
  BY <1>1, <1>3, <1>4, <1>5

(* What the invariant says of a scan that is the only one.                  *)
LEMMA ScanGives ==
  ASSUME ScanInv, ~upset, NEW j \in Jobs, Scanning(j)
  PROVE  /\ \A i \in Jobs : Scanning(i) => i = j
         /\ \A s \in Stories : billed[s] > 0 => Accounted(s, j)
         /\ Relies(j)
         /\ \A s \in Stories : billed[s] <= 1 /\ predicted[s] <= 1
         /\ list # None => list.buttons \subseteq scenarios
  BY DEF ScanInv, Accounted, OncePerStory, ButtonsOpen

(* It is enough to look at the one scan that is under way.                    *)
LEMMA ScanHolds ==
  ASSUME NEW j \in Jobs, Scanning(j)', \A i \in Jobs : Scanning(i)' => i = j,
         \A s \in Stories : billed'[s] > 0 => Accounted(s, j)',
         Relies(j)', \A s \in Stories : billed'[s] <= 1 /\ predicted'[s] <= 1,
         list' # None => list'.buttons \subseteq scenarios'
  PROVE  ScanInv'
  BY DEF ScanInv, OncePerStory, ButtonsOpen

(* Each step of a scan, from its beginning to its last append.               *)
LEMMA ScanStepKeeps ==
  ASSUME JobsOK, FlatOK, ScanInv, NEW j \in Jobs, ScanStep(j)
  PROVE  ScanInv'
<1> SUFFICES ASSUME ~upset' PROVE ScanInv'
  BY DEF ScanInv
<1>0. ~upset
  BY DEF ScanStep, BeginScan, Extract, Escalate, ReadScenarios, StoreScenarios, Annotate, RecordIds,
         ReadKeys, AppendPredictions, scans
<1> USE DEF scans
<1>1. job[j] \in Job /\ job[j].kind = "catalyst"
  BY DEF JobsOK, ScanStep, BeginScan, Extract, Escalate, ReadScenarios, StoreScenarios, Annotate,
         RecordIds, ReadKeys, AppendPredictions, At
<1>2. \A i \in Jobs \ {j} : job'[i] = job[i]
  BY GotoFacts DEF JobsOK, ScanStep, BeginScan, Extract, Escalate, ReadScenarios, StoreScenarios,
         Annotate, RecordIds, ReadKeys, AppendPredictions
<1>3. CASE BeginScan(j)
  <2>1. \A i \in Jobs : ~Scanning(i)
    BY <1>3 DEF BeginScan, Unfinished, Scanning
  <2>2. job'[j].kind = "catalyst" /\ job'[j].pc = "gather"
    BY <1>1, <1>3, GotoFacts DEF BeginScan, JobsOK
  <2>3. Scanning(j)' /\ \A i \in Jobs : Scanning(i)' => i = j
    BY <1>2, <2>1, <2>2 DEF Scanning
  <2>4. \A s \in Stories : billed'[s] > 0 => Accounted(s, j)'
    BY <1>0, <1>3, <2>1 DEF ScanInv, BeginScan, Accounted
  <2>5. Relies(j)'
    BY <2>2 DEF Relies
  <2>6. /\ \A s \in Stories : billed'[s] <= 1 /\ predicted'[s] <= 1
        /\ list' # None => list'.buttons \subseteq scenarios'
    BY <1>0, <1>3 DEF ScanInv, BeginScan, OncePerStory, ButtonsOpen
  <2> QED
    BY <2>3, <2>4, <2>5, <2>6, ScanHolds
<1>4. ASSUME Scanning(j), Scanning(j)',
             \A s \in Stories : billed'[s] > 0 => Accounted(s, j)',
             Relies(j)', \A s \in Stories : billed'[s] <= 1 /\ predicted'[s] <= 1,
             list' # None => list'.buttons \subseteq scenarios'
      PROVE  ScanInv'
  <2>1. \A i \in Jobs : Scanning(i) => i = j
    BY <1>0, <1>4, ScanGives
  <2>2. \A i \in Jobs : Scanning(i)' => i = j
    BY <1>2, <2>1 DEF Scanning
  <2> QED
    BY <1>4, <2>2, ScanHolds
<1>5. CASE Scanning(j)
  <2>0. /\ \A s \in Stories : billed[s] > 0 => Accounted(s, j)
        /\ Relies(j)
        /\ \A s \in Stories : billed[s] <= 1 /\ predicted[s] <= 1
        /\ list # None => list.buttons \subseteq scenarios
    BY <1>0, <1>5, ScanGives
  <2>1. CASE Extract(j)
    <3>1. PICK found \in SUBSET Stories : \E strong \in SUBSET found : \E c \in Chosen(strong) :
             /\ job' = [job EXCEPT ![j].pc = "escalate", ![j].found = found, ![j].todo = c]
             /\ list' = [ids |-> found, buttons |-> found \cap scenarios]
      BY <2>1 DEF Extract
    <3>9. PICK strong \in SUBSET found : \E c \in Chosen(strong) :
             /\ job' = [job EXCEPT ![j].pc = "escalate", ![j].found = found, ![j].todo = c]
             /\ list' = [ids |-> found, buttons |-> found \cap scenarios]
      BY <3>1
    <3>2. PICK c \in Chosen(strong) :
             /\ job' = [job EXCEPT ![j].pc = "escalate", ![j].found = found, ![j].todo = c]
             /\ list' = [ids |-> found, buttons |-> found \cap scenarios]
      BY <3>9
    <3>3. c \cap (seenLog \cup escalatedLog) = {}
      BY DEF Chosen, Eligible
    <3>4. /\ job'[j].kind = "catalyst" /\ job'[j].pc = "escalate"
          /\ job'[j].todo = c
      BY <1>1, <3>2 DEF JobsOK, Job
    <3>5. /\ UNCHANGED <<scenarios, seenLog, escalatedLog, predicted, billed>>
          /\ job[j].pc = "gather"
      BY <2>1 DEF Extract, At
    <3>6. Scanning(j)' /\ Relies(j)'
      BY <3>3, <3>4, <3>5 DEF Scanning, Relies
    <3>7. \A s \in Stories : billed'[s] > 0 => Accounted(s, j)'
      BY <2>0, <3>5 DEF Accounted
    <3>8. list'.buttons \subseteq scenarios'
      BY <3>2, <3>5
    <3> QED
      BY <1>4, <1>5, <2>0, <3>5, <3>6, <3>7, <3>8
  <2>2. CASE Escalate(j)
    <3>1. PICK s \in job[j].todo, ok \in BOOLEAN :
             /\ billed' = [billed EXCEPT ![s] = IF @ = 2 THEN 2 ELSE @ + 1]
             /\ job' = [job EXCEPT ![j].todo = @ \ {s}, ![j].done = IF ok THEN @ \cup {s} ELSE @]
      BY <2>2 DEF Escalate
    <3>2. /\ UNCHANGED <<list, scenarios, seenLog, escalatedLog, predicted>>
          /\ job[j].pc = "escalate"
      BY <2>2 DEF Escalate, At
    <3>3. /\ job'[j].kind = "catalyst" /\ job'[j].pc = "escalate"
          /\ job'[j].todo = job[j].todo \ {s} /\ job'[j].found = job[j].found
      BY <1>1, <3>1, <3>2 DEF JobsOK, Job
    <3>4. s \in Stories /\ s \in job[j].found
      BY <1>1 DEF JobsOK, JobOK, Job
    <3>5. ~(billed[s] > 0)
      BY <2>0, <3>2, <3>4 DEF Relies, Accounted
    <3>6. billed \in [Stories -> 0..2]
      BY DEF FlatOK
    <3>7. billed'[s] = 1 /\ \A r \in Stories \ {s} : billed'[r] = billed[r]
      BY <3>1, <3>4, <3>5, <3>6
    <3>8. Scanning(j)' /\ Relies(j)'
      BY <2>0, <3>2, <3>3 DEF Scanning, Relies
    <3>9. \A r \in Stories : billed'[r] > 0 => Accounted(r, j)'
      BY <2>0, <3>2, <3>3, <3>4, <3>7 DEF Accounted
    <3>10. \A r \in Stories : billed'[r] <= 1 /\ predicted'[r] <= 1
      BY <2>0, <3>2, <3>7
    <3> QED
      BY <1>4, <1>5, <2>0, <3>2, <3>8, <3>9, <3>10
  <2>3. CASE ReadScenarios(j)
    <3>1. /\ UNCHANGED scans
          /\ job[j].pc = "escalate"
      BY <2>3 DEF ReadScenarios, At
    <3>2. /\ job'[j].kind = "catalyst"
          /\ job'[j].todo = job[j].todo /\ job'[j].found = job[j].found
          /\ \/ job'[j].pc = "record"
             \/ job'[j].pc = "merge" /\ job'[j].base = scenarios
      BY <1>1, <2>3 DEF ReadScenarios, Goto, JobsOK, Job
    <3>3. Scanning(j)' /\ Relies(j)'
      BY <3>1, <3>2 DEF Scanning, Relies
    <3>4. \A r \in Stories : billed'[r] > 0 => Accounted(r, j)'
      BY <2>0, <3>1, <3>2 DEF Accounted
    <3> QED
      BY <1>4, <1>5, <2>0, <3>1, <3>3, <3>4
  <2>4. CASE StoreScenarios(j)
    <3>1. /\ UNCHANGED <<list, seenLog, escalatedLog, predicted, billed>>
          /\ scenarios' = Merged(job[j])
          /\ job[j].pc = "merge" /\ Goto(j, "annotate")
      BY <2>4 DEF StoreScenarios, At
    <3>2. /\ job'[j].kind = "catalyst" /\ job'[j].pc = "annotate"
          /\ job'[j].todo = job[j].todo /\ job'[j].found = job[j].found
          /\ job'[j].base = job[j].base /\ job'[j].done = job[j].done
      BY <1>1, <3>1, GotoFacts DEF JobsOK
    <3>3. Scanning(j)' /\ Relies(j)'
      BY <3>1, <3>2 DEF Scanning, Relies, Merged
    <3>4. \A r \in Stories : billed'[r] > 0 => Accounted(r, j)'
      BY <2>0, <3>1, <3>2 DEF Accounted
    <3>5. scenarios \subseteq scenarios'
      BY <2>0, <3>1 DEF Relies, Merged
    <3> QED
      BY <1>4, <1>5, <2>0, <3>1, <3>3, <3>4, <3>5
  <2>5. CASE Annotate(j)
    <3>1. /\ UNCHANGED <<scenarios, seenLog, escalatedLog, predicted, billed>>
          /\ list'.buttons = Buttons(job[j])
          /\ job[j].pc = "annotate" /\ Goto(j, "record")
      BY <2>5 DEF Annotate, At
    <3>2. /\ job'[j].kind = "catalyst" /\ job'[j].pc = "record"
          /\ job'[j].todo = job[j].todo /\ job'[j].found = job[j].found
      BY <1>1, <3>1, GotoFacts DEF JobsOK
    <3>3. Scanning(j)' /\ Relies(j)'
      BY <3>2 DEF Scanning, Relies
    <3>4. \A r \in Stories : billed'[r] > 0 => Accounted(r, j)'
      BY <2>0, <3>1, <3>2 DEF Accounted
    <3>5. list'.buttons \subseteq scenarios'
      BY <2>0, <3>1 DEF Relies, Buttons
    <3> QED
      BY <1>4, <1>5, <2>0, <3>1, <3>3, <3>4, <3>5
  <2>6. CASE RecordIds(j)
    <3>1. /\ UNCHANGED <<list, scenarios, predicted, billed>>
          /\ seenLog' = seenLog \cup job[j].found /\ escalatedLog \subseteq escalatedLog'
          /\ Goto(j, "readkeys")
      BY <2>6 DEF RecordIds, At
    <3>2. job'[j].kind = "catalyst" /\ job'[j].pc = "readkeys"
      BY <1>1, <3>1, GotoFacts DEF JobsOK
    <3>3. Scanning(j)' /\ Relies(j)'
      BY <3>2 DEF Scanning, Relies
    <3>4. \A r \in Stories : billed'[r] > 0 => Accounted(r, j)'
      BY <2>0, <3>1 DEF Accounted
    <3> QED
      BY <1>4, <1>5, <2>0, <3>1, <3>3, <3>4
  <2>7. CASE ReadKeys(j)
    <3>1. /\ UNCHANGED scans
          /\ job[j].pc = "readkeys"
      BY <2>7 DEF ReadKeys, At
    <3>2. /\ job'[j].kind = "catalyst" /\ job'[j].pc = "predict"
          /\ job'[j].base = {s \in Stories : predicted[s] > 0}
      BY <1>1, <2>7 DEF ReadKeys, JobsOK, Job
    <3>3. Scanning(j)' /\ Relies(j)'
      BY <3>1, <3>2 DEF Scanning, Relies
    <3>4. \A r \in Stories : billed'[r] > 0 => Accounted(r, j)'
      BY <2>0, <3>1 DEF Accounted
    <3> QED
      BY <1>4, <1>5, <2>0, <3>1, <3>3, <3>4
  <2>8. CASE AppendPredictions(j)
    <3>1. /\ UNCHANGED <<list, scenarios, seenLog, escalatedLog, billed>>
          /\ predicted' = [s \in Stories |-> IF s \in Unrecorded(job[j]) /\ predicted[s] < 2
                                             THEN predicted[s] + 1 ELSE predicted[s]]
          /\ job[j].pc = "predict" /\ Goto(j, "leaving")
      BY <2>8 DEF AppendPredictions, At
    <3>2. job'[j].kind = "catalyst" /\ job'[j].pc = "leaving"
      BY <1>1, <3>1, GotoFacts DEF JobsOK
    <3>3. Scanning(j)' /\ Relies(j)'
      BY <3>2 DEF Scanning, Relies
    <3>4. \A r \in Stories : billed'[r] > 0 => Accounted(r, j)'
      BY <2>0, <3>1 DEF Accounted
    <3>5. \A s \in Stories : s \in Unrecorded(job[j]) => predicted[s] = 0
      BY <2>0, <3>1 DEF Unrecorded, Relies, FlatOK
    <3>6. \A s \in Stories : predicted'[s] <= 1
      BY <2>0, <3>1, <3>5
    <3> QED
      BY <1>4, <1>5, <2>0, <3>1, <3>3, <3>4, <3>6
  <2> QED
    BY <1>3, <2>1, <2>2, <2>3, <2>4, <2>5, <2>6, <2>7, <2>8 DEF ScanStep
<1>6. Scanning(j) \/ BeginScan(j)
  BY DEF ScanStep, Extract, Escalate, ReadScenarios, StoreScenarios, Annotate, RecordIds,
         ReadKeys, AppendPredictions, Scanning, At
<1> QED
  BY <1>3, <1>5, <1>6

(* The steps of the other workers, and scans that break off.                 *)
LEMMA ScanInvStep == JobsOK /\ FlatOK /\ ScanInv /\ [Next]_vars => ScanInv'
<1> SUFFICES ASSUME JobsOK, FlatOK, ScanInv, [Next]_vars PROVE ScanInv'
  OBVIOUS
<1>1. ASSUME job' = job, UNCHANGED scans PROVE ScanInv'
  BY <1>1, ScanFrame
<1>2. CASE Request
  <2>1. UNCHANGED scans
    BY <1>2 DEF Request, AskText, AskCostly, ScheduledRun
  <2>2. PICK j \in Jobs, k \in Kinds, pc \in {"asked", "spawned", "running"} :
           job[j].pc = "unused" /\ New(j, k, pc) /\ (k = "catalyst" => pc = "spawned")
    BY <1>2 DEF Request, AskText, AskCostly, ScheduledRun
  <2>3. \A i \in Jobs : (Scanning(i) \/ Scanning(i)') => job'[i] = job[i]
    BY <2>2, NewFacts DEF JobsOK, Scanning
  <2> QED
    BY <2>1, <2>3, ScanFrame
<1>3. ASSUME NEW j \in Jobs, NEW pc, Goto(j, pc), UNCHANGED scans, job[j].kind # "catalyst",
             pc \in {"renew", "register", "running", "model", "chain", "leaving", "done"}
      PROVE  ScanInv'
  <2>1. \A i \in Jobs : (Scanning(i) \/ Scanning(i)') => job'[i] = job[i]
    BY <1>3, GotoFacts DEF JobsOK, Scanning
  <2> QED
    BY <1>3, <2>1, ScanFrame
<1>4. ASSUME NEW j \in Jobs, \/ CancelNews(j) \/ RenewNews(j) \/ RegisterNews(j) \/ BeforeModel(j)
                              \/ AfterModel(j) \/ LeaveNews(j)
      PROVE  ScanInv'
  BY <1>3, <1>4
     DEF CancelNews, RenewNews, RegisterNews, BeforeModel, AfterModel, LeaveNews, At, texts
<1>5. ASSUME NEW j \in Jobs, ChainScan(j) PROVE ScanInv'
  <2>1. UNCHANGED scans /\ job[j].kind = "news" /\ job[j].pc = "chain"
    BY <1>5 DEF ChainScan, At
  <2>2. CASE Goto(j, "leaving")
    BY <1>3, <2>1, <2>2
  <2>3. ASSUME NEW i \in Jobs, job[i].pc = "unused",
               job' = [job EXCEPT ![i] = [Unused EXCEPT !.kind = "catalyst", !.pc = "spawned"],
                                  ![j].pc = "leaving"]
        PROVE  ScanInv'
    <3>1. /\ job'[j] = [job[j] EXCEPT !.pc = "leaving"]
          /\ job'[i] = [Unused EXCEPT !.kind = "catalyst", !.pc = "spawned"]
          /\ \A l \in Jobs \ {i, j} : job'[l] = job[l]
      BY <2>1, <2>3 DEF JobsOK
    <3>2. job'[j].kind = "news" /\ job'[i].pc = "spawned"
      BY <2>1, <3>1 DEF JobsOK, Job, Unused
    <3>3. \A l \in Jobs : (Scanning(l) \/ Scanning(l)') => job'[l] = job[l]
      BY <2>1, <2>3, <3>1, <3>2 DEF Scanning
    <3> QED
      BY <2>1, <3>3, ScanFrame
  <2> QED
    BY <1>5, <2>2, <2>3 DEF ChainScan
<1>6. ASSUME NEW j \in Jobs, NEW k \in Kinds, MarkText(j, k) \/ TextReturns(j, k) PROVE ScanInv'
  BY <1>3, <1>6 DEF MarkText, TextReturns, At
<1>7. ASSUME NEW j \in Jobs, NEW k \in Kinds, Leave(j, k) PROVE ScanInv'
  <2>1. UNCHANGED scans /\ job[j].pc = "leaving" /\ Goto(j, "done")
    BY <1>7 DEF Leave, At
  <2>2. job'[j].pc = "done" /\ \A i \in Jobs \ {j} : job'[i] = job[i]
    BY <2>1, GotoFacts DEF JobsOK
  <2> QED
    BY <2>1, <2>2, ScanFrame DEF Scanning
<1>8. ASSUME NEW j \in Jobs, ScanFails(j) PROVE ScanInv'
  BY <1>8 DEF ScanFails, ScanInv
<1> QED
  BY <1>1, <1>2, <1>4, <1>5, <1>6, <1>7, <1>8, ScanStepKeeps
     DEF Next, JobStep, MarkerAges, vars

-----------------------------------------------------------------------------
(* The inductive invariant and what follows from it.                       *)

IInv == JobsOK /\ FlatOK /\ MarkerInv /\ ScanInv

(* The inductive invariant: initially, and after every step.                 *)
LEMMA InitIInv == Init => IInv
<1> SUFFICES ASSUME Init PROVE IInv
  OBVIOUS
<1>1. JobsOK
  <2>1. Unused.todo = {} /\ Unused.done = {}
    BY DEF Unused
  <2> QED
    BY <2>1, UnusedType, EmptyJobOK DEF Init, JobsOK
<1>2. FlatOK
  <2>1. /\ marker \in [Kinds -> {None, "recent", "stuck"}]
        /\ cache \in [Kinds \ {"catalyst"} -> Jobs \cup {None}]
        /\ predicted \in [Stories -> 0..2] /\ billed \in [Stories -> 0..2]
    BY DEF Init
  <2> QED
    BY <2>1 DEF Init, FlatOK
<1>3. MarkerInv
  BY DEF Init, MarkerInv, NewsInv, Kinds
<1>4. \A j \in Jobs : ~Scanning(j)
  BY DEF Init, Unused, Scanning
<1>5. ScanInv
  BY <1>4 DEF Init, ScanInv, OncePerStory, ButtonsOpen
<1> QED
  BY <1>1, <1>2, <1>3, <1>5 DEF IInv

LEMMA IInvStep == IInv /\ [Next]_vars => IInv'
<1> SUFFICES ASSUME IInv, [Next]_vars PROVE IInv'
  OBVIOUS
<1>1. scenarios \in SUBSET Stories
  BY DEF IInv, FlatOK
<1> QED
  BY <1>1, JobsStep, FlatStep, MarkerStep, ScanInvStep DEF IInv

(* The inductive invariant holds in every reachable state.                  *)
THEOREM IInvCorrect == Spec => []IInv
  BY InitIInv, IInvStep, PTL DEF Spec

(* The state of the workers stays well typed, and a scan never has more     *)
(* stories in hand than the cap allows.                                     *)
THEOREM WorkersTypesCorrect == Spec => []WorkersTypeOK
<1>1. IInv => WorkersTypeOK
  BY TypeParts DEF IInv
<1> QED
  BY <1>1, IInvCorrect, PTL

(* "Fetching" is never shown for a kind of which no worker is left, however *)
(* requests and threads overlap.                                            *)
THEOREM MarkerCorrect == Spec => []MarkerMeansWork
<1>1. IInv => MarkerMeansWork
  BY MarkerFollows DEF IInv
<1> QED
  BY <1>1, IInvCorrect, PTL

(* Scans that neither overlap nor break off pay for a story once and        *)
(* predict it once.                                                         *)
THEOREM OnceCorrect == Spec => []OncePerStory
<1>1. IInv => OncePerStory
  BY DEF IInv, ScanInv, OncePerStory
<1> QED
  BY <1>1, IInvCorrect, PTL

(* Without such mishaps every scenario button opens a scenario.             *)
THEOREM ButtonsCorrect == Spec => []ButtonsOpen
<1>1. IInv => ButtonsOpen
  BY DEF IInv, ScanInv, ButtonsOpen
<1> QED
  BY <1>1, IInvCorrect, PTL
=============================================================================
