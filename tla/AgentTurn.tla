----------------------------- MODULE AgentTurn -----------------------------
(***************************************************************************)
(* One chat thread of the agent graph: agent/graph.py, the routing of      *)
(* agent/nodes/supervisor.py, and the compliance gate of                   *)
(* agent/nodes/risk_manager.py with its one retry.                         *)
(*                                                                         *)
(* A step is a node together with the edge that leaves it, which is what   *)
(* the checkpointer stores.  What the models write is nondeterministic;    *)
(* of the messages since the last human one only their number, their       *)
(* authors and whether they contain a health keyword decide anything.      *)
(***************************************************************************)
EXTENDS Integers

CONSTANTS
  Valve,       (* messages since the human one before the safety valve      *)
  MaxTools     (* bound on the tool messages of one node                    *)

ASSUME AgentAssumption == Valve \in Nat /\ MaxTools \in Nat

Workers == {"DeepReasoning", "MarketAnalyst", "PortfolioManager", "NewsAnalyst",
            "RiskManager"}
Summonable == Workers \ {"RiskManager"}
Advisers == {"DeepReasoning", "MarketAnalyst", "PortfolioManager"}

VARIABLES
  at,          (* the node to run next; "idle" between two turns            *)
  seg,         (* the messages from the last human one on                   *)
  handoff,     (* market_analyst_handoff                                    *)
  risk,        (* risk_assessment                                           *)
  retry,       (* risk_retry_count                                          *)
  (* History variables, read by no action. *)
  asked,       (* does the user's own message contain a health keyword      *)
  draft,       (* the advice this turn has produced last                    *)
  audits,      (* real audits in this turn, counted up to 2                 *)
  wanted,      (* did the market analyst's last answer ask for a handoff    *)
  ended        (* how the last turn ended                                   *)

checkpoint == <<seg, handoff, risk, retry>>
hist       == <<asked, draft, audits, wanted, ended>>
vars       == <<at, checkpoint, hist>>

Segment ==
  [count : Nat, kw : BOOLEAN, summons : Summonable \cup {"none"},
   responded : SUBSET Workers, judged : BOOLEAN]

AgentTypeOK ==
  /\ at \in Workers \cup {"Supervisor", "idle"}
  /\ seg \in Segment
  /\ handoff \in BOOLEAN
  /\ risk \in {"PASS", "FAIL", "CRITICAL_FAIL"}
  /\ retry \in 0..2
  /\ asked \in BOOLEAN /\ wanted \in BOOLEAN
  /\ draft \in {"none", "unaudited", "audited"}
  /\ audits \in 0..2
  /\ ended \in {"none", "finished", "stopped"}

(* A human message: its text, and whom it summons by an @mention.           *)
Human(kw, summons) ==
  [count |-> 0, kw |-> kw, summons |-> summons, responded |-> {}, judged |-> FALSE]

(* A worker's answer after n tool messages and, if there are any, the       *)
(* planner's tool call.  Tool output is not searched for keywords.          *)
Say(worker, n, kw) ==
  seg' = [seg EXCEPT !.count = @ + (IF n = 0 THEN 1 ELSE n + 2), !.kw = @ \/ kw,
                     !.responded = @ \cup {worker}]

Init ==
  /\ at = "idle"
  /\ seg = Human(FALSE, "none")
  /\ handoff = FALSE
  /\ risk = "PASS"
  /\ retry = 0
  /\ asked = FALSE /\ draft = "none" /\ audits = 0 /\ wanted = FALSE
  /\ ended = "none"

-----------------------------------------------------------------------------
(* Mutant: the retry budget of an earlier turn is carried over. *)
NewTurnKeepsCount(kw, summons) ==
  /\ at = "idle"
  /\ at' = "Supervisor"
  /\ seg' = Human(kw, summons)
  /\ asked' = kw /\ draft' = "none" /\ audits' = 0 /\ wanted' = FALSE /\ ended' = "none"
  /\ UNCHANGED <<handoff, risk, retry>>

(* initial_state of a chat turn; the rest is what the checkpoint holds.     *)
NewTurn(kw, summons) ==
  /\ at = "idle"
  /\ at' = "Supervisor"
  /\ seg' = Human(kw, summons)
  /\ retry' = 0
  /\ asked' = kw /\ draft' = "none" /\ audits' = 0 /\ wanted' = FALSE /\ ended' = "none"
  /\ UNCHANGED <<handoff, risk>>

(* supervisor_node: an @mention in the message just received, the safety    *)
(* valve, then who has answered since that message.                         *)
SupervisorNext ==
  IF seg.count = 0 /\ seg.summons # "none" THEN seg.summons
  ELSE IF seg.count > Valve \/ "RiskManager" \in seg.responded THEN "FINISH"
  ELSE IF seg.responded \cap Advisers # {}
       THEN IF seg.kw THEN "FINISH" ELSE "RiskManager"
  ELSE IF "NewsAnalyst" \in seg.responded THEN "FINISH"
  ELSE "DeepReasoning"

Supervise ==
  /\ at = "Supervisor"
  /\ IF SupervisorNext = "FINISH" THEN at' = "idle" /\ ended' = "finished"
     ELSE at' = SupervisorNext /\ UNCHANGED ended
  /\ UNCHANGED <<checkpoint, asked, draft, audits, wanted>>

Advise ==
  /\ draft' = "unaudited"
  /\ UNCHANGED <<asked, audits, ended>>

(* after_deep_reasoning: its keyword scan covers the whole segment.         *)
AfterDeepReasoning == at' = IF seg'.kw THEN "Supervisor" ELSE "RiskManager"

(* deep_reasoning_node ends in one message, also after an error or a cancel. *)
DeepReason(kw) ==
  /\ at = "DeepReasoning"
  /\ Say("DeepReasoning", 0, kw)
  /\ AfterDeepReasoning
  /\ Advise
  /\ UNCHANGED <<handoff, risk, retry, wanted>>

(* after_market_analyst: the flag, or the legacy marker in the text.        *)
AfterMarketAnalyst(marker) ==
  /\ at' = IF handoff' \/ marker THEN "DeepReasoning" ELSE "RiskManager"
  /\ Advise
  /\ UNCHANGED <<risk, retry>>

(* market_analyst_node with tool calls; lens is one of _HANDOFF_LENSES.     *)
AnalyseMarket(n, kw, lens, marker) ==
  /\ at = "MarketAnalyst" /\ n > 0
  /\ Say("MarketAnalyst", n, kw)
  /\ handoff' = lens
  /\ wanted' = (lens \/ marker)
  /\ AfterMarketAnalyst(marker)

(* Mutant: the direct answer leaves the flag of an earlier turn alone. *)
AnswerDirectlyKeepsFlag(kw, marker) ==
  /\ at = "MarketAnalyst"
  /\ Say("MarketAnalyst", 0, kw)
  /\ handoff' = handoff
  /\ wanted' = marker
  /\ AfterMarketAnalyst(marker)

(* ... whose planner answered without tools. *)
AnswerDirectly(kw, marker) ==
  /\ at = "MarketAnalyst"
  /\ Say("MarketAnalyst", 0, kw)
  /\ handoff' = FALSE
  /\ wanted' = marker
  /\ AfterMarketAnalyst(marker)

ManagePortfolio(kw) ==
  /\ at = "PortfolioManager"
  /\ Say("PortfolioManager", 0, kw)
  /\ at' = "RiskManager"
  /\ Advise
  /\ UNCHANGED <<handoff, risk, retry, wanted>>

AnalyseNews(n, kw) ==
  /\ at = "NewsAnalyst"
  /\ Say("NewsAnalyst", n, kw)
  /\ at' = "Supervisor"
  /\ UNCHANGED <<handoff, risk, retry, hist>>

-----------------------------------------------------------------------------
(* The compliance gate.                                                    *)

(* after_risk_manager *)
AfterRiskManager ==
  at' = IF risk' = "CRITICAL_FAIL" /\ retry' <= 1 THEN "DeepReasoning" ELSE "Supervisor"

(* The redundancy check finds a verdict of RiskManager since the last human *)
(* message and lets the advice pass unread.                                 *)
SkipAudit ==
  /\ seg.judged
  /\ Say("RiskManager", 0, FALSE)
  /\ risk' = "PASS"
  /\ UNCHANGED <<retry, draft, audits>>

(* Mutant: the verdict quoted in the correction counts as a verdict. *)
CorrectionJudged(kw) == [Human(kw, "none") EXCEPT !.judged = TRUE]

(* The correction directive: a human message that quotes the verdict.       *)
Correction(kw) == Human(kw, "none")

(* Mutant: the gate forgets to count the retry. *)
AuditUncounted(verdict, kw) ==
  /\ ~seg.judged
  /\ risk' = verdict
  /\ IF verdict = "CRITICAL_FAIL" /\ retry < 1
     THEN seg' = Correction(kw)
     ELSE seg' = [seg EXCEPT !.count = @ + 1, !.kw = @ \/ kw, !.judged = TRUE,
                             !.responded = @ \cup {"RiskManager"}]
  /\ draft' = "audited"
  /\ audits' = IF audits = 2 THEN 2 ELSE audits + 1
  /\ UNCHANGED retry

(* The judge's verdict.  The first critical one asks for a revision, the    *)
(* second one ships the advice under a warning banner.                      *)
Audit(verdict, kw) ==
  LET critical == verdict = "CRITICAL_FAIL"
  IN /\ ~seg.judged
     /\ risk' = verdict
     /\ retry' = IF critical THEN retry + 1 ELSE retry
     /\ IF critical /\ retry < 1
        THEN seg' = Correction(kw)
        ELSE seg' = [seg EXCEPT !.count = @ + (IF critical THEN 2 ELSE 1),
                                !.kw = @ \/ kw, !.judged = TRUE,
                                !.responded = @ \cup {"RiskManager"}]
     /\ draft' = "audited"
     /\ audits' = IF audits = 2 THEN 2 ELSE audits + 1

ManageRisk(verdict, kw) ==
  /\ at = "RiskManager"
  /\ IF seg.judged THEN SkipAudit ELSE Audit(verdict, kw)
  /\ AfterRiskManager
  /\ UNCHANGED <<handoff, asked, wanted, ended>>

-----------------------------------------------------------------------------
(* A cancel, an exception in a node, or the end of the process: the turn    *)
(* stays as it was checkpointed and the next message starts a new one.      *)
StopTurn ==
  /\ at # "idle"
  /\ at' = "idle"
  /\ ended' = "stopped"
  /\ UNCHANGED <<checkpoint, asked, draft, audits, wanted>>

NodeStep ==
  \/ Supervise
  \/ \E kw \in BOOLEAN :
       \/ DeepReason(kw)
       \/ \E n \in 0..MaxTools, lens, marker \in BOOLEAN : AnalyseMarket(n, kw, lens, marker)
       \/ \E marker \in BOOLEAN : AnswerDirectly(kw, marker)
       \/ ManagePortfolio(kw)
       \/ \E n \in 0..MaxTools : AnalyseNews(n, kw)
       \/ \E verdict \in {"PASS", "FAIL", "CRITICAL_FAIL"} : ManageRisk(verdict, kw)

Next ==
  \/ \E kw \in BOOLEAN, summons \in Summonable \cup {"none"} : NewTurn(kw, summons)
  \/ NodeStep
  \/ StopTurn

Spec == Init /\ [][Next]_vars

(* The worker thread of a turn invokes the graph until it ends.             *)
FairSpec == Spec /\ WF_vars(NodeStep)

-----------------------------------------------------------------------------
(* Properties.                                                             *)

Finished == at = "idle" /\ ended = "finished"

(* The compliance gate: a turn that ends with advice the risk manager has   *)
(* not read, the revised draft of a retry included, contains a health       *)
(* keyword in its last segment.  "the retried response would never actually *)
(* be re-audited" is the bug the redundancy check's comment tells of.       *)
AdviceAudited == Finished /\ draft = "unaudited" => seg.kw

(* "a CRITICAL_FAIL retry consumed on an earlier turn" must not "silently   *)
(* exhaust the budget for every later turn": audited advice ships as a      *)
(* critical failure only after a second audit in the same turn.             *)
ShippedFlaggedAfterRetry ==
  Finished /\ draft = "audited" /\ risk = "CRITICAL_FAIL" => audits = 2

(* "a stale True from an earlier turn in this same checkpointed thread      *)
(* would otherwise leak forward": the market analyst's answer goes on to    *)
(* deep reasoning only if that very answer asked for it.                    *)
HandoffIsFresh ==
  [][at = "MarketAnalyst" /\ at' = "DeepReasoning" => wanted']_vars

(* The retry gate and the safety valve do their work: no turn goes round    *)
(* the graph for ever, whatever the judge says.                             *)
EveryTurnEnds == at # "idle" ~> at = "idle"
=============================================================================
