------------------------------ MODULE Workers ------------------------------
(***************************************************************************)
(* The background workers of api/background.py, as api/routers/news.py and *)
(* the scheduler start them: the news fetch, the market pulse, the         *)
(* priority brief, and the catalyst scan with its escalation log           *)
(* (tools/catalyst_extractor.py), scenario cache (agent/catalyst_engine.py)*)
(* and prediction store (tools/catalyst_resolution.py).                    *)
(*                                                                         *)
(* A job is a request that ends in a thread, or a thread the scheduler or  *)
(* another job has started.  The endpoints are plain functions: the server *)
(* runs them in a thread pool, so what a request has checked may be stale  *)
(* when it acts; a block of adjacent assignments is one step.              *)
(***************************************************************************)
EXTENDS Naturals, FiniteSets

CONSTANTS Jobs,            \* each is used once
          None,
          Stories,         \* catalyst ids (catalyst_id)
          EscalationCap    \* max_auto_escalations, 3 in the code

ASSUME WorkersAssumption ==
    /\ IsFiniteSet(Jobs) /\ IsFiniteSet(Stories) /\ None \notin Jobs \cup Stories \cup {"recent", "stuck"}
    /\ EscalationCap \in Nat

VARIABLES job,        \* the threads and requests
          marker,     \* _news_fetch_started_at, ...: None, "recent" or "stuck"
          newsThread, \* _news_thread
          newsEvent,  \* _news_cancel_event: the job whose start created it
          cancelled,  \* the events that have been set
          cache,      \* daily cache of the three texts: whose result it holds
          list,       \* daily cache "catalysts": the ids, and those with a button
          scenarios,  \* daily cache "catalyst_scenarios"
          seenLog, escalatedLog,   \* catalyst_log: its "ids" and "escalated"
          predicted,  \* catalyst_predictions.jsonl: number of records of a key
          billed,     \* history: scenario runs paid for, per story (at most 2 told apart)
          upset       \* history: scans have overlapped, or one has broken off

texts == <<newsThread, newsEvent, cancelled, cache>>
scans == <<list, scenarios, seenLog, escalatedLog, predicted, billed, upset>>
vars == <<job, marker, texts, scans>>

Kinds == {"news", "pulse", "priority", "catalyst"}
Job == [kind : Kinds \cup {None},
        pc : {"unused", "asked", "renew", "register", "spawned", "running", "model", "chain",
              "gather", "escalate", "merge", "annotate", "record", "readkeys", "predict",
              "leaving", "done"},
        found : SUBSET Stories, todo : SUBSET Stories, done : SUBSET Stories, base : SUBSET Stories]
Unused == [kind |-> None, pc |-> "unused", found |-> {}, todo |-> {}, done |-> {}, base |-> {}]

Init == /\ job = [j \in Jobs |-> Unused]
        /\ marker = [k \in Kinds |-> None]
        /\ newsThread = None /\ newsEvent = None /\ cancelled = {}
        /\ cache = [k \in Kinds \ {"catalyst"} |-> None]
        /\ list = None /\ scenarios = {} /\ seenLog = {} /\ escalatedLog = {}
        /\ predicted = [s \in Stories |-> 0]
        /\ billed = [s \in Stories |-> 0]
        /\ upset = FALSE

At(j, k, pc) == job[j].kind = k /\ job[j].pc = pc
Goto(j, pc) == job' = [job EXCEPT ![j].pc = pc]
Unfinished(k) == {j \in Jobs : job[j].kind = k /\ job[j].pc \notin {"unused", "done"}}
New(j, k, pc) == job' = [job EXCEPT ![j] = [Unused EXCEPT !.kind = k, !.pc = pc]]

\* Time passes: a marker that is old enough counts as stuck.
MarkerAges == \E k \in Kinds :
    /\ marker[k] = "recent"
    /\ marker' = [marker EXCEPT ![k] = "stuck"]
    /\ UNCHANGED <<job, texts, scans>>

-----------------------------------------------------------------------------
(* api/routers/news.py.  A request that is answered from the cache, or told *)
(* to wait, changes nothing.                                               *)

Waits(k) == marker[k] = "recent"

\* get_news_feed, get_market_pulse: generate on demand.
AskText(j, k) ==
    /\ k \in {"news", "pulse"} /\ job[j].pc = "unused"
    /\ \/ TRUE                                \* force=true
       \/ (~Waits(k) /\ cache[k] = None)
    /\ New(j, k, "asked")
    /\ UNCHANGED <<marker, texts, scans>>

\* get_today_priority, get_catalysts: only force=true generates, and
\* start_priority_precompute looks at the marker once more.
AskCostly(j, k) ==
    /\ k \in {"priority", "catalyst"} /\ job[j].pc = "unused"
    /\ k = "priority" => ~Waits(k)
    /\ New(j, k, "spawned")
    /\ UNCHANGED <<marker, texts, scans>>

\* The scheduler runs the news and the priority worker in threads of its own.
ScheduledRun(j, k) ==
    /\ k \in {"news", "priority"} /\ job[j].pc = "unused"
    /\ New(j, k, IF k = "news" THEN "running" ELSE "spawned")
    /\ UNCHANGED <<marker, texts, scans>>

-----------------------------------------------------------------------------
(* News.                                                                   *)

\* start_news_fetch: cancel_news_fetch ...
CancelNews(j) ==
    /\ At(j, "news", "asked")
    /\ cancelled' = cancelled \cup {newsEvent}
    /\ marker' = [marker EXCEPT !["news"] = None]
    /\ newsThread' = None
    /\ Goto(j, "renew")
    /\ UNCHANGED <<newsEvent, cache, scans>>

\* ... a new event and the time ...
RenewNews(j) ==
    /\ At(j, "news", "renew")
    /\ newsEvent' = j
    /\ marker' = [marker EXCEPT !["news"] = "recent"]
    /\ Goto(j, "register")
    /\ UNCHANGED <<newsThread, cancelled, cache, scans>>

\* Mutant: the thread is not registered.
ForgetToRegister(j) ==
    /\ At(j, "news", "register")
    /\ Goto(j, "running")
    /\ UNCHANGED <<marker, newsThread, newsEvent, cancelled, cache, scans>>
\* ... and the thread.
RegisterNews(j) ==
    /\ At(j, "news", "register")
    /\ newsThread' = j
    /\ Goto(j, "running")
    /\ UNCHANGED <<marker, newsEvent, cancelled, cache, scans>>

\* Both looks at the event are looks at the global one of that moment.
NewsCancelled == newsEvent \in cancelled

BeforeModel(j) ==
    /\ At(j, "news", "running")
    /\ Goto(j, IF NewsCancelled THEN "leaving" ELSE "model")
    /\ UNCHANGED <<marker, texts, scans>>

\* The model answers and the result is stored, unless cancelled; or it fails.
AfterModel(j) ==
    /\ At(j, "news", "model")
    /\ \/ /\ ~NewsCancelled
          /\ cache' = [cache EXCEPT !["news"] = j]
          /\ Goto(j, "chain")
       \/ (Goto(j, "leaving") /\ UNCHANGED cache)
    /\ UNCHANGED <<marker, newsThread, newsEvent, cancelled, scans>>

\* maybe_start_catalyst_scan_after_news: no scan marked as running and no list
\* that is fresh enough (a list may have outlived its interval).
ChainScan(j) ==
    /\ At(j, "news", "chain")
    /\ \/ /\ marker["catalyst"] = None
          /\ \E i \in Jobs :
               /\ job[i].pc = "unused"
               /\ job' = [job EXCEPT ![i] = [Unused EXCEPT !.kind = "catalyst", !.pc = "spawned"],
                                     ![j].pc = "leaving"]
       \/ /\ marker["catalyst"] # None \/ list # None
          /\ Goto(j, "leaving")
    /\ UNCHANGED <<marker, texts, scans>>

\* finally: "Only clear the timestamp if WE are still the active fetch".
LeaveNews(j) ==
    /\ At(j, "news", "leaving")
    /\ marker' = IF newsThread = j THEN [marker EXCEPT !["news"] = None] ELSE marker
    /\ Goto(j, "done")
    /\ UNCHANGED <<texts, scans>>

-----------------------------------------------------------------------------
(* Pulse and priority.  The pulse is marked by the request, the priority    *)
(* brief by its thread; both finally blocks clear the mark unconditionally. *)

MarkText(j, k) ==
    /\ (k = "pulse" /\ At(j, k, "asked")) \/ (k = "priority" /\ At(j, k, "spawned"))
    /\ marker' = [marker EXCEPT ![k] = "recent"]
    /\ Goto(j, "model")
    /\ UNCHANGED <<texts, scans>>

TextReturns(j, k) ==
    /\ k \in {"pulse", "priority"} /\ At(j, k, "model")
    /\ cache' \in {cache, [cache EXCEPT ![k] = j]}     \* an error is not stored
    /\ Goto(j, "leaving")
    /\ UNCHANGED <<marker, newsThread, newsEvent, cancelled, scans>>

\* The finally block of the pulse, the priority brief and the scan.
Leave(j, k) ==
    /\ k \in {"pulse", "priority", "catalyst"} /\ At(j, k, "leaving")
    /\ marker' = [marker EXCEPT ![k] = None]
    /\ Goto(j, "done")
    /\ UNCHANGED <<texts, scans>>

-----------------------------------------------------------------------------
(* run_catalyst_scan_in_background.                                        *)

BeginScan(j) ==
    /\ At(j, "catalyst", "spawned")
    /\ marker' = [marker EXCEPT !["catalyst"] = "recent"]
    /\ upset' = (upset \/ \E i \in Unfinished("catalyst") : job[i].pc # "spawned")
    /\ Goto(j, "gather")
    /\ UNCHANGED <<texts, list, scenarios, seenLog, escalatedLog, predicted, billed>>

\* Mutant: the dedup log is not asked.
EligibleAnew(strong) == strong
\* extract_catalysts: which stories are there, and, of those that count as
\* strong, neither seen nor escalated, at most the cap are chosen
\* (select_for_auto_escalation).  The list is cached at once, with a button for
\* every story whose scenario is on disk.
Eligible(strong) == strong \ (seenLog \cup escalatedLog)
Chosen(strong) ==
    IF Cardinality(Eligible(strong)) <= EscalationCap THEN {Eligible(strong)}
    ELSE {c \in SUBSET Eligible(strong) : Cardinality(c) = EscalationCap}

Extract(j) ==
    /\ At(j, "catalyst", "gather")
    /\ \E found \in SUBSET Stories : \E strong \in SUBSET found : \E c \in Chosen(strong) :
         /\ job' = [job EXCEPT ![j].pc = "escalate", ![j].found = found, ![j].todo = c]
         /\ list' = [ids |-> found, buttons |-> found \cap scenarios]
    /\ UNCHANGED <<marker, texts, scenarios, seenLog, escalatedLog, predicted, billed, upset>>

\* One scenario: it is paid for, and gives a text or nothing.
Escalate(j) ==
    /\ At(j, "catalyst", "escalate")
    /\ \E s \in job[j].todo :
         /\ billed' = [billed EXCEPT ![s] = IF @ = 2 THEN 2 ELSE @ + 1]
         /\ \E ok \in BOOLEAN :
              job' = [job EXCEPT ![j].todo = @ \ {s}, ![j].done = IF ok THEN @ \cup {s} ELSE @]
    /\ UNCHANGED <<marker, texts, list, scenarios, seenLog, escalatedLog, predicted, upset>>

\* The scenario cache is read, merged and written.
ReadScenarios(j) ==
    /\ At(j, "catalyst", "escalate") /\ job[j].todo = {}
    /\ IF job[j].done = {} THEN Goto(j, "record")
       ELSE job' = [job EXCEPT ![j].pc = "merge", ![j].base = scenarios]
    /\ UNCHANGED <<marker, texts, scans>>

Merged(r) == r.base \cup r.done
StoreScenarios(j) ==
    /\ At(j, "catalyst", "merge")
    /\ scenarios' = Merged(job[j])
    /\ Goto(j, "annotate")
    /\ UNCHANGED <<marker, texts, list, seenLog, escalatedLog, predicted, billed, upset>>

\* Mutant: a story that has been seen before is taken to have a scenario.
ButtonsOfSeen(r) == r.found \cap (Merged(r) \cup seenLog)
Buttons(r) == r.found \cap Merged(r)
Annotate(j) ==
    /\ At(j, "catalyst", "annotate")
    /\ list' = [ids |-> job[j].found, buttons |-> Buttons(job[j])]
    /\ Goto(j, "record")
    /\ UNCHANGED <<marker, texts, scenarios, seenLog, escalatedLog, predicted, billed, upset>>

\* record_catalyst_ids: one line is appended; what failed is not "escalated",
\* but it has been seen.
RecordIds(j) ==
    /\ At(j, "catalyst", "record")
    /\ seenLog' = seenLog \cup job[j].found
    /\ escalatedLog' = escalatedLog \cup job[j].done
    /\ Goto(j, "readkeys")
    /\ UNCHANGED <<marker, texts, list, scenarios, predicted, billed, upset>>

\* record_predictions: the keys of the store are read, then what is missing is
\* appended.
ReadKeys(j) ==
    /\ At(j, "catalyst", "readkeys")
    /\ job' = [job EXCEPT ![j].pc = "predict", ![j].base = {s \in Stories : predicted[s] > 0}]
    /\ UNCHANGED <<marker, texts, scans>>

Unrecorded(r) == r.found \ r.base
AppendPredictions(j) ==
    /\ At(j, "catalyst", "predict")
    /\ predicted' = [s \in Stories |-> IF s \in Unrecorded(job[j]) /\ predicted[s] < 2
                                       THEN predicted[s] + 1 ELSE predicted[s]]
    /\ Goto(j, "leaving")
    /\ UNCHANGED <<marker, texts, list, scenarios, seenLog, escalatedLog, billed, upset>>

\* Any step may raise (no tool output, a file that cannot be written): the rest
\* of the scan is skipped, the record of what was escalated with it.
ScanFails(j) ==
    /\ job[j].kind = "catalyst"
    /\ job[j].pc \in {"gather", "escalate", "merge", "annotate", "record", "readkeys", "predict"}
    /\ Goto(j, "leaving")
    /\ upset' = TRUE
    /\ UNCHANGED <<marker, texts, list, scenarios, seenLog, escalatedLog, predicted, billed>>

ScanStep(j) == \/ BeginScan(j) \/ Extract(j) \/ Escalate(j) \/ ReadScenarios(j) \/ StoreScenarios(j)
               \/ Annotate(j) \/ RecordIds(j) \/ ReadKeys(j) \/ AppendPredictions(j)

-----------------------------------------------------------------------------
Request == \E j \in Jobs, k \in Kinds : AskText(j, k) \/ AskCostly(j, k) \/ ScheduledRun(j, k)

JobStep(j) == \/ CancelNews(j) \/ RenewNews(j) \/ RegisterNews(j) \/ BeforeModel(j) \/ AfterModel(j)
              \/ ChainScan(j) \/ LeaveNews(j)
              \/ \E k \in Kinds : MarkText(j, k) \/ TextReturns(j, k) \/ Leave(j, k)
              \/ ScanStep(j) \/ ScanFails(j)

Next == \/ Request
        \/ \E j \in Jobs : JobStep(j)
        \/ MarkerAges

Spec == Init /\ [][Next]_vars

-----------------------------------------------------------------------------
\* Type invariant.
WorkersTypeOK ==
    /\ job \in [Jobs -> Job]
    /\ \A j \in Jobs : /\ job[j].todo \cup job[j].done \subseteq job[j].found
                       /\ Cardinality(job[j].todo \cup job[j].done) <= EscalationCap
    /\ marker \in [Kinds -> {None, "recent", "stuck"}]
    /\ newsThread \in Jobs \cup {None} /\ newsEvent \in Jobs \cup {None}
    /\ cancelled \subseteq Jobs \cup {None}
    /\ cache \in [Kinds \ {"catalyst"} -> Jobs \cup {None}]
    /\ list = None \/ list \in [ids : SUBSET Stories, buttons : SUBSET Stories]
    /\ scenarios \cup seenLog \cup escalatedLog \subseteq Stories
    /\ predicted \in [Stories -> 0..2] /\ billed \in [Stories -> 0..2] /\ upset \in BOOLEAN

\* What the page is told is true: "fetching" (the marker) is never shown when no
\* worker of that kind is left that could finish, whatever requests and threads
\* overlap.  (The converse does not hold, see README.)
MarkerMeansWork == \A k \in Kinds : marker[k] # None => Unfinished(k) # {}

\* "the cross-refresh escalation log guarantees a recurring story never
\* re-bills", and predictions are "Idempotent per (catalyst id, day)", as far as
\* the code goes: scans that neither overlap nor break off pay for the scenario
\* of a story once and predict it once.
OncePerStory == ~upset => \A s \in Stories : billed[s] <= 1 /\ predicted[s] <= 1

\* "button and endpoint agree": without such mishaps every scenario button of
\* the list, the one still being computed included, opens a scenario.
ButtonsOpen == ~upset /\ list # None => list.buttons \subseteq scenarios
=============================================================================
