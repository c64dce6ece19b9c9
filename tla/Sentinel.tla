------------------------------ MODULE Sentinel ------------------------------
(***************************************************************************)
(* The intraday sentinel of one profile: tools/intraday_sentinel.py, and   *)
(* the deployment ladder of tools/drawdown_playbook.py that it hosts.      *)
(*                                                                         *)
(* A tick loads the remembered state, compares it with a market reading    *)
(* and a (slow) reading of the holdings, rewrites the state and only then  *)
(* delivers the alerts.  Files may be unreadable, writes may fail, the     *)
(* process may die, and the user edits the ladder at any moment.           *)
(***************************************************************************)
EXTENDS Integers, Sequences, FiniteSets

CONSTANTS
  Metrics,     (* the banded market metrics                                 *)
  SPY,         (* the one whose reading also arms the ladder                *)
  Boundaries,  (* ascending band boundaries of each metric                  *)
  Margin,      (* half-width of the dead zone around a boundary             *)
  Values,      (* severity values a market reading may have                 *)
  Rungs,       (* depths the user may write into the ladder                 *)
  Reset,       (* LADDER_RESET_PCT                                          *)
  Holdings,    (* symbols                                                   *)
  Crosses      (* the boolean signals of a holding                          *)

ASSUME SentinelAssumption ==
  /\ SPY \in Metrics
  /\ Boundaries \in [Metrics -> Seq(Nat)]
  /\ \A m \in Metrics : \A i, j \in DOMAIN Boundaries[m] :
       i < j => Boundaries[m][i] < Boundaries[m][j]
  /\ Margin \in Nat \ {0}
  /\ Values \subseteq Nat
  /\ Rungs \subseteq Nat
  /\ Reset \in Nat

VARIABLES
  file,        (* intraday_sentinel_state.json                              *)
  ladder,      (* deployment_levels of the user's playbook                  *)
  tick,        (* what the tick under way is doing                          *)
  (* History variables, read by no action. *)
  told,        (* levels a saved tick alerted, not re-armed by a reading    *)
  unreached,   (* bands, crosses and spikes some reading found not there    *)
  depth,       (* the last SPY reading                                      *)
  late         (* rungs the user wrote when that had passed them already    *)

hist == <<told, unreached, depth, late>>
sentinelVars == <<file, ladder, tick, hist>>

Unseen == -1        \* no entry for the metric
Unknown == "unknown" \* no entry for the signal

Memory ==
  [band : [Metrics -> Nat \cup {Unseen}], seen : BOOLEAN, fired : SUBSET Rungs,
   cross : [Holdings \X Crosses -> {Unknown, "absent", "present"}],
   spike : [Holdings -> {Unknown, "quiet", "loud"}]]

Blank ==
  [band |-> [m \in Metrics |-> Unseen], seen |-> FALSE, fired |-> {},
   cross |-> [hc \in Holdings \X Crosses |-> Unknown],
   spike |-> [h \in Holdings |-> Unknown]]

(* What an alert announces. *)
Level ==
  (UNION {{<<"band", m, b>> : b \in 1..Len(Boundaries[m])} : m \in Metrics})
    \cup {<<"rung", r>> : r \in Rungs}
    \cup {<<"cross", hc>> : hc \in Holdings \X Crosses}
    \cup {<<"spike", h>> : h \in Holdings}

NoTick == [pc |-> "idle", mem |-> Blank, lost |-> FALSE, pending |-> {}]

InBands(mem) == \A m \in Metrics : mem.band[m] \in Unseen..Len(Boundaries[m])

SentinelTypeOK ==
  /\ file \in Memory /\ InBands(file)
  /\ ladder \in SUBSET Rungs
  /\ tick \in [pc : {"idle", "holdings", "write", "deliver"}, mem : Memory,
               lost : BOOLEAN, pending : SUBSET Level]
  /\ InBands(tick.mem)
  /\ told \subseteq Level /\ unreached \subseteq Level
  /\ depth \in Values \cup {0} /\ late \subseteq Rungs

SentinelInit ==
  /\ file = Blank
  /\ ladder \in SUBSET Rungs
  /\ tick = NoTick
  /\ told = {}
  /\ unreached = {}
  /\ depth = 0
  /\ late = {}

-----------------------------------------------------------------------------
(* A market reading: per metric a value, or nothing (no price, or a bar of  *)
(* an earlier session, which is skipped entirely).                          *)

Skipped == -1
MarketReadings == [Metrics -> Values \cup {Skipped}]

MaxOf(S) == CHOOSE x \in S : \A y \in S : y <= x

(* Mutant: no dead zone on the way down. *)
BandNoDeadZone(m, v, last) ==
  LET b   == Boundaries[m]
      up  == {k \in DOMAIN b : v >= b[k] + Margin}
      low == {k \in DOMAIN b : v <= b[k]}
  IN IF last < MaxOf({0} \cup up) THEN MaxOf({0} \cup up)
     ELSE MaxOf({0} \cup {k \in 1..last : k \notin low})

(* _band_with_hysteresis: up while the next boundary is cleared by Margin,  *)
(* then down while the current one is undercut by it.                       *)
BandWithHysteresis(m, v, last) ==
  LET b  == Boundaries[m]
      up == MaxOf({last} \cup {k \in DOMAIN b : v >= b[k] + Margin})
  IN MaxOf({0} \cup {k \in 1..up : v > b[k] - Margin})

(* _update_band.  A first sight is seeded from band 0 and announces nothing. *)
NewBand(m, v, last) ==
  IF v = Skipped THEN last
  ELSE BandWithHysteresis(m, v, IF last = Unseen THEN 0 ELSE last)

BandAlerts(old, new) ==
  {<<"band", m, new[m]>> : m \in {k \in Metrics : old[k] # Unseen /\ new[k] > old[k]}}

(* evaluate_deployment_ladder, on the rungs get_playbook returned. *)
LadderStep(mem, v, rungs) ==
  LET kept    == mem.fired \cap rungs
      reached == {r \in rungs : v >= r}
  IN IF rungs = {} THEN [seen |-> FALSE, fired |-> {}, fires |-> {}]
     ELSE IF v <= Reset THEN [seen |-> TRUE, fired |-> {}, fires |-> {}]
     ELSE [seen |-> TRUE, fired |-> kept \cup reached,
           fires |-> IF mem.seen THEN reached \ kept ELSE {}]

(* History: what a market reading re-arms, and what it finds not reached.   *)
Rearmed(m, v, rungs) ==
  {<<"band", m, k>> : k \in {j \in DOMAIN Boundaries[m] : v <= Boundaries[m][j] - Margin}}
    \cup (IF m # SPY THEN {}
          ELSE {<<"rung", r>> : r \in IF v <= Reset THEN Rungs ELSE Rungs \ rungs})

BandsBelow(m, v) ==
  {<<"band", m, k>> : k \in {j \in DOMAIN Boundaries[m] : v < Boundaries[m][j] + Margin}}

(* _load_state (which takes an unreadable file for a first sight), the      *)
(* bands, and the ladder, all on the snapshot the engine fetched before.    *)
(* A user_memory.json that cannot be read is one without a playbook.        *)
ReadMarket(reading, mem, rungs) ==
  LET band == [m \in Metrics |-> NewBand(m, reading[m], mem.band[m])]
      rung == IF reading[SPY] = Skipped
              THEN [seen |-> mem.seen, fired |-> mem.fired, fires |-> {}]
              ELSE LadderStep(mem, reading[SPY], rungs)
      read == {m \in Metrics : reading[m] # Skipped}
  IN /\ tick.pc = "idle"
     /\ mem \in {file, Blank}
     /\ rungs \in {ladder, {}}
     /\ tick' =
          [pc |-> "holdings", lost |-> mem # file,
           mem |-> [mem EXCEPT !.band = band, !.seen = rung.seen, !.fired = rung.fired],
           pending |-> BandAlerts(mem.band, band) \cup {<<"rung", r>> : r \in rung.fires}]
     /\ told' = IF mem # file THEN {}
                ELSE told \ UNION {Rearmed(m, reading[m], rungs) : m \in read}
     /\ unreached' = unreached \cup UNION {BandsBelow(m, reading[m]) : m \in read}
     /\ IF SPY \in read
        THEN depth' = reading[SPY] /\ late' = {r \in late : r <= reading[SPY]}
        ELSE UNCHANGED <<depth, late>>
     /\ UNCHANGED <<file, ladder>>

-----------------------------------------------------------------------------
(* The holdings: what the batch download returned of each symbol.  An empty *)
(* result and a failed download are the same.                               *)

Signal ==
  [stale : BOOLEAN, cross : [Crosses -> BOOLEAN], vol : {"low", "between", "high", "none"}]

(* Mutant: a symbol seen for the first time counts as one that had no cross. *)
CrossAlertsAtFirst(old, tech) ==
  {<<"cross", at>> : at \in
     {hc \in (DOMAIN tech) \X Crosses :
        /\ ~tech[hc[1]].stale /\ tech[hc[1]].cross[hc[2]]
        /\ old[hc] # "present"}}

(* _update_cross *)
CrossAlerts(old, tech) ==
  {<<"cross", at>> : at \in
     {hc \in (DOMAIN tech) \X Crosses :
        /\ ~tech[hc[1]].stale /\ tech[hc[1]].cross[hc[2]]
        /\ old[hc] = "absent"}}

(* _update_vol: arm at VOL_ARM, disarm below VOL_DISARM. *)
NewSpike(old, vol) ==
  IF vol = "high" THEN "loud"
  ELSE IF vol = "low" \/ (vol = "between" /\ old = Unknown) THEN "quiet"
  ELSE old

SpikeAlerts(old, tech) ==
  {<<"spike", h>> : h \in
     {k \in DOMAIN tech : ~tech[k].stale /\ tech[k].vol = "high" /\ old[k] = "quiet"}}

(* Mutant: a stale bar updates the memory, though it may not fire. *)
NewCrossStale(old, tech) ==
  [hc \in Holdings \X Crosses |->
     IF hc[1] \notin DOMAIN tech THEN IF DOMAIN tech = {} THEN old[hc] ELSE Unknown
     ELSE IF tech[hc[1]].cross[hc[2]] THEN "present" ELSE "absent"]

(* Names the download no longer knows are forgotten, unless it knew none;  *)
(* a stale bar leaves the symbol's memory alone.                            *)
NewCross(old, tech) ==
  [hc \in Holdings \X Crosses |->
     IF hc[1] \notin DOMAIN tech THEN IF DOMAIN tech = {} THEN old[hc] ELSE Unknown
     ELSE IF tech[hc[1]].stale THEN old[hc]
     ELSE IF tech[hc[1]].cross[hc[2]] THEN "present" ELSE "absent"]

NewSpikes(old, tech) ==
  [h \in Holdings |->
     IF h \notin DOMAIN tech THEN IF DOMAIN tech = {} THEN old[h] ELSE Unknown
     ELSE IF tech[h].stale THEN old[h] ELSE NewSpike(old[h], tech[h].vol)]

CrossLevels(S) == {<<"cross", hc>> : hc \in S}

ReadHoldings(tech) ==
  LET mem    == tick.mem
      fresh  == {h \in DOMAIN tech : ~tech[h].stale}
      absent == {hc \in fresh \X Crosses : ~tech[hc[1]].cross[hc[2]]}
      low    == {h \in fresh : tech[h].vol = "low"}
      below  == low \cup {h \in fresh : tech[h].vol = "between"}
      gone   == IF DOMAIN tech = {} THEN {} ELSE Holdings \ DOMAIN tech
  IN /\ tick.pc = "holdings"
     /\ tick' =
          [pc |-> "write", lost |-> tick.lost,
           mem |-> [mem EXCEPT !.cross = NewCross(@, tech), !.spike = NewSpikes(@, tech)],
           pending |-> tick.pending \cup CrossAlerts(mem.cross, tech)
                                    \cup SpikeAlerts(mem.spike, tech)]
     /\ told' = told \ (CrossLevels(absent \cup (gone \X Crosses))
                          \cup {<<"spike", h>> : h \in low \cup gone})
     /\ unreached' = unreached \cup CrossLevels(absent) \cup {<<"spike", h>> : h \in below}
     /\ UNCHANGED <<file, ladder, depth, late>>

-----------------------------------------------------------------------------
(* _write_state, then the deliveries. *)

WriteState ==
  /\ tick.pc = "write"
  /\ file' = tick.mem
  /\ tick' = [tick EXCEPT !.pc = "deliver"]
  /\ told' = told \cup tick.pending
  /\ UNCHANGED <<ladder, unreached, depth, late>>

(* _write_state returns False; nobody looks. *)
WriteStateFails ==
  /\ tick.pc = "write"
  /\ tick' = [tick EXCEPT !.pc = "deliver"]
  /\ UNCHANGED <<file, ladder, hist>>

(* raise_alert for each pending alert; a failure of one loses that one.     *)
Deliver ==
  /\ tick.pc = "deliver"
  /\ tick' = NoTick
  /\ UNCHANGED <<file, ladder, hist>>

(* The process dies. *)
ProcessDies ==
  /\ tick' = NoTick
  /\ UNCHANGED <<file, ladder, hist>>

(* set_playbook *)
EditLadder(levels) ==
  /\ ladder' = levels
  /\ late' = (late \cap levels) \cup {r \in levels \ ladder : r <= depth}
  /\ UNCHANGED <<file, tick, told, unreached, depth>>

HoldingReadings == UNION {[S -> Signal] : S \in SUBSET Holdings}

SentinelNext ==
  \/ \E reading \in MarketReadings, mem \in {file, Blank}, rungs \in {ladder, {}} :
       ReadMarket(reading, mem, rungs)
  \/ \E tech \in HoldingReadings : ReadHoldings(tech)
  \/ WriteState \/ WriteStateFails \/ Deliver
  \/ ProcessDies
  \/ \E levels \in SUBSET Rungs : EditLadder(levels)

SentinelSpec == SentinelInit /\ [][SentinelNext]_sentinelVars

-----------------------------------------------------------------------------
(* Properties.                                                             *)

Undelivered == tick.pc \in {"holdings", "write"}

(* "a value wobbling across a threshold cannot machine-gun the inbox", "each *)
(* rung delivers its action ONCE per drawdown episode": a tick never        *)
(* announces again what a tick that saved its state has announced, until a  *)
(* reading has re-armed it (left the dead zone, made a new high, cleared    *)
(* the cross, dropped below VOL_DISARM), or the memory was lost, or the     *)
(* rung was seen to be off the ladder.                                      *)
NoRefire == Undelivered => tick.pending \cap told = {}

RungLevels == {<<"rung", r>> : r \in Rungs}

(* "raises an alert ONLY when a monitored signal actually changes state":   *)
(* whatever fails or is lost, a band, cross or spike is announced only if   *)
(* some earlier reading found it not there.                                 *)
OnlyNews == Undelivered => tick.pending \ RungLevels \subseteq unreached

(* The memory is well formed, and what is announced is news.                *)
SentinelInv == SentinelTypeOK /\ OnlyNews

Standing(mem) ==
  {<<"band", m, mem.band[m]>> : m \in {k \in Metrics : mem.band[k] > 0}}
    \cup {<<"cross", hc>> : hc \in {k \in Holdings \X Crosses : mem.cross[k] = "present"}}
    \cup {<<"spike", h>> : h \in {k \in Holdings : mem.spike[k] = "loud"}}
    \cup {<<"rung", r>> : r \in mem.fired}

(* Levels the memory has no baseline for, or that it has just relaxed to.   *)
Silent(old, new) ==
  {<<"band", m, new.band[m]>> :
     m \in {k \in Metrics : old.band[k] = Unseen \/ new.band[k] < old.band[k]}}
    \cup {<<"cross", hc>> : hc \in {k \in Holdings \X Crosses : old.cross[k] = Unknown}}
    \cup {<<"spike", h>> : h \in {k \in Holdings : old.spike[k] = Unknown}}
    \cup (IF old.seen THEN {} ELSE RungLevels)

(* "updating state from a stale bar would consume the transition": the     *)
(* state never takes note of a new signal unless the tick that writes it    *)
(* announces it, or sees it for the first time.                             *)
NothingConsumed ==
  [][file # file' =>
       LET base == IF tick.lost THEN Blank ELSE file
       IN Standing(file') \subseteq
            Standing(base) \cup tick.pending \cup Silent(base, file')]_sentinelVars
=============================================================================
