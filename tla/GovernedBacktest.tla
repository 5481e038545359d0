-------------------------- MODULE GovernedBacktest --------------------------
(***************************************************************************)
(* BACKTEST-v1.0 (backtest_v1.py, evaluate_backtest): one evaluation of a  *)
(* frozen protocol.  It reads the observations, refuses lookahead, selects *)
(* independent clusters and passes its verdict over some fifteen gates.    *)
(*                                                                         *)
(* Sessions are positions in the benchmark calendar.  The rows of one      *)
(* episode (one per friction scenario) are read in one step; rows of       *)
(* another horizon, and rows that are not clean, are skipped by the code   *)
(* and left out here.  Returns are integers in units of 25 bps: an excess  *)
(* is the one of the 25 bps scenario, and one less is that of the 50 bps   *)
(* stress.  The baseline rows are represented by their median.             *)
(***************************************************************************)
EXTENDS EpisodeClusters

CONSTANTS
    Fold, FoldStart, FoldEnd, ResearchEnd,  \* the frozen protocol
    Horizon, Episodes, BaselineMedian, NoBaseline,
    YearOf,
    MinIndependent, MinPerFold, MinAssets, MinPerAsset, SignTestMaxPercent,
    MaxFlawed, Flawed  \* bound: episodes of Flawed read in one evaluation

\* freeze_backtest_protocol and validate_protocol_calendar: there are three or
\* more folds, they are disjoint, and all start after the embargo.
ValidProtocol ==
    /\ ResearchEnd \in Session
    /\ IsFiniteSet(Fold) /\ Cardinality(Fold) >= 3
    /\ FoldStart \in [Fold -> Session] /\ FoldEnd \in [Fold -> Session]
    /\ \A f, g \in Fold : f # g => FoldEnd[f] < FoldStart[g] \/ FoldEnd[g] < FoldStart[f]
    /\ \A f \in Fold : FoldStart[f] - ResearchEnd > Nonoverlap

ASSUME ProtocolAssumption == ValidProtocol

Friction == {0, 10, 25}

\* id and fold name an episode; coherent: its scenarios agree on everything but
\* the friction; drawdown: its max drawdown is known.
ASSUME EpisodeAssumption ==
    \A e \in Episodes :
        /\ e.fold \in Fold /\ {e.signal, e.entry, e.close} \subseteq Nat
        /\ e.frictions \subseteq Friction /\ e.frictions # {}
        /\ {e.spy, e.cash} \subseteq Int
        /\ {e.coherent, e.drawdown} \subseteq BOOLEAN

\* MIN_INDEPENDENT_EPISODES and the minima beside it.
ASSUME MinimaAssumption == {MinIndependent, MinPerFold, MinAssets, MinPerAsset} \subseteq Nat

VARIABLES phase, evidence, timing_errors, baseline, report

vars == <<clusterVars, phase, evidence, timing_errors, baseline, report>>

NoReport == [status |-> "none", failures |-> {}, inconclusive |-> {}]

Init ==
    /\ NoClusters
    /\ phase = "reading"
    /\ evidence = {}
    /\ timing_errors = FALSE
    /\ baseline \in BaselineMedian \cup {NoBaseline}
    /\ report = NoReport

-----------------------------------------------------------------------------
\* Mutant of WellTimed: the close is not required to be in the fold.
WellTimedEntry(e) ==
    /\ {e.signal, e.entry, e.close} \subseteq Session
    /\ {e.signal, e.entry} \subseteq FoldStart[e.fold] .. FoldEnd[e.fold]
    /\ e.entry = e.signal + 1
    /\ e.close = e.entry + Horizon - 1

\* _timing_error (which refuses a drawdown outside -1 .. 0 as well)
WellTimed(e) ==
    /\ {e.signal, e.entry, e.close} \subseteq Session
    /\ {e.signal, e.entry, e.close} \subseteq FoldStart[e.fold] .. FoldEnd[e.fold]
    /\ e.entry = e.signal + 1
    /\ e.close = e.entry + Horizon - 1

Read(e) == \E d \in evidence : d.fold = e.fold /\ d.id = e.id

ReadEpisode(e) ==
    /\ phase = "reading"
    /\ ~Read(e)
    /\ e \in Flawed => Cardinality(evidence \cap Flawed) < MaxFlawed
    /\ evidence' = evidence \cup {e}
    /\ timing_errors' = (timing_errors \/ ~WellTimed(e))
    /\ UNCHANGED <<clusterVars, phase, baseline, report>>

\* A duplicate row, a row of another candidate or dataset, a symbol outside
\* the panel or in the holdout, an unknown fold or friction.
RefuseRow ==
    /\ phase = "reading"
    /\ phase' = "raised"
    /\ UNCHANGED <<clusterVars, evidence, timing_errors, baseline, report>>

RefuseTiming ==
    /\ phase = "reading"
    /\ timing_errors
    /\ phase' = "raised"
    /\ UNCHANGED <<clusterVars, evidence, timing_errors, baseline, report>>

\* A baseline row of another dataset, panel or fold: read after the selection.
RefuseBaseline ==
    /\ phase = "selecting"
    /\ rest = {}
    /\ phase' = "raised"
    /\ UNCHANGED <<clusterVars, evidence, timing_errors, baseline, report>>

\* clean_primary_rows
Primary(episodes) == {e \in episodes : 25 \in e.frictions}
EntriesOf(episodes) == {e.entry : e \in episodes}

EndReading ==
    /\ phase = "reading"
    /\ ~timing_errors
    /\ phase' = "selecting"
    /\ StartSelection(EntriesOf(Primary(evidence)))
    /\ UNCHANGED <<evidence, timing_errors, baseline, report>>

Selecting ==
    /\ phase = "selecting"
    /\ \E p \in rest : SkipCluster(p) \/ SelectCluster(p)
    /\ UNCHANGED <<phase, evidence, timing_errors, baseline, report>>

-----------------------------------------------------------------------------
\* The k-th smallest value of f over S, and twice the median as in _median.
OrderStatistic(S, f, k) ==
    CHOOSE v \in {f[x] : x \in S} :
        /\ Cardinality({x \in S : f[x] < v}) < k
        /\ Cardinality({x \in S : f[x] <= v}) >= k

TwiceMedian(S, f) ==
    LET n == Cardinality(S)
    IN  OrderStatistic(S, f, (n + 1) \div 2) + OrderStatistic(S, f, n \div 2 + 1)

\* Per cluster, twice the median excess of the episodes that enter there.
ClusterMedians(episodes, value) ==
    [p \in EntriesOf(episodes) |->
        LET members == {e \in episodes : e.entry = p}
        IN  TwiceMedian(members, [e \in members |-> value[e]])]

SpyOf(ep)       == [e \in ep |-> e.spy]
CashOf(ep)      == [e \in ep |-> e.cash]
StressSpyOf(ep) == [e \in ep |-> e.spy - 1]
StressCashOf(ep) == [e \in ep |-> e.cash - 1]

\* Four times the median over the selected clusters.
Median4(ep, sel, value) == TwiceMedian(sel, ClusterMedians(ep, value))

InFold(sel, f) == sel \cap (FoldStart[f] .. FoldEnd[f])

\* _fold_results: a fold without clusters has no median and is not positive.
PositiveFolds(ep, sel) ==
    {f \in Fold : /\ InFold(sel, f) # {}
                  /\ Median4(ep, InFold(sel, f), SpyOf(ep)) > 0}

\* _concentration above one half.
Concentrated(ep, key) ==
    \E e \in ep : 2 * Cardinality({d \in ep : key[d] = key[e]}) > Cardinality(ep)

AssetRows(ep, a) == {e \in ep : e.asset = a}
AdequateAssets(ep) ==
    {a \in {e.asset : e \in ep} : Cardinality(AssetRows(ep, a)) >= MinPerAsset}
NonnegativeAssets(ep) ==
    {a \in AdequateAssets(ep) : TwiceMedian(AssetRows(ep, a), SpyOf(ep)) >= 0}

Successes(ep, sel) == {p \in sel : ClusterMedians(ep, SpyOf(ep))[p] > 0}
Trials(ep, sel)    == {p \in sel : ClusterMedians(ep, SpyOf(ep))[p] # 0}

\* The exact one-sided sign test: how many sign patterns of the trials have at
\* least as many successes, out of all of them.
SignTestRejects(ep, sel) ==
    LET trials == Trials(ep, sel)
    IN  100 * Cardinality({W \in SUBSET trials :
                  Cardinality(W) >= Cardinality(Successes(ep, sel))})
        > SignTestMaxPercent * Cardinality(SUBSET trials)

PrimaryOnly(e) == 25 \in e.frictions  \* mutant: the other scenarios are not required
Complete(e) == e.frictions = Friction

\* The adverse findings; the medians only of a non-empty stream.
Failures(ev, sel) ==
    LET ep == Primary(ev)
        adverse(name, holds) == IF holds THEN {name} ELSE {}
    IN  UNION {
        adverse("inconsistent_friction_scenario_inputs",
                \E e \in ev : Complete(e) /\ ~e.coherent),
        adverse("median_25bps_excess_spy_not_positive",
                sel # {} /\ Median4(ep, sel, SpyOf(ep)) <= 0),
        adverse("median_25bps_excess_cash_not_positive",
                sel # {} /\ Median4(ep, sel, CashOf(ep)) <= 0),
        adverse("median_50bps_stress_excess_spy_not_positive",
                sel # {} /\ Median4(ep, sel, StressSpyOf(ep)) <= 0),
        adverse("median_50bps_stress_excess_cash_not_positive",
                sel # {} /\ Median4(ep, sel, StressCashOf(ep)) <= 0),
        adverse("fewer_than_two_thirds_validation_folds_positive",
                Cardinality(PositiveFolds(ep, sel)) * 3 < Cardinality(Fold) * 2),
        adverse("calendar_year_concentration_above_50pct",
                Concentrated(ep, [e \in ep |-> YearOf[e.entry]])),
        adverse("asset_concentration_above_50pct",
                Concentrated(ep, [e \in ep |-> e.asset])),
        adverse("cross_asset_breadth_not_strict_majority_nonnegative",
                /\ Cardinality(AdequateAssets(ep)) >= MinAssets
                /\ Cardinality(NonnegativeAssets(ep)) * 2
                       <= Cardinality(AdequateAssets(ep))),
        adverse("strategy_underperforms_simple_dip_baseline",
                /\ baseline # NoBaseline /\ sel # {}
                /\ Median4(ep, sel, SpyOf(ep)) < 4 * baseline),
        adverse("sign_test_not_significant_at_10pct",
                /\ Cardinality(Trials(ep, sel)) >= MinIndependent
                /\ SignTestRejects(ep, sel))}

\* What is missing.
Inconclusive(ev, sel) ==
    LET ep == Primary(ev)
        missing(name, holds) == IF holds THEN {name} ELSE {}
    IN  UNION {
        missing("incomplete_0_10_25bps_friction_scenarios", \E e \in ev : ~Complete(e)),
        missing("no_clean_primary_horizon_observations", ep = {}),
        missing("max_drawdown_missing_for_clean_primary_observations",
                \E e \in ep : ~e.drawdown),
        missing("independent_episode_count_below_20", Cardinality(sel) < MinIndependent),
        missing("fold_independent_count_below_5",
                \E f \in Fold : Cardinality(InFold(sel, f)) < MinPerFold),
        missing("fewer_than_4_adequately_sampled_assets",
                Cardinality(AdequateAssets(ep)) < MinAssets),
        missing("simple_dip_baseline_missing", baseline = NoBaseline),
        missing("sign_test_effective_trials_below_20",
                Cardinality(Trials(ep, sel)) < MinIndependent)}

MissingFirst(failures, inconclusive) ==  \* mutant: the precedence is swapped
    IF inconclusive # {} THEN "INCONCLUSIVE" ELSE IF failures # {} THEN "FAIL" ELSE "PASS"
Status(failures, inconclusive) ==
    IF failures # {} THEN "FAIL" ELSE IF inconclusive # {} THEN "INCONCLUSIVE" ELSE "PASS"

Report ==
    /\ phase = "selecting"
    /\ rest = {}
    /\ phase' = "reported"
    /\ LET failures == Failures(evidence, selected)
           inconclusive == Inconclusive(evidence, selected)
       IN  report' = [status |-> Status(failures, inconclusive),
                      failures |-> failures, inconclusive |-> inconclusive]
    /\ UNCHANGED <<clusterVars, evidence, timing_errors, baseline>>

Ended == phase \in {"reported", "raised"} /\ UNCHANGED vars

Next ==
    \/ \E e \in Episodes : ReadEpisode(e)
    \/ RefuseRow \/ RefuseTiming \/ EndReading
    \/ Selecting \/ RefuseBaseline \/ Report
    \/ Ended

Spec == Init /\ [][Next]_vars

-----------------------------------------------------------------------------
TypeOK ==
    /\ phase \in {"reading", "selecting", "reported", "raised"}
    /\ evidence \subseteq Episodes
    /\ timing_errors \in BOOLEAN
    /\ baseline \in BaselineMedian \cup {NoBaseline}
    /\ entries \subseteq Session
    /\ rest \subseteq entries
    /\ selected \subseteq entries
    /\ next_allowed \in {-1} \cup {p + Nonoverlap : p \in selected}
    /\ report.status \in {"none", "PASS", "FAIL", "INCONCLUSIVE"}

Window(e) == e.signal .. e.close

\* Evidence that is evaluated leaks nothing: no session is used by two folds,
\* and none lies in the research history or within the embargo after it.
FoldsShareNoSession ==
    phase \in {"selecting", "reported"} =>
        \A e \in evidence :
            /\ \A t \in Window(e) : t > ResearchEnd + Nonoverlap
            /\ \A d \in evidence : d.fold # e.fold => Window(d) \cap Window(e) = {}

\* A PASS is earned: nothing is missing for any episode that was supplied,
\* there are enough independent windows in all and in every fold, and at
\* least half of them beat SPY even at 50 bps.
PassIsEarned ==
    report.status = "PASS" =>
        /\ \A e \in evidence : e.frictions = Friction /\ e.coherent /\ e.drawdown
        /\ baseline # NoBaseline
        /\ Cardinality(selected) >= MinIndependent
        /\ \A f \in Fold : Cardinality(InFold(selected, f)) >= MinPerFold
        /\ LET medians == ClusterMedians(evidence, StressSpyOf(evidence))
           IN  2 * Cardinality({p \in selected : medians[p] > 0}) >= Cardinality(selected)

\* Missing data cannot hide a known failure: when most independent windows
\* trail SPY or cash, or the scenarios of an episode disagree, the verdict is
\* FAIL whatever else is missing.
FailureIsNotHidden ==
    phase = "reported" =>
        LET ep == Primary(evidence)
            behind(value) == {p \in selected : ClusterMedians(ep, value)[p] <= 0}
        IN  \/ \E e \in evidence : Complete(e) /\ ~e.coherent
            \/ 2 * Cardinality(behind(SpyOf(ep))) > Cardinality(selected)
            \/ 2 * Cardinality(behind(CashOf(ep))) > Cardinality(selected)
            => report.status = "FAIL"

\* The documented rule for missing evidence, where all of it is missing.
MissingEvidenceIsInconclusive ==
    phase = "reported" /\ Primary(evidence) = {} => report.status = "INCONCLUSIVE"
=============================================================================
