--------------------------- MODULE ReplayEvidence ---------------------------
(***************************************************************************)
(* What becomes of a finished replay.  Gate 3 audits it                      *)
(* (gate3_campaign/validation.py, _validate_replay): from the fills, in the  *)
(* order they were recorded, it rebuilds cash and units, and from them and   *)
(* the sealed market panel every number of every session state.  The Gate 2  *)
(* engine and the Gate 3 methodology derive from it period and rolling       *)
(* returns (engine/durability.py), walk-forward folds (engine/robustness.py) *)
(* and the split of its returns by the regime of the market                  *)
(* (gate3/authorities.py, gate3_execution/regimes.py), over a calendar some  *)
(* of whose sessions the replay may lack.                                    *)
(***************************************************************************)
EXTENDS TargetReplay, DurabilityPolicy

CONSTANTS Calendars,    \* expected-session calendars, Scored sessions of them held
          Months,       \* the rolling horizon
          RegimeLag,    \* sessions of a regime's lagged return
          Breadth       \* symbols that must agree for a broad regime

\* The warm-up is long enough for the lagged return of the first session, and a
\* scored period has a second session.  The expected sessions are a list of days,
\* each after the one before it, and the replay holds one session for each of its.
ASSUME EvidenceAssumption ==
    /\ RegimeLag \in Nat /\ RegimeLag < Warmup /\ Scored > 1 /\ Months \in Nat
    /\ \A cal \in Calendars :
          /\ cal.dates \in Seq(Int \X Int)
          /\ \A d, e \in DOMAIN cal.dates : d < e => Before(cal.dates[d], cal.dates[e])
          /\ \A e \in DOMAIN cal.dates : MonthLength[cal.dates[e][1] - Months] \in Positive
          /\ cal.held \subseteq DOMAIN cal.dates /\ Cardinality(cal.held) = Scored

VARIABLE derived

NoEvidence == [rows |-> <<>>]
EvidenceInit == ReplayInit /\ derived = NoEvidence

-----------------------------------------------------------------------------
(* The audit. *)

\* The books of an account after each of its fills so far.
BooksOf(F) ==
    LET book[k \in 0..Len(F)] ==
            IF k = 0 THEN [cash |-> Int1, units |-> NoWeights]
            ELSE LET fill == F[k]
                     before == book[k - 1]
                 IN  [cash |-> Sub(before.cash, Add(fill.notional, fill.friction)),
                      units |-> [before.units EXCEPT ![fill.symbol] = Add(@, fill.units)]]
    IN  book
Book == BooksOf(fills)
FilledBy(session) == Cardinality({k \in DOMAIN fills : fills[k].session <= session})

FillIsDerived(fill) ==
    /\ fill.session = fill.signal + 1
    /\ fill.price = opens[fill.session][fill.symbol]
    /\ fill.notional = Mul(fill.units, Whole(fill.price))
    /\ fill.friction = Mul(Magnitude(fill.notional), plan.friction)

FillsAreInOrder ==
    /\ \A k \in 2..Len(fills) : fills[k - 1].session <= fills[k].session
    /\ \A k \in DOMAIN fills : fills[k].session \in DOMAIN states

\* At no point between two fills may the book be short of cash or of units.
BookIsNeverShort ==
    \A k \in DOMAIN fills : LET book == Book[k]
                            IN  /\ Leq(Int0, book.cash)
                                /\ \A s \in Symbols : Leq(Int0, book.units[s])

StateIsDerived(i) ==
    LET opening == Book[FilledBy(i - 1)]
        closing == Book[FilledBy(i)]
        risky == Value(closing.units, closes[Warmup + i])
    IN  /\ states[i].session = i
        /\ states[i].open = Add(opening.cash, Value(opening.units, opens[i]))
        /\ states[i].cash = closing.cash
        /\ states[i].units = closing.units
        /\ states[i].close = Add(closing.cash, risky)
        /\ states[i].realized = Div(risky, Add(closing.cash, risky))

ReplayIsDerived ==
    /\ DOMAIN states = 1..Scored
    /\ \A k \in DOMAIN fills : FillIsDerived(fills[k])
    /\ FillsAreInOrder
    /\ BookIsNeverShort
    /\ \A i \in DOMAIN states : StateIsDerived(i)

\* One positive fill a symbol, all of the same worth, at the second session, on
\* a target of the first that stays in force.
IsEqualWeight ==
    /\ Len(fills) = Cardinality(Symbols)
    /\ [k \in DOMAIN fills |-> fills[k].symbol] = Ordered(Symbols)
    /\ \A k \in DOMAIN fills :
          /\ fills[k].signal = 1
          /\ fills[k].session = 2
          /\ Less(Int0, fills[k].units)
          /\ fills[k].notional = fills[1].notional
    /\ states[1].cash = Int1 /\ states[1].units = NoWeights /\ states[1].realized = Int0
    /\ \A i \in DOMAIN states : states[i].target = Int1

IsAllCash ==
    /\ fills = <<>>
    /\ \A i \in DOMAIN states : states[i].cash = Int1 /\ states[i].close = Int1

-----------------------------------------------------------------------------
(* Evidence. *)

\* The position in the replay of an expected session that it holds.
Position(cal, e) == Cardinality({h \in cal.held : h <= e})
EquityAt(cal, e) == equity[Position(cal, e)]

\* Returns run from one session held to the next; the first one has none.
Returns(cal) == [e \in {e \in cal.held : Position(cal, e) > 1} |->
                    Div(equity[Position(cal, e)], equity[Position(cal, e) - 1])]

\* Mutant: a period starts at its first session, whose return is left out.
InsidePeriod(cal, key, p) == {e \in InPeriod(key, p) : \E f \in InPeriod(key, p) : f < e}
PeriodSessions(cal, key, p) == InPeriod(key, p)

PeriodEvidence(cal, key) ==
    LET returns == Returns(cal)
    IN  [p \in Range(key) |->
            IF InPeriod(key, p) \subseteq cal.held
            THEN Available(ProductOver(PeriodSessions(cal, key, p) \cap DOMAIN returns,
                                              LAMBDA e : returns[e]))
            ELSE Unknown("INCOMPLETE_PERIOD")]

PeriodSummary(rows) ==
    Summary([p \in {p \in DOMAIN rows : rows[p].status = "AVAILABLE"} |-> rows[p].value])

\* The longest run of losing months; a month that is not available ends a run.
LongestStreak(rows) ==
    LET Count(run, p) == IF rows[p].status = "AVAILABLE" /\ Less(rows[p].value, Int1)
                         THEN [now |-> run.now + 1,
                               best |-> IF run.now + 1 > run.best THEN run.now + 1 ELSE run.best]
                         ELSE [run EXCEPT !.now = 0]
    IN  FoldLeft(Count, [now |-> 0, best |-> 0], SetToSortSeq(DOMAIN rows, <)).best

\* Mutant: only the ends of a window are looked up.
EndsAreHeld(cal, a, e) == {a, e} \subseteq cal.held
WindowIsHeld(cal, a, e) == Expected(cal, a, e) \subseteq cal.held

\* One observation for each endpoint whose target day is not before the first
\* session, anchored at the last session expected on or before that day.
WindowAnchor(cal, e) == Final(SessionsBy(cal, DOMAIN cal.dates, MonthsBefore(cal, e, Months)))
Observation(cal, e) == IF WindowIsHeld(cal, WindowAnchor(cal, e), e)
                       THEN Available(Div(EquityAt(cal, e), EquityAt(cal, WindowAnchor(cal, e))))
                       ELSE Unknown("INCOMPLETE_WINDOW")
RollingEvidence(cal) ==
    {[anchor |-> WindowAnchor(cal, e), endpoint |-> e, observation |-> Observation(cal, e)]
        : e \in {e \in cal.held : ~Before(MonthsBefore(cal, e, Months), cal.dates[First(cal.held)])}}

\* Only windows that are complete count; without one the engine tells whether
\* there were others.  Equity is positive: no observation is INVALID_INPUT.
RollingSummary(windows) ==
    LET complete == {w \in windows : w.observation.status = "AVAILABLE"}
    IN  WindowSummary([e \in {w.endpoint : w \in complete} |->
                          (CHOOSE w \in complete : w.endpoint = e).observation.value],
                      IF windows = {} THEN "INSUFFICIENT_DATA" ELSE "INCOMPLETE_WINDOW")

\* The metrics of the replay alone; those that divide by a dispersion of the
\* returns are kept as whether they are known.
Metrics ==
    LET n == Len(states)
        returns == [i \in 2..n |-> Div(equity[i], equity[i - 1])]
        mean(x(_)) == Div(SumOver(1..n, x), Whole(n))
        known(isKnown) == IF isKnown THEN "AVAILABLE" ELSE "NONPOSITIVE_DENOMINATOR"
    IN  [total |-> Div(equity[n], equity[1]),
         sharpe |-> IF n < 3 THEN "INSUFFICIENT_DATA"
                    ELSE known(\E i, j \in 2..n : returns[i] # returns[j]),
         sortino |-> IF n < 2 THEN "INSUFFICIENT_DATA"
                     ELSE known(\E i \in 2..n : Less(returns[i], Int1)),
         turnover |-> Div(Turnover, Mul(mean(LAMBDA i : equity[i]), Whole(n - 1))),
         target |-> mean(LAMBDA i : states[i].target),
         realized |-> mean(LAMBDA i : states[i].realized),
         inMarket |-> Frac(Cardinality({i \in 1..n : Less(Int0, states[i].realized)}), n)]

\* Walk-forward folds are the calendar years of the sessions held.  A fold
\* starts where the one before it ended, the first one at the first session.
FoldSessions(cal, y) == {e \in cal.held : YearKey(cal)[e] = y}
FoldBoundaries(cal) ==
    LET years == Ordered({YearKey(cal)[e] : e \in cal.held})
    IN  [k \in DOMAIN years |->
            [year |-> years[k], end |-> Final(FoldSessions(cal, years[k])),
             start |-> IF k = 1 THEN First(cal.held) ELSE Final(FoldSessions(cal, years[k - 1]))]]

\* A fold of a single session is refused.
FoldsAreLegal(folds) ==
    /\ \A k \in DOMAIN folds : folds[k].start < folds[k].end
    /\ \A k \in 2..Len(folds) : folds[k - 1].end = folds[k].start

Anchor(cal, fold) == fold.start

FoldReturns(cal) ==
    LET folds == FoldBoundaries(cal)
    IN  IF ~FoldsAreLegal(folds) THEN <<>>
        ELSE [k \in DOMAIN folds |->
                 [year |-> folds[k].year,
                  value |-> Div(EquityAt(cal, folds[k].end), EquityAt(cal, Anchor(cal, folds[k])))]]

\* A session's regime is decided by the closes before it: how many symbols have
\* risen, or fallen, over RegimeLag sessions up to the session before.
DayBefore(i) == Warmup + i - 1
RegimeOf(i, panel) ==
    LET now_ == panel[DayBefore(i)]
        then_ == panel[DayBefore(i) - RegimeLag]
        rose == {s \in Symbols : then_[s] < now_[s]}
        fell == {s \in Symbols : now_[s] < then_[s]}
    IN  CASE Cardinality(rose) >= Breadth -> "broad_positive_trend"
          [] Cardinality(fell) >= Breadth -> "broad_negative_trend"
          [] OTHER -> "mixed_cross_asset"
RegimeIds == {"broad_positive_trend", "broad_negative_trend", "mixed_cross_asset"}

\* The sessions of each regime, each session in one.
RegimeSessions(r) == {i \in 1..Scored : RegimeOf(i, closes) = r}

\* Each return of the replay belongs to the regime of the session it ends at.
Attribution ==
    [r \in RegimeIds |->
        LET ending == RegimeSessions(r) \ {1}
        IN  IF ending = {} THEN Unknown("NO_RETURN_OBSERVATIONS")
            ELSE Available(ProductOver(ending, LAMBDA i : Div(equity[i], equity[i - 1])))]

EvidenceOf(cal) ==
    LET months == PeriodEvidence(cal, MonthKey(cal))
        years == PeriodEvidence(cal, YearKey(cal))
        windows == RollingEvidence(cal)
    IN  [calendar |-> cal, rows |-> months, years |-> years,
         summaries |-> <<PeriodSummary(months), PeriodSummary(years), RollingSummary(windows)>>,
         streak |-> LongestStreak(months), rolling |-> windows,
         folds |-> FoldReturns(cal), regimes |-> Attribution, metrics |-> Metrics]

Summarise == /\ status = "done"
             /\ derived = NoEvidence
             /\ \E cal \in Calendars : derived' = EvidenceOf(cal)
             /\ UNCHANGED replayVars

EvidenceNext == \/ ReplayNext /\ UNCHANGED derived
                \/ Summarise

EvidenceSpec == EvidenceInit /\ [][EvidenceNext]_<<replayVars, derived>>

-----------------------------------------------------------------------------
(* Properties. *)

\* Every finished replay passes the audit that Gate 3 makes of it before any
\* evidence is derived from it: the engine's fills alone, applied one by one in
\* the order it recorded them, never leave the book short between two of them
\* and give back every state it recorded (validation.py 57-135), and the
\* benchmarks did what their names say (138-155, 210).  A fill out of order, at
\* the wrong price or unrecorded would make a sound campaign unpublishable.
AuditAccepts ==
    status = "done" =>
        /\ plan.family # "sleeve" => ReplayIsDerived
        /\ plan.family = "buy_and_hold" => IsEqualWeight
        /\ plan.family = "cash" => IsAllCash

\* The daily returns Gate 1's formulas start from: the replay's, and none in its
\* first session.
GrowthOf(cal) == [e \in cal.held |-> IF e \in DOMAIN Returns(cal) THEN Returns(cal)[e] ELSE Int1]

\* The engine's period rows, complete rolling windows and every figure that is
\* known of them are those of the formulas registered in Gate 1 (policy.py
\* 354-467), although it anchors at expected sessions and they at held ones, and
\* whatever sessions are missing.
FormulasAgree ==
    derived # NoEvidence =>
        LET cal == derived.calendar
            months == PolicyRows(cal, MonthKey(cal), GrowthOf(cal))
            years == PolicyRows(cal, YearKey(cal), GrowthOf(cal))
            windows == PolicyRolling(cal, GrowthOf(cal), Months)
        IN  /\ derived.rows = months
            /\ derived.years = years
            /\ {[anchor |-> w.anchor, endpoint |-> w.endpoint, value |-> w.observation.value]
                    : w \in {w \in derived.rolling : w.observation.status = "AVAILABLE"}} = windows
            /\ Known(derived.summaries[1]) = PolicySummary(months)
            /\ Known(derived.summaries[2]) = PolicySummary(years)
            /\ Known(derived.summaries[3]) = Known(PolicyRollingSummary(windows))

\* False of the code: when there are windows and none is complete, the engine
\* gives INCOMPLETE_WINDOW as the reason (durability.py 187-196) and the formulas
\* INSUFFICIENT_DATA (policy.py 412-413).
SummaryReasonsAgree ==
    derived # NoEvidence =>
        derived.summaries[3] = PolicyRollingSummary(
            PolicyRolling(derived.calendar, GrowthOf(derived.calendar), Months))

\* The losing streak is Gate 1's too, as the Gate 2 design says.
StreakAgrees ==
    derived # NoEvidence =>
        derived.streak = PolicyStreak(
            PolicyRows(derived.calendar, MonthKey(derived.calendar), GrowthOf(derived.calendar)))

\* No return is lost or counted twice: complete months, complete years, the
\* walk-forward folds and the regimes each compound to the return of the whole
\* replay, and a fold's return is that of its year when the year is complete.
ReturnsCompound ==
    derived # NoEvidence =>
        LET whole == derived.metrics.total
            Compounds(rows) ==
                (\A p \in DOMAIN rows : rows[p].status # "INCOMPLETE_PERIOD") =>
                    ProductOver({p \in DOMAIN rows : rows[p].status = "AVAILABLE"},
                                LAMBDA p : rows[p].value) = whole
        IN  /\ Compounds(derived.rows)
            /\ Compounds(derived.years)
            /\ Compounds(derived.regimes)
            /\ derived.folds # <<>> =>
                   /\ ProductOver(DOMAIN derived.folds, LAMBDA k : derived.folds[k].value) = whole
                   /\ \A k \in DOMAIN derived.folds :
                         LET year == derived.years[derived.folds[k].year]
                         IN  year.status = "AVAILABLE" => derived.folds[k].value = year.value

\* A target computed from prices is the same whatever the prices after its
\* session turn out to be, and the regime of a session whatever its own close
\* and the later ones do.  The volatility estimates are parameters: lookahead
\* in them is not excluded.
NoLookahead ==
    /\ TargetsAreCausal
    /\ (status = "forming" /\ targets # <<>>) =>
           LET i == Len(targets)
           IN  \A later \in Rows :
                   RegimeOf(i, closes) =
                       RegimeOf(i, [j \in DOMAIN closes |-> IF j >= Warmup + i THEN later ELSE closes[j]])
=============================================================================
