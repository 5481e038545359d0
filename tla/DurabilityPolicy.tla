-------------------------- MODULE DurabilityPolicy --------------------------
(***************************************************************************)
(* The durability formulas that Gate 1 registered (preregistration/policy.py, *)
(* compute_durability_evidence), before any engine existed.  A calendar is   *)
(* the sequence of expected session dates and the set of those that a series *)
(* holds; a return is kept as a growth factor, one more than the return.     *)
(* A date is a month and a day.                                              *)
(***************************************************************************)
EXTENDS Fractions, SequencesExt

CONSTANT MonthLength     \* days of each month

Available(x) == [status |-> "AVAILABLE", value |-> x]
Unknown(reason) == [status |-> reason, value |-> Int0]

Before(d, e) == \/ d[1] < e[1]
                \/ d[1] = e[1] /\ d[2] < e[2]

\* The same day months earlier, or the last day of that month.
SubtractMonths(d, months) ==
    LET month == d[1] - months
    IN  <<month, IF d[2] <= MonthLength[month] THEN d[2] ELSE MonthLength[month]>>

MonthKey(cal) == [e \in DOMAIN cal.dates |-> cal.dates[e][1]]
YearKey(cal) == [e \in DOMAIN cal.dates |-> (cal.dates[e][1] + 1) \div 2]    \* years of two months
InPeriod(key, p) == {e \in DOMAIN key : key[e] = p}
Expected(cal, a, b) == {e \in DOMAIN cal.dates : a <= e /\ e <= b}

\* The return of each period whose expected sessions are all held.
PolicyRows(cal, key, growth) ==
    [p \in Range(key) |->
        IF InPeriod(key, p) \subseteq cal.held
        THEN Available(ProductOver(InPeriod(key, p), LAMBDA e : growth[e]))
        ELSE Unknown("INCOMPLETE_PERIOD")]

\* The longest run of losing months among the rows that are available.
PolicyStreak(rows) ==
    LET order == SetToSortSeq({p \in DOMAIN rows : rows[p].status = "AVAILABLE"}, <)
        Count(run, p) == IF Less(rows[p].value, Int1)
                         THEN [now |-> run.now + 1,
                               best |-> IF run.now + 1 > run.best THEN run.now + 1 ELSE run.best]
                         ELSE [run EXCEPT !.now = 0]
    IN  FoldLeft(Count, [now |-> 0, best |-> 0], order).best

First(S) == CHOOSE e \in S : \A f \in S : e <= f
Final(S) == CHOOSE e \in S : \A f \in S : f <= e

MonthsBefore(cal, e, months) == SubtractMonths(cal.dates[e], months)
SessionsBy(cal, S, day) == {a \in S : ~Before(day, cal.dates[a])}
PolicyAnchor(cal, e, months) == Final(SessionsBy(cal, cal.held, MonthsBefore(cal, e, months)))

\* The rolling returns over complete windows, anchored at the last session held
\* on or before the day months earlier.
PolicyIsComplete(cal, e, months) ==
    /\ ~Before(MonthsBefore(cal, e, months), cal.dates[First(cal.held)])
    /\ SessionsBy(cal, cal.held, MonthsBefore(cal, e, months)) # {}
    /\ Expected(cal, PolicyAnchor(cal, e, months), e) \subseteq cal.held

PolicyRolling(cal, growth, months) ==
    {[anchor |-> PolicyAnchor(cal, e, months), endpoint |-> e,
      value |-> ProductOver({k \in cal.held : PolicyAnchor(cal, e, months) < k /\ k <= e},
                            LAMBDA k : growth[k])]
        : e \in {e \in cal.held : PolicyIsComplete(cal, e, months)}}

\* What is reported of a set of returns, given as growth factors: how many are
\* positive, the average gain and loss, the worst, the median, and how much of
\* all gains the best and the three best make up.  Ties go to the earlier one.
Summary(growth) ==
    LET S == DOMAIN growth
        return(p) == Sub(growth[p], Int1)
        up == {p \in S : Less(Int1, growth[p])}
        down == {p \in S : Less(growth[p], Int1)}
        rank(p) == Cardinality({q \in S : \/ Less(growth[q], growth[p])
                                          \/ growth[q] = growth[p] /\ q < p})
        ranked(k) == return(CHOOSE p \in S : rank(p) = k)
        n == Cardinality(S)
        total(T) == SumOver(T, return)
        average(T) == IF T = {} THEN Unknown("EMPTY_SUBSET")
                      ELSE Available(Div(total(T), Whole(Cardinality(T))))
        best(k) == {p \in up : rank(p) >= n - k}
        share(k) == IF up = {} THEN Unknown("NONPOSITIVE_DENOMINATOR")
                    ELSE Available(Div(total(best(k)), total(up)))
        OfAny(x) == IF S = {} THEN Unknown("INSUFFICIENT_DATA") ELSE Available(x)
    IN  [positive |-> OfAny(Frac(Cardinality(up), n)),
         gain |-> average(up), loss |-> average(down),
         worst |-> OfAny(ranked(0)),
         median |-> OfAny(Div(Add(ranked((n - 1) \div 2), ranked(n \div 2)), Whole(2))),
         best |-> share(1), bestThree |-> share(3)]

\* Of rolling returns only three figures are reported, or one reason for all.
WindowSummary(growth, reason) ==
    LET figures == Summary(growth)
    IN  IF DOMAIN growth = {}
        THEN [positive |-> Unknown(reason), worst |-> Unknown(reason), median |-> Unknown(reason)]
        ELSE [positive |-> figures.positive, worst |-> figures.worst, median |-> figures.median]

\* The figures of a summary that are known.
Known(summary) == [x \in {x \in DOMAIN summary : summary[x].status = "AVAILABLE"} |->
                      summary[x].value]

\* The policy leaves out the figures of periods that are not known (None), and
\* gives the same reason for every rolling summary without a complete window.
Live(rows) == {p \in DOMAIN rows : rows[p].status = "AVAILABLE"}
PolicySummary(rows) == Known(Summary([p \in Live(rows) |-> rows[p].value]))
PolicyRollingSummary(windows) ==
    WindowSummary([e \in {w.endpoint : w \in windows} |->
                      (CHOOSE w \in windows : w.endpoint = e).value], "INSUFFICIENT_DATA")
=============================================================================
