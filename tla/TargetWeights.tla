---------------------------- MODULE TargetWeights ----------------------------
(***************************************************************************)
(* How the Gate 2 engine forms a portfolio target at the close of a session *)
(* (phase4/engine/strategies.py, allocation.py).  A close history is a       *)
(* sequence of price rows, the warm-up sessions first.  Annualised and       *)
(* trailing volatilities are square roots of statistics of the same history: *)
(* they are a parameter, any fraction, 0 standing for one that is not a      *)
(* positive finite number.                                                   *)
(***************************************************************************)
EXTENDS Fractions, Sequences

CONSTANTS Symbols,     \* naturals, in the canonical order
          Lookback,    \* lookback_sessions
          Trend,       \* trend_window
          Skip,        \* skip_sessions
          TopK,        \* top_k
          Cap,         \* maximum_asset_weight, a fraction
          TargetVol    \* target_portfolio_volatility, a fraction

ASSUME WeightsAssumption ==
    /\ Symbols \subseteq Nat /\ IsFiniteSet(Symbols) /\ Symbols # {}
    /\ {Lookback, Skip, TopK} \subseteq Nat /\ Trend \in Positive
    /\ Cap \in Fraction /\ Less(Int0, Cap) /\ Leq(Cap, Int1)
    /\ TargetVol \in Fraction /\ Leq(Int0, TargetVol)

NoWeights == [s \in Symbols |-> Int0]
Scatter(S, w) == [s \in Symbols |-> IF s \in S THEN w[s] ELSE Int0]

EqualWeights(S) == Scatter(S, [s \in S |-> Frac(1, Cardinality(S))])

\* The momentum of a symbol over n sessions that ended k sessions ago, less one.
Momentum(history, s, n, k) == LET end == Len(history)
                              IN  Frac(history[end - k][s], history[end - n - k][s])
Rising(history, n, k) == IF Len(history) < n + k + 1 THEN {}
                         ELSE {s \in Symbols : Less(Int1, Momentum(history, s, n, k))}

\* The TopK symbols by momentum, the first by name on a tie.
Leaders(history, n, k) ==
    LET S == Rising(history, n, k)
        score(s) == Momentum(history, s, n, k)
        Ahead(a, b) == \/ Less(score(b), score(a))
                       \/ score(a) = score(b) /\ a < b
    IN  {s \in S : Cardinality({a \in S : Ahead(a, s)}) < TopK}

\* The closes above their trailing mean.
AboveTrend(history) ==
    LET window == {i \in DOMAIN history : i > Len(history) - Trend}
    IN  IF Len(history) < Trend THEN {}
        ELSE {s \in Symbols :
                Less(SumOver(window, LAMBDA i : Whole(history[i][s])),
                     Whole(Trend * history[Len(history)][s]))}

\* capped_inverse_volatility: the mass min(1, n * cap) in proportion to
\* 1/volatility; whoever exceeds the cap gets the cap, and the rest share what
\* remains, until nobody exceeds it.
\* Mutant: what the capped symbols gave up is not shared.
ClippedWeights(vol) ==
    LET D == {s \in DOMAIN vol : Less(Int0, vol[s])}
        mass == Least(Int1, Mul(Whole(Cardinality(D)), Cap))
        total == SumOver(D, LAMBDA s : Div(Int1, vol[s]))
    IN  Scatter(D, [s \in D |-> Least(Cap, Div(Mul(mass, Div(Int1, vol[s])), total))])

\* What the symbols of U may share once the others have the cap, and how.
Left(D, U, mass) == Sub(mass, Mul(Whole(Cardinality(D \ U)), Cap))
Shares(U, score, left) ==
    LET total == SumOver(U, LAMBDA s : score[s])
    IN  [s \in U |-> Div(Mul(left, score[s]), total)]

CapFill(score, mass) ==
    LET D == DOMAIN score
        fill[U \in SUBSET D] ==
            LET left == Left(D, U, mass)
                shares == Shares(U, score, left)
                over == {s \in U : Less(Cap, shares[s])}
            IN  IF U = {} \/ (U # D /\ Leq(left, Int0)) THEN [s \in D |-> IF s \in U THEN Int0 ELSE Cap]
                ELSE IF over = {} THEN [s \in D |-> IF s \in U THEN Least(shares[s], Cap) ELSE Cap]
                ELSE fill[U \ over]
    IN  fill[D]

CappedWeights(vol) ==
    LET D == {s \in DOMAIN vol : Less(Int0, vol[s])}
        score == [s \in D |-> Div(Int1, vol[s])]
        mass == Least(Int1, Mul(Whole(Cardinality(D)), Cap))
    IN  IF D = {} THEN NoWeights ELSE Scatter(D, CapFill(score, mass))

\* portfolio_volatility_scale: equal weights, scaled down to the target volatility.
ScaledWeights(S, vol) ==
    IF S = {} \/ vol = Int0 THEN NoWeights
    ELSE LET scale == Least(Int1, Div(TargetVol, vol))
         IN  [s \in Symbols |-> Mul(scale, EqualWeights(S)[s])]

Picked(S, vols) == [s \in S |-> vols[s]]

\* The four sealed families.
Weights(family, history, vols) ==
    CASE family = "cross_sectional" -> EqualWeights(Leaders(history, Lookback, Skip))
      [] family = "time_series" -> CappedWeights(Picked(Rising(history, Lookback, 0), vols))
      [] family = "trend_filtered" -> CappedWeights(Picked(AboveTrend(history), vols))
      [] family = "volatility_managed" ->
             ScaledWeights(Leaders(history, Lookback, 0), vols[CHOOSE s \in Symbols : TRUE])
=============================================================================
