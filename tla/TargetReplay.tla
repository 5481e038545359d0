----------------------------- MODULE TargetReplay -----------------------------
(***************************************************************************)
(* The Gate 2 replay (phase4/engine/execution.py, strategies.py,             *)
(* benchmarks.py): targets are formed at the closes of scored sessions on a  *)
(* fixed clock, each one is due at the next session's open, and the replay   *)
(* sells down to it, buys up to it with what cash there is, and values the   *)
(* portfolio at the close.                                                   *)
(***************************************************************************)
EXTENDS TargetWeights

CONSTANTS Warmup,        \* warm-up sessions
          Scored,        \* scored sessions, numbered from 1
          Rows,          \* the rows of prices that occur, functions on Symbols
          VolCases,      \* the volatility estimates that occur, functions on Symbols
          Families,      \* strategy families and benchmarks
          Frictions,     \* friction cases, as fractions of the notional
          Clocks,        \* rebalance_sessions of the candidates
          SleeveSymbol,  \* the one symbol of a baseline sleeve
          Exposures      \* exposures a baseline strategy asks for, fractions

ASSUME ReplayAssumption ==
    /\ Warmup \in Nat /\ Scored \in Positive /\ Clocks \subseteq Positive
    /\ \A row \in Rows : row \in [Symbols -> Positive]
    /\ \A vols \in VolCases : /\ vols \in [Symbols -> Fraction]
                              /\ \A s \in Symbols : Leq(Int0, vols[s])
    /\ Families \subseteq {"cash", "buy_and_hold", "sleeve", "cross_sectional", "time_series",
                          "trend_filtered", "volatility_managed"}
    /\ \A f \in Frictions : f \in Fraction /\ Leq(Int0, f) /\ Less(f, Int1)
    /\ \A x \in Exposures : x \in Fraction /\ Leq(Int0, x) /\ Leq(x, Int1)
    /\ SleeveSymbol \in Symbols

VARIABLES
    opens, closes,   \* the panel: a row of prices a session; closes begin with the warm-up
    plan,            \* the family, the friction case and the clock of this replay
    targets,         \* a target or NoTarget for each scored session so far
    status,          \* "forming", "open", "close", "done" or "failed"
    now,             \* the scored session the replay is at
    holdings, cash,
    worth,           \* the value at this session's open, before its trades
    fills,           \* the fills recorded so far
    states           \* the session states recorded so far

replayVars == <<opens, closes, plan, targets, status, now, holdings, cash, worth, fills, states>>

equity == [i \in DOMAIN states |-> states[i].close]

\* A target formed at the last session is due at no session, 0.
NoTarget == [due |-> -1, weights |-> NoWeights]

ReplayInit ==
        /\ opens \in [1..Scored -> Rows]
        /\ closes \in [1..(Warmup + Scored) -> Rows]
        /\ plan \in [family : Families, friction : Frictions, clock : Clocks]
        /\ targets = <<>>
        /\ status = "forming"
        /\ now = 1
        /\ holdings = NoWeights
        /\ cash = Int1
        /\ worth = Int1
        /\ fills = <<>>
        /\ states = <<>>

-----------------------------------------------------------------------------
(* Targets.  The definitions marked Mutant are bugs the checks must find. *)

\* The closes a target of scored session i may use: up to the close of i.
\* Mutant: the history ends a session later.
LateHistory(i, panel) == SubSeq(panel, 1, IF i < Scored THEN Warmup + i + 1 ELSE Warmup + i)
CausalHistory(i, panel) == SubSeq(panel, 1, Warmup + i)

DueAfter(i) == IF i < Scored THEN i + 1 ELSE 0

OnClock(i) == (i - 1) % plan.clock = 0

\* A baseline submits a target only when the exposure its strategy asks for
\* differs from the one it submitted last; the first session always submits.
LastSubmitted(i) == LET submitted == {j \in 1..(i - 1) : targets[j] # NoTarget}
                    IN  IF submitted = {} THEN NoWeights
                        ELSE targets[CHOOSE j \in submitted : \A k \in submitted : k <= j].weights
SleeveTarget(i, exposure) ==
    LET weights == [s \in Symbols |-> IF s = SleeveSymbol THEN exposure ELSE Int0]
    IN  IF i > 1 /\ weights = LastSubmitted(i) THEN NoTarget
        ELSE [due |-> DueAfter(i), weights |-> weights]

Target(i, panel, vols) ==
    CASE plan.family = "cash" -> NoTarget
      [] plan.family = "buy_and_hold" ->
             IF i = 1 THEN [due |-> DueAfter(1), weights |-> EqualWeights(Symbols)] ELSE NoTarget
      [] OTHER ->
             IF OnClock(i)
             THEN [due |-> DueAfter(i), weights |-> Weights(plan.family, CausalHistory(i, panel), vols)]
             ELSE NoTarget

\* A target instruction is long-only and unlevered.
LegalTarget(weights) == /\ \A s \in Symbols : Leq(Int0, weights[s])
                        /\ Leq(SumOver(Symbols, LAMBDA s : weights[s]), Int1)

FormTarget == /\ status = "forming"
              /\ Len(targets) < Scored
              /\ IF plan.family = "sleeve"
                 THEN \E exposure \in Exposures :
                          targets' = Append(targets, SleeveTarget(Len(targets) + 1, exposure))
                 ELSE \E vols \in VolCases :
                          targets' = Append(targets, Target(Len(targets) + 1, closes, vols))
              /\ status' = CASE ~LegalTarget(targets'[Len(targets')].weights) -> "failed"
                             [] Len(targets') = Scored -> "open"
                             [] OTHER -> "forming"
              /\ UNCHANGED <<opens, closes, plan, now, holdings, cash, worth, fills, states>>

-----------------------------------------------------------------------------
(* A session of the replay. *)

Value(h, row) == SumOver(Symbols, LAMBDA s : Mul(h[s], Whole(row[s])))

\* The target of the session before, if it is due now.
DueTarget == IF now > 1 /\ targets[now - 1].due = now THEN targets[now - 1] ELSE NoTarget

WithFriction(x) == Mul(x, Add(Int1, plan.friction))

\* Mutant: cash is spent as if buying were free.
ScaleIgnoringFriction(total, available) ==
    IF Less(available, total) THEN Div(available, total) ELSE Int1

\* Buys are scaled by one factor to the cash there is after the sells.
BuyScale(total, available) ==
    IF Less(available, WithFriction(total)) THEN Div(available, WithFriction(total)) ELSE Int1

Bought(buys, wanted, available) ==
    LET total == SumOver(buys, LAMBDA s : wanted[s])
        scale == BuyScale(total, available)
    IN  IF buys = {} \/ Leq(scale, Int0) THEN NoWeights
        ELSE Scatter(buys, [s \in buys |-> Mul(wanted[s], scale)])

FrictionOn(notional) == Mul(notional, plan.friction)

Units(s, notional) == Div(notional, Whole(opens[now][s]))

\* The symbols of S in the canonical order.
Ordered(S) == [k \in 1..Cardinality(S) |-> CHOOSE s \in S : Cardinality({t \in S : t <= s}) = k]
FillOf(s, units, notional) ==
    [symbol |-> s, signal |-> now - 1, session |-> now, price |-> opens[now][s],
     units |-> units, notional |-> notional, friction |-> FrictionOn(Magnitude(notional))]

\* Mutant: what the sells bring is spent before they are made.
BuysFirst(sells, buys) == buys \o sells
SellsFirst(sells, buys) == sells \o buys

OpenSession ==
    LET row == opens[now]
        value == Add(cash, Value(holdings, row))
        desired == [s \in Symbols |-> Mul(DueTarget.weights[s], value)]
        delta == [s \in Symbols |-> Sub(desired[s], Mul(holdings[s], Whole(row[s])))]
        sells == {s \in Symbols : Less(delta[s], Int0)}
        buys == {s \in Symbols : Less(Int0, delta[s])}
        proceeds == SumOver(sells, LAMBDA s : Sub(Sub(Int0, delta[s]), FrictionOn(Magnitude(delta[s]))))
        bought == Bought(buys, delta, Add(cash, proceeds))
        spent == SumOver(buys, LAMBDA s : Add(bought[s], FrictionOn(bought[s])))
        filled == {s \in buys : Less(Int0, bought[s])}
        Sell(s) == FillOf(s, Sub(Units(s, desired[s]), holdings[s]), delta[s])
        Buy(s) == FillOf(s, Units(s, bought[s]), bought[s])
    IN  /\ status = "open"
        /\ worth' = value
        /\ status' = IF Leq(value, Int0) THEN "failed" ELSE "close"
        /\ IF Leq(value, Int0) \/ DueTarget = NoTarget
           THEN UNCHANGED <<holdings, cash, fills>>
           ELSE /\ cash' = Sub(Add(cash, proceeds), spent)
                /\ holdings' = [s \in Symbols |->
                       IF s \in sells THEN Units(s, desired[s])
                       ELSE Add(holdings[s], Units(s, bought[s]))]
                /\ fills' = fills \o SellsFirst([k \in 1..Cardinality(sells) |-> Sell(Ordered(sells)[k])],
                                                [k \in 1..Cardinality(filled) |-> Buy(Ordered(filled)[k])])
        /\ UNCHANGED <<opens, closes, plan, targets, now, states>>

\* Cash and units must not be negative, the close value positive, and gross
\* exposure at most one; the recorded session state checks the same again.
Risky == Value(holdings, closes[Warmup + now])
Sound == /\ Leq(Int0, cash)
         /\ \A s \in Symbols : Leq(Int0, holdings[s])
         /\ Less(Int0, Add(cash, Risky))
         /\ Leq(Risky, Add(cash, Risky))

\* The gross exposure of the last target formed, which may be this session's.
TargetGross ==
    LET formed == {i \in 1..now : targets[i] # NoTarget}
        last == CHOOSE i \in formed : \A j \in formed : j <= i
    IN  IF formed = {} THEN Int0 ELSE SumOver(Symbols, LAMBDA s : targets[last].weights[s])

SessionState == [session |-> now, open |-> worth, close |-> Add(cash, Risky), cash |-> cash, units |-> holdings,
                 realized |-> Div(Risky, Add(cash, Risky)), target |-> TargetGross]

CloseSession == /\ status = "close"
                /\ IF Sound
                   THEN /\ states' = Append(states, SessionState)
                        /\ now' = IF now < Scored THEN now + 1 ELSE now
                        /\ status' = IF now < Scored THEN "open" ELSE "done"
                   ELSE /\ status' = "failed"
                        /\ UNCHANGED <<states, now>>
                /\ UNCHANGED <<opens, closes, plan, targets, holdings, cash, worth, fills>>

\* The turnover a finished replay reports.
Turnover == SumOver(DOMAIN fills, LAMBDA k : Magnitude(fills[k].notional))

ReplayNext == FormTarget \/ OpenSession \/ CloseSession

-----------------------------------------------------------------------------
(* Properties. *)

\* With friction below the whole notional no legal panel makes the replay stop
\* with an accounting error: cash never goes negative, however sells, scaled
\* buys and prices follow each other (execution.py 160-200).
ReplayIsSolvent == status # "failed"

\* A target that is computed is the same whatever the prices after its session
\* turn out to be, given the volatilities: their estimates are parameters, and
\* a sleeve's targets are given.
TargetsAreCausal ==
    (status = "forming" /\ targets # <<>> /\ plan.family # "sleeve") =>
        LET i == Len(targets)
        IN  \A vols \in VolCases, later \in Rows :
                Target(i, closes, vols) =
                    Target(i, [j \in DOMAIN closes |-> IF j > Warmup + i THEN later ELSE closes[j]], vols)

\* Cap filling gives no symbol more than the cap, and leaves nobody below it
\* while there is mass to hand out, however the rounds of capping went
\* (allocation.py 94-118).
CapIsFilled ==
    targets # <<>> /\ states = <<>> =>
        LET w == targets[Len(targets)].weights
            gross == SumOver(Symbols, LAMBDA s : w[s])
        IN  plan.family \in {"time_series", "trend_filtered"} =>
                /\ \A s \in Symbols : Leq(w[s], Cap)
                /\ Leq(gross, Int1)
                /\ (\E s \in Symbols : Less(Int0, w[s]) /\ Less(w[s], Cap)) => gross = Int1
=============================================================================
