--------------------------- MODULE MCTargetReplay ---------------------------
(* A small instance of ReplayEvidence: three symbols whose prices halve or    *)
(* double together or against each other, two warm-up sessions and three      *)
(* scored ones.  The estimates make the cap bind for nobody, for one symbol,  *)
(* for one and then a second, and for all.  The calendars are complete, or   *)
(* miss a whole month, an inner session, the anchor of a window, or a session *)
(* of every window.                                                         *)
EXTENDS ReplayEvidence

MCCap == Frac(2, 5)
MCTargetVol == Frac(1, 1)
MCFrictions == {Frac(0, 1), Frac(1, 4)}
MCExposures == {Frac(0, 1), Frac(1, 2)}
MCRows == {<<1, 1, 1>>, <<2, 2, 2>>, <<2, 1, 1>>, <<1, 2, 2>>}
Estimates(a, b, c) == <<Frac(a, 1), Frac(b, 1), Frac(c, 1)>>
MCVolCases == {Estimates(1, 3, 8), Estimates(4, 1, 1), Estimates(0, 1, 1), Estimates(0, 0, 0)}

MCMonthLength == [m \in -3..4 |-> IF m = 2 THEN 2 ELSE 1]
Calendar(dates, held) == [dates |-> dates, held |-> held]
MCCalendars ==
    {Calendar(<<<<1, 1>>, <<2, 1>>, <<2, 2>>>>, 1..3),
     Calendar(<<<<1, 1>>, <<2, 1>>, <<3, 1>>>>, 1..3),
     Calendar(<<<<1, 1>>, <<2, 1>>, <<2, 2>>, <<3, 1>>>>, {1, 2, 4}),
     Calendar(<<<<1, 1>>, <<2, 1>>, <<2, 2>>, <<3, 1>>>>, {1, 3, 4}),
     Calendar(<<<<1, 1>>, <<2, 1>>, <<3, 1>>, <<4, 1>>>>, {1, 2, 4}),
     Calendar(<<<<1, 1>>, <<2, 1>>, <<3, 1>>, <<4, 1>>>>, {1, 3, 4})}

\* Prices are relative to those of the first session; the last close only
\* values what is held.  The benchmarks and the sleeve ignore the clock, and the
\* cash benchmark has no friction, a sleeve and the slower clock always some.
MCInit == /\ EvidenceInit
          /\ opens[1] = <<1, 1, 1>> /\ closes[1] = <<1, 1, 1>> /\ closes[2] = <<1, 1, 1>>
          /\ opens[3] \in {<<1, 1, 1>>, <<2, 1, 1>>} /\ closes[Warmup + Scored] = <<2, 1, 1>>
          /\ plan.family \in {"cash", "buy_and_hold", "sleeve"} => plan.clock = 1
          /\ plan.family = "cash" => plan.friction = Int0
          /\ plan.family = "sleeve" => plan.friction # Int0
          /\ plan.clock = 2 => plan.friction # Int0
MCSpec == MCInit /\ [][EvidenceNext]_<<replayVars, derived>>

\* Evidence depends on the recorded session states alone, and those of the
\* benchmark rise, fall and stand still in every order.
SummariseSome == derived' # NoEvidence => plan.family = "buy_and_hold"

\* The target of the last session is due at none: one estimate is enough for it.
OneLastEstimate ==
    Len(targets') = Scored /\ Len(targets) < Scored /\ plan.family # "sleeve" =>
        targets'[Scored] = Target(Scored, closes, Estimates(4, 1, 1))
=============================================================================
