---------------------------- MODULE FamilySearch ----------------------------
(***************************************************************************)
(* The search of one strategy family (quant/optimizer/search.py,           *)
(* run_search): the candidates of a grid are evaluated in order until the  *)
(* grid is exhausted, the budget is spent or one of two streaks has lasted *)
(* for Patience candidates.  Scores are integers in units of a hundredth,  *)
(* the meaningful improvement of the workflow.                             *)
(***************************************************************************)
EXTENDS Integers, Sequences

CONSTANTS
    Evidence,  \* what the evaluation of a candidate may yield
    NoScore,   \* an unrankable candidate
    Improvement, MaxCandidates, Patience

\* SearchBudget.__post_init__; improved: out_of_sample_improved; deteriorated:
\* robustness_deteriorated; consistent: every walk-forward fold gained.
ASSUME SearchAssumption ==
    /\ {MaxCandidates, Patience} \subseteq Nat \ {0}
    /\ Improvement \in Nat
    /\ NoScore \notin Int
    /\ \A e \in Evidence : /\ e.score \in Int \cup {NoScore}
                           /\ {e.improved, e.deteriorated, e.consistent} \subseteq BOOLEAN

VARIABLES
    grid,         \* the candidates of the family's generator that are left
    evaluations,  \* evidence, in order
    best,         \* the position of the best evaluation, 0 if none
    stale, oos_stale,
    stop_reason

searchVars == <<grid, evaluations, best, stale, oos_stale, stop_reason>>

NoSearch ==
    /\ grid = <<>> /\ evaluations = <<>>
    /\ best = 0 /\ stale = 0 /\ oos_stale = 0
    /\ stop_reason = "NONE"

CarryStreak(candidates, reason) ==  \* mutant: the streak outlives its family
    /\ grid' = candidates
    /\ evaluations' = <<>>
    /\ best' = 0 /\ stale' = 0 /\ UNCHANGED oos_stale
    /\ stop_reason' = reason
ResetSearch(candidates, reason) ==
    /\ grid' = candidates
    /\ evaluations' = <<>>
    /\ best' = 0 /\ stale' = 0 /\ oos_stale' = 0
    /\ stop_reason' = reason

StartSearch(candidates) == ResetSearch(candidates, "RUNNING")
ForgetSearch == ResetSearch(<<>>, "NONE")

Searching == stop_reason = "RUNNING"

\* A candidate is evaluated next.
MayEvaluate == Searching /\ grid # <<>> /\ Len(evaluations) < MaxCandidates

Eligible(e) == ~e.deteriorated /\ e.improved /\ e.score # NoScore

IgnoreRobustness(e) ==  \* mutant: a candidate that deteriorated may lead
    /\ e.improved /\ e.score # NoScore
    /\ best # 0 => e.score > evaluations[best].score + Improvement
Leads(e) ==
    Eligible(e) /\ (best # 0 => e.score > evaluations[best].score + Improvement)

KeepStreak(e) == IF e.improved THEN oos_stale ELSE oos_stale + 1  \* mutant: no reset
OosStreak(e) == IF e.improved THEN 0 ELSE oos_stale + 1

Taken(e) ==
    /\ MayEvaluate
    /\ grid' = Tail(grid)
    /\ evaluations' = Append(evaluations, e)
    /\ oos_stale' = OosStreak(e)

\* The return of a persistent failure comes before best and stale are updated.
FailPersistently(e) ==
    /\ Taken(e)
    /\ oos_stale' >= Patience
    /\ stop_reason' = "PERSISTENT_OOS_FAILURE"
    /\ UNCHANGED <<best, stale>>

TakeLead(e) ==
    /\ Taken(e)
    /\ oos_stale' < Patience
    /\ Leads(e)
    /\ best' = Len(evaluations')
    /\ stale' = 0
    /\ UNCHANGED stop_reason

FallBehind(e) ==
    /\ Taken(e)
    /\ oos_stale' < Patience
    /\ ~Leads(e)
    /\ stale' = stale + 1
    /\ stop_reason' = IF stale' >= Patience THEN "NO_MEANINGFUL_IMPROVEMENT" ELSE stop_reason
    /\ UNCHANGED best

Evaluate(e) == FailPersistently(e) \/ TakeLead(e) \/ FallBehind(e)

\* The next candidate is drawn before the budget is looked at.
StopAtMaximum ==
    /\ Searching /\ grid # <<>> /\ Len(evaluations) >= MaxCandidates
    /\ stop_reason' = "MAX_CANDIDATES"
    /\ UNCHANGED <<grid, evaluations, best, stale, oos_stale>>

Exhaust ==
    /\ Searching /\ grid = <<>>
    /\ stop_reason' = "EXHAUSTED"
    /\ UNCHANGED <<grid, evaluations, best, stale, oos_stale>>

-----------------------------------------------------------------------------
SearchTypeOK ==
    /\ evaluations \in Seq(Evidence)
    /\ Len(evaluations) <= MaxCandidates
    /\ best \in 0 .. Len(evaluations)
    /\ stale \in 0 .. Patience /\ oos_stale \in 0 .. Patience
    /\ stop_reason \in {"NONE", "RUNNING", "MAX_CANDIDATES", "EXHAUSTED",
                        "PERSISTENT_OOS_FAILURE", "NO_MEANINGFUL_IMPROVEMENT"}

\* The candidate a search returns is eligible, and no eligible candidate it saw
\* is better by more than the meaningful improvement, whatever the order.
BestIsNearlyBest ==
    /\ best # 0 => Eligible(evaluations[best])
    /\ \A i \in 1 .. Len(evaluations) :
          Eligible(evaluations[i]) =>
             best # 0 /\ evaluations[i].score <= evaluations[best].score + Improvement

\* The positions at which a streak of Patience failures is complete.
Failing(k) == \A i \in k - Patience + 1 .. k : ~evaluations[i].improved
Complete == {k \in Patience .. Len(evaluations) : Failing(k)}

\* The candidates since the best one; all of them if none ever led.
Unimproved == Len(evaluations) - best

\* A search gives up on a family exactly when its last Patience candidates all
\* failed out of sample, or else none of them took the lead; no candidate is
\* evaluated after either streak was complete, and nothing else, robustness
\* that deteriorates included, makes it give up.
StopIsJustified ==
    /\ Complete # {} <=> stop_reason = "PERSISTENT_OOS_FAILURE"
    /\ Complete \subseteq {Len(evaluations)}
    /\ Complete = {} /\ Unimproved = Patience <=> stop_reason = "NO_MEANINGFUL_IMPROVEMENT"
    /\ Unimproved <= Patience

\* A candidate whose robustness deteriorated ends the search of its family, as
\* the subsystem design has it and the code does not.
DeteriorationStops ==
    Searching => \A i \in 1 .. Len(evaluations) : ~evaluations[i].deteriorated
=============================================================================
