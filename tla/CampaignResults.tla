--------------------------- MODULE CampaignResults ---------------------------
(***************************************************************************)
(* The results of the Gate 3 campaign over its trial budget: the typed       *)
(* candidate results (phase4/gate3_campaign/result_schema.py), what          *)
(* validate_result accepts (validation.py) and the content-addressed store  *)
(* (result_artifacts.py), beside the traversal of BudgetTraversal.          *)
(*                                                                         *)
(* The budget stops a family by its own counter.  The store accepts a skip  *)
(* only with a witness, the results of the limit's worth of consecutive     *)
(* candidates that failed, which it reads and validates again.  Nothing in  *)
(* the source keeps the two together: the loop that consumes, evaluates,     *)
(* writes and records is the caller's, external, in the order of the design. *)
(*                                                                         *)
(* The store also holds results of an earlier campaign, under an authority   *)
(* that was superseded; provenance is what tells them apart.                *)
(*                                                                         *)
(* The evidence of a candidate includes replays of its neighbors in the      *)
(* grid, consumed or not.  From what the store holds select_survivor         *)
(* (preregistration/policy.py) names the one candidate the campaign is for; *)
(* its caller is not written yet.                                           *)
(***************************************************************************)
EXTENDS BudgetTraversal, CandidateGrids

CONSTANTS EarlierTrials,   \* how many trials an earlier campaign may have left
          Evaluations,     \* the evaluations considered, <<status, excess>>
          Watched,         \* the candidates whose neighbors may be replayed
          Strength         \* the place of a candidate in the other ranking keys

\* The ranking keys of _survivor_key are numbers, compared as one.
ASSUME StrengthAssumption == Strength \in [Row -> Int]

VARIABLE results         \* results/phase4/gate3/campaign/candidate_result

Authority == {"current", "superseded"}
Observed == {"EXECUTED", "UNKNOWN", "ABSTAIN"}

\* CandidateResult: its provenance (position and authority), status, and what
\* its benchmark excess is, "none" when there is no number; the neighbors whose
\* replay it holds, with their excess; a skip names the window of its witness by
\* the last position.  make_provenance gives every
\* position one provenance under an authority.
NoTrigger == -1
Result(r, authority, status, excess) ==
    [position |-> r, authority |-> authority, status |-> status, excess |-> excess,
     seen |-> {}, trigger |-> NoTrigger]
SkipResult(r, trigger) ==
    [Result(r, "current", "SKIPPED_FAMILY_STOP", "none") EXCEPT !.trigger = trigger]

\* Only an executed candidate has evidence, and its excess can be unavailable.
ASSUME EvaluationsAssumption ==
    Evaluations \subseteq ({"EXECUTED"} \X {"positive", "nonpositive", "none"})
                          \cup {<<"UNKNOWN", "none">>, <<"ABSTAIN", "none">>}

\* What a replay yields is a function of the candidate: no two pieces of
\* evidence disagree on a number.
Numbers == {"positive", "nonpositive"}
Replayed == UNION {x.seen \cup {<<x.position, x.excess>>} :
                       x \in {y \in results : y.authority = "current" /\ y.excess \in Numbers}}
Agrees(evidence) == \A a \in evidence, b \in evidence \cup Replayed : a[1] = b[1] => a[2] = b[2]

\* NeighborObservation: a neighbor's replay is there, or its status is UNKNOWN.
Observations(r) ==
    {x \in {[Result(r, "current", e[1], e[2]) EXCEPT !.seen = seen] :
                e \in Evaluations,
                seen \in IF r \in Watched THEN SUBSET (Neighbors[r] \X Numbers) ELSE {{}}} :
        /\ x.status # "EXECUTED" => x.seen = {}
        /\ Agrees(x.seen \cup IF x.excess \in Numbers THEN {<<r, x.excess>>} ELSE {})}

\* oos_outcome and the comparison with zero in record_candidate_outcome.
IsPositive(result) == result.excess = "positive"

FamilyOf(r) == CHOOSE f \in Family : r \in RowsOf(f)

-----------------------------------------------------------------------------
(* validate_result.  The definitions marked Mutant are bugs the checks must  *)
(* find.                                                                   *)

\* Mutant: the first result after the limit's window is asked for as well.
WindowTooLong(trigger) == (trigger - PersistentOosLimit) .. trigger
\* range(trigger - 49, trigger + 1)
Window(trigger) == (trigger - PersistentOosLimit + 1) .. trigger

\* One resolved reference of a witness: read_result validated it under the
\* authority at hand, and it is a failed observation of the family.
\* Mutant: the family is not compared.
WitnessOfAnyFamily(result, r, p) ==
    /\ result.position = r
    /\ result.authority = "current"
    /\ result.status \in Observed
    /\ ~IsPositive(result)
Witness(result, r, p) ==
    /\ result.position = r
    /\ result.authority = "current"
    /\ FamilyOf(result.position) = FamilyOf(p)
    /\ result.status \in Observed
    /\ ~IsPositive(result)

\* A skip of p with the window that ends at trigger passes validate_result.
AcceptsSkip(p, trigger) ==
    /\ trigger < p
    /\ Window(trigger) \subseteq Row
    /\ \A r \in Window(trigger) : \E result \in results : Witness(result, r, p)

-----------------------------------------------------------------------------
(* survivor_projection and select_survivor.                                *)

\* _neighborhood: the fraction of the neighbors with evidence that are positive.
\* The replays considered have a positive return when their excess is positive,
\* so that the gate on the median excess follows from the one on the fraction.
PositiveNeighbors(result) == {n \in result.seen : n[2] = "positive"}
Robust(result) == /\ Cardinality(result.seen) >= 2
                  /\ 3 * Cardinality(PositiveNeighbors(result)) >= 2 * Cardinality(result.seen)

\* One value that is UNKNOWN and there is no evidence to select from.
IsProjected(result) == /\ result.status = "EXECUTED"
                       /\ result.excess # "none"
                       /\ Cardinality(result.seen) >= 2

\* _eligible.  The gates on friction, folds, turnover, exposure and bootstrap are
\* taken to pass.  Mutant: the benchmark excess is not asked for.
EligibleAnyExcess(result) == IsProjected(result) /\ Robust(result)
Eligible(result) == IsProjected(result) /\ IsPositive(result) /\ Robust(result)

\* _survivor_key, the candidate's identity last.
RanksBefore(x, y) == \/ Strength[x.position] > Strength[y.position]
                     \/ /\ Strength[x.position] = Strength[y.position]
                        /\ x.position <= y.position

\* select_survivor of the current results: a set with at most one candidate,
\* empty for NO_CREDIBLE_STRATEGY_FOUND.
Candidates == {x \in results : x.authority = "current" /\ Eligible(x)}
Survivor == {x.position : x \in {y \in Candidates : \A z \in Candidates : RanksBefore(y, z)}}

-----------------------------------------------------------------------------
campaignVars == <<vars, results>>

\* An earlier campaign whose candidates all lacked a primary observation.
CampaignInit ==
    /\ Init
    /\ \E n \in {0, EarlierTrials} :
           results = {Result(r, "superseded", "UNKNOWN", "none") : r \in {q \in Row : q < n}}

\* A consumed candidate is evaluated and its result written, before its outcome
\* is recorded.  The store is append-only and a result is its own address.
WriteResult ==
    /\ Active
    /\ row_states[traversal_cursor] = "CONSUMED"
    /\ \A result \in results :
           result.authority = "current" => result.position # traversal_cursor
    /\ \E result \in Observations(traversal_cursor) : results' = results \cup {result}
    /\ UNCHANGED vars

\* record_candidate_outcome of the result's oos_outcome.
RecordResult ==
    \E result \in results :
        /\ result.authority = "current"
        /\ result.position = traversal_cursor
        /\ result.status \in Observed
        /\ RecordOutcome(IsPositive(result))
        /\ UNCHANGED results

\* A system failure is published as a result too, and oos_outcome refuses it:
\* the campaign fails.
WriteFailure ==
    /\ Active
    /\ row_states[traversal_cursor] = "CONSUMED"
    /\ results' = results \cup
           {Result(traversal_cursor, "current", "CAMPAIGN_EXECUTION_FAILED", "none")}
    /\ FailCampaign

\* A row the budget has skipped is published as soon as a witness resolves.
PublishSkip(p) ==
    /\ row_states[p] = "SKIPPED_FAMILY_STOP"
    /\ \A result \in results : result.trigger # NoTrigger => result.position # p
    /\ \E trigger \in Row :
           /\ AcceptsSkip(p, trigger)
           /\ results' = results \cup {SkipResult(p, trigger)}
    /\ UNCHANGED vars

BudgetStep ==
    /\ \/ \E t \in Row : \/ LookupConsumed(t)
                         \/ ConsumeCurrent(t)
                         \/ ExhaustAggregateBudget(t)
       \/ \E reason \in Reason : TerminateFamily(reason)
       \/ FailCampaign
    /\ UNCHANGED results

CampaignNext == \/ BudgetStep \/ WriteResult \/ RecordResult \/ WriteFailure
                \/ \E p \in Row : PublishSkip(p)

CampaignSpec == CampaignInit /\ [][CampaignNext]_campaignVars

-----------------------------------------------------------------------------
(* Properties. *)

\* The budget stopped the family of p because of the failures of its streak.
StoppedByStreak(p) ==
    /\ row_states[p] = "SKIPPED_FAMILY_STOP"
    /\ \E trigger \in RowsOf(FamilyOf(p)) :
           /\ trigger < p
           /\ \A i \in 0 .. PersistentOosLimit - 1 :
                  /\ trigger - i \in RowsOf(FamilyOf(p))
                  /\ outcome[trigger - i] = "failed"

\* A row that record_candidate_outcome skips for the persistent failures of its
\* family can be published: the store holds the witness that validate_result
\* asks for (budget.py 99-119, validation.py 327-339).
StopIsProvable == \A p \in Row : StoppedByStreak(p) => \E t \in Row : AcceptsSkip(p, t)

\* No skip of a candidate passes validate_result once the candidate was
\* consumed: whatever an earlier campaign, another family or an unrecorded
\* result left in the store, it never proves a stop the budget did not make.
StopIsEarned == \A p \in Row : \A t \in Row : AcceptsSkip(p, t) => row_states[p] # "CONSUMED"

\* The candidate select_survivor names at any moment was consumed from the
\* budget, its outcome never counted as a failure of its family, and it is
\* neither skipped by a result that validates nor part of the witness of a skip,
\* although the budget, the witness and the selection each judge the excess by a
\* rule of their own (budget.py 103-111, validation.py 338, policy.py 571).
SurvivorIsEarned ==
    \A s \in Survivor :
        /\ Survivor = {s}
        /\ row_states[s] = "CONSUMED"
        /\ outcome[s] # "failed"
        /\ \A p \in Row : \A t \in Row : AcceptsSkip(p, t) => p # s /\ s \notin Window(t)

\* The campaign design's rule that availability is determined by evidence, not by
\* a caller's flag: a neighbor whose own result has a number is in the evidence.
\* The code takes an UNKNOWN neighbor at its word, so that this does not hold.
NeighborsAreNotHidden ==
    \A x, y \in results :
        (x.status = "EXECUTED" /\ x.position \in Watched /\ y.authority = "current"
            /\ y.excess \in Numbers /\ y.position \in Neighbors[x.position]
            /\ y.position < x.position)
        => <<y.position, y.excess>> \in x.seen
=============================================================================
