-------------------------- MODULE BudgetTraversal --------------------------
(***************************************************************************)
(* The Phase 4 trial-budget traversal (quant/phase4/engine/budget.py).     *)
(*                                                                         *)
(* A sealed population of trials, split into contiguous families, is       *)
(* walked in order.  A trial is consumed before it is evaluated, its       *)
(* benchmark-excess outcome is recorded afterwards, and a family can stop  *)
(* early.  BudgetState is an immutable value: every method returns the     *)
(* next state or raises and leaves the caller with the state it had, so a  *)
(* call that raises is a stuttering step here.                             *)
(*                                                                         *)
(* Rows and families are numbered from 0 as in the code; family f covers   *)
(* the rows Bound[f] .. Bound[f + 1] - 1 (BudgetState.family_ranges).      *)
(***************************************************************************)
EXTENDS Integers, FiniteSets

CONSTANTS
    FamilyCount,        \* number of sealed families (4 in the sealed grids)
    Bound,              \* first row of each family; Bound[FamilyCount] = all
    AggregateBudget,    \* 3000 in the code
    PersistentOosLimit  \* PERSISTENT_OOS_LIMIT, 50 in the code

ASSUME FamilyCountAssumption == FamilyCount \in Nat \ {0}

\* validate_budget_state: the ranges are contiguous, increasing, non-empty.
ASSUME BoundAssumption ==
    /\ Bound \in [0 .. FamilyCount -> Nat]
    /\ Bound[0] = 0
    /\ \A f, g \in 0 .. FamilyCount : f < g => Bound[f] < Bound[g]

ASSUME LimitAssumption ==
    /\ AggregateBudget \in Nat
    /\ PersistentOosLimit \in Nat \ {0}

Total  == Bound[FamilyCount]
Row    == 0 .. Total - 1
Family == 0 .. FamilyCount - 1

RowsOf(f) == Bound[f] .. Bound[f + 1] - 1

Skipped  == {"SKIPPED_FAMILY_STOP", "SKIPPED_PER_FAMILY_BUDGET",
             "SKIPPED_AGGREGATE_BUDGET"}
RowState == {"UNATTEMPTED", "CONSUMED"} \cup Skipped
Reason   == {"PERSISTENT_OOS_FAILURE", "EXHAUSTED_GRID",
             "PER_FAMILY_BUDGET_EXHAUSTED"}
Status   == {"ACTIVE", "CAMPAIGN_EXECUTION_FAILED",
             "AGGREGATE_BUDGET_EXHAUSTED", "COMPLETE"}
None     == "None"

VARIABLES
    row_states, consumption_ordinals,  \* per row; ordinal 0 stands for None
    consumed,                          \* phase4_new_trials_consumed
    traversal_cursor, active_family_index, oos_streak,
    campaign_status, campaign_terminated, last_family_reason,
    outcome   \* history: what was recorded for each row, in no code state

ledger == <<row_states, consumption_ordinals, consumed>>
place  == <<traversal_cursor, active_family_index, oos_streak>>
ending == <<campaign_status, campaign_terminated, last_family_reason>>
vars   == <<ledger, place, ending, outcome>>

\* phase4_new_trials_remaining and next_consumption_ordinal are functions of
\* the counter in every state (validate_budget_state requires it).
Remaining == AggregateBudget - consumed

PositionAsOrdinal == traversal_cursor + 1  \* mutant: ordinals follow positions
NextOrdinal == consumed + 1

Init ==  \* from_authority
    /\ row_states = [r \in Row |-> "UNATTEMPTED"]
    /\ consumption_ordinals = [r \in Row |-> 0]
    /\ consumed = 0
    /\ traversal_cursor = 0
    /\ active_family_index = 0
    /\ oos_streak = 0
    /\ campaign_status = "ACTIVE"
    /\ campaign_terminated = FALSE
    /\ last_family_reason = None
    /\ outcome = [r \in Row |-> None]

-----------------------------------------------------------------------------
Active == campaign_status = "ACTIVE"

\* consume_current on a trial that is already consumed: a lookup, allowed in
\* every campaign status and at every cursor.
LookupConsumed(t) ==
    /\ row_states[t] = "CONSUMED"
    /\ UNCHANGED vars

\* Mutants of ConsumeCurrent: a started trial consumed again, and a trial
\* started without looking at the campaign status.
ConsumeTwice(t) ==
    /\ Active
    /\ t = traversal_cursor
    /\ Remaining # 0
    /\ row_states' = [row_states EXCEPT ![t] = "CONSUMED"]
    /\ consumption_ordinals' = [consumption_ordinals EXCEPT ![t] = NextOrdinal]
    /\ consumed' = consumed + 1
    /\ UNCHANGED <<place, ending, outcome>>

ConsumeAnyStatus(t) ==
    /\ t = traversal_cursor
    /\ row_states[t] # "CONSUMED"
    /\ Remaining # 0
    /\ row_states' = [row_states EXCEPT ![t] = "CONSUMED"]
    /\ consumption_ordinals' = [consumption_ordinals EXCEPT ![t] = NextOrdinal]
    /\ consumed' = consumed + 1
    /\ UNCHANGED <<place, ending, outcome>>

\* consume_current on the trial under the cursor, with budget left.
ConsumeCurrent(t) ==
    /\ Active
    /\ t = traversal_cursor
    /\ row_states[t] # "CONSUMED"
    /\ Remaining # 0
    /\ row_states' = [row_states EXCEPT ![t] = "CONSUMED"]
    /\ consumption_ordinals' = [consumption_ordinals EXCEPT ![t] = NextOrdinal]
    /\ consumed' = consumed + 1
    /\ UNCHANGED <<place, ending, outcome>>

\* consume_current with nothing left: _exhaust_aggregate_budget.
ExhaustAggregateBudget(t) ==
    /\ Active
    /\ t = traversal_cursor
    /\ row_states[t] # "CONSUMED"
    /\ Remaining = 0
    /\ row_states' = [r \in Row |->
           IF row_states[r] = "UNATTEMPTED" THEN "SKIPPED_AGGREGATE_BUDGET"
                                            ELSE row_states[r]]
    /\ traversal_cursor' = Total
    /\ active_family_index' = FamilyCount
    /\ oos_streak' = 0
    /\ campaign_status' = "AGGREGATE_BUDGET_EXHAUSTED"
    /\ campaign_terminated' = TRUE
    /\ UNCHANGED <<consumption_ordinals, consumed, last_family_reason, outcome>>

\* Mutants of LeaveFamily: only one row forward, and the streak carried over.
LeaveFamilyByOneRow(reason) ==
    /\ traversal_cursor' = traversal_cursor + 1
    /\ active_family_index' = active_family_index + 1
    /\ oos_streak' = 0
    /\ last_family_reason' = reason
    /\ campaign_status' =
           IF active_family_index + 1 >= FamilyCount THEN "COMPLETE" ELSE "ACTIVE"
    /\ UNCHANGED campaign_terminated

LeaveFamilyKeepingStreak(reason) ==
    /\ traversal_cursor' = Bound[active_family_index + 1]
    /\ active_family_index' = active_family_index + 1
    /\ last_family_reason' = reason
    /\ campaign_status' =
           IF active_family_index + 1 >= FamilyCount THEN "COMPLETE" ELSE "ACTIVE"
    /\ UNCHANGED <<oos_streak, campaign_terminated>>

\* What _stop_family and _advance_past_family both do: move to the first row
\* of the next family, or complete the campaign after the last one.
LeaveFamily(reason) ==
    /\ traversal_cursor' = Bound[active_family_index + 1]
    /\ active_family_index' = active_family_index + 1
    /\ oos_streak' = 0
    /\ last_family_reason' = reason
    /\ campaign_status' =
           IF active_family_index + 1 >= FamilyCount THEN "COMPLETE" ELSE "ACTIVE"
    /\ UNCHANGED campaign_terminated

SkipRest(first, skip) ==
    row_states' = [r \in Row |->
        IF /\ r \in first .. Bound[active_family_index + 1] - 1
           /\ row_states[r] = "UNATTEMPTED"
        THEN skip ELSE row_states[r]]

\* _stop_family; include_current of the code is first = the cursor itself.
StopFamily(reason, first, skip) ==
    /\ SkipRest(first, skip)
    /\ LeaveFamily(reason)

\* _advance_past_family, which refuses a family with an unattempted row.
AdvancePastFamily ==
    /\ \A r \in RowsOf(active_family_index) : row_states[r] # "UNATTEMPTED"
    /\ LeaveFamily("EXHAUSTED_GRID")
    /\ UNCHANGED row_states

StreakBeyondLimit(streak) == streak > PersistentOosLimit  \* mutant: off by one
PersistentFailure(streak) == streak >= PersistentOosLimit

\* record_candidate_outcome: unavailable and non-positive outcomes count alike.
RecordOutcome(positive) ==
    LET streak == IF positive THEN 0 ELSE oos_streak + 1 IN
    /\ Active
    /\ row_states[traversal_cursor] = "CONSUMED"
    /\ outcome' = [outcome EXCEPT ![traversal_cursor] =
                      IF positive THEN "positive" ELSE "failed"]
    /\ \/ /\ PersistentFailure(streak)
          /\ StopFamily("PERSISTENT_OOS_FAILURE", traversal_cursor + 1,
                        "SKIPPED_FAMILY_STOP")
       \/ /\ ~PersistentFailure(streak)
          /\ traversal_cursor = Bound[active_family_index + 1] - 1
          /\ AdvancePastFamily
       \/ /\ ~PersistentFailure(streak)
          /\ traversal_cursor # Bound[active_family_index + 1] - 1
          /\ traversal_cursor' = traversal_cursor + 1
          /\ oos_streak' = streak
          /\ UNCHANGED <<row_states, active_family_index, ending>>
    /\ UNCHANGED <<consumption_ordinals, consumed>>

\* terminate_family: the explicit stop the module exposes "for completeness".
TerminateFamily(reason) ==
    /\ Active
    /\ \/ /\ reason = "PERSISTENT_OOS_FAILURE"
          /\ StopFamily(reason, traversal_cursor + 1, "SKIPPED_FAMILY_STOP")
       \/ /\ reason = "EXHAUSTED_GRID"
          /\ AdvancePastFamily
       \/ /\ reason = "PER_FAMILY_BUDGET_EXHAUSTED"
          /\ StopFamily(reason, traversal_cursor, "SKIPPED_PER_FAMILY_BUDGET")
    /\ UNCHANGED <<consumption_ordinals, consumed, outcome>>

\* fail_campaign: unconditional, also after the campaign has ended.
FailCampaign ==
    /\ campaign_status' = "CAMPAIGN_EXECUTION_FAILED"
    /\ campaign_terminated' = TRUE
    /\ UNCHANGED <<ledger, place, last_family_reason, outcome>>

Next ==
    \/ \E t \in Row : \/ LookupConsumed(t)
                      \/ ConsumeCurrent(t)
                      \/ ExhaustAggregateBudget(t)
    \/ \E positive \in BOOLEAN : RecordOutcome(positive)
    \/ \E reason \in Reason : TerminateFamily(reason)
    \/ FailCampaign

Spec == Init /\ [][Next]_vars

-----------------------------------------------------------------------------
Attempted == {r \in Row : row_states[r] = "CONSUMED"}

\* The types validate_budget_state and the field bounds of the model require,
\* with the history of recorded outcomes.
TypeOK ==
    /\ row_states \in [Row -> RowState]
    /\ consumption_ordinals \in [Row -> Nat]
    /\ consumed \in 0 .. AggregateBudget
    /\ traversal_cursor \in 0 .. Total
    /\ active_family_index \in 0 .. FamilyCount
    /\ oos_streak \in 0 .. PersistentOosLimit - 1
    /\ campaign_status \in Status
    /\ campaign_terminated \in BOOLEAN
    /\ last_family_reason \in Reason \cup {None}
    /\ outcome \in [Row -> {None, "positive", "failed"}]

\* A consumed row holds the number of rows consumed up to it in population
\* order, every other row holds no ordinal, and the counter is the number of
\* consumed rows: ordinals are dense, unique and never shifted by skipped rows
\* or stopped families.
OrdinalsCountAttempts ==
    /\ consumed = Cardinality(Attempted)
    /\ \A r \in Row :
          consumption_ordinals[r] =
             IF r \in Attempted
             THEN Cardinality({q \in Attempted : q <= r}) ELSE 0

\* While the campaign is active the cursor is inside the active family, every
\* earlier row of that family was consumed with its outcome recorded, and no
\* later row was touched: record_candidate_outcome at the end of the family
\* can therefore never meet the unattempted row that makes it raise.
ActiveFamilyInOrder ==
    Active =>
      /\ active_family_index \in Family
      /\ traversal_cursor \in RowsOf(active_family_index)
      /\ \A r \in RowsOf(active_family_index) :
            r < traversal_cursor => /\ row_states[r] = "CONSUMED"
                                    /\ outcome[r] # None
      /\ \A r \in Row : r > traversal_cursor => row_states[r] = "UNATTEMPTED"
      /\ row_states[traversal_cursor] \in {"UNATTEMPTED", "CONSUMED"}

\* The streak the persistent-failure rule reads is the number of failures
\* recorded since the last positive outcome of the active family: the streak
\* of one family never leaks into the next.
StreakIsTrailingFailures ==
    Active =>
      /\ oos_streak <= traversal_cursor - Bound[active_family_index]
      /\ \A r \in RowsOf(active_family_index) :
            /\ r \in traversal_cursor - oos_streak .. traversal_cursor - 1
                  => outcome[r] = "failed"
            /\ r = traversal_cursor - oos_streak - 1 => outcome[r] = "positive"

\* A row leaves UNATTEMPTED once and for all, and its ordinal and the outcome
\* recorded for it go with it: a consumed trial is never consumed again, a skipped
\* one never attempted, and no second outcome is ever recorded for a trial.
DecidedRowsAreFinal ==
    [][\A r \in Row : row_states[r] # "UNATTEMPTED" =>
          /\ row_states'[r] = row_states[r]
          /\ consumption_ordinals'[r] = consumption_ordinals[r]
          /\ outcome'[r] \in IF outcome[r] = None THEN {None, "positive", "failed"}
                                                 ELSE {outcome[r]}]_vars

\* Once the campaign has ended nothing is consumed, skipped or traversed any
\* more; only a system failure can still relabel the end.
EndedCampaignIsFrozen ==
    [][~Active => /\ UNCHANGED <<ledger, place, last_family_reason, outcome>>
                  /\ campaign_status' \in
                        {campaign_status, "CAMPAIGN_EXECUTION_FAILED"}]_vars

\* The design's rule for the persistent stop (and for every family stop):
\* no row of a family the traversal has left stays UNATTEMPTED.
LeftFamilyIsDecided ==
    \A f \in Family : f < active_family_index =>
        \A r \in RowsOf(f) : row_states[r] # "UNATTEMPTED"
=============================================================================
