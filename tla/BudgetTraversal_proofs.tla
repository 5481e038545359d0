---------------------- MODULE BudgetTraversal_proofs ----------------------
(***************************************************************************)
(* Proofs about the trial-budget traversal and the results of the campaign *)
(* beside it, for every number and size of families and every limit.       *)
(*                                                                         *)
(* The inductive invariant of the traversal is TypeOK together with        *)
(* ActiveFamilyInOrder: the types alone are not inductive, because the     *)
(* step to the next row stays in range only inside the active family;      *)
(* that an outcome is final needs OutcomesLieBehind beside it.  The        *)
(* campaign adds what its streak means, that no candidate is consumed      *)
(* behind a window of failures, and that outcomes are those of the results *)
(* in the store (CampaignInv).                                             *)
(***************************************************************************)
EXTENDS CampaignResults, TLAPS, FiniteSetTheorems, WellFoundedInduction

\* The family layout: bounds are naturals in increasing order, so every row of
\* a family is a row of the population and families do not overlap.
LEMMA FamilyLayout ==
    /\ Total \in Nat
    /\ FamilyCount \in Nat \ {0}
    /\ \A f \in 0 .. FamilyCount : Bound[f] \in Nat /\ Bound[f] <= Total
    /\ \A f \in Family : /\ f + 1 \in 0 .. FamilyCount
                         /\ f \in 0 .. FamilyCount
                         /\ Bound[f] < Bound[f + 1]
                         /\ RowsOf(f) \subseteq Row
<1>1. FamilyCount \in Nat \ {0}
  BY FamilyCountAssumption
<1>2. \A f \in 0 .. FamilyCount : Bound[f] \in Nat
  BY BoundAssumption
<1>3. Total \in Nat
  BY <1>1, <1>2 DEF Total
<1>4. \A f \in 0 .. FamilyCount : Bound[f] <= Total
  <2> SUFFICES ASSUME NEW f \in 0 .. FamilyCount PROVE Bound[f] <= Bound[FamilyCount]
    BY DEF Total
  <2>1. CASE f = FamilyCount
    BY <2>1, <1>1, <1>2
  <2>2. CASE f < FamilyCount
    <3>1. Bound[f] < Bound[FamilyCount]
      BY <2>2, <1>1, BoundAssumption
    <3> QED BY <3>1, <1>1, <1>2
  <2> QED BY <2>1, <2>2, <1>1
<1>5. ASSUME NEW f \in Family
      PROVE  /\ f + 1 \in 0 .. FamilyCount
             /\ f \in 0 .. FamilyCount
             /\ Bound[f] < Bound[f + 1]
             /\ RowsOf(f) \subseteq Row
  <2>1. f + 1 \in 0 .. FamilyCount /\ f \in 0 .. FamilyCount /\ f < f + 1
    BY <1>1 DEF Family
  <2>2. Bound[f] < Bound[f + 1]
    BY <2>1, BoundAssumption
  <2>3. Bound[f] \in Nat /\ Bound[f + 1] \in Nat /\ Bound[f + 1] <= Total
    BY <2>1, <1>2, <1>4
  <2> QED BY <2>1, <2>2, <2>3, <1>3 DEF RowsOf, Row
<1> QED BY <1>1, <1>2, <1>3, <1>4, <1>5

Inv == TypeOK /\ ActiveFamilyInOrder

LEMMA InitInv == Init => Inv
<1> SUFFICES ASSUME Init PROVE Inv
  OBVIOUS
<1> USE DEF Init
<1>1. 0 \in Family /\ Bound[0] = 0 /\ 0 \in RowsOf(0) /\ 0 \in Row /\ Bound[1] \in Nat
  <2>1. 0 \in Family /\ Bound[0] = 0
    BY FamilyLayout, BoundAssumption DEF Family
  <2>2. Bound[0] < Bound[0 + 1] /\ Bound[0] \in Nat /\ Bound[0 + 1] \in Nat /\ RowsOf(0) \subseteq Row
    BY <2>1, FamilyLayout
  <2>3. 0 \in RowsOf(0)
    BY <2>1, <2>2 DEF RowsOf
  <2> QED BY <2>1, <2>2, <2>3
<1>2. TypeOK
  <2>1. 0 \in 0 .. Total /\ 0 \in 0 .. FamilyCount
    BY FamilyLayout
  <2>2. 0 \in 0 .. AggregateBudget /\ 0 \in 0 .. PersistentOosLimit - 1
    BY LimitAssumption
  <2> QED BY <2>1, <2>2 DEF TypeOK, RowState, Status
<1>3. ActiveFamilyInOrder
  BY <1>1, FamilyLayout DEF ActiveFamilyInOrder, RowsOf, Row
<1> QED BY <1>2, <1>3 DEF Inv

\* Where an active campaign stands, in the form the steps use.
LEMMA ActivePlace ==
    ASSUME TypeOK, ActiveFamilyInOrder, Active
    PROVE  /\ active_family_index \in Family
           /\ traversal_cursor \in RowsOf(active_family_index)
           /\ traversal_cursor \in Row
           /\ Bound[active_family_index] \in Nat
           /\ Bound[active_family_index + 1] \in Nat
           /\ Bound[active_family_index + 1] <= Total
           /\ Bound[active_family_index] <= traversal_cursor
           /\ traversal_cursor < Bound[active_family_index + 1]
<1>1. active_family_index \in Family /\ traversal_cursor \in RowsOf(active_family_index)
  BY DEF ActiveFamilyInOrder
<1>2. /\ Bound[active_family_index] \in Nat
      /\ Bound[active_family_index + 1] \in Nat
      /\ Bound[active_family_index + 1] <= Total
      /\ RowsOf(active_family_index) \subseteq Row
  BY <1>1, FamilyLayout
<1> QED BY <1>1, <1>2 DEF RowsOf

\* Leaving a family, whatever was done to the rows of that family, lands on
\* the untouched first row of the next family or ends the campaign.
LEMMA LeaveFamilyInv ==
    ASSUME TypeOK, ActiveFamilyInOrder, Active, NEW reason \in Reason,
           LeaveFamily(reason),
           row_states' \in [Row -> RowState],
           \A r \in Row : r >= Bound[active_family_index + 1]
                             => row_states'[r] = row_states[r]
    PROVE  /\ traversal_cursor' \in 0 .. Total
           /\ active_family_index' \in 0 .. FamilyCount
           /\ oos_streak' \in 0 .. PersistentOosLimit - 1
           /\ campaign_status' \in Status
           /\ campaign_terminated' \in BOOLEAN
           /\ last_family_reason' \in Reason \cup {None}
           /\ ActiveFamilyInOrder'
<1> DEFINE n == active_family_index + 1
<1>1. n \in 0 .. FamilyCount /\ Bound[n] \in Nat /\ Bound[n] <= Total /\ traversal_cursor < Bound[n]
  BY ActivePlace, FamilyLayout
<1>2. /\ traversal_cursor' \in 0 .. Total
      /\ active_family_index' \in 0 .. FamilyCount
      /\ oos_streak' \in 0 .. PersistentOosLimit - 1
      /\ campaign_status' \in Status
      /\ campaign_terminated' \in BOOLEAN
      /\ last_family_reason' \in Reason \cup {None}
  BY <1>1, FamilyLayout, LimitAssumption DEF LeaveFamily, TypeOK, Status
<1>3. ActiveFamilyInOrder'
  <2> SUFFICES ASSUME Active'
               PROVE  /\ n \in Family
                      /\ Bound[n] \in RowsOf(n)
                      /\ \A r \in RowsOf(n) : ~(r < Bound[n])
                      /\ \A r \in Row : r > Bound[n] => row_states'[r] = "UNATTEMPTED"
                      /\ row_states'[Bound[n]] = "UNATTEMPTED"
    BY DEF ActiveFamilyInOrder, LeaveFamily
  <2>1. n \in Family
    BY <1>1, FamilyLayout DEF LeaveFamily, Active, Family
  <2>2. Bound[n + 1] \in Nat /\ Bound[n] < Bound[n + 1] /\ RowsOf(n) \subseteq Row
    BY <2>1, FamilyLayout
  <2>3. Bound[n] \in RowsOf(n) /\ \A r \in RowsOf(n) : ~(r < Bound[n])
    BY <2>2, <1>1 DEF RowsOf
  <2>4. \A r \in Row : r >= Bound[n] => row_states'[r] = "UNATTEMPTED"
    <3> SUFFICES ASSUME NEW r \in Row, r >= Bound[n] PROVE row_states'[r] = "UNATTEMPTED"
      OBVIOUS
    <3>1. r > traversal_cursor
      BY <1>1, FamilyLayout DEF Row, TypeOK
    <3>2. row_states[r] = "UNATTEMPTED"
      BY <3>1 DEF ActiveFamilyInOrder
    <3> QED BY <3>2
  <2> QED BY <2>1, <2>2, <2>3, <2>4, <1>1, FamilyLayout DEF Row
<1> QED BY <1>2, <1>3

LEMMA StopFamilyInv ==
    ASSUME TypeOK, ActiveFamilyInOrder, Active, NEW reason \in Reason,
           NEW first \in Nat, NEW skip \in Skipped, StopFamily(reason, first, skip),
           UNCHANGED consumption_ordinals, UNCHANGED consumed,
           outcome' \in [Row -> {None, "positive", "failed"}]
    PROVE  Inv'
<1>1. row_states' \in [Row -> RowState]
  BY DEF StopFamily, SkipRest, TypeOK, RowState
<1>2. \A r \in Row : r >= Bound[active_family_index + 1] => row_states'[r] = row_states[r]
  BY ActivePlace, FamilyLayout DEF StopFamily, SkipRest, Row
<1>3. LeaveFamily(reason)
  BY DEF StopFamily
<1> QED BY <1>1, <1>2, <1>3, LeaveFamilyInv DEF Inv, TypeOK

LEMMA AdvancePastFamilyInv ==
    ASSUME TypeOK, ActiveFamilyInOrder, Active, AdvancePastFamily,
           UNCHANGED consumption_ordinals, UNCHANGED consumed,
           outcome' \in [Row -> {None, "positive", "failed"}]
    PROVE  Inv'
<1>1. LeaveFamily("EXHAUSTED_GRID") /\ row_states' = row_states
  BY DEF AdvancePastFamily
<1>2. "EXHAUSTED_GRID" \in Reason
  BY DEF Reason
<1> QED BY <1>1, <1>2, LeaveFamilyInv DEF Inv, TypeOK

LEMMA NextInv == Inv /\ [Next]_vars => Inv'
<1> SUFFICES ASSUME TypeOK, ActiveFamilyInOrder, [Next]_vars PROVE Inv'
  BY DEF Inv
<1>1. CASE UNCHANGED vars
  BY <1>1 DEF vars, ledger, place, ending, Inv, TypeOK, ActiveFamilyInOrder, Active
<1>2. ASSUME NEW t \in Row, LookupConsumed(t) PROVE Inv'
  BY <1>1, <1>2 DEF LookupConsumed
<1>3. ASSUME NEW t \in Row, ConsumeCurrent(t) PROVE Inv'
  <2>0. Active /\ t = traversal_cursor
    BY <1>3 DEF ConsumeCurrent
  <2>1. TypeOK'
    BY <1>3, <2>0, FamilyLayout, LimitAssumption
    DEF ConsumeCurrent, TypeOK, RowState, place, ending, Remaining, NextOrdinal
  <2>2. ActiveFamilyInOrder'
    <3>1. row_states' = [row_states EXCEPT ![t] = "CONSUMED"] /\ UNCHANGED <<place, ending, outcome>>
      BY <1>3 DEF ConsumeCurrent
    <3>2. \A r \in Row : r > t => row_states'[r] = row_states[r]
      BY <3>1, FamilyLayout DEF TypeOK, Row
    <3>3. \A r \in RowsOf(active_family_index) : r < t => row_states'[r] = row_states[r]
      BY <3>1, <2>0, ActivePlace, FamilyLayout DEF TypeOK, Row
    <3>4. row_states'[t] = "CONSUMED"
      BY <3>1 DEF TypeOK
    <3> QED BY <3>1, <3>2, <3>3, <3>4, <2>0 DEF ActiveFamilyInOrder, place, ending
  <2> QED BY <2>1, <2>2 DEF Inv
<1>4. ASSUME NEW t \in Row, ExhaustAggregateBudget(t) PROVE Inv'
  <2>1. TypeOK'
    BY <1>4, FamilyLayout, LimitAssumption
    DEF ExhaustAggregateBudget, TypeOK, RowState, Skipped, Status
  <2>2. ActiveFamilyInOrder'
    BY <1>4 DEF ExhaustAggregateBudget, ActiveFamilyInOrder, Active
  <2> QED BY <2>1, <2>2 DEF Inv
<1>5. ASSUME NEW positive \in BOOLEAN, RecordOutcome(positive) PROVE Inv'
  <2> DEFINE streak == IF positive THEN 0 ELSE oos_streak + 1
  <2>0. /\ Active
        /\ row_states[traversal_cursor] = "CONSUMED"
        /\ outcome' = [outcome EXCEPT ![traversal_cursor] =
                          IF positive THEN "positive" ELSE "failed"]
        /\ UNCHANGED <<consumption_ordinals, consumed>>
    BY <1>5 DEF RecordOutcome
  <2>p. /\ active_family_index \in Family
        /\ traversal_cursor \in RowsOf(active_family_index)
        /\ traversal_cursor \in Row
        /\ Bound[active_family_index] \in Nat
        /\ Bound[active_family_index + 1] \in Nat
        /\ Bound[active_family_index + 1] <= Total
        /\ Bound[active_family_index] <= traversal_cursor
        /\ traversal_cursor < Bound[active_family_index + 1]
        /\ RowsOf(active_family_index) \subseteq Row
    BY <2>0, ActivePlace, FamilyLayout
  <2>1. outcome' \in [Row -> {None, "positive", "failed"}]
    BY <2>0 DEF TypeOK
  <2>2. CASE StopFamily("PERSISTENT_OOS_FAILURE", traversal_cursor + 1, "SKIPPED_FAMILY_STOP")
    <3>1. traversal_cursor + 1 \in Nat
      BY DEF TypeOK
    <3> QED BY <2>2, <2>0, <2>1, <3>1, StopFamilyInv DEF Skipped, Reason
  <2>3. CASE AdvancePastFamily
    BY <2>3, <2>0, <2>1, AdvancePastFamilyInv
  <2>4. CASE /\ ~PersistentFailure(streak)
             /\ traversal_cursor # Bound[active_family_index + 1] - 1
             /\ traversal_cursor' = traversal_cursor + 1
             /\ oos_streak' = streak
             /\ UNCHANGED <<row_states, active_family_index, ending>>
    <3>1. traversal_cursor + 1 \in RowsOf(active_family_index)
      BY <2>4, <2>p DEF RowsOf
    <3>2. TypeOK'
      <4>1. streak \in 0 .. PersistentOosLimit - 1
        <5>1. streak \in Nat
          BY DEF TypeOK
        <5> QED BY <5>1, <2>4, LimitAssumption DEF PersistentFailure
      <4>2. traversal_cursor' \in 0 .. Total
        <5>1. traversal_cursor \in Nat
          BY DEF TypeOK
        <5> HIDE DEF streak
        <5> QED BY <5>1, <2>4, <2>p, FamilyLayout
      <4> QED BY <4>1, <4>2, <2>4, <2>0, <2>1 DEF TypeOK, ending
    <3>3. ActiveFamilyInOrder'
      <4>1. row_states[traversal_cursor + 1] = "UNATTEMPTED"
        BY <3>1, <2>0, <2>p, FamilyLayout DEF ActiveFamilyInOrder, Row
      <4>2. \A r \in Row : r > traversal_cursor + 1 => row_states[r] = "UNATTEMPTED"
        BY <2>0, <2>p, FamilyLayout DEF ActiveFamilyInOrder, Row
      <4>3. ASSUME NEW r \in RowsOf(active_family_index), r < traversal_cursor + 1
            PROVE  row_states[r] = "CONSUMED" /\ outcome'[r] # None
        <5>1. CASE r = traversal_cursor
          BY <5>1, <2>0, <2>p DEF TypeOK, None
        <5>2. CASE r < traversal_cursor
          BY <5>2, <2>0, <2>p DEF TypeOK, ActiveFamilyInOrder
        <5> QED BY <5>1, <5>2, <4>3, <2>p DEF RowsOf
      <4> QED BY <4>1, <4>2, <4>3, <3>1, <2>4, <2>p DEF ActiveFamilyInOrder
    <3> QED BY <3>2, <3>3 DEF Inv
  <2>5. \/ StopFamily("PERSISTENT_OOS_FAILURE", traversal_cursor + 1, "SKIPPED_FAMILY_STOP")
        \/ AdvancePastFamily
        \/ /\ ~PersistentFailure(streak)
           /\ traversal_cursor # Bound[active_family_index + 1] - 1
           /\ traversal_cursor' = traversal_cursor + 1
           /\ oos_streak' = streak
           /\ UNCHANGED <<row_states, active_family_index, ending>>
    BY <1>5, Zenon DEF RecordOutcome
  <2> QED BY <2>2, <2>3, <2>4, <2>5
<1>6. ASSUME NEW reason \in Reason, TerminateFamily(reason) PROVE Inv'
  <2>0. Active /\ UNCHANGED consumption_ordinals /\ UNCHANGED consumed /\ UNCHANGED outcome
    BY <1>6 DEF TerminateFamily
  <2>1. outcome' \in [Row -> {None, "positive", "failed"}] /\ traversal_cursor \in Nat
    BY <2>0 DEF TypeOK
  <2>2. CASE StopFamily(reason, traversal_cursor + 1, "SKIPPED_FAMILY_STOP")
    BY <2>2, <2>0, <2>1, StopFamilyInv DEF Skipped
  <2>3. CASE AdvancePastFamily
    BY <2>3, <2>0, <2>1, AdvancePastFamilyInv
  <2>4. CASE StopFamily(reason, traversal_cursor, "SKIPPED_PER_FAMILY_BUDGET")
    BY <2>4, <2>0, <2>1, StopFamilyInv DEF Skipped
  <2> QED BY <1>6, <2>2, <2>3, <2>4 DEF TerminateFamily
<1>7. CASE FailCampaign
  BY <1>7 DEF FailCampaign, Inv, TypeOK, ActiveFamilyInOrder, Active, ledger, place, Status
<1> QED BY <1>1, <1>2, <1>3, <1>4, <1>5, <1>6, <1>7 DEF Next

\* Every reachable traversal state has the types and the in-order shape.
THEOREM InvCorrect == Spec => []Inv
BY InitInv, NextInv, PTL DEF Spec

\* The bounds of the code's own validator hold after every call, so that
\* model_copy, which skips that validator, never builds an invalid state.
THEOREM TypeCorrect == Spec => []TypeOK
<1>1. Inv => TypeOK
  BY DEF Inv
<1> QED BY <1>1, InvCorrect, PTL

\* The traversal is in population order inside the active family, with no
\* gap behind the cursor and nothing touched ahead of it.
THEOREM InOrder == Spec => []ActiveFamilyInOrder
<1>1. Inv => ActiveFamilyInOrder
  BY DEF Inv
<1> QED BY <1>1, InvCorrect, PTL

-----------------------------------------------------------------------------
\* A step that only turns unattempted rows into skipped ones and leaves the
\* ordinals and the counter alone keeps the count.
LEMMA SkippingKeepsCount ==
    ASSUME TypeOK, OrdinalsCountAttempts,
           UNCHANGED consumption_ordinals, UNCHANGED consumed,
           \A r \in Row : row_states'[r] = "CONSUMED" <=> row_states[r] = "CONSUMED"
    PROVE  OrdinalsCountAttempts'
<1>1. Attempted' = Attempted
  BY DEF Attempted
<1> QED BY <1>1 DEF OrdinalsCountAttempts

LEMMA SkipRestKeepsAttempts ==
    ASSUME NEW first, NEW skip \in Skipped, SkipRest(first, skip)
    PROVE  \A r \in Row : row_states'[r] = "CONSUMED" <=> row_states[r] = "CONSUMED"
BY DEF SkipRest, Skipped

\* Consuming the row under the cursor appends it to the population-ordered
\* attempts: no attempted row lies beyond it.
LEMMA ConsumeKeepsCount ==
    ASSUME TypeOK, ActiveFamilyInOrder, OrdinalsCountAttempts,
           NEW t \in Row, ConsumeCurrent(t)
    PROVE  OrdinalsCountAttempts'
<1>0. /\ Active /\ t = traversal_cursor /\ t \notin Attempted
      /\ row_states' = [row_states EXCEPT ![t] = "CONSUMED"]
      /\ consumption_ordinals' = [consumption_ordinals EXCEPT ![t] = consumed + 1]
      /\ consumed' = consumed + 1
  BY DEF ConsumeCurrent, NextOrdinal, Attempted
<1>1. Attempted' = Attempted \cup {t}
  BY <1>0 DEF Attempted, TypeOK
<1>2. \A q \in Attempted : q \in Row /\ q < t
  <2> SUFFICES ASSUME NEW q \in Attempted PROVE q \in Row /\ q < t
    OBVIOUS
  <2>1. q \in Row /\ q # t /\ ~(q > t)
    BY <1>0 DEF Attempted, ActiveFamilyInOrder
  <2> QED BY <2>1, FamilyLayout DEF Row
<1>3. IsFiniteSet(Attempted)
  <2>1. IsFiniteSet(Row)
    BY FS_Interval, FamilyLayout DEF Row
  <2> QED BY <2>1, FS_Subset DEF Attempted
<1>4. Cardinality(Attempted') = consumed + 1
  BY <1>0, <1>1, <1>3, FS_AddElement DEF OrdinalsCountAttempts
<1>5. ASSUME NEW r \in Row
      PROVE  consumption_ordinals'[r] =
                IF r \in Attempted'
                THEN Cardinality({q \in Attempted' : q <= r}) ELSE 0
  <2>1. CASE r = t
    <3>1. {q \in Attempted' : q <= t} = Attempted'
      BY <1>1, <1>2, FamilyLayout DEF Row
    <3> QED BY <2>1, <3>1, <1>0, <1>1, <1>4 DEF TypeOK
  <2>2. CASE r # t
    <3>1. consumption_ordinals'[r] = consumption_ordinals[r] /\ (r \in Attempted' <=> r \in Attempted)
      BY <2>2, <1>0, <1>1 DEF TypeOK
    <3>2. r \in Attempted => {q \in Attempted' : q <= r} = {q \in Attempted : q <= r}
      BY <2>2, <1>1, <1>2, FamilyLayout DEF Row
    <3> QED BY <3>1, <3>2 DEF OrdinalsCountAttempts
  <2> QED BY <2>1, <2>2
<1> QED BY <1>0, <1>4, <1>5 DEF OrdinalsCountAttempts

LEMMA NextCounts == Inv /\ OrdinalsCountAttempts /\ [Next]_vars => OrdinalsCountAttempts'
<1> SUFFICES ASSUME TypeOK, ActiveFamilyInOrder, OrdinalsCountAttempts, [Next]_vars
             PROVE  OrdinalsCountAttempts'
  BY DEF Inv
<1>1. CASE UNCHANGED vars
  BY <1>1, SkippingKeepsCount DEF vars, ledger
<1>2. ASSUME NEW t \in Row, LookupConsumed(t) PROVE OrdinalsCountAttempts'
  BY <1>1, <1>2 DEF LookupConsumed
<1>3. ASSUME NEW t \in Row, ConsumeCurrent(t) PROVE OrdinalsCountAttempts'
  BY <1>3, ConsumeKeepsCount
<1>4. ASSUME NEW t \in Row, ExhaustAggregateBudget(t) PROVE OrdinalsCountAttempts'
  BY <1>4, SkippingKeepsCount DEF ExhaustAggregateBudget
<1>5. ASSUME NEW positive \in BOOLEAN, RecordOutcome(positive) PROVE OrdinalsCountAttempts'
  <2>1. UNCHANGED consumption_ordinals /\ UNCHANGED consumed
    BY <1>5 DEF RecordOutcome
  <2>2. \/ SkipRest(traversal_cursor + 1, "SKIPPED_FAMILY_STOP")
        \/ UNCHANGED row_states
    BY <1>5, Zenon DEF RecordOutcome, StopFamily, AdvancePastFamily
  <2>3. \A r \in Row : row_states'[r] = "CONSUMED" <=> row_states[r] = "CONSUMED"
    BY <2>2, SkipRestKeepsAttempts DEF Skipped
  <2> QED BY <2>1, <2>3, SkippingKeepsCount
<1>6. ASSUME NEW reason \in Reason, TerminateFamily(reason) PROVE OrdinalsCountAttempts'
  <2>1. UNCHANGED consumption_ordinals /\ UNCHANGED consumed
    BY <1>6 DEF TerminateFamily
  <2>2. \/ SkipRest(traversal_cursor + 1, "SKIPPED_FAMILY_STOP")
        \/ SkipRest(traversal_cursor, "SKIPPED_PER_FAMILY_BUDGET")
        \/ UNCHANGED row_states
    BY <1>6, Zenon DEF TerminateFamily, StopFamily, AdvancePastFamily
  <2>3. \A r \in Row : row_states'[r] = "CONSUMED" <=> row_states[r] = "CONSUMED"
    BY <2>2, SkipRestKeepsAttempts DEF Skipped
  <2> QED BY <2>1, <2>3, SkippingKeepsCount
<1>7. CASE FailCampaign
  BY <1>7, SkippingKeepsCount DEF FailCampaign, ledger
<1> QED BY <1>1, <1>2, <1>3, <1>4, <1>5, <1>6, <1>7 DEF Next

\* Consumption ordinals are dense, unique and in population order, and the
\* counter is their number, whatever was skipped or stopped on the way.
THEOREM OrdinalsCorrect == Spec => []OrdinalsCountAttempts
<1>1. Init => OrdinalsCountAttempts
  <2> SUFFICES ASSUME Init PROVE OrdinalsCountAttempts
    OBVIOUS
  <2>1. Attempted = {}
    BY DEF Init, Attempted
  <2> QED BY <2>1, FS_EmptySet DEF OrdinalsCountAttempts, Init
<1> QED BY <1>1, NextCounts, InvCorrect, PTL DEF Spec

\* No outcome is recorded at the cursor of an active campaign or ahead of it.
OutcomesLieBehind ==
    Active => \A r \in Row : r >= traversal_cursor => outcome[r] = None

\* Leaving a family moves the cursor beyond the row it was on.
LEMMA LeavingMovesOn ==
    ASSUME Inv, Active, NEW reason, LeaveFamily(reason)
    PROVE  traversal_cursor' \in Nat /\ traversal_cursor < traversal_cursor'
  BY ActivePlace DEF Inv, LeaveFamily, TypeOK

\* Behind a cursor that has moved on, the outcomes of the rows ahead are untouched.
LEMMA OutcomesStayBehind ==
    ASSUME Inv, OutcomesLieBehind, Active,
           traversal_cursor' \in Nat, traversal_cursor < traversal_cursor',
           \A r \in Row : r # traversal_cursor => outcome'[r] = outcome[r]
    PROVE  OutcomesLieBehind'
<1> SUFFICES ASSUME NEW r \in Row, r >= traversal_cursor' PROVE outcome'[r] = None
  BY DEF OutcomesLieBehind
<1>1. r # traversal_cursor /\ r >= traversal_cursor
  BY FamilyLayout DEF Row, Inv, TypeOK
<1> QED BY <1>1 DEF OutcomesLieBehind

\* Recording an outcome and ending a family, the steps that move the cursor, move it
\* beyond the row it was on.
LEMMA NextOutcomesBehind == Inv /\ OutcomesLieBehind /\ [Next]_vars => OutcomesLieBehind'
<1> SUFFICES ASSUME Inv, OutcomesLieBehind, [Next]_vars PROVE OutcomesLieBehind'
  OBVIOUS
<1>1. CASE UNCHANGED vars
  BY <1>1 DEF vars, place, ending, OutcomesLieBehind, Active
<1>2. ASSUME NEW t \in Row, LookupConsumed(t) PROVE OutcomesLieBehind'
  BY <1>1, <1>2 DEF LookupConsumed
<1>3. ASSUME NEW t \in Row, ConsumeCurrent(t) PROVE OutcomesLieBehind'
  BY <1>3 DEF ConsumeCurrent, place, ending, OutcomesLieBehind, Active
<1>4. ASSUME NEW t \in Row, ExhaustAggregateBudget(t) PROVE OutcomesLieBehind'
  BY <1>4 DEF ExhaustAggregateBudget, OutcomesLieBehind, Active
<1>5. ASSUME NEW positive \in BOOLEAN, RecordOutcome(positive) PROVE OutcomesLieBehind'
  <2>1. Active /\ \A r \in Row : r # traversal_cursor => outcome'[r] = outcome[r]
    BY <1>5 DEF RecordOutcome, Inv, TypeOK
  <2>2. \/ \E reason : LeaveFamily(reason)
        \/ traversal_cursor' = traversal_cursor + 1
    BY <1>5, Zenon DEF RecordOutcome, StopFamily, AdvancePastFamily
  <2>3. traversal_cursor' \in Nat /\ traversal_cursor < traversal_cursor'
    BY <2>1, <2>2, LeavingMovesOn DEF Inv, TypeOK
  <2> QED BY <2>1, <2>3, OutcomesStayBehind
<1>6. ASSUME NEW reason \in Reason, TerminateFamily(reason) PROVE OutcomesLieBehind'
  <2>1. Active /\ UNCHANGED outcome /\ \E why : LeaveFamily(why)
    BY <1>6, Zenon DEF TerminateFamily, StopFamily, AdvancePastFamily
  <2> QED BY <2>1, LeavingMovesOn, OutcomesStayBehind
<1>7. CASE FailCampaign
  BY <1>7 DEF FailCampaign, OutcomesLieBehind, Active
<1> QED BY <1>1, <1>2, <1>3, <1>4, <1>5, <1>6, <1>7 DEF Next

\* What a step leaves of a decided row.
RowIsFinal(r) ==
    row_states[r] # "UNATTEMPTED" =>
        /\ row_states'[r] = row_states[r]
        /\ consumption_ordinals'[r] = consumption_ordinals[r]
        /\ outcome'[r] \in IF outcome[r] = None THEN {None, "positive", "failed"}
                                               ELSE {outcome[r]}

\* A decided row never changes again, and neither do its ordinal and its outcome.
THEOREM DecidedFinal == Spec => DecidedRowsAreFinal
<1>1. Init => OutcomesLieBehind
  BY DEF Init, OutcomesLieBehind
<1>2. Inv /\ OutcomesLieBehind /\ Inv' /\ [Next]_vars => [\A r \in Row : RowIsFinal(r)]_vars
  <2> SUFFICES ASSUME TypeOK, ActiveFamilyInOrder, OutcomesLieBehind, TypeOK', Next,
                      NEW r \in Row, row_states[r] # "UNATTEMPTED"
               PROVE  /\ row_states'[r] = row_states[r]
                      /\ consumption_ordinals'[r] = consumption_ordinals[r]
                      /\ outcome[r] # None => outcome'[r] = outcome[r]
    BY DEF Inv, RowIsFinal, TypeOK
  <2>1. ASSUME NEW t \in Row, ConsumeCurrent(t)
        PROVE  /\ row_states'[r] = row_states[r]
               /\ consumption_ordinals'[r] = consumption_ordinals[r]
               /\ outcome' = outcome
    <3>1. row_states[t] = "UNATTEMPTED"
      BY <2>1 DEF ConsumeCurrent, ActiveFamilyInOrder
    <3> QED BY <3>1, <2>1 DEF ConsumeCurrent, TypeOK
  <2>2. ASSUME NEW positive \in BOOLEAN, RecordOutcome(positive)
        PROVE  /\ row_states'[r] = row_states[r]
               /\ consumption_ordinals'[r] = consumption_ordinals[r]
               /\ outcome[r] # None => outcome'[r] = outcome[r]
    <3>1. \/ SkipRest(traversal_cursor + 1, "SKIPPED_FAMILY_STOP")
          \/ UNCHANGED row_states
      BY <2>2, Zenon DEF RecordOutcome, StopFamily, AdvancePastFamily
    <3>2. outcome[traversal_cursor] = None
      BY <2>2, ActivePlace, FamilyLayout DEF RecordOutcome, OutcomesLieBehind, Row
    <3> QED BY <3>1, <3>2, <2>2 DEF SkipRest, RecordOutcome, TypeOK
  <2>3. ASSUME NEW reason \in Reason, TerminateFamily(reason)
        PROVE  /\ row_states'[r] = row_states[r]
               /\ consumption_ordinals'[r] = consumption_ordinals[r]
               /\ outcome' = outcome
    <3>1. \/ SkipRest(traversal_cursor + 1, "SKIPPED_FAMILY_STOP")
          \/ SkipRest(traversal_cursor, "SKIPPED_PER_FAMILY_BUDGET")
          \/ UNCHANGED row_states
      BY <2>3, Zenon DEF TerminateFamily, StopFamily, AdvancePastFamily
    <3> QED BY <3>1, <2>3 DEF SkipRest, TerminateFamily
  <2> QED BY <2>1, <2>2, <2>3 DEF Next, LookupConsumed, ExhaustAggregateBudget,
                                  FailCampaign, vars, ledger
<1> QED BY <1>1, <1>2, NextOutcomesBehind, InvCorrect, PTL
           DEF Spec, DecidedRowsAreFinal, RowIsFinal

\* After the end of the campaign only the label of the end can change.
THEOREM EndFrozen == Spec => EndedCampaignIsFrozen
<1>1. [Next]_vars => [~Active => /\ UNCHANGED <<ledger, place, last_family_reason, outcome>>
                                 /\ campaign_status' \in
                                       {campaign_status, "CAMPAIGN_EXECUTION_FAILED"}]_vars
  BY DEF Next, LookupConsumed, ConsumeCurrent, ExhaustAggregateBudget, RecordOutcome,
         TerminateFamily, FailCampaign, vars, ending
<1> QED BY <1>1, PTL DEF Spec, EndedCampaignIsFrozen

-----------------------------------------------------------------------------
(* The streak the persistent stop reads, and what its limit makes of it. *)

\* A step that leaves the family leaves no streak behind.
LEMMA LeavingResetsStreak ==
    ASSUME TypeOK, ActiveFamilyInOrder, Active, NEW reason, LeaveFamily(reason)
    PROVE  StreakIsTrailingFailures'
<1> DEFINE n == active_family_index + 1
<1>1. /\ active_family_index' = n /\ traversal_cursor' = Bound[n] /\ oos_streak' = 0
      /\ campaign_status' = IF n >= FamilyCount THEN "COMPLETE" ELSE "ACTIVE"
  BY DEF LeaveFamily
<1>2. n \in 0 .. FamilyCount /\ Bound[n] \in Nat
  BY ActivePlace, FamilyLayout
<1> SUFFICES ASSUME Active' PROVE StreakIsTrailingFailures'
  BY DEF StreakIsTrailingFailures
<1>3. n \in Family
  BY <1>1, <1>2, FamilyLayout DEF Active, Family
<1>4. Bound[n + 1] \in Nat /\ \A r \in RowsOf(n) : r \in Int /\ r >= Bound[n]
  BY <1>2, <1>3, FamilyLayout DEF RowsOf
<1>5. \A r \in RowsOf(n) : r \notin Bound[n] .. Bound[n] - 1 /\ r # Bound[n] - 1
  BY <1>2, <1>4
<1> HIDE DEF n
<1> QED BY <1>1, <1>2, <1>5 DEF StreakIsTrailingFailures

LEMMA StreakStep ==
    ASSUME TypeOK, ActiveFamilyInOrder, StreakIsTrailingFailures, [Next]_vars
    PROVE  StreakIsTrailingFailures'
<1>1. CASE UNCHANGED vars
  BY <1>1 DEF vars, ledger, place, ending, StreakIsTrailingFailures, Active
<1>2. ASSUME NEW t \in Row, LookupConsumed(t) PROVE StreakIsTrailingFailures'
  BY <1>1, <1>2 DEF LookupConsumed
<1>3. ASSUME NEW t \in Row, ConsumeCurrent(t) PROVE StreakIsTrailingFailures'
  BY <1>3 DEF ConsumeCurrent, place, ending, StreakIsTrailingFailures, Active
<1>4. ASSUME NEW t \in Row, ExhaustAggregateBudget(t) PROVE StreakIsTrailingFailures'
  BY <1>4 DEF ExhaustAggregateBudget, StreakIsTrailingFailures, Active
<1>5. ASSUME NEW positive \in BOOLEAN, RecordOutcome(positive) PROVE StreakIsTrailingFailures'
  <2> DEFINE streak == IF positive THEN 0 ELSE oos_streak + 1
             recorded == IF positive THEN "positive" ELSE "failed"
  <2>1. Active /\ outcome' = [outcome EXCEPT ![traversal_cursor] = recorded]
    BY <1>5 DEF RecordOutcome
  <2>2. CASE StopFamily("PERSISTENT_OOS_FAILURE", traversal_cursor + 1, "SKIPPED_FAMILY_STOP")
    BY <2>1, <2>2, LeavingResetsStreak DEF StopFamily
  <2>3. CASE AdvancePastFamily
    BY <2>1, <2>3, LeavingResetsStreak DEF AdvancePastFamily
  <2>4. CASE /\ traversal_cursor' = traversal_cursor + 1
             /\ oos_streak' = streak
             /\ UNCHANGED <<row_states, active_family_index, ending>>
    <3>1. /\ active_family_index' = active_family_index /\ active_family_index \in Family
          /\ traversal_cursor \in Nat /\ Bound[active_family_index] \in Nat
          /\ Bound[active_family_index] <= traversal_cursor
          /\ traversal_cursor \in Row /\ oos_streak \in Nat
      BY <2>1, <2>4, ActivePlace DEF TypeOK
    <3>2. /\ oos_streak <= traversal_cursor - Bound[active_family_index]
          /\ \A r \in RowsOf(active_family_index) :
                /\ r \in traversal_cursor - oos_streak .. traversal_cursor - 1
                      => outcome[r] = "failed"
                /\ r = traversal_cursor - oos_streak - 1 => outcome[r] = "positive"
      BY <2>1 DEF StreakIsTrailingFailures
    <3>3. outcome'[traversal_cursor] = recorded
      BY <2>1, <3>1 DEF TypeOK
    <3>4. \A r \in RowsOf(active_family_index) : /\ r \in Int
                                                 /\ r # traversal_cursor => outcome'[r] = outcome[r]
      BY <2>1, <3>1, FamilyLayout DEF TypeOK, Row
    <3>5. ASSUME NEW r \in RowsOf(active_family_index)
          PROVE  /\ r \in traversal_cursor' - oos_streak' .. traversal_cursor' - 1
                       => outcome'[r] = "failed"
                 /\ r = traversal_cursor' - oos_streak' - 1 => outcome'[r] = "positive"
      <4>1. CASE positive
        BY <4>1, <2>4, <3>1, <3>3, <3>4
      <4>2. CASE ~positive
        <5>1. CASE r = traversal_cursor
          BY <4>2, <5>1, <2>4, <3>1, <3>3
        <5>2. CASE r # traversal_cursor
          BY <4>2, <5>2, <2>4, <3>1, <3>2, <3>4
        <5> QED BY <5>1, <5>2
      <4> QED BY <4>1, <4>2
    <3>6. oos_streak' <= traversal_cursor' - Bound[active_family_index]
      BY <2>4, <3>1, <3>2
    <3> QED BY <3>1, <3>5, <3>6 DEF StreakIsTrailingFailures
  <2>5. \/ StopFamily("PERSISTENT_OOS_FAILURE", traversal_cursor + 1, "SKIPPED_FAMILY_STOP")
        \/ AdvancePastFamily
        \/ /\ traversal_cursor' = traversal_cursor + 1
           /\ oos_streak' = streak
           /\ UNCHANGED <<row_states, active_family_index, ending>>
    BY <1>5, Zenon DEF RecordOutcome
  <2> QED BY <2>2, <2>3, <2>4, <2>5
<1>6. ASSUME NEW reason \in Reason, TerminateFamily(reason) PROVE StreakIsTrailingFailures'
  <2>1. Active /\ \E why \in Reason : LeaveFamily(why)
    BY <1>6 DEF TerminateFamily, StopFamily, AdvancePastFamily, Reason
  <2> QED BY <2>1, LeavingResetsStreak
<1>7. CASE FailCampaign
  BY <1>7 DEF FailCampaign, StreakIsTrailingFailures, Active
<1> QED BY <1>1, <1>2, <1>3, <1>4, <1>5, <1>6, <1>7 DEF Next

LEMMA InitStreak == Init => StreakIsTrailingFailures
<1> SUFFICES ASSUME Init PROVE StreakIsTrailingFailures
  OBVIOUS
<1>1. 0 \in Family /\ Bound[0] = 0
  BY FamilyLayout, BoundAssumption DEF Family
<1>2. \A r \in RowsOf(0) : r \in Nat
  BY <1>1, FamilyLayout DEF Row
<1> QED BY <1>1, <1>2 DEF Init, StreakIsTrailingFailures

\* The streak counts the failures since the last positive outcome of the active
\* family and of no other, however families were left (budget.py 103-119).
THEOREM StreakCorrect == Spec => []StreakIsTrailingFailures
<1>1. Inv /\ StreakIsTrailingFailures /\ [Next]_vars => StreakIsTrailingFailures'
  BY StreakStep DEF Inv
<1> QED BY <1>1, InitStreak, InvCorrect, PTL DEF Spec

\* What the limit makes of the streak: no candidate is consumed after a window of
\* the limit's length in its family that holds no positive outcome.
FailedWindowsEndFamilies ==
    \A f \in Family : \A p, t \in RowsOf(f) :
        (row_states[p] = "CONSUMED" /\ t < p /\ Window(t) \subseteq RowsOf(f))
            => \E r \in Window(t) : outcome[r] = "positive"

\* A step that consumes nothing and writes the outcome of the cursor at most.
LEMMA NothingConsumed ==
    ASSUME TypeOK, ActiveFamilyInOrder, FailedWindowsEndFamilies,
           \A r \in Row : row_states'[r] = "CONSUMED" => row_states[r] = "CONSUMED",
           UNCHANGED outcome \/ (Active /\ \A r \in Row \ {traversal_cursor} : outcome'[r] = outcome[r])
    PROVE  FailedWindowsEndFamilies'
<1> SUFFICES ASSUME NEW f \in Family, NEW p \in RowsOf(f), NEW t \in RowsOf(f),
                    row_states'[p] = "CONSUMED", t < p, Window(t) \subseteq RowsOf(f)
             PROVE  \E r \in Window(t) : outcome'[r] = "positive"
  BY DEF FailedWindowsEndFamilies, Window
<1>1. RowsOf(f) \subseteq Row /\ Row \subseteq Int
  BY FamilyLayout DEF Row
<1>2. row_states[p] = "CONSUMED"
  BY <1>1
<1>3. PICK r \in Window(t) : outcome[r] = "positive"
  BY <1>2 DEF FailedWindowsEndFamilies
<1>4. r \in Row /\ r < p
  <2>1. t \in Int /\ p \in Int /\ r \in Row /\ r \in Int
    BY <1>1
  <2>2. PersistentOosLimit \in Nat
    BY LimitAssumption
  <2>3. r <= t
    BY <2>1, <2>2 DEF Window
  <2> QED BY <2>1, <2>3
<1>5. Active => r # traversal_cursor
  <2> SUFFICES ASSUME Active, r = traversal_cursor PROVE FALSE
    OBVIOUS
  <2>1. p \in Row /\ p > traversal_cursor
    BY <1>1, <1>4
  <2>2. row_states[p] = "UNATTEMPTED"
    BY <2>1 DEF ActiveFamilyInOrder
  <2> QED BY <2>2, <1>2
<1> QED BY <1>3, <1>4, <1>5

\* A candidate is consumed with fewer failures than the limit right behind it.
LEMMA ConsumeKeepsWindows ==
    ASSUME TypeOK, ActiveFamilyInOrder, StreakIsTrailingFailures, FailedWindowsEndFamilies,
           NEW c \in Row, ConsumeCurrent(c)
    PROVE  FailedWindowsEndFamilies'
<1>0. /\ Active /\ c = traversal_cursor /\ outcome' = outcome
      /\ row_states' = [row_states EXCEPT ![c] = "CONSUMED"]
  BY DEF ConsumeCurrent
<1> SUFFICES ASSUME NEW f \in Family, NEW p \in RowsOf(f), NEW t \in RowsOf(f),
                    row_states'[p] = "CONSUMED", t < p, Window(t) \subseteq RowsOf(f)
             PROVE  \E r \in Window(t) : outcome[r] = "positive"
  BY <1>0 DEF FailedWindowsEndFamilies, Window
<1>1. RowsOf(f) \subseteq Row /\ Row \subseteq Int
  BY FamilyLayout DEF Row
<1>2. CASE p # c
  <2>1. row_states[p] = "CONSUMED"
    BY <1>0, <1>1, <1>2 DEF TypeOK
  <2> QED BY <2>1 DEF FailedWindowsEndFamilies
<1>3. CASE p = c
  <2> DEFINE a == active_family_index
  <2>a. a \in Family /\ c \in RowsOf(a) /\ c \in Int
    BY <1>0, <1>1, ActivePlace DEF Row
  <2>b. /\ f + 1 \in 0 .. FamilyCount /\ a + 1 \in 0 .. FamilyCount
        /\ f \in 0 .. FamilyCount /\ a \in 0 .. FamilyCount
    BY <2>a, FamilyLayout
  <2>c. f \in Int /\ a \in Int
    BY <2>a DEF Family
  <2>d. Bound[a] \in Nat /\ Bound[a + 1] \in Nat /\ Bound[f] \in Nat /\ Bound[f + 1] \in Nat
    BY <2>b, FamilyLayout
  <2>1. /\ a \in Family /\ c \in RowsOf(a) /\ c \in Int
        /\ Bound[a] \in Nat /\ Bound[a + 1] \in Nat /\ Bound[f] \in Nat /\ Bound[f + 1] \in Nat
        /\ f \in Int /\ a \in Int
        /\ f + 1 \in 0 .. FamilyCount /\ a + 1 \in 0 .. FamilyCount
        /\ f \in 0 .. FamilyCount /\ a \in 0 .. FamilyCount
    BY <2>a, <2>b, <2>c, <2>d
  <2>2. f = a
    <3>1. ~(f < a)
      <4> SUFFICES ASSUME f < a PROVE FALSE
        OBVIOUS
      <4>1. Bound[f + 1] <= Bound[a]
        <5>1. f + 1 = a \/ f + 1 < a
          BY <2>1
        <5>2. f + 1 < a => Bound[f + 1] < Bound[a]
          BY <2>1, BoundAssumption
        <5> QED BY <5>1, <5>2, <2>1
      <4> QED BY <4>1, <1>3, <2>1 DEF RowsOf
    <3>2. ~(a < f)
      <4> SUFFICES ASSUME a < f PROVE FALSE
        OBVIOUS
      <4>1. Bound[a + 1] <= Bound[f]
        <5>1. a + 1 = f \/ a + 1 < f
          BY <2>1
        <5>2. a + 1 < f => Bound[a + 1] < Bound[f]
          BY <2>1, BoundAssumption
        <5> QED BY <5>1, <5>2, <2>1
      <4> QED BY <4>1, <1>3, <2>1 DEF RowsOf
    <3> QED BY <3>1, <3>2, <2>1
  <2>3. CASE t = c - 1
    <3> DEFINE r == c - oos_streak - 1
    <3>1. oos_streak \in Nat /\ oos_streak <= PersistentOosLimit - 1 /\ PersistentOosLimit \in Nat
      BY LimitAssumption DEF TypeOK
    <3>2. r \in Window(t)
      BY <2>1, <2>3, <3>1 DEF Window
    <3>3. r \in RowsOf(a)
      BY <2>2, <3>2
    <3>4. outcome[r] = "positive"
      BY <1>0, <3>3 DEF StreakIsTrailingFailures
    <3> QED BY <3>2, <3>4
  <2>4. CASE t # c - 1
    <3>1. t < c - 1 /\ c - 1 \in RowsOf(a) /\ c - 1 < c
      BY <1>1, <1>3, <2>1, <2>2, <2>4 DEF RowsOf
    <3>2. row_states[c - 1] = "CONSUMED"
      BY <1>0, <3>1 DEF ActiveFamilyInOrder
    <3> HIDE DEF a
    <3> QED BY <2>1, <2>2, <3>1, <3>2 DEF FailedWindowsEndFamilies
  <2> QED BY <2>3, <2>4
<1> QED BY <1>2, <1>3

LEMMA WindowStep ==
    ASSUME TypeOK, ActiveFamilyInOrder, StreakIsTrailingFailures, FailedWindowsEndFamilies,
           [Next]_vars
    PROVE  FailedWindowsEndFamilies'
<1>1. CASE UNCHANGED vars
  BY <1>1, NothingConsumed DEF vars, ledger
<1>2. ASSUME NEW t \in Row, LookupConsumed(t) PROVE FailedWindowsEndFamilies'
  BY <1>1, <1>2 DEF LookupConsumed
<1>3. ASSUME NEW t \in Row, ConsumeCurrent(t) PROVE FailedWindowsEndFamilies'
  BY <1>3, ConsumeKeepsWindows
<1>4. ASSUME NEW t \in Row, ExhaustAggregateBudget(t) PROVE FailedWindowsEndFamilies'
  <2>1. UNCHANGED outcome /\ \A r \in Row : row_states'[r] = "CONSUMED" => row_states[r] = "CONSUMED"
    BY <1>4 DEF ExhaustAggregateBudget
  <2> QED BY <2>1, NothingConsumed
<1>5. ASSUME NEW positive \in BOOLEAN, RecordOutcome(positive) PROVE FailedWindowsEndFamilies'
  <2>1. Active /\ \A r \in Row \ {traversal_cursor} : outcome'[r] = outcome[r]
    BY <1>5 DEF RecordOutcome, TypeOK
  <2>2. SkipRest(traversal_cursor + 1, "SKIPPED_FAMILY_STOP") \/ UNCHANGED row_states
    BY <1>5, Zenon DEF RecordOutcome, StopFamily, AdvancePastFamily
  <2>3. \A r \in Row : row_states'[r] = "CONSUMED" => row_states[r] = "CONSUMED"
    BY <2>2, SkipRestKeepsAttempts DEF Skipped
  <2> QED BY <2>1, <2>3, NothingConsumed
<1>6. ASSUME NEW reason \in Reason, TerminateFamily(reason) PROVE FailedWindowsEndFamilies'
  <2>1. UNCHANGED outcome
    BY <1>6 DEF TerminateFamily
  <2>2. \/ SkipRest(traversal_cursor + 1, "SKIPPED_FAMILY_STOP")
        \/ SkipRest(traversal_cursor, "SKIPPED_PER_FAMILY_BUDGET")
        \/ UNCHANGED row_states
    BY <1>6, Zenon DEF TerminateFamily, StopFamily, AdvancePastFamily
  <2>3. \A r \in Row : row_states'[r] = "CONSUMED" => row_states[r] = "CONSUMED"
    BY <2>2, SkipRestKeepsAttempts DEF Skipped
  <2> QED BY <2>1, <2>3, NothingConsumed
<1>7. CASE FailCampaign
  BY <1>7, NothingConsumed DEF FailCampaign, ledger
<1> QED BY <1>1, <1>2, <1>3, <1>4, <1>5, <1>6, <1>7 DEF Next

-----------------------------------------------------------------------------
(* The campaign and its results over the traversal. *)

\* Every step of the campaign is a step of the traversal or leaves it alone.
LEMMA CampaignStep == [CampaignNext]_campaignVars => [Next]_vars
<1> SUFFICES ASSUME [CampaignNext]_campaignVars PROVE [Next]_vars
  OBVIOUS
<1>1. CASE UNCHANGED campaignVars
  BY <1>1 DEF campaignVars
<1>2. CASE BudgetStep
  BY <1>2, Zenon DEF BudgetStep, Next
<1>3. CASE WriteResult
  BY <1>3 DEF WriteResult
<1>4. CASE RecordResult
  <2>1. PICK result \in results : RecordOutcome(IsPositive(result))
    BY <1>4, Zenon DEF RecordResult
  <2>2. IsPositive(result) \in BOOLEAN
    BY DEF IsPositive
  <2> QED BY <2>1, <2>2, Zenon DEF Next
<1>5. CASE WriteFailure
  BY <1>5, Zenon DEF WriteFailure, Next
<1>6. CASE \E p \in Row : PublishSkip(p)
  BY <1>6, Zenon DEF PublishSkip
<1> QED BY <1>1, <1>2, <1>3, <1>4, <1>5, <1>6, Zenon DEF CampaignNext

\* The campaign, seen without its store, is a traversal of the budget: whatever is
\* proved of the traversal holds under the results that are written beside it.
THEOREM CampaignTraverses == CampaignSpec => Spec
<1>1. CampaignInit => Init
  BY DEF CampaignInit
<1> QED BY <1>1, CampaignStep, PTL DEF CampaignSpec, Spec

\* An observation of the campaign at hand: what oos_outcome accepts.
IsObservation(x) == x.authority = "current" /\ x.status \in Observed
Recorded(x) == IF IsPositive(x) THEN "positive" ELSE "failed"

\* The store and the budget, the inductive invariant of the campaign: a position
\* is observed once, after it was consumed, and an outcome is that of its
\* observation.
ResultsInv ==
    /\ \A x \in results : x.position \in Row
    /\ \A x, y \in results :
           IsObservation(x) /\ IsObservation(y) /\ x.position = y.position => x = y
    /\ \A x \in results : IsObservation(x) => row_states[x.position] = "CONSUMED"
    /\ \A r \in Row : outcome[r] # None =>
           \E x \in results : IsObservation(x) /\ x.position = r /\ outcome[r] = Recorded(x)

CampaignInv == Inv /\ StreakIsTrailingFailures /\ FailedWindowsEndFamilies /\ ResultsInv

LEMMA InitCampaign == CampaignInit => CampaignInv
<1> SUFFICES ASSUME CampaignInit PROVE CampaignInv
  OBVIOUS
<1>1. Init
  BY DEF CampaignInit
<1>2. FailedWindowsEndFamilies
  BY <1>1, FamilyLayout DEF Init, FailedWindowsEndFamilies
<1>3. \A x \in results : x.position \in Row /\ x.authority = "superseded"
  BY DEF CampaignInit, Result
<1>4. ResultsInv
  BY <1>1, <1>3 DEF Init, ResultsInv, IsObservation
<1> QED BY <1>1, <1>2, <1>4, InitInv, InitStreak DEF CampaignInv

\* A step that leaves the outcomes alone and adds no observation.
LEMMA NothingObserved ==
    ASSUME ResultsInv, UNCHANGED outcome,
           \A r \in Row : row_states[r] = "CONSUMED" => row_states'[r] = "CONSUMED",
           results \subseteq results',
           \A x \in results' \ results : x.position \in Row /\ x.status \notin Observed
    PROVE  ResultsInv'
<1>1. \A x \in results' : IsObservation(x) => x \in results
  BY DEF IsObservation
<1>2. \A x \in results' : x.position \in Row
  BY DEF ResultsInv
<1>3. \A x, y \in results' :
          IsObservation(x) /\ IsObservation(y) /\ x.position = y.position => x = y
  BY <1>1 DEF ResultsInv
<1>4. \A x \in results' : IsObservation(x) => row_states'[x.position] = "CONSUMED"
  BY <1>1 DEF ResultsInv
<1>5. \A r \in Row : outcome'[r] # None =>
          \E x \in results' : IsObservation(x) /\ x.position = r /\ outcome'[r] = Recorded(x)
  BY DEF ResultsInv
<1> QED BY <1>2, <1>3, <1>4, <1>5 DEF ResultsInv, IsObservation, Recorded, IsPositive

\* A consumed row stays consumed.
LEMMA ConsumedStays ==
    ASSUME TypeOK, ActiveFamilyInOrder, Next
    PROVE  \A r \in Row : row_states[r] = "CONSUMED" => row_states'[r] = "CONSUMED"
<1> SUFFICES ASSUME NEW r \in Row, row_states[r] = "CONSUMED"
             PROVE  row_states'[r] = "CONSUMED"
  OBVIOUS
<1>1. ASSUME NEW positive \in BOOLEAN, RecordOutcome(positive) PROVE row_states'[r] = "CONSUMED"
  <2>1. SkipRest(traversal_cursor + 1, "SKIPPED_FAMILY_STOP") \/ UNCHANGED row_states
    BY <1>1, Zenon DEF RecordOutcome, StopFamily, AdvancePastFamily
  <2> QED BY <2>1 DEF SkipRest
<1>2. ASSUME NEW reason \in Reason, TerminateFamily(reason) PROVE row_states'[r] = "CONSUMED"
  <2>1. \/ SkipRest(traversal_cursor + 1, "SKIPPED_FAMILY_STOP")
        \/ SkipRest(traversal_cursor, "SKIPPED_PER_FAMILY_BUDGET")
        \/ UNCHANGED row_states
    BY <1>2, Zenon DEF TerminateFamily, StopFamily, AdvancePastFamily
  <2> QED BY <2>1 DEF SkipRest
<1>3. ASSUME NEW t \in Row, ConsumeCurrent(t) PROVE row_states'[r] = "CONSUMED"
  BY <1>3 DEF ConsumeCurrent, TypeOK
<1>4. ASSUME NEW t \in Row, ExhaustAggregateBudget(t) PROVE row_states'[r] = "CONSUMED"
  BY <1>4 DEF ExhaustAggregateBudget
<1> QED BY <1>1, <1>2, <1>3, <1>4 DEF Next, LookupConsumed, FailCampaign, vars, ledger

\* What a consumed candidate is observed as.
LEMMA ObservationsAre ==
    ASSUME NEW r, NEW x \in Observations(r)
    PROVE  x.position = r /\ x.authority = "current" /\ x.status \in Observed
<1>1. PICK e \in Evaluations :
          \E seen \in IF r \in Watched THEN SUBSET (Neighbors[r] \X Numbers) ELSE {{}} :
              x = [Result(r, "current", e[1], e[2]) EXCEPT !.seen = seen]
  BY DEF Observations
<1>2. e[1] \in Observed
  BY EvaluationsAssumption DEF Observed
<1> QED BY <1>1, <1>2 DEF Result

LEMMA ResultsStep ==
    ASSUME TypeOK, ActiveFamilyInOrder, ResultsInv, [CampaignNext]_campaignVars
    PROVE  ResultsInv'
<1>1. CASE UNCHANGED campaignVars
  BY <1>1 DEF campaignVars, vars, ledger, ResultsInv
<1>2. CASE BudgetStep
  <2>1. results \subseteq results' /\ results' \ results = {}
    BY <1>2 DEF BudgetStep
  <2>2. UNCHANGED outcome
    BY <1>2 DEF BudgetStep, LookupConsumed, ConsumeCurrent, ExhaustAggregateBudget,
                TerminateFamily, FailCampaign, vars
  <2>3. Next
    BY <1>2, Zenon DEF BudgetStep, Next
  <2>4. \A r \in Row : row_states[r] = "CONSUMED" => row_states'[r] = "CONSUMED"
    BY <2>3, ConsumedStays
  <2>5. \A y \in results' \ results : y.position \in Row /\ y.status \notin Observed
    BY <2>1
  <2> QED BY <2>1, <2>2, <2>4, <2>5, NothingObserved
<1>3. CASE WriteResult
  <2> DEFINE c == traversal_cursor
  <2>1. PICK x \in Observations(c) : results' = results \cup {x}
    BY <1>3 DEF WriteResult
  <2>2. /\ Active /\ row_states[c] = "CONSUMED" /\ UNCHANGED <<row_states, outcome>>
        /\ \A y \in results : y.authority = "current" => y.position # c
    BY <1>3 DEF WriteResult, vars, ledger
  <2>3. c \in Row
    BY <2>2, ActivePlace
  <2>4. x.position = c /\ IsObservation(x)
    BY ObservationsAre DEF IsObservation
  <2>5. \A y \in results' : y.position \in Row
    BY <2>1, <2>3, <2>4 DEF ResultsInv
  <2>6. \A y, z \in results' :
            IsObservation(y) /\ IsObservation(z) /\ y.position = z.position => y = z
    BY <2>1, <2>2, <2>4 DEF ResultsInv, IsObservation
  <2>7. \A y \in results' : IsObservation(y) => row_states'[y.position] = "CONSUMED"
    BY <2>1, <2>2, <2>4 DEF ResultsInv
  <2>8. \A r \in Row : outcome'[r] # None =>
            \E y \in results' : IsObservation(y) /\ y.position = r /\ outcome'[r] = Recorded(y)
    BY <2>1, <2>2 DEF ResultsInv
  <2> QED BY <2>5, <2>6, <2>7, <2>8 DEF ResultsInv, IsObservation, Recorded, IsPositive
<1>4. CASE RecordResult
  <2> DEFINE c == traversal_cursor
  <2>1. PICK x \in results : /\ x.position = c /\ IsObservation(x)
                             /\ RecordOutcome(IsPositive(x)) /\ UNCHANGED results
    BY <1>4 DEF RecordResult, IsObservation
  <2>2. Active /\ outcome' = [outcome EXCEPT ![c] = Recorded(x)]
    BY <2>1 DEF RecordOutcome, Recorded
  <2>3. Next
    <3>1. IsPositive(x) \in BOOLEAN
      BY DEF IsPositive
    <3> QED BY <2>1, <3>1, Zenon DEF Next
  <2>4. c \in Row /\ outcome'[c] = Recorded(x) /\ \A r \in Row \ {c} : outcome'[r] = outcome[r]
    BY <2>2, ActivePlace DEF TypeOK
  <2>5. \A y \in results' : IsObservation(y) => row_states'[y.position] = "CONSUMED"
    BY <2>1, <2>3, ConsumedStays DEF ResultsInv
  <2>6. \A r \in Row : outcome'[r] # None =>
            \E y \in results' : IsObservation(y) /\ y.position = r /\ outcome'[r] = Recorded(y)
    <3> SUFFICES ASSUME NEW r \in Row, outcome'[r] # None
                 PROVE  \E y \in results : IsObservation(y) /\ y.position = r /\ outcome'[r] = Recorded(y)
      BY <2>1
    <3>1. CASE r = c
      BY <3>1, <2>1, <2>4
    <3>2. CASE r # c
      BY <3>2, <2>4 DEF ResultsInv
    <3> QED BY <3>1, <3>2
  <2> QED BY <2>1, <2>5, <2>6 DEF ResultsInv, IsObservation, Recorded, IsPositive
<1>5. CASE WriteFailure
  <2> DEFINE x == Result(traversal_cursor, "current", "CAMPAIGN_EXECUTION_FAILED", "none")
  <2>1. Active /\ results' = results \cup {x} /\ UNCHANGED <<row_states, outcome>>
    BY <1>5 DEF WriteFailure, FailCampaign, ledger
  <2>2. x.position \in Row /\ x.status \notin Observed
    BY <2>1, ActivePlace DEF Result, Observed
  <2>3. /\ results \subseteq results'
        /\ \A y \in results' \ results : y.position \in Row /\ y.status \notin Observed
    BY <2>1, <2>2
  <2>4. \A r \in Row : row_states[r] = "CONSUMED" => row_states'[r] = "CONSUMED"
    BY <2>1
  <2> QED BY <2>1, <2>3, <2>4, NothingObserved
<1>6. ASSUME NEW p \in Row, PublishSkip(p) PROVE ResultsInv'
  <2>1. PICK trigger \in Row : results' = results \cup {SkipResult(p, trigger)}
    BY <1>6 DEF PublishSkip
  <2>2. UNCHANGED <<row_states, outcome>>
    BY <1>6 DEF PublishSkip, vars, ledger
  <2>3. SkipResult(p, trigger).position \in Row /\ SkipResult(p, trigger).status \notin Observed
    BY DEF SkipResult, Result, Observed
  <2>4. /\ results \subseteq results'
        /\ \A y \in results' \ results : y.position \in Row /\ y.status \notin Observed
    BY <2>1, <2>3
  <2>5. \A r \in Row : row_states[r] = "CONSUMED" => row_states'[r] = "CONSUMED"
    BY <2>2
  <2> QED BY <2>2, <2>4, <2>5, NothingObserved
<1> QED BY <1>1, <1>2, <1>3, <1>4, <1>5, <1>6 DEF CampaignNext

LEMMA CampaignInvStep == CampaignInv /\ [CampaignNext]_campaignVars => CampaignInv'
<1> SUFFICES ASSUME CampaignInv, [CampaignNext]_campaignVars PROVE CampaignInv'
  OBVIOUS
<1>1. /\ TypeOK /\ ActiveFamilyInOrder /\ Inv /\ StreakIsTrailingFailures
      /\ FailedWindowsEndFamilies /\ ResultsInv
  BY DEF CampaignInv, Inv
<1>2. [Next]_vars
  BY CampaignStep
<1> QED BY <1>1, <1>2, NextInv, StreakStep, WindowStep, ResultsStep DEF CampaignInv

\* In every state of the campaign the store and the budget agree.
THEOREM CampaignInvCorrect == CampaignSpec => []CampaignInv
BY InitCampaign, CampaignInvStep, PTL DEF CampaignSpec

-----------------------------------------------------------------------------
\* The families do not overlap: a row has one.
LEMMA RowHasOneFamily ==
    ASSUME NEW f \in Family, NEW r \in RowsOf(f)
    PROVE  FamilyOf(r) = f
<1>1. ASSUME NEW g \in Family, r \in RowsOf(g), f < g PROVE FALSE
  <2>1. /\ f \in Int /\ g \in Int /\ f + 1 \in 0 .. FamilyCount /\ g \in 0 .. FamilyCount
        /\ Bound[f + 1] \in Nat /\ Bound[g] \in Nat
    BY FamilyLayout DEF Family
  <2>2. f + 1 = g \/ f + 1 < g
    BY <2>1, <1>1
  <2>3. Bound[f + 1] <= Bound[g]
    BY <2>1, <2>2, BoundAssumption
  <2> QED BY <2>1, <2>3, <1>1 DEF RowsOf
<1>2. ASSUME NEW g \in Family, r \in RowsOf(g), g < f PROVE FALSE
  <2>1. /\ f \in Int /\ g \in Int /\ g + 1 \in 0 .. FamilyCount /\ f \in 0 .. FamilyCount
        /\ Bound[g + 1] \in Nat /\ Bound[f] \in Nat
    BY FamilyLayout DEF Family
  <2>2. g + 1 = f \/ g + 1 < f
    BY <2>1, <1>2
  <2>3. Bound[g + 1] <= Bound[f]
    BY <2>1, <2>2, BoundAssumption
  <2> QED BY <2>1, <2>3, <1>2 DEF RowsOf
<1>3. \A g \in Family : r \in RowsOf(g) => g = f
  BY <1>1, <1>2 DEF Family
<1> QED BY <1>3 DEF FamilyOf

\* A non-empty set of natural numbers has a least one.
LEMMA LeastNatural ==
    ASSUME NEW T \in SUBSET Nat, T # {}
    PROVE  \E x \in T : \A y \in T : x <= y
<1> DEFINE R == {ss \in Nat \X Nat : ss[1] < ss[2]}
<1>1. IsWellFoundedOn(R, Nat)
  BY NatLessThanWellFounded DEF OpToRel
<1>2. \A x, y \in Nat : y < x => <<y, x>> \in R
  OBVIOUS
<1> HIDE DEF R
<1>3. PICK x \in T : \A y \in T : ~ (<<y, x>> \in R)
  BY <1>1, WFMin
<1>4. ASSUME NEW y \in T PROVE x <= y
  <2>1. x \in Nat /\ y \in Nat /\ ~(y < x)
    BY <1>2, <1>3
  <2> QED BY <2>1
<1> QED BY <1>4

\* Every row is one of a family's.
LEMMA RowHasFamily ==
    ASSUME NEW r \in Row
    PROVE  FamilyOf(r) \in Family /\ r \in RowsOf(FamilyOf(r))
<1> DEFINE T == {n \in Nat : n \in 0 .. FamilyCount /\ r < Bound[n]}
<1>1. /\ FamilyCount \in Nat \ {0} /\ Total \in Nat /\ r \in Nat /\ r < Total
      /\ \A n \in 0 .. FamilyCount : Bound[n] \in Nat
  BY FamilyLayout DEF Row
<1>2. FamilyCount \in T
  BY <1>1 DEF Total
<1>3. PICK m \in T : \A n \in T : m <= n
  <2> HIDE DEF T
  <2>1. T \in SUBSET Nat
    BY DEF T
  <2> QED BY <2>1, <1>2, LeastNatural
<1>4. m # 0
  BY <1>1, BoundAssumption
<1>5. m - 1 \in Family /\ m - 1 \in 0 .. FamilyCount /\ m - 1 \in Nat
  BY <1>1, <1>4 DEF Family
<1>6. m - 1 \notin T
  <2> HIDE DEF T
  <2>1. m \in Nat
    BY DEF T
  <2> QED BY <2>1, <1>3, <1>5
<1>7. Bound[m - 1] <= r
  BY <1>1, <1>5, <1>6
<1>8. (m - 1) + 1 = m /\ r < Bound[m] /\ Bound[m] \in Nat /\ Bound[m - 1] \in Nat
  BY <1>1, <1>5
<1>9. r \in RowsOf(m - 1)
  <2> HIDE DEF T
  <2> QED BY <1>1, <1>7, <1>8 DEF RowsOf
<1> QED BY <1>5, <1>9, RowHasOneFamily

\* A row with an observation has the outcome of that observation, or none yet.
LEMMA OutcomeOfObservation ==
    ASSUME ResultsInv, NEW x \in results, IsObservation(x), outcome[x.position] # None
    PROVE  outcome[x.position] = Recorded(x)
BY DEF ResultsInv

\* A skip that validates is one of a candidate that was never consumed.
LEMMA AcceptedIsNotConsumed == CampaignInv => StopIsEarned
<1> SUFFICES ASSUME CampaignInv, NEW p \in Row, NEW t \in Row, AcceptsSkip(p, t),
                    row_states[p] = "CONSUMED"
             PROVE  FALSE
  BY DEF StopIsEarned
<1> DEFINE f == FamilyOf(p)
<1>1. f \in Family /\ p \in RowsOf(f)
  BY RowHasFamily
<1>2. /\ t < p /\ Window(t) \subseteq Row
      /\ \A r \in Window(t) : \E x \in results :
            /\ x.position = r /\ IsObservation(x) /\ ~IsPositive(x) /\ FamilyOf(r) = f
  BY DEF AcceptsSkip, Witness, IsObservation
<1>3. \A r \in Window(t) : r \in RowsOf(f)
  BY <1>2, RowHasFamily
<1>4. t \in Window(t)
  <2>1. t \in Int
    BY FamilyLayout DEF Row
  <2> QED BY <2>1, LimitAssumption DEF Window
<1>5. PICK r \in Window(t) : outcome[r] = "positive"
  <2> HIDE DEF f
  <2> QED BY <1>1, <1>2, <1>3, <1>4 DEF CampaignInv, FailedWindowsEndFamilies
<1>6. PICK x \in results : x.position = r /\ IsObservation(x) /\ ~IsPositive(x)
  BY <1>2, <1>5
<1>7. outcome[r] = Recorded(x)
  BY <1>5, <1>6, OutcomeOfObservation DEF CampaignInv, None
<1> QED BY <1>5, <1>6, <1>7 DEF Recorded

\* No result that an earlier campaign, another family or an unrecorded evaluation
\* left in the store makes validate_result accept the skip of a consumed candidate,
\* for every grid and every limit (validation.py 327-339).
THEOREM StopEarned == CampaignSpec => []StopIsEarned
BY AcceptedIsNotConsumed, CampaignInvCorrect, PTL

\* A family that record_candidate_outcome stopped for its persistent failures can
\* be published: the results its outcomes were recorded from are the witness
\* validate_result asks for (budget.py 99-119).
THEOREM StopProvable == CampaignSpec => []StopIsProvable
<1>1. CampaignInv => StopIsProvable
  <2> SUFFICES ASSUME CampaignInv, NEW p \in Row, StoppedByStreak(p)
               PROVE  \E t \in Row : AcceptsSkip(p, t)
    BY DEF StopIsProvable
  <2> DEFINE f == FamilyOf(p)
  <2>1. f \in Family
    BY RowHasFamily
  <2>2. PICK t \in RowsOf(f) :
            /\ t < p
            /\ \A i \in 0 .. PersistentOosLimit - 1 :
                   t - i \in RowsOf(f) /\ outcome[t - i] = "failed"
    BY DEF StoppedByStreak
  <2>3. RowsOf(f) \subseteq Row /\ t \in Row /\ t \in Int
    BY <2>1, <2>2, FamilyLayout DEF Row
  <2>4. \A r \in Window(t) : r \in RowsOf(f) /\ outcome[r] = "failed"
    <3> HIDE DEF f
    <3> SUFFICES ASSUME NEW r \in Window(t) PROVE r \in RowsOf(f) /\ outcome[r] = "failed"
      OBVIOUS
    <3>1. t - r \in 0 .. PersistentOosLimit - 1 /\ t - (t - r) = r
      BY <2>3, LimitAssumption DEF Window
    <3> QED BY <2>2, <3>1
  <2>5. \A r \in Window(t) : \E x \in results : Witness(x, r, p)
    <3> SUFFICES ASSUME NEW r \in Window(t) PROVE \E x \in results : Witness(x, r, p)
      OBVIOUS
    <3>1. r \in Row /\ outcome[r] = "failed" /\ FamilyOf(r) = f
      BY <2>1, <2>3, <2>4, RowHasOneFamily
    <3>2. PICK x \in results : IsObservation(x) /\ x.position = r /\ outcome[r] = Recorded(x)
      BY <3>1 DEF CampaignInv, ResultsInv, None
    <3>3. ~IsPositive(x)
      BY <3>1, <3>2 DEF Recorded
    <3> QED BY <3>1, <3>2, <3>3 DEF Witness, IsObservation
  <2> QED BY <2>2, <2>3, <2>4, <2>5 DEF AcceptsSkip
<1> QED BY <1>1, CampaignInvCorrect, PTL

\* The candidate select_survivor names was consumed, is the only one, never counted
\* as a failure and is in no witness of a skip (policy.py 571, validation.py 338).
THEOREM SurvivorEarned == CampaignSpec => []SurvivorIsEarned
<1>1. CampaignInv => SurvivorIsEarned
  <2> SUFFICES ASSUME CampaignInv, NEW s \in Survivor
               PROVE  /\ Survivor = {s}
                      /\ row_states[s] = "CONSUMED"
                      /\ outcome[s] # "failed"
                      /\ \A p \in Row : \A t \in Row :
                             AcceptsSkip(p, t) => p # s /\ s \notin Window(t)
    BY DEF SurvivorIsEarned
  <2>1. PICK x \in Candidates : s = x.position /\ \A z \in Candidates : RanksBefore(x, z)
    BY DEF Survivor
  <2>2. ResultsInv /\ x \in results /\ IsObservation(x) /\ IsPositive(x)
    BY <2>1 DEF CampaignInv, Candidates, Eligible, IsProjected, IsObservation, Observed
  <2>3. row_states[s] = "CONSUMED" /\ s \in Row
    BY <2>1, <2>2 DEF ResultsInv
  <2>4. outcome[s] # "failed"
    <3>1. outcome[s] # None => outcome[s] = "positive"
      BY <2>1, <2>2, OutcomeOfObservation DEF Recorded
    <3> QED BY <3>1 DEF None
  <2>5. Survivor = {s}
    <3> SUFFICES ASSUME NEW other \in Survivor PROVE other = s
      BY <2>1
    <3>1. PICK y \in Candidates : other = y.position /\ \A z \in Candidates : RanksBefore(y, z)
      BY DEF Survivor
    <3>2. other \in Row
      BY <3>1 DEF Candidates, CampaignInv, ResultsInv
    <3>3. RanksBefore(x, y) /\ RanksBefore(y, x)
      BY <2>1, <3>1
    <3>4. Strength[s] \in Int /\ Strength[other] \in Int /\ s \in Int /\ other \in Int
      BY <2>3, <3>2, StrengthAssumption DEF Row
    <3> QED BY <2>1, <3>1, <3>3, <3>4 DEF RanksBefore
  <2>6. ASSUME NEW p \in Row, NEW t \in Row, AcceptsSkip(p, t)
        PROVE  p # s /\ s \notin Window(t)
    <3>1. p # s
      BY <2>3, <2>6, AcceptedIsNotConsumed DEF StopIsEarned
    <3>2. s \notin Window(t)
      <4> SUFFICES ASSUME s \in Window(t) PROVE FALSE
        OBVIOUS
      <4>1. PICK y \in results : y.position = s /\ IsObservation(y) /\ ~IsPositive(y)
        BY <2>6 DEF AcceptsSkip, Witness, IsObservation
      <4> QED BY <4>1, <2>1, <2>2 DEF ResultsInv
    <3> QED BY <3>1, <3>2
  <2> QED BY <2>3, <2>4, <2>5, <2>6
<1> QED BY <1>1, CampaignInvCorrect, PTL
=============================================================================
