------------------------- MODULE MCBudgetTraversal -------------------------
(* One family longer than the limit of persistent failures and one as long,   *)
(* a budget that ends before the last trial, and the results of an earlier    *)
(* campaign.  The first and the last candidate of the first family have the   *)
(* two others as neighbors.                                                   *)
EXTENDS CampaignResults

MCDimensions == <<<<2, 2>>, <<2>>>>
MCBound == GridBound

\* Every evaluation that is no positive excess counts alike; two of them do.
MCEvaluations == {<<"EXECUTED", "positive">>, <<"EXECUTED", "nonpositive">>, <<"UNKNOWN", "none">>}
MCStrength == [r \in Row |-> IF r = 3 THEN 2 ELSE 1]
=============================================================================
