------------------------- MODULE MCResearchLifecycle -------------------------
(***************************************************************************)
(* Two families: the first is longer than the budget, the second shorter.  *)
(* An evaluation is weak, strong (the only one that is accepted), better   *)
(* yet without robustness, or worse than the benchmark.                    *)
(***************************************************************************)
EXTENDS ResearchLifecycle, TLC

MCCandidate == {"a", "b1", "b2", "b3", "b4"}
MCFamilies == <<<<"b1", "b2", "b3", "b4">>, <<"a">>>>

Of(score, improved, deteriorated) ==
    [score |-> score, improved |-> improved, deteriorated |-> deteriorated,
     consistent |-> TRUE]

MCEvidence ==
    {Of(2, TRUE, FALSE), Of(4, TRUE, FALSE), Of(5, TRUE, TRUE), Of(3, FALSE, FALSE)}

Symmetric == Permutations(Process) \cup Permutations(Moment)
=============================================================================
