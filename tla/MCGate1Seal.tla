---------------------------- MODULE MCGate1Seal ----------------------------
(* Two sealers; two revisions preregister one research, a third another one *)
(* that shares a source and its hypothesis with it.                         *)
EXTENDS Gate1Seal, TLC

CONSTANTS r1, r2, r3, first, second

E(id) == [id |-> id, body |-> "text"]

MCJournal    == {"SOURCE", "HYPOTHESIS"}
MCPhases     == <<"SOURCE", "HYPOTHESIS">>
MCRecordCount == [j \in MCJournal |-> IF j = "SOURCE" THEN 2 ELSE 1]
MCResearchOf == [r \in Revision |-> IF r = r3 THEN second ELSE first]
MCPlan ==
    [x \in Research |->
        [j \in MCJournal |->
            IF j = "HYPOTHESIS" THEN <<E("h1")>>
            ELSE IF x = first THEN <<E("s1"), E("s2")>> ELSE <<E("s0"), E("s1")>>]]
MCKinds == <<"grids", "policy">>

Symmetry == Permutations(Writer)
=============================================================================
