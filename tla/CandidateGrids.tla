--------------------------- MODULE CandidateGrids ---------------------------
(***************************************************************************)
(* The sealed candidate population of Phase 4 (preregistration/grids.py):   *)
(* every family declares the values of its parameters, its candidates are   *)
(* the Cartesian product of them, and the budget positions run through the  *)
(* families in the order of their identities.                              *)
(*                                                                         *)
(* A candidate is its family and the index of its value in each dimension;  *)
(* its identities are digests of those and of nothing else.  Positions are  *)
(* counted from 0 here, from 1 in the code.                                *)
(***************************************************************************)
EXTENDS Integers, Sequences, FiniteSets

CONSTANT Dimensions  \* by family, the number of values of each parameter, names sorted

Grid(f) == Dimensions[f + 1]
GridFamily == 0 .. Len(Dimensions) - 1

\* product(*values)
Combinations(f) == {c \in [DOMAIN Grid(f) -> UNION {1 .. Grid(f)[i] : i \in DOMAIN Grid(f)}] :
                        \A i \in DOMAIN c : c[i] <= Grid(f)[i]}

\* The last parameter changes fastest.
Precedes(c, d) == \E i \in DOMAIN c : /\ c[i] < d[i]
                                      /\ \A j \in 1 .. i - 1 : c[j] = d[j]

\* build_preregistered_grids: next_position += len(positioned)
GridBound == LET next[f \in 0 .. Len(Dimensions)] ==
                     IF f = 0 THEN 0 ELSE next[f - 1] + Cardinality(Combinations(f - 1))
             IN next
Population == 0 .. GridBound[Len(Dimensions)] - 1

\* The candidate at a budget position: next_position + offset.
Candidate == [r \in Population |->
    LET f == CHOOSE g \in GridFamily : GridBound[g] <= r /\ r < GridBound[g + 1]
    IN [family |-> f,
        parameters |-> CHOOSE c \in Combinations(f) :
            Cardinality({d \in Combinations(f) : Precedes(d, c)}) = r - GridBound[f]]]

\* validate_budget_counts, with the limits of BudgetPolicy.
WithinBudget == /\ Len(Dimensions) \in 1 .. 10
                /\ \A f \in GridFamily : Cardinality(Combinations(f)) <= 500
                /\ Cardinality(Population) \in 1 .. 3000

\* PreregisteredGrids.validate_population and the checks of _expected before a
\* campaign: no candidate twice, none missing, one position for each.
IsPopulation == \A f \in GridFamily : \A c \in Combinations(f) :
                    \E r \in Population : /\ Candidate[r] = [family |-> f, parameters |-> c]
                                          /\ \A q \in Population \ {r} : Candidate[q] # Candidate[r]

ASSUME GridsAssumption == WithinBudget /\ IsPopulation

\* StrategyFamilyDefinition.neighbors: one parameter differs, and by one value of
\* those declared.
Adjacent(c, d) == \E i \in DOMAIN c : /\ c[i] - d[i] \in {-1, 1}
                                      /\ \A j \in DOMAIN c \ {i} : c[j] = d[j]
Neighbors == [r \in Population |->
    {q \in Population : /\ Candidate[q].family = Candidate[r].family
                        /\ Adjacent(Candidate[q].parameters, Candidate[r].parameters)}]
=============================================================================
