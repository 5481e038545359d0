--------------------------- MODULE EpisodeClusters ---------------------------
(***************************************************************************)
(* Dependence control of the governed backtest (backtest_v1.py,            *)
(* _independent_clusters; robustness_v2.py selects the same way): episodes *)
(* that enter on one session form one cluster, and the clusters are taken  *)
(* greedily in session order, each at least Nonoverlap sessions after the  *)
(* one taken before it.  A cluster is known by its entry session.          *)
(***************************************************************************)
EXTENDS Integers, FiniteSets

CONSTANTS LastSession, Nonoverlap  \* 20 sessions in the code

ASSUME SessionAssumption == LastSession \in Nat /\ Nonoverlap \in Nat \ {0}

Session == 0 .. LastSession

VARIABLES
    entries,      \* the clusters
    rest,         \* those the loop has not come to yet
    selected,
    next_allowed  \* next_allowed_index

clusterVars == <<entries, rest, selected, next_allowed>>

NoClusters == entries = {} /\ rest = {} /\ selected = {} /\ next_allowed = -1

StartSelection(clusters) ==
    /\ entries' = clusters
    /\ rest' = clusters
    /\ selected' = {}
    /\ next_allowed' = -1

Visit(p) ==
    /\ p \in rest
    /\ \A q \in rest : p <= q
    /\ rest' = rest \ {p}

CountedToClose(p) == p + Nonoverlap - 1  \* mutant: the close session is free again
CountedFromClose(p) == p + 2 * Nonoverlap - 1  \* mutant: counted from the close
NextAllowed(p) == p + Nonoverlap

SkipCluster(p) ==
    /\ Visit(p)
    /\ p < next_allowed
    /\ UNCHANGED <<entries, selected, next_allowed>>

SelectCluster(p) ==
    /\ Visit(p)
    /\ p >= next_allowed
    /\ selected' = selected \cup {p}
    /\ next_allowed' = NextAllowed(p)
    /\ UNCHANGED entries

-----------------------------------------------------------------------------
Spaced(sessions) ==
    \A p, q \in sessions : p < q => p + Nonoverlap <= q

\* The observations that count as independent are: no two of them are held
\* on a common session.
WindowsDisjoint == Spaced(selected)

\* The greedy choice loses no evidence: no choice of pairwise independent
\* clusters is larger, so a sample that is reported too small is too small.
SelectionIsLargest ==
    rest = {} => \A sessions \in SUBSET entries :
                    Spaced(sessions) => Cardinality(sessions) <= Cardinality(selected)
=============================================================================
