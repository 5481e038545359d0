--------------------------- MODULE Backtests_proofs ---------------------------
(***************************************************************************)
(* Proofs about the two backtests.                                         *)
(*                                                                         *)
(* The governed signal backtest: the greedy selection is as large as any   *)
(* selection of independent windows, what is evaluated shares no session   *)
(* between folds, and the verdict is earned: what a PASS needs and what no *)
(* missing data hides, by what a median says of its values.                *)
(*                                                                         *)
(* The target replay of the gate engine and its evidence: exact money,     *)
(* capped weights, a book that is never short, targets that look at no     *)
(* later close, an audit that rebuilds every book from the fills, formulas *)
(* that are those of Gate 1, and returns that compound to the whole.       *)
(***************************************************************************)
EXTENDS GovernedBacktest, ReplayEvidence, FiniteSetTheorems, WellFoundedInduction, TLAPS

Visited == entries \ rest

\* What the selection knows half way: it visits in order, nothing visited
\* allows more windows than it has selected, and whatever ends before its last
\* window ends allows fewer.
ClusterInv ==
    /\ entries \subseteq Session /\ rest \subseteq entries
    /\ selected \subseteq Visited
    /\ next_allowed \in {-1} \cup {p + Nonoverlap : p \in selected}
    /\ \A v \in Visited, q \in rest : v < q
    /\ \A s \in selected : s + Nonoverlap <= next_allowed
    /\ Spaced(selected)
    /\ \A T \in SUBSET Visited : Spaced(T) => Cardinality(T) <= Cardinality(selected)
    /\ selected # {} =>
         \A T \in SUBSET Visited :
            Spaced(T) /\ (\A t \in T : t + Nonoverlap < next_allowed)
                => Cardinality(T) < Cardinality(selected)

\* The inductive invariant.
Inv ==
    /\ ClusterInv
    /\ phase \in {"reading", "selecting", "reported", "raised"}
    /\ evidence \subseteq Episodes
    /\ timing_errors \in BOOLEAN
    /\ ~timing_errors => \A e \in evidence : WellTimed(e)
    /\ phase \in {"selecting", "reported"} => ~timing_errors
    /\ baseline \in BaselineMedian \cup {NoBaseline}
    /\ report.status \in {"none", "PASS", "FAIL", "INCONCLUSIVE"}

-----------------------------------------------------------------------------
\* Sets of sessions are finite, and so are their parts.
LEMMA SessionsFinite ==
    ASSUME NEW S \in SUBSET Session
    PROVE  IsFiniteSet(S) /\ Cardinality(S) \in Nat
<1>1. IsFiniteSet(Session)
  BY FS_Interval, SessionAssumption DEF Session
<1> QED BY <1>1, FS_Subset, FS_CardinalityType

\* Before and after a loop without clusters.
LEMMA NoneSelected ==
    ASSUME NEW S \in SUBSET Session,
           entries = S, rest = S, selected = {}, next_allowed = -1
    PROVE  ClusterInv
<1>1. \A T \in SUBSET Visited : Cardinality(T) <= Cardinality({})
  BY FS_EmptySet DEF Visited
<1> QED BY <1>1 DEF ClusterInv, Visited, Spaced

\* A visited cluster comes after those visited before it and before the others.
LEMMA VisitInOrder ==
    ASSUME ClusterInv, NEW p, Visit(p), entries' = entries
    PROVE  /\ p \in Session /\ p \notin Visited
           /\ Visited' = Visited \cup {p}
           /\ \A v \in Visited : v < p
           /\ \A v \in Visited', q \in rest' : v < q
<1>1. p \in rest /\ rest' = rest \ {p} /\ entries \subseteq Session /\ rest \subseteq entries
  BY DEF Visit, ClusterInv
<1>2. /\ Visited' = Visited \cup {p}
      /\ \A v \in Visited : v < p
  BY <1>1 DEF Visited, ClusterInv
<1>3. \A q \in rest' : p < q
  BY <1>1, SessionAssumption DEF Visit, Session
<1> QED BY <1>1, <1>2, <1>3 DEF Visited, ClusterInv

\* The members of a spaced set other than its last end before that one enters.
LEMMA SpacedWithoutLast ==
    ASSUME NEW T \in SUBSET Session, Spaced(T), NEW p \in T,
           \A t \in T \ {p} : t < p
    PROVE  /\ Spaced(T \ {p})
           /\ \A t \in T \ {p} : t + Nonoverlap <= p
           /\ Cardinality(T) = Cardinality(T \ {p}) + 1
<1>1. IsFiniteSet(T \ {p}) /\ T = (T \ {p}) \cup {p} /\ p \notin T \ {p}
  BY SessionsFinite
<1>2. Cardinality(T) = Cardinality(T \ {p}) + 1
  BY <1>1, FS_AddElement
<1> QED BY <1>2 DEF Spaced

\* Skipping a cluster keeps the invariant: a selection that contains it consists
\* of the cluster and of windows that end before the last selected one ends.
LEMMA SkipKeeps ==
    ASSUME ClusterInv, NEW p, SkipCluster(p)
    PROVE  ClusterInv'
<1>1. Visit(p) /\ p < next_allowed /\ entries' = entries /\ selected' = selected
      /\ next_allowed' = next_allowed
  BY DEF SkipCluster
<1>2. /\ p \in Session /\ p \notin Visited
      /\ Visited' = Visited \cup {p}
      /\ \A v \in Visited : v < p
      /\ \A v \in Visited', q \in rest' : v < q
  BY <1>1, VisitInOrder
<1>3. Visited \subseteq Session /\ selected \subseteq Visited
  BY DEF ClusterInv, Visited
<1>4. PICK last \in selected : next_allowed = last + Nonoverlap
  <2>1. p \in Int /\ p >= 0
    BY <1>2, SessionAssumption DEF Session
  <2>2. next_allowed # -1
    BY <2>1, <1>1
  <2> QED BY <2>2 DEF ClusterInv
<1>5. selected # {} /\ next_allowed \in Int
  BY <1>3, <1>4, SessionAssumption DEF Session
<1>6. ASSUME NEW T \in SUBSET Visited', Spaced(T)
      PROVE  Cardinality(T) <= Cardinality(selected)
  <2>1. CASE p \notin T
    BY <2>1, <1>2, <1>6 DEF ClusterInv
  <2>2. CASE p \in T
    <3>1. T \in SUBSET Session /\ T \ {p} \in SUBSET Visited /\ \A t \in T \ {p} : t < p
      BY <1>2, <1>3
    <3>2. /\ Spaced(T \ {p})
          /\ \A t \in T \ {p} : t + Nonoverlap <= p
          /\ Cardinality(T) = Cardinality(T \ {p}) + 1
      BY <3>1, <2>2, <1>6, SpacedWithoutLast
    <3>3. \A t \in T \ {p} : t + Nonoverlap < next_allowed
      BY <3>1, <3>2, <1>1, <1>2, <1>3, <1>5, SessionAssumption DEF Session
    <3>4. Cardinality(T \ {p}) < Cardinality(selected)
      BY <3>1, <3>2, <3>3, <1>5 DEF ClusterInv
    <3>5. Cardinality(T \ {p}) \in Nat /\ Cardinality(selected) \in Nat
      BY <3>1, <1>3, SessionsFinite
    <3> QED BY <3>2, <3>4, <3>5
  <2> QED BY <2>1, <2>2
<1>7. ASSUME NEW T \in SUBSET Visited', Spaced(T),
             \A t \in T : t + Nonoverlap < next_allowed
      PROVE  Cardinality(T) < Cardinality(selected)
  <2>1. last < p /\ last \in Session
    BY <1>2, <1>3
  <2>2. p \notin T
    BY <2>1, <1>2, <1>4, <1>7, SessionAssumption DEF Session
  <2> QED BY <2>2, <1>2, <1>5, <1>7 DEF ClusterInv
<1>8. entries \subseteq Session /\ rest' \subseteq entries /\ Spaced(selected)'
      /\ selected \subseteq Visited'
  BY <1>1, <1>2, <1>3 DEF ClusterInv, Visit, Spaced
<1>9. /\ next_allowed' \in {-1} \cup {q + Nonoverlap : q \in selected'}
      /\ \A s \in selected' : s + Nonoverlap <= next_allowed'
  BY <1>1 DEF ClusterInv
<1>10. /\ \A T \in SUBSET Visited' : Spaced(T)' => Cardinality(T) <= Cardinality(selected')
       /\ \A T \in SUBSET Visited' :
             Spaced(T)' /\ (\A t \in T : t + Nonoverlap < next_allowed')
                => Cardinality(T) < Cardinality(selected')
  BY <1>1, <1>6, <1>7 DEF Spaced
<1> QED BY <1>1, <1>2, <1>8, <1>9, <1>10 DEF ClusterInv

\* Selecting one keeps the invariant: no selection gains more than the cluster.
LEMMA SelectKeeps ==
    ASSUME ClusterInv, NEW p, SelectCluster(p)
    PROVE  ClusterInv'
<1>1. Visit(p) /\ p >= next_allowed /\ entries' = entries
      /\ selected' = selected \cup {p} /\ next_allowed' = p + Nonoverlap
  BY DEF SelectCluster, NextAllowed
<1>2. /\ p \in Session /\ p \notin Visited
      /\ Visited' = Visited \cup {p}
      /\ \A v \in Visited : v < p
      /\ \A v \in Visited', q \in rest' : v < q
  BY <1>1, VisitInOrder
<1>3. Visited \subseteq Session /\ selected \subseteq Visited
  BY DEF ClusterInv, Visited
<1>4. Cardinality(selected') = Cardinality(selected) + 1 /\ Cardinality(selected) \in Nat
  <2>1. IsFiniteSet(selected) /\ p \notin selected /\ Cardinality(selected) \in Nat
    BY <1>2, <1>3, SessionsFinite
  <2> QED BY <2>1, <1>1, FS_AddElement
<1>5. \A T \in SUBSET Visited : Spaced(T) => Cardinality(T) < Cardinality(selected')
  <2>1. \A T \in SUBSET Visited : Cardinality(T) \in Nat
    BY <1>3, SessionsFinite
  <2> QED BY <2>1, <1>4 DEF ClusterInv
<1>6. ASSUME NEW T \in SUBSET Visited', Spaced(T)
      PROVE  Cardinality(T) <= Cardinality(selected')
  <2>1. CASE p \notin T
    <3>1. T \in SUBSET Visited /\ Cardinality(T) \in Nat
      BY <2>1, <1>2, <1>3, SessionsFinite
    <3> QED BY <3>1, <1>4, <1>5, <1>6
  <2>2. CASE p \in T
    <3>1. T \in SUBSET Session /\ T \ {p} \in SUBSET Visited /\ \A t \in T \ {p} : t < p
      BY <1>2, <1>3
    <3>2. Spaced(T \ {p}) /\ Cardinality(T) = Cardinality(T \ {p}) + 1
      BY <3>1, <2>2, <1>6, SpacedWithoutLast
    <3>3. Cardinality(T \ {p}) < Cardinality(selected') /\ Cardinality(T \ {p}) \in Nat
      BY <3>1, <3>2, <1>3, <1>5, SessionsFinite
    <3> QED BY <3>2, <3>3, <1>4
  <2> QED BY <2>1, <2>2
<1>7. ASSUME NEW T \in SUBSET Visited', Spaced(T),
             \A t \in T : t + Nonoverlap < next_allowed'
      PROVE  Cardinality(T) < Cardinality(selected')
  <2>1. p \notin T
    BY <1>1, <1>2, <1>7, SessionAssumption DEF Session
  <2> QED BY <2>1, <1>2, <1>5, <1>7
<1>8. /\ \A s \in selected : s + Nonoverlap <= p
      /\ \A s \in selected' : s + Nonoverlap <= next_allowed'
  BY <1>1, <1>2, <1>3, SessionAssumption DEF ClusterInv, Session
<1>9. Spaced(selected')
  BY <1>1, <1>2, <1>3, <1>8, SessionAssumption DEF ClusterInv, Spaced, Session
<1>10. entries \subseteq Session /\ rest' \subseteq entries
       /\ selected' \subseteq Visited'
       /\ next_allowed' \in {q + Nonoverlap : q \in selected'}
  BY <1>1, <1>2, <1>3 DEF ClusterInv, Visit
<1>11. /\ Spaced(selected)'
       /\ \A T \in SUBSET Visited' : Spaced(T)' => Cardinality(T) <= Cardinality(selected')
       /\ \A T \in SUBSET Visited' :
             Spaced(T)' /\ (\A t \in T : t + Nonoverlap < next_allowed')
                => Cardinality(T) < Cardinality(selected')
  BY <1>6, <1>7, <1>9 DEF Spaced
<1> QED BY <1>1, <1>2, <1>8, <1>10, <1>11 DEF ClusterInv

-----------------------------------------------------------------------------
\* The verdict is one of the three.
LEMMA StatusKnown ==
    \A failures, inconclusive :
        Status(failures, inconclusive) \in {"PASS", "FAIL", "INCONCLUSIVE"}
  BY DEF Status

\* The entries of well-timed evidence are sessions.
LEMMA EntriesAreSessions ==
    ASSUME \A e \in evidence : WellTimed(e)
    PROVE  EntriesOf(Primary(evidence)) \in SUBSET Session
  BY DEF EntriesOf, Primary, WellTimed

\* Initially the invariant holds.
LEMMA InitInv == Init => Inv
<1> SUFFICES ASSUME Init PROVE Inv
  OBVIOUS
<1>1. ClusterInv
  BY NoneSelected DEF Init, NoClusters
<1> QED BY <1>1 DEF Init, Inv, NoReport

\* A step that leaves the selection alone leaves its invariant alone.
LEMMA ClusterStutter == ClusterInv /\ UNCHANGED clusterVars => ClusterInv'
  BY DEF ClusterInv, clusterVars, Visited, Spaced

\* Every step keeps the invariant.
LEMMA StepInv == Inv /\ [Next]_vars => Inv'
<1> SUFFICES ASSUME Inv, [Next]_vars PROVE Inv'
  OBVIOUS
<1> USE DEF Inv
<1>1. ASSUME NEW e \in Episodes, ReadEpisode(e) PROVE Inv'
  <2>1. ClusterInv'
    BY <1>1, ClusterStutter DEF ReadEpisode
  <2>2. /\ evidence' = evidence \cup {e}
        /\ timing_errors' = (timing_errors \/ ~WellTimed(e))
        /\ phase = "reading" /\ phase' = "reading"
        /\ UNCHANGED <<baseline, report>>
    BY <1>1 DEF ReadEpisode
  <2>3. ~timing_errors' => \A d \in evidence' : WellTimed(d)
    BY <2>2
  <2>4. timing_errors' \in BOOLEAN
    BY <2>2
  <2>5. ~timing_errors' => \A d \in evidence' : WellTimed(d)'
    BY <2>3 DEF WellTimed
  <2> QED BY <2>1, <2>2, <2>4, <2>5
<1>2. ASSUME RefuseRow \/ RefuseTiming \/ RefuseBaseline PROVE Inv'
  <2>1. /\ UNCHANGED <<clusterVars, evidence, timing_errors, baseline, report>>
        /\ phase' = "raised"
    BY <1>2 DEF RefuseRow, RefuseTiming, RefuseBaseline
  <2>2. ClusterInv'
    BY <2>1, ClusterStutter
  <2> QED BY <2>1, <2>2 DEF WellTimed
<1>3. CASE EndReading
  <2>1. /\ ~timing_errors /\ phase' = "selecting"
        /\ UNCHANGED <<evidence, timing_errors, baseline, report>>
        /\ StartSelection(EntriesOf(Primary(evidence)))
    BY <1>3 DEF EndReading
  <2>2. PICK S \in SUBSET Session : StartSelection(S)
    BY <2>1, EntriesAreSessions
  <2>3. entries' = S /\ rest' = S /\ selected' = {} /\ next_allowed' = -1
    BY <2>2 DEF StartSelection
  <2>4. ClusterInv'
    <3>1. \A T \in SUBSET Visited' : Cardinality(T) <= Cardinality({})
      BY <2>3, FS_EmptySet DEF Visited
    <3> QED BY <2>3, <3>1 DEF ClusterInv, Visited, Spaced
  <2> QED BY <2>1, <2>4 DEF WellTimed
<1>4. CASE Selecting
  <2>1. ClusterInv'
    BY <1>4, SkipKeeps, SelectKeeps DEF Selecting
  <2> QED BY <1>4, <2>1 DEF Selecting, WellTimed
<1>5. CASE Report
  <2>1. ClusterInv'
    BY <1>5, ClusterStutter DEF Report
  <2>2. report'.status \in {"PASS", "FAIL", "INCONCLUSIVE"}
    <3> DEFINE failures == Failures(evidence, selected)
               inconclusive == Inconclusive(evidence, selected)
    <3>1. report' = [status |-> Status(failures, inconclusive),
                     failures |-> failures, inconclusive |-> inconclusive]
      BY <1>5 DEF Report
    <3> HIDE DEF failures, inconclusive
    <3> QED BY <3>1, StatusKnown
  <2>3. phase = "selecting" /\ phase' = "reported"
        /\ UNCHANGED <<evidence, timing_errors, baseline>>
    BY <1>5 DEF Report
  <2> QED BY <2>1, <2>2, <2>3 DEF WellTimed
<1>6. CASE UNCHANGED vars
  <2>1. ClusterInv'
    BY <1>6, ClusterStutter DEF vars
  <2> QED BY <1>6, <2>1 DEF vars, WellTimed
<1> QED BY <1>1, <1>2, <1>3, <1>4, <1>5, <1>6 DEF Next, Ended

\* The inductive invariant holds in every reachable state.
THEOREM InvCorrect == Spec => []Inv
  BY InitInv, StepInv, PTL DEF Spec

\* The state of the evaluation has its type.
THEOREM TypeCorrect == Spec => []TypeOK
<1>1. Inv => TypeOK
  BY DEF Inv, ClusterInv, TypeOK, Visited
<1> QED BY <1>1, InvCorrect, PTL

\* No two windows that count as independent share a session.
THEOREM Independence == Spec => []WindowsDisjoint
<1>1. Inv => WindowsDisjoint
  BY DEF Inv, ClusterInv, WindowsDisjoint
<1> QED BY <1>1, InvCorrect, PTL

\* The greedy selection is a largest one.
THEOREM GreedyIsLargest == Spec => []SelectionIsLargest
<1>1. Inv => SelectionIsLargest
  BY DEF Inv, ClusterInv, SelectionIsLargest, Visited
<1> QED BY <1>1, InvCorrect, PTL

\* No session of the evaluated evidence is shared between folds, nor lies in
\* the research history or its embargo.
THEOREM NoLeakage == Spec => []FoldsShareNoSession
<1>1. ASSUME NEW e \in Episodes, WellTimed(e), NEW t \in Window(e)
      PROVE  /\ t \in Int /\ e.fold \in Fold
             /\ FoldStart[e.fold] <= t /\ t <= FoldEnd[e.fold]
  BY <1>1, EpisodeAssumption, ProtocolAssumption DEF ValidProtocol, WellTimed, Window, Session
<1>2. ASSUME NEW f \in Fold, NEW t \in Int, FoldStart[f] <= t
      PROVE  t > ResearchEnd + Nonoverlap
  <2>1. FoldStart[f] \in Int /\ ResearchEnd \in Int /\ Nonoverlap \in Int
    BY ProtocolAssumption, SessionAssumption DEF ValidProtocol, Session
  <2>2. FoldStart[f] - ResearchEnd > Nonoverlap
    BY ProtocolAssumption DEF ValidProtocol
  <2> QED BY <1>2, <2>1, <2>2
<1>3. ASSUME NEW f \in Fold, NEW g \in Fold, f # g, NEW t \in Int,
             FoldStart[f] <= t, t <= FoldEnd[f], FoldStart[g] <= t, t <= FoldEnd[g]
      PROVE  FALSE
  <2>1. {FoldStart[f], FoldEnd[f], FoldStart[g], FoldEnd[g]} \subseteq Int
    BY ProtocolAssumption, SessionAssumption DEF ValidProtocol, Session
  <2>2. FoldEnd[f] < FoldStart[g] \/ FoldEnd[g] < FoldStart[f]
    BY <1>3, ProtocolAssumption DEF ValidProtocol
  <2> QED BY <1>3, <2>1, <2>2
<1>4. Inv => FoldsShareNoSession
  BY <1>1, <1>2, <1>3 DEF Inv, FoldsShareNoSession
<1> QED BY <1>4, InvCorrect, PTL

-----------------------------------------------------------------------------
(* Medians.  A median is known by how many values lie on either side of it.  *)

\* A non-empty set of natural numbers has a least one.
LEMMA LeastNatural ==
    ASSUME NEW T \in SUBSET Nat, T # {}
    PROVE  \E x \in T : \A y \in T : x <= y
<1> DEFINE R == {ss \in Nat \X Nat : ss[1] < ss[2]}
<1>1. IsWellFoundedOn(R, Nat)
  BY NatLessThanWellFounded DEF OpToRel
<1>2. \A x, y \in Nat : y < x => <<y, x>> \in R
  OBVIOUS
<1> HIDE DEF R
<1>3. PICK x \in T : \A y \in T : ~ (<<y, x>> \in R)
  BY <1>1, WFMin
<1>4. ASSUME NEW y \in T PROVE x <= y
  <2>1. x \in Nat /\ y \in Nat /\ ~(y < x)
    BY <1>2, <1>3
  <2> QED BY <2>1
<1> QED BY <1>4

Below(S, f, v) == {x \in S : f[x] < v}
UpTo(S, f, v) == {x \in S : f[x] <= v}

LEMMA PartsAreFinite ==
    ASSUME NEW S, IsFiniteSet(S), NEW T \in SUBSET S
    PROVE  IsFiniteSet(T) /\ Cardinality(T) \in Nat /\ Cardinality(S) \in Nat
           /\ Cardinality(T) <= Cardinality(S)
BY FS_Subset, FS_CardinalityType

LEMMA MoreIsMore ==
    ASSUME NEW S, IsFiniteSet(S), NEW A \in SUBSET S, NEW B \in SUBSET A
    PROVE  /\ Cardinality(A) \in Nat /\ Cardinality(B) \in Nat
           /\ Cardinality(B) <= Cardinality(A)
           /\ A # B => Cardinality(B) < Cardinality(A)
<1>1. IsFiniteSet(A) /\ Cardinality(A) \in Nat
  BY PartsAreFinite
<1>2. IsFiniteSet(B) /\ Cardinality(B) \in Nat /\ Cardinality(B) <= Cardinality(A)
  BY <1>1, PartsAreFinite
<1>3. A # B => Cardinality(A) # Cardinality(B)
  BY <1>1, FS_Subset
<1> QED BY <1>1, <1>2, <1>3

\* Some value is not exceeded.
LEMMA LargestValue ==
    ASSUME NEW S, IsFiniteSet(S), S # {}, NEW f, \A x \in S : f[x] \in Int
    PROVE  \E x \in S : UpTo(S, f, f[x]) = S
<1> DEFINE above(x) == Cardinality(S \ UpTo(S, f, f[x]))
           T == {above(x) : x \in S}
<1>1. \A x \in S : above(x) \in Nat
  <2> SUFFICES ASSUME NEW x \in S PROVE above(x) \in Nat
    OBVIOUS
  <2>1. S \ UpTo(S, f, f[x]) \in SUBSET S
    OBVIOUS
  <2> QED BY <2>1, PartsAreFinite
<1>2. T \in SUBSET Nat /\ T # {}
  BY <1>1
<1>3. PICK n \in T : \A m \in T : n <= m
  <2> HIDE DEF T
  <2> QED BY <1>2, LeastNatural
<1>4. PICK x \in S : n = above(x)
  OBVIOUS
<1>5. UpTo(S, f, f[x]) = S
  <2> SUFFICES ASSUME NEW y \in S, f[y] > f[x] PROVE FALSE
    BY DEF UpTo
  <2>1. S \ UpTo(S, f, f[y]) \subseteq S \ UpTo(S, f, f[x])
    BY DEF UpTo
  <2>2. y \in S \ UpTo(S, f, f[x]) /\ y \notin S \ UpTo(S, f, f[y])
    BY DEF UpTo
  <2>3. S \ UpTo(S, f, f[x]) \in SUBSET S
    OBVIOUS
  <2>4. above(y) < above(x)
    BY <2>1, <2>2, <2>3, MoreIsMore
  <2>5. n <= above(y) /\ above(x) \in Nat /\ above(y) \in Nat
    BY <1>1, <1>3
  <2> HIDE DEF above
  <2> QED BY <1>4, <2>4, <2>5
<1> QED BY <1>5

\* The k-th smallest value: fewer than k are smaller, and k are not larger.
LEMMA OrderStatisticIs ==
    ASSUME NEW S, IsFiniteSet(S), NEW f, \A x \in S : f[x] \in Int,
           NEW k \in 1 .. Cardinality(S)
    PROVE  LET v == OrderStatistic(S, f, k)
           IN  /\ v \in Int
               /\ Cardinality(Below(S, f, v)) < k
               /\ Cardinality(UpTo(S, f, v)) >= k
<1>1. Cardinality(S) \in Nat /\ k \in Nat /\ k >= 1 /\ k <= Cardinality(S)
  BY FS_CardinalityType
<1>2. S # {}
  BY <1>1, FS_EmptySet
<1> DEFINE rank(x) == Cardinality(UpTo(S, f, f[x]))
           Enough == {x \in S : rank(x) >= k}
           T == {rank(x) : x \in Enough}
<1>3. \A x \in S : rank(x) \in Nat
  <2> SUFFICES ASSUME NEW x \in S PROVE rank(x) \in Nat
    OBVIOUS
  <2>1. UpTo(S, f, f[x]) \in SUBSET S
    BY DEF UpTo
  <2> QED BY <2>1, PartsAreFinite
<1>4. Enough # {}
  <2>1. PICK x \in S : UpTo(S, f, f[x]) = S
    BY <1>2, LargestValue
  <2> QED BY <2>1, <1>1
<1>5. T \in SUBSET Nat /\ T # {}
  BY <1>3, <1>4
<1>6. PICK n \in T : \A m \in T : n <= m
  <2> HIDE DEF T
  <2> QED BY <1>5, LeastNatural
<1>7. PICK x \in Enough : n = rank(x)
  OBVIOUS
<1>8. Cardinality(Below(S, f, f[x])) < k
  <2> SUFFICES ASSUME ~(Cardinality(Below(S, f, f[x])) < k) PROVE FALSE
    OBVIOUS
  <2> DEFINE B == Below(S, f, f[x])
  <2>1. B \in SUBSET S /\ x \notin B /\ x \in S
    BY DEF Below
  <2>2. IsFiniteSet(B) /\ Cardinality(B) \in Nat /\ Cardinality(B) >= k
    BY <2>1, <1>1, PartsAreFinite
  <2>3. B # {}
    BY <2>2, <1>1, FS_EmptySet
  <2>4. PICK y \in B : UpTo(B, f, f[y]) = B
    <3>1. \A z \in B : f[z] \in Int
      BY <2>1
    <3> HIDE DEF B
    <3> QED BY <2>2, <2>3, <3>1, LargestValue
  <2>5. UpTo(S, f, f[y]) = B
    <3>1. \A z \in S : f[z] <= f[y] <=> z \in B
      BY <2>1, <2>4 DEF Below, UpTo
    <3> QED BY <2>1, <3>1 DEF UpTo
  <2>6. y \in Enough /\ rank(y) = Cardinality(B)
    BY <2>1, <2>2, <2>5
  <2>7. B \subseteq UpTo(S, f, f[x]) /\ x \in UpTo(S, f, f[x]) /\ UpTo(S, f, f[x]) \in SUBSET S
    BY <2>1 DEF Below, UpTo
  <2>8. Cardinality(B) < rank(x)
    <3> HIDE DEF B
    <3> QED BY <2>1, <2>7, MoreIsMore
  <2>9. n <= rank(y) /\ rank(x) \in Nat
    BY <2>6, <1>3, <1>6
  <2> HIDE DEF rank, B
  <2> QED BY <1>7, <2>2, <2>6, <2>8, <2>9
<1>9. \E v \in {f[y] : y \in S} :
          /\ Cardinality({y \in S : f[y] < v}) < k
          /\ Cardinality({y \in S : f[y] <= v}) >= k
  BY <1>7, <1>8 DEF Below, UpTo
<1>10. LET v == OrderStatistic(S, f, k)
       IN  /\ v \in {f[y] : y \in S}
           /\ Cardinality({y \in S : f[y] < v}) < k
           /\ Cardinality({y \in S : f[y] <= v}) >= k
  BY <1>9 DEF OrderStatistic
<1> QED BY <1>10 DEF Below, UpTo

\* The two order statistics whose sum is twice the median.
LEMMA MedianIs ==
    ASSUME NEW S, IsFiniteSet(S), S # {}, NEW f, \A x \in S : f[x] \in Int
    PROVE  \E u, v \in Int :
               /\ TwiceMedian(S, f) = u + v /\ u <= v
               /\ Cardinality(Below(S, f, v)) < Cardinality(S) \div 2 + 1
               /\ Cardinality(UpTo(S, f, u)) >= (Cardinality(S) + 1) \div 2
<1> DEFINE n == Cardinality(S)
           k == (n + 1) \div 2
           l == n \div 2 + 1
           u == OrderStatistic(S, f, k)
           v == OrderStatistic(S, f, l)
<1>1. n \in Nat /\ n # 0
  BY FS_CardinalityType, FS_EmptySet
<1>2. k \in 1 .. n /\ l \in 1 .. n /\ k <= l
  <2> HIDE DEF n
  <2> QED BY <1>1
<1>3. /\ u \in Int /\ Cardinality(Below(S, f, u)) < k /\ Cardinality(UpTo(S, f, u)) >= k
  <2> HIDE DEF k
  <2> QED BY <1>2, OrderStatisticIs
<1>4. /\ v \in Int /\ Cardinality(Below(S, f, v)) < l /\ Cardinality(UpTo(S, f, v)) >= l
  <2> HIDE DEF l
  <2> QED BY <1>2, OrderStatisticIs
<1>5. TwiceMedian(S, f) = u + v
  BY DEF TwiceMedian
<1>6. u <= v
  <2> SUFFICES ASSUME v < u PROVE FALSE
    <3> HIDE DEF u, v
    <3> QED BY <1>3, <1>4
  <2>1. UpTo(S, f, v) \subseteq Below(S, f, u) /\ Below(S, f, u) \in SUBSET S
    <3> HIDE DEF u, v
    <3> QED BY <1>3, <1>4 DEF UpTo, Below
  <2>2. Cardinality(UpTo(S, f, v)) <= Cardinality(Below(S, f, u))
        /\ Cardinality(UpTo(S, f, v)) \in Nat /\ Cardinality(Below(S, f, u)) \in Nat
    <3> HIDE DEF u, v
    <3> QED BY <2>1, MoreIsMore
  <2> HIDE DEF u, v, k, l, n
  <2>3. k \in Int /\ l \in Int
    BY <1>2
  <2> QED BY <1>2, <1>3, <1>4, <2>2, <2>3
<1> HIDE DEF u, v
<1> QED BY <1>3, <1>4, <1>5, <1>6

LEMMA MedianIsInteger ==
    ASSUME NEW S, IsFiniteSet(S), S # {}, NEW f, \A x \in S : f[x] \in Int
    PROVE  TwiceMedian(S, f) \in Int
<1>1. PICK u, v \in Int : TwiceMedian(S, f) = u + v
  BY MedianIs
<1> QED BY <1>1

\* A positive median: at least half of the values are positive.
LEMMA PositiveMedian ==
    ASSUME NEW S, IsFiniteSet(S), S # {}, NEW f, \A x \in S : f[x] \in Int,
           TwiceMedian(S, f) > 0
    PROVE  2 * Cardinality({x \in S : f[x] > 0}) >= Cardinality(S)
<1> DEFINE n == Cardinality(S)
           P == {x \in S : f[x] > 0}
<1>1. PICK u, v \in Int : /\ TwiceMedian(S, f) = u + v /\ u <= v
                          /\ Cardinality(Below(S, f, v)) < n \div 2 + 1
  BY MedianIs
<1>2. v > 0
  BY <1>1
<1>3. S \ P \subseteq Below(S, f, v) /\ Below(S, f, v) \in SUBSET S /\ P \in SUBSET S
  BY <1>2 DEF Below
<1>4. /\ Cardinality(S \ P) <= Cardinality(Below(S, f, v))
      /\ Cardinality(S \ P) \in Nat /\ Cardinality(Below(S, f, v)) \in Nat
  <2> HIDE DEF P
  <2> QED BY <1>3, MoreIsMore
<1>5. n = Cardinality(P) + Cardinality(S \ P) /\ Cardinality(P) \in Nat
  <2>1. IsFiniteSet(P) /\ Cardinality(P) \in Nat
    <3> HIDE DEF P
    <3> QED BY <1>3, PartsAreFinite
  <2>2. Cardinality(S \ P) = Cardinality(S) - Cardinality(S \cap P)
    <3> HIDE DEF P
    <3> QED BY FS_Difference
  <2>3. S \cap P = P /\ Cardinality(S) \in Nat
    BY FS_CardinalityType
  <2> HIDE DEF P
  <2> QED BY <2>1, <2>2, <2>3
<1>6. n \in Nat
  BY FS_CardinalityType
<1> HIDE DEF n, P
<1>7. Cardinality(S \ P) <= n \div 2
  <2>1. n \div 2 \in Nat
    BY <1>6
  <2> QED BY <1>1, <1>4, <2>1
<1>8. 2 * (n \div 2) <= n
  BY <1>6
<1>9. 2 * Cardinality(P) >= n
  <2> DEFINE a == Cardinality(P)
             b == Cardinality(S \ P)
             h == n \div 2
  <2>1. a \in Nat /\ b \in Nat /\ h \in Nat /\ n = a + b /\ b <= h /\ 2 * h <= n
    BY <1>4, <1>5, <1>6, <1>7, <1>8
  <2> HIDE DEF a, b, h
  <2>2. 2 * a >= n
    BY <2>1
  <2> QED BY <2>2 DEF a
<1> QED BY <1>9 DEF P, n

\* When more than half of the values are not positive, neither is the median.
LEMMA MedianOfLosses ==
    ASSUME NEW S, IsFiniteSet(S), S # {}, NEW f, \A x \in S : f[x] \in Int,
           2 * Cardinality({x \in S : f[x] <= 0}) > Cardinality(S)
    PROVE  TwiceMedian(S, f) <= 0
<1> DEFINE n == Cardinality(S)
           L == {x \in S : f[x] <= 0}
<1>1. PICK u, v \in Int : /\ TwiceMedian(S, f) = u + v /\ u <= v
                          /\ Cardinality(Below(S, f, v)) < n \div 2 + 1
  BY MedianIs
<1>2. v <= 0
  <2> SUFFICES ASSUME v > 0 PROVE FALSE
    BY <1>1
  <2>1. L \subseteq Below(S, f, v) /\ Below(S, f, v) \in SUBSET S
    BY DEF Below
  <2>2. /\ Cardinality(L) <= Cardinality(Below(S, f, v))
        /\ Cardinality(L) \in Nat /\ Cardinality(Below(S, f, v)) \in Nat
    <3> HIDE DEF L
    <3> QED BY <2>1, MoreIsMore
  <2>3. n \in Nat /\ 2 * Cardinality(L) > n
    BY FS_CardinalityType
  <2> DEFINE a == Cardinality(L)
             b == Cardinality(Below(S, f, v))
  <2>4. a \in Nat /\ b \in Nat /\ a <= b /\ b < n \div 2 + 1 /\ n \in Nat /\ 2 * a > n
    BY <1>1, <2>2, <2>3
  <2> HIDE DEF a, b, n
  <2> QED BY <2>4
<1> QED BY <1>1, <1>2

\* A stream of primary episodes, of which a part of the clusters is selected.
Stream(ep, sel) == ep \subseteq Episodes /\ IsFiniteSet(ep) /\ sel \subseteq EntriesOf(ep)

\* Each cluster has a number, whichever of the four values is asked for.
LEMMA ClustersHaveMedians ==
    ASSUME NEW ep, NEW sel, Stream(ep, sel),
           NEW value, \A e \in ep : value[e] \in Int
    PROVE  /\ IsFiniteSet(sel)
           /\ \A p \in sel : ClusterMedians(ep, value)[p] \in Int
<1>1. \A p \in sel : ClusterMedians(ep, value)[p] \in Int
  <2> SUFFICES ASSUME NEW p \in sel PROVE ClusterMedians(ep, value)[p] \in Int
    OBVIOUS
  <2> DEFINE members == {e \in ep : e.entry = p}
             f == [e \in members |-> value[e]]
  <2>1. p \in EntriesOf(ep) /\ members # {}
    BY DEF Stream, EntriesOf
  <2>2. IsFiniteSet(members)
    BY PartsAreFinite DEF Stream
  <2>3. \A e \in members : f[e] \in Int
    OBVIOUS
  <2>4. TwiceMedian(members, f) \in Int
    <3> HIDE DEF members, f
    <3> QED BY <2>1, <2>2, <2>3, MedianIsInteger
  <2> QED BY <2>1, <2>4 DEF ClusterMedians
<1>2. IsFiniteSet(sel)
  <2> DEFINE entry == [e \in ep |-> e.entry]
             T == EntriesOf(ep)
  <2>1. entry \in Surjection(ep, T)
    BY DEF EntriesOf, Surjection
  <2>2. IsFiniteSet(T)
    BY <2>1, FS_Surjection DEF Stream
  <2> QED BY <2>2, FS_Subset DEF Stream
<1> QED BY <1>1, <1>2

LEMMA ValuesAreIntegers ==
    ASSUME NEW ep \in SUBSET Episodes
    PROVE  /\ \A e \in ep : SpyOf(ep)[e] \in Int
           /\ \A e \in ep : CashOf(ep)[e] \in Int
           /\ \A e \in ep : StressSpyOf(ep)[e] \in Int
<1> SUFFICES ASSUME NEW e \in ep
             PROVE  SpyOf(ep)[e] \in Int /\ CashOf(ep)[e] \in Int /\ StressSpyOf(ep)[e] \in Int
  OBVIOUS
<1>1. e.spy \in Int /\ e.cash \in Int
  BY EpisodeAssumption
<1> QED BY <1>1 DEF SpyOf, CashOf, StressSpyOf

-----------------------------------------------------------------------------
(* The findings. *)

\* What the absence of findings says, as far as the properties ask.
LEMMA NoFailures ==
    ASSUME NEW ev, NEW sel, Failures(ev, sel) = {}
    PROVE  /\ \A e \in ev : Complete(e) => e.coherent
           /\ sel # {} => ~(Median4(Primary(ev), sel, StressSpyOf(Primary(ev))) <= 0)
<1>1. "inconsistent_friction_scenario_inputs" \notin Failures(ev, sel)
  OBVIOUS
<1>2. "median_50bps_stress_excess_spy_not_positive" \notin Failures(ev, sel)
  OBVIOUS
<1>3. ~(\E e \in ev : Complete(e) /\ ~e.coherent)
  <2> SUFFICES ASSUME \E e \in ev : Complete(e) /\ ~e.coherent PROVE FALSE
    OBVIOUS
  <2> QED BY <1>1 DEF Failures
<1>4. ~(sel # {} /\ Median4(Primary(ev), sel, StressSpyOf(Primary(ev))) <= 0)
  <2> SUFFICES ASSUME sel # {} /\ Median4(Primary(ev), sel, StressSpyOf(Primary(ev))) <= 0 PROVE FALSE
    OBVIOUS
  <2> QED BY <1>2 DEF Failures
<1> QED BY <1>3, <1>4

LEMMA NothingMissing ==
    ASSUME NEW ev, NEW sel, Inconclusive(ev, sel) = {}
    PROVE  /\ \A e \in ev : Complete(e)
           /\ \A e \in Primary(ev) : e.drawdown
           /\ ~(Cardinality(sel) < MinIndependent)
           /\ \A f \in Fold : ~(Cardinality(InFold(sel, f)) < MinPerFold)
           /\ baseline # NoBaseline
<1>1. \A e \in ev : Complete(e)
  <2> SUFFICES ASSUME \E e \in ev : ~Complete(e) PROVE FALSE
    OBVIOUS
  <2>1. "incomplete_0_10_25bps_friction_scenarios" \in Inconclusive(ev, sel)
    BY DEF Inconclusive
  <2> QED BY <2>1
<1>2. \A e \in Primary(ev) : e.drawdown
  <2> SUFFICES ASSUME \E e \in Primary(ev) : ~e.drawdown PROVE FALSE
    OBVIOUS
  <2>1. "max_drawdown_missing_for_clean_primary_observations" \in Inconclusive(ev, sel)
    BY DEF Inconclusive
  <2> QED BY <2>1
<1>3. ~(Cardinality(sel) < MinIndependent)
  <2> SUFFICES ASSUME Cardinality(sel) < MinIndependent PROVE FALSE
    OBVIOUS
  <2>1. "independent_episode_count_below_20" \in Inconclusive(ev, sel)
    BY DEF Inconclusive
  <2> QED BY <2>1
<1>4. \A f \in Fold : ~(Cardinality(InFold(sel, f)) < MinPerFold)
  <2> SUFFICES ASSUME \E f \in Fold : Cardinality(InFold(sel, f)) < MinPerFold PROVE FALSE
    OBVIOUS
  <2>1. "fold_independent_count_below_5" \in Inconclusive(ev, sel)
    BY DEF Inconclusive
  <2> QED BY <2>1
<1>5. baseline # NoBaseline
  <2> SUFFICES ASSUME baseline = NoBaseline PROVE FALSE
    OBVIOUS
  <2>1. "simple_dip_baseline_missing" \in Inconclusive(ev, sel)
    BY DEF Inconclusive
  <2> QED BY <2>1
<1> QED BY <1>1, <1>2, <1>3, <1>4, <1>5

LEMMA AdverseFindings ==
    ASSUME NEW ev, NEW sel,
           \/ \E e \in ev : Complete(e) /\ ~e.coherent
           \/ sel # {} /\ Median4(Primary(ev), sel, SpyOf(Primary(ev))) <= 0
           \/ sel # {} /\ Median4(Primary(ev), sel, CashOf(Primary(ev))) <= 0
    PROVE  Failures(ev, sel) # {}
<1>1. CASE \E e \in ev : Complete(e) /\ ~e.coherent
  <2>1. "inconsistent_friction_scenario_inputs" \in Failures(ev, sel)
    BY <1>1 DEF Failures
  <2> QED BY <2>1
<1>2. CASE sel # {} /\ Median4(Primary(ev), sel, SpyOf(Primary(ev))) <= 0
  <2>1. "median_25bps_excess_spy_not_positive" \in Failures(ev, sel)
    BY <1>2 DEF Failures
  <2> QED BY <2>1
<1>3. CASE sel # {} /\ Median4(Primary(ev), sel, CashOf(Primary(ev))) <= 0
  <2>1. "median_25bps_excess_cash_not_positive" \in Failures(ev, sel)
    BY <1>3 DEF Failures
  <2> QED BY <2>1
<1> QED BY <1>1, <1>2, <1>3

-----------------------------------------------------------------------------
\* The verdict in the report is that of the evidence and the selection beside it:
\* neither changes any more, and the clusters are those of the evidence.
VerdictInv ==
    /\ IsFiniteSet(evidence)
    /\ entries \subseteq EntriesOf(Primary(evidence))
    /\ phase # "reported" => report = NoReport
    /\ phase = "reported" =>
           report.status = Status(Failures(evidence, selected), Inconclusive(evidence, selected))

LEMMA VerdictStep == VerdictInv /\ [Next]_vars => VerdictInv'
<1> SUFFICES ASSUME VerdictInv, [Next]_vars PROVE VerdictInv'
  OBVIOUS
<1>1. ASSUME NEW e \in Episodes, ReadEpisode(e) PROVE VerdictInv'
  <2>1. /\ evidence' = evidence \cup {e} /\ phase = "reading" /\ phase' = phase
        /\ UNCHANGED <<entries, report>>
    BY <1>1 DEF ReadEpisode, clusterVars
  <2>2. IsFiniteSet(evidence')
    BY <2>1, FS_AddElement DEF VerdictInv
  <2>3. entries' \subseteq EntriesOf(Primary(evidence'))
    BY <2>1 DEF VerdictInv, EntriesOf, Primary
  <2> QED BY <2>1, <2>2, <2>3 DEF VerdictInv, NoReport
<1>2. ASSUME RefuseRow \/ RefuseTiming \/ RefuseBaseline PROVE VerdictInv'
  <2>1. /\ UNCHANGED <<entries, evidence, report>>
        /\ phase # "reported" /\ phase' = "raised"
    BY <1>2 DEF RefuseRow, RefuseTiming, RefuseBaseline, clusterVars
  <2> QED BY <2>1 DEF VerdictInv, NoReport
<1>3. CASE EndReading
  <2>1. /\ phase = "reading" /\ phase' = "selecting" /\ UNCHANGED <<evidence, report>>
        /\ entries' = EntriesOf(Primary(evidence))
    BY <1>3 DEF EndReading, StartSelection
  <2> QED BY <2>1 DEF VerdictInv, NoReport
<1>4. CASE Selecting
  <2>1. /\ phase = "selecting" /\ phase' = phase /\ UNCHANGED <<evidence, report, entries>>
    BY <1>4 DEF Selecting, SkipCluster, SelectCluster
  <2> QED BY <2>1 DEF VerdictInv, NoReport
<1>5. CASE Report
  <2> DEFINE failures == Failures(evidence, selected)
             inconclusive == Inconclusive(evidence, selected)
  <2>1. /\ report' = [status |-> Status(failures, inconclusive),
                      failures |-> failures, inconclusive |-> inconclusive]
        /\ phase' = "reported" /\ UNCHANGED <<evidence, entries, selected, baseline>>
    BY <1>5 DEF Report, clusterVars
  <2>2. Failures(evidence, selected)' = failures /\ Inconclusive(evidence, selected)' = inconclusive
    BY <2>1 DEF Failures, Inconclusive
  <2>3. report'.status = Status(failures, inconclusive)
    <3> HIDE DEF failures, inconclusive
    <3> QED BY <2>1
  <2>4. Status(failures, inconclusive)
            = Status(Failures(evidence, selected), Inconclusive(evidence, selected))'
    <3> HIDE DEF failures, inconclusive
    <3> QED BY <2>2 DEF Status
  <2> QED BY <2>1, <2>3, <2>4 DEF VerdictInv
<1>6. CASE UNCHANGED vars
  <2>1. UNCHANGED <<phase, evidence, entries, selected, baseline, report>>
    BY <1>6 DEF vars, clusterVars
  <2>2. /\ Failures(evidence, selected)' = Failures(evidence, selected)
        /\ Inconclusive(evidence, selected)' = Inconclusive(evidence, selected)
    BY <2>1 DEF Failures, Inconclusive
  <2>3. Status(Failures(evidence, selected), Inconclusive(evidence, selected))'
            = Status(Failures(evidence, selected), Inconclusive(evidence, selected))
    BY <2>2 DEF Status
  <2> QED BY <2>1, <2>3 DEF VerdictInv, NoReport
<1> QED BY <1>1, <1>2, <1>3, <1>4, <1>5, <1>6 DEF Next, Ended

\* The report of an evaluation is the verdict over what it read and selected.
THEOREM VerdictCorrect == Spec => []VerdictInv
<1>1. Init => VerdictInv
  BY FS_EmptySet DEF Init, NoClusters, VerdictInv
<1> QED BY <1>1, VerdictStep, PTL DEF Spec

LEMMA StreamOfEvidence ==
    ASSUME Inv, VerdictInv
    PROVE  Stream(Primary(evidence), selected)
<1>1. selected \subseteq entries
  BY DEF Inv, ClusterInv, Visited
<1>2. Primary(evidence) \subseteq evidence /\ evidence \subseteq Episodes
  BY DEF Primary, Inv
<1>3. IsFiniteSet(Primary(evidence))
  BY <1>2, FS_Subset DEF VerdictInv
<1> QED BY <1>1, <1>2, <1>3 DEF Stream, VerdictInv

\* A PASS needs complete evidence, the minima and a positive median of the stress
\* scenario, and that median has half of the windows behind it, for every stream of
\* episodes and every minimum (backtest_v1.py 384-500).
THEOREM PassEarned == Spec => []PassIsEarned
<1>1. Inv /\ VerdictInv => PassIsEarned
  <2> SUFFICES ASSUME Inv, VerdictInv, report.status = "PASS" PROVE PassIsEarned
    BY DEF PassIsEarned
  <2> DEFINE failures == Failures(evidence, selected)
             inconclusive == Inconclusive(evidence, selected)
  <2>1. failures = {} /\ inconclusive = {}
    <3>1. phase = "reported"
      BY DEF VerdictInv, NoReport
    <3>2. Status(failures, inconclusive) = "PASS"
      BY <3>1 DEF VerdictInv
    <3> HIDE DEF failures, inconclusive
    <3> QED BY <3>2 DEF Status
  <2>2. /\ \A e \in evidence : Complete(e)
        /\ \A e \in Primary(evidence) : e.drawdown
        /\ ~(Cardinality(selected) < MinIndependent)
        /\ \A f \in Fold : ~(Cardinality(InFold(selected, f)) < MinPerFold)
        /\ baseline # NoBaseline
    BY <2>1, NothingMissing
  <2>3. Primary(evidence) = evidence
    BY <2>2 DEF Primary, Complete, Friction
  <2>4. /\ \A e \in evidence : Complete(e) => e.coherent
        /\ selected # {} => ~(Median4(evidence, selected, StressSpyOf(evidence)) <= 0)
    BY <2>1, <2>3, NoFailures
  <2>5. Stream(evidence, selected)
    BY <2>3, StreamOfEvidence
  <2> DEFINE medians == ClusterMedians(evidence, StressSpyOf(evidence))
  <2>6. IsFiniteSet(selected) /\ \A p \in selected : medians[p] \in Int
    <3>1. \A e \in evidence : StressSpyOf(evidence)[e] \in Int
      BY <2>5, ValuesAreIntegers DEF Stream
    <3> QED BY <3>1, <2>5, ClustersHaveMedians
  <2>7. \A f \in Fold : Cardinality(InFold(selected, f)) \in Nat
    BY <2>6, PartsAreFinite DEF InFold
  <2>8. 2 * Cardinality({p \in selected : medians[p] > 0}) >= Cardinality(selected)
    <3>1. CASE selected = {}
      <4>1. {p \in selected : medians[p] > 0} = {}
        BY <3>1
      <4> QED BY <3>1, <4>1, FS_EmptySet
    <3>2. CASE selected # {}
      <4>1. ~(TwiceMedian(selected, medians) <= 0)
        BY <2>4, <3>2 DEF Median4
      <4> HIDE DEF medians
      <4>2. TwiceMedian(selected, medians) \in Int
        BY <2>6, <3>2, MedianIsInteger
      <4> QED BY <4>1, <4>2, <2>6, <3>2, PositiveMedian
    <3> QED BY <3>1, <3>2
  <2>9. Cardinality(selected) >= MinIndependent
    <3>1. Cardinality(selected) \in Nat /\ MinIndependent \in Nat
      BY <2>6, FS_CardinalityType, MinimaAssumption
    <3> QED BY <3>1, <2>2
  <2>10. \A f \in Fold : Cardinality(InFold(selected, f)) >= MinPerFold
    <3>1. MinPerFold \in Nat
      BY MinimaAssumption
    <3> QED BY <3>1, <2>2, <2>7
  <2>11. \A e \in evidence : e.frictions = Friction /\ e.coherent /\ e.drawdown
    BY <2>2, <2>3, <2>4 DEF Complete
  <2> HIDE DEF failures, inconclusive
  <2> QED BY <2>2, <2>8, <2>9, <2>10, <2>11 DEF PassIsEarned
<1> QED BY <1>1, InvCorrect, VerdictCorrect, PTL

\* Missing data does not hide a loss: when most windows trail SPY or cash, or an
\* episode's scenarios disagree, the verdict is FAIL whatever else is missing.
THEOREM FailureNotHidden == Spec => []FailureIsNotHidden
<1>1. ASSUME Inv, VerdictInv, selected # {}, NEW value,
             \A e \in Primary(evidence) : value[e] \in Int,
             2 * Cardinality({p \in selected : ClusterMedians(Primary(evidence), value)[p] <= 0})
                 > Cardinality(selected)
      PROVE  Median4(Primary(evidence), selected, value) <= 0
  <2> DEFINE medians == ClusterMedians(Primary(evidence), value)
  <2>1. IsFiniteSet(selected) /\ \A p \in selected : medians[p] \in Int
    BY <1>1, StreamOfEvidence, ClustersHaveMedians
  <2>2. TwiceMedian(selected, medians) <= 0
    <3>1. 2 * Cardinality({p \in selected : medians[p] <= 0}) > Cardinality(selected)
      BY <1>1
    <3> HIDE DEF medians
    <3> QED BY <1>1, <2>1, <3>1, MedianOfLosses
  <2> QED BY <2>2 DEF Median4
<1>2. Inv /\ VerdictInv => FailureIsNotHidden
  <2> DEFINE ep == Primary(evidence)
             behind(value) == {p \in selected : ClusterMedians(ep, value)[p] <= 0}
  <2> SUFFICES ASSUME Inv, VerdictInv, phase = "reported",
                      \/ \E e \in evidence : Complete(e) /\ ~e.coherent
                      \/ 2 * Cardinality(behind(SpyOf(ep))) > Cardinality(selected)
                      \/ 2 * Cardinality(behind(CashOf(ep))) > Cardinality(selected)
               PROVE  report.status = "FAIL"
    BY DEF FailureIsNotHidden
  <2>1. ep \in SUBSET Episodes
    BY StreamOfEvidence DEF Stream
  <2>2. ASSUME NEW value, 2 * Cardinality(behind(value)) > Cardinality(selected)
        PROVE  selected # {}
    <3> SUFFICES ASSUME selected = {} PROVE FALSE
      OBVIOUS
    <3>1. behind(value) = {}
      OBVIOUS
    <3>2. Cardinality(behind(value)) = 0 /\ Cardinality(selected) = 0
      <4> HIDE DEF behind
      <4> QED BY <3>1, FS_EmptySet
    <3> HIDE DEF behind
    <3> QED BY <3>2, <2>2
  <2>3. CASE \E e \in evidence : Complete(e) /\ ~e.coherent
    <3>1. Failures(evidence, selected) # {}
      BY <2>3, AdverseFindings
    <3> QED BY <3>1 DEF VerdictInv, Status
  <2>4. CASE 2 * Cardinality(behind(SpyOf(ep))) > Cardinality(selected)
    <3>1. selected # {} /\ Median4(ep, selected, SpyOf(ep)) <= 0
      BY <2>1, <2>2, <2>4, <1>1, ValuesAreIntegers
    <3>2. Failures(evidence, selected) # {}
      BY <3>1, AdverseFindings
    <3> QED BY <3>2 DEF VerdictInv, Status
  <2>5. CASE 2 * Cardinality(behind(CashOf(ep))) > Cardinality(selected)
    <3>1. selected # {} /\ Median4(ep, selected, CashOf(ep)) <= 0
      BY <2>1, <2>2, <2>5, <1>1, ValuesAreIntegers
    <3>2. Failures(evidence, selected) # {}
      BY <3>1, AdverseFindings
    <3> QED BY <3>2 DEF VerdictInv, Status
  <2> QED BY <2>3, <2>4, <2>5
<1> QED BY <1>2, InvCorrect, VerdictCorrect, PTL

-----------------------------------------------------------------------------
(***************************************************************************)
(* Fractions in lowest terms.  Money, weights and returns of the replay    *)
(* are exact, so equality of two amounts is equality of two records: that  *)
(* each value has one such form is what the audit's comparisons rest on.   *)
(***************************************************************************)

\* d divides n.
Divides(d, n) == \E k \in Int : n = d * k
CommonDivisors(a, b) == {d \in Nat : Divides(d, a) /\ Divides(d, b)}

\* A factor that is not zero cancels.
LEMMA Cancel ==
    ASSUME NEW a \in Int, NEW b \in Int, NEW c \in Int, c # 0, a * c = b * c
    PROVE  a = b
OBVIOUS

\* What integer division says, in the form the solver can use.
LEMMA Remainder ==
    ASSUME NEW a \in Nat, NEW b \in Nat, b # 0
    PROVE  /\ a \div b \in Nat
           /\ a % b \in Nat
           /\ a % b < b
           /\ a = b * (a \div b) + (a % b)
OBVIOUS

\* What divides two numbers divides their combinations.
LEMMA DivisorsOfSum ==
    ASSUME NEW d \in Int, NEW a \in Int, NEW b \in Int, NEW q \in Int, Divides(d, a), Divides(d, b),
           NEW c \in Int, c = a * q + b
    PROVE  Divides(d, c)
<1>1. PICK k \in Int : a = d * k
  BY DEF Divides
<1>2. PICK l \in Int : b = d * l
  BY DEF Divides
<1>3. c = d * (k * q + l)
  BY <1>1, <1>2
<1>4. k * q + l \in Int
  OBVIOUS
<1> QED BY <1>3, <1>4 DEF Divides

\* A divisor is not larger than what it divides.
LEMMA DivisorIsSmaller ==
    ASSUME NEW d \in Nat, NEW b \in Nat, b # 0, Divides(d, b)
    PROVE  d # 0 /\ d <= b
<1>1. PICK k \in Int : b = d * k
  BY DEF Divides
<1>2. d # 0
  BY <1>1
<1>3. k >= 1
  BY <1>1, <1>2
<1> QED BY <1>1, <1>2, <1>3

\* A step of Euclid's algorithm keeps the common divisors.
LEMMA SameDivisors ==
    ASSUME NEW a \in Nat, NEW b \in Nat, b # 0
    PROVE  CommonDivisors(a, b) = CommonDivisors(b, a % b)
<1>1. /\ a \div b \in Nat /\ a % b \in Nat
      /\ a = b * (a \div b) + (a % b)
  BY Remainder
<1>2. a % b = b * (-(a \div b)) + a
  BY <1>1
<1>3. -(a \div b) \in Int /\ a \in Int /\ b \in Int /\ a \div b \in Int /\ a % b \in Int
  BY <1>1
<1>4. ASSUME NEW d \in Nat, Divides(d, a), Divides(d, b) PROVE Divides(d, a % b)
  <2> d \in Int OBVIOUS
  <2> QED BY <1>2, <1>3, <1>4, DivisorsOfSum
<1>5. ASSUME NEW d \in Nat, Divides(d, b), Divides(d, a % b) PROVE Divides(d, a)
  <2> d \in Int OBVIOUS
  <2> QED BY <1>1, <1>3, <1>5, DivisorsOfSum
<1> QED BY <1>4, <1>5 DEF CommonDivisors

\* The largest of a set of numbers.
Greatest(C) == CHOOSE g \in C : \A d \in C : d <= g

\* Euclid's algorithm is a function: each step has a smaller second argument.
LEMMA GcdExists ==
    gcd = [p \in Nat \X Nat |-> IF p[2] = 0 THEN p[1] ELSE gcd[<<p[2], p[1] % p[2]>>]]
<1> DEFINE g == [p \in Nat \X Nat |-> IF p[2] = 0 THEN p[1] ELSE Greatest(CommonDivisors(p[1], p[2]))]
<1>1. ASSUME NEW p \in Nat \X Nat, p[2] # 0
      PROVE  g[p] = g[<<p[2], p[1] % p[2]>>]
  <2> DEFINE a == p[1]
             b == p[2]
             C == CommonDivisors(a, b)
  <2>1. a \in Nat /\ b \in Nat /\ b # 0
    BY <1>1
  <2>2. a % b \in Nat /\ <<b, a % b>> \in Nat \X Nat
    BY <2>1, Remainder
  <2>3. C = CommonDivisors(b, a % b)
    BY <2>1, SameDivisors
  <2>4. CASE a % b # 0
    BY <2>1, <2>2, <2>3, <2>4
  <2>5. CASE a % b = 0
    <3>1. a = b * (a \div b) /\ a \div b \in Nat
      BY <2>1, <2>5, Remainder
    <3>2. b \in C
      <4>1. Divides(b, a) /\ Divides(b, b)
        <5>1. b = b * 1 /\ 1 \in Int
          BY <2>1
        <5> QED BY <3>1, <5>1 DEF Divides
      <4> QED BY <2>1, <4>1 DEF CommonDivisors
    <3>3. \A d \in C : d \in Nat /\ d <= b
      BY <2>1, DivisorIsSmaller DEF CommonDivisors
    <3>4. Greatest(C) = b
      <4> HIDE DEF C, b
      <4>1. \A x \in C : (\A d \in C : d <= x) => x = b
        BY <2>1, <3>2, <3>3
      <4> QED BY <3>2, <3>3, <4>1 DEF Greatest
    <3> QED BY <2>1, <2>2, <2>5, <3>4
  <2> QED BY <2>4, <2>5
<1>2. g = [p \in Nat \X Nat |-> IF p[2] = 0 THEN p[1] ELSE g[<<p[2], p[1] % p[2]>>]]
  <2> DEFINE h == [p \in Nat \X Nat |-> IF p[2] = 0 THEN p[1] ELSE g[<<p[2], p[1] % p[2]>>]]
  <2>1. \A p \in Nat \X Nat : g[p] = h[p]
    BY <1>1
  <2>2. DOMAIN g = Nat \X Nat /\ DOMAIN h = Nat \X Nat
    OBVIOUS
  <2>3. g = [p \in Nat \X Nat |-> g[p]] /\ h = [p \in Nat \X Nat |-> h[p]]
    OBVIOUS
  <2> HIDE DEF g, h
  <2>4. g = h
    BY <2>1, <2>3
  <2> QED BY <2>4 DEF h
<1> HIDE DEF g
<1> QED BY <1>2 DEF gcd

\* g is a common divisor of a and b that every common divisor divides.
GcdOf(a, b, g) == /\ g \in Nat \ {0}
                  /\ Divides(g, a) /\ Divides(g, b)
                  /\ \E x, y \in Int : g = a * x + b * y

\* Euclid's algorithm finds a common divisor that is a combination of the two numbers.
LEMMA Gcd ==
    ASSUME NEW a \in Nat, NEW b \in Nat, a + b # 0
    PROVE  GcdOf(a, b, gcd[<<a, b>>])
<1> DEFINE Bad == {n \in Nat : \E m \in Nat : m + n # 0 /\ ~GcdOf(m, n, gcd[<<m, n>>])}
<1>1. ASSUME Bad # {} PROVE FALSE
  <2>1. PICK n \in Bad : \A k \in Bad : n <= k
    <3> Bad \in SUBSET Nat OBVIOUS
    <3> HIDE DEF Bad
    <3> QED BY <1>1, LeastNatural
  <2>2. PICK m \in Nat : m + n # 0 /\ ~GcdOf(m, n, gcd[<<m, n>>])
    OBVIOUS
  <2>3. n \in Nat
    OBVIOUS
  <2>4. gcd[<<m, n>>] = IF n = 0 THEN m ELSE gcd[<<n, m % n>>]
    <3> <<m, n>> \in Nat \X Nat BY <2>3
    <3> QED BY GcdExists
  <2>5. CASE n = 0
    <3>1. m = m * 1 + n * 0 /\ m = m * 1 /\ n = m * 0 /\ m # 0
      BY <2>2, <2>5
    <3>2. GcdOf(m, n, m)
      BY <3>1 DEF GcdOf, Divides
    <3> QED BY <2>2, <2>4, <2>5, <3>2
  <2>6. CASE n # 0
    <3> DEFINE r == m % n
               q == m \div n
               g == gcd[<<n, r>>]
    <3>1. r \in Nat /\ r < n /\ q \in Nat /\ m = n * q + r
      BY <2>3, <2>6, Remainder
    <3>2. r \notin Bad
      BY <2>1, <2>3, <3>1
    <3>3. n + r # 0
      BY <2>3, <2>6, <3>1
    <3>4. GcdOf(n, r, g)
      BY <2>3, <3>1, <3>2, <3>3
    <3> HIDE DEF r, q, g
    <3>5. PICK x, y \in Int : g = n * x + r * y
      BY <3>4 DEF GcdOf
    <3>6. g = m * y + n * (x - q * y)
      <4>1. r = m - n * q
        BY <2>3, <3>1
      <4>2. g = n * x + (m - n * q) * y
        BY <3>5, <4>1
      <4> QED BY <2>3, <3>1, <4>2
    <3>7. y \in Int /\ x - q * y \in Int
      BY <3>1
    <3>8. Divides(g, m)
      <4>1. g \in Int /\ Divides(g, n) /\ Divides(g, r)
        BY <3>4 DEF GcdOf
      <4>2. n \in Int /\ q \in Int /\ r \in Int /\ m \in Int /\ m = n * q + r
        BY <2>3, <3>1
      <4> HIDE DEF Bad
      <4> QED BY ONLY <4>1, <4>2, DivisorsOfSum, Zenon
    <3>9. GcdOf(m, n, g)
      BY <3>4, <3>6, <3>7, <3>8 DEF GcdOf
    <3> QED BY <2>2, <2>4, <2>6, <3>9 DEF g, r
  <2> QED BY <2>5, <2>6
<1> QED BY <1>1

-----------------------------------------------------------------------------

\* m is the denominator of a way to write n / d.
Writes(m, n, d) == \E k \in Int : n * m = d * k

\* Frac keeps the value, with the least denominator that can write it.
LEMMA LowestTerms ==
    ASSUME NEW n \in Int, NEW d \in Positive
    PROVE  /\ Frac(n, d) \in [num : Int, den : Positive]
           /\ Frac(n, d).num * d = n * Frac(n, d).den
           /\ Writes(Frac(n, d).den, n, d)
           /\ \A m \in Positive : Writes(m, n, d) => Frac(n, d).den <= m
<1> DEFINE g == gcd[<<Size(n), d>>]
<1>1. Size(n) \in Nat /\ d \in Nat /\ Size(n) + d # 0 /\ Size(n) \in {n, -n}
  BY DEF Size, Positive
<1>2. GcdOf(Size(n), d, g)
  BY <1>1, Gcd
<1> HIDE DEF g
<1>3. g \in Positive
  BY <1>2 DEF GcdOf, Positive
<1>4. PICK k \in Int : n = g * k
  <2>1. PICK l \in Int : Size(n) = g * l
    BY <1>2 DEF GcdOf, Divides
  <2>2. n = g * l \/ n = g * (-l)
    BY <1>1, <1>3, <2>1 DEF Positive
  <2> QED BY <2>2
<1>5. PICK l \in Int : d = g * l
  BY <1>2 DEF GcdOf, Divides
<1>6. l \in Positive
  BY <1>3, <1>5 DEF Positive
<1>7. PICK x \in Int, y \in Int : g = n * x + d * y
  <2>1. PICK u \in Int, y \in Int : g = Size(n) * u + d * y
    BY <1>2 DEF GcdOf
  <2>2. CASE Size(n) = n
    BY <2>1, <2>2
  <2>3. CASE Size(n) = -n
    <3>1. g = n * (-u) + d * y /\ -u \in Int
      BY <2>1, <2>3 DEF Positive
    <3> QED BY <3>1
  <2> QED BY <1>1, <2>2, <2>3
<1>8. n \div g = k /\ d \div g = l
  BY <1>3, <1>4, <1>5 DEF Positive
<1>9. Frac(n, d) = [num |-> k, den |-> l]
  BY <1>8 DEF Frac, g
<1>10. k * d = n * l
  BY <1>3, <1>4, <1>5, <1>6 DEF Positive
<1>11. Writes(l, n, d)
  <2> n * l = d * k BY <1>10 DEF Positive
  <2> QED BY DEF Writes
<1>12. ASSUME NEW m \in Positive, Writes(m, n, d) PROVE l <= m
  <2>1. PICK j \in Int : n * m = d * j
    BY <1>12 DEF Writes
  <2>2. g * m = (n * m) * x + d * (m * y)
    BY <1>7 DEF Positive
  <2>3. g * m = g * (l * (j * x + m * y))
    BY <1>3, <1>5, <1>6, <2>1, <2>2 DEF Positive
  <2>4. m = l * (j * x + m * y)
    <3> m \in Int /\ g \in Int /\ g # 0 /\ l * (j * x + m * y) \in Int BY <1>3, <1>6 DEF Positive
    <3> QED BY <2>3
  <2>5. j * x + m * y \in Int
    BY DEF Positive
  <2>6. j * x + m * y >= 1
    BY <1>6, <2>4, <2>5 DEF Positive
  <2> QED BY <1>6, <2>4, <2>5, <2>6 DEF Positive
<1> QED BY <1>6, <1>9, <1>10, <1>11, <1>12

\* A value has one form in lowest terms.
LEMMA SameFraction ==
    ASSUME NEW n \in Int, NEW d \in Positive, NEW m \in Int, NEW e \in Positive, n * e = m * d
    PROVE  Frac(n, d) = Frac(m, e)
<1> DEFINE p == Frac(n, d)
           q == Frac(m, e)
<1>1. /\ p \in [num : Int, den : Positive] /\ p.num * d = n * p.den
      /\ Writes(p.den, n, d) /\ \A j \in Positive : Writes(j, n, d) => p.den <= j
  BY LowestTerms
<1>2. /\ q \in [num : Int, den : Positive] /\ q.num * e = m * q.den
      /\ Writes(q.den, m, e) /\ \A j \in Positive : Writes(j, m, e) => q.den <= j
  BY LowestTerms
<1> HIDE DEF p, q
<1>3. ASSUME NEW j \in Positive PROVE Writes(j, n, d) <=> Writes(j, m, e)
  <2>1. ASSUME NEW k \in Int, n * j = d * k PROVE m * j = e * k
    <3>1. (m * j) * d = (n * j) * e
      BY DEF Positive
    <3>2. (m * j) * d = (e * k) * d
      BY <2>1, <3>1 DEF Positive
    <3> QED BY <3>2, Cancel DEF Positive
  <2>2. ASSUME NEW k \in Int, m * j = e * k PROVE n * j = d * k
    <3>1. (n * j) * e = (m * j) * d
      BY DEF Positive
    <3>2. (n * j) * e = (d * k) * e
      BY <2>2, <3>1 DEF Positive
    <3> QED BY <3>2, Cancel DEF Positive
  <2> QED BY <2>1, <2>2 DEF Writes
<1>4. p.den = q.den
  BY <1>1, <1>2, <1>3 DEF Positive
<1>5. (p.num * d) * e = (q.num * e) * d
  BY <1>1, <1>2, <1>4 DEF Positive
<1>6. p.num = q.num
  <2>1. p.num \in Int /\ q.num \in Int /\ d * e \in Int /\ d * e # 0
    BY <1>1, <1>2 DEF Positive
  <2>2. p.num * (d * e) = q.num * (d * e)
    BY <1>5, <2>1 DEF Positive
  <2> QED BY <2>1, <2>2, Cancel
<1>7. p = [num |-> p.num, den |-> p.den] /\ q = [num |-> q.num, den |-> q.den]
  BY <1>1, <1>2
<1> QED BY <1>4, <1>6, <1>7 DEF p, q


\* Frac gives a fraction in lowest terms of the value it is given.
LEMMA FracIsFraction ==
    ASSUME NEW n \in Int, NEW d \in Positive
    PROVE  /\ Frac(n, d) \in Fraction
           /\ Frac(n, d).num * d = n * Frac(n, d).den
<1>1. /\ Frac(n, d) \in [num : Int, den : Positive]
      /\ Frac(n, d).num * d = n * Frac(n, d).den
  BY LowestTerms
<1>2. Frac(n, d) = Frac(Frac(n, d).num, Frac(n, d).den)
  BY <1>1, SameFraction
<1> QED BY <1>1, <1>2 DEF Fraction

\* A fraction is its numerator over its denominator.
LEMMA FractionTyped ==
    ASSUME NEW p \in Fraction
    PROVE  p.num \in Int /\ p.den \in Positive /\ p = Frac(p.num, p.den)
BY DEF Fraction

\* Fractions of one value are the same record.
LEMMA EqualFractions ==
    ASSUME NEW p \in Fraction, NEW q \in Fraction, p.num * q.den = q.num * p.den
    PROVE  p = q
BY FractionTyped, SameFraction

\* A sum of two fractions, however they are written.
LEMMA AddFrac ==
    ASSUME NEW a \in Int, NEW b \in Positive, NEW c \in Int, NEW d \in Positive
    PROVE  Add(Frac(a, b), Frac(c, d)) = Frac(a * d + c * b, b * d)
<1> DEFINE p == Frac(a, b)
           q == Frac(c, d)
<1>1. p \in Fraction /\ q \in Fraction /\ p.num * b = a * p.den /\ q.num * d = c * q.den
  BY FracIsFraction
<1>2. p.num \in Int /\ p.den \in Positive /\ q.num \in Int /\ q.den \in Positive
  BY <1>1, FractionTyped
<1> HIDE DEF p, q
<1>3. (p.num * q.den + q.num * p.den) * (b * d) = (p.num * b) * (q.den * d) + (q.num * d) * (p.den * b)
  BY <1>2 DEF Positive
<1>4. (a * d + c * b) * (p.den * q.den) = (a * p.den) * (q.den * d) + (c * q.den) * (p.den * b)
  BY <1>2 DEF Positive
<1>5. (p.num * q.den + q.num * p.den) * (b * d) = (a * d + c * b) * (p.den * q.den)
  BY <1>1, <1>3, <1>4
<1>6. /\ p.num * q.den + q.num * p.den \in Int /\ p.den * q.den \in Positive
      /\ a * d + c * b \in Int /\ b * d \in Positive
  BY <1>2 DEF Positive
<1>7. Add(p, q) = Frac(a * d + c * b, b * d)
  BY <1>5, <1>6, SameFraction DEF Add
<1> QED BY <1>7 DEF p, q

\* A product of two fractions, however they are written.
LEMMA MulFrac ==
    ASSUME NEW a \in Int, NEW b \in Positive, NEW c \in Int, NEW d \in Positive
    PROVE  Mul(Frac(a, b), Frac(c, d)) = Frac(a * c, b * d)
<1> DEFINE p == Frac(a, b)
           q == Frac(c, d)
<1>1. p \in Fraction /\ q \in Fraction /\ p.num * b = a * p.den /\ q.num * d = c * q.den
  BY FracIsFraction
<1>2. p.num \in Int /\ p.den \in Positive /\ q.num \in Int /\ q.den \in Positive
  BY <1>1, FractionTyped
<1> HIDE DEF p, q
<1>3. (p.num * q.num) * (b * d) = (p.num * b) * (q.num * d)
  BY <1>2 DEF Positive
<1>4. (a * c) * (p.den * q.den) = (a * p.den) * (c * q.den)
  BY <1>2 DEF Positive
<1>5. (p.num * q.num) * (b * d) = (a * c) * (p.den * q.den)
  BY <1>1, <1>3, <1>4
<1>6. /\ p.num * q.num \in Int /\ p.den * q.den \in Positive
      /\ a * c \in Int /\ b * d \in Positive
  BY <1>2 DEF Positive
<1>7. Mul(p, q) = Frac(a * c, b * d)
  BY <1>5, <1>6, SameFraction DEF Mul
<1> QED BY <1>7 DEF p, q

\* A difference of two fractions, however they are written.
LEMMA SubFrac ==
    ASSUME NEW a \in Int, NEW b \in Positive, NEW c \in Int, NEW d \in Positive
    PROVE  Sub(Frac(a, b), Frac(c, d)) = Frac(a * d - c * b, b * d)
<1> DEFINE p == Frac(a, b)
           q == Frac(c, d)
<1>1. p \in Fraction /\ q \in Fraction /\ p.num * b = a * p.den /\ q.num * d = c * q.den
  BY FracIsFraction
<1>2. p.num \in Int /\ p.den \in Positive /\ q.num \in Int /\ q.den \in Positive
  BY <1>1, FractionTyped
<1> HIDE DEF p, q
<1>3. (p.num * q.den - q.num * p.den) * (b * d) = (p.num * b) * (q.den * d) - (q.num * d) * (p.den * b)
  BY <1>2 DEF Positive
<1>4. (a * d - c * b) * (p.den * q.den) = (a * p.den) * (q.den * d) - (c * q.den) * (p.den * b)
  BY <1>2 DEF Positive
<1>5. (p.num * q.den - q.num * p.den) * (b * d) = (a * d - c * b) * (p.den * q.den)
  BY <1>1, <1>3, <1>4
<1>6. /\ p.num * q.den - q.num * p.den \in Int /\ p.den * q.den \in Positive
      /\ a * d - c * b \in Int /\ b * d \in Positive
  BY <1>2 DEF Positive
<1>7. Sub(p, q) = Frac(a * d - c * b, b * d)
  BY <1>5, <1>6, SameFraction DEF Sub
<1> QED BY <1>7 DEF p, q

\* Order is kept by a positive factor.
LEMMA Ordered1 ==
    ASSUME NEW x \in Int, NEW y \in Int, NEW k \in Positive
    PROVE  (x <= y <=> x * k <= y * k) /\ (x < y <=> x * k < y * k)
BY DEF Positive

\* Order is that of the cross products, however the fractions are written.
LEMMA OrderFrac ==
    ASSUME NEW a \in Int, NEW b \in Positive, NEW c \in Int, NEW d \in Positive
    PROVE  /\ Leq(Frac(a, b), Frac(c, d)) <=> a * d <= c * b
           /\ Less(Frac(a, b), Frac(c, d)) <=> a * d < c * b
<1> DEFINE p == Frac(a, b)
           q == Frac(c, d)
<1>1. p \in Fraction /\ q \in Fraction /\ p.num * b = a * p.den /\ q.num * d = c * q.den
  BY FracIsFraction
<1>2. p.num \in Int /\ p.den \in Positive /\ q.num \in Int /\ q.den \in Positive
  BY <1>1, FractionTyped
<1> HIDE DEF p, q
<1> DEFINE x == p.num * q.den
           y == q.num * p.den
           u == a * d
           v == c * b
           k == b * d
           l == p.den * q.den
<1>3. x * k = (p.num * b) * (q.den * d) /\ y * k = (q.num * d) * (p.den * b)
  BY <1>2 DEF Positive
<1>4. u * l = (a * p.den) * (q.den * d) /\ v * l = (c * q.den) * (p.den * b)
  BY <1>2 DEF Positive
<1>5. x * k = u * l /\ y * k = v * l
  BY <1>1, <1>3, <1>4
<1>6. x \in Int /\ y \in Int /\ u \in Int /\ v \in Int /\ k \in Positive /\ l \in Positive
  BY <1>2 DEF Positive
<1> HIDE DEF x, y, u, v, k, l
<1>7. (x <= y <=> u <= v) /\ (x < y <=> u < v)
  BY <1>5, <1>6, Ordered1
<1>8. (Leq(p, q) <=> u <= v) /\ (Less(p, q) <=> u < v)
  BY <1>7 DEF Leq, Less, x, y
<1> QED BY <1>8 DEF p, q, u, v

\* A quotient by a positive fraction, however it is written.
LEMMA DivFrac ==
    ASSUME NEW a \in Int, NEW b \in Positive, NEW c \in Positive, NEW d \in Positive
    PROVE  Div(Frac(a, b), Frac(c, d)) = Frac(a * d, b * c)
<1> DEFINE p == Frac(a, b)
           q == Frac(c, d)
<1>0. c \in Int
  BY DEF Positive
<1>1. p \in Fraction /\ q \in Fraction /\ p.num * b = a * p.den /\ q.num * d = c * q.den
  BY <1>0, FracIsFraction
<1>2. p.num \in Int /\ p.den \in Positive /\ q.num \in Int /\ q.den \in Positive
  BY <1>1, FractionTyped
<1> HIDE DEF p, q
<1>3. q.num > 0 /\ q.num \in Positive
  <2>1. q.num * d > 0
    BY <1>1, <1>2 DEF Positive
  <2> QED BY <1>2, <2>1 DEF Positive
<1>4. (p.num * q.den) * (b * c) = (p.num * b) * (c * q.den)
  BY <1>2 DEF Positive
<1>5. (a * d) * (p.den * q.num) = (a * p.den) * (q.num * d)
  BY <1>2 DEF Positive
<1>6. (p.num * q.den) * (b * c) = (a * d) * (p.den * q.num)
  BY <1>1, <1>4, <1>5
<1>7. /\ p.num * q.den \in Int /\ p.den * q.num \in Positive
      /\ a * d \in Int /\ b * c \in Positive
  BY <1>2, <1>3 DEF Positive
<1>8. Div(p, q) = Frac(a * d, b * c)
  BY <1>3, <1>6, <1>7, SameFraction DEF Div
<1> QED BY <1>8 DEF p, q

\* Three fractions have a common denominator.
LEMMA CommonDenominator ==
    ASSUME NEW p \in Fraction, NEW q \in Fraction, NEW r \in Fraction
    PROVE  \E a, b, c \in Int, d \in Positive : p = Frac(a, d) /\ q = Frac(b, d) /\ r = Frac(c, d)
<1>1. /\ p.num \in Int /\ p.den \in Positive /\ p = Frac(p.num, p.den)
      /\ q.num \in Int /\ q.den \in Positive /\ q = Frac(q.num, q.den)
      /\ r.num \in Int /\ r.den \in Positive /\ r = Frac(r.num, r.den)
  BY FractionTyped
<1> DEFINE d == p.den * q.den * r.den
           a == p.num * (q.den * r.den)
           b == q.num * (p.den * r.den)
           c == r.num * (p.den * q.den)
<1>2. a \in Int /\ b \in Int /\ c \in Int /\ d \in Positive
  BY <1>1 DEF Positive
<1>3. p.num * d = a * p.den /\ q.num * d = b * q.den /\ r.num * d = c * r.den
  BY <1>1 DEF Positive
<1> HIDE DEF a, b, c, d
<1>4. p = Frac(a, d) /\ q = Frac(b, d) /\ r = Frac(c, d)
  BY <1>1, <1>2, <1>3, SameFraction
<1> QED BY <1>2, <1>4

\* Over a common denominator, sums and order are those of the numerators.
LEMMA SameDenominator ==
    ASSUME NEW a \in Int, NEW b \in Int, NEW d \in Positive
    PROVE  /\ Add(Frac(a, d), Frac(b, d)) = Frac(a + b, d)
           /\ Sub(Frac(a, d), Frac(b, d)) = Frac(a - b, d)
           /\ Leq(Frac(a, d), Frac(b, d)) <=> a <= b
           /\ Less(Frac(a, d), Frac(b, d)) <=> a < b
           /\ Frac(a, d) = Frac(b, d) <=> a = b
<1>1. d * d \in Positive /\ (a * d) + (b * d) \in Int /\ (a * d) - (b * d) \in Int /\ d \in Int /\ d # 0
  BY DEF Positive
<1>2. (a * d + b * d) * d = (a + b) * (d * d) /\ (a * d - b * d) * d = (a - b) * (d * d)
  BY DEF Positive
<1>3. Add(Frac(a, d), Frac(b, d)) = Frac(a + b, d)
  BY <1>1, <1>2, AddFrac, SameFraction
<1>4. Sub(Frac(a, d), Frac(b, d)) = Frac(a - b, d)
  <2>1. a * d - b * d \in Int /\ a - b \in Int
    BY <1>1
  <2>2. Frac(a * d - b * d, d * d) = Frac(a - b, d)
    BY <1>1, <1>2, <2>1, SameFraction
  <2> QED BY <2>2, SubFrac
<1>5. Leq(Frac(a, d), Frac(b, d)) <=> a <= b
  BY OrderFrac, Ordered1
<1>6. Less(Frac(a, d), Frac(b, d)) <=> a < b
  BY OrderFrac, Ordered1
<1>7. ASSUME Frac(a, d) = Frac(b, d) PROVE a = b
  <2>1. a * d <= b * d /\ b * d <= a * d
    <3>1. Leq(Frac(a, d), Frac(a, d)) /\ Leq(Frac(a, d), Frac(b, d)) /\ Leq(Frac(b, d), Frac(a, d))
      <4>1. a * d <= a * d
        BY DEF Positive
      <4>2. Leq(Frac(a, d), Frac(a, d))
        BY <4>1, OrderFrac
      <4> QED BY <1>7, <4>2
    <3> QED BY <3>1, OrderFrac
  <2> QED BY <1>1, <2>1
<1> QED BY <1>3, <1>4, <1>5, <1>6, <1>7

\* Zero and one are fractions.
LEMMA ZeroAndOne ==
    /\ Int0 \in Fraction /\ Int1 \in Fraction
    /\ \A d \in Positive : Int0 = Frac(0, d) /\ Int1 = Frac(d, d)
    /\ Less(Int0, Int1)
<1>1. 1 \in Positive
  BY DEF Positive
<1>2. Int0 \in Fraction /\ Int1 \in Fraction
  BY <1>1, FracIsFraction DEF Int0, Int1
<1>3. ASSUME NEW d \in Positive PROVE Int0 = Frac(0, d) /\ Int1 = Frac(d, d)
  <2>1. d \in Int /\ 0 * d = 0 * 1 /\ 1 * d = d * 1
    BY DEF Positive
  <2> QED BY <1>1, <2>1, SameFraction DEF Int0, Int1
<1>4. Less(Int0, Int1)
  BY <1>1, SameDenominator DEF Int0, Int1
<1> QED BY <1>2, <1>3, <1>4

\* The laws of addition and of order, which the numerators inherit from the integers.
LEMMA AddLaws ==
    ASSUME NEW p \in Fraction, NEW q \in Fraction, NEW r \in Fraction
    PROVE  /\ Add(p, q) \in Fraction /\ Sub(p, q) \in Fraction
           /\ Add(p, q) = Add(q, p)
           /\ Add(Add(p, q), r) = Add(p, Add(q, r))
           /\ Add(p, Int0) = p /\ Add(Int0, p) = p /\ Sub(p, Int0) = p /\ Sub(p, p) = Int0
           /\ Add(Sub(p, q), q) = p /\ Sub(Add(p, q), q) = p
           /\ Sub(p, q) = r <=> p = Add(r, q)
           /\ Sub(Sub(p, q), r) = Sub(p, Add(q, r))
           /\ Sub(p, Sub(q, r)) = Add(Sub(p, q), r)
           /\ Add(p, Sub(q, r)) = Sub(Add(p, q), r)
<1>1. PICK a, b, c \in Int, d \in Positive : p = Frac(a, d) /\ q = Frac(b, d) /\ r = Frac(c, d)
  BY CommonDenominator
<1>2. Int0 = Frac(0, d)
  BY ZeroAndOne
<1>3. \A x, y \in Int : /\ Add(Frac(x, d), Frac(y, d)) = Frac(x + y, d)
                        /\ Sub(Frac(x, d), Frac(y, d)) = Frac(x - y, d)
                        /\ Frac(x, d) = Frac(y, d) <=> x = y
                        /\ Frac(x, d) \in Fraction
  BY SameDenominator, FracIsFraction
<1>4. /\ Add(p, q) = Frac(a + b, d) /\ Add(q, p) = Frac(b + a, d) /\ Add(q, r) = Frac(b + c, d)
      /\ Sub(p, q) = Frac(a - b, d) /\ Sub(q, r) = Frac(b - c, d) /\ Add(r, q) = Frac(c + b, d)
  BY <1>1, <1>3
<1>5. a + b \in Int /\ a - b \in Int /\ b + c \in Int /\ b - c \in Int /\ c + b \in Int /\ 0 \in Int
  OBVIOUS
<1>6. /\ Add(p, q) \in Fraction /\ Sub(p, q) \in Fraction /\ Add(p, q) = Add(q, p)
      /\ Add(Add(p, q), r) = Add(p, Add(q, r))
  <2>1. Add(Add(p, q), r) = Frac((a + b) + c, d)
    BY <1>1, <1>3, <1>4, <1>5
  <2>2. Add(p, Add(q, r)) = Frac(a + (b + c), d)
    BY <1>1, <1>3, <1>4, <1>5
  <2>3. (a + b) + c = a + (b + c) /\ a + b = b + a
    OBVIOUS
  <2> QED BY <1>3, <1>4, <1>5, <2>1, <2>2, <2>3
<1>7. Add(p, Int0) = p /\ Add(Int0, p) = p /\ Sub(p, Int0) = p /\ Sub(p, p) = Int0
  <2>1. Add(p, Int0) = Frac(a + 0, d) /\ Add(Int0, p) = Frac(0 + a, d) /\ Sub(p, Int0) = Frac(a - 0, d)
        /\ Sub(p, p) = Frac(a - a, d)
    BY <1>1, <1>2, <1>3, <1>5
  <2>2. a + 0 = a /\ 0 + a = a /\ a - 0 = a /\ a - a = 0
    OBVIOUS
  <2> QED BY <1>1, <1>2, <2>1, <2>2
<1>8. Add(Sub(p, q), q) = p /\ Sub(Add(p, q), q) = p
  <2>1. Add(Sub(p, q), q) = Frac((a - b) + b, d) /\ Sub(Add(p, q), q) = Frac((a + b) - b, d)
    BY <1>1, <1>3, <1>4, <1>5
  <2>2. (a - b) + b = a /\ (a + b) - b = a
    OBVIOUS
  <2> QED BY <1>1, <2>1, <2>2
<1>9. Sub(p, q) = r <=> p = Add(r, q)
  <2>1. \A x, y \in Int : Frac(x, d) = Frac(y, d) <=> x = y
    BY <1>3
  <2>2. Sub(p, q) = r <=> a - b = c
    BY <1>1, <1>4, <1>5, <2>1
  <2>3. p = Add(r, q) <=> a = c + b
    BY <1>1, <1>4, <1>5, <2>1
  <2> QED BY <2>2, <2>3
<1>10. /\ Sub(Sub(p, q), r) = Sub(p, Add(q, r))
       /\ Sub(p, Sub(q, r)) = Add(Sub(p, q), r)
       /\ Add(p, Sub(q, r)) = Sub(Add(p, q), r)
  <2>1. Sub(Sub(p, q), r) = Frac((a - b) - c, d) /\ Sub(p, Add(q, r)) = Frac(a - (b + c), d)
    BY <1>1, <1>3, <1>4, <1>5
  <2>2. Sub(p, Sub(q, r)) = Frac(a - (b - c), d) /\ Add(Sub(p, q), r) = Frac((a - b) + c, d)
    BY <1>1, <1>3, <1>4, <1>5
  <2>3. Add(p, Sub(q, r)) = Frac(a + (b - c), d) /\ Sub(Add(p, q), r) = Frac((a + b) - c, d)
    BY <1>1, <1>3, <1>4, <1>5
  <2>4. (a - b) - c = a - (b + c) /\ a - (b - c) = (a - b) + c /\ a + (b - c) = (a + b) - c
    OBVIOUS
  <2> QED BY <2>1, <2>2, <2>3, <2>4
<1> QED BY <1>6, <1>7, <1>8, <1>9, <1>10

\* Order is total, and kept by addition and subtraction.
LEMMA OrderLaws ==
    ASSUME NEW p \in Fraction, NEW q \in Fraction, NEW r \in Fraction
    PROVE  /\ Leq(p, p)
           /\ Leq(p, q) /\ Leq(q, p) => p = q
           /\ Leq(p, q) /\ Leq(q, r) => Leq(p, r)
           /\ Less(p, q) <=> ~Leq(q, p)
           /\ Less(p, q) <=> Leq(p, q) /\ p # q
           /\ Leq(Add(p, r), Add(q, r)) <=> Leq(p, q)
           /\ Less(Add(p, r), Add(q, r)) <=> Less(p, q)
           /\ Leq(Int0, Sub(q, p)) <=> Leq(p, q)
           /\ Less(Int0, Sub(q, p)) <=> Less(p, q)
<1>1. PICK a, b, c \in Int, d \in Positive : p = Frac(a, d) /\ q = Frac(b, d) /\ r = Frac(c, d)
  BY CommonDenominator
<1>2. Int0 = Frac(0, d)
  BY ZeroAndOne
<1>3. \A x, y \in Int : /\ Add(Frac(x, d), Frac(y, d)) = Frac(x + y, d)
                        /\ Sub(Frac(x, d), Frac(y, d)) = Frac(x - y, d)
                        /\ Frac(x, d) = Frac(y, d) <=> x = y
                        /\ Leq(Frac(x, d), Frac(y, d)) <=> x <= y
                        /\ Less(Frac(x, d), Frac(y, d)) <=> x < y
  BY SameDenominator
<1>4. /\ Add(p, r) = Frac(a + c, d) /\ Add(q, r) = Frac(b + c, d) /\ Sub(q, p) = Frac(b - a, d)
      /\ a + c \in Int /\ b + c \in Int /\ b - a \in Int /\ 0 \in Int
  BY <1>1, <1>3
<1>5. /\ Leq(p, p) <=> a <= a
      /\ Leq(p, q) <=> a <= b
      /\ Leq(q, p) <=> b <= a
      /\ Leq(q, r) <=> b <= c
      /\ Leq(p, r) <=> a <= c
      /\ Less(p, q) <=> a < b
      /\ p = q <=> a = b
  BY <1>1, <1>3
<1>6. /\ Leq(Add(p, r), Add(q, r)) <=> a + c <= b + c
      /\ Less(Add(p, r), Add(q, r)) <=> a + c < b + c
      /\ Leq(Int0, Sub(q, p)) <=> 0 <= b - a
      /\ Less(Int0, Sub(q, p)) <=> 0 < b - a
  <2>1. \A x, y \in Int : Leq(Frac(x, d), Frac(y, d)) <=> x <= y
    BY <1>3
  <2>2. \A x, y \in Int : Less(Frac(x, d), Frac(y, d)) <=> x < y
    BY <1>3
  <2>3. (Leq(Add(p, r), Add(q, r)) <=> a + c <= b + c) /\ (Leq(Int0, Sub(q, p)) <=> 0 <= b - a)
    BY <1>2, <1>4, <2>1
  <2>4. (Less(Add(p, r), Add(q, r)) <=> a + c < b + c) /\ (Less(Int0, Sub(q, p)) <=> 0 < b - a)
    BY <1>2, <1>4, <2>2
  <2> QED BY <2>3, <2>4
<1> QED BY <1>5, <1>6

\* The laws of multiplication.
LEMMA MulLaws ==
    ASSUME NEW p \in Fraction, NEW q \in Fraction, NEW r \in Fraction
    PROVE  /\ Mul(p, q) \in Fraction
           /\ Mul(p, q) = Mul(q, p)
           /\ Mul(Mul(p, q), r) = Mul(p, Mul(q, r))
           /\ Mul(p, Int1) = p /\ Mul(Int1, p) = p
           /\ Mul(p, Int0) = Int0 /\ Mul(Int0, p) = Int0
           /\ Mul(p, Add(q, r)) = Add(Mul(p, q), Mul(p, r))
           /\ Mul(p, Sub(q, r)) = Sub(Mul(p, q), Mul(p, r))
<1>1. PICK a, b, c \in Int, d \in Positive : p = Frac(a, d) /\ q = Frac(b, d) /\ r = Frac(c, d)
  BY CommonDenominator
<1> DEFINE e == d * d
           f == d * e
<1>2. e \in Positive /\ f \in Positive /\ e * d = f
  BY DEF Positive
<1>3. Int0 = Frac(0, e) /\ Int1 = Frac(1, 1) /\ Int0 = Frac(0, d) /\ 1 \in Positive
  BY <1>2, ZeroAndOne DEF Int1, Positive
<1>4. \A x, y \in Int : /\ Mul(Frac(x, d), Frac(y, d)) = Frac(x * y, e)
                        /\ Frac(x, e) \in Fraction
                        /\ Add(Frac(x, d), Frac(y, d)) = Frac(x + y, d)
                        /\ Sub(Frac(x, d), Frac(y, d)) = Frac(x - y, d)
                        /\ Add(Frac(x, e), Frac(y, e)) = Frac(x + y, e)
                        /\ Sub(Frac(x, e), Frac(y, e)) = Frac(x - y, e)
                        /\ Mul(Frac(x, d), Frac(y, e)) = Frac(x * y, f)
                        /\ Mul(Frac(x, e), Frac(y, d)) = Frac(x * y, f)
                        /\ Mul(Frac(x, d), Frac(y, 1)) = Frac(x * y, d)
                        /\ Mul(Frac(y, 1), Frac(x, d)) = Frac(x * y, d)
  <2> TAKE x, y \in Int
  <2>1. Mul(Frac(x, d), Frac(y, d)) = Frac(x * y, e)
    BY MulFrac
  <2>2. Mul(Frac(x, d), Frac(y, e)) = Frac(x * y, f)
    BY <1>2, MulFrac
  <2>3. Mul(Frac(x, e), Frac(y, d)) = Frac(x * y, f)
    BY <1>2, MulFrac
  <2>4. d * 1 = d /\ 1 * d = d /\ y * x = x * y
    BY DEF Positive
  <2>5. Mul(Frac(x, d), Frac(y, 1)) = Frac(x * y, d) /\ Mul(Frac(y, 1), Frac(x, d)) = Frac(x * y, d)
    BY <1>3, <2>4, MulFrac
  <2> HIDE DEF e, f
  <2> QED BY <1>2, <2>1, <2>2, <2>3, <2>5, SameDenominator, FracIsFraction
<1> HIDE DEF e, f
<1>5. a * b \in Int /\ a * c \in Int /\ b * c \in Int /\ b + c \in Int /\ b - c \in Int
  OBVIOUS
<1>6. a * b = b * a /\ (a * b) * c = a * (b * c) /\ a * 0 = 0 /\ a * 1 = a
      /\ a * (b + c) = a * b + a * c /\ a * (b - c) = a * b - a * c
  OBVIOUS
<1>7. Mul(p, q) \in Fraction /\ Mul(p, q) = Mul(q, p) /\ Mul(p, Int1) = p /\ Mul(Int1, p) = p
  BY <1>1, <1>3, <1>4, <1>5, <1>6
<1>8. Mul(Mul(p, q), r) = Mul(p, Mul(q, r))
  BY <1>1, <1>4, <1>5, <1>6
<1>9. Mul(p, Int0) = Int0 /\ Mul(Int0, p) = Int0
  <2>1. Mul(Frac(a, d), Frac(0, d)) = Frac(a * 0, e) /\ Mul(Frac(0, d), Frac(a, d)) = Frac(0 * a, e) /\ 0 * a = 0
    BY <1>4
  <2> QED BY <1>1, <1>3, <1>6, <2>1
<1>10. Mul(p, Add(q, r)) = Add(Mul(p, q), Mul(p, r)) /\ Mul(p, Sub(q, r)) = Sub(Mul(p, q), Mul(p, r))
  <2>1. Add(q, r) = Frac(b + c, d) /\ Sub(q, r) = Frac(b - c, d)
    BY <1>1, <1>4
  <2>2. Mul(p, Add(q, r)) = Frac(a * (b + c), e) /\ Mul(p, Sub(q, r)) = Frac(a * (b - c), e)
    BY <1>1, <1>4, <1>5, <2>1
  <2>3. Mul(p, q) = Frac(a * b, e) /\ Mul(p, r) = Frac(a * c, e)
    BY <1>1, <1>4
  <2>4. /\ Add(Frac(a * b, e), Frac(a * c, e)) = Frac(a * b + a * c, e)
        /\ Sub(Frac(a * b, e), Frac(a * c, e)) = Frac(a * b - a * c, e)
    BY <1>4, <1>5
  <2> QED BY <1>6, <2>2, <2>3, <2>4
<1> QED BY <1>7, <1>8, <1>9, <1>10

\* Multiplication by what is not negative keeps the order.
LEMMA MulOrder ==
    ASSUME NEW p \in Fraction, NEW q \in Fraction, NEW r \in Fraction, Less(Int0, r)
    PROVE  /\ Leq(Mul(p, r), Mul(q, r)) <=> Leq(p, q)
           /\ Less(Mul(p, r), Mul(q, r)) <=> Less(p, q)
           /\ Mul(p, r) = Mul(q, r) => p = q
<1>1. PICK a, b, c \in Int, d \in Positive : p = Frac(a, d) /\ q = Frac(b, d) /\ r = Frac(c, d)
  BY CommonDenominator
<1>2. Int0 = Frac(0, d)
  BY ZeroAndOne
<1>3. c \in Positive
  BY <1>1, <1>2, SameDenominator DEF Positive
<1>4. d * d \in Positive /\ a * c \in Int /\ b * c \in Int
  BY DEF Positive
<1>5. Mul(p, r) = Frac(a * c, d * d) /\ Mul(q, r) = Frac(b * c, d * d)
  BY <1>1, MulFrac
<1>6. /\ Leq(Mul(p, r), Mul(q, r)) <=> a * c <= b * c
      /\ Less(Mul(p, r), Mul(q, r)) <=> a * c < b * c
      /\ Mul(p, r) = Mul(q, r) <=> a * c = b * c
  <2> DEFINE x == a * c
             y == b * c
             e == d * d
  <2>1. x \in Int /\ y \in Int /\ e \in Positive /\ Mul(p, r) = Frac(x, e) /\ Mul(q, r) = Frac(y, e)
    BY <1>4, <1>5
  <2> HIDE DEF x, y, e
  <2>2. /\ Leq(Frac(x, e), Frac(y, e)) <=> x <= y
        /\ Less(Frac(x, e), Frac(y, e)) <=> x < y
        /\ Frac(x, e) = Frac(y, e) <=> x = y
    BY <2>1, SameDenominator
  <2>3. /\ Leq(Mul(p, r), Mul(q, r)) <=> x <= y
        /\ Less(Mul(p, r), Mul(q, r)) <=> x < y
        /\ Mul(p, r) = Mul(q, r) <=> x = y
    BY <2>1, <2>2
  <2> QED BY <2>3 DEF x, y
<1>7. (Leq(p, q) <=> a <= b) /\ (Less(p, q) <=> a < b) /\ (p = q <=> a = b)
  BY <1>1, SameDenominator
<1>8. (a * c <= b * c <=> a <= b) /\ (a * c < b * c <=> a < b) /\ (a * c = b * c => a = b)
  BY <1>3 DEF Positive
<1> QED BY <1>6, <1>7, <1>8

\* The laws of division by a positive fraction.
LEMMA DivLaws ==
    ASSUME NEW p \in Fraction, NEW q \in Fraction, Less(Int0, q)
    PROVE  /\ Div(p, q) \in Fraction
           /\ Mul(Div(p, q), q) = p
           /\ Div(Mul(p, q), q) = p
<1>1. PICK a, b \in Int, d \in Positive : p = Frac(a, d) /\ q = Frac(b, d)
  BY CommonDenominator
<1>2. Int0 = Frac(0, d)
  BY ZeroAndOne
<1>3. b \in Positive
  BY <1>1, <1>2, SameDenominator DEF Positive
<1>4. d * b \in Positive /\ a * d \in Int /\ d \in Int /\ a * b \in Int /\ d * d \in Positive
      /\ (d * b) * d \in Positive /\ (d * d) * b \in Positive /\ (a * d) * b \in Int /\ (a * b) * d \in Int
  BY <1>3 DEF Positive
<1>5. Div(p, q) = Frac(a * d, d * b)
  BY <1>1, <1>3, DivFrac
<1>6. Mul(Div(p, q), q) = Frac((a * d) * b, (d * b) * d)
  BY <1>1, <1>4, <1>5, MulFrac
<1>7. Mul(p, q) = Frac(a * b, d * d)
  BY <1>1, MulFrac
<1>8. Div(Mul(p, q), q) = Frac((a * b) * d, (d * d) * b)
  BY <1>1, <1>3, <1>4, <1>7, DivFrac
<1>9. ((a * d) * b) * d = a * ((d * b) * d) /\ ((a * b) * d) * d = a * ((d * d) * b)
  BY <1>3 DEF Positive
<1>10. Mul(Div(p, q), q) = p /\ Div(Mul(p, q), q) = p
  BY <1>1, <1>4, <1>6, <1>8, <1>9, SameFraction
<1> QED BY <1>4, <1>5, <1>10, FracIsFraction

-----------------------------------------------------------------------------
(***************************************************************************)
(* Sums over finite sets, as folds that may take the elements in any order.*)
(***************************************************************************)

\* Induction on the subsets of a finite set, with the property as a set of subsets.
LEMMA SubsetInduction ==
    ASSUME NEW S, IsFiniteSet(S), NEW G \in SUBSET (SUBSET S), {} \in G,
           \A T \in G, x \in S : x \notin T => T \cup {x} \in G
    PROVE  S \in G
<1> DEFINE Missing == {n \in Nat : \E T \in SUBSET S : T \notin G /\ Cardinality(T) = n}
<1>1. \A T \in SUBSET S : IsFiniteSet(T) /\ Cardinality(T) \in Nat
  BY FS_Subset, FS_CardinalityType
<1>2. ASSUME Missing # {} PROVE FALSE
  <2>1. PICK n \in Missing : \A m \in Missing : n <= m
    <3> Missing \in SUBSET Nat OBVIOUS
    <3> HIDE DEF Missing
    <3> QED BY <1>2, LeastNatural
  <2>2. PICK T \in SUBSET S : T \notin G /\ Cardinality(T) = n
    OBVIOUS
  <2>3. PICK x \in T : TRUE
    BY <2>2
  <2>4. /\ Cardinality(T \ {x}) = Cardinality(T) - 1
        /\ T \ {x} \in SUBSET S
    BY <1>1, <2>3, FS_RemoveElement
  <2>5. T \ {x} \notin G
    <3>1. (T \ {x}) \cup {x} = T /\ x \in S /\ x \notin T \ {x}
      BY <2>3
    <3> QED BY <2>2, <3>1
  <2>6. n - 1 \in Missing
    BY <1>1, <2>2, <2>4, <2>5
  <2> QED BY <2>1, <2>6
<1>3. \A T \in SUBSET S : T \in G
  BY <1>1, <1>2
<1> QED BY <1>3

-----------------------------------------------------------------------------
\* o is associative and commutative on the fractions, e its neutral element.
Monoid(o, e) ==
    /\ o \in [Fraction \X Fraction -> Fraction]
    /\ e \in Fraction
    /\ \A p \in Fraction : o[<<e, p>>] = p
    /\ \A p, q \in Fraction : o[<<p, q>>] = o[<<q, p>>]
    /\ \A p, q, r \in Fraction : o[<<p, o[<<q, r>>]>>] = o[<<q, o[<<p, r>>]>>]

\* Some element of a set.
One(s) == CHOOSE x \in s : TRUE

\* f folds w over the parts of S: zero for none, and any element out for the rest.
Computes(o, e, w, S, f) ==
    f = [s \in SUBSET S |-> IF s = {} THEN e ELSE o[<<w[One(s)], f[s \ {One(s)}]>>]]

\* The recursion that the community modules fold by, taking One element out.
IsFold(o, e, w, S, f) ==
    /\ f \in [SUBSET S -> Fraction]
    /\ f[{}] = e
    /\ \A T \in SUBSET S : \A x \in T : f[T] = o[<<w[x], f[T \ {x}]>>]

\* A fold over the subsets of a finite set is well defined.
LEMMA FoldExists ==
    ASSUME NEW o, NEW e, Monoid(o, e), NEW S, IsFiniteSet(S), NEW w, \A x \in S : w[x] \in Fraction
    PROVE  \E f \in [SUBSET S -> Fraction] : Computes(o, e, w, S, f)
<1> DEFINE Next_(f, s) == IF s = {} THEN e ELSE o[<<w[One(s)], f[s \ {One(s)}]>>]
           Upto(n, f) == \A s \in SUBSET S : Cardinality(s) <= n => f[s] = Next_(f, s)
           Bad == {n \in Nat : ~\E f \in [SUBSET S -> Fraction] : Upto(n, f)}
<1>1. \A T \in SUBSET S : IsFiniteSet(T) /\ Cardinality(T) \in Nat
  BY FS_Subset, FS_CardinalityType
<1>2. \A s \in SUBSET S : s # {} =>
        /\ One(s) \in s /\ w[One(s)] \in Fraction
        /\ s \ {One(s)} \in SUBSET S
        /\ Cardinality(s \ {One(s)}) = Cardinality(s) - 1
        /\ Cardinality(s) # 0
  <2> TAKE s \in SUBSET S
  <2> HAVE s # {}
  <2>1. One(s) \in s
    BY DEF One
  <2>2. Cardinality(s \ {One(s)}) = Cardinality(s) - 1 /\ Cardinality(s) # 0
    BY <1>1, <2>1, FS_RemoveElement, FS_EmptySet
  <2> QED BY <2>1, <2>2
<1>3. \A f \in [SUBSET S -> Fraction] : \A s \in SUBSET S : Next_(f, s) \in Fraction
  <2> TAKE f \in [SUBSET S -> Fraction]
  <2> TAKE s \in SUBSET S
  <2>1. CASE s = {}
    BY <2>1 DEF Monoid
  <2>2. CASE s # {}
    <3>1. w[One(s)] \in Fraction /\ f[s \ {One(s)}] \in Fraction
      BY <1>2, <2>2
    <3>2. o[<<w[One(s)], f[s \ {One(s)}]>>] \in Fraction
      BY <3>1 DEF Monoid
    <3> QED BY <2>2, <3>2
  <2> QED BY <2>1, <2>2
<1>4. ASSUME Bad # {} PROVE FALSE
  <2>1. PICK n \in Bad : \A m \in Bad : n <= m
    <3> Bad \in SUBSET Nat OBVIOUS
    <3> HIDE DEF Bad
    <3> QED BY <1>4, LeastNatural
  <2>2. CASE n = 0
    <3> DEFINE f == [s \in SUBSET S |-> e]
    <3>1. f \in [SUBSET S -> Fraction]
      BY DEF Monoid
    <3>2. ASSUME NEW s \in SUBSET S, Cardinality(s) <= 0 PROVE f[s] = Next_(f, s)
      <4>1. s = {}
        BY <1>1, <3>2, FS_EmptySet
      <4> QED BY <4>1
    <3> QED BY <2>2, <3>1, <3>2
  <2>3. CASE n # 0
    <3>0. n \in Nat /\ n - 1 \in Nat
      BY <2>3
    <3>1. PICK f \in [SUBSET S -> Fraction] : Upto(n - 1, f)
      <4>1. n - 1 \notin Bad
        <5> HIDE DEF Bad
        <5> QED BY <2>1, <3>0
      <4> HIDE DEF Upto
      <4> QED BY <3>0, <4>1
    <3> DEFINE g == [s \in SUBSET S |-> IF Cardinality(s) <= n - 1 THEN f[s] ELSE Next_(f, s)]
    <3>2. g \in [SUBSET S -> Fraction]
      <4> HIDE DEF Next_
      <4> QED BY <1>3
    <3>3. ASSUME NEW s \in SUBSET S, Cardinality(s) <= n PROVE g[s] = Next_(g, s)
      <4>1. CASE s = {}
        <5>1. Cardinality(s) = 0
          BY <4>1, FS_EmptySet
        <5>2. g[s] = f[s] /\ f[s] = Next_(f, s)
          BY <3>0, <3>1, <5>1
        <5> QED BY <4>1, <5>2
      <4>2. CASE s # {}
        <5> DEFINE t == s \ {One(s)}
        <5>1. t \in SUBSET S /\ Cardinality(t) = Cardinality(s) - 1 /\ Cardinality(s) \in Nat
          BY <1>1, <1>2, <4>2
        <5>2. Cardinality(t) <= n - 1
          BY <3>0, <3>3, <5>1
        <5>3. g[t] = f[t]
          BY <5>1, <5>2
        <5>4. Next_(g, s) = Next_(f, s)
          BY <4>2, <5>3
        <5>5. g[s] = Next_(f, s)
          BY <3>1
        <5> QED BY <5>4, <5>5
      <4> QED BY <4>1, <4>2
    <3>4. Upto(n, g)
      BY <3>3
    <3> QED BY <3>0, <3>2, <3>4
  <2> QED BY <2>2, <2>3
<1>5. Cardinality(S) \in Nat
  BY <1>1
<1>6. PICK f \in [SUBSET S -> Fraction] : Upto(Cardinality(S), f)
  BY <1>4, <1>5
<1>7. \A s \in SUBSET S : f[s] = Next_(f, s)
  BY <1>6, FS_Subset
<1>8. f = [s \in SUBSET S |-> f[s]]
  OBVIOUS
<1>9. f = [s \in SUBSET S |-> Next_(f, s)]
  <2> HIDE DEF Next_
  <2> QED BY <1>7, <1>8
<1> QED BY <1>9 DEF Computes

\* The fold of the community modules is that fold.
LEMMA FoldComputes ==
    ASSUME NEW o, NEW e, Monoid(o, e), NEW S, IsFiniteSet(S), NEW w, \A x \in S : w[x] \in Fraction,
           NEW f, Computes(o, e, w, S, f)
    PROVE  IsFold(o, e, w, S, f)
<1>0. \A T \in SUBSET S : IsFiniteSet(T) /\ Cardinality(T) \in Nat
  BY FS_Subset, FS_CardinalityType
<1>1. f = [s \in SUBSET S |-> IF s = {} THEN e ELSE o[<<w[One(s)], f[s \ {One(s)}]>>]]
  BY DEF Computes
<1>2. f[{}] = e
  BY <1>1
<1>3. \A s \in SUBSET S : s # {} => /\ One(s) \in s /\ s \ {One(s)} \in SUBSET S
                                  /\ f[s] = o[<<w[One(s)], f[s \ {One(s)}]>>]
  <2> TAKE s \in SUBSET S
  <2> HAVE s # {}
  <2>1. One(s) \in s
    BY DEF One
  <2> QED BY <1>1, <2>1
<1> DEFINE G == {T \in SUBSET S : f[T] \in Fraction}
           Wrong(T) == \E x \in T : f[T] # o[<<w[x], f[T \ {x}]>>]
           Bad == {n \in Nat : \E T \in SUBSET S : Cardinality(T) = n /\ (f[T] \notin Fraction \/ Wrong(T))}
<1>4. ASSUME Bad # {} PROVE FALSE
  <2>1. PICK n \in Bad : \A m \in Bad : n <= m
    <3> Bad \in SUBSET Nat OBVIOUS
    <3> HIDE DEF Bad
    <3> QED BY <1>4, LeastNatural
  <2>2. PICK T \in SUBSET S : Cardinality(T) = n /\ (f[T] \notin Fraction \/ Wrong(T))
    OBVIOUS
  <2>3. ASSUME NEW U \in SUBSET S, Cardinality(U) < n
        PROVE  f[U] \in Fraction /\ ~Wrong(U)
    <3>1. Cardinality(U) \notin Bad
      <4> HIDE DEF Bad
      <4>1. n \in Nat /\ Cardinality(U) \in Nat
        BY <1>0, <2>2
      <4> QED BY <2>1, <2>3, <4>1
    <3> HIDE DEF Wrong
    <3> QED BY <1>0, <3>1
  <2>4. \A x \in T : T \ {x} \in SUBSET S /\ Cardinality(T \ {x}) < n
    BY <1>0, <2>2, FS_RemoveElement
  <2>5. T # {}
    BY <1>2, <2>2 DEF Monoid
  <2> DEFINE c == One(T)
  <2>6. c \in T /\ f[T] = o[<<w[c], f[T \ {c}]>>] /\ f[T \ {c}] \in Fraction /\ w[c] \in Fraction
    BY <1>3, <2>3, <2>4, <2>5
  <2>7. f[T] \in Fraction
    BY <2>6 DEF Monoid
  <2>8. PICK x \in T : f[T] # o[<<w[x], f[T \ {x}]>>]
    BY <2>2, <2>7
  <2> HIDE DEF c
  <2>9. x # c
    BY <2>6, <2>8
  <2> DEFINE U == T \ {c, x}
  <2>10. U = (T \ {c}) \ {x} /\ U = (T \ {x}) \ {c} /\ x \in T \ {c} /\ c \in T \ {x}
    BY <2>6, <2>9
  <2>11. f[T \ {c}] = o[<<w[x], f[U]>>] /\ f[T \ {x}] = o[<<w[c], f[U]>>]
    <3>1. /\ T \ {c} \in SUBSET S /\ ~Wrong(T \ {c}) /\ x \in T \ {c}
          /\ T \ {x} \in SUBSET S /\ ~Wrong(T \ {x}) /\ c \in T \ {x}
      <4> HIDE DEF Wrong
      <4> QED BY <2>3, <2>4, <2>6, <2>10
    <3> HIDE DEF U
    <3> QED BY <2>10, <3>1
  <2>12. w[x] \in Fraction /\ f[U] \in Fraction
    <3>1. U \in SUBSET S /\ Cardinality(U) < n
      <4>1. IsFiniteSet(T \ {c}) /\ Cardinality(T \ {c}) \in Nat /\ Cardinality(T \ {c}) < n
        BY <1>0, <2>4, <2>6
      <4>2. Cardinality((T \ {c}) \ {x}) = Cardinality(T \ {c}) - 1
        BY <2>10, <4>1, FS_RemoveElement
      <4>3. n \in Nat
        BY <1>0, <2>2
      <4> HIDE DEF U
      <4> QED BY <2>10, <4>1, <4>2, <4>3
    <3> QED BY <2>3, <3>1
  <2> HIDE DEF U
  <2>13. o[<<w[c], o[<<w[x], f[U]>>]>>] = o[<<w[x], o[<<w[c], f[U]>>]>>]
    <3>1. \A p, q, r \in Fraction : o[<<p, o[<<q, r>>]>>] = o[<<q, o[<<p, r>>]>>]
      BY DEF Monoid
    <3> QED BY <2>6, <2>12, <3>1
  <2> QED BY <2>6, <2>8, <2>11, <2>13
<1>5. \A T \in SUBSET S : f[T] \in Fraction /\ ~Wrong(T)
  <2> HIDE DEF Wrong
  <2> QED BY <1>0, <1>4
<1>6. f \in [SUBSET S -> Fraction]
  <2> DOMAIN f = SUBSET S /\ f = [s \in SUBSET S |-> f[s]]
    BY <1>1
  <2> QED BY <1>5
<1> QED BY <1>2, <1>5, <1>6 DEF IsFold

\* A fold depends only on the values at the elements it takes.
LEMMA FoldIsLocal ==
    ASSUME NEW o, NEW e, NEW S, NEW T \in SUBSET S, IsFiniteSet(S), NEW w, NEW v, \A x \in T : w[x] = v[x],
           NEW f, IsFold(o, e, w, S, f), NEW g, IsFold(o, e, v, T, g)
    PROVE  f[T] = g[T]
<1> DEFINE G == {U \in SUBSET T : f[U] = g[U]}
<1>1. IsFiniteSet(T)
  BY FS_Subset
<1>2. {} \in G
  BY DEF IsFold
<1>3. ASSUME NEW U \in G, NEW x \in T, x \notin U PROVE U \cup {x} \in G
  <2>1. (U \cup {x}) \ {x} = U /\ U \cup {x} \in SUBSET T /\ U \cup {x} \in SUBSET S /\ x \in U \cup {x}
    BY <1>3
  <2>2. f[U \cup {x}] = o[<<w[x], f[U]>>] /\ g[U \cup {x}] = o[<<v[x], g[U]>>]
    <3>1. f[U \cup {x}] = o[<<w[x], f[(U \cup {x}) \ {x}]>>] /\ g[U \cup {x}] = o[<<v[x], g[(U \cup {x}) \ {x}]>>]
      BY <2>1 DEF IsFold
    <3> QED BY <2>1, <3>1
  <2> QED BY <2>1, <2>2
<1>4. T \in G
  <2> G \in SUBSET (SUBSET T) OBVIOUS
  <2> HIDE DEF G
  <2> QED BY <1>1, <1>2, <1>3, SubsetInduction
<1> QED BY <1>4

\* A fold over two disjoint sets combines the two folds.
LEMMA FoldUnion ==
    ASSUME NEW o, NEW e, Monoid(o, e), NEW S, IsFiniteSet(S), NEW w, \A x \in S : w[x] \in Fraction,
           NEW f, IsFold(o, e, w, S, f), NEW A \in SUBSET S, NEW B \in SUBSET S, A \cap B = {}
    PROVE  f[A \cup B] = o[<<f[A], f[B]>>]
<1> DEFINE G == {T \in SUBSET B : f[A \cup T] = o[<<f[A], f[T]>>]}
<1>1. IsFiniteSet(B)
  BY FS_Subset
<1>2. {} \in G
  <2>1. A \cup {} = A /\ f[A] \in Fraction /\ f[{}] = e /\ e \in Fraction
    BY DEF IsFold, Monoid
  <2>2. o[<<f[A], e>>] = f[A]
    BY <2>1 DEF Monoid
  <2> QED BY <2>1, <2>2
<1>3. ASSUME NEW T \in G, NEW x \in B, x \notin T PROVE T \cup {x} \in G
  <2>1. /\ (T \cup {x}) \ {x} = T /\ T \cup {x} \in SUBSET S /\ x \in T \cup {x}
        /\ (A \cup (T \cup {x})) \ {x} = A \cup T /\ A \cup (T \cup {x}) \in SUBSET S
        /\ x \in A \cup (T \cup {x})
    BY <1>3
  <2>2. f[T \cup {x}] = o[<<w[x], f[T]>>]
    <3>1. f[T \cup {x}] = o[<<w[x], f[(T \cup {x}) \ {x}]>>]
      BY <2>1 DEF IsFold
    <3> QED BY <2>1, <3>1
  <2>3. f[A \cup (T \cup {x})] = o[<<w[x], f[A \cup T]>>]
    <3>1. f[A \cup (T \cup {x})] = o[<<w[x], f[(A \cup (T \cup {x})) \ {x}]>>]
      BY <2>1 DEF IsFold
    <3> QED BY <2>1, <3>1
  <2>4. f[A] \in Fraction /\ f[T] \in Fraction /\ w[x] \in Fraction
    BY <2>1 DEF IsFold
  <2>5. o[<<w[x], o[<<f[A], f[T]>>]>>] = o[<<f[A], o[<<w[x], f[T]>>]>>]
    <3>1. \A p, q, r \in Fraction : o[<<p, o[<<q, r>>]>>] = o[<<q, o[<<p, r>>]>>]
      BY DEF Monoid
    <3> QED BY <2>4, <3>1
  <2>6. f[A \cup T] = o[<<f[A], f[T]>>]
    OBVIOUS
  <2> QED BY <2>1, <2>2, <2>3, <2>5, <2>6
<1>4. B \in G
  <2> G \in SUBSET (SUBSET B) OBVIOUS
  <2> HIDE DEF G
  <2> QED BY <1>1, <1>2, <1>3, SubsetInduction
<1> QED BY <1>4

\* Addition and multiplication as functions of pairs.
Plus == [pq \in Fraction \X Fraction |-> Add(pq[1], pq[2])]
Times == [pq \in Fraction \X Fraction |-> Mul(pq[1], pq[2])]

\* Addition of fractions may be folded in any order.
LEMMA PlusIsMonoid == Monoid(Plus, Int0) /\ \A p, q \in Fraction : Plus[<<p, q>>] = Add(p, q)
<1>1. \A p, q \in Fraction : Plus[<<p, q>>] = Add(p, q) /\ Add(p, q) \in Fraction
  BY AddLaws DEF Plus
<1>2. Plus \in [Fraction \X Fraction -> Fraction]
  BY AddLaws DEF Plus
<1>3. \A p, q, r \in Fraction : Add(p, Add(q, r)) = Add(q, Add(p, r))
  <2> TAKE p, q, r \in Fraction
  <2>1. Add(p, Add(q, r)) = Add(Add(p, q), r)
    BY AddLaws
  <2>2. Add(q, Add(p, r)) = Add(Add(q, p), r)
    BY AddLaws
  <2>3. Add(p, q) = Add(q, p)
    BY AddLaws
  <2> QED BY <2>1, <2>2, <2>3
<1>4. \A p, q \in Fraction : Add(p, q) = Add(q, p) /\ Add(Int0, p) = p
  BY AddLaws, ZeroAndOne
<1> HIDE DEF Plus
<1>5. \A p \in Fraction : Plus[<<Int0, p>>] = p
  BY <1>1, <1>4, ZeroAndOne
<1>6. \A p, q \in Fraction : Plus[<<p, q>>] = Plus[<<q, p>>]
  <2> TAKE p, q \in Fraction
  <2>1. Plus[<<p, q>>] = Add(p, q) /\ Plus[<<q, p>>] = Add(q, p)
    BY <1>1
  <2> QED BY <1>4, <2>1
<1>7. \A p, q, r \in Fraction : Plus[<<p, Plus[<<q, r>>]>>] = Plus[<<q, Plus[<<p, r>>]>>]
  <2> TAKE p, q, r \in Fraction
  <2>1. Plus[<<p, Plus[<<q, r>>]>>] = Add(p, Add(q, r)) /\ Plus[<<q, Plus[<<p, r>>]>>] = Add(q, Add(p, r))
    BY <1>1
  <2> QED BY <2>1, <1>3
<1> QED BY <1>1, <1>2, <1>5, <1>6, <1>7, ZeroAndOne DEF Monoid

\* A sum is a fold of addition.
LEMMA SumFolds ==
    ASSUME NEW S, IsFiniteSet(S), NEW w \in [S -> Fraction]
    PROVE  \E f : IsFold(Plus, Int0, w, S, f) /\ SumOf(w) = f[S]
<1> DEFINE Eq(f) == f = [s \in SUBSET S |-> IF s = {} THEN Int0 ELSE Add(w[One(s)], f[s \ {One(s)}])]
<1>1. PICK f \in [SUBSET S -> Fraction] : Computes(Plus, Int0, w, S, f)
  BY PlusIsMonoid, FoldExists
<1>2. ASSUME NEW s \in SUBSET S, s # {}
      PROVE  Plus[<<w[One(s)], f[s \ {One(s)}]>>] = Add(w[One(s)], f[s \ {One(s)}])
  <2>1. One(s) \in s
    BY <1>2 DEF One
  <2> QED BY <2>1, PlusIsMonoid
<1>3. Eq(f)
  BY <1>1, <1>2 DEF Computes
<1> DEFINE g == CHOOSE g : Eq(g)
<1>4. Eq(g)
  BY <1>3
<1>5. SumOf(w) = g[S]
  BY DEF SumOf, FoldFunction, FoldFunctionOnSet, MapThenFoldSet, One
<1> HIDE DEF g
<1>6. \A T \in SUBSET S : IsFiniteSet(T) /\ Cardinality(T) \in Nat
  BY FS_Subset, FS_CardinalityType
<1>7. ASSUME NEW h, Eq(h), NEW s \in SUBSET S
      PROVE  h[s] = IF s = {} THEN Int0 ELSE Add(w[One(s)], h[s \ {One(s)}])
  BY <1>7
<1>8. /\ \A s \in SUBSET S : f[s] = IF s = {} THEN Int0 ELSE Add(w[One(s)], f[s \ {One(s)}])
      /\ \A s \in SUBSET S : g[s] = IF s = {} THEN Int0 ELSE Add(w[One(s)], g[s \ {One(s)}])
  <2> HIDE DEF Eq
  <2> QED BY <1>3, <1>4, <1>7
<1>9. DOMAIN g = SUBSET S
  BY <1>4
<1> DEFINE Bad == {n \in Nat : \E s \in SUBSET S : Cardinality(s) = n /\ g[s] # f[s]}
<1>10. ASSUME Bad # {} PROVE FALSE
  <2>1. PICK n \in Bad : \A m \in Bad : n <= m
    <3> Bad \in SUBSET Nat OBVIOUS
    <3> HIDE DEF Bad
    <3> QED BY <1>10, LeastNatural
  <2>2. PICK s \in SUBSET S : Cardinality(s) = n /\ g[s] # f[s]
    OBVIOUS
  <2>3. s # {}
    BY <1>8, <2>2
  <2>4. One(s) \in s
    BY <2>3 DEF One
  <2> DEFINE t == s \ {One(s)}
  <2>5. t \in SUBSET S /\ Cardinality(t) = n - 1 /\ n - 1 \in Nat
    <3>1. t \in SUBSET S
      OBVIOUS
    <3>2. Cardinality(t) = Cardinality(s) - 1
      BY <1>6, <2>4, FS_RemoveElement
    <3> HIDE DEF t
    <3> QED BY <1>6, <2>2, <3>1, <3>2
  <2>6. g[t] # f[t]
    BY <1>8, <2>2, <2>3
  <2> QED BY <2>1, <2>5, <2>6
<1>11. \A s \in SUBSET S : g[s] = f[s]
  BY <1>6, <1>10
<1>12. IsFold(Plus, Int0, w, S, f)
  BY <1>1, PlusIsMonoid, FoldComputes
<1> QED BY <1>5, <1>11, <1>12

\* Sums are fractions, of nothing zero, of one element that element, and add up.
LEMMA SumLaws ==
    ASSUME NEW S, IsFiniteSet(S), NEW w \in [S -> Fraction]
    PROVE  /\ SumOf(w) \in Fraction
           /\ S = {} => SumOf(w) = Int0
           /\ \A x \in S : SumOf(w) = Add(w[x], SumOf(Restrict(w, S \ {x})))
<1>1. PICK f : IsFold(Plus, Int0, w, S, f) /\ SumOf(w) = f[S]
  BY SumFolds
<1>2. SumOf(w) \in Fraction /\ (S = {} => SumOf(w) = Int0)
  BY <1>1 DEF IsFold
<1>3. ASSUME NEW x \in S PROVE SumOf(w) = Add(w[x], SumOf(Restrict(w, S \ {x})))
  <2> DEFINE T == S \ {x}
             v == Restrict(w, T)
  <2>1. T \in SUBSET S /\ IsFiniteSet(T) /\ v \in [T -> Fraction] /\ \A y \in T : w[y] = v[y]
    BY FS_Subset DEF Restrict
  <2> HIDE DEF v
  <2>2. PICK g : IsFold(Plus, Int0, v, T, g) /\ SumOf(v) = g[T]
    BY <2>1, SumFolds
  <2>3. f[T] = g[T]
    BY <1>1, <2>1, <2>2, FoldIsLocal
  <2>4. f[S] = Plus[<<w[x], f[T]>>] /\ f[T] \in Fraction
    BY <1>1 DEF IsFold
  <2>5. f[S] = Add(w[x], f[T])
    BY <2>4, PlusIsMonoid
  <2> QED BY <1>1, <2>2, <2>3, <2>5 DEF v
<1> QED BY <1>2, <1>3

\* One more element of a sum.
LEMMA SumStep ==
    ASSUME NEW S, IsFiniteSet(S), NEW w \in [S -> Fraction], NEW T \in SUBSET S
    PROVE  /\ IsFiniteSet(T) /\ Restrict(w, T) \in [T -> Fraction]
           /\ SumOf(Restrict(w, T)) \in Fraction
           /\ \A x \in S \ T : SumOf(Restrict(w, T \cup {x})) = Add(w[x], SumOf(Restrict(w, T)))
           /\ T = {} => SumOf(Restrict(w, T)) = Int0
           /\ Restrict(w, S) = w
<1>1. IsFiniteSet(T) /\ Restrict(w, T) \in [T -> Fraction] /\ Restrict(w, S) = w
  BY FS_Subset DEF Restrict
<1>2. SumOf(Restrict(w, T)) \in Fraction /\ (T = {} => SumOf(Restrict(w, T)) = Int0)
  BY <1>1, SumLaws
<1>3. ASSUME NEW x \in S \ T PROVE SumOf(Restrict(w, T \cup {x})) = Add(w[x], SumOf(Restrict(w, T)))
  <2> DEFINE U == T \cup {x}
             v == Restrict(w, U)
  <2>1. U \in SUBSET S /\ IsFiniteSet(U) /\ v \in [U -> Fraction] /\ x \in U /\ U \ {x} = T /\ v[x] = w[x]
        /\ Restrict(v, T) = Restrict(w, T)
    BY FS_Subset DEF Restrict
  <2> HIDE DEF v, U
  <2>2. SumOf(v) = Add(v[x], SumOf(Restrict(v, U \ {x})))
    BY <2>1, SumLaws
  <2> QED BY <2>1, <2>2 DEF v, U
<1> QED BY <1>1, <1>2, <1>3

\* A sum of what is not negative is not negative, and no smaller than a part of it.
LEMMA SumNonneg ==
    ASSUME NEW S, IsFiniteSet(S), NEW w \in [S -> Fraction], \A x \in S : Leq(Int0, w[x])
    PROVE  /\ Leq(Int0, SumOf(w))
           /\ \A x \in S : Leq(w[x], SumOf(w))
           /\ (\E x \in S : Less(Int0, w[x])) => Less(Int0, SumOf(w))
<1> DEFINE G == {T \in SUBSET S : Leq(Int0, SumOf(Restrict(w, T)))}
<1>0. Int0 \in Fraction /\ Leq(Int0, Int0)
  BY ZeroAndOne, OrderLaws
<1>a. \A p, q \in Fraction : Leq(Int0, p) /\ Leq(Int0, q) => Leq(Int0, Add(p, q)) /\ Leq(p, Add(p, q))
  <2> TAKE p, q \in Fraction
  <2> HAVE Leq(Int0, p) /\ Leq(Int0, q)
  <2>1. Add(p, q) \in Fraction /\ Add(Int0, p) = p /\ Add(q, p) = Add(p, q)
    BY <1>0, AddLaws
  <2>2. Leq(Add(Int0, p), Add(q, p))
    BY <1>0, OrderLaws
  <2> QED BY <1>0, <2>1, <2>2, OrderLaws
<1>1. {} \in G
  BY <1>0, SumStep
<1>2. ASSUME NEW T \in G, NEW x \in S, x \notin T PROVE T \cup {x} \in G
  <2>1. SumOf(Restrict(w, T \cup {x})) = Add(w[x], SumOf(Restrict(w, T))) /\ SumOf(Restrict(w, T)) \in Fraction
    BY <1>2, SumStep
  <2> QED BY <1>a, <2>1
<1>3. \A T \in SUBSET S : IsFiniteSet(T)
  BY FS_Subset
<1>4. ASSUME NEW T \in SUBSET S PROVE T \in G
  <2> DEFINE H == {U \in SUBSET T : U \in G}
  <2>1. {} \in H /\ H \in SUBSET (SUBSET T)
    BY <1>1
  <2>2. \A U \in H, x \in T : x \notin U => U \cup {x} \in H
    <3> HIDE DEF G
    <3> QED BY <1>2
  <2> HIDE DEF H
  <2>3. T \in H
    BY <1>3, <2>1, <2>2, SubsetInduction
  <2> QED BY <2>3 DEF H
<1>5. Leq(Int0, SumOf(w))
  <2> S \in G BY <1>4
  <2> QED BY SumStep
<1>6. ASSUME NEW x \in S PROVE Leq(w[x], SumOf(w))
  <2>1. Leq(Int0, SumOf(Restrict(w, S \ {x}))) /\ SumOf(Restrict(w, S \ {x})) \in Fraction
    BY <1>4, SumStep
  <2>2. SumOf(w) = Add(w[x], SumOf(Restrict(w, S \ {x})))
    BY SumLaws
  <2> QED BY <1>a, <2>1, <2>2
<1>7. ASSUME NEW x \in S, Less(Int0, w[x]) PROVE Less(Int0, SumOf(w))
  <2>1. SumOf(w) \in Fraction /\ Leq(w[x], SumOf(w)) /\ w[x] \in Fraction
    BY <1>6, SumLaws
  <2>2. ~Leq(w[x], Int0)
    BY <1>0, <1>7, OrderLaws
  <2>3. ~Leq(SumOf(w), Int0)
    BY <1>0, <2>1, <2>2, OrderLaws
  <2> QED BY <1>0, <2>1, <2>3, OrderLaws
<1> QED BY <1>5, <1>6, <1>7

\* The sum of two assignments is the sum of their sums.
LEMMA SumOfSums ==
    ASSUME NEW S, IsFiniteSet(S), NEW u \in [S -> Fraction], NEW v \in [S -> Fraction]
    PROVE  SumOf([x \in S |-> Add(u[x], v[x])]) = Add(SumOf(u), SumOf(v))
<1> DEFINE w == [x \in S |-> Add(u[x], v[x])]
           G == {T \in SUBSET S : SumOf(Restrict(w, T)) = Add(SumOf(Restrict(u, T)), SumOf(Restrict(v, T)))}
<1>1. w \in [S -> Fraction] /\ \A x \in S : w[x] = Add(u[x], v[x])
  BY AddLaws
<1> HIDE DEF w
<1>2. {} \in G
  <2>1. SumOf(Restrict(w, {})) = Int0 /\ SumOf(Restrict(u, {})) = Int0 /\ SumOf(Restrict(v, {})) = Int0
    BY <1>1, SumStep
  <2>2. Add(Int0, Int0) = Int0
    BY ZeroAndOne, AddLaws
  <2> QED BY <2>1, <2>2
<1>3. ASSUME NEW T \in G, NEW x \in S, x \notin T PROVE T \cup {x} \in G
  <2> DEFINE a == u[x]
             b == v[x]
             c == SumOf(Restrict(u, T))
             d == SumOf(Restrict(v, T))
  <2>1. a \in Fraction /\ b \in Fraction /\ c \in Fraction /\ d \in Fraction
    BY SumStep
  <2>2. /\ SumOf(Restrict(w, T \cup {x})) = Add(w[x], SumOf(Restrict(w, T)))
        /\ SumOf(Restrict(u, T \cup {x})) = Add(a, c)
        /\ SumOf(Restrict(v, T \cup {x})) = Add(b, d)
    <3>1. T \in SUBSET S /\ x \in S \ T
      BY <1>3
    <3> QED BY <1>1, <3>1, SumStep
  <2>3. w[x] = Add(a, b) /\ SumOf(Restrict(w, T)) = Add(c, d)
    BY <1>1
  <2> HIDE DEF a, b, c, d
  <2>4. Add(Add(a, b), Add(c, d)) = Add(Add(a, c), Add(b, d))
    <3>1. Add(a, b) \in Fraction /\ Add(c, d) \in Fraction /\ Add(b, d) \in Fraction /\ Add(b, c) \in Fraction
          /\ Add(c, b) \in Fraction /\ Add(a, c) \in Fraction
      BY <2>1, AddLaws
    <3>2. Add(Add(a, b), Add(c, d)) = Add(a, Add(b, Add(c, d)))
      BY <2>1, <3>1, AddLaws
    <3>3. Add(b, Add(c, d)) = Add(Add(b, c), d)
      BY <2>1, AddLaws
    <3>4. Add(b, c) = Add(c, b)
      BY <2>1, AddLaws
    <3>5. Add(Add(c, b), d) = Add(c, Add(b, d))
      BY <2>1, AddLaws
    <3>6. Add(Add(a, c), Add(b, d)) = Add(a, Add(c, Add(b, d)))
      BY <2>1, <3>1, AddLaws
    <3> QED BY <3>2, <3>3, <3>4, <3>5, <3>6
  <2> QED BY <2>2, <2>3, <2>4
<1>4. S \in G
  <2> G \in SUBSET (SUBSET S) OBVIOUS
  <2> HIDE DEF G
  <2> QED BY <1>2, <1>3, SubsetInduction
<1>5. Restrict(w, S) = w /\ Restrict(u, S) = u /\ Restrict(v, S) = v
  BY <1>1, SumStep
<1> QED BY <1>4, <1>5 DEF w

\* A common factor comes out of a sum.
LEMMA SumScales ==
    ASSUME NEW S, IsFiniteSet(S), NEW w \in [S -> Fraction], NEW c \in Fraction
    PROVE  SumOf([x \in S |-> Mul(w[x], c)]) = Mul(SumOf(w), c)
<1> DEFINE v == [x \in S |-> Mul(w[x], c)]
           G == {T \in SUBSET S : SumOf(Restrict(v, T)) = Mul(SumOf(Restrict(w, T)), c)}
<1>1. v \in [S -> Fraction] /\ \A x \in S : v[x] = Mul(w[x], c)
  BY MulLaws
<1> HIDE DEF v
<1>2. {} \in G
  <2>1. SumOf(Restrict(w, {})) = Int0 /\ SumOf(Restrict(v, {})) = Int0
    BY <1>1, SumStep
  <2>2. Mul(Int0, c) = Int0
    BY MulLaws
  <2> QED BY <2>1, <2>2
<1>3. ASSUME NEW T \in G, NEW x \in S, x \notin T PROVE T \cup {x} \in G
  <2> DEFINE a == w[x]
             b == SumOf(Restrict(w, T))
  <2>1. a \in Fraction /\ b \in Fraction
    BY SumStep
  <2>2. /\ SumOf(Restrict(w, T \cup {x})) = Add(a, b)
        /\ SumOf(Restrict(v, T \cup {x})) = Add(v[x], SumOf(Restrict(v, T)))
    <3>1. T \in SUBSET S /\ x \in S \ T
      BY <1>3
    <3> QED BY <1>1, <3>1, SumStep
  <2>3. v[x] = Mul(a, c) /\ SumOf(Restrict(v, T)) = Mul(b, c)
    BY <1>1
  <2> HIDE DEF a, b
  <2>4. Mul(Add(a, b), c) = Add(Mul(a, c), Mul(b, c))
    <3>1. Add(a, b) \in Fraction
      BY <2>1, AddLaws
    <3>2. Mul(Add(a, b), c) = Mul(c, Add(a, b)) /\ Mul(a, c) = Mul(c, a) /\ Mul(b, c) = Mul(c, b)
      BY <2>1, <3>1, MulLaws
    <3>3. Mul(c, Add(a, b)) = Add(Mul(c, a), Mul(c, b))
      BY <2>1, MulLaws
    <3> QED BY <3>2, <3>3
  <2> QED BY <2>2, <2>3, <2>4
<1>4. S \in G
  <2> G \in SUBSET (SUBSET S) OBVIOUS
  <2> HIDE DEF G
  <2> QED BY <1>2, <1>3, SubsetInduction
<1>5. Restrict(w, S) = w /\ Restrict(v, S) = v
  BY <1>1, SumStep
<1> QED BY <1>4, <1>5 DEF v

\* Sums are ordered as their elements are.
LEMMA SumOrder ==
    ASSUME NEW S, IsFiniteSet(S), NEW u \in [S -> Fraction], NEW v \in [S -> Fraction],
           \A x \in S : Leq(u[x], v[x])
    PROVE  /\ Leq(SumOf(u), SumOf(v))
           /\ (\E x \in S : Less(u[x], v[x])) => Less(SumOf(u), SumOf(v))
<1> DEFINE w == [x \in S |-> Sub(v[x], u[x])]
<1>1. w \in [S -> Fraction] /\ \A x \in S : w[x] = Sub(v[x], u[x])
  BY AddLaws
<1> HIDE DEF w
<1>2. \A x \in S : v[x] = Add(u[x], w[x])
  <2> TAKE x \in S
  <2>1. u[x] \in Fraction /\ v[x] \in Fraction
    OBVIOUS
  <2>2. Add(w[x], u[x]) = v[x]
    BY <1>1, <2>1, AddLaws
  <2>3. Add(w[x], u[x]) = Add(u[x], w[x])
    BY <1>1, <2>1, AddLaws
  <2> QED BY <2>2, <2>3
<1>3. v = [x \in S |-> Add(u[x], w[x])]
  BY <1>2
<1>4. SumOf(v) = Add(SumOf(u), SumOf(w)) /\ SumOf(u) \in Fraction /\ SumOf(w) \in Fraction /\ SumOf(v) \in Fraction
  BY <1>1, <1>3, SumOfSums, SumLaws
<1>5. \A x \in S : (Leq(Int0, w[x]) <=> Leq(u[x], v[x])) /\ (Less(Int0, w[x]) <=> Less(u[x], v[x]))
  BY <1>1, OrderLaws
<1>6. Leq(Int0, SumOf(w)) /\ ((\E x \in S : Less(u[x], v[x])) => Less(Int0, SumOf(w)))
  BY <1>1, <1>5, SumNonneg
<1>7. SumOf(w) = Sub(SumOf(v), SumOf(u))
  <2>1. Add(SumOf(u), SumOf(w)) = Add(SumOf(w), SumOf(u))
    BY <1>4, AddLaws
  <2>2. Sub(SumOf(v), SumOf(u)) = SumOf(w) <=> SumOf(v) = Add(SumOf(w), SumOf(u))
    BY <1>4, AddLaws
  <2> QED BY <1>4, <2>1, <2>2
<1> QED BY <1>4, <1>6, <1>7, OrderLaws

\* A whole number as a fraction, and its successor.
LEMMA WholeLaws ==
    ASSUME NEW n \in Int, NEW m \in Int
    PROVE  /\ Whole(n) \in Fraction
           /\ Add(Whole(n), Whole(m)) = Whole(n + m)
           /\ Sub(Whole(n), Whole(m)) = Whole(n - m)
           /\ Whole(0) = Int0 /\ Whole(1) = Int1
           /\ Less(Whole(n), Whole(m)) <=> n < m
           /\ Leq(Whole(n), Whole(m)) <=> n <= m
           /\ Whole(n) = Whole(m) <=> n = m
<1> 1 \in Positive BY DEF Positive
<1> QED BY SameDenominator, FracIsFraction DEF Whole, Int0, Int1

\* The sum of one value over a set is that value as often as the set has elements.
LEMMA SumOfSame ==
    ASSUME NEW S, IsFiniteSet(S), NEW c \in Fraction
    PROVE  SumOf([x \in S |-> c]) = Mul(Whole(Cardinality(S)), c)
<1> DEFINE w == [x \in S |-> c]
           G == {T \in SUBSET S : SumOf(Restrict(w, T)) = Mul(Whole(Cardinality(T)), c)}
<1>1. w \in [S -> Fraction] /\ \A x \in S : w[x] = c
  OBVIOUS
<1> HIDE DEF w
<1>2. {} \in G
  <2>1. SumOf(Restrict(w, {})) = Int0
    BY <1>1, SumStep
  <2>2. Mul(Whole(Cardinality({})), c) = Int0
    <3>1. Cardinality({}) = 0 /\ Whole(0) = Int0
      BY WholeLaws, FS_EmptySet
    <3> QED BY <3>1, MulLaws
  <2> QED BY <2>1, <2>2
<1>3. ASSUME NEW T \in G, NEW x \in S, x \notin T PROVE T \cup {x} \in G
  <2>1. SumOf(Restrict(w, T \cup {x})) = Add(c, SumOf(Restrict(w, T))) /\ IsFiniteSet(T)
    <3>1. T \in SUBSET S /\ x \in S \ T
      BY <1>3
    <3> QED BY <1>1, <3>1, SumStep
  <2>2. Cardinality(T \cup {x}) = Cardinality(T) + 1 /\ Cardinality(T) \in Int
    BY <1>3, <2>1, FS_AddElement, FS_CardinalityType
  <2> DEFINE n == Cardinality(T)
  <2>3. n \in Int /\ SumOf(Restrict(w, T)) = Mul(Whole(n), c) /\ Cardinality(T \cup {x}) = n + 1
    BY <2>2
  <2> HIDE DEF n
  <2>4. Mul(Whole(n + 1), c) = Add(c, Mul(Whole(n), c))
    <3>1. Whole(n + 1) = Add(Whole(n), Int1) /\ Whole(n) \in Fraction /\ Int1 \in Fraction
      BY <2>3, WholeLaws, ZeroAndOne
    <3>2. Mul(c, Add(Whole(n), Int1)) = Add(Mul(c, Whole(n)), Mul(c, Int1)) /\ Mul(c, Int1) = c
          /\ Mul(c, Whole(n)) = Mul(Whole(n), c) /\ Mul(c, Whole(n)) \in Fraction
      BY <3>1, MulLaws
    <3>3. Add(Whole(n), Int1) \in Fraction
      BY <3>1, AddLaws
    <3>4. Mul(c, Add(Whole(n), Int1)) = Mul(Add(Whole(n), Int1), c)
      BY <3>3, MulLaws
    <3>5. Add(Mul(c, Whole(n)), c) = Add(c, Mul(c, Whole(n)))
      BY <3>2, AddLaws
    <3> QED BY <3>1, <3>2, <3>4, <3>5
  <2> QED BY <2>1, <2>3, <2>4
<1>4. S \in G
  <2> G \in SUBSET (SUBSET S) OBVIOUS
  <2> HIDE DEF G
  <2> QED BY <1>2, <1>3, SubsetInduction
<1>5. Restrict(w, S) = w
  BY <1>1, SumStep
<1> QED BY <1>4, <1>5 DEF w

\* A sum over two disjoint sets is the sum of the two.
LEMMA SumUnion ==
    ASSUME NEW S, IsFiniteSet(S), NEW w \in [S -> Fraction], NEW A \in SUBSET S, NEW B \in SUBSET S,
           A \cap B = {}, A \cup B = S
    PROVE  SumOf(w) = Add(SumOf(Restrict(w, A)), SumOf(Restrict(w, B)))
<1>1. PICK f : IsFold(Plus, Int0, w, S, f) /\ SumOf(w) = f[S]
  BY SumFolds
<1>2. ASSUME NEW T \in SUBSET S PROVE SumOf(Restrict(w, T)) = f[T] /\ f[T] \in Fraction
  <2> DEFINE v == Restrict(w, T)
  <2>1. IsFiniteSet(T) /\ v \in [T -> Fraction] /\ \A y \in T : w[y] = v[y]
    BY FS_Subset DEF Restrict
  <2> HIDE DEF v
  <2>2. PICK g : IsFold(Plus, Int0, v, T, g) /\ SumOf(v) = g[T]
    BY <2>1, SumFolds
  <2>3. f[T] = g[T]
    BY <1>1, <2>1, <2>2, FoldIsLocal
  <2> QED BY <1>1, <2>2, <2>3 DEF v, IsFold
<1>3. f[A \cup B] = Plus[<<f[A], f[B]>>]
  <2>1. \A x \in S : w[x] \in Fraction
    OBVIOUS
  <2> QED BY <1>1, <2>1, PlusIsMonoid, FoldUnion
<1>4. f[S] = Add(f[A], f[B])
  BY <1>2, <1>3, PlusIsMonoid
<1> QED BY <1>1, <1>2, <1>4

-----------------------------------------------------------------------------
(***************************************************************************)
(* Weights: what capping, equal weights and sleeves allocate.              *)
(***************************************************************************)

\* Outside stop, next is a smaller set.
Reduces(D, stop, next) == \A U \in SUBSET D : U \notin stop => next[U] \in SUBSET U /\ next[U] # U
\* f is defined by the recursion that stops at stop.
Recursion(D, stop, base, next, f) == f = [U \in SUBSET D |-> IF U \in stop THEN base[U] ELSE f[next[U]]]

\* A recursion that goes to smaller subsets is well defined.
LEMMA SubsetRecursion ==
    ASSUME NEW D, IsFiniteSet(D), NEW stop, NEW base, NEW next, Reduces(D, stop, next)
    PROVE  \E f : Recursion(D, stop, base, next, f)
<1> DEFINE Body(f, U) == IF U \in stop THEN base[U] ELSE f[next[U]]
           Upto(n, f) == \A U \in SUBSET D : Cardinality(U) <= n => f[U] = Body(f, U)
           Bad == {n \in Nat : ~\E f : Upto(n, f)}
<1>1. \A U \in SUBSET D : IsFiniteSet(U) /\ Cardinality(U) \in Nat
  BY FS_Subset, FS_CardinalityType
<1>2. \A U \in SUBSET D : U \notin stop =>
        /\ next[U] \in SUBSET D /\ Cardinality(next[U]) < Cardinality(U)
        /\ Cardinality(U) # 0
  <2> TAKE U \in SUBSET D
  <2> HAVE U \notin stop
  <2>1. next[U] \in SUBSET U /\ next[U] # U
    BY DEF Reduces
  <2>2. IsFiniteSet(U) /\ Cardinality(next[U]) \in Nat /\ Cardinality(U) \in Nat /\ next[U] \in SUBSET D
    BY <1>1, <2>1
  <2>3. Cardinality(next[U]) <= Cardinality(U) /\ (Cardinality(next[U]) = Cardinality(U) => next[U] = U)
    BY <2>1, <2>2, FS_Subset
  <2> QED BY <2>1, <2>2, <2>3
<1>3. ASSUME Bad # {} PROVE FALSE
  <2>1. PICK n \in Bad : \A m \in Bad : n <= m
    <3> Bad \in SUBSET Nat OBVIOUS
    <3> HIDE DEF Bad
    <3> QED BY <1>3, LeastNatural
  <2>2. CASE n = 0
    <3> DEFINE f == [U \in SUBSET D |-> base[U]]
    <3>1. ASSUME NEW U \in SUBSET D, Cardinality(U) <= 0 PROVE f[U] = Body(f, U)
      <4>1. U \in stop
        BY <1>1, <1>2, <3>1
      <4> QED BY <4>1
    <3> QED BY <2>2, <3>1
  <2>3. CASE n # 0
    <3>0. n \in Nat /\ n - 1 \in Nat
      BY <2>3
    <3>1. PICK f : Upto(n - 1, f)
      <4>1. n - 1 \notin Bad
        <5> HIDE DEF Bad
        <5> QED BY <2>1, <3>0
      <4> HIDE DEF Upto
      <4> QED BY <3>0, <4>1
    <3> DEFINE g == [U \in SUBSET D |-> IF Cardinality(U) <= n - 1 THEN f[U] ELSE Body(f, U)]
    <3>2. ASSUME NEW U \in SUBSET D, Cardinality(U) <= n PROVE g[U] = Body(g, U)
      <4>1. g[U] = Body(f, U)
        BY <3>1
      <4>2. CASE U \in stop
        BY <4>1, <4>2
      <4>3. CASE U \notin stop
        <5>1. next[U] \in SUBSET D /\ Cardinality(next[U]) <= n - 1
          BY <1>1, <1>2, <3>0, <3>2, <4>3
        <5> QED BY <4>1, <4>3, <5>1
      <4> QED BY <4>2, <4>3
    <3>3. Upto(n, g)
      BY <3>2
    <3> QED BY <3>0, <3>3
  <2> QED BY <2>2, <2>3
<1>4. Cardinality(D) \in Nat
  BY <1>1
<1>5. PICK f : Upto(Cardinality(D), f)
  BY <1>3, <1>4
<1>6. \A U \in SUBSET D : f[U] = Body(f, U)
  BY <1>5, FS_Subset
<1> DEFINE g == [U \in SUBSET D |-> f[U]]
<1>7. \A U \in SUBSET D : g[U] = Body(g, U)
  BY <1>2, <1>6
<1>8. g = [U \in SUBSET D |-> Body(g, U)]
  <2> HIDE DEF Body
  <2> QED BY <1>7
<1> QED BY <1>8 DEF Recursion

-----------------------------------------------------------------------------
\* What addition, subtraction and products say of signs.
LEMMA SignLaws ==
    ASSUME NEW p \in Fraction, NEW q \in Fraction
    PROVE  /\ Leq(Int0, p) /\ Leq(Int0, q) => Leq(Int0, Mul(p, q)) /\ Leq(Int0, Add(p, q)) /\ Leq(p, Add(p, q))
           /\ Less(Int0, p) /\ Less(Int0, q) => Less(Int0, Mul(p, q))
           /\ Leq(Int0, p) /\ Less(Int0, q) => Less(Int0, Add(p, q)) /\ Less(Int0, Add(q, p))
           /\ Less(Int0, q) => (Leq(Int0, p) <=> Leq(Int0, Div(p, q))) /\ (Less(Int0, p) <=> Less(Int0, Div(p, q)))
           /\ Less(p, Int0) <=> Less(Int0, Sub(Int0, p))
<1>0. Int0 \in Fraction
  BY ZeroAndOne
<1>1. Mul(Int0, q) = Int0 /\ Mul(p, Int0) = Int0 /\ Add(p, Int0) = p /\ Add(q, Int0) = q /\ Add(Int0, p) = p
      /\ Mul(p, q) \in Fraction /\ Add(p, q) \in Fraction /\ Add(p, q) = Add(q, p) /\ Add(Int0, q) = q
  BY <1>0, MulLaws, AddLaws
<1>2. Less(Int0, q) => (Leq(Int0, p) <=> Leq(Int0, Mul(p, q))) /\ (Less(Int0, p) <=> Less(Int0, Mul(p, q)))
  BY <1>0, <1>1, MulOrder
<1>3. Leq(Int0, q) => q = Int0 \/ Less(Int0, q)
  BY <1>0, OrderLaws
<1>4. Leq(Int0, Int0)
  BY <1>0, OrderLaws
<1>5. Leq(Int0, p) /\ Leq(Int0, q) => Leq(Int0, Add(p, q)) /\ Leq(p, Add(p, q))
  <2> HAVE Leq(Int0, p) /\ Leq(Int0, q)
  <2>1. Leq(Add(Int0, p), Add(q, p))
    BY <1>0, OrderLaws
  <2> QED BY <1>0, <1>1, <2>1, OrderLaws
<1>6. Leq(Int0, p) /\ Less(Int0, q) => Less(Int0, Add(p, q))
  <2> HAVE Leq(Int0, p) /\ Less(Int0, q)
  <2>1. Less(Add(Int0, p), Add(q, p))
    BY <1>0, OrderLaws
  <2>2. ~Leq(Add(p, q), p)
    BY <1>0, <1>1, <2>1, OrderLaws
  <2>3. ~Leq(Add(p, q), Int0)
    BY <1>0, <1>1, <2>2, OrderLaws
  <2> QED BY <1>0, <1>1, <2>3, OrderLaws
<1>7. Less(Int0, q) => (Leq(Int0, p) <=> Leq(Int0, Div(p, q))) /\ (Less(Int0, p) <=> Less(Int0, Div(p, q)))
  <2> HAVE Less(Int0, q)
  <2>1. Div(p, q) \in Fraction /\ Mul(Div(p, q), q) = p /\ Mul(Int0, q) = Int0
    BY <1>1, DivLaws
  <2> QED BY <1>0, <2>1, MulOrder
<1>8. Less(p, Int0) <=> Less(Int0, Sub(Int0, p))
  BY <1>0, OrderLaws
<1>9. Leq(Int0, p) /\ Leq(Int0, q) => Leq(Int0, Mul(p, q))
  BY <1>1, <1>2, <1>3, <1>4
<1>10. Less(Int0, p) /\ Less(Int0, q) => Less(Int0, Mul(p, q))
  BY <1>2
<1>11. Leq(Int0, p) /\ Less(Int0, q) => Less(Int0, Add(p, q)) /\ Less(Int0, Add(q, p))
  BY <1>1, <1>6
<1> HIDE DEF Leq, Less, Add, Mul, Sub, Div
<1> QED BY <1>5, <1>7, <1>8, <1>9, <1>10, <1>11

\* The smaller of two fractions is one of them, and at most each.
LEMMA LeastLaws ==
    ASSUME NEW p \in Fraction, NEW q \in Fraction
    PROVE  /\ Least(p, q) \in {p, q}
           /\ Leq(Least(p, q), p) /\ Leq(Least(p, q), q)
           /\ Less(q, p) => Least(p, q) = q
           /\ Leq(p, q) => Least(p, q) = p
BY OrderLaws DEF Least

\* A magnitude is not negative, and the value or its opposite.
LEMMA MagnitudeLaws ==
    ASSUME NEW p \in Fraction
    PROVE  /\ Leq(Int0, p) => Magnitude(p) = p
           /\ Less(p, Int0) => Magnitude(p) = Sub(Int0, p)
<1>1. p.num \in Int /\ p.den \in Positive /\ p = Frac(p.num, p.den)
  BY FractionTyped
<1>2. Int0 = Frac(0, p.den)
  BY <1>1, ZeroAndOne
<1> DEFINE n == p.num
           d == p.den
<1>3. n \in Int /\ d \in Positive /\ p = Frac(n, d) /\ Int0 = Frac(0, d) /\ Magnitude(p) = Frac(Size(n), d)
  BY <1>1, <1>2 DEF Magnitude
<1> HIDE DEF n, d
<1>a. \A x, y \in Int : Leq(Frac(x, d), Frac(y, d)) <=> x <= y
  BY <1>3, SameDenominator
<1>b. \A x, y \in Int : Less(Frac(x, d), Frac(y, d)) <=> x < y
  BY <1>3, SameDenominator
<1>4. Leq(Frac(0, d), Frac(n, d)) <=> 0 <= n
  BY <1>3, <1>a
<1>5. Less(Frac(n, d), Frac(0, d)) <=> n < 0
  BY <1>3, <1>b
<1>6. Sub(Frac(0, d), Frac(n, d)) = Frac(0 - n, d)
  BY <1>3, SameDenominator
<1>7. Leq(Int0, p) => Magnitude(p) = p
  BY <1>3, <1>4 DEF Size
<1>8. Less(p, Int0) => Magnitude(p) = Sub(Int0, p)
  BY <1>3, <1>5, <1>6 DEF Size
<1> QED BY <1>7, <1>8

\* Dividing and multiplying by one positive fraction cancel.
LEMMA DivMul ==
    ASSUME NEW p \in Fraction, NEW q \in Fraction, NEW r \in Fraction, Less(Int0, q)
    PROVE  Div(Mul(p, r), q) = Mul(r, Div(p, q))
<1>1. Mul(p, r) \in Fraction /\ Div(p, q) \in Fraction /\ Mul(Div(p, q), q) = p /\ Mul(p, r) = Mul(r, p)
  BY MulLaws, DivLaws
<1>2. Mul(r, Div(p, q)) \in Fraction /\ Div(Mul(p, r), q) \in Fraction
  BY <1>1, MulLaws, DivLaws
<1>3. Mul(Div(Mul(p, r), q), q) = Mul(p, r)
  BY <1>1, DivLaws
<1>4. Mul(Mul(r, Div(p, q)), q) = Mul(r, Mul(Div(p, q), q))
  BY <1>1, MulLaws
<1> QED BY <1>1, <1>2, <1>3, <1>4, MulOrder

\* What is shared is shared out exactly, and everybody gets something.
LEMMA SharesLaws ==
    ASSUME NEW U, IsFiniteSet(U), U # {}, NEW score, \A s \in U : score[s] \in Fraction /\ Less(Int0, score[s]),
           NEW left \in Fraction, Less(Int0, left)
    PROVE  /\ Shares(U, score, left) \in [U -> Fraction]
           /\ \A s \in U : Less(Int0, Shares(U, score, left)[s])
           /\ SumOf(Shares(U, score, left)) = left
<1> DEFINE v == [s \in U |-> score[s]]
           total == SumOf(v)
           c == Div(left, total)
<1>1. v \in [U -> Fraction] /\ \A s \in U : v[s] = score[s] /\ Less(Int0, v[s]) /\ Leq(Int0, v[s])
  <2> Int0 \in Fraction BY ZeroAndOne
  <2> QED BY OrderLaws
<1>2. Shares(U, score, left) = [s \in U |-> Div(Mul(left, v[s]), total)]
  BY <1>1 DEF Shares, SumOver
<1> HIDE DEF v
<1>3. total \in Fraction /\ Less(Int0, total)
  BY <1>1, SumLaws, SumNonneg
<1> HIDE DEF total
<1>4. c \in Fraction /\ Mul(c, total) = left /\ Mul(total, c) = left /\ Less(Int0, c)
  <2>1. c \in Fraction /\ Mul(c, total) = left
    BY <1>3, DivLaws
  <2>2. Mul(c, total) = Mul(total, c)
    BY <1>3, <2>1, MulLaws
  <2>3. Less(Int0, c)
    BY <1>3, SignLaws
  <2> QED BY <2>1, <2>2, <2>3
<1>5. \A s \in U : Div(Mul(left, v[s]), total) = Mul(v[s], c)
  BY <1>1, <1>3, DivMul
<1> HIDE DEF c
<1>6. Shares(U, score, left) = [s \in U |-> Mul(v[s], c)]
  BY <1>2, <1>5
<1>7. SumOf(Shares(U, score, left)) = left
  BY <1>1, <1>4, <1>6, SumScales DEF total
<1>8. \A s \in U : Mul(v[s], c) \in Fraction /\ Less(Int0, Mul(v[s], c))
  BY <1>1, <1>4, MulLaws, SignLaws
<1> QED BY <1>6, <1>7, <1>8

\* What a round of capping gives when it is the last.
CapBase(D, U, left, shares) ==
    IF U = {} \/ (U # D /\ Leq(left, Int0)) THEN [s \in D |-> IF s \in U THEN Int0 ELSE Cap]
    ELSE [s \in D |-> IF s \in U THEN Least(shares[s], Cap) ELSE Cap]
OverCap(U, shares) == {s \in U : Less(Cap, shares[s])}
SharesOf(D, U, score, mass) == Shares(U, score, Left(D, U, mass))
CapStops(D, U, score, mass) ==
    \/ U = {} \/ (U # D /\ Leq(Left(D, U, mass), Int0))
    \/ OverCap(U, SharesOf(D, U, score, mass)) = {}

Rounds(D, score, mass, fill) ==
    \A U \in SUBSET D :
        fill[U] = IF CapStops(D, U, score, mass)
                  THEN CapBase(D, U, Left(D, U, mass), SharesOf(D, U, score, mass))
                  ELSE fill[U \ OverCap(U, SharesOf(D, U, score, mass))]

\* The rounds of capping are well defined.
LEMMA CapRounds ==
    ASSUME NEW D, IsFiniteSet(D), NEW score, DOMAIN score = D, NEW mass
    PROVE  \E fill : CapFill(score, mass) = fill[D] /\ Rounds(D, score, mass, fill)
<1> DEFINE stop == {U \in SUBSET D : CapStops(D, U, score, mass)}
           base == [U \in SUBSET D |-> CapBase(D, U, Left(D, U, mass), SharesOf(D, U, score, mass))]
           next == [U \in SUBSET D |-> U \ OverCap(U, SharesOf(D, U, score, mass))]
           Body(f, U) == LET left == Left(D, U, mass)
                             shares == Shares(U, score, left)
                             over == {s \in U : Less(Cap, shares[s])}
                         IN  IF U = {} \/ (U # D /\ Leq(left, Int0)) THEN [s \in D |-> IF s \in U THEN Int0 ELSE Cap]
                             ELSE IF over = {} THEN [s \in D |-> IF s \in U THEN Least(shares[s], Cap) ELSE Cap]
                             ELSE f[U \ over]
           fill == CHOOSE f : f = [U \in SUBSET D |-> Body(f, U)]
<1>1. CapFill(score, mass) = fill[D]
  BY DEF CapFill
<1>2. Reduces(D, stop, next)
  BY DEF CapStops, OverCap, Reduces
<1>3. PICK f : Recursion(D, stop, base, next, f)
  <2> HIDE DEF stop, base, next
  <2> QED BY <1>2, SubsetRecursion
<1>4. ASSUME NEW g, NEW U \in SUBSET D
      PROVE  Body(g, U) = IF U \in stop THEN base[U] ELSE g[next[U]]
  BY DEF CapStops, CapBase, OverCap, SharesOf
<1> HIDE DEF Body, stop, base, next
<1>5. f = [U \in SUBSET D |-> Body(f, U)]
  BY <1>3, <1>4 DEF Recursion
<1>6. fill = [U \in SUBSET D |-> Body(fill, U)]
  BY <1>5
<1> HIDE DEF fill
<1>7. \A U \in SUBSET D : fill[U] = IF U \in stop THEN base[U] ELSE fill[next[U]]
  <2> TAKE U \in SUBSET D
  <2>1. fill[U] = Body(fill, U)
    BY <1>6
  <2> QED BY <1>4, <2>1
<1> USE DEF stop, base, next
<1> QED BY <1>1, <1>7 DEF Rounds

\* Strict order is kept by addition.
LEMMA LessAdd ==
    ASSUME NEW p \in Fraction, NEW q \in Fraction, NEW r \in Fraction, Leq(p, q), Less(Int0, r)
    PROVE  Less(p, Add(q, r))
<1>1. Int0 \in Fraction /\ Add(q, r) \in Fraction /\ Add(Int0, q) = q /\ Add(r, q) = Add(q, r)
  BY ZeroAndOne, AddLaws
<1>2. Less(Add(Int0, q), Add(r, q))
  BY <1>1, OrderLaws
<1>3. ~Leq(Add(q, r), q)
  BY <1>1, <1>2, OrderLaws
<1>4. ~Leq(Add(q, r), p)
  BY <1>1, <1>3, OrderLaws
<1> QED BY <1>1, <1>4, OrderLaws

\* So many caps, and one more.
LEMMA TimesCap ==
    ASSUME NEW n \in Nat, NEW m \in Nat
    PROVE  /\ Mul(Whole(n), Cap) \in Fraction
           /\ Mul(Whole(n + m), Cap) = Add(Mul(Whole(n), Cap), Mul(Whole(m), Cap))
           /\ n # 0 => Less(Int0, Mul(Whole(n), Cap))
           /\ n = 0 => Mul(Whole(n), Cap) = Int0
<1>0. n \in Int /\ m \in Int /\ n + m \in Int /\ Cap \in Fraction /\ Less(Int0, Cap)
  BY WeightsAssumption
<1>1. Whole(n) \in Fraction /\ Whole(m) \in Fraction /\ Whole(n + m) = Add(Whole(n), Whole(m)) /\ Cap \in Fraction
      /\ Whole(n + m) \in Fraction /\ Less(Int0, Cap)
  BY <1>0, WholeLaws
<1>2. Mul(Whole(n), Cap) \in Fraction /\ Mul(Whole(n), Cap) = Mul(Cap, Whole(n)) /\ Mul(Whole(m), Cap) = Mul(Cap, Whole(m))
      /\ Mul(Whole(n + m), Cap) = Mul(Cap, Whole(n + m))
      /\ Mul(Cap, Add(Whole(n), Whole(m))) = Add(Mul(Cap, Whole(n)), Mul(Cap, Whole(m)))
  BY <1>1, MulLaws
<1>3. n # 0 => Less(Int0, Mul(Whole(n), Cap))
  <2> HAVE n # 0
  <2>1. Less(Whole(0), Whole(n)) /\ Whole(0) = Int0
    <3>1. 0 \in Int /\ n \in Int /\ 0 < n
      OBVIOUS
    <3>2. \A k \in Int : Less(Whole(k), Whole(n)) <=> k < n
      BY <1>0, WholeLaws
    <3> QED BY <3>1, <3>2, WholeLaws
  <2> QED BY <1>1, <2>1, SignLaws
<1>4. n = 0 => Mul(Whole(n), Cap) = Int0
  BY <1>1, WholeLaws, MulLaws
<1> QED BY <1>1, <1>2, <1>3, <1>4

\* Weights of D that share out the mass, nobody above the cap.
IsFilled(D, mass, w) == /\ w \in [D -> Fraction]
                        /\ \A s \in D : Leq(Int0, w[s]) /\ Leq(w[s], Cap)
                        /\ SumOf(w) = mass
\* Below the cap in every symbol of U there is room for what is left.
HasRoom(D, mass, U) == /\ U \in SUBSET D /\ U # {}
                       /\ Less(Int0, Left(D, U, mass))

\* What is left after the capped symbols have their cap.
LEMMA LeftLaws ==
    ASSUME NEW D, IsFiniteSet(D), NEW mass \in Fraction, Leq(mass, Mul(Whole(Cardinality(D)), Cap)),
           NEW U \in SUBSET D
    PROVE  /\ Left(D, U, mass) \in Fraction
           /\ Add(Left(D, U, mass), Mul(Whole(Cardinality(D \ U)), Cap)) = mass
           /\ Leq(Left(D, U, mass), Mul(Whole(Cardinality(U)), Cap))
           /\ \A V \in SUBSET U : Left(D, U \ V, mass) = Sub(Left(D, U, mass), Mul(Whole(Cardinality(V)), Cap))
<1> DEFINE n == Cardinality(U)
           m == Cardinality(D \ U)
           a == Mul(Whole(n), Cap)
           b == Mul(Whole(m), Cap)
<1>1. n \in Nat /\ m \in Nat /\ Cardinality(D) = n + m /\ IsFiniteSet(D \ U) /\ IsFiniteSet(U)
  <2>1. IsFiniteSet(D \ U) /\ IsFiniteSet(U) /\ (D \ U) \cap U = {} /\ (D \ U) \cup U = D
    BY FS_Subset
  <2>2. Cardinality((D \ U) \cup U) = Cardinality(D \ U) + Cardinality(U) - Cardinality((D \ U) \cap U)
    BY <2>1, FS_Union
  <2>3. \A T : IsFiniteSet(T) => Cardinality(T) \in Nat
    BY FS_CardinalityType
  <2>4. Cardinality((D \ U) \cap U) = 0
    BY <2>1, FS_EmptySet
  <2> QED BY <2>1, <2>2, <2>3, <2>4
<1>2. a \in Fraction /\ b \in Fraction /\ Mul(Whole(Cardinality(D)), Cap) = Add(a, b)
  BY <1>1, TimesCap
<1>3. Left(D, U, mass) = Sub(mass, b)
  BY DEF Left
<1> HIDE DEF a, b
<1>4. Left(D, U, mass) \in Fraction /\ Add(Left(D, U, mass), b) = mass
  BY <1>2, <1>3, AddLaws
<1>5. Leq(Left(D, U, mass), a)
  <2>1. Leq(Add(Left(D, U, mass), b), Add(a, b))
    BY <1>2, <1>4
  <2> QED BY <1>2, <1>4, <2>1, OrderLaws
<1>6. ASSUME NEW V \in SUBSET U
      PROVE  Left(D, U \ V, mass) = Sub(Left(D, U, mass), Mul(Whole(Cardinality(V)), Cap))
  <2> DEFINE k == Cardinality(V)
             c == Mul(Whole(k), Cap)
  <2>1. k \in Nat /\ Cardinality(D \ (U \ V)) = m + k
    <3>1. IsFiniteSet(V) /\ (D \ U) \cap V = {} /\ (D \ U) \cup V = D \ (U \ V)
      BY <1>1, FS_Subset
    <3>2. Cardinality((D \ U) \cup V) = Cardinality(D \ U) + Cardinality(V) - Cardinality((D \ U) \cap V)
      BY <1>1, <3>1, FS_Union
    <3>3. Cardinality(V) \in Nat
      BY <3>1, FS_CardinalityType
    <3>4. Cardinality((D \ U) \cap V) = 0
      BY <3>1, FS_EmptySet
    <3>5. Cardinality(D \ (U \ V)) = Cardinality((D \ U) \cup V)
      BY <3>1
    <3>6. m \in Nat /\ k \in Nat /\ Cardinality((D \ U) \cup V) = m + k - 0
      BY <1>1, <3>2, <3>3, <3>4
    <3> HIDE DEF m, k
    <3> QED BY <3>5, <3>6
  <2>2. c \in Fraction /\ Mul(Whole(m + k), Cap) = Add(b, c)
    BY <1>1, <2>1, TimesCap DEF b
  <2>3. Left(D, U \ V, mass) = Sub(mass, Add(b, c))
    BY <2>1, <2>2 DEF Left
  <2> HIDE DEF c
  <2>4. Sub(Sub(mass, b), c) = Sub(mass, Add(b, c))
    BY <1>2, <2>2, AddLaws
  <2> QED BY <1>3, <2>3, <2>4 DEF c
<1> QED BY <1>4, <1>5, <1>6 DEF a, b

\* Capping shares out the whole exposure, nobody above the cap.
LEMMA CapFillLaws ==
    ASSUME NEW D, IsFiniteSet(D), D # {}, NEW score \in [D -> Fraction], \A s \in D : Less(Int0, score[s]),
           NEW mass \in Fraction, Less(Int0, mass), Leq(mass, Mul(Whole(Cardinality(D)), Cap))
    PROVE  IsFilled(D, mass, CapFill(score, mass))
<1>1. PICK fill : CapFill(score, mass) = fill[D] /\ Rounds(D, score, mass, fill)
  <2> DOMAIN score = D OBVIOUS
  <2> QED BY CapRounds
<1>2. Cap \in Fraction /\ Less(Int0, Cap) /\ Leq(Int0, Cap) /\ Leq(Cap, Cap) /\ Int0 \in Fraction
  BY WeightsAssumption, ZeroAndOne, OrderLaws
<1>3. ASSUME NEW U, HasRoom(D, mass, U)
      PROVE  LET over == OverCap(U, SharesOf(D, U, score, mass))
             IN  /\ over = {} => IsFilled(D, mass, fill[U])
                 /\ over # {} => HasRoom(D, mass, U \ over) /\ fill[U] = fill[U \ over]
  <2> DEFINE left == Left(D, U, mass)
             shares == SharesOf(D, U, score, mass)
             over == OverCap(U, shares)
             V == U \ over
             n == Cardinality(U)
  <2>1. /\ U \in SUBSET D /\ U # {} /\ IsFiniteSet(U) /\ left \in Fraction /\ Less(Int0, left)
        /\ Add(left, Mul(Whole(Cardinality(D \ U)), Cap)) = mass
        /\ Leq(left, Mul(Whole(n), Cap))
        /\ n \in Nat
    BY <1>3, LeftLaws, FS_Subset, FS_CardinalityType DEF HasRoom
  <2>2. \A W \in SUBSET U : Left(D, U \ W, mass) = Sub(left, Mul(Whole(Cardinality(W)), Cap))
    BY <2>1, LeftLaws
  <2>3. ~Leq(left, Int0)
    BY <1>2, <2>1, OrderLaws
  <2>4. shares \in [U -> Fraction] /\ (\A s \in U : Less(Int0, shares[s])) /\ SumOf(shares) = left
    <3>1. \A s \in U : score[s] \in Fraction /\ Less(Int0, score[s])
      BY <2>1
    <3> HIDE DEF left
    <3> QED BY <2>1, <3>1, SharesLaws DEF SharesOf, left
  <2>5. over \in SUBSET U /\ V \in SUBSET U /\ over \cap V = {} /\ over \cup V = U
    BY DEF OverCap
  <2>6. CapStops(D, U, score, mass) <=> over = {}
    BY <2>1, <2>3 DEF CapStops
  <2>7. CASE over = {}
    <3> DEFINE w == [s \in D |-> IF s \in U THEN Least(shares[s], Cap) ELSE Cap]
    <3>1. fill[U] = w
      BY <1>1, <2>1, <2>3, <2>6, <2>7 DEF CapBase, Rounds
    <3>2. \A s \in U : ~Less(Cap, shares[s])
      BY <2>7 DEF OverCap
    <3>3. \A s \in U : Leq(shares[s], Cap) /\ Leq(Int0, shares[s]) /\ Least(shares[s], Cap) = shares[s]
      <4> HIDE DEF shares
      <4> QED BY <1>2, <2>4, <3>2, OrderLaws, LeastLaws
    <3>4. \A s \in D : w[s] = IF s \in U THEN shares[s] ELSE Cap
      BY <3>3
    <3>5. w \in [D -> Fraction] /\ \A s \in D : Leq(Int0, w[s]) /\ Leq(w[s], Cap)
      <4>1. w = [s \in D |-> w[s]]
        OBVIOUS
      <4> HIDE DEF w, shares
      <4> QED BY <1>2, <2>1, <2>4, <3>3, <3>4, <4>1
    <3>6. Restrict(w, U) = shares /\ Restrict(w, D \ U) = [s \in D \ U |-> Cap]
      <4> shares = [s \in U |-> shares[s]]
        BY <2>4
      <4> HIDE DEF w, shares
      <4> QED BY <2>1, <3>4 DEF Restrict
    <3> HIDE DEF w
    <3>7. SumOf(w) = Add(SumOf(Restrict(w, U)), SumOf(Restrict(w, D \ U)))
      <4>1. U \in SUBSET D /\ D \ U \in SUBSET D /\ U \cap (D \ U) = {} /\ U \cup (D \ U) = D
        BY <2>1
      <4> QED BY <3>5, <4>1, SumUnion
    <3>8. SumOf([s \in D \ U |-> Cap]) = Mul(Whole(Cardinality(D \ U)), Cap)
      <4> IsFiniteSet(D \ U) BY FS_Subset
      <4> QED BY <1>2, SumOfSame
    <3> QED BY <2>1, <2>4, <2>7, <3>1, <3>5, <3>6, <3>7, <3>8 DEF IsFilled
  <2>8. CASE over # {}
    <3>1. fill[U] = fill[V]
        BY <1>1, <2>1, <2>6, <2>8 DEF Rounds
    <3> HIDE DEF left, shares, n
    <3>2. IsFiniteSet(over) /\ IsFiniteSet(V) /\ Cardinality(over) \in Nat
      BY <2>1, <2>5, FS_Subset, FS_CardinalityType
    <3>3. \A s \in over : Less(Cap, shares[s]) /\ Leq(Cap, shares[s]) /\ shares[s] \in Fraction
      BY <1>2, <2>4, OrderLaws DEF OverCap
    <3> HIDE DEF over, V
    <3>4. V # {}
      <4>1. ASSUME V = {} PROVE FALSE
        <5>1. over = U
          BY <2>5, <4>1
        <5> DEFINE c == [s \in U |-> Cap]
        <5>2. c \in [U -> Fraction] /\ (\A s \in U : Leq(c[s], shares[s])) /\ (\E s \in U : Less(c[s], shares[s]))
          BY <1>2, <2>1, <3>3, <5>1
        <5>3. SumOf(c) = Mul(Whole(n), Cap)
          BY <1>2, <2>1, SumOfSame DEF n
        <5> HIDE DEF c
        <5>4. Less(SumOf(c), SumOf(shares))
          BY <2>1, <2>4, <5>2, SumOrder
        <5>5. Mul(Whole(n), Cap) \in Fraction
          BY <2>1, TimesCap
        <5> QED BY <2>1, <2>4, <5>3, <5>4, <5>5, OrderLaws
      <4> QED BY <4>1
    <3> DEFINE a == SumOf(Restrict(shares, over))
               b == SumOf(Restrict(shares, V))
               k == Mul(Whole(Cardinality(over)), Cap)
    <3>5. left = Add(a, b)
      BY <2>1, <2>4, <2>5, SumUnion
    <3>6. a \in Fraction /\ Leq(k, a) /\ k \in Fraction
      <4> DEFINE c == [s \in over |-> Cap]
                 d == Restrict(shares, over)
      <4>1. c \in [over -> Fraction] /\ d \in [over -> Fraction] /\ \A s \in over : Leq(c[s], d[s])
        BY <1>2, <3>3 DEF Restrict
      <4>2. SumOf(c) = k
        BY <1>2, <3>2, SumOfSame
      <4> HIDE DEF c, d, k
      <4>3. Leq(SumOf(c), SumOf(d)) /\ SumOf(c) \in Fraction /\ SumOf(d) \in Fraction
        BY <3>2, <4>1, SumOrder, SumLaws
      <4> QED BY <4>2, <4>3 DEF d
    <3>7. b \in Fraction /\ Less(Int0, b)
      <4> DEFINE d == Restrict(shares, V)
      <4>1. d \in [V -> Fraction] /\ \A s \in V : Less(Int0, d[s])
        BY <2>4, <2>5 DEF Restrict
      <4> HIDE DEF d
      <4>2. \A s \in V : Leq(Int0, d[s])
        BY <1>2, <4>1, OrderLaws
      <4>3. SumOf(d) \in Fraction /\ Less(Int0, SumOf(d))
        BY <3>2, <3>4, <4>1, <4>2, SumLaws, SumNonneg
      <4> QED BY <4>3 DEF d
    <3> HIDE DEF a, b, k
    <3>8. Less(k, left)
      BY <3>5, <3>6, <3>7, LessAdd
    <3>9. Left(D, V, mass) = Sub(left, k)
      BY <2>2, <2>5 DEF k, V
    <3>10. Less(Int0, Sub(left, k))
      BY <2>1, <3>6, <3>8, OrderLaws
    <3>11. V \in SUBSET D
      BY <2>1, <2>5
    <3>12. HasRoom(D, mass, V)
      BY <3>4, <3>9, <3>10, <3>11 DEF HasRoom
    <3> QED BY <2>8, <3>1, <3>12 DEF over, V, shares
  <2> QED BY <2>7, <2>8
<1> DEFINE Bad == {n \in Nat : \E U : HasRoom(D, mass, U) /\ Cardinality(U) = n /\ ~IsFilled(D, mass, fill[U])}
<1>4. ASSUME Bad # {} PROVE FALSE
  <2>1. PICK n \in Bad : \A m \in Bad : n <= m
    <3> Bad \in SUBSET Nat OBVIOUS
    <3> HIDE DEF Bad
    <3> QED BY <1>4, LeastNatural
  <2>2. PICK U : HasRoom(D, mass, U) /\ Cardinality(U) = n /\ ~IsFilled(D, mass, fill[U])
    OBVIOUS
  <2> DEFINE over == OverCap(U, SharesOf(D, U, score, mass))
             V == U \ over
  <2>3. over # {} /\ HasRoom(D, mass, V) /\ fill[U] = fill[V]
    BY <1>3, <2>2
  <2>4. Cardinality(V) \in Nat /\ Cardinality(V) < n
    <3>1. over \in SUBSET U /\ V \in SUBSET U /\ V # U /\ IsFiniteSet(U)
      BY <2>2, <2>3, FS_Subset DEF OverCap, HasRoom
    <3>2. Cardinality(V) <= Cardinality(U) /\ (Cardinality(V) = Cardinality(U) => V = U)
          /\ IsFiniteSet(V)
      BY <3>1, FS_Subset
    <3> HIDE DEF V, over
    <3>3. Cardinality(V) \in Nat /\ Cardinality(U) \in Nat
      BY <3>1, <3>2, FS_CardinalityType
    <3> QED BY <2>2, <3>1, <3>2, <3>3
  <2> HIDE DEF V
  <2>5. Cardinality(V) \in Bad
    BY <2>2, <2>3, <2>4
  <2>6. n \in Nat
    OBVIOUS
  <2> HIDE DEF Bad
  <2> QED BY <2>1, <2>4, <2>5, <2>6
<1>5. HasRoom(D, mass, D)
  <2>1. D \ D = {}
    OBVIOUS
  <2>2. Cardinality({}) = 0 /\ Mul(Whole(0), Cap) = Int0
    BY TimesCap, FS_EmptySet
  <2>3. Sub(mass, Int0) = mass
    BY AddLaws
  <2>4. Left(D, D, mass) = mass
    BY <2>1, <2>2, <2>3 DEF Left
  <2> QED BY <2>4 DEF HasRoom
<1>6. Cardinality(D) \in Nat
  BY FS_CardinalityType
<1>7. IsFilled(D, mass, fill[D])
  BY <1>4, <1>5, <1>6
<1> QED BY <1>1, <1>7

\* Weights of a long-only, unlevered target.
AreWeights(w) == /\ w \in [Symbols -> Fraction]
                 /\ \A s \in Symbols : Leq(Int0, w[s])
                 /\ Leq(SumOf(w), Int1)
AreCapped(w) == /\ \A s \in Symbols : Leq(w[s], Cap)
                /\ (\E s \in Symbols : Less(Int0, w[s]) /\ Less(w[s], Cap)) => SumOf(w) = Int1

\* There are finitely many symbols.
LEMMA SymbolsFinite == \A S \in SUBSET Symbols : IsFiniteSet(S) /\ Cardinality(S) \in Nat
BY WeightsAssumption, FS_Subset, FS_CardinalityType

\* A sum of zeros is zero.
LEMMA SumOfNothing ==
    ASSUME NEW S, IsFiniteSet(S)
    PROVE  SumOf([s \in S |-> Int0]) = Int0
<1>1. Cardinality(S) \in Int
  BY FS_CardinalityType
<1>2. SumOf([s \in S |-> Int0]) = Mul(Whole(Cardinality(S)), Int0)
  BY ZeroAndOne, SumOfSame
<1>3. Whole(Cardinality(S)) \in Fraction
  BY <1>1, WholeLaws
<1> QED BY <1>2, <1>3, MulLaws

\* Weights of some symbols, zero elsewhere, sum to what those weights sum to.
LEMMA ScatterLaws ==
    ASSUME NEW S \in SUBSET Symbols, NEW w \in [S -> Fraction]
    PROVE  /\ Scatter(S, w) \in [Symbols -> Fraction]
           /\ \A s \in Symbols : Scatter(S, w)[s] = IF s \in S THEN w[s] ELSE Int0
           /\ SumOf(Scatter(S, w)) = SumOf(w)
<1> DEFINE v == Scatter(S, w)
<1>1. v = [s \in Symbols |-> IF s \in S THEN w[s] ELSE Int0]
  BY DEF Scatter
<1>2. v \in [Symbols -> Fraction] /\ \A s \in Symbols : v[s] = IF s \in S THEN w[s] ELSE Int0
  BY <1>1, ZeroAndOne
<1> HIDE DEF v
<1>3. Restrict(v, S) = w /\ Restrict(v, Symbols \ S) = [s \in Symbols \ S |-> Int0]
  <2>1. \A s \in S : v[s] = w[s]
    BY <1>2
  <2>2. \A s \in Symbols \ S : v[s] = Int0
    BY <1>2
  <2>3. w = [s \in S |-> w[s]]
    OBVIOUS
  <2> QED BY <2>1, <2>2, <2>3 DEF Restrict
<1>4. IsFiniteSet(Symbols) /\ IsFiniteSet(Symbols \ S) /\ IsFiniteSet(S)
  BY SymbolsFinite
<1>5. SumOf(v) = Add(SumOf(Restrict(v, S)), SumOf(Restrict(v, Symbols \ S)))
  <2>1. Symbols \ S \in SUBSET Symbols /\ S \cap (Symbols \ S) = {} /\ S \cup (Symbols \ S) = Symbols
    OBVIOUS
  <2> QED BY <1>2, <1>4, <2>1, SumUnion
<1>6. SumOf([s \in Symbols \ S |-> Int0]) = Int0
  BY <1>4, SumOfNothing
<1>7. SumOf(w) \in Fraction /\ Add(SumOf(w), Int0) = SumOf(w)
  BY <1>4, SumLaws, AddLaws
<1> QED BY <1>2, <1>3, <1>5, <1>6, <1>7 DEF v

\* The empty target is a target.
LEMMA NoWeightsLaws == AreWeights(NoWeights) /\ AreCapped(NoWeights) /\ SumOf(NoWeights) = Int0
<1>1. Int0 \in Fraction /\ Int1 \in Fraction /\ Less(Int0, Int1) /\ Cap \in Fraction /\ Less(Int0, Cap)
  BY ZeroAndOne, WeightsAssumption
<1>2. Leq(Int0, Int0) /\ Leq(Int0, Int1) /\ Leq(Int0, Cap) /\ ~Less(Int0, Int0)
  BY <1>1, OrderLaws
<1>3. SumOf(NoWeights) = Int0
  BY SymbolsFinite, SumOfNothing DEF NoWeights
<1>4. NoWeights \in [Symbols -> Fraction] /\ \A s \in Symbols : NoWeights[s] = Int0
  BY <1>1 DEF NoWeights
<1> HIDE DEF NoWeights
<1> QED BY <1>2, <1>3, <1>4 DEF AreWeights, AreCapped

\* Equal weights are a target, of exposure one.
LEMMA EqualWeightsLaws ==
    ASSUME NEW S \in SUBSET Symbols
    PROVE  /\ AreWeights(EqualWeights(S))
           /\ SumOf(EqualWeights(S)) = IF S = {} THEN Int0 ELSE Int1
           /\ \A s \in S : EqualWeights(S)[s] = Frac(1, Cardinality(S)) /\ Less(Int0, EqualWeights(S)[s])
<1> DEFINE n == Cardinality(S)
           c == Frac(1, n)
           w == [s \in S |-> c]
<1>1. IsFiniteSet(S) /\ n \in Nat /\ (n = 0 <=> S = {})
  BY SymbolsFinite, FS_EmptySet
<1>2. Int0 \in Fraction /\ Int1 \in Fraction /\ Leq(Int0, Int0) /\ Leq(Int0, Int1) /\ Leq(Int1, Int1)
  BY ZeroAndOne, OrderLaws
<1>3. EqualWeights(S) = Scatter(S, w)
  BY DEF EqualWeights
<1>4. CASE S = {}
  <2>1. w \in [S -> Fraction] /\ w = [s \in S |-> Int0]
    BY <1>4
  <2> HIDE DEF w
  <2>2. SumOf(w) = Int0
    BY <1>1, <2>1, SumOfNothing
  <2> DEFINE v == Scatter(S, w)
  <2>3. v \in [Symbols -> Fraction] /\ (\A s \in Symbols : v[s] = IF s \in S THEN w[s] ELSE Int0) /\ SumOf(v) = SumOf(w)
    BY <2>1, ScatterLaws
  <2> HIDE DEF v
  <2>4. \A s \in Symbols : v[s] = Int0
    BY <1>4, <2>3
  <2>5. AreWeights(v) /\ SumOf(v) = Int0
    BY <1>2, <2>2, <2>3, <2>4 DEF AreWeights
  <2> QED BY <1>3, <1>4, <2>5 DEF v
<1>5. CASE S # {}
  <2>1. n \in Positive /\ 1 \in Int /\ n \in Int
    BY <1>1, <1>5 DEF Positive
  <2> HIDE DEF n
  <2>2. c \in Fraction
    BY <2>1, FracIsFraction
  <2>3. Less(Int0, c)
    <3>1. Int0 = Frac(0, n)
      BY <2>1, ZeroAndOne
    <3>2. \A x, y \in Int : Less(Frac(x, n), Frac(y, n)) <=> x < y
      BY <2>1, SameDenominator
    <3> QED BY <3>1, <3>2
  <2>4. Leq(Int0, c)
    BY <1>2, <2>2, <2>3, OrderLaws
  <2>5. Mul(Whole(n), c) = Int1
    <3>1. 1 \in Positive
      BY DEF Positive
    <3>2. Mul(Whole(n), c) = Frac(n * 1, 1 * n)
      BY <2>1, <3>1, MulFrac DEF Whole
    <3>3. n * 1 = n /\ 1 * n = n
      BY <2>1
    <3> QED BY <2>1, <3>2, <3>3, ZeroAndOne
  <2> HIDE DEF c
  <2>6. w \in [S -> Fraction] /\ \A s \in S : w[s] = c
    BY <2>2
  <2>7. SumOf(w) = Int1
    BY <1>1, <2>2, <2>5, SumOfSame DEF n
  <2> HIDE DEF w
  <2> QED BY <1>2, <1>3, <1>5, <2>3, <2>4, <2>6, <2>7, ScatterLaws DEF AreWeights, c, n
<1> QED BY <1>4, <1>5

\* Weights scaled by an exposure are a target of that exposure.
LEMMA ScaledWeightsLaws ==
    ASSUME NEW S \in SUBSET Symbols, NEW vol \in Fraction, Leq(Int0, vol)
    PROVE  AreWeights(ScaledWeights(S, vol))
<1>1. CASE S = {} \/ vol = Int0
  BY <1>1, NoWeightsLaws DEF ScaledWeights
<1>2. CASE S # {} /\ vol # Int0
  <2> DEFINE scale == Least(Int1, Div(TargetVol, vol))
             e == EqualWeights(S)
             w == [s \in Symbols |-> Mul(e[s], scale)]
  <2>1. Int0 \in Fraction /\ Int1 \in Fraction /\ Less(Int0, Int1)
    BY ZeroAndOne
  <2>2. Less(Int0, vol)
    BY <1>2, <2>1, OrderLaws
  <2>3. Div(TargetVol, vol) \in Fraction /\ Leq(Int0, Div(TargetVol, vol))
    <3>1. TargetVol \in Fraction /\ Leq(Int0, TargetVol)
      BY WeightsAssumption
    <3> QED BY <2>2, <3>1, DivLaws, SignLaws
  <2>4. scale \in Fraction /\ Leq(scale, Int1) /\ scale \in {Int1, Div(TargetVol, vol)}
    BY <2>1, <2>3, LeastLaws DEF Least
  <2>5. Leq(Int0, scale)
    <3>1. Leq(Int0, Int1)
      BY <2>1, OrderLaws
    <3> QED BY <2>3, <2>4, <3>1
  <2> HIDE DEF scale
  <2>6. e \in [Symbols -> Fraction] /\ (\A s \in Symbols : Leq(Int0, e[s])) /\ SumOf(e) = Int1
    BY <1>2, EqualWeightsLaws DEF AreWeights
  <2> HIDE DEF e
  <2>7. w \in [Symbols -> Fraction] /\ \A s \in Symbols : Leq(Int0, w[s])
    BY <2>4, <2>5, <2>6, MulLaws, SignLaws
  <2>8. SumOf(w) = Mul(Int1, scale)
    BY <2>4, <2>6, SymbolsFinite, SumScales
  <2>9. Mul(Int1, scale) = scale
    BY <2>4, MulLaws
  <2>10. \A s \in Symbols : Mul(scale, e[s]) = Mul(e[s], scale)
    BY <2>4, <2>6, MulLaws
  <2>11. ScaledWeights(S, vol) = w
    BY <1>2, <2>10 DEF ScaledWeights, scale, e
  <2> HIDE DEF w
  <2> QED BY <2>4, <2>7, <2>8, <2>9, <2>11 DEF AreWeights
<1> QED BY <1>1, <1>2

\* Capped weights are a target that respects the cap.
LEMMA CappedWeightsLaws ==
    ASSUME NEW V \in SUBSET Symbols, NEW vol \in [V -> Fraction]
    PROVE  AreWeights(CappedWeights(vol)) /\ AreCapped(CappedWeights(vol))
<1> DEFINE D == {s \in DOMAIN vol : Less(Int0, vol[s])}
           score == [s \in D |-> Div(Int1, vol[s])]
           n == Cardinality(D)
           whole == Mul(Whole(n), Cap)
           mass == Least(Int1, whole)
           u == CapFill(score, mass)
           w == Scatter(D, u)
<1>1. D \in SUBSET Symbols /\ IsFiniteSet(D) /\ n \in Nat
  BY SymbolsFinite
<1>2. Int0 \in Fraction /\ Int1 \in Fraction /\ Less(Int0, Int1) /\ Leq(Int0, Int0)
      /\ Cap \in Fraction /\ Less(Int0, Cap) /\ Leq(Int0, Cap)
  BY ZeroAndOne, WeightsAssumption, OrderLaws
<1>3. CASE D = {}
  BY <1>3, NoWeightsLaws DEF CappedWeights
<1>4. CASE D # {}
  <2>1. CappedWeights(vol) = w
    BY <1>4 DEF CappedWeights
  <2>2. score \in [D -> Fraction] /\ \A s \in D : Less(Int0, score[s])
    <3>1. \A s \in D : vol[s] \in Fraction /\ Less(Int0, vol[s])
      OBVIOUS
    <3>2. \A s \in D : Div(Int1, vol[s]) \in Fraction /\ Less(Int0, Div(Int1, vol[s]))
      BY <1>2, <3>1, DivLaws, SignLaws
    <3> HIDE DEF D
    <3> QED BY <3>2
  <2>3. whole \in Fraction /\ Less(Int0, whole)
    <3>1. n # 0
      BY <1>1, <1>4, FS_EmptySet
    <3> QED BY <1>1, <3>1, TimesCap
  <2> HIDE DEF D, score, whole
  <2>4. mass \in Fraction /\ Less(Int0, mass) /\ Leq(mass, whole) /\ Leq(mass, Int1) /\ mass \in {Int1, whole}
    BY <1>2, <2>3, LeastLaws
  <2> HIDE DEF mass
  <2>5. IsFilled(D, mass, u)
    BY <1>1, <1>4, <2>2, <2>4, CapFillLaws DEF whole
  <2> HIDE DEF u
  <2>6. u \in [D -> Fraction] /\ (\A s \in D : Leq(Int0, u[s]) /\ Leq(u[s], Cap)) /\ SumOf(u) = mass
    BY <2>5 DEF IsFilled
  <2>7. /\ w \in [Symbols -> Fraction] /\ SumOf(w) = mass
        /\ \A s \in Symbols : w[s] = IF s \in D THEN u[s] ELSE Int0
    BY <1>1, <2>6, ScatterLaws
  <2> HIDE DEF w
  <2>8. \A s \in Symbols : Leq(Int0, w[s]) /\ Leq(w[s], Cap)
    BY <1>2, <2>6, <2>7
  <2>9. ASSUME NEW s \in Symbols, Less(Int0, w[s]), Less(w[s], Cap) PROVE SumOf(w) = Int1
    <3>1. s \in D
      BY <1>2, <2>7, <2>9, OrderLaws
    <3> DEFINE c == [t \in D |-> Cap]
    <3>2. c \in [D -> Fraction] /\ (\A t \in D : Leq(u[t], c[t])) /\ Less(u[s], c[s])
      BY <1>2, <2>6, <2>7, <2>9, <3>1
    <3>3. SumOf(c) = whole
      BY <1>1, <1>2, SumOfSame DEF whole
    <3> HIDE DEF c
    <3>4. Less(mass, whole)
      BY <1>1, <2>6, <3>1, <3>2, <3>3, SumOrder
    <3> QED BY <2>3, <2>4, <2>7, <3>4, OrderLaws
  <2> QED BY <2>1, <2>4, <2>7, <2>8, <2>9 DEF AreWeights, AreCapped
<1> QED BY <1>3, <1>4

\* Whatever the candidate's kind of weighting, its weights are a target.
LEMMA WeightsLaws ==
    ASSUME NEW family \in Families \ {"cash", "buy_and_hold", "sleeve"}, NEW history, NEW vols \in VolCases
    PROVE  /\ AreWeights(Weights(family, history, vols))
           /\ family \in {"time_series", "trend_filtered"} => AreCapped(Weights(family, history, vols))
<1>1. family \in {"cross_sectional", "time_series", "trend_filtered", "volatility_managed"}
  BY ReplayAssumption
<1>2. vols \in [Symbols -> Fraction] /\ \A s \in Symbols : Leq(Int0, vols[s])
  BY ReplayAssumption
<1>3. ASSUME NEW S \in SUBSET Symbols
      PROVE  AreWeights(CappedWeights(Picked(S, vols))) /\ AreCapped(CappedWeights(Picked(S, vols)))
  <2> Picked(S, vols) \in [S -> Fraction]
    BY <1>2 DEF Picked
  <2> QED BY CappedWeightsLaws
<1>4. CASE family = "cross_sectional"
  <2>1. Leaders(history, Lookback, Skip) \in SUBSET Symbols
    BY DEF Leaders, Rising
  <2> QED BY <1>4, <2>1, EqualWeightsLaws DEF Weights
<1>5. CASE family = "time_series"
  <2>1. Rising(history, Lookback, 0) \in SUBSET Symbols
    BY DEF Rising
  <2> QED BY <1>3, <1>5, <2>1 DEF Weights
<1>6. CASE family = "trend_filtered"
  <2>1. AboveTrend(history) \in SUBSET Symbols
    BY DEF AboveTrend
  <2> QED BY <1>3, <1>6, <2>1 DEF Weights
<1>7. CASE family = "volatility_managed"
  <2>1. Leaders(history, Lookback, 0) \in SUBSET Symbols
    BY DEF Leaders, Rising
  <2> DEFINE vol == vols[CHOOSE s \in Symbols : TRUE]
  <2>2. vol \in Fraction /\ Leq(Int0, vol)
    BY <1>2, WeightsAssumption
  <2>3. Weights(family, history, vols) = ScaledWeights(Leaders(history, Lookback, 0), vol)
    BY <1>7 DEF Weights
  <2> HIDE DEF vol
  <2> QED BY <1>7, <2>1, <2>2, <2>3, ScaledWeightsLaws
<1> QED BY <1>1, <1>4, <1>5, <1>6, <1>7

\* A sleeve's weights are a target, whatever the regime exposes.
LEMMA SleeveLaws ==
    ASSUME NEW x \in Exposures
    PROVE  AreWeights([s \in Symbols |-> IF s = SleeveSymbol THEN x ELSE Int0])
<1> DEFINE w == [s \in Symbols |-> IF s = SleeveSymbol THEN x ELSE Int0]
           one == [s \in {SleeveSymbol} |-> x]
<1>1. x \in Fraction /\ Leq(Int0, x) /\ Leq(x, Int1) /\ SleeveSymbol \in Symbols /\ Int0 \in Fraction /\ Leq(Int0, Int0)
  BY ReplayAssumption, ZeroAndOne, OrderLaws
<1>2. w = Scatter({SleeveSymbol}, one)
  BY DEF Scatter
<1>3. one \in [{SleeveSymbol} -> Fraction] /\ {SleeveSymbol} \in SUBSET Symbols
  BY <1>1
<1>4. SumOf(one) = x
  <2> DEFINE T == {SleeveSymbol}
  <2>1. IsFiniteSet(T) /\ Cardinality(T) = 1
    BY FS_Singleton, Zenon
  <2> HIDE DEF T
  <2>2. SumOf([s \in T |-> x]) = Mul(Whole(1), x)
    BY <1>1, <2>1, SumOfSame
  <2>3. Whole(1) = Int1 /\ one = [s \in T |-> x]
    BY DEF Whole, Int1, T
  <2> QED BY <1>1, <2>2, <2>3, MulLaws
<1> HIDE DEF one
<1>5. SumOf(w) = x /\ w \in [Symbols -> Fraction]
  BY <1>2, <1>3, <1>4, ScatterLaws
<1>6. \A s \in Symbols : Leq(Int0, w[s])
  BY <1>1
<1> HIDE DEF w
<1>7. AreWeights(w)
  BY <1>1, <1>5, <1>6 DEF AreWeights
<1> QED BY <1>7 DEF w

\* A target passes the replay's own validation, so the replay never raises.
LEMMA LegalWeights == \A w : AreWeights(w) => LegalTarget(w)
<1> TAKE w
<1> HAVE AreWeights(w)
<1>1. [s \in Symbols |-> w[s]] = w
  BY DEF AreWeights
<1> QED BY <1>1 DEF AreWeights, LegalTarget, SumOver

-----------------------------------------------------------------------------
\* Targets so far are legal, and formed one session after the other.
TargetsInv ==
    /\ opens \in [1..Scored -> Rows]
    /\ closes \in [1..(Warmup + Scored) -> Rows]
    /\ plan \in [family : Families, friction : Frictions, clock : Clocks]
    /\ targets \in Seq([due : Int, weights : [Symbols -> Fraction]])
    /\ Len(targets) <= Scored
    /\ \A i \in DOMAIN targets :
          /\ AreWeights(targets[i].weights)
          /\ plan.family \in {"time_series", "trend_filtered"} => AreCapped(targets[i].weights)
    /\ status \in {"forming", "open", "close", "done"}
    /\ status = "forming" <=> Len(targets) < Scored
    /\ now \in 1..Scored

\* The book is never short, and something is left.
BookInv ==
    /\ cash \in Fraction /\ Leq(Int0, cash)
    /\ holdings \in [Symbols -> Fraction]
    /\ \A s \in Symbols : Leq(Int0, holdings[s])
    /\ Less(Int0, cash) \/ \E s \in Symbols : Less(Int0, holdings[s])

\* A replay starts with no target and all its money.
LEMMA ReplayInitInv == ReplayInit => TargetsInv /\ BookInv
<1> HAVE ReplayInit
<1>1. TargetsInv
  <2> 1 \in 1..Scored /\ Scored \in Nat /\ Scored # 0
    BY ReplayAssumption DEF Positive
  <2> QED BY DEF ReplayInit, TargetsInv
<1>2. BookInv
  <2>1. Int0 \in Fraction /\ Int1 \in Fraction /\ Less(Int0, Int1) /\ Leq(Int0, Int1)
    BY ZeroAndOne, OrderLaws
  <2> QED BY <2>1, NoWeightsLaws DEF ReplayInit, BookInv, AreWeights
<1> QED BY <1>1, <1>2

\* The target before the first is empty.
LEMMA NoTargetLaws ==
    /\ NoTarget \in [due : Int, weights : [Symbols -> Fraction]]
    /\ AreWeights(NoTarget.weights) /\ AreCapped(NoTarget.weights)
BY NoWeightsLaws DEF NoTarget, AreWeights

\* A target that a session forms.
FormedTarget(t) == /\ t \in [due : Int, weights : [Symbols -> Fraction]]
                   /\ AreWeights(t.weights)
                   /\ plan.family \in {"time_series", "trend_filtered"} => AreCapped(t.weights)

\* What a session forms is a target of the next session.
LEMMA TargetFormed ==
    ASSUME TargetsInv, NEW i \in Nat, NEW panel, NEW vols \in VolCases, plan.family # "sleeve"
    PROVE  FormedTarget(Target(i, panel, vols))
<1>1. DueAfter(i) \in Int /\ DueAfter(1) \in Int
  BY DEF DueAfter
<1>2. plan.family \in Families
  BY DEF TargetsInv
<1>3. FormedTarget(NoTarget)
  BY NoTargetLaws DEF FormedTarget
<1>4. CASE plan.family = "cash"
  BY <1>3, <1>4 DEF Target
<1>5. CASE plan.family = "buy_and_hold"
  <2>1. CASE i = 1
    <3> DEFINE w == EqualWeights(Symbols)
    <3>1. AreWeights(w)
      BY EqualWeightsLaws
    <3>2. Target(i, panel, vols) = [due |-> DueAfter(1), weights |-> w]
      BY <1>5, <2>1 DEF Target
    <3> HIDE DEF w
    <3> QED BY <1>1, <1>5, <3>1, <3>2 DEF FormedTarget, AreWeights
  <2>2. CASE i # 1
    BY <1>3, <1>5, <2>2 DEF Target
  <2> QED BY <2>1, <2>2
<1>6. CASE plan.family \notin {"cash", "buy_and_hold"}
  <2>1. CASE OnClock(i)
    <3> DEFINE w == Weights(plan.family, CausalHistory(i, panel), vols)
    <3>1. AreWeights(w) /\ (plan.family \in {"time_series", "trend_filtered"} => AreCapped(w))
      BY <1>2, <1>6, WeightsLaws
    <3>2. Target(i, panel, vols) = [due |-> DueAfter(i), weights |-> w]
      BY <1>6, <2>1 DEF Target
    <3> HIDE DEF w
    <3> QED BY <1>1, <3>1, <3>2 DEF FormedTarget, AreWeights
  <2>2. CASE ~OnClock(i)
    BY <1>3, <1>6, <2>2 DEF Target
  <2> QED BY <2>1, <2>2
<1> QED BY <1>4, <1>5, <1>6

LEMMA SleeveFormed ==
    ASSUME NEW i \in Nat, NEW x \in Exposures, plan.family = "sleeve"
    PROVE  FormedTarget(SleeveTarget(i, x))
<1> DEFINE w == [s \in Symbols |-> IF s = SleeveSymbol THEN x ELSE Int0]
<1>1. AreWeights(w)
  BY SleeveLaws
<1>2. SleeveTarget(i, x) \in {NoTarget, [due |-> DueAfter(i), weights |-> w]}
  BY DEF SleeveTarget
<1> HIDE DEF w
<1>3. DueAfter(i) \in Int
  BY DEF DueAfter
<1> QED BY <1>1, <1>2, <1>3, NoTargetLaws DEF FormedTarget, AreWeights

\* Forming a target keeps the targets in order and touches no money.
LEMMA FormKeeps == TargetsInv /\ BookInv /\ FormTarget => TargetsInv' /\ BookInv'
<1> SUFFICES ASSUME TargetsInv, BookInv, FormTarget PROVE TargetsInv' /\ BookInv'
  OBVIOUS
<1> DEFINE n == Len(targets)
<1>0. n \in Nat /\ n < Scored /\ Scored \in Nat /\ targets \in Seq([due : Int, weights : [Symbols -> Fraction]])
  BY ReplayAssumption DEF TargetsInv, FormTarget, Positive
<1>1. PICK t : FormedTarget(t) /\ targets' = Append(targets, t)
  <2>1. CASE plan.family = "sleeve"
    <3>1. PICK x \in Exposures : targets' = Append(targets, SleeveTarget(n + 1, x))
      BY <2>1 DEF FormTarget
    <3> QED BY <1>0, <2>1, <3>1, SleeveFormed
  <2>2. CASE plan.family # "sleeve"
    <3>1. PICK vols \in VolCases : targets' = Append(targets, Target(n + 1, closes, vols))
      BY <2>2 DEF FormTarget
    <3> QED BY <1>0, <2>2, <3>1, TargetFormed
  <2> QED BY <2>1, <2>2
<1>2. /\ targets' \in Seq([due : Int, weights : [Symbols -> Fraction]])
      /\ Len(targets') = n + 1
      /\ targets'[n + 1] = t
      /\ \A i \in 1..n : targets'[i] = targets[i]
      /\ DOMAIN targets' = 1..(n + 1) /\ DOMAIN targets = 1..n
  BY <1>0, <1>1 DEF FormedTarget
<1>3. LegalTarget(targets'[Len(targets')].weights)
  BY <1>1, <1>2, LegalWeights DEF FormedTarget
<1>4. status' = IF n + 1 = Scored THEN "open" ELSE "forming"
  BY <1>2, <1>3 DEF FormTarget
<1>5. UNCHANGED <<opens, closes, plan, now, holdings, cash>>
  BY DEF FormTarget
<1>6. \A i \in DOMAIN targets' :
          /\ AreWeights(targets'[i].weights)
          /\ plan.family \in {"time_series", "trend_filtered"} => AreCapped(targets'[i].weights)
  <2> TAKE i \in DOMAIN targets'
  <2>1. i \in 1..n \/ i = n + 1
    BY <1>0, <1>2
  <2>2. CASE i \in 1..n
    BY <1>2, <2>2 DEF TargetsInv
  <2>3. CASE i = n + 1
    BY <1>1, <1>2, <2>3 DEF FormedTarget
  <2> QED BY <2>1, <2>2, <2>3
<1> HIDE DEF n
<1>7. TargetsInv'
  BY <1>0, <1>2, <1>4, <1>5, <1>6 DEF TargetsInv
<1>8. BookInv'
  BY <1>5 DEF BookInv
<1> QED BY <1>7, <1>8

-----------------------------------------------------------------------------
(***************************************************************************)
(* An open: what it is asked to trade, what the sells bring in, what the   *)
(* purchases cost, and what is left.                                       *)
(***************************************************************************)

\* What OpenSession computes.
Worth == Add(cash, Value(holdings, opens[now]))
Desired == [s \in Symbols |-> Mul(DueTarget.weights[s], Worth)]
Delta == [s \in Symbols |-> Sub(Desired[s], Mul(holdings[s], Whole(opens[now][s])))]
Sells == {s \in Symbols : Less(Delta[s], Int0)}
Buys == {s \in Symbols : Less(Int0, Delta[s])}
Proceeds == SumOver(Sells, LAMBDA s : Sub(Sub(Int0, Delta[s]), FrictionOn(Magnitude(Delta[s]))))
Spendable == Add(cash, Proceeds)
Purchases == Bought(Buys, Delta, Spendable)
Spent == SumOver(Buys, LAMBDA s : Add(Purchases[s], FrictionOn(Purchases[s])))
SoldDown == [s \in Symbols |-> IF s \in Sells THEN Units(s, Desired[s])
                               ELSE Add(holdings[s], Units(s, Purchases[s]))]

\* What an open changes, in named parts.
LEMMA OpenIs ==
    OpenSession =>
        /\ status = "open" /\ worth' = Worth
        /\ status' = IF Leq(Worth, Int0) THEN "failed" ELSE "close"
        /\ IF Leq(Worth, Int0) \/ DueTarget = NoTarget
           THEN UNCHANGED <<holdings, cash, fills>>
           ELSE cash' = Sub(Spendable, Spent) /\ holdings' = SoldDown
        /\ UNCHANGED <<opens, closes, plan, targets, now, states>>
BY DEF OpenSession, Worth, Desired, Delta, Sells, Buys, Proceeds, Spendable, Purchases, Spent, SoldDown

\* What holdings are worth is not negative, and adds up over the symbols.
LEMMA ValueLaws ==
    ASSUME NEW h \in [Symbols -> Fraction], \A s \in Symbols : Leq(Int0, h[s]),
           NEW row \in [Symbols -> Positive]
    PROVE  /\ Value(h, row) \in Fraction /\ Leq(Int0, Value(h, row))
           /\ (\E s \in Symbols : Less(Int0, h[s])) => Less(Int0, Value(h, row))
           /\ \A s \in Symbols : Whole(row[s]) \in Fraction /\ Less(Int0, Whole(row[s]))
           /\ \A s \in Symbols : Mul(h[s], Whole(row[s])) \in Fraction
<1> DEFINE w == [s \in Symbols |-> Mul(h[s], Whole(row[s]))]
<1>1. Int0 \in Fraction /\ IsFiniteSet(Symbols)
  BY ZeroAndOne, SymbolsFinite
<1>2. \A s \in Symbols : Whole(row[s]) \in Fraction /\ Less(Int0, Whole(row[s])) /\ Leq(Int0, Whole(row[s]))
  <2> TAKE s \in Symbols
  <2> DEFINE n == row[s]
  <2>1. n \in Int /\ 0 \in Int /\ 0 < n
    BY DEF Positive
  <2> HIDE DEF n
  <2>2. Whole(n) \in Fraction /\ Whole(0) = Int0
    BY <2>1, WholeLaws
  <2>3. \A x, y \in Int : Less(Whole(x), Whole(y)) <=> x < y
    BY WholeLaws
  <2>4. Less(Int0, Whole(n))
    BY <2>1, <2>2, <2>3
  <2>5. Leq(Int0, Whole(n))
    BY <1>1, <2>2, <2>4, OrderLaws
  <2> QED BY <2>2, <2>4, <2>5 DEF n
<1>3. \A s \in Symbols : /\ Mul(h[s], Whole(row[s])) \in Fraction
                         /\ Leq(Int0, Mul(h[s], Whole(row[s])))
                         /\ Less(Int0, h[s]) => Less(Int0, Mul(h[s], Whole(row[s])))
  <2> TAKE s \in Symbols
  <2>1. h[s] \in Fraction /\ Leq(Int0, h[s]) /\ Whole(row[s]) \in Fraction /\ Less(Int0, Whole(row[s]))
        /\ Leq(Int0, Whole(row[s]))
    BY <1>2
  <2> QED BY <2>1, MulLaws, SignLaws
<1>4. Value(h, row) = SumOf(w)
  BY DEF Value, SumOver
<1>5. w \in [Symbols -> Fraction] /\ \A s \in Symbols : Leq(Int0, w[s]) /\ (Less(Int0, h[s]) => Less(Int0, w[s]))
  BY <1>3
<1> HIDE DEF w
<1>6. SumOf(w) \in Fraction /\ Leq(Int0, SumOf(w)) /\ ((\E s \in Symbols : Less(Int0, h[s])) => Less(Int0, SumOf(w)))
  BY <1>1, <1>5, SumLaws, SumNonneg
<1> QED BY <1>2, <1>3, <1>4, <1>6

\* The target that is due is one of the targets, or the empty one.
LEMMA DueTargetLaws ==
    ASSUME TargetsInv, status # "forming"
    PROVE  AreWeights(DueTarget.weights)
<1>1. DOMAIN targets = 1..Scored /\ Scored \in Nat /\ now \in 1..Scored
  BY ReplayAssumption DEF TargetsInv, Positive
<1>2. CASE now > 1 /\ targets[now - 1].due = now
  <2> now - 1 \in DOMAIN targets
    BY <1>1, <1>2
  <2> QED BY <1>2 DEF DueTarget, TargetsInv
<1>3. CASE ~(now > 1 /\ targets[now - 1].due = now)
  BY <1>3, NoTargetLaws DEF DueTarget
<1> QED BY <1>2, <1>3

\* Friction is part of what is traded, and less than all of it.
LEMMA FrictionLaws ==
    ASSUME TargetsInv
    PROVE  /\ plan.friction \in Fraction /\ Leq(Int0, plan.friction) /\ Less(plan.friction, Int1)
           /\ \A x \in Fraction : FrictionOn(x) \in Fraction /\ WithFriction(x) \in Fraction
           /\ \A x \in Fraction : Less(x, Int0) =>
                 /\ Sub(Sub(Int0, x), FrictionOn(Magnitude(x))) \in Fraction
                 /\ Less(Int0, Sub(Sub(Int0, x), FrictionOn(Magnitude(x))))
           /\ \A x \in Fraction : Add(x, FrictionOn(x)) = WithFriction(x)
           /\ \A x \in Fraction : Less(Int0, x) => Less(Int0, WithFriction(x))
           /\ WithFriction(Int0) = Int0
<1> DEFINE f == plan.friction
           g == Add(Int1, f)
<1>1. f \in Fraction /\ Leq(Int0, f) /\ Less(f, Int1)
  BY ReplayAssumption DEF TargetsInv
<1>3. \A x : FrictionOn(x) = Mul(x, f) /\ WithFriction(x) = Mul(x, g)
  BY DEF FrictionOn, WithFriction
<1>4. Int0 \in Fraction /\ Int1 \in Fraction /\ Less(Int0, Int1) /\ Leq(Int0, Int1)
  BY ZeroAndOne, OrderLaws
<1> HIDE DEF f
<1>5. g \in Fraction /\ Less(Int0, g)
  <2>1. g = Add(f, Int1) /\ g \in Fraction
    BY <1>1, <1>4, AddLaws
  <2> QED BY <1>1, <1>4, <2>1, SignLaws
<1>6. Sub(Int1, f) \in Fraction /\ Less(Int0, Sub(Int1, f))
  BY <1>1, <1>4, AddLaws, OrderLaws
<1>7. \A x \in Fraction : Mul(x, f) \in Fraction /\ Mul(x, g) \in Fraction /\ Mul(x, Int1) = x
  BY <1>1, <1>4, <1>5, MulLaws
<1>8. ASSUME NEW x \in Fraction, Less(x, Int0)
      PROVE  /\ Sub(Sub(Int0, x), Mul(Magnitude(x), f)) \in Fraction
             /\ Less(Int0, Sub(Sub(Int0, x), Mul(Magnitude(x), f)))
  <2> DEFINE m == Sub(Int0, x)
  <2>1. m \in Fraction /\ Magnitude(x) = m /\ Less(Int0, m)
    BY <1>4, <1>8, AddLaws, MagnitudeLaws, SignLaws
  <2> HIDE DEF m
  <2>2. Sub(m, Mul(m, f)) = Mul(m, Sub(Int1, f))
    BY <1>1, <1>4, <1>7, <2>1, MulLaws
  <2>3. Mul(m, Sub(Int1, f)) \in Fraction /\ Less(Int0, Mul(m, Sub(Int1, f)))
    BY <1>6, <2>1, MulLaws, SignLaws
  <2> QED BY <2>1, <2>2, <2>3 DEF m
<1>9. \A x \in Fraction : Add(x, Mul(x, f)) = Mul(x, g)
  <2> TAKE x \in Fraction
  <2>1. Mul(x, Add(Int1, f)) = Add(Mul(x, Int1), Mul(x, f))
    BY <1>1, <1>4, MulLaws
  <2> QED BY <1>7, <2>1
<1>10. \A x \in Fraction : Less(Int0, x) => Less(Int0, Mul(x, g))
  BY <1>5, SignLaws
<1>11. Mul(Int0, g) = Int0
  BY <1>5, MulLaws
<1> HIDE DEF g
<1>12. \A x \in Fraction : Less(x, Int0) =>
                 /\ Sub(Sub(Int0, x), FrictionOn(Magnitude(x))) \in Fraction
                 /\ Less(Int0, Sub(Sub(Int0, x), FrictionOn(Magnitude(x))))
  BY <1>3, <1>8
<1> QED BY <1>1, <1>3, <1>7, <1>9, <1>10, <1>11, <1>12 DEF f

\* What a session asks to trade.
LEMMA OrdersLaws ==
    ASSUME TargetsInv, BookInv, status = "open"
    PROVE  /\ Worth \in Fraction /\ Less(Int0, Worth)
           /\ Desired \in [Symbols -> Fraction] /\ \A s \in Symbols : Leq(Int0, Desired[s])
           /\ Delta \in [Symbols -> Fraction]
           /\ Sells \in SUBSET Symbols /\ Buys \in SUBSET Symbols /\ Sells \cap Buys = {}
           /\ \A s \in Symbols : Whole(opens[now][s]) \in Fraction /\ Less(Int0, Whole(opens[now][s]))
           /\ \A s \in Buys : Less(Int0, Delta[s])
           /\ \A s \in Sells : Less(Delta[s], Int0)
<1>1. opens[now] \in [Symbols -> Positive]
  BY ReplayAssumption DEF TargetsInv
<1>2. /\ holdings \in [Symbols -> Fraction] /\ \A s \in Symbols : Leq(Int0, holdings[s])
      /\ cash \in Fraction /\ Leq(Int0, cash)
      /\ Less(Int0, cash) \/ \E s \in Symbols : Less(Int0, holdings[s])
  BY DEF BookInv
<1> DEFINE v == Value(holdings, opens[now])
<1>3. v \in Fraction /\ Leq(Int0, v) /\ ((\E s \in Symbols : Less(Int0, holdings[s])) => Less(Int0, v))
      /\ (\A s \in Symbols : Whole(opens[now][s]) \in Fraction /\ Less(Int0, Whole(opens[now][s])))
      /\ \A s \in Symbols : Mul(holdings[s], Whole(opens[now][s])) \in Fraction
  BY <1>1, <1>2, ValueLaws
<1> HIDE DEF v
<1>4. Worth = Add(cash, v)
  BY DEF Worth, v
<1>5. Worth \in Fraction /\ Less(Int0, Worth) /\ Int0 \in Fraction
  BY <1>2, <1>3, <1>4, AddLaws, SignLaws, ZeroAndOne
<1>6. Leq(Int0, Worth)
  BY <1>5, OrderLaws
<1>7. Desired \in [Symbols -> Fraction] /\ \A s \in Symbols : Leq(Int0, Desired[s])
  <2> DEFINE w == DueTarget.weights
  <2>1. w \in [Symbols -> Fraction] /\ \A s \in Symbols : Leq(Int0, w[s])
    BY DueTargetLaws DEF AreWeights
  <2>2. Desired = [s \in Symbols |-> Mul(w[s], Worth)]
    BY DEF Desired
  <2> HIDE DEF w
  <2> QED BY <1>5, <1>6, <2>1, <2>2, MulLaws, SignLaws
<1>8. Delta \in [Symbols -> Fraction]
  BY <1>3, <1>7, AddLaws DEF Delta
<1>9. \A s \in Symbols : ~(Less(Delta[s], Int0) /\ Less(Int0, Delta[s]))
  BY <1>5, <1>8, OrderLaws
<1> QED BY <1>3, <1>5, <1>7, <1>8, <1>9 DEF Sells, Buys

\* Sells bring money in.
LEMMA ProceedsLaws ==
    ASSUME TargetsInv, BookInv, status = "open"
    PROVE  /\ Proceeds \in Fraction /\ Leq(Int0, Proceeds)
           /\ Sells # {} => Less(Int0, Proceeds)
<1> DEFINE w == [s \in Sells |-> Sub(Sub(Int0, Delta[s]), FrictionOn(Magnitude(Delta[s])))]
<1>1. Proceeds = SumOf(w)
  BY DEF Proceeds, SumOver
<1>2. IsFiniteSet(Sells) /\ Int0 \in Fraction
  BY OrdersLaws, SymbolsFinite, ZeroAndOne
<1>3. w \in [Sells -> Fraction] /\ \A s \in Sells : Less(Int0, w[s])
  <2>1. \A s \in Sells : Delta[s] \in Fraction /\ Less(Delta[s], Int0)
    BY OrdersLaws
  <2> QED BY <2>1, FrictionLaws
<1> HIDE DEF w
<1>4. \A s \in Sells : Leq(Int0, w[s])
  BY <1>2, <1>3, OrderLaws
<1> QED BY <1>1, <1>2, <1>3, <1>4, SumLaws, SumNonneg

\* Purchases scaled to the cash there is, with their friction, cost no more than it.
LEMMA ScaleLaws ==
    ASSUME TargetsInv, NEW total \in Fraction, Less(Int0, total), NEW available \in Fraction, Leq(Int0, available)
    PROVE  /\ BuyScale(total, available) \in Fraction
           /\ Leq(Int0, BuyScale(total, available))
           /\ Leq(Mul(WithFriction(total), BuyScale(total, available)), available)
           /\ Less(Int0, available) => Less(Int0, BuyScale(total, available))
<1> DEFINE needed == WithFriction(total)
<1>1. needed \in Fraction /\ Less(Int0, needed)
  <2>1. \A x \in Fraction : FrictionOn(x) \in Fraction /\ WithFriction(x) \in Fraction
    BY FrictionLaws
  <2>2. \A x \in Fraction : Add(x, FrictionOn(x)) = WithFriction(x) /\ (Less(Int0, x) => Less(Int0, WithFriction(x)))
    BY FrictionLaws
  <2> QED BY <2>1, <2>2
<1>2. BuyScale(total, available) = IF Less(available, needed) THEN Div(available, needed) ELSE Int1
  BY DEF BuyScale
<1> HIDE DEF needed
<1>3. Int0 \in Fraction /\ Int1 \in Fraction /\ Leq(Int0, Int1) /\ Less(Int0, Int1)
  BY ZeroAndOne, OrderLaws
<1>4. CASE Less(available, needed)
  <2>1. Div(available, needed) \in Fraction /\ Mul(Div(available, needed), needed) = available
    BY <1>1, DivLaws
  <2>2. Mul(needed, Div(available, needed)) = available
    BY <1>1, <2>1, MulLaws
  <2>3. Leq(Int0, Div(available, needed))
    BY <1>1, <1>3, <2>1, MulLaws, MulOrder
  <2>4. Less(Int0, available) => Less(Int0, Div(available, needed))
    BY <1>1, <1>3, <2>1, SignLaws
  <2> QED BY <1>2, <1>3, <1>4, <2>1, <2>2, <2>3, <2>4, OrderLaws DEF needed
<1>5. CASE ~Less(available, needed)
  <2>1. Mul(needed, Int1) = needed /\ Leq(needed, available)
    BY <1>1, <1>3, <1>5, MulLaws, OrderLaws
  <2> QED BY <1>2, <1>3, <1>5, <2>1 DEF needed
<1> QED BY <1>4, <1>5

\* The cash after the sells is not negative.
LEMMA AvailableLaws ==
    ASSUME TargetsInv, BookInv, status = "open"
    PROVE  /\ Spendable \in Fraction /\ Leq(Int0, Spendable)
           /\ Spendable = Int0 => cash = Int0 /\ Sells = {}
<1>1. /\ cash \in Fraction /\ Leq(Int0, cash) /\ Proceeds \in Fraction /\ Leq(Int0, Proceeds)
      /\ Sells # {} => Less(Int0, Proceeds)
      /\ Int0 \in Fraction /\ Spendable = Add(cash, Proceeds)
  BY ProceedsLaws, ZeroAndOne DEF BookInv, Spendable
<1>2. Spendable \in Fraction /\ Leq(cash, Spendable) /\ Leq(Proceeds, Spendable)
  <2>1. Add(Int0, Proceeds) = Proceeds /\ Add(Int0, cash) = cash /\ Spendable = Add(Proceeds, cash) /\ Spendable \in Fraction
    BY <1>1, AddLaws
  <2>2. Leq(Add(Int0, Proceeds), Add(cash, Proceeds)) /\ Leq(Add(Int0, cash), Add(Proceeds, cash))
    BY <1>1, OrderLaws
  <2> QED BY <1>1, <2>1, <2>2
<1>3. Leq(Int0, Spendable)
  BY <1>1, <1>2, OrderLaws
<1>4. ASSUME Spendable = Int0 PROVE cash = Int0 /\ Sells = {}
  BY <1>1, <1>2, <1>4, OrderLaws
<1> QED BY <1>2, <1>3, <1>4

\* What is bought, and that there is cash for it and its friction.
LEMMA PurchasesLaws ==
    ASSUME TargetsInv, BookInv, status = "open"
    PROVE  /\ Purchases \in [Symbols -> Fraction]
           /\ \A s \in Symbols : Leq(Int0, Purchases[s])
           /\ \A s \in Symbols \ Buys : Purchases[s] = Int0
           /\ Spent \in Fraction
           /\ Leq(Spent, Spendable)
           /\ Spent # Int0 => \E s \in Buys : Less(Int0, Purchases[s])
<1> DEFINE d == [s \in Buys |-> Delta[s]]
           total == SumOf(d)
           scale == BuyScale(total, Spendable)
           paid == [s \in Buys |-> Add(Purchases[s], FrictionOn(Purchases[s]))]
<1>1. Spent = SumOf(paid)
  BY DEF Spent, SumOver
<1>2. Purchases = IF Buys = {} \/ Leq(scale, Int0) THEN NoWeights
                  ELSE Scatter(Buys, [s \in Buys |-> Mul(Delta[s], scale)])
  BY DEF Purchases, Bought, SumOver
<1>3. /\ Int0 \in Fraction /\ Leq(Int0, Int0) /\ IsFiniteSet(Buys) /\ Buys \in SUBSET Symbols
      /\ Spendable \in Fraction /\ Leq(Int0, Spendable)
      /\ d \in [Buys -> Fraction] /\ \A s \in Buys : d[s] = Delta[s] /\ Less(Int0, d[s]) /\ Leq(Int0, d[s])
  <2>1. Int0 \in Fraction /\ Leq(Int0, Int0) /\ Spendable \in Fraction /\ Leq(Int0, Spendable)
    BY AvailableLaws, ZeroAndOne, OrderLaws
  <2>2. Buys \in SUBSET Symbols /\ Delta \in [Symbols -> Fraction] /\ \A s \in Buys : Less(Int0, Delta[s])
    BY OrdersLaws
  <2>3. IsFiniteSet(Buys) /\ d \in [Buys -> Fraction] /\ \A s \in Buys : d[s] = Delta[s]
    BY <2>2, SymbolsFinite
  <2>4. \A s \in Buys : Less(Int0, d[s]) /\ Leq(Int0, d[s])
    <3> TAKE s \in Buys
    <3> QED BY <2>1, <2>2, <2>3, OrderLaws
  <2> QED BY <2>1, <2>2, <2>3, <2>4
<1>4. WithFriction(Int0) = Int0 /\ \A x \in Fraction : Add(x, FrictionOn(x)) = WithFriction(x) /\ WithFriction(x) \in Fraction
  <2>1. WithFriction(Int0) = Int0
    BY FrictionLaws
  <2>2. \A x \in Fraction : FrictionOn(x) \in Fraction /\ WithFriction(x) \in Fraction
    BY FrictionLaws
  <2>3. \A x \in Fraction : Add(x, FrictionOn(x)) = WithFriction(x) /\ (Less(Int0, x) => Less(Int0, WithFriction(x)))
    BY FrictionLaws
  <2> QED BY <2>1, <2>2, <2>3
<1>5. ASSUME Purchases = NoWeights
      PROVE  Spent = Int0
  <2>1. \A s \in Buys : Purchases[s] = Int0
    BY <1>3, <1>5 DEF NoWeights
  <2>2. paid = [s \in Buys |-> Int0]
    BY <1>3, <1>4, <2>1
  <2> QED BY <1>1, <1>3, <2>2, SumOfNothing
<1>6. CASE Purchases = NoWeights
  <2>1. \A s \in Symbols : NoWeights[s] = Int0
    BY DEF NoWeights
  <2> QED BY <1>3, <1>5, <1>6, <2>1 DEF NoWeights
<1>7. CASE Purchases # NoWeights
  <2> DEFINE p == [s \in Buys |-> Mul(Delta[s], scale)]
  <2>1. Purchases = Scatter(Buys, p) /\ Buys # {} /\ ~Leq(scale, Int0)
    BY <1>2, <1>7
  <2> HIDE DEF d
  <2>2. total \in Fraction /\ Less(Int0, total)
    BY <1>3, <2>1, SumLaws, SumNonneg
  <2> HIDE DEF total
  <2>3. scale \in Fraction /\ Leq(Int0, scale) /\ Leq(Mul(WithFriction(total), scale), Spendable)
    BY <1>3, <2>2, ScaleLaws
  <2> HIDE DEF scale
  <2>4. Less(Int0, scale)
    BY <1>3, <2>1, <2>3, OrderLaws
  <2>5. p \in [Buys -> Fraction] /\ \A s \in Buys : p[s] = Mul(d[s], scale) /\ Less(Int0, p[s]) /\ Leq(Int0, p[s])
    <3>1. \A s \in Buys : Mul(d[s], scale) \in Fraction /\ Less(Int0, Mul(d[s], scale))
      BY <1>3, <2>3, <2>4, MulLaws, SignLaws
    <3>2. \A s \in Buys : Leq(Int0, Mul(d[s], scale))
      BY <1>3, <3>1, OrderLaws
    <3> QED BY <1>3, <3>1, <3>2
  <2> HIDE DEF p
  <2>6. /\ Purchases \in [Symbols -> Fraction]
        /\ \A s \in Symbols : Purchases[s] = IF s \in Buys THEN p[s] ELSE Int0
    BY <1>3, <2>1, <2>5, ScatterLaws
  <2>7. \A s \in Symbols : Leq(Int0, Purchases[s])
    BY <1>3, <2>5, <2>6
  <2>8. Spent = Mul(WithFriction(total), scale)
    <3> DEFINE k == Mul(scale, Add(Int1, plan.friction))
    <3>1. plan.friction \in Fraction /\ Int1 \in Fraction /\ Add(Int1, plan.friction) \in Fraction
      BY FrictionLaws, ZeroAndOne, AddLaws
    <3>2. k \in Fraction
      BY <2>3, <3>1, MulLaws
    <3>3. \A s \in Buys : paid[s] = Mul(d[s], k)
      <4> TAKE s \in Buys
      <4>1. paid[s] = WithFriction(p[s])
        BY <1>3, <1>4, <2>5, <2>6
      <4>2. WithFriction(p[s]) = Mul(Mul(d[s], scale), Add(Int1, plan.friction))
        BY <2>5 DEF WithFriction
      <4> QED BY <1>3, <2>3, <3>1, <4>1, <4>2, MulLaws
    <3>4. paid = [s \in Buys |-> Mul(d[s], k)]
      BY <3>3
    <3> HIDE DEF paid, k
    <3>5. SumOf([s \in Buys |-> Mul(d[s], k)]) = Mul(total, k)
      BY <1>3, <3>2, SumScales DEF total
    <3>6. Mul(total, k) = Mul(Mul(total, Add(Int1, plan.friction)), scale)
      <4>1. k = Mul(Add(Int1, plan.friction), scale)
        BY <2>3, <3>1, MulLaws DEF k
      <4> QED BY <2>2, <2>3, <3>1, <4>1, MulLaws
    <3> QED BY <1>1, <3>4, <3>5, <3>6 DEF WithFriction
  <2>9. Spent \in Fraction
    BY <1>4, <2>2, <2>3, <2>8, MulLaws
  <2>10. \E s \in Buys : Less(Int0, Purchases[s])
    BY <1>3, <2>1, <2>5, <2>6
  <2>11. \A s \in Symbols \ Buys : Purchases[s] = Int0
    BY <2>6
  <2> QED BY <2>3, <2>6, <2>7, <2>8, <2>9, <2>10, <2>11
<1> QED BY <1>6, <1>7

\* The book after an open is not short either, and something is left of it.
LEMMA SoldDownLaws ==
    ASSUME TargetsInv, BookInv, status = "open"
    PROVE  /\ SoldDown \in [Symbols -> Fraction]
           /\ \A s \in Symbols : Leq(Int0, SoldDown[s])
           /\ \A s \in Symbols \ Sells : Leq(holdings[s], SoldDown[s])
           /\ \A s \in Buys : Less(Int0, Purchases[s]) => Less(Int0, SoldDown[s])
<1>1. Int0 \in Fraction /\ Leq(Int0, Int0)
  BY ZeroAndOne, OrderLaws
<1>2. holdings \in [Symbols -> Fraction] /\ \A s \in Symbols : Leq(Int0, holdings[s])
  BY DEF BookInv
<1>3. Purchases \in [Symbols -> Fraction] /\ \A s \in Symbols : Leq(Int0, Purchases[s])
  BY PurchasesLaws
<1>4. /\ Desired \in [Symbols -> Fraction] /\ \A s \in Symbols : Leq(Int0, Desired[s])
      /\ \A s \in Symbols : Whole(opens[now][s]) \in Fraction /\ Less(Int0, Whole(opens[now][s]))
      /\ Sells \in SUBSET Symbols /\ Buys \in SUBSET Symbols /\ Sells \cap Buys = {}
  BY OrdersLaws
<1>5. \A s \in Symbols, x \in Fraction :
         /\ Units(s, x) \in Fraction
         /\ Leq(Int0, x) => Leq(Int0, Units(s, x))
         /\ Less(Int0, x) => Less(Int0, Units(s, x))
  <2> TAKE s \in Symbols, x \in Fraction
  <2>1. Units(s, x) = Div(x, Whole(opens[now][s]))
    BY DEF Units
  <2> QED BY <1>4, <2>1, DivLaws, SignLaws
<1>6. \A s \in Symbols : SoldDown[s] = IF s \in Sells THEN Units(s, Desired[s])
                                       ELSE Add(holdings[s], Units(s, Purchases[s]))
  BY DEF SoldDown
<1>7. \A s \in Sells : SoldDown[s] \in Fraction /\ Leq(Int0, SoldDown[s])
  BY <1>4, <1>5, <1>6
<1>8. \A s \in Symbols \ Sells :
         /\ SoldDown[s] \in Fraction /\ Leq(Int0, SoldDown[s]) /\ Leq(holdings[s], SoldDown[s])
         /\ Less(Int0, Purchases[s]) => Less(Int0, SoldDown[s])
  <2> TAKE s \in Symbols \ Sells
  <2> DEFINE h == holdings[s]
             u == Units(s, Purchases[s])
  <2>1. h \in Fraction /\ Leq(Int0, h) /\ u \in Fraction /\ Leq(Int0, u)
        /\ (Less(Int0, Purchases[s]) => Less(Int0, u)) /\ SoldDown[s] = Add(h, u)
    BY <1>2, <1>3, <1>5, <1>6
  <2> HIDE DEF h, u
  <2>2. Add(h, u) \in Fraction /\ Leq(Int0, Add(h, u)) /\ Leq(h, Add(h, u))
        /\ (Less(Int0, u) => Less(Int0, Add(h, u)))
    BY <2>1, AddLaws, SignLaws
  <2> QED BY <2>1, <2>2 DEF h
<1>9. SoldDown \in [Symbols -> Fraction]
  <2>1. \A s \in Symbols : SoldDown[s] \in Fraction
    BY <1>7, <1>8
  <2>2. SoldDown = [s \in Symbols |-> SoldDown[s]]
    BY DEF SoldDown
  <2> QED BY <2>1, <2>2
<1> QED BY <1>4, <1>7, <1>8, <1>9

\* An open leaves the book without a short, and with something in it.
LEMMA OpenKeeps == TargetsInv /\ BookInv /\ OpenSession => TargetsInv' /\ BookInv'
<1> SUFFICES ASSUME TargetsInv, BookInv, OpenSession PROVE TargetsInv' /\ BookInv'
  OBVIOUS
<1>0. status = "open"
  BY OpenIs
<1>1. Worth \in Fraction /\ Less(Int0, Worth) /\ Int0 \in Fraction
  BY <1>0, OrdersLaws, ZeroAndOne
<1>2. ~Leq(Worth, Int0)
  BY <1>1, OrderLaws
<1>3. /\ status' = "close"
      /\ UNCHANGED <<opens, closes, plan, targets, now>>
      /\ \/ UNCHANGED <<holdings, cash>>
         \/ cash' = Sub(Spendable, Spent) /\ holdings' = SoldDown
  BY <1>2, OpenIs
<1>4. TargetsInv'
  BY <1>0, <1>3 DEF TargetsInv
<1>5. CASE UNCHANGED <<holdings, cash>>
  BY <1>4, <1>5 DEF BookInv
<1>6. CASE cash' = Sub(Spendable, Spent) /\ holdings' = SoldDown
  <2>1. /\ SoldDown \in [Symbols -> Fraction]
        /\ \A s \in Symbols : Leq(Int0, SoldDown[s])
        /\ \A s \in Symbols \ Sells : Leq(holdings[s], SoldDown[s])
        /\ \A s \in Buys : Less(Int0, Purchases[s]) => Less(Int0, SoldDown[s])
    BY <1>0, SoldDownLaws
  <2>2. /\ Spendable \in Fraction /\ Leq(Int0, Spendable)
        /\ Spendable = Int0 => cash = Int0 /\ Sells = {}
    BY <1>0, AvailableLaws
  <2>3. Spent \in Fraction /\ Leq(Spent, Spendable) /\ Buys \in SUBSET Symbols
        /\ (Spent # Int0 => \E s \in Buys : Less(Int0, Purchases[s]))
    BY <1>0, PurchasesLaws, OrdersLaws
  <2>4. cash' \in Fraction /\ Leq(Int0, cash')
    BY <1>6, <2>2, <2>3, AddLaws, OrderLaws
  <2>5. Less(Int0, cash') \/ \E s \in Symbols : Less(Int0, SoldDown[s])
    <3>1. CASE Less(Spent, Spendable)
      BY <1>6, <2>2, <2>3, <3>1, OrderLaws
    <3>2. CASE Spent = Spendable /\ Spent # Int0
      BY <2>1, <2>3, <3>2
    <3>3. CASE Spent = Spendable /\ Spent = Int0
      <4>1. cash = Int0 /\ Sells = {} /\ ~Less(Int0, Int0)
        BY <1>1, <2>2, <3>3, OrderLaws
      <4>2. PICK s \in Symbols : Less(Int0, holdings[s])
        BY <4>1 DEF BookInv
      <4>3. Leq(holdings[s], SoldDown[s]) /\ holdings[s] \in Fraction /\ SoldDown[s] \in Fraction
        BY <2>1, <4>1 DEF BookInv
      <4>4. Less(Int0, SoldDown[s])
        <5> DEFINE h == holdings[s]
                   u == SoldDown[s]
        <5>1. h \in Fraction /\ u \in Fraction /\ Less(Int0, h) /\ Leq(h, u)
          BY <4>2, <4>3
        <5> HIDE DEF h, u
        <5>2. ~Leq(h, Int0)
          BY <1>1, <5>1, OrderLaws
        <5>3. ~Leq(u, Int0)
          BY <1>1, <5>1, <5>2, OrderLaws
        <5>4. Less(Int0, u)
          BY <1>1, <5>1, <5>3, OrderLaws
        <5> QED BY <5>4 DEF u
      <4> QED BY <4>4
    <3> QED BY <2>2, <2>3, <3>1, <3>2, <3>3, OrderLaws
  <2> QED BY <1>4, <1>6, <2>1, <2>4, <2>5 DEF BookInv
<1> QED BY <1>3, <1>5, <1>6, <1>4

\* So the state a close records is sound.
LEMMA SoundAtClose == TargetsInv /\ BookInv /\ status = "close" => Sound
<1> SUFFICES ASSUME TargetsInv, BookInv, status = "close" PROVE Sound
  OBVIOUS
<1>1. now \in 1..Scored /\ Scored \in Nat /\ Warmup \in Nat
  BY ReplayAssumption DEF TargetsInv, Positive
<1>2. closes[Warmup + now] \in [Symbols -> Positive]
  <2>1. Warmup + now \in 1..(Warmup + Scored)
    BY <1>1
  <2> QED BY <2>1, ReplayAssumption DEF TargetsInv
<1>3. /\ cash \in Fraction /\ Leq(Int0, cash) /\ Int0 \in Fraction
      /\ holdings \in [Symbols -> Fraction] /\ \A s \in Symbols : Leq(Int0, holdings[s])
      /\ Less(Int0, cash) \/ \E s \in Symbols : Less(Int0, holdings[s])
  BY ZeroAndOne DEF BookInv
<1>4. /\ Risky \in Fraction /\ Leq(Int0, Risky)
      /\ (\E s \in Symbols : Less(Int0, holdings[s])) => Less(Int0, Risky)
  BY <1>2, <1>3, ValueLaws DEF Risky
<1>5. Less(Int0, Add(cash, Risky)) /\ Leq(Risky, Add(cash, Risky))
  BY <1>3, <1>4, SignLaws, AddLaws
<1> QED BY <1>3, <1>5 DEF Sound

\* A close records a sound state and moves on.
LEMMA CloseKeeps == TargetsInv /\ BookInv /\ CloseSession => TargetsInv' /\ BookInv'
<1> SUFFICES ASSUME TargetsInv, BookInv, CloseSession PROVE TargetsInv' /\ BookInv'
  OBVIOUS
<1>1. now \in 1..Scored /\ Scored \in Nat
  BY ReplayAssumption DEF TargetsInv, Positive
<1>2. status = "close" /\ Sound
  BY SoundAtClose DEF CloseSession
<1>3. /\ now' \in 1..Scored /\ status' \in {"open", "done"}
      /\ UNCHANGED <<opens, closes, plan, targets, holdings, cash>>
  BY <1>1, <1>2 DEF CloseSession
<1>4. TargetsInv'
  BY <1>1, <1>2, <1>3 DEF TargetsInv
<1>5. BookInv'
  BY <1>3 DEF BookInv
<1> QED BY <1>4, <1>5

\* A step of the evidence alone changes nothing of the replay.
LEMMA ReplayStays == TargetsInv /\ BookInv /\ UNCHANGED replayVars => TargetsInv' /\ BookInv'
BY DEF TargetsInv, BookInv, replayVars

(***************************************************************************)
(* Every target formed is long-only and unlevered, formed one session      *)
(* before it is due, and after every step neither the cash nor the units   *)
(* of a symbol are negative: _open_session never sells what it does not    *)
(* hold nor buys what it cannot pay, for any prices, cap and friction.     *)
(***************************************************************************)
THEOREM ReplayBooks == EvidenceSpec => [](TargetsInv /\ BookInv)
<1>1. EvidenceInit => TargetsInv /\ BookInv
  BY ReplayInitInv DEF EvidenceInit
<1>2. TargetsInv /\ BookInv /\ [EvidenceNext]_<<replayVars, derived>> => (TargetsInv /\ BookInv)'
  <2> SUFFICES ASSUME TargetsInv, BookInv, [EvidenceNext]_<<replayVars, derived>> PROVE (TargetsInv /\ BookInv)'
    OBVIOUS
  <2>1. FormTarget \/ OpenSession \/ CloseSession \/ UNCHANGED replayVars
    BY DEF EvidenceNext, ReplayNext, Summarise
  <2> QED BY <2>1, FormKeeps, OpenKeeps, CloseKeeps, ReplayStays
<1> QED BY <1>1, <1>2, PTL DEF EvidenceSpec

(***************************************************************************)
(* No state a close records is insolvent or short, and the replay never    *)
(* stops with an error: the checks replay_targets makes after its own      *)
(* arithmetic are never the ones that fail.                                *)
(***************************************************************************)
THEOREM ReplayIsAlwaysSolvent == EvidenceSpec => []ReplayIsSolvent
<1>1. TargetsInv => ReplayIsSolvent
  BY DEF TargetsInv, ReplayIsSolvent
<1> QED BY <1>1, ReplayBooks, PTL

(***************************************************************************)
(* Capping gives no symbol more than the cap, and leaves nothing out that  *)
(* another symbol could still take: what the repeated rounds of            *)
(* capped_weights promise, for any scores.                                 *)
(***************************************************************************)
THEOREM CapIsAlwaysFilled == EvidenceSpec => []CapIsFilled
<1>1. TargetsInv => CapIsFilled
  <2> SUFFICES ASSUME TargetsInv, targets # <<>>, plan.family \in {"time_series", "trend_filtered"}
               PROVE  LET w == targets[Len(targets)].weights
                          gross == SumOver(Symbols, LAMBDA s : w[s])
                      IN  /\ \A s \in Symbols : Leq(w[s], Cap)
                          /\ Leq(gross, Int1)
                          /\ (\E s \in Symbols : Less(Int0, w[s]) /\ Less(w[s], Cap)) => gross = Int1
    BY DEF CapIsFilled
  <2> DEFINE w == targets[Len(targets)].weights
  <2>1. Len(targets) \in DOMAIN targets
    BY DEF TargetsInv
  <2>2. AreWeights(w) /\ AreCapped(w)
    BY <2>1 DEF TargetsInv
  <2> HIDE DEF w
  <2>3. SumOver(Symbols, LAMBDA s : w[s]) = SumOf(w)
    <3>1. [s \in Symbols |-> w[s]] = w
      BY <2>2 DEF AreWeights
    <3> QED BY <3>1 DEF SumOver
  <2> QED BY <2>2, <2>3 DEF AreWeights, AreCapped, w
<1> QED BY <1>1, ReplayBooks, PTL

-----------------------------------------------------------------------------
(***************************************************************************)
(* No lookahead.                                                           *)
(***************************************************************************)

\* A history that ends at a session reads no later close.
LEMMA SameHistory ==
    ASSUME NEW panel \in [1..(Warmup + Scored) -> Rows], NEW other \in [1..(Warmup + Scored) -> Rows],
           NEW i \in 1..Scored, \A j \in 1..(Warmup + i) : panel[j] = other[j]
    PROVE  CausalHistory(i, panel) = CausalHistory(i, other)
<1>1. Warmup \in Nat /\ Scored \in Nat /\ Warmup + i \in Nat /\ Warmup + i <= Warmup + Scored
  BY ReplayAssumption DEF Positive
<1>2. panel \in Seq(Rows) /\ other \in Seq(Rows) /\ Len(panel) = Warmup + Scored /\ Len(other) = Warmup + Scored
  BY <1>1
<1> DEFINE n == Warmup + i
<1>3. /\ SubSeq(panel, 1, n) \in Seq(Rows) /\ SubSeq(other, 1, n) \in Seq(Rows)
      /\ Len(SubSeq(panel, 1, n)) = n /\ Len(SubSeq(other, 1, n)) = n
      /\ \A j \in 1..n : SubSeq(panel, 1, n)[j] = panel[j] /\ SubSeq(other, 1, n)[j] = other[j]
  BY <1>1, <1>2
<1>4. \A j \in 1..n : SubSeq(panel, 1, n)[j] = SubSeq(other, 1, n)[j]
  BY <1>3
<1>5. SubSeq(panel, 1, n) = SubSeq(other, 1, n)
  <2> DEFINE p == SubSeq(panel, 1, n)
             o == SubSeq(other, 1, n)
  <2>1. p \in Seq(Rows) /\ o \in Seq(Rows) /\ Len(p) = n /\ Len(o) = n /\ \A j \in 1..n : p[j] = o[j]
    BY <1>3, <1>4
  <2> HIDE DEF p, o, n
  <2>2. p = o
    BY <2>1
  <2> QED BY <2>2 DEF p, o
<1> QED BY <1>5 DEF CausalHistory

\* Nor does the regime it is read from.
LEMMA SameRegime ==
    ASSUME NEW panel, NEW other, NEW i \in 1..Scored, \A j \in 1..(Warmup + i - 1) : panel[j] = other[j]
    PROVE  RegimeOf(i, panel) = RegimeOf(i, other)
<1>1. DayBefore(i) \in 1..(Warmup + i - 1) /\ DayBefore(i) - RegimeLag \in 1..(Warmup + i - 1)
  BY ReplayAssumption, EvidenceAssumption DEF DayBefore, Positive
<1>2. panel[DayBefore(i)] = other[DayBefore(i)] /\ panel[DayBefore(i) - RegimeLag] = other[DayBefore(i) - RegimeLag]
  BY <1>1
<1> QED BY <1>2 DEF RegimeOf

(***************************************************************************)
(* A target depends on no close of the session it is due or of a later     *)
(* one: with other closes from then on, the same target would be formed.   *)
(***************************************************************************)
THEOREM NeverLooksAhead == EvidenceSpec => []NoLookahead
<1>1. TargetsInv => NoLookahead
  <2> SUFFICES ASSUME TargetsInv, status = "forming", targets # <<>>
               PROVE  NoLookahead
    BY DEF NoLookahead, TargetsAreCausal
  <2> DEFINE i == Len(targets)
  <2>1. /\ i \in 1..Scored /\ Scored \in Nat /\ Warmup \in Nat
        /\ closes \in [1..(Warmup + Scored) -> Rows]
    BY ReplayAssumption DEF TargetsInv, Positive
  <2> HIDE DEF i
  <2>2. ASSUME NEW vols \in VolCases, NEW later \in Rows, plan.family # "sleeve"
        PROVE  Target(i, closes, vols) =
                   Target(i, [j \in DOMAIN closes |-> IF j > Warmup + i THEN later ELSE closes[j]], vols)
    <3> DEFINE other == [j \in DOMAIN closes |-> IF j > Warmup + i THEN later ELSE closes[j]]
    <3>1. other \in [1..(Warmup + Scored) -> Rows] /\ \A j \in 1..(Warmup + i) : closes[j] = other[j]
      BY <2>1
    <3> HIDE DEF other
    <3>2. CausalHistory(i, closes) = CausalHistory(i, other)
      BY <2>1, <3>1, SameHistory
    <3>3. Target(i, closes, vols) = Target(i, other, vols)
      BY <3>2 DEF Target
    <3> QED BY <3>3 DEF other
  <2>3. ASSUME NEW later \in Rows
        PROVE  RegimeOf(i, closes) =
                   RegimeOf(i, [j \in DOMAIN closes |-> IF j >= Warmup + i THEN later ELSE closes[j]])
    <3> DEFINE other == [j \in DOMAIN closes |-> IF j >= Warmup + i THEN later ELSE closes[j]]
    <3>1. \A j \in 1..(Warmup + i - 1) : closes[j] = other[j]
      BY <2>1
    <3> HIDE DEF other
    <3>2. RegimeOf(i, closes) = RegimeOf(i, other)
      BY <2>1, <3>1, SameRegime
    <3> QED BY <3>2 DEF other
  <2>4. TargetsAreCausal
    BY <2>2 DEF TargetsAreCausal, i
  <2> QED BY <2>3, <2>4 DEF NoLookahead, i
<1> QED BY <1>1, ReplayBooks, PTL

-----------------------------------------------------------------------------
(***************************************************************************)
(* The audit: books rebuilt from the fills, in the canonical order.        *)
(***************************************************************************)

\* The place of an element in the order of its set.
Rank(S) == [s \in S |-> Cardinality({t \in S : t <= s})]

\* The canonical order lists every element of a set once, in order.
LEMMA OrderedIntegers ==
    ASSUME NEW S \in SUBSET Int, IsFiniteSet(S)
    PROVE  /\ Cardinality(S) \in Nat
           /\ Ordered(S) \in [1..Cardinality(S) -> S]
           /\ \A k, l \in 1..Cardinality(S) : k < l => Ordered(S)[k] < Ordered(S)[l]
           /\ \A s \in S : \E k \in 1..Cardinality(S) : Ordered(S)[k] = s
<1> DEFINE n == Cardinality(S)
           r == Rank(S)
           NotAfter(s) == {t \in S : t <= s}
<1>1. IsFiniteSet(S) /\ n \in Nat /\ \A T \in SUBSET S : IsFiniteSet(T) /\ Cardinality(T) \in Nat
  BY FS_Subset, FS_CardinalityType
<1>2. \A s \in S : NotAfter(s) \in SUBSET S /\ s \in NotAfter(s) /\ r[s] = Cardinality(NotAfter(s))
  BY <1>1 DEF Rank
<1> HIDE DEF n
<1>3. ASSUME NEW s \in S
      PROVE  r[s] \in 1..n
  <2>1. IsFiniteSet(NotAfter(s)) /\ Cardinality(NotAfter(s)) \in Nat
    <3> HIDE DEF NotAfter
    <3> QED BY <1>1, <1>2
  <2>2. Cardinality(NotAfter(s)) <= n
    <3> HIDE DEF NotAfter
    <3> QED BY <1>1, <1>2, FS_Subset DEF n
  <2>3. Cardinality(NotAfter(s)) # 0
    <3> HIDE DEF NotAfter
    <3> QED BY <1>2, <2>1, FS_EmptySet
  <2> HIDE DEF NotAfter, r
  <2> QED BY <1>1, <1>2, <2>1, <2>2, <2>3
<1>4. ASSUME NEW s \in S, NEW u \in S, s < u
      PROVE  r[s] < r[u]
  <2>0. s \in Int /\ u \in Int /\ \A t \in S : t \in Int
    BY <1>1
  <2>1. NotAfter(s) \in SUBSET NotAfter(u) /\ u \notin NotAfter(s) /\ u \in NotAfter(u)
    <3> DEFINE B == NotAfter(s)
               C == NotAfter(u)
    <3>1. \A t : t \in B <=> t \in S /\ t <= s
      OBVIOUS
    <3>2. \A t : t \in C <=> t \in S /\ t <= u
      OBVIOUS
    <3> HIDE DEF B, C
    <3>3. \A t \in B : t \in C
      <4> TAKE t \in B
      <4>1. t \in S /\ t <= s /\ t \in Int
        BY <2>0, <3>1
      <4>2. t <= u
        BY <1>4, <2>0, <4>1
      <4> QED BY <3>2, <4>1, <4>2
    <3>4. u \notin B /\ u \in C
      <4>1. u <= u /\ ~(u <= s)
        BY <1>4, <2>0
      <4> QED BY <3>1, <3>2, <4>1
    <3>5. B \in SUBSET C
      BY <3>3
    <3> QED BY <3>4, <3>5 DEF B, C
  <2>2. IsFiniteSet(NotAfter(u))
    <3> HIDE DEF NotAfter
    <3> QED BY <1>1, <1>2
  <2>3. Cardinality(NotAfter(s)) <= Cardinality(NotAfter(u)) /\ Cardinality(NotAfter(s)) # Cardinality(NotAfter(u))
    <3> HIDE DEF NotAfter
    <3> QED BY <2>1, <2>2, FS_Subset
  <2> HIDE DEF NotAfter, r
  <2> QED BY <1>1, <1>2, <1>3, <2>3
<1>5. \A s, u \in S : r[s] = r[u] => s = u
  <2> TAKE s, u \in S
  <2>1. s \in Int /\ u \in Int /\ r[s] \in Nat /\ r[u] \in Nat
    BY <1>1, <1>3
  <2>2. s < u => r[s] < r[u]
    BY <1>4
  <2>3. u < s => r[u] < r[s]
    BY <1>4
  <2> HIDE DEF r
  <2> QED BY <2>1, <2>2, <2>3
<1>6. r \in Surjection(S, 1..n)
  <2> DEFINE T == 1..n
  <2>1. r \in [S -> T]
    BY <1>3 DEF Rank
  <2>2. r \in Injection(S, T)
    <3> HIDE DEF r, T
    <3> QED BY <1>5, <2>1 DEF Injection, IsInjective
  <2>3. IsFiniteSet(T) /\ Cardinality(T) = n
    BY <1>1, FS_Interval
  <2>4. Cardinality(S) = Cardinality(T)
    BY <2>3 DEF n
  <2> HIDE DEF T, r
  <2>5. r \in Surjection(S, T)
    BY <2>2, <2>3, <2>4, FS_Injection
  <2> QED BY <2>5 DEF T
<1>7. \A k \in 1..n : \E s \in S : r[s] = k
  <2> HIDE DEF r
  <2> QED BY <1>6 DEF Surjection
<1>8. Ordered(S) = [k \in 1..n |-> CHOOSE s \in S : r[s] = k]
  <2>1. \A k \in 1..n : (CHOOSE s \in S : r[s] = k) = CHOOSE s \in S : Cardinality({t \in S : t <= s}) = k
    <3> TAKE k \in 1..n
    <3>1. \A s \in S : (r[s] = k) <=> (Cardinality({t \in S : t <= s}) = k)
      BY DEF Rank
    <3> HIDE DEF r
    <3> QED BY <3>1
  <2> QED BY <2>1 DEF Ordered, n
<1> HIDE DEF r
<1>9. \A k \in 1..n : Ordered(S)[k] \in S /\ r[Ordered(S)[k]] = k
  BY <1>7, <1>8
<1>10. \A s \in S : Ordered(S)[r[s]] = s
  BY <1>3, <1>5, <1>9
<1>11. Ordered(S) \in [1..n -> S]
  BY <1>8, <1>9
<1>12. ASSUME NEW k \in 1..n, NEW l \in 1..n, k < l
       PROVE  Ordered(S)[k] < Ordered(S)[l]
  <2> DEFINE s == Ordered(S)[k]
             u == Ordered(S)[l]
  <2>0. s \in S /\ u \in S /\ r[s] = k /\ r[u] = l
    BY <1>9
  <2> HIDE DEF s, u
  <2>1. s \in S /\ u \in S /\ r[s] = k /\ r[u] = l /\ s \in Int /\ u \in Int /\ k \in Int /\ l \in Int
    BY <2>0
  <2>2. u < s => r[u] < r[s]
    BY <1>4, <2>1
  <2>3. s < u
    <3>1. s # u
      BY <1>12, <2>1
    <3>2. ~(u < s)
      BY <1>12, <2>1, <2>2
    <3> QED BY <2>1, <3>1, <3>2
  <2> QED BY <2>3 DEF s, u
<1> QED BY <1>1, <1>3, <1>9, <1>10, <1>11, <1>12 DEF n

\* So it does with symbols.
LEMMA OrderedLaws ==
    ASSUME NEW S \in SUBSET Symbols
    PROVE  /\ Cardinality(S) \in Nat
           /\ Ordered(S) \in [1..Cardinality(S) -> S]
           /\ \A k, l \in 1..Cardinality(S) : Ordered(S)[k] = Ordered(S)[l] => k = l
           /\ \A s \in S : \E k \in 1..Cardinality(S) : Ordered(S)[k] = s
<1> DEFINE n == Cardinality(S)
           o == Ordered(S)
<1>1. S \in SUBSET Int /\ IsFiniteSet(S)
  BY SymbolsFinite, WeightsAssumption
<1>2. /\ n \in Nat /\ o \in [1..n -> S]
      /\ \A k, l \in 1..n : k < l => o[k] < o[l]
      /\ \A s \in S : \E k \in 1..n : o[k] = s
  BY <1>1, OrderedIntegers
<1> HIDE DEF n, o
<1>3. ASSUME NEW k \in 1..n, NEW l \in 1..n, o[k] = o[l]
      PROVE  k = l
  <2>1. o[k] \in S /\ k \in Int /\ l \in Int
    BY <1>2
  <2>2. o[k] \in Int
    BY <1>1, <2>1
  <2>3. (k < l => o[k] < o[l]) /\ (l < k => o[l] < o[k])
    BY <1>2
  <2> QED BY <1>3, <2>1, <2>2, <2>3
<1> QED BY <1>2, <1>3 DEF n, o


\* The fills and the books there are, the first book, and a book after a fill.
FillSet == [symbol : Symbols, signal : Int, session : Int, price : Positive,
            units : Fraction, notional : Fraction, friction : Fraction]
BookSet == [cash : Fraction, units : [Symbols -> Fraction]]
Start == [cash |-> Int1, units |-> NoWeights]
After(book, fill) == [cash |-> Sub(book.cash, Add(fill.notional, fill.friction)),
                      units |-> [book.units EXCEPT ![fill.symbol] = Add(@, fill.units)]]

AreBooks(F, n, B) == B = [k \in 0..n |-> IF k = 0 THEN Start ELSE After(B[k - 1], F[k])]

\* The books after the fills are well defined.
LEMMA BooksExist ==
    ASSUME NEW F, NEW n \in Nat
    PROVE  \E B : AreBooks(F, n, B)
<1> DEFINE Bad == {m \in Nat : ~\E B : AreBooks(F, m, B)}
<1>1. ASSUME Bad # {} PROVE FALSE
  <2>1. PICK m \in Bad : \A l \in Bad : m <= l
    <3> Bad \in SUBSET Nat OBVIOUS
    <3> HIDE DEF Bad
    <3> QED BY <1>1, LeastNatural
  <2>2. m \in Nat /\ ~\E B : AreBooks(F, m, B)
    OBVIOUS
  <2>3. CASE m = 0
    <3> DEFINE B == [k \in 0..m |-> Start]
    <3>1. AreBooks(F, m, B)
      BY <2>3 DEF AreBooks
    <3> QED BY <2>2, <3>1
  <2>4. CASE m # 0
    <3>1. m - 1 \in Nat /\ m - 1 \notin Bad
      <4>1. m - 1 \in Nat /\ ~(m <= m - 1)
        BY <2>2, <2>4
      <4> HIDE DEF Bad
      <4> QED BY <2>1, <4>1
    <3>2. PICK C : AreBooks(F, m - 1, C)
      BY <3>1
    <3> DEFINE B == [k \in 0..m |-> IF k = m THEN After(C[m - 1], F[m]) ELSE C[k]]
    <3>3. \A k \in 0..m : B[k] = IF k = 0 THEN Start ELSE After(B[k - 1], F[k])
      <4> TAKE k \in 0..m
      <4>1. CASE k = m
        <5>1. B[m] = After(C[m - 1], F[m]) /\ B[m - 1] = C[m - 1]
          BY <2>2, <3>1
        <5> QED BY <2>4, <4>1, <5>1
      <4>2. CASE k # m
        <5>1. k \in 0..(m - 1) /\ B[k] = C[k] /\ (k # 0 => B[k - 1] = C[k - 1])
          BY <2>2, <3>1, <4>2
        <5>2. C[k] = IF k = 0 THEN Start ELSE After(C[k - 1], F[k])
          BY <3>2, <5>1 DEF AreBooks
        <5> QED BY <5>1, <5>2
      <4> QED BY <4>1, <4>2
    <3>4. B = [k \in 0..m |-> B[k]]
      OBVIOUS
    <3> HIDE DEF B
    <3>5. AreBooks(F, m, B)
      BY <3>3, <3>4 DEF AreBooks
    <3> QED BY <2>2, <3>5
  <2> QED BY <2>3, <2>4
<1> QED BY <1>1

\* Each book is the one before it after one more fill.
LEMMA BooksAre ==
    ASSUME NEW F, Len(F) \in Nat
    PROVE  /\ BooksOf(F)[0] = Start
           /\ \A k \in 1..Len(F) : BooksOf(F)[k] = After(BooksOf(F)[k - 1], F[k])
<1> DEFINE n == Len(F)
<1>1. BooksOf(F) = CHOOSE B : AreBooks(F, n, B)
  BY DEF BooksOf, AreBooks, Start, After
<1>2. AreBooks(F, n, BooksOf(F))
  <2>1. \E B : AreBooks(F, n, B)
    BY BooksExist
  <2> QED BY <1>1, <2>1
<1> QED BY <1>2 DEF AreBooks

\* X is what the fills of G after the n-th make of X[0].
Walks(X, G, n, m) == \A j \in 1..m : X[j] = After(X[j - 1], G[n + j])

Follows(X, G, n, m) == \A j \in 0..m : BooksOf(G)[n + j] = X[j]

\* A run of books made by the same fills is that part of the books.
LEMMA BooksWalk ==
    ASSUME NEW G, Len(G) \in Nat, NEW n \in Nat, NEW m \in Nat, n + m <= Len(G),
           NEW X, BooksOf(G)[n] = X[0], Walks(X, G, n, m)
    PROVE  Follows(X, G, n, m)
<1> DEFINE Bad == {j \in 0..m : BooksOf(G)[n + j] # X[j]}
<1>1. ASSUME Bad # {} PROVE FALSE
  <2>1. PICK j \in Bad : \A l \in Bad : j <= l
    <3> Bad \in SUBSET Nat OBVIOUS
    <3> HIDE DEF Bad
    <3> QED BY <1>1, LeastNatural
  <2>2. j \in 0..m /\ BooksOf(G)[n + j] # X[j] /\ n + 0 = n
    OBVIOUS
  <2>3. j # 0
    BY <2>2
  <2>4. j - 1 \in 0..m /\ j - 1 \notin Bad
    <3>1. j - 1 \in 0..m /\ ~(j <= j - 1)
      BY <2>2, <2>3
    <3> HIDE DEF Bad
    <3> QED BY <2>1, <3>1
  <2>5. BooksOf(G)[n + (j - 1)] = X[j - 1]
    BY <2>4
  <2>6. n + j \in 1..Len(G) /\ (n + j) - 1 = n + (j - 1) /\ j \in 1..m
    BY <2>2, <2>3
  <2>7. BooksOf(G)[n + j] = After(BooksOf(G)[(n + j) - 1], G[n + j])
    BY <2>6, BooksAre
  <2> QED BY <2>2, <2>5, <2>6, <2>7 DEF Walks
<1> QED BY <1>1 DEF Follows

Agree(F, G) == Len(F) <= Len(G) /\ \A k \in 1..Len(F) : G[k] = F[k]

\* More fills do not change the books of those before.
LEMMA BooksExtend ==
    ASSUME NEW F, NEW G, Len(F) \in Nat, Len(G) \in Nat, Agree(F, G)
    PROVE  \A k \in 0..Len(F) : BooksOf(G)[k] = BooksOf(F)[k]
<1> DEFINE n == Len(F)
           X == BooksOf(F)
<1>1. BooksOf(G)[0] = X[0]
  BY BooksAre
<1>2. Walks(X, G, 0, n)
  <2>1. \A k \in 1..n : X[k] = After(X[k - 1], F[k])
    BY BooksAre
  <2>2. \A k \in 1..n : 0 + k = k /\ G[0 + k] = F[k]
    BY DEF Agree
  <2> HIDE DEF n, X
  <2> QED BY <2>1, <2>2 DEF Walks
<1>3. 0 \in Nat /\ n \in Nat /\ 0 + n <= Len(G) /\ Len(G) \in Nat
  BY DEF Agree
<1> HIDE DEF n, X
<1>4. Follows(X, G, 0, n)
  BY <1>1, <1>2, <1>3, BooksWalk
<1>6. \A j \in 0..n : BooksOf(G)[0 + j] = X[j]
  BY <1>4 DEF Follows
<1>5. \A j \in 0..n : 0 + j = j
  BY <1>3
<1> QED BY <1>6, <1>5 DEF n, X

\* A book after a fill is a book.
LEMMA AfterTyped ==
    ASSUME NEW book \in BookSet, NEW fill \in FillSet
    PROVE  After(book, fill) \in BookSet
<1>1. /\ book.cash \in Fraction /\ book.units \in [Symbols -> Fraction]
      /\ fill.symbol \in Symbols /\ fill.units \in Fraction /\ fill.notional \in Fraction /\ fill.friction \in Fraction
  BY DEF BookSet, FillSet
<1>2. Sub(book.cash, Add(fill.notional, fill.friction)) \in Fraction
  BY <1>1, AddLaws
<1>3. Add(book.units[fill.symbol], fill.units) \in Fraction
  BY <1>1, AddLaws
<1>4. [book.units EXCEPT ![fill.symbol] = Add(@, fill.units)] \in [Symbols -> Fraction]
  BY <1>1, <1>3
<1> QED BY <1>2, <1>4 DEF After, BookSet

\* The first j elements of a set.
FirstOf(S, j) == {Ordered(S)[i] : i \in 1..j}

\* The first symbols of the canonical order, and the next one.
LEMMA FirstLaws ==
    ASSUME NEW S \in SUBSET Symbols
    PROVE  /\ FirstOf(S, 0) = {}
           /\ FirstOf(S, Cardinality(S)) = S
           /\ \A j \in 0..Cardinality(S) : FirstOf(S, j) \in SUBSET S
           /\ \A j \in 1..Cardinality(S) :
                 /\ Ordered(S)[j] \in S \ FirstOf(S, j - 1)
                 /\ FirstOf(S, j) = FirstOf(S, j - 1) \cup {Ordered(S)[j]}
<1> DEFINE n == Cardinality(S)
           o == Ordered(S)
<1>1. /\ n \in Nat /\ o \in [1..n -> S]
      /\ \A k, l \in 1..n : o[k] = o[l] => k = l
      /\ \A s \in S : \E k \in 1..n : o[k] = s
  BY OrderedLaws
<1> HIDE DEF n, o
<1>2. \A j : FirstOf(S, j) = {o[i] : i \in 1..j}
  BY DEF FirstOf, o
<1>3. FirstOf(S, 0) = {}
  BY <1>2
<1>4. FirstOf(S, n) = S
  <2>1. \A s : s \in {o[i] : i \in 1..n} <=> s \in S
    BY <1>1
  <2> QED BY <1>2, <2>1
<1>5. ASSUME NEW j \in 0..n PROVE FirstOf(S, j) \in SUBSET S
  <2>1. \A i \in 1..j : o[i] \in S
    BY <1>1
  <2> QED BY <1>2, <2>1
<1>6. ASSUME NEW j \in 1..n
      PROVE  o[j] \in S \ FirstOf(S, j - 1) /\ FirstOf(S, j) = FirstOf(S, j - 1) \cup {o[j]}
  <2>1. \A i \in Int : i \in 1..j <=> (i \in 1..(j - 1) \/ i = j)
    BY <1>1
  <2>0. \A i : (i \in 1..j => i \in Int) /\ (i \in 1..(j - 1) => i \in Int) /\ j \in 1..j
    BY <1>1
  <2>2. \A i \in 1..(j - 1) : i \in 1..n /\ i # j
    BY <1>1
  <2> DEFINE A == 1..j
             B == 1..(j - 1)
  <2>3. /\ \A i : i \in A <=> (i \in B \/ i = j)
        /\ \A i \in B : i \in 1..n /\ i # j
        /\ FirstOf(S, j) = {o[i] : i \in A} /\ FirstOf(S, j - 1) = {o[i] : i \in B}
    BY <1>2, <2>0, <2>1, <2>2
  <2> HIDE DEF A, B
  <2>4. o[j] \notin {o[i] : i \in B}
    BY <1>1, <2>3
  <2>5. {o[i] : i \in A} = {o[i] : i \in B} \cup {o[j]}
    BY <2>3
  <2> QED BY <1>1, <2>3, <2>4, <2>5
<1> QED BY <1>3, <1>4, <1>5, <1>6 DEF n, o

\* A fill for each symbol of S, what it costs, and a book after those of T.
AreFillsOf(S, g) == g \in [S -> FillSet] /\ \A s \in S : g[s].symbol = s
Cost(S, g) == [s \in S |-> Add(g[s].notional, g[s].friction)]
Applied(b, S, g, T) ==
    [cash |-> Sub(b.cash, SumOf(Restrict(Cost(S, g), T))),
     units |-> [s \in Symbols |-> IF s \in T THEN Add(b.units[s], g[s].units) ELSE b.units[s]]]

\* No fill of a set applied.
LEMMA AppliedNone ==
    ASSUME NEW S \in SUBSET Symbols, NEW g, AreFillsOf(S, g), NEW b \in BookSet
    PROVE  Applied(b, S, g, {}) = b
<1>1. Cost(S, g) \in [S -> Fraction]
  BY AddLaws DEF AreFillsOf, Cost, FillSet
<1>2. IsFiniteSet(S) /\ {} \in SUBSET S
  BY SymbolsFinite
<1>3. SumOf(Restrict(Cost(S, g), {})) = Int0
  <2> DEFINE T == {}
  <2>1. T \in SUBSET S /\ T = {}
    OBVIOUS
  <2> HIDE DEF T
  <2>2. SumOf(Restrict(Cost(S, g), T)) = Int0
    BY <1>1, <1>2, <2>1, SumStep
  <2> QED BY <2>1, <2>2
<1>4. b.cash \in Fraction /\ b.units \in [Symbols -> Fraction] /\ b = [cash |-> b.cash, units |-> b.units]
  BY DEF BookSet
<1>5. Sub(b.cash, Int0) = b.cash
  BY <1>4, ZeroAndOne, AddLaws
<1>6. [s \in Symbols |-> IF s \in {} THEN Add(b.units[s], g[s].units) ELSE b.units[s]] = b.units
  BY <1>4
<1> QED BY <1>3, <1>4, <1>5, <1>6 DEF Applied

\* One more fill of a set applied.
LEMMA AppliedStep ==
    ASSUME NEW S \in SUBSET Symbols, NEW g, AreFillsOf(S, g), NEW b \in BookSet,
           NEW T \in SUBSET S, NEW x \in S \ T
    PROVE  Applied(b, S, g, T \cup {x}) = After(Applied(b, S, g, T), g[x])
<1> DEFINE c == Cost(S, g)
           before == SumOf(Restrict(c, T))
           old == Applied(b, S, g, T)
<1>1. c \in [S -> Fraction] /\ c[x] = Add(g[x].notional, g[x].friction)
  BY AddLaws DEF AreFillsOf, Cost, FillSet
<1>2. IsFiniteSet(S) /\ b.cash \in Fraction /\ b.units \in [Symbols -> Fraction] /\ g[x].symbol = x /\ x \in Symbols
  BY SymbolsFinite DEF BookSet, AreFillsOf
<1> HIDE DEF c
<1>3. before \in Fraction /\ SumOf(Restrict(c, T \cup {x})) = Add(c[x], before)
  BY <1>1, <1>2, SumStep
<1>4. Sub(b.cash, Add(c[x], before)) = Sub(Sub(b.cash, before), c[x])
  <2>1. c[x] \in Fraction
    BY <1>1
  <2> HIDE DEF before
  <2>2. Add(c[x], before) = Add(before, c[x])
    BY <1>3, <2>1, AddLaws
  <2>3. Sub(Sub(b.cash, before), c[x]) = Sub(b.cash, Add(before, c[x]))
    <3> DEFINE p == b.cash
               r == c[x]
    <3>1. p \in Fraction /\ r \in Fraction /\ before \in Fraction
      BY <1>2, <1>3, <2>1
    <3> HIDE DEF p, r
    <3>2. Sub(Sub(p, before), r) = Sub(p, Add(before, r))
      BY <3>1, AddLaws
    <3> QED BY <3>2 DEF p, r
  <2> QED BY <2>2, <2>3
<1>5. old.cash = Sub(b.cash, before)
      /\ old.units = [s \in Symbols |-> IF s \in T THEN Add(b.units[s], g[s].units) ELSE b.units[s]]
  BY DEF Applied, c
<1>6. [s \in Symbols |-> IF s \in T \cup {x} THEN Add(b.units[s], g[s].units) ELSE b.units[s]]
          = [old.units EXCEPT ![x] = Add(@, g[x].units)]
  <2> DEFINE u == [s \in Symbols |-> IF s \in T \cup {x} THEN Add(b.units[s], g[s].units) ELSE b.units[s]]
             v == [old.units EXCEPT ![x] = Add(@, g[x].units)]
  <2> HIDE DEF old
  <2>1. \A s \in Symbols : u[s] = v[s]
    BY <1>2, <1>5
  <2>2. DOMAIN v = Symbols /\ v = [s \in Symbols |-> v[s]]
    BY <1>5
  <2>3. u = [s \in Symbols |-> u[s]]
    OBVIOUS
  <2> HIDE DEF u, v
  <2>4. u = v
    BY <2>1, <2>2, <2>3
  <2> QED BY <2>4 DEF u, v
<1>7. Applied(b, S, g, T \cup {x}) =
          [cash |-> Sub(old.cash, Add(g[x].notional, g[x].friction)),
           units |-> [old.units EXCEPT ![x] = Add(@, g[x].units)]]
  BY <1>1, <1>3, <1>4, <1>5, <1>6 DEF Applied, c
<1> HIDE DEF old
<1>8. After(old, g[x]) = [cash |-> Sub(old.cash, Add(g[x].notional, g[x].friction)),
                           units |-> [old.units EXCEPT ![x] = Add(@, g[x].units)]]
  BY <1>2 DEF After
<1> QED BY <1>7, <1>8 DEF old

\* The fills of S stand in G, in the canonical order, from n + 1 on.
StandIn(S, g, G, n) == \A j \in 1..Cardinality(S) : G[n + j] = g[Ordered(S)[j]]

\* The fills of a set, in order, make the books of its first symbols.
LEMMA AppliedWalk ==
    ASSUME NEW S \in SUBSET Symbols, NEW g, AreFillsOf(S, g), NEW G, Len(G) \in Nat, NEW n \in Nat,
           n + Cardinality(S) <= Len(G), StandIn(S, g, G, n), BooksOf(G)[n] \in BookSet
    PROVE  \A j \in 0..Cardinality(S) : BooksOf(G)[n + j] = Applied(BooksOf(G)[n], S, g, FirstOf(S, j))
<1> DEFINE m == Cardinality(S)
           b == BooksOf(G)[n]
           X == [j \in 0..m |-> Applied(b, S, g, FirstOf(S, j))]
<1>1. m \in Nat
  BY OrderedLaws
<1>2. b \in BookSet
  OBVIOUS
<1> HIDE DEF b
<1>3. X[0] = b
  <2>1. X[0] = Applied(b, S, g, FirstOf(S, 0)) /\ FirstOf(S, 0) = {}
    BY <1>1, FirstLaws
  <2> QED BY <1>2, <2>1, AppliedNone
<1>4. Walks(X, G, n, m)
  <2> SUFFICES ASSUME NEW j \in 1..m PROVE X[j] = After(X[j - 1], G[n + j])
    BY DEF Walks
  <2> DEFINE T == FirstOf(S, j - 1)
             x == Ordered(S)[j]
  <2>1. x \in S \ T /\ FirstOf(S, j) = T \cup {x} /\ T \in SUBSET S
    <3>1. x \in S \ T /\ FirstOf(S, j) = T \cup {x}
      BY FirstLaws
    <3>2. j - 1 \in 0..m
      BY <1>1
    <3> QED BY <3>1, <3>2, FirstLaws
  <2>2. X[j] = Applied(b, S, g, FirstOf(S, j)) /\ X[j - 1] = Applied(b, S, g, T)
    <3> j \in 0..m /\ j - 1 \in 0..m
      BY <1>1
    <3> QED OBVIOUS
  <2>3. G[n + j] = g[x]
    BY DEF StandIn
  <2> HIDE DEF T, x, X
  <2>4. Applied(b, S, g, T \cup {x}) = After(Applied(b, S, g, T), g[x])
    BY <1>2, <2>1, AppliedStep
  <2> QED BY <2>1, <2>2, <2>3, <2>4
<1> HIDE DEF X, m
<1>5. \A j \in 0..m : BooksOf(G)[n + j] = X[j]
  <2>1. n + m <= Len(G) /\ BooksOf(G)[n] = X[0]
    BY <1>3 DEF m, b
  <2>2. n \in Nat /\ Len(G) \in Nat
    OBVIOUS
  <2>3. Follows(X, G, n, m)
    BY <1>1, <1>4, <2>1, <2>2, BooksWalk
  <2> QED BY <2>3 DEF Follows
<1> QED BY <1>5 DEF X, m, b

\* The fills of a session.
SellFills == [s \in Sells |-> FillOf(s, Sub(Units(s, Desired[s]), holdings[s]), Delta[s])]
Filled == {s \in Buys : Less(Int0, Purchases[s])}
BuyFills == [s \in Filled |-> FillOf(s, Units(s, Purchases[s]), Purchases[s])]
NewFills == [k \in 1..Cardinality(Sells) |-> SellFills[Ordered(Sells)[k]]]
                \o [k \in 1..Cardinality(Filled) |-> BuyFills[Ordered(Filled)[k]]]

\* What an open adds to the fills.
LEMMA OpenFills ==
    OpenSession =>
        fills' = IF Leq(Worth, Int0) \/ DueTarget = NoTarget THEN fills ELSE fills \o NewFills
<1> DEFINE sells == [k \in 1..Cardinality(Sells) |->
                       FillOf(Ordered(Sells)[k], Sub(Units(Ordered(Sells)[k], Desired[Ordered(Sells)[k]]),
                                                     holdings[Ordered(Sells)[k]]), Delta[Ordered(Sells)[k]])]
           buys == [k \in 1..Cardinality(Filled) |->
                       FillOf(Ordered(Filled)[k], Units(Ordered(Filled)[k], Purchases[Ordered(Filled)[k]]),
                              Purchases[Ordered(Filled)[k]])]
<1>1. OpenSession => fills' = IF Leq(Worth, Int0) \/ DueTarget = NoTarget THEN fills ELSE fills \o (sells \o buys)
  BY DEF OpenSession, SellsFirst, Worth, Desired, Delta, Sells, Buys, Proceeds, Spendable, Purchases, Filled
<1>2. Sells \in SUBSET Symbols /\ Filled \in SUBSET Symbols
  BY DEF Sells, Filled, Buys
<1>3. \A k \in 1..Cardinality(Sells) : SellFills[Ordered(Sells)[k]] = sells[k]
  <2>1. \A k \in 1..Cardinality(Sells) : Ordered(Sells)[k] \in Sells
    BY <1>2, OrderedLaws
  <2> QED BY <2>1 DEF SellFills
<1>4. \A k \in 1..Cardinality(Filled) : BuyFills[Ordered(Filled)[k]] = buys[k]
  <2>1. \A k \in 1..Cardinality(Filled) : Ordered(Filled)[k] \in Filled
    BY <1>2, OrderedLaws
  <2> QED BY <2>1 DEF BuyFills
<1>5. sells = [k \in 1..Cardinality(Sells) |-> SellFills[Ordered(Sells)[k]]]
  BY <1>3
<1>6. buys = [k \in 1..Cardinality(Filled) |-> BuyFills[Ordered(Filled)[k]]]
  BY <1>4
<1> HIDE DEF sells, buys
<1> QED BY <1>1, <1>5, <1>6 DEF NewFills

\* A fill of this session, at its opening price.
IsFillNow(fill) == /\ fill \in FillSet
                   /\ fill.session = now
                   /\ FillIsDerived(fill)

\* A fill of a sell takes away the units sold, and pays its friction.
LEMMA SellFillsLaws ==
    ASSUME TargetsInv, BookInv, status = "open"
    PROVE  /\ AreFillsOf(Sells, SellFills)
           /\ \A s \in Sells : /\ IsFillNow(SellFills[s])
                               /\ Add(holdings[s], SellFills[s].units) = Units(s, Desired[s])
                               /\ Leq(Cost(Sells, SellFills)[s], Int0)
                               /\ Cost(Sells, SellFills)[s] =
                                     Sub(Int0, Sub(Sub(Int0, Delta[s]), FrictionOn(Magnitude(Delta[s]))))
<1>1. now \in Int /\ now - 1 \in Int /\ Int0 \in Fraction
  BY ZeroAndOne DEF TargetsInv
<1>2. SUFFICES ASSUME NEW s \in Sells
               PROVE  /\ SellFills[s].symbol = s
                      /\ IsFillNow(SellFills[s])
                      /\ Add(holdings[s], SellFills[s].units) = Units(s, Desired[s])
                      /\ Leq(Cost(Sells, SellFills)[s], Int0)
                      /\ Cost(Sells, SellFills)[s] =
                            Sub(Int0, Sub(Sub(Int0, Delta[s]), FrictionOn(Magnitude(Delta[s]))))
  <2>1. SellFills = [s \in Sells |-> SellFills[s]]
    BY DEF SellFills
  <2> QED BY <2>1 DEF AreFillsOf, IsFillNow
<1> DEFINE d == Desired[s]
           h == holdings[s]
           p == Whole(opens[now][s])
           e == Delta[s]
           u == Units(s, d)
           fr == FrictionOn(Magnitude(e))
<1>3. /\ s \in Symbols /\ d \in Fraction /\ h \in Fraction /\ p \in Fraction /\ Less(Int0, p) /\ e \in Fraction
      /\ Less(e, Int0) /\ e = Sub(d, Mul(h, p)) /\ u = Div(d, p)
  BY OrdersLaws DEF BookInv, Delta, Units
<1>4. opens[now][s] \in Positive
  BY <1>3, ReplayAssumption DEF TargetsInv
<1>5. SellFills[s] = [symbol |-> s, signal |-> now - 1, session |-> now, price |-> opens[now][s],
                       units |-> Sub(u, h), notional |-> e, friction |-> fr]
  BY DEF SellFills, FillOf
<1>6. u \in Fraction /\ Sub(u, h) \in Fraction /\ Mul(u, p) = d
  <2> HIDE DEF d, h, p, u
  <2> QED BY <1>3, DivLaws, AddLaws
<1>7. Mul(Sub(u, h), p) = e
  <2> HIDE DEF d, h, p, u, e
  <2>1. Mul(p, Sub(u, h)) = Sub(Mul(p, u), Mul(p, h))
    BY <1>3, <1>6, MulLaws
  <2>2. Mul(p, u) = Mul(u, p) /\ Mul(p, h) = Mul(h, p) /\ Mul(p, Sub(u, h)) = Mul(Sub(u, h), p)
    BY <1>3, <1>6, MulLaws
  <2> QED BY <1>3, <1>6, <2>1, <2>2
<1>8. Add(h, Sub(u, h)) = u
  <2> HIDE DEF d, h, p, u, e
  <2>1. Add(Sub(u, h), h) = u /\ Add(h, Sub(u, h)) = Add(Sub(u, h), h)
    BY <1>3, <1>6, AddLaws
  <2> QED BY <2>1
<1>9. Magnitude(e) \in Fraction /\ fr \in Fraction /\ fr = Mul(Magnitude(e), plan.friction)
  <2> HIDE DEF e
  <2>1. Magnitude(e) \in Fraction
    BY <1>1, <1>3, MagnitudeLaws, AddLaws
  <2> QED BY <2>1, FrictionLaws DEF FrictionOn
<1>10. /\ Sub(Sub(Int0, e), fr) \in Fraction
       /\ Less(Int0, Sub(Sub(Int0, e), fr))
  <2> HIDE DEF e
  <2> QED BY <1>3, FrictionLaws
<1>11. Cost(Sells, SellFills)[s] = Add(e, fr)
  BY <1>5 DEF Cost
<1> HIDE DEF d, h, p, u, e, fr
<1>12. Add(e, fr) = Sub(Int0, Sub(Sub(Int0, e), fr)) /\ Leq(Add(e, fr), Int0) /\ Add(e, fr) \in Fraction
  <2> DEFINE c == Add(e, fr)
  <2>1. c \in Fraction /\ Sub(Sub(Int0, e), fr) = Sub(Int0, c)
    BY <1>1, <1>3, <1>9, AddLaws
  <2> HIDE DEF c
  <2>2. Less(Int0, Sub(Int0, c)) /\ Sub(Int0, Sub(Int0, c)) = Add(Sub(Int0, Int0), c)
        /\ Sub(Int0, Int0) = Int0 /\ Add(Int0, c) = c
    BY <1>1, <1>10, <2>1, AddLaws
  <2>3. Less(c, Int0)
    BY <1>1, <2>1, <2>2, OrderLaws
  <2>4. Leq(c, Int0)
    BY <1>1, <2>1, <2>3, OrderLaws
  <2> QED BY <2>1, <2>2, <2>4 DEF c
<1>13. SellFills[s] \in FillSet
  BY <1>1, <1>3, <1>4, <1>5, <1>6, <1>9 DEF FillSet
<1>14. FillIsDerived(SellFills[s])
  <2>1. now - 1 + 1 = now
    BY <1>1
  <2> QED BY <1>5, <1>7, <1>9, <2>1 DEF FillIsDerived, p
<1>15. IsFillNow(SellFills[s]) /\ SellFills[s].symbol = s /\ SellFills[s].units = Sub(u, h)
  BY <1>5, <1>13, <1>14 DEF IsFillNow
<1> QED BY <1>8, <1>11, <1>12, <1>15 DEF d, h, e, u, fr

\* A fill of a buy adds the units bought, and costs its friction too.
LEMMA BuyFillsLaws ==
    ASSUME TargetsInv, BookInv, status = "open"
    PROVE  /\ Filled \in SUBSET Symbols
           /\ AreFillsOf(Filled, BuyFills)
           /\ \A s \in Filled : /\ IsFillNow(BuyFills[s])
                                /\ Less(Int0, BuyFills[s].units)
                                /\ BuyFills[s].units = Units(s, Purchases[s])
                                /\ BuyFills[s].notional = Purchases[s]
                                /\ Cost(Filled, BuyFills)[s] = Add(Purchases[s], FrictionOn(Purchases[s]))
<1>1. now \in Int /\ now - 1 \in Int /\ Int0 \in Fraction
  BY ZeroAndOne DEF TargetsInv
<1>0. Filled \in SUBSET Symbols
  BY OrdersLaws DEF Filled
<1>2. SUFFICES ASSUME NEW s \in Filled
               PROVE  /\ BuyFills[s].symbol = s
                      /\ IsFillNow(BuyFills[s])
                      /\ Less(Int0, BuyFills[s].units)
                      /\ BuyFills[s].units = Units(s, Purchases[s])
                      /\ BuyFills[s].notional = Purchases[s]
                      /\ Cost(Filled, BuyFills)[s] = Add(Purchases[s], FrictionOn(Purchases[s]))
  <2>1. BuyFills = [s \in Filled |-> BuyFills[s]]
    BY DEF BuyFills
  <2> QED BY <1>0, <2>1 DEF AreFillsOf, IsFillNow
<1> DEFINE b == Purchases[s]
           p == Whole(opens[now][s])
           u == Units(s, b)
           fr == FrictionOn(b)
<1>3. /\ s \in Symbols /\ b \in Fraction /\ p \in Fraction /\ Less(Int0, p) /\ Less(Int0, b) /\ u = Div(b, p)
  BY <1>0, OrdersLaws, PurchasesLaws DEF Filled, Units
<1>4. opens[now][s] \in Positive
  BY <1>3, ReplayAssumption DEF TargetsInv
<1>5. Magnitude(b) = b
  <2> HIDE DEF b
  <2> QED BY <1>1, <1>3, OrderLaws, MagnitudeLaws
<1>6. BuyFills[s] = [symbol |-> s, signal |-> now - 1, session |-> now, price |-> opens[now][s],
                      units |-> u, notional |-> b, friction |-> fr]
  BY <1>5 DEF BuyFills, FillOf
<1>7. u \in Fraction /\ Less(Int0, u) /\ Mul(u, p) = b /\ fr \in Fraction /\ fr = Mul(Magnitude(b), plan.friction)
  <2>1. fr \in Fraction
    <3> HIDE DEF b
    <3> QED BY <1>3, FrictionLaws
  <2>2. fr = Mul(Magnitude(b), plan.friction)
    BY <1>5 DEF FrictionOn
  <2> HIDE DEF b, p, u
  <2> QED BY <1>3, <2>1, <2>2, DivLaws, SignLaws
<1> HIDE DEF b, p, u, fr
<1>8. BuyFills[s] \in FillSet
  BY <1>1, <1>3, <1>4, <1>6, <1>7 DEF FillSet
<1>9. FillIsDerived(BuyFills[s])
  <2>1. now - 1 + 1 = now
    BY <1>1
  <2> QED BY <1>6, <1>7, <2>1 DEF FillIsDerived, p
<1>10. Cost(Filled, BuyFills)[s] = Add(b, fr)
  BY <1>6 DEF Cost
<1>11. IsFillNow(BuyFills[s]) /\ BuyFills[s].symbol = s /\ BuyFills[s].units = u /\ BuyFills[s].notional = b
  BY <1>6, <1>8, <1>9 DEF IsFillNow
<1> QED BY <1>7, <1>10, <1>11 DEF b, u, fr

\* A book without a short, what the replay holds, and what it holds within an open.
NeverShort(b) == Leq(Int0, b.cash) /\ \A s \in Symbols : Leq(Int0, b.units[s])
Held == [cash |-> cash, units |-> holdings]
Sold == [cash |-> Spendable,
         units |-> [s \in Symbols |-> IF s \in Sells THEN Units(s, Desired[s]) ELSE holdings[s]]]
Traded == [cash |-> Sub(Spendable, Spent), units |-> SoldDown]

\* What is held is a book that is not short.
LEMMA HeldLaws ==
    ASSUME TargetsInv, BookInv, status = "open"
    PROVE  /\ Held \in BookSet /\ Sold \in BookSet
           /\ NeverShort(Held) /\ NeverShort(Sold)
           /\ \A s \in Symbols : \A x \in Fraction :
                 /\ Units(s, x) \in Fraction
                 /\ Leq(Int0, x) => Leq(Int0, Units(s, x))
                 /\ x = Int0 => Units(s, x) = Int0
<1>1. Int0 \in Fraction
  BY ZeroAndOne
<1>2. /\ cash \in Fraction /\ Leq(Int0, cash)
      /\ holdings \in [Symbols -> Fraction] /\ \A s \in Symbols : Leq(Int0, holdings[s])
  BY DEF BookInv
<1>3. /\ Desired \in [Symbols -> Fraction] /\ \A s \in Symbols : Leq(Int0, Desired[s])
      /\ \A s \in Symbols : Whole(opens[now][s]) \in Fraction /\ Less(Int0, Whole(opens[now][s]))
  BY OrdersLaws
<1>4. Spendable \in Fraction /\ Leq(Int0, Spendable)
  BY AvailableLaws
<1>5. ASSUME NEW s \in Symbols, NEW x \in Fraction
      PROVE  /\ Units(s, x) \in Fraction
             /\ Leq(Int0, x) => Leq(Int0, Units(s, x))
             /\ x = Int0 => Units(s, x) = Int0
  <2> DEFINE p == Whole(opens[now][s])
  <2>1. p \in Fraction /\ Less(Int0, p) /\ Units(s, x) = Div(x, p)
    BY <1>3 DEF Units
  <2> HIDE DEF p
  <2>2. Div(x, p) \in Fraction /\ (Leq(Int0, x) => Leq(Int0, Div(x, p)))
    BY <2>1, DivLaws, SignLaws
  <2>3. Mul(Int0, p) = Int0 /\ Div(Mul(Int0, p), p) = Int0
    BY <1>1, <2>1, MulLaws, DivLaws
  <2> QED BY <2>1, <2>2, <2>3
<1>6. Held \in BookSet /\ NeverShort(Held)
  BY <1>2 DEF Held, BookSet, NeverShort
<1>7. \A s \in Symbols : Units(s, Desired[s]) \in Fraction /\ Leq(Int0, Units(s, Desired[s]))
  BY <1>3, <1>5
<1>8. Sold \in BookSet
  BY <1>2, <1>4, <1>7 DEF Sold, BookSet
<1>9. NeverShort(Sold)
  BY <1>2, <1>4, <1>7 DEF Sold, NeverShort
<1> QED BY <1>5, <1>6, <1>8, <1>9

\* Some of the sells never cost cash, and all of them leave what was computed.
LEMMA SellsBook ==
    ASSUME TargetsInv, BookInv, status = "open"
    PROVE  /\ \A T \in SUBSET Sells : NeverShort(Applied(Held, Sells, SellFills, T))
           /\ Applied(Held, Sells, SellFills, Sells) = Sold
<1> DEFINE c == Cost(Sells, SellFills)
<1>1. /\ AreFillsOf(Sells, SellFills)
      /\ \A s \in Sells : Add(holdings[s], SellFills[s].units) = Units(s, Desired[s])
      /\ \A s \in Sells : Leq(c[s], Int0)
      /\ \A s \in Sells : c[s] = Sub(Int0, Sub(Sub(Int0, Delta[s]), FrictionOn(Magnitude(Delta[s]))))
  BY SellFillsLaws
<1>2. c \in [Sells -> Fraction]
  BY <1>1, AddLaws DEF AreFillsOf, Cost, FillSet
<1>3. Sells \in SUBSET Symbols /\ IsFiniteSet(Sells) /\ Int0 \in Fraction /\ Leq(Int0, Int0)
  BY OrdersLaws, SymbolsFinite, ZeroAndOne, OrderLaws
<1>4. /\ cash \in Fraction /\ Leq(Int0, cash)
      /\ holdings \in [Symbols -> Fraction] /\ \A s \in Symbols : Leq(Int0, holdings[s])
  BY DEF BookInv
<1>5. \A s \in Symbols : Units(s, Desired[s]) \in Fraction /\ Leq(Int0, Units(s, Desired[s]))
  BY HeldLaws, OrdersLaws
<1> HIDE DEF c
<1>6. ASSUME NEW T \in SUBSET Sells
      PROVE  NeverShort(Applied(Held, Sells, SellFills, T))
  <2> DEFINE r == Restrict(c, T)
             z == [s \in T |-> Int0]
  <2>1. r \in [T -> Fraction] /\ SumOf(r) \in Fraction /\ IsFiniteSet(T)
    BY <1>2, <1>3, SumStep
  <2>2. \A s \in T : r[s] = c[s]
    BY <1>2 DEF Restrict
  <2>3. z \in [T -> Fraction] /\ \A s \in T : Leq(r[s], z[s])
    BY <1>1, <1>3, <2>2
  <2>4. SumOf(z) = Int0
    BY <2>1, SumOfNothing
  <2> HIDE DEF r, z
  <2>5. Leq(SumOf(r), Int0)
    BY <2>1, <2>3, <2>4, SumOrder
  <2>6. Leq(Int0, Sub(cash, SumOf(r)))
    <3>1. Leq(SumOf(r), cash)
      BY <1>3, <1>4, <2>1, <2>5, OrderLaws
    <3> QED BY <1>4, <2>1, <3>1, OrderLaws
  <2>7. \A s \in Symbols :
          Leq(Int0, IF s \in T THEN Add(holdings[s], SellFills[s].units) ELSE holdings[s])
    BY <1>1, <1>4, <1>5
  <2> QED BY <2>6, <2>7 DEF NeverShort, Applied, Held, r, c
<1>7. Applied(Held, Sells, SellFills, Sells) = Sold
  <2> DEFINE w == [s \in Sells |-> Sub(Sub(Int0, Delta[s]), FrictionOn(Magnitude(Delta[s])))]
  <2>1. Restrict(c, Sells) = c
    BY <1>2, <1>3, SumStep
  <2>2. w \in [Sells -> Fraction]
    <3>1. \A s \in Sells : Delta[s] \in Fraction /\ Less(Delta[s], Int0)
      BY OrdersLaws
    <3> QED BY <3>1, FrictionLaws
  <2>3. Proceeds = SumOf(w) /\ SumOf(w) \in Fraction
    BY <1>3, <2>2, SumLaws DEF Proceeds, SumOver
  <2>4. \A s \in Sells : c[s] = Sub(Int0, w[s])
    BY <1>1
  <2> HIDE DEF w
  <2>5. \A s \in Sells : Add(c[s], w[s]) = Int0
    <3> TAKE s \in Sells
    <3>1. Add(Sub(Int0, w[s]), w[s]) = Int0
      BY <1>3, <2>2, AddLaws
    <3> QED BY <2>4, <3>1
  <2>6. [s \in Sells |-> Add(c[s], w[s])] = [s \in Sells |-> Int0]
    BY <2>5
  <2>7. SumOf(c) \in Fraction /\ Add(SumOf(c), SumOf(w)) = Int0
    <3>1. SumOf([s \in Sells |-> Add(c[s], w[s])]) = Add(SumOf(c), SumOf(w))
      BY <1>2, <1>3, <2>2, SumOfSums
    <3>2. SumOf([s \in Sells |-> Int0]) = Int0
      BY <1>3, SumOfNothing
    <3> QED BY <1>2, <1>3, <2>6, <3>1, <3>2, SumLaws
  <2>8. Sub(cash, SumOf(c)) = Add(cash, SumOf(w))
    <3> DEFINE a == SumOf(c)
               b == SumOf(w)
    <3>1. a \in Fraction /\ b \in Fraction /\ Add(a, b) = Int0
      BY <2>3, <2>7
    <3> HIDE DEF a, b
    <3>2. a = Sub(Int0, b)
      BY <1>3, <3>1, AddLaws
    <3>3. Sub(cash, Sub(Int0, b)) = Add(Sub(cash, Int0), b) /\ Sub(cash, Int0) = cash
      BY <1>3, <1>4, <3>1, AddLaws
    <3> QED BY <3>2, <3>3 DEF a, b
  <2>9. Sub(cash, SumOf(Restrict(c, Sells))) = Spendable
    BY <2>1, <2>3, <2>8 DEF Spendable
  <2>10. [s \in Symbols |-> IF s \in Sells THEN Add(holdings[s], SellFills[s].units) ELSE holdings[s]] =
             [s \in Symbols |-> IF s \in Sells THEN Units(s, Desired[s]) ELSE holdings[s]]
    BY <1>1
  <2> QED BY <2>9, <2>10 DEF Applied, Held, Sold, c
<1> QED BY <1>6, <1>7

\* There is cash for every one of the buys, and they leave what was computed.
LEMMA BuysBook ==
    ASSUME TargetsInv, BookInv, status = "open"
    PROVE  /\ \A T \in SUBSET Filled : NeverShort(Applied(Sold, Filled, BuyFills, T))
           /\ Applied(Sold, Filled, BuyFills, Filled) = Traded
<1> DEFINE c == Cost(Filled, BuyFills)
           paid == [s \in Buys |-> Add(Purchases[s], FrictionOn(Purchases[s]))]
<1>1. /\ AreFillsOf(Filled, BuyFills)
      /\ \A s \in Filled : BuyFills[s].units = Units(s, Purchases[s])
      /\ \A s \in Filled : c[s] = Add(Purchases[s], FrictionOn(Purchases[s]))
  BY BuyFillsLaws
<1>2. c \in [Filled -> Fraction]
  BY <1>1, AddLaws DEF AreFillsOf, Cost, FillSet
<1>3. /\ Buys \in SUBSET Symbols /\ IsFiniteSet(Buys) /\ Int0 \in Fraction /\ Leq(Int0, Int0)
      /\ Filled \in SUBSET Buys /\ IsFiniteSet(Filled) /\ Sells \cap Buys = {}
  <2>1. Buys \in SUBSET Symbols /\ Sells \cap Buys = {} /\ Filled \in SUBSET Buys
    BY OrdersLaws DEF Filled
  <2> QED BY <2>1, SymbolsFinite, ZeroAndOne, OrderLaws
<1>4. /\ Purchases \in [Symbols -> Fraction] /\ \A s \in Symbols : Leq(Int0, Purchases[s])
      /\ Spent \in Fraction /\ Leq(Spent, Spendable) /\ Spendable \in Fraction
      /\ \A s \in Symbols \ Buys : Purchases[s] = Int0
  BY PurchasesLaws, AvailableLaws
<1>5. \A s \in Symbols : /\ Units(s, Purchases[s]) \in Fraction /\ Leq(Int0, Units(s, Purchases[s]))
                         /\ Purchases[s] = Int0 => Units(s, Purchases[s]) = Int0
  BY <1>4, HeldLaws
<1>6. /\ paid \in [Buys -> Fraction]
      /\ \A s \in Buys : Leq(Int0, paid[s])
      /\ \A s \in Buys \ Filled : paid[s] = Int0
      /\ \A s \in Filled : paid[s] = c[s]
  <2>1. ASSUME NEW s \in Buys
        PROVE  /\ Add(Purchases[s], FrictionOn(Purchases[s])) \in Fraction
               /\ Leq(Int0, Add(Purchases[s], FrictionOn(Purchases[s])))
               /\ Purchases[s] = Int0 => Add(Purchases[s], FrictionOn(Purchases[s])) = Int0
    <3> DEFINE b == Purchases[s]
    <3>1. b \in Fraction /\ Leq(Int0, b)
      BY <1>3, <1>4
    <3> HIDE DEF b
    <3>2. Add(b, FrictionOn(b)) = WithFriction(b) /\ WithFriction(b) \in Fraction
          /\ WithFriction(Int0) = Int0 /\ (Less(Int0, b) => Less(Int0, WithFriction(b)))
      BY <3>1, FrictionLaws
    <3>3. Leq(Int0, WithFriction(b))
      <4>1. CASE b = Int0
        BY <1>3, <3>2, <4>1
      <4>2. CASE b # Int0
        BY <1>3, <3>1, <3>2, <4>2, OrderLaws
      <4> QED BY <4>1, <4>2
    <3> QED BY <3>2, <3>3 DEF b
  <2>2. \A s \in Buys \ Filled : Purchases[s] = Int0
    <3> TAKE s \in Buys \ Filled
    <3>1. Purchases[s] \in Fraction /\ Leq(Int0, Purchases[s]) /\ ~Less(Int0, Purchases[s])
      BY <1>3, <1>4 DEF Filled
    <3> QED BY <1>3, <3>1, OrderLaws
  <2> QED BY <1>1, <1>3, <2>1, <2>2
<1> HIDE DEF c, paid
<1>7. Spent = SumOf(paid)
  BY DEF Spent, SumOver, paid
<1>8. ASSUME NEW T \in SUBSET Filled
      PROVE  /\ SumOf(Restrict(c, T)) \in Fraction
             /\ Leq(SumOf(Restrict(c, T)), Spent)
             /\ T = Filled => SumOf(Restrict(c, T)) = Spent
  <2> DEFINE a == Restrict(paid, T)
             R == Buys \ T
             b == Restrict(paid, R)
  <2>0. T \in SUBSET Buys /\ R \in SUBSET Buys /\ T \cap R = {} /\ T \cup R = Buys
    BY <1>3
  <2>1. Restrict(c, T) = a
    BY <1>2, <1>3, <1>6 DEF Restrict
  <2>2. SumOf(paid) = Add(SumOf(a), SumOf(b))
    <3> HIDE DEF R
    <3> QED BY <1>3, <1>6, <2>0, SumUnion
  <2>3. /\ a \in [T -> Fraction] /\ SumOf(a) \in Fraction
        /\ b \in [R -> Fraction] /\ SumOf(b) \in Fraction /\ IsFiniteSet(R)
    <3> HIDE DEF R
    <3> QED BY <1>3, <1>6, <2>0, SumStep
  <2>4. \A s \in R : b[s] = paid[s]
    BY <2>3 DEF Restrict
  <2>5. Leq(Int0, SumOf(b))
    <3>1. \A s \in R : Leq(Int0, b[s])
      BY <1>6, <2>0, <2>4
    <3> HIDE DEF R, b
    <3> QED BY <2>3, <3>1, SumNonneg
  <2>6. Leq(SumOf(a), SumOf(paid))
    <3> DEFINE x == SumOf(a)
               y == SumOf(b)
    <3>1. x \in Fraction /\ y \in Fraction /\ Leq(Int0, y) /\ SumOf(paid) = Add(x, y)
      BY <2>2, <2>3, <2>5
    <3> HIDE DEF x, y
    <3>2. Leq(Add(Int0, x), Add(y, x)) /\ Add(Int0, x) = x /\ Add(y, x) = Add(x, y)
      BY <1>3, <3>1, OrderLaws, AddLaws
    <3> QED BY <3>1, <3>2 DEF x
  <2>7. ASSUME T = Filled PROVE SumOf(a) = SumOf(paid)
    <3>1. \A s \in R : b[s] = Int0
      BY <1>6, <2>4, <2>7
    <3>2. b = [s \in R |-> Int0]
      BY <2>3, <3>1
    <3>3. SumOf(b) = Int0
      <4> HIDE DEF R, b
      <4> QED BY <2>3, <3>2, SumOfNothing
    <3> QED BY <2>2, <2>3, <3>3, AddLaws
  <2> QED BY <1>7, <2>1, <2>3, <2>6, <2>7
<1>9. ASSUME NEW T \in SUBSET Filled
      PROVE  NeverShort(Applied(Sold, Filled, BuyFills, T))
  <2> DEFINE x == SumOf(Restrict(c, T))
  <2>1. Leq(Int0, Sub(Spendable, x))
    <3>1. x \in Fraction /\ Leq(x, Spent)
      BY <1>8
    <3> HIDE DEF x
    <3>2. Leq(x, Spendable)
      BY <1>4, <3>1, OrderLaws
    <3> QED BY <1>4, <3>1, <3>2, OrderLaws
  <2>2. Sold \in BookSet /\ NeverShort(Sold) /\ Sold.cash = Spendable
    BY HeldLaws DEF Sold
  <2>3. \A s \in Symbols :
          Leq(Int0, IF s \in T THEN Add(Sold.units[s], BuyFills[s].units) ELSE Sold.units[s])
    <3> TAKE s \in Symbols
    <3>1. Sold.units[s] \in Fraction /\ Leq(Int0, Sold.units[s])
      BY <2>2 DEF BookSet, NeverShort
    <3>2. CASE s \in T
      <4>1. BuyFills[s].units \in Fraction /\ Leq(Int0, BuyFills[s].units)
        BY <1>1, <1>5, <3>2
      <4> QED BY <3>1, <3>2, <4>1, SignLaws
    <3>3. CASE s \notin T
      BY <3>1, <3>3
    <3> QED BY <3>2, <3>3
  <2>4. Applied(Sold, Filled, BuyFills, T) =
            [cash |-> Sub(Spendable, x),
             units |-> [s \in Symbols |-> IF s \in T THEN Add(Sold.units[s], BuyFills[s].units) ELSE Sold.units[s]]]
    BY <2>2 DEF Applied, c
  <2> HIDE DEF x
  <2> QED BY <2>1, <2>3, <2>4 DEF NeverShort
<1>10. Applied(Sold, Filled, BuyFills, Filled) = Traded
  <2>1. SumOf(Restrict(c, Filled)) = Spent
    BY <1>8
  <2>2. \A s \in Symbols :
           (IF s \in Filled THEN Add(Sold.units[s], BuyFills[s].units) ELSE Sold.units[s]) = SoldDown[s]
    <3> TAKE s \in Symbols
    <3>1. Sold.units[s] = IF s \in Sells THEN Units(s, Desired[s]) ELSE holdings[s]
      BY DEF Sold
    <3>2. SoldDown[s] = IF s \in Sells THEN Units(s, Desired[s]) ELSE Add(holdings[s], Units(s, Purchases[s]))
      BY DEF SoldDown
    <3>3. CASE s \in Filled
      BY <1>1, <1>3, <3>1, <3>2, <3>3
    <3>4. CASE s \notin Filled /\ s \in Sells
      BY <3>1, <3>2, <3>4
    <3>5. CASE s \notin Filled /\ s \notin Sells
      <4>1. Purchases[s] = Int0
        <5>1. CASE s \in Buys
          <6>1. Purchases[s] \in Fraction /\ Leq(Int0, Purchases[s]) /\ ~Less(Int0, Purchases[s])
            BY <1>4, <3>5, <5>1 DEF Filled
          <6> QED BY <1>3, <6>1, OrderLaws
        <5>2. CASE s \notin Buys
          BY <1>4, <5>2
        <5> QED BY <5>1, <5>2
      <4>2. Units(s, Purchases[s]) = Int0 /\ holdings[s] \in Fraction
        BY <1>5, <4>1 DEF BookInv
      <4>3. Add(holdings[s], Int0) = holdings[s]
        BY <1>3, <4>2, AddLaws
      <4> QED BY <3>1, <3>2, <3>5, <4>2, <4>3
    <3> QED BY <3>3, <3>4, <3>5
  <2>3. [s \in Symbols |-> IF s \in Filled THEN Add(Sold.units[s], BuyFills[s].units) ELSE Sold.units[s]] = SoldDown
    <3>1. SoldDown = [s \in Symbols |-> SoldDown[s]]
      BY DEF SoldDown
    <3> QED BY <2>2, <3>1
  <2>4. Sold.cash = Spendable
    BY DEF Sold
  <2> QED BY <2>1, <2>3, <2>4 DEF Applied, Traded, c
<1> QED BY <1>9, <1>10

\* The fills of a session are the sells in order, then the buys in order.
LEMMA NewFillsLaws ==
    ASSUME TargetsInv, BookInv, status = "open", fills \in Seq(FillSet)
    PROVE  /\ fills \o NewFills \in Seq(FillSet)
           /\ Cardinality(Sells) \in Nat /\ Cardinality(Filled) \in Nat
           /\ Len(fills \o NewFills) = Len(fills) + Cardinality(Sells) + Cardinality(Filled)
           /\ Agree(fills, fills \o NewFills)
           /\ StandIn(Sells, SellFills, fills \o NewFills, Len(fills))
           /\ StandIn(Filled, BuyFills, fills \o NewFills, Len(fills) + Cardinality(Sells))
           /\ \A k \in (Len(fills) + 1)..Len(fills \o NewFills) : IsFillNow((fills \o NewFills)[k])
<1> DEFINE a == Cardinality(Sells)
           b == Cardinality(Filled)
           n == Len(fills)
           A == [k \in 1..a |-> SellFills[Ordered(Sells)[k]]]
           B == [k \in 1..b |-> BuyFills[Ordered(Filled)[k]]]
           G == fills \o (A \o B)
<1>1. /\ AreFillsOf(Sells, SellFills) /\ AreFillsOf(Filled, BuyFills)
      /\ Sells \in SUBSET Symbols /\ Filled \in SUBSET Symbols
      /\ \A s \in Sells : IsFillNow(SellFills[s])
      /\ \A s \in Filled : IsFillNow(BuyFills[s])
  BY SellFillsLaws, BuyFillsLaws, OrdersLaws
<1>2. /\ a \in Nat /\ b \in Nat /\ n \in Nat
      /\ \A k \in 1..a : Ordered(Sells)[k] \in Sells
      /\ \A k \in 1..b : Ordered(Filled)[k] \in Filled
  BY <1>1, OrderedLaws
<1> HIDE DEF a, b, n
<1>3. A \in Seq(FillSet) /\ Len(A) = a /\ \A k \in 1..a : A[k] = SellFills[Ordered(Sells)[k]] /\ IsFillNow(A[k])
  BY <1>1, <1>2 DEF AreFillsOf
<1>4. B \in Seq(FillSet) /\ Len(B) = b /\ \A k \in 1..b : B[k] = BuyFills[Ordered(Filled)[k]] /\ IsFillNow(B[k])
  BY <1>1, <1>2 DEF AreFillsOf
<1>5. G = fills \o NewFills
  BY DEF NewFills, a, b
<1> HIDE DEF A, B
<1>6. A \o B \in Seq(FillSet) /\ Len(A \o B) = a + b
      /\ (\A k \in 1..a : (A \o B)[k] = A[k]) /\ (\A k \in 1..b : (A \o B)[a + k] = B[k])
  <2>1. A \in Seq(FillSet) /\ B \in Seq(FillSet) /\ Len(A) = a /\ Len(B) = b
    BY <1>3, <1>4
  <2>2. A \o B \in Seq(FillSet) /\ Len(A \o B) = a + b
    BY <1>2, <2>1
  <2>3. \A k \in 1..a : (A \o B)[k] = A[k]
    BY <1>2, <2>1
  <2>4. ASSUME NEW k \in 1..b PROVE (A \o B)[a + k] = B[k]
    <3>1. a + k \in 1..(a + b) /\ a + k > a /\ (a + k) - a = k
      BY <1>2
    <3>2. (A \o B)[a + k] = B[(a + k) - a]
      BY <1>2, <2>1, <3>1
    <3> QED BY <3>1, <3>2
  <2> QED BY <2>2, <2>3, <2>4
<1>7. /\ G \in Seq(FillSet) /\ Len(G) = n + a + b
      /\ \A k \in 1..n : G[k] = fills[k]
      /\ \A k \in 1..(a + b) : G[n + k] = (A \o B)[k]
  <2> DEFINE C == A \o B
  <2>1. C \in Seq(FillSet) /\ Len(C) = a + b /\ fills \in Seq(FillSet) /\ Len(fills) = n
    BY <1>6 DEF n
  <2> HIDE DEF C
  <2>2. fills \o C \in Seq(FillSet) /\ Len(fills \o C) = n + (a + b)
        /\ (\A k \in 1..n : (fills \o C)[k] = fills[k]) /\ (\A k \in 1..(a + b) : (fills \o C)[n + k] = C[k])
    BY <1>2, <2>1
  <2>3. n + (a + b) = n + a + b
    BY <1>2
  <2> QED BY <2>2, <2>3 DEF C
<1> HIDE DEF G
<1>8. \A k \in 1..a : G[n + k] = A[k]
  <2> TAKE k \in 1..a
  <2>1. k \in 1..(a + b)
    BY <1>2
  <2> QED BY <1>6, <1>7, <2>1
<1>9. \A k \in 1..b : G[(n + a) + k] = B[k]
  <2> TAKE k \in 1..b
  <2>1. a + k \in 1..(a + b) /\ (n + a) + k = n + (a + k)
    BY <1>2
  <2> QED BY <1>6, <1>7, <2>1
<1>10. Agree(fills, G)
  <2> n <= Len(G)
    BY <1>2, <1>7
  <2> QED BY <1>7 DEF Agree, n
<1>11. StandIn(Sells, SellFills, G, n) /\ StandIn(Filled, BuyFills, G, n + a)
  BY <1>3, <1>4, <1>8, <1>9 DEF StandIn, a, b
<1>12. \A k \in (n + 1)..Len(G) : IsFillNow(G[k])
  <2> TAKE k \in (n + 1)..Len(G)
  <2>1. (k - n \in 1..a /\ k = n + (k - n)) \/ (k - (n + a) \in 1..b /\ k = (n + a) + (k - (n + a)))
    BY <1>2, <1>7
  <2> QED BY <1>3, <1>4, <1>8, <1>9, <2>1
<1> QED BY <1>2, <1>5, <1>7, <1>10, <1>11, <1>12 DEF a, b, n

\* No book after a fill of the session is short, and the last one is the replay's.
LEMMA OpenBooks ==
    ASSUME TargetsInv, BookInv, status = "open", fills \in Seq(FillSet), BooksOf(fills)[Len(fills)] = Held
    PROVE  /\ BooksOf(fills \o NewFills)[Len(fills \o NewFills)] = Traded
           /\ \A k \in (Len(fills) + 1)..Len(fills \o NewFills) : NeverShort(BooksOf(fills \o NewFills)[k])
<1> DEFINE a == Cardinality(Sells)
           b == Cardinality(Filled)
           n == Len(fills)
           G == fills \o NewFills
<1>1. /\ G \in Seq(FillSet) /\ a \in Nat /\ b \in Nat /\ n \in Nat /\ Len(G) = n + a + b
      /\ Agree(fills, G)
      /\ StandIn(Sells, SellFills, G, n) /\ StandIn(Filled, BuyFills, G, n + a)
  BY NewFillsLaws
<1>2. /\ AreFillsOf(Sells, SellFills) /\ AreFillsOf(Filled, BuyFills)
      /\ Sells \in SUBSET Symbols /\ Filled \in SUBSET Symbols
      /\ Held \in BookSet /\ Sold \in BookSet
  BY SellFillsLaws, BuyFillsLaws, OrdersLaws, HeldLaws
<1> HIDE DEF G
<1>3. Len(G) \in Nat /\ n + a <= Len(G) /\ (n + a) + b <= Len(G) /\ n + a \in Nat /\ (n + a) + b = Len(G)
  BY <1>1
<1>4. BooksOf(G)[n] = Held
  <2>1. n \in 0..n /\ Len(fills) \in Nat
    BY <1>1
  <2> HIDE DEF n
  <2>2. \A k \in 0..Len(fills) : BooksOf(G)[k] = BooksOf(fills)[k]
    BY <1>1, <1>3, <2>1, BooksExtend
  <2> QED BY <2>1, <2>2 DEF n
<1> HIDE DEF a, b, n
<1>5. \A j \in 0..a : BooksOf(G)[n + j] = Applied(Held, Sells, SellFills, FirstOf(Sells, j))
  BY <1>1, <1>2, <1>3, <1>4, AppliedWalk DEF a
<1>6. BooksOf(G)[n + a] = Sold
  <2>1. a \in 0..a /\ FirstOf(Sells, a) = Sells
    BY <1>1, <1>2, FirstLaws DEF a
  <2> QED BY <1>5, <2>1, SellsBook
<1>7. \A j \in 0..b : BooksOf(G)[(n + a) + j] = Applied(Sold, Filled, BuyFills, FirstOf(Filled, j))
  BY <1>1, <1>2, <1>3, <1>6, AppliedWalk DEF b
<1>8. BooksOf(G)[Len(G)] = Traded
  <2>1. b \in 0..b /\ FirstOf(Filled, b) = Filled
    BY <1>1, <1>2, FirstLaws DEF b
  <2> QED BY <1>3, <1>7, <2>1, BuysBook
<1>9. \A k \in (n + 1)..Len(G) : NeverShort(BooksOf(G)[k])
  <2> TAKE k \in (n + 1)..Len(G)
  <2>1. \/ k - n \in 0..a /\ k = n + (k - n)
        \/ k - (n + a) \in 0..b /\ k = (n + a) + (k - (n + a))
    BY <1>1, <1>3
  <2>2. CASE k - n \in 0..a /\ k = n + (k - n)
    <3>1. FirstOf(Sells, k - n) \in SUBSET Sells
      BY <1>2, <2>2, FirstLaws DEF a
    <3> QED BY <1>5, <2>2, <3>1, SellsBook
  <2>3. CASE k - (n + a) \in 0..b /\ k = (n + a) + (k - (n + a))
    <3>1. FirstOf(Filled, k - (n + a)) \in SUBSET Filled
      BY <1>2, <2>3, FirstLaws DEF b
    <3> QED BY <1>7, <2>3, <3>1, BuysBook
  <2> QED BY <2>1, <2>2, <2>3
<1> QED BY <1>8, <1>9 DEF n, G

-----------------------------------------------------------------------------
(***************************************************************************)
(* What the audit will find, at every step of the replay.                  *)
(***************************************************************************)

\* The fills so far are in order and derived, and leave what the replay holds.
FillsInv ==
    /\ fills \in Seq(FillSet)
    /\ \A k \in 1..Len(fills) :
          /\ FillIsDerived(fills[k])
          /\ NeverShort(Book[k])
          /\ 1 <= fills[k].session /\ fills[k].session <= now
          /\ status = "open" => fills[k].session < now
    /\ \A k \in 2..Len(fills) : fills[k - 1].session <= fills[k].session
    /\ Book[Len(fills)] = Held

\* The states so far are derived, and so will be the next one.
StatesInv ==
    /\ \E S : states \in Seq(S)
    /\ Len(states) = IF status = "done" THEN Scored ELSE now - 1
    /\ status = "done" => now = Scored
    /\ status = "forming" => now = 1 /\ fills = <<>>
    /\ \A i \in 1..Len(states) : StateIsDerived(i)
    /\ status = "close" =>
          worth = Add(Book[FilledBy(now - 1)].cash, Value(Book[FilledBy(now - 1)].units, opens[now]))

\* How many fills had been made by a session.
LEMMA FilledByLaws ==
    ASSUME FillsInv, NEW i \in Int
    PROVE  /\ FilledBy(i) \in 0..Len(fills)
           /\ (\A k \in 1..Len(fills) : fills[k].session <= i) => FilledBy(i) = Len(fills)
<1> DEFINE n == Len(fills)
           D == 1..n
           K == {k \in D : fills[k].session <= i}
<1>1. n \in Nat /\ DOMAIN fills = D
  BY DEF FillsInv
<1>2. FilledBy(i) = Cardinality(K)
  BY <1>1 DEF FilledBy
<1>3. IsFiniteSet(D) /\ Cardinality(D) = n
  <2>1. IsFiniteSet(1..n) /\ Cardinality(1..n) = IF 1 > n THEN 0 ELSE n - 1 + 1
    <3>1. n \in Int /\ 1 \in Int
      BY <1>1
    <3> HIDE DEF n
    <3> QED BY <3>1, FS_Interval
  <2> HIDE DEF n
  <2> QED BY <1>1, <2>1
<1>4. K \in SUBSET D
  OBVIOUS
<1>5. (\A k \in 1..Len(fills) : fills[k].session <= i) => K = D
  OBVIOUS
<1> HIDE DEF K, D
<1>6. IsFiniteSet(K) /\ Cardinality(K) <= n
  BY <1>3, <1>4, FS_Subset
<1>7. Cardinality(K) \in Nat
  BY <1>6, FS_CardinalityType
<1> QED BY <1>1, <1>2, <1>3, <1>5, <1>6, <1>7

\* Before the first session there is nothing to derive.
LEMMA AuditInit == EvidenceInit => FillsInv /\ StatesInv
<1> SUFFICES ASSUME EvidenceInit PROVE FillsInv /\ StatesInv
  OBVIOUS
<1>1. fills = <<>> /\ states = <<>> /\ now = 1 /\ status = "forming" /\ cash = Int1 /\ holdings = NoWeights
  BY DEF EvidenceInit, ReplayInit
<1>2. fills \in Seq(FillSet) /\ Len(fills) = 0 /\ states \in Seq({}) /\ Len(states) = 0
  BY <1>1
<1>3. Book[0] = Start
  BY <1>2, BooksAre DEF Book
<1>4. FillsInv
  BY <1>1, <1>2, <1>3 DEF FillsInv, Held, Start
<1>5. StatesInv
  BY <1>1, <1>2 DEF StatesInv
<1> QED BY <1>4, <1>5

\* A target formed is a target later states will be derived from.
LEMMA AuditForm ==
    TargetsInv /\ FillsInv /\ StatesInv /\ FormTarget => FillsInv' /\ StatesInv'
<1> SUFFICES ASSUME TargetsInv, FillsInv, StatesInv, FormTarget PROVE FillsInv' /\ StatesInv'
  OBVIOUS
<1>1. /\ status = "forming" /\ status' \in {"forming", "open", "failed"}
      /\ UNCHANGED <<opens, closes, plan, now, holdings, cash, worth, fills, states>>
  BY DEF FormTarget
<1>2. fills = <<>> /\ now = 1 /\ Len(fills) = 0
  BY <1>1 DEF StatesInv
<1>3. FillsInv'
  BY <1>1, <1>2 DEF FillsInv, Book, Held
<1>4. \A i \in 1..Len(states) : StateIsDerived(i)'
  BY <1>1 DEF StatesInv, StateIsDerived, Book, FilledBy, Value
<1>5. StatesInv'
  BY <1>1, <1>2, <1>4 DEF StatesInv
<1> QED BY <1>3, <1>5

\* The fills of an open are derived from the target that was due.
LEMMA AuditOpen ==
    TargetsInv /\ BookInv /\ FillsInv /\ StatesInv /\ OpenSession => FillsInv' /\ StatesInv'
<1> SUFFICES ASSUME TargetsInv, BookInv, FillsInv, StatesInv, OpenSession PROVE FillsInv' /\ StatesInv'
  OBVIOUS
<1> DEFINE n == Len(fills)
<1>0. /\ status = "open" /\ now \in Nat /\ now \in 1..Scored /\ worth' = Worth
      /\ UNCHANGED <<opens, closes, plan, targets, now, states>>
      /\ n \in Nat /\ fills \in Seq(FillSet)
  BY OpenIs, ReplayAssumption DEF TargetsInv, FillsInv, Positive
<1>1. Worth \in Fraction /\ Less(Int0, Worth) /\ Int0 \in Fraction
  BY <1>0, OrdersLaws, ZeroAndOne
<1>2. ~Leq(Worth, Int0) /\ status' = "close"
  <2>1. ~Leq(Worth, Int0)
    BY <1>1, OrderLaws
  <2> QED BY <2>1, OpenIs
<1>3. \A k \in 1..n : /\ FillIsDerived(fills[k]) /\ NeverShort(Book[k])
                     /\ fills[k].session < now /\ 1 <= fills[k].session
  BY <1>0 DEF FillsInv
<1>4. BooksOf(fills)[n] = Held
  BY DEF FillsInv, Book
<1>5. /\ fills' \in Seq(FillSet) /\ n <= Len(fills') /\ Len(fills') \in Nat
      /\ \A k \in 1..n : fills'[k] = fills[k]
      /\ \A k \in (n + 1)..Len(fills') : IsFillNow(fills'[k]) /\ NeverShort(BooksOf(fills')[k])
      /\ BooksOf(fills')[Len(fills')] = Held'
  <2>1. CASE DueTarget = NoTarget
    <3>1. fills' = fills /\ cash' = cash /\ holdings' = holdings
      BY <2>1, OpenIs
    <3> QED BY <1>0, <1>4, <3>1 DEF Held
  <2>2. CASE DueTarget # NoTarget
    <3> DEFINE G == fills \o NewFills
    <3>1. fills' = G /\ cash' = Sub(Spendable, Spent) /\ holdings' = SoldDown
      BY <1>2, <2>2, OpenIs, OpenFills
    <3>2. /\ G \in Seq(FillSet) /\ Agree(fills, G)
          /\ \A k \in (n + 1)..Len(G) : IsFillNow(G[k])
      BY <1>0, NewFillsLaws
    <3>3. BooksOf(G)[Len(G)] = Traded /\ \A k \in (n + 1)..Len(G) : NeverShort(BooksOf(G)[k])
      BY <1>0, <1>4, OpenBooks
    <3>4. Traded = Held'
      BY <3>1 DEF Traded, Held
    <3> HIDE DEF G
    <3> QED BY <3>1, <3>2, <3>3, <3>4 DEF Agree
  <2> QED BY <2>1, <2>2
<1>6. Agree(fills, fills')
  BY <1>5 DEF Agree
<1>7. \A k \in 0..n : BooksOf(fills')[k] = BooksOf(fills)[k]
  BY <1>0, <1>5, <1>6, BooksExtend
<1>8. \A k \in 1..Len(fills') : k \in 1..n \/ k \in (n + 1)..Len(fills')
  BY <1>0, <1>5
<1>9. ASSUME NEW k \in 1..Len(fills')
      PROVE  /\ FillIsDerived(fills[k])'
             /\ NeverShort(BooksOf(fills')[k])
             /\ 1 <= fills'[k].session /\ fills'[k].session <= now
             /\ k \notin 1..n => fills'[k].session = now
  <2>1. CASE k \in 1..n
    <3>1. fills'[k] = fills[k] /\ BooksOf(fills')[k] = Book[k] /\ fills[k].session < now /\ k \in 0..n
          /\ fills[k] \in FillSet
      BY <1>0, <1>3, <1>5, <1>7, <2>1 DEF Book
    <3>2. fills'[k].session <= now
      BY <1>0, <3>1 DEF FillSet
    <3>3. FillIsDerived(fills[k])'
      BY <1>0, <1>3, <2>1, <3>1 DEF FillIsDerived
    <3> QED BY <1>3, <2>1, <3>1, <3>2, <3>3
  <2>2. CASE k \in (n + 1)..Len(fills')
    <3>1. IsFillNow(fills'[k]) /\ NeverShort(BooksOf(fills')[k])
      BY <1>5, <2>2
    <3>2. fills'[k].session = now /\ FillIsDerived(fills'[k])
      BY <3>1 DEF IsFillNow
    <3>3. FillIsDerived(fills[k])'
      BY <1>0, <3>2 DEF FillIsDerived
    <3> QED BY <1>0, <3>1, <3>2, <3>3
  <2> QED BY <1>8, <2>1, <2>2
<1>10. ASSUME NEW k \in 2..Len(fills')
       PROVE  fills'[k - 1].session <= fills'[k].session
  <2>1. k - 1 \in 1..Len(fills') /\ k \in 1..Len(fills')
    BY <1>5
  <2>2. fills'[k - 1].session <= now
    BY <1>9, <2>1
  <2>3. CASE k \in 1..n
    <3>1. k \in 2..n /\ k - 1 \in 1..n
      BY <1>0, <2>3
    <3> QED BY <1>5, <2>3, <3>1 DEF FillsInv
  <2>4. CASE k \notin 1..n
    BY <1>9, <2>1, <2>2, <2>4
  <2> QED BY <2>3, <2>4
<1>11. FillsInv'
  <2>1. Book' = BooksOf(fills')
    BY DEF Book
  <2> QED BY <1>0, <1>2, <1>5, <1>9, <1>10, <2>1 DEF FillsInv
<1>12. \A i \in Int : i < now => FilledBy(i)' = FilledBy(i) /\ FilledBy(i) \in 0..n
  <2> TAKE i \in Int
  <2> HAVE i < now
  <2>1. {k \in 1..Len(fills') : fills'[k].session <= i} = {k \in 1..n : fills[k].session <= i}
    <3>1. ASSUME NEW k \in 1..Len(fills'), fills'[k].session <= i
          PROVE  k \in 1..n /\ fills[k].session <= i
      <4>1. k \in 1..n
        BY <1>0, <1>9, <3>1
      <4> QED BY <1>5, <3>1, <4>1
    <3>2. ASSUME NEW k \in 1..n, fills[k].session <= i
          PROVE  k \in 1..Len(fills') /\ fills'[k].session <= i
      BY <1>0, <1>5, <3>2
    <3> QED BY <3>1, <3>2
  <2>2. DOMAIN fills' = 1..Len(fills') /\ DOMAIN fills = 1..n
    BY <1>0, <1>5
  <2> QED BY <2>1, <2>2, FilledByLaws DEF FilledBy
<1>13. ASSUME NEW i \in 1..Len(states)
       PROVE  StateIsDerived(i)'
  <2>1. Len(states) = now - 1
    BY <1>0 DEF StatesInv
  <2>2. i \in Int /\ i - 1 \in Int /\ i < now /\ i - 1 < now
    BY <1>0, <2>1
  <2>3. FilledBy(i)' = FilledBy(i) /\ FilledBy(i - 1)' = FilledBy(i - 1)
        /\ Book'[FilledBy(i)] = Book[FilledBy(i)] /\ Book'[FilledBy(i - 1)] = Book[FilledBy(i - 1)]
    BY <1>7, <1>12, <2>2 DEF Book
  <2>4. StateIsDerived(i)
    BY DEF StatesInv
  <2> QED BY <1>0, <2>3, <2>4 DEF StateIsDerived
<1>14. worth' = Add(Book[FilledBy(now - 1)].cash, Value(Book[FilledBy(now - 1)].units, opens[now]))'
  <2>0. ASSUME NEW k \in 1..n PROVE fills[k].session <= now - 1
    <3>1. fills[k] \in FillSet /\ fills[k].session < now
      BY <1>0, <1>3
    <3>2. fills[k].session \in Int
      BY <3>1 DEF FillSet
    <3> QED BY <1>0, <3>1, <3>2
  <2>1. now - 1 \in Int /\ now - 1 < now /\ \A k \in 1..n : fills[k].session <= now - 1
    BY <1>0, <2>0
  <2>2. FilledBy(now - 1) = n
    BY <2>1, FilledByLaws
  <2>3. FilledBy(now - 1)' = n /\ n \in 0..n
    BY <1>0, <1>12, <2>1, <2>2
  <2>4. Book'[n] = Held
    BY <1>4, <1>7, <2>3 DEF Book
  <2>5. Worth = Add(Held.cash, Value(Held.units, opens[now]))
    BY DEF Worth, Held
  <2> QED BY <1>0, <2>3, <2>4, <2>5
<1>15. StatesInv'
  BY <1>0, <1>2, <1>13, <1>14 DEF StatesInv
<1> QED BY <1>11, <1>15

\* The state a close records is derived.
LEMMA AuditClose ==
    TargetsInv /\ BookInv /\ FillsInv /\ StatesInv /\ CloseSession => FillsInv' /\ StatesInv'
<1> SUFFICES ASSUME TargetsInv, BookInv, FillsInv, StatesInv, CloseSession PROVE FillsInv' /\ StatesInv'
  OBVIOUS
<1> DEFINE n == Len(fills)
<1>0. /\ status = "close" /\ Sound /\ now \in Nat /\ now \in 1..Scored /\ Scored \in Nat
      /\ UNCHANGED <<opens, closes, plan, targets, holdings, cash, worth, fills>>
      /\ n \in Nat /\ fills \in Seq(FillSet)
  BY SoundAtClose, ReplayAssumption DEF CloseSession, TargetsInv, FillsInv, Positive
<1>1. /\ states' = Append(states, SessionState)
      /\ now' = IF now < Scored THEN now + 1 ELSE now
      /\ status' = IF now < Scored THEN "open" ELSE "done"
  BY <1>0 DEF CloseSession
<1>2. FillsInv'
  <2>1. ASSUME NEW k \in 1..n
        PROVE  fills[k].session <= now' /\ (status' = "open" => fills[k].session < now')
    <3>1. fills[k] \in FillSet /\ fills[k].session <= now
      BY <1>0 DEF FillsInv
    <3>2. fills[k].session \in Int
      BY <3>1 DEF FillSet
    <3> QED BY <1>0, <1>1, <3>1, <3>2
  <2>2. ASSUME NEW k \in 1..n
        PROVE  FillIsDerived(fills[k])' /\ NeverShort(Book[k])'
    BY <1>0 DEF FillsInv, FillIsDerived, Book
  <2>3. fills' = fills /\ Book' = Book /\ Held' = Held
    BY <1>0 DEF Book, Held
  <2> QED BY <1>0, <2>1, <2>2, <2>3 DEF FillsInv
<1>3. FilledBy(now) = n /\ Book[FilledBy(now)] = Held
  <2>1. FillsInv /\ now \in Int /\ \A k \in 1..Len(fills) : fills[k].session <= now
    BY <1>0 DEF FillsInv
  <2>2. FilledBy(now) = n
    <3> HIDE DEF FillsInv
    <3> QED BY <2>1, FilledByLaws
  <2>3. Book[n] = Held
    BY DEF FillsInv
  <2> QED BY <2>2, <2>3
<1>4. PICK S : states \in Seq(S)
  BY DEF StatesInv
<1> DEFINE T == S \cup {SessionState}
<1>5. /\ states' \in Seq(T) /\ Len(states) = now - 1 /\ Len(states') = now
      /\ states'[now] = SessionState /\ \A i \in 1..(now - 1) : states'[i] = states[i]
  <2> DEFINE e == SessionState
  <2>1. states \in Seq(T) /\ e \in T /\ Len(states) = now - 1
    BY <1>0, <1>4 DEF StatesInv
  <2> HIDE DEF T, e
  <2>2. /\ Append(states, e) \in Seq(T) /\ Len(Append(states, e)) = (now - 1) + 1
        /\ Append(states, e)[(now - 1) + 1] = e /\ \A i \in 1..(now - 1) : Append(states, e)[i] = states[i]
    BY <1>0, <2>1
  <2>3. (now - 1) + 1 = now
    BY <1>0
  <2> QED BY <1>1, <2>1, <2>2, <2>3 DEF e
<1>6. \A i \in Int : FilledBy(i)' = FilledBy(i)
  BY <1>0 DEF FilledBy
<1>7. Book' = Book
  BY <1>0 DEF Book
<1>8. ASSUME NEW i \in 1..now
      PROVE  StateIsDerived(i)'
  <2>1. i \in Int /\ i - 1 \in Int /\ FilledBy(i)' = FilledBy(i) /\ FilledBy(i - 1)' = FilledBy(i - 1)
    BY <1>0, <1>6
  <2>2. CASE i # now
    <3>1. states'[i] = states[i] /\ StateIsDerived(i)
      BY <1>0, <1>5, <2>2 DEF StatesInv
    <3> QED BY <1>0, <1>7, <2>1, <3>1 DEF StateIsDerived
  <2>3. CASE i = now
    <3>1. states'[i] = SessionState
      BY <1>5, <2>3
    <3>2. worth = Add(Book[FilledBy(now - 1)].cash, Value(Book[FilledBy(now - 1)].units, opens[now]))
      BY <1>0 DEF StatesInv
    <3>3. /\ SessionState.session = now /\ SessionState.open = worth /\ SessionState.cash = cash
          /\ SessionState.units = holdings /\ SessionState.close = Add(cash, Value(holdings, closes[Warmup + now]))
          /\ SessionState.realized = Div(Value(holdings, closes[Warmup + now]),
                                          Add(cash, Value(holdings, closes[Warmup + now])))
      BY DEF SessionState, Risky
    <3>4. Book[FilledBy(now)].cash = cash /\ Book[FilledBy(now)].units = holdings
      BY <1>3 DEF Held
    <3> HIDE DEF n
    <3> QED BY <1>0, <1>7, <2>1, <2>3, <3>1, <3>2, <3>3, <3>4 DEF StateIsDerived
  <2> QED BY <2>2, <2>3
<1>9. StatesInv'
  <2>1. \E U : states' \in Seq(U)
    BY <1>5
  <2>2. Len(states') = IF status' = "done" THEN Scored ELSE now' - 1
    BY <1>0, <1>1, <1>5
  <2>3. status' = "done" => now' = Scored
    BY <1>0, <1>1
  <2>4. \A i \in 1..Len(states') : StateIsDerived(i)'
    BY <1>5, <1>8
  <2> QED BY <1>1, <2>1, <2>2, <2>3, <2>4 DEF StatesInv
<1> QED BY <1>2, <1>9

\* A step of the evidence alone keeps what is derived.
LEMMA AuditStays ==
    ASSUME UNCHANGED replayVars, FillsInv, StatesInv
    PROVE  FillsInv' /\ StatesInv'
<1>1. UNCHANGED <<opens, closes, plan, targets, status, now, holdings, cash, worth, fills, states>>
  BY DEF replayVars
<1>2. Book' = Book /\ Held' = Held /\ \A i : FilledBy(i)' = FilledBy(i)
  BY <1>1 DEF Book, Held, FilledBy
<1>3. \A k \in 1..Len(fills) : FillIsDerived(fills[k])'
  BY <1>1 DEF FillsInv, FillIsDerived
<1>4. \A i \in 1..Len(states) : StateIsDerived(i)'
  <2> TAKE i \in 1..Len(states)
  <2>1. StateIsDerived(i) /\ FilledBy(i)' = FilledBy(i) /\ FilledBy(i - 1)' = FilledBy(i - 1)
    BY <1>2 DEF StatesInv
  <2> QED BY <1>1, <1>2, <2>1 DEF StateIsDerived
<1>5. FillsInv'
  BY <1>1, <1>2, <1>3 DEF FillsInv
<1>6. StatesInv'
  <2>1. FilledBy(now - 1)' = FilledBy(now - 1)
    BY <1>1, <1>2
  <2> QED BY <1>1, <1>2, <1>4, <2>1 DEF StatesInv
<1> QED BY <1>5, <1>6

\* A finished replay whose books and states are derived passes the audit.
LEMMA DerivedAtTheEnd ==
    ASSUME FillsInv, StatesInv, status = "done"
    PROVE  ReplayIsDerived
<1>1. fills \in Seq(FillSet) /\ Len(states) = Scored /\ now = Scored /\ Scored \in Nat
  BY ReplayAssumption DEF FillsInv, StatesInv, Positive
<1>2. DOMAIN states = 1..Scored /\ DOMAIN fills = 1..Len(fills)
  BY <1>1 DEF StatesInv
<1>3. \A k \in 1..Len(fills) : /\ FillIsDerived(fills[k]) /\ NeverShort(Book[k])
                              /\ 1 <= fills[k].session /\ fills[k].session <= now
  BY DEF FillsInv
<1>4. FillsAreInOrder
  <2>1. \A k \in 2..Len(fills) : fills[k - 1].session <= fills[k].session
    BY DEF FillsInv
  <2>2. ASSUME NEW k \in DOMAIN fills PROVE fills[k].session \in DOMAIN states
    <3>1. fills[k] \in FillSet /\ 1 <= fills[k].session /\ fills[k].session <= now
      BY <1>1, <1>2, <1>3, <2>2
    <3>2. fills[k].session \in Int
      BY <3>1 DEF FillSet
    <3> QED BY <1>1, <1>2, <3>1, <3>2
  <2> QED BY <2>1, <2>2 DEF FillsAreInOrder
<1>5. BookIsNeverShort
  BY <1>2, <1>3 DEF BookIsNeverShort, NeverShort
<1>6. \A i \in DOMAIN states : StateIsDerived(i)
  BY <1>1, <1>2 DEF StatesInv
<1> QED BY <1>2, <1>3, <1>4, <1>5, <1>6 DEF ReplayIsDerived

-----------------------------------------------------------------------------
(***************************************************************************)
(* The two benchmarks.                                                     *)
(***************************************************************************)

\* What the cash benchmark is at every step.
CashInv ==
    plan.family = "cash" =>
        /\ \A i \in 1..Len(targets) : targets[i] = NoTarget
        /\ fills = <<>> /\ cash = Int1 /\ holdings = NoWeights
        /\ \A i \in 1..Len(states) : states[i].cash = Int1 /\ states[i].close = Int1

\* What the equal-weight benchmark is at every step.
Equal == [due |-> 2, weights |-> EqualWeights(Symbols)]
Untouched == fills = <<>> /\ cash = Int1 /\ holdings = NoWeights
EqualFills ==
    /\ Len(fills) = Cardinality(Symbols)
    /\ [k \in DOMAIN fills |-> fills[k].symbol] = Ordered(Symbols)
    /\ \A k \in DOMAIN fills : /\ fills[k].signal = 1
                               /\ fills[k].session = 2
                               /\ Less(Int0, fills[k].units)
                               /\ fills[k].notional = fills[1].notional
HoldInv ==
    plan.family = "buy_and_hold" =>
        /\ \A i \in 1..Len(targets) : targets[i] = IF i = 1 THEN Equal ELSE NoTarget
        /\ IF now = 1 \/ (now = 2 /\ status = "open") THEN Untouched ELSE EqualFills
        /\ Len(states) >= 1 => states[1].cash = Int1 /\ states[1].units = NoWeights /\ states[1].realized = Int0
        /\ \A i \in 1..Len(states) : states[i].target = Int1

\* Nothing held is worth nothing.
LEMMA ValueOfNothing ==
    ASSUME NEW row \in [Symbols -> Positive]
    PROVE  Value(NoWeights, row) = Int0
<1>1. \A s \in Symbols : Mul(NoWeights[s], Whole(row[s])) = Int0
  <2> TAKE s \in Symbols
  <2> DEFINE n == row[s]
  <2>1. n \in Int
    BY DEF Positive
  <2> HIDE DEF n
  <2>2. Whole(n) \in Fraction
    BY <2>1, WholeLaws
  <2>3. Mul(Int0, Whole(n)) = Int0
    BY <2>2, MulLaws
  <2> QED BY <2>3 DEF n, NoWeights
<1>2. [s \in Symbols |-> Mul(NoWeights[s], Whole(row[s]))] = [s \in Symbols |-> Int0]
  BY <1>1
<1> QED BY <1>2, SumOfNothing, SymbolsFinite DEF Value, SumOver

\* Prices are positive numbers.
LEMMA PricesAre ==
    ASSUME TargetsInv
    PROVE  /\ opens[now] \in [Symbols -> Positive]
           /\ closes[Warmup + now] \in [Symbols -> Positive]
<1>1. now \in 1..Scored /\ Scored \in Nat /\ Warmup \in Nat
  BY ReplayAssumption DEF TargetsInv, Positive
<1>2. Warmup + now \in 1..(Warmup + Scored)
  BY <1>1
<1> QED BY <1>1, <1>2, ReplayAssumption DEF TargetsInv

\* A sequence with one more element.
LEMMA Appended ==
    ASSUME NEW S, NEW q \in Seq(S), NEW e
    PROVE  /\ Len(Append(q, e)) = Len(q) + 1 /\ Append(q, e)[Len(q) + 1] = e
           /\ \A i \in 1..Len(q) : Append(q, e)[i] = q[i]
           /\ Len(q) \in Nat
<1> DEFINE T == S \cup {e}
<1>1. q \in Seq(T) /\ e \in T
  OBVIOUS
<1> HIDE DEF T
<1> QED BY <1>1

\* Zero and one are different fractions.
LEMMA OneIsNotZero == Int0 \in Fraction /\ Int1 \in Fraction /\ Less(Int0, Int1) /\ ~Leq(Int1, Int0) /\ Int0 # Int1
BY ZeroAndOne, OrderLaws

\* The cash benchmark never trades.
LEMMA CashStep ==
    ASSUME TargetsInv, BookInv, StatesInv, CashInv, ReplayNext
    PROVE  CashInv'
<1> SUFFICES ASSUME plan'.family = "cash" PROVE CashInv'
  BY DEF CashInv
<1>1. plan' = plan /\ opens' = opens /\ closes' = closes
  BY DEF ReplayNext, FormTarget, OpenSession, CloseSession
<1>2. /\ \A i \in 1..Len(targets) : targets[i] = NoTarget
      /\ fills = <<>> /\ cash = Int1 /\ holdings = NoWeights
      /\ \A i \in 1..Len(states) : states[i].cash = Int1 /\ states[i].close = Int1
  BY <1>1 DEF CashInv
<1>3. targets \in Seq([due : Int, weights : [Symbols -> Fraction]]) /\ now \in 1..Scored /\ Scored \in Nat
  BY ReplayAssumption DEF TargetsInv, Positive
<1>4. CASE FormTarget
  <2>1. PICK vols : targets' = Append(targets, Target(Len(targets) + 1, closes, vols))
    BY <1>1, <1>4 DEF FormTarget
  <2>2. Target(Len(targets) + 1, closes, vols) = NoTarget
    BY <1>1 DEF Target
  <2>3. \A i \in 1..Len(targets') : targets'[i] = NoTarget
    <3>1. /\ Len(targets') = Len(targets) + 1 /\ targets'[Len(targets) + 1] = NoTarget /\ Len(targets) \in Nat
          /\ \A i \in 1..Len(targets) : targets'[i] = targets[i]
      BY <1>3, <2>1, <2>2, Appended
    <3> QED BY <1>2, <3>1
  <2> QED BY <1>2, <1>4, <2>3 DEF CashInv, FormTarget
<1>5. CASE OpenSession
  <2>1. Len(targets) = Scored
    <3>1. status = "open"
      BY <1>5 DEF OpenSession
    <3>2. Len(targets) \in Nat /\ Len(targets) <= Scored /\ ~(Len(targets) < Scored)
      BY <1>3, <3>1 DEF TargetsInv
    <3> QED BY <1>3, <3>2
  <2>2. DueTarget = NoTarget
    <3>1. now > 1 => now - 1 \in 1..Len(targets)
      BY <1>3, <2>1
    <3> QED BY <1>2, <3>1 DEF DueTarget
  <2>3. UNCHANGED <<holdings, cash, fills, targets, states>>
    BY <1>5, <2>2, OpenIs
  <2> QED BY <1>2, <2>3 DEF CashInv
<1>6. CASE CloseSession
  <2>1. Sound
    BY <1>6, SoundAtClose DEF CloseSession
  <2>2. states' = Append(states, SessionState) /\ UNCHANGED <<targets, holdings, cash, fills>>
    BY <1>6, <2>1 DEF CloseSession
  <2>3. SessionState.cash = Int1 /\ SessionState.close = Int1
    <3>1. Risky = Int0
      BY <1>2, PricesAre, ValueOfNothing DEF Risky
    <3>2. Add(Int1, Int0) = Int1
      BY OneIsNotZero, AddLaws
    <3> QED BY <1>2, <3>1, <3>2 DEF SessionState
  <2>4. PICK S : states \in Seq(S)
    BY DEF StatesInv
  <2>5. \A i \in 1..Len(states') : states'[i].cash = Int1 /\ states'[i].close = Int1
    <3> DEFINE e == SessionState
    <3> HIDE DEF e
    <3>1. /\ Len(Append(states, e)) = Len(states) + 1 /\ Append(states, e)[Len(states) + 1] = e /\ Len(states) \in Nat
          /\ \A i \in 1..Len(states) : Append(states, e)[i] = states[i]
      BY <2>4, Appended
    <3>2. states' = Append(states, e) /\ e.cash = Int1 /\ e.close = Int1
      BY <2>2, <2>3 DEF e
    <3> QED BY <1>2, <3>1, <3>2
  <2> QED BY <1>2, <2>2, <2>5 DEF CashInv
<1> QED BY <1>4, <1>5, <1>6 DEF ReplayNext

\* The one trade of the equal-weight benchmark.
LEMMA EqualTrade ==
    ASSUME TargetsInv, BookInv, FillsInv, HoldInv, plan.family = "buy_and_hold", OpenSession, now = 2
    PROVE  EqualFills'
<1> DEFINE E == EqualWeights(Symbols)
           n == Cardinality(Symbols)
           e == Frac(1, n)
<1>0. status = "open" /\ fills = <<>> /\ cash = Int1 /\ holdings = NoWeights /\ fills \in Seq(FillSet) /\ Len(fills) = 0
  <2>1. status = "open" /\ fills = <<>> /\ cash = Int1 /\ holdings = NoWeights
    BY DEF OpenSession, HoldInv, Untouched
  <2>2. fills \in Seq(FillSet) /\ Len(fills) = 0
    BY <2>1
  <2> QED BY <2>1, <2>2
<1>1. DueTarget = Equal /\ Equal # NoTarget
  <2>1. 1 \in 1..Len(targets)
    BY <1>0, ReplayAssumption DEF TargetsInv, Positive
  <2>2. targets[1] = Equal
    BY <2>1 DEF HoldInv
  <2>3. Equal.due = 2 /\ NoTarget.due = -1
    BY DEF Equal, NoTarget
  <2> QED BY <2>2, <2>3 DEF DueTarget
<1>2. /\ n \in Nat /\ IsFiniteSet(Symbols) /\ Symbols # {}
      /\ E \in [Symbols -> Fraction] /\ SumOf(E) = Int1
      /\ \A s \in Symbols : E[s] = e /\ Less(Int0, e)
  BY WeightsAssumption, SymbolsFinite, EqualWeightsLaws DEF AreWeights
<1>3. /\ Int0 \in Fraction /\ Int1 \in Fraction /\ Less(Int0, Int1) /\ ~Leq(Int1, Int0)
      /\ \A x \in Fraction : Mul(x, Int1) = x /\ Sub(x, Int0) = x /\ Add(x, Int0) = x /\ Add(Int0, x) = x
  BY OneIsNotZero, MulLaws, AddLaws
<1>4. \A s \in Symbols : Mul(Int0, Whole(opens[now][s])) = Int0
  <2>1. \A s \in Symbols : Whole(opens[now][s]) \in Fraction
    BY <1>0, OrdersLaws
  <2> QED BY <2>1, MulLaws
<1>5. Worth = Int1
  BY <1>0, <1>3, PricesAre, ValueOfNothing DEF Worth
<1> HIDE DEF E, e
<1>6. Delta = E
  <2>1. \A s \in Symbols : Delta[s] = E[s]
    <3> TAKE s \in Symbols
    <3>1. Desired[s] = Mul(E[s], Int1)
      BY <1>1, <1>5 DEF Desired, Equal, E
    <3>2. NoWeights[s] = Int0
      BY DEF NoWeights
    <3>3. Delta[s] = Sub(Desired[s], Int0)
      BY <1>0, <1>4, <3>2 DEF Delta
    <3> QED BY <1>2, <1>3, <3>1, <3>3
  <2>2. Delta = [s \in Symbols |-> Delta[s]]
    BY DEF Delta
  <2> QED BY <1>2, <2>1, <2>2
<1>7. Sells = {} /\ Buys = Symbols
  <2>1. \A s \in Symbols : Less(Int0, Delta[s])
    BY <1>2, <1>6
  <2>2. Buys = Symbols
    BY <2>1 DEF Buys
  <2> QED BY <1>0, <2>2, OrdersLaws
<1>8. Spendable = Int1
  <2>1. IsFiniteSet({}) /\ Proceeds = SumOf([s \in Sells |-> Sub(Sub(Int0, Delta[s]), FrictionOn(Magnitude(Delta[s])))])
    BY FS_EmptySet DEF Proceeds, SumOver
  <2> DEFINE w == [s \in Sells |-> Sub(Sub(Int0, Delta[s]), FrictionOn(Magnitude(Delta[s])))]
  <2>2. w \in [Sells -> Fraction]
    BY <1>7
  <2> HIDE DEF w
  <2>3. SumOf(w) = Int0
    BY <1>7, <2>1, <2>2, SumLaws
  <2>4. Proceeds = Int0
    BY <2>1, <2>3 DEF w
  <2> QED BY <1>0, <1>3, <2>4 DEF Spendable
<1> DEFINE scale == BuyScale(Int1, Int1)
           p == Mul(e, scale)
<1>9. scale \in Fraction /\ Less(Int0, scale) /\ ~Leq(scale, Int0)
  <2>1. Leq(Int0, Int1)
    BY <1>3, OrderLaws
  <2>2. scale \in Fraction /\ Less(Int0, scale)
    BY <1>3, <2>1, ScaleLaws
  <2> HIDE DEF scale
  <2> QED BY <1>3, <2>2, OrderLaws
<1> HIDE DEF scale
<1>10. \A s \in Symbols : Purchases[s] = p /\ Less(Int0, p)
  <2>1. [s \in Buys |-> Delta[s]] = E
    BY <1>2, <1>6, <1>7
  <2>2. Purchases = Scatter(Symbols, [s \in Symbols |-> Mul(E[s], scale)])
    BY <1>2, <1>6, <1>7, <1>8, <1>9, <2>1 DEF Purchases, Bought, SumOver, scale
  <2>3. \A s \in Symbols : Purchases[s] = Mul(E[s], scale)
    BY <2>2 DEF Scatter
  <2>4. ASSUME NEW s \in Symbols PROVE Less(Int0, p)
    <3>1. e \in Fraction /\ Less(Int0, e)
      BY <1>2
    <3> QED BY <1>9, <3>1, SignLaws
  <2> QED BY <1>2, <2>3, <2>4
<1> HIDE DEF p
<1>11. Filled = Symbols
  BY <1>7, <1>10 DEF Filled
<1> DEFINE G == fills \o NewFills
<1>12. fills' = G
  <2>1. ~Leq(Worth, Int0)
    BY <1>3, <1>5
  <2> QED BY <1>1, <2>1, OpenFills
<1>13. G \in Seq(FillSet) /\ Len(G) = n /\ \A k \in 1..n : G[k] = BuyFills[Ordered(Symbols)[k]]
  <2>1. Cardinality(Sells) = 0
    BY <1>7, FS_EmptySet
  <2>2. /\ G \in Seq(FillSet) /\ Len(G) = 0 + 0 + n
        /\ StandIn(Symbols, BuyFills, G, 0 + 0)
    BY <1>0, <1>11, <2>1, NewFillsLaws
  <2> HIDE DEF G, n
  <2>3. \A k \in 1..n : G[(0 + 0) + k] = BuyFills[Ordered(Symbols)[k]]
    BY <2>2 DEF StandIn, n
  <2>4. 0 + 0 + n = n /\ \A k \in 1..n : (0 + 0) + k = k
    BY <1>2 DEF n
  <2> QED BY <2>2, <2>3, <2>4
<1> HIDE DEF G
<1>14. /\ \A k \in 1..n : Ordered(Symbols)[k] \in Symbols
       /\ Ordered(Symbols) = [k \in 1..n |-> Ordered(Symbols)[k]]
  BY OrderedLaws
<1>15. \A s \in Symbols : /\ BuyFills[s].symbol = s /\ BuyFills[s].signal = 1 /\ BuyFills[s].session = 2
                          /\ Less(Int0, BuyFills[s].units) /\ BuyFills[s].notional = p
  <2> TAKE s \in Symbols
  <2>1. Less(Int0, BuyFills[s].units) /\ BuyFills[s].notional = Purchases[s]
    BY <1>0, <1>11, BuyFillsLaws
  <2>2. BuyFills[s].symbol = s /\ BuyFills[s].signal = 1 /\ BuyFills[s].session = 2
    BY <1>11 DEF BuyFills, FillOf
  <2> QED BY <1>10, <2>1, <2>2
<1> HIDE DEF n
<1>16. DOMAIN G = 1..n
  BY <1>13
<1>17. [k \in DOMAIN G |-> G[k].symbol] = Ordered(Symbols)
  <2>1. \A k \in 1..n : G[k].symbol = Ordered(Symbols)[k]
    BY <1>13, <1>14, <1>15
  <2> QED BY <1>14, <1>16, <2>1
<1>18. \A k \in 1..n : /\ G[k].signal = 1 /\ G[k].session = 2 /\ Less(Int0, G[k].units)
                       /\ G[k].notional = G[1].notional
  <2> TAKE k \in 1..n
  <2>1. 1 \in 1..n
    BY <1>2 DEF n
  <2>2. G[k].notional = p /\ G[1].notional = p
    BY <1>13, <1>14, <1>15, <2>1
  <2> QED BY <1>13, <1>14, <1>15, <2>2
<1> QED BY <1>12, <1>13, <1>16, <1>17, <1>18 DEF EqualFills, n

\* The target exposure a session of the equal-weight benchmark records.
LEMMA EqualGross ==
    ASSUME TargetsInv, HoldInv, plan.family = "buy_and_hold", status # "forming"
    PROVE  TargetGross = Int1
<1> DEFINE formed == {i \in 1..now : targets[i] # NoTarget}
           last == CHOOSE i \in formed : \A j \in formed : j <= i
<1>1. /\ Len(targets) = Scored /\ now \in 1..Scored /\ Scored \in Nat
  <2>1. Len(targets) \in Nat /\ Len(targets) <= Scored /\ ~(Len(targets) < Scored) /\ Scored \in Nat
    BY ReplayAssumption DEF TargetsInv, Positive
  <2> QED BY <2>1 DEF TargetsInv
<1>2. Equal # NoTarget
  <2>1. Equal.due = 2 /\ NoTarget.due = -1
    BY DEF Equal, NoTarget
  <2> QED BY <2>1
<1>3. formed = {1}
  <2>1. \A i \in 1..now : i \in 1..Len(targets)
    BY <1>1
  <2>2. \A i \in 1..now : targets[i] = IF i = 1 THEN Equal ELSE NoTarget
    BY <2>1 DEF HoldInv
  <2>3. 1 \in 1..now
    BY <1>1
  <2> QED BY <1>2, <2>2, <2>3
<1>4. last = 1
  <2> HIDE DEF formed
  <2>1. 1 \in formed /\ \A j \in formed : j <= 1
    BY <1>3
  <2>2. last \in formed
    BY <2>1
  <2> QED BY <1>3, <2>2
<1>5. targets[1] = Equal
  <2> 1 \in 1..Len(targets)
    BY <1>1
  <2> QED BY DEF HoldInv
<1>6. TargetGross = SumOver(Symbols, LAMBDA s : targets[1].weights[s])
  <2>1. TargetGross = IF formed = {} THEN Int0 ELSE SumOf([s \in Symbols |-> targets[last].weights[s]])
    BY DEF TargetGross, SumOver
  <2> HIDE DEF last
  <2> QED BY <1>3, <1>4, <2>1 DEF SumOver
<1>7. SumOver(Symbols, LAMBDA s : targets[1].weights[s]) = SumOf(EqualWeights(Symbols))
  <2>1. EqualWeights(Symbols) \in [Symbols -> Fraction]
    BY EqualWeightsLaws DEF AreWeights
  <2>2. [s \in Symbols |-> targets[1].weights[s]] = EqualWeights(Symbols)
    BY <1>5, <2>1 DEF Equal
  <2> QED BY <2>2 DEF SumOver
<1>8. SumOf(EqualWeights(Symbols)) = Int1
  BY EqualWeightsLaws, WeightsAssumption
<1> QED BY <1>6, <1>7, <1>8

\* The equal-weight benchmark forms its one target.
LEMMA HoldForm ==
    ASSUME TargetsInv, StatesInv, HoldInv, plan.family = "buy_and_hold", FormTarget
    PROVE  HoldInv'
<1>1. /\ UNCHANGED <<plan, now, holdings, cash, fills, states>> /\ status = "forming"
      /\ status' \in {"failed", "open", "forming"} /\ now = 1 /\ Len(states) = 0
  BY DEF FormTarget, StatesInv
<1>2. PICK vols : targets' = Append(targets, Target(Len(targets) + 1, closes, vols))
  BY DEF FormTarget
<1>3. Target(Len(targets) + 1, closes, vols) = IF Len(targets) + 1 = 1 THEN Equal ELSE NoTarget
  <2>1. DueAfter(1) = 2
    BY EvidenceAssumption DEF DueAfter
  <2> QED BY <2>1 DEF Target, Equal
<1>4. \A i \in 1..Len(targets') : targets'[i] = IF i = 1 THEN Equal ELSE NoTarget
  <2> DEFINE t == Target(Len(targets) + 1, closes, vols)
  <2>1. targets \in Seq([due : Int, weights : [Symbols -> Fraction]])
    BY DEF TargetsInv
  <2> HIDE DEF t
  <2>2. /\ Len(targets') = Len(targets) + 1 /\ targets'[Len(targets) + 1] = t /\ Len(targets) \in Nat
        /\ \A i \in 1..Len(targets) : targets'[i] = targets[i]
    BY <1>2, <2>1, Appended DEF t
  <2>3. \A i \in 1..Len(targets) : targets[i] = IF i = 1 THEN Equal ELSE NoTarget
    BY DEF HoldInv
  <2>4. t = IF Len(targets) + 1 = 1 THEN Equal ELSE NoTarget
    BY <1>3 DEF t
  <2> TAKE i \in 1..Len(targets')
  <2>5. i \in 1..Len(targets) \/ i = Len(targets) + 1
    BY <2>2
  <2> QED BY <2>2, <2>3, <2>4, <2>5
<1>5. Untouched'
  BY <1>1 DEF HoldInv, Untouched
<1> QED BY <1>1, <1>4, <1>5 DEF HoldInv

\* The equal-weight benchmark trades once, on the first session.
LEMMA HoldOpen ==
    ASSUME TargetsInv, BookInv, FillsInv, HoldInv, plan.family = "buy_and_hold", OpenSession
    PROVE  HoldInv'
<1>1. /\ UNCHANGED <<plan, targets, now, states>> /\ status = "open" /\ now \in 1..Scored /\ Scored \in Nat
  BY OpenIs, ReplayAssumption DEF TargetsInv, Positive
<1>2. status' # "open"
  BY OpenIs
<1>3. Len(targets) = Scored
  <2>1. Len(targets) \in Nat /\ Len(targets) <= Scored /\ ~(Len(targets) < Scored)
    BY <1>1 DEF TargetsInv
  <2> QED BY <1>1, <2>1
<1>4. IF now = 1 THEN Untouched' ELSE EqualFills'
  <2>1. CASE now = 2
    BY <2>1, EqualTrade
  <2>2. CASE now # 2
    <3>1. DueTarget = NoTarget
      <4>1. CASE now = 1
        BY <1>1, <4>1 DEF DueTarget
      <4>2. CASE now # 1
        <5>1. now - 1 \in 1..Len(targets) /\ now - 1 # 1
          BY <1>1, <1>3, <2>2, <4>2
        <5>2. targets[now - 1] = NoTarget
          BY <5>1 DEF HoldInv
        <5> QED BY <5>2 DEF DueTarget
      <4> QED BY <4>1, <4>2
    <3>2. UNCHANGED <<holdings, cash, fills>>
      BY <3>1, OpenIs
    <3> QED BY <1>1, <2>2, <3>2 DEF HoldInv, Untouched, EqualFills
  <2> QED BY <2>1, <2>2
<1> QED BY <1>1, <1>2, <1>4 DEF HoldInv

\* The equal-weight benchmark's states are those of the trade it made.
LEMMA HoldClose ==
    ASSUME TargetsInv, BookInv, StatesInv, HoldInv, plan.family = "buy_and_hold", CloseSession
    PROVE  HoldInv'
<1>1. /\ status = "close" /\ Sound /\ now \in 1..Scored /\ Scored \in Nat /\ Scored > 1
      /\ UNCHANGED <<plan, targets, holdings, cash, fills>>
      /\ Len(states) = now - 1
  BY SoundAtClose, ReplayAssumption, EvidenceAssumption DEF CloseSession, TargetsInv, StatesInv, Positive
<1>2. /\ states' = Append(states, SessionState)
      /\ now' = IF now < Scored THEN now + 1 ELSE now
      /\ status' = IF now < Scored THEN "open" ELSE "done"
  BY <1>1 DEF CloseSession
<1>3. PICK S : states \in Seq(S)
  BY DEF StatesInv
<1> DEFINE e == SessionState
<1>4. e.target = Int1
  <2>1. e.target = TargetGross
    BY DEF SessionState
  <2> QED BY <1>1, <2>1, EqualGross
<1>5. now = 1 => e.cash = Int1 /\ e.units = NoWeights /\ e.realized = Int0
  <2> HAVE now = 1
  <2>1. cash = Int1 /\ holdings = NoWeights
    BY DEF HoldInv, Untouched
  <2>2. Risky = Int0
    BY <2>1, PricesAre, ValueOfNothing DEF Risky
  <2>3. Add(Int1, Int0) = Int1 /\ Div(Int0, Int1) = Int0
    <3>1. Mul(Int0, Int1) = Int0 /\ Div(Mul(Int0, Int1), Int1) = Int0 /\ Add(Int1, Int0) = Int1
      BY OneIsNotZero, MulLaws, DivLaws, AddLaws
    <3> QED BY <3>1
  <2> QED BY <2>1, <2>2, <2>3 DEF SessionState
<1> HIDE DEF e
<1>6. /\ Len(states') = now /\ states'[now] = e
      /\ \A i \in 1..(now - 1) : states'[i] = states[i]
  <2>1. /\ Len(Append(states, e)) = Len(states) + 1 /\ Append(states, e)[Len(states) + 1] = e /\ Len(states) \in Nat
        /\ \A i \in 1..Len(states) : Append(states, e)[i] = states[i]
    BY <1>3, Appended
  <2>2. Len(states) + 1 = now
    BY <1>1
  <2> QED BY <1>1, <1>2, <2>1, <2>2 DEF e
<1>7. \A i \in 1..now : states'[i].target = Int1
  <2> TAKE i \in 1..now
  <2>1. i \in 1..(now - 1) \/ i = now
    BY <1>1
  <2> QED BY <1>1, <1>4, <1>6, <2>1 DEF HoldInv
<1>8. states'[1].cash = Int1 /\ states'[1].units = NoWeights /\ states'[1].realized = Int0
  <2>1. CASE now = 1
    BY <1>5, <1>6, <2>1
  <2>2. CASE now # 1
    <3>1. 1 \in 1..(now - 1) /\ Len(states) >= 1
      BY <1>1, <2>2
    <3> QED BY <1>6, <3>1 DEF HoldInv
  <2> QED BY <2>1, <2>2
<1>9. IF now' = 1 \/ (now' = 2 /\ status' = "open") THEN Untouched' ELSE EqualFills'
  <2>1. CASE now = 1
    <3>1. now' = 2 /\ status' = "open" /\ Untouched
      BY <1>1, <1>2, <2>1 DEF HoldInv
    <3> QED BY <1>1, <3>1 DEF Untouched
  <2>2. CASE now # 1
    <3>1. EqualFills
      BY <1>1, <2>2 DEF HoldInv
    <3>2. ~(now' = 1 \/ (now' = 2 /\ status' = "open"))
      BY <1>1, <1>2, <2>2
    <3> QED BY <1>1, <3>1, <3>2 DEF EqualFills
  <2> QED BY <2>1, <2>2
<1> QED BY <1>1, <1>6, <1>7, <1>8, <1>9 DEF HoldInv

\* The inductive invariant of the audit.
AuditInv == TargetsInv /\ BookInv /\ FillsInv /\ StatesInv /\ CashInv /\ HoldInv

\* The audit's invariant holds of a replay that has not started.
LEMMA AuditInvInit == EvidenceInit => AuditInv
<1> SUFFICES ASSUME EvidenceInit PROVE AuditInv
  OBVIOUS
<1>1. targets = <<>> /\ states = <<>> /\ now = 1 /\ fills = <<>> /\ cash = Int1 /\ holdings = NoWeights
  BY DEF EvidenceInit, ReplayInit
<1>2. Len(targets) = 0 /\ Len(states) = 0
  BY <1>1
<1>3. CashInv /\ HoldInv
  BY <1>1, <1>2 DEF CashInv, HoldInv, Untouched
<1> QED BY <1>3, ReplayInitInv, AuditInit DEF AuditInv, EvidenceInit

\* Every step of the replay and of the audit keeps it.
LEMMA AuditInvStep == AuditInv /\ [EvidenceNext]_<<replayVars, derived>> => AuditInv'
<1> SUFFICES ASSUME AuditInv, [EvidenceNext]_<<replayVars, derived>> PROVE AuditInv'
  OBVIOUS
<1>1. TargetsInv /\ BookInv /\ FillsInv /\ StatesInv /\ CashInv /\ HoldInv
  BY DEF AuditInv
<1>2. ReplayNext \/ UNCHANGED replayVars
  BY DEF EvidenceNext, Summarise
<1>3. CASE UNCHANGED replayVars
  <2>1. UNCHANGED <<plan, targets, status, now, holdings, cash, fills, states>>
    BY <1>3 DEF replayVars
  <2>2. CashInv' /\ HoldInv'
    BY <1>1, <2>1 DEF CashInv, HoldInv, Untouched, EqualFills
  <2> QED BY <1>1, <1>3, <2>2, ReplayStays, AuditStays DEF AuditInv
<1>4. CASE ReplayNext
  <2>1. plan' = plan
    BY <1>4 DEF ReplayNext, FormTarget, OpenSession, CloseSession
  <2>2. CashInv'
    BY <1>1, <1>4, CashStep
  <2>3. CASE plan.family # "buy_and_hold"
    <3>1. HoldInv'
      BY <2>1, <2>3 DEF HoldInv
    <3> QED BY <1>1, <1>4, <2>2, <3>1, FormKeeps, OpenKeeps, CloseKeeps, AuditForm, AuditOpen, AuditClose
            DEF AuditInv, ReplayNext
  <2>4. CASE plan.family = "buy_and_hold"
    <3>1. HoldInv'
      BY <1>1, <1>4, <2>4, HoldForm, HoldOpen, HoldClose DEF ReplayNext
    <3> QED BY <1>1, <1>4, <2>2, <3>1, FormKeeps, OpenKeeps, CloseKeeps, AuditForm, AuditOpen, AuditClose
            DEF AuditInv, ReplayNext
  <2> QED BY <2>3, <2>4
<1> QED BY <1>2, <1>3, <1>4

(***************************************************************************)
(* The audit accepts every finished replay: the books rebuilt from the     *)
(* fills alone are never short and agree with every state the replay       *)
(* recorded, fill by fill and session by session, and the benchmarks are   *)
(* those of their definition.                                              *)
(***************************************************************************)
THEOREM AuditAlwaysAccepts == EvidenceSpec => []AuditAccepts
<1>1. AuditInv => AuditAccepts
  <2> SUFFICES ASSUME AuditInv, status = "done" 
               PROVE  /\ plan.family # "sleeve" => ReplayIsDerived
                      /\ plan.family = "buy_and_hold" => IsEqualWeight
                      /\ plan.family = "cash" => IsAllCash
    BY DEF AuditAccepts
  <2>1. TargetsInv /\ BookInv /\ FillsInv /\ StatesInv /\ CashInv /\ HoldInv
    BY DEF AuditInv
  <2>2. ReplayIsDerived
    BY <2>1, DerivedAtTheEnd
  <2>3. Len(states) = Scored /\ now = Scored /\ Scored > 1 /\ Scored \in Nat /\ DOMAIN states = 1..Len(states)
    BY <2>1, ReplayAssumption, EvidenceAssumption DEF StatesInv, Positive
  <2>4. plan.family = "buy_and_hold" => IsEqualWeight
    <3> HAVE plan.family = "buy_and_hold"
    <3>1. EqualFills
      BY <2>1, <2>3 DEF HoldInv
    <3>2. /\ states[1].cash = Int1 /\ states[1].units = NoWeights /\ states[1].realized = Int0
          /\ \A i \in DOMAIN states : states[i].target = Int1
      BY <2>1, <2>3 DEF HoldInv
    <3> QED BY <3>1, <3>2 DEF IsEqualWeight, EqualFills
  <2>5. plan.family = "cash" => IsAllCash
    BY <2>1, <2>3 DEF CashInv, IsAllCash
  <2> QED BY <2>2, <2>4, <2>5
<1> QED BY <1>1, AuditInvInit, AuditInvStep, PTL DEF EvidenceSpec

-----------------------------------------------------------------------------
(***************************************************************************)
(* Products of fractions.                                                  *)
(***************************************************************************)

\* Multiplication of fractions may be folded in any order.
LEMMA TimesIsMonoid == Monoid(Times, Int1) /\ \A p, q \in Fraction : Times[<<p, q>>] = Mul(p, q)
<1>1. \A p, q \in Fraction : Times[<<p, q>>] = Mul(p, q) /\ Mul(p, q) \in Fraction
  BY MulLaws DEF Times
<1>2. Times \in [Fraction \X Fraction -> Fraction]
  BY MulLaws DEF Times
<1>3. \A p, q, r \in Fraction : Mul(p, Mul(q, r)) = Mul(q, Mul(p, r))
  <2> TAKE p, q, r \in Fraction
  <2>1. Mul(p, Mul(q, r)) = Mul(Mul(p, q), r)
    BY MulLaws
  <2>2. Mul(q, Mul(p, r)) = Mul(Mul(q, p), r)
    BY MulLaws
  <2>3. Mul(p, q) = Mul(q, p)
    BY MulLaws
  <2> QED BY <2>1, <2>2, <2>3
<1>4. \A p, q \in Fraction : Mul(p, q) = Mul(q, p) /\ Mul(Int1, p) = p
  BY MulLaws, ZeroAndOne
<1> HIDE DEF Times
<1>5. \A p \in Fraction : Times[<<Int1, p>>] = p
  BY <1>1, <1>4, ZeroAndOne
<1>6. ASSUME NEW p \in Fraction, NEW q \in Fraction
      PROVE  Times[<<p, q>>] = Times[<<q, p>>]
  <2>1. Times[<<p, q>>] = Mul(p, q) /\ Times[<<q, p>>] = Mul(q, p)
    BY <1>1
  <2>2. Mul(p, q) = Mul(q, p)
    BY <1>4
  <2> QED BY <2>1, <2>2
<1>7. \A p, q, r \in Fraction : Times[<<p, Times[<<q, r>>]>>] = Times[<<q, Times[<<p, r>>]>>]
  <2> TAKE p, q, r \in Fraction
  <2>1. Times[<<p, Times[<<q, r>>]>>] = Mul(p, Mul(q, r)) /\ Times[<<q, Times[<<p, r>>]>>] = Mul(q, Mul(p, r))
    BY <1>1
  <2> QED BY <2>1, <1>3
<1> QED BY <1>1, <1>2, <1>5, <1>6, <1>7, ZeroAndOne DEF Monoid

\* A product is a fold of multiplication.
LEMMA ProductFolds ==
    ASSUME NEW S, IsFiniteSet(S), NEW w \in [S -> Fraction]
    PROVE  \E f : IsFold(Times, Int1, w, S, f) /\ ProductOf(w) = f[S]
<1> DEFINE Eq(f) == f = [s \in SUBSET S |-> IF s = {} THEN Int1 ELSE Mul(w[One(s)], f[s \ {One(s)}])]
<1>1. PICK f \in [SUBSET S -> Fraction] : Computes(Times, Int1, w, S, f)
  BY TimesIsMonoid, FoldExists
<1>2. ASSUME NEW s \in SUBSET S, s # {}
      PROVE  Times[<<w[One(s)], f[s \ {One(s)}]>>] = Mul(w[One(s)], f[s \ {One(s)}])
  <2>1. One(s) \in s
    BY <1>2 DEF One
  <2> QED BY <2>1, TimesIsMonoid
<1>3. Eq(f)
  BY <1>1, <1>2 DEF Computes
<1> DEFINE g == CHOOSE g : Eq(g)
<1>4. Eq(g)
  BY <1>3
<1>5. ProductOf(w) = g[S]
  BY DEF ProductOf, FoldFunction, FoldFunctionOnSet, MapThenFoldSet, One
<1> HIDE DEF g
<1>6. \A T \in SUBSET S : IsFiniteSet(T) /\ Cardinality(T) \in Nat
  BY FS_Subset, FS_CardinalityType
<1>7. ASSUME NEW h, Eq(h), NEW s \in SUBSET S
      PROVE  h[s] = IF s = {} THEN Int1 ELSE Mul(w[One(s)], h[s \ {One(s)}])
  BY <1>7
<1>8. /\ \A s \in SUBSET S : f[s] = IF s = {} THEN Int1 ELSE Mul(w[One(s)], f[s \ {One(s)}])
      /\ \A s \in SUBSET S : g[s] = IF s = {} THEN Int1 ELSE Mul(w[One(s)], g[s \ {One(s)}])
  <2> HIDE DEF Eq
  <2> QED BY <1>3, <1>4, <1>7
<1>9. DOMAIN g = SUBSET S
  BY <1>4
<1> DEFINE Bad == {n \in Nat : \E s \in SUBSET S : Cardinality(s) = n /\ g[s] # f[s]}
<1>10. ASSUME Bad # {} PROVE FALSE
  <2>1. PICK n \in Bad : \A m \in Bad : n <= m
    <3> Bad \in SUBSET Nat OBVIOUS
    <3> HIDE DEF Bad
    <3> QED BY <1>10, LeastNatural
  <2>2. PICK s \in SUBSET S : Cardinality(s) = n /\ g[s] # f[s]
    OBVIOUS
  <2>3. s # {}
    BY <1>8, <2>2
  <2>4. One(s) \in s
    BY <2>3 DEF One
  <2> DEFINE t == s \ {One(s)}
  <2>5. t \in SUBSET S /\ Cardinality(t) = n - 1 /\ n - 1 \in Nat
    <3>1. t \in SUBSET S
      OBVIOUS
    <3>2. Cardinality(t) = Cardinality(s) - 1
      BY <1>6, <2>4, FS_RemoveElement
    <3> HIDE DEF t
    <3> QED BY <1>6, <2>2, <3>1, <3>2
  <2>6. g[t] # f[t]
    BY <1>8, <2>2, <2>3
  <2> QED BY <2>1, <2>5, <2>6
<1>11. \A s \in SUBSET S : g[s] = f[s]
  BY <1>6, <1>10
<1>12. IsFold(Times, Int1, w, S, f)
  BY <1>1, TimesIsMonoid, FoldComputes
<1> QED BY <1>5, <1>11, <1>12

\* Products are fractions, of nothing one, and multiply up.
LEMMA ProductLaws ==
    ASSUME NEW S, IsFiniteSet(S), NEW w \in [S -> Fraction]
    PROVE  /\ ProductOf(w) \in Fraction
           /\ S = {} => ProductOf(w) = Int1
           /\ \A x \in S : ProductOf(w) = Mul(w[x], ProductOf(Restrict(w, S \ {x})))
<1>1. PICK f : IsFold(Times, Int1, w, S, f) /\ ProductOf(w) = f[S]
  BY ProductFolds
<1>2. ProductOf(w) \in Fraction /\ (S = {} => ProductOf(w) = Int1)
  BY <1>1 DEF IsFold
<1>3. ASSUME NEW x \in S PROVE ProductOf(w) = Mul(w[x], ProductOf(Restrict(w, S \ {x})))
  <2> DEFINE T == S \ {x}
             v == Restrict(w, T)
  <2>1. T \in SUBSET S /\ IsFiniteSet(T) /\ v \in [T -> Fraction] /\ \A y \in T : w[y] = v[y]
    BY FS_Subset DEF Restrict
  <2> HIDE DEF v
  <2>2. PICK g : IsFold(Times, Int1, v, T, g) /\ ProductOf(v) = g[T]
    BY <2>1, ProductFolds
  <2>3. f[T] = g[T]
    BY <1>1, <2>1, <2>2, FoldIsLocal
  <2>4. f[S] = Times[<<w[x], f[T]>>] /\ f[T] \in Fraction
    BY <1>1 DEF IsFold
  <2>5. f[S] = Mul(w[x], f[T])
    BY <2>4, TimesIsMonoid
  <2> QED BY <1>1, <2>2, <2>3, <2>5 DEF v
<1> QED BY <1>2, <1>3

\* One more element of a product.
LEMMA ProductStep ==
    ASSUME NEW S, IsFiniteSet(S), NEW w \in [S -> Fraction], NEW T \in SUBSET S
    PROVE  /\ IsFiniteSet(T) /\ Restrict(w, T) \in [T -> Fraction]
           /\ ProductOf(Restrict(w, T)) \in Fraction
           /\ \A x \in S \ T : ProductOf(Restrict(w, T \cup {x})) = Mul(w[x], ProductOf(Restrict(w, T)))
           /\ T = {} => ProductOf(Restrict(w, T)) = Int1
           /\ Restrict(w, S) = w
<1>1. IsFiniteSet(T) /\ Restrict(w, T) \in [T -> Fraction] /\ Restrict(w, S) = w
  BY FS_Subset DEF Restrict
<1>2. ProductOf(Restrict(w, T)) \in Fraction /\ (T = {} => ProductOf(Restrict(w, T)) = Int1)
  BY <1>1, ProductLaws
<1>3. ASSUME NEW x \in S \ T PROVE ProductOf(Restrict(w, T \cup {x})) = Mul(w[x], ProductOf(Restrict(w, T)))
  <2> DEFINE U == T \cup {x}
             v == Restrict(w, U)
  <2>1. U \in SUBSET S /\ IsFiniteSet(U) /\ v \in [U -> Fraction] /\ x \in U /\ U \ {x} = T /\ v[x] = w[x]
        /\ Restrict(v, T) = Restrict(w, T)
    BY FS_Subset DEF Restrict
  <2> HIDE DEF v, U
  <2>2. ProductOf(v) = Mul(v[x], ProductOf(Restrict(v, U \ {x})))
    BY <2>1, ProductLaws
  <2> QED BY <2>1, <2>2 DEF v, U
<1> QED BY <1>1, <1>2, <1>3

\* A product over two disjoint sets is the product of the two.
LEMMA ProductUnion ==
    ASSUME NEW S, IsFiniteSet(S), NEW w \in [S -> Fraction], NEW A \in SUBSET S, NEW B \in SUBSET S,
           A \cap B = {}, A \cup B = S
    PROVE  ProductOf(w) = Mul(ProductOf(Restrict(w, A)), ProductOf(Restrict(w, B)))
<1>1. PICK f : IsFold(Times, Int1, w, S, f) /\ ProductOf(w) = f[S]
  BY ProductFolds
<1>2. ASSUME NEW T \in SUBSET S PROVE ProductOf(Restrict(w, T)) = f[T] /\ f[T] \in Fraction
  <2> DEFINE v == Restrict(w, T)
  <2>1. IsFiniteSet(T) /\ v \in [T -> Fraction] /\ \A y \in T : w[y] = v[y]
    BY FS_Subset DEF Restrict
  <2> HIDE DEF v
  <2>2. PICK g : IsFold(Times, Int1, v, T, g) /\ ProductOf(v) = g[T]
    BY <2>1, ProductFolds
  <2>3. f[T] = g[T]
    BY <1>1, <2>1, <2>2, FoldIsLocal
  <2> QED BY <1>1, <2>2, <2>3 DEF v, IsFold
<1>3. f[A \cup B] = Times[<<f[A], f[B]>>]
  <2>1. \A x \in S : w[x] \in Fraction
    OBVIOUS
  <2> QED BY <1>1, <2>1, TimesIsMonoid, FoldUnion
<1>4. f[S] = Mul(f[A], f[B])
  BY <1>2, <1>3, TimesIsMonoid
<1> QED BY <1>1, <1>2, <1>4

\* The quotient of quotients of neighbours is that of the ends.
LEMMA DivChain ==
    ASSUME NEW p \in Fraction, NEW q \in Fraction, NEW r \in Fraction, Less(Int0, p), Less(Int0, q), Less(Int0, r)
    PROVE  /\ Div(p, q) \in Fraction
           /\ Mul(Div(p, q), Div(q, r)) = Div(p, r)
           /\ Div(p, p) = Int1
<1>1. Div(p, q) \in Fraction /\ Div(q, r) \in Fraction /\ Div(p, r) \in Fraction /\ Div(p, p) \in Fraction
  BY DivLaws
<1>2. Mul(Div(p, q), q) = p /\ Mul(Div(q, r), r) = q /\ Mul(Div(p, r), r) = p /\ Mul(Div(p, p), p) = p
  BY DivLaws
<1> DEFINE a == Div(p, q)
           b == Div(q, r)
<1>3. Mul(Mul(a, b), r) = p
  <2> HIDE DEF a, b
  <2>1. Mul(Mul(a, b), r) = Mul(a, Mul(b, r))
    BY <1>1, MulLaws DEF a, b
  <2> QED BY <1>2, <2>1 DEF a, b
<1>4. Mul(a, b) \in Fraction
  BY <1>1, MulLaws
<1>5. Mul(a, b) = Div(p, r)
  <2> HIDE DEF a, b
  <2>1. Mul(Mul(a, b), r) = Mul(Div(p, r), r)
    BY <1>2, <1>3
  <2> QED BY <1>1, <1>4, <2>1, MulOrder
<1>6. Div(p, p) = Int1
  <2>1. Mul(Int1, p) = p /\ Int1 \in Fraction
    BY MulLaws, ZeroAndOne
  <2> QED BY <1>1, <1>2, <2>1, MulOrder
<1> QED BY <1>1, <1>5, <1>6

\* Ones multiply to one.
LEMMA ProductOfOnes ==
    ASSUME NEW S, IsFiniteSet(S), NEW w \in [S -> Fraction], \A x \in S : w[x] = Int1
    PROVE  ProductOf(w) = Int1
<1> DEFINE G == {T \in SUBSET S : ProductOf(Restrict(w, T)) = Int1}
<1>1. {} \in G
  BY ProductStep
<1>2. ASSUME NEW T \in G, NEW x \in S, x \notin T PROVE T \cup {x} \in G
  <2>1. ProductOf(Restrict(w, T \cup {x})) = Mul(w[x], ProductOf(Restrict(w, T)))
    <3>1. T \in SUBSET S /\ x \in S \ T
      BY <1>2
    <3> QED BY <3>1, ProductStep
  <2>2. Mul(Int1, Int1) = Int1
    BY MulLaws, ZeroAndOne
  <2> QED BY <2>1, <2>2
<1>3. S \in G
  <2> G \in SUBSET (SUBSET S) OBVIOUS
  <2> HIDE DEF G
  <2> QED BY <1>1, <1>2, SubsetInduction
<1> QED BY <1>3, ProductStep

\* Ones may be left out of a product.
LEMMA ProductExtends ==
    ASSUME NEW S, IsFiniteSet(S), NEW w \in [S -> Fraction], NEW T \in SUBSET S, \A x \in S \ T : w[x] = Int1
    PROVE  ProductOf(w) = ProductOf(Restrict(w, T))
<1> DEFINE R == S \ T
<1>1. R \in SUBSET S /\ T \cap R = {} /\ T \cup R = S /\ \A x \in R : w[x] = Int1
  OBVIOUS
<1> HIDE DEF R
<1>2. ProductOf(w) = Mul(ProductOf(Restrict(w, T)), ProductOf(Restrict(w, R)))
  BY <1>1, ProductUnion
<1>3. /\ IsFiniteSet(R) /\ Restrict(w, R) \in [R -> Fraction]
      /\ \A x \in R : Restrict(w, R)[x] = Int1
  BY <1>1, FS_Subset DEF Restrict
<1>4. ProductOf(Restrict(w, R)) = Int1
  BY <1>3, ProductOfOnes
<1>5. ProductOf(Restrict(w, T)) \in Fraction
  BY ProductStep
<1> QED BY <1>2, <1>4, <1>5, MulLaws

IsProductByKey(v, w, S, K, key) == v = [p \in K |-> ProductOf(Restrict(w, {x \in S : key[x] = p}))]

\* The products over the parts of a set, by key, multiply to the product over the set.
LEMMA ProductOfProducts ==
    ASSUME NEW S, IsFiniteSet(S), NEW w \in [S -> Fraction], NEW K, IsFiniteSet(K),
           NEW key, \A x \in S : key[x] \in K, NEW v, IsProductByKey(v, w, S, K, key)
    PROVE  ProductOf(v) = ProductOf(w)
<1> DEFINE Part(T) == {x \in S : key[x] \in T}
           G == {T \in SUBSET K : ProductOf(Restrict(v, T)) = ProductOf(Restrict(w, Part(T)))}
<1>0. \A p \in K : {x \in S : key[x] = p} \in SUBSET S /\ v[p] = ProductOf(Restrict(w, {x \in S : key[x] = p}))
  BY DEF IsProductByKey
<1>a. DOMAIN v = K /\ v = [p \in K |-> v[p]]
  BY DEF IsProductByKey
<1>1. v \in [K -> Fraction]
  <2>1. ASSUME NEW p \in K PROVE v[p] \in Fraction
    <3> DEFINE A == {x \in S : key[x] = p}
    <3>1. A \in SUBSET S /\ v[p] = ProductOf(Restrict(w, A))
      BY <1>0
    <3> HIDE DEF A
    <3> QED BY <3>1, ProductStep
  <2> QED BY <1>a, <2>1
<1>2. {} \in G
  <2>1. Part({}) = {}
    OBVIOUS
  <2>2. ProductOf(Restrict(v, {})) = Int1 /\ ProductOf(Restrict(w, {})) = Int1
    BY <1>1, ProductStep
  <2> QED BY <2>1, <2>2
<1>3. ASSUME NEW T \in G, NEW p \in K, p \notin T PROVE T \cup {p} \in G
  <2> DEFINE A == {x \in S : key[x] = p}
             B == Part(T)
             C == Part(T \cup {p})
             u == Restrict(w, C)
  <2>1. /\ A \in SUBSET S /\ B \in SUBSET S /\ C \in SUBSET S
        /\ A \in SUBSET C /\ B \in SUBSET C /\ A \cap B = {} /\ A \cup B = C
    BY <1>3
  <2>2. v[p] = ProductOf(Restrict(w, A))
    BY <1>0, <1>3
  <2>3. ProductOf(Restrict(v, T \cup {p})) = Mul(v[p], ProductOf(Restrict(v, T)))
    <3>1. T \in SUBSET K /\ p \in K \ T
      BY <1>3
    <3> QED BY <1>1, <3>1, ProductStep
  <2>4. ProductOf(Restrict(v, T)) = ProductOf(Restrict(w, B)) /\ T \cup {p} \in SUBSET K
    BY <1>3
  <2> HIDE DEF A, B, C
  <2>5. IsFiniteSet(C) /\ u \in [C -> Fraction]
    BY <2>1, ProductStep
  <2>6. Restrict(u, A) = Restrict(w, A) /\ Restrict(u, B) = Restrict(w, B)
    BY <2>1 DEF Restrict
  <2> HIDE DEF u
  <2>7. ProductOf(u) = Mul(ProductOf(Restrict(u, A)), ProductOf(Restrict(u, B)))
    BY <2>1, <2>5, ProductUnion
  <2>8. ProductOf(Restrict(v, T \cup {p})) = ProductOf(Restrict(w, C))
    BY <2>2, <2>3, <2>4, <2>6, <2>7 DEF u
  <2> QED BY <2>4, <2>8 DEF C
<1>4. K \in G
  <2> G \in SUBSET (SUBSET K) OBVIOUS
  <2> HIDE DEF G
  <2> QED BY <1>2, <1>3, SubsetInduction
<1>5. Part(K) = S
  OBVIOUS
<1>6. Restrict(v, K) = v /\ Restrict(w, S) = w
  BY <1>1, ProductStep
<1> QED BY <1>4, <1>5, <1>6

\* Along a run of integers F moves by the factor w at the elements of H, and stays elsewhere.
Moves(F, w, H, a, b) ==
    \A k \in (a + 1)..b : IF k \in H THEN w[k] = Div(F[k], F[k - 1]) ELSE F[k] = F[k - 1]
Between(H, a, b) == {k \in H : a < k /\ k <= b}

\* The factors multiply to the quotient of the ends.
LEMMA Telescope ==
    ASSUME NEW a \in Int, NEW b \in Int, a <= b, NEW H \in SUBSET Int, NEW F, NEW w,
           \A k \in a..b : F[k] \in Fraction /\ Less(Int0, F[k]), Moves(F, w, H, a, b)
    PROVE  /\ \A k \in Between(H, a, b) : w[k] \in Fraction
           /\ ProductOf([k \in Between(H, a, b) |-> w[k]]) = Div(F[b], F[a])
<1> DEFINE I(c) == Between(H, a, c)
           P(c) == ProductOf([k \in I(c) |-> w[k]])
           Bad == {n \in Nat : a + n <= b /\ P(a + n) # Div(F[a + n], F[a])}
<1>1. \A k \in Between(H, a, b) : w[k] \in Fraction
  <2> TAKE k \in Between(H, a, b)
  <2>1. k \in (a + 1)..b /\ k \in H /\ k \in a..b /\ k - 1 \in a..b
    BY DEF Between
  <2>2. w[k] = Div(F[k], F[k - 1])
    BY <2>1 DEF Moves
  <2> QED BY <2>1, <2>2, DivLaws
<1>2. ASSUME Bad # {} PROVE FALSE
  <2>1. PICK n \in Bad : \A m \in Bad : n <= m
    <3> Bad \in SUBSET Nat OBVIOUS
    <3> HIDE DEF Bad
    <3> QED BY <1>2, LeastNatural
  <2>2. n \in Nat /\ a + n <= b /\ P(a + n) # Div(F[a + n], F[a])
    OBVIOUS
  <2> DEFINE c == a + n
  <2>3. c \in Int /\ a <= c /\ c <= b /\ c \in a..b /\ a \in a..b
    BY <2>2
  <2>4. CASE n = 0
    <3>0. c = a
      BY <2>3, <2>4
    <3>1. I(c) = {} /\ c = a
      <4>1. \A k \in H : ~(a < k /\ k <= a)
        OBVIOUS
      <4> QED BY <3>0, <4>1 DEF Between
    <3>2. IsFiniteSet({}) /\ [k \in {} |-> w[k]] \in [{} -> Fraction]
      BY FS_EmptySet
    <3>3. P(c) = Int1
      <4> DEFINE none == [k \in {} |-> w[k]]
      <4>1. ProductOf(none) = Int1
        <5> HIDE DEF none
        <5> QED BY <3>2, ProductLaws DEF none
      <4> QED BY <3>1, <4>1
    <3>4. Div(F[c], F[a]) = Int1
      BY <2>3, <3>1, DivChain
    <3> QED BY <2>2, <3>3, <3>4
  <2>5. CASE n # 0
    <3> DEFINE d == c - 1
    <3>1. /\ n - 1 \in Nat /\ d = a + (n - 1) /\ d \in a..b /\ d \in Int /\ c \in (a + 1)..b
          /\ d + 1 = c /\ ~(n <= n - 1) /\ a + (n - 1) <= b
      BY <2>2, <2>3, <2>5
    <3>2. P(d) = Div(F[d], F[a])
      <4>1. n - 1 \notin Bad
        <5> HIDE DEF Bad
        <5> QED BY <2>1, <3>1
      <4> QED BY <3>1, <4>1
    <3>3. I(c) = IF c \in H THEN I(d) \cup {c} ELSE I(d)
      <4>1. \A k \in H : (a < k /\ k <= c) <=> (a < k /\ k <= d) \/ k = c
        BY <2>3, <3>1
      <4> QED BY <4>1 DEF Between
    <3>4. IsFiniteSet(I(c)) /\ \A k \in I(c) : w[k] \in Fraction
      <4>0. \A k \in I(c) : k \in Int /\ k \in H /\ a < k /\ k <= c
        BY DEF Between
      <4>1. I(c) \in SUBSET (a..b) /\ I(c) \in SUBSET Between(H, a, b)
        <5>1. \A k \in I(c) : k \in a..b
          BY <2>3, <4>0
        <5>2. \A k \in I(c) : k \in Between(H, a, b)
          BY <2>3, <4>0 DEF Between
        <5> HIDE DEF I
        <5> QED BY <5>1, <5>2
      <4>2. IsFiniteSet(a..b)
        BY FS_Interval
      <4> QED BY <1>1, <4>1, <4>2, FS_Subset
    <3>5. CASE c \notin H
      <4>1. F[c] = F[c - 1]
        BY <3>1, <3>5 DEF Moves
      <4>2. P(c) = P(d)
        BY <3>3, <3>5
      <4> QED BY <2>2, <3>2, <4>1, <4>2
    <3>6. CASE c \in H
      <4> DEFINE u == [k \in I(c) |-> w[k]]
      <4>0. c \in I(c) /\ c \notin I(d) /\ I(c) \ {c} = I(d)
        BY <2>3, <3>1, <3>3, <3>6 DEF Between
      <4>1. u \in [I(c) -> Fraction]
        BY <3>4
      <4>2. Restrict(u, I(d)) = [k \in I(d) |-> w[k]]
        BY <4>0 DEF Restrict
      <4>3. u[c] = w[c]
        BY <4>0
      <4>4. ProductOf(u) = Mul(u[c], ProductOf(Restrict(u, I(c) \ {c})))
        <5> HIDE DEF u, I
        <5> QED BY <3>4, <4>0, <4>1, ProductLaws
      <4>5. w[c] = Div(F[c], F[d])
        BY <3>1, <3>6 DEF Moves
      <4>6. Mul(Div(F[c], F[d]), Div(F[d], F[a])) = Div(F[c], F[a])
        BY <2>3, <3>1, DivChain
      <4>7. P(c) = Mul(w[c], P(d))
        BY <4>0, <4>2, <4>3, <4>4
      <4> QED BY <2>2, <3>2, <4>5, <4>6, <4>7
    <3> QED BY <3>5, <3>6
  <2> QED BY <2>4, <2>5
<1>3. P(b) = Div(F[b], F[a])
  <2>1. b - a \in Nat /\ a + (b - a) = b
    OBVIOUS
  <2>2. b - a \notin Bad
    BY <1>2
  <2> QED BY <2>1, <2>2
<1> QED BY <1>1, <1>3

-----------------------------------------------------------------------------
(***************************************************************************)
(* Evidence.                                                               *)
(***************************************************************************)

\* Every close recorded so far is a fraction above zero.
EquityInv == \A i \in 1..Len(states) : states[i].close \in Fraction /\ Less(Int0, states[i].close)

\* What is derived is derived of a finished replay.
DerivedInv == derived = NoEvidence \/ (status = "done" /\ \E cal \in Calendars : derived = EvidenceOf(cal))

EvidenceInv == AuditInv /\ EquityInv /\ DerivedInv

\* A close is recorded when it is sound.
LEMMA EquityClose == AuditInv /\ EquityInv /\ CloseSession => EquityInv'
<1> SUFFICES ASSUME AuditInv, EquityInv, CloseSession PROVE EquityInv'
  OBVIOUS
<1>0. TargetsInv /\ BookInv /\ StatesInv
  BY DEF AuditInv
<1>1. status = "close" /\ Sound /\ states' = Append(states, SessionState)
  BY <1>0, SoundAtClose DEF CloseSession
<1>2. SessionState.close \in Fraction /\ Less(Int0, SessionState.close)
  <2>1. now \in 1..Scored /\ Scored \in Nat /\ Warmup \in Nat
    BY <1>0, ReplayAssumption DEF TargetsInv, Positive
  <2>2. closes[Warmup + now] \in [Symbols -> Positive]
    <3>1. Warmup + now \in 1..(Warmup + Scored)
      BY <2>1
    <3> QED BY <1>0, <3>1, ReplayAssumption DEF TargetsInv
  <2>3. Risky \in Fraction /\ cash \in Fraction
    <3>1. holdings \in [Symbols -> Fraction] /\ (\A s \in Symbols : Leq(Int0, holdings[s])) /\ cash \in Fraction
      BY <1>0 DEF BookInv
    <3> QED BY <2>2, <3>1, ValueLaws DEF Risky
  <2>4. Add(cash, Risky) \in Fraction
    BY <2>3, AddLaws
  <2> QED BY <1>1, <2>4 DEF SessionState, Sound
<1>3. PICK S : states \in Seq(S)
  BY <1>0 DEF StatesInv
<1> DEFINE T == S \cup {SessionState}
           n == Len(states)
           e == SessionState
<1>4. states \in Seq(T) /\ e \in T /\ n \in Nat
  BY <1>3
<1> HIDE DEF T, e
<1>5. /\ Len(Append(states, e)) = n + 1 /\ Append(states, e)[n + 1] = e
      /\ \A i \in 1..n : Append(states, e)[i] = states[i]
  BY <1>4
<1>6. Len(states') = n + 1 /\ states'[n + 1] = e /\ \A i \in 1..n : states'[i] = states[i]
  BY <1>1, <1>5 DEF e
<1>7. ASSUME NEW i \in 1..(n + 1)
      PROVE  states'[i].close \in Fraction /\ Less(Int0, states'[i].close)
  <2>1. CASE i = n + 1
    BY <1>2, <1>6, <2>1 DEF e
  <2>2. CASE i # n + 1
    <3>1. i \in 1..n
      BY <1>4, <2>2
    <3> QED BY <1>6, <3>1 DEF EquityInv
  <2> QED BY <2>1, <2>2
<1> QED BY <1>6, <1>7 DEF EquityInv

\* Evidence once derived stays as it is while the replay does.
LEMMA EvidenceStays ==
    ASSUME UNCHANGED replayVars, NEW cal \in Calendars
    PROVE  EvidenceOf(cal)' = EvidenceOf(cal)
<1>1. UNCHANGED <<closes, fills, states>>
  BY DEF replayVars
<1>2. equity' = equity
  BY <1>1 DEF equity
<1>3. Returns(cal)' = Returns(cal) /\ \A e : EquityAt(cal, e)' = EquityAt(cal, e)
  BY <1>2 DEF Returns, EquityAt
<1>4. \A key : PeriodEvidence(cal, key)' = PeriodEvidence(cal, key)
  BY <1>3 DEF PeriodEvidence, ProductOver
<1>5. RollingEvidence(cal)' = RollingEvidence(cal)
  BY <1>3 DEF RollingEvidence, Observation
<1>6. FoldReturns(cal)' = FoldReturns(cal)
  BY <1>3 DEF FoldReturns
<1>7. Attribution' = Attribution
  BY <1>1, <1>2 DEF Attribution, RegimeSessions, RegimeOf, DayBefore, ProductOver
<1>8. Turnover' = Turnover
  BY <1>1 DEF Turnover, SumOver
<1>9. Metrics' = Metrics
  BY <1>1, <1>2, <1>8 DEF Metrics, SumOver
<1> QED BY <1>4, <1>5, <1>6, <1>7, <1>9 DEF EvidenceOf

\* Evidence is derived of a replay that is finished, and of that one only.
LEMMA EvidenceInvStep == EvidenceInv /\ [EvidenceNext]_<<replayVars, derived>> => EvidenceInv'
<1> SUFFICES ASSUME EvidenceInv, [EvidenceNext]_<<replayVars, derived>> PROVE EvidenceInv'
  OBVIOUS
<1>1. AuditInv /\ EquityInv /\ DerivedInv
  BY DEF EvidenceInv
<1>2. AuditInv'
  BY <1>1, AuditInvStep
<1>3. CASE UNCHANGED replayVars
  <2>1. states' = states /\ status' = status
    BY <1>3 DEF replayVars
  <2>2. EquityInv'
    BY <1>1, <2>1 DEF EquityInv
  <2>3. \A cal \in Calendars : EvidenceOf(cal)' = EvidenceOf(cal)
    BY <1>3, EvidenceStays
  <2>4. ASSUME derived' = derived PROVE DerivedInv'
    <3>1. CASE derived = NoEvidence
      BY <2>4, <3>1 DEF DerivedInv
    <3>2. CASE derived # NoEvidence
      <4>1. PICK cal \in Calendars : derived = EvidenceOf(cal)
        BY <1>1, <3>2 DEF DerivedInv
      <4>2. status' = "done" /\ derived' = EvidenceOf(cal)'
        BY <1>1, <2>1, <2>3, <2>4, <3>2, <4>1 DEF DerivedInv
      <4> QED BY <4>2 DEF DerivedInv
    <3> QED BY <3>1, <3>2
  <2>5. ASSUME Summarise PROVE DerivedInv'
    <3>1. PICK cal \in Calendars : status = "done" /\ derived' = EvidenceOf(cal)
      BY <2>5 DEF Summarise
    <3>2. status' = "done" /\ derived' = EvidenceOf(cal)'
      BY <2>1, <2>3, <3>1
    <3> QED BY <3>2 DEF DerivedInv
  <2>6. derived' = derived \/ Summarise
    BY DEF EvidenceNext
  <2> QED BY <1>2, <2>2, <2>4, <2>5, <2>6 DEF EvidenceInv
<1>4. CASE ReplayNext /\ derived' = derived
  <2>1. status # "done"
    BY <1>4 DEF ReplayNext, FormTarget, OpenSession, CloseSession
  <2>2. DerivedInv'
    BY <1>1, <1>4, <2>1 DEF DerivedInv
  <2>3. EquityInv'
    <3>1. CASE CloseSession
      BY <1>1, <3>1, EquityClose
    <3>2. CASE FormTarget \/ OpenSession
      <4>1. states' = states
        BY <3>2 DEF FormTarget, OpenSession
      <4> QED BY <1>1, <4>1 DEF EquityInv
    <3> QED BY <1>4, <3>1, <3>2 DEF ReplayNext
  <2> QED BY <1>2, <2>2, <2>3 DEF EvidenceInv
<1> QED BY <1>3, <1>4 DEF EvidenceNext, Summarise

\* Nothing is derived of a replay that has not started.
LEMMA EvidenceInvInit == EvidenceInit => EvidenceInv
<1> SUFFICES ASSUME EvidenceInit PROVE EvidenceInv
  OBVIOUS
<1>1. states = <<>> /\ derived = NoEvidence
  BY DEF EvidenceInit, ReplayInit
<1>2. Len(states) = 0
  BY <1>1
<1> QED BY <1>1, <1>2, AuditInvInit DEF EvidenceInv, EquityInv, DerivedInv

\* The closes of a finished replay.
LEMMA EquityLaws ==
    ASSUME EvidenceInv, status = "done"
    PROVE  /\ Scored \in Nat /\ Scored > 1 /\ Len(states) = Scored
           /\ equity \in [1..Scored -> Fraction]
           /\ \A i \in 1..Scored : equity[i] \in Fraction /\ Less(Int0, equity[i])
<1>1. StatesInv /\ EquityInv
  BY DEF EvidenceInv, AuditInv
<1>2. Scored \in Nat /\ Scored > 1 /\ Len(states) = Scored
  BY <1>1, ReplayAssumption, EvidenceAssumption DEF StatesInv, Positive
<1>3. PICK S : states \in Seq(S)
  BY <1>1 DEF StatesInv
<1>4. DOMAIN states = 1..Scored
  BY <1>2, <1>3
<1>5. \A i \in 1..Scored : states[i].close \in Fraction /\ Less(Int0, states[i].close)
  BY <1>1, <1>2 DEF EquityInv
<1> QED BY <1>2, <1>4, <1>5 DEF equity

\* The first and the last of some sessions.
LEMMA EndsLaws ==
    ASSUME NEW n \in Nat, NEW S \in SUBSET (1..n), S # {}
    PROVE  /\ First(S) \in S /\ \A f \in S : First(S) <= f
           /\ Final(S) \in S /\ \A f \in S : f <= Final(S)
<1>1. \E e \in S : \A f \in S : e <= f
  <2>1. S \in SUBSET Nat
    OBVIOUS
  <2> QED BY <2>1, LeastNatural
<1>2. \E e \in S : \A f \in S : f <= e
  <2> DEFINE T == {n - e : e \in S}
  <2>1. T \in SUBSET Nat /\ T # {}
    <3>1. \A e \in S : e \in Int /\ n - e \in Nat
      OBVIOUS
    <3> QED BY <3>1
  <2>2. PICK x \in T : \A y \in T : x <= y
    <3> HIDE DEF T
    <3> QED BY <2>1, LeastNatural
  <2>3. PICK e \in S : x = n - e
    OBVIOUS
  <2>4. ASSUME NEW f \in S PROVE f <= e
    <3>1. n - e <= n - f
      BY <2>2, <2>3
    <3>2. e \in Int /\ f \in Int
      OBVIOUS
    <3> QED BY <3>1, <3>2
  <2> QED BY <2>4
<1> QED BY <1>1, <1>2 DEF First, Final

\* The expected sessions of a calendar and those of them it holds.
LEMMA CalendarLaws ==
    ASSUME NEW cal \in Calendars
    PROVE  /\ Len(cal.dates) \in Nat /\ DOMAIN cal.dates = 1..Len(cal.dates)
           /\ cal.held \in SUBSET (1..Len(cal.dates)) /\ cal.held \in SUBSET Int
           /\ IsFiniteSet(cal.held) /\ Cardinality(cal.held) = Scored
           /\ Scored \in Nat /\ Scored > 1
           /\ First(cal.held) \in cal.held /\ \A f \in cal.held : First(cal.held) <= f
           /\ Final(cal.held) \in cal.held /\ \A f \in cal.held : f <= Final(cal.held)
<1> DEFINE n == Len(cal.dates)
           H == cal.held
<1>1. /\ cal.dates \in Seq(Int \X Int) /\ H \subseteq DOMAIN cal.dates /\ Cardinality(H) = Scored
      /\ Scored \in Nat /\ Scored > 1
  BY EvidenceAssumption, ReplayAssumption DEF Positive
<1>2. n \in Nat /\ DOMAIN cal.dates = 1..n
  BY <1>1
<1>3. H \in SUBSET (1..n) /\ H \in SUBSET Int
  BY <1>1, <1>2
<1> HIDE DEF n, H
<1>4. IsFiniteSet(H)
  <2> DEFINE D == 1..n
  <2>1. IsFiniteSet(D) /\ H \in SUBSET D
    BY <1>2, <1>3, FS_Interval
  <2> HIDE DEF D
  <2> QED BY <2>1, FS_Subset
<1>5. H # {}
  <2>1. Cardinality({}) = 0
    BY FS_EmptySet
  <2>2. Cardinality(H) # 0
    BY <1>1
  <2> QED BY <2>1, <2>2
<1>6. /\ First(H) \in H /\ \A f \in H : First(H) <= f
      /\ Final(H) \in H /\ \A f \in H : f <= Final(H)
  BY <1>2, <1>3, <1>5, EndsLaws
<1> QED BY <1>1, <1>2, <1>3, <1>4, <1>6 DEF n, H

\* The position of a session counts those held up to it.
LEMMA PositionLaws ==
    ASSUME NEW cal \in Calendars
    PROVE  /\ \A e \in Int : Position(cal, e) \in 0..Scored
           /\ \A e \in Int : Position(cal, e) = IF e \in cal.held THEN Position(cal, e - 1) + 1 ELSE Position(cal, e - 1)
           /\ \A e \in Int : First(cal.held) <= e => 1 <= Position(cal, e)
           /\ \A e \in cal.held : First(cal.held) # e => 1 < Position(cal, e)
           /\ Position(cal, First(cal.held)) = 1
           /\ \A e \in Int : Final(cal.held) <= e => Position(cal, e) = Scored
<1> DEFINE H == cal.held
           UpTo_(e) == {h \in H : h <= e}
           a == First(H)
           b == Final(H)
           Pos(e) == Position(cal, e)
<1>1. /\ IsFiniteSet(H) /\ Cardinality(H) = Scored /\ Scored \in Nat /\ H \in SUBSET Int
      /\ a \in H /\ (\A f \in H : a <= f) /\ b \in H /\ (\A f \in H : f <= b)
  BY CalendarLaws
<1>2. \A e \in Int : Pos(e) = Cardinality(UpTo_(e)) /\ UpTo_(e) \in SUBSET H
  BY DEF Position
<1>3. \A d, e \in Int : d <= e => UpTo_(d) \in SUBSET UpTo_(e)
  BY <1>1
<1>4. \A e \in Int : UpTo_(e) = IF e \in H THEN UpTo_(e - 1) \cup {e} ELSE UpTo_(e - 1)
  <2> TAKE e \in Int
  <2>1. \A h \in H : h <= e <=> h <= e - 1 \/ h = e
    BY <1>1
  <2> QED BY <2>1
<1>5. \A e \in Int : ~(e \in UpTo_(e - 1))
  OBVIOUS
<1>6. UpTo_(a - 1) = {} /\ \A e \in Int : b <= e => UpTo_(e) = H
  <2>1. a \in Int /\ b \in Int
    BY <1>1
  <2>2. \A h \in H : ~(h <= a - 1)
    BY <1>1, <2>1
  <2>3. \A e \in Int, h \in H : b <= e => h <= e
    BY <1>1, <2>1
  <2> QED BY <2>2, <2>3
<1>7. \A e \in H : a # e => a \in UpTo_(e - 1)
  BY <1>1
<1> HIDE DEF UpTo_, H
<1>8. \A e \in Int : /\ IsFiniteSet(UpTo_(e)) /\ Pos(e) = Cardinality(UpTo_(e)) /\ Pos(e) \in Nat /\ Pos(e) <= Scored
  BY <1>1, <1>2, FS_Subset, FS_CardinalityType
<1> HIDE DEF Pos, a, b
<1>9. \A e \in Int : Pos(e) \in 0..Scored
  BY <1>1, <1>8
<1>10. \A e \in Int : Pos(e) = IF e \in H THEN Pos(e - 1) + 1 ELSE Pos(e - 1)
  <2> TAKE e \in Int
  <2>1. e - 1 \in Int
    OBVIOUS
  <2>2. IsFiniteSet(UpTo_(e - 1)) /\ Pos(e - 1) = Cardinality(UpTo_(e - 1)) /\ Pos(e) = Cardinality(UpTo_(e))
    BY <1>8, <2>1
  <2>3. CASE e \in H
    <3>1. UpTo_(e) = UpTo_(e - 1) \cup {e} /\ e \notin UpTo_(e - 1)
      BY <1>4, <1>5, <2>3
    <3>2. Cardinality(UpTo_(e - 1) \cup {e}) = Cardinality(UpTo_(e - 1)) + 1
      BY <2>2, <3>1, FS_AddElement
    <3> QED BY <2>2, <2>3, <3>1, <3>2
  <2>4. CASE e \notin H
    BY <1>4, <2>2, <2>4
  <2> QED BY <2>3, <2>4
<1>11. Pos(a) = 1
  <2>1. a \in Int /\ a - 1 \in Int
    BY <1>1
  <2>2. Pos(a - 1) = 0
    BY <1>6, <1>8, <2>1, FS_EmptySet
  <2>3. Pos(a) = Pos(a - 1) + 1
    BY <1>1, <1>10, <2>1
  <2> QED BY <2>2, <2>3
<1>12. \A e \in Int : a <= e => 1 <= Pos(e)
  <2> SUFFICES ASSUME NEW e \in Int, a <= e PROVE 1 <= Pos(e)
    OBVIOUS
  <2>1. a \in Int /\ UpTo_(a) \in SUBSET UpTo_(e) /\ IsFiniteSet(UpTo_(e))
    BY <1>1, <1>3, <1>8
  <2>2. Cardinality(UpTo_(a)) <= Cardinality(UpTo_(e))
    BY <2>1, FS_Subset
  <2> QED BY <1>8, <1>11, <2>1, <2>2
<1>13. \A e \in H : a # e => 1 < Pos(e)
  <2> SUFFICES ASSUME NEW e \in H, a # e PROVE 1 < Pos(e)
    OBVIOUS
  <2>1. e \in Int /\ e - 1 \in Int /\ a \in Int /\ a <= e - 1
    BY <1>1
  <2>2. 1 <= Pos(e - 1) /\ Pos(e) = Pos(e - 1) + 1 /\ Pos(e - 1) \in Nat
    BY <1>8, <1>10, <1>12, <2>1
  <2> QED BY <2>2
<1>14. \A e \in Int : b <= e => Pos(e) = Scored
  BY <1>1, <1>6, <1>8
<1> QED BY <1>9, <1>10, <1>11, <1>12, <1>13, <1>14 DEF Pos, a, b, H

\* Every session held but the first has a return, from the session held before it.
LEMMA ReturnsLaws ==
    ASSUME EvidenceInv, status = "done", NEW cal \in Calendars
    PROVE  /\ DOMAIN Returns(cal) = cal.held \ {First(cal.held)}
           /\ GrowthOf(cal) \in [cal.held -> Fraction]
           /\ GrowthOf(cal)[First(cal.held)] = Int1
           /\ \A e \in cal.held \ {First(cal.held)} :
                 /\ GrowthOf(cal)[e] = Returns(cal)[e]
                 /\ GrowthOf(cal)[e] = Div(EquityAt(cal, e), EquityAt(cal, e - 1))
<1> DEFINE H == cal.held
           a == First(H)
           Pos(e) == Position(cal, e)
           R == Returns(cal)
           G == GrowthOf(cal)
<1>1. a \in H /\ H \in SUBSET Int /\ Scored \in Nat
  BY CalendarLaws
<1>2. /\ \A e \in Int : Pos(e) \in 0..Scored
      /\ \A e \in Int : Pos(e) = IF e \in H THEN Pos(e - 1) + 1 ELSE Pos(e - 1)
      /\ \A e \in H : a # e => 1 < Pos(e)
      /\ Pos(a) = 1
  BY PositionLaws
<1>3. \A i \in 1..Scored : equity[i] \in Fraction /\ Less(Int0, equity[i])
  BY EquityLaws
<1>4. DOMAIN R = {e \in H : Pos(e) > 1} /\ \A e \in DOMAIN R : R[e] = Div(equity[Pos(e)], equity[Pos(e) - 1])
  BY DEF Returns
<1>5. G = [e \in H |-> IF e \in DOMAIN R THEN R[e] ELSE Int1]
  BY DEF GrowthOf
<1>6. \A e \in Int : EquityAt(cal, e) = equity[Pos(e)]
  BY DEF EquityAt
<1> HIDE DEF H, a, Pos, R, G
<1>7. DOMAIN R = H \ {a}
  <2>1. \A e \in H : Pos(e) > 1 <=> e # a
    <3> TAKE e \in H
    <3>1. e = a => ~(Pos(e) > 1)
      BY <1>2
    <3>2. e # a => Pos(e) > 1
      BY <1>1, <1>2
    <3> QED BY <3>1, <3>2
  <2> QED BY <1>4, <2>1
<1>8. ASSUME NEW e \in H \ {a}
      PROVE  G[e] = R[e] /\ G[e] = Div(EquityAt(cal, e), EquityAt(cal, e - 1)) /\ G[e] \in Fraction
  <2>1. e \in H /\ e # a /\ e \in Int /\ e - 1 \in Int
    BY <1>1
  <2>2. Pos(e) \in 2..Scored /\ Pos(e) - 1 = Pos(e - 1) /\ Pos(e) \in 1..Scored /\ Pos(e - 1) \in 1..Scored
    BY <1>1, <1>2, <2>1
  <2>3. G[e] = R[e] /\ R[e] = Div(equity[Pos(e)], equity[Pos(e) - 1])
    BY <1>4, <1>5, <1>7, <2>1
  <2>4. Div(equity[Pos(e)], equity[Pos(e - 1)]) \in Fraction
    BY <1>3, <2>2, DivLaws
  <2> QED BY <1>6, <2>1, <2>2, <2>3, <2>4
<1>9. G[a] = Int1
  BY <1>1, <1>5, <1>7
<1>10. G \in [H -> Fraction]
  <2>1. \A e \in H : G[e] \in Fraction
    BY <1>8, <1>9, ZeroAndOne
  <2> QED BY <1>5, <2>1
<1> QED BY <1>7, <1>8, <1>9, <1>10 DEF H, a, R, G

\* Between two expected sessions the returns compound to what the equity did.
LEMMA GrowthTelescopes ==
    ASSUME EvidenceInv, status = "done", NEW cal \in Calendars,
           NEW a \in Int, NEW b \in Int, First(cal.held) <= a, a <= b
    PROVE  ProductOf([k \in Between(cal.held, a, b) |-> GrowthOf(cal)[k]])
               = Div(EquityAt(cal, b), EquityAt(cal, a))
<1> DEFINE H == cal.held
           F == [k \in a..b |-> EquityAt(cal, k)]
           G == GrowthOf(cal)
<1>1. First(H) \in Int /\ H \in SUBSET Int
  BY CalendarLaws
<1>2. \A k \in a..b : F[k] \in Fraction /\ Less(Int0, F[k])
  <2> SUFFICES ASSUME NEW k \in a..b PROVE F[k] \in Fraction /\ Less(Int0, F[k])
    OBVIOUS
  <2>1. k \in Int /\ First(H) <= k
    BY <1>1
  <2>2. Position(cal, k) \in 1..Scored
    BY <2>1, PositionLaws, CalendarLaws
  <2> QED BY <2>2, EquityLaws DEF EquityAt
<1>3. Moves(F, G, H, a, b)
  <2> SUFFICES ASSUME NEW k \in (a + 1)..b
               PROVE  IF k \in H THEN G[k] = Div(F[k], F[k - 1]) ELSE F[k] = F[k - 1]
    BY DEF Moves
  <2>1. /\ k \in Int /\ k - 1 \in Int /\ k \in a..b /\ k - 1 \in a..b /\ First(H) # k
        /\ F[k] = EquityAt(cal, k) /\ F[k - 1] = EquityAt(cal, k - 1)
    BY <1>1
  <2>2. CASE k \in H
    BY <2>1, <2>2, ReturnsLaws
  <2>3. CASE k \notin H
    <3>1. Position(cal, k) = Position(cal, k - 1)
      BY <2>1, <2>3, PositionLaws
    <3> QED BY <2>1, <2>3, <3>1 DEF EquityAt
  <2> QED BY <2>2, <2>3
<1>4. F[b] = EquityAt(cal, b) /\ F[a] = EquityAt(cal, a)
  OBVIOUS
<1> HIDE DEF F, G
<1>5. ProductOf([k \in Between(H, a, b) |-> G[k]]) = Div(F[b], F[a])
  BY <1>1, <1>2, <1>3, Telescope
<1> QED BY <1>4, <1>5 DEF G

\* All returns compound to the return of the whole replay.
LEMMA GrowthOfAll ==
    ASSUME EvidenceInv, status = "done", NEW cal \in Calendars
    PROVE  ProductOf(GrowthOf(cal)) = Div(equity[Scored], equity[1])
<1> DEFINE H == cal.held
           G == GrowthOf(cal)
           a == First(H)
           b == Final(H)
           T == Between(H, a, b)
<1>1. /\ IsFiniteSet(H) /\ H \in SUBSET Int /\ a \in H /\ b \in H
      /\ (\A f \in H : a <= f) /\ (\A f \in H : f <= b)
  BY CalendarLaws
<1>2. G \in [H -> Fraction] /\ G[a] = Int1
  BY ReturnsLaws
<1>3. T \in SUBSET H /\ \A x \in H \ T : x = a
  <2>1. \A x \in H : x \in Int /\ a <= x /\ x <= b /\ a \in Int
    BY <1>1
  <2> QED BY <2>1 DEF Between
<1>4. Position(cal, a) = 1 /\ Position(cal, b) = Scored /\ a \in Int /\ b \in Int /\ a <= b
  BY <1>1, PositionLaws
<1>5. ProductOf([k \in T |-> G[k]]) = Div(EquityAt(cal, b), EquityAt(cal, a))
  BY <1>4, GrowthTelescopes
<1> HIDE DEF H, G, a, b, T
<1>6. ProductOf(G) = ProductOf(Restrict(G, T))
  <2>1. \A x \in H \ T : G[x] = Int1
    BY <1>2, <1>3
  <2> QED BY <1>1, <1>2, <1>3, <2>1, ProductExtends
<1>7. Restrict(G, T) = [k \in T |-> G[k]]
  BY DEF Restrict
<1> QED BY <1>4, <1>5, <1>6, <1>7 DEF EquityAt, G

\* The row of a period multiplies the growth of its sessions.
LEMMA PeriodProduct ==
    ASSUME EvidenceInv, status = "done", NEW cal \in Calendars, NEW S \in SUBSET cal.held
    PROVE  /\ ProductOver(S \cap DOMAIN Returns(cal), LAMBDA e : Returns(cal)[e])
                  = ProductOver(S, LAMBDA e : GrowthOf(cal)[e])
           /\ ProductOver(S, LAMBDA e : GrowthOf(cal)[e]) = ProductOf(Restrict(GrowthOf(cal), S))
<1> DEFINE H == cal.held
           G == GrowthOf(cal)
           R == Returns(cal)
           T == S \cap DOMAIN R
           w == Restrict(G, S)
<1>1. IsFiniteSet(S) /\ G \in [H -> Fraction]
  BY CalendarLaws, ReturnsLaws, FS_Subset
<1>2. T \in SUBSET S /\ (\A e \in T : G[e] = R[e]) /\ (\A e \in S \ T : G[e] = Int1)
  BY ReturnsLaws
<1>3. ProductOver(T, LAMBDA e : R[e]) = ProductOf([e \in T |-> R[e]])
  BY DEF ProductOver
<1>4. ProductOver(S, LAMBDA e : G[e]) = ProductOf([e \in S |-> G[e]])
  BY DEF ProductOver
<1> HIDE DEF H, G, R, T
<1>5. w \in [S -> Fraction] /\ w = [e \in S |-> G[e]] /\ \A e \in S \ T : w[e] = Int1
  BY <1>1, <1>2 DEF Restrict, H
<1>6. Restrict(w, T) = [e \in T |-> R[e]]
  BY <1>2 DEF Restrict
<1> HIDE DEF w
<1>7. ProductOf(w) = ProductOf(Restrict(w, T))
  BY <1>1, <1>2, <1>5, ProductExtends
<1>8. ProductOver(T, LAMBDA e : R[e]) = ProductOver(S, LAMBDA e : G[e])
  BY <1>3, <1>4, <1>5, <1>6, <1>7
<1>9. ProductOver(S, LAMBDA e : G[e]) = ProductOf(w)
  BY <1>4, <1>5
<1> QED BY <1>8, <1>9 DEF T, R, G, w

\* The engine's rows are those of Gate 1, for months, years or any other periods.
LEMMA RowsAgree ==
    ASSUME EvidenceInv, status = "done", NEW cal \in Calendars, NEW key
    PROVE  PeriodEvidence(cal, key) = PolicyRows(cal, key, GrowthOf(cal))
<1>1. ASSUME NEW p \in Range(key), InPeriod(key, p) \subseteq cal.held
      PROVE  ProductOver(PeriodSessions(cal, key, p) \cap DOMAIN Returns(cal), LAMBDA e : Returns(cal)[e])
                 = ProductOver(InPeriod(key, p), LAMBDA e : GrowthOf(cal)[e])
  <2> DEFINE S == InPeriod(key, p)
  <2>1. S \in SUBSET cal.held
    BY <1>1
  <2> HIDE DEF S
  <2>2. ProductOver(S \cap DOMAIN Returns(cal), LAMBDA e : Returns(cal)[e])
            = ProductOver(S, LAMBDA e : GrowthOf(cal)[e])
    BY <2>1, PeriodProduct
  <2> QED BY <2>2 DEF PeriodSessions, S
<1> QED BY <1>1 DEF PeriodEvidence, PolicyRows

\* A session on or before a day that many months earlier is not a later one.
LEMMA EarlierDay ==
    ASSUME NEW cal \in Calendars, NEW e \in DOMAIN cal.dates, NEW a \in DOMAIN cal.dates,
           ~Before(MonthsBefore(cal, e, Months), cal.dates[a])
    PROVE  a <= e
<1> DEFINE d == cal.dates[e]
           f == cal.dates[a]
           t == MonthsBefore(cal, e, Months)
           days == MonthLength[d[1] - Months]
<1>1. /\ cal.dates \in Seq(Int \X Int) /\ days \in Positive /\ Months \in Nat
      /\ e < a => Before(d, f)
  BY EvidenceAssumption
<1>2. e \in Int /\ a \in Int /\ d \in Int \X Int /\ f \in Int \X Int
  BY <1>1
<1>3. t = <<d[1] - Months, IF d[2] <= days THEN d[2] ELSE days>>
  BY DEF MonthsBefore, SubtractMonths
<1>4. ~Before(t, f)
  OBVIOUS
<1> HIDE DEF d, f, t, days
<1>5. t[1] = d[1] - Months /\ t[2] = IF d[2] <= days THEN d[2] ELSE days
  BY <1>3
<1>6. days \in Int /\ d[1] \in Int /\ d[2] \in Int /\ f[1] \in Int /\ f[2] \in Int
  BY <1>1, <1>2 DEF Positive
<1>7. Before(d, f) => Before(t, f)
  <2> SUFFICES ASSUME Before(d, f) PROVE Before(t, f)
    OBVIOUS
  <2>0. Months \in Nat
    BY <1>1
  <2>1. CASE d[1] < f[1]
    <3>1. t[1] < f[1]
      BY <1>5, <1>6, <2>0, <2>1
    <3> QED BY <3>1 DEF Before
  <2>2. CASE d[1] = f[1] /\ d[2] < f[2]
    <3>1. t[1] < f[1] \/ t[1] = f[1]
      BY <1>5, <1>6, <2>0, <2>2
    <3>2. t[2] < f[2]
      BY <1>5, <1>6, <2>2
    <3> QED BY <3>1, <3>2 DEF Before
  <2> QED BY <2>1, <2>2 DEF Before
<1> QED BY <1>1, <1>2, <1>4, <1>7

\* The anchors of a window, the engine's among the sessions expected and Gate 1's among those held.
LEMMA AnchorLaws ==
    ASSUME NEW cal \in Calendars, NEW e \in cal.held,
           ~Before(MonthsBefore(cal, e, Months), cal.dates[First(cal.held)])
    PROVE  /\ WindowAnchor(cal, e) \in Int /\ First(cal.held) <= WindowAnchor(cal, e) /\ WindowAnchor(cal, e) <= e
           /\ WindowIsHeld(cal, WindowAnchor(cal, e), e) <=> PolicyIsComplete(cal, e, Months)
           /\ WindowIsHeld(cal, WindowAnchor(cal, e), e) => PolicyAnchor(cal, e, Months) = WindowAnchor(cal, e)
<1> DEFINE H == cal.held
           D == DOMAIN cal.dates
           t == MonthsBefore(cal, e, Months)
           X == SessionsBy(cal, D, t)
           Y == SessionsBy(cal, H, t)
           w == WindowAnchor(cal, e)
           p == PolicyAnchor(cal, e, Months)
           n == Len(cal.dates)
<1>1. n \in Nat /\ D = 1..n /\ H \in SUBSET D /\ First(H) \in H
  BY CalendarLaws
<1>2. X \in SUBSET D /\ Y = X \cap H /\ First(H) \in Y
  BY <1>1 DEF SessionsBy
<1>3. w = Final(X) /\ p = Final(Y)
  BY DEF WindowAnchor, PolicyAnchor
<1>4. \A x \in X : x <= e
  <2>1. e \in D
    BY <1>1
  <2> QED BY <2>1, EarlierDay DEF SessionsBy
<1>5. /\ WindowIsHeld(cal, w, e) <=> Expected(cal, w, e) \subseteq H
      /\ PolicyIsComplete(cal, e, Months) <=> Y # {} /\ Expected(cal, p, e) \subseteq H
  BY DEF WindowIsHeld, PolicyIsComplete
<1>6. /\ Expected(cal, w, e) = {k \in D : w <= k /\ k <= e}
      /\ Expected(cal, p, e) = {k \in D : p <= k /\ k <= e}
  BY DEF Expected
<1> HIDE DEF H, D, X, Y, w, p, n, t
<1>7. w \in X /\ \A x \in X : x <= w
  <2>1. X \in SUBSET (1..n) /\ X # {}
    BY <1>1, <1>2
  <2> QED BY <1>1, <1>3, <2>1, EndsLaws
<1>8. p \in Y /\ \A y \in Y : y <= p
  <2>1. Y \in SUBSET (1..n) /\ Y # {}
    BY <1>1, <1>2
  <2> QED BY <1>1, <1>3, <2>1, EndsLaws
<1>9. w \in D /\ p \in D /\ w \in Int /\ p \in Int /\ p <= w /\ w <= e /\ First(H) <= w
  <2>1. w \in D /\ p \in D /\ p \in X /\ First(H) \in X /\ First(H) \in D
    BY <1>1, <1>2, <1>7, <1>8
  <2>2. w \in Int /\ p \in Int
    BY <1>1, <2>1
  <2>3. p <= w /\ w <= e /\ First(H) <= w
    BY <1>4, <1>7, <2>1
  <2> QED BY <2>1, <2>2, <2>3
<1>10. w \in H => p = w
  BY <1>2, <1>7, <1>8, <1>9
<1>11. Expected(cal, w, e) \subseteq H => w \in H
  BY <1>6, <1>9
<1>12. Expected(cal, p, e) \subseteq H => w \in H
  BY <1>6, <1>9
<1>13. Y # {}
  BY <1>2
<1> QED BY <1>5, <1>9, <1>10, <1>11, <1>12, <1>13 DEF H, w, p

\* The windows that are complete, and the return over each.
CompleteWindows(cal) == {e \in cal.held : PolicyIsComplete(cal, e, Months)}
WindowReturn(cal) == [e \in CompleteWindows(cal) |-> Div(EquityAt(cal, e), EquityAt(cal, WindowAnchor(cal, e)))]

\* They are the same to the engine and to Gate 1.
LEMMA WindowLaws ==
    ASSUME EvidenceInv, status = "done", NEW cal \in Calendars
    PROVE  /\ {w \in RollingEvidence(cal) : w.observation.status = "AVAILABLE"}
                  = {[anchor |-> WindowAnchor(cal, e), endpoint |-> e, observation |-> Available(WindowReturn(cal)[e])]
                        : e \in CompleteWindows(cal)}
           /\ PolicyRolling(cal, GrowthOf(cal), Months)
                  = {[anchor |-> WindowAnchor(cal, e), endpoint |-> e, value |-> WindowReturn(cal)[e]]
                        : e \in CompleteWindows(cal)}
<1> DEFINE H == cal.held
           G == GrowthOf(cal)
           E == {e \in H : ~Before(MonthsBefore(cal, e, Months), cal.dates[First(H)])}
           C == CompleteWindows(cal)
           V == WindowReturn(cal)
           wa(e) == WindowAnchor(cal, e)
           pa(e) == PolicyAnchor(cal, e, Months)
           Inside(e) == {k \in H : pa(e) < k /\ k <= e}
           seen(e) == [anchor |-> wa(e), endpoint |-> e, observation |-> Observation(cal, e)]
           full(e) == [anchor |-> wa(e), endpoint |-> e, observation |-> Available(V[e])]
           told(e) == [anchor |-> pa(e), endpoint |-> e, value |-> ProductOver(Inside(e), LAMBDA k : G[k])]
           same(e) == [anchor |-> wa(e), endpoint |-> e, value |-> V[e]]
<1>1. C \in SUBSET E /\ C \in SUBSET H /\ H \in SUBSET Int
  BY CalendarLaws DEF CompleteWindows, PolicyIsComplete
<1>2. \A e \in C : V[e] = Div(EquityAt(cal, e), EquityAt(cal, wa(e)))
  BY DEF WindowReturn
<1>3. \A e \in E : /\ wa(e) \in Int /\ First(H) <= wa(e) /\ wa(e) <= e
                   /\ WindowIsHeld(cal, wa(e), e) <=> e \in C
                   /\ e \in C => pa(e) = wa(e)
  BY AnchorLaws DEF CompleteWindows
<1>4. RollingEvidence(cal) = {seen(e) : e \in E}
  BY DEF RollingEvidence
<1>5. PolicyRolling(cal, G, Months) = {told(e) : e \in C}
  BY DEF PolicyRolling, CompleteWindows
<1> HIDE DEF E, C, V
<1>6. ASSUME NEW e \in E
      PROVE  /\ e \in C => seen(e) = full(e) /\ seen(e).observation.status = "AVAILABLE"
             /\ e \notin C => seen(e).observation.status # "AVAILABLE"
  <2>1. CASE e \in C
    <3>1. Observation(cal, e) = Available(V[e])
      BY <1>2, <1>3, <2>1 DEF Observation
    <3>2. Observation(cal, e).status = "AVAILABLE"
      BY <3>1 DEF Available
    <3> QED BY <2>1, <3>1, <3>2
  <2>2. CASE e \notin C
    <3>1. Observation(cal, e) = Unknown("INCOMPLETE_WINDOW")
      BY <1>3, <2>2 DEF Observation
    <3>2. Observation(cal, e).status = "INCOMPLETE_WINDOW"
      BY <3>1 DEF Unknown
    <3> QED BY <2>2, <3>2
  <2> QED BY <2>1, <2>2
<1>7. ASSUME NEW e \in C
      PROVE  told(e) = same(e)
  <2> DEFINE a == wa(e)
             B == Between(H, a, e)
  <2>1. a \in Int /\ First(H) <= a /\ a <= e /\ e \in Int /\ pa(e) = a
    BY <1>1, <1>3
  <2>2. Inside(e) = B
    BY <2>1 DEF Between
  <2>3. ProductOf([k \in B |-> G[k]]) = Div(EquityAt(cal, e), EquityAt(cal, a))
    BY <2>1, GrowthTelescopes
  <2>4. ProductOver(Inside(e), LAMBDA k : G[k]) = ProductOf([k \in Inside(e) |-> G[k]])
    BY DEF ProductOver
  <2>5. ProductOver(Inside(e), LAMBDA k : G[k]) = V[e]
    BY <1>2, <2>2, <2>3, <2>4
  <2> QED BY <2>1, <2>5
<1> DEFINE R == {w \in {seen(e) : e \in E} : w.observation.status = "AVAILABLE"}
           Q == {full(e) : e \in C}
<1> HIDE DEF H, G, wa, pa, seen, full, told, same
<1>8. R = Q
  <2>1. \A w \in R : w \in Q
    <3> TAKE w \in R
    <3>1. PICK e \in E : w = seen(e)
      OBVIOUS
    <3>2. e \in C
      BY <1>6, <3>1
    <3> QED BY <1>6, <3>1, <3>2
  <2>2. \A w \in Q : w \in R
    <3> TAKE w \in Q
    <3>1. PICK e \in C : w = full(e)
      OBVIOUS
    <3>2. e \in E /\ seen(e) = full(e) /\ seen(e).observation.status = "AVAILABLE"
      BY <1>1, <1>6
    <3> QED BY <3>1, <3>2
  <2> QED BY <2>1, <2>2
<1>9. {told(e) : e \in C} = {same(e) : e \in C}
  BY <1>7
<1> QED BY <1>4, <1>5, <1>8, <1>9 DEF H, G, C, V, wa, full, same

\* What is known of a summary does not depend on the reason given for the rest.
LEMMA ReasonsAside ==
    ASSUME NEW growth, NEW r, NEW q, r # "AVAILABLE", q # "AVAILABLE"
    PROVE  Known(WindowSummary(growth, r)) = Known(WindowSummary(growth, q))
<1>1. CASE DOMAIN growth # {}
  BY <1>1 DEF WindowSummary
<1>2. CASE DOMAIN growth = {}
  <2>1. \A reason \in {r, q} : {x \in DOMAIN WindowSummary(growth, reason) :
                         WindowSummary(growth, reason)[x].status = "AVAILABLE"} = {}
    BY <1>2 DEF WindowSummary, Unknown
  <2> QED BY <2>1 DEF Known
<1> QED BY <1>1, <1>2

\* Hence what is made of them.
LEMMA WindowsAgree ==
    ASSUME EvidenceInv, status = "done", NEW cal \in Calendars
    PROVE  /\ {[anchor |-> w.anchor, endpoint |-> w.endpoint, value |-> w.observation.value]
                  : w \in {w \in RollingEvidence(cal) : w.observation.status = "AVAILABLE"}}
                  = PolicyRolling(cal, GrowthOf(cal), Months)
           /\ Known(RollingSummary(RollingEvidence(cal)))
                  = Known(PolicyRollingSummary(PolicyRolling(cal, GrowthOf(cal), Months)))
<1> DEFINE C == CompleteWindows(cal)
           V == WindowReturn(cal)
           A == {w \in RollingEvidence(cal) : w.observation.status = "AVAILABLE"}
           P == PolicyRolling(cal, GrowthOf(cal), Months)
           full(e) == [anchor |-> WindowAnchor(cal, e), endpoint |-> e, observation |-> Available(V[e])]
           same(e) == [anchor |-> WindowAnchor(cal, e), endpoint |-> e, value |-> V[e]]
           Short(w) == [anchor |-> w.anchor, endpoint |-> w.endpoint, value |-> w.observation.value]
           u == [e \in {w.endpoint : w \in A} |-> (CHOOSE w \in A : w.endpoint = e).observation.value]
           v == [e \in {w.endpoint : w \in P} |-> (CHOOSE w \in P : w.endpoint = e).value]
<1>1. A = {full(e) : e \in C} /\ P = {same(e) : e \in C}
  BY WindowLaws
<1>2. \A e \in C : /\ full(e).endpoint = e /\ full(e).observation.value = V[e] /\ Short(full(e)) = same(e)
                   /\ same(e).endpoint = e /\ same(e).value = V[e]
  BY DEF Available
<1>3. PICK r \in {"INSUFFICIENT_DATA", "INCOMPLETE_WINDOW"} :
          RollingSummary(RollingEvidence(cal)) = WindowSummary(u, r)
  BY DEF RollingSummary
<1>4. PolicyRollingSummary(P) = WindowSummary(v, "INSUFFICIENT_DATA")
  BY DEF PolicyRollingSummary
<1> HIDE DEF A, P, C, V, full, same, Short, u, v
<1>5. {Short(w) : w \in A} = P
  BY <1>1, <1>2
<1>6. {w.endpoint : w \in A} = C /\ {w.endpoint : w \in P} = C
  BY <1>1, <1>2
<1>7. \A e \in C : (CHOOSE w \in A : w.endpoint = e) = full(e)
  BY <1>1, <1>2
<1>8. \A e \in C : (CHOOSE w \in P : w.endpoint = e) = same(e)
  BY <1>1, <1>2
<1>9. [e \in C |-> (CHOOSE w \in A : w.endpoint = e).observation.value] = [e \in C |-> V[e]]
  <2>1. \A e \in C : (CHOOSE w \in A : w.endpoint = e).observation.value = V[e]
    <3> TAKE e \in C
    <3>1. (CHOOSE w \in A : w.endpoint = e) = full(e)
      BY <1>7
    <3> QED BY <1>2, <3>1
  <2> QED BY <2>1
<1>10. [e \in C |-> (CHOOSE w \in P : w.endpoint = e).value] = [e \in C |-> V[e]]
  <2>1. \A e \in C : (CHOOSE w \in P : w.endpoint = e).value = V[e]
    <3> TAKE e \in C
    <3>1. (CHOOSE w \in P : w.endpoint = e) = same(e)
      BY <1>8
    <3> QED BY <1>2, <3>1
  <2> QED BY <2>1
<1>11. u = v
  BY <1>6, <1>9, <1>10 DEF u, v
<1> QED BY <1>3, <1>4, <1>5, <1>11, ReasonsAside DEF A, P, Short

\* It is an invariant.
LEMMA EvidenceAlways == EvidenceSpec => []EvidenceInv
<1>1. EvidenceInit => EvidenceInv
  BY EvidenceInvInit
<1>2. EvidenceInv /\ [EvidenceNext]_<<replayVars, derived>> => EvidenceInv'
  BY EvidenceInvStep
<1> QED BY <1>1, <1>2, PTL DEF EvidenceSpec

(***************************************************************************)
(* Whatever sessions are missing, the engine's months, years, complete     *)
(* windows and the figures known of them are those of the formulas that    *)
(* Gate 1 registered.                                                      *)
(***************************************************************************)
THEOREM FormulasAlwaysAgree == EvidenceSpec => []FormulasAgree
<1>1. EvidenceInv => FormulasAgree
  <2> SUFFICES ASSUME EvidenceInv, derived # NoEvidence PROVE FormulasAgree
    BY DEF FormulasAgree
  <2>1. PICK cal \in Calendars : derived = EvidenceOf(cal)
    BY DEF EvidenceInv, DerivedInv
  <2>2. status = "done"
    BY DEF EvidenceInv, DerivedInv
  <2> DEFINE G == GrowthOf(cal)
             months == PeriodEvidence(cal, MonthKey(cal))
             years == PeriodEvidence(cal, YearKey(cal))
             windows == RollingEvidence(cal)
             P == PolicyRolling(cal, G, Months)
  <2>3. /\ derived.calendar = cal /\ derived.rows = months /\ derived.years = years /\ derived.rolling = windows
        /\ derived.summaries = <<PeriodSummary(months), PeriodSummary(years), RollingSummary(windows)>>
    BY <2>1 DEF EvidenceOf
  <2>4. months = PolicyRows(cal, MonthKey(cal), G) /\ years = PolicyRows(cal, YearKey(cal), G)
    BY <2>2, RowsAgree
  <2>5. \A rows : Known(PeriodSummary(rows)) = PolicySummary(rows)
    BY DEF PeriodSummary, PolicySummary, Live
  <2>6. /\ {[anchor |-> w.anchor, endpoint |-> w.endpoint, value |-> w.observation.value]
               : w \in {w \in windows : w.observation.status = "AVAILABLE"}} = P
        /\ Known(RollingSummary(windows)) = Known(PolicyRollingSummary(P))
    BY <2>2, WindowsAgree
  <2> HIDE DEF G, months, years, windows, P
  <2>7. /\ Known(derived.summaries[1]) = PolicySummary(months)
        /\ Known(derived.summaries[2]) = PolicySummary(years)
        /\ Known(derived.summaries[3]) = Known(PolicyRollingSummary(P))
    BY <2>3, <2>5, <2>6
  <2> QED BY <2>3, <2>4, <2>6, <2>7 DEF FormulasAgree, G, P
<1> QED BY <1>1, EvidenceAlways, PTL

\* The rows that are available compound to the whole, if no period is incomplete.
Compound(rows) ==
    (\A p \in DOMAIN rows : rows[p].status # "INCOMPLETE_PERIOD") =>
        ProductOver({p \in DOMAIN rows : rows[p].status = "AVAILABLE"}, LAMBDA p : rows[p].value)
            = Div(equity[Scored], equity[1])

\* When every period is complete their rows compound to the whole.
LEMMA RowsCompound ==
    ASSUME EvidenceInv, status = "done", NEW cal \in Calendars, NEW key, DOMAIN key = DOMAIN cal.dates
    PROVE  Compound(PeriodEvidence(cal, key))
<1> DEFINE rows == PeriodEvidence(cal, key)
<1> SUFFICES ASSUME \A p \in DOMAIN rows : rows[p].status # "INCOMPLETE_PERIOD"
             PROVE  ProductOver({p \in DOMAIN rows : rows[p].status = "AVAILABLE"}, LAMBDA p : rows[p].value)
                        = Div(equity[Scored], equity[1])
  BY DEF Compound
<1> DEFINE H == cal.held
           D == DOMAIN cal.dates
           G == GrowthOf(cal)
           K == Range(key)
           At(p) == {x \in H : key[x] = p}
           v == [p \in K |-> rows[p].value]
           R == Returns(cal)
<1>1. IsFiniteSet(H) /\ H \in SUBSET D /\ IsFiniteSet(D)
  <2>1. Len(cal.dates) \in Nat /\ D = 1..Len(cal.dates) /\ H \in SUBSET D /\ IsFiniteSet(H)
    BY CalendarLaws
  <2> HIDE DEF D, H
  <2> QED BY <2>1, FS_Interval
<1>2. G \in [H -> Fraction] /\ ProductOf(G) = Div(equity[Scored], equity[1])
  BY ReturnsLaws, GrowthOfAll
<1>3. K = {key[x] : x \in D} /\ \A x \in H : key[x] \in K
  BY <1>1 DEF Range
<1>4. IsFiniteSet(K)
  <2> DEFINE g == [x \in D |-> key[x]]
  <2>1. g \in Surjection(D, K)
    <3> HIDE DEF D, K
    <3> QED BY <1>3 DEF Surjection
  <2> HIDE DEF g, D, K
  <2> QED BY <1>1, <2>1, FS_Surjection
<1>5. DOMAIN rows = K
  BY DEF PeriodEvidence
<1>6. ASSUME NEW p \in K
      PROVE  rows[p].status = "AVAILABLE" /\ rows[p].value = ProductOf(Restrict(G, At(p)))
  <2> DEFINE S == InPeriod(key, p)
             x == ProductOver(S \cap DOMAIN R, LAMBDA e : R[e])
  <2>1. rows[p] = IF S \subseteq H THEN Available(x) ELSE Unknown("INCOMPLETE_PERIOD")
    BY DEF PeriodEvidence, PeriodSessions
  <2>2. S \subseteq H
    <3>1. ~(S \subseteq H) => rows[p].status = "INCOMPLETE_PERIOD"
      <4> HIDE DEF x, S
      <4> QED BY <2>1 DEF Unknown
    <3> QED BY <1>5, <3>1
  <2>3. S = At(p)
    BY <1>1, <2>2 DEF InPeriod
  <2> HIDE DEF S
  <2>4. x = ProductOf(Restrict(G, S))
    BY <2>2, PeriodProduct
  <2> HIDE DEF x
  <2> QED BY <2>1, <2>2, <2>3, <2>4 DEF Available
<1>7. {p \in DOMAIN rows : rows[p].status = "AVAILABLE"} = K
  BY <1>5, <1>6
<1>8. IsProductByKey(v, G, H, K, key)
  BY <1>6 DEF IsProductByKey
<1>9. ProductOver(K, LAMBDA p : rows[p].value) = ProductOf(v)
  BY DEF ProductOver
<1> HIDE DEF H, G, K, v
<1>10. ProductOf(v) = ProductOf(G)
  BY <1>1, <1>2, <1>3, <1>4, <1>8, ProductOfProducts
<1> QED BY <1>2, <1>7, <1>9, <1>10

\* The regimes share out the returns of the replay.
LEMMA RegimesCompound ==
    ASSUME EvidenceInv, status = "done"
    PROVE  Compound(Attribution)
<1> DEFINE S == Between(Int, 1, Scored)
           w == [i \in S |-> Div(equity[i], equity[i - 1])]
           key == [i \in S |-> RegimeOf(i, closes)]
           At(r) == {i \in S : key[i] = r}
           K == RegimeIds
           v == [r \in K |-> ProductOf(Restrict(w, At(r)))]
           L == {r \in DOMAIN Attribution : Attribution[r].status = "AVAILABLE"}
<1>1. Scored \in Nat /\ Scored > 1 /\ \A i \in 1..Scored : equity[i] \in Fraction /\ Less(Int0, equity[i])
  BY EquityLaws
<1>2. S = 2..Scored /\ S \in SUBSET Int
  <2>1. \A i \in Int : 1 < i /\ i <= Scored <=> 2 <= i /\ i <= Scored
    BY <1>1
  <2> QED BY <1>1, <2>1 DEF Between
<1>3. IsFiniteSet(S)
  <2> HIDE DEF S
  <2> QED BY <1>1, <1>2, FS_Interval
<1>4. \A i \in S : i \in 1..Scored /\ i - 1 \in 1..Scored
  BY <1>1, <1>2
<1>5. w \in [S -> Fraction]
  <2> HIDE DEF S
  <2>1. \A i \in S : Div(equity[i], equity[i - 1]) \in Fraction
    BY <1>1, <1>4, DivLaws
  <2> QED BY <2>1
<1>6. ProductOf(w) = Div(equity[Scored], equity[1])
  <2>1. Moves(equity, w, Int, 1, Scored)
    <3> SUFFICES ASSUME NEW k \in (1 + 1)..Scored
                 PROVE  IF k \in Int THEN w[k] = Div(equity[k], equity[k - 1]) ELSE equity[k] = equity[k - 1]
      BY DEF Moves
    <3>1. k \in S /\ k \in Int
      BY <1>1, <1>2
    <3> HIDE DEF S
    <3> QED BY <3>1
  <2>2. [k \in S |-> w[k]] = w
    OBVIOUS
  <2> HIDE DEF w
  <2>3. ProductOf([k \in S |-> w[k]]) = Div(equity[Scored], equity[1])
    <3>1. 1 \in Int /\ Scored \in Int /\ 1 <= Scored /\ Int \in SUBSET Int
      BY <1>1
    <3> QED BY <1>1, <2>1, <3>1, Telescope
  <2> QED BY <2>2, <2>3
<1>7. \A i \in S : key[i] \in K
  BY DEF RegimeOf, RegimeIds
<1>8. \A r \in K : At(r) = RegimeSessions(r) \ {1} /\ At(r) \in SUBSET S
  <2> SUFFICES ASSUME NEW r \in K PROVE At(r) = RegimeSessions(r) \ {1}
    OBVIOUS
  <2>1. \A i : i \in S <=> i \in 1..Scored /\ i # 1
    BY <1>1, <1>2
  <2>2. RegimeSessions(r) = {i \in 1..Scored : RegimeOf(i, closes) = r}
    BY DEF RegimeSessions
  <2> HIDE DEF S
  <2> QED BY <2>1, <2>2
<1>9. \A r \in K : ProductOver(At(r), LAMBDA i : Div(equity[i], equity[i - 1])) = ProductOf(Restrict(w, At(r)))
  <2> TAKE r \in K
  <2> DEFINE A == At(r)
  <2>1. A \in SUBSET S
    BY <1>8
  <2> HIDE DEF A
  <2>2. [i \in A |-> Div(equity[i], equity[i - 1])] = Restrict(w, A)
    BY <2>1 DEF Restrict
  <2>3. ProductOver(A, LAMBDA i : Div(equity[i], equity[i - 1])) = ProductOf([i \in A |-> Div(equity[i], equity[i - 1])])
    BY DEF ProductOver
  <2> QED BY <2>2, <2>3 DEF A
<1>10. DOMAIN Attribution = K
  BY DEF Attribution
<1> HIDE DEF K
<1>11. ASSUME NEW r \in K
       PROVE  /\ r \in L => Attribution[r].value = v[r]
              /\ r \notin L => v[r] = Int1
  <2> DEFINE A == At(r)
             x == ProductOver(A, LAMBDA i : Div(equity[i], equity[i - 1]))
  <2>1. A = RegimeSessions(r) \ {1} /\ A \in SUBSET S
    BY <1>8
  <2>2. Attribution[r] = IF A = {} THEN Unknown("NO_RETURN_OBSERVATIONS") ELSE Available(x)
    BY <2>1 DEF Attribution, K
  <2>3. x = v[r] /\ v[r] = ProductOf(Restrict(w, A))
    BY <1>9
  <2> HIDE DEF A, x, S, w, v
  <2>4. A # {} => Attribution[r].value = v[r] /\ Attribution[r].status = "AVAILABLE"
    BY <2>2, <2>3 DEF Available
  <2>5. A = {} => Attribution[r].status # "AVAILABLE"
    BY <2>2 DEF Unknown
  <2>6. A = {} => v[r] = Int1
    BY <1>3, <1>5, <2>1, <2>3, ProductStep
  <2> QED BY <1>10, <2>4, <2>5, <2>6
<1>12. IsFiniteSet(K)
  <2>1. IsFiniteSet({"broad_positive_trend"}) /\ IsFiniteSet({"broad_negative_trend"}) /\ IsFiniteSet({"mixed_cross_asset"})
    BY FS_Singleton
  <2>2. IsFiniteSet({"broad_positive_trend"} \cup {"broad_negative_trend"})
    BY <2>1, FS_Union
  <2>3. IsFiniteSet(({"broad_positive_trend"} \cup {"broad_negative_trend"}) \cup {"mixed_cross_asset"})
    BY <2>1, <2>2, FS_Union
  <2>4. K = ({"broad_positive_trend"} \cup {"broad_negative_trend"}) \cup {"mixed_cross_asset"}
    BY DEF K, RegimeIds
  <2> QED BY <2>3, <2>4
<1>13. IsProductByKey(v, w, S, K, key)
  BY DEF IsProductByKey
<1>14. v \in [K -> Fraction]
  <2>1. ASSUME NEW r \in K PROVE v[r] \in Fraction
    <3> DEFINE A == At(r)
    <3>1. A \in SUBSET S /\ v[r] = ProductOf(Restrict(w, A))
      BY <1>8
    <3> HIDE DEF A, w, v, S
    <3> QED BY <1>3, <1>5, <3>1, ProductStep
  <2> QED BY <2>1
<1>15. L \in SUBSET K
  BY <1>10
<1>16. ProductOver(L, LAMBDA r : Attribution[r].value) = ProductOf([r \in L |-> Attribution[r].value])
  BY DEF ProductOver
<1> HIDE DEF S, w, key, v, L
<1>17. [r \in L |-> Attribution[r].value] = Restrict(v, L)
  BY <1>11, <1>15 DEF Restrict
<1>18. ProductOf(v) = ProductOf(w)
  BY <1>3, <1>5, <1>7, <1>12, <1>13, ProductOfProducts
<1>19. ProductOf(v) = ProductOf(Restrict(v, L))
  <2>1. \A r \in K \ L : v[r] = Int1
    BY <1>11
  <2> QED BY <1>12, <1>14, <1>15, <2>1, ProductExtends
<1> QED BY <1>6, <1>16, <1>17, <1>18, <1>19 DEF L, Compound

\* Equity is positive from the first session on.
LEMMA EquityAtLaws ==
    ASSUME EvidenceInv, status = "done", NEW cal \in Calendars, NEW e \in Int, First(cal.held) <= e
    PROVE  EquityAt(cal, e) \in Fraction /\ Less(Int0, EquityAt(cal, e))
<1>1. Position(cal, e) \in 1..Scored
  BY PositionLaws, CalendarLaws
<1> QED BY <1>1, EquityLaws DEF EquityAt

\* Years go up with the sessions.
LEMMA YearLaws ==
    ASSUME NEW cal \in Calendars
    PROVE  /\ DOMAIN YearKey(cal) = DOMAIN cal.dates
           /\ \A e \in DOMAIN cal.dates : YearKey(cal)[e] \in Int
           /\ \A d, e \in DOMAIN cal.dates : YearKey(cal)[e] < YearKey(cal)[d] => e < d
<1> DEFINE D == DOMAIN cal.dates
           Y == YearKey(cal)
           M == MonthKey(cal)
<1>1. /\ cal.dates \in Seq(Int \X Int)
      /\ \A d, e \in D : d < e => Before(cal.dates[d], cal.dates[e])
  BY EvidenceAssumption
<1>2. D \in SUBSET Int /\ \A e \in D : cal.dates[e][1] \in Int /\ cal.dates[e][2] \in Int
  <2>1. D = 1..Len(cal.dates) /\ Len(cal.dates) \in Nat /\ \A e \in D : cal.dates[e] \in Int \X Int
    BY <1>1
  <2>2. \A e \in D : cal.dates[e][1] \in Int /\ cal.dates[e][2] \in Int
    BY <2>1
  <2>3. D \in SUBSET Int
    BY <2>1
  <2> QED BY <2>2, <2>3
<1>3. DOMAIN Y = D /\ \A e \in D : Y[e] = (cal.dates[e][1] + 1) \div 2
  BY DEF YearKey
<1>4. \A e \in D : Y[e] \in Int
  BY <1>2, <1>3
<1>5. ASSUME NEW d \in D, NEW e \in D, Y[e] < Y[d]
      PROVE  e < d
  <2> DEFINE m == cal.dates[d][1]
             n == cal.dates[e][1]
  <2>1. m \in Int /\ n \in Int /\ (n + 1) \div 2 < (m + 1) \div 2
    BY <1>2, <1>3, <1>5
  <2>2. n < m
    <3> HIDE DEF m, n
    <3> QED BY <2>1
  <2>3. ~(d < e) /\ d # e
    <3>1. ~Before(cal.dates[d], cal.dates[e])
      BY <2>1, <2>2 DEF Before
    <3>2. d # e
      BY <2>1, <2>2
    <3> QED BY <1>1, <3>1, <3>2
  <2>4. d \in Int /\ e \in Int
    BY <1>2
  <2> QED BY <2>3, <2>4
<1> QED BY <1>3, <1>4, <1>5

\* The years of the sessions held.
LEMMA YearsAre ==
    ASSUME NEW cal \in Calendars
    PROVE  IsFiniteSet({YearKey(cal)[e] : e \in cal.held}) /\ {YearKey(cal)[e] : e \in cal.held} \in SUBSET Int
<1> DEFINE H == cal.held
           Y == YearKey(cal)
           T == {Y[e] : e \in H}
           g == [e \in H |-> Y[e]]
<1>1. IsFiniteSet(H) /\ H \in SUBSET DOMAIN cal.dates
  BY CalendarLaws
<1>2. \A e \in H : Y[e] \in Int
  BY <1>1, YearLaws
<1>3. T \in SUBSET Int
  BY <1>2
<1> HIDE DEF H, Y
<1>4. g \in Surjection(H, T)
  BY DEF Surjection
<1> HIDE DEF g, T
<1>5. IsFiniteSet(T)
  BY <1>1, <1>4, FS_Surjection
<1> QED BY <1>3, <1>5 DEF T, Y, H

\* The years of the folds in order, and where each fold starts and ends.
FoldYears(cal) == Ordered({YearKey(cal)[e] : e \in cal.held})
YearEnd(cal, k) == Final(FoldSessions(cal, FoldYears(cal)[k]))
YearStart(cal, k) == IF k = 1 THEN First(cal.held) ELSE YearEnd(cal, k - 1)

\* They are the boundaries the engine makes.
LEMMA BoundariesAre ==
    ASSUME NEW cal
    PROVE  FoldBoundaries(cal) = [k \in DOMAIN FoldYears(cal) |->
               [year |-> FoldYears(cal)[k], end |-> YearEnd(cal, k), start |-> YearStart(cal, k)]]
BY DEF FoldBoundaries, FoldYears, YearEnd, YearStart

\* The folds share out the sessions held: each ends with the last session of its year.
LEMMA FoldLaws ==
    ASSUME NEW cal \in Calendars
    PROVE  LET m == Cardinality({YearKey(cal)[e] : e \in cal.held})
           IN  /\ m \in Nat /\ 1 <= m /\ DOMAIN FoldYears(cal) = 1..m
               /\ YearEnd(cal, m) = Final(cal.held)
               /\ \A k \in 1..m :
                     /\ YearEnd(cal, k) \in cal.held /\ YearStart(cal, k) \in cal.held
                     /\ YearStart(cal, k) <= YearEnd(cal, k)
                     /\ Between(cal.held, YearStart(cal, k), YearEnd(cal, k))
                            \in SUBSET FoldSessions(cal, FoldYears(cal)[k])
                     /\ \A e \in FoldSessions(cal, FoldYears(cal)[k]) :
                           e \in Between(cal.held, YearStart(cal, k), YearEnd(cal, k)) \/ e = First(cal.held)
<1> DEFINE H == cal.held
           Y == YearKey(cal)
           T == {Y[e] : e \in H}
           m == Cardinality(T)
           o == FoldYears(cal)
           S(k) == FoldSessions(cal, o[k])
           End(k) == YearEnd(cal, k)
           n == Len(cal.dates)
<1>1. /\ IsFiniteSet(H) /\ n \in Nat /\ H \in SUBSET (1..n) /\ H \in SUBSET Int
      /\ First(H) \in H /\ (\A f \in H : First(H) <= f)
      /\ Final(H) \in H /\ (\A f \in H : f <= Final(H))
  BY CalendarLaws
<1>2. (\A e \in H : Y[e] \in Int) /\ \A d, e \in H : Y[e] < Y[d] => e < d
  <2>1. H \in SUBSET DOMAIN cal.dates
    BY CalendarLaws
  <2> QED BY <2>1, YearLaws
<1>3. o = Ordered(T) /\ (\A k : End(k) = Final(S(k))) /\ \A k : S(k) = {e \in H : Y[e] = o[k]}
  BY DEF FoldYears, YearEnd, FoldSessions
<1> HIDE DEF Y, n, o, End
<1>4. IsFiniteSet(T) /\ T \in SUBSET Int
  BY YearsAre DEF Y
<1>5. \A e \in H : Y[e] \in T
  OBVIOUS
<1>6. \A y \in T : \E e \in H : Y[e] = y
  OBVIOUS
<1> HIDE DEF T
<1>7. /\ m \in Nat /\ o \in [1..m -> T]
      /\ \A k, l \in 1..m : k < l => o[k] < o[l]
      /\ \A y \in T : \E k \in 1..m : o[k] = y
  BY <1>3, <1>4, OrderedIntegers
<1> HIDE DEF m, H, S
<1>8. \A k \in 1..m : o[k] \in T /\ o[k] \in Int
  BY <1>4, <1>7
<1>9. ASSUME NEW k \in 1..m
      PROVE  /\ End(k) \in H /\ Y[End(k)] = o[k] /\ End(k) \in Int
             /\ \A e \in H : Y[e] = o[k] => e <= End(k)
  <2>1. S(k) \in SUBSET (1..n) /\ S(k) # {}
    <3>1. PICK e \in H : Y[e] = o[k]
      BY <1>6, <1>8
    <3> QED BY <1>1, <1>3, <3>1
  <2>2. End(k) \in S(k) /\ \A f \in S(k) : f <= End(k)
    BY <1>1, <1>3, <2>1, EndsLaws
  <2> QED BY <1>1, <1>3, <2>2
<1>10. 1 <= m
  <2>1. PICK k \in 1..m : o[k] = Y[First(H)]
    BY <1>1, <1>5, <1>7
  <2> QED BY <1>7, <2>1
<1>11. End(m) = Final(H)
  <2> DEFINE f == Final(H)
  <2>1. PICK j \in 1..m : o[j] = Y[f]
    BY <1>1, <1>5, <1>7
  <2>2. m \in 1..m /\ f \in H /\ f \in Int /\ End(m) \in H /\ End(m) \in Int /\ Y[End(m)] = o[m] /\ End(m) <= f
    <3>1. m \in 1..m
      BY <1>7, <1>10
    <3>2. End(m) \in H /\ End(m) \in Int /\ Y[End(m)] = o[m]
      BY <1>9, <3>1
    <3> QED BY <1>1, <3>1, <3>2
  <2> HIDE DEF f
  <2>3. j = m
    <3>1. ~(j < m)
      <4> SUFFICES ASSUME j < m PROVE FALSE
        OBVIOUS
      <4>1. Y[f] < Y[End(m)]
        BY <1>7, <2>1, <2>2
      <4>2. f < End(m)
        BY <1>2, <2>2, <4>1
      <4> QED BY <2>2, <4>2
    <3> QED BY <1>7, <3>1
  <2>4. f <= End(m)
    BY <1>9, <2>1, <2>2, <2>3
  <2>5. End(m) = f
    BY <2>2, <2>4
  <2> QED BY <2>5 DEF f
<1>12. ASSUME NEW k \in 1..m
       PROVE  /\ YearStart(cal, k) \in H /\ YearStart(cal, k) <= End(k)
              /\ Between(H, YearStart(cal, k), End(k)) \in SUBSET S(k)
              /\ \A e \in S(k) : e \in Between(H, YearStart(cal, k), End(k)) \/ e = First(H)
  <2> DEFINE s == YearStart(cal, k)
             B == Between(H, s, End(k))
  <2>1. B = {e \in H : s < e /\ e <= End(k)}
    BY DEF Between
  <2>2. End(k) \in H /\ End(k) \in Int /\ Y[End(k)] = o[k] /\ o[k] \in Int /\ k \in Int
    BY <1>8, <1>9
  <2>3. \A e \in H : /\ e \in Int /\ Y[e] \in Int
                     /\ e <= End(k) => Y[e] <= o[k]
                     /\ Y[e] = o[k] => e <= End(k)
                     /\ \E j \in 1..m : o[j] = Y[e]
    <3> TAKE e \in H
    <3>1. e \in Int /\ Y[e] \in Int
      BY <1>1, <1>2
    <3>2. o[k] < Y[e] => End(k) < e
      BY <1>2, <2>2
    <3>3. \E j \in 1..m : o[j] = Y[e]
      BY <1>5, <1>7
    <3>4. Y[e] = o[k] => e <= End(k)
      BY <1>9
    <3> QED BY <2>2, <3>1, <3>2, <3>3, <3>4
  <2>4. CASE k = 1
    <3>1. s = First(H)
      BY <2>4 DEF YearStart, H
    <3>2. \A e \in H : e <= End(k) => Y[e] = o[k]
      <4> SUFFICES ASSUME NEW e \in H, e <= End(k) PROVE Y[e] = o[k]
        OBVIOUS
      <4>1. PICK j \in 1..m : o[j] = Y[e]
        BY <2>3
      <4>2. j # k => o[k] < o[j]
        BY <1>7, <2>4
      <4> QED BY <2>2, <2>3, <4>1, <4>2
    <3>3. s \in H /\ s <= End(k) /\ \A e \in H : s <= e
      BY <1>1, <2>2, <3>1
    <3>4. B \in SUBSET S(k)
      BY <1>3, <2>1, <3>2
    <3>5. \A e \in S(k) : e \in B \/ e = First(H)
      <4> TAKE e \in S(k)
      <4>1. e \in H /\ Y[e] = o[k]
        BY <1>3
      <4>2. e \in Int /\ s \in Int /\ s <= e /\ e <= End(k)
        BY <1>1, <2>3, <3>3, <4>1
      <4> QED BY <2>1, <3>1, <4>1, <4>2
    <3> QED BY <3>3, <3>4, <3>5
  <2>5. CASE k # 1
    <3>1. k - 1 \in 1..m /\ k - 1 < k /\ s = End(k - 1)
      BY <1>7, <2>2, <2>5 DEF YearStart, End
    <3>2. /\ s \in H /\ s \in Int /\ Y[s] = o[k - 1] /\ o[k - 1] < o[k] /\ o[k - 1] \in Int
          /\ \A e \in H : Y[e] = o[k - 1] => e <= s
      BY <1>7, <1>8, <1>9, <3>1
    <3>3. s < End(k)
      BY <1>2, <2>2, <3>2
    <3>4. \A e \in H : s < e /\ e <= End(k) => Y[e] = o[k]
      <4> SUFFICES ASSUME NEW e \in H, s < e, e <= End(k) PROVE Y[e] = o[k]
        OBVIOUS
      <4>1. PICK j \in 1..m : o[j] = Y[e]
        BY <2>3
      <4>2. ~(j < k - 1)
        <5> SUFFICES ASSUME j < k - 1 PROVE FALSE
          OBVIOUS
        <5>1. Y[e] < Y[s]
          BY <1>7, <3>1, <3>2, <4>1
        <5>2. e < s
          BY <1>2, <3>2, <5>1
        <5> QED BY <2>3, <3>2, <5>2
      <4>3. j # k - 1
        BY <2>3, <3>2, <4>1
      <4>4. k < j => o[k] < o[j]
        BY <1>7
      <4>5. ~(k < j)
        BY <2>2, <2>3, <4>1, <4>4
      <4>6. j = k
        BY <2>2, <4>2, <4>3, <4>5
      <4> QED BY <4>1, <4>6
    <3>5. B \in SUBSET S(k)
      BY <1>3, <2>1, <3>4
    <3>6. \A e \in S(k) : e \in B
      <4> TAKE e \in S(k)
      <4>1. e \in H /\ Y[e] = o[k] /\ e <= End(k)
        BY <1>3, <2>3
      <4>2. s < e
        BY <1>2, <3>2, <4>1
      <4> QED BY <2>1, <4>1, <4>2
    <3> QED BY <2>2, <3>2, <3>3, <3>5, <3>6
  <2> QED BY <2>4, <2>5
<1>13. DOMAIN o = 1..m
  BY <1>7
<1> QED BY <1>7, <1>9, <1>10, <1>11, <1>12, <1>13 DEF m, o, T, Y, H, S, End

\* The returns of m legal folds, each from where it starts to where it ends.
FoldsAre(cal, m, folds) ==
    /\ DOMAIN folds = 1..m
    /\ \A k \in 1..m : /\ folds[k].year = FoldYears(cal)[k]
                       /\ folds[k].value = Div(EquityAt(cal, YearEnd(cal, k)), EquityAt(cal, YearStart(cal, k)))

\* They are what the engine derives when the folds are legal.
LEMMA FoldReturnsAre ==
    ASSUME NEW cal \in Calendars, FoldReturns(cal) # <<>>
    PROVE  FoldsAre(cal, Cardinality({YearKey(cal)[e] : e \in cal.held}), FoldReturns(cal))
<1> DEFINE m == Cardinality({YearKey(cal)[e] : e \in cal.held})
           B == FoldBoundaries(cal)
           F == FoldReturns(cal)
<1>1. DOMAIN FoldYears(cal) = 1..m
  BY FoldLaws
<1> HIDE DEF m
<1>2. /\ DOMAIN B = 1..m
      /\ \A k \in 1..m : /\ B[k].year = FoldYears(cal)[k]
                         /\ B[k].end = YearEnd(cal, k) /\ B[k].start = YearStart(cal, k)
  BY <1>1, BoundariesAre
<1>3. F = [k \in DOMAIN B |-> [year |-> B[k].year,
                               value |-> Div(EquityAt(cal, B[k].end), EquityAt(cal, Anchor(cal, B[k])))]]
  BY DEF FoldReturns
<1>4. \A k : Anchor(cal, B[k]) = B[k].start
  BY DEF Anchor
<1> HIDE DEF B, F
<1>5. DOMAIN F = 1..m
  BY <1>2, <1>3
<1>6. ASSUME NEW k \in 1..m
      PROVE  /\ F[k].year = FoldYears(cal)[k]
             /\ F[k].value = Div(EquityAt(cal, YearEnd(cal, k)), EquityAt(cal, YearStart(cal, k)))
  <2>1. /\ F[k].year = B[k].year
        /\ F[k].value = Div(EquityAt(cal, B[k].end), EquityAt(cal, Anchor(cal, B[k])))
    BY <1>2, <1>3
  <2> QED BY <1>2, <1>4, <2>1
<1> QED BY <1>5, <1>6 DEF FoldsAre, F, m

\* Each fold starts where the one before it ended: together they are the whole.
LEMMA FoldsCompound ==
    ASSUME EvidenceInv, status = "done", NEW cal \in Calendars, FoldReturns(cal) # <<>>
    PROVE  ProductOver(DOMAIN FoldReturns(cal), LAMBDA k : FoldReturns(cal)[k].value)
               = Div(equity[Scored], equity[1])
<1> DEFINE H == cal.held
           m == Cardinality({YearKey(cal)[e] : e \in H})
           R == FoldReturns(cal)
           D == 1..m
           F == [k \in 0..m |-> EquityAt(cal, IF k = 0 THEN First(H) ELSE YearEnd(cal, k))]
           w == [k \in D |-> R[k].value]
<1>1. /\ m \in Nat /\ 1 <= m /\ YearEnd(cal, m) = Final(H)
      /\ \A k \in D : YearEnd(cal, k) \in H
  BY FoldLaws
<1>2. /\ DOMAIN R = D
      /\ \A k \in D : R[k].value = Div(EquityAt(cal, YearEnd(cal, k)), EquityAt(cal, YearStart(cal, k)))
  BY FoldReturnsAre DEF FoldsAre
<1>3. H \in SUBSET Int /\ First(H) \in H /\ Final(H) \in H /\ \A e \in H : First(H) <= e
  BY CalendarLaws
<1> HIDE DEF H, m, R
<1>4. \A k \in 0..m : F[k] \in Fraction /\ Less(Int0, F[k])
  <2> SUFFICES ASSUME NEW k \in 0..m PROVE F[k] \in Fraction /\ Less(Int0, F[k])
    OBVIOUS
  <2> DEFINE e == IF k = 0 THEN First(H) ELSE YearEnd(cal, k)
  <2>1. e \in H /\ F[k] = EquityAt(cal, e)
    BY <1>1, <1>3
  <2> HIDE DEF e, F
  <2>2. e \in Int /\ First(H) <= e
    BY <1>3, <2>1
  <2> QED BY <2>1, <2>2, EquityAtLaws DEF H
<1>5. Moves(F, w, D, 0, m)
  <2> SUFFICES ASSUME NEW k \in (0 + 1)..m
               PROVE  IF k \in D THEN w[k] = Div(F[k], F[k - 1]) ELSE F[k] = F[k - 1]
    BY DEF Moves
  <2>1. k \in D /\ k \in Int /\ k \in 0..m /\ k - 1 \in 0..m /\ k # 0
    BY <1>1
  <2>2. w[k] = Div(EquityAt(cal, YearEnd(cal, k)), EquityAt(cal, YearStart(cal, k)))
    BY <1>2, <2>1
  <2>3. F[k] = EquityAt(cal, YearEnd(cal, k))
    BY <2>1
  <2>4. F[k - 1] = EquityAt(cal, YearStart(cal, k))
    <3>1. CASE k = 1
      BY <2>1, <3>1 DEF YearStart, H
    <3>2. CASE k # 1
      BY <2>1, <3>2 DEF YearStart
    <3> QED BY <3>1, <3>2
  <2> QED BY <2>1, <2>2, <2>3, <2>4
<1>6. Between(D, 0, m) = D
  <2>1. \A k \in D : 0 < k /\ k <= m
    BY <1>1
  <2> QED BY <2>1 DEF Between
<1>7. F[m] = EquityAt(cal, Final(H)) /\ F[0] = EquityAt(cal, First(H))
  BY <1>1
<1>8. ProductOver(D, LAMBDA k : R[k].value) = ProductOf(w)
  BY DEF ProductOver
<1>9. D \in SUBSET Int /\ 0 <= m /\ m \in Int /\ 0 \in Int
  BY <1>1
<1>10. w = [k \in D |-> w[k]]
  OBVIOUS
<1>11. EquityAt(cal, Final(H)) = equity[Scored] /\ EquityAt(cal, First(H)) = equity[1]
  <2>1. Position(cal, First(H)) = 1
    BY PositionLaws DEF H
  <2>2. Final(H) \in Int /\ Final(H) <= Final(H)
    <3> DEFINE b == Final(H)
    <3>1. b \in Int
      BY <1>3
    <3> HIDE DEF b
    <3>2. b <= b
      BY <3>1
    <3> QED BY <3>1, <3>2 DEF b
  <2>3. Position(cal, Final(H)) = Scored
    BY <2>2, PositionLaws DEF H
  <2> QED BY <2>1, <2>3 DEF EquityAt
<1> HIDE DEF F, w, D
<1>12. ProductOf([k \in Between(D, 0, m) |-> w[k]]) = Div(F[m], F[0])
  <2> DEFINE a == 0
  <2>1. a \in Int /\ a <= m /\ Moves(F, w, D, a, m) /\ \A k \in a..m : F[k] \in Fraction /\ Less(Int0, F[k])
    BY <1>4, <1>5, <1>9
  <2> HIDE DEF a
  <2>2. ProductOf([k \in Between(D, a, m) |-> w[k]]) = Div(F[m], F[a])
    BY <1>9, <2>1, Telescope
  <2> QED BY <2>2 DEF a
<1> QED BY <1>2, <1>6, <1>7, <1>8, <1>10, <1>11, <1>12 DEF R

\* A fold's return is that of its year when every session of the year is held.
LEMMA FoldIsYear ==
    ASSUME EvidenceInv, status = "done", NEW cal \in Calendars, FoldReturns(cal) # <<>>,
           NEW k \in DOMAIN FoldReturns(cal),
           PeriodEvidence(cal, YearKey(cal))[FoldReturns(cal)[k].year].status = "AVAILABLE"
    PROVE  FoldReturns(cal)[k].value = PeriodEvidence(cal, YearKey(cal))[FoldReturns(cal)[k].year].value
<1> DEFINE H == cal.held
           Y == YearKey(cal)
           m == Cardinality({Y[e] : e \in H})
           y == FoldReturns(cal)[k].year
           row == PeriodEvidence(cal, Y)[y]
           a == YearStart(cal, k)
           b == YearEnd(cal, k)
           S == InPeriod(Y, y)
           T == Between(H, a, b)
           G == GrowthOf(cal)
           R == Returns(cal)
           x == ProductOver(S \cap DOMAIN R, LAMBDA e : R[e])
           w == Restrict(G, S)
<1>1. /\ k \in 1..m /\ y = FoldYears(cal)[k]
      /\ FoldReturns(cal)[k].value = Div(EquityAt(cal, b), EquityAt(cal, a))
  BY FoldReturnsAre DEF FoldsAre
<1>2. /\ a \in H /\ b \in H /\ a <= b
      /\ T \in SUBSET FoldSessions(cal, y)
      /\ \A e \in FoldSessions(cal, y) : e \in T \/ e = First(H)
  BY <1>1, FoldLaws
<1>3. IsFiniteSet(H) /\ H \in SUBSET Int /\ H \in SUBSET DOMAIN cal.dates /\ \A e \in H : First(H) <= e
  BY CalendarLaws
<1>4. G \in [H -> Fraction] /\ G[First(H)] = Int1
  BY ReturnsLaws
<1>5. DOMAIN Y = DOMAIN cal.dates
  BY YearLaws
<1>6. y \in Range(Y)
  <2>1. \E e \in H : Y[e] = y
    <3>1. 1..m = DOMAIN FoldYears(cal)
      BY FoldLaws
    <3>2. IsFiniteSet({Y[e] : e \in H}) /\ {Y[e] : e \in H} \in SUBSET Int
      BY YearsAre
    <3>3. FoldYears(cal) \in [1..m -> {Y[e] : e \in H}]
      <4> DEFINE Q == {Y[e] : e \in H}
      <4> HIDE DEF Q
      <4>1. Ordered(Q) \in [1..Cardinality(Q) -> Q]
        BY <3>2, OrderedIntegers DEF Q
      <4> QED BY <4>1 DEF FoldYears, Q
    <3> QED BY <1>1, <3>3
  <2> QED BY <1>3, <1>5, <2>1 DEF Range
<1>7. row = IF S \subseteq H THEN Available(x) ELSE Unknown("INCOMPLETE_PERIOD")
  BY <1>6 DEF PeriodEvidence, PeriodSessions
<1>8. row.status = "AVAILABLE"
  OBVIOUS
<1>9. FoldSessions(cal, y) = {e \in H : Y[e] = y} /\ S = {e \in DOMAIN Y : Y[e] = y}
  BY DEF FoldSessions, InPeriod
<1> HIDE DEF row, y, a, b, S, T, G, R, x, Y, H, m
<1>10. S \subseteq H /\ row.value = x
  <2>1. S \subseteq H
    BY <1>7, <1>8 DEF Unknown
  <2> QED BY <1>7, <2>1 DEF Available
<1>11. S = FoldSessions(cal, y)
  BY <1>3, <1>5, <1>9, <1>10
<1>12. x = ProductOf(w)
  <2>1. ProductOver(S \cap DOMAIN R, LAMBDA e : R[e]) = ProductOf(Restrict(G, S))
    BY <1>10, PeriodProduct DEF H, R, G
  <2> QED BY <2>1 DEF x
<1>13. IsFiniteSet(S) /\ w \in [S -> Fraction]
  BY <1>3, <1>4, <1>10, ProductStep
<1>14. T \in SUBSET S /\ \A e \in S \ T : w[e] = Int1
  BY <1>2, <1>4, <1>11 DEF Restrict
<1>15. Restrict(w, T) = [e \in T |-> G[e]]
  BY <1>14 DEF Restrict
<1> HIDE DEF w
<1>16. ProductOf(w) = ProductOf(Restrict(w, T))
  BY <1>13, <1>14, ProductExtends
<1>17. ProductOf([e \in T |-> G[e]]) = Div(EquityAt(cal, b), EquityAt(cal, a))
  <2>1. a \in Int /\ b \in Int /\ First(H) <= a /\ a <= b
    BY <1>2, <1>3
  <2> QED BY <2>1, GrowthTelescopes DEF H, T, G
<1>18. FoldReturns(cal)[k].value = row.value
  BY <1>1, <1>10, <1>12, <1>15, <1>16, <1>17
<1> QED BY <1>18 DEF row, Y, y

(***************************************************************************)
(* No return is lost or counted twice: complete months, complete years,    *)
(* the walk-forward folds and the regimes each compound to the return of   *)
(* the whole replay, and a fold's return is that of its year.              *)
(***************************************************************************)
THEOREM ReturnsAlwaysCompound == EvidenceSpec => []ReturnsCompound
<1>1. EvidenceInv => ReturnsCompound
  <2> SUFFICES ASSUME EvidenceInv, derived # NoEvidence PROVE ReturnsCompound
    BY DEF ReturnsCompound
  <2>1. PICK cal \in Calendars : derived = EvidenceOf(cal)
    BY DEF EvidenceInv, DerivedInv
  <2>2. status = "done"
    BY DEF EvidenceInv, DerivedInv
  <2> DEFINE months == PeriodEvidence(cal, MonthKey(cal))
             years == PeriodEvidence(cal, YearKey(cal))
             folds == FoldReturns(cal)
             whole == Div(equity[Scored], equity[1])
  <2>3. /\ derived.rows = months /\ derived.years = years /\ derived.folds = folds
        /\ derived.regimes = Attribution /\ derived.metrics = Metrics
    BY <2>1 DEF EvidenceOf
  <2>4. derived.metrics.total = whole
    BY <2>2, <2>3, EquityLaws DEF Metrics
  <2>5. Compound(months)
    <3>1. DOMAIN MonthKey(cal) = DOMAIN cal.dates
      BY DEF MonthKey
    <3> QED BY <2>2, <3>1, RowsCompound
  <2>6. Compound(years)
    <3>1. DOMAIN YearKey(cal) = DOMAIN cal.dates
      BY DEF YearKey
    <3> QED BY <2>2, <3>1, RowsCompound
  <2>7. Compound(Attribution)
    BY <2>2, RegimesCompound
  <2>8. folds # <<>> => ProductOver(DOMAIN folds, LAMBDA k : folds[k].value) = whole
    BY <2>2, FoldsCompound
  <2>9. folds # <<>> => \A k \in DOMAIN folds :
            years[folds[k].year].status = "AVAILABLE" => folds[k].value = years[folds[k].year].value
    BY <2>2, FoldIsYear
  <2> HIDE DEF months, years, folds
  <2> QED BY <2>3, <2>4, <2>5, <2>6, <2>7, <2>8, <2>9 DEF ReturnsCompound, Compound, whole
<1> QED BY <1>1, EvidenceAlways, PTL
=============================================================================
