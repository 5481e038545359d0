----------------------- MODULE ResearchLifecycle_proofs -----------------------
(***************************************************************************)
(* Proofs about the research lifecycle.  A step of the optimizer either    *)
(* leaves the search alone, starts or forgets it, or is one of its own;    *)
(* the processes share nothing with it but the experiments, which are      *)
(* never changed once they are whole.                                      *)
(***************************************************************************)
EXTENDS ResearchLifecycle, TLAPS

-----------------------------------------------------------------------------
\* The search.

\* The out-of-sample streak counts the failures at the end.
Streak ==
    /\ oos_stale \in 0 .. Len(evaluations)
    /\ \A i \in Len(evaluations) - oos_stale + 1 .. Len(evaluations) : ~evaluations[i].improved
    /\ oos_stale < Len(evaluations) => evaluations[Len(evaluations) - oos_stale].improved

\* While the search goes on no streak is complete; stale counts the candidates
\* since the best one, but not the one whose failure ended the search.
OnGoing ==
    /\ IF stop_reason = "PERSISTENT_OOS_FAILURE"
          THEN best + stale + 1 = Len(evaluations)
          ELSE best + stale = Len(evaluations)
    /\ Searching => oos_stale < Patience
    /\ stale >= Patience <=> stop_reason = "NO_MEANINGFUL_IMPROVEMENT"

SearchInv ==
    /\ SearchTypeOK
    /\ Streak
    /\ OnGoing
    /\ BestIsNearlyBest
    /\ StopIsJustified

Fresh ==
    /\ evaluations = <<>> /\ best = 0 /\ stale = 0 /\ oos_stale = 0
    /\ stop_reason \in {"NONE", "RUNNING"}

SearchStep ==
    \/ Fresh'
    \/ \E e \in Evidence : Evaluate(e)
    \/ StopAtMaximum
    \/ Exhaust
    \/ UNCHANGED searchVars

\* An evaluation is a record with these fields.
LEMMA EvidenceFields ==
    ASSUME NEW e \in Evidence
    PROVE  /\ e.score \in Int \cup {NoScore}
           /\ e.improved \in BOOLEAN /\ e.deteriorated \in BOOLEAN
  BY SearchAssumption

\* A search without evaluations satisfies the invariant.
LEMMA FreshSearch == Fresh => SearchInv
<1> SUFFICES ASSUME Fresh PROVE SearchInv
  OBVIOUS
<1> USE DEF Fresh
<1>1. Len(evaluations) = 0 /\ evaluations \in Seq(Evidence)
  OBVIOUS
<1>2. SearchTypeOK /\ Streak /\ OnGoing
  BY <1>1, SearchAssumption DEF SearchTypeOK, Streak, OnGoing, Searching
<1>3. BestIsNearlyBest
  BY <1>1 DEF BestIsNearlyBest
<1>4. StopIsJustified
  BY <1>1, SearchAssumption DEF StopIsJustified, Complete, Unimproved
<1> QED BY <1>2, <1>3, <1>4 DEF SearchInv

LEMMA FreshSearchNext == Fresh' => SearchInv'
  BY FreshSearch, PTL

\* What Append does to the evaluations.
LEMMA Appended ==
    ASSUME evaluations \in Seq(Evidence), NEW e \in Evidence, Taken(e)
    PROVE  /\ evaluations' \in Seq(Evidence)
           /\ Len(evaluations) \in Nat
           /\ Len(evaluations') = Len(evaluations) + 1
           /\ Len(evaluations') <= MaxCandidates
           /\ evaluations'[Len(evaluations')] = e
           /\ \A i \in 1 .. Len(evaluations) : evaluations'[i] = evaluations[i]
  BY SearchAssumption DEF Taken, MayEvaluate

LEMMA StreakStep ==
    ASSUME SearchInv, NEW e \in Evidence, Taken(e)
    PROVE  Streak' /\ oos_stale' \in 0 .. Patience
<1> DEFINE n == Len(evaluations)
<1>1. /\ n \in Nat /\ Len(evaluations') = n + 1
      /\ evaluations'[n + 1] = e
      /\ \A i \in 1 .. n : evaluations'[i] = evaluations[i]
  BY Appended DEF SearchInv, SearchTypeOK
<1>2. oos_stale \in 0 .. n /\ oos_stale < Patience /\ Patience \in Nat
  BY SearchAssumption DEF SearchInv, Streak, OnGoing, Taken, MayEvaluate
<1>3. oos_stale' = IF e.improved THEN 0 ELSE oos_stale + 1
  BY DEF Taken, OosStreak
<1>4. CASE e.improved
  BY <1>1, <1>2, <1>3, <1>4 DEF Streak
<1>5. CASE ~e.improved
  <2>1. oos_stale' = oos_stale + 1
    BY <1>3, <1>5
  <2>2. \A i \in Len(evaluations') - oos_stale' + 1 .. Len(evaluations') : ~evaluations'[i].improved
    BY <2>1, <1>1, <1>2, <1>5 DEF SearchInv, Streak
  <2>3. oos_stale' < Len(evaluations') => evaluations'[Len(evaluations') - oos_stale'].improved
    BY <2>1, <1>1, <1>2 DEF SearchInv, Streak
  <2> QED BY <2>1, <2>2, <2>3, <1>1, <1>2 DEF Streak
<1> QED BY <1>4, <1>5

\* A position that is less than P before k is one of the last P up to k.
LEMMA InWindow ==
    \A k \in Int, P \in Nat, s \in Nat : s < P => k - s \in k - P + 1 .. k
  OBVIOUS

\* A streak is complete after an evaluation only at its end, and then exactly
\* when the counter says so.
LEMMA CompleteStep ==
    ASSUME SearchInv, NEW e \in Evidence, Taken(e)
    PROVE  Complete' = IF oos_stale' >= Patience THEN {Len(evaluations')} ELSE {}
<1>0. PICK n \in Nat : n = Len(evaluations)
  BY Appended DEF SearchInv, SearchTypeOK
<1>1. /\ Len(evaluations') = n + 1
      /\ \A i \in 1 .. n : evaluations'[i] = evaluations[i]
  BY <1>0, Appended DEF SearchInv, SearchTypeOK
<1>2. Patience \in Nat /\ Patience >= 1
  BY SearchAssumption
<1>3. Streak' /\ oos_stale' \in 0 .. Patience
  BY StreakStep
<1>4. Complete = {}
  <2>1. stop_reason = "RUNNING"
    BY DEF Taken, MayEvaluate, Searching
  <2> QED BY <2>1 DEF SearchInv, StopIsJustified
<1>5. ASSUME NEW k \in Patience .. n PROVE ~Failing(k)'
  <2>1. ~Failing(k)
    BY <1>0, <1>4 DEF Complete
  <2> QED BY <2>1, <1>0, <1>1, <1>2 DEF Failing
<1>6. ASSUME NEW k \in Int, k = n + 1, k >= Patience PROVE Failing(k)' <=> oos_stale' >= Patience
  <2>1. /\ oos_stale' \in 0 .. k /\ oos_stale' <= Patience
        /\ \A i \in k - oos_stale' + 1 .. k : ~evaluations'[i].improved
        /\ oos_stale' < k => evaluations'[k - oos_stale'].improved
    BY <1>0, <1>1, <1>2, <1>3, <1>6 DEF Streak
  <2>2. CASE oos_stale' >= Patience
    <3>1. oos_stale' = Patience
      BY <2>2, <1>2, <1>3
    <3>2. Failing(k)'
      BY <2>1, <3>1 DEF Failing
    <3> QED BY <2>2, <3>2
  <2>3. CASE oos_stale' < Patience
    <3>1. PICK s \in Nat : s = oos_stale' /\ s < Patience
      BY <2>3, <1>2, <1>3
    <3>2. k - s \in k - Patience + 1 .. k
      BY <3>1, <1>2, InWindow
    <3>3. s < k
      BY <3>1, <1>2, <1>6
    <3>4. k - oos_stale' \in k - Patience + 1 .. k /\ oos_stale' < k
      BY <3>1, <3>2, <3>3
    <3>5. ~Failing(k)'
      BY <2>1, <3>4 DEF Failing
    <3> QED BY <2>1, <2>3, <3>5, <1>2
  <2> QED BY <2>2, <2>3, <2>1, <1>2
<1>7. oos_stale' >= Patience => n + 1 >= Patience
  BY <1>0, <1>1, <1>2, <1>3 DEF Streak
<1>8. \A k : k \in Complete' <=> k \in Patience .. n + 1 /\ Failing(k)'
  BY <1>0, <1>1 DEF Complete
<1>9. ASSUME NEW k \in Complete' PROVE k = n + 1 /\ n + 1 >= Patience
  BY <1>0, <1>1, <1>2, <1>5, <1>8
<1>10. n + 1 >= Patience => (n + 1 \in Complete' <=> oos_stale' >= Patience)
  BY <1>0, <1>1, <1>2, <1>6, <1>8
<1>11. CASE oos_stale' >= Patience
  <2>1. n + 1 \in Complete'
    BY <1>7, <1>10, <1>11
  <2> QED BY <2>1, <1>1, <1>9, <1>11
<1>12. CASE ~(oos_stale' >= Patience)
  BY <1>9, <1>10, <1>12
<1> QED BY <1>11, <1>12

\* An evaluation keeps the invariant.
LEMMA EvaluateStep ==
    ASSUME SearchInv, NEW e \in Evidence, Evaluate(e)
    PROVE  SearchInv'
<1>1. Taken(e)
  BY DEF Evaluate, FailPersistently, TakeLead, FallBehind
<1>2. PICK n \in Nat : n = Len(evaluations)
  BY <1>1, Appended DEF SearchInv, SearchTypeOK
<1>3. /\ evaluations' \in Seq(Evidence) /\ Len(evaluations') = n + 1 /\ n + 1 <= MaxCandidates
      /\ evaluations'[n + 1] = e
      /\ \A i \in 1 .. n : evaluations'[i] = evaluations[i] /\ evaluations[i] \in Evidence
  BY <1>1, <1>2, Appended DEF SearchInv, SearchTypeOK
<1>4. /\ best \in 0 .. n /\ stale \in Nat /\ best + stale = n /\ stale < Patience
      /\ stop_reason = "RUNNING"
      /\ Patience \in Nat /\ Patience >= 1 /\ Improvement \in Nat
  BY <1>1, <1>2, SearchAssumption
  DEF SearchInv, SearchTypeOK, OnGoing, Taken, MayEvaluate, Searching
<1>5. Streak' /\ oos_stale' \in 0 .. Patience
  BY <1>1, StreakStep
<1>6. /\ best' \in {best, n + 1} /\ stale' \in 0 .. Patience
      /\ stop_reason' \in {"RUNNING", "PERSISTENT_OOS_FAILURE", "NO_MEANINGFUL_IMPROVEMENT"}
      /\ stop_reason' = "PERSISTENT_OOS_FAILURE" <=> oos_stale' >= Patience
      /\ IF stop_reason' = "PERSISTENT_OOS_FAILURE"
            THEN best' + stale' + 1 = n + 1
            ELSE best' + stale' = n + 1
      /\ stale' = Patience <=> stop_reason' = "NO_MEANINGFUL_IMPROVEMENT"
  BY <1>2, <1>3, <1>4, <1>5 DEF Evaluate, FailPersistently, TakeLead, FallBehind
<1>7. SearchTypeOK' /\ OnGoing'
  <2>1. best' \in 0 .. Len(evaluations')
    BY <1>2, <1>3, <1>4, <1>6
  <2>2. SearchTypeOK'
    <3>1. evaluations' \in Seq(Evidence) /\ Len(evaluations') <= MaxCandidates
      BY <1>3
    <3> QED BY <2>1, <3>1, <1>5, <1>6 DEF SearchTypeOK
  <2>3. OnGoing'
    <3>1. Searching' => oos_stale' < Patience
      BY <1>4, <1>5, <1>6 DEF Searching
    <3>2. stale' >= Patience <=> stop_reason' = "NO_MEANINGFUL_IMPROVEMENT"
      BY <1>4, <1>6
    <3> QED BY <3>1, <3>2, <1>3, <1>6 DEF OnGoing
  <2> QED BY <2>2, <2>3
<1>8. BestIsNearlyBest'
  <2>1. /\ best # 0 => Eligible(evaluations[best])
        /\ \A i \in 1 .. n : Eligible(evaluations[i]) =>
              best # 0 /\ evaluations[i].score <= evaluations[best].score + Improvement
    BY <1>2 DEF SearchInv, BestIsNearlyBest
  <2>2. \A i \in 1 .. n : Eligible(evaluations[i]) => evaluations[i].score \in Int
    BY <1>3, EvidenceFields DEF Eligible
  <2>3. Eligible(e) => e.score \in Int
    BY EvidenceFields DEF Eligible
  <2>4. SUFFICES /\ best' # 0 => Eligible(evaluations'[best'])
                 /\ \A i \in 1 .. n + 1 : Eligible(evaluations'[i]) =>
                       best' # 0 /\ evaluations'[i].score <= evaluations'[best'].score + Improvement
    BY <1>3 DEF BestIsNearlyBest, Eligible
  <2>5. CASE TakeLead(e)
    <3>1. best' = n + 1 /\ Leads(e)
      BY <2>5, <1>3 DEF TakeLead
    <3>2. Eligible(e) /\ e.score \in Int /\ evaluations'[best'] = e
      BY <3>1, <2>3, <1>3 DEF Leads
    <3>3. best # 0 => e.score > evaluations[best].score + Improvement
      BY <3>1 DEF Leads
    <3>4. ASSUME NEW i \in 1 .. n, Eligible(evaluations[i])
          PROVE  evaluations[i].score <= e.score + Improvement
      <4>1. best \in 1 .. n /\ evaluations[i].score <= evaluations[best].score + Improvement
        BY <3>4, <2>1, <1>4
      <4>2. evaluations[i].score \in Int /\ evaluations[best].score \in Int
        BY <4>1, <3>4, <2>1, <2>2
      <4> QED BY <4>1, <4>2, <3>2, <3>3, <1>4
    <3>5. ASSUME NEW i \in 1 .. n + 1, Eligible(evaluations'[i])
          PROVE  evaluations'[i].score <= evaluations'[best'].score + Improvement
      <4>1. CASE i = n + 1
        BY <4>1, <3>1, <3>2, <1>4
      <4>2. CASE i \in 1 .. n
        BY <4>2, <3>2, <3>4, <3>5, <1>3
      <4> QED BY <4>1, <4>2
    <3> QED BY <3>1, <3>2, <3>5
  <2>6. CASE FallBehind(e) \/ FailPersistently(e)
    <3>1. best' = best
      BY <2>6 DEF FallBehind, FailPersistently
    <3>2. Eligible(e) => ~Leads(e)
      <4>1. CASE FallBehind(e)
        BY <4>1 DEF FallBehind
      <4>2. CASE FailPersistently(e)
        BY <4>2, <1>4 DEF FailPersistently, Taken, OosStreak, Eligible
      <4> QED BY <4>1, <4>2, <2>6
    <3>3. best # 0 => best \in 1 .. n /\ evaluations'[best] = evaluations[best]
      BY <1>3, <1>4
    <3>4. Eligible(e) => best # 0 /\ e.score <= evaluations[best].score + Improvement
      <4>1. best # 0 => evaluations[best].score \in Int
        BY <3>3, <2>1, <2>2
      <4> QED BY <4>1, <3>2, <2>3, <1>4 DEF Leads
    <3>5. ASSUME NEW i \in 1 .. n + 1, Eligible(evaluations'[i])
          PROVE  best # 0 /\ evaluations'[i].score <= evaluations[best].score + Improvement
      <4>1. CASE i = n + 1
        BY <4>1, <3>4, <3>5, <1>3
      <4>2. CASE i \in 1 .. n
        BY <4>2, <2>1, <3>5, <1>3
      <4> QED BY <4>1, <4>2
    <3> QED BY <3>1, <3>3, <3>5, <2>1
  <2> QED BY <2>5, <2>6 DEF Evaluate
<1>9. StopIsJustified'
  <2>1. Complete' = IF oos_stale' >= Patience THEN {n + 1} ELSE {}
    BY <1>1, <1>3, CompleteStep
  <2>2. PICK b \in Nat, k \in 0 .. Patience : b = best' /\ k = stale'
    BY <1>4, <1>6
  <2>3. Complete' # {} <=> stop_reason' = "PERSISTENT_OOS_FAILURE"
    BY <2>1, <1>6
  <2>4. CASE stop_reason' = "PERSISTENT_OOS_FAILURE"
    <3>1. b + k + 1 = n + 1 /\ k # Patience
      BY <2>2, <2>4, <1>6
    <3>2. n + 1 - b <= Patience
      BY <2>2, <3>1, <1>2, <1>4
    <3> QED BY <2>1, <2>2, <2>3, <2>4, <3>2, <1>3 DEF StopIsJustified, Unimproved
  <2>5. CASE stop_reason' # "PERSISTENT_OOS_FAILURE"
    <3>1. b + k = n + 1 /\ (k = Patience <=> stop_reason' = "NO_MEANINGFUL_IMPROVEMENT")
      BY <2>2, <2>5, <1>6
    <3>2. n + 1 - b <= Patience /\ (n + 1 - b = Patience <=> k = Patience)
      BY <2>2, <3>1, <1>2, <1>4
    <3> QED BY <2>1, <2>2, <2>3, <2>5, <3>1, <3>2, <1>3 DEF StopIsJustified, Unimproved
  <2> QED BY <2>4, <2>5
<1> QED BY <1>5, <1>7, <1>8, <1>9 DEF SearchInv

\* A step that leaves the evaluations, the leader and the streaks alone keeps
\* the invariant if it only ends the search for want of candidates.
LEMMA EndStep ==
    ASSUME SearchInv, StopAtMaximum \/ Exhaust
    PROVE  SearchInv'
<1>1. /\ stop_reason = "RUNNING" /\ stop_reason' \in {"MAX_CANDIDATES", "EXHAUSTED"}
      /\ UNCHANGED <<evaluations, best, stale, oos_stale>>
  BY DEF StopAtMaximum, Exhaust, Searching
<1>2. SearchTypeOK' /\ OnGoing'
  BY <1>1 DEF SearchInv, SearchTypeOK, OnGoing, Searching
<1>3. Streak' /\ BestIsNearlyBest'
  BY <1>1 DEF SearchInv, Streak, BestIsNearlyBest, Eligible
<1>4. StopIsJustified'
  BY <1>1 DEF SearchInv, StopIsJustified, Complete, Failing, Unimproved
<1> QED BY <1>2, <1>3, <1>4 DEF SearchInv

LEMMA SearchInvStep ==
    ASSUME SearchInv, SearchStep
    PROVE  SearchInv'
<1>1. CASE Fresh'
  BY <1>1, FreshSearchNext
<1>2. CASE \E e \in Evidence : Evaluate(e)
  BY <1>2, EvaluateStep
<1>3. CASE StopAtMaximum \/ Exhaust
  BY <1>3, EndStep
<1>4. CASE UNCHANGED searchVars
  BY <1>4 DEF searchVars, SearchInv, SearchTypeOK, Streak, OnGoing, Searching,
              BestIsNearlyBest, Eligible, StopIsJustified, Complete, Failing, Unimproved
<1> QED BY <1>1, <1>2, <1>3, <1>4 DEF SearchStep

-----------------------------------------------------------------------------
\* The experiments.

ExperimentOK(x) ==
    /\ experiments[x].file \in {"absent", "torn", "whole"}
    /\ IF experiments[x].file = "absent" THEN experiments[x] = Absent
                                         ELSE experiments[x].candidate \in Candidate

\* What the optimizer may assume of its own state.
OptimizerOK ==
    /\ families # None => families \in Seq(Seq(Candidate))
    /\ grid \in Seq(Candidate)
    /\ recording # None => recording.evidence \in Evidence /\ recording.id \in Experiment
                           /\ experiments[recording.id].file # "absent"
    /\ experiments \in [Experiment -> [candidate : Candidate \cup {None},
                                       accepted : BOOLEAN, file : File]]
    /\ \A x \in Experiment : ExperimentOK(x)

\* A recorded and accepted experiment.
Earned(x) == x \in Experiment /\ experiments[x].file = "whole" /\ experiments[x].accepted

\* A recorded experiment is not changed.
Kept == \A x \in Experiment : experiments[x].file = "whole" => experiments'[x] = experiments[x]

LEMMA OptimizerStepOK ==
    ASSUME OptimizerOK, OptimizerStep
    PROVE  OptimizerOK' /\ SearchStep /\ Kept
<1> USE DEF OptimizerOK
<1>1. CASE BeginOptimize
  BY <1>1, LifecycleAssumption DEF BeginOptimize, SearchStep, searchVars, Kept, ExperimentOK
<1>2. CASE NextFamily
  <2>1. Head(families) \in Seq(Candidate) /\ Tail(families) \in Seq(Seq(Candidate))
    BY <1>2 DEF NextFamily
  <2> QED BY <2>1, <1>2 DEF NextFamily, StartSearch, ResetSearch, SearchStep, Fresh, Kept, ExperimentOK
<1>3. CASE EndFamily
  BY <1>3 DEF EndFamily, StopAtMaximum, Exhaust, SearchStep, Kept, ExperimentOK
<1>4. CASE EndOptimize \/ AbortOptimize
  <2>1. /\ ForgetSearch /\ families' = None /\ experiments' = experiments
        /\ recording' \in {recording, None}
    BY <1>4 DEF EndOptimize, AbortOptimize
  <2>2. grid' = <<>> /\ Fresh'
    BY <2>1 DEF ForgetSearch, ResetSearch, Fresh
  <2>3. grid' \in Seq(Candidate)
    BY <2>2
  <2> QED BY <2>1, <2>2, <2>3 DEF SearchStep, Kept, ExperimentOK
<1>5. CASE FillRecord
  <2>1. /\ recording # None /\ recording' = None /\ families' = families
        /\ experiments' = [experiments EXCEPT ![recording.id].file = "whole"]
        /\ Evaluate(recording.evidence)
    BY <1>5 DEF FillRecord
  <2>2. grid' = Tail(grid) /\ grid # <<>>
    BY <2>1 DEF Evaluate, FailPersistently, TakeLead, FallBehind, Taken, MayEvaluate
  <2>3. grid' \in Seq(Candidate)
    BY <2>2
  <2>4. experiments' \in [Experiment -> [candidate : Candidate \cup {None},
                                        accepted : BOOLEAN, file : File]]
    BY <2>1 DEF File
  <2>5. \A x \in Experiment : ExperimentOK(x)'
    BY <2>1 DEF ExperimentOK
  <2>6. Kept
    BY <2>1 DEF Kept
  <2>7. SearchStep
    BY <2>1 DEF SearchStep
  <2> QED BY <2>1, <2>3, <2>4, <2>5, <2>6, <2>7
<1>6. ASSUME NEW e \in Evidence, CreateRecord(e) PROVE OptimizerOK' /\ SearchStep /\ Kept
  <2>1. NextId \in Experiment /\ experiments[NextId].file = "absent"
    <3>1. NextId \in Unused
      BY <1>6 DEF CreateRecord, NextId
    <3> QED BY <3>1 DEF Unused, Absent
  <2>2. PICK x \in Experiment : x = NextId /\ experiments[x].file = "absent"
    BY <2>1
  <2>3. PICK c \in Candidate : c = Head(grid)
    BY <1>6 DEF CreateRecord, MayEvaluate
  <2>4. PICK a \in BOOLEAN : a = Accepted(e)
    BY DEF Accepted
  <2>5. /\ experiments' = [experiments EXCEPT ![x] = [candidate |-> c, accepted |-> a, file |-> "torn"]]
        /\ recording' = [id |-> x, evidence |-> e]
        /\ UNCHANGED <<searchVars, families>>
    BY <1>6, <2>2, <2>3, <2>4 DEF CreateRecord
  <2>6. experiments' \in [Experiment -> [candidate : Candidate \cup {None},
                                        accepted : BOOLEAN, file : File]]
    BY <2>5 DEF File
  <2>7. \A y \in Experiment : ExperimentOK(y)'
    BY <2>5 DEF ExperimentOK
  <2>8. recording'.evidence \in Evidence /\ recording'.id \in Experiment
        /\ experiments'[recording'.id].file # "absent"
    BY <2>5
  <2>9. Kept
    BY <2>2, <2>5 DEF Kept
  <2> QED BY <2>5, <2>6, <2>7, <2>8, <2>9 DEF SearchStep, searchVars
<1> QED BY <1>1, <1>2, <1>3, <1>4, <1>5, <1>6 DEF OptimizerStep

-----------------------------------------------------------------------------
\* The registry and the audit directory.

Task == [stage : {"idle", "write", "snapshot", "load", "evaluate", "result"},
         exp : Experiment \cup {None}, file : File, frozen : Frozen \cup {None}]

\* Who is past idle holds an earned snapshot.
HolderOK(t) ==
    /\ t.stage = "idle" => t = Idle
    /\ t.stage # "idle" => Earned(t.exp)

OrphansOK ==
    /\ orphans \subseteq [exp : Experiment, file : File]
    /\ \A d \in orphans : Earned(d.exp)

RegistryOK ==
    /\ task \in [Process -> Task]
    /\ \A p \in Process : HolderOK(task[p])
    /\ \A x \in baselines : Earned(x)
    /\ OrphansOK

\* Between its use record and its result a process owns the digest.
Owning(t) == t.stage \in {"load", "evaluate", "result"}

OwnerOK(t) ==
    /\ Owning(t) => t.frozen \in started
    /\ t.stage = "load" => loads[t.frozen] = 0
    /\ t.stage \in {"evaluate", "result"} => loads[t.frozen] = 1
    /\ t.stage = "result" => results[t.frozen] = "torn"

OwnersApart ==
    \A p, q \in Process :
        p # q /\ Owning(task[p]) /\ Owning(task[q]) => task[p].frozen # task[q].frozen

RecordsOK ==
    /\ started \subseteq Frozen
    /\ loads \in [Frozen -> Nat] /\ results \in [Frozen -> File]
    /\ \A d \in Frozen : /\ d \notin started => loads[d] = 0
                         /\ results[d] # "absent" => loads[d] = 1

StartedEarned ==
    \A d \in started : \E x \in Experiment : Earned(x) /\ experiments[x].candidate = d[1]

\* The inductive invariant.
Inv ==
    /\ SearchInv
    /\ OptimizerOK
    /\ RegistryOK
    /\ RecordsOK /\ StartedEarned
    /\ \A p \in Process : OwnerOK(task[p])
    /\ OwnersApart

LEMMA IdleTask == Idle \in Task /\ Idle.stage = "idle" /\ ~Owning(Idle)
  BY DEF Idle, Task, File, Owning

LEMMA InitInv == Init => Inv
<1> SUFFICES ASSUME Init PROVE Inv
  OBVIOUS
<1> USE DEF Init
<1>1. SearchInv
  BY FreshSearch DEF Fresh, NoSearch
<1>2. OptimizerOK
  <2>1. grid = <<>> /\ grid \in Seq(Candidate)
    BY DEF NoSearch
  <2> QED BY <2>1, SearchAssumption DEF OptimizerOK, ExperimentOK, Absent, File
<1>3. RegistryOK
  BY IdleTask DEF RegistryOK, HolderOK, OrphansOK
<1>4. RecordsOK /\ StartedEarned
  BY DEF RecordsOK, StartedEarned, File
<1>5. (\A p \in Process : OwnerOK(task[p])) /\ OwnersApart
  BY IdleTask DEF OwnerOK, OwnersApart, Owning
<1> QED BY <1>1, <1>2, <1>3, <1>4, <1>5 DEF Inv

\* A step of the optimizer keeps the invariant: what was earned stays so.
LEMMA OptimizerKeepsInv ==
    ASSUME Inv, OptimizerStep, UNCHANGED sharedVars
    PROVE  Inv'
<1> USE DEF Inv
<1>1. OptimizerOK' /\ SearchStep /\ Kept
  BY OptimizerStepOK
<1>2. SearchInv'
  BY <1>1, SearchInvStep
<1>3. ASSUME NEW x, Earned(x) PROVE Earned(x)' /\ experiments'[x] = experiments[x]
  BY <1>1, <1>3 DEF Kept, Earned
<1>4. UNCHANGED <<baselines, orphans, task, started, loads, results>>
  BY DEF sharedVars, auditVars
<1>5. RegistryOK'
  BY <1>3, <1>4 DEF RegistryOK, HolderOK, OrphansOK
<1>6. StartedEarned'
  BY <1>3, <1>4 DEF StartedEarned
<1>7. RecordsOK' /\ OwnersApart' /\ \A p \in Process : OwnerOK(task[p])'
  BY <1>4 DEF RecordsOK, OwnersApart, OwnerOK, Owning
<1> QED BY <1>1, <1>2, <1>5, <1>6, <1>7

\* A process step that gives the process a sound task keeps the registry.
LEMMA RegistryStep ==
    ASSUME Inv, NEW p \in Process, NEW t \in Task, task' = [task EXCEPT ![p] = t],
           UNCHANGED optimizerVars, HolderOK(t),
           \A x \in baselines' : Earned(x), OrphansOK'
    PROVE  SearchInv' /\ OptimizerOK' /\ RegistryOK'
<1>1. UNCHANGED <<searchVars, families, recording, experiments, grid>>
  BY DEF optimizerVars, searchVars
<1>2. SearchInv'
  BY <1>1, SearchInvStep DEF Inv, SearchStep
<1>3. OptimizerOK'
  BY <1>1 DEF Inv, OptimizerOK, ExperimentOK
<1>4. \A x : Earned(x)' <=> Earned(x)
  BY <1>1 DEF Earned
<1>5. task'[p] = t /\ \A q \in Process : q # p => task'[q] = task[q]
  BY DEF Inv, RegistryOK
<1>6. \A q \in Process : HolderOK(task[q])'
  <2> SUFFICES ASSUME NEW q \in Process PROVE HolderOK(task[q])'
    OBVIOUS
  <2>1. CASE q = p
    BY <2>1, <1>4, <1>5 DEF HolderOK
  <2>2. CASE q # p
    BY <2>2, <1>4, <1>5 DEF Inv, RegistryOK, HolderOK
  <2> QED BY <2>1, <2>2
<1>7. task' \in [Process -> Task] /\ \A x \in baselines' : Earned(x)'
  BY <1>4 DEF Inv, RegistryOK
<1>8. RegistryOK'
  BY <1>6, <1>7 DEF RegistryOK
<1> QED BY <1>2, <1>3, <1>8

\* So does the audit directory, if the process ends up owning nothing.
LEMMA DisownStep ==
    ASSUME Inv, NEW p \in Process, NEW t \in Task, task' = [task EXCEPT ![p] = t],
           UNCHANGED optimizerVars, HolderOK(t), ~Owning(t),
           \A x \in baselines' : Earned(x), OrphansOK',
           UNCHANGED auditVars
    PROVE  Inv'
<1>1. SearchInv' /\ OptimizerOK' /\ RegistryOK'
  BY RegistryStep
<1>2. UNCHANGED <<experiments, started, loads, results>>
  BY DEF optimizerVars, auditVars
<1>3. RecordsOK' /\ StartedEarned'
  BY <1>2 DEF Inv, RecordsOK, StartedEarned, Earned
<1>0. task'[p] = t /\ \A q \in Process : q # p => task'[q] = task[q]
  BY DEF Inv, RegistryOK
<1>4. \A q \in Process : OwnerOK(task[q])'
  <2> SUFFICES ASSUME NEW q \in Process PROVE OwnerOK(task[q])'
    OBVIOUS
  <2>1. CASE q = p
    BY <2>1, <1>0 DEF OwnerOK, Owning
  <2>2. CASE q # p
    BY <2>2, <1>0, <1>2 DEF Inv, OwnerOK, Owning
  <2> QED BY <2>1, <2>2
<1>5. OwnersApart'
  BY <1>0 DEF Inv, OwnersApart, Owning
<1> QED BY <1>1, <1>3, <1>4, <1>5 DEF Inv

\* Orphans stay sound if nothing or a sound directory is added.
LEMMA OrphansStep ==
    ASSUME Inv, UNCHANGED optimizerVars,
           \/ orphans' = orphans
           \/ \E d \in [exp : Experiment, file : File] :
                 Earned(d.exp) /\ orphans' = orphans \cup {d}
    PROVE  OrphansOK'
<1>1. experiments' = experiments
  BY DEF optimizerVars
<1> QED BY <1>1 DEF Inv, RegistryOK, OrphansOK, Earned

\* Promotion, the loading of baselines, exceptions and crashes.
LEMMA PromotionKeepsInv ==
    ASSUME Inv, NEW p \in Process,
           PromotionStep(p) \/ Raise(p) \/ Crash(p) \/ \E moment \in Moment : RefuseReuse(p, moment)
    PROVE  Inv'
<1>0. /\ task[p] \in Task /\ HolderOK(task[p]) /\ \A x \in baselines : Earned(x)
      /\ task \in [Process -> Task]
  BY DEF Inv, RegistryOK
<1>1. ASSUME NEW t \in Task, HolderOK(t), ~Owning(t), Become(p, t),
             UNCHANGED <<optimizerVars, auditVars>>,
             \A x \in baselines' : Earned(x), OrphansOK'
      PROVE  Inv'
  BY <1>1, DisownStep DEF Become
<1>2. ASSUME NEW x \in Experiment, NEW gate \in BOOLEAN, Promote(p, x, gate) PROVE Inv'
  <2>1. Earned(x)
    BY <1>2 DEF Promote, Loadable, RequireAccepted, Earned
  <2> DEFINE t == [Idle EXCEPT !.stage = "write", !.exp = x]
  <2>2. t \in Task /\ HolderOK(t) /\ ~Owning(t)
    BY <2>1 DEF Idle, Task, File, HolderOK, Owning
  <2>3. Become(p, t) /\ UNCHANGED <<optimizerVars, auditVars, baselines, orphans>>
    BY <1>2 DEF Promote
  <2> QED BY <2>2, <2>3, <1>0, <1>1, OrphansStep
<1>3. ASSUME NEW x \in Experiment, LoadBaseline(p, x) PROVE Inv'
  <2>1. Earned(x)
    <3>1. \A q \in Process : At(q, "write") => Earned(task[q].exp)
      BY DEF Inv, RegistryOK, HolderOK, At
    <3>2. \A d \in Temporary : Earned(d.exp)
      BY <3>1 DEF Temporary, Inv, RegistryOK, OrphansOK
    <3> QED BY <1>3, <1>0, <3>2 DEF LoadBaseline
  <2> DEFINE t == [Idle EXCEPT !.stage = "snapshot", !.exp = x]
  <2>2. t \in Task /\ HolderOK(t) /\ ~Owning(t)
    BY <2>1 DEF Idle, Task, File, HolderOK, Owning
  <2>3. Become(p, t) /\ UNCHANGED <<optimizerVars, auditVars, baselines, orphans>>
    BY <1>3 DEF LoadBaseline
  <2> QED BY <2>2, <2>3, <1>0, <1>1, OrphansStep
<1>4. CASE WriteSnapshot(p)
  <2> DEFINE t == [task[p] EXCEPT !.file = IF @ = "absent" THEN "torn" ELSE "whole"]
  <2>1. task[p].stage = "write"
    BY <1>4 DEF WriteSnapshot, At
  <2>2. t \in Task /\ HolderOK(t) /\ ~Owning(t)
    BY <1>0, <2>1 DEF Task, File, HolderOK, Owning
  <2>3. Become(p, t) /\ UNCHANGED <<optimizerVars, auditVars, baselines, orphans>>
    BY <1>4 DEF WriteSnapshot
  <2> QED BY <2>2, <2>3, <1>0, <1>1, OrphansStep
<1>5. CASE Publish(p)
  <2> DEFINE t == [Idle EXCEPT !.stage = "snapshot", !.exp = task[p].exp]
  <2>1. task[p].stage = "write" /\ Earned(task[p].exp)
    BY <1>5, <1>0 DEF Publish, At, HolderOK
  <2>2. t \in Task /\ HolderOK(t) /\ ~Owning(t)
    BY <1>0, <2>1 DEF Idle, Task, File, HolderOK, Owning
  <2>3. Become(p, t) /\ UNCHANGED <<optimizerVars, auditVars, orphans>>
    BY <1>5 DEF Publish
  <2>4. \A x \in baselines' : Earned(x)
    BY <1>5, <1>0, <2>1 DEF Publish
  <2> QED BY <2>2, <2>3, <2>4, <1>1, OrphansStep
<1>6. CASE PublishFails(p) \/ Raise(p) \/ \E moment \in Moment : RefuseReuse(p, moment)
  <2>1. Become(p, Idle) /\ UNCHANGED <<optimizerVars, auditVars, baselines, orphans>>
    BY <1>6 DEF PublishFails, Raise, RefuseReuse
  <2>2. HolderOK(Idle)
    BY IdleTask DEF HolderOK
  <2> QED BY <2>1, <2>2, IdleTask, <1>0, <1>1, OrphansStep
<1>7. CASE Crash(p)
  <2> DEFINE d == [exp |-> task[p].exp, file |-> task[p].file]
  <2>1. Become(p, Idle) /\ UNCHANGED <<optimizerVars, auditVars, baselines>>
        /\ orphans' = orphans \cup {d}
    BY <1>7 DEF Crash
  <2>2. d \in [exp : Experiment, file : File] /\ Earned(d.exp)
    BY <1>7, <1>0 DEF Crash, At, HolderOK, Earned, Task
  <2>3. HolderOK(Idle)
    BY IdleTask DEF HolderOK
  <2>4. OrphansOK'
    BY <2>1, <2>2, OrphansStep
  <2> QED BY <2>1, <2>3, <2>4, IdleTask, <1>0, <1>1
<1> QED BY <1>2, <1>3, <1>4, <1>5, <1>6, <1>7 DEF PromotionStep

\* A process at work on the holdout: its task keeps the snapshot.
LEMMA HoldoutTask ==
    ASSUME Inv, NEW p \in Process, NEW t \in Task, task' = [task EXCEPT ![p] = t],
           UNCHANGED <<optimizerVars, baselines, orphans>>, HolderOK(t)
    PROVE  /\ SearchInv' /\ OptimizerOK' /\ RegistryOK'
           /\ experiments' = experiments
           /\ task'[p] = t /\ \A q \in Process : q # p => task'[q] = task[q]
<1>1. \A x \in baselines' : Earned(x)
  BY DEF Inv, RegistryOK
<1>2. OrphansOK'
  BY OrphansStep
<1> QED BY <1>1, <1>2, RegistryStep DEF optimizerVars, Inv, RegistryOK

\* The digest that is frozen is one of a candidate, and its snapshot is earned.
LEMMA FrozenIsEarned ==
    ASSUME Inv, NEW p \in Process, NEW moment \in Moment, At(p, "snapshot")
    PROVE  /\ FreezeAt(p, moment) \in Frozen
           /\ Earned(task[p].exp)
           /\ FreezeAt(p, moment)[1] = experiments[task[p].exp].candidate
<1>1. Earned(task[p].exp)
  BY DEF Inv, RegistryOK, HolderOK, At
<1>2. experiments[task[p].exp].candidate \in Candidate
  BY <1>1 DEF Inv, OptimizerOK, ExperimentOK, Earned
<1> QED BY <1>1, <1>2 DEF FreezeAt, Frozen

LEMMA ClaimKeepsInv ==
    ASSUME Inv, NEW p \in Process, NEW moment \in Moment, Claim(p, moment)
    PROVE  Inv'
<1> DEFINE d == FreezeAt(p, moment)
           t == [task[p] EXCEPT !.stage = "load", !.frozen = d]
<1>1. /\ At(p, "snapshot") /\ d \notin started /\ started' = started \cup {d}
      /\ task' = [task EXCEPT ![p] = t]
      /\ UNCHANGED <<optimizerVars, baselines, orphans, loads, results>>
  BY DEF Claim, Unclaimed, Become
<1>2. d \in Frozen /\ Earned(task[p].exp) /\ d[1] = experiments[task[p].exp].candidate
  BY <1>1, FrozenIsEarned
<1>3. t \in Task /\ t.stage = "load" /\ t.frozen = d /\ HolderOK(t)
  BY <1>2 DEF Inv, RegistryOK, Task, HolderOK
<1>4. /\ SearchInv' /\ OptimizerOK' /\ RegistryOK'
      /\ experiments' = experiments
      /\ task'[p] = t /\ \A q \in Process : q # p => task'[q] = task[q]
  BY <1>1, <1>3, HoldoutTask
<1>5. RecordsOK' /\ loads[d] = 0
  BY <1>1, <1>2 DEF Inv, RecordsOK
<1>6. StartedEarned'
  BY <1>1, <1>2, <1>4 DEF Inv, StartedEarned, Earned
<1>7. \A q \in Process : OwnerOK(task[q])'
  <2> SUFFICES ASSUME NEW q \in Process PROVE OwnerOK(task[q])'
    OBVIOUS
  <2>1. CASE q = p
    <3>1. task'[q] = t /\ t.stage = "load" /\ t.frozen \in started' /\ loads'[t.frozen] = 0
      BY <2>1, <1>1, <1>3, <1>4, <1>5
    <3> HIDE DEF t
    <3> QED BY <3>1 DEF OwnerOK, Owning
  <2>2. CASE q # p
    BY <2>2, <1>1, <1>4 DEF Inv, OwnerOK, Owning
  <2> QED BY <2>1, <2>2
<1>8. \A q \in Process : Owning(task[q]) => task[q].frozen # d
  BY <1>1 DEF Inv, OwnerOK
<1>9. OwnersApart'
  <2>1. /\ task'[p].frozen = d
        /\ \A q \in Process : q # p /\ Owning(task'[q]) => task'[q].frozen # d
    BY <1>3, <1>4, <1>8
  <2>2. \A q \in Process : q # p => task'[q] = task[q]
    BY <1>4
  <2> HIDE DEF d, t
  <2> QED BY <2>1, <2>2 DEF Inv, OwnersApart, Owning
<1> QED BY <1>4, <1>5, <1>6, <1>7, <1>9 DEF Inv

\* The other steps on the holdout change the records of a digest the process
\* owns, which no other process owns.
OwnStep(p, stage) ==
    /\ Owning(task[p])
    /\ \/ To(p, stage) /\ stage \in {"evaluate", "result"}
       \/ Become(p, Idle) /\ stage = "idle"
    /\ UNCHANGED <<optimizerVars, baselines, orphans, started>>
    /\ \A d \in Frozen \ {task[p].frozen} : loads'[d] = loads[d] /\ results'[d] = results[d]

LEMMA OwnStepKeepsInv ==
    ASSUME Inv, NEW p \in Process, NEW stage, OwnStep(p, stage), RecordsOK',
           OwnerOK(task[p])'
    PROVE  Inv'
<1> DEFINE t == IF stage = "idle" THEN Idle ELSE [task[p] EXCEPT !.stage = stage]
<1>1. task[p] \in Task /\ HolderOK(task[p]) /\ task[p].stage # "idle"
  BY DEF Inv, RegistryOK, OwnStep, Owning
<1>2. t \in Task /\ HolderOK(t) /\ (Owning(t) => t.frozen = task[p].frozen)
  BY <1>1, IdleTask DEF OwnStep, Task, HolderOK
<1>3. task' = [task EXCEPT ![p] = t]
  BY DEF OwnStep, To, Become
<1>4. /\ SearchInv' /\ OptimizerOK' /\ RegistryOK'
      /\ experiments' = experiments
      /\ task'[p] = t /\ \A q \in Process : q # p => task'[q] = task[q]
  BY <1>2, <1>3, HoldoutTask DEF OwnStep
<1>5. StartedEarned'
  BY <1>4 DEF Inv, StartedEarned, Earned, OwnStep
<1>6. ASSUME NEW q \in Process, q # p PROVE OwnerOK(task[q])'
  <2>1. CASE Owning(task[q])
    <3>1. task[q].frozen \in Frozen \ {task[p].frozen}
      BY <2>1, <1>6 DEF Inv, OwnerOK, OwnersApart, OwnStep, RecordsOK
    <3> QED BY <3>1, <1>4, <1>6 DEF Inv, OwnerOK, Owning, OwnStep
  <2>2. CASE ~Owning(task[q])
    BY <2>2, <1>4, <1>6 DEF OwnerOK, Owning
  <2> QED BY <2>1, <2>2
<1>7. OwnersApart'
  <2>1. /\ Owning(task[p]) /\ (Owning(task'[p]) => task'[p].frozen = task[p].frozen)
        /\ \A q \in Process : q # p => task'[q] = task[q]
    BY <1>2, <1>4 DEF OwnStep
  <2> HIDE DEF t
  <2> QED BY <2>1 DEF Inv, OwnersApart, Owning
<1> QED BY <1>4, <1>5, <1>6, <1>7 DEF Inv

LEMMA HoldoutKeepsInv ==
    ASSUME Inv, NEW p \in Process, LoadHoldout(p) \/ CreateResult(p) \/ FillResult(p)
    PROVE  Inv'
<1> DEFINE d == task[p].frozen
<1>1. /\ task \in [Process -> Task] /\ OwnerOK(task[p]) /\ Owning(task[p])
      /\ d \in started /\ d \in Frozen
      /\ loads \in [Frozen -> Nat] /\ results \in [Frozen -> File]
  BY DEF Inv, RegistryOK, RecordsOK, OwnerOK, Owning, LoadHoldout, CreateResult, FillResult, At
<1>2. CASE LoadHoldout(p)
  <2>1. loads' = [loads EXCEPT ![d] = @ + 1] /\ results' = results /\ started' = started
        /\ task'[p].stage = "evaluate" /\ task'[p].frozen = d /\ loads[d] = 0
    BY <1>1, <1>2 DEF LoadHoldout, To, Become, At, OwnerOK, Task
  <2>2. OwnStep(p, "evaluate")
    BY <1>1, <1>2, <2>1 DEF OwnStep, LoadHoldout
  <2>3. RecordsOK'
    BY <1>1, <2>1 DEF Inv, RecordsOK
  <2>4. OwnerOK(task[p])'
    BY <1>1, <2>1 DEF OwnerOK, Owning
  <2> QED BY <2>2, <2>3, <2>4, OwnStepKeepsInv
<1>3. CASE CreateResult(p)
  <2>1. results' = [results EXCEPT ![d] = "torn"] /\ loads' = loads /\ started' = started
        /\ task'[p].stage = "result" /\ task'[p].frozen = d /\ loads[d] = 1
    BY <1>1, <1>3 DEF CreateResult, To, Become, At, OwnerOK, Task
  <2>2. OwnStep(p, "result")
    BY <1>1, <1>3, <2>1 DEF OwnStep, CreateResult
  <2>3. RecordsOK'
    BY <1>1, <2>1 DEF Inv, RecordsOK, File
  <2>4. OwnerOK(task[p])'
    BY <1>1, <2>1 DEF OwnerOK, Owning
  <2> QED BY <2>2, <2>3, <2>4, OwnStepKeepsInv
<1>4. CASE FillResult(p)
  <2>1. results' = [results EXCEPT ![d] = "whole"] /\ loads' = loads /\ started' = started
        /\ task'[p] = Idle /\ loads[d] = 1
    BY <1>1, <1>4 DEF FillResult, Become, At, OwnerOK
  <2>2. OwnStep(p, "idle")
    BY <1>1, <1>4, <2>1 DEF OwnStep, FillResult
  <2>3. RecordsOK'
    BY <1>1, <2>1 DEF Inv, RecordsOK, File
  <2>4. OwnerOK(task[p])'
    BY <2>1, IdleTask DEF OwnerOK, Owning
  <2> QED BY <2>2, <2>3, <2>4, OwnStepKeepsInv
<1> QED BY <1>2, <1>3, <1>4

-----------------------------------------------------------------------------
\* The theorems.

LEMMA NextInv == Inv /\ [Next]_vars => Inv'
<1> SUFFICES ASSUME Inv, [Next]_vars PROVE Inv'
  OBVIOUS
<1>1. CASE OptimizerStep
  <2>1. UNCHANGED sharedVars
    BY <1>1 DEF OptimizerStep, BeginOptimize, NextFamily, EndFamily, EndOptimize, AbortOptimize,
                FillRecord, CreateRecord
  <2> QED BY <1>1, <2>1, OptimizerKeepsInv
<1>2. ASSUME NEW p \in Process, PromotionStep(p) \/ HoldoutStep(p) \/ Raise(p) \/ Crash(p)
      PROVE  Inv'
  <2>1. CASE HoldoutStep(p)
    BY <2>1, ClaimKeepsInv, PromotionKeepsInv, HoldoutKeepsInv DEF HoldoutStep
  <2> QED BY <1>2, <2>1, PromotionKeepsInv
<1>3. CASE UNCHANGED vars
  <2>1. UNCHANGED <<searchVars, grid, families, recording, experiments, baselines, orphans, task,
                    started, loads, results>>
    BY <1>3 DEF vars, optimizerVars, sharedVars, auditVars, searchVars
  <2>2. SearchInv'
    BY <2>1, SearchInvStep DEF Inv, SearchStep
  <2>3. OptimizerOK' /\ RegistryOK'
    BY <2>1 DEF Inv, OptimizerOK, ExperimentOK, RegistryOK, HolderOK, OrphansOK, Earned
  <2>4. RecordsOK' /\ StartedEarned' /\ OwnersApart' /\ \A p \in Process : OwnerOK(task[p])'
    BY <2>1 DEF Inv, RecordsOK, StartedEarned, Earned, OwnersApart, OwnerOK, Owning
  <2> QED BY <2>2, <2>3, <2>4 DEF Inv
<1> QED BY <1>1, <1>2, <1>3 DEF Next

\* The inductive invariant holds in every reachable state.
THEOREM InvCorrect == Spec => []Inv
  BY InitInv, NextInv, PTL DEF Spec

\* The lifecycle keeps its type, for any families, processes and bounds.
THEOREM TypeCorrect == Spec => []TypeOK
<1>1. Inv => TypeOK
  <2> SUFFICES ASSUME Inv PROVE TypeOK
    OBVIOUS
  <2>1. baselines \subseteq Experiment /\ orphans \subseteq [exp : Experiment, file : File]
    BY DEF Inv, RegistryOK, OrphansOK, Earned
  <2>2. \A x \in Experiment :
          \/ experiments[x] = Absent
          \/ /\ experiments[x].candidate \in Candidate
             /\ experiments[x].file \in {"torn", "whole"}
    BY DEF Inv, OptimizerOK, ExperimentOK
  <2>3. \A p \in Process :
          /\ At(p, "idle") <=> task[p] = Idle
          /\ task[p] # Idle => task[p].exp \in Experiment
          /\ task[p].frozen \in Frozen \cup {None}
    BY IdleTask DEF Inv, RegistryOK, HolderOK, Earned, At, Task
  <2> QED BY <2>1, <2>2, <2>3 DEF Inv, SearchInv, RecordsOK, TypeOK
<1> QED BY <1>1, InvCorrect, PTL

\* Whatever the order of the evaluations, the candidate a search returns is
\* eligible, and none that it saw is better by more than the improvement.
THEOREM BestCorrect == Spec => []BestIsNearlyBest
<1>1. Inv => BestIsNearlyBest
  BY DEF Inv, SearchInv
<1> QED BY <1>1, InvCorrect, PTL

\* A family is given up exactly for the reason that is reported.
THEOREM StopCorrect == Spec => []StopIsJustified
<1>1. Inv => StopIsJustified
  BY DEF Inv, SearchInv
<1> QED BY <1>1, InvCorrect, PTL

\* Nobody holds or spends the snapshot of an experiment that was not accepted.
THEOREM SnapshotsCorrect == Spec => []SnapshotsAreEarned
<1>1. Inv => SnapshotsAreEarned
  BY DEF Inv, RegistryOK, HolderOK, OrphansOK, StartedEarned, Earned, SnapshotsAreEarned, Held, At
<1> QED BY <1>1, InvCorrect, PTL

\* A step maps to a step of the one-shot holdout or to a stutter.
LEMMA StepRefines ==
    ASSUME Inv, [Next]_vars
    PROVE  [Holdout!Next]_<<started, loads, {d \in Frozen : results[d] = "whole"}>>
<1> DEFINE whole == {d \in Frozen : results[d] = "whole"}
<1>1. CASE UNCHANGED auditVars
  BY <1>1 DEF auditVars
<1>2. ASSUME NEW p \in Process, NEW moment \in Moment, Claim(p, moment) PROVE Holdout!Next
  <2> DEFINE k == FreezeAt(p, moment)
  <2>1. k \in Frozen /\ k \notin started /\ started' = started \cup {k}
        /\ UNCHANGED <<loads, results>>
    BY <1>2, FrozenIsEarned DEF Claim, Unclaimed
  <2>2. Holdout!Spend(k)
    BY <2>1 DEF Holdout!Spend
  <2> QED BY <2>1, <2>2 DEF Holdout!Next
<1>3. ASSUME NEW p \in Process, LoadHoldout(p) \/ CreateResult(p) \/ FillResult(p)
      PROVE  [Holdout!Next]_<<started, loads, whole>>
  <2> DEFINE k == task[p].frozen
  <2>1. OwnerOK(task[p]) /\ k \in started /\ k \in Frozen /\ started' = started
        /\ loads \in [Frozen -> Nat] /\ results \in [Frozen -> File]
    BY <1>3 DEF Inv, RecordsOK, OwnerOK, Owning, LoadHoldout, CreateResult, FillResult, At
  <2>2. CASE LoadHoldout(p)
    <3>0. loads[k] = 0 /\ loads' = [loads EXCEPT ![k] = @ + 1] /\ results' = results
      BY <2>1, <2>2 DEF LoadHoldout, At, OwnerOK
    <3>1. loads' = [loads EXCEPT ![k] = 1] /\ loads[k] = 0 /\ results' = results
      BY <2>1, <3>0
    <3>2. Holdout!See(k)
      BY <2>1, <3>1 DEF Holdout!See
    <3> QED BY <2>1, <3>2 DEF Holdout!Next
  <2>3. CASE CreateResult(p)
    <3>1. results[k] = "absent" /\ results' = [results EXCEPT ![k] = "torn"] /\ loads' = loads
      BY <2>3 DEF CreateResult
    <3>2. whole' = whole
      BY <2>1, <3>1
    <3> QED BY <2>1, <3>1, <3>2
  <2>4. CASE FillResult(p)
    <3>1. /\ loads[k] = 1 /\ results[k] = "torn" /\ loads' = loads
          /\ results' = [results EXCEPT ![k] = "whole"]
      BY <2>1, <2>4 DEF FillResult, At, OwnerOK
    <3>2. k \notin whole /\ whole' = whole \cup {k}
      BY <2>1, <3>1
    <3>3. Holdout!Conclude(k)
      BY <2>1, <3>1, <3>2 DEF Holdout!Conclude
    <3>4. Holdout!Next
      BY <2>1, <3>1, <3>2 DEF Holdout!Next, Holdout!Conclude
    <3> QED BY <3>4
  <2> QED BY <1>3, <2>2, <2>3, <2>4
<1>4. CASE OptimizerStep
  BY <1>4, <1>1 DEF OptimizerStep, BeginOptimize, NextFamily, EndFamily, EndOptimize, AbortOptimize,
                    FillRecord, CreateRecord, sharedVars
<1>5. ASSUME NEW p \in Process,
             PromotionStep(p) \/ Raise(p) \/ Crash(p) \/ \E moment \in Moment : RefuseReuse(p, moment)
      PROVE  UNCHANGED auditVars
  BY <1>5 DEF PromotionStep, LoadBaseline, Promote, WriteSnapshot, Publish, PublishFails, Raise,
              Crash, RefuseReuse
<1>6. CASE UNCHANGED vars
  BY <1>6, <1>1 DEF vars, sharedVars
<1> QED BY <1>1, <1>2, <1>3, <1>4, <1>5, <1>6 DEF Next, HoldoutStep

\* The sealed holdout is a one-shot per digest, whatever fails and whoever
\* competes for it.
THEOREM HoldoutRefined == Spec => HoldoutIsOneShot
<1>1. Init => Holdout!Init
  BY DEF Init, Holdout!Init
<1>2. Inv /\ [Next]_vars => [Holdout!Next]_<<started, loads, {d \in Frozen : results[d] = "whole"}>>
  BY StepRefines
<1> QED BY <1>1, <1>2, InvCorrect, PTL DEF Spec, HoldoutIsOneShot, Holdout!Spec
=============================================================================
