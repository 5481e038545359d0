-------------------------- MODULE ResearchLifecycle --------------------------
(***************************************************************************)
(* The life of a candidate of the quant package: an optimizer searches the *)
(* families and records every evaluation as an experiment (workflow.py,    *)
(* experiments.py), processes promote accepted experiments to baselines    *)
(* (promotion.py), freeze a baseline and spend the final holdout on it     *)
(* (validation/holdout.py).  They share the results directory, and any of  *)
(* them may fail or die between two steps on it.                           *)
(*                                                                         *)
(* What a frozen manifest takes from its experiment (strategy, parameters, *)
(* data, split, engine, costs, environment) is the candidate; its digest   *)
(* is the candidate together with the moment of freezing.                  *)
(***************************************************************************)
EXTENDS FamilySearch, FiniteSets

CONSTANTS
    Candidate,
    Families,         \* per family, in order, the candidates of its generator
    Threshold,        \* the score an accepted experiment needs, 60 in the code
    Process, Moment,
    None,
    MaxExperiments,   \* bound: experiments ever recorded
    MaxFailures       \* bound: exceptions and crashes

ASSUME LifecycleAssumption ==
    /\ Families \in Seq(Seq(Candidate))
    /\ {MaxExperiments, MaxFailures} \subseteq Nat
    /\ Threshold \in Int

Experiment == 1 .. MaxExperiments  \* ids
Frozen == Candidate \X Moment

VARIABLES
    families,     \* those the optimizer has not searched yet; None if it is idle
    recording,    \* the evidence whose experiment is being written, or None
    experiments,  \* id -> [candidate, accepted, file]
    baselines,    \* experiments whose snapshot is published
    orphans,      \* temporary directories that dead processes left
    task,
    started, loads, results,  \* the audit directory, and the holdout's loads
    failures

optimizerVars == <<searchVars, families, recording, experiments>>
auditVars == <<started, loads, results>>
sharedVars == <<baselines, orphans, task, auditVars>>
vars == <<optimizerVars, sharedVars, failures>>

Absent == [candidate |-> None, accepted |-> FALSE, file |-> "absent"]
Idle == [stage |-> "idle", exp |-> None, file |-> "absent", frozen |-> None]

Init ==
    /\ NoSearch
    /\ families = None /\ recording = None
    /\ experiments = [x \in Experiment |-> Absent]
    /\ baselines = {} /\ orphans = {}
    /\ task = [p \in Process |-> Idle]
    /\ started = {} /\ loads = [d \in Frozen |-> 0]
    /\ results = [d \in Frozen |-> "absent"]
    /\ failures = 0

-----------------------------------------------------------------------------
\* The optimizer.

BeginOptimize ==
    /\ families = None
    /\ families' = Families
    /\ UNCHANGED <<searchVars, recording, experiments, sharedVars, failures>>

NextFamily ==
    /\ families \notin {None, <<>>} /\ ~Searching
    /\ StartSearch(Head(families))
    /\ families' = Tail(families)
    /\ UNCHANGED <<recording, experiments, sharedVars, failures>>

\* _candidate_rejection_reasons: there is none.
Accepted(e) ==
    /\ e.score # NoScore /\ e.score >= Threshold
    /\ e.improved /\ ~e.deteriorated /\ e.consistent

Unused == {x \in Experiment : experiments[x] = Absent}
NextId == CHOOSE x \in Unused : TRUE  \* the id has the moment and a random part

\* The evaluated candidate's record: its file is created, then filled.
CreateRecord(e) ==
    /\ families # None /\ MayEvaluate /\ recording = None
    /\ Unused # {}
    /\ experiments' = [experiments EXCEPT ![NextId] =
          [candidate |-> Head(grid), accepted |-> Accepted(e), file |-> "torn"]]
    /\ recording' = [id |-> NextId, evidence |-> e]
    /\ UNCHANGED <<searchVars, families, sharedVars, failures>>

FillRecord ==
    /\ recording # None
    /\ experiments' = [experiments EXCEPT ![recording.id].file = "whole"]
    /\ Evaluate(recording.evidence)
    /\ recording' = None
    /\ UNCHANGED <<families, sharedVars, failures>>

EndFamily ==
    /\ recording = None
    /\ StopAtMaximum \/ Exhaust
    /\ UNCHANGED <<families, recording, experiments, sharedVars, failures>>

\* The summary and the reports are derived from what is recorded; a torn record
\* makes load_experiments raise, and the command is over all the same.
EndOptimize ==
    /\ families = <<>> /\ ~Searching
    /\ families' = None
    /\ ForgetSearch
    /\ UNCHANGED <<recording, experiments, sharedVars, failures>>

\* An exception ends the command as the death of the process does.
AbortOptimize ==
    /\ families # None
    /\ failures < MaxFailures
    /\ failures' = failures + 1
    /\ families' = None /\ recording' = None
    /\ ForgetSearch
    /\ UNCHANGED <<experiments, sharedVars>>

-----------------------------------------------------------------------------
\* Promotion: promote_candidate and BaselineRegistry.add.

Become(p, t) == task' = [task EXCEPT ![p] = t]
To(p, stage) == Become(p, [task[p] EXCEPT !.stage = stage])
At(p, stage) == task[p].stage = stage

Loadable(x) == experiments[x].file = "whole"

AcceptAny(x) == TRUE  \* mutant: the gate is trusted alone
RequireAccepted(x) == experiments[x].accepted

\* gate: the caller's gate has no failure.  A snapshot that is published is
\* refused; between that look and the rename others may publish it.
Promote(p, x, gate) ==
    /\ At(p, "idle") /\ Loadable(x)
    /\ gate /\ RequireAccepted(x)
    /\ x \notin baselines
    /\ Become(p, [Idle EXCEPT !.stage = "write", !.exp = x])
    /\ UNCHANGED <<optimizerVars, baselines, orphans, auditVars, failures>>

WriteSnapshot(p) ==
    /\ At(p, "write") /\ task[p].file # "whole"
    /\ Become(p, [task[p] EXCEPT
          !.file = IF @ = "absent" THEN "torn" ELSE "whole"])
    /\ UNCHANGED <<optimizerVars, baselines, orphans, auditVars, failures>>

\* os.replace fails on a directory that is there and not empty.
Publish(p) ==
    /\ At(p, "write") /\ task[p].file = "whole"
    /\ task[p].exp \notin baselines
    /\ baselines' = baselines \cup {task[p].exp}
    /\ Become(p, [Idle EXCEPT !.stage = "snapshot", !.exp = task[p].exp])
    /\ UNCHANGED <<optimizerVars, orphans, auditVars, failures>>

\* The finally clause removes the temporary directory.
PublishFails(p) ==
    /\ At(p, "write") /\ task[p].file = "whole"
    /\ task[p].exp \in baselines
    /\ Become(p, Idle)
    /\ UNCHANGED <<optimizerVars, baselines, orphans, auditVars, failures>>

\* BaselineRegistry.load_all reads every snapshot below the registry, those in
\* temporary directories too, and raises if one of them is torn.
Temporary == {[exp |-> task[p].exp, file |-> task[p].file] :
                 p \in {q \in Process : At(q, "write")}} \cup orphans

LoadBaseline(p, x) ==
    /\ At(p, "idle")
    /\ \A d \in Temporary : d.file # "torn"
    /\ x \in baselines \cup {d.exp : d \in {c \in Temporary : c.file = "whole"}}
    /\ Become(p, [Idle EXCEPT !.stage = "snapshot", !.exp = x])
    /\ UNCHANGED <<optimizerVars, baselines, orphans, auditVars, failures>>

-----------------------------------------------------------------------------
\* The holdout: freeze_for_holdout and SealedHoldoutEvaluator.evaluate.

AnyClaim(d) == TRUE  \* mutant: the marker is overwritten
Unclaimed(d) == d \notin started

FreezeAt(p, moment) == <<experiments[task[p].exp].candidate, moment>>

Claim(p, moment) ==
    /\ At(p, "snapshot") /\ Unclaimed(FreezeAt(p, moment))
    /\ started' = started \cup {FreezeAt(p, moment)}
    /\ Become(p, [task[p] EXCEPT !.stage = "load", !.frozen = FreezeAt(p, moment)])
    /\ UNCHANGED <<optimizerVars, baselines, orphans, loads, results, failures>>

\* HoldoutReuseError.
RefuseReuse(p, moment) ==
    /\ At(p, "snapshot") /\ ~Unclaimed(FreezeAt(p, moment))
    /\ Become(p, Idle)
    /\ UNCHANGED <<optimizerVars, baselines, orphans, auditVars, failures>>

LoadHoldout(p) ==
    /\ At(p, "load")
    /\ loads' = [loads EXCEPT ![task[p].frozen] = @ + 1]
    /\ To(p, "evaluate")
    /\ UNCHANGED <<optimizerVars, baselines, orphans, started, results, failures>>

CreateResult(p) ==
    /\ At(p, "evaluate") /\ results[task[p].frozen] = "absent"
    /\ results' = [results EXCEPT ![task[p].frozen] = "torn"]
    /\ To(p, "result")
    /\ UNCHANGED <<optimizerVars, baselines, orphans, started, loads, failures>>

FillResult(p) ==
    /\ At(p, "result")
    /\ results' = [results EXCEPT ![task[p].frozen] = "whole"]
    /\ Become(p, Idle)
    /\ UNCHANGED <<optimizerVars, baselines, orphans, started, loads, failures>>

-----------------------------------------------------------------------------
\* An exception: the store, the evaluator or a file raises.  The temporary
\* directory of a promotion is removed.
Raise(p) ==
    /\ task[p] # Idle
    /\ failures < MaxFailures
    /\ failures' = failures + 1
    /\ Become(p, Idle)
    /\ UNCHANGED <<optimizerVars, baselines, orphans, auditVars>>

\* The process dies, and the directory stays.
Crash(p) ==
    /\ At(p, "write")
    /\ failures < MaxFailures
    /\ failures' = failures + 1
    /\ orphans' = orphans \cup {[exp |-> task[p].exp, file |-> task[p].file]}
    /\ Become(p, Idle)
    /\ UNCHANGED <<optimizerVars, baselines, auditVars>>

OptimizerStep ==
    \/ BeginOptimize \/ NextFamily \/ EndFamily \/ EndOptimize \/ AbortOptimize
    \/ FillRecord \/ \E e \in Evidence : CreateRecord(e)

PromotionStep(p) ==
    \/ \E x \in Experiment :
          LoadBaseline(p, x) \/ (\E gate \in BOOLEAN : Promote(p, x, gate))
    \/ WriteSnapshot(p) \/ Publish(p) \/ PublishFails(p)

HoldoutStep(p) ==
    \/ \E moment \in Moment : Claim(p, moment) \/ RefuseReuse(p, moment)
    \/ LoadHoldout(p)
    \/ CreateResult(p) \/ FillResult(p)

Next ==
    \/ OptimizerStep
    \/ \E p \in Process : PromotionStep(p) \/ HoldoutStep(p) \/ Raise(p) \/ Crash(p)

Spec == Init /\ [][Next]_vars

-----------------------------------------------------------------------------
File == {"absent", "torn", "whole"}

TypeOK ==
    /\ SearchTypeOK
    /\ baselines \subseteq Experiment
    /\ orphans \subseteq [exp : Experiment, file : File]
    /\ started \subseteq Frozen
    /\ loads \in [Frozen -> Nat] /\ results \in [Frozen -> File]
    /\ \A x \in Experiment :
          \/ experiments[x] = Absent
          \/ /\ experiments[x].candidate \in Candidate
             /\ experiments[x].file \in {"torn", "whole"}
    /\ \A p \in Process :
          /\ At(p, "idle") <=> task[p] = Idle
          /\ task[p] # Idle => task[p].exp \in Experiment
          /\ task[p].frozen \in Frozen \cup {None}

\* Who holds a snapshot, from the registry, from a temporary directory or from
\* memory, holds one of an experiment that was recorded in full and accepted;
\* the holdout is spent on the candidates of such experiments alone.
Held == baselines \cup {task[p].exp : p \in {q \in Process : ~At(q, "idle")}}
               \cup {d.exp : d \in orphans}

SnapshotsAreEarned ==
    /\ \A x \in Held : experiments[x].file = "whole" /\ experiments[x].accepted
    /\ \A d \in started : \E x \in Experiment :
          /\ experiments[x].file = "whole" /\ experiments[x].accepted
          /\ experiments[x].candidate = d[1]

\* Per digest the holdout is a one-shot: its marker comes before its data, the
\* data is loaded once, and a result is of what was loaded.
Holdout == INSTANCE OneShot WITH
    Key <- Frozen, spent <- started, uses <- loads,
    concluded <- {d \in Frozen : results[d] = "whole"}

HoldoutIsOneShot == Holdout!Spec

=============================================================================
