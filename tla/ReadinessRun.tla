---------------------------- MODULE ReadinessRun ----------------------------
(***************************************************************************)
(* The Phase 4 readiness audit (readiness/campaign.py): it records the       *)
(* digests of the protected trees, builds the trial authority, verifies the *)
(* frozen Phase 3 inputs, compares the trees again, and publishes six        *)
(* content-addressed artifacts and one manifest that binds them.            *)
(*                                                                         *)
(* Several audits may run at once over one store.  Any stage may meet an    *)
(* I/O error; an audit may die anywhere and be started again.               *)
(***************************************************************************)
EXTENDS Repository

CONSTANTS Audits,
          PinnedCandidate   \* whose final record is the bootstrap source

VARIABLES
    apc,      \* the stage each audit has reached
    seen,     \* what each audit has read and written so far
    ready     \* the artifacts of results/phase4/readiness

auditVars == <<apc, seen, ready>>

\* Everything the protected trees hold: data/cache/phase3 and results/phase3
\* (the bars), results/experiments (the records).
ProtectedTrees == [bars |-> bars, experiments |-> experiments]
NoTrees == [bars |-> PinnedBars, experiments |-> {}]
NothingSeen == [before |-> NoTrees, revision |-> 0, authority |-> {}]

Stopped == {"start", "ready", "failed", "absent"}

\* The report's bytes follow from the trees and the trial authority, the
\* manifest's from these and the revision; vector, audit, split and
\* configuration are the same bytes in every run.
ReportOf(a) == [trees |-> seen[a].before, authority |-> seen[a].authority]
ManifestOf(a) == [revision |-> seen[a].revision, trees |-> seen[a].before,
                  authority |-> seen[a].authority, report |-> ReportOf(a)]
FixedArtifacts == {"vector", "audit", "split", "configuration"}

AuditInit == /\ apc \in [Audits -> {"start", "absent"}]
             /\ seen = [a \in Audits |-> NothingSeen]
             /\ ready = [fixed |-> {}, authority |-> {}, report |-> {}, manifest |-> {}]

-----------------------------------------------------------------------------
(* The stages.  The definitions marked Mutant are bugs the checks must find. *)

Stage(a, from, to) == apc[a] = from /\ apc' = [apc EXCEPT ![a] = to]

ScanTrees(a) == /\ Stage(a, "start", "scanned")
                /\ seen' = [seen EXCEPT ![a].before = ProtectedTrees]
                /\ UNCHANGED ready

\* The revision is read once; the files that run are not compared with it.
ReadIdentities(a) == /\ Stage(a, "scanned", "identified")
                     /\ seen' = [seen EXCEPT ![a].revision = Head1]
                     /\ UNCHANGED ready

\* load_pinned_bootstrap_source: one final record of the population, by its
\* exact bytes.  The vector and the audit that follow from it are compared with
\* constants: either they are those bytes or the audit fails.
PinnedSource == Representation(<<PinnedCandidate, "FINAL_AUTHORITATIVE">>,
                               PinnedCandidate, "FINAL_AUTHORITATIVE", 0)
SourceIsPinned == PinnedSource \in experiments

WriteBootstrap(a) == /\ SourceIsPinned
                     /\ Stage(a, "identified", "audited")
                     /\ ready' = [ready EXCEPT !.fixed = @ \cup {"vector", "audit"}]
                     /\ UNCHANGED seen

\* build_authority_from_records: nothing is ambiguous, and the candidates with
\* preliminary records are all of them and have one final record each.
OfClass(files, k) == {f \in files : f.category = k}
IsAuthority(files) ==
    LET prelim == {f.candidate : f \in OfClass(files, "PRELIMINARY_CORRECTED")}
        final == OfClass(files, "FINAL_AUTHORITATIVE")
    IN  /\ OfClass(files, "AMBIGUOUS") = {}
        /\ Cardinality(prelim) = Cardinality(Candidates)
        /\ {f.candidate : f \in final} = prelim
        /\ Cardinality(final) = Cardinality(prelim)

BuildAuthority(a) == /\ IsAuthority(experiments)
                     /\ Stage(a, "audited", "built")
                     /\ seen' = [seen EXCEPT ![a].authority = experiments]
                     /\ UNCHANGED ready

\* _authoritative_records reads the chosen records again before the artifact
\* is written.
WriteAuthority(a) == /\ OfClass(seen[a].authority, "FINAL_AUTHORITATIVE") \subseteq experiments
                     /\ Stage(a, "built", "authorised")
                     /\ ready' = [ready EXCEPT !.authority = @ \cup {seen[a].authority}]
                     /\ UNCHANGED seen

\* verify_phase3_dependencies reads each file once, against its pinned digest.
Phase3Verified == bars = PinnedBars

WriteSplit(a) == /\ Phase3Verified
                 /\ Stage(a, "authorised", "configured")
                 /\ ready' = [ready EXCEPT !.fixed = @ \cup {"split", "configuration"}]
                 /\ UNCHANGED seen

WrittenArtifactsVerify(a) == /\ FixedArtifacts \subseteq ready.fixed
                             /\ seen[a].authority \in ready.authority

\* Mutant: the second scan is taken and not compared.
TreesReadAgain(a) == ProtectedTrees.experiments # {}
TreesUnchanged(a) == ProtectedTrees = seen[a].before

RescanTrees(a) == /\ WrittenArtifactsVerify(a)
                  /\ TreesUnchanged(a)
                  /\ Stage(a, "configured", "rescanned")
                  /\ UNCHANGED <<seen, ready>>

WriteReport(a) == /\ Stage(a, "rescanned", "reported")
                  /\ ready' = [ready EXCEPT !.report = @ \cup {ReportOf(a)}]
                  /\ UNCHANGED seen

\* commit_json: the very manifest is there already ...
FindManifest(a) == /\ ManifestOf(a) \in ready.manifest
                   /\ Stage(a, "reported", "ready")
                   /\ UNCHANGED <<seen, ready>>

\* ... or it is staged in a directory of its own ...
StageManifest(a) == /\ ManifestOf(a) \notin ready.manifest
                    /\ Stage(a, "reported", "staged")
                    /\ UNCHANGED <<seen, ready>>

\* ... whose rename is the commit point.
PublishManifest(a) == /\ ManifestOf(a) \notin ready.manifest
                      /\ Stage(a, "staged", "ready")
                      /\ ready' = [ready EXCEPT !.manifest = @ \cup {ManifestOf(a)}]
                      /\ UNCHANGED seen

\* Any stage: a check fails, a file cannot be read or written, or the rename
\* meets a manifest published meanwhile.  READINESS_FAILED.
FailAudit(a) == /\ apc[a] \notin Stopped
                /\ apc' = [apc EXCEPT ![a] = "failed"]
                /\ seen' = [seen EXCEPT ![a] = NothingSeen]
                /\ UNCHANGED ready

\* The audit failed or its process died; someone runs it again.  A run after a
\* successful one is another audit's.
RestartAudit(a) == /\ apc[a] \notin {"start", "ready", "absent"}
                   /\ apc' = [apc EXCEPT ![a] = "start"]
                   /\ seen' = [seen EXCEPT ![a] = NothingSeen]
                   /\ UNCHANGED ready

AuditStep(a) == \/ ScanTrees(a) \/ ReadIdentities(a) \/ WriteBootstrap(a)
                \/ BuildAuthority(a) \/ WriteAuthority(a) \/ WriteSplit(a)
                \/ RescanTrees(a) \/ WriteReport(a)
                \/ FindManifest(a) \/ StageManifest(a) \/ PublishManifest(a)
                \/ FailAudit(a) \/ RestartAudit(a)

-----------------------------------------------------------------------------
(* Properties. *)

\* A published readiness manifest binds a trial authority that was built from
\* the very records whose digest it names, and a split whose pinned bars were
\* those of its trees: for it to name others, the pinned bars must have been
\* replaced twice during the audits, and have been back in between
\* (run_phase4_readiness, campaign.py 372-491).
ReadyIsAudited == \A m \in ready.manifest :
                      /\ m.authority = m.trees.experiments
                      /\ Took(m.trees.bars, 2)

\* Everything a published readiness manifest names is in the store, the
\* artifacts its report names included, whatever crashed in between.
ReadyIsClosed == \A m \in ready.manifest :
                     /\ FixedArtifacts \subseteq ready.fixed
                     /\ m.authority \in ready.authority
                     /\ m.report \in ready.report

\* An audit that reports PHASE_4_READY has its manifest in the store.
ReadyIsVisible == \A a \in Audits : apc[a] = "ready" => ManifestOf(a) \in ready.manifest
=============================================================================
