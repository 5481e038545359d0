------------------------------ MODULE Gate2Seal ------------------------------
(***************************************************************************)
(* The Gate 2 seal (phase4/engine/seal.py): it loads the pinned Gate 1       *)
(* authority, identifies the source bundles at one revision, publishes five *)
(* content-addressed artifacts, checks that nothing else was written under  *)
(* results/phase4/gate2 meanwhile, and commits the engine manifest.         *)
(*                                                                         *)
(* Sealers may run at once.  They may fail or die at any point; what they   *)
(* published stays, and so does the temporary file of a sealer that died.   *)
(***************************************************************************)
EXTENDS Repository

CONSTANTS Sealers,
          Kinds,        \* the non-final artifact kinds in the order of their publication
          SourceKinds   \* the kinds whose bytes follow from the source bundles

ASSUME KindsAssumption == Kinds \in Seq(STRING)

VARIABLES
    spc,      \* where each sealer is
    known,    \* what it has loaded, and its snapshot of the Gate 2 files
    engine,   \* the published Gate 2 artifacts and manifests
    temps     \* temporary files beside them, by sealer

sealVars == <<spc, known, engine, temps>>

BundleSeq == CHOOSE q \in [1..Cardinality(Bundles) -> Bundles] :
                 \A b \in Bundles : \E i \in DOMAIN q : q[i] = b
NoBundles == [b \in Bundles |-> 0]
NoFiles == [artifacts |-> {}, manifests |-> {}, temps |-> {}]
NothingKnown == [head |-> 0, bundles |-> NoBundles, files |-> NoFiles]

At(stage, i) == [stage |-> stage, i |-> i]
SealStart == At("start", 0)
SealEnds == {At("start", 0), At("sealed", 0), At("failed", 0), At("absent", 0)}

\* An artifact by what its bytes depend on: the bundles, or the revision (the
\* report), or nothing that changes (the contract).
Content(s, k) == [kind |-> k,
                  head |-> IF k = "report" THEN known[s].head ELSE 0,
                  bundles |-> IF k \in SourceKinds THEN known[s].bundles ELSE NoBundles]
Published(s) == {Content(s, Kinds[i]) : i \in DOMAIN Kinds}
EngineManifest(s) == [head |-> known[s].head, bundles |-> known[s].bundles,
                      written |-> Published(s)]
Gate2Files == [artifacts |-> engine.artifacts, manifests |-> engine.manifests, temps |-> temps]

SealInit == /\ spc \in [Sealers -> {SealStart, At("absent", 0)}]
            /\ known = [s \in Sealers |-> NothingKnown]
            /\ engine = [artifacts |-> {}, manifests |-> {}]
            /\ temps = {}

-----------------------------------------------------------------------------
(* The steps.  The definitions marked Mutant are bugs the checks must find. *)

Move(s, from, to) == spc[s] = from /\ spc' = [spc EXCEPT ![s] = to]

\* PINNED_DIRECT_DEPENDENCIES: the Gate 1 manifest and what it names, in the order
\* of reading.  Those under results/phase4 never change in place.
DirectDependencies ==
    <<"phase4_preregistration_manifest", "baseline_definitions", "deterministic_grids",
      "durability_policy", "family_budget_policy", "information_access_policy",
      "research_report", "strategy_family_definitions", "survivor_policy",
      "hypothesis_journal", "source_journal", "research_notes",
      "phase4_readiness_manifest", "phase4_split_manifest", "trial_authority">>
LiveFiles == {"hypothesis_journal", "source_journal", "research_notes"}

\* _read_exact and _verify_journal: the bytes are the pinned ones.
ReadExact(kind) == kind \in LiveFiles => journals
JournalsPinned == \A i \in DOMAIN DirectDependencies : ReadExact(DirectDependencies[i])

\* _head_revision and _verify_ancestry: HEAD descends from the pinned revisions.
HeadDescends == 1 \in 1..Head1

\* load_gate2_authority.
LoadAuthority(s) == /\ HeadDescends
                    /\ JournalsPinned
                    /\ Move(s, SealStart, At("bundle", 1))
                    /\ known' = [known EXCEPT ![s].head = Head1]
                    /\ UNCHANGED <<engine, temps>>

\* source_bundle_identity: the worktree bytes must be those of the revision's blob.
\* Mutant: HEAD is asked again for every bundle.
BundleAtHead(s, b) == worktree[b] = history[Head1][b]
BundleAtRevision(s, b) == worktree[b] = history[known[s].head][b]

IdentifyBundle(s) ==
    \E i \in DOMAIN BundleSeq :
        /\ Move(s, At("bundle", i),
                IF i = Cardinality(Bundles) THEN At("bound", 0) ELSE At("bundle", i + 1))
        /\ BundleAtRevision(s, BundleSeq[i])
        /\ known' = [known EXCEPT ![s].bundles[BundleSeq[i]] = worktree[BundleSeq[i]]]
        /\ UNCHANGED <<engine, temps>>

\* Conformance runs, the bindings are computed, and the Gate 2 files are listed.
Snapshot(s) == /\ Move(s, At("bound", 0), At("publish", 1))
               /\ known' = [known EXCEPT ![s].files = Gate2Files]
               /\ UNCHANGED <<engine, temps>>

NextPublish(i) == IF i = Len(Kinds) THEN At("confine", 0) ELSE At("publish", i + 1)

\* _publish: the bytes are there already and are verified ...
FindArtifact(s) == \E i \in DOMAIN Kinds :
                       /\ Content(s, Kinds[i]) \in engine.artifacts
                       /\ Move(s, At("publish", i), NextPublish(i))
                       /\ UNCHANGED <<known, engine, temps>>

\* ... or they are written to a temporary file ...
WriteTemporary(s) == \E i \in DOMAIN Kinds :
                         /\ Content(s, Kinds[i]) \notin engine.artifacts
                         /\ Move(s, At("publish", i), At("link", i))
                         /\ temps' = temps \cup {<<s, "live">>}
                         /\ UNCHANGED <<known, engine>>

\* ... and linked to their name.
\* Mutant: the temporary file goes and the link was never made.
ForgetArtifact(s) == \E i \in DOMAIN Kinds :
                         /\ Move(s, At("link", i), NextPublish(i))
                         /\ temps' = temps \ {<<s, "live">>}
                         /\ UNCHANGED <<known, engine>>

LinkArtifact(s) == \E i \in DOMAIN Kinds :
                       /\ Move(s, At("link", i), NextPublish(i))
                       /\ engine' = [engine EXCEPT !.artifacts = @ \cup {Content(s, Kinds[i])}]
                       /\ temps' = temps \ {<<s, "live">>}
                       /\ UNCHANGED known

\* Files that appeared since the snapshot are this seal's own artifacts: no
\* other seal's artifact, manifest or temporary file.  The Gate 1 dependencies
\* still read the same.
Confined(s) == /\ engine.artifacts \ known[s].files.artifacts \subseteq Published(s)
               /\ engine.manifests \subseteq known[s].files.manifests
               /\ temps \subseteq known[s].files.temps

ConfirmSeal(s) == /\ Confined(s)
                  /\ JournalsPinned
                  /\ Move(s, At("confine", 0), At("commit", 0))
                  /\ UNCHANGED <<known, engine, temps>>

CommitManifest(s) == /\ Move(s, At("commit", 0), At("verify", 0))
                     /\ engine' = [engine EXCEPT !.manifests = @ \cup {EngineManifest(s)}]
                     /\ UNCHANGED <<known, temps>>

\* Every written artifact is read back; only then is the seal reported.
VerifyWritten(s) == /\ Published(s) \subseteq engine.artifacts
                    /\ Move(s, At("verify", 0), At("sealed", 0))
                    /\ UNCHANGED <<known, engine, temps>>

\* A guard fails or an I/O error: the temporary file is removed.  After the
\* commit too: the manifest of a seal reported as failed is visible.
FailSeal(s) == /\ spc[s] \notin SealEnds
               /\ spc' = [spc EXCEPT ![s] = At("failed", 0)]
               /\ known' = [known EXCEPT ![s] = NothingKnown]
               /\ temps' = temps \ {<<s, "live">>}
               /\ UNCHANGED engine

\* The process dies beside its temporary file.  Bound: one such file.
DieAtLink(s) == /\ \E i \in DOMAIN Kinds : spc[s] = At("link", i)
                /\ \A t \in Sealers : <<t, "orphan">> \notin temps
                /\ temps' = (temps \ {<<s, "live">>}) \cup {<<s, "orphan">>}
                /\ spc' = [spc EXCEPT ![s] = At("failed", 0)]
                /\ known' = [known EXCEPT ![s] = NothingKnown]
                /\ UNCHANGED engine

\* A run after a successful one is another sealer's.
RestartSeal(s) == /\ spc[s] = At("failed", 0)
                  /\ spc' = [spc EXCEPT ![s] = SealStart]
                  /\ UNCHANGED <<known, engine, temps>>

SealStep(s) == \/ LoadAuthority(s) \/ IdentifyBundle(s) \/ Snapshot(s)
               \/ FindArtifact(s) \/ WriteTemporary(s) \/ LinkArtifact(s)
               \/ ConfirmSeal(s) \/ CommitManifest(s) \/ VerifyWritten(s)
               \/ FailSeal(s) \/ DieAtLink(s) \/ RestartSeal(s)

-----------------------------------------------------------------------------
(* Properties. *)

\* The bundles an engine manifest binds are those of the one revision it names,
\* although they were read one after the other while sources were edited and
\* committed (source_bundle_identity, seal.py 114-128).
EngineIsOneRevision == \A m \in engine.manifests : m.bundles = history[m.head]

\* Every artifact of an engine manifest's write ledger is in the store.
EngineIsClosed == \A m \in engine.manifests : m.written \subseteq engine.artifacts

\* A sealer that reports its seal has its manifest in the store.
SealIsVisible == \A s \in Sealers :
                     spc[s] = At("sealed", 0) => EngineManifest(s) \in engine.manifests
=============================================================================
