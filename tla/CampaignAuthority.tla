-------------------------- MODULE CampaignAuthority --------------------------
(***************************************************************************)
(* The two seals between Gate 3 and its campaign: the execution methodology  *)
(* (phase4/gate3_execution/methodology.py) and the result schema            *)
(* (phase4/gate3_campaign/result_methodology.py), and the loading of the    *)
(* authority that candidate results are validated against.                 *)
(*                                                                         *)
(* The result schema binds the scored market panel.  load_dependencies is   *)
(* called again for every document and every comparison, and each call      *)
(* checks the digest of a bars file on one reading and takes the prices     *)
(* from another one.  What each process does is a program, a sequence of     *)
(* operations; the identities of the gates before, the execution            *)
(* methodology's among them, are constants of the source.                   *)
(***************************************************************************)
EXTENDS Repository

CONSTANTS Schemers,      \* processes in seal_execution_methodology, seal_result_schema
          Campaigners,   \* processes in load_result_authority
          MethodFiles,   \* SOURCE_FILES of the execution methodology, a sequence
          FrozenFiles,   \* FROZEN_STRATEGY_FILES
          SchemaFiles    \* SOURCE_FILES of the result schema, a sequence

\* Both tuples are literals of the source and name files of the checkout.
ASSUME FilesAssumption == /\ MethodFiles \in Seq(Bundles) \ {<<>>}
                          /\ SchemaFiles \in Seq(Bundles) \ {<<>>}

VARIABLES
    cpc,      \* where each process is: its role, the operation and the item of it
    held,     \* the revision, the files and the panels each process holds
    sealed    \* the published method records, contracts and manifests

campaignVars == <<cpc, held, sealed>>

CampaignProcesses == Schemers \cup Campaigners

-----------------------------------------------------------------------------
(* The programs.  "keep" stores the panel that was loaded, "same" compares. *)

Op(name) == [op |-> name, mode |-> "check", slot |-> "none"]
Files(mode) == [op |-> "files", mode |-> mode, slot |-> "none"]
Deps(mode, slot) == [op |-> "deps", mode |-> mode, slot |-> slot]

\* seal_execution_methodology: _source_bundle, validate_execution_methodology
\* with preflight_gate3, and the two records before the manifest.
MethodProgram == <<Op("revision"), Op("frozen"), Files("keep"), Op("gate3"),
                   Op("baseline"), Op("regime"), Op("manifest")>>

\* validate_declared_manifest: the panel of the manifest and that of its
\* contract, each by another load, the sources, and both preflights.
Validation == <<Deps("same", "manifest"), Deps("same", "contract"), Op("revision"),
                Files("same"), Op("imported"), Op("gate3"), Op("method")>>

SchemaProgram == <<Files("keep"), Deps("keep", "manifest"), Deps("keep", "contract")>>
                 \o Validation
                 \o <<Deps("keep", "written"), Op("contract"), Op("manifest")>>

\* load_result_authority: the preflight, and a load of its own at the end.
LoadProgram == Validation \o <<Deps("same", "contract"), Deps("keep", "authority")>>

Program(role) == CASE role = "method" -> MethodProgram
                   [] role = "schema" -> SchemaProgram
                   [] role = "load" -> LoadProgram
                   [] OTHER -> <<>>

-----------------------------------------------------------------------------
\* The panels a process keeps: of its manifest, of the contract it declares, of
\* the contract it writes, and of a loaded authority.
Slots == {"manifest", "contract", "written", "authority"}
NoFile == [f \in Bundles |-> -1]
NothingHeld == [revision |-> 0, files |-> NoFile, reading |-> PinnedBars,
                panels |-> [slot \in Slots |-> PinnedBars]]

Spot(role, i, j) == [role |-> role, i |-> i, j |-> j]
CampaignStart == Spot("start", 0, 0)
CampaignEnds == {CampaignStart} \cup {Spot(r, 0, 0) : r \in {"done", "failed", "absent"}}

\* The two semantic records follow from sealed controls, the same bytes always;
\* of the contract only the panel's digest can differ.
MethodRecords == {"baseline", "regime"}
SchemaContract(p) == held[p].panels["contract"]

MethodManifest(p) == [revision |-> held[p].revision, files |-> held[p].files]
SchemaManifest(p) == [revision |-> held[p].revision, files |-> held[p].files,
                      panel |-> held[p].panels["manifest"],
                      contract |-> SchemaContract(p)]

CampaignInit == /\ cpc \in [CampaignProcesses -> {CampaignStart, Spot("absent", 0, 0)}]
                /\ held = [p \in CampaignProcesses |-> NothingHeld]
                /\ sealed = [records |-> {}, methods |-> {}, contracts |-> {}, schemas |-> {}]

Current(p) == LET program == Program(cpc[p].role) IN
              IF cpc[p].i \in DOMAIN program THEN program[cpc[p].i] ELSE Op("none")
Doing(p, name) == Current(p).op = name
AtItem(p, j) == cpc[p].j = j
StayAt(p, j) == cpc' = [cpc EXCEPT ![p].j = j]
Advance(p) == cpc' = [cpc EXCEPT ![p] = IF @.i = Len(Program(@.role))
                                        THEN Spot("done", 0, 0) ELSE Spot(@.role, @.i + 1, 0)]

-----------------------------------------------------------------------------
(* The operations. *)

BeginSchemer(p) == \E role \in {"method", "schema"}, rev \in DOMAIN history :
                       /\ cpc[p] = CampaignStart
                       /\ cpc' = [cpc EXCEPT ![p] = Spot(role, 1, 0)]
                       /\ held' = [held EXCEPT ![p].revision = rev]
                       /\ UNCHANGED sealed

\* What a manifest names.
Named(m) == [NothingHeld EXCEPT !.revision = m.revision, !.files = m.files,
                                !.panels = [@ EXCEPT !["manifest"] = m.panel,
                                                     !["contract"] = m.contract]]

\* _load_manifest and the read of its contract: both are in the store.
BeginCampaigner(p) == \E m \in sealed.schemas :
                          /\ m.contract \in sealed.contracts
                          /\ cpc[p] = CampaignStart
                          /\ cpc' = [cpc EXCEPT ![p] = Spot("load", 1, 0)]
                          /\ held' = [held EXCEPT ![p] = Named(m)]
                          /\ UNCHANGED sealed

\* _validate_source_revision: an ancestor of HEAD.
ValidateRevision(p) == /\ Doing(p, "revision")
                       /\ held[p].revision \in DOMAIN history
                       /\ Advance(p)
                       /\ UNCHANGED <<held, sealed>>

FrozenStrategies == \A f \in FrozenFiles : worktree[f] = Pinned

VerifyFrozenStrategies(p) == /\ Doing(p, "frozen")
                             /\ FrozenStrategies
                             /\ Advance(p)
                             /\ UNCHANGED <<held, sealed>>

\* source_bundle_identity, one file after the other: the worktree bytes are the
\* revision's blob, and in a comparison those of the manifest's bundle.
FileAtRevision(p, f) == worktree[f] = history[held[p].revision][f]

FilesOf(p) == IF cpc[p].role = "method" THEN MethodFiles ELSE SchemaFiles

IdentifyFile(p) ==
    LET next == cpc[p].j + 1
        f == FilesOf(p)[next]
    IN  /\ Doing(p, "files")
        /\ FileAtRevision(p, f)
        /\ Current(p).mode = "same" => held[p].files[f] = worktree[f]
        /\ held' = [held EXCEPT ![p].files[f] = worktree[f]]
        /\ IF next = Len(FilesOf(p)) THEN Advance(p) ELSE StayAt(p, next)
        /\ UNCHANGED sealed

\* _verify_imported_sources: the files read once more.
VerifyImported(p) ==
    LET next == cpc[p].j + 1
    IN  /\ Doing(p, "imported")
        /\ worktree[SchemaFiles[next]] = held[p].files[SchemaFiles[next]]
        /\ IF next = Len(SchemaFiles) THEN Advance(p) ELSE StayAt(p, next)
        /\ UNCHANGED <<held, sealed>>

\* preflight_gate3: the pinned authorities recompute from the bars.
PreflightGate3(p) ==
    LET next == cpc[p].j + 1
    IN  /\ Doing(p, "gate3")
        /\ journals
        /\ bars[Symbols[next]] = Pinned
        /\ IF next = Len(Symbols) THEN Advance(p) ELSE StayAt(p, next)
        /\ UNCHANGED <<held, sealed>>

\* preflight_execution_methodology of the pinned manifest: its sources are
\* still those of its revision, the first one.  It also reads the bars, which
\* could only refuse more.
MethodIsBound == /\ journals
                 /\ FrozenStrategies
                 /\ \A i \in DOMAIN MethodFiles :
                        worktree[MethodFiles[i]] = history[1][MethodFiles[i]]

PreflightMethod(p) == /\ Doing(p, "method")
                      /\ MethodIsBound
                      /\ Advance(p)
                      /\ UNCHANGED <<held, sealed>>

\* load_dependencies: the methodology's preflight, then symbol after symbol
\* the digest and the prices (_load_scored_panel).
EnterDependencies(p) == /\ Doing(p, "deps")
                        /\ AtItem(p, 0)
                        /\ MethodIsBound
                        /\ StayAt(p, 1)
                        /\ UNCHANGED <<held, sealed>>

\* Items 1, 3, ... are digest checks, items 2, 4, ... readings.
SymbolAt(j) == Symbols[(j + 1) \div 2]

CheckPrices(p) == /\ Doing(p, "deps")
                  /\ cpc[p].j % 2 = 1
                  /\ bars[SymbolAt(cpc[p].j)] = Pinned
                  /\ StayAt(p, cpc[p].j + 1)
                  /\ UNCHANGED <<held, sealed>>

Loaded(p) == [held[p].reading EXCEPT ![SymbolAt(cpc[p].j)] = bars[SymbolAt(cpc[p].j)]]

ReadPrices(p) == /\ Doing(p, "deps")
                 /\ cpc[p].j > 0
                 /\ cpc[p].j % 2 = 0
                 /\ cpc[p].j < 2 * Len(Symbols)
                 /\ StayAt(p, cpc[p].j + 1)
                 /\ held' = [held EXCEPT ![p].reading = Loaded(p)]
                 /\ UNCHANGED sealed

\* The panel is complete: it is kept, or it is the one that was kept.
ClosePanel(p) ==
    LET slot == Current(p).slot IN
    /\ Doing(p, "deps")
    /\ cpc[p].j = 2 * Len(Symbols)
    /\ Current(p).mode = "same" => Loaded(p) = held[p].panels[slot]
    /\ held' = [held EXCEPT ![p].panels[slot] = Loaded(p), ![p].reading = PinnedBars]
    /\ Advance(p)
    /\ UNCHANGED sealed

\* write_json and AuthorityStore.write: the bytes are linked to their digest.
PublishRecord(p) == /\ \E r \in MethodRecords : Doing(p, r)
                    /\ sealed' = [sealed EXCEPT !.records = @ \cup {Current(p).op}]
                    /\ Advance(p)
                    /\ UNCHANGED held

\* seal_result_schema writes the contract of one more load ...
PublishContract(p) == /\ Doing(p, "contract")
                      /\ sealed' = [sealed EXCEPT !.contracts = @ \cup {held[p].panels["written"]}]
                      /\ Advance(p)
                      /\ UNCHANGED held

\* ... and compares its digest with the declared one only then: a contract
\* that is refused stays in the store.
ContractIsDeclared(p) == cpc[p].role = "schema" => held[p].panels["written"] = SchemaContract(p)

SealManifest(p) ==
    /\ Doing(p, "manifest")
    /\ ContractIsDeclared(p)
    /\ sealed' = IF cpc[p].role = "method"
                 THEN [sealed EXCEPT !.methods = @ \cup {MethodManifest(p)}]
                 ELSE [sealed EXCEPT !.schemas = @ \cup {SchemaManifest(p)}]
    /\ Advance(p)
    /\ UNCHANGED held

\* A check fails or a file cannot be read or written, or the process dies.
FailCampaignStep(p) == /\ cpc[p] \notin CampaignEnds
                       /\ cpc' = [cpc EXCEPT ![p] = Spot("failed", 0, 0)]
                       /\ held' = [held EXCEPT ![p] = NothingHeld]
                       /\ UNCHANGED sealed

\* Someone runs a seal or a load again after it failed.
RestartCampaignStep(p) == /\ cpc[p] = Spot("failed", 0, 0)
                          /\ cpc' = [cpc EXCEPT ![p] = CampaignStart]
                          /\ UNCHANGED <<held, sealed>>

CampaignStep(p) == \/ p \in Schemers /\ BeginSchemer(p)
                   \/ p \in Campaigners /\ BeginCampaigner(p)
                   \/ ValidateRevision(p) \/ VerifyFrozenStrategies(p) \/ IdentifyFile(p)
                   \/ VerifyImported(p) \/ PreflightGate3(p) \/ PreflightMethod(p)
                   \/ EnterDependencies(p) \/ CheckPrices(p) \/ ReadPrices(p) \/ ClosePanel(p)
                   \/ PublishRecord(p) \/ PublishContract(p) \/ SealManifest(p)
                   \/ FailCampaignStep(p) \/ RestartCampaignStep(p)

-----------------------------------------------------------------------------
(* Properties. *)

\* The sources a methodology or a result schema binds are those of the one
\* revision it names, although they were read one after the other.
CampaignIsOneRevision ==
    /\ \A m \in sealed.methods, i \in DOMAIN MethodFiles :
           m.files[MethodFiles[i]] = history[m.revision][MethodFiles[i]]
    /\ \A m \in sealed.schemas, i \in DOMAIN SchemaFiles :
           m.files[SchemaFiles[i]] = history[m.revision][SchemaFiles[i]]

\* The panel that a published result schema names was loaded twice and that of
\* its contract three times (validate_declared_manifest, seal_result_schema), each
\* load checking a file on one reading and taking its prices from another one:
\* they name prices that were not pinned only after the pinned bars of the
\* symbol were replaced as often as that.
SchemaIsGuarded == \A m \in sealed.schemas : Took(m.panel, 2) /\ Took(m.contract, 3)

\* Manifests are published after the records they name.
CampaignIsClosed ==
    /\ sealed.methods # {} => sealed.records = MethodRecords
    /\ \A m \in sealed.schemas : m.contract \in sealed.contracts
=============================================================================
