# Investment-Tracker: formal models

TLA+ modules that model the stateful parts of this repository, TLC
configurations that check them on small instances, and TLAPS proofs that carry
the main results to every value of the constants. Paths below are relative to
the package directory `src/investment_tracker/` of the repository unless they
start with `docs/` or `tests/`.

- [The system](#the-system) - the inventory of components
- [Modules and the code](#modules-and-the-code)
- [Runs](#runs) - what each one checks, its bounds and why they suffice
- [Proofs](#proofs)
- [Disagreements between code and documents](#disagreements-between-code-and-documents)
- [Not modelled](#not-modelled)
- [Plan](#plan)

## The system

The repository is a governed research program for systematic investing. A
*coordinator* runs one trading-research cycle at a time and writes its results
to a canonical sheet; the *quant* package searches strategies, validates them on
walk-forward folds and spends one final holdout on a frozen candidate; *Phase 4*
preregisters all of that before it may be run: sealed journals of sources and
hypotheses (Gate 1), a sealed engine (Gate 2), sealed inputs and the campaign
(Gate 3). There are no threads inside the package. Concurrency is between
processes that share a directory (a second `seal`, a second `load`, a second
coordinator), and the only synchronisation is what the file system gives:
exclusive creation, hard links, `os.replace`.

| Component | State it keeps | Operations | Hard behaviour | What makes it correct |
|---|---|---|---|---|
| Trial budget (`quant/phase4/engine/budget.py`) | row states, ordinals, counters, cursor, active family, OOS streak, campaign status | `consume_current`, `record_candidate_outcome`, `terminate_family`, `fail_campaign` | boundaries that coincide (streak limit, last row, last family, last budget unit); restarts that ask again | a trial costs one ordinal once; families in order; a decided row stays decided; an ended campaign is frozen |
| Canonical write guard (`canonical_write.py`) | current lease, generation counter, committed payloads | `acquire`, `renew`, `prepare`, `commit`, `release` | stale lease objects, delayed clocks, retries after a lost answer | a fenced write-once store; a live lease is never taken over |
| Gate 1 journals (`quant/phase4/preregistration/journal.py`) | two JSONL files, one lock file | `append`, `verify` | interleaved processes, torn lines, crashes inside the lock | an append-only chain with unique ids; no record is reported that is not there |
| Gate 1 seal and artifact store (`quant/phase4/preregistration/seal.py`, `artifacts.py`) | notes file, content-addressed artifacts, manifests | `seal_preverified_gate1`, `publish_*`, `verify_*` | several sealers and revisions, partial failure, restart | a visible manifest is complete; the reported outcome is true |
| Market data cache and repository (`quant/data/cache.py`, `repository.py`) | version directories, quarantine records | `load`, `find`, `admit`, `quarantine` | readers of directories that are being written or removed; crashes and power loss | only clean, hash-verified content is returned; versions are immutable; a hit is fresh |
| Coordinator lock (`coordinator_lock.py`) | one lock file | `acquire`, `release`, recovery by hand | crash between create and write; recovery of a live owner's lock | one writer; nobody removes another's lock |
| Operations (`operations.py`) | alerts and their event keys, heartbeats (process-local) | `raise_alert`, `deliver`, `acknowledge`, `heartbeat`, `detect_stale`, `verify_recovery_readback` | a sink that fails, or calls back; dedup by (run, code); escalation | every alert is delivered or escalated, and acknowledged only after that |
| Phase state and snapshots (`phase_state.py`, `snapshot.py`, `identity.py`) | none of their own: checks of a state and of a snapshot's stamps | `assert_transition`, freshness checks | a run that skips or repeats a phase; a stale snapshot | only the listed transitions |
| Research lifecycle (`quant/workflow.py`, `optimizer/search.py`, `experiments.py`, `promotion.py`, `validation/holdout.py`) | experiment files, baseline registry with its temporary directories, use records of the holdout | `optimize_cached_universe`, `run_search`, `append`, `promote_candidate`, `add`, `load_all`, `freeze_for_holdout`, `evaluate` | two streaks and a leader in one loop, concurrent promoters, crashes after the use record | a search ends for its stated reason, only accepted experiments are promoted, the holdout is spent once per frozen candidate |
| Validation (`quant/validation/*` without the holdout), grids and scores (`quant/optimizer/*` without the search) | none | staged data access, walk-forward folds, candidate grids, a weighted score | boundaries of stages | no fold sees later data |
| Governed signal backtest (`backtest_v1.py`) | grouped rows, selected clusters, findings of one evaluation | `evaluate_backtest`, freezing and checking a protocol | boundaries of folds, embargo and windows; adverse findings together with missing data | independent windows share no session; nothing leaks between folds; a PASS is earned and a known failure is not hidden |
| Quant backtest (`quant/backtest/*`) | cash, positions, pending orders | one step per bar | order decided on a close, filled on the next open | cash never negative; no lookahead |
| Gate 2 engine seal and authority (`quant/phase4/engine/seal.py`, `authority.py`, `artifacts.py`, `evidence.py`, `source_identity.py`) | engine artifacts, evidence, manifest | `seal_engine`, `verify_static`, `load_authority` | as Gate 1, plus a source tree and journals that may change under it | an authority is complete, of one revision, and belongs to one Gate 1 manifest |
| Gate 2 engine execution (`quant/phase4/engine/execution.py`, `market.py`, `allocation.py`, `strategies.py`, `benchmarks.py`, `robustness.py`, `durability.py`) | portfolio, pending decision, fills and session states | targets at the close, fills at the next open, valuation, folds, periods, regimes | caps and cash that bind together, friction, sessions that are missing | solvency, no lookahead, the cap is kept and filled, returns compound, the two durability formulas agree |
| Gate 3 inputs (`quant/phase4/gate3/*`) | sealed fold and regime authorities | seal, load and recompute | bars replaced between two readings | what a reader accepts was computed from the pinned bars |
| Gate 3 campaign (`quant/phase4/gate3_execution/*`, `gate3_campaign/*`) | methodology and schema seals, the store of candidate results | seal, load authority, publish and validate results, validate the campaign, select a survivor | a budget and a store that judge one fact separately; superseded authorities | a stop is provable and earned; the survivor is the best of the eligible candidates |
| Phase 4 readiness (`quant/readiness/*`) | content-addressed store and manifest | audit, publish, read back | trees that change while they are read, crashes before the manifest | a ready report binds what it was built from |
| Phase 3 universe campaign (`quant/universe/*`) | raw evidence, normalized frames, verdicts, snapshot, universe manifest | fetch, judge, record, freeze, select, publish, rerun | overlapping campaigns, crashes, damaged files, a service that errs | a selected symbol is clean; evidence is kept; a rerun reproduces |
| Gate 1 policy and grids (`quant/phase4/preregistration/policy.py`, `grids.py`) | none | enumerate candidates, neighbors, survivor gates, durability | two definitions of one thing | see the Gate 3 campaign |
| Gate 1 provenance, models, definitions | none (literal data) | validation | none | counts and digests agree |
| Decisions, governance, audits (`decision.py`, `governance.py`, `audit.py`, `leakage_audit.py`, ...) | none (pure) | verdicts from records | precedence of reasons | a blocking reason is never overruled |
| Provider client and bar validation (`quant/data/moomoo_client.py`, `validation.py`) | a page cursor | paginate, validate | repeated page keys | each bar once, in order |
| Strategies, indicators, exporters, reports, replay generations | none or one pass over floats | arithmetic, formatting | none for a model checker | numeric tests |

How they interact. The repository of market data admits what the provider
client returned and the validator found clean; the workflow loads from it,
searches, validates and spends the holdout; the coordinator takes its lock, runs
phases and commits through the canonical write guard. Gate 1's seal appends its
research through the journals, publishes artifacts, and links a manifest; Gate
2 seals an engine against that manifest, Gate 3 seals its inputs and the
campaign's methodology against the engine, and the campaign consumes trials from
the engine's budget and publishes their results. The modules compose the same
way:

| Composition | Parts | What only the composition shows |
|---|---|---|
| `Gate1Seal` | `Gate1Journal` refining `AppendOnlyLog` | records of two seals in one journal, and which prefix a manifest binds |
| `ResearchLifecycle` | `FamilySearch`, refining `OneShot` | what a search found reaches the holdout once |
| `GovernedBacktest` | `EpisodeClusters` | the verdict over the selected clusters |
| `CampaignResults` | `BudgetTraversal`, `CandidateGrids` | a stop of the budget is provable from the store, the survivor earned |
| `ReplayEvidence` | `TargetReplay`, `TargetWeights`, `DurabilityPolicy`, `Fractions` | what one module computes the next one recomputes another way |
| `EvidenceChain` | `ReadinessRun`, `Gate2Seal`, `Gate3Authority`, `CampaignAuthority`, all over `Repository` | the gates beside edits and commits of one checkout |
| `UniverseCampaign` | `QuoteSource`, `BarQuality` | what the service sent, through to the universe |
| `CoordinatedRun` | lock, snapshot and operations | a crash, its alert and its recovery |

The hazards, one per line of code where they bite, are in `PROJECT.json`
(`hazards`), each with the properties that would catch it.

## Modules and the code

### BudgetTraversal, CandidateGrids, CampaignResults (`quant/phase4/engine/budget.py`, `preregistration/grids.py`, `preregistration/policy.py`, `gate3_campaign/`)

`BudgetState` is an immutable value; each method returns the next state or
raises. The variables are its fields. `phase4_new_trials_remaining` and
`next_consumption_ordinal` are derived (`Remaining`, `NextOrdinal`), because
`validate_budget_state` forces them to be functions of the counter. One action
per method and outcome: `LookupConsumed`, `ConsumeCurrent` and
`ExhaustAggregateBudget` are the three branches of `consume_current`;
`RecordOutcome` has the three ends of `record_candidate_outcome` (persistent
failure, last row of the family, next row); `TerminateFamily` the three reasons
of `terminate_family`; `FailCampaign` is unconditional as in the code.
`LeaveFamily` is what `_stop_family` and `_advance_past_family` share. `outcome`
is a history variable: the code records no outcome, and the streak can only be
judged against them. Calls that raise are stuttering.

`CandidateGrids` enumerates the population: a family declares how many values
each parameter has, candidates are combinations in the order of `product`, and
neighbors differ by one step in one parameter.

`CampaignResults` puts the store of candidate results beside the traversal. A
result is its position, provenance, status, excess, the witness of a skip
(`trigger`) and what it says of its neighbors (`seen`). `Publish` writes a result
that `validate_result` accepts; a skip is accepted only with a run of validated
failures as long as the limit. `Survivor` is `select_survivor` over what is
stored. The loop that consumes, evaluates, writes and records is in no file of
the package: its order is the design's and is marked external. A superseded
authority left results of its own; they differ in provenance. Abstractions: the
numbers of a replay are functions of the candidate (`Agrees`), so two replays of
one neighbor agree; a neighbor may be replayed although its own trial is never
consumed, as the code allows; the other gates of a survivor are taken to pass,
and its ordering keys are one `Strength` with the position last. A second
campaign under the same authority is not distinguished from the first.

### CanonicalWrite, FencedStore (`canonical_write.py`)

The variables are `_lease`, `_generation` and `_committed`, the clock, the lease
object each actor holds (which may be outdated; two actors may share one
`writer_id`/`run_id`), and the history `fence`. `Reacquire` and `Grant` are the
two ways `acquire` returns, `Renew`, `Commit`, `Release` the other methods,
`Disposition` is `prepare`. Each call's `now` lies up to `MaxDelay` behind the
clock, because the caller passes it in. `FencedStore` is the abstract
specification: keys written once, by epochs that never go back, each epoch of
one owner.

The guard's methods are atomic here: the class has neither a lock nor I/O of its
own, and nothing in the package but its tests calls it yet, from one thread. Calls
of several actors interleave, the inside of a method does not.

### Gate1Journal, AppendOnlyLog (`quant/phase4/preregistration/journal.py`)

`append` step by step: the read before the lock (`ReturnExisting`, `GoToLock`,
`RaiseBeforeLock`), the exclusive creation of the one lock file of both journals
(`AcquireLock`, `RaiseAtLock`), the read that decides the predecessor
(`ReadUnderLock`), the write (`WriteLine`, or `TearLine` that stops in the
line), the read-back (`VerifyLine`), and the `finally` that unlinks (`Unlock`,
`UnlockFails`). `RaiseInside` is any exception in between, `Crash` the death of
the process at any step. A digest is the whole sequence of entries it covers,
which makes SHA-256 injective by construction. `AppendOnlyLog` is the abstract
specification: a log that grows at its end, holds an id once, reports an entry
only while it is the last, and is dead once torn.

### Gate1Seal (`quant/phase4/preregistration/seal.py`, `artifacts.py`)

Extends `Gate1Journal`. A sealer runs a revision's code: `StartSeal`, the appends
of both journals through the journal's own steps (`CallAppend`, `AppendReturned`,
`AppendRaised`), `VerifyJournal` (the state the manifest will bind), the notes
file created exclusively and filled later (`CreateNotes`, `WriteNotes`,
`NotesExist`), the content-addressed artifacts (`PublishArtifact`,
`PublishThenFail`), and the manifest (`ManifestExists`, `LinkManifest`,
`CleanUpManifest`). An artifact appears whole at the path of its digest, so the
store is a set. `FailSeal` and `CrashSealer` may happen at every step. The
revision stands for everything a manifest takes from the checkout.

### DataCache (`quant/data/cache.py`, `repository.py`)

One request's directory. `load` is a process's task that moves through stages:
the search of `find` (one listing, then metadata and bars of each directory,
read one by one), the provider, `admit` with its report check and quarantine,
`_find_by_hash`, the temporary directory, its two files each created and then
filled, the rename, the read-back, and the cleanup that removes files in any
order. `Raise`, `WriteFails`, `Fail` are exceptions; `Crash` kills a process;
`PowerLoss` damages any file, since nothing is synced (torn bars may still
parse). Content stands for the frame and its hash: equal content, equal hash.
`find` sees temporary directories as the code does, because
`glob("*/metadata.json")` matches names that start with a dot.

### EpisodeClusters, GovernedBacktest (`backtest_v1.py`)

One call of `evaluate_backtest` on a frozen protocol whose calendar has passed
`validate_protocol_calendar` (`ProtocolAssumption`). `ReadEpisode` takes the rows
of one episode, with whatever friction scenarios it has, and collects timing
errors; `RefuseRow`, `RefuseTiming` and `RefuseBaseline` are the exceptions;
`EndReading` and `Selecting` are `_independent_clusters`, whose loop is
`EpisodeClusters`; `Report` passes the verdict: `Failures` and `Inconclusive` are
the code's lists of findings, gate by gate, and `Status` their precedence.
Sessions are positions in the calendar, returns integers in units of 25 bps, so
the stress friction of 50 bps is one less. Twice the median, and four times the
median of cluster medians, keep the arithmetic in the integers. `SignTestRejects`
counts sign patterns, which is the sum of binomials of the code.

### FamilySearch, OneShot, ResearchLifecycle (`quant/optimizer/search.py`, `workflow.py`, `experiments.py`, `promotion.py`, `validation/holdout.py`)

`FamilySearch` is the loop of `run_search`: an evaluation ends in
`FailPersistently` (whose return comes before the leader and its streak are
updated), `TakeLead` or `FallBehind`; `StopAtMaximum` and `Exhaust` are the other
two ends. What an evaluation yields is arbitrary (`Evidence`). `ResearchLifecycle`
extends it with everything around: the optimizer goes through the families
(`NextFamily`, `EndFamily`) and writes every candidate's experiment file before
the search sees the result (`CreateRecord`, `FillRecord`); processes promote an
accepted experiment (`Promote`, `WriteSnapshot` into a temporary directory,
`Publish` or `PublishFails`), load a baseline from the registry as `load_all`
does (`LoadBaseline`), freeze it and evaluate the holdout (`Claim`,
`RefuseReuse`, `LoadHoldout`, `CreateResult`, `FillResult`). `AbortOptimize`,
`Raise` and `Crash` may strike between any two of these steps; they differ in
what stays on disk. A frozen manifest is its candidate with the moment of
freezing, which is what its digest distinguishes. `OneShot` is the abstract
specification of the sealed holdout: per digest a use is recorded before the data
is seen, the data is seen once, and a conclusion is drawn once from what was
seen.

### CoordinatedRun (`coordinator_lock.py`, `snapshot.py`, `operations.py`)

A run takes the lock file in two steps (creation, text), checks its snapshot,
merges one block in two steps and releases in two (check, unlink); it may crash
between any two. `TimePasses`, `Heartbeat` and `DetectStale` are the monitor; `Send`
and `Answer` are one call of `deliver` from either side of the sink, so several
threads can have an alert in hand and the last one to answer wins.
`Acknowledge`, `Repair` and `Recover` are the operator's. The three files have no
caller in the package but their tests, so the order in which a run uses them and
the operator's moves are external. The order is that of the two documents that
give one, the multi-agent design (263-271) and `agents/coordinator.md` (9-14):
the digests are compared first, then the lock is acquired. In that order another
run may merge in between, and nobody compares again: `MergesAreFresh` is false
(see the disagreements). An owner's file is its own from the creation to the
release; that `release` unlinks whatever is at the path after it has read the
file (`coordinator_lock.py:72`) shows nowhere, because only files of dead runs are
taken away by others. Heartbeats after the alert change nothing and are left
out; clocks agree.

### Repository, ReadinessRun, Gate2Seal, Gate3Authority, CampaignAuthority, EvidenceChain

`Repository` is the checkout: source bundles with their committed revisions, the
bars of each symbol, the experiment files of Phase 2 and the Gate 1 journals.
`Edit`, `Restore`, `Commit`, `AddExperiment`, `RewriteExperiment`, `ReplaceBars`
and `TouchJournals` happen at any moment, between any two reads of a gate.

- `ReadinessRun` (`quant/readiness/campaign.py`): first scan of the protected
  trees, identities, trial authority, bootstrap, second scan, artifacts,
  manifest, read back. A scan of a tree is one step.
- `Gate2Seal` (`quant/phase4/engine/seal.py`): load Gate 1, read the bundles one
  after the other against one `HEAD`, publish in order with a temporary file and
  a link each, check that nobody else wrote, commit the manifest.
- `Gate3Authority` (`quant/phase4/gate3/`): digest and closes of a bars file are
  two readings, of the sealer and of the reader alike; the reader repeats the
  sealer's work and compares.
- `CampaignAuthority` (`gate3_execution/methodology.py`,
  `gate3_campaign/result_methodology.py`, `dependencies.py`): what each process
  does is a program, a sequence of operations, because the three processes
  repeat the same few loads in different orders. `seal_result_schema` writes the
  contract from its last load and compares afterwards, before the manifest.

Each gate names the artifacts of the gate before by digests that are constants
of the source, so those are in place from the start and the gates meet only in
the repository's files. Field comparisons that follow from pinned bytes are left
out. A process that fails after its manifest is visible leaves it there, as the
code does. Sources, journals and bars change and change back any number of
times, so a change of theirs that is undone between two readings is in the
model, and invisible to the model's gates as it is to the code. Experiment records
only move on: an edit of one that is undone within one audit is not in the
model. `replaced` is a history variable that counts how often the pinned bars of
a symbol were replaced. Not compared: the modules already imported
with the bundles on disk, and the last panel of `load_result_authority`, which
nothing checks (see `hazards`).

### Fractions, TargetWeights, TargetReplay, DurabilityPolicy, ReplayEvidence (`quant/phase4/engine/`, `gate3/authorities.py`, `gate3_campaign/validation.py`)

The numbers are exact fractions where the code has binary64 and tolerances:
what the runs show is that the formulas are right, not their rounding.
`TargetWeights` is how the seven families and benchmarks form weights, inverse
volatility with its repeated capping included; volatilities are square roots, so
they are arbitrary parameters, and nothing is said here about the closes a
volatility is estimated from. The sleeves of the composite are given targets. `TargetReplay` goes session by session: targets
at closes on a fixed clock, sells and then buys at the next open under friction
and the cash left, valuation at the close. `ReplayEvidence` holds
Gate 3's audit, the second and independent derivation of every number from the
fills, and derives monthly and rolling returns, folds and regimes over a calendar that the replay
may have gaps in; `DurabilityPolicy` is the same formula as Gate 1 registered it.
Months have fixed lengths with clipping of the day, a year is two months.
`RollingSummary` and the policy's
summary of its windows are separate definitions, because they give different reasons for an
empty one. Irrational metrics are only known or unknown; a candidate without a losing
session has an unknown Sortino ratio and can therefore never be selected, as in
the code. The bootstrap is not modelled.

### QuoteSource, BarQuality, UniverseCampaign (`quant/data/moomoo_client.py`, `quant/data/validation.py`, `quant/universe/`)

`QuoteSource` is one paginated fetch, whose answers are arbitrary; `BarQuality`
the verdict on a frame and the selection by slots; `UniverseCampaign` the steps
of a campaign over a shared directory: for each symbol `Lookup`, and, unless a
record is found, the request, the raw evidence, the frame, the quarantine or
judgement and the record; then snapshot, selection, report and its readback, the
files of the manifest's chain read and verified one by one (`VerifyNext`: the
snapshot, the report, and of every verdict the raw evidence and the dataset),
the manifest and its readback. `Stop`
is a raise or a crash between any two steps, `Damage` a file spoilt from
outside. A digest is a kind with a moment. The exception for provider parameters
that changed, and the code `MISSING_NORMALIZED_ARTIFACT`, which nothing reaches,
are left out. The Phase 3 spec says that no provider request is made once there
is adequate evidence; two campaigns that overlap, or a crash before the record,
make a second one, which loses nothing.

## Runs

Deadlock is checked in `budget`, `canonical_write`, `gate1_*`, `data_cache*` and
`governed_backtest`; the processes of the other runs end, or stop at a bound of
the instance (experiment ids, edits, campaigns).

*Fairness.* Two runs use it. In `coordinated_run` time passes, the monitor is
polled, `deliver` is polled for each open alert, every call of a sink returns
(`deliver` turns its exception into a failed attempt), and the operator answers
alerts that reached a sink and acts on dead runs: each is weak fairness of one
action, and nothing is assumed of the runs, of what a sink answers, or of
crashes. In `universe` a campaign that is running takes its next step
(`WF(Step(p))`), because it is a sequential program and every call of the service
returns; nothing is assumed of the answers. The other components promise no
progress: a leaked journal lock, for instance, blocks all later appends on
purpose.

| Run | Module | Checks | Bounds |
|---|---|---|---|
| `budget` | MCBudgetTraversal | `OrdinalsCountAttempts`, `StopIsProvable`, `StopIsEarned`, `SurvivorIsEarned`, `DecidedRowsAreFinal` | families of 4 (2 x 2) and 2 candidates, budget 5, limit 2, results of an earlier campaign |
| `canonical_write` | MCCanonicalWrite | `LiveLeaseNotTaken`, refinement of `FencedStore` | 3 actors (2 of one owner), 2 keys, 2 digests, ttl 1 and 2, clock 3, 3 generations, delay 1 |
| `gate1_seal` | MCGate1Seal | `ChainIntact`, `ManifestIsComplete`, `SealReportIsTrue`, refinement of `AppendOnlyLog` | 2 sealers, 3 revisions, 2 research plans that overlap, 2 artifact kinds |
| `gate1_sealed_journal` | MCGate1Seal | violation of `SealedJournalUntouched` | same |
| `data_cache` | MCDataCache | `LoadedIsClean`, `FindIsFresh`, `RefreshReusesVersion` | 2 processes, 2 directories, 2 clean contents and a dirty one, 2 moments, 1 power loss |
| `data_cache_atomic` | MCDataCache | violation of `LoadedIsPublished` | same |
| `governed_backtest` | MCGovernedBacktest | `SelectionIsLargest`, `PassIsEarned`, `FailureIsNotHidden` | 19 sessions, windows of 2, 3 folds, at most 6 episodes, one of them defective |
| `research_lifecycle` | MCResearchLifecycle | `BestIsNearlyBest`, `StopIsJustified`, `SnapshotsAreEarned`, refinement of `OneShot` | families of 4 and 1 candidates, 3 candidates per family, patience 2, 3 experiments, 2 processes, 2 moments, 1 failure |
| `coordinated_run` | CoordinatedRun | `OneHolder`, `HolderSeesWholeState`, and the liveness properties `AlertsSettle`, `CrashedLockIsRecovered` | 2 runs, 2 delivering threads, 2 attempts |
| `evidence_chain` | MCEvidenceChain | `ReadyIsAudited`, `SealsAreOneRevision`, `ReliedOnIsGuarded`, `ChainIsClosed` | 2 audits, 2 sealers, 1 process of each other kind, 4 bundles, 2 symbols, 1 edit, 1 commit, bars with 2 contents replaced up to 3 times |
| `execution` | MCTargetReplay | `ReplayIsSolvent`, `AuditAccepts`, `NoLookahead`, `CapIsFilled`, `FormulasAgree`, `ReturnsCompound` | 3 symbols, 2 warm-up and 3 scored sessions, 7 families, 2 frictions, 2 clocks, 6 calendars |
| `universe` | MCUniverseCampaign | `SelectedIsClean`, `EvidenceIsKept`, `RerunReproduces`, the action property `ManifestIsClosed`, the liveness property `CampaignsEnd` | 2 processes, 2 campaigns, 3 symbols, 2 versions of the method, 1 damaged file |

What they show, and why the bounds are enough.

- `budget`. One family is longer than the limit (a stop that skips rows), one as
  long (streak and last row coincide); the budget ends before the last trial; the
  earlier campaign's failures could serve as a false witness. The 2 x 2 grid
  gives each of its corners two neighbors. In the sealed policy the families
  have 54, 36, 36 and 54 candidates and the limit is 50, so a persistent stop
  falls near the end of a long family and never in a short one. `Watched` names
  the candidates whose neighbor evidence is enumerated. 405,632 states.
- `canonical_write`. Three generations allow a takeover and a return; the twin
  actors share an owner, so one can renew or release under the other; a delay of
  one instant around `expires_at` distinguishes the two sides of the expiry
  comparison. `MaxClock` and `MaxGeneration` only stop `Tick` and `Grant`.
  `LiveLeaseNotTaken` needs no bound on the delay: a delayed call sees *less*
  time pass than there was.
- `gate1_seal`. The sealers append through the journal's own steps, so this run
  checks the journal too: two sealers race for one id, and a retry meets its
  record as terminal or as buried. The second research shares a source and its
  hypothesis with the first, so a sealer can find records of another revision at
  the end of a journal; two revisions of one research publish two manifests over
  one journal. 171,113 states.
- `data_cache`. Two directories are enough for a version beside an admission,
  two admissions at once, and what a crash left beside an admission; two moments
  order versions; one power loss damages any one file.
- `governed_backtest`. The first fold holds two independent clusters and one
  that overlaps both, the second a cluster of two assets; every episode does well
  or badly, or is left out, so every gate is reached from both sides and a PASS
  needs all but one of them. `MaxFlawed` lets one episode have a defect: a tie, a
  return that only the stress friction eats, a lost scenario or drawdown, scenarios
  that disagree, or dates that are off by a session or in another fold. The
  thresholds are scaled down with the sample (4 windows, 1 per fold, 3 assets).
- `research_lifecycle`. The first family is longer than the budget, so it stops
  at the maximum or by either streak, and the second is exhausted after a streak
  has been reset; an evaluation is weak, strong (and accepted), stronger but not
  robust, or worse than the benchmark. Three experiments allow two promotions and
  a rejected one; two processes race for one snapshot and for one use record; two
  moments give one candidate two digests. `MaxFailures` lets one exception or
  crash happen anywhere, `MaxExperiments` ends the recording. Processes and
  moments are symmetric: nothing orders or names them, and the properties are
  safety properties.
- `coordinated_run`. Two runs meet at every step of the lock; two threads hold one
  alert while it is acknowledged; the second failed attempt escalates. Ages
  saturate one tick past `StaleAfter`. `CrashedLockIsRecovered` excludes the run
  whose stale alert was acknowledged while it lived: no second alert is raised
  (`operations.py:81`). No symmetry, since there is liveness. 206,827 states.
- `evidence_chain`. The gates write disjoint stores, so the instance starts the
  processes of one gate at a time (`OneGate`) and lets only files change that a
  process present reads (`OnlyReadFilesChange`): any other interleaving commutes.
  Two sealers and two audits meet in one store; one edit and one commit fall
  between any two reads. Pinned bars are replaced up to twice under Gate 3's sealer
  and reader, once for each of their loads, and up to three times under the
  campaign's, as often as a contract's panel is loaded; with one replacement less a
  gate could rely on no other prices, and `ReliedOnIsGuarded` is about the states in
  which it does. 487,924 states.
- `execution`. Prices halve or double, together or against each other; the
  volatility estimates make the cap bind for nobody, one symbol, one and then a
  second, and all; with friction a quarter, the cash left after buying is small.
  The calendars miss nothing, a whole month, an inner session, or a window's
  anchor, and in one of them there are windows and none is complete. `SummariseSome` derives evidence for one family, since it depends on
  the recorded states alone, and `OneLastEstimate` takes one estimate for the target
  of the last session, which no fill is due to. The slower clock always has
  friction, and prices enter the last session in one of two ways. 49,792 states.
- `universe`. One symbol comes in pages, with a gap, a key that comes back and
  errors; one repeats a day or brings a bad row; one is whole. `OneTrouble`
  allows one kind of trouble in a behaviour: two overlapping campaigns, a damaged
  file, or a new version between two campaigns. Where it varies nothing, starting
  late is starting early and waiting. A file is damaged before the campaign reads
  it for its manifest, after it has read some of them, or after it returned. Of two
  campaigns the one that is done with the pool waits for the other: from there on
  it reads what no longer changes and writes files of its own. 284,277 states.

Each property has a mutant in `PROJECT.json`: a plausible bug in one mapped
definition under which TLC finds the property violated in the same run.

Properties that are stated and in no configuration, because a theorem proves
them for every instance: the type invariants, `ActiveFamilyInOrder`,
`EndedCampaignIsFrozen`, `StreakIsTrailingFailures`, `OneOwnerPerGeneration`,
`LockOwnedInside`, `VersionsImmutable`, `VersionNamesUnique`,
`WindowsDisjoint` and `FoldsShareNoSession`.

## Proofs

Eight modules hold proofs, each for every value of the constants that satisfies
the named assumptions of the modules it extends.

| Module | Theorems | Inductive invariant |
|---|---|---|
| BudgetTraversal_proofs (with `CampaignResults`) | `TypeCorrect`, `OrdinalsCorrect`, `InOrder`, `DecidedFinal`, `EndFrozen`, `StreakCorrect`; `CampaignTraverses`, `StopProvable`, `StopEarned`, `SurvivorEarned` | `TypeOK`, `ActiveFamilyInOrder`, `OrdinalsCountAttempts`, `OutcomesLieBehind`; `CampaignInv` adds `StreakIsTrailingFailures`, `FailedWindowsEndFamilies`, `ResultsInv` |
| WriterGuards_proofs, on `CanonicalWrite` | `TypeCorrect`, `InvCorrect`, `GenerationsCorrect`, `NoTheft`, `Refinement` | `TypeOK`, `OneOwnerPerGeneration`, `FenceBehindLease` |
| WriterGuards_proofs, on `CoordinatedRun` | `RunTypeCorrect`, `LockIsExclusive`, `HolderIsSafe` | `RunTypeOK`; `OneHolder`, `CreatorOwns`, `RecoveringAreDead`; `BrokenIsGuarded` |
| Gate1Seal_proofs (with `Gate1Journal`) | of the journals: `TypeCorrect`, `LockOwnership`, `ChainsIntact`, `Refinement`; of the seal: `SealInvCorrect`, `ManifestsComplete`, `ReportsTrue`, `SealedChainsIntact`, `SealTypeCorrect`, `SealedRefinement` | `TypeOK`, `LockOwnedInside`, `ChainIntact`, `Prepared` and `Landed` per writer; `NotesOK`, `ManifestsOK` and per sealer `AppendOK`, `StatesOK`, `ArtifactsOK`, `ReportOK`; `StoreType` |
| DataCache_proofs | `TypeCorrect`, `InvCorrect`, `CleanLoads`, `Immutability`, `FreshFinds`, `OneVersion` | `TypeOK`, `TaskSound` per process, `OwnersApart`; `SearchInv` adds `SearchSound` per process, `VersionsHaveMetadata`, `VersionNamesUnique` |
| Backtests_proofs, on `GovernedBacktest` | `TypeCorrect`, `Independence`, `GreedyIsLargest`, `NoLeakage`, `VerdictCorrect`, `PassEarned`, `FailureNotHidden` | `ClusterInv`, and that evidence without timing errors is well timed; `VerdictInv` |
| Backtests_proofs, on `ReplayEvidence` | `ReplayIsAlwaysSolvent`, `CapIsAlwaysFilled`, `NeverLooksAhead`, `AuditAlwaysAccepts`, `FormulasAlwaysAgree`, `ReturnsAlwaysCompound` | `TargetsInv`, `BookInv`; `FillsInv`, `StatesInv`, `CashInv`, `HoldInv`; `EquityInv`, `DerivedInv` |
| ResearchLifecycle_proofs | `InvCorrect`, `TypeCorrect`, `BestCorrect`, `StopCorrect`, `SnapshotsCorrect`, `HoldoutRefined` | `SearchInv`, `OptimizerOK`, `RegistryOK`, `RecordsOK`, `StartedEarned`, `OwnerOK` per process, `OwnersApart` |
| EvidenceChain_proofs | `ChainInv`, `AuditedReady`, `OneRevision`, `GuardedEvidence`, `ClosedChain` | `RepoType`, and per gate `AuditInv`, `SealInv`, `GateInv`, `CampaignInv`: what each process knows, stage by stage |
| UniverseCampaign_proofs | `TypeCorrect`, `KeptCorrect`, `EvidenceKept`, `ManifestClosed`, `RerunsReproduce`, `SelectedAreClean` | `KeptInv`; `RerunInv`, `CleanInv` and `UnspoiltInv` beside it |

The assumptions on constants say what the code's own literals and validators
guarantee: that numbers are numbers, sequences are sequences and not empty where
the code needs an element, the markers for "nothing" are no values, and

- *budget*: the families' ranges are contiguous and increasing
  (`BoundAssumption`, what `validate_budget_state` demands), candidates' strengths
  are numbers (`StrengthAssumption`), and an evaluation has a number only if it
  was executed (`EvaluationsAssumption`);
- *seal*: ids are unique in a plan, every journal is a phase once;
- *backtest*: the protocol passed `validate_protocol_calendar`;
- *replay* (`WeightsAssumption`, `ReplayAssumption`, `EvidenceAssumption`): prices are
  positive; the cap is above zero and at most one (`allocation.py:72`), the target
  volatility not negative (`allocation.py:134`); friction is below the whole
  notional (the cases are 0 to 50 basis points); an exposure is between none and
  all (`baselines.py`); a trend looks at one close at least, and a regime looks
  back no further than the warm-up reaches (`authorities.py:131` refuses a panel
  that is shorter); more than one session is scored (1,008 are,
  `gate3/inputs.py:152`); expected sessions are a list of days in strict order
  (`ExpectedSessionAuthority`, `models.py:1134`), of which the replay holds one for
  each session it scored, and every month an anchor can fall in has a day;
- *evidence chain*: there are finitely many source bundles, at least one file
  each that the method and its schema pin (`FilesAssumption`), and no process is
  sealer and reader at once (`LoadersAssumption`);
- *universe*: finitely many processes, a digest order in which no two fetches
  are the same (`DigestRank` is injective, as SHA-256 is taken to be), a pool that
  names no symbol twice (`DQSnapshot` in `models.py:241` wants one result a
  candidate), and slots that are sequences of symbols.

The arguments.

- *Budget.* `TypeOK` alone is not inductive: that the cursor stays in the
  population follows from `ActiveFamilyInOrder`, which says an active campaign's
  cursor is inside its active family and no later row was touched. That also
  makes ordinals dense: the row that is consumed is later than every consumed
  row, so its ordinal, the new count, is the number of consumed rows up to it. An
  outcome is recorded once because every step that records one moves the cursor
  beyond its row, so that none is ever ahead of the cursor (`OutcomesLieBehind`).
- *Campaign.* Every step of `CampaignResults` is a step of the budget or leaves its
  variables alone, so the budget's theorems hold in the composition
  (`CampaignTraverses`). The streak is the length of the trailing run of failures
  (`StreakIsTrailingFailures`), therefore a run of failures as long as the limit
  stands only at the end of a family that was stopped (`FailedWindowsEndFamilies`).
  `ResultsInv` ties the budget's history to the store: a position is observed
  once, after it was consumed, and an outcome is that of its observation. A
  witness of a skip that was not earned would then hold a positive outcome,
  which is `StopIsEarned`; the other way round, the failures a stop is decided on
  are all in the store, which is `StopIsProvable`.
- *Canonical write.* A commit's epoch is the generation of the current lease, so
  the refinement needs that the newest epoch never exceeds the generation
  counter or the current lease's generation, and that an equal epoch has the
  same owner (`FenceBehindLease`).
- *Journals.* Between the second read and the write, the predecessor a writer
  read is still the terminal record, and between write and read-back its record
  still is (`Prepared`, `Landed`), because the writer owns the lock
  (`LockOwnedInside`) and only the owner writes. This is mutual exclusion with
  leaked locks: `Leaked` is owned by nobody and never becomes free.
- *Seal.* A manifest compares counts, not records, so why can a journal that other
  sealers filled as well not be taken for the sealer's own? `Aligned`: an append
  that returned found its record at the end of the journal, so the records of a
  plan stand in the journal in the plan's order, each at least as far from the
  next as there, with other records between them perhaps. A journal of the
  plan's length then *is* the plan (`AlignedIsPlan`). Ids must be unique in the
  plan, or one record could stand for two. What was verified remains a prefix
  (`StatesOK`) because journals only grow, and the notes are whole and final
  once anybody is past them, because they are created exclusively (`NotesOK`).
  The sealer's two moves that no journal step is, forgetting how an append ended
  and dying between two, keep the journal's invariant too (`ForgettingKeeps`).
- *Cache.* `TaskSound` says what a task may assume at each stage (an admission
  in progress owns a temporary directory of clean content), `OwnersApart` that
  two admissions never own one directory. A published version is therefore out
  of everybody's reach, which is `VersionsImmutable`; and a returned dataset has
  passed the hash comparison with content that was admitted, which is
  `LoadedIsClean`. For freshness, `SearchSound` says that every version that was
  published when a search began is still to be read or no newer than the best one
  read so far; a search cannot have skipped it, because a published version has
  its metadata (`VersionsHaveMetadata`) and stays where it is. With it come that a
  refresh makes no second version of content that was published before its search
  began (`RefreshReusesVersion`), and that no two versions have one name
  (`OneVersion`).
- *Governed backtest.* That the selection so far is a largest one among the
  visited clusters is not inductive: a cluster that is skipped could enlarge some
  other choice. `ClusterInv` adds that a choice whose windows all end before the
  last selected one ends is strictly smaller, so the skipped cluster makes it at
  most equal. This holds for every calendar and spacing, far beyond the six
  clusters of the run. For the verdict, `VerdictInv` says that a report is that of
  the evidence and the selection beside it, which no longer change. What remains
  is arithmetic on medians, whose existence needs no recursion: an order statistic
  is defined by counting the values on either side of it, and the one with the
  right count is the least value with enough values at or below it.
- *Replay.* First the arithmetic. `Frac` divides by the greatest common divisor that
  Euclid's algorithm finds; that fractions so reduced are equal when they are
  worth the same, and that they obey the laws of an ordered field (`AddLaws` to
  `DivLaws`), is proved from the least counterexample. Sums are folds that the
  community modules define by taking any element out; `FoldExists` and `FoldComputes`
  show that every order of taking gives one value, for any finite set and any
  operation that commutes. `TargetsInv`: every target is long-only and unlevered,
  which for inverse volatility rests on the rounds of capping: `CapRounds` says
  that they come to an end, and `HasRoom` that what is left always fits under the
  caps of those not yet at theirs. `BookInv`: cash and units are not negative and
  something is held. The step that needs care is the open: the sells bring in
  at least nothing, since friction is below the notional, and buys are scaled to
  what is there with friction included, so cash cannot go below zero.
  Together they leave no way to `failed`, which is `ReplayIsSolvent`.
  For the audit the same has to hold between two fills: `FillsInv` says that the
  fills alone, applied one by one in the order they were recorded, never leave the
  book short, and end at what is held. Within a session this is an argument about
  every set of sells, then of buys, already applied (`SellsBook`, `BuysBook`). `StatesInv`
  says that each recorded state is the one derived from the fills up to its
  session. `CashInv` and `HoldInv` follow the two benchmarks through the sessions.
- *Evidence.* The engine divides the closing equities at the two ends of a window,
  Gate 1 multiplies the growth of one session after the other. Both are the same
  because the closes are positive (`EquityInv`: a book that holds something at
  positive prices is worth something) and the quotients telescope
  (`GrowthTelescopes`); `PositionLaws` carry this from the calendar, where sessions
  may be missing, to the positions of the replay, where none is. `DerivedInv` says
  that evidence is `EvidenceOf` a calendar and a finished replay. The rows of a
  period agree since the first session's growth of one multiplies nothing
  (`RowsAgree`). For the windows the two anchors differ, the last expected session
  before the day against the last held one: when the engine's window is complete
  its anchor is held, hence Gate 1's, and when Gate 1's is complete no expected
  session lies between the two (`AnchorLaws`, `WindowsAgree`). For the returns,
  `ProductOfProducts` multiplies over the parts of a partition: periods, folds and
  regimes each partition the sessions that have a return (`RowsCompound`,
  `FoldsCompound`, `RegimesCompound`), and all together telescope to the last close over
  the first.
- *Research lifecycle.* For the search, `Streak` says which evaluations the
  out-of-sample counter counts and `OnGoing` that the other counter and the
  leader's position add up to the number of evaluations; from there
  `CompleteStep` shows that an evaluation can complete a streak only at its end, and
  since the code looks at both streaks after every evaluation, a search that has
  not stopped has completed neither: `StopIsJustified` is an equivalence for both
  stops. For the rest, `Kept` says that a recorded experiment
  never changes, so what was earned stays earned, and `OwnerOK` with `OwnersApart`
  that between its use record and its result one process alone holds a digest;
  the refinement of `OneShot` follows step by step. Families, processes, moments,
  budget, patience and the bounds are arbitrary.
- *Coordinated run.* `LockInv` is the lock argument once more, with a file that
  has no text yet (`CreatorOwns`) and an operator who removes what belongs to a
  dead run (`RecoveringAreDead`). `BrokenIsGuarded` says that a half-written block
  is always behind the lock of the run that broke it, so `HolderSeesWholeState`
  follows from exclusion.
- *Evidence chain.* Parts of the repository only move on (`RepoMove`): history
  grows, records once rewritten do not become what they were, and the count of
  replacements is never taken back. What a process learned in an
  earlier step can therefore be compared with a later one: equal scans before and
  after mean that what was read in between belongs to one state of the tree;
  files that equal one revision's blobs one after the other are that revision,
  whatever the worktree did meanwhile; and other prices than the pinned ones were
  read from bars that had been replaced (`WasReplaced`). A symbol that verifies
  after that has its pinned bars back (`IsRestored`), and gives other prices again
  only once they were replaced once more: every further load that agrees with the
  first costs one more replacement, however many there are, which is
  `ReliedOnIsGuarded`. Each gate's invariant says this stage by stage
  for each of its processes, and that what it binds is published before what binds
  it. The gates run together in the proof, with any numbers of processes, bundles,
  symbols, edits and commits; the run starts those of one gate at a time.
- *Universe campaign.* `KeptInv`: a moment belongs to one fetch, raw evidence is
  written only by it and holds what was sent, a record's evidence is on disk, and
  so is all that a snapshot, report or manifest will bind. Fetches are bounded by
  counting those still to come (`FetchesBounded`), so that each record has a place
  of its own in digest order. `RerunInv`: the verdicts of a campaign that runs
  alone are the first records in that order, once it has returned nobody fetches
  for its version again (`NoRefetch`), and the records of that version are frozen;
  so whoever looks them up finds what it found. Overlap, damage and new versions
  may all happen in one behaviour; the run takes one trouble at a time. `CleanInv`: a
  verdict of PASS, on disk or in a campaign, rests on raw evidence that is one
  sound row of its symbol for every session; selection takes only such symbols
  (`SelectedPass`), the pool names each of them once, so the verdict in the manifest
  is the one that passed. `UnspoiltInv`: whatever a campaign found was read or
  written by it after it started, so none of it was damaged then, and the part of
  the chain it has verified was not damaged when it had its report. A file damaged
  after it was read goes unnoticed, and the quarantine and calendar evidence of a
  verdict is not read again for the manifest: `ManifestIsClosed` does not say more.

Only model-checked, and why.

- The liveness properties `AlertsSettle`, `CrashedLockIsRecovered` and
  `CampaignsEnd`: liveness under fairness is out of the prover's reach.
- The properties that two runs find violated, and the conversions that only they
  depend on.

Out of the prover's reach are liveness, `ENABLED`, and facts by induction about
recursive definitions, since the library's induction theorems take an operator as
a parameter. Where a proof needs a least element (the median, the first record in
digest order) it uses well-foundedness of the natural numbers instead, which
speaks of sets. No proof here depends on an unproved fact.

## Disagreements between code and documents

Two are runs that expect a violation, with their quotes in `PROJECT.json`
(`findings`):

1. `gate1_sealed_journal`. A sealer of another revision appends to journals that
   a published manifest has sealed (`seal.py:332`); the Gate 1 design says that
   no journal is written after publication. The manifest stays verifiable as a
   prefix (`ManifestIsComplete`).
2. `data_cache_atomic`. `find` lists `.tmp-*` directories of admissions in
   progress (`cache.py:57`) and can return a dataset from one; the design and
   the package's README call admission atomic. What is returned is still clean
   (`LoadedIsClean`).

Eight more are stated as definitions that are false of the code, or of the order
a document gives; adding `INVARIANT <definition>` to the configuration named shows
the behaviour:

3. `LeftFamilyIsDecided` (MCBudgetTraversal.cfg). `terminate_family` with
   `PERSISTENT_OOS_FAILURE` skips the rows *after* the cursor (`budget.py:133`).
   Called before the current trial was consumed, it leaves that row
   `UNATTEMPTED` behind the cursor, where no later call can decide it; the Gate 2
   design (`2026-09-13-phase-4-gate-2-engine-design.md:635`) wants every row of a
   stopped family decided.
4. `MissingEvidenceIsInconclusive` (MCGovernedBacktest.cfg). The gate on positive
   folds counts a fold without observations as one that is not positive
   (`backtest_v1.py:436`), so an evaluation with no clean observation is reported
   FAIL; the docstring (line 308) and the design say that missing evidence is
   INCONCLUSIVE and that FAIL needs an observed adverse finding.
5. `StreakAgrees` (MCTargetReplay.cfg). A month without a return ends a streak of
   losses in the engine (`durability.py:261-263`) and not in the registered
   policy (`policy.py:439-446`).
6. `NeighborsAreNotHidden` (MCBudgetTraversal.cfg). A neighbor that a result
   calls UNKNOWN is taken at its word (`validation.py:186`), also when that
   neighbor's own result has a number; the result-schema design (lines 179-180)
   says "Availability is determined by evidence, not a caller flag".
7. `DeteriorationStops` (MCResearchLifecycle.cfg). The design of the quant
   subsystem (`2026-09-11-etf-quant-research-subsystem-design.md:189-192`) says that
   a family stops earlier "when robustness deteriorates". `run_search` has no such
   stop: a candidate whose robustness deteriorated is not eligible
   (`search.py`), as its docstring and the report
   `2026-09-12-optimizer-phase-1-repair.md:7-13` say, and the search goes on.
8. `MergesAreFresh` (CoordinatedRun.cfg). The multi-agent design (263-271) never
   merges "optimistically against stale inputs", and its order, which is that of
   `agents/coordinator.md:9-14` too, compares the digests before the lock is
   acquired: a run that waits for the lock merges over the version the other one
   wrote meanwhile. `snapshot.py:27` is the comparison; no code calls it.
9. `AcceptedIsPinned` (MCEvidenceChain.cfg). The digest of a bars file is checked
   on one reading and its closes come from another one (`gate3/inputs.py:163-165`),
   in the sealer and in the reader that recomputes. When the pinned bars are
   replaced in both gaps by the same ones, the reader accepts a regime that was not
   computed from the pinned bars. `ReliedOnIsGuarded` says that no less does it.
10. `SummaryReasonsAgree` (MCTargetReplay.cfg). When there are rolling windows and
    none is complete, the engine's summary is unavailable for `INCOMPLETE_WINDOW`
    (`durability.py:187-196`), the registered policy's for `INSUFFICIENT_DATA`
    (`policy.py:412-413`). The figures agree (`FormulasAgree`).

## Not modelled

- Pure validation, formatting, canonical encoding and literal research data (Gate
  1 provenance, baselines, definitions; codecs; reports; exporters; command
  lines; decisions, governance and audits): nothing in them takes a step, and
  each case of them is one unit test.
- Floats: the strategies, indicators, metrics and bootstrap of `quant/backtest`,
  `quant/strategies`, `quant/readiness/statistics.py`, `quant/validation`, and the
  replay and candidate generations. A small-integer model would say nothing about
  rounding; where the formulas matter (Gate 2) they are modelled in fractions.
- `engine/conformance.py` and most of `engine/models.py`: fixtures, and field
  validators of records whose relations the modules keep as their own shape.
- Path checks, symbolic links and permissions in the artifact stores: abstracted
  to success or a raise. The SDK's calendar request is one answer.
- `phase_state.py` is a literal table of transitions; staged access
  (`validation/access.py`) a chain of slices of one frame.
- `evaluate_operational_reconciliation` is a pure verdict.

## Plan

Done: `BudgetTraversal`, `CanonicalWrite`, `Gate1Journal`, `Gate1Seal`,
`DataCache`, `GovernedBacktest`, `ResearchLifecycle`;
`CoordinatedRun`, `EvidenceChain` with its gates, the execution modules,
`UniverseCampaign`, `CandidateGrids` and `CampaignResults`.

Left, in this order:

1. The staged data access of `validation/access.py` in `ResearchLifecycle`, so
   that what a search may see is part of the composition.
2. The last panel of `load_result_authority`, as a violation run once a document
   says what it must be compared with.
