------------------------ MODULE EvidenceChain_proofs ------------------------
(***************************************************************************)
(* Proofs about the gates over one checkout, for any numbers of audits,      *)
(* sealers, loaders and campaign processes, bundles, symbols and records.    *)
(*                                                                         *)
(* No step undoes what an earlier reading has established, because parts of   *)
(* the repository only move on (RepoMove): a commit is there for good, the    *)
(* records of the population only go and other records only come, and how     *)
(* often pinned bars were replaced is never taken back.  From this:          *)
(*                                                                         *)
(*  - two scans of the trees that find the same trees had nothing between     *)
(*    them, so that what was read between them is of those trees             *)
(*    (LaterAntisymmetric, AuditOK);                                        *)
(*  - files that equal one revision's blobs one after the other are that      *)
(*    revision, whatever the worktree did meanwhile (SealerOK, FilesOK);      *)
(*  - other prices than the pinned ones were read from bars that had been     *)
(*    replaced (WasReplaced).  A symbol that verifies after that has its      *)
(*    pinned bars back (IsRestored), and gives other prices again only once   *)
(*    they were replaced once more, so that every further load that agrees    *)
(*    with the first counts one replacement more (LoaderOK, PanelsOK,         *)
(*    ComparedOK).                                                           *)
(*                                                                         *)
(* Every gate has its invariant; a lemma "...Kept" says what a process that   *)
(* takes no step keeps, "...Moves" and "...Writes" what remains to be shown   *)
(* of a step of one process, and "...Keeps" is about one step.               *)
(***************************************************************************)
EXTENDS EvidenceChain, TLAPS, FiniteSetTheorems
-----------------------------------------------------------------------------
(* The repository: types, and what one step may do to it. *)

Classes == {"PRELIMINARY_CORRECTED", "FINAL_AUTHORITATIVE", "OUT_OF_SCOPE", "AMBIGUOUS"}
Record == [name : (Candidates \X Classes) \cup (Extras \X {"added"}),
           candidate : Candidates, category : Classes, body : {0, 1}]
Tree == SUBSET Record
Panel == [SymbolSet -> Contents]
BundleBytes == [Bundles -> Int]

RepoType == /\ worktree \in BundleBytes
            /\ history \in Seq(BundleBytes)
            /\ Head1 >= 1
            /\ bars \in Panel
            /\ replaced \in [SymbolSet -> Nat]
            /\ \A s \in SymbolSet : bars[s] # Pinned => replaced[s] >= 1
            /\ experiments \in Tree
            /\ journals \in BOOLEAN

\* Records of the population only go, and others only come.
Later(E, F) == /\ E \ Phase2Files \subseteq F \ Phase2Files
               /\ F \cap Phase2Files \subseteq E \cap Phase2Files

HistoryGrows == /\ Head1 <= Head1'
                /\ \A i \in DOMAIN history : history'[i] = history[i]

\* How often the bars of a symbol will have been replaced when they are next
\* seen to be other than the pinned ones.
spent == [s \in SymbolSet |-> replaced[s] + (IF bars[s] = Pinned THEN 1 ELSE 0)]
BarsMove == \A s \in SymbolSet, n \in Nat :
                /\ replaced[s] >= n => replaced'[s] >= n
                /\ spent[s] > n => spent'[s] > n
RepoMove == HistoryGrows /\ BarsMove /\ Later(experiments, experiments')

\* A panel may hold other closes of a symbol only when its bars were replaced so
\* many times ...
WasReplaced(panel, n, times) == \A s \in SymbolSet : panel[s] # Pinned => times[s] >= n
\* ... and whoever reads other closes of it again reads them after one time more.
IsRestored(panel, n, sum, s) == panel[s] # Pinned => sum[s] > n

-----------------------------------------------------------------------------
(* The readiness audit. *)

AuditStages == {"start", "scanned", "identified", "audited", "built", "authorised",
                "configured", "rescanned", "reported", "staged", "ready", "failed", "absent"}
Trees == [bars : Panel, experiments : Tree]
Seen == [before : Trees, revision : Nat, authority : Tree]
Report == [trees : Trees, authority : Tree]
Manifest == [revision : Nat, trees : Trees, authority : Tree, report : Report]
AuditType == /\ apc \in [Audits -> AuditStages]
             /\ seen \in [Audits -> Seen]
             /\ ready \in [fixed : SUBSET FixedArtifacts, authority : SUBSET Tree,
                           report : SUBSET Report, manifest : SUBSET Manifest]

BetweenScans == {"scanned", "identified", "audited", "built", "authorised", "configured"}
AfterScans == {"rescanned", "reported", "staged", "ready"}

\* Between the two scans the trees have only moved on, the authority is of a
\* moment between, and what was replaced at the first scan is restored once the
\* Phase 3 inputs were verified.
ScanOK(a) ==
    /\ apc[a] \in BetweenScans =>
           /\ Later(seen[a].before.experiments, experiments)
           /\ WasReplaced(seen[a].before.bars, 1, replaced)
    /\ apc[a] \in {"built", "authorised", "configured"} =>
           /\ Later(seen[a].before.experiments, seen[a].authority)
           /\ Later(seen[a].authority, experiments)
    /\ apc[a] = "configured" =>
           \A s \in SymbolSet : IsRestored(seen[a].before.bars, 1, spent, s)

\* After them the authority is that of the trees, and the artifacts are there.
BoundOK(a) ==
    /\ apc[a] \in AfterScans =>
           /\ seen[a].authority = seen[a].before.experiments
           /\ WasReplaced(seen[a].before.bars, 2, replaced)
           /\ seen[a].authority \in ready.authority
           /\ FixedArtifacts \subseteq ready.fixed
    /\ apc[a] \in {"reported", "staged", "ready"} => ReportOf(a) \in ready.report
    /\ apc[a] = "ready" => ManifestOf(a) \in ready.manifest

AuditOK(a) == ScanOK(a) /\ BoundOK(a)

AuditInv == /\ AuditType
            /\ \A a \in Audits : AuditOK(a)
            /\ ReadyIsAudited /\ ReadyIsClosed

-----------------------------------------------------------------------------
(* The engine seal. *)

SealPlaces == [stage : {"start", "bundle", "bound", "publish", "link", "confine", "commit",
                        "verify", "sealed", "failed", "absent"}, i : Nat]
Artifact == [kind : STRING, head : Nat, bundles : BundleBytes]
Temporary == Sealers \X {"live", "orphan"}
EngineRecord == [head : Nat, bundles : BundleBytes, written : SUBSET Artifact]
Gate2Tree == [artifacts : SUBSET Artifact, manifests : SUBSET EngineRecord,
              temps : SUBSET Temporary]
Known == [head : Nat, bundles : BundleBytes, files : Gate2Tree]
SealType == /\ spc \in [Sealers -> SealPlaces]
            /\ known \in [Sealers -> Known]
            /\ engine \in [artifacts : SUBSET Artifact, manifests : SUBSET EngineRecord]
            /\ temps \subseteq Temporary

\* The stages with a revision, with all bundles, with all artifacts.
HasHead == {"bundle", "bound", "publish", "link", "confine", "commit", "verify", "sealed"}
HasBundles == HasHead \ {"bundle"}
HasArtifacts == {"confine", "commit", "verify", "sealed"}

\* A sealer has identified the bundles before the one it is at, and published
\* the kinds before the one it is at.
SealerOK(s) ==
    /\ spc[s].stage \in HasHead => known[s].head \in DOMAIN history
    /\ spc[s].stage = "bundle" =>
           \A k \in 1..(spc[s].i - 1) :
               known[s].bundles[BundleSeq[k]] = history[known[s].head][BundleSeq[k]]
    /\ spc[s].stage \in HasBundles => known[s].bundles = history[known[s].head]
    /\ spc[s].stage \in {"publish", "link"} =>
           \A k \in 1..(spc[s].i - 1) : Content(s, Kinds[k]) \in engine.artifacts
    /\ spc[s].stage \in HasArtifacts => Published(s) \subseteq engine.artifacts
    /\ spc[s].stage \in {"verify", "sealed"} => EngineManifest(s) \in engine.manifests

EngineOK == \A m \in engine.manifests : m.head \in DOMAIN history

SealInv == /\ SealType
           /\ \A s \in Sealers : SealerOK(s)
           /\ EngineOK /\ EngineIsOneRevision /\ EngineIsClosed

-----------------------------------------------------------------------------
(* The Gate 3 authorities. *)

GatePlaces == [stage : {"start", "inputs", "check", "read", "loaded", "fold", "regime",
                        "done", "failed", "absent"}, i : Nat]
Gate3Record == [revision : Nat, closes : Panel]
Look == [revision : Nat, closes : Panel, manifest : Gate3Record]
GateType == /\ gpc \in [Loaders -> GatePlaces]
            /\ look \in [Loaders -> Look]
            /\ gate3 \in [fold : SUBSET Nat, regime : SUBSET Gate3Record,
                          manifest : SUBSET Gate3Record]

\* Whoever starts or is outside knows nothing yet; other closes were read from
\* bars that had been replaced.
LookOK(p) == /\ gpc[p].stage \in {"start", "failed", "absent"} => look[p] = NothingLooked
             /\ WasReplaced(look[p].closes, 1, replaced)
             /\ WasReplaced(look[p].manifest.closes, 1, replaced)

\* A symbol whose manifest holds other closes has its pinned bars back when its
\* check passes, and its second reading differs from the pinned one only when they
\* were replaced once more.
Checked(p, k) == \/ gpc[p].stage \in {"check", "read"} /\ k < gpc[p].i
                 \/ gpc[p].stage = "read" /\ k = gpc[p].i
                 \/ gpc[p].stage = "loaded"
Taken(p, k) == \/ gpc[p].stage \in {"check", "read"} /\ k < gpc[p].i
               \/ gpc[p].stage = "loaded"
Twice(panel, again, n, times, s) == panel[s] # Pinned /\ again[s] # Pinned => times[s] >= n + 1
ReadOK(p) ==
    \A k \in DOMAIN Symbols :
        /\ Checked(p, k) => IsRestored(look[p].manifest.closes, 1, spent, Symbols[k])
        /\ Taken(p, k) => Twice(look[p].manifest.closes, look[p].closes, 1, replaced, Symbols[k])

WrittenOK(p) == /\ gpc[p].stage \in {"fold", "regime"} => look[p].revision \in gate3.fold
                /\ gpc[p].stage = "regime" => Computed(p) \in gate3.regime

DoneOK(p) == gpc[p].stage = "done" /\ p \in Readers =>
                 WasReplaced(look[p].manifest.closes, 2, replaced)

OnlySealersWrite == \A r \in Readers : gpc[r].stage \notin {"fold", "regime"}

LoaderOK(p) == LookOK(p) /\ ReadOK(p) /\ WrittenOK(p) /\ DoneOK(p)

GateInv == /\ GateType
           /\ \A p \in Loaders : LoaderOK(p)
           /\ OnlySealersWrite
           /\ \A m \in gate3.manifest : WasReplaced(m.closes, 1, replaced)
           /\ AuthorityIsClosed

-----------------------------------------------------------------------------
(* The seals and the loader of the campaign. *)

Spots == [role : {"method", "schema", "load", "start", "done", "failed", "absent"},
          i : Nat, j : Nat]
Holding == [revision : Nat, files : BundleBytes, reading : Panel, panels : [Slots -> Panel]]
MethodRecord == [revision : Nat, files : BundleBytes]
SchemaRecord == [revision : Nat, files : BundleBytes, panel : Panel, contract : Panel]
CampaignType == /\ cpc \in [CampaignProcesses -> Spots]
                /\ held \in [CampaignProcesses -> Holding]
                /\ sealed \in [records : SUBSET MethodRecords, methods : SUBSET MethodRecord,
                               contracts : SUBSET Panel, schemas : SUBSET SchemaRecord]

Running(p) == cpc[p].role \in {"method", "schema", "load"}
SpotOK(p) == /\ Running(p) => /\ cpc[p].i \in DOMAIN Program(cpc[p].role)
                              /\ held[p].revision \in DOMAIN history
             /\ Doing(p, "files") => cpc[p].j < Len(FilesOf(p))

\* The files a process has identified are those of its revision.
SameFile(p, f) == held[p].files[f] = history[held[p].revision][f]
FilesOK(p) ==
    /\ cpc[p].role \in {"method", "schema"} /\ Doing(p, "files") =>
           \A k \in 1..cpc[p].j : SameFile(p, FilesOf(p)[k])
    /\ cpc[p].role = "method" /\ cpc[p].i > 3 =>
           \A k \in DOMAIN MethodFiles : SameFile(p, MethodFiles[k])
    /\ cpc[p].role = "schema" /\ cpc[p].i > 1 =>
           \A k \in DOMAIN SchemaFiles : SameFile(p, SchemaFiles[k])

\* How many loads of a panel have agreed: in a schema seal the second ones of the
\* manifest's panel and of its contract's are operations 4 and 5.
Loads(role, i, slot) ==
    IF role = "schema" /\ ((slot = "manifest" /\ i > 4) \/ (slot = "contract" /\ i > 5))
    THEN 2 ELSE 1

\* Every kept panel holds other prices only of bars replaced at each of its loads.
PanelsFit(panels, role, i) ==
    \A slot \in Slots : WasReplaced(panels[slot], Loads(role, i, slot), replaced)

\* Other prices than the pinned ones were read from bars that had been replaced at
\* each of the loads; a symbol that passes its check again has its pinned bars
\* back, and is read as pinned unless they are replaced once more.
PanelsOK(p) ==
    /\ WasReplaced(held[p].reading, 1, replaced)
    /\ PanelsFit(held[p].panels, cpc[p].role, cpc[p].i)
    /\ Doing(p, "deps") => \A slot \in Slots, k \in DOMAIN Symbols :
           /\ 2 * k <= cpc[p].j => IsRestored(held[p].panels[slot], Loads(cpc[p].role, cpc[p].i, slot),
                                              spent, Symbols[k])
           /\ 2 * k < cpc[p].j => Twice(held[p].panels[slot], held[p].reading,
                                        Loads(cpc[p].role, cpc[p].i, slot), replaced, Symbols[k])

\* The third load of the contract's panel is the one that is written.
Thrice(panels) == \A s \in SymbolSet : Twice(panels["contract"], panels["written"], 2, replaced, s)
ComparedOK(p) == cpc[p].role = "schema" /\ cpc[p].i > 11 => Thrice(held[p].panels)

PublishedOK(p) ==
    /\ cpc[p].role = "method" /\ cpc[p].i > 5 => "baseline" \in sealed.records
    /\ cpc[p].role = "method" /\ cpc[p].i > 6 => "regime" \in sealed.records
    /\ cpc[p].role = "schema" /\ cpc[p].i > 12 => held[p].panels["written"] \in sealed.contracts

ProcessOK(p) == SpotOK(p) /\ FilesOK(p) /\ PanelsOK(p) /\ ComparedOK(p) /\ PublishedOK(p)

SealedRevisions == \A m \in sealed.methods \cup sealed.schemas : m.revision \in DOMAIN history

CampaignInv == /\ CampaignType
               /\ \A p \in CampaignProcesses : ProcessOK(p)
               /\ SealedRevisions
               /\ CampaignIsOneRevision /\ SchemaIsGuarded /\ CampaignIsClosed
-----------------------------------------------------------------------------
(* The repository. *)

LEMMA PopulationIsRecords == Phase2Files \subseteq Record
BY DEF Phase2Files, Record, Representation, Classes

LEMMA LaterTrans ==
    ASSUME NEW E, NEW F, NEW G, Later(E, F), Later(F, G)
    PROVE  Later(E, G)
BY DEF Later

\* Nothing happened between two equal readings.
LEMMA LaterAntisymmetric ==
    ASSUME NEW E, NEW F, Later(E, F), Later(F, E)
    PROVE  E = F
BY DEF Later

LEMMA RewriteIsLater ==
    ASSUME NEW E \in Tree, NEW f \in E, f \in Phase2Files,
           NEW F, F = (E \ {f}) \cup {[f EXCEPT !.body = 1]}
    PROVE  F \in Tree /\ Later(E, F)
<1>1. PICK c \in Candidates, k \in {"PRELIMINARY_CORRECTED", "FINAL_AUTHORITATIVE"} :
          f = [name |-> <<c, k>>, candidate |-> c, category |-> k, body |-> 0]
  BY DEF Phase2Files, Representation
<1>2. [f EXCEPT !.body = 1] = [name |-> <<c, k>>, candidate |-> c, category |-> k, body |-> 1]
  BY <1>1
<1>3. [f EXCEPT !.body = 1] \in Record
  BY <1>2 DEF Record, Classes
<1>4. [f EXCEPT !.body = 1] \notin Phase2Files
  <2>1. \A g \in Phase2Files : g.body = 0
    BY DEF Phase2Files, Representation
  <2> QED
    BY <1>2, <2>1
<1> QED
  BY <1>3, <1>4 DEF Tree, Later

LEMMA AddIsLater ==
    ASSUME NEW E \in Tree, NEW name \in Extras, NEW c \in Candidates, NEW k \in Classes,
           NEW F, F = E \cup {Representation(<<name, "added">>, c, k, 0)}
    PROVE  F \in Tree /\ Later(E, F)
<1> DEFINE f == Representation(<<name, "added">>, c, k, 0)
<1>1. f \in Record
  BY DEF Record, Representation
<1>2. f \notin Phase2Files
  <2>1. f.name[2] = "added"
    BY DEF Representation
  <2>2. \A g \in Phase2Files : g.name[2] # "added"
    BY DEF Phase2Files, Representation
  <2> QED
    BY <2>1, <2>2
<1> QED
  BY <1>1, <1>2 DEF Tree, Later

LEMMA PinnedBarsType == PinnedBars \in Panel
BY ContentsAssumption DEF PinnedBars, Panel

LEMMA RepoInit_ == RepoInit => RepoType
<1> SUFFICES ASSUME RepoInit PROVE RepoType
  OBVIOUS
<1>1. worktree \in BundleBytes /\ history \in Seq(BundleBytes) /\ Head1 >= 1
  BY DEF RepoInit, BundleBytes, Head1
<1>2. experiments \in Tree
  BY PopulationIsRecords DEF RepoInit, Tree
<1>3. /\ bars \in Panel /\ replaced \in [SymbolSet -> Nat]
      /\ \A s \in SymbolSet : bars[s] = Pinned
  BY PinnedBarsType DEF RepoInit, PinnedBars
<1> QED
  BY <1>1, <1>2, <1>3 DEF RepoInit, RepoType

\* A step of a gate leaves the repository alone, and one of the repository
\* moves it on.
LEMMA RepoMoves == RepoType /\ [Next]_vars => RepoType' /\ RepoMove
<1> SUFFICES ASSUME RepoType, [Next]_vars PROVE RepoType' /\ RepoMove
  OBVIOUS
<1>1. CASE UNCHANGED repoVars
  <2>1. RepoType'
    BY <1>1 DEF repoVars, RepoType, Head1
  <2>2. RepoMove
    BY <1>1 DEF repoVars, RepoMove, HistoryGrows, BarsMove, Later, RepoType, Head1, spent
  <2> QED
    BY <2>1, <2>2
<1>2. CASE RepoStep
  <2>1. ASSUME NEW b \in Bundles, Edit(b) \/ Restore(b)
        PROVE  RepoType' /\ RepoMove
    <3>1. worktree' \in BundleBytes
      <4>1. CASE Edit(b)
        BY <4>1, BoundsAssumption DEF Edit, RepoType, BundleBytes
      <4>2. CASE Restore(b)
        <5>1. history[Head1] \in BundleBytes
          BY DEF RepoType, Head1
        <5> QED
          BY <4>2, <5>1 DEF Restore, RepoType, BundleBytes
      <4> QED
        BY <2>1, <4>1, <4>2
    <3>2. UNCHANGED <<history, bars, replaced, experiments, journals>>
      BY <2>1 DEF Edit, Restore
    <3> QED
      BY <3>1, <3>2 DEF RepoType, RepoMove, HistoryGrows, BarsMove, Later, Head1, spent
  <2>2. CASE Commit
    <3>1. /\ history' = Append(history, worktree) /\ worktree \in BundleBytes
          /\ history \in Seq(BundleBytes)
      BY <2>2 DEF Commit, RepoType
    <3>2. /\ history' \in Seq(BundleBytes) /\ Len(history') = Len(history) + 1
          /\ \A i \in DOMAIN history : history'[i] = history[i]
      BY <3>1
    <3>3. UNCHANGED <<worktree, bars, replaced, experiments, journals>>
      BY <2>2 DEF Commit
    <3>4. HistoryGrows
      BY <3>1, <3>2 DEF HistoryGrows, Head1
    <3> QED
      BY <3>2, <3>3, <3>4 DEF RepoType, RepoMove, BarsMove, Later, Head1, spent
  <2>3. ASSUME NEW s \in SymbolSet, ReplaceBars(s)
        PROVE  RepoType' /\ RepoMove
    <3>1. UNCHANGED <<worktree, history, experiments, journals>>
      BY <2>3 DEF ReplaceBars
    <3>2. PICK new \in Contents \ {bars[s]} :
              /\ bars' = [bars EXCEPT ![s] = new]
              /\ replaced' = [replaced EXCEPT ![s] = @ + (IF bars[s] = Pinned THEN 1 ELSE 0)]
      BY <2>3 DEF ReplaceBars
    <3>3. bars \in Panel /\ replaced \in [SymbolSet -> Nat]
      BY DEF RepoType
    <3>4. bars' \in Panel /\ replaced' \in [SymbolSet -> Nat]
      BY <3>2, <3>3 DEF Panel
    <3>5. ASSUME NEW t \in SymbolSet
          PROVE  /\ bars'[t] # Pinned => replaced'[t] >= 1
                 /\ replaced[t] <= replaced'[t]
                 /\ replaced[t] + (IF bars[t] = Pinned THEN 1 ELSE 0)
                        <= replaced'[t] + (IF bars'[t] = Pinned THEN 1 ELSE 0)
      <4>1. CASE t = s
        <5>1. /\ bars'[t] = new /\ new # bars[t] /\ replaced[t] \in Nat
              /\ replaced'[t] = replaced[t] + (IF bars[t] = Pinned THEN 1 ELSE 0)
              /\ bars[t] # Pinned => replaced[t] >= 1
          BY <3>2, <3>3, <4>1 DEF Panel, RepoType
        <5> QED
          BY <5>1
      <4>2. CASE t # s
        <5>1. bars'[t] = bars[t] /\ replaced'[t] = replaced[t] /\ replaced[t] \in Nat
          BY <3>2, <3>3, <4>2 DEF Panel
        <5> QED
          BY <5>1 DEF RepoType
      <4> QED
        BY <4>1, <4>2
    <3>6. BarsMove
      <4> SUFFICES ASSUME NEW t \in SymbolSet, NEW n \in Nat
                   PROVE  /\ replaced[t] >= n => replaced'[t] >= n
                          /\ spent[t] > n => spent'[t] > n
        BY DEF BarsMove
      <4>1. replaced[t] \in Nat /\ replaced'[t] \in Nat
        BY <3>3, <3>4
      <4>2. /\ spent[t] = replaced[t] + (IF bars[t] = Pinned THEN 1 ELSE 0)
            /\ spent'[t] = replaced'[t] + (IF bars'[t] = Pinned THEN 1 ELSE 0)
        BY DEF spent
      <4> QED
        BY <3>5, <4>1, <4>2
    <3> QED
      BY <3>1, <3>4, <3>5, <3>6 DEF RepoType, RepoMove, HistoryGrows, Later, Head1
  <2>4. CASE AddExperiment
    <3>1. experiments' \in Tree /\ Later(experiments, experiments')
      BY <2>4, AddIsLater DEF AddExperiment, RepoType, Classes
    <3>2. UNCHANGED <<worktree, history, bars, replaced, journals>>
      BY <2>4 DEF AddExperiment
    <3> QED
      BY <3>1, <3>2 DEF RepoType, RepoMove, HistoryGrows, BarsMove, Head1, spent
  <2>5. CASE RewriteExperiment
    <3>1. experiments' \in Tree /\ Later(experiments, experiments')
      BY <2>5, RewriteIsLater DEF RewriteExperiment, RepoType
    <3>2. UNCHANGED <<worktree, history, bars, replaced, journals>>
      BY <2>5 DEF RewriteExperiment
    <3> QED
      BY <3>1, <3>2 DEF RepoType, RepoMove, HistoryGrows, BarsMove, Head1, spent
  <2>6. CASE TouchJournals
    BY <2>6 DEF TouchJournals, RepoType, RepoMove, HistoryGrows, BarsMove, Later, Head1, spent
  <2> QED
    BY <1>2, <2>1, <2>2, <2>3, <2>4, <2>5, <2>6 DEF RepoStep
<1> QED
  BY <1>1, <1>2 DEF Next, AuditNext, SealNext, GateNext, CampaignNext, RepoNext, vars

\* Consequences for what was read earlier.
LEMMA WasReplacedStays ==
    ASSUME NEW panel, NEW n \in Nat, RepoMove, WasReplaced(panel, n, replaced)
    PROVE  WasReplaced(panel, n, replaced')
<1>1. ASSUME NEW s \in SymbolSet PROVE replaced[s] >= n => replaced'[s] >= n
  BY DEF RepoMove, BarsMove
<1> QED
  BY <1>1 DEF WasReplaced

LEMMA RestoredStays ==
    ASSUME NEW panel, NEW n \in Nat, NEW s \in SymbolSet, RepoMove, IsRestored(panel, n, spent, s)
    PROVE  IsRestored(panel, n, spent', s)
<1>1. spent[s] > n => spent'[s] > n
  BY DEF RepoMove, BarsMove
<1> QED
  BY <1>1 DEF IsRestored

LEMMA TwiceStays ==
    ASSUME NEW panel, NEW again, NEW n \in Nat, NEW s \in SymbolSet, RepoMove,
           Twice(panel, again, n, replaced, s)
    PROVE  Twice(panel, again, n, replaced', s)
<1>1. PICK times \in Nat : times = n + 1
  OBVIOUS
<1>2. replaced[s] >= times => replaced'[s] >= times
  BY DEF RepoMove, BarsMove
<1> QED
  BY <1>1, <1>2 DEF Twice

\* Bars that are read now and are not the pinned ones.
LEMMA BarsWereReplaced == RepoType => WasReplaced(bars, 1, replaced)
BY DEF RepoType, WasReplaced

\* A symbol whose other closes were read earlier and that verifies now ...
LEMMA VerifiedIsRestored ==
    ASSUME NEW panel, NEW n \in Nat, RepoType, WasReplaced(panel, n, replaced),
           NEW s \in SymbolSet, bars[s] = Pinned
    PROVE  IsRestored(panel, n, spent, s)
BY DEF RepoType, WasReplaced, IsRestored, spent

\* ... gives other closes again only when its bars were replaced once more.
LEMMA RestoredReadsPinned ==
    ASSUME NEW panel, NEW n \in Nat, NEW s \in SymbolSet, RepoType, IsRestored(panel, n, spent, s)
    PROVE  Twice(panel, bars, n, replaced, s)
BY DEF RepoType, IsRestored, Twice, spent
-----------------------------------------------------------------------------
(* The readiness audit. *)

ReadyGrows == /\ ready.fixed \subseteq ready'.fixed
              /\ ready.authority \subseteq ready'.authority
              /\ ready.report \subseteq ready'.report
              /\ ready.manifest \subseteq ready'.manifest

\* What an audit that takes no step knows stays true.
LEMMA AuditKept ==
    ASSUME NEW a \in Audits, AuditType, AuditOK(a), RepoType, RepoMove, ReadyGrows,
           apc'[a] = apc[a], seen'[a] = seen[a]
    PROVE  AuditOK(a)'
<1>1. ScanOK(a)'
  <2>1. /\ Later(experiments, experiments')
        /\ \A n \in {1, 2} : WasReplaced(seen[a].before.bars, n, replaced)
                                  => WasReplaced(seen[a].before.bars, n, replaced')
        /\ \A s \in SymbolSet : IsRestored(seen[a].before.bars, 1, spent, s)
                                    => IsRestored(seen[a].before.bars, 1, spent', s)
    BY WasReplacedStays, RestoredStays DEF RepoMove
  <2>2. \A E : Later(E, experiments) => Later(E, experiments')
    BY <2>1, LaterTrans
  <2> QED
    BY <2>1, <2>2 DEF AuditOK, ScanOK
<1>2. BoundOK(a)'
  <2>1. WasReplaced(seen[a].before.bars, 2, replaced) => WasReplaced(seen[a].before.bars, 2, replaced')
    BY WasReplacedStays
  <2> QED
    BY <2>1 DEF AuditOK, BoundOK, ReadyGrows, ReportOf, ManifestOf
<1> QED
  BY <1>1, <1>2 DEF AuditOK

\* Replacements that a manifest rests on are not taken back.
LEMMA ReadyAuditedStays == RepoMove /\ ReadyIsAudited /\ UNCHANGED ready => ReadyIsAudited'
<1>1. ASSUME RepoMove, NEW s \in SymbolSet PROVE replaced[s] >= 2 => replaced'[s] >= 2
  BY <1>1 DEF RepoMove, BarsMove
<1> QED
  BY <1>1 DEF ReadyIsAudited, Took

LEMMA AuditInit_ == RepoType /\ AuditInit => AuditInv
<1> SUFFICES ASSUME RepoType, AuditInit PROVE AuditInv
  OBVIOUS
<1>1. NothingSeen \in Seen
  <2>1. NoTrees \in Trees
    BY PinnedBarsType DEF NoTrees, Trees, Tree
  <2> QED
    BY <2>1 DEF NothingSeen, Seen, Tree
<1>2. AuditType
  <2>1. apc \in [Audits -> AuditStages]
    BY DEF AuditInit, AuditStages
  <2>2. seen \in [Audits -> Seen]
    BY <1>1 DEF AuditInit
  <2>3. ready \in [fixed : SUBSET FixedArtifacts, authority : SUBSET Tree,
                   report : SUBSET Report, manifest : SUBSET Manifest]
    BY DEF AuditInit
  <2> QED
    BY <2>1, <2>2, <2>3 DEF AuditType
<1>3. \A a \in Audits : apc[a] \in {"start", "absent"}
  BY DEF AuditInit
<1>4. \A a \in Audits : AuditOK(a)
  BY <1>3 DEF AuditOK, ScanOK, BoundOK, BetweenScans, AfterScans
<1> QED
  BY <1>2, <1>4 DEF AuditInv, AuditInit, ReadyIsAudited, ReadyIsClosed

LEMMA AuditTypes ==
    ASSUME NEW a \in Audits, AuditType
    PROVE  /\ apc[a] \in AuditStages /\ seen[a] \in Seen
           /\ seen[a].before \in Trees /\ seen[a].revision \in Nat /\ seen[a].authority \in Tree
           /\ ReportOf(a) \in Report /\ ManifestOf(a) \in Manifest
<1>1. apc[a] \in AuditStages /\ seen[a] \in Seen
  BY DEF AuditType
<1>2. seen[a].before \in Trees /\ seen[a].revision \in Nat /\ seen[a].authority \in Tree
  BY <1>1 DEF Seen
<1> QED
  BY <1>1, <1>2 DEF ReportOf, ManifestOf, Report, Manifest

\* A step that changes nothing but the stage of an audit and what it has seen.
LEMMA AuditMoves ==
    ASSUME NEW a \in Audits, AuditInv, RepoType, RepoMove, NEW stage \in AuditStages,
           NEW view \in Seen, apc' = [apc EXCEPT ![a] = stage], seen' = [seen EXCEPT ![a] = view],
           UNCHANGED ready, AuditOK(a)'
    PROVE  AuditInv'
<1>1. AuditType'
  BY DEF AuditInv, AuditType
<1>2. ASSUME NEW b \in Audits PROVE AuditOK(b)'
  <2>1. CASE b # a
    BY <2>1, AuditKept DEF AuditInv, AuditType, ReadyGrows
  <2> QED
    BY <2>1
<1> QED
  BY <1>1, <1>2, ReadyAuditedStays DEF AuditInv, ReadyIsClosed

\* A step that publishes, and changes nothing else but the stage of an audit.
LEMMA AuditWrites ==
    ASSUME NEW a \in Audits, AuditInv, RepoType, RepoMove, NEW stage \in AuditStages,
           apc' = [apc EXCEPT ![a] = stage], UNCHANGED seen,
           NEW now \in [fixed : SUBSET FixedArtifacts, authority : SUBSET Tree,
                        report : SUBSET Report, manifest : SUBSET Manifest],
           ready' = now, ReadyGrows, AuditOK(a)', ReadyIsAudited', ReadyIsClosed'
    PROVE  AuditInv'
<1>1. AuditType'
  BY DEF AuditInv, AuditType
<1>2. ASSUME NEW b \in Audits PROVE AuditOK(b)'
  <2>1. CASE b # a
    BY <2>1, AuditKept DEF AuditInv, AuditType
  <2> QED
    BY <2>1
<1> QED
  BY <1>1, <1>2 DEF AuditInv

LEMMA AuditStepKeeps ==
    ASSUME RepoType, RepoMove, AuditInv, NEW a \in Audits, AuditStep(a), UNCHANGED repoVars
    PROVE  AuditInv'
<1>1. AuditType /\ AuditOK(a) /\ a \in DOMAIN apc /\ a \in DOMAIN seen
  BY DEF AuditInv, AuditType
<1>2. /\ seen[a] \in Seen /\ seen[a].before \in Trees /\ seen[a].revision \in Nat
      /\ seen[a].authority \in Tree
      /\ ready \in [fixed : SUBSET FixedArtifacts, authority : SUBSET Tree,
                    report : SUBSET Report, manifest : SUBSET Manifest]
  BY <1>1, AuditTypes DEF AuditType
<1>3. UNCHANGED experiments /\ UNCHANGED bars /\ UNCHANGED history
      /\ UNCHANGED replaced /\ UNCHANGED spent
  BY DEF repoVars, spent
<1>4. seen = [seen EXCEPT ![a] = seen[a]]
  BY <1>1 DEF AuditType
<1>5. CASE ScanTrees(a)
  <2> DEFINE view == [seen[a] EXCEPT !.before = ProtectedTrees]
  <2>1. ProtectedTrees \in Trees
    BY DEF ProtectedTrees, Trees, RepoType
  <2>2. view \in Seen /\ view.before = ProtectedTrees
    BY <1>2, <2>1 DEF Seen
  <2>3. /\ apc' = [apc EXCEPT ![a] = "scanned"] /\ seen' = [seen EXCEPT ![a] = view]
        /\ UNCHANGED ready
    BY <1>5 DEF ScanTrees, Stage
  <2>4. apc'[a] = "scanned" /\ seen'[a].before = ProtectedTrees
    BY <1>1, <2>2, <2>3
  <2>5. /\ Later(experiments, experiments) /\ WasReplaced(bars, 1, replaced)
        /\ ProtectedTrees.experiments = experiments /\ ProtectedTrees.bars = bars
    BY BarsWereReplaced DEF Later, ProtectedTrees
  <2>6. AuditOK(a)'
    BY <1>3, <2>4, <2>5 DEF AuditOK, ScanOK, BoundOK, BetweenScans, AfterScans
  <2> QED
    BY <2>2, <2>3, <2>6, AuditMoves DEF AuditStages
<1>6. CASE ReadIdentities(a)
  <2> DEFINE view == [seen[a] EXCEPT !.revision = Head1]
  <2>1. Head1 \in Nat
    BY DEF RepoType, Head1
  <2>2. view \in Seen /\ view.before = seen[a].before
    BY <1>2, <2>1 DEF Seen
  <2>3. /\ apc' = [apc EXCEPT ![a] = "identified"] /\ seen' = [seen EXCEPT ![a] = view]
        /\ UNCHANGED ready /\ apc[a] = "scanned"
    BY <1>6 DEF ReadIdentities, Stage
  <2>4. apc'[a] = "identified" /\ seen'[a].before = seen[a].before
    BY <1>1, <2>2, <2>3
  <2>5. AuditOK(a)'
    BY <1>1, <1>3, <2>3, <2>4 DEF AuditOK, ScanOK, BoundOK, BetweenScans, AfterScans
  <2> QED
    BY <2>2, <2>3, <2>5, AuditMoves DEF AuditStages
<1>7. CASE BuildAuthority(a)
  <2> DEFINE view == [seen[a] EXCEPT !.authority = experiments]
  <2>2. view \in Seen /\ view.before = seen[a].before /\ view.authority = experiments
    BY <1>2 DEF Seen, RepoType
  <2>3. /\ apc' = [apc EXCEPT ![a] = "built"] /\ seen' = [seen EXCEPT ![a] = view]
        /\ UNCHANGED ready /\ apc[a] = "audited"
    BY <1>7 DEF BuildAuthority, Stage
  <2>4. /\ apc'[a] = "built" /\ seen'[a].before = seen[a].before
        /\ seen'[a].authority = experiments
    BY <1>1, <2>2, <2>3
  <2>5. AuditOK(a)'
    BY <1>1, <1>3, <2>3, <2>4 DEF AuditOK, ScanOK, BoundOK, BetweenScans, AfterScans, Later
  <2> QED
    BY <2>2, <2>3, <2>5, AuditMoves DEF AuditStages
<1>8. CASE RescanTrees(a)
  <2>1. /\ apc' = [apc EXCEPT ![a] = "rescanned"] /\ UNCHANGED <<seen, ready>>
        /\ apc[a] = "configured"
    BY <1>8 DEF RescanTrees, Stage
  <2>2. /\ experiments = seen[a].before.experiments /\ bars = seen[a].before.bars
        /\ FixedArtifacts \subseteq ready.fixed /\ seen[a].authority \in ready.authority
    BY <1>8 DEF RescanTrees, TreesUnchanged, ProtectedTrees, WrittenArtifactsVerify
  <2>3. seen[a].authority = seen[a].before.experiments
    BY <1>1, <2>1, <2>2, LaterAntisymmetric DEF AuditOK, ScanOK
  <2>4. WasReplaced(seen[a].before.bars, 2, replaced)
    <3>1. ASSUME NEW s \in SymbolSet PROVE seen[a].before.bars[s] # Pinned => replaced[s] >= 2
      <4>1. IsRestored(seen[a].before.bars, 1, spent, s)
        BY <1>1, <2>1 DEF AuditOK, ScanOK
      <4>2. Twice(seen[a].before.bars, bars, 1, replaced, s)
        BY <4>1, RestoredReadsPinned
      <4> QED
        BY <2>2, <4>2 DEF Twice
    <3> QED
      BY <3>1 DEF WasReplaced
  <2>5. AuditOK(a)'
    BY <1>1, <1>3, <2>1, <2>2, <2>3, <2>4 DEF AuditOK, ScanOK, BoundOK, BetweenScans, AfterScans
  <2> QED
    BY <1>2, <1>4, <2>1, <2>5, AuditMoves DEF AuditStages
<1>9. CASE WriteBootstrap(a)
  <2> DEFINE now == [ready EXCEPT !.fixed = @ \cup {"vector", "audit"}]
  <2>1. /\ apc' = [apc EXCEPT ![a] = "audited"] /\ UNCHANGED seen /\ apc[a] = "identified"
        /\ ready' = now
    BY <1>9 DEF WriteBootstrap, Stage
  <2>2. /\ now \in [fixed : SUBSET FixedArtifacts, authority : SUBSET Tree,
                    report : SUBSET Report, manifest : SUBSET Manifest]
        /\ ready.fixed \subseteq now.fixed /\ now.authority = ready.authority
        /\ now.report = ready.report /\ now.manifest = ready.manifest
    BY <1>2 DEF FixedArtifacts
  <2>3. ReadyGrows /\ ReadyIsAudited' /\ ReadyIsClosed'
    BY <1>3, <2>1, <2>2 DEF AuditInv, ReadyGrows, ReadyIsAudited, ReadyIsClosed, Took
  <2>4. AuditOK(a)'
    BY <1>1, <1>3, <2>1 DEF AuditOK, ScanOK, BoundOK, BetweenScans, AfterScans
  <2> QED
    BY <2>1, <2>2, <2>3, <2>4, AuditWrites DEF AuditStages
<1>10. CASE WriteAuthority(a)
  <2> DEFINE now == [ready EXCEPT !.authority = @ \cup {seen[a].authority}]
  <2>1. /\ apc' = [apc EXCEPT ![a] = "authorised"] /\ UNCHANGED seen /\ apc[a] = "built"
        /\ ready' = now
    BY <1>10 DEF WriteAuthority, Stage
  <2>2. /\ now \in [fixed : SUBSET FixedArtifacts, authority : SUBSET Tree,
                    report : SUBSET Report, manifest : SUBSET Manifest]
        /\ now.fixed = ready.fixed /\ ready.authority \subseteq now.authority
        /\ now.report = ready.report /\ now.manifest = ready.manifest
    BY <1>2
  <2>3. ReadyGrows /\ ReadyIsAudited' /\ ReadyIsClosed'
    BY <1>3, <2>1, <2>2 DEF AuditInv, ReadyGrows, ReadyIsAudited, ReadyIsClosed, Took
  <2>4. AuditOK(a)'
    BY <1>1, <1>3, <2>1 DEF AuditOK, ScanOK, BoundOK, BetweenScans, AfterScans
  <2> QED
    BY <2>1, <2>2, <2>3, <2>4, AuditWrites DEF AuditStages
<1>11. CASE WriteSplit(a)
  <2> DEFINE now == [ready EXCEPT !.fixed = @ \cup {"split", "configuration"}]
  <2>1. /\ apc' = [apc EXCEPT ![a] = "configured"] /\ UNCHANGED seen /\ apc[a] = "authorised"
        /\ ready' = now /\ Phase3Verified
    BY <1>11 DEF WriteSplit, Stage
  <2>2. /\ now \in [fixed : SUBSET FixedArtifacts, authority : SUBSET Tree,
                    report : SUBSET Report, manifest : SUBSET Manifest]
        /\ ready.fixed \subseteq now.fixed /\ now.authority = ready.authority
        /\ now.report = ready.report /\ now.manifest = ready.manifest
    BY <1>2 DEF FixedArtifacts
  <2>3. ReadyGrows /\ ReadyIsAudited' /\ ReadyIsClosed'
    BY <1>3, <2>1, <2>2 DEF AuditInv, ReadyGrows, ReadyIsAudited, ReadyIsClosed, Took
  <2>4. \A s \in SymbolSet : IsRestored(seen[a].before.bars, 1, spent, s)
    <3>1. WasReplaced(seen[a].before.bars, 1, replaced)
      BY <1>1, <2>1 DEF AuditOK, ScanOK, BetweenScans
    <3>2. \A s \in SymbolSet : bars[s] = Pinned
      BY <2>1 DEF Phase3Verified, PinnedBars
    <3> QED
      BY <3>1, <3>2, VerifiedIsRestored
  <2>5. AuditOK(a)'
    BY <1>1, <1>3, <2>1, <2>4 DEF AuditOK, ScanOK, BoundOK, BetweenScans, AfterScans
  <2> QED
    BY <2>1, <2>2, <2>3, <2>5, AuditWrites DEF AuditStages
<1>12. CASE WriteReport(a)
  <2> DEFINE now == [ready EXCEPT !.report = @ \cup {ReportOf(a)}]
  <2>1. /\ apc' = [apc EXCEPT ![a] = "reported"] /\ UNCHANGED seen /\ apc[a] = "rescanned"
        /\ ready' = now
    BY <1>12 DEF WriteReport, Stage
  <2>2. /\ now \in [fixed : SUBSET FixedArtifacts, authority : SUBSET Tree,
                    report : SUBSET Report, manifest : SUBSET Manifest]
        /\ now.fixed = ready.fixed /\ now.authority = ready.authority
        /\ now.report = ready.report \cup {ReportOf(a)} /\ now.manifest = ready.manifest
    BY <1>1, <1>2, AuditTypes
  <2>3. ReadyGrows /\ ReadyIsAudited' /\ ReadyIsClosed'
    BY <1>3, <2>1, <2>2 DEF AuditInv, ReadyGrows, ReadyIsAudited, ReadyIsClosed, Took
  <2>4. ReportOf(a)' = ReportOf(a)
    BY <2>1 DEF ReportOf
  <2>5. AuditOK(a)'
    BY <1>1, <1>3, <2>1, <2>2, <2>4 DEF AuditOK, ScanOK, BoundOK, BetweenScans, AfterScans
  <2> QED
    BY <2>1, <2>2, <2>3, <2>5, AuditWrites DEF AuditStages
<1>13. CASE FindManifest(a) \/ StageManifest(a)
  <2>1. PICK stage \in {"ready", "staged"} :
           /\ apc' = [apc EXCEPT ![a] = stage]
           /\ stage = "ready" => ManifestOf(a) \in ready.manifest
    BY <1>13 DEF FindManifest, StageManifest, Stage
  <2>2. UNCHANGED <<seen, ready>> /\ apc[a] = "reported"
    BY <1>13 DEF FindManifest, StageManifest, Stage
  <2>3. ReportOf(a)' = ReportOf(a) /\ ManifestOf(a)' = ManifestOf(a)
    BY <2>2 DEF ReportOf, ManifestOf
  <2>4. AuditOK(a)'
    BY <1>1, <1>3, <2>1, <2>2, <2>3 DEF AuditOK, ScanOK, BoundOK, BetweenScans, AfterScans
  <2> QED
    BY <1>2, <1>4, <2>1, <2>2, <2>4, AuditMoves DEF AuditStages
<1>14. CASE PublishManifest(a)
  <2> DEFINE now == [ready EXCEPT !.manifest = @ \cup {ManifestOf(a)}]
  <2>1. /\ apc' = [apc EXCEPT ![a] = "ready"] /\ UNCHANGED seen /\ apc[a] = "staged"
        /\ ready' = now
    BY <1>14 DEF PublishManifest, Stage
  <2>2. /\ now \in [fixed : SUBSET FixedArtifacts, authority : SUBSET Tree,
                    report : SUBSET Report, manifest : SUBSET Manifest]
        /\ now.fixed = ready.fixed /\ now.authority = ready.authority
        /\ now.report = ready.report /\ now.manifest = ready.manifest \cup {ManifestOf(a)}
    BY <1>1, <1>2, AuditTypes
  <2>3. /\ ManifestOf(a).authority = ManifestOf(a).trees.experiments
        /\ WasReplaced(ManifestOf(a).trees.bars, 2, replaced)
        /\ FixedArtifacts \subseteq ready.fixed
        /\ ManifestOf(a).authority \in ready.authority
        /\ ManifestOf(a).report \in ready.report
    BY <1>1, <2>1 DEF AuditOK, BoundOK, AfterScans, ManifestOf
  <2>4. ReadyGrows
    BY <2>1, <2>2 DEF ReadyGrows
  <2>5. ReadyIsAudited'
    BY <1>3, <2>1, <2>2, <2>3 DEF AuditInv, ReadyIsAudited, Took, WasReplaced
  <2>6. ReadyIsClosed'
    BY <2>1, <2>2, <2>3 DEF AuditInv, ReadyIsClosed
  <2>7. ReportOf(a)' = ReportOf(a) /\ ManifestOf(a)' = ManifestOf(a)
    BY <2>1 DEF ReportOf, ManifestOf
  <2>8. AuditOK(a)'
    BY <1>1, <1>3, <2>1, <2>2, <2>7 DEF AuditOK, ScanOK, BoundOK, BetweenScans, AfterScans
  <2> QED
    BY <2>1, <2>2, <2>4, <2>5, <2>6, <2>8, AuditWrites DEF AuditStages
<1>15. CASE FailAudit(a) \/ RestartAudit(a)
  <2>1. NothingSeen \in Seen
    BY PinnedBarsType DEF NothingSeen, Seen, NoTrees, Trees, Tree
  <2>2. PICK stage \in {"failed", "start"} : apc' = [apc EXCEPT ![a] = stage]
    BY <1>15 DEF FailAudit, RestartAudit
  <2>3. seen' = [seen EXCEPT ![a] = NothingSeen] /\ UNCHANGED ready
    BY <1>15 DEF FailAudit, RestartAudit
  <2>4. AuditOK(a)'
    BY <1>1, <2>2 DEF AuditOK, ScanOK, BoundOK, BetweenScans, AfterScans
  <2> QED
    BY <2>1, <2>2, <2>3, <2>4, AuditMoves DEF AuditStages
<1> QED
  BY <1>5, <1>6, <1>7, <1>8, <1>9, <1>10, <1>11, <1>12, <1>13, <1>14, <1>15 DEF AuditStep

LEMMA AuditInvKept == RepoType /\ AuditInv /\ [Next]_vars => AuditInv'
<1> SUFFICES ASSUME RepoType, AuditInv, [Next]_vars PROVE AuditInv'
  OBVIOUS
<1>1. RepoMove
  BY RepoMoves
<1>2. CASE AuditNext
  BY <1>1, <1>2, AuditStepKeeps DEF AuditNext
<1>3. CASE UNCHANGED auditVars
  <2>1. ASSUME NEW a \in Audits PROVE AuditOK(a)'
    BY <1>1, <1>3, AuditKept DEF AuditInv, auditVars, ReadyGrows
  <2> QED
    BY <1>1, <1>3, <2>1, ReadyAuditedStays DEF AuditInv, AuditType, auditVars, ReadyIsClosed
<1> QED
  BY <1>2, <1>3 DEF Next, SealNext, GateNext, CampaignNext, RepoNext, vars
-----------------------------------------------------------------------------
(* The engine seal. *)

LEMMA BundleSeqCovers ==
    /\ Cardinality(Bundles) \in Nat
    /\ BundleSeq \in [1..Cardinality(Bundles) -> Bundles]
    /\ \A b \in Bundles : \E i \in 1..Cardinality(Bundles) : BundleSeq[i] = b
<1> DEFINE n == Cardinality(Bundles)
<1>1. n \in Nat /\ ExistsBijection(1..n, Bundles)
  BY BundlesAssumption, FS_CardinalityType
<1>2. PICK q \in [1..n -> Bundles] : \A b \in Bundles : \E i \in 1..n : q[i] = b
  BY <1>1 DEF ExistsBijection, Bijection, Injection, Surjection
<1>3. \A b \in Bundles : \E i \in DOMAIN q : q[i] = b
  BY <1>2
<1>4. /\ BundleSeq \in [1..n -> Bundles]
      /\ \A b \in Bundles : \E i \in DOMAIN BundleSeq : BundleSeq[i] = b
  BY <1>2, <1>3 DEF BundleSeq
<1> QED
  BY <1>1, <1>4

EngineGrows == engine.artifacts \subseteq engine'.artifacts /\ engine.manifests \subseteq engine'.manifests

\* Artifacts and manifest follow from what a sealer knows.
LEMMA SameKnowledge ==
    ASSUME NEW s \in Sealers, known'[s].head = known[s].head, known'[s].bundles = known[s].bundles
    PROVE  /\ \A k : Content(s, k)' = Content(s, k)
           /\ Published(s)' = Published(s) /\ EngineManifest(s)' = EngineManifest(s)
<1>1. \A k : Content(s, k)' = Content(s, k)
  BY DEF Content
<1>2. Published(s)' = Published(s)
  BY <1>1 DEF Published
<1> QED
  BY <1>1, <1>2 DEF EngineManifest

\* What a sealer that takes no step knows stays true.
LEMMA SealerKept ==
    ASSUME NEW s \in Sealers, SealType, SealerOK(s), RepoType, RepoMove, EngineGrows,
           spc'[s] = spc[s], known'[s] = known[s]
    PROVE  SealerOK(s)'
<1>1. /\ \A k : Content(s, k)' = Content(s, k)
      /\ Published(s)' = Published(s) /\ EngineManifest(s)' = EngineManifest(s)
  BY SameKnowledge
<1>2. known[s].head \in DOMAIN history
        => known[s].head \in DOMAIN history' /\ history'[known[s].head] = history[known[s].head]
  BY DEF RepoMove, HistoryGrows, RepoType, Head1
<1> QED
  BY <1>1, <1>2 DEF SealerOK, EngineGrows, HasHead, HasBundles, HasArtifacts

\* What the published manifests say stays true.
LEMMA EngineKept ==
    ASSUME SealInv, RepoType, RepoMove, UNCHANGED engine.manifests,
           engine.artifacts \subseteq engine'.artifacts
    PROVE  EngineOK' /\ EngineIsOneRevision' /\ EngineIsClosed'
<1>1. \A i \in DOMAIN history : i \in DOMAIN history' /\ history'[i] = history[i]
  BY DEF RepoMove, HistoryGrows, RepoType, Head1
<1> QED
  BY <1>1 DEF SealInv, EngineOK, EngineIsOneRevision, EngineIsClosed

LEMMA SealTypes ==
    ASSUME NEW s \in Sealers, SealType
    PROVE  /\ spc[s] \in SealPlaces /\ spc[s].i \in Nat /\ known[s] \in Known
           /\ known[s].head \in Nat /\ known[s].bundles \in BundleBytes
           /\ \A k \in DOMAIN Kinds : Content(s, Kinds[k]) \in Artifact
           /\ Published(s) \subseteq Artifact /\ EngineManifest(s) \in EngineRecord
<1>1. spc[s] \in SealPlaces /\ known[s] \in Known
  BY DEF SealType
<1>2. known[s].head \in Nat /\ known[s].bundles \in BundleBytes
  BY <1>1 DEF Known
<1>3. NoBundles \in BundleBytes
  BY DEF NoBundles, BundleBytes
<1>4. \A k \in DOMAIN Kinds : Kinds[k] \in STRING
  BY KindsAssumption
<1>5. \A k \in DOMAIN Kinds : Content(s, Kinds[k]) \in Artifact
  BY <1>2, <1>3, <1>4 DEF Content, Artifact
<1>6. Published(s) \subseteq Artifact
  BY <1>5 DEF Published
<1> QED
  BY <1>1, <1>2, <1>5, <1>6 DEF SealPlaces, EngineManifest, EngineRecord

LEMMA SealInit_ == SealInit => SealInv
<1> SUFFICES ASSUME SealInit PROVE SealInv
  OBVIOUS
<1>1. NothingKnown \in Known
  BY DEF NothingKnown, Known, NoBundles, BundleBytes, NoFiles, Gate2Tree
<1>2. SealType
  BY <1>1 DEF SealInit, SealType, SealStart, At, SealPlaces
<1>3. \A s \in Sealers : spc[s].stage \in {"start", "absent"}
  BY DEF SealInit, SealStart, At
<1>4. \A s \in Sealers : SealerOK(s)
  BY <1>3 DEF SealerOK, HasHead, HasBundles, HasArtifacts
<1> QED
  BY <1>2, <1>4 DEF SealInv, SealInit, EngineOK, EngineIsOneRevision, EngineIsClosed

\* A step that publishes nothing.
LEMMA SealMoves ==
    ASSUME NEW s \in Sealers, SealInv, RepoType, RepoMove, NEW place \in SealPlaces,
           NEW facts \in Known, spc' = [spc EXCEPT ![s] = place],
           known' = [known EXCEPT ![s] = facts], UNCHANGED engine, temps' \subseteq Temporary,
           SealerOK(s)'
    PROVE  SealInv'
<1>1. SealType'
  BY DEF SealInv, SealType
<1>2. ASSUME NEW t \in Sealers PROVE SealerOK(t)'
  <2>1. CASE t # s
    BY <2>1, SealerKept DEF SealInv, SealType, EngineGrows
  <2> QED
    BY <2>1
<1> QED
  BY <1>1, <1>2, EngineKept DEF SealInv

\* A step that publishes.
LEMMA SealWrites ==
    ASSUME NEW s \in Sealers, SealInv, RepoType, RepoMove, NEW place \in SealPlaces,
           spc' = [spc EXCEPT ![s] = place], UNCHANGED known, temps' \subseteq Temporary,
           NEW now \in [artifacts : SUBSET Artifact, manifests : SUBSET EngineRecord],
           engine' = now, EngineGrows, SealerOK(s)',
           EngineOK', EngineIsOneRevision', EngineIsClosed'
    PROVE  SealInv'
<1>1. SealType'
  BY DEF SealInv, SealType
<1>2. ASSUME NEW t \in Sealers PROVE SealerOK(t)'
  <2>1. CASE t # s
    BY <2>1, SealerKept DEF SealInv, SealType
  <2> QED
    BY <2>1
<1> QED
  BY <1>1, <1>2 DEF SealInv

LEMMA SealStepKeeps ==
    ASSUME RepoType, RepoMove, SealInv, NEW s \in Sealers, SealStep(s), UNCHANGED repoVars
    PROVE  SealInv'
<1>1. /\ SealType /\ SealerOK(s) /\ s \in DOMAIN spc /\ s \in DOMAIN known
      /\ known \in [Sealers -> Known] /\ spc \in [Sealers -> SealPlaces]
  BY DEF SealInv, SealType
<1>2. /\ spc[s] \in SealPlaces /\ spc[s].i \in Nat /\ known[s] \in Known
      /\ known[s].head \in Nat /\ known[s].bundles \in BundleBytes
      /\ \A k \in DOMAIN Kinds : Content(s, Kinds[k]) \in Artifact
      /\ Published(s) \subseteq Artifact /\ EngineManifest(s) \in EngineRecord
  BY <1>1, SealTypes
<1>3. UNCHANGED history /\ UNCHANGED worktree
  BY DEF repoVars
<1>4. known = [known EXCEPT ![s] = known[s]]
  BY <1>1
<1>5. Kinds \in Seq(STRING) /\ DOMAIN Kinds = 1..Len(Kinds) /\ Len(Kinds) \in Nat
  BY KindsAssumption
<1>6. temps \subseteq Temporary
  BY <1>1 DEF SealType
<1>7. CASE LoadAuthority(s)
  <2> DEFINE facts == [known[s] EXCEPT !.head = Head1]
             place == At("bundle", 1)
  <2>1. Head1 \in DOMAIN history /\ Head1 \in Nat
    BY DEF RepoType, Head1
  <2>2. facts \in Known /\ facts.head = Head1
    BY <1>2, <2>1 DEF Known
  <2>3. /\ spc' = [spc EXCEPT ![s] = place] /\ known' = [known EXCEPT ![s] = facts]
        /\ UNCHANGED <<engine, temps>>
    BY <1>7 DEF LoadAuthority, Move
  <2>4. spc'[s].stage = "bundle" /\ spc'[s].i = 1 /\ known'[s].head = Head1
    BY <1>1, <2>2, <2>3 DEF At
  <2>5. SealerOK(s)'
    BY <1>3, <2>1, <2>4 DEF SealerOK, HasHead, HasBundles, HasArtifacts
  <2>6. place \in SealPlaces
    BY DEF At, SealPlaces
  <2> QED
    BY <1>6, <2>2, <2>3, <2>5, <2>6, SealMoves
<1>8. CASE IdentifyBundle(s)
  <2>1. PICK i \in DOMAIN BundleSeq :
            /\ spc[s] = At("bundle", i)
            /\ spc' = [spc EXCEPT ![s] = IF i = Cardinality(Bundles) THEN At("bound", 0)
                                         ELSE At("bundle", i + 1)]
            /\ BundleAtRevision(s, BundleSeq[i])
            /\ known' = [known EXCEPT ![s].bundles[BundleSeq[i]] = worktree[BundleSeq[i]]]
            /\ UNCHANGED <<engine, temps>>
    BY <1>8 DEF IdentifyBundle, Move
  <2> DEFINE b == BundleSeq[i]
             facts == [known[s] EXCEPT !.bundles = [known[s].bundles EXCEPT ![b] = worktree[b]]]
             place == IF i = Cardinality(Bundles) THEN At("bound", 0) ELSE At("bundle", i + 1)
  <2>2. i \in 1..Cardinality(Bundles) /\ b \in Bundles /\ Cardinality(Bundles) \in Nat
    BY <2>1, BundleSeqCovers
  <2>3. spc[s].stage = "bundle" /\ spc[s].i = i
    BY <2>1 DEF At
  <2>4. known[s].head \in DOMAIN history
    BY <1>1, <2>3 DEF SealerOK, HasHead
  <2>5. /\ facts \in Known /\ facts.head = known[s].head
        /\ facts.bundles = [known[s].bundles EXCEPT ![b] = worktree[b]]
        /\ facts.bundles \in BundleBytes
    BY <1>2, <2>2 DEF Known, BundleBytes, RepoType
  <2>6. place \in SealPlaces
    BY <2>2 DEF At, SealPlaces
  <2>7. spc' = [spc EXCEPT ![s] = place] /\ known' = [known EXCEPT ![s] = facts]
    BY <2>1
  <2>8. \A k \in 1..i : facts.bundles[BundleSeq[k]] = history[known[s].head][BundleSeq[k]]
    <3> SUFFICES ASSUME NEW k \in 1..i
                 PROVE  facts.bundles[BundleSeq[k]] = history[known[s].head][BundleSeq[k]]
      OBVIOUS
    <3>1. BundleSeq[k] \in Bundles
      BY <2>2, BundleSeqCovers
    <3>2. CASE BundleSeq[k] = b
      BY <1>2, <2>1, <2>5, <3>1, <3>2 DEF BundleBytes, BundleAtRevision
    <3>3. CASE BundleSeq[k] # b
      <4>1. k \in 1..(i - 1)
        BY <2>2, <3>3
      <4>2. known[s].bundles[BundleSeq[k]] = history[known[s].head][BundleSeq[k]]
        BY <1>1, <2>3, <4>1 DEF SealerOK
      <4> QED
        BY <1>2, <2>5, <3>1, <3>3, <4>2 DEF BundleBytes
    <3> QED
      BY <3>2, <3>3
  <2>9. known'[s] = facts /\ spc'[s] = place
    BY <1>1, <2>7
  <2>10. SealerOK(s)'
    <3>1. CASE i = Cardinality(Bundles)
      <4>1. history[known[s].head] \in BundleBytes
        BY <2>4 DEF RepoType
      <4>2. ASSUME NEW c \in Bundles PROVE facts.bundles[c] = history[known[s].head][c]
        BY <2>8, <3>1, BundleSeqCovers
      <4>3. facts.bundles = history[known[s].head]
        BY <2>5, <4>1, <4>2 DEF BundleBytes
      <4>4. spc'[s].stage = "bound"
        BY <2>9, <3>1 DEF At
      <4> QED
        BY <1>3, <2>4, <2>5, <2>9, <4>3, <4>4 DEF SealerOK, HasHead, HasBundles, HasArtifacts
    <3>2. CASE i # Cardinality(Bundles)
      <4>1. spc'[s].stage = "bundle" /\ spc'[s].i = i + 1
        BY <2>9, <3>2 DEF At
      <4>2. (i + 1) - 1 = i
        BY <2>2
      <4> QED
        BY <1>3, <2>4, <2>5, <2>8, <2>9, <4>1, <4>2
           DEF SealerOK, HasHead, HasBundles, HasArtifacts
    <3> QED
      BY <3>1, <3>2
  <2> HIDE DEF facts, place
  <2> QED
    BY <1>6, <2>1, <2>5, <2>6, <2>7, <2>10, SealMoves
<1>9. CASE Snapshot(s)
  <2> DEFINE facts == [known[s] EXCEPT !.files = Gate2Files]
             place == At("publish", 1)
  <2>1. Gate2Files \in Gate2Tree
    BY <1>1 DEF Gate2Files, Gate2Tree, SealType
  <2>2. /\ facts \in Known /\ facts.head = known[s].head
        /\ facts.bundles = known[s].bundles
    BY <1>2, <2>1 DEF Known
  <2>3. /\ spc' = [spc EXCEPT ![s] = place] /\ known' = [known EXCEPT ![s] = facts]
        /\ UNCHANGED <<engine, temps>> /\ spc[s].stage = "bound"
    BY <1>9 DEF Snapshot, Move, At
  <2>4. /\ spc'[s].stage = "publish" /\ spc'[s].i = 1
        /\ known'[s].head = known[s].head /\ known'[s].bundles = known[s].bundles
    BY <1>1, <2>2, <2>3 DEF At
  <2>5. SealerOK(s)'
    BY <1>1, <1>3, <2>3, <2>4 DEF SealerOK, HasHead, HasBundles, HasArtifacts
  <2>6. place \in SealPlaces
    BY DEF At, SealPlaces
  <2> QED
    BY <1>6, <2>2, <2>3, <2>5, <2>6, SealMoves
<1>10. CASE WriteTemporary(s)
  <2>1. PICK i \in DOMAIN Kinds :
            /\ spc[s] = At("publish", i) /\ spc' = [spc EXCEPT ![s] = At("link", i)]
            /\ temps' = temps \cup {<<s, "live">>} /\ UNCHANGED <<known, engine>>
    BY <1>10 DEF WriteTemporary, Move
  <2>2. /\ spc[s].stage = "publish" /\ spc[s].i = i
        /\ spc'[s].stage = "link" /\ spc'[s].i = i /\ At("link", i) \in SealPlaces
    BY <1>1, <1>5, <2>1 DEF At, SealPlaces
  <2>3. \A k : Content(s, k)' = Content(s, k)
    BY <2>1, SameKnowledge
  <2>4. SealerOK(s)'
    BY <1>1, <1>3, <2>1, <2>2, <2>3 DEF SealerOK, HasHead, HasBundles, HasArtifacts
  <2>5. temps' \subseteq Temporary
    BY <1>6, <2>1 DEF Temporary
  <2> QED
    BY <1>2, <1>4, <2>1, <2>2, <2>4, <2>5, SealMoves
<1>11. ASSUME NEW i \in DOMAIN Kinds, spc[s].stage \in {"publish", "link"}, spc[s].i = i,
              spc' = [spc EXCEPT ![s] = NextPublish(i)], UNCHANGED known, EngineGrows,
              Content(s, Kinds[i]) \in engine'.artifacts
       PROVE  SealerOK(s)' /\ NextPublish(i) \in SealPlaces
  <2>1. NextPublish(i) \in SealPlaces
    BY <1>5 DEF NextPublish, At, SealPlaces
  <2>2. /\ \A k : Content(s, k)' = Content(s, k)
        /\ Published(s)' = Published(s) /\ EngineManifest(s)' = EngineManifest(s)
    BY <1>11, SameKnowledge
  <2>3. \A k \in 1..i : Content(s, Kinds[k]) \in engine'.artifacts
    <3>1. \A k \in 1..(i - 1) : Content(s, Kinds[k]) \in engine.artifacts
      BY <1>1, <1>11 DEF SealerOK
    <3> QED
      BY <1>5, <1>11, <3>1 DEF EngineGrows
  <2>4. /\ known[s].head \in DOMAIN history
        /\ known[s].bundles = history[known[s].head]
    BY <1>1, <1>11 DEF SealerOK, HasHead, HasBundles
  <2>5. CASE i = Len(Kinds)
    <3>1. spc'[s].stage = "confine"
      BY <1>1, <1>11, <2>5 DEF NextPublish, At
    <3>2. Published(s) \subseteq engine'.artifacts
      BY <1>5, <2>3, <2>5 DEF Published
    <3> QED
      BY <1>3, <1>11, <2>1, <2>2, <2>4, <3>1, <3>2 DEF SealerOK, HasHead, HasBundles, HasArtifacts
  <2>6. CASE i # Len(Kinds)
    <3>1. spc'[s].stage = "publish" /\ spc'[s].i = i + 1 /\ (i + 1) - 1 = i
      BY <1>1, <1>5, <1>11, <2>6 DEF NextPublish, At
    <3> QED
      BY <1>3, <1>11, <2>1, <2>2, <2>3, <2>4, <3>1 DEF SealerOK, HasHead, HasBundles, HasArtifacts
  <2> QED
    BY <2>5, <2>6
<1>12. CASE FindArtifact(s)
  <2>1. PICK i \in DOMAIN Kinds :
            /\ Content(s, Kinds[i]) \in engine.artifacts
            /\ spc[s] = At("publish", i) /\ spc' = [spc EXCEPT ![s] = NextPublish(i)]
            /\ UNCHANGED <<known, engine, temps>>
    BY <1>12 DEF FindArtifact, Move
  <2>2. spc[s].stage = "publish" /\ spc[s].i = i
    BY <2>1 DEF At
  <2>3. SealerOK(s)' /\ NextPublish(i) \in SealPlaces
    BY <1>11, <2>1, <2>2 DEF EngineGrows
  <2> QED
    BY <1>2, <1>4, <1>6, <2>1, <2>3, SealMoves
<1>13. CASE LinkArtifact(s)
  <2>1. PICK i \in DOMAIN Kinds :
            /\ spc[s] = At("link", i) /\ spc' = [spc EXCEPT ![s] = NextPublish(i)]
            /\ engine' = [engine EXCEPT !.artifacts = @ \cup {Content(s, Kinds[i])}]
            /\ temps' = temps \ {<<s, "live">>} /\ UNCHANGED known
    BY <1>13 DEF LinkArtifact, Move
  <2> DEFINE now == [engine EXCEPT !.artifacts = @ \cup {Content(s, Kinds[i])}]
  <2>2. /\ now \in [artifacts : SUBSET Artifact, manifests : SUBSET EngineRecord]
        /\ now.artifacts = engine.artifacts \cup {Content(s, Kinds[i])}
        /\ now.manifests = engine.manifests
    BY <1>1, <1>2 DEF SealType
  <2>3. spc[s].stage = "link" /\ spc[s].i = i
    BY <2>1 DEF At
  <2>4. EngineGrows
    BY <2>1, <2>2 DEF EngineGrows
  <2>5. SealerOK(s)' /\ NextPublish(i) \in SealPlaces
    BY <1>11, <2>1, <2>2, <2>3, <2>4
  <2>6. EngineOK' /\ EngineIsOneRevision' /\ EngineIsClosed'
    BY <2>1, <2>2, EngineKept
  <2>7. temps' \subseteq Temporary
    BY <1>6, <2>1
  <2> HIDE DEF now
  <2> QED
    BY <2>1, <2>2, <2>4, <2>5, <2>6, <2>7, SealWrites DEF now
<1>14. CASE ConfirmSeal(s)
  <2>1. /\ spc[s].stage = "confine" /\ spc' = [spc EXCEPT ![s] = At("commit", 0)]
        /\ UNCHANGED <<known, engine, temps>>
    BY <1>14 DEF ConfirmSeal, Move, At
  <2>2. spc'[s].stage = "commit" /\ At("commit", 0) \in SealPlaces
    BY <1>1, <2>1 DEF At, SealPlaces
  <2>3. Published(s)' = Published(s)
    BY <2>1, SameKnowledge
  <2>4. SealerOK(s)'
    BY <1>1, <1>3, <2>1, <2>2, <2>3 DEF SealerOK, HasHead, HasBundles, HasArtifacts
  <2> QED
    BY <1>2, <1>4, <1>6, <2>1, <2>2, <2>4, SealMoves
<1>15. CASE CommitManifest(s)
  <2> DEFINE now == [engine EXCEPT !.manifests = @ \cup {EngineManifest(s)}]
  <2>1. /\ spc[s].stage = "commit" /\ spc' = [spc EXCEPT ![s] = At("verify", 0)]
        /\ engine' = now /\ UNCHANGED <<known, temps>>
    BY <1>15 DEF CommitManifest, Move, At
  <2>2. /\ now \in [artifacts : SUBSET Artifact, manifests : SUBSET EngineRecord]
        /\ now.artifacts = engine.artifacts
        /\ now.manifests = engine.manifests \cup {EngineManifest(s)}
    BY <1>1, <1>2 DEF SealType
  <2>3. /\ known[s].head \in DOMAIN history
        /\ known[s].bundles = history[known[s].head]
        /\ Published(s) \subseteq engine.artifacts
    BY <1>1, <2>1 DEF SealerOK, HasHead, HasBundles, HasArtifacts
  <2>4. spc'[s].stage = "verify" /\ At("verify", 0) \in SealPlaces
    BY <1>1, <2>1 DEF At, SealPlaces
  <2>5. EngineManifest(s)' = EngineManifest(s) /\ Published(s)' = Published(s)
    BY <2>1, SameKnowledge
  <2>6. EngineGrows
    BY <2>1, <2>2 DEF EngineGrows
  <2>7. SealerOK(s)'
    BY <1>3, <2>1, <2>2, <2>3, <2>4, <2>5 DEF SealerOK, HasHead, HasBundles, HasArtifacts
  <2>8. /\ EngineManifest(s).head = known[s].head /\ EngineManifest(s).bundles = known[s].bundles
        /\ EngineManifest(s).written = Published(s)
    BY DEF EngineManifest
  <2>9. EngineOK' /\ EngineIsOneRevision' /\ EngineIsClosed'
    BY <1>3, <2>1, <2>2, <2>3, <2>8 DEF SealInv, EngineOK, EngineIsOneRevision, EngineIsClosed
  <2> HIDE DEF now
  <2> QED
    BY <1>6, <2>1, <2>2, <2>4, <2>6, <2>7, <2>9, SealWrites
<1>16. CASE VerifyWritten(s)
  <2>1. /\ spc[s].stage = "verify" /\ spc' = [spc EXCEPT ![s] = At("sealed", 0)]
        /\ UNCHANGED <<known, engine, temps>>
    BY <1>16 DEF VerifyWritten, Move, At
  <2>2. spc'[s].stage = "sealed" /\ At("sealed", 0) \in SealPlaces
    BY <1>1, <2>1 DEF At, SealPlaces
  <2>3. Published(s)' = Published(s) /\ EngineManifest(s)' = EngineManifest(s)
    BY <2>1, SameKnowledge
  <2>4. SealerOK(s)'
    BY <1>1, <1>3, <2>1, <2>2, <2>3 DEF SealerOK, HasHead, HasBundles, HasArtifacts
  <2> QED
    BY <1>2, <1>4, <1>6, <2>1, <2>2, <2>4, SealMoves
<1>17. CASE FailSeal(s) \/ DieAtLink(s) \/ RestartSeal(s)
  <2>1. NothingKnown \in Known
    BY DEF NothingKnown, Known, NoBundles, BundleBytes, NoFiles, Gate2Tree
  <2>2. PICK place \in {At("failed", 0), SealStart}, facts \in {NothingKnown, known[s]} :
            spc' = [spc EXCEPT ![s] = place] /\ known' = [known EXCEPT ![s] = facts]
    BY <1>4, <1>17 DEF FailSeal, DieAtLink, RestartSeal
  <2>3. place.stage \in {"failed", "start"} /\ place \in SealPlaces
    BY <2>2 DEF At, SealStart, SealPlaces
  <2>4. UNCHANGED engine /\ temps' \subseteq Temporary
    BY <1>6, <1>17 DEF FailSeal, DieAtLink, RestartSeal, Temporary
  <2>5. spc'[s] = place
    BY <1>1, <2>2
  <2>6. SealerOK(s)'
    BY <2>3, <2>5 DEF SealerOK, HasHead, HasBundles, HasArtifacts
  <2>7. facts \in Known
    BY <1>2, <2>1, <2>2
  <2> QED
    BY <2>2, <2>3, <2>4, <2>6, <2>7, SealMoves
<1> QED
  BY <1>7, <1>8, <1>9, <1>10, <1>12, <1>13, <1>14, <1>15, <1>16, <1>17 DEF SealStep

LEMMA SealInvKept == RepoType /\ SealInv /\ [Next]_vars => SealInv'
<1> SUFFICES ASSUME RepoType, SealInv, [Next]_vars PROVE SealInv'
  OBVIOUS
<1>1. RepoMove
  BY RepoMoves
<1>2. CASE SealNext
  BY <1>1, <1>2, SealStepKeeps DEF SealNext
<1>3. CASE UNCHANGED sealVars
  <2>1. ASSUME NEW s \in Sealers PROVE SealerOK(s)'
    BY <1>1, <1>3, SealerKept DEF SealInv, sealVars, EngineGrows
  <2>2. EngineOK' /\ EngineIsOneRevision' /\ EngineIsClosed'
    BY <1>1, <1>3, EngineKept DEF sealVars
  <2> QED
    BY <1>3, <2>1, <2>2 DEF SealInv, SealType, sealVars
<1> QED
  BY <1>2, <1>3 DEF Next, AuditNext, GateNext, CampaignNext, RepoNext, vars
-----------------------------------------------------------------------------
(* The Gate 3 authorities. *)

GateGrows == /\ gate3.fold \subseteq gate3'.fold
             /\ gate3.regime \subseteq gate3'.regime
             /\ gate3.manifest \subseteq gate3'.manifest

LEMMA SymbolsFacts ==
    /\ Len(Symbols) \in Nat /\ DOMAIN Symbols = 1..Len(Symbols)
    /\ \A i \in DOMAIN Symbols : Symbols[i] \in SymbolSet
    /\ \A s \in SymbolSet : \E i \in DOMAIN Symbols : Symbols[i] = s
BY SymbolsAssumption DEF SymbolSet

\* What a process that takes no step knows stays true.
LEMMA LoaderKept ==
    ASSUME NEW p \in Loaders, GateType, LoaderOK(p), RepoType, RepoMove, GateGrows,
           gpc'[p] = gpc[p], look'[p] = look[p]
    PROVE  LoaderOK(p)'
<1>1. LookOK(p)'
  <2>1. \A panel : WasReplaced(panel, 1, replaced) => WasReplaced(panel, 1, replaced')
    BY WasReplacedStays
  <2> QED
    BY <2>1 DEF LoaderOK, LookOK
<1>2. ReadOK(p)'
  <2> SUFFICES ASSUME NEW k \in DOMAIN Symbols
               PROVE  /\ Checked(p, k)' =>
                             IsRestored(look'[p].manifest.closes, 1, spent', Symbols[k])
                      /\ Taken(p, k)' => Twice(look'[p].manifest.closes, look'[p].closes, 1,
                                               replaced', Symbols[k])
    BY DEF ReadOK
  <2>1. Checked(p, k)' = Checked(p, k) /\ Taken(p, k)' = Taken(p, k)
    BY DEF Checked, Taken
  <2> QED
    BY <2>1, SymbolsFacts, RestoredStays, TwiceStays DEF LoaderOK, ReadOK
<1>3. WrittenOK(p)'
  BY DEF LoaderOK, WrittenOK, Computed, GateGrows
<1>4. DoneOK(p)'
  <2>1. \A panel : WasReplaced(panel, 2, replaced) => WasReplaced(panel, 2, replaced')
    BY WasReplacedStays
  <2> QED
    BY <2>1 DEF LoaderOK, DoneOK
<1> QED
  BY <1>1, <1>2, <1>3, <1>4 DEF LoaderOK

LEMMA NoClosesType == NothingLooked \in Look
BY PinnedBarsType DEF NothingLooked, Look, NoManifest, Gate3Manifest, Gate3Record

LEMMA NothingIsReplaced ==
    ASSUME NEW times
    PROVE  /\ WasReplaced(NothingLooked.closes, 1, times)
           /\ WasReplaced(NothingLooked.manifest.closes, 1, times)
BY DEF NothingLooked, NoManifest, Gate3Manifest, WasReplaced, PinnedBars

LEMMA GateInit_ == GateInit => GateInv
<1> SUFFICES ASSUME GateInit PROVE GateInv
  OBVIOUS
<1>1. GateType
  BY NoClosesType DEF GateInit, GateType, GateStart, Place, GatePlaces
<1>2. \A p \in Loaders : gpc[p].stage \in {"start", "absent"} /\ look[p] = NothingLooked
  BY DEF GateInit, GateStart, Place
<1>3. ASSUME NEW p \in Loaders PROVE LoaderOK(p)
  BY <1>2, <1>3, NothingIsReplaced
     DEF LoaderOK, LookOK, ReadOK, Checked, Taken, WrittenOK, DoneOK
<1>4. OnlySealersWrite
  BY <1>2 DEF OnlySealersWrite, Loaders
<1> QED
  BY <1>1, <1>3, <1>4 DEF GateInv, GateInit, AuthorityIsClosed

\* A step that publishes nothing.
LEMMA GateMoves ==
    ASSUME NEW p \in Loaders, GateInv, RepoType, RepoMove, NEW place \in GatePlaces,
           NEW view \in Look, gpc' = [gpc EXCEPT ![p] = place],
           look' = [look EXCEPT ![p] = view], UNCHANGED gate3,
           place.stage \in {"fold", "regime"} => p \notin Readers, LoaderOK(p)'
    PROVE  GateInv'
<1>1. GateType' /\ gpc \in [Loaders -> GatePlaces]
  BY DEF GateInv, GateType
<1>2. ASSUME NEW q \in Loaders PROVE LoaderOK(q)'
  <2>1. CASE q # p
    BY <2>1, LoaderKept DEF GateInv, GateType, GateGrows
  <2> QED
    BY <2>1
<1>3. OnlySealersWrite'
  BY <1>1 DEF GateInv, OnlySealersWrite, Loaders
<1>4. \A m \in gate3.manifest : WasReplaced(m.closes, 1, replaced')
  BY WasReplacedStays DEF GateInv
<1> QED
  BY <1>1, <1>2, <1>3, <1>4 DEF GateInv, AuthorityIsClosed

\* A step of a sealer that publishes.
LEMMA GateWrites ==
    ASSUME NEW p \in Loaders \ Readers, GateInv, RepoType, RepoMove, NEW place \in GatePlaces,
           gpc' = [gpc EXCEPT ![p] = place], UNCHANGED look,
           NEW now \in [fold : SUBSET Nat, regime : SUBSET Gate3Record,
                        manifest : SUBSET Gate3Record],
           gate3' = now, GateGrows, LoaderOK(p)',
           \A m \in now.manifest : WasReplaced(m.closes, 1, replaced'), AuthorityIsClosed'
    PROVE  GateInv'
<1>1. GateType' /\ gpc \in [Loaders -> GatePlaces]
  BY DEF GateInv, GateType
<1>2. ASSUME NEW q \in Loaders PROVE LoaderOK(q)'
  <2>1. CASE q # p
    BY <2>1, LoaderKept DEF GateInv, GateType
  <2> QED
    BY <2>1
<1>3. OnlySealersWrite'
  BY <1>1 DEF GateInv, OnlySealersWrite, Loaders
<1> QED
  BY <1>1, <1>2, <1>3 DEF GateInv

LEMMA GateStepKeeps ==
    ASSUME RepoType, RepoMove, GateInv, GateStep, UNCHANGED repoVars
    PROVE  GateInv'
<1>1. /\ GateType /\ gpc \in [Loaders -> GatePlaces] /\ look \in [Loaders -> Look]
      /\ gate3 \in [fold : SUBSET Nat, regime : SUBSET Gate3Record,
                    manifest : SUBSET Gate3Record]
  BY DEF GateInv, GateType
<1>2. ASSUME NEW p \in Loaders
      PROVE  /\ LoaderOK(p) /\ look[p] \in Look /\ look[p].revision \in Nat
             /\ look[p].closes \in Panel /\ look[p].manifest \in Gate3Record
             /\ look[p].manifest.closes \in Panel
             /\ look = [look EXCEPT ![p] = look[p]] /\ Computed(p) \in Gate3Record
             /\ Computed(p).revision = look[p].revision /\ Computed(p).closes = look[p].closes
  <2>1. LoaderOK(p) /\ look[p] \in Look /\ look = [look EXCEPT ![p] = look[p]]
    BY <1>1, <1>2 DEF GateInv
  <2>2. /\ look[p].revision \in Nat /\ look[p].closes \in Panel
        /\ look[p].manifest \in Gate3Record
    BY <2>1 DEF Look
  <2> QED
    BY <2>1, <2>2 DEF Computed, Gate3Manifest, Gate3Record
<1>3. UNCHANGED bars /\ UNCHANGED replaced /\ UNCHANGED spent
  BY DEF repoVars, spent
<1>4. \A k \in DOMAIN Symbols : k \in Nat /\ Symbols[k] \in SymbolSet
  BY SymbolsFacts
<1>5. ASSUME NEW p \in Loaders, GiveUp(p) \/ RestartGate(p)
      PROVE  GateInv'
  <2>1. PICK place \in {Place("failed", 0), GateStart} : gpc' = [gpc EXCEPT ![p] = place]
    BY <1>5 DEF GiveUp, RestartGate
  <2>2. place.stage \in {"failed", "start"} /\ place \in GatePlaces
    BY <2>1 DEF Place, GateStart, GatePlaces
  <2>3. look' = [look EXCEPT ![p] = NothingLooked] /\ UNCHANGED gate3
    BY <1>5 DEF GiveUp, RestartGate
  <2>4. gpc'[p] = place /\ look'[p] = NothingLooked
    BY <1>1, <2>1, <2>3
  <2>5. /\ WasReplaced(NothingLooked.closes, 1, replaced')
        /\ WasReplaced(NothingLooked.manifest.closes, 1, replaced')
    BY NothingIsReplaced
  <2>6. LoaderOK(p)'
    BY <2>2, <2>4, <2>5 DEF LoaderOK, LookOK, ReadOK, Checked, Taken, WrittenOK, DoneOK
  <2> QED
    BY <2>1, <2>2, <2>3, <2>6, NoClosesType, GateMoves
<1>6. ASSUME NEW p \in Loaders, LoadPinned(p)
      PROVE  GateInv'
  <2>1. /\ gpc[p] = Place("inputs", 0) /\ gpc' = [gpc EXCEPT ![p] = Place("check", 1)]
        /\ UNCHANGED <<look, gate3>>
    BY <1>6 DEF LoadPinned, Go
  <2>2. gpc'[p].stage = "check" /\ gpc'[p].i = 1 /\ Place("check", 1) \in GatePlaces
        /\ Place("check", 1).stage = "check"
    BY <1>1, <2>1 DEF Place, GatePlaces
  <2>3. LookOK(p)' /\ WrittenOK(p)' /\ DoneOK(p)'
    BY <1>2, <1>3, <2>1, <2>2 DEF LoaderOK, LookOK, WrittenOK, DoneOK
  <2>4. \A k \in DOMAIN Symbols : ~Checked(p, k)' /\ ~Taken(p, k)'
    BY <2>2, SymbolsFacts DEF Checked, Taken
  <2>5. LoaderOK(p)'
    BY <2>3, <2>4 DEF LoaderOK, ReadOK
  <2> QED
    BY <1>2, <2>1, <2>2, <2>5, GateMoves
<1>7. ASSUME NEW p \in Loaders, CheckBars(p)
      PROVE  GateInv'
  <2>1. PICK i \in DOMAIN Symbols :
            /\ bars[Symbols[i]] = Pinned /\ gpc[p] = Place("check", i)
            /\ gpc' = [gpc EXCEPT ![p] = Place("read", i)] /\ UNCHANGED <<look, gate3>>
    BY <1>7 DEF CheckBars, BarsMatch, Go
  <2>2. /\ gpc[p].stage = "check" /\ gpc[p].i = i /\ gpc'[p].stage = "read" /\ gpc'[p].i = i
        /\ Place("read", i) \in GatePlaces /\ Place("read", i).stage = "read"
    BY <1>1, <1>4, <2>1 DEF Place, GatePlaces
  <2>3. LookOK(p)' /\ WrittenOK(p)' /\ DoneOK(p)'
    BY <1>2, <1>3, <2>1, <2>2 DEF LoaderOK, LookOK, WrittenOK, DoneOK
  <2>4. IsRestored(look[p].manifest.closes, 1, spent, Symbols[i])
    BY <1>2, <1>4, <2>1, VerifiedIsRestored DEF LoaderOK, LookOK
  <2>5. ReadOK(p)'
    <3> SUFFICES ASSUME NEW k \in DOMAIN Symbols
                 PROVE  /\ Checked(p, k)' =>
                               IsRestored(look'[p].manifest.closes, 1, spent', Symbols[k])
                        /\ Taken(p, k)' => Twice(look'[p].manifest.closes, look'[p].closes, 1,
                                                 replaced', Symbols[k])
      BY DEF ReadOK
    <3>1. (Checked(p, k)' => Checked(p, k) \/ k = i) /\ (Taken(p, k)' => Taken(p, k))
      BY <2>2 DEF Checked, Taken
    <3> QED
      BY <1>2, <1>3, <2>1, <2>4, <3>1 DEF LoaderOK, ReadOK
  <2> QED
    BY <1>2, <2>1, <2>2, <2>3, <2>5, GateMoves DEF LoaderOK
<1>8. ASSUME NEW p \in Loaders, ReadBars(p)
      PROVE  GateInv'
  <2>1. PICK i \in DOMAIN Symbols :
            /\ gpc[p] = Place("read", i)
            /\ gpc' = [gpc EXCEPT ![p] = IF i = Len(Symbols) THEN Place("loaded", 0)
                                         ELSE Place("check", i + 1)]
            /\ look' = [look EXCEPT ![p].closes[Symbols[i]] = bars[Symbols[i]]]
            /\ UNCHANGED gate3
    BY <1>8 DEF ReadBars, Go
  <2> DEFINE closes == [look[p].closes EXCEPT ![Symbols[i]] = bars[Symbols[i]]]
             view == [look[p] EXCEPT !.closes = closes]
             place == IF i = Len(Symbols) THEN Place("loaded", 0) ELSE Place("check", i + 1)
  <2>2. closes \in Panel
    BY <1>2, <1>4 DEF Panel, RepoType
  <2>3. /\ view \in Look /\ view.closes = closes /\ view.revision = look[p].revision
        /\ view.manifest = look[p].manifest
    BY <1>2, <2>2 DEF Look
  <2>4. place \in GatePlaces /\ place.stage \in {"loaded", "check"}
    BY <1>4 DEF Place, GatePlaces
  <2>5. gpc' = [gpc EXCEPT ![p] = place] /\ look' = [look EXCEPT ![p] = view]
    BY <2>1
  <2>6. gpc[p].stage = "read" /\ gpc[p].i = i /\ gpc'[p] = place /\ look'[p] = view
    BY <1>1, <2>1, <2>5 DEF Place
  <2>7. WasReplaced(closes, 1, replaced)
    <3>1. WasReplaced(bars, 1, replaced) /\ WasReplaced(look[p].closes, 1, replaced)
      BY <1>2, BarsWereReplaced DEF LoaderOK, LookOK
    <3> QED
      BY <1>2, <1>4, <3>1 DEF WasReplaced, Panel
  <2>8. LookOK(p)' /\ WrittenOK(p)' /\ DoneOK(p)'
    BY <1>2, <1>3, <2>3, <2>4, <2>6, <2>7 DEF LoaderOK, LookOK, WrittenOK, DoneOK
  <2>9. ReadOK(p)'
    <3> SUFFICES ASSUME NEW k \in DOMAIN Symbols
                 PROVE  /\ Checked(p, k)' =>
                               IsRestored(look'[p].manifest.closes, 1, spent', Symbols[k])
                        /\ Taken(p, k)' => Twice(look'[p].manifest.closes, look'[p].closes, 1,
                                                 replaced', Symbols[k])
      BY DEF ReadOK
    <3>1. k \in 1..Len(Symbols) /\ i \in 1..Len(Symbols) /\ Len(Symbols) \in Nat
      BY SymbolsFacts
    <3>2. (Checked(p, k)' => Checked(p, k)) /\ (Taken(p, k)' => Taken(p, k) \/ k = i)
      <4>1. CASE i = Len(Symbols)
        <5>1. gpc'[p].stage = "loaded"
          BY <2>6, <4>1 DEF Place
        <5> QED
          BY <2>6, <3>1, <4>1, <5>1 DEF Checked, Taken
      <4>2. CASE i # Len(Symbols)
        <5>1. gpc'[p].stage = "check" /\ gpc'[p].i = i + 1
          BY <2>6, <4>2 DEF Place
        <5> QED
          BY <2>6, <3>1, <4>2, <5>1 DEF Checked, Taken
      <4> QED
        BY <4>1, <4>2
    <3>3. Checked(p, k)' => IsRestored(look'[p].manifest.closes, 1, spent', Symbols[k])
      BY <1>2, <1>3, <2>3, <2>6, <3>2 DEF LoaderOK, ReadOK
    <3>4. ASSUME Symbols[k] = Symbols[i]
          PROVE  Twice(look[p].manifest.closes, closes, 1, replaced, Symbols[k])
      <4>1. IsRestored(look[p].manifest.closes, 1, spent, Symbols[i])
        BY <1>2, <2>6 DEF LoaderOK, ReadOK, Checked
      <4>2. Twice(look[p].manifest.closes, bars, 1, replaced, Symbols[i])
        BY <1>4, <4>1, RestoredReadsPinned
      <4>3. closes[Symbols[i]] = bars[Symbols[i]]
        BY <1>2, <1>4 DEF Panel
      <4> QED
        BY <3>4, <4>2, <4>3 DEF Twice
    <3>5. ASSUME Symbols[k] # Symbols[i]
          PROVE  closes[Symbols[k]] = look[p].closes[Symbols[k]]
      BY <1>2, <1>4, <3>5 DEF Panel
    <3>6. Taken(p, k) => Twice(look[p].manifest.closes, look[p].closes, 1, replaced, Symbols[k])
      BY <1>2 DEF LoaderOK, ReadOK
    <3>7. Taken(p, k)' => Twice(look[p].manifest.closes, closes, 1, replaced, Symbols[k])
      BY <3>2, <3>4, <3>5, <3>6 DEF Twice
    <3>8. look'[p].manifest = look[p].manifest /\ look'[p].closes = closes
      BY <2>3, <2>6
    <3> HIDE DEF closes, view, place
    <3> QED
      BY <1>3, <3>3, <3>7, <3>8
  <2> HIDE DEF closes, view, place
  <2> QED
    BY <2>1, <2>3, <2>4, <2>5, <2>8, <2>9, GateMoves DEF LoaderOK
<1>9. ASSUME NEW g \in Authorities, BeginSeal(g)
      PROVE  GateInv'
  <2>1. PICK rev \in DOMAIN history :
            /\ gpc[g] = GateStart /\ gpc' = [gpc EXCEPT ![g] = Place("inputs", 0)]
            /\ look' = [look EXCEPT ![g].revision = rev] /\ UNCHANGED gate3
    BY <1>9 DEF BeginSeal, Go
  <2> DEFINE view == [look[g] EXCEPT !.revision = rev]
  <2>2. g \in Loaders /\ rev \in Nat
    BY <2>1 DEF Loaders, RepoType
  <2>3. view \in Look /\ view.closes = look[g].closes /\ view.manifest = look[g].manifest
    BY <1>2, <2>2 DEF Look
  <2>4. look' = [look EXCEPT ![g] = view]
    BY <2>1
  <2>5. /\ gpc'[g].stage = "inputs" /\ look'[g] = view /\ Place("inputs", 0) \in GatePlaces
        /\ Place("inputs", 0).stage = "inputs"
    BY <1>1, <2>1, <2>2, <2>4 DEF Place, GatePlaces
  <2>6. LoaderOK(g)'
    BY <1>2, <1>3, <2>2, <2>3, <2>5
       DEF LoaderOK, LookOK, ReadOK, Checked, Taken, WrittenOK, DoneOK
  <2> HIDE DEF view
  <2> QED
    BY <2>1, <2>2, <2>3, <2>4, <2>5, <2>6, GateMoves
<1>10. ASSUME NEW r \in Readers, BeginRead(r)
       PROVE  GateInv'
  <2>1. PICK m \in gate3.manifest :
            /\ gpc[r] = GateStart /\ gpc' = [gpc EXCEPT ![r] = Place("inputs", 0)]
            /\ look' = [look EXCEPT ![r].revision = m.revision, ![r].manifest = m]
            /\ UNCHANGED gate3
    BY <1>10 DEF BeginRead, Go
  <2> DEFINE view == [look[r] EXCEPT !.revision = m.revision, !.manifest = m]
  <2>2. r \in Loaders /\ m \in Gate3Record /\ m.revision \in Nat
    BY <1>1, <2>1 DEF Loaders, Gate3Record
  <2>3. view \in Look /\ view.closes = look[r].closes /\ view.manifest = m
    BY <1>2, <2>2 DEF Look
  <2>4. look' = [look EXCEPT ![r] = view]
    BY <1>1, <2>1, <2>2
  <2>5. /\ gpc'[r].stage = "inputs" /\ look'[r] = view /\ Place("inputs", 0) \in GatePlaces
        /\ Place("inputs", 0).stage = "inputs"
    BY <1>1, <2>1, <2>2, <2>4 DEF Place, GatePlaces
  <2>6. WasReplaced(m.closes, 1, replaced)
    BY <2>1 DEF GateInv
  <2>7. LoaderOK(r)'
    BY <1>2, <1>3, <2>2, <2>3, <2>5, <2>6
       DEF LoaderOK, LookOK, ReadOK, Checked, Taken, WrittenOK, DoneOK
  <2> HIDE DEF view
  <2> QED
    BY <2>1, <2>2, <2>3, <2>4, <2>5, <2>7, GateMoves
<1>11. ASSUME NEW g \in Authorities PROVE g \in Loaders \ Readers
  BY <1>11, LoadersAssumption DEF Loaders
<1>12. ASSUME NEW g \in Authorities, WriteFold(g)
       PROVE  GateInv'
  <2> DEFINE now == [gate3 EXCEPT !.fold = @ \cup {look[g].revision}]
  <2>1. /\ gpc[g] = Place("loaded", 0) /\ gpc' = [gpc EXCEPT ![g] = Place("fold", 0)]
        /\ gate3' = now /\ UNCHANGED look
    BY <1>12 DEF WriteFold, Go
  <2>2. /\ now \in [fold : SUBSET Nat, regime : SUBSET Gate3Record,
                    manifest : SUBSET Gate3Record]
        /\ now.fold = gate3.fold \cup {look[g].revision} /\ now.regime = gate3.regime
        /\ now.manifest = gate3.manifest
    BY <1>1, <1>2, <1>11
  <2>3. /\ gpc[g].stage = "loaded" /\ gpc'[g].stage = "fold" /\ Place("fold", 0) \in GatePlaces
    BY <1>1, <1>11, <2>1 DEF Place, GatePlaces
  <2>4. GateGrows
    BY <2>1, <2>2 DEF GateGrows
  <2>5. LoaderOK(g)'
    BY <1>2, <1>3, <1>11, <2>1, <2>2, <2>3
       DEF LoaderOK, LookOK, ReadOK, Checked, Taken, WrittenOK, DoneOK
  <2>6. AuthorityIsClosed' /\ \A m \in now.manifest : WasReplaced(m.closes, 1, replaced')
    BY <1>3, <2>1, <2>2 DEF GateInv, AuthorityIsClosed
  <2> HIDE DEF now
  <2> QED
    BY <1>11, <2>1, <2>2, <2>3, <2>4, <2>5, <2>6, GateWrites
<1>13. ASSUME NEW g \in Authorities, WriteRegime(g)
       PROVE  GateInv'
  <2> DEFINE now == [gate3 EXCEPT !.regime = @ \cup {Computed(g)}]
  <2>1. /\ gpc[g] = Place("fold", 0) /\ gpc' = [gpc EXCEPT ![g] = Place("regime", 0)]
        /\ gate3' = now /\ UNCHANGED look
    BY <1>13 DEF WriteRegime, Go
  <2>2. /\ now \in [fold : SUBSET Nat, regime : SUBSET Gate3Record,
                    manifest : SUBSET Gate3Record]
        /\ now.fold = gate3.fold /\ now.regime = gate3.regime \cup {Computed(g)}
        /\ now.manifest = gate3.manifest
    BY <1>1, <1>2, <1>11
  <2>3. /\ gpc[g].stage = "fold" /\ gpc'[g].stage = "regime" /\ Place("regime", 0) \in GatePlaces
    BY <1>1, <1>11, <2>1 DEF Place, GatePlaces
  <2>4. GateGrows /\ Computed(g)' = Computed(g)
    BY <2>1, <2>2 DEF GateGrows, Computed
  <2>5. LoaderOK(g)'
    BY <1>2, <1>3, <1>11, <2>1, <2>2, <2>3, <2>4
       DEF LoaderOK, LookOK, ReadOK, Checked, Taken, WrittenOK, DoneOK
  <2>6. AuthorityIsClosed' /\ \A m \in now.manifest : WasReplaced(m.closes, 1, replaced')
    BY <1>3, <2>1, <2>2 DEF GateInv, AuthorityIsClosed
  <2> HIDE DEF now
  <2> QED
    BY <1>11, <2>1, <2>2, <2>3, <2>4, <2>5, <2>6, GateWrites
<1>14. ASSUME NEW g \in Authorities, WriteGate3Manifest(g)
       PROVE  GateInv'
  <2> DEFINE now == [gate3 EXCEPT !.manifest = @ \cup {Computed(g)}]
  <2>1. /\ gpc[g] = Place("regime", 0) /\ gpc' = [gpc EXCEPT ![g] = Place("done", 0)]
        /\ gate3' = now /\ UNCHANGED look
    BY <1>14 DEF WriteGate3Manifest, Go
  <2>2. /\ now \in [fold : SUBSET Nat, regime : SUBSET Gate3Record,
                    manifest : SUBSET Gate3Record]
        /\ now.fold = gate3.fold /\ now.regime = gate3.regime
        /\ now.manifest = gate3.manifest \cup {Computed(g)}
    BY <1>1, <1>2, <1>11
  <2>3. /\ gpc[g].stage = "regime" /\ gpc'[g].stage = "done" /\ Place("done", 0) \in GatePlaces
    BY <1>1, <1>11, <2>1 DEF Place, GatePlaces
  <2>4. GateGrows
    BY <2>1, <2>2 DEF GateGrows
  <2>5. LoaderOK(g)'
    BY <1>2, <1>3, <1>11, <2>1, <2>3
       DEF LoaderOK, LookOK, ReadOK, Checked, Taken, WrittenOK, DoneOK
  <2>6. /\ WasReplaced(Computed(g).closes, 1, replaced)
        /\ Computed(g).revision \in gate3.fold /\ Computed(g) \in gate3.regime
    BY <1>2, <1>11, <2>3 DEF LoaderOK, LookOK, WrittenOK
  <2>7. AuthorityIsClosed' /\ \A m \in now.manifest : WasReplaced(m.closes, 1, replaced')
    BY <1>3, <2>1, <2>2, <2>6 DEF GateInv, AuthorityIsClosed
  <2> HIDE DEF now
  <2> QED
    BY <1>11, <2>1, <2>2, <2>3, <2>4, <2>5, <2>7, GateWrites
<1>15. ASSUME NEW r \in Readers, AcceptManifest(r)
       PROVE  GateInv'
  <2>1. /\ Computed(r) = look[r].manifest
        /\ gpc[r] = Place("loaded", 0) /\ gpc' = [gpc EXCEPT ![r] = Place("done", 0)]
        /\ UNCHANGED <<look, gate3>>
    BY <1>15 DEF AcceptManifest, Recomputes, Go
  <2>2. /\ r \in Loaders /\ gpc[r].stage = "loaded" /\ gpc'[r].stage = "done"
        /\ Place("done", 0) \in GatePlaces /\ Place("done", 0).stage = "done"
    BY <1>1, <2>1 DEF Loaders, Place, GatePlaces
  <2>3. look[r].manifest.closes = look[r].closes
    BY <1>2, <2>1, <2>2
  <2>4. ASSUME NEW s \in SymbolSet
        PROVE  look[r].manifest.closes[s] # Pinned => replaced[s] >= 2
    <3>1. PICK k \in DOMAIN Symbols : Symbols[k] = s
      BY SymbolsFacts
    <3>2. Twice(look[r].manifest.closes, look[r].closes, 1, replaced, s)
      BY <1>2, <2>2, <3>1 DEF LoaderOK, ReadOK, Taken
    <3> QED
      BY <2>3, <3>2 DEF Twice
  <2>5. WasReplaced(look[r].manifest.closes, 2, replaced)
    BY <2>4 DEF WasReplaced
  <2>6. LoaderOK(r)'
    BY <1>2, <1>3, <2>1, <2>2, <2>5
       DEF LoaderOK, LookOK, ReadOK, Checked, Taken, WrittenOK, DoneOK
  <2> QED
    BY <1>2, <2>1, <2>2, <2>6, GateMoves
<1> QED
  BY <1>5, <1>6, <1>7, <1>8, <1>9, <1>10, <1>12, <1>13, <1>14, <1>15 DEF GateStep, LoaderStep

LEMMA GateInvKept == RepoType /\ GateInv /\ [Next]_vars => GateInv'
<1> SUFFICES ASSUME RepoType, GateInv, [Next]_vars PROVE GateInv'
  OBVIOUS
<1>1. RepoMove
  BY RepoMoves
<1>2. CASE GateNext
  BY <1>1, <1>2, GateStepKeeps DEF GateNext
<1>3. CASE UNCHANGED gateVars
  <2>1. ASSUME NEW p \in Loaders PROVE LoaderOK(p)'
    BY <1>1, <1>3, LoaderKept DEF GateInv, gateVars, GateGrows
  <2>2. \A m \in gate3.manifest : WasReplaced(m.closes, 1, replaced')
    BY <1>1, WasReplacedStays DEF GateInv
  <2> QED
    BY <1>3, <2>1, <2>2 DEF GateInv, GateType, gateVars, OnlySealersWrite, AuthorityIsClosed
<1> QED
  BY <1>2, <1>3 DEF Next, AuditNext, SealNext, CampaignNext, RepoNext, vars

\* A reader that accepts has compared with the manifest a reading of its own.
LEMMA AcceptedFollows == GateInv => AcceptedIsGuarded
<1> SUFFICES ASSUME GateInv, NEW r \in Readers, gpc[r] = Place("done", 0)
             PROVE  WasReplaced(look[r].manifest.closes, 2, replaced)
  BY DEF AcceptedIsGuarded, Took, WasReplaced
<1>1. gpc[r].stage = "done" /\ r \in Loaders
  BY DEF Place, Loaders
<1> QED
  BY <1>1 DEF GateInv, LoaderOK, DoneOK
-----------------------------------------------------------------------------
(* The seals and the loader of the campaign. *)

LEMMA ValidationSteps ==
    /\ Len(Validation) = 7
    /\ Validation[1] = Deps("same", "manifest") /\ Validation[2] = Deps("same", "contract")
    /\ Validation[3] = Op("revision") /\ Validation[4] = Files("same")
    /\ Validation[5] = Op("imported") /\ Validation[6] = Op("gate3") /\ Validation[7] = Op("method")
BY DEF Validation

LEMMA MethodSteps ==
    /\ Len(MethodProgram) = 7 /\ DOMAIN MethodProgram = 1..7
    /\ MethodProgram[1] = Op("revision") /\ MethodProgram[2] = Op("frozen")
    /\ MethodProgram[3] = Files("keep") /\ MethodProgram[4] = Op("gate3")
    /\ MethodProgram[5] = Op("baseline") /\ MethodProgram[6] = Op("regime")
    /\ MethodProgram[7] = Op("manifest")
BY DEF MethodProgram

Names == {"files", "deps", "revision", "frozen", "gate3", "baseline", "regime", "manifest",
          "imported", "method", "contract"}
Operation == [op : Names, mode : {"check", "keep", "same"},
              slot : {"none"} \cup Slots]

LEMMA Concatenated ==
    ASSUME NEW s \in Seq(Operation), NEW t \in Seq(Operation)
    PROVE  /\ s \o t \in Seq(Operation) /\ Len(s \o t) = Len(s) + Len(t)
           /\ Len(s) \in Nat /\ Len(t) \in Nat
           /\ \A i \in 1..(Len(s) + Len(t)) :
                  (s \o t)[i] = IF i <= Len(s) THEN s[i] ELSE t[i - Len(s)]
OBVIOUS

LEMMA OperationType ==
    /\ \A a \in Names : Op(a) \in Operation
    /\ \A a \in {"keep", "same"} : Files(a) \in Operation
    /\ \A a \in {"keep", "same"}, b \in Slots : Deps(a, b) \in Operation
BY DEF Op, Files, Deps, Operation, Names, Slots

LEMMA ValidationType == Validation \in Seq(Operation)
<1>1. /\ Deps("same", "manifest") \in Operation /\ Deps("same", "contract") \in Operation
      /\ Op("revision") \in Operation /\ Files("same") \in Operation
      /\ Op("imported") \in Operation /\ Op("gate3") \in Operation /\ Op("method") \in Operation
  BY OperationType DEF Names, Slots
<1> QED
  BY <1>1 DEF Validation

LEMMA SchemaSteps ==
    /\ Len(SchemaProgram) = 13 /\ DOMAIN SchemaProgram = 1..13
    /\ SchemaProgram[1] = Files("keep")
    /\ SchemaProgram[2] = Deps("keep", "manifest") /\ SchemaProgram[3] = Deps("keep", "contract")
    /\ SchemaProgram[4] = Deps("same", "manifest") /\ SchemaProgram[5] = Deps("same", "contract")
    /\ SchemaProgram[6] = Op("revision") /\ SchemaProgram[7] = Files("same")
    /\ SchemaProgram[8] = Op("imported") /\ SchemaProgram[9] = Op("gate3")
    /\ SchemaProgram[10] = Op("method") /\ SchemaProgram[11] = Deps("keep", "written")
    /\ SchemaProgram[12] = Op("contract") /\ SchemaProgram[13] = Op("manifest")
<1> DEFINE a == <<Files("keep"), Deps("keep", "manifest"), Deps("keep", "contract")>>
           c == <<Deps("keep", "written"), Op("contract"), Op("manifest")>>
<1>1. a \in Seq(Operation) /\ c \in Seq(Operation)
  <2>1. /\ Files("keep") \in Operation /\ Deps("keep", "manifest") \in Operation
        /\ Deps("keep", "contract") \in Operation /\ Deps("keep", "written") \in Operation
        /\ Op("contract") \in Operation /\ Op("manifest") \in Operation
    BY OperationType DEF Names, Slots
  <2> QED
    BY <2>1
<1>2. Len(a) = 3 /\ Len(c) = 3
  OBVIOUS
<1>3. /\ a[1] = Files("keep") /\ a[2] = Deps("keep", "manifest") /\ a[3] = Deps("keep", "contract")
      /\ c[1] = Deps("keep", "written") /\ c[2] = Op("contract") /\ c[3] = Op("manifest")
  OBVIOUS
<1>4. SchemaProgram = (a \o Validation) \o c
  BY <1>1, ValidationType DEF SchemaProgram
<1> DEFINE b == a \o Validation
<1> HIDE DEF a, c
<1>5. /\ b \in Seq(Operation) /\ Len(b) = Len(a) + Len(Validation)
      /\ \A i \in 1..(Len(a) + Len(Validation)) :
             b[i] = IF i <= Len(a) THEN a[i] ELSE Validation[i - Len(a)]
  BY <1>1, ValidationType, Concatenated
<1>6. SchemaProgram = b \o c
  BY <1>4
<1> HIDE DEF b
<1>7. /\ SchemaProgram \in Seq(Operation) /\ Len(SchemaProgram) = Len(b) + Len(c)
      /\ \A i \in 1..(Len(b) + Len(c)) :
             SchemaProgram[i] = IF i <= Len(b) THEN b[i] ELSE c[i - Len(b)]
  BY <1>1, <1>5, <1>6, Concatenated
<1>8. Len(b) = 10 /\ Len(SchemaProgram) = 13
  BY <1>2, <1>5, <1>7, ValidationSteps
<1>9. /\ \A i \in 1..10 : b[i] = IF i <= 3 THEN a[i] ELSE Validation[i - 3]
      /\ \A i \in 1..13 : SchemaProgram[i] = IF i <= 10 THEN b[i] ELSE c[i - 10]
  BY <1>2, <1>5, <1>7, <1>8, ValidationSteps
<1>10. \A i \in 1..3 : SchemaProgram[i] = a[i]
  BY <1>9
<1>11. \A i \in 4..10 : SchemaProgram[i] = Validation[i - 3]
  BY <1>9
<1>12. \A i \in 11..13 : SchemaProgram[i] = c[i - 10]
  BY <1>9
<1>13. /\ SchemaProgram[1] = a[1] /\ SchemaProgram[2] = a[2] /\ SchemaProgram[3] = a[3]
       /\ SchemaProgram[4] = Validation[1] /\ SchemaProgram[5] = Validation[2]
       /\ SchemaProgram[6] = Validation[3] /\ SchemaProgram[7] = Validation[4]
       /\ SchemaProgram[8] = Validation[5] /\ SchemaProgram[9] = Validation[6]
       /\ SchemaProgram[10] = Validation[7]
       /\ SchemaProgram[11] = c[1] /\ SchemaProgram[12] = c[2] /\ SchemaProgram[13] = c[3]
  BY <1>10, <1>11, <1>12
<1>14. DOMAIN SchemaProgram = 1..Len(SchemaProgram)
  BY <1>7
<1> QED
  BY <1>3, <1>8, <1>13, <1>14, ValidationSteps

LEMMA LoadSteps ==
    /\ Len(LoadProgram) = 9 /\ DOMAIN LoadProgram = 1..9
    /\ LoadProgram[1] = Deps("same", "manifest") /\ LoadProgram[2] = Deps("same", "contract")
    /\ LoadProgram[3] = Op("revision") /\ LoadProgram[4] = Files("same")
    /\ LoadProgram[5] = Op("imported") /\ LoadProgram[6] = Op("gate3")
    /\ LoadProgram[7] = Op("method") /\ LoadProgram[8] = Deps("same", "contract")
    /\ LoadProgram[9] = Deps("keep", "authority")
<1> DEFINE c == <<Deps("same", "contract"), Deps("keep", "authority")>>
<1>1. c \in Seq(Operation)
  <2>1. Deps("same", "contract") \in Operation /\ Deps("keep", "authority") \in Operation
    BY OperationType DEF Names, Slots
  <2> QED
    BY <2>1
<1>2. Len(c) = 2 /\ c[1] = Deps("same", "contract") /\ c[2] = Deps("keep", "authority")
  OBVIOUS
<1>3. LoadProgram = Validation \o c
  BY DEF LoadProgram
<1> HIDE DEF c
<1>4. /\ LoadProgram \in Seq(Operation) /\ Len(LoadProgram) = Len(Validation) + Len(c)
      /\ \A i \in 1..(Len(Validation) + Len(c)) :
             LoadProgram[i] = IF i <= Len(Validation) THEN Validation[i] ELSE c[i - Len(Validation)]
  BY <1>1, <1>3, ValidationType, Concatenated
<1>5. /\ Len(LoadProgram) = 9
      /\ \A i \in 1..9 : LoadProgram[i] = IF i <= 7 THEN Validation[i] ELSE c[i - 7]
  BY <1>2, <1>4, ValidationSteps
<1>6. /\ LoadProgram[1] = Validation[1] /\ LoadProgram[2] = Validation[2]
      /\ LoadProgram[3] = Validation[3] /\ LoadProgram[4] = Validation[4]
      /\ LoadProgram[5] = Validation[5] /\ LoadProgram[6] = Validation[6]
      /\ LoadProgram[7] = Validation[7] /\ LoadProgram[8] = c[1] /\ LoadProgram[9] = c[2]
  BY <1>5
<1>7. DOMAIN LoadProgram = 1..Len(LoadProgram)
  BY <1>4
<1> QED
  BY <1>2, <1>5, <1>6, <1>7, ValidationSteps

\* Which operation a process is at, by its role and its place.
LEMMA OperationOf ==
    ASSUME NEW p \in CampaignProcesses, SpotOK(p)
    PROVE  /\ ~Running(p) => \A name \in {"files", "deps", "baseline", "regime", "contract",
                                          "manifest", "revision", "frozen", "imported",
                                          "gate3", "method"} : ~Doing(p, name)
           /\ cpc[p].role = "method" =>
                  /\ cpc[p].i \in 1..7 /\ Len(Program(cpc[p].role)) = 7
                  /\ Doing(p, "files") <=> cpc[p].i = 3
                  /\ Doing(p, "baseline") <=> cpc[p].i = 5
                  /\ Doing(p, "regime") <=> cpc[p].i = 6
                  /\ Doing(p, "manifest") <=> cpc[p].i = 7
                  /\ ~Doing(p, "deps") /\ ~Doing(p, "contract")
           /\ cpc[p].role = "schema" =>
                  /\ cpc[p].i \in 1..13 /\ Len(Program(cpc[p].role)) = 13
                  /\ Doing(p, "files") <=> cpc[p].i \in {1, 7}
                  /\ Doing(p, "deps") <=> cpc[p].i \in {2, 3, 4, 5, 11}
                  /\ Doing(p, "contract") <=> cpc[p].i = 12
                  /\ Doing(p, "manifest") <=> cpc[p].i = 13
                  /\ cpc[p].i \in {4, 5} => Current(p).mode = "same"
                  /\ cpc[p].i \in {2, 4} => Current(p).slot = "manifest"
                  /\ cpc[p].i \in {3, 5} => Current(p).slot = "contract"
                  /\ cpc[p].i = 11 => Current(p).slot = "written"
                  /\ ~Doing(p, "baseline") /\ ~Doing(p, "regime")
           /\ cpc[p].role = "load" =>
                  /\ cpc[p].i \in 1..9 /\ Len(Program(cpc[p].role)) = 9
                  /\ Doing(p, "deps") => Current(p).slot \in Slots
                  /\ ~Doing(p, "contract") /\ ~Doing(p, "manifest")
                  /\ ~Doing(p, "baseline") /\ ~Doing(p, "regime")
<1>1. CASE ~Running(p)
  <2>1. Program(cpc[p].role) = <<>> /\ cpc[p].role \notin {"method", "schema", "load"}
    BY <1>1 DEF Running, Program
  <2>2. Current(p).op = "none"
    BY <2>1 DEF Current, Op
  <2> QED
    BY <2>1, <2>2 DEF Doing
<1>2. CASE cpc[p].role = "method"
  <2>1. Program(cpc[p].role) = MethodProgram
    BY <1>2 DEF Program
  <2>2. cpc[p].i \in 1..7 /\ Current(p) = MethodProgram[cpc[p].i]
    BY <1>2, <2>1, MethodSteps DEF SpotOK, Running, Current
  <2> QED
    BY <1>2, <2>1, <2>2, MethodSteps DEF Doing, Op, Files, Running
<1>3. CASE cpc[p].role = "schema"
  <2>1. Program(cpc[p].role) = SchemaProgram
    BY <1>3 DEF Program
  <2>2. cpc[p].i \in 1..13 /\ Current(p) = SchemaProgram[cpc[p].i]
    BY <1>3, <2>1, SchemaSteps DEF SpotOK, Running, Current
  <2> QED
    BY <1>3, <2>1, <2>2, SchemaSteps DEF Doing, Op, Files, Deps, Running
<1>4. CASE cpc[p].role = "load"
  <2>1. Program(cpc[p].role) = LoadProgram
    BY <1>4 DEF Program
  <2>2. cpc[p].i \in 1..9 /\ Current(p) = LoadProgram[cpc[p].i]
    BY <1>4, <2>1, LoadSteps DEF SpotOK, Running, Current
  <2> QED
    BY <1>4, <2>1, <2>2, LoadSteps DEF Doing, Op, Files, Deps, Running, Slots
<1> QED
  BY <1>1, <1>2, <1>3, <1>4 DEF Running

SealedGrows == /\ sealed.records \subseteq sealed'.records
               /\ sealed.methods \subseteq sealed'.methods
               /\ sealed.contracts \subseteq sealed'.contracts
               /\ sealed.schemas \subseteq sealed'.schemas
SealedType == [records : SUBSET MethodRecords, methods : SUBSET MethodRecord,
               contracts : SUBSET Panel, schemas : SUBSET SchemaRecord]

LEMMA HistoryStays ==
    ASSUME RepoType, RepoMove, NEW i \in DOMAIN history
    PROVE  i \in DOMAIN history' /\ history'[i] = history[i]
BY DEF RepoType, RepoMove, HistoryGrows, Head1

LEMMA SameOperation ==
    ASSUME NEW p \in CampaignProcesses, cpc'[p] = cpc[p]
    PROVE  Current(p)' = Current(p) /\ FilesOf(p)' = FilesOf(p)
           /\ (\A name : Doing(p, name)' = Doing(p, name))
BY DEF Current, FilesOf, Doing

LEMMA LoadsType ==
    ASSUME NEW role, NEW i, NEW slot
    PROVE  /\ Loads(role, i, slot) \in Nat
           /\ role # "schema" => Loads(role, i, slot) = 1
BY DEF Loads

\* A panel that was loaded twice was loaded once.
LEMMA FitWeakens ==
    ASSUME NEW panels, NEW role, NEW i, RepoType, PanelsFit(panels, role, i)
    PROVE  \A slot \in Slots : WasReplaced(panels[slot], 1, replaced)
BY DEF PanelsFit, WasReplaced, Loads, RepoType

\* No other operation than the two comparisons adds a load.
LEMMA FitGoesOn ==
    ASSUME NEW panels, NEW role, NEW i \in Nat, ~(role = "schema" /\ i \in {4, 5}),
           PanelsFit(panels, role, i)
    PROVE  PanelsFit(panels, role, i + 1)
BY DEF PanelsFit, Loads

\* What a process that takes no step knows stays true.
LEMMA ProcessKept ==
    ASSUME NEW p \in CampaignProcesses, CampaignType, ProcessOK(p), RepoType, RepoMove,
           SealedGrows, cpc'[p] = cpc[p], held'[p] = held[p]
    PROVE  ProcessOK(p)'
<1>1. /\ Current(p)' = Current(p) /\ FilesOf(p)' = FilesOf(p)
      /\ \A name : Doing(p, name)' = Doing(p, name)
  BY SameOperation
<1>2. SpotOK(p)'
  BY <1>1, HistoryStays DEF ProcessOK, SpotOK, Running
<1>3. Running(p) => \A f : SameFile(p, f) => SameFile(p, f)'
  BY HistoryStays DEF ProcessOK, SpotOK, SameFile
<1>4. FilesOK(p)'
  BY <1>1, <1>3 DEF ProcessOK, FilesOK, Running
<1>5. PanelsOK(p)'
  <2>1. WasReplaced(held[p].reading, 1, replaced')
    BY WasReplacedStays DEF ProcessOK, PanelsOK
  <2>2. PanelsFit(held[p].panels, cpc[p].role, cpc[p].i)'
    <3>1. PanelsFit(held[p].panels, cpc[p].role, cpc[p].i)
      BY DEF ProcessOK, PanelsOK
    <3>2. ASSUME NEW slot \in Slots
          PROVE  WasReplaced(held[p].panels[slot], Loads(cpc[p].role, cpc[p].i, slot), replaced')
      BY <3>1, WasReplacedStays, LoadsType DEF PanelsFit
    <3> QED
      BY <3>2 DEF PanelsFit
  <2>3. ASSUME Doing(p, "deps"), NEW slot \in Slots, NEW k \in DOMAIN Symbols
        PROVE  /\ 2 * k <= cpc[p].j => IsRestored(held[p].panels[slot],
                                                  Loads(cpc[p].role, cpc[p].i, slot),
                                                  spent', Symbols[k])
               /\ 2 * k < cpc[p].j => Twice(held[p].panels[slot], held[p].reading,
                                            Loads(cpc[p].role, cpc[p].i, slot),
                                            replaced', Symbols[k])
    BY <2>3, SymbolsFacts, RestoredStays, TwiceStays, LoadsType DEF ProcessOK, PanelsOK
  <2> QED
    BY <1>1, <2>1, <2>2, <2>3 DEF PanelsOK
<1>6. ComparedOK(p)' /\ PublishedOK(p)'
  <2>1. Thrice(held[p].panels) => Thrice(held[p].panels)'
    BY TwiceStays DEF Thrice
  <2> QED
    BY <2>1 DEF ProcessOK, ComparedOK, PublishedOK, SealedGrows
<1> QED
  BY <1>2, <1>4, <1>5, <1>6 DEF ProcessOK

LEMMA NothingHeldType ==
    /\ NothingHeld \in Holding
    /\ WasReplaced(PinnedBars, 1, replaced) /\ WasReplaced(NothingHeld.reading, 1, replaced)
    /\ \A slot \in Slots : WasReplaced(NothingHeld.panels[slot], 1, replaced)
<1>1. PinnedBars \in Panel /\ NoFile \in BundleBytes
  BY PinnedBarsType DEF NoFile, BundleBytes
<1>2. NothingHeld \in Holding
  BY <1>1 DEF NothingHeld, Holding
<1>3. \A n, times : WasReplaced(PinnedBars, n, times)
  BY DEF WasReplaced, PinnedBars
<1> QED
  BY <1>2, <1>3 DEF NothingHeld

\* A process that is not running.
LEMMA OutsideOK ==
    ASSUME NEW p \in CampaignProcesses, ~Running(p), WasReplaced(held[p].reading, 1, replaced),
           \A slot \in Slots : WasReplaced(held[p].panels[slot], 1, replaced)
    PROVE  ProcessOK(p)
<1>1. ~Doing(p, "files") /\ ~Doing(p, "deps")
  BY DEF Doing, Current, Running, Program, Op
<1>2. PanelsFit(held[p].panels, cpc[p].role, cpc[p].i)
  BY LoadsType DEF PanelsFit, Running
<1> QED
  BY <1>1, <1>2 DEF ProcessOK, SpotOK, FilesOK, PanelsOK, ComparedOK, PublishedOK, Running

LEMMA CampaignInit_ == CampaignInit => CampaignInv
<1> SUFFICES ASSUME CampaignInit PROVE CampaignInv
  OBVIOUS
<1>1. CampaignType
  BY NothingHeldType DEF CampaignInit, CampaignType, CampaignStart, Spot, Spots
<1>2. ASSUME NEW p \in CampaignProcesses PROVE ProcessOK(p)
  <2>1. ~Running(p) /\ held[p] = NothingHeld
    BY <1>2 DEF CampaignInit, CampaignStart, Spot, Running
  <2> QED
    BY <2>1, NothingHeldType, OutsideOK
<1> QED
  BY <1>1, <1>2
     DEF CampaignInv, CampaignInit, SealedRevisions, CampaignIsOneRevision, SchemaIsGuarded,
         CampaignIsClosed

SealedOK == SealedRevisions /\ CampaignIsOneRevision /\ SchemaIsGuarded /\ CampaignIsClosed

LEMMA SealedKept ==
    ASSUME CampaignInv, RepoType, RepoMove, UNCHANGED sealed.methods, UNCHANGED sealed.schemas,
           SealedGrows, sealed'.records \subseteq MethodRecords
    PROVE  SealedOK'
<1>1. \A m \in sealed.methods \cup sealed.schemas :
          m.revision \in DOMAIN history' /\ history'[m.revision] = history[m.revision]
  BY HistoryStays DEF CampaignInv, SealedRevisions
<1>2. SealedRevisions' /\ CampaignIsOneRevision'
  BY <1>1 DEF CampaignInv, SealedRevisions, CampaignIsOneRevision
<1>3. SchemaIsGuarded'
  <2>1. \A panel : /\ WasReplaced(panel, 2, replaced) => WasReplaced(panel, 2, replaced')
                   /\ WasReplaced(panel, 3, replaced) => WasReplaced(panel, 3, replaced')
    BY WasReplacedStays
  <2> QED
    BY <2>1 DEF CampaignInv, SchemaIsGuarded, Took, WasReplaced
<1>4. CampaignIsClosed'
  BY DEF CampaignInv, CampaignIsClosed, SealedGrows
<1> QED
  BY <1>2, <1>4, <1>3 DEF SealedOK

\* A step of one process, which may publish.
LEMMA CampaignMoves ==
    ASSUME NEW p \in CampaignProcesses, CampaignInv, RepoType, RepoMove,
           NEW spot \in Spots, NEW facts \in Holding, NEW now \in SealedType,
           cpc' = [cpc EXCEPT ![p] = spot], held' = [held EXCEPT ![p] = facts], sealed' = now,
           SealedGrows, ProcessOK(p)', SealedOK'
    PROVE  CampaignInv'
<1>1. CampaignType'
  BY DEF CampaignInv, CampaignType, SealedType
<1>2. ASSUME NEW q \in CampaignProcesses PROVE ProcessOK(q)'
  <2>1. CASE q # p
    <3>1. cpc'[q] = cpc[q] /\ held'[q] = held[q]
      BY <2>1 DEF CampaignInv, CampaignType
    <3> QED
      BY <3>1, ProcessKept DEF CampaignInv
  <2> QED
    BY <2>1
<1> QED
  BY <1>1, <1>2 DEF CampaignInv, SealedOK

LEMMA CampaignTypes ==
    ASSUME NEW p \in CampaignProcesses, CampaignInv
    PROVE  /\ CampaignType /\ ProcessOK(p) /\ SpotOK(p)
           /\ cpc \in [CampaignProcesses -> Spots] /\ held \in [CampaignProcesses -> Holding]
           /\ cpc[p] \in Spots /\ cpc[p].i \in Nat /\ cpc[p].j \in Nat
           /\ held[p] \in Holding /\ held[p].revision \in Nat /\ held[p].files \in BundleBytes
           /\ held[p].reading \in Panel /\ held[p].panels \in [Slots -> Panel]
           /\ held = [held EXCEPT ![p] = held[p]] /\ sealed \in SealedType
<1>1. CampaignType /\ ProcessOK(p)
  BY DEF CampaignInv
<1>2. cpc[p] \in Spots /\ held[p] \in Holding
  BY <1>1 DEF CampaignType
<1> QED
  BY <1>1, <1>2 DEF CampaignType, Spots, Holding, SealedType, ProcessOK

\* The next operation of a program, or its end.
LEMMA AdvanceTo ==
    ASSUME NEW p \in CampaignProcesses, CampaignInv, Running(p), Advance(p)
    PROVE  \E spot \in Spots :
               /\ cpc' = [cpc EXCEPT ![p] = spot] /\ cpc'[p] = spot
               /\ \/ spot = Spot("done", 0, 0) /\ cpc[p].i = Len(Program(cpc[p].role))
                  \/ /\ spot = Spot(cpc[p].role, cpc[p].i + 1, 0)
                     /\ cpc[p].i + 1 \in DOMAIN Program(cpc[p].role)
<1>1. cpc[p] \in Spots /\ cpc[p].i \in Nat /\ cpc \in [CampaignProcesses -> Spots]
  BY CampaignTypes
<1>2. cpc[p].i \in DOMAIN Program(cpc[p].role)
  BY DEF CampaignInv, ProcessOK, SpotOK
<1>3. /\ cpc[p].i \in 1..Len(Program(cpc[p].role)) /\ Len(Program(cpc[p].role)) \in Nat
      /\ DOMAIN Program(cpc[p].role) = 1..Len(Program(cpc[p].role))
  <2>1. cpc[p].role \in {"method", "schema", "load"}
    BY DEF Running
  <2> QED
    BY <1>2, <2>1, MethodSteps, SchemaSteps, LoadSteps DEF Program
<1>4. CASE cpc[p].i = Len(Program(cpc[p].role))
  <2>1. Spot("done", 0, 0) \in Spots
    BY DEF Spot, Spots
  <2> QED
    BY <1>1, <1>4, <2>1 DEF Advance
<1>5. CASE cpc[p].i # Len(Program(cpc[p].role))
  <2>1. Spot(cpc[p].role, cpc[p].i + 1, 0) \in Spots
    BY <1>1 DEF Spot, Spots
  <2>2. cpc[p].i + 1 \in DOMAIN Program(cpc[p].role)
    BY <1>3, <1>5
  <2> QED
    BY <1>1, <1>5, <2>1, <2>2 DEF Advance
<1> QED
  BY <1>4, <1>5

\* A process that has moved on to its next operation, whose obligations were
\* met by the operation it has done.
LEMMA NextOperationOK ==
    ASSUME NEW p \in CampaignProcesses, CampaignInv, RepoType, RepoMove, Running(p), Advance(p),
           NEW facts \in Holding, held'[p] = facts, facts.revision = held[p].revision,
           WasReplaced(facts.reading, 1, replaced),
           PanelsFit(facts.panels, cpc[p].role, cpc[p].i + 1), UNCHANGED repoVars,
           cpc[p].role = "method" /\ cpc[p].i > 2 =>
               \A k \in DOMAIN MethodFiles :
                   facts.files[MethodFiles[k]] = history[facts.revision][MethodFiles[k]],
           cpc[p].role = "schema" =>
               \A k \in DOMAIN SchemaFiles :
                   facts.files[SchemaFiles[k]] = history[facts.revision][SchemaFiles[k]],
           cpc[p].role = "schema" /\ cpc[p].i > 10 => Thrice(facts.panels),
           cpc[p].role = "method" /\ cpc[p].i > 4 => "baseline" \in sealed'.records,
           cpc[p].role = "method" /\ cpc[p].i > 5 => "regime" \in sealed'.records,
           cpc[p].role = "schema" /\ cpc[p].i > 11 => facts.panels["written"] \in sealed'.contracts
    PROVE  ProcessOK(p)'
<1>1. PICK spot \in Spots :
          /\ cpc'[p] = spot
          /\ \/ spot = Spot("done", 0, 0)
             \/ /\ spot = Spot(cpc[p].role, cpc[p].i + 1, 0)
                /\ cpc[p].i + 1 \in DOMAIN Program(cpc[p].role)
  BY AdvanceTo
<1>2. UNCHANGED replaced /\ UNCHANGED history
  BY DEF repoVars
<1>3. cpc[p].i \in Nat /\ held[p].revision \in DOMAIN history
  BY CampaignTypes DEF SpotOK
<1>4. CASE spot = Spot("done", 0, 0)
  <2>1. cpc'[p].role = "done"
    BY <1>1, <1>4 DEF Spot
  <2>2. Running(p)' = FALSE
    BY <2>1 DEF Running
  <2>3. ~Doing(p, "files")' /\ ~Doing(p, "deps")'
    BY <2>1 DEF Doing, Current, Program, Op
  <2>4. PanelsOK(p)'
    <3>1. \A slot \in Slots : WasReplaced(facts.panels[slot], 1, replaced)
      BY FitWeakens
    <3>2. PanelsFit(held[p].panels, cpc[p].role, cpc[p].i)'
      BY <1>2, <2>1, <3>1, LoadsType DEF PanelsFit
    <3> QED
      BY <1>2, <2>3, <3>2 DEF PanelsOK
  <2> QED
    BY <2>1, <2>2, <2>3, <2>4 DEF ProcessOK, SpotOK, FilesOK, ComparedOK, PublishedOK
<1>5. CASE spot # Spot("done", 0, 0)
  <2>1. /\ cpc'[p].role = cpc[p].role /\ cpc'[p].i = cpc[p].i + 1 /\ cpc'[p].j = 0
        /\ cpc[p].i + 1 \in DOMAIN Program(cpc[p].role)
    BY <1>1, <1>5 DEF Spot
  <2>2. SpotOK(p)'
    <3>1. FilesOf(p)' \in {MethodFiles, SchemaFiles}
      BY DEF FilesOf
    <3>2. Len(MethodFiles) > 0 /\ Len(SchemaFiles) > 0
      BY FilesAssumption
    <3> QED
      BY <1>2, <1>3, <2>1, <3>1, <3>2 DEF SpotOK, Running
  <2>3. FilesOK(p)'
    BY <1>2, <1>3, <2>1 DEF FilesOK, SameFile
  <2>4. PanelsOK(p)'
    <3>1. \A k \in DOMAIN Symbols : ~(2 * k <= 0) /\ ~(2 * k < 0)
      BY SymbolsFacts
    <3>2. \A k \in DOMAIN Symbols : ~(2 * k <= cpc'[p].j) /\ ~(2 * k < cpc'[p].j)
      BY <2>1, <3>1
    <3>3. /\ WasReplaced(held'[p].reading, 1, replaced')
          /\ PanelsFit(held[p].panels, cpc[p].role, cpc[p].i)'
      BY <1>2, <2>1 DEF PanelsFit
    <3> QED
      BY <3>2, <3>3 DEF PanelsOK
  <2>5. ComparedOK(p)' /\ PublishedOK(p)'
    <3>1. Thrice(facts.panels) => Thrice(held[p].panels)'
      BY <1>2 DEF Thrice
    <3> QED
      BY <1>3, <2>1, <3>1 DEF ComparedOK, PublishedOK
  <2> QED
    BY <2>2, <2>3, <2>4, <2>5 DEF ProcessOK
<1> QED
  BY <1>4, <1>5

\* A check that passes.
LEMMA CheckKeeps ==
    ASSUME NEW p \in CampaignProcesses, CampaignInv, RepoType, RepoMove, UNCHANGED repoVars,
           NEW name \in {"revision", "frozen", "imported", "gate3", "method"}, Doing(p, name),
           Advance(p) \/ (\E j \in Nat : StayAt(p, j)), UNCHANGED <<held, sealed>>
    PROVE  CampaignInv'
<1>1. /\ ProcessOK(p) /\ SpotOK(p) /\ held[p] \in Holding /\ sealed \in SealedType
      /\ held = [held EXCEPT ![p] = held[p]] /\ cpc[p] \in Spots
      /\ cpc \in [CampaignProcesses -> Spots]
  BY CampaignTypes
<1>2. Running(p)
  BY <1>1, OperationOf
<1>3. name \notin {"files", "deps", "baseline", "regime", "contract", "manifest"}
  OBVIOUS
<1>4. /\ ~Doing(p, "files") /\ ~Doing(p, "deps") /\ ~Doing(p, "baseline")
      /\ ~Doing(p, "regime") /\ ~Doing(p, "contract") /\ ~Doing(p, "manifest")
  BY <1>3 DEF Doing
<1>5. SealedGrows /\ SealedOK' /\ sealed' = sealed /\ held' = held
  <2>1. SealedGrows /\ sealed'.records \subseteq MethodRecords
    BY <1>1 DEF SealedGrows, SealedType
  <2> QED
    BY <2>1, SealedKept
<1>6. CASE Advance(p)
  <2>1. PICK spot \in Spots : cpc' = [cpc EXCEPT ![p] = spot]
    BY <1>2, <1>6, AdvanceTo
  <2>2. /\ cpc[p].role = "method" => cpc[p].i \notin {3, 5, 6, 7} /\ cpc[p].i \in 1..7
        /\ cpc[p].role = "schema" => cpc[p].i \notin {1, 2, 3, 4, 5, 7, 11, 12, 13} /\ cpc[p].i \in 1..13
    BY <1>1, <1>4, OperationOf
  <2>3. /\ cpc[p].role = "method" /\ cpc[p].i > 2 => cpc[p].i > 3
        /\ ~(cpc[p].role = "method" /\ cpc[p].i > 4) /\ ~(cpc[p].role = "method" /\ cpc[p].i > 5)
        /\ cpc[p].role = "schema" => cpc[p].i > 5
        /\ ~(cpc[p].role = "schema" /\ cpc[p].i > 11)
    BY <2>2
  <2>4. ProcessOK(p)'
    <3>1. /\ WasReplaced(held[p].reading, 1, replaced)
          /\ PanelsFit(held[p].panels, cpc[p].role, cpc[p].i)
      BY <1>1 DEF ProcessOK, PanelsOK
    <3>2. /\ cpc[p].role = "method" /\ cpc[p].i > 2 =>
                 \A k \in DOMAIN MethodFiles :
                     held[p].files[MethodFiles[k]] = history[held[p].revision][MethodFiles[k]]
          /\ cpc[p].role = "schema" =>
                 \A k \in DOMAIN SchemaFiles :
                     held[p].files[SchemaFiles[k]] = history[held[p].revision][SchemaFiles[k]]
      BY <1>1, <2>2, <2>3 DEF ProcessOK, FilesOK, SameFile
    <3>3. /\ PanelsFit(held[p].panels, cpc[p].role, cpc[p].i + 1)
          /\ ~(cpc[p].role = "schema" /\ cpc[p].i > 10)
      <4>1. cpc[p].i \in Nat /\ ~(cpc[p].role = "schema" /\ cpc[p].i \in {4, 5})
        BY <2>2, CampaignTypes
      <4> QED
        BY <2>2, <3>1, <4>1, FitGoesOn
    <3>4. held'[p] = held[p]
      BY <1>5
    <3> QED
      BY <1>1, <1>2, <1>6, <2>3, <3>1, <3>2, <3>3, <3>4, NextOperationOK
  <2> QED
    BY <1>1, <1>5, <2>1, <2>4, CampaignMoves
<1>7. CASE ~Advance(p)
  <2>1. PICK j \in Nat : cpc' = [cpc EXCEPT ![p].j = j]
    BY <1>7 DEF StayAt
  <2> DEFINE spot == [cpc[p] EXCEPT !.j = j]
  <2>2. spot \in Spots /\ spot.role = cpc[p].role /\ spot.i = cpc[p].i
    BY <1>1 DEF Spots
  <2>3. cpc' = [cpc EXCEPT ![p] = spot] /\ cpc'[p] = spot
    BY <1>1, <2>1
  <2> HIDE DEF spot
  <2>4. cpc'[p].role = cpc[p].role /\ cpc'[p].i = cpc[p].i
    BY <2>2, <2>3
  <2>5. Current(p)' = Current(p)
    BY <2>4 DEF Current
  <2>6. ~Doing(p, "files")' /\ ~Doing(p, "deps")'
    BY <1>4, <2>5 DEF Doing
  <2>7. replaced' = replaced /\ history' = history
    BY DEF repoVars
  <2>8. ProcessOK(p)'
    <3>1. SpotOK(p)' /\ ComparedOK(p)' /\ PublishedOK(p)'
      BY <1>1, <1>5, <2>4, <2>6, <2>7
         DEF ProcessOK, SpotOK, Running, ComparedOK, Thrice, PublishedOK
    <3>2. FilesOK(p)'
      BY <1>1, <1>5, <2>4, <2>6, <2>7 DEF ProcessOK, FilesOK, SameFile
    <3>3. PanelsOK(p)'
      BY <1>1, <1>5, <2>4, <2>6, <2>7 DEF ProcessOK, PanelsOK, PanelsFit
    <3> QED
      BY <3>1, <3>2, <3>3 DEF ProcessOK
  <2> QED
    BY <1>1, <1>5, <2>2, <2>3, <2>8, CampaignMoves
<1> QED
  BY <1>6, <1>7

\* A file that is read is that of the revision.
LEMMA IdentifyKeeps ==
    ASSUME NEW p \in CampaignProcesses, CampaignInv, RepoType, RepoMove, UNCHANGED repoVars,
           IdentifyFile(p)
    PROVE  CampaignInv'
<1>1. /\ ProcessOK(p) /\ SpotOK(p) /\ held[p] \in Holding /\ sealed \in SealedType
      /\ cpc[p] \in Spots /\ cpc[p].j \in Nat /\ held[p].files \in BundleBytes
      /\ cpc \in [CampaignProcesses -> Spots] /\ held \in [CampaignProcesses -> Holding]
  BY CampaignTypes
<1> DEFINE next == cpc[p].j + 1
           f == FilesOf(p)[next]
           files == [held[p].files EXCEPT ![f] = worktree[f]]
           facts == [held[p] EXCEPT !.files = files]
<1>2. /\ Doing(p, "files") /\ FileAtRevision(p, f)
      /\ held' = [held EXCEPT ![p].files[f] = worktree[f]]
      /\ IF next = Len(FilesOf(p)) THEN Advance(p) ELSE StayAt(p, next)
      /\ UNCHANGED sealed
  BY DEF IdentifyFile
<1>3. Running(p)
  BY <1>1, <1>2, OperationOf
<1>4. /\ FilesOf(p) \in Seq(Bundles) /\ Len(FilesOf(p)) \in Nat
      /\ DOMAIN FilesOf(p) = 1..Len(FilesOf(p)) /\ next \in DOMAIN FilesOf(p) /\ f \in Bundles
  <2>1. /\ FilesOf(p) \in Seq(Bundles) /\ Len(FilesOf(p)) \in Nat
        /\ DOMAIN FilesOf(p) = 1..Len(FilesOf(p))
    BY FilesAssumption DEF FilesOf
  <2>2. next \in DOMAIN FilesOf(p)
    BY <1>1, <1>2, <2>1 DEF SpotOK
  <2> QED
    BY <2>1, <2>2
<1>5. /\ files \in BundleBytes /\ files[f] = worktree[f]
      /\ \A g \in Bundles \ {f} : files[g] = held[p].files[g]
  BY <1>1, <1>4 DEF BundleBytes, RepoType
<1>6. /\ facts \in Holding /\ facts.files = files /\ facts.revision = held[p].revision
      /\ facts.reading = held[p].reading /\ facts.panels = held[p].panels
  BY <1>1, <1>5 DEF Holding
<1>7. held' = [held EXCEPT ![p] = facts] /\ held'[p] = facts
  BY <1>1, <1>2
<1>8. \A g \in Bundles : g = f \/ SameFile(p, g) => files[g] = history[held[p].revision][g]
  BY <1>2, <1>5 DEF SameFile, FileAtRevision
<1>9. SealedGrows /\ SealedOK' /\ sealed' = sealed
  <2>1. SealedGrows /\ sealed'.records \subseteq MethodRecords
    BY <1>1, <1>2 DEF SealedGrows, SealedType
  <2> QED
    BY <1>2, <2>1, SealedKept
<1>10. /\ WasReplaced(held[p].reading, 1, replaced)
       /\ PanelsFit(held[p].panels, cpc[p].role, cpc[p].i)
  BY <1>1 DEF ProcessOK, PanelsOK
<1>11. /\ cpc[p].role = "method" => cpc[p].i = 3 /\ FilesOf(p) = MethodFiles
       /\ cpc[p].role = "schema" => cpc[p].i \in {1, 7} /\ FilesOf(p) = SchemaFiles
  BY <1>1, <1>2, OperationOf DEF FilesOf
\* The files up to this one, and in the second bundle of a schema all of them.
<1>12. cpc[p].role \in {"method", "schema"} =>
           \A k \in 1..next : files[FilesOf(p)[k]] = history[held[p].revision][FilesOf(p)[k]]
  <2> SUFFICES ASSUME cpc[p].role \in {"method", "schema"}, NEW k \in 1..next
               PROVE  files[FilesOf(p)[k]] = history[held[p].revision][FilesOf(p)[k]]
    OBVIOUS
  <2>1. FilesOf(p)[k] \in Bundles
    BY <1>1, <1>4
  <2>2. k = next \/ k \in 1..cpc[p].j
    BY <1>1
  <2>3. k \in 1..cpc[p].j => SameFile(p, FilesOf(p)[k])
    BY <1>1, <1>2 DEF ProcessOK, FilesOK
  <2> QED
    BY <1>8, <2>1, <2>2, <2>3
<1>13. cpc[p].role = "schema" /\ cpc[p].i = 7 =>
           \A k \in DOMAIN SchemaFiles :
               files[SchemaFiles[k]] = history[held[p].revision][SchemaFiles[k]]
  <2> SUFFICES ASSUME cpc[p].role = "schema", cpc[p].i = 7, NEW k \in DOMAIN SchemaFiles
               PROVE  files[SchemaFiles[k]] = history[held[p].revision][SchemaFiles[k]]
    OBVIOUS
  <2>1. SchemaFiles[k] \in Bundles
    BY FilesAssumption
  <2>2. SameFile(p, SchemaFiles[k])
    BY <1>1 DEF ProcessOK, FilesOK
  <2> QED
    BY <1>8, <2>1, <2>2
<1> HIDE DEF f, files, facts
<1>14. CASE next = Len(FilesOf(p))
  <2>1. Advance(p)
    BY <1>2, <1>14
  <2>2. PICK spot \in Spots : cpc' = [cpc EXCEPT ![p] = spot]
    BY <1>3, <2>1, AdvanceTo
  <2>3. \A k \in DOMAIN FilesOf(p) : k \in 1..next
    BY <1>4, <1>14
  <2>4. /\ cpc[p].role = "method" =>
               \A k \in DOMAIN MethodFiles :
                   files[MethodFiles[k]] = history[held[p].revision][MethodFiles[k]]
        /\ cpc[p].role = "schema" =>
               \A k \in DOMAIN SchemaFiles :
                   files[SchemaFiles[k]] = history[held[p].revision][SchemaFiles[k]]
    BY <1>11, <1>12, <2>3
  <2>5. PanelsFit(held[p].panels, cpc[p].role, cpc[p].i + 1)
    <3>1. cpc[p].i \in Nat /\ ~(cpc[p].role = "schema" /\ cpc[p].i \in {4, 5})
      BY <1>11, CampaignTypes
    <3> QED
      BY <1>10, <3>1, FitGoesOn
  <2>6. /\ ~(cpc[p].role = "method" /\ cpc[p].i > 4) /\ ~(cpc[p].role = "method" /\ cpc[p].i > 5)
        /\ ~(cpc[p].role = "schema" /\ cpc[p].i > 11) /\ ~(cpc[p].role = "schema" /\ cpc[p].i > 10)
    BY <1>11
  <2>7. ProcessOK(p)'
    BY <1>3, <1>6, <1>7, <1>10, <2>1, <2>4, <2>5, <2>6, NextOperationOK
  <2> QED
    BY <1>1, <1>6, <1>7, <1>9, <2>2, <2>7, CampaignMoves
<1>15. CASE next # Len(FilesOf(p))
  <2>1. cpc' = [cpc EXCEPT ![p].j = next]
    BY <1>2, <1>15 DEF StayAt
  <2> DEFINE spot == [cpc[p] EXCEPT !.j = next]
  <2>2. /\ spot \in Spots /\ spot.role = cpc[p].role /\ spot.i = cpc[p].i
        /\ spot.j = cpc[p].j + 1
    BY <1>1 DEF Spots
  <2>3. cpc' = [cpc EXCEPT ![p] = spot] /\ cpc'[p] = spot
    BY <1>1, <2>1
  <2> HIDE DEF spot
  <2>4. cpc'[p].role = cpc[p].role /\ cpc'[p].i = cpc[p].i /\ cpc'[p].j = cpc[p].j + 1
    BY <2>2, <2>3
  <2>5. Current(p)' = Current(p) /\ FilesOf(p)' = FilesOf(p)
    BY <2>4 DEF Current, FilesOf
  <2>6. Doing(p, "files")' /\ ~Doing(p, "deps")'
    BY <1>2, <2>5 DEF Doing
  <2>7. replaced' = replaced /\ history' = history
    BY DEF repoVars
  <2>8. SpotOK(p)'
    BY <1>1, <1>4, <1>6, <1>7, <1>15, <2>4, <2>5, <2>7 DEF SpotOK, Running
  <2>9. FilesOK(p)'
    <3>1. cpc[p].role \in {"method", "schema"} =>
              \A k \in 1..cpc'[p].j : SameFile(p, FilesOf(p)[k])'
      BY <1>6, <1>7, <1>12, <2>4, <2>5, <2>7 DEF SameFile
    <3>2. cpc[p].role = "method" => ~(cpc'[p].i > 3)
      BY <1>11, <2>4
    <3>3. cpc[p].role = "schema" /\ cpc'[p].i > 1 =>
              \A k \in DOMAIN SchemaFiles : SameFile(p, SchemaFiles[k])'
      BY <1>6, <1>7, <1>11, <1>13, <2>4, <2>7 DEF SameFile
    <3> QED
      BY <2>4, <2>5, <3>1, <3>2, <3>3 DEF FilesOK
  <2>10. PanelsOK(p)'
    <3>1. /\ WasReplaced(held'[p].reading, 1, replaced')
          /\ PanelsFit(held[p].panels, cpc[p].role, cpc[p].i)'
      BY <1>6, <1>7, <1>10, <2>4, <2>7 DEF PanelsFit
    <3> QED
      BY <2>6, <3>1 DEF PanelsOK
  <2>11. ComparedOK(p)' /\ PublishedOK(p)'
    BY <1>1, <1>2, <1>6, <1>7, <2>4, <2>7 DEF ProcessOK, ComparedOK, Thrice, PublishedOK
  <2>12. ProcessOK(p)'
    BY <2>8, <2>9, <2>10, <2>11 DEF ProcessOK
  <2> QED
    BY <1>1, <1>6, <1>7, <1>9, <2>2, <2>3, <2>12, CampaignMoves
<1> QED
  BY <1>14, <1>15

\* What a panel holds once the symbol at hand was read: other prices of a symbol
\* of which a kept panel holds other prices too cost one replacement more.
LEMMA LoadedFacts ==
    ASSUME NEW p \in CampaignProcesses, CampaignInv, RepoType, Doing(p, "deps"),
           cpc[p].j % 2 = 0
    PROVE  /\ Loaded(p) \in Panel /\ WasReplaced(Loaded(p), 1, replaced)
           /\ \A slot \in Slots, k \in DOMAIN Symbols :
                  2 * k <= cpc[p].j => Twice(held[p].panels[slot], Loaded(p),
                                             Loads(cpc[p].role, cpc[p].i, slot),
                                             replaced, Symbols[k])
<1>1. /\ PanelsOK(p) /\ cpc[p].j \in Nat /\ held[p].reading \in Panel
      /\ held[p].panels \in [Slots -> Panel]
  BY CampaignTypes DEF ProcessOK
<1> DEFINE s == SymbolAt(cpc[p].j)
<1>2. bars \in Panel /\ WasReplaced(bars, 1, replaced)
  BY BarsWereReplaced DEF RepoType
<1>3. Loaded(p) = [t \in SymbolSet |-> IF t = s THEN bars[t] ELSE held[p].reading[t]]
  BY <1>1 DEF Loaded, Panel
<1>4. \A k \in DOMAIN Symbols : k \in Nat /\ k >= 1 /\ Symbols[k] \in SymbolSet
  BY SymbolsFacts
<1>5. \A k \in DOMAIN Symbols : 2 * k = cpc[p].j => s = Symbols[k]
  <2> SUFFICES ASSUME NEW k \in DOMAIN Symbols, 2 * k = cpc[p].j PROVE s = Symbols[k]
    OBVIOUS
  <2>1. (cpc[p].j + 1) \div 2 = k
    BY <1>4
  <2> QED
    BY <2>1 DEF SymbolAt
<1> HIDE DEF s
<1>6. Loaded(p) \in Panel /\ WasReplaced(Loaded(p), 1, replaced)
  <2>1. WasReplaced(held[p].reading, 1, replaced)
    BY <1>1 DEF PanelsOK
  <2> QED
    BY <1>1, <1>2, <1>3, <2>1 DEF Panel, WasReplaced
<1>7. ASSUME NEW slot \in Slots, NEW k \in DOMAIN Symbols, 2 * k <= cpc[p].j
      PROVE  Twice(held[p].panels[slot], Loaded(p), Loads(cpc[p].role, cpc[p].i, slot),
                   replaced, Symbols[k])
  <2> DEFINE n == Loads(cpc[p].role, cpc[p].i, slot)
  <2>1. n \in Nat /\ IsRestored(held[p].panels[slot], n, spent, Symbols[k])
    BY <1>1, <1>7, LoadsType DEF PanelsOK
  <2> HIDE DEF n
  <2>2. Twice(held[p].panels[slot], bars, n, replaced, Symbols[k])
    BY <1>4, <2>1, RestoredReadsPinned
  <2>3. CASE Symbols[k] = s
    <3>1. Loaded(p)[Symbols[k]] = bars[Symbols[k]]
      BY <1>3, <1>4, <2>3
    <3> QED
      BY <2>2, <3>1 DEF Twice, n
  <2>4. CASE Symbols[k] # s
    <3>1. 2 * k < cpc[p].j
      BY <1>1, <1>4, <1>5, <1>7, <2>4
    <3>2. Twice(held[p].panels[slot], held[p].reading, n, replaced, Symbols[k])
      BY <1>1, <1>7, <3>1 DEF PanelsOK, n
    <3>3. Loaded(p)[Symbols[k]] = held[p].reading[Symbols[k]]
      BY <1>3, <1>4, <2>4
    <3> QED
      BY <3>2, <3>3 DEF Twice, n
  <2> QED
    BY <2>3, <2>4
<1> QED
  BY <1>6, <1>7

\* The steps inside a load.
LEMMA PricesKeep ==
    ASSUME NEW p \in CampaignProcesses, CampaignInv, RepoType, RepoMove, UNCHANGED repoVars,
           EnterDependencies(p) \/ CheckPrices(p) \/ ReadPrices(p)
    PROVE  CampaignInv'
<1>1. /\ ProcessOK(p) /\ SpotOK(p) /\ held[p] \in Holding /\ sealed \in SealedType
      /\ cpc[p] \in Spots /\ cpc[p].j \in Nat /\ held[p].reading \in Panel
      /\ held[p].panels \in [Slots -> Panel] /\ held = [held EXCEPT ![p] = held[p]]
      /\ cpc \in [CampaignProcesses -> Spots] /\ held \in [CampaignProcesses -> Holding]
  BY CampaignTypes
<1>2. /\ Doing(p, "deps") /\ cpc' = [cpc EXCEPT ![p].j = cpc[p].j + 1] /\ UNCHANGED sealed
  BY DEF EnterDependencies, AtItem, CheckPrices, ReadPrices, StayAt
<1> DEFINE spot == [cpc[p] EXCEPT !.j = cpc[p].j + 1]
<1>3. /\ spot \in Spots /\ spot.role = cpc[p].role /\ spot.i = cpc[p].i
      /\ spot.j = cpc[p].j + 1
  BY <1>1 DEF Spots
<1>4. cpc' = [cpc EXCEPT ![p] = spot] /\ cpc'[p] = spot
  BY <1>1, <1>2
<1> HIDE DEF spot
<1>5. cpc'[p].role = cpc[p].role /\ cpc'[p].i = cpc[p].i /\ cpc'[p].j = cpc[p].j + 1
  BY <1>3, <1>4
<1>6. Current(p)' = Current(p)
  BY <1>5 DEF Current
<1>7. ~Doing(p, "files")' /\ Doing(p, "deps")'
  BY <1>2, <1>6 DEF Doing
<1>8. replaced' = replaced /\ spent' = spent /\ history' = history
  BY DEF repoVars, spent
<1>9. SealedGrows /\ SealedOK' /\ sealed' = sealed
  <2>1. SealedGrows /\ sealed'.records \subseteq MethodRecords
    BY <1>1, <1>2 DEF SealedGrows, SealedType
  <2> QED
    BY <1>2, <2>1, SealedKept
<1>10. ASSUME NEW facts \in Holding, held' = [held EXCEPT ![p] = facts],
              facts.revision = held[p].revision, facts.files = held[p].files,
              facts.panels = held[p].panels, PanelsOK(p)'
       PROVE  CampaignInv'
  <2>1. held'[p] = facts
    BY <1>1, <1>10
  <2>2. SpotOK(p)' /\ ComparedOK(p)' /\ PublishedOK(p)'
    BY <1>1, <1>2, <1>5, <1>7, <1>8, <1>10, <2>1
       DEF ProcessOK, SpotOK, Running, ComparedOK, Thrice, PublishedOK
  <2>3. FilesOK(p)'
    BY <1>1, <1>5, <1>7, <1>8, <1>10, <2>1 DEF ProcessOK, FilesOK, SameFile
  <2>4. ProcessOK(p)'
    BY <1>10, <2>2, <2>3 DEF ProcessOK
  <2> QED
    BY <1>1, <1>3, <1>4, <1>9, <1>10, <2>4, CampaignMoves
<1>11. \A k \in DOMAIN Symbols : k \in Nat /\ k >= 1 /\ Symbols[k] \in SymbolSet
  BY SymbolsFacts
<1>12. PanelsOK(p)
  BY <1>1 DEF ProcessOK
<1>13. CASE EnterDependencies(p)
  <2>1. cpc[p].j = 0 /\ UNCHANGED held
    BY <1>13 DEF EnterDependencies, AtItem
  <2>2. PanelsOK(p)'
    <3>1. \A k \in DOMAIN Symbols : ~(2 * k <= cpc'[p].j) /\ ~(2 * k < cpc'[p].j)
      BY <1>5, <1>11, <2>1
    <3>2. /\ WasReplaced(held'[p].reading, 1, replaced')
          /\ PanelsFit(held[p].panels, cpc[p].role, cpc[p].i)'
      BY <1>5, <1>8, <1>12, <2>1 DEF PanelsOK, PanelsFit
    <3> QED
      BY <3>1, <3>2 DEF PanelsOK
  <2> QED
    BY <1>1, <1>10, <2>1, <2>2
<1>14. CASE CheckPrices(p)
  <2>1. /\ cpc[p].j % 2 = 1 /\ bars[SymbolAt(cpc[p].j)] = Pinned /\ UNCHANGED held
    BY <1>14 DEF CheckPrices
  <2>2. PanelsOK(p)'
    <3>1. ASSUME NEW slot \in Slots, NEW k \in DOMAIN Symbols
          PROVE  /\ 2 * k <= cpc'[p].j => IsRestored(held'[p].panels[slot],
                                                     Loads(cpc'[p].role, cpc'[p].i, slot),
                                                     spent', Symbols[k])
                 /\ 2 * k < cpc'[p].j => Twice(held'[p].panels[slot], held'[p].reading,
                                               Loads(cpc'[p].role, cpc'[p].i, slot),
                                               replaced', Symbols[k])
      <4> DEFINE n == Loads(cpc[p].role, cpc[p].i, slot)
      <4>1. /\ 2 * k <= cpc[p].j => IsRestored(held[p].panels[slot], n, spent, Symbols[k])
            /\ 2 * k < cpc[p].j =>
                   Twice(held[p].panels[slot], held[p].reading, n, replaced, Symbols[k])
        BY <1>2, <1>12 DEF PanelsOK
      <4>2. n \in Nat /\ WasReplaced(held[p].panels[slot], n, replaced)
        BY <1>12, LoadsType DEF PanelsOK, PanelsFit
      <4>3. 2 * k = cpc[p].j + 1 => IsRestored(held[p].panels[slot], n, spent, Symbols[k])
        <5> SUFFICES ASSUME 2 * k = cpc[p].j + 1
                     PROVE  IsRestored(held[p].panels[slot], n, spent, Symbols[k])
          OBVIOUS
        <5> HIDE DEF n
        <5>1. (cpc[p].j + 1) \div 2 = k
          BY <1>11
        <5>2. bars[Symbols[k]] = Pinned
          BY <2>1, <5>1 DEF SymbolAt
        <5> QED
          BY <1>11, <4>2, <5>2, VerifiedIsRestored
      <4>4. /\ 2 * k <= cpc[p].j + 1 => 2 * k <= cpc[p].j \/ 2 * k = cpc[p].j + 1
            /\ 2 * k < cpc[p].j + 1 => 2 * k < cpc[p].j
        BY <1>1, <1>11, <2>1
      <4> QED
        BY <1>5, <1>8, <2>1, <4>1, <4>3, <4>4
    <3>2. /\ WasReplaced(held'[p].reading, 1, replaced')
          /\ PanelsFit(held[p].panels, cpc[p].role, cpc[p].i)'
      BY <1>5, <1>8, <1>12, <2>1 DEF PanelsOK, PanelsFit
    <3> QED
      BY <3>1, <3>2 DEF PanelsOK
  <2> QED
    BY <1>1, <1>10, <2>1, <2>2
<1>15. CASE ReadPrices(p)
  <2> DEFINE facts == [held[p] EXCEPT !.reading = Loaded(p)]
  <2>1. cpc[p].j % 2 = 0 /\ held' = [held EXCEPT ![p].reading = Loaded(p)]
    BY <1>15 DEF ReadPrices
  <2>2. /\ Loaded(p) \in Panel /\ WasReplaced(Loaded(p), 1, replaced)
        /\ \A slot \in Slots, k \in DOMAIN Symbols :
               2 * k <= cpc[p].j => Twice(held[p].panels[slot], Loaded(p),
                                          Loads(cpc[p].role, cpc[p].i, slot),
                                          replaced, Symbols[k])
    BY <1>2, <2>1, LoadedFacts
  <2>3. /\ facts \in Holding /\ facts.reading = Loaded(p) /\ facts.files = held[p].files
        /\ facts.revision = held[p].revision /\ facts.panels = held[p].panels
    BY <1>1, <2>2 DEF Holding
  <2>4. held' = [held EXCEPT ![p] = facts] /\ held'[p] = facts
    BY <1>1, <2>1
  <2> HIDE DEF facts
  <2>5. held'[p].reading = Loaded(p) /\ held'[p].panels = held[p].panels
    BY <2>3, <2>4
  <2>6. PanelsOK(p)'
    <3>1. ASSUME NEW slot \in Slots, NEW k \in DOMAIN Symbols
          PROVE  /\ 2 * k <= cpc'[p].j => IsRestored(held'[p].panels[slot],
                                                     Loads(cpc'[p].role, cpc'[p].i, slot),
                                                     spent', Symbols[k])
                 /\ 2 * k < cpc'[p].j => Twice(held'[p].panels[slot], held'[p].reading,
                                               Loads(cpc'[p].role, cpc'[p].i, slot),
                                               replaced', Symbols[k])
      <4> DEFINE n == Loads(cpc[p].role, cpc[p].i, slot)
      <4>1. 2 * k <= cpc[p].j => IsRestored(held[p].panels[slot], n, spent, Symbols[k])
        BY <1>2, <1>12 DEF PanelsOK
      <4>2. /\ 2 * k <= cpc[p].j + 1 => 2 * k <= cpc[p].j
            /\ 2 * k < cpc[p].j + 1 => 2 * k <= cpc[p].j
        BY <1>1, <1>11, <2>1
      <4> QED
        BY <1>5, <1>8, <2>2, <2>5, <4>1, <4>2
    <3>2. /\ WasReplaced(held'[p].reading, 1, replaced')
          /\ PanelsFit(held[p].panels, cpc[p].role, cpc[p].i)'
      BY <1>5, <1>8, <1>12, <2>2, <2>5 DEF PanelsOK, PanelsFit
    <3> QED
      BY <3>1, <3>2 DEF PanelsOK
  <2> QED
    BY <1>10, <2>3, <2>4, <2>6
<1> QED
  BY <1>13, <1>14, <1>15

\* The end of a load: a panel that equals the kept one counts one load more.
LEMMA PanelKeeps ==
    ASSUME NEW p \in CampaignProcesses, CampaignInv, RepoType, RepoMove, UNCHANGED repoVars,
           ClosePanel(p)
    PROVE  CampaignInv'
<1>1. /\ ProcessOK(p) /\ SpotOK(p) /\ held[p] \in Holding /\ sealed \in SealedType
      /\ cpc[p] \in Spots /\ cpc[p].j \in Nat /\ held[p].panels \in [Slots -> Panel]
      /\ cpc \in [CampaignProcesses -> Spots] /\ held \in [CampaignProcesses -> Holding]
  BY CampaignTypes
<1> DEFINE slot == Current(p).slot
           panels == [held[p].panels EXCEPT ![slot] = Loaded(p)]
           facts == [held[p] EXCEPT !.panels = panels, !.reading = PinnedBars]
<1>2. /\ Doing(p, "deps") /\ cpc[p].j = 2 * Len(Symbols)
      /\ Current(p).mode = "same" => Loaded(p) = held[p].panels[slot]
      /\ held' = [held EXCEPT ![p].panels[slot] = Loaded(p), ![p].reading = PinnedBars]
      /\ Advance(p) /\ UNCHANGED sealed
  BY DEF ClosePanel
<1>3. Running(p)
  BY <1>1, <1>2, OperationOf
<1>4. /\ cpc[p].role = "method" => FALSE
      /\ cpc[p].role = "schema" =>
             /\ cpc[p].i \in {2, 3, 4, 5, 11}
             /\ cpc[p].i \in {4, 5} => Current(p).mode = "same"
             /\ cpc[p].i \in {2, 4} => slot = "manifest"
             /\ cpc[p].i \in {3, 5} => slot = "contract"
             /\ cpc[p].i = 11 => slot = "written"
  BY <1>1, <1>2, OperationOf
<1>5. slot \in Slots
  <2>1. CASE cpc[p].role = "schema"
    BY <1>4, <2>1 DEF Slots
  <2>2. CASE cpc[p].role = "load"
    BY <1>1, <1>2, <2>2, OperationOf
  <2> QED
    BY <1>3, <1>4, <2>1, <2>2 DEF Running
<1>6. cpc[p].j % 2 = 0 /\ Len(Symbols) \in Nat /\ DOMAIN Symbols = 1..Len(Symbols)
  BY <1>2, SymbolsFacts
<1>7. /\ Loaded(p) \in Panel /\ WasReplaced(Loaded(p), 1, replaced)
      /\ \A sl \in Slots, k \in DOMAIN Symbols :
             2 * k <= cpc[p].j => Twice(held[p].panels[sl], Loaded(p),
                                        Loads(cpc[p].role, cpc[p].i, sl), replaced, Symbols[k])
  BY <1>2, <1>6, LoadedFacts
<1>8. ASSUME NEW sl \in Slots, NEW s \in SymbolSet
      PROVE  Twice(held[p].panels[sl], Loaded(p), Loads(cpc[p].role, cpc[p].i, sl), replaced, s)
  <2>1. PICK k \in DOMAIN Symbols : Symbols[k] = s
    BY SymbolsFacts
  <2>2. 2 * k <= cpc[p].j
    BY <1>2, <1>6
  <2> QED
    BY <1>7, <2>1, <2>2
<1>9. /\ panels \in [Slots -> Panel] /\ panels[slot] = Loaded(p)
      /\ \A sl \in Slots \ {slot} : panels[sl] = held[p].panels[sl]
  BY <1>1, <1>5, <1>7
<1>10. /\ facts \in Holding /\ facts.panels = panels /\ facts.reading = PinnedBars
       /\ facts.revision = held[p].revision /\ facts.files = held[p].files
  BY <1>1, <1>9, PinnedBarsType DEF Holding
<1>11. held' = [held EXCEPT ![p] = facts] /\ held'[p] = facts
  BY <1>1, <1>2
<1> HIDE DEF panels, facts
<1>12. WasReplaced(facts.reading, 1, replaced)
  BY <1>10, NothingHeldType
<1>13. SealedGrows /\ SealedOK' /\ sealed' = sealed
  <2>1. SealedGrows /\ sealed'.records \subseteq MethodRecords
    BY <1>1, <1>2 DEF SealedGrows, SealedType
  <2> QED
    BY <1>2, <2>1, SealedKept
<1>14. cpc[p].role = "schema" =>
           \A k \in DOMAIN SchemaFiles :
               facts.files[SchemaFiles[k]] = history[facts.revision][SchemaFiles[k]]
  BY <1>1, <1>4, <1>10 DEF ProcessOK, FilesOK, SameFile
<1>15. PanelsFit(facts.panels, cpc[p].role, cpc[p].i + 1)
  <2> SUFFICES ASSUME NEW sl \in Slots
               PROVE  WasReplaced(panels[sl], Loads(cpc[p].role, cpc[p].i + 1, sl), replaced)
    BY <1>10 DEF PanelsFit
  <2>1. cpc[p].i \in Nat /\ WasReplaced(held[p].panels[sl], Loads(cpc[p].role, cpc[p].i, sl), replaced)
    BY <1>1, CampaignTypes DEF ProcessOK, PanelsOK, PanelsFit
  <2>2. CASE sl # slot
    <3>1. Loads(cpc[p].role, cpc[p].i + 1, sl) = Loads(cpc[p].role, cpc[p].i, sl)
      <4> HIDE DEF slot
      <4>1. CASE cpc[p].role # "schema"
        BY <4>1 DEF Loads
      <4>2. CASE cpc[p].role = "schema"
        <5>1. /\ cpc[p].i \in {2, 3, 4, 5, 11}
              /\ cpc[p].i = 4 => sl # "manifest"
              /\ cpc[p].i = 5 => sl # "contract"
          BY <1>4, <2>2, <4>2
        <5>2. /\ cpc[p].i + 1 > 4 <=> cpc[p].i > 4 \/ cpc[p].i = 4
              /\ cpc[p].i + 1 > 5 <=> cpc[p].i > 5 \/ cpc[p].i = 5
          BY <5>1
        <5> QED
          BY <5>1, <5>2 DEF Loads
      <4> QED
        BY <4>1, <4>2
    <3> QED
      BY <1>9, <2>1, <2>2, <3>1
  <2>3. CASE sl = slot /\ Loads(cpc[p].role, cpc[p].i + 1, sl) = 1
    BY <1>7, <1>9, <2>3
  <2>4. CASE sl = slot /\ Loads(cpc[p].role, cpc[p].i + 1, sl) # 1
    <3>1. /\ cpc[p].role = "schema" /\ cpc[p].i \in {4, 5}
          /\ Loads(cpc[p].role, cpc[p].i + 1, sl) = 2 /\ Loads(cpc[p].role, cpc[p].i, sl) = 1
      BY <1>4, <2>1, <2>4 DEF Loads
    <3>2. panels[sl] = Loaded(p) /\ Loaded(p) = held[p].panels[sl]
      BY <1>2, <1>4, <1>9, <2>4, <3>1
    <3>3. \A s \in SymbolSet : Twice(held[p].panels[sl], Loaded(p), 1, replaced, s)
      BY <1>8, <3>1
    <3> QED
      BY <3>1, <3>2, <3>3 DEF Twice, WasReplaced
  <2> QED
    BY <2>2, <2>3, <2>4
<1>16. cpc[p].role = "schema" /\ cpc[p].i > 10 => Thrice(facts.panels)
  <2> SUFFICES ASSUME cpc[p].role = "schema", cpc[p].i > 10 PROVE Thrice(panels)
    BY <1>10
  <2>1. cpc[p].i = 11 /\ slot = "written" /\ Loads(cpc[p].role, cpc[p].i, "contract") = 2
    BY <1>4 DEF Loads
  <2>2. panels["contract"] = held[p].panels["contract"] /\ panels["written"] = Loaded(p)
    BY <1>9, <2>1 DEF Slots
  <2>3. "contract" \in Slots
    BY DEF Slots
  <2> QED
    BY <1>8, <2>1, <2>2, <2>3 DEF Thrice
<1>17. /\ ~(cpc[p].role = "method" /\ cpc[p].i > 2) /\ ~(cpc[p].role = "method" /\ cpc[p].i > 4)
       /\ ~(cpc[p].role = "method" /\ cpc[p].i > 5) /\ ~(cpc[p].role = "schema" /\ cpc[p].i > 11)
  BY <1>4
<1>18. ProcessOK(p)'
  BY <1>2, <1>3, <1>10, <1>11, <1>12, <1>14, <1>15, <1>16, <1>17, NextOperationOK
<1>19. PICK spot \in Spots : cpc' = [cpc EXCEPT ![p] = spot]
  BY <1>2, <1>3, AdvanceTo
<1> QED
  BY <1>1, <1>10, <1>11, <1>13, <1>18, <1>19, CampaignMoves

\* A publication: the process moves on and knows what it knew.
LEMMA PublicationKeeps ==
    ASSUME NEW p \in CampaignProcesses, CampaignInv, RepoType, RepoMove, UNCHANGED repoVars,
           UNCHANGED held, Running(p), Advance(p),
           cpc[p].role = "method" => cpc[p].i \in {5, 6, 7},
           cpc[p].role = "schema" => cpc[p].i \in {12, 13},
           NEW now \in SealedType, sealed' = now, SealedGrows, SealedOK',
           cpc[p].role = "method" /\ cpc[p].i = 5 => "baseline" \in sealed'.records,
           cpc[p].role = "method" /\ cpc[p].i = 6 => "regime" \in sealed'.records,
           cpc[p].role = "schema" /\ cpc[p].i = 12 => held[p].panels["written"] \in sealed'.contracts
    PROVE  CampaignInv'
<1>1. /\ ProcessOK(p) /\ held[p] \in Holding /\ held = [held EXCEPT ![p] = held[p]]
      /\ held' = held
  BY CampaignTypes
<1>2. PICK spot \in Spots : cpc' = [cpc EXCEPT ![p] = spot]
  BY AdvanceTo
<1>3. /\ WasReplaced(held[p].reading, 1, replaced)
      /\ PanelsFit(held[p].panels, cpc[p].role, cpc[p].i)
  BY <1>1 DEF ProcessOK, PanelsOK
<1>4. /\ cpc[p].role = "method" /\ cpc[p].i > 2 =>
             \A k \in DOMAIN MethodFiles :
                 held[p].files[MethodFiles[k]] = history[held[p].revision][MethodFiles[k]]
      /\ cpc[p].role = "schema" =>
             \A k \in DOMAIN SchemaFiles :
                 held[p].files[SchemaFiles[k]] = history[held[p].revision][SchemaFiles[k]]
  BY <1>1 DEF ProcessOK, FilesOK, SameFile
<1>5. /\ PanelsFit(held[p].panels, cpc[p].role, cpc[p].i + 1)
      /\ cpc[p].role = "schema" /\ cpc[p].i > 10 => Thrice(held[p].panels)
  <2>1. cpc[p].i \in Nat /\ ~(cpc[p].role = "schema" /\ cpc[p].i \in {4, 5})
    BY CampaignTypes
  <2> QED
    BY <1>1, <1>3, <2>1, FitGoesOn DEF ProcessOK, ComparedOK
<1>6. /\ cpc[p].role = "method" /\ cpc[p].i > 4 => "baseline" \in sealed'.records
      /\ cpc[p].role = "method" /\ cpc[p].i > 5 => "regime" \in sealed'.records
      /\ cpc[p].role = "schema" /\ cpc[p].i > 11 => held[p].panels["written"] \in sealed'.contracts
  BY <1>1 DEF ProcessOK, PublishedOK, SealedGrows
<1>7. ProcessOK(p)'
  BY <1>1, <1>3, <1>4, <1>5, <1>6, NextOperationOK
<1> QED
  BY <1>1, <1>2, <1>7, CampaignMoves

LEMMA PublishKeeps ==
    ASSUME NEW p \in CampaignProcesses, CampaignInv, RepoType, RepoMove, UNCHANGED repoVars,
           PublishRecord(p) \/ PublishContract(p)
    PROVE  CampaignInv'
<1>1. /\ ProcessOK(p) /\ SpotOK(p) /\ sealed \in SealedType /\ held[p].panels \in [Slots -> Panel]
  BY CampaignTypes
<1>2. Advance(p) /\ UNCHANGED held
  BY DEF PublishRecord, PublishContract
<1>3. CASE PublishRecord(p)
  <2> DEFINE now == [sealed EXCEPT !.records = @ \cup {Current(p).op}]
  <2>1. sealed' = now /\ (Doing(p, "baseline") \/ Doing(p, "regime"))
    BY <1>3 DEF PublishRecord, MethodRecords
  <2>2. Current(p).op \in MethodRecords
    BY <2>1 DEF Doing, MethodRecords
  <2>3. /\ now \in SealedType /\ now.records = sealed.records \cup {Current(p).op}
        /\ now.methods = sealed.methods /\ now.schemas = sealed.schemas
        /\ now.contracts = sealed.contracts
    BY <1>1, <2>2 DEF SealedType
  <2> HIDE DEF now
  <2>4. SealedGrows /\ SealedOK'
    <3>1. SealedGrows /\ sealed'.records \subseteq MethodRecords
      BY <2>1, <2>3 DEF SealedGrows, SealedType
    <3> QED
      BY <2>1, <2>3, <3>1, SealedKept
  <2>5. Running(p) /\ cpc[p].role \notin {"schema", "load"}
    BY <1>1, <2>1, OperationOf
  <2>6. /\ cpc[p].role = "method" => cpc[p].i \in {5, 6, 7}
        /\ cpc[p].role = "method" /\ cpc[p].i = 5 => "baseline" \in sealed'.records
        /\ cpc[p].role = "method" /\ cpc[p].i = 6 => "regime" \in sealed'.records
    <3>1. cpc[p].role = "method" => /\ Doing(p, "baseline") <=> cpc[p].i = 5
                                    /\ Doing(p, "regime") <=> cpc[p].i = 6
      BY <1>1, OperationOf
    <3> QED
      BY <2>1, <2>3, <3>1 DEF Doing
  <2> QED
    BY <1>2, <2>1, <2>3, <2>4, <2>5, <2>6, PublicationKeeps
<1>4. CASE PublishContract(p)
  <2> DEFINE now == [sealed EXCEPT !.contracts = @ \cup {held[p].panels["written"]}]
  <2>1. sealed' = now /\ Doing(p, "contract")
    BY <1>4 DEF PublishContract
  <2>2. held[p].panels["written"] \in Panel
    BY <1>1 DEF Slots
  <2>3. /\ now \in SealedType /\ now.contracts = sealed.contracts \cup {held[p].panels["written"]}
        /\ now.methods = sealed.methods /\ now.schemas = sealed.schemas
        /\ now.records = sealed.records
    BY <1>1, <2>2 DEF SealedType
  <2> HIDE DEF now
  <2>4. SealedGrows /\ SealedOK'
    <3>1. SealedGrows /\ sealed'.records \subseteq MethodRecords
      BY <2>1, <2>3 DEF SealedGrows, SealedType
    <3> QED
      BY <2>1, <2>3, <3>1, SealedKept
  <2>5. /\ Running(p) /\ cpc[p].role \notin {"method", "load"}
        /\ cpc[p].role = "schema" => cpc[p].i \in {12, 13}
    BY <1>1, <2>1, OperationOf
  <2>6. held[p].panels["written"] \in sealed'.contracts
    BY <2>1, <2>3
  <2> QED
    BY <1>2, <2>1, <2>3, <2>4, <2>5, <2>6, PublicationKeeps
<1> QED
  BY <1>3, <1>4

\* A manifest: its sources are of its revision and its records are there, and
\* the panels of a result schema have been compared.
LEMMA ManifestKeeps ==
    ASSUME NEW p \in CampaignProcesses, CampaignInv, RepoType, RepoMove, UNCHANGED repoVars,
           SealManifest(p)
    PROVE  CampaignInv'
<1>1. /\ ProcessOK(p) /\ SpotOK(p) /\ sealed \in SealedType /\ held[p].panels \in [Slots -> Panel]
      /\ held[p].revision \in Nat /\ held[p].files \in BundleBytes
  BY CampaignTypes
<1>2. Doing(p, "manifest") /\ Advance(p) /\ UNCHANGED held
  BY DEF SealManifest
<1>3. /\ Running(p) /\ cpc[p].role # "load"
      /\ cpc[p].role = "method" => cpc[p].i = 7
      /\ cpc[p].role = "schema" => cpc[p].i = 13
  BY <1>1, <1>2, OperationOf
<1>4. held[p].revision \in DOMAIN history /\ UNCHANGED history /\ UNCHANGED replaced
  BY <1>1, <1>3 DEF SpotOK, repoVars
<1>5. ASSUME NEW now \in SealedType, sealed' = now, SealedGrows, SealedOK' PROVE CampaignInv'
  <2>1. /\ cpc[p].role = "method" => cpc[p].i \in {5, 6, 7}
        /\ cpc[p].role = "schema" => cpc[p].i \in {12, 13}
        /\ ~(cpc[p].role = "method" /\ cpc[p].i = 5) /\ ~(cpc[p].role = "method" /\ cpc[p].i = 6)
        /\ ~(cpc[p].role = "schema" /\ cpc[p].i = 12)
    BY <1>3
  <2> QED
    BY <1>2, <1>3, <1>5, <2>1, PublicationKeeps
<1>6. CASE cpc[p].role = "method"
  <2> DEFINE now == [sealed EXCEPT !.methods = @ \cup {MethodManifest(p)}]
  <2>1. sealed' = now
    BY <1>6 DEF SealManifest
  <2>2. MethodManifest(p) \in MethodRecord
    BY <1>1 DEF MethodManifest, MethodRecord
  <2>3. /\ now \in SealedType /\ now.methods = sealed.methods \cup {MethodManifest(p)}
        /\ now.schemas = sealed.schemas /\ now.records = sealed.records
        /\ now.contracts = sealed.contracts
    BY <1>1, <2>2 DEF SealedType
  <2> HIDE DEF now
  <2>4. SealedGrows
    BY <2>1, <2>3 DEF SealedGrows
  <2>5. SealedOK'
    <3>1. MethodManifest(p).revision \in DOMAIN history
      BY <1>4 DEF MethodManifest
    <3>2. \A i \in DOMAIN MethodFiles :
              MethodManifest(p).files[MethodFiles[i]]
                  = history[MethodManifest(p).revision][MethodFiles[i]]
      BY <1>1, <1>3, <1>6 DEF ProcessOK, FilesOK, SameFile, MethodManifest
    <3>3. sealed.records = MethodRecords
      BY <1>1, <1>3, <1>6 DEF ProcessOK, PublishedOK, SealedType, MethodRecords
    <3>4. SealedRevisions'
      BY <1>4, <2>1, <2>3, <3>1 DEF CampaignInv, SealedRevisions
    <3>5. CampaignIsOneRevision'
      BY <1>4, <2>1, <2>3, <3>2 DEF CampaignInv, CampaignIsOneRevision
    <3>6. SchemaIsGuarded' /\ CampaignIsClosed'
      BY <1>4, <2>1, <2>3, <3>3 DEF CampaignInv, SchemaIsGuarded, Took, CampaignIsClosed
    <3> QED
      BY <3>4, <3>5, <3>6 DEF SealedOK
  <2> QED
    BY <1>5, <2>1, <2>3, <2>4, <2>5
<1>7. CASE cpc[p].role = "schema"
  <2> DEFINE now == [sealed EXCEPT !.schemas = @ \cup {SchemaManifest(p)}]
  <2>1. sealed' = now
    BY <1>7 DEF SealManifest
  <2>2. SchemaManifest(p) \in SchemaRecord
    BY <1>1 DEF SchemaManifest, SchemaRecord, SchemaContract, Slots
  <2>3. /\ now \in SealedType /\ now.schemas = sealed.schemas \cup {SchemaManifest(p)}
        /\ now.methods = sealed.methods /\ now.records = sealed.records
        /\ now.contracts = sealed.contracts
    BY <1>1, <2>2 DEF SealedType
  <2> HIDE DEF now
  <2>4. SealedGrows
    BY <2>1, <2>3 DEF SealedGrows
  <2>5. SealedOK'
    <3>1. SchemaManifest(p).revision \in DOMAIN history
      BY <1>4 DEF SchemaManifest
    <3>2. \A i \in DOMAIN SchemaFiles :
              SchemaManifest(p).files[SchemaFiles[i]]
                  = history[SchemaManifest(p).revision][SchemaFiles[i]]
      BY <1>1, <1>3, <1>7 DEF ProcessOK, FilesOK, SameFile, SchemaManifest
    <3>3. held[p].panels["written"] = held[p].panels["contract"]
      BY <1>7 DEF SealManifest, ContractIsDeclared, SchemaContract
    <3>4. Took(SchemaManifest(p).panel, 2) /\ Took(SchemaManifest(p).contract, 3)
      <4>1. WasReplaced(held[p].panels["manifest"], 2, replaced)
        BY <1>1, <1>3, <1>7 DEF ProcessOK, PanelsOK, PanelsFit, Loads, Slots
      <4>2. \A s \in SymbolSet : Twice(held[p].panels["contract"], held[p].panels["contract"],
                                       2, replaced, s)
        BY <1>1, <1>3, <1>7, <3>3 DEF ProcessOK, ComparedOK, Thrice
      <4> QED
        BY <4>1, <4>2 DEF Twice, WasReplaced, Took, SchemaManifest, SchemaContract
    <3>5. SchemaManifest(p).contract \in sealed.contracts
      BY <1>1, <1>3, <1>7, <3>3 DEF ProcessOK, PublishedOK, SchemaManifest, SchemaContract
    <3>6. SealedRevisions'
      BY <1>4, <2>1, <2>3, <3>1 DEF CampaignInv, SealedRevisions
    <3>7. CampaignIsOneRevision'
      BY <1>4, <2>1, <2>3, <3>2 DEF CampaignInv, CampaignIsOneRevision
    <3>8. SchemaIsGuarded' /\ CampaignIsClosed'
      BY <1>4, <2>1, <2>3, <3>4, <3>5 DEF CampaignInv, SchemaIsGuarded, Took, CampaignIsClosed
    <3> QED
      BY <3>6, <3>7, <3>8 DEF SealedOK
  <2> QED
    BY <1>5, <2>1, <2>3, <2>4, <2>5
<1> QED
  BY <1>3, <1>6, <1>7 DEF Running

\* A process begins: its panels are the pinned ones, or those of a manifest, which
\* were loaded more than once.
LEMMA BeginKeeps ==
    ASSUME NEW p \in CampaignProcesses, CampaignInv, RepoType, RepoMove, UNCHANGED repoVars,
           BeginSchemer(p) \/ BeginCampaigner(p)
    PROVE  CampaignInv'
<1>1. /\ ProcessOK(p) /\ held[p] \in Holding /\ sealed \in SealedType
      /\ cpc \in [CampaignProcesses -> Spots] /\ held \in [CampaignProcesses -> Holding]
      /\ held[p].panels \in [Slots -> Panel] /\ history \in Seq(BundleBytes)
  BY CampaignTypes DEF RepoType
<1>2. replaced' = replaced /\ history' = history /\ UNCHANGED sealed
  <2>1. replaced' = replaced /\ history' = history
    BY DEF repoVars
  <2>2. CASE BeginSchemer(p)
    BY <2>1, <2>2 DEF BeginSchemer
  <2>3. CASE BeginCampaigner(p)
    BY <2>1, <2>3 DEF BeginCampaigner
  <2> QED
    BY <2>2, <2>3
<1>3. SealedGrows /\ SealedOK' /\ sealed' = sealed
  <2>1. SealedGrows /\ sealed'.records \subseteq MethodRecords
    BY <1>1, <1>2 DEF SealedGrows, SealedType
  <2> QED
    BY <1>2, <2>1, SealedKept
<1>4. /\ WasReplaced(held[p].reading, 1, replaced)
      /\ \A slot \in Slots : WasReplaced(held[p].panels[slot], 1, replaced)
  BY <1>1, FitWeakens DEF ProcessOK, PanelsOK
<1>5. ASSUME NEW role \in {"method", "schema", "load"}, cpc' = [cpc EXCEPT ![p] = Spot(role, 1, 0)],
             NEW facts \in Holding, held' = [held EXCEPT ![p] = facts],
             facts.revision \in DOMAIN history, WasReplaced(facts.reading, 1, replaced),
             \A slot \in Slots : WasReplaced(facts.panels[slot], 1, replaced)
      PROVE  CampaignInv'
  <2>1. /\ Spot(role, 1, 0) \in Spots /\ cpc'[p] = Spot(role, 1, 0) /\ held'[p] = facts
        /\ cpc'[p].role = role /\ cpc'[p].i = 1 /\ cpc'[p].j = 0
    BY <1>1, <1>5 DEF Spot, Spots
  <2>2. SpotOK(p)'
    <3>1. 1 \in DOMAIN Program(role)
      BY MethodSteps, SchemaSteps, LoadSteps DEF Program
    <3>2. FilesOf(p)' \in {MethodFiles, SchemaFiles}
      BY DEF FilesOf
    <3>3. Len(MethodFiles) > 0 /\ Len(SchemaFiles) > 0
      BY FilesAssumption
    <3> QED
      BY <1>2, <1>5, <2>1, <3>1, <3>2, <3>3 DEF SpotOK
  <2>3. FilesOK(p)' /\ ComparedOK(p)' /\ PublishedOK(p)'
    BY <2>1 DEF FilesOK, ComparedOK, PublishedOK
  <2>4. PanelsOK(p)'
    <3>1. \A k \in DOMAIN Symbols : ~(2 * k <= 0) /\ ~(2 * k < 0)
      BY SymbolsFacts
    <3>2. \A k \in DOMAIN Symbols : ~(2 * k <= cpc'[p].j) /\ ~(2 * k < cpc'[p].j)
      BY <2>1, <3>1
    <3>3. /\ WasReplaced(held'[p].reading, 1, replaced')
          /\ PanelsFit(held[p].panels, cpc[p].role, cpc[p].i)'
      BY <1>2, <1>5, <2>1 DEF PanelsFit, Loads
    <3> QED
      BY <3>2, <3>3 DEF PanelsOK
  <2>5. ProcessOK(p)'
    BY <2>2, <2>3, <2>4 DEF ProcessOK
  <2> QED
    BY <1>1, <1>3, <1>5, <2>1, <2>5, CampaignMoves
<1>6. CASE BeginSchemer(p)
  <2>1. PICK role \in {"method", "schema"}, rev \in DOMAIN history :
            /\ cpc' = [cpc EXCEPT ![p] = Spot(role, 1, 0)]
            /\ held' = [held EXCEPT ![p].revision = rev]
    BY <1>6 DEF BeginSchemer
  <2> DEFINE facts == [held[p] EXCEPT !.revision = rev]
  <2>2. rev \in Nat
    BY <1>1, <2>1
  <2>3. /\ facts \in Holding /\ facts.revision = rev /\ facts.reading = held[p].reading
        /\ facts.panels = held[p].panels
    BY <1>1, <2>2 DEF Holding
  <2>4. held' = [held EXCEPT ![p] = facts]
    BY <1>1, <2>1
  <2> HIDE DEF facts
  <2> QED
    BY <1>4, <1>5, <2>1, <2>3, <2>4
<1>7. CASE BeginCampaigner(p)
  <2>1. PICK m \in sealed.schemas : /\ cpc' = [cpc EXCEPT ![p] = Spot("load", 1, 0)]
                                    /\ held' = [held EXCEPT ![p] = Named(m)]
    BY <1>7 DEF BeginCampaigner
  <2>2. /\ m.revision \in DOMAIN history /\ m.revision \in Nat /\ m.files \in BundleBytes
        /\ m.panel \in Panel /\ m.contract \in Panel
        /\ WasReplaced(m.panel, 1, replaced) /\ WasReplaced(m.contract, 1, replaced)
    <3>1. m \in SchemaRecord
      BY <1>1 DEF SealedType
    <3>2. \A s \in SymbolSet : replaced[s] \in Nat
      BY DEF RepoType
    <3>3. Took(m.panel, 2) /\ Took(m.contract, 3)
      BY <2>1 DEF CampaignInv, SchemaIsGuarded
    <3>4. WasReplaced(m.panel, 1, replaced) /\ WasReplaced(m.contract, 1, replaced)
      BY <3>2, <3>3 DEF Took, WasReplaced
    <3> QED
      BY <2>1, <3>1, <3>4 DEF SchemaRecord, CampaignInv, SealedRevisions
  <2> DEFINE panels == [NothingHeld.panels EXCEPT !["manifest"] = m.panel,
                                                  !["contract"] = m.contract]
  <2>3. /\ panels \in [Slots -> Panel]
        /\ \A slot \in Slots : panels[slot] \in {m.panel, m.contract, NothingHeld.panels[slot]}
    BY <2>2, NothingHeldType DEF Slots, Holding
  <2>4. /\ Named(m) \in Holding /\ Named(m).revision = m.revision
        /\ Named(m).reading = PinnedBars /\ Named(m).panels = panels
    BY <2>2, <2>3, NothingHeldType DEF Named, Holding, NothingHeld
  <2> HIDE DEF panels
  <2>5. \A slot \in Slots : WasReplaced(Named(m).panels[slot], 1, replaced)
    BY <2>2, <2>3, <2>4, NothingHeldType
  <2> QED
    BY <1>5, <2>1, <2>2, <2>4, <2>5, NothingHeldType
<1> QED
  BY <1>6, <1>7

LEMMA EndKeeps ==
    ASSUME NEW p \in CampaignProcesses, CampaignInv, RepoType, RepoMove, UNCHANGED repoVars,
           FailCampaignStep(p) \/ RestartCampaignStep(p)
    PROVE  CampaignInv'
<1>1. /\ ProcessOK(p) /\ held[p] \in Holding /\ sealed \in SealedType
      /\ cpc \in [CampaignProcesses -> Spots] /\ held \in [CampaignProcesses -> Holding]
      /\ held = [held EXCEPT ![p] = held[p]]
  BY CampaignTypes
<1>2. replaced' = replaced /\ UNCHANGED sealed
  BY DEF repoVars, FailCampaignStep, RestartCampaignStep
<1>3. SealedGrows /\ SealedOK' /\ sealed' = sealed
  <2>1. SealedGrows /\ sealed'.records \subseteq MethodRecords
    BY <1>1, <1>2 DEF SealedGrows, SealedType
  <2> QED
    BY <1>2, <2>1, SealedKept
<1>4. PICK spot \in {Spot("failed", 0, 0), CampaignStart}, facts \in {NothingHeld, held[p]} :
          cpc' = [cpc EXCEPT ![p] = spot] /\ held' = [held EXCEPT ![p] = facts]
  BY <1>1 DEF FailCampaignStep, RestartCampaignStep
<1>5. /\ spot \in Spots /\ spot.role \notin {"method", "schema", "load"} /\ facts \in Holding
      /\ cpc'[p] = spot /\ held'[p] = facts
  BY <1>1, <1>4, NothingHeldType DEF Spot, Spots, CampaignStart
<1>6. /\ WasReplaced(facts.reading, 1, replaced)
      /\ \A slot \in Slots : WasReplaced(facts.panels[slot], 1, replaced)
  BY <1>1, <1>4, NothingHeldType, FitWeakens DEF ProcessOK, PanelsOK
<1>7. ProcessOK(p)'
  <2>1. Running(p)' = FALSE
    BY <1>5 DEF Running
  <2>2. ~Doing(p, "files")' /\ ~Doing(p, "deps")'
    BY <1>5 DEF Doing, Current, Program, Op
  <2>3. PanelsOK(p)'
    <3>1. PanelsFit(held[p].panels, cpc[p].role, cpc[p].i)'
      BY <1>2, <1>5, <1>6, LoadsType DEF PanelsFit
    <3> QED
      BY <1>2, <1>5, <1>6, <2>2, <3>1 DEF PanelsOK
  <2> QED
    BY <1>5, <2>1, <2>2, <2>3 DEF ProcessOK, SpotOK, FilesOK, ComparedOK, PublishedOK
<1> QED
  BY <1>1, <1>3, <1>4, <1>5, <1>7, CampaignMoves

LEMMA CampaignStepKeeps ==
    ASSUME NEW p \in CampaignProcesses, CampaignInv, RepoType, RepoMove, UNCHANGED repoVars,
           CampaignStep(p)
    PROVE  CampaignInv'
<1>1. CASE BeginSchemer(p) \/ BeginCampaigner(p)
  BY <1>1, BeginKeeps
<1>2. CASE \/ ValidateRevision(p) \/ VerifyFrozenStrategies(p) \/ VerifyImported(p)
           \/ PreflightGate3(p) \/ PreflightMethod(p)
  <2>1. cpc[p].j + 1 \in Nat
    BY CampaignTypes
  <2>2. /\ Advance(p) \/ \E j \in Nat : StayAt(p, j)
        /\ UNCHANGED <<held, sealed>>
    BY <1>2, <2>1
       DEF ValidateRevision, VerifyFrozenStrategies, VerifyImported, PreflightGate3,
           PreflightMethod
  <2>3. \E name \in {"revision", "frozen", "imported", "gate3", "method"} : Doing(p, name)
    BY <1>2
       DEF ValidateRevision, VerifyFrozenStrategies, VerifyImported, PreflightGate3,
           PreflightMethod
  <2> QED
    BY <2>2, <2>3, CheckKeeps
<1>3. CASE IdentifyFile(p)
  BY <1>3, IdentifyKeeps
<1>4. CASE EnterDependencies(p) \/ CheckPrices(p) \/ ReadPrices(p)
  BY <1>4, PricesKeep
<1>5. CASE ClosePanel(p)
  BY <1>5, PanelKeeps
<1>6. CASE PublishRecord(p) \/ PublishContract(p)
  BY <1>6, PublishKeeps
<1>7. CASE SealManifest(p)
  BY <1>7, ManifestKeeps
<1>8. CASE FailCampaignStep(p) \/ RestartCampaignStep(p)
  BY <1>8, EndKeeps
<1> QED
  BY <1>1, <1>2, <1>3, <1>4, <1>5, <1>6, <1>7, <1>8 DEF CampaignStep

LEMMA CampaignInvKept == RepoType /\ CampaignInv /\ [Next]_vars => CampaignInv'
<1> SUFFICES ASSUME RepoType, CampaignInv, [Next]_vars PROVE CampaignInv'
  OBVIOUS
<1>1. RepoMove
  BY RepoMoves
<1>2. CASE CampaignNext
  BY <1>1, <1>2, CampaignStepKeeps DEF CampaignNext
<1>3. CASE UNCHANGED campaignVars
  <2>1. CampaignType' /\ SealedGrows /\ sealed'.records \subseteq MethodRecords
    BY <1>3 DEF CampaignInv, CampaignType, campaignVars, SealedGrows
  <2>2. SealedOK'
    BY <1>1, <1>3, <2>1, SealedKept DEF campaignVars
  <2>3. ASSUME NEW p \in CampaignProcesses PROVE ProcessOK(p)'
    BY <1>1, <1>3, <2>1, ProcessKept DEF CampaignInv, campaignVars
  <2> QED
    BY <2>1, <2>2, <2>3 DEF CampaignInv, SealedOK
<1> QED
  BY <1>2, <1>3 DEF Next, AuditNext, SealNext, GateNext, RepoNext, vars

-----------------------------------------------------------------------------
(* The theorems. *)

Inv == RepoType /\ AuditInv /\ SealInv /\ GateInv /\ CampaignInv

\* The states of the checkout and of every process have their types, and each
\* process knows what it has established so far (AuditOK, SealerOK, LoaderOK,
\* ProcessOK): the inductive invariant of the gates together, for any numbers
\* of processes, files, symbols, revisions and records.
THEOREM ChainInv == Spec => []Inv
<1>1. Init => Inv
  BY RepoInit_, AuditInit_, SealInit_, GateInit_, CampaignInit_ DEF Init, Inv
<1>2. Inv /\ [Next]_vars => Inv'
  BY RepoMoves, AuditInvKept, SealInvKept, GateInvKept, CampaignInvKept DEF Inv
<1> QED
  BY <1>1, <1>2, PTL DEF Spec

\* Property ReadyIsAudited of ReadinessRun: the trial authority of a published
\* readiness manifest is that of the trees whose digests it records, although
\* run_phase4_readiness reads them at different moments; and its trees hold
\* other bars than the pinned ones only when these were replaced twice.
THEOREM AuditedReady == Spec => []ReadyIsAudited
<1>1. Inv => ReadyIsAudited
  BY DEF Inv, AuditInv
<1> QED
  BY <1>1, ChainInv, PTL

\* Property SealsAreOneRevision: the sources that an engine manifest, an
\* execution methodology or a result schema binds are those of the one revision
\* it names (source_bundle_identity), whatever was edited and committed while
\* they were read one after the other.
THEOREM OneRevision == Spec => []SealsAreOneRevision
<1>1. Inv => SealsAreOneRevision
  BY DEF Inv, SealInv, CampaignInv, SealsAreOneRevision
<1> QED
  BY <1>1, ChainInv, PTL

\* Property ReliedOnIsGuarded: every digest is checked on one reading and the
\* prices are taken from another one, so that each load may slip.  What a reader
\* of a Gate 3 authority accepts was computed from the pinned bars unless those
\* of a symbol were replaced twice, under the sealer's load and again under the
\* reader's (load_and_verify_gate3_authority); for the panel of a published
\* result schema it takes two replacements as well, for that of its contract
\* three (validate_declared_manifest, seal_result_schema).
THEOREM GuardedEvidence == Spec => []ReliedOnIsGuarded
<1>1. Inv => ReliedOnIsGuarded
  BY AcceptedFollows DEF Inv, CampaignInv, ReliedOnIsGuarded
<1> QED
  BY <1>1, ChainInv, PTL

\* Property ChainIsClosed: no manifest of any gate is visible before everything
\* that it names, whichever process failed or died between two writes, and
\* success is never reported without it.
THEOREM ClosedChain == Spec => []ChainIsClosed
<1>1. Inv => ReadyIsVisible
  BY DEF Inv, AuditInv, AuditOK, BoundOK, ReadyIsVisible
<1>2. Inv => SealIsVisible
  BY DEF Inv, SealInv, SealerOK, SealIsVisible, At
<1>3. Inv => ChainIsClosed
  BY <1>1, <1>2
     DEF Inv, AuditInv, SealInv, GateInv, CampaignInv, ChainIsClosed, SuccessIsVisible
<1> QED
  BY <1>3, ChainInv, PTL
=============================================================================
