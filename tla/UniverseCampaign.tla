-------------------------- MODULE UniverseCampaign --------------------------
(***************************************************************************)
(* Phase 3 universe campaigns (quant/universe/campaign.py, artifacts.py):    *)
(* for every symbol of the pool a campaign reuses the recorded verdict for   *)
(* the same request and versions or fetches, stores and judges the bars      *)
(* anew, then freezes the verdicts, selects a universe from them, writes a   *)
(* report and, when enough symbols are clean, a manifest.                    *)
(*                                                                         *)
(* Campaigns share the artifact directories and nothing guards against two   *)
(* of them at once.  A campaign may raise, or its process die, between any   *)
(* two steps; what it wrote stays.  Files are written aside and moved into   *)
(* place.  Afterwards a file may be damaged from outside; every read compares *)
(* digests and finds out.                                                   *)
(*                                                                         *)
(* Artifacts are named by their digest.  One fetch, and one campaign, writes *)
(* at most one artifact of a kind, and no two fetches have the same moment,  *)
(* so that kind and moment, or kind and campaign, stand for the digest.      *)
(***************************************************************************)
EXTENDS QuoteSource, BarQuality, TLC

CONSTANTS Processes,    \* processes that run campaigns
          Pool,         \* CANDIDATE_POOL: a sequence of symbols
          Versions,     \* OpenD versions, in the order they are installed
          Answers,      \* the answers the service may give about each symbol
          Calendars,    \* the answers to a trading-calendar request
          DigestRank,   \* the place of a candidate record in digest order, by its fetch
          MaxCampaigns, \* bound on campaigns
          MaxDamage     \* bound on damaged files

ASSUME UniverseCampaignAssumption ==
    /\ MaxCampaigns \in Nat
    /\ MaxDamage \in Nat
    /\ DigestRank \in [1..(MaxCampaigns * Len(Pool)) -> Nat]
    /\ \A m, n \in DOMAIN DigestRank : DigestRank[m] = DigestRank[n] => m = n

ASSUME CampaignConstantsAssumption ==
    /\ IsFiniteSet(Processes)
    /\ Pool \in Seq(DOMAIN Answers) /\ Pool # <<>>
    /\ \A i, j \in DOMAIN Pool : Pool[i] = Pool[j] => i = j
    /\ Versions \in Seq(ToSet(Versions)) /\ Versions # <<>>

VARIABLES
    store,     \* the artifacts on disk, by identity
    damaged,   \* the artifacts whose bytes are no longer theirs
    run,       \* the campaign of each process, or Idle
    version,   \* the place in Versions of the last version a preflight saw
    served,    \* the pages the service answered each fetch with
    outcomes,  \* the outcomes of the campaigns that returned
    started    \* the number of campaigns started

vars == <<store, damaged, run, version, served, outcomes, started>>

Identity(kind, of) == <<kind, of>>
NoArtifact == Identity("none", 0)
NoCalendar == [kind |-> "calendar", status |-> "NONE", open |-> {}]
Idle == [at |-> "idle"]

Init == /\ store = <<>>
        /\ damaged = {}
        /\ run = [p \in Processes |-> Idle]
        /\ version = 1
        /\ served = <<>>
        /\ outcomes = {}
        /\ started = 0

Running(p) == run[p] # Idle

\* read_json, load_normalized_dataset: the bytes are there and have their
\* digest; a dataset's raw evidence too.
Intact(id) == id \in DOMAIN store /\ id \notin damaged
Verified(id) == Intact(id) /\ (id[1] = "normalized" => Intact(store[id].raw))
VerifiedOrNone(id) == id = NoArtifact \/ Verified(id)

\* _write_once: an artifact that is there already must be the same.
Writable(id, content) == id \in DOMAIN store => Intact(id) /\ store[id] = content
Stored(id, content) == store' = [x \in DOMAIN store \cup {id} |-> IF x = id THEN content ELSE store[x]]

-----------------------------------------------------------------------------
\* run_phase3_campaign, up to the first symbol: preflight tells the version,
\* the last one seen or one installed since.  A campaign starts alone when no
\* other is running, and no longer is when another starts.  For the properties
\* it remembers which campaigns had returned and which files were damaged when
\* it started, and which were when it had its report.
Start(p) ==
    /\ run[p] = Idle
    /\ started < MaxCampaigns
    /\ started' = started + 1
    /\ version' \in version..Len(Versions)
    /\ LET others == {q \in Processes : Running(q)}
       IN  run' = [q \in Processes |->
                      IF q = p THEN [at |-> "lookup", campaign |-> started + 1, version |-> Versions[version'],
                                     found |-> <<>>, moment |-> 0, fetch |-> NewFetch(Pool[1]),
                                     calendar |-> NoCalendar, verified |-> 0, alone |-> others = {},
                                     before |-> {o.campaign : o \in outcomes},
                                     spoiltAtStart |-> damaged, spoiltAtEnd |-> {}]
                      ELSE IF q \in others THEN [run[q] EXCEPT !.alone = FALSE]
                      ELSE run[q]]
    /\ UNCHANGED <<store, damaged, served, outcomes>>

\* The campaign raises, because something could not be read, written or
\* verified, or its process dies.
Stop(p) ==
    /\ Running(p)
    /\ run' = [run EXCEPT ![p] = Idle]
    /\ UNCHANGED <<store, damaged, version, served, outcomes, started>>

Goto(p, at) == run' = [run EXCEPT ![p].at = at]
Symbol(p) == Pool[Len(run[p].found) + 1]

\* The symbol is settled; the next one, or the end of the pool.
Settle(p, candidate) ==
    LET found == Append(run[p].found, candidate)
    IN  run' = [run EXCEPT ![p].found = found,
                           ![p].at = IF Len(found) < Len(Pool) THEN "lookup" ELSE "freeze"]

-----------------------------------------------------------------------------
\* find_candidate_record.  Records are read in digest order up to the first
\* one for this request and these versions; one that cannot be read is an
\* error, whatever it is about.
Records == {id \in DOMAIN store : id[1] = "candidate"}
RecordsUpTo(id) == {r \in Records : DigestRank[r[2]] <= DigestRank[id[2]]}
\* Mutant: failed verdicts are not reused.
MatchingClean(p) == {r \in Records : /\ store[r].symbol = Symbol(p)
                                     /\ store[r].version = run[p].version
                                     /\ store[r].status = "PASS"}
Matching(p) == {r \in Records : /\ store[r].symbol = Symbol(p)
                                /\ store[r].version = run[p].version}
FirstMatch(p) == CHOOSE r \in Matching(p) : Matching(p) \cap RecordsUpTo(r) = {r}
Evidence(candidate) == {candidate.raw, candidate.normalized, candidate.quarantine, candidate.calendar}

\* Mutant: the evidence of a recorded verdict is not read again.
ReuseUnread(p) ==
    /\ run[p].at = "lookup"
    /\ Matching(p) # {}
    /\ \A r \in RecordsUpTo(FirstMatch(p)) : Intact(r)
    /\ Settle(p, store[FirstMatch(p)])
    /\ UNCHANGED <<store, damaged, version, served, outcomes, started>>

Reuse(p) ==
    /\ run[p].at = "lookup"
    /\ Matching(p) # {}
    /\ \A r \in RecordsUpTo(FirstMatch(p)) : Intact(r)
    /\ \A id \in Evidence(store[FirstMatch(p)]) : VerifiedOrNone(id)
    /\ Settle(p, store[FirstMatch(p)])
    /\ UNCHANGED <<store, damaged, version, served, outcomes, started>>

StartFetch(p) ==
    /\ run[p].at = "lookup"
    /\ Matching(p) = {}
    /\ \A r \in Records : Intact(r)
    /\ served' = Append(served, {})
    /\ run' = [run EXCEPT ![p].at = "fetch", ![p].moment = Len(served) + 1,
                          ![p].fetch = NewFetch(Symbol(p)), ![p].calendar = NoCalendar]
    /\ UNCHANGED <<store, damaged, version, outcomes, started>>

\* One history request and its answer.
Ask(p) ==
    /\ run[p].at = "fetch"
    /\ run[p].fetch.end = "open"
    /\ \E answer \in Answers[Symbol(p)] :
           /\ run' = [run EXCEPT ![p].fetch = Received(@, answer)]
           /\ served' = IF answer = Refused THEN served
                        ELSE [served EXCEPT ![run[p].moment] = @ \cup {answer}]
    /\ UNCHANGED <<store, damaged, version, outcomes, started>>

-----------------------------------------------------------------------------
\* _assess_new_candidate, from the evidence in memory.
Raw(p) == RawEvidence(run[p].fetch, run[p].moment, run[p].version)
Own(p, kind) == Identity(kind, run[p].moment)
Normalized(p) == [kind |-> "normalized", symbol |-> Symbol(p), version |-> run[p].version,
                  raw |-> Own(p, "raw"), frame |-> Frame(Raw(p))]
Dataset(p) == IF Success(run[p].fetch) THEN Own(p, "normalized") ELSE NoArtifact
Judgement(p) == Assess(Raw(p), Frame(Raw(p)), Dataset(p) # NoArtifact, run[p].calendar)
NeedsCalendar(p) == Judgement(p).missing # {} \/ Judgement(p).unexpected # {}
AfterJudgement(p) == IF NeedsCalendar(p) THEN "calendar"
                     ELSE IF Judgement(p).status = "FAIL" THEN "quarantine" ELSE "record"

WriteRaw(p) ==
    /\ run[p].at = "fetch"
    /\ run[p].fetch.end # "open"
    /\ Writable(Own(p, "raw"), Raw(p))
    /\ Stored(Own(p, "raw"), Raw(p))
    /\ Goto(p, IF Success(run[p].fetch) THEN "normalize" ELSE AfterJudgement(p))
    /\ UNCHANGED <<damaged, version, served, outcomes, started>>

\* write_normalized_dataset reads the raw evidence before, and the dataset
\* after it wrote it.
WriteNormalized(p) ==
    /\ run[p].at = "normalize"
    /\ Intact(Own(p, "raw"))
    /\ Writable(Own(p, "normalized"), Normalized(p))
    /\ Stored(Own(p, "normalized"), Normalized(p))
    /\ Goto(p, AfterJudgement(p))
    /\ UNCHANGED <<damaged, version, served, outcomes, started>>

\* fetch_calendar_evidence, write_calendar_evidence, and the second assess.
AskCalendar(p) ==
    /\ run[p].at = "calendar"
    /\ \E answer \in Calendars :
           /\ Writable(Own(p, "calendar"), answer)
           /\ Stored(Own(p, "calendar"), answer)
           /\ run' = [run EXCEPT ![p].calendar = answer,
                                 ![p].at = IF Judgement(p).status = "FAIL" THEN "quarantine" ELSE "record"]
    /\ UNCHANGED <<damaged, version, served, outcomes, started>>

WriteQuarantine(p) ==
    LET bundle == [kind |-> "quarantine", symbol |-> Symbol(p), raw |-> Own(p, "raw"),
                   normalized |-> Dataset(p), issues |-> Judgement(p).issues,
                   missing |-> Judgement(p).missing, unexpected |-> Judgement(p).unexpected]
    IN  /\ run[p].at = "quarantine"
        /\ Writable(Own(p, "quarantine"), bundle)
        /\ Stored(Own(p, "quarantine"), bundle)
        /\ Goto(p, "record")
        /\ UNCHANGED <<damaged, version, served, outcomes, started>>

\* CandidateDQAssessment.finalize, write_candidate_record: the evidence is
\* read again before the record is written.
Candidate(p) ==
    [kind |-> "candidate", symbol |-> Symbol(p), version |-> run[p].version,
     status |-> Judgement(p).status, issues |-> Judgement(p).issues,
     missing |-> Judgement(p).missing, unexpected |-> Judgement(p).unexpected,
     raw |-> Own(p, "raw"), normalized |-> Dataset(p),
     quarantine |-> IF Judgement(p).status = "FAIL" THEN Own(p, "quarantine") ELSE NoArtifact,
     calendar |-> IF NeedsCalendar(p) THEN Own(p, "calendar") ELSE NoArtifact]

WriteRecord(p) ==
    /\ run[p].at = "record"
    /\ \A id \in Evidence(Candidate(p)) : VerifiedOrNone(id)
    /\ Writable(Own(p, "candidate"), Candidate(p))
    /\ Stored(Own(p, "candidate"), Candidate(p))
    /\ Settle(p, Candidate(p))
    /\ UNCHANGED <<damaged, version, served, outcomes, started>>

-----------------------------------------------------------------------------
\* freeze_dq_snapshot and load_frozen_snapshot.
SnapshotId(p) == Identity("snapshot", run[p].campaign)
Snapshot(p) == [kind |-> "snapshot", candidates |-> run[p].found]
Freeze(p) ==
    /\ run[p].at = "freeze"
    /\ Writable(SnapshotId(p), Snapshot(p))
    /\ Stored(SnapshotId(p), Snapshot(p))
    /\ Goto(p, "report")
    /\ UNCHANGED <<damaged, version, served, outcomes, started>>

\* select_universe loads the frozen snapshot; the report is written from what
\* it selects.
Passing(snapshot) == {snapshot.candidates[i].symbol :
                         i \in {k \in DOMAIN snapshot.candidates : snapshot.candidates[k].status = "PASS"}}
Selection(snapshot) == Selected(Passing(snapshot))
ReportId(p) == Identity("report", run[p].campaign)
Report(snapshot, p) == [kind |-> "report", snapshot |-> SnapshotId(p), selected |-> Selection(snapshot)]

WriteReport(p) ==
    LET report == Report(store[SnapshotId(p)], p)
    IN  /\ run[p].at = "report"
        /\ Intact(SnapshotId(p))
        /\ Writable(ReportId(p), report)
        /\ Stored(ReportId(p), report)
        /\ Goto(p, "reread")
        /\ UNCHANGED <<damaged, version, served, outcomes, started>>

Return(p) ==
    /\ outcomes' = outcomes \cup {[campaign |-> run[p].campaign, version |-> run[p].version,
                                   candidates |-> run[p].found, alone |-> run[p].alone,
                                   before |-> run[p].before]}
    /\ run' = [run EXCEPT ![p] = Idle]

\* The report is read back; without enough clean symbols the campaign returns.
ReadReport(p) ==
    /\ run[p].at = "reread"
    /\ Intact(ReportId(p))
    /\ IF Admitted(store[ReportId(p)].selected)
       THEN /\ run' = [run EXCEPT ![p].at = "verify", ![p].verified = 0, ![p].spoiltAtEnd = damaged]
            /\ UNCHANGED outcomes
       ELSE Return(p)
    /\ UNCHANGED <<store, damaged, version, served, started>>

\* write_universe_manifest reads the snapshot, the report, every raw evidence
\* and every normalized dataset, one after the other, and then writes.  A
\* symbol without a dataset leaves its place empty.
Chain(p) == LET found == run[p].found
            IN  <<SnapshotId(p), ReportId(p)>> \o [i \in DOMAIN found |-> found[i].raw]
                                               \o [i \in DOMAIN found |-> found[i].normalized]
VerifyNext(p) ==
    /\ run[p].at = "verify"
    /\ run[p].verified < Len(Chain(p))
    /\ VerifiedOrNone(Chain(p)[run[p].verified + 1])
    /\ run' = [run EXCEPT ![p].verified = @ + 1]
    /\ UNCHANGED <<store, damaged, version, served, outcomes, started>>

ManifestId(p) == Identity("manifest", run[p].campaign)
Manifest(p) == [kind |-> "manifest", snapshot |-> SnapshotId(p), report |-> ReportId(p),
                candidates |-> run[p].found,
                versions |-> {run[p].found[i].version : i \in DOMAIN run[p].found},
                selected |-> store[ReportId(p)].selected]
WriteManifest(p) ==
    /\ run[p].at = "verify"
    /\ run[p].verified = Len(Chain(p))
    /\ Writable(ManifestId(p), Manifest(p))
    /\ Stored(ManifestId(p), Manifest(p))
    /\ Goto(p, "published")
    /\ UNCHANGED <<damaged, version, served, outcomes, started>>

\* The manifest is read back, and the campaign returns.
ReadManifest(p) ==
    /\ run[p].at = "published"
    /\ Intact(ManifestId(p))
    /\ Return(p)
    /\ UNCHANGED <<store, damaged, version, served, started>>

-----------------------------------------------------------------------------
\* A file is damaged from outside.
Damage(id) ==
    /\ id \in DOMAIN store \ damaged
    /\ Cardinality(damaged) < MaxDamage
    /\ damaged' = damaged \cup {id}
    /\ UNCHANGED <<store, run, version, served, outcomes, started>>

Step(p) == \/ Stop(p)
           \/ Reuse(p) \/ StartFetch(p) \/ Ask(p)
           \/ WriteRaw(p) \/ WriteNormalized(p) \/ AskCalendar(p)
           \/ WriteQuarantine(p) \/ WriteRecord(p)
           \/ Freeze(p) \/ WriteReport(p) \/ ReadReport(p)
           \/ VerifyNext(p) \/ WriteManifest(p) \/ ReadManifest(p)

Next == \/ \E p \in Processes : Start(p) \/ Step(p)
        \/ \E id \in DOMAIN store : Damage(id)

\* A campaign that is running goes on: its steps are calls that return or
\* raise.  Nobody has to start one.
Fairness == \A p \in Processes : WF_vars(Step(p))
Spec == Init /\ [][Next]_vars /\ Fairness

-----------------------------------------------------------------------------
Of(kind) == {id \in DOMAIN store : id[1] = kind}

TypeOK ==
    /\ damaged \subseteq DOMAIN store
    /\ started \in 0..MaxCampaigns
    /\ version \in DOMAIN Versions
    /\ \A p \in Processes : Running(p) => run[p].campaign \in 1..started
    /\ \A p, q \in Processes :
          Running(p) /\ Running(q) /\ run[p].campaign = run[q].campaign => p = q
    /\ \A o \in outcomes : o.campaign \in 1..started

\* One sound row of the symbol for every session, in order, and nothing else.
Sessionwise(rows, symbol) ==
    /\ Days(rows) = Sessions
    /\ \A k, l \in DOMAIN rows : rows[k].day = rows[l].day => k = l
    /\ \A k, l \in DOMAIN rows : k < l => rows[k].day <= rows[l].day
    /\ \A k \in DOMAIN rows : rows[k].flaws = {} /\ rows[k].code = symbol

\* The bars of a symbol a manifest selects are, in the raw pages the service
\* sent, one sound row for every session of the window, in order and nothing
\* else: paging, normalization, validation, reuse of recorded verdicts and
\* selection together let no other symbol in.
SelectedIsClean ==
    \A m \in Of("manifest") : \A i \in DOMAIN store[m].candidates :
        LET candidate == store[m].candidates[i]
        IN  candidate.symbol \in ToSet(store[m].selected) =>
                Sessionwise(Rows(store[candidate.raw].pages), candidate.symbol)

\* When a manifest appears, everything it binds is on disk: the snapshot, the
\* report and the evidence of its verdicts.  Nothing of it was damaged already
\* when the campaign started, a recorded verdict's quarantine and calendar
\* included, and nothing but those when the campaign had its report: what is
\* damaged while the files are read one after the other may go unnoticed.  And
\* its verdicts are of one version.
ManifestIsClosed ==
    [][\A m \in DOMAIN store' \ DOMAIN store :
          m[1] = "manifest" =>
              \E p \in Processes :
                  LET manifest == store'[m]
                      verdicts == ToSet(manifest.candidates)
                      chain == ({manifest.snapshot, manifest.report} \cup {c.raw : c \in verdicts}
                                  \cup {c.normalized : c \in verdicts}) \ {NoArtifact}
                      bound == chain \cup ((UNION {Evidence(c) : c \in verdicts}) \ {NoArtifact})
                  IN  /\ Running(p) /\ run[p].campaign = m[2]
                      /\ bound \subseteq DOMAIN store
                      /\ bound \cap run[p].spoiltAtStart = {}
                      /\ chain \cap run[p].spoiltAtEnd = {}
                      /\ Cardinality(manifest.versions) = 1]_vars

\* Every page the service answered a recorded fetch with is in the raw evidence
\* of its record, the pages before an error included, and every failed verdict
\* has its quarantine.  Pages are counted once: of two that are the same, one
\* may be lost.
EvidenceIsKept ==
    \A r \in Of("candidate") :
        /\ store[r].raw \in DOMAIN store
        /\ ToSet(store[store[r].raw].pages) = served[r[2]]
        /\ store[r].status = "FAIL" => store[r].quarantine \in DOMAIN store

\* A campaign that ran alone can be rerun: later campaigns of the same
\* versions that return reach the same verdicts from the same evidence, an
\* error of the service included.
RerunReproduces ==
    \A o, q \in outcomes :
        q.alone /\ q.version = o.version /\ q.campaign \in o.before =>
            o.candidates = q.candidates

\* A campaign comes to an end, when page keys are repeated and requests fail
\* too.  The service has finitely many keys: nothing in the code bounds the
\* pages of one that always answers with a new key.
CampaignsEnd == \A p \in Processes : Running(p) ~> ~Running(p)
=============================================================================
