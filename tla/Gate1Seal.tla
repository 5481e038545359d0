------------------------------ MODULE Gate1Seal ------------------------------
(***************************************************************************)
(* Sealing the Gate 1 preregistration (preregistration/seal.py,            *)
(* seal_preverified_gate1, and the artifact store of artifacts.py).        *)
(*                                                                         *)
(* A sealer is a process that runs the code of one revision: it appends    *)
(* the research that revision defines to the two journals, record by       *)
(* record through Gate1Journal, writes the notes file and the artifacts,   *)
(* and links the manifest last.  Several sealers may run at once, of one   *)
(* or of different revisions, and each may fail or die at any step and be  *)
(* started again; what they left on disk stays.                            *)
(*                                                                         *)
(* An artifact's path is its content's digest, and it appears there whole  *)
(* (temporary file, link): the store is a set of <<kind, content>>.  The   *)
(* notes file has one fixed path and is written in place.                  *)
(***************************************************************************)
EXTENDS Gate1Journal, SequencesExt

CONSTANTS
    Revision, Research, ResearchOf,  \* what is checked out, what it preregisters
    Plan,         \* [Research -> [Journal -> Seq(Entry)]], in append order
    Phases,       \* the journals in the order they are filled
    Kinds,        \* the artifact kinds in publication order
    RecordCount,  \* the literal record count of each journal's manifest field
    NoNotes

\* Where a seal is when it fills no journal; none of it is a journal's name.
PhaseNames == {"ready", "notes", "notes_write", "artifacts", "linked", "sealed", "failed"}

\* A research has no two records of one id: its sources are checked for it, and
\* its hypotheses are distinct literals whose ids are digests of their content.
ASSUME PlanAssumption ==
    /\ Revision # {}
    /\ ResearchOf \in [Revision -> Research]
    /\ Plan \in [Research -> [Journal -> Seq(Entry)]]
    /\ \A x \in Research, j \in Journal : \A i, k \in DOMAIN Plan[x][j] :
           Plan[x][j][i].id = Plan[x][j][k].id => i = k

ASSUME PhaseAssumption ==
    /\ Phases \in Seq(Journal) /\ Phases # << >>
    /\ Range(Phases) = Journal
    /\ \A i, k \in DOMAIN Phases : Phases[i] = Phases[k] => i = k
    /\ Journal \cap PhaseNames = {}
    /\ Kinds \in Seq(Range(Kinds))
    /\ NoNotes \notin [research : Research, whole : BOOLEAN]

VARIABLES
    seal,       \* what each sealer is doing and has verified
    notes,      \* research_notes.md: absent, or whose text, whole or partial
    artifacts,  \* the content-addressed artifacts on disk
    manifests   \* the manifests on disk

sealVars == <<seal, notes, artifacts, manifests>>
vars == <<journalVars, sealVars>>

NoStates == [j \in Journal |-> << >>]

Ready == [phase |-> "ready", revision |-> CHOOSE r \in Revision : TRUE,
          next |-> 1, states |-> NoStates, published |-> FALSE]

SealInit ==
    /\ Init
    /\ seal = [w \in Writer |-> Ready]
    /\ notes = NoNotes
    /\ artifacts = {}
    /\ manifests = {}

ResearchBy(w) == ResearchOf[seal[w].revision]
Planned(w, j) == Plan[ResearchBy(w)][j]
Running(w)    == seal[w].phase \notin {"ready", "sealed", "failed"}

Put(w, s) == seal' = [seal EXCEPT ![w] = s]

EnterKeepingCount(w, p) == [seal[w] EXCEPT !.phase = p]  \* mutant: next is not reset
Enter(w, p) == [seal[w] EXCEPT !.phase = p, !.next = 1]

\* The phase after journal j is verified: the next journal, or the notes.
After(j) ==
    LET i == CHOOSE k \in DOMAIN Phases : Phases[k] = j
    IN  IF i = Len(Phases) THEN "notes" ELSE Phases[i + 1]

-----------------------------------------------------------------------------
StartSeal(w, r) ==
    /\ ~Running(w)
    /\ Put(w, [Ready EXCEPT !.phase = Phases[1], !.revision = r])
    /\ UNCHANGED <<journalVars, notes, artifacts, manifests>>

CallAppend(w, j) ==
    /\ seal[w].phase = j
    /\ stage[w] = "idle"
    /\ seal[w].next <= Len(Planned(w, j))
    /\ BeginAppend(w, j, Planned(w, j)[seal[w].next])
    /\ UNCHANGED sealVars

AppendReturned(w) ==
    /\ stage[w] = "returned"
    /\ Put(w, [seal[w] EXCEPT !.next = @ + 1])
    /\ MoveTo(w, "idle")
    /\ UNCHANGED <<file, lock, call, reported, notes, artifacts, manifests>>

AppendRaised(w) ==
    /\ stage[w] = "raised"
    /\ Put(w, [seal[w] EXCEPT !.phase = "failed"])
    /\ MoveTo(w, "idle")
    /\ UNCHANGED <<file, lock, call, reported, notes, artifacts, manifests>>

\* The state the manifest will bind: record count, terminal digest, bytes.
VerifyJournal(w, j) ==
    /\ seal[w].phase = j
    /\ stage[w] = "idle"
    /\ seal[w].next > Len(Planned(w, j))
    /\ Readable(j)
    /\ Put(w, [Enter(w, After(j)) EXCEPT !.states[j] = EntriesOf(file[j].records)])
    /\ UNCHANGED <<journalVars, notes, artifacts, manifests>>

-----------------------------------------------------------------------------
OwnNotes(w) == notes = [research |-> ResearchBy(w), whole |-> TRUE]

NotesExist(w) ==
    /\ seal[w].phase = "notes"
    /\ OwnNotes(w)
    /\ Put(w, Enter(w, "artifacts"))
    /\ UNCHANGED <<journalVars, notes, artifacts, manifests>>

\* Created empty and exclusively; filled in a later step.
CreateNotes(w) ==
    /\ seal[w].phase = "notes"
    /\ notes = NoNotes
    /\ notes' = [research |-> ResearchBy(w), whole |-> FALSE]
    /\ Put(w, Enter(w, "notes_write"))
    /\ UNCHANGED <<journalVars, artifacts, manifests>>

WriteNotes(w) ==
    /\ seal[w].phase = "notes_write"
    /\ notes' = [notes EXCEPT !.whole = TRUE]
    /\ Put(w, Enter(w, "artifacts"))
    /\ UNCHANGED <<journalVars, artifacts, manifests>>

\* _publish: the artifact is there already, or is linked now; then verified.
PublishArtifact(w) ==
    /\ seal[w].phase = "artifacts"
    /\ seal[w].next <= Len(Kinds)
    /\ artifacts' = artifacts \cup {<<Kinds[seal[w].next], ResearchBy(w)>>}
    /\ Put(w, [seal[w] EXCEPT !.next = @ + 1])
    /\ UNCHANGED <<journalVars, notes, manifests>>

\* The artifact is linked, and then the cleanup or the verification raises.
PublishThenFail(w) ==
    /\ seal[w].phase = "artifacts"
    /\ seal[w].next <= Len(Kinds)
    /\ artifacts' = artifacts \cup {<<Kinds[seal[w].next], ResearchBy(w)>>}
    /\ Put(w, [seal[w] EXCEPT !.phase = "failed"])
    /\ UNCHANGED <<journalVars, notes, manifests>>

-----------------------------------------------------------------------------
ManifestOf(w) == [revision |-> seal[w].revision, research |-> ResearchBy(w),
                  states |-> seal[w].states]

PlanCounted(w) ==  \* mutant: the journals' record counts are not compared
    \A j \in Journal : Len(Planned(w, j)) = RecordCount[j]

\* Phase4PreregistrationManifest's counts: the plan has the literal count, and
\* so has the journal state that was verified.
ManifestValid(w) ==
    \A j \in Journal : /\ Len(Planned(w, j)) = RecordCount[j]
                       /\ Len(seal[w].states[j]) = RecordCount[j]

ReadyToCommit(w) ==
    /\ seal[w].phase = "artifacts"
    /\ seal[w].next > Len(Kinds)
    /\ ManifestValid(w)

ManifestExists(w) ==
    /\ ReadyToCommit(w)
    /\ ManifestOf(w) \in manifests
    /\ Put(w, Enter(w, "sealed"))
    /\ UNCHANGED <<journalVars, notes, artifacts, manifests>>

LinkManifest(w) ==
    /\ ReadyToCommit(w)
    /\ ManifestOf(w) \notin manifests
    /\ manifests' = manifests \cup {ManifestOf(w)}
    /\ Put(w, [Enter(w, "linked") EXCEPT !.published = TRUE])
    /\ UNCHANGED <<journalVars, notes, artifacts>>

CleanupMayRaise == {"sealed", "failed"}  \* mutant: as for any other artifact
OutcomeOfCleanup == {"sealed"}

\* A temporary file that cannot be removed is left there: the seal succeeded.
CleanUpManifest(w) ==
    /\ seal[w].phase = "linked"
    /\ \E p \in OutcomeOfCleanup : Put(w, Enter(w, p))
    /\ UNCHANGED <<journalVars, notes, artifacts, manifests>>

\* Any other step of the seal may raise: an unreadable journal, a collision,
\* an invalid manifest, an I/O error.
FailSeal(w) ==
    /\ Running(w)
    /\ seal[w].phase # "linked"
    /\ stage[w] = "idle"
    /\ Put(w, [seal[w] EXCEPT !.phase = "failed"])
    /\ UNCHANGED <<journalVars, notes, artifacts, manifests>>

CrashOutsideAppend(w) ==
    /\ stage[w] \in Rest
    /\ MoveTo(w, "idle")
    /\ UNCHANGED <<file, lock, call, reported>>

\* The process dies; nothing on disk changes, except a lock it leaves behind.
CrashSealer(w) ==
    /\ Running(w)
    /\ Crash(w) \/ CrashOutsideAppend(w)
    /\ Put(w, Ready)
    /\ UNCHANGED <<notes, artifacts, manifests>>

SealNext ==
    \E w \in Writer :
        \/ \E r \in Revision : StartSeal(w, r)
        \/ \E j \in Journal : CallAppend(w, j) \/ VerifyJournal(w, j)
        \/ AppendStep(w) /\ UNCHANGED sealVars
        \/ AppendReturned(w) \/ AppendRaised(w)
        \/ NotesExist(w) \/ CreateNotes(w) \/ WriteNotes(w)
        \/ PublishArtifact(w) \/ PublishThenFail(w)
        \/ ManifestExists(w) \/ LinkManifest(w) \/ CleanUpManifest(w)
        \/ FailSeal(w) \/ CrashSealer(w)

SealSpec == SealInit /\ [][SealNext]_vars

-----------------------------------------------------------------------------
Items(w) ==
    IF seal[w].phase \in Journal THEN Len(Planned(w, seal[w].phase)) ELSE Len(Kinds)

SealTypeOK ==
    /\ TypeOK
    /\ \A w \in Writer :
          /\ seal[w].revision \in Revision
          /\ seal[w].published \in BOOLEAN
          /\ seal[w].states \in [Journal -> Seq(Entry)]
          /\ Running(w) => seal[w].next \in 1 .. Items(w) + 1
    /\ notes = NoNotes \/ notes \in [research : Research, whole : BOOLEAN]
    /\ artifacts \subseteq Range(Kinds) \X Research
    /\ \A m \in manifests : ResearchOf[m.revision] = m.research

\* A manifest that is on disk, whoever raced, failed or died around it, is
\* complete: the journal states it binds are exactly its revision's research
\* and still the beginning of the journals, the notes are that research's,
\* whole, and every artifact is there.
ManifestIsComplete ==
    \A m \in manifests :
        /\ \A j \in Journal :
              /\ m.states[j] = Plan[m.research][j]
              /\ IsPrefix(m.states[j], EntriesOf(file[j].records))
        /\ notes = [research |-> m.research, whole |-> TRUE]
        /\ \A k \in Range(Kinds) : <<k, m.research>> \in artifacts

\* The report of a seal is the truth: one that published a manifest never
\* reports a failure, and one that reports success left its manifest there.
SealReportIsTrue ==
    \A w \in Writer :
        /\ seal[w].published => seal[w].phase \in {"linked", "sealed"}
        /\ seal[w].phase = "sealed" => ManifestOf(w) \in manifests

\* The design's promise: once a manifest is published no journal changes.
SealedJournalUntouched == [][manifests # {} => file' = file]_vars
=============================================================================
