----------------------------- MODULE Repository -----------------------------
(***************************************************************************)
(* The files of one checkout that the Phase 4 gates read and do not write:  *)
(* the source bundles and their Git history, the frozen Phase 3 bars, the   *)
(* Phase 2 experiment records, and the Gate 1 journals and research notes.  *)
(* People and other programs change them at any moment.                    *)
(*                                                                         *)
(* Worktree files, bars and journals go back and forth; only experiment      *)
(* records merely move on.  A gate that compares two readings of a bars      *)
(* file cannot see a change that was undone between them: what its           *)
(* comparison is worth is counted in replacements of the pinned bars.        *)
(***************************************************************************)
EXTENDS Integers, Sequences, FiniteSets

CONSTANTS Bundles,      \* names of source bundles (GATE2_SOURCE_BUNDLES)
          Symbols,      \* symbols of the frozen universe, a sequence
          Candidates,   \* the Phase 2 candidates: PHASE2 has 136 of them
          Extras,       \* names of experiment files that may still be added
          MaxEdits,     \* bound on source edits
          MaxCommits,   \* bound on commits
          Contents,     \* what the bars of a symbol may hold
          MaxReplacements   \* bound on how often pinned bars are replaced

\* GATE2_SOURCE_BUNDLES is a tuple of names.
ASSUME BundlesAssumption == IsFiniteSet(Bundles)
ASSUME BoundsAssumption == MaxEdits \in Nat /\ MaxCommits \in Nat /\ MaxReplacements \in Nat

\* The content that the pinned digests name, among those the bars may have.
Pinned == 0
ASSUME ContentsAssumption == Pinned \in Contents

VARIABLES
    worktree,     \* the content of each bundle in the worktree
    history,      \* the content of each bundle at each revision; HEAD is the last
    bars,         \* the content of each symbol's bars
    replaced,     \* how often each symbol's pinned bars were replaced
    experiments,  \* the files of results/experiments
    journals      \* TRUE when journals and notes are the pinned bytes

repoVars == <<worktree, history, bars, replaced, experiments, journals>>

SymbolSet == {Symbols[i] : i \in DOMAIN Symbols}
ASSUME SymbolsAssumption == Symbols \in Seq(SymbolSet)

Head1 == Len(history)

PinnedBars == [s \in SymbolSet |-> Pinned]

\* An experiment file: its name, the candidate and the class that
\* classify_representation gives its record, and the version of its bytes.
Representation(name, candidate, category, body) ==
    [name |-> name, candidate |-> candidate, category |-> category, body |-> body]

\* The sealed Phase 2 population: every candidate has one preliminary and one
\* final representation.
Phase2Files ==
    {Representation(<<c, k>>, c, k, 0) :
        c \in Candidates, k \in {"PRELIMINARY_CORRECTED", "FINAL_AUTHORITATIVE"}}

RepoInit == /\ worktree = [b \in Bundles |-> 0]
            /\ history = <<[b \in Bundles |-> 0]>>
            /\ bars = PinnedBars
            /\ replaced = [s \in SymbolSet |-> 0]
            /\ experiments = Phase2Files
            /\ journals = TRUE

-----------------------------------------------------------------------------
Edit(b) == LET used == {worktree[c] : c \in Bundles}
                       \cup {history[i][c] : i \in DOMAIN history, c \in Bundles}
           IN  \E new \in 1..MaxEdits \ used :
                   /\ \A n \in 1..(new - 1) : n \in used
                   /\ worktree' = [worktree EXCEPT ![b] = new]
                   /\ UNCHANGED <<history, bars, replaced, experiments, journals>>

Restore(b) == /\ worktree[b] # history[Head1][b]
              /\ worktree' = [worktree EXCEPT ![b] = history[Head1][b]]
              /\ UNCHANGED <<history, bars, replaced, experiments, journals>>

Commit == /\ Len(history) <= MaxCommits
          /\ worktree # history[Head1]
          /\ history' = Append(history, worktree)
          /\ UNCHANGED <<worktree, bars, replaced, experiments, journals>>

\* Other bars replace those of a symbol, and the pinned ones may come back.
ReplaceBars(s) == \E new \in Contents \ {bars[s]} :
                      /\ bars[s] = Pinned => replaced[s] < MaxReplacements
                      /\ bars' = [bars EXCEPT ![s] = new]
                      /\ replaced' = [replaced EXCEPT ![s] = @ + (IF bars[s] = Pinned THEN 1 ELSE 0)]
                      /\ UNCHANGED <<worktree, history, experiments, journals>>

\* A panel of the bars holds what was not pinned of a symbol only if that
\* symbol's pinned bars have been replaced as often as that.
Took(panel, replacements) ==
    \A s \in SymbolSet : panel[s] # Pinned => replaced[s] >= replacements

\* A new experiment is recorded: of another campaign, of no known class, or a
\* second final record of a candidate.
AddExperiment == \E name \in Extras, c \in Candidates,
                    k \in {"OUT_OF_SCOPE", "AMBIGUOUS", "FINAL_AUTHORITATIVE"} :
                     /\ \A f \in experiments : f.name # <<name, "added">>
                     /\ experiments' = experiments \cup {Representation(<<name, "added">>, c, k, 0)}
                     /\ UNCHANGED <<worktree, history, bars, replaced, journals>>

\* A record of the population is rewritten in place; its class stays.
RewriteExperiment == \E f \in experiments :
                         /\ f \in Phase2Files
                         /\ f.category = "FINAL_AUTHORITATIVE"
                         /\ experiments' = (experiments \ {f}) \cup {[f EXCEPT !.body = 1]}
                         /\ UNCHANGED <<worktree, history, bars, replaced, journals>>

\* A line is added to a sealed journal, or the journal is checked out again.
TouchJournals == /\ journals' = ~journals
                 /\ UNCHANGED <<worktree, history, bars, replaced, experiments>>

RepoStep == \/ \E b \in Bundles : Edit(b) \/ Restore(b)
            \/ Commit
            \/ \E s \in SymbolSet : ReplaceBars(s)
            \/ AddExperiment
            \/ RewriteExperiment
            \/ TouchJournals
=============================================================================
