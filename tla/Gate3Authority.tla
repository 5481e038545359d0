--------------------------- MODULE Gate3Authority ---------------------------
(***************************************************************************)
(* Gate 3 authorities (phase4/gate3/seal.py, inputs.py): a sealer computes   *)
(* the fold and regime authorities from the frozen bars and publishes them  *)
(* with a manifest; a reader, before any campaign, loads a manifest by its  *)
(* digest, loads the frozen inputs again and recomputes both.               *)
(*                                                                         *)
(* The digest of a bars file is checked on one reading and its closes are   *)
(* taken from a second one.                                                *)
(***************************************************************************)
EXTENDS Repository

CONSTANTS Authorities,   \* processes in seal_gate3_authorities
          Readers        \* processes in load_and_verify_gate3_authority

\* One process runs one command.
ASSUME LoadersAssumption == Authorities \cap Readers = {}

VARIABLES
    gpc,     \* where each process is: a stage and the symbol it is at
    look,    \* the revision, the closes read so far, and the reader's manifest
    gate3    \* the published fold and regime authorities and manifests

gateVars == <<gpc, look, gate3>>

Loaders == Authorities \cup Readers

\* Both authorities carry the revision; only the regime depends on the closes.
Gate3Manifest(rev, closes) == [revision |-> rev, closes |-> closes]
NoManifest == Gate3Manifest(0, PinnedBars)
NothingLooked == [revision |-> 0, closes |-> PinnedBars, manifest |-> NoManifest]

Place(stage, i) == [stage |-> stage, i |-> i]
GateStart == Place("start", 0)
GateEnds == {GateStart, Place("done", 0), Place("failed", 0), Place("absent", 0)}

GateInit == /\ gpc \in [Loaders -> {GateStart, Place("absent", 0)}]
            /\ look = [p \in Loaders |-> NothingLooked]
            /\ gate3 = [fold |-> {}, regime |-> {}, manifest |-> {}]

-----------------------------------------------------------------------------
(* The steps.  The definitions marked Mutant are bugs the checks must find. *)

Go(p, from, to) == gpc[p] = from /\ gpc' = [gpc EXCEPT ![p] = to]

\* _validate_source_revision: the given revision is an ancestor of HEAD.
IsAncestor(rev) == rev \in 1..Head1

BeginSeal(g) == \E rev \in DOMAIN history :
                    /\ IsAncestor(rev)
                    /\ Go(g, GateStart, Place("inputs", 0))
                    /\ look' = [look EXCEPT ![g].revision = rev]
                    /\ UNCHANGED gate3

\* The reader's manifest and the two authorities it names are in the store.
BeginRead(r) == \E m \in gate3.manifest :
                    /\ IsAncestor(m.revision)
                    /\ m.revision \in gate3.fold
                    /\ m \in gate3.regime
                    /\ Go(r, GateStart, Place("inputs", 0))
                    /\ look' = [look EXCEPT ![r].revision = m.revision, ![r].manifest = m]
                    /\ UNCHANGED gate3

\* load_frozen_authority_inputs: the pinned Gate 1 and Gate 2 manifests and,
\* through load_gate2_authority, the exact journals.
LoadPinned(p) == /\ journals
                 /\ Go(p, Place("inputs", 0), Place("check", 1))
                 /\ UNCHANGED <<look, gate3>>

BarsMatch(i) == bars[Symbols[i]] = Pinned

CheckBars(p) == \E i \in DOMAIN Symbols :
                    /\ BarsMatch(i)
                    /\ Go(p, Place("check", i), Place("read", i))
                    /\ UNCHANGED <<look, gate3>>

ReadBars(p) == \E i \in DOMAIN Symbols :
                   /\ Go(p, Place("read", i),
                         IF i = Len(Symbols) THEN Place("loaded", 0) ELSE Place("check", i + 1))
                   /\ look' = [look EXCEPT ![p].closes[Symbols[i]] = bars[Symbols[i]]]
                   /\ UNCHANGED gate3

Computed(p) == Gate3Manifest(look[p].revision, look[p].closes)

WriteFold(g) == /\ Go(g, Place("loaded", 0), Place("fold", 0))
                /\ gate3' = [gate3 EXCEPT !.fold = @ \cup {look[g].revision}]
                /\ UNCHANGED look

WriteRegime(g) == /\ Go(g, Place("fold", 0), Place("regime", 0))
                  /\ gate3' = [gate3 EXCEPT !.regime = @ \cup {Computed(g)}]
                  /\ UNCHANGED look

WriteGate3Manifest(g) == /\ Go(g, Place("regime", 0), Place("done", 0))
                         /\ gate3' = [gate3 EXCEPT !.manifest = @ \cup {Computed(g)}]
                         /\ UNCHANGED look

\* Both authorities must be the very bytes that are recomputed.
\* Mutant: their presence is enough.
Stored(r) == look[r].manifest \in gate3.regime
Recomputes(r) == Computed(r) = look[r].manifest

AcceptManifest(r) == /\ Recomputes(r)
                     /\ Go(r, Place("loaded", 0), Place("done", 0))
                     /\ UNCHANGED <<look, gate3>>

\* A check fails or a file cannot be read or written.
GiveUp(p) == /\ gpc[p] \notin GateEnds
             /\ gpc' = [gpc EXCEPT ![p] = Place("failed", 0)]
             /\ look' = [look EXCEPT ![p] = NothingLooked]
             /\ UNCHANGED gate3

RestartGate(p) == /\ gpc[p] \in {Place("done", 0), Place("failed", 0)}
                  /\ gpc' = [gpc EXCEPT ![p] = GateStart]
                  /\ look' = [look EXCEPT ![p] = NothingLooked]
                  /\ UNCHANGED gate3

LoaderStep(p) == LoadPinned(p) \/ CheckBars(p) \/ ReadBars(p) \/ GiveUp(p) \/ RestartGate(p)

GateStep == \/ \E p \in Loaders : LoaderStep(p)
            \/ \E g \in Authorities : \/ BeginSeal(g) \/ WriteFold(g)
                                      \/ WriteRegime(g) \/ WriteGate3Manifest(g)
            \/ \E r \in Readers : BeginRead(r) \/ AcceptManifest(r)

-----------------------------------------------------------------------------
(* Properties. *)

\* A sealer may have read bars that nobody checked, between the digest of a file
\* and its closes, and so may a reader (inputs.py 163-165): but a manifest that
\* was not computed from the pinned bars is accepted only after the pinned bars
\* of the symbol were replaced twice, once under the sealer and once more under
\* the reader (load_and_verify_gate3_authority).  One slip is always found.
AcceptedIsGuarded == \A r \in Readers :
                         gpc[r] = Place("done", 0) => Took(look[r].manifest.closes, 2)

\* False of the code: nothing tells a reader that its own second reading
\* slipped as the sealer's did.
AcceptedIsPinned == \A r \in Readers :
                        gpc[r] = Place("done", 0) => look[r].manifest.closes = PinnedBars

\* Every Gate 3 manifest's fold and regime authorities are in the store.
AuthorityIsClosed == \A m \in gate3.manifest : m.revision \in gate3.fold /\ m \in gate3.regime
=============================================================================
