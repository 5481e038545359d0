-------------------------- MODULE MCCanonicalWrite --------------------------
(* Three actors, two of them the same writer and run: a run and its restart. *)
EXTENDS CanonicalWrite, TLC

CONSTANTS run, restarted, recovery

Symmetry == Permutations(Key) \cup Permutations(Digest)

MCOwnerOf == [a \in Actor |-> IF a = recovery THEN "recovery" ELSE "coordinator"]
=============================================================================
