----------------------------- MODULE MCDataCache -----------------------------
EXTENDS DataCache, TLC

CONSTANTS p1, p2, d1, d2, x, y, dirty

MCProcess == {p1, p2}
MCDir     == {d1, d2}
MCContent == {x, y, dirty}
MCClean   == {x, y}
Symmetry  == Permutations(MCProcess) \cup Permutations(MCDir) \cup Permutations(MCClean)
=============================================================================
