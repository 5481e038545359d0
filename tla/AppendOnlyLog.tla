--------------------------- MODULE AppendOnlyLog ---------------------------
(***************************************************************************)
(* What the two research journals promise: logs that only grow, that hold  *)
(* an id once, and that report an entry as appended only while it is the   *)
(* last one.  A log may break (a partial line at its end); a broken log    *)
(* never changes again and reports nothing.                                *)
(***************************************************************************)
EXTENDS Naturals, Sequences

CONSTANTS Journal, Id, Body

VARIABLES
    log,      \* the entries of each journal, in order
    broken,   \* whether it ends in a partial line
    reported  \* every <<journal, entry>> some caller was told is appended

vars == <<log, broken, reported>>

Entry == [id : Id, body : Body]

Init ==
    /\ log = [j \in Journal |-> << >>]
    /\ broken = [j \in Journal |-> FALSE]
    /\ reported = {}

Grow(j, e) ==
    /\ ~broken[j]
    /\ \A i \in DOMAIN log[j] : log[j][i].id # e.id
    /\ log' = [log EXCEPT ![j] = Append(@, e)]
    /\ UNCHANGED <<broken, reported>>

Tear(j) ==
    /\ ~broken[j]
    /\ broken' = [broken EXCEPT ![j] = TRUE]
    /\ UNCHANGED <<log, reported>>

Report(j) ==
    /\ ~broken[j]
    /\ log[j] # << >>
    /\ reported' = reported \cup {<<j, log[j][Len(log[j])]>>}
    /\ UNCHANGED <<log, broken>>

Next == \E j \in Journal : Tear(j) \/ Report(j) \/ \E e \in Entry : Grow(j, e)

Spec == Init /\ [][Next]_vars
=============================================================================
