------------------------------- MODULE OneShot -------------------------------
(***************************************************************************)
(* What the sealed holdout promises: a key is spent before its data is     *)
(* seen, the data is seen at most once per key, and only what was seen is  *)
(* concluded.  A key that is spent stays spent.                            *)
(***************************************************************************)
EXTENDS Naturals

CONSTANT Key

VARIABLES spent, uses, concluded

Init == spent = {} /\ uses = [k \in Key |-> 0] /\ concluded = {}

Spend(k) ==
    /\ k \notin spent
    /\ spent' = spent \cup {k}
    /\ UNCHANGED <<uses, concluded>>

See(k) ==
    /\ k \in spent /\ uses[k] = 0
    /\ uses' = [uses EXCEPT ![k] = 1]
    /\ UNCHANGED <<spent, concluded>>

Conclude(k) ==
    /\ uses[k] = 1 /\ k \notin concluded
    /\ concluded' = concluded \cup {k}
    /\ UNCHANGED <<spent, uses>>

Next == \E k \in Key : Spend(k) \/ See(k) \/ Conclude(k)

Spec == Init /\ [][Next]_<<spent, uses, concluded>>
=============================================================================
