---------------------------- MODULE FencedStore ----------------------------
(***************************************************************************)
(* What the canonical write path promises: a store of write-once keys      *)
(* whose writers are fenced.  Each write carries the epoch its writer was  *)
(* granted; once an epoch has written, no earlier epoch writes any more,   *)
(* and all the writes of one epoch come from one owner.                    *)
(***************************************************************************)
EXTENDS Integers

CONSTANTS Key, Digest, Owner, Unwritten

VARIABLES
    store,  \* what each key holds
    fence   \* the epoch and owner of the newest write, epoch 0 before any

NoWriter == [epoch |-> 0, owner |-> Unwritten]

Init ==
    /\ store = [k \in Key |-> Unwritten]
    /\ fence = NoWriter

Write(k, d, o) ==
    /\ store[k] = Unwritten
    /\ store' = [store EXCEPT ![k] = [digest |-> d, owner |-> o]]
    /\ fence' \in [epoch : Nat, owner : {o}]
    /\ fence'.epoch >= fence.epoch
    /\ fence'.epoch = fence.epoch => fence.owner = o

Next == \E k \in Key, d \in Digest, o \in Owner : Write(k, d, o)

Spec == Init /\ [][Next]_<<store, fence>>
=============================================================================
