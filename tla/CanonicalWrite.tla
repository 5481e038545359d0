-------------------------- MODULE CanonicalWrite --------------------------
(***************************************************************************)
(* The single-writer and idempotency guard of the canonical sheet          *)
(* (canonical_write.py, class CanonicalWriteCoordinator).                  *)
(*                                                                         *)
(* Actors are the threads of control that call the guard.  Each has a      *)
(* writer_id/run_id pair, its Owner, and two actors may share one (a run   *)
(* restarted under its own identity).  An actor keeps the lease object it  *)
(* was last given, which may be out of date: another actor may have taken  *)
(* over, or a twin with the same owner may have renewed it.                *)
(*                                                                         *)
(* Every call takes `now` from its caller.  A caller reads the clock, is   *)
(* delayed, and only then enters the guard, so `now` is any instant        *)
(* between clock - MaxDelay and the clock.  A call that raises leaves the  *)
(* guard unchanged and is a stuttering step.                               *)
(***************************************************************************)
EXTENDS Integers

CONSTANTS
    Actor, Owner, OwnerOf,  \* who calls, and under which writer_id/run_id
    Key, Digest,            \* semantic keys and payload digests
    Ttl,                    \* the ttls callers ask for; the code wants ttl > 0
    MaxClock, MaxGeneration, \* bounds on the clock and on the leases granted
    MaxDelay,               \* delay between reading the clock and the call
    NoLease, NoCommit       \* None of the code

ASSUME OwnerAssumption == OwnerOf \in [Actor -> Owner]
ASSUME TimeAssumption  ==
    Ttl \subseteq Nat \ {0} /\ {MaxDelay, MaxClock, MaxGeneration} \subseteq Nat

WriteLease     == [owner : Owner, acquired_at : Nat, expires_at : Nat,
                   generation : Nat \ {0}]
CommittedWrite == [digest : Digest, owner : Owner]

ASSUME NoneAssumption == NoLease \notin WriteLease /\ NoCommit \notin CommittedWrite

VARIABLES
    lease,       \* _lease
    generation,  \* _generation
    committed,   \* _committed, by semantic key
    clock,       \* the wall clock every caller reads
    held,        \* the lease object each actor holds
    fence        \* history: generation and owner of the newest commit

vars == <<lease, generation, committed, clock, held, fence>>

Init ==
    /\ lease = NoLease
    /\ generation = 0
    /\ committed = [k \in Key |-> NoCommit]
    /\ clock = 0
    /\ held = [a \in Actor |-> NoLease]
    /\ fence = [epoch |-> 0, owner |-> NoCommit]

Instant == {t \in 0 .. clock : clock <= t + MaxDelay}

-----------------------------------------------------------------------------
Tick ==
    /\ clock < MaxClock
    /\ clock' = clock + 1
    /\ UNCHANGED <<lease, generation, committed, held, fence>>

Expired(l, now) == now >= l.expires_at

\* acquire while a live lease exists: only its own owner gets it back.
Reacquirable(a, now) ==
    /\ lease # NoLease
    /\ ~Expired(lease, now)
    /\ lease.owner = OwnerOf[a]

Reacquire(a, now) ==
    /\ Reacquirable(a, now)
    /\ held' = [held EXCEPT ![a] = lease]
    /\ UNCHANGED <<lease, generation, committed, clock, fence>>

\* Mutant of Grantable: naming the generation is enough, expired or not.
GrantableIgnoringExpiry(now, expected) ==
    lease # NoLease => expected = lease.generation

\* acquire may grant a new lease when there is none, or when the one there is
\* has expired and the caller names the generation it observed.
Grantable(now, expected) ==
    lease # NoLease => Expired(lease, now) /\ expected = lease.generation

SameGeneration == generation  \* mutant: the increment is forgotten
NextGeneration == generation + 1

Grant(a, now, ttl, expected) ==
    LET granted == [owner |-> OwnerOf[a], acquired_at |-> now,
                    expires_at |-> now + ttl, generation |-> NextGeneration]
    IN  /\ generation < MaxGeneration
        /\ Grantable(now, expected)
        /\ generation' = NextGeneration
        /\ lease' = granted
        /\ held' = [held EXCEPT ![a] = granted]
        /\ UNCHANGED <<committed, clock, fence>>

AssertHolding(a) == lease # NoLease /\ held[a] # NoLease  \* mutant: any lease will do

\* _assert_current: the caller's lease object is the current one, field by
\* field.  The expiry check is the caller's, because release skips it.
AssertCurrent(a) == lease # NoLease /\ held[a] = lease

Renew(a, now, ttl) ==
    /\ AssertCurrent(a)
    /\ ~Expired(held[a], now)
    /\ lease' = [held[a] EXCEPT !.expires_at = now + ttl]
    /\ held' = [held EXCEPT ![a] = lease']
    /\ UNCHANGED <<generation, committed, clock, fence>>

\* prepare: what the guard answers for a key; the third answer is a
\* WriteConflictError.
Disposition(k, d) ==
    IF committed[k] = NoCommit THEN "READY"
    ELSE IF committed[k].digest = d THEN "ALREADY_COMMITTED" ELSE "CONFLICT"

\* commit of a new key: current and unexpired lease, and the readback of the
\* sheet equal to the payload.  A replay of the same payload returns the
\* existing record, whatever the readback, and changes nothing.
Commit(a, k, d, readback, now) ==
    /\ AssertCurrent(a)
    /\ ~Expired(held[a], now)
    /\ Disposition(k, d) = "READY"
    /\ readback = d
    /\ committed' = [committed EXCEPT ![k] = [digest |-> d, owner |-> held[a].owner]]
    /\ fence' = [epoch |-> held[a].generation, owner |-> held[a].owner]
    /\ UNCHANGED <<lease, generation, clock, held>>

\* release works on an expired lease too, and asks for no generation.
Release(a) ==
    /\ AssertCurrent(a)
    /\ lease' = NoLease
    /\ UNCHANGED <<generation, committed, clock, held, fence>>

\* An actor restarts and loses its lease object; the guard does not notice.
Restart(a) ==
    /\ held' = [held EXCEPT ![a] = NoLease]
    /\ UNCHANGED <<lease, generation, committed, clock, fence>>

Call(a) ==
    \/ \E now \in Instant : Reacquire(a, now)
    \/ \E now \in Instant, ttl \in Ttl, expected \in 0 .. generation :
          Grant(a, now, ttl, expected)
    \/ \E now \in Instant, ttl \in Ttl : Renew(a, now, ttl)
    \/ \E now \in Instant, k \in Key, d, readback \in Digest :
          Commit(a, k, d, readback, now)
    \/ Release(a)
    \/ Restart(a)

Next == Tick \/ \E a \in Actor : Call(a)

Spec == Init /\ [][Next]_vars

-----------------------------------------------------------------------------
TypeOK ==
    /\ lease \in WriteLease \cup {NoLease}
    /\ generation \in Nat
    /\ committed \in [Key -> CommittedWrite \cup {NoCommit}]
    /\ clock \in Nat
    /\ held \in [Actor -> WriteLease \cup {NoLease}]
    /\ fence \in [epoch : Nat, owner : Owner \cup {NoCommit}]

\* The current lease and every copy an actor still holds, outdated or not.
LeaseObjects == ({held[a] : a \in Actor} \cup {lease}) \ {NoLease}

\* A generation identifies one ownership: all lease objects of one generation
\* belong to one owner, and none is ahead of the guard's counter.
OneOwnerPerGeneration ==
    /\ \A l \in LeaseObjects : l.generation <= generation
    /\ \A l, m \in LeaseObjects : l.generation = m.generation => l.owner = m.owner

\* A lease that is live by the wall clock changes hands only through its
\* holder's release: a waiting writer can never take it over, however late
\* its call arrives and whatever generation it names.
LiveLeaseNotTaken ==
    [][ /\ lease # NoLease
        /\ clock < lease.expires_at
        /\ lease' # NoLease
        => lease'.generation = lease.generation /\ lease'.owner = lease.owner ]_vars

\* The guard implements a fenced write-once store.
Store == INSTANCE FencedStore
           WITH store <- committed, Unwritten <- NoCommit
ImplementsFencedStore == Store!Spec
=============================================================================
