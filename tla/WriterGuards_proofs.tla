--------------------------- MODULE WriterGuards_proofs ---------------------------
(***************************************************************************)
(* Proofs about the two guards of the canonical data, which share neither  *)
(* state nor definitions.                                                  *)
(*                                                                         *)
(* The canonical write guard: its types, one owner per lease generation,   *)
(* no theft of a live lease, and the refinement of the fenced write-once   *)
(* store, for any actors, owners, keys, payloads, ttls, delays and bounds. *)
(*                                                                         *)
(* Coordinated runs: their types, one live holder of the lock file, no     *)
(* half-written block under a holder, and fresh merges, for any runs,      *)
(* delivering threads, attempts and staleness, whatever crashes and        *)
(* recoveries there were.                                                  *)
(***************************************************************************)
EXTENDS CanonicalWrite, CoordinatedRun, TLAPS

-----------------------------------------------------------------------------
(* The canonical write guard *)

\* Why a commit never goes below the fence: the current lease has the newest
\* generation, and whatever lease shares the fence's generation has its owner.
FenceBehindLease ==
    /\ lease # NoLease => lease.generation = generation
    /\ fence.epoch <= generation
    /\ \A l \in LeaseObjects : l.generation = fence.epoch => l.owner = fence.owner

Inv == TypeOK /\ OneOwnerPerGeneration /\ FenceBehindLease

LEMMA LeaseType == ASSUME TypeOK PROVE LeaseObjects \subseteq WriteLease
BY DEF TypeOK, LeaseObjects

LEMMA TypeInit == Init => TypeOK
BY DEF Init, TypeOK

LEMMA NextGenerationType == generation \in Nat => NextGeneration \in Nat \ {0}
BY DEF NextGeneration

LEMMA TypeNext == TypeOK /\ [Next]_vars => TypeOK'
<1> SUFFICES ASSUME TypeOK, [Next]_vars PROVE TypeOK'
  OBVIOUS
<1> USE DEF TypeOK
<1>1. CASE UNCHANGED vars
  BY <1>1 DEF vars
<1>2. CASE Tick
  BY <1>2 DEF Tick
<1>3. ASSUME NEW a \in Actor, NEW now \in Instant, Reacquire(a, now) PROVE TypeOK'
  BY <1>3 DEF Reacquire
<1>4. ASSUME NEW a \in Actor, NEW now \in Instant, NEW ttl \in Ttl, NEW e,
             Grant(a, now, ttl, e) PROVE TypeOK'
  <2>1. now \in Nat /\ now + ttl \in Nat /\ OwnerOf[a] \in Owner
    BY TimeAssumption, OwnerAssumption DEF Instant
  <2>2. [owner |-> OwnerOf[a], acquired_at |-> now,
         expires_at |-> now + ttl, generation |-> NextGeneration] \in WriteLease
    BY <2>1, NextGenerationType DEF WriteLease
  <2> QED BY <1>4, <2>2, NextGenerationType DEF Grant
<1>5. ASSUME NEW a \in Actor, NEW now \in Instant, NEW ttl \in Ttl, Renew(a, now, ttl) PROVE TypeOK'
  <2>1. now + ttl \in Nat
    BY TimeAssumption DEF Instant
  <2>2. held[a] \in WriteLease
    BY <1>5 DEF Renew, AssertCurrent
  <2>3. lease' \in WriteLease
    BY <1>5, <2>1, <2>2 DEF Renew, WriteLease
  <2> QED BY <1>5, <2>3 DEF Renew
<1>6. ASSUME NEW a \in Actor, NEW now \in Instant, NEW k \in Key,
             NEW d \in Digest, NEW readback \in Digest, Commit(a, k, d, readback, now)
      PROVE  TypeOK'
  <2>1. held[a] \in WriteLease
    BY <1>6 DEF Commit, AssertCurrent
  <2> QED BY <1>6, <2>1 DEF Commit, WriteLease, CommittedWrite
<1>7. ASSUME NEW a \in Actor, Release(a) PROVE TypeOK'
  BY <1>7 DEF Release
<1>8. ASSUME NEW a \in Actor, Restart(a) PROVE TypeOK'
  BY <1>8 DEF Restart
<1> QED BY <1>1, <1>2, <1>3, <1>4, <1>5, <1>6, <1>7, <1>8 DEF Next, Call

\* Clock, lease, generation, fence, commits and what each actor holds keep
\* their types, whatever the calls (canonical_write.py).
THEOREM TypeCorrect == Spec => []TypeOK
BY TypeInit, TypeNext, PTL DEF Spec

-----------------------------------------------------------------------------
\* A step that brings in no new lease object and grants no generation.
LEMMA NoNewObject ==
    ASSUME Inv, TypeOK', LeaseObjects' \subseteq LeaseObjects,
           UNCHANGED generation, UNCHANGED fence, lease' \in {lease, NoLease}
    PROVE  Inv'
BY DEF Inv, OneOwnerPerGeneration, FenceBehindLease

LEMMA NextInv == Inv /\ [Next]_vars => Inv'
<1> SUFFICES ASSUME Inv, [Next]_vars PROVE Inv'
  OBVIOUS
<1>t. TypeOK /\ TypeOK' /\ LeaseObjects \subseteq WriteLease /\ LeaseObjects' \subseteq WriteLease
  <2>1. TypeOK /\ TypeOK'
    BY TypeNext DEF Inv
  <2>2. LeaseObjects' \subseteq WriteLease
    BY <2>1 DEF LeaseObjects, TypeOK
  <2> QED BY <2>1, <2>2, LeaseType
<1>1. CASE UNCHANGED vars
  BY <1>1, <1>t, NoNewObject DEF vars, LeaseObjects
<1>2. CASE Tick
  BY <1>2, <1>t, NoNewObject DEF Tick, LeaseObjects
<1>3. ASSUME NEW a \in Actor, NEW now \in Instant, Reacquire(a, now) PROVE Inv'
  <2>1. LeaseObjects' \subseteq LeaseObjects
    BY <1>3, <1>t DEF Reacquire, Reacquirable, LeaseObjects, TypeOK
  <2> QED BY <1>3, <1>t, <2>1, NoNewObject DEF Reacquire
<1>4. ASSUME NEW a \in Actor, NEW now \in Instant, NEW ttl \in Ttl, NEW e,
             Grant(a, now, ttl, e) PROVE Inv'
  <2> DEFINE granted == [owner |-> OwnerOf[a], acquired_at |-> now,
                         expires_at |-> now + ttl, generation |-> NextGeneration]
  <2>1. /\ generation' = generation + 1 /\ generation \in Nat
        /\ lease' = granted /\ granted.generation = generation + 1
        /\ UNCHANGED fence /\ fence.epoch \in Nat
    BY <1>4, <1>t DEF Grant, NextGeneration, TypeOK
  <2> HIDE DEF granted
  <2>2. LeaseObjects' \subseteq LeaseObjects \cup {granted}
    BY <1>4, <1>t DEF Grant, LeaseObjects, TypeOK, granted
  <2>3. \A l \in LeaseObjects : l.generation \in Nat /\ l.generation <= generation
    BY <1>t DEF Inv, OneOwnerPerGeneration, WriteLease
  <2>4. fence.epoch <= generation
    BY DEF Inv, FenceBehindLease
  <2>5. OneOwnerPerGeneration'
    BY <2>1, <2>2, <2>3 DEF Inv, OneOwnerPerGeneration
  <2>6. FenceBehindLease'
    BY <2>1, <2>2, <2>3, <2>4 DEF Inv, FenceBehindLease
  <2> QED BY <1>t, <2>5, <2>6 DEF Inv
<1>5. ASSUME NEW a \in Actor, NEW now \in Instant, NEW ttl \in Ttl, Renew(a, now, ttl) PROVE Inv'
  <2>1. /\ lease \in LeaseObjects /\ lease \in WriteLease
        /\ lease' = [lease EXCEPT !.expires_at = now + ttl]
        /\ UNCHANGED <<generation, fence>>
    BY <1>5, <1>t DEF Renew, AssertCurrent, LeaseObjects
  <2>2. lease'.generation = lease.generation /\ lease'.owner = lease.owner
    BY <2>1 DEF WriteLease
  <2>3. LeaseObjects' \subseteq LeaseObjects \cup {lease'}
    BY <1>5, <1>t DEF Renew, LeaseObjects, TypeOK
  <2>4. OneOwnerPerGeneration'
    BY <2>1, <2>2, <2>3 DEF Inv, OneOwnerPerGeneration
  <2>5. FenceBehindLease'
    BY <2>1, <2>2, <2>3 DEF Inv, FenceBehindLease, LeaseObjects
  <2> QED BY <1>t, <2>4, <2>5 DEF Inv
<1>6. ASSUME NEW a \in Actor, NEW now \in Instant, NEW k \in Key,
             NEW d \in Digest, NEW readback \in Digest, Commit(a, k, d, readback, now)
      PROVE  Inv'
  <2>1. /\ lease \in LeaseObjects /\ lease \in WriteLease
        /\ fence' = [epoch |-> lease.generation, owner |-> lease.owner]
        /\ LeaseObjects' = LeaseObjects
        /\ UNCHANGED <<generation, lease>>
    BY <1>6, <1>t DEF Commit, AssertCurrent, LeaseObjects
  <2>2. OneOwnerPerGeneration'
    BY <2>1 DEF Inv, OneOwnerPerGeneration
  <2>3. FenceBehindLease'
    BY <2>1 DEF Inv, FenceBehindLease, OneOwnerPerGeneration
  <2> QED BY <1>t, <2>2, <2>3 DEF Inv
<1>7. ASSUME NEW a \in Actor, Release(a) PROVE Inv'
  BY <1>7, <1>t, NoNewObject DEF Release, LeaseObjects
<1>8. ASSUME NEW a \in Actor, Restart(a) PROVE Inv'
  <2>1. LeaseObjects' \subseteq LeaseObjects
    BY <1>8, <1>t DEF Restart, LeaseObjects, TypeOK
  <2> QED BY <1>8, <1>t, <2>1, NoNewObject DEF Restart
<1> QED BY <1>1, <1>2, <1>3, <1>4, <1>5, <1>6, <1>7, <1>8 DEF Next, Call

LEMMA InitInv == Init => Inv
<1> SUFFICES ASSUME Init PROVE Inv
  OBVIOUS
<1>1. LeaseObjects = {}
  BY DEF Init, LeaseObjects
<1> QED BY <1>1, TypeInit DEF Init, Inv, OneOwnerPerGeneration, FenceBehindLease

\* The fence never runs ahead of the lease generation, and a lease of the
\* fence's generation has the fence's owner (canonical_write.py commit).
THEOREM InvCorrect == Spec => []Inv
BY InitInv, NextInv, PTL DEF Spec

\* Two lease objects of one generation never belong to different owners.
THEOREM GenerationsCorrect == Spec => []OneOwnerPerGeneration
<1>1. Inv => OneOwnerPerGeneration
  BY DEF Inv
<1> QED BY <1>1, InvCorrect, PTL

\* A lease live by the wall clock leaves its owner only by release.
THEOREM NoTheft == Spec => LiveLeaseNotTaken
<1>1. Inv /\ [Next]_vars =>
        [/\ lease # NoLease
         /\ clock < lease.expires_at
         /\ lease' # NoLease
         => lease'.generation = lease.generation /\ lease'.owner = lease.owner]_vars
  <2> SUFFICES ASSUME TypeOK, Next, lease # NoLease, clock < lease.expires_at, lease' # NoLease
               PROVE  lease'.generation = lease.generation /\ lease'.owner = lease.owner
    BY DEF Inv
  <2>1. ASSUME NEW a \in Actor, NEW now \in Instant, NEW ttl \in Ttl, NEW e,
               Grant(a, now, ttl, e) PROVE FALSE
    <3>1. now >= lease.expires_at
      BY <2>1 DEF Grant, Grantable, Expired
    <3>2. now \in Nat /\ now <= clock /\ clock \in Nat /\ lease.expires_at \in Nat
      BY DEF Instant, TypeOK, WriteLease
    <3> QED BY <3>1, <3>2
  <2>2. ASSUME NEW a \in Actor, NEW now \in Instant, NEW ttl \in Ttl, Renew(a, now, ttl)
        PROVE  lease'.generation = lease.generation /\ lease'.owner = lease.owner
    BY <2>2 DEF Renew, AssertCurrent, TypeOK, WriteLease
  <2> QED BY <2>1, <2>2 DEF Next, Call, Tick, Reacquire, Commit, Release, Restart
<1> QED BY <1>1, InvCorrect, PTL DEF Spec, LiveLeaseNotTaken

\* The guard is a fenced write-once store: a commit is a write of an unwritten
\* key at or above the fence, and every other call is a stutter of the store.
THEOREM Refinement == Spec => ImplementsFencedStore
<1>1. Init => Store!Init
  BY DEF Init, Store!Init, Store!NoWriter
<1>2. Inv /\ [Next]_vars => [Store!Next]_<<committed, fence>>
  <2> SUFFICES ASSUME Inv, [Next]_vars PROVE [Store!Next]_<<committed, fence>>
    OBVIOUS
  <2>1. ASSUME NEW a \in Actor, NEW now \in Instant, NEW k \in Key,
               NEW d \in Digest, NEW readback \in Digest, Commit(a, k, d, readback, now)
        PROVE  Store!Next
    <3>1. lease \in WriteLease /\ lease # NoLease /\ held[a] = lease
      BY <2>1 DEF Commit, AssertCurrent, Inv, TypeOK
    <3>2. /\ committed[k] = NoCommit
          /\ committed' = [committed EXCEPT ![k] = [digest |-> d, owner |-> lease.owner]]
          /\ fence' = [epoch |-> lease.generation, owner |-> lease.owner]
      BY <2>1, <3>1 DEF Commit, Disposition
    <3>3. /\ lease.generation \in Nat /\ lease.owner \in Owner
          /\ lease.generation >= fence.epoch
          /\ lease.generation = fence.epoch => fence.owner = lease.owner
      BY <3>1 DEF WriteLease, Inv, TypeOK, FenceBehindLease, LeaseObjects
    <3>4. Store!Write(k, d, lease.owner)
      BY <3>2, <3>3 DEF Store!Write
    <3> QED BY <3>3, <3>4 DEF Store!Next
  <2> QED BY <2>1 DEF Next, Call, Tick, Reacquire, Grant, Renew, Release, Restart, vars
<1> QED BY <1>1, <1>2, InvCorrect, PTL DEF Spec, ImplementsFencedStore, Store!Spec

-----------------------------------------------------------------------------
(* Coordinated runs *)

\* An alert that delivery may still take up has an attempt left.
AttemptsLeft == \A r \in Runs : alert[r].status \notin Settled => alert[r].attempts < MaxAttempts

\* A run between the creation of the lock file and the writing of its text
\* owns the file that nobody can read yet.
CreatorOwns == \A r \in Runs : pc[r] = "created" => lock = [by |-> r, readable |-> FALSE]

\* Only dead runs are being recovered.
RecoveringAreDead == \A r \in recovering : pc[r] = "crashed"

LockInv == OneHolder /\ CreatorOwns /\ RecoveringAreDead

\* A block is half written only by the run the lock file still names, which
\* is writing it or died while it did.
BrokenIsGuarded ==
    ~intact => \E r \in Runs : lock.by = r /\ pc[r] \in {"merging", "crashed"}

RunInv == RunTypeOK /\ LockInv /\ BrokenIsGuarded

-----------------------------------------------------------------------------
(* Types *)

LEMMA RunTypeInit == RunInit => RunTypeOK /\ AttemptsLeft
BY CoordinatedRunAssumption DEF RunInit, RunTypeOK, AttemptsLeft, NoLock, Unseen, Silent, NoAlert,
   NotSending, Statuses, Settled

LEMMA OutcomeType ==
    ASSUME NEW n \in 1 .. MaxAttempts, NEW delivered \in BOOLEAN
    PROVE  /\ Outcome(n, delivered) \in [status : Statuses, attempts : 0 .. MaxAttempts]
           /\ Outcome(n, delivered).status \notin Settled
                  => Outcome(n, delivered).attempts < MaxAttempts
BY CoordinatedRunAssumption DEF Outcome, Statuses, Settled

LEMMA RunTypeNext == RunTypeOK /\ AttemptsLeft /\ [RunNext]_runVars => RunTypeOK' /\ AttemptsLeft'
<1> SUFFICES ASSUME RunTypeOK, AttemptsLeft, [RunNext]_runVars PROVE RunTypeOK' /\ AttemptsLeft'
  OBVIOUS
<1> USE CoordinatedRunAssumption DEF RunTypeOK, AttemptsLeft
<1>1. CASE UNCHANGED runVars
  BY <1>1 DEF runVars, lockVars, alertVars
<1>2. ASSUME NEW r \in Runs, Begin(r) PROVE RunTypeOK' /\ AttemptsLeft'
  BY <1>2 DEF Begin, alertVars, Ended, Unseen, Silent
<1>3. ASSUME NEW r \in Runs, Heartbeat(r) PROVE RunTypeOK' /\ AttemptsLeft'
  BY <1>3 DEF Heartbeat, lockVars, alertVars, Unseen, Silent
<1>4. ASSUME NEW r \in Runs, RunStep(r) PROVE RunTypeOK' /\ AttemptsLeft'
  <2> USE DEF alertVars, Ended, NoLock
  <2>1. CASE CreateLock(r)
    BY <2>1 DEF CreateLock
  <2>2. CASE RefuseLock(r)
    BY <2>2 DEF RefuseLock
  <2>3. CASE WriteLock(r)
    BY <2>3 DEF WriteLock
  <2>4. CASE WriteLockFails(r)
    BY <2>4 DEF WriteLockFails
  <2>5. CASE CompareSnapshot(r)
    BY <2>5 DEF CompareSnapshot
  <2>6. CASE StartMerge(r)
    BY <2>6 DEF StartMerge
  <2>7. CASE EndMerge(r)
    BY <2>7 DEF EndMerge
  <2>8. CASE ReleaseCheck(r)
    BY <2>8 DEF ReleaseCheck
  <2>9. CASE Unlink(r)
    BY <2>9 DEF Unlink
  <2> QED BY <1>4, <2>1, <2>2, <2>3, <2>4, <2>5, <2>6, <2>7, <2>8, <2>9 DEF RunStep
<1>5. ASSUME NEW r \in Runs, Crash(r) PROVE RunTypeOK' /\ AttemptsLeft'
  BY <1>5 DEF Crash, alertVars, Ended
<1>6. CASE TimePasses
  BY <1>6 DEF TimePasses, Older, lockVars, alertVars, Unseen, Silent
<1>7. CASE DetectStale
  BY <1>7 DEF DetectStale, RaiseAlert, NoAlert, lockVars, Statuses, Settled
<1>8. ASSUME NEW d \in Deliverers, NEW r \in Runs, Send(d, r) PROVE RunTypeOK' /\ AttemptsLeft'
  BY <1>8 DEF Send, lockVars, Statuses
<1>9. ASSUME NEW d \in Deliverers, NEW delivered \in BOOLEAN, Answer(d, delivered)
      PROVE  RunTypeOK' /\ AttemptsLeft'
  <2>1. sending[d].attempts + 1 \in 1 .. MaxAttempts
    OBVIOUS
  <2>2. /\ Outcome(sending[d].attempts + 1, delivered)
               \in [status : Statuses, attempts : 0 .. MaxAttempts]
        /\ Outcome(sending[d].attempts + 1, delivered).status \notin Settled
               => Outcome(sending[d].attempts + 1, delivered).attempts < MaxAttempts
    BY <2>1, OutcomeType
  <2> DEFINE o == Outcome(sending[d].attempts + 1, delivered)
             r == sending[d].run
  <2>3. alert' = [alert EXCEPT ![r] = o]
    BY <1>9 DEF Answer
  <2> HIDE DEF o
  <2>4. alert' \in [Runs -> [status : Statuses, attempts : 0 .. MaxAttempts]]
    BY <2>2, <2>3 DEF o
  <2>5. AttemptsLeft'
    BY <2>2, <2>3 DEF o
  <2>6. sending' \in [Deliverers -> [run : Runs \cup {"none"}, attempts : 0 .. MaxAttempts - 1]]
    BY <1>9 DEF Answer, NotSending
  <2> QED BY <1>9, <2>4, <2>5, <2>6 DEF Answer, lockVars
<1>10. ASSUME NEW r \in Runs, OperatorStep(r) PROVE RunTypeOK' /\ AttemptsLeft'
  <2>1. CASE Acknowledge(r)
    BY <1>10, <2>1 DEF Acknowledge, lockVars, Statuses, Settled
  <2>2. CASE Repair(r)
    BY <1>10, <2>2 DEF Repair, alertVars
  <2>3. CASE Recover(r)
    BY <1>10, <2>3 DEF Recover, alertVars, NoLock
  <2> QED BY <1>10, <2>1, <2>2, <2>3 DEF OperatorStep
<1> QED BY <1>1, <1>2, <1>3, <1>4, <1>5, <1>6, <1>7, <1>8, <1>9, <1>10 DEF RunNext

\* Every variable keeps its type, the attempts of an alert their limit
\* included (AlertDispatcher.deliver).
THEOREM RunTypeCorrect == RunSpec => []RunTypeOK
BY RunTypeInit, RunTypeNext, PTL DEF RunSpec

-----------------------------------------------------------------------------
(* The lock *)

\* Steps of the monitor, of the dispatcher and of a heartbeat.
LEMMA WatchersKeep ==
    ASSUME \/ \E r \in Runs : Heartbeat(r)
           \/ TimePasses \/ DetectStale
           \/ \E d \in Deliverers, r \in Runs : Send(d, r)
           \/ \E d \in Deliverers, delivered \in BOOLEAN : Answer(d, delivered)
    PROVE  UNCHANGED <<lockVars, recovering>>
BY DEF Heartbeat, TimePasses, DetectStale, Send, Answer, lockVars

LEMMA LockNext == RunTypeOK /\ LockInv /\ [RunNext]_runVars => LockInv'
<1> SUFFICES ASSUME RunTypeOK, LockInv, [RunNext]_runVars PROVE LockInv'
  OBVIOUS
<1> USE CoordinatedRunAssumption
        DEF RunTypeOK, LockInv, OneHolder, CreatorOwns, RecoveringAreDead, LockNames, Holding
<1>1. CASE UNCHANGED <<lockVars, recovering>>
  BY <1>1 DEF lockVars
<1>2. ASSUME NEW r \in Runs, Begin(r) PROVE LockInv'
  BY <1>2 DEF Begin
<1>3. ASSUME NEW r \in Runs, RunStep(r) PROVE LockInv'
  <2>1. CASE CreateLock(r)
    <3>1. \A q \in Runs : pc[q] \notin Holding \cup {"created"}
      BY <2>1 DEF CreateLock, NoLock
    <3> QED BY <2>1, <3>1 DEF CreateLock
  <2>2. CASE RefuseLock(r)
    BY <2>2 DEF RefuseLock
  <2>3. CASE WriteLock(r)
    BY <2>3 DEF WriteLock
  <2>4. CASE WriteLockFails(r)
    <3>1. \A q \in Runs \ {r} : pc[q] \notin Holding \cup {"created"}
      BY <2>4 DEF WriteLockFails
    <3> QED BY <2>4, <3>1 DEF WriteLockFails
  <2>5. CASE CompareSnapshot(r)
    BY <2>5 DEF CompareSnapshot
  <2>6. CASE StartMerge(r)
    BY <2>6 DEF StartMerge
  <2>7. CASE EndMerge(r)
    BY <2>7 DEF EndMerge
  <2>8. CASE ReleaseCheck(r)
    BY <2>8 DEF ReleaseCheck
  <2>9. CASE Unlink(r)
    <3>1. \A q \in Runs \ {r} : pc[q] \notin Holding \cup {"created"}
      BY <2>9 DEF Unlink
    <3> QED BY <2>9, <3>1 DEF Unlink
  <2> QED BY <1>3, <2>1, <2>2, <2>3, <2>4, <2>5, <2>6, <2>7, <2>8, <2>9 DEF RunStep
<1>4. ASSUME NEW r \in Runs, Crash(r) PROVE LockInv'
  BY <1>4 DEF Crash
<1>5. ASSUME NEW r \in Runs, OperatorStep(r) PROVE LockInv'
  <2>1. CASE Acknowledge(r)
    BY <2>1 DEF Acknowledge, lockVars
  <2>2. CASE Repair(r)
    BY <2>2 DEF Repair
  <2>3. CASE Recover(r)
    <3>1. lock.by = r => \A q \in Runs : pc[q] \notin Holding \cup {"created"}
      BY <2>3 DEF Recover
    <3> QED BY <2>3, <3>1 DEF Recover
  <2> QED BY <1>5, <2>1, <2>2, <2>3 DEF OperatorStep
<1> QED BY <1>1, <1>2, <1>3, <1>4, <1>5, WatchersKeep DEF RunNext, runVars

-----------------------------------------------------------------------------
(* What the lock protects *)

LEMMA HolderExcludes ==
    ASSUME LockInv, NEW r \in Runs, NEW q \in Runs, q # r,
           pc[r] \in Holding \cup {"created"}
    PROVE  pc[q] \notin Holding \cup {"created"}
BY DEF LockInv, OneHolder, CreatorOwns, LockNames

LEMMA WholeNext == RunTypeOK /\ LockInv /\ BrokenIsGuarded /\ [RunNext]_runVars => BrokenIsGuarded'
<1> SUFFICES ASSUME RunTypeOK, LockInv, BrokenIsGuarded, [RunNext]_runVars PROVE BrokenIsGuarded'
  OBVIOUS
<1> USE CoordinatedRunAssumption DEF RunTypeOK, BrokenIsGuarded
<1>1. CASE UNCHANGED <<lockVars, recovering>>
  BY <1>1 DEF lockVars
<1>2. ASSUME NEW r \in Runs, Begin(r) PROVE BrokenIsGuarded'
  BY <1>2 DEF Begin
<1>3. ASSUME NEW r \in Runs, RunStep(r) PROVE BrokenIsGuarded'
  <2>1. CASE CreateLock(r)
    BY <2>1 DEF CreateLock, NoLock
  <2>2. CASE RefuseLock(r)
    BY <2>2 DEF RefuseLock
  <2>3. CASE WriteLock(r)
    BY <2>3 DEF WriteLock
  <2>4. CASE WriteLockFails(r)
    BY <2>4 DEF WriteLockFails, LockInv, CreatorOwns
  <2>5. CASE CompareSnapshot(r)
    BY <2>5 DEF CompareSnapshot
  <2>6. CASE StartMerge(r)
    BY <2>6 DEF StartMerge, LockInv, OneHolder, LockNames, Holding
  <2>7. CASE EndMerge(r)
    BY <2>7 DEF EndMerge
  <2>8. CASE ReleaseCheck(r)
    BY <2>8 DEF ReleaseCheck
  <2>9. CASE Unlink(r)
    BY <2>9 DEF Unlink, LockInv, OneHolder, LockNames, Holding
  <2> QED BY <1>3, <2>1, <2>2, <2>3, <2>4, <2>5, <2>6, <2>7, <2>8, <2>9 DEF RunStep
<1>4. ASSUME NEW r \in Runs, Crash(r) PROVE BrokenIsGuarded'
  BY <1>4 DEF Crash
<1>5. ASSUME NEW r \in Runs, OperatorStep(r) PROVE BrokenIsGuarded'
  BY <1>5 DEF OperatorStep, Acknowledge, Repair, Recover, ReadbackMatches, lockVars
<1> QED BY <1>1, <1>2, <1>3, <1>4, <1>5, WatchersKeep DEF RunNext, runVars

-----------------------------------------------------------------------------
LEMMA RunInvInit == RunInit => RunInv
BY RunTypeInit, CoordinatedRunAssumption
   DEF RunInit, RunInv, LockInv, OneHolder, CreatorOwns, RecoveringAreDead, BrokenIsGuarded,
       Holding

LEMMA RunInvCorrect == RunSpec => []RunInv
<1>1. RunInv /\ AttemptsLeft /\ [RunNext]_runVars => RunInv'
  BY RunTypeNext, LockNext, WholeNext DEF RunInv
<1> QED BY RunInvInit, RunTypeInit, RunTypeNext, <1>1, PTL DEF RunSpec, RunInv

\* The lock file belongs to at most one live run, for any number of runs,
\* crashes and recoveries (coordinator_lock.py acquire, release).
THEOREM LockIsExclusive == RunSpec => []OneHolder
<1>1. RunInv => OneHolder
  BY DEF RunInv, LockInv
<1> QED BY RunInvCorrect, <1>1, PTL

\* No holder meets a block that a dead run left half written, because the
\* lock outlives the crash until the readback matches (operations.py
\* verify_recovery_readback).
THEOREM HolderIsSafe == RunSpec => []HolderSeesWholeState
<1>1. RunInv => HolderSeesWholeState
  BY DEF RunInv, LockInv, OneHolder, LockNames, BrokenIsGuarded, HolderSeesWholeState, Holding
<1> QED BY RunInvCorrect, <1>1, PTL
=============================================================================
