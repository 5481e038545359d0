--------------------------- MODULE CoordinatedRun ---------------------------
(***************************************************************************)
(* Coordinator runs that check that a worker's snapshot is still fresh      *)
(* (snapshot.py), take the canonical write lock file (coordinator_lock.py), *)
(* merge one block, and give the lock back, while a monitor watches their  *)
(* heartbeats, a dispatcher delivers alerts about the silent ones, and an  *)
(* operator recovers what they left (operations.py).                       *)
(*                                                                         *)
(* The classes have no caller in the package besides their tests.  A run   *)
(* uses them in the order of the coordinator's contract                    *)
(* (agents/coordinator.md:9-14, and the multi-agent design, 263-271): the  *)
(* snapshot is compared before the lock is acquired.  That order and the   *)
(* operator's moves are external.                                          *)
(*                                                                         *)
(* A run may stall, and may crash between any two steps, the creation of    *)
(* the lock file and the writing of its text included.  Several threads    *)
(* may be inside AlertDispatcher.deliver at once: the class has no lock,    *)
(* and deliver writes back an alert it read before it called the sink.     *)
(***************************************************************************)
EXTENDS Integers, FiniteSets

CONSTANTS Runs,         \* run ids; the caller never reuses one
          Deliverers,   \* threads that poll AlertDispatcher.deliver
          MaxAttempts,  \* AlertDispatcher max_attempts
          StaleAfter    \* RunMonitor stale_after, in whole ticks

ASSUME CoordinatedRunAssumption ==
    /\ MaxAttempts \in Nat \ {0}
    /\ StaleAfter \in Nat
    /\ "none" \notin Runs

VARIABLES
    lock,        \* the lock file: absent, or who created it and whether its text is complete
    pc,          \* where each run is
    manifest,    \* the canonical version a run's worker consumed
    version,     \* the current canonical version
    intact,      \* no block is half written
    merged,      \* the merges so far: the version consumed, the version replaced
    age,         \* ticks since a run's last heartbeat, saturating; Unseen before the first
    alert,       \* the STALE_RUN alert of each run in the dispatcher's table
    sending,     \* the alert each thread read before it called the sink
    recovering   \* runs the operator found dead when acknowledging

lockVars == <<lock, pc, manifest, version, intact, merged>>
alertVars == <<alert, sending>>
runVars == <<lockVars, age, alertVars, recovering>>

NoLock == [by |-> "none", readable |-> FALSE]
Unseen == -1
Silent == StaleAfter + 1     \* every age above stale_after is the same
NoAlert == [status |-> "NONE", attempts |-> 0]
NotSending == [run |-> "none", attempts |-> 0]

Ended == {"done", "refused", "failed"}
Live(r) == pc[r] \notin Ended \cup {"idle", "crashed"}

Statuses == {"NONE", "PENDING", "RETRY_PENDING", "DELIVERED", "ESCALATED", "ACKNOWLEDGED"}
SettledWithRetry == {"RETRY_PENDING", "DELIVERED", "ESCALATED", "ACKNOWLEDGED"}  \* Mutant: no retry.
Settled == {"DELIVERED", "ESCALATED", "ACKNOWLEDGED"}

RunInit == /\ lock = NoLock
           /\ pc = [r \in Runs |-> "idle"]
           /\ manifest = [r \in Runs |-> 0]
           /\ version = 0
           /\ intact = TRUE
           /\ merged = {}
           /\ age = [r \in Runs |-> Unseen]
           /\ alert = [r \in Runs |-> NoAlert]
           /\ sending = [d \in Deliverers |-> NotSending]
           /\ recovering = {}

-----------------------------------------------------------------------------
(* A run.  The definitions marked Mutant are bugs that the checks must find. *)

\* The worker's manifest is dispatched and the run reports for the first time.
Begin(r) == /\ pc[r] = "idle"
            /\ pc' = [pc EXCEPT ![r] = "begun"]
            /\ manifest' = [manifest EXCEPT ![r] = version]
            /\ age' = [age EXCEPT ![r] = 0]
            /\ UNCHANGED <<lock, version, intact, merged, alertVars, recovering>>

\* RunMonitor.heartbeat.  Beats after the run's alert is raised are left out:
\* raise_alert raises it once, so that they change nothing.
Heartbeat(r) == /\ Live(r)
                /\ age[r] # 0
                /\ alert[r] = NoAlert
                /\ age' = [age EXCEPT ![r] = 0]
                /\ UNCHANGED <<lockVars, alertVars, recovering>>

\* verify_manifest_snapshot_lineage, which ends in verify_snapshot_fresh: the
\* digests the worker consumed are the current ones, or StaleSnapshotError.
SnapshotFresh(r) == manifest[r] = version

CompareSnapshot(r) == /\ pc[r] = "begun"
                      /\ pc' = [pc EXCEPT ![r] = IF SnapshotFresh(r) THEN "checked" ELSE "refused"]
                      /\ UNCHANGED <<lock, manifest, version, intact, merged, age, alertVars, recovering>>

\* Mutant: a lock file that cannot be read is taken for a leftover.
CreateOverUnreadable(r) == /\ pc[r] = "checked"
                           /\ ~lock.readable
                           /\ lock' = [by |-> r, readable |-> FALSE]
                           /\ pc' = [pc EXCEPT ![r] = "created"]
                           /\ UNCHANGED <<manifest, version, intact, merged, age, alertVars, recovering>>

\* acquire: os.open(O_CREAT | O_EXCL) makes an empty file.
CreateLock(r) == /\ pc[r] = "checked"
                 /\ lock = NoLock
                 /\ lock' = [by |-> r, readable |-> FALSE]
                 /\ pc' = [pc EXCEPT ![r] = "created"]
                 /\ UNCHANGED <<manifest, version, intact, merged, age, alertVars, recovering>>

\* acquire: the file exists.  Whatever it holds, readable or not, stale or not,
\* the caller gets a LockHeldError and the file stays.
RefuseLock(r) == /\ pc[r] = "checked"
                 /\ lock # NoLock
                 /\ pc' = [pc EXCEPT ![r] = "refused"]
                 /\ UNCHANGED <<lock, manifest, version, intact, merged, age, alertVars, recovering>>

\* acquire: the text reaches the file ...
WriteLock(r) == /\ pc[r] = "created"
                /\ lock' = [lock EXCEPT !.readable = TRUE]
                /\ pc' = [pc EXCEPT ![r] = "held"]
                /\ UNCHANGED <<manifest, version, intact, merged, age, alertVars, recovering>>

\* ... or the write fails, and whatever is at the path is unlinked.
WriteLockFails(r) == /\ pc[r] = "created"
                     /\ lock' = NoLock
                     /\ pc' = [pc EXCEPT ![r] = "refused"]
                     /\ UNCHANGED <<manifest, version, intact, merged, age, alertVars, recovering>>

\* One bounded block is written, in a step that may be cut ...
StartMerge(r) == /\ pc[r] = "held"
                 /\ intact' = FALSE
                 /\ pc' = [pc EXCEPT ![r] = "merging"]
                 /\ UNCHANGED <<lock, manifest, version, merged, age, alertVars, recovering>>

\* ... and is whole, over whatever the canonical version is by then.
EndMerge(r) == /\ pc[r] = "merging"
               /\ intact' = TRUE
               /\ merged' = merged \cup {[run |-> r, consumed |-> manifest[r], replaced |-> version]}
               /\ version' = version + 1
               /\ pc' = [pc EXCEPT ![r] = "finished"]
               /\ UNCHANGED <<lock, manifest, age, alertVars, recovering>>

\* release: the file exists, can be read and names this run ...
LockNames(r) == lock.by = r /\ lock.readable

ReleaseCheck(r) == /\ pc[r] = "finished"
                   /\ pc' = [pc EXCEPT ![r] = IF LockNames(r) THEN "releasing" ELSE "failed"]
                   /\ UNCHANGED <<lock, manifest, version, intact, merged, age, alertVars, recovering>>

\* ... and then whatever is at the path is unlinked.
Unlink(r) == /\ pc[r] = "releasing"
             /\ lock' = NoLock
             /\ pc' = [pc EXCEPT ![r] = "done"]
             /\ UNCHANGED <<manifest, version, intact, merged, age, alertVars, recovering>>

Crash(r) == /\ Live(r)
            /\ pc' = [pc EXCEPT ![r] = "crashed"]
            /\ UNCHANGED <<lock, manifest, version, intact, merged, age, alertVars, recovering>>

-----------------------------------------------------------------------------
(* The monitor and the dispatcher *)

Older(a) == IF a \in {Unseen, Silent} THEN a ELSE a + 1

TimePasses == /\ age' = [r \in Runs |-> Older(age[r])]
              /\ age' # age
              /\ UNCHANGED <<lockVars, alertVars, recovering>>

\* A run that ended well is never taken out of _heartbeats: it goes stale too.
IsStaleAndLive(r) == age[r] > StaleAfter /\ Live(r)     \* Mutant: only live runs are looked at.
IsStale(r) == age[r] > StaleAfter

\* raise_alert: one alert for a run and a code, ever.
RaiseAlert(r) == IF alert[r] = NoAlert THEN [status |-> "PENDING", attempts |-> 0]
                                       ELSE alert[r]

\* RunMonitor.detect_stale
DetectStale == /\ alert' = [r \in Runs |-> IF IsStale(r) THEN RaiseAlert(r) ELSE alert[r]]
               /\ alert' # alert
               /\ UNCHANGED <<lockVars, age, sending, recovering>>

\* deliver: the alert is read, then the sink is called ...
Send(d, r) == /\ sending[d] = NotSending
              /\ alert[r].status \notin Settled \cup {"NONE"}
              /\ sending' = [sending EXCEPT ![d] = [run |-> r, attempts |-> alert[r].attempts]]
              /\ UNCHANGED <<lockVars, age, alert, recovering>>

\* What deliver writes back, from the alert it read and the sink's answer.
Outcome(attempts, delivered) ==
    [attempts |-> attempts,
     status |-> IF delivered THEN "DELIVERED"
                ELSE IF attempts < MaxAttempts THEN "RETRY_PENDING" ELSE "ESCALATED"]

\* ... and its answer is stored over whatever the table holds by then.  An
\* exception in the sink, one that acknowledging from inside it raises
\* included, is a failed attempt; the escalation sink's is ignored.
Answer(d, delivered) ==
    LET r == sending[d].run
    IN  /\ sending[d] # NotSending
        /\ alert' = [alert EXCEPT ![r] = Outcome(sending[d].attempts + 1, delivered)]
        /\ sending' = [sending EXCEPT ![d] = NotSending]
        /\ UNCHANGED <<lockVars, age, recovering>>

-----------------------------------------------------------------------------
(* The operator *)

\* acknowledge; the operator looks after the run at that moment.
Acknowledge(r) == /\ alert[r].status \in {"DELIVERED", "ESCALATED"}
                  /\ alert' = [alert EXCEPT ![r].status = "ACKNOWLEDGED"]
                  /\ recovering' = IF pc[r] = "crashed" THEN recovering \cup {r} ELSE recovering
                  /\ UNCHANGED <<lockVars, age, sending>>

\* The half-written block of a dead run is restored.
Repair(r) == /\ r \in recovering
             /\ lock.by = r /\ ~intact
             /\ intact' = TRUE
             /\ UNCHANGED <<lock, pc, manifest, version, merged, age, alertVars, recovering>>

\* verify_recovery_readback raises unless the state read back is the expected one.
ReadbackIgnored == TRUE     \* Mutant: the lock is taken away without the readback.
ReadbackMatches == intact

Recover(r) == /\ r \in recovering
              /\ lock.by = r => ReadbackMatches
              /\ lock' = IF lock.by = r THEN NoLock ELSE lock
              /\ recovering' = recovering \ {r}
              /\ UNCHANGED <<pc, manifest, version, intact, merged, age, alertVars>>

-----------------------------------------------------------------------------
RunStep(r) == \/ CompareSnapshot(r)
              \/ CreateLock(r) \/ RefuseLock(r) \/ WriteLock(r) \/ WriteLockFails(r)
              \/ StartMerge(r) \/ EndMerge(r) \/ ReleaseCheck(r) \/ Unlink(r)

OperatorStep(r) == Acknowledge(r) \/ Repair(r) \/ Recover(r)

RunNext == \/ \E r \in Runs : Begin(r) \/ Heartbeat(r) \/ RunStep(r) \/ Crash(r) \/ OperatorStep(r)
           \/ TimePasses
           \/ DetectStale
           \/ \E d \in Deliverers, r \in Runs : Send(d, r)
           \/ \E d \in Deliverers, delivered \in BOOLEAN : Answer(d, delivered)

\* Time passes, the monitor and the dispatcher are polled, every call of a
\* sink returns, and the operator answers the alerts that reach a sink.
\* Nothing is assumed of the runs, of the sinks' answers or of crashes.
Fairness == /\ WF_runVars(TimePasses)
            /\ WF_runVars(DetectStale)
            /\ \A r \in Runs : WF_runVars(\E d \in Deliverers : Send(d, r))
            /\ \A d \in Deliverers : WF_runVars(\E delivered \in BOOLEAN : Answer(d, delivered))
            /\ \A r \in Runs : WF_runVars(OperatorStep(r))

RunSpec == RunInit /\ [][RunNext]_runVars
FairSpec == RunSpec /\ Fairness

-----------------------------------------------------------------------------
RunTypeOK ==
    /\ lock \in [by : Runs \cup {"none"}, readable : BOOLEAN]
    /\ pc \in [Runs -> Ended \cup {"idle", "begun", "checked", "created", "held", "merging",
                                   "finished", "releasing", "crashed"}]
    /\ manifest \in [Runs -> Nat]
    /\ version \in Nat
    /\ intact \in BOOLEAN
    /\ \A m \in merged : m.run \in Runs /\ m.consumed \in Nat /\ m.replaced \in Nat
    /\ age \in [Runs -> Unseen .. Silent]
    /\ alert \in [Runs -> [status : Statuses, attempts : 0 .. MaxAttempts]]
    /\ sending \in [Deliverers -> [run : Runs \cup {"none"}, attempts : 0 .. MaxAttempts - 1]]
    /\ recovering \subseteq Runs

\* The runs between a successful acquire and the end of their release.
Holding == {"held", "merging", "finished", "releasing"}

\* The lock file belongs to at most one live run, whatever crashes and
\* recoveries came before (coordinator_lock.py acquire, release).
OneHolder == \A r \in Runs : pc[r] \in Holding => LockNames(r)

\* A run that holds the lock never finds a block that a dead run left half
\* written: the lock outlives the crash, and the recovery readback fails
\* until the block is restored (operations.py verify_recovery_readback).
HolderSeesWholeState == \A r \in Runs : pc[r] \in Holding \ {"merging"} => intact

\* A merge replaces exactly the version its worker consumed.  The documents'
\* order does not give this: another run may merge between the comparison and
\* the acquisition of the lock (snapshot.py:27).
MergesAreFresh == \A m \in merged : m.consumed = m.replaced

\* Every alert ends acknowledged for good, also when a late answer of the sink
\* overwrites an acknowledgement (AlertDispatcher.deliver, acknowledge).
AlertsSettle ==
    \A r \in Runs : (alert[r] # NoAlert) ~> [](alert[r].status = "ACKNOWLEDGED")

\* The lock file of a run that died is taken away, provided the operator had
\* not already acknowledged a stale alert of that run while it was alive: the
\* dispatcher never raises a second one (AlertDispatcher.raise_alert).
CrashedLockIsRecovered ==
    \A r \in Runs :
        (pc[r] = "crashed" /\ lock.by = r /\ alert[r].status # "ACKNOWLEDGED") ~> (lock.by # r)
=============================================================================
