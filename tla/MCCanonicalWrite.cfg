CONSTANTS
    run = run
    restarted = restarted
    recovery = recovery
    Actor = {run, restarted, recovery}
    Owner = {"coordinator", "recovery"}
    OwnerOf <- MCOwnerOf
    Key = {RunLedger, ReplayDaily}
    Digest = {d1, d2}
    Ttl = {1, 2}
    MaxClock = 3
    MaxGeneration = 3
    MaxDelay = 1
    NoLease = NoLease
    NoCommit = NoCommit
SPECIFICATION Spec
SYMMETRY Symmetry
PROPERTIES
    LiveLeaseNotTaken
    ImplementsFencedStore
