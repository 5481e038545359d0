SPECIFICATION Spec
CONSTANTS
    Evidence <- MCEvidence
    NoScore = NoScore
    Improvement = 1
    MaxCandidates = 3
    Patience = 2
    Candidate <- MCCandidate
    Families <- MCFamilies
    Threshold = 3
    Process = {p1, p2}
    Moment = {t1, t2}
    None = None
    MaxExperiments = 3
    MaxFailures = 1
CHECK_DEADLOCK FALSE
SYMMETRY Symmetric
INVARIANTS
    BestIsNearlyBest
    StopIsJustified
    SnapshotsAreEarned
PROPERTY
    HoldoutIsOneShot
