SPECIFICATION Spec
CONSTANTS
    p1 = p1
    p2 = p2
    NoKey = "none"
    Processes = {p1, p2}
    Sessions <- MCSessions
    Slots <- MCSlots
    MinUniverse = 1
    MaxUniverse = 2
    Pool <- MCPool
    Versions <- MCVersions
    Answers <- MCAnswers
    Calendars <- MCCalendars
    DigestRank <- MCDigestRank
    MaxCampaigns = 2
    MaxDamage = 1
CHECK_DEADLOCK FALSE
ACTION_CONSTRAINT OneTrouble
INVARIANTS
    SelectedIsClean
    EvidenceIsKept
    RerunReproduces
PROPERTIES
    ManifestIsClosed
    CampaignsEnd
