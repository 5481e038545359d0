SPECIFICATION MCSpec
CONSTANTS
    a1 = a1
    a2 = a2
    s1 = s1
    s2 = s2
    g1 = g1
    r1 = r1
    Audits <- MCAudits
    Sealers <- MCSealers
    Authorities = {g1}
    Readers = {r1}
    c1 = c1
    c2 = c2
    Schemers = {c1}
    Campaigners = {c2}
    MethodFiles <- MCMethodFiles
    FrozenFiles = {"b4"}
    SchemaFiles <- MCSchemaFiles
    Bundles = {"b1", "b2", "b3", "b4"}
    Symbols <- MCSymbols
    Candidates = {"c1", "c2"}
    PinnedCandidate = "c1"
    Extras = {"e1"}
    Kinds <- MCKinds
    SourceKinds <- MCSourceKinds
    MaxEdits = 1
    MaxCommits = 1
    Contents <- MCContents
    MaxReplacements = 3
SYMMETRY MCSymmetry
ACTION_CONSTRAINT OnlyReadFilesChange
CHECK_DEADLOCK FALSE
INVARIANTS
    ReadyIsAudited
    SealsAreOneRevision
    ReliedOnIsGuarded
    ChainIsClosed
