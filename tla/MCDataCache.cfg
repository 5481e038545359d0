SPECIFICATION Spec
CONSTANTS
    p1 = p1
    p2 = p2
    d1 = d1
    d2 = d2
    x = x
    y = y
    dirty = dirty
    Process <- MCProcess
    Dir <- MCDir
    Content <- MCContent
    Clean <- MCClean
    NoDataset = NoDataset
    NoDir = NoDir
    NoContent = NoContent
    Corrupt = Corrupt
    MaxMoment = 2
    MaxPowerLosses = 1
SYMMETRY Symmetry
INVARIANTS
    LoadedIsClean
    FindIsFresh
    RefreshReusesVersion
