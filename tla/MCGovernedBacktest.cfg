SPECIFICATION Spec
CONSTANTS
    LastSession = 18
    Nonoverlap = 2
    Horizon = 2
    Fold = {"F1", "F2", "F3"}
    FoldStart <- MCFoldStart
    FoldEnd <- MCFoldEnd
    ResearchEnd = 0
    Episodes <- MCEpisodes
    Flawed <- MCFlawed
    MaxFlawed = 1
    BaselineMedian = {1}
    NoBaseline = NoBaseline
    YearOf <- MCYearOf
    MinIndependent = 4
    MinPerFold = 1
    MinAssets = 3
    MinPerAsset = 1
    SignTestMaxPercent = 10
INVARIANTS
    SelectionIsLargest
    PassIsEarned
    FailureIsNotHidden
