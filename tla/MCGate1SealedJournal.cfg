CONSTANTS
    Writer = {w1, w2}
    Journal <- MCJournal
    Id = {"s0", "s1", "s2", "h1"}
    Body = {"text"}
    NoCall = NoCall
    Free = Free
    Leaked = Leaked
    r1 = r1
    r2 = r2
    r3 = r3
    first = first
    second = second
    Revision = {r1, r2, r3}
    Research = {first, second}
    ResearchOf <- MCResearchOf
    Plan <- MCPlan
    Phases <- MCPhases
    Kinds <- MCKinds
    RecordCount <- MCRecordCount
    NoNotes = NoNotes
SPECIFICATION SealSpec
PROPERTIES
    SealedJournalUntouched
