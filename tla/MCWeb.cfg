SPECIFICATION MCSpec
CONSTANTS
    Keep <- MCKeep
    MaxSpan <- MCMaxSpan
    MaxNow = 8
    Kind <- MCKind
    Limit = 1
    Selections = {"day", "morning", "evening"}
    MaxLoads = 3
    MaxSubmits = 2
    MaxPasswords = 2
INVARIANTS LastDayComplete ShownIsCurrent AcksAreTrue ReportIsTrue PromptIsVisible
CHECK_DEADLOCK FALSE
