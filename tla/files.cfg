\* Concurrent tool calls on one file, with failing calls and a paging reader.
CONSTANTS
    x = x
    y = y
    Blank = Blank
    None = None
    Lines <- MCLines
    Procs = {p1, p2}
    Files <- MCFiles
    Inputs <- MCInputs
    PageSizes <- MCPageSizes
    MaxCalls = 2
    MaxFaults = 1
    MaxPages = 3
SPECIFICATION Spec
INVARIANTS
    TypeOK
    PagesShowFile
PROPERTIES
    CallsAreAtomic
    NothingClobbered
    EditAsShown
CHECK_DEADLOCK FALSE
