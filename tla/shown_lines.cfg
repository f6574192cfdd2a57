\* An edit of the lines that read shows.
CONSTANTS
    x = x
    y = y
    Blank = Blank
    None = None
    Lines <- MCLines
    Procs = {p1, p2}
    Files <- MCFiles
    Inputs <- MCInputs
    PageSizes <- MCPageSizes
    MaxCalls = 1
    MaxFaults = 0
    MaxPages = 0
SPECIFICATION Spec
PROPERTIES
    ShownLinesEditable
CHECK_DEADLOCK FALSE
