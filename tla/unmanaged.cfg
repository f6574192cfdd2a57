\* A call fails between the two inserts of bindRow, a later event is lost.
CONSTANTS
    r1 = r1
    r2 = r2
    main = main
    b1 = b1
    b2 = b2
    hi = hi
    None = None
    Head = Head
    Main = main
    Repos <- OneRepo
    Marks <- MCMarks2
    Strays = {}
    Commits = {}
    Named <- RenameNames
    Observed = {}
    Overtaking = FALSE
    Limit <- UnmanagedLimit
    InitManaged = {}
    Removable = {}
    Adoptable = {}
    Ticking = TRUE
SPECIFICATION Spec
INVARIANTS
    PassConverges
CHECK_DEADLOCK FALSE
