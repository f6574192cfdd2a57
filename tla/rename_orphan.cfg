\* A session is renamed onto a bookmark that exists without a session.
CONSTANTS
    r1 = r1
    r2 = r2
    main = main
    b1 = b1
    b2 = b2
    hi = hi
    None = None
    Head = Head
    Main = main
    Repos <- OneRepo
    Marks <- MCMarks2
    Strays = {}
    Commits = {1}
    Named <- RenameNames
    Observed = {}
    Overtaking = FALSE
    Limit <- RenameLimit
    InitManaged = {}
    Removable = {}
    Adoptable = {}
    Ticking = FALSE
SPECIFICATION Spec
PROPERTIES
    RenameKeepsWork
CHECK_DEADLOCK FALSE
