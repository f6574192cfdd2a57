\* The session of the bookmark main is deleted, another one is created.
CONSTANTS
    r1 = r1
    r2 = r2
    main = main
    b1 = b1
    b2 = b2
    hi = hi
    None = None
    Head = Head
    Main = main
    Repos <- OneRepo
    Marks <- MCMarks2
    Strays = {}
    Commits = {}
    Named <- RenameNames
    Observed = {}
    Overtaking = FALSE
    Limit <- MainGoneLimit
    InitManaged = {}
    Removable = {}
    Adoptable = {}
    Ticking = TRUE
SPECIFICATION FairSpec
PROPERTIES
    EventuallyMirrored
CHECK_DEADLOCK FALSE
