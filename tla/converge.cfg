\* Both goroutines under fairness: all drift is repaired in the end.
CONSTANTS
    r1 = r1
    r2 = r2
    main = main
    b1 = b1
    b2 = b2
    hi = hi
    None = None
    Head = Head
    Main = main
    Repos <- OneRepo
    Marks <- MCMarks3
    Strays = {hi}
    Commits = {}
    Named <- ConvergeNames
    Observed = {}
    Overtaking = TRUE
    Limit <- ConvergeLimit
    InitManaged <- OneRepo
    Removable <- ReconcileRemovable
    Adoptable = {}
    Ticking = TRUE
SPECIFICATION FairSpec
PROPERTIES
    EventuallyMirrored
