\* The hook dies after its record and the worksheet is dispatched again.
CONSTANTS
    r1 = r1
    r2 = r2
    main = main
    b1 = b1
    b2 = b2
    hi = hi
    None = None
    Head = Head
    Main = main
    Repos <- OneRepo
    Marks <- MCMarks2
    Strays = {}
    Commits = {}
    Named <- SheetsNames
    Observed = {}
    Overtaking = FALSE
    Limit <- SheetLostLimit
    InitManaged <- OneRepo
    Removable = {}
    Adoptable = {}
    Ticking = FALSE
SPECIFICATION Spec
PROPERTIES
    ExactlyOnce
CHECK_DEADLOCK FALSE
