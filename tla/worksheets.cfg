\* A fork by worksheet, beside the consumer and the reconciler.
CONSTANTS
    r1 = r1
    r2 = r2
    main = main
    b1 = b1
    b2 = b2
    hi = hi
    None = None
    Head = Head
    Main = main
    Repos <- OneRepo
    Marks <- MCMarks2
    Strays = {}
    Commits = {1}
    Named <- SheetsNames
    Observed = {}
    Overtaking = FALSE
    Limit <- SheetsLimit
    InitManaged <- OneRepo
    Removable = {}
    Adoptable = {}
    Ticking = TRUE
SPECIFICATION Spec
INVARIANTS
    PassConverges
PROPERTIES
    ForkAtBase
