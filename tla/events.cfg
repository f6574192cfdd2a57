\* Lifecycle events only: one repository, three bookmarks, ordered delivery.
CONSTANTS
    r1 = r1
    r2 = r2
    main = main
    b1 = b1
    b2 = b2
    hi = hi
    None = None
    Head = Head
    Main = main
    Repos <- OneRepo
    Marks <- MCMarks3
    Strays = {}
    Commits = {1}
    Named <- EventsNames
    Observed = {}
    Overtaking = FALSE
    Limit <- EventsLimit
    InitManaged = {}
    Removable = {}
    Adoptable = {}
    Ticking = FALSE
SYMMETRY Swapped
SPECIFICATION Spec
INVARIANTS
    DrainedMirror
    NoLeftovers
PROPERTIES
    ForkInheritsParent
CHECK_DEADLOCK FALSE
