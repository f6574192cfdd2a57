\* Lifecycle consumer and reconciler together, with every kind of drift.
CONSTANTS
    r1 = r1
    r2 = r2
    main = main
    b1 = b1
    b2 = b2
    hi = hi
    None = None
    Head = Head
    Main = main
    Repos <- TwoRepos
    Marks <- MCMarks2
    Strays = {}
    Commits = {}
    Named <- ReconcileNames
    Observed = {}
    Overtaking = FALSE
    Limit <- ReconcileLimit
    InitManaged <- TwoRepos
    Removable <- ReconcileRemovable
    Adoptable <- MCAdoptable
    Ticking = TRUE
SPECIFICATION Spec
INVARIANTS
    TypeOK
    OneToOne
    PassConverges
PROPERTIES
    LossOnlyOnRequest
    SecondPassIdle
