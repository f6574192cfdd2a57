\* Cache and session variables under lifecycle events, lookups and worksheets.
CONSTANTS
    r1 = r1
    r2 = r2
    main = main
    b1 = b1
    b2 = b2
    hi = hi
    None = None
    Head = Head
    Main = main
    Repos <- OneRepo
    Marks <- MCMarks2
    Strays = {}
    Commits = {1}
    Named <- VarsNames
    Observed = {"cache", "vars"}
    Overtaking = FALSE
    Limit <- VarsLimit
    InitManaged = {}
    Removable = {}
    Adoptable = {}
    Ticking = FALSE
SPECIFICATION Spec
INVARIANTS
    ResolvesOwnBookmark
    DrainedCache
    VarsPublished
PROPERTIES
    LossOnlyOnRequest
    ActsOnce
CHECK_DEADLOCK FALSE
