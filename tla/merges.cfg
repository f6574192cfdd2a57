\* A commit to any bookmark, a moved head sha, a close, a second merge of the
\* same request and a failed call may fall between any two calls of a merge.
SPECIFICATION Spec
CONSTANTS
    None = None
    b1 = b1
    b2 = b2
    b3 = b3
    c1 = c1
    c2 = c2
    p1 = p1
    p2 = p2
    Bookmarks = {b1, b2, b3}
    Commits = {c1, c2}
    Requests = {1}
    Merging = {p1, p2}
SYMMETRY Symmetry
INVARIANT MergedLanded
PROPERTY NothingSneaksIn
