--------------------------- MODULE MCMergeRequests ---------------------------
(***************************************************************************)
(* A small instance of MergeRequests: three bookmarks, two changes, one    *)
(* request, and two calls of mr-merge at a time.                           *)
(***************************************************************************)
EXTENDS MergeRequests, TLC

CONSTANTS b1, b2, b3, c1, c2, p1, p2

Symmetry == Permutations({b1, b2, b3}) \union Permutations({c1, c2})
            \union Permutations({p1, p2})
==============================================================================
