------------------------------- MODULE JJLab -------------------------------
(***************************************************************************)
(* jjlab, the version-control service, as client_jj.go uses it: the        *)
(* repositories, their bookmarks, and for every bookmark the set of        *)
(* commits in its history.                                                 *)
(*                                                                         *)
(* What the service itself decides (external): creating a repository also  *)
(* creates its default bookmark, a POST on a bookmark that exists and a    *)
(* DELETE of one that does not are refused.                                *)
(***************************************************************************)
EXTENDS SessionNames, FiniteSets

CONSTANTS
    Commits,    \* identities of commits
    Head        \* the revision "", jj's name for the head of a repository

VARIABLES
    repos,      \* repositories that exist
    marks,      \* workspaces whose bookmark exists
    work        \* per workspace, the commits in its bookmark's history

jjVars == <<repos, marks, work>>

JJTypeOK ==
    /\ repos \subseteq Repos
    /\ marks \subseteq Workspaces
    /\ work \in [Workspaces -> SUBSET Commits]

\* POST /repos/{org}/{repo} with default_bookmark main; a 409 is success.
EnsureRepo(repo) ==
    /\ repos' = repos \union {repo}
    /\ marks' = IF repo \in repos THEN marks ELSE marks \union {MainOf(repo)}
    /\ UNCHANGED work

\* CanResolve: GET /repos/{org}/{repo}/bookmarks.  The revision asked about is
\* no part of the request, so every revision resolves in a repository that
\* exists.
CanResolve(repo, rev) == repo \in repos

\* A bookmark is created at another one, at the head, or at the sha of a
\* commit, which stands for the commits it leads to and never stops resolving.
Shas == SUBSET Commits
Sources == Marks \union {Head} \union Shas

\* A sha is the name of no bookmark.
ASSUME ShasAssumption == \A s \in Shas : s \notin Marks /\ s # Head

\* GetBookmarkHead: the sha a bookmark is at.
BookmarkHead(w) == work[w]

\* The commits a new bookmark of repo starts with when it is created at src.
Anchor(repo, src) ==
    CASE src = Head -> work[MainOf(repo)]
      [] src \in Marks -> work[[repo |-> repo, bm |-> src]]
      [] OTHER -> src

\* When POST .../bookmarks/{bm} {target: src} succeeds, and what it does.
CanCreate(w, src) ==
    /\ w.repo \in repos
    /\ w \notin marks
    /\ src \in Marks => [repo |-> w.repo, bm |-> src] \in marks

CreateBookmark(w, src) ==
    /\ CanCreate(w, src)
    /\ marks' = marks \union {w}
    /\ work' = [work EXCEPT ![w] = Anchor(w.repo, src)]
    /\ UNCHANGED repos

\* DELETE .../bookmarks/{bm}: whatever only this bookmark led to is gone.
DropBookmark(w) ==
    /\ w \in marks
    /\ marks' = marks \ {w}
    /\ work' = [work EXCEPT ![w] = {}]
    /\ UNCHANGED repos

\* A tool of the session bound to w commits c (POST .../commits).
Commit(w, c) ==
    /\ w \in marks
    /\ work' = [work EXCEPT ![w] = @ \union {c}]
    /\ UNCHANGED <<repos, marks>>
============================================================================
