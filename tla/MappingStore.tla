---------------------------- MODULE MappingStore ----------------------------
(***************************************************************************)
(* The extension's private Postgres tables (pg.go): session_repos maps a   *)
(* bookmark to its session, managed_repos lists the repositories the       *)
(* reconciler looks after.  Every operation is one SQL statement.          *)
(***************************************************************************)
EXTENDS SessionNames

VARIABLES
    rows,       \* session_repos
    managed     \* managed_repos

storeVars == <<rows, managed>>

Rows == [ws : Workspaces, sid : Sids]

StoreTypeOK ==
    /\ rows \subseteq Rows
    /\ managed \subseteq Repos

\* GetRow(org, repo, bookmark) and GetRowBySession(name) find a row.
HasRow(w) == \E r \in rows : r.ws = w
HasRowOf(s) == \E r \in rows : r.sid = s

\* A unique violation (23505): PRIMARY KEY (org, repo, bookmark) and
\* session_name UNIQUE.
Conflicts(table, w, s) == \E r \in table : r.ws = w \/ r.sid = s

\* Mutant: session_name gets the bookmark.
InsertRowByMark(w, s) ==
    /\ ~ Conflicts(rows, w, s)
    /\ rows' = rows \union {[ws |-> w, sid |-> w.bm]}
    /\ UNCHANGED managed

InsertRow(w, s) ==
    /\ ~ Conflicts(rows, w, s)
    /\ rows' = rows \union {[ws |-> w, sid |-> s]}
    /\ UNCHANGED managed

\* The UPDATE of RenameRow: the row at from, if any, becomes <<to, s>>.
RowsAt(w) == {r \in rows : r.ws = w}

CanRename(from, to, s) ==
    HasRow(from) /\ ~ Conflicts(rows \ RowsAt(from), to, s)

\* Mutant: the UPDATE moves the bookmark and forgets session_name.
RenameRowOnly(from, to, s) ==
    /\ CanRename(from, to, s)
    /\ rows' = (rows \ RowsAt(from)) \union {[ws |-> to, sid |-> NamingSession(from)]}
    /\ UNCHANGED managed

RenameRow(from, to, s) ==
    /\ CanRename(from, to, s)
    /\ rows' = (rows \ RowsAt(from)) \union {[ws |-> to, sid |-> s]}
    /\ UNCHANGED managed

DeleteRow(w) ==
    /\ rows' = rows \ RowsAt(w)
    /\ UNCHANGED managed

InsertManaged(repo) ==
    /\ managed' = managed \union {repo}
    /\ UNCHANGED rows
=============================================================================
