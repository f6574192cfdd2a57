----------------------------- MODULE EnsureSteps -----------------------------
(***************************************************************************)
(* ensureCreated, ensureForked, ensureRenamed and ensureDeleted            *)
(* (events_sub.go), the idempotent handlers that make the jj state and the *)
(* mapping table follow the sessions, and ensureForkedAt (worksheets.go).  *)
(* They run in three goroutines: the lifecycle consumer ("events"), the    *)
(* reconciler ("reconcile") and the worksheet hook ("hook").               *)
(*                                                                         *)
(* Each step is one call to jjlab or one SQL statement, so everything the  *)
(* other goroutine, the agent, a user of jj or a crash can do falls        *)
(* between two steps.  at[p] names the call p makes next, or the outcome   *)
(* the handler returned: "ok", "retry" (a transient error, status >= 500)  *)
(* or "reject" (a permanent one).                                          *)
(***************************************************************************)
EXTENDS JJLab, SessionVars

VARIABLES
    at,         \* per goroutine, the next call or the outcome
    call        \* per goroutine, the handler's arguments and locals

stepVars == <<at, call>>

Procs == {"events", "reconcile", "hook"}

CallLabels == {"findRow", "parent", "fromRow", "repo", "anchor", "look", "create",
               "bind", "manage", "moveRow", "seeMark", "dropMark", "unbind"}
Outcomes == {"ok", "retry", "reject"}

\* "parent" is ensureCreated called by ensureForked for the fork's parent: ws
\* is the parent's workspace and peer the fork's, where ensureForked resumes.
\* "forkAt" is ensureForkedAt, "cleanup" the DeleteBookmark of a worksheet for
\* a bookmark without a row.
Ops == {"create", "parent", "fork", "forkAt", "rename", "delete", "cleanup", "publish"}
Calls == [op : Ops, ws : Workspaces, peer : Workspaces \union {None},
          src : {None} \union Sources]

NoCall == [op |-> "none", ws |-> None, peer |-> None, src |-> None]

StepTypeOK(labels) ==
    /\ at \in [Procs -> CallLabels \union Outcomes \union labels]
    /\ call \in [Procs -> Calls \union {NoCall}]

Call(op, w, peer, src) == [op |-> op, ws |-> w, peer |-> peer, src |-> src]

Goto(p, label) == at' = [at EXCEPT ![p] = label] /\ UNCHANGED call
Enter(p, c, label) == at' = [at EXCEPT ![p] = label] /\ call' = [call EXCEPT ![p] = c]

\* Mutant: a fork anchored at main.
ForkAtMain(w, parent) == Call("fork", w, parent, Main)

\* The handler arguments of a fork whose parent has its workspace.
ForkAt(w, parent) == Call("fork", w, parent, parent.bm)

\* ensureCreated returns nil: to ensureForked when that called it.
Return(p) ==
    IF call[p].op = "parent"
    THEN Enter(p, ForkAt(call[p].peer, call[p].ws), "look")
    ELSE Goto(p, "ok")

----------------------------------------------------------------------------
(* Looking the session up: GetRowBySession, GetRow.                        *)

AlreadyMirrored(p) ==
    /\ at[p] = "findRow"
    /\ call[p].op \in {"create", "parent", "fork", "forkAt"}
    /\ HasRowOf(NamingSession(call[p].ws))
    /\ Return(p)
    /\ UNCHANGED <<jjVars, storeVars, cached>>

NotMirrored(p) ==
    /\ at[p] = "findRow"
    /\ call[p].op \in {"create", "parent", "forkAt"}
    /\ ~ HasRowOf(NamingSession(call[p].ws))
    /\ Goto(p, "repo")
    /\ UNCHANGED <<jjVars, storeVars, cached>>

\* A fork without a row: a parent that is no workspace session stands for
\* main, one of another repository is refused.
ForkNotMirrored(p) ==
    /\ at[p] = "findRow"
    /\ call[p].op = "fork"
    /\ ~ HasRowOf(NamingSession(call[p].ws))
    /\ LET c == call[p] IN
         CASE c.peer = None -> Enter(p, [c EXCEPT !.src = Main], "look")
           [] c.peer # None /\ c.peer.repo # c.ws.repo -> Goto(p, "reject")
           [] OTHER -> Goto(p, "parent")
    /\ UNCHANGED <<jjVars, storeVars, cached>>

FindParent(p) ==
    /\ at[p] = "parent"
    /\ LET c == call[p] IN
         IF HasRow(c.peer) THEN Enter(p, ForkAt(c.ws, c.peer), "look")
                           ELSE Enter(p, Call("parent", c.peer, c.ws, None), "findRow")
    /\ UNCHANGED <<jjVars, storeVars, cached>>

\* A rename of a session that never had a workspace is a plain create.
FindFrom(p) ==
    /\ at[p] = "fromRow"
    /\ LET c == call[p] IN
         IF HasRow(c.peer) THEN Enter(p, [c EXCEPT !.src = c.peer.bm], "look")
                           ELSE Enter(p, Call("create", c.ws, None, None), "findRow")
    /\ UNCHANGED <<jjVars, storeVars, cached>>

FindDeleted(p) ==
    /\ at[p] = "findRow"
    /\ call[p].op = "delete"
    /\ Goto(p, IF HasRowOf(NamingSession(call[p].ws)) THEN "seeMark" ELSE "ok")
    /\ UNCHANGED <<jjVars, storeVars, cached>>

----------------------------------------------------------------------------
(* The jj half: EnsureRepo, ensureBookmarkAnchored, EnsureBookmark.        *)

\* ensureForkedAt was given its anchor, ensureCreated looks for one.
AfterRepo(c) == IF c.op = "forkAt" THEN "look" ELSE "anchor"

MakeRepo(p) ==
    /\ at[p] = "repo"
    /\ EnsureRepo(call[p].ws.repo)
    /\ Goto(p, AfterRepo(call[p]))
    /\ UNCHANGED <<storeVars, cached>>

AnchorChoice(repo) == IF CanResolve(repo, Main) THEN Main ELSE Head

ChooseAnchor(p) ==
    /\ at[p] = "anchor"
    /\ Enter(p, [call[p] EXCEPT !.src = AnchorChoice(call[p].ws.repo)], "look")
    /\ UNCHANGED <<jjVars, storeVars, cached>>

\* What follows once the bookmark is there.
AfterMark(c) == IF c.op = "rename" THEN "moveRow" ELSE "bind"

\* EnsureBookmark's look at the tree.  listed is FALSE when the bookmarks of
\* the repository could not be listed: it then looks empty.
LookForMark(p, listed) ==
    /\ at[p] = "look"
    /\ LET c == call[p] IN
         Goto(p, CASE c.ws.repo \notin repos -> "reject"
                   [] c.ws \in marks /\ listed -> AfterMark(c)
                   [] OTHER -> "create")
    /\ UNCHANGED <<jjVars, storeVars, cached>>

MakeMark(p) ==
    /\ at[p] = "create"
    /\ CreateBookmark(call[p].ws, call[p].src)
    /\ Goto(p, AfterMark(call[p]))
    /\ UNCHANGED <<storeVars, cached>>

\* Mutant: a refused POST counts as success and the handler returns.
MarkRefusedIsFine(p) ==
    /\ at[p] = "create"
    /\ ~ CanCreate(call[p].ws, call[p].src)
    /\ Goto(p, "ok")
    /\ UNCHANGED <<jjVars, storeVars, cached>>

\* The POST is refused: the bookmark appeared since the look, or its source
\* does not resolve.
MarkRefused(p) ==
    /\ at[p] = "create"
    /\ ~ CanCreate(call[p].ws, call[p].src)
    /\ Goto(p, "retry")
    /\ UNCHANGED <<jjVars, storeVars, cached>>

----------------------------------------------------------------------------
(* The table half: bindRow, RenameRow.                                     *)

BindRow(p) ==
    /\ at[p] = "bind"
    /\ InsertRow(call[p].ws, NamingSession(call[p].ws))
    /\ Goto(p, "manage")
    /\ UNCHANGED <<jjVars, cached>>

\* A unique violation counts as bound; the repository is not put under
\* management on this path.
AlreadyBound(p) ==
    /\ at[p] = "bind"
    /\ Conflicts(rows, call[p].ws, NamingSession(call[p].ws))
    /\ Return(p)
    /\ UNCHANGED <<jjVars, storeVars, cached>>

ManageRepo(p) ==
    /\ at[p] = "manage"
    /\ InsertManaged(call[p].ws.repo)
    /\ Return(p)
    /\ UNCHANGED <<jjVars, cached>>

\* Mutants: a rename that leaves the old bookmark, and one that does not evict.
MoveRowOnly(p) ==
    /\ at[p] = "moveRow"
    /\ RenameRow(call[p].peer, call[p].ws, NamingSession(call[p].ws))
    /\ Evict(NamingSession(call[p].peer))
    /\ Goto(p, "ok")
    /\ UNCHANGED jjVars

MoveRowKeepsCache(p) ==
    /\ at[p] = "moveRow"
    /\ RenameRow(call[p].peer, call[p].ws, NamingSession(call[p].ws))
    /\ Goto(p, "seeMark")
    /\ UNCHANGED <<jjVars, cached>>

MoveRow(p) ==
    /\ at[p] = "moveRow"
    /\ RenameRow(call[p].peer, call[p].ws, NamingSession(call[p].ws))
    /\ Evict(NamingSession(call[p].peer))
    /\ Goto(p, "seeMark")
    /\ UNCHANGED jjVars

\* No row left to rename is a 404 wrapped into a transient 502; a target that
\* is already bound is success.
RowNotMoved(p) ==
    /\ at[p] = "moveRow"
    /\ ~ CanRename(call[p].peer, call[p].ws, NamingSession(call[p].ws))
    /\ Goto(p, IF HasRow(call[p].peer) THEN "ok" ELSE "retry")
    /\ UNCHANGED <<jjVars, storeVars, cached>>

----------------------------------------------------------------------------
(* Removing: DeleteBookmark looks before it deletes; DeleteRow.            *)

\* Mutant: a rename removes the bookmark it just made.
DoomedTarget(c) == c.ws

\* The bookmark a rename leaves behind, else the one to delete.
Doomed(c) == IF c.op = "rename" THEN c.peer ELSE c.ws

AfterDrop(c) == IF c.op = "delete" THEN "unbind" ELSE "ok"

LookForDoomed(p, listed) ==
    /\ at[p] = "seeMark"
    /\ LET c == call[p] IN
         Goto(p, IF Doomed(c) \in marks /\ listed THEN "dropMark" ELSE AfterDrop(c))
    /\ UNCHANGED <<jjVars, storeVars, cached>>

DropMark(p) ==
    /\ at[p] = "dropMark"
    /\ DropBookmark(Doomed(call[p]))
    /\ Goto(p, AfterDrop(call[p]))
    /\ UNCHANGED <<storeVars, cached>>

DropRefused(p) ==
    /\ at[p] = "dropMark"
    /\ Doomed(call[p]) \notin marks
    /\ Goto(p, "retry")
    /\ UNCHANGED <<jjVars, storeVars, cached>>

Unbind(p) ==
    /\ at[p] = "unbind"
    /\ DeleteRow(call[p].ws)
    /\ Evict(NamingSession(call[p].ws))
    /\ Goto(p, "ok")
    /\ UNCHANGED jjVars

----------------------------------------------------------------------------
Progress(p) ==
    \/ AlreadyMirrored(p) \/ NotMirrored(p) \/ ForkNotMirrored(p)
    \/ FindParent(p) \/ FindFrom(p) \/ FindDeleted(p)
    \/ MakeRepo(p) \/ ChooseAnchor(p) \/ LookForMark(p, TRUE)
    \/ MakeMark(p) \/ MarkRefused(p)
    \/ BindRow(p) \/ AlreadyBound(p) \/ ManageRepo(p)
    \/ MoveRow(p) \/ RowNotMoved(p)
    \/ LookForDoomed(p, TRUE) \/ DropMark(p) \/ DropRefused(p) \/ Unbind(p)

\* Any call to jjlab or Postgres may fail.
FailCall(p) ==
    /\ at[p] \in CallLabels
    /\ Goto(p, "retry")
    /\ UNCHANGED <<jjVars, storeVars, cached>>

\* One that writes may also be carried out and its answer be lost: the handler
\* returns the error and leaves undone what follows the answer, the eviction.
\* (With nothing to write that is FailCall.)
WritesMark(p) ==
    LET c == call[p] IN
      \/ at[p] = "repo" /\ c.ws.repo \notin repos /\ EnsureRepo(c.ws.repo)
      \/ at[p] = "create" /\ CreateBookmark(c.ws, c.src)
      \/ at[p] = "dropMark" /\ DropBookmark(Doomed(c))

WritesRow(p) ==
    LET c == call[p] IN
      \/ at[p] = "bind" /\ InsertRow(c.ws, NamingSession(c.ws))
      \/ at[p] = "manage" /\ c.ws.repo \notin managed /\ InsertManaged(c.ws.repo)
      \/ at[p] = "moveRow" /\ RenameRow(c.peer, c.ws, NamingSession(c.ws))
      \/ at[p] = "unbind" /\ DeleteRow(c.ws)

Unanswered(p) ==
    /\ \/ WritesMark(p) /\ UNCHANGED storeVars
       \/ WritesRow(p) /\ UNCHANGED jjVars
    /\ Goto(p, "retry")
    /\ UNCHANGED cached
=============================================================================
