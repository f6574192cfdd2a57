------------------------------ MODULE Reconciler ------------------------------
(***************************************************************************)
(* reconcile.go: the ticker-driven pass over sessions, bookmarks and rows. *)
(* A pass reads the sessions, the managed repositories and the jj tree one *)
(* after the other, sweeps rows repository by repository against those     *)
(* snapshots, then backfills unmapped sessions by ensureCreated.           *)
(***************************************************************************)
EXTENDS EnsureSteps, AgentStream

VARIABLE
    pass        \* the pass's locals

\* seen: the sessions listed; todo: repositories still to sweep; tree: the
\* bookmarks listed; drop: rows still to delete; heal: sessions to backfill.
Passes == [seen : SUBSET Sids, todo : SUBSET Repos, tree : SUBSET Workspaces,
           drop : SUBSET Rows, heal : SUBSET Workspaces]

NoPass == [seen |-> {}, todo |-> {}, tree |-> {}, drop |-> {}, heal |-> {}]

PassTypeOK == pass \in Passes

PassLabels == {"managed", "tree", "rows", "sweep", "mapped", "next"}

Advance(label, locals) == Goto("reconcile", label) /\ pass' = locals

EndPass == Enter("reconcile", NoCall, "idle") /\ pass' = NoPass

\* The tick and ListSessions.
StartPass ==
    /\ at["reconcile"] = "idle"
    /\ Advance("managed", [NoPass EXCEPT !.seen = ListSessions])
    /\ UNCHANGED <<jjVars, storeVars, varsVars, agentVars>>

\* ListManaged; with nothing managed there is nothing to sweep.
ReadManaged ==
    /\ at["reconcile"] = "managed"
    /\ Advance(IF managed = {} THEN "mapped" ELSE "tree", [pass EXCEPT !.todo = managed])
    /\ UNCHANGED <<jjVars, storeVars, varsVars, agentVars>>

\* GetRepoTree.  The bookmarks of the repositories in unlisted could not be
\* listed: they look empty.
ReadTree(unlisted) ==
    /\ at["reconcile"] = "tree"
    /\ Advance("rows", [pass EXCEPT !.tree = {w \in marks : w.repo \notin unlisted}])
    /\ UNCHANGED <<jjVars, storeVars, varsVars, agentVars>>

\* Mutants: only one of the two rules, a pass that stops at the first repository.
BookmarkGone(r) == r.ws \notin pass.tree
SessionGone(r) == r.sid \notin pass.seen
AfterFirstSweep(p) == IF p.drop # {} THEN "sweep" ELSE "mapped"

\* The two unmapping rules: the bookmark is gone, or the session is.
Stale(r) == r.ws \notin pass.tree \/ r.sid \notin pass.seen

AfterSweep(p) ==
    IF p.drop # {} THEN "sweep" ELSE IF p.todo # {} THEN "rows" ELSE "mapped"

\* ListRowsForRepo of the next managed repository.
ReadRows(repo) ==
    /\ at["reconcile"] = "rows"
    /\ repo \in pass.todo
    /\ LET p == [pass EXCEPT !.todo = @ \ {repo},
                             !.drop = {r \in rows : r.ws.repo = repo /\ Stale(r)}]
       IN  Advance(AfterSweep(p), p)
    /\ UNCHANGED <<jjVars, storeVars, varsVars, agentVars>>

\* DeleteRow of the stale row r, by its bookmark, and evict of its session.
SweepRow(r) ==
    /\ at["reconcile"] = "sweep"
    /\ DeleteRow(r.ws)
    /\ Evict(r.sid)
    /\ LET p == [pass EXCEPT !.drop = @ \ {r}] IN Advance(AfterSweep(p), p)
    /\ UNCHANGED <<jjVars, projected, toolVars, agentVars>>

\* ListRows: the sessions seen at the start of the pass that have no row now.
ReadMapped ==
    /\ at["reconcile"] = "mapped"
    /\ Advance("next", [NoPass EXCEPT !.heal =
           {w \in Workspaces : NamingSession(w) \in pass.seen
                               /\ ~ HasRowOf(NamingSession(w))}])
    /\ UNCHANGED <<jjVars, storeVars, varsVars, agentVars>>

\* ensureCreated for w, one of them; a permanent error skips to the next.
Between == {"next", "ok", "reject"}

Backfill(w) ==
    /\ at["reconcile"] \in Between
    /\ Enter("reconcile", Call("create", w, None, None), "findRow")
    /\ pass' = [pass EXCEPT !.heal = @ \ {w}]
    /\ UNCHANGED <<jjVars, storeVars, varsVars, agentVars>>

PassDone ==
    /\ at["reconcile"] \in Between
    /\ pass.heal = {}
    /\ EndPass
    /\ UNCHANGED <<jjVars, storeVars, varsVars, agentVars>>

\* A transient error in a backfill ends the pass.
PassAborted ==
    /\ at["reconcile"] = "retry"
    /\ EndPass
    /\ UNCHANGED <<jjVars, storeVars, varsVars, agentVars>>

\* So does a failed list, or a failed delete, of the pass itself.
FailPass ==
    /\ at["reconcile"] \in PassLabels \ {"next"}
    /\ EndPass
    /\ UNCHANGED <<jjVars, storeVars, varsVars, agentVars>>

\* The row is deleted and the answer lost: the pass ends before the evict.
SweepUnanswered(r) ==
    /\ at["reconcile"] = "sweep"
    /\ DeleteRow(r.ws)
    /\ EndPass
    /\ UNCHANGED <<jjVars, varsVars, agentVars>>
===============================================================================
