---------------------------- MODULE WorkspaceProps ----------------------------
(***************************************************************************)
(* What the workspace layer owes its users, stated over module Workspace.  *)
(***************************************************************************)
EXTENDS Workspace

\* Every variable has its type; the locals of a handler in particular are a
\* well-formed call whenever a handler runs.
TypeOK ==
    /\ JJTypeOK /\ StoreTypeOK /\ VarsTypeOK /\ AgentTypeOK
    /\ StepTypeOK(Labels)
    /\ JobTypeOK /\ PassTypeOK /\ SheetTypeOK
    /\ used \in [BudgetKinds -> Nat]
    /\ calm \in 0..2

\* "A strict 1:1" (README.md:5): no two rows share a bookmark or a session,
\* and a row's session is the one its bookmark's name derives, whichever of
\* consumer, reconciler and adoption wrote or renamed it.
OneToOne ==
    /\ \A r \in rows : r.sid = NamingSession(r.ws)
    /\ \A r, q \in rows : r.ws = q.ws \/ r.sid = q.sid => r = q

\* Sessions, rows and bookmarks agree: every workspace session has a row, and
\* every row has its session and its bookmark.  A bookmark without a row is
\* legal (an orphan).
Mirror ==
    /\ \A s \in sessions \intersect DerivedNames : HasRowOf(s)
    /\ \A r \in rows : r.sid \in sessions /\ r.ws \in marks

\* Redeliveries converge (events_sub.go:9-10): once the stream is drained the
\* three layers agree, whatever calls failed, whatever acknowledgements were
\* lost and wherever the process died, with no help from the reconciler.
DrainedMirror == Quiet => Mirror

\* "Old bookmark removed", "bookmark + row removed" (README.md:28-30): while every
\* call was answered, a drained stream leaves no bookmark behind that belongs to
\* no session, the default bookmark of a repository excepted, whatever names were
\* exchanged and taken again and however often an event was delivered.
NoLeftovers ==
    Quiet /\ used["faults"] = 0 /\ used["unanswered"] = 0 /\ used["blind"] = 0
        => \A w \in marks : w = MainOf(w.repo) \/ HasRow(w)

\* Some unacknowledged event asks for w's bookmark to go, since its session was
\* deleted or renamed to another name, or the worksheet being served does.
Requested(w) ==
    \/ \E e \in stream :
           \/ e.kind = "deleted" /\ e.sid = NamingSession(w)
           \/ e.kind = "renamed" /\ e.peer = NamingSession(w)
    \/ Serving("delete") /\ sheet.ws = w

\* The extension destroys a bookmark only while serving such an event or an
\* approved worksheet, and the reconciler never does (reconcile.go:50-51): a
\* bookmark that disappears was asked for, or removed by a user of jj.
LossOnlyOnRequest ==
    [][\A w \in marks \ marks' :
          Requested(w) \/ used'["removals"] # used["removals"]]_vars

\* e is the event that gave the live session of w its origin: a fork within
\* the repository that no earlier unserved event about w precedes.
ForkOrigin(e, w) ==
    /\ e.kind = "forked" /\ e.sid = NamingSession(w)
    /\ Derived(e.peer) /\ ParseSession(e.peer).repo = w.repo
    /\ \A f \in stream : f.seq < e.seq => NamingSession(w) \notin {f.sid, f.peer}

\* "True workspace inheritance at fork time" (events_sub.go:69-70): a bookmark
\* that comes into being for a forked session starts with its parent's work.
ForkInheritsParent ==
    [][\A w \in marks' \ marks : \A e \in stream :
          ForkOrigin(e, w) /\ ParseSession(e.peer) \in marks =>
              work'[w] = work[ParseSession(e.peer)]]_vars

\* "New bookmark at the old one's position" (events_sub.go:104): when a rename
\* goes on to move the row and to remove the old bookmark, the new one has all
\* the old one's work.
RenameKeepsWork ==
    [][at["events"] # "moveRow" /\ at'["events"] = "moveRow" =>
          work'[call["events"].peer] \subseteq work'[call["events"].ws]]_vars

\* The reconciler is a correctness backstop (reconcile.go:9-11): a pass that
\* runs undisturbed after the stream is drained repairs all drift, whatever
\* events were lost, failed half-way or arrived in another order before it.
PassConverges == calm = 2 => Mirror

\* Every rule is idempotent: the next undisturbed pass changes nothing.
SecondPassIdle ==
    [][calm = 2 /\ calm' = 2 => UNCHANGED <<repos, marks, rows, managed>>]_vars

\* Once the agent, the faults and the users of jj are done, sessions, rows and
\* bookmarks come to agree and stay so (README.md, Consistency).
EventuallyMirrored == <>[]Mirror

\* The bijection between names and workspaces reaches the tools: whatever a
\* session resolves to, from the table, the cache, a lookup still in flight or
\* the KV, is its own bookmark and never one of another session, also while
\* the session is renamed or its old name is taken again (sessions_http.go:54-58).
ResolvesOwnBookmark ==
    \A r \in rows \union cached \union projected \union ({lookup} \ {None}) :
        r.sid = NamingSession(r.ws)

\* The evictions keep the tool path strict (README.md:40-41, events_sub.go:136,
\* 160): with the stream drained, each entry of the cache that no row has is due to
\* an occasion of its own, a statement that was carried out while its answer was
\* lost or a tool that put late what it had read, unless a worksheet overlapped the
\* handler.  Failed calls, crashes, lost events and redeliveries leave none.
DrainedCache ==
    Quiet /\ used["sheets"] = 0
        => Cardinality(cached \ rows) <= used["unanswered"] + used["lookups"]

\* Every mapped session has its variables in the KV once the stream is drained
\* and no write failed, whether an event or a worksheet bound it
\* (events_sub.go:37-38).
VarsPublished ==
    Quiet /\ used["faults"] = 0
        => {r \in rows : r.sid \in sessions} \subseteq projected

\* A bookmark whose session nobody but worksheets makes, renames or deletes.
OnlyBySheet(w) == NamingSession(w) \notin Named

\* "Approval latency cannot shift the fork" (tools.go:847) and "base_rev
\* anchoring beats the lifecycle event and the reconciler" (worksheets.go:131):
\* when a worksheet has forked a workspace that did not exist, its bookmark has
\* what the parent had when the fork was asked for and nothing the parent got
\* later, whatever a failed attempt, the forked event or a pass that unmaps the
\* row before the session exists did in between.
ForkAtBase ==
    [][\A s \in (carried' \ carried) \intersect clear :
          OnlyBySheet(s.ws)
            => /\ s.ws \in marks
               /\ s.base \subseteq work[s.ws]
               /\ work[s.ws] \intersect work[s.from] \subseteq s.base]_vars

\* "Exactly-once" (worksheets.go:73), the one half: a worksheet that has been
\* carried out changes nothing any more, however often its decision is
\* delivered; a session made under the name of a deleted one stays.
ActsOnce ==
    [][at'["hook"] # at["hook"] /\ sheet \in carried
          => UNCHANGED <<repos, marks, work, rows, sessions>>]_vars

\* The other half: a dispatch that is answered OK from the record, while no
\* earlier one still runs, is of a worksheet that has been carried out; it is
\* acknowledged and never delivered again.
ExactlyOnce ==
    [][\A s \in sheets \ sheets' : s = sheet /\ InHook("record") => s \in carried]_vars
===============================================================================
