--------------------------- MODULE ConvergenceProofs ---------------------------
(***************************************************************************)
(* Machine-checked proof that the reconciler is a backstop, for every set  *)
(* of repositories, bookmarks, stray names and commits, and every bound:   *)
(* an undisturbed pass makes sessions, rows and bookmarks agree, and the   *)
(* next one finds nothing to do.                                           *)
(*                                                                         *)
(* The inductive invariant says, label by label, what a pass that nothing  *)
(* has disturbed so far has achieved: which rows are known to be live, and *)
(* which sessions may still lack one.  It is inductive only together with  *)
(* IInv, which bounds the locals of the backfill in progress.              *)
(***************************************************************************)
EXTENDS WorkspaceProofs

LiveRow(r) == r.ws \in marks /\ r.sid \in sessions

AllLive == \A r \in rows : LiveRow(r)

\* Every workspace session outside S has its row.
CoveredBut(S) ==
    \A w \in Workspaces : NamingSession(w) \in sessions
                              => w \in S \/ HasRowOf(NamingSession(w))

Reading == {"managed", "tree", "rows", "sweep", "mapped"}

\* Of the rows, those of repositories still to sweep and those about to be
\* deleted may be stale.
Swept == \A r \in rows : r.ws.repo \in pass.todo \/ LiveRow(r) \/ r \in pass.drop

\* What the pass has read is what is there.
ReadOK(l) ==
    /\ l \in Reading => pass.seen = sessions
    /\ l \in Reading \ {"sweep"} => pass.drop = {}
    /\ l = "tree" => pass.todo = Repos
    /\ l \in {"rows", "sweep"} => pass.tree = marks /\ Swept
    /\ l = "mapped" => AllLive

\* The sessions still to backfill are live, and no others lack a row but the
\* one of w, which is being backfilled.
HealOK(l, w) ==
    /\ l \in Between \union CallLabels
         => AllLive /\ \A v \in pass.heal : NamingSession(v) \in sessions
    /\ l \in Between => CoveredBut(pass.heal)
    /\ l \in CallLabels => CoveredBut(pass.heal \union {w}) /\ NamingSession(w) \in sessions
    /\ l \in {"anchor", "look", "create", "bind", "manage"} => w.repo \in repos
    /\ l \in {"bind", "manage"} => w \in marks
    /\ l = "manage" => HasRowOf(NamingSession(w))

\* A completed pass leaves nothing to do for the next.
DoneOK == Mirror /\ at["reconcile"] \in {"idle"} \union PassLabels
                 /\ pass.drop = {} /\ pass.heal = {}

\* A pass that nothing has disturbed, or none since the last.
Tame == Quiet /\ ReadOK(at["reconcile"]) /\ HealOK(at["reconcile"], call["reconcile"].ws)

CalmOK == calm >= 1 => Tame

PassInv == managed = Repos /\ CalmOK /\ (calm = 2 => DoneOK)
----------------------------------------------------------------------------
(* What can happen without disturbing a pass.                              *)

\* Repositories are put under management and stay there.
LEMMA ManagedGrows == Next => managed \subseteq managed'
<1> SUFFICES ASSUME Next PROVE managed \subseteq managed'
  OBVIOUS
<1>1. ASSUME NEW p \in Procs, Progress(p) PROVE managed \subseteq managed'
  BY <1>1
     DEF Progress, AlreadyMirrored, NotMirrored, ForkNotMirrored, FindParent, FindFrom,
         FindDeleted, MakeRepo, ChooseAnchor, LookForMark, MakeMark, MarkRefused, BindRow,
         InsertRow, AlreadyBound, ManageRepo, InsertManaged, MoveRow, RenameRow,
         RowNotMoved, LookForDoomed, DropMark, DropRefused, Unbind, DeleteRow, storeVars
<1>2. {"events", "reconcile", "hook"} \subseteq Procs
  BY DEF Procs
<1>3. CASE Environment
  <2>1. CASE AgentActs \/ \E e \in stream : LoseEvent(e)
    BY <2>1 DEF AgentActs, AgentCreates, AgentForks, AgentRenames, AgentDeletes, LoseEvent,
                others, storeVars
  <2>2. CASE \/ \E w \in Removable : JJRemoves(w)
             \/ \E s \in Sids : ToolStarts(s)
             \/ \E c \in Commits : ToolCommits(c)
             \/ \E r \in rows : ToolLooksUp(r)
             \/ CacheChanges
             \/ Crash
    BY <2>2 DEF JJRemoves, ToolStarts, ToolCommits, ToolLooksUp, CacheChanges, Crash,
                storeVars
  <2>3. ASSUME NEW p \in Procs, CallFails(p) \/ HandlerBlind(p) PROVE managed \subseteq managed'
    BY <2>3 DEF CallFails, FailCall, HandlerBlind, LookForMark, LookForDoomed, storeVars
  <2>5. ASSUME NEW p \in Procs, CallUnanswered(p) PROVE managed \subseteq managed'
    BY <2>5 DEF CallUnanswered, Unanswered, WritesRow, InsertRow, InsertManaged, RenameRow,
                DeleteRow, storeVars
  <2>4. CASE \/ AckLost \/ VarsWriteFails \/ PassFails \/ PassUnanswered \/ AdoptFails
             \/ (\E r \in Repos : PassBlind(r)) \/ SheetFails \/ AnswerLost
    BY <2>4 DEF AckLost, Nack, VarsWriteFails, VarsFail, PassFails, FailPass, AdoptFails,
                PassUnanswered, SweepUnanswered, DeleteRow, FailAdoption, PassBlind, ReadTree,
                SheetFails, HookFails, AnswerLost, CarriedOut, storeVars
  <2> QED
    BY <1>3, <2>1, <2>2, <2>3, <2>4, <2>5 DEF Environment
<1>4. CASE EventsStep
  BY <1>1, <1>2, <1>4
     DEF EventsStep, Deliver, Ack, Nack, ResolveVars, PublishSessionVars,
         ClearSessionVars, storeVars
<1>5. CASE ReconcileStep
  <2>1. CASE StartTick \/ CompletePass \/ AbortPass
    BY <2>1 DEF StartTick, StartPass, CompletePass, PassDone, AbortPass, PassAborted,
                storeVars
  <2>2. ASSUME NEW r \in pass.drop, SweepRow(r) PROVE managed \subseteq managed'
    BY <2>2 DEF SweepRow, DeleteRow
  <2>3. CASE PassStep
    <3>1. ASSUME NEW r \in Repos, ReadRows(r) PROVE UNCHANGED storeVars
      BY <3>1 DEF ReadRows
    <3>2. CASE ReadManaged \/ ReadTree({}) \/ ReadMapped
      BY <3>2 DEF ReadManaged, ReadTree, ReadMapped, storeVars
    <3>3. ASSUME NEW w \in pass.heal, Backfill(w) PROVE UNCHANGED storeVars
      BY <3>3 DEF Backfill
    <3> QED
      BY <1>1, <1>2, <2>2, <2>3, <3>1, <3>2, <3>3 DEF PassStep, storeVars
  <2> QED
    BY <1>5, <2>1, <2>3 DEF ReconcileStep
<1>6. CASE AdoptStep
  BY <1>6 DEF AdoptStep, AdoptStarts, FindOrphan, AdoptCreates, EnsureSession, AdoptEnds,
              AdoptRow, InsertRow, AdoptRefused, storeVars
<1>7. CASE SheetStep
  BY <1>1, <1>2, <1>7
     DEF SheetStep, SheetProposed, SheetDecided, Reject, Dispatch, SheetActs, SheetForks,
         DropSession, SheetRuns, Record, AlreadyExecuted, AnsweredMeanwhile, Forking,
         NothingToFork, FindDoomed, HookProgress, HookRefuses, CarriedOut, storeVars
<1> QED
  BY <1>3, <1>4, <1>5, <1>6, <1>7 DEF Next

\* Tools resolving, committing and caching, and the first look of an adoption.
Bystander == UNCHANGED <<repos, marks, rows, agentVars, stepVars, pass, calm>>

LEMMA CalmSteps ==
    Next => calm' = 0 \/ StartTick \/ CompletePass \/ PassStep \/ Bystander
<1> SUFFICES ASSUME Next
             PROVE  calm' = 0 \/ StartTick \/ CompletePass \/ PassStep \/ Bystander
  OBVIOUS
<1>1. CASE Environment
  <2>1. calm' = 0 \/ (\E r \in Sids : ToolStarts(r)) \/ (\E c \in Commits : ToolCommits(c))
        \/ (\E r \in rows : ToolLooksUp(r)) \/ CacheChanges
    BY <1>1 DEF Environment, AgentActs, AgentCreates, AgentForks, AgentRenames,
                AgentDeletes, LoseEvent, JJRemoves, Crash, CallFails, HandlerBlind,
                CallUnanswered, AckLost, VarsWriteFails, PassFails, PassUnanswered,
                AdoptFails, PassBlind, SheetFails, AnswerLost, Disturb
  <2>2. ASSUME NEW r \in Sids, ToolStarts(r) PROVE Bystander
    BY <2>2 DEF ToolStarts, Bystander, KeepCalm, jjVars, storeVars
  <2>3. ASSUME NEW c \in Commits, ToolCommits(c) PROVE Bystander
    BY <2>3 DEF ToolCommits, Commit, Bystander, KeepCalm, jjVars, storeVars
  <2>4. ASSUME NEW r \in rows, ToolLooksUp(r) PROVE Bystander
    BY <2>4 DEF ToolLooksUp, Bystander, KeepCalm, jjVars, storeVars
  <2>5. CASE CacheChanges
    BY <2>5 DEF CacheChanges, Bystander, KeepCalm, jjVars, storeVars
  <2> QED
    BY <2>1, <2>2, <2>3, <2>4, <2>5
<1>2. CASE EventsStep \/ SheetStep
  BY <1>2 DEF EventsStep, SheetStep, Disturb
<1>3. CASE ReconcileStep
  BY <1>3 DEF ReconcileStep, AbortPass, Disturb
<1>4. CASE AdoptStep
  BY <1>4 DEF AdoptStep, AdoptStarts, FindOrphan, AdoptCreates, AdoptEnds, Bystander,
              KeepCalm, Disturb, jjVars, storeVars
<1> QED
  BY <1>1, <1>2, <1>3, <1>4 DEF Next

----------------------------------------------------------------------------
(* The steps of a pass.                                                    *)

\* They touch nothing that a pass or its result is about.
LEMMA BystanderKeeps ==
    ASSUME CalmOK, calm = 2 => DoneOK, Bystander
    PROVE  CalmOK' /\ (calm = 2 => DoneOK)'
BY DEF Bystander, CalmOK, Tame, DoneOK, Quiet, Mirror, ReadOK, HealOK, Swept, AllLive, LiveRow,
       CoveredBut, HasRowOf, agentVars, stepVars

\* Every session has a row, and every row its session and bookmark.
LEMMA CoveredIsMirror ==
    ASSUME AllLive, CoveredBut({})
    PROVE  Mirror
<1>1. ASSUME NEW s \in sessions \intersect DerivedNames PROVE HasRowOf(s)
  <2>1. PICK w \in Workspaces : s = NamingSession(w)
    BY DEF DerivedNames
  <2> QED
    BY <2>1 DEF CoveredBut
<1> QED
  BY <1>1 DEF Mirror, AllLive, LiveRow

\* A tick on a quiet system starts from nothing but the sessions there are.
LEMMA StartTickKeeps ==
    ASSUME StepTypeOK(Labels), calm = 2 => DoneOK, StartTick
    PROVE  CalmOK' /\ (calm = 2 => DoneOK)'
<1>1. /\ at'["reconcile"] = "managed" /\ at'["events"] = at["events"]
      /\ pass' = [NoPass EXCEPT !.seen = sessions]
      /\ UNCHANGED <<repos, marks, rows, sessions, stream>>
  BY DEF StartTick, StartPass, Advance, Goto, StepTypeOK, Procs, ListSessions, jjVars,
         storeVars, agentVars
<1>2. pass'.seen = sessions /\ pass'.drop = {} /\ pass'.heal = {}
  BY <1>1 DEF NoPass
<1>3. calm' >= 1 => Quiet'
  BY <1>1 DEF StartTick, Quiet
<1>4. ReadOK(at["reconcile"])' /\ HealOK(at["reconcile"], call["reconcile"].ws)'
  BY <1>1, <1>2 DEF ReadOK, HealOK, Between, CallLabels
<1>5. (calm = 2 => DoneOK)'
  <2>1. calm' = 2 => calm = 2
    BY DEF StartTick
  <2> QED
    BY <1>1, <1>2, <2>1 DEF DoneOK, Mirror, HasRowOf, PassLabels
<1> QED
  BY <1>3, <1>4, <1>5 DEF CalmOK, Tame

\* A pass that comes to its end undisturbed has mirrored everything.
LEMMA CompletePassKeeps ==
    ASSUME StepTypeOK(Labels), calm \in 0..2, CalmOK, CompletePass
    PROVE  CalmOK' /\ (calm = 2 => DoneOK)'
<1>1. /\ at'["reconcile"] = "idle" /\ at'["events"] = at["events"] /\ pass' = NoPass
      /\ at["reconcile"] \in Between /\ pass.heal = {}
      /\ UNCHANGED <<repos, marks, rows, sessions, stream>>
  BY DEF CompletePass, PassDone, EndPass, Enter, StepTypeOK, Procs, jjVars, storeVars,
         agentVars
<1>2. CASE calm = 0
  BY <1>2 DEF CompletePass, CalmOK
<1>3. CASE calm >= 1
  <2>1. Quiet /\ AllLive /\ CoveredBut({})
    BY <1>1, <1>3 DEF CalmOK, Tame, HealOK
  <2>2. Quiet' /\ Mirror'
    BY <1>1, <2>1, CoveredIsMirror DEF Quiet, Mirror, HasRowOf
  <2>3. ReadOK(at["reconcile"])' /\ HealOK(at["reconcile"], call["reconcile"].ws)'
    BY <1>1 DEF ReadOK, HealOK, Reading, Between, CallLabels
  <2> QED
    BY <1>1, <2>2, <2>3 DEF CalmOK, Tame, DoneOK, NoPass
<1> QED
  BY <1>2, <1>3

\* One read or one deletion of a pass: it keeps what the reads before it have
\* found out, and once nothing was left to do it finds nothing.
ReadStep ==
    \/ ReadManaged \/ ReadTree({}) \/ (\E r \in Repos : ReadRows(r))
    \/ (\E r \in pass.drop : SweepRow(r)) \/ ReadMapped

LEMMA ReadStepsMove ==
    ASSUME StepTypeOK(Labels), ReadStep
    PROVE  /\ UNCHANGED <<jjVars, agentVars, call>>
           /\ at'["events"] = at["events"]
           /\ at["reconcile"] \in Reading
           /\ at'["reconcile"] \in PassLabels
<1>1. ASSUME NEW l \in PassLabels, Goto("reconcile", l)
      PROVE  at'["reconcile"] = l /\ at'["events"] = at["events"] /\ call' = call
  BY <1>1 DEF Goto, StepTypeOK, Procs
<1>2. \A q : AfterSweep(q) \in {"rows", "sweep", "mapped"}
  BY DEF AfterSweep
<1>3. CASE ReadManaged \/ ReadTree({}) \/ ReadMapped
  BY <1>1, <1>3 DEF ReadManaged, ReadTree, ReadMapped, Advance, Reading, PassLabels
<1>4. ASSUME NEW r \in Repos, ReadRows(r)
      PROVE  /\ UNCHANGED <<jjVars, agentVars, call>> /\ at'["events"] = at["events"]
             /\ at["reconcile"] = "rows" /\ at'["reconcile"] \in {"rows", "sweep", "mapped"}
  BY <1>1, <1>2, <1>4 DEF ReadRows, Advance, PassLabels
<1>5. ASSUME NEW r \in pass.drop, SweepRow(r)
      PROVE  /\ UNCHANGED <<jjVars, agentVars, call>> /\ at'["events"] = at["events"]
             /\ at["reconcile"] = "sweep" /\ at'["reconcile"] \in {"rows", "sweep", "mapped"}
  BY <1>1, <1>2, <1>5 DEF SweepRow, Advance, PassLabels
<1> QED
  BY <1>3, <1>4, <1>5 DEF ReadStep, Reading, PassLabels

\* Where a sweep goes on, and what is then known of the rows.
LEMMA AfterSweepOK ==
    ASSUME StepTypeOK(Labels), NEW q, Advance(AfterSweep(q), q), q.seen = sessions,
           marks' = marks, sessions' = sessions, q.tree = marks,
           \A r \in rows' : r.ws.repo \in q.todo \/ LiveRow(r) \/ r \in q.drop
    PROVE  ReadOK(at["reconcile"])'
<1>1. at'["reconcile"] = AfterSweep(q) /\ pass' = q
  BY DEF Advance, Goto, StepTypeOK, Procs
<1>2. AfterSweep(q) = "mapped" => q.todo = {} /\ q.drop = {}
  BY DEF AfterSweep
<1>3. AfterSweep(q) \in {"rows", "sweep", "mapped"}
      /\ (AfterSweep(q) # "sweep" => q.drop = {})
  BY DEF AfterSweep
<1>4. \A r \in rows' : LiveRow(r)' <=> LiveRow(r)
  BY DEF LiveRow
<1> HIDE DEF AfterSweep
<1> QED
  BY <1>1, <1>2, <1>3, <1>4 DEF ReadOK, Reading, Swept, AllLive

LEMMA ReadStepKeepsTame ==
    ASSUME IInv, managed = Repos, Tame, ReadStep
    PROVE  Tame'
<1> DEFINE l == at["reconcile"]
<1>0. /\ StepTypeOK(Labels) /\ StoreTypeOK
      /\ \A r \in rows : r.ws.repo \in Repos
  BY DEF IInv, TypeOK, StoreTypeOK, Rows, Workspaces
<1>1. /\ UNCHANGED <<repos, marks, sessions, stream, call>> /\ at'["events"] = at["events"]
      /\ l \in Reading /\ l' \in PassLabels
  BY <1>0, ReadStepsMove DEF jjVars, agentVars
<1>2. Quiet' /\ pass.seen = sessions /\ ReadOK(l)
  BY <1>1 DEF Tame, Quiet, ReadOK
<1>3. CASE ReadManaged
  <2>1. l = "managed" /\ l' = (IF Repos = {} THEN "mapped" ELSE "tree")
        /\ pass' = [pass EXCEPT !.todo = Repos] /\ rows' = rows
    BY <1>0, <1>3 DEF ReadManaged, Advance, Goto, StepTypeOK, Procs, storeVars
  <2>2. pass \in Passes
    BY DEF IInv, TypeOK, PassTypeOK
  <2>3. pass'.seen = sessions /\ pass'.drop = {} /\ pass'.todo = Repos
    BY <1>2, <2>1, <2>2 DEF Passes, ReadOK, Reading
  <2>4. Repos = {} => rows = {}
    BY <1>0
  <2>5. ReadOK(l)' /\ HealOK(l, call["reconcile"].ws)'
    BY <1>1, <2>1, <2>3, <2>4 DEF ReadOK, HealOK, AllLive, Between, CallLabels
  <2> QED
    BY <1>2, <2>5 DEF Tame
<1>4. CASE ReadTree({})
  <2>1. l = "tree" /\ l' = "rows" /\ rows' = rows
        /\ pass' = [pass EXCEPT !.tree = {w \in marks : w.repo \notin {}}]
    BY <1>0, <1>4 DEF ReadTree, Advance, Goto, StepTypeOK, Procs, storeVars
  <2>2. pass \in Passes
    BY DEF IInv, TypeOK, PassTypeOK
  <2>3. pass'.seen = sessions /\ pass'.drop = {} /\ pass'.todo = Repos /\ pass'.tree = marks
    BY <1>2, <2>1, <2>2 DEF Passes, ReadOK, Reading
  <2>4. ReadOK(l)' /\ HealOK(l, call["reconcile"].ws)'
    BY <1>0, <1>1, <2>1, <2>3 DEF ReadOK, HealOK, Swept, Between, CallLabels
  <2> QED
    BY <1>2, <2>4 DEF Tame
<1>5. ASSUME NEW repo \in Repos, ReadRows(repo) PROVE ReadOK(l)' /\ l' # "next"
  <2> DEFINE q == [pass EXCEPT !.todo = @ \ {repo},
                               !.drop = {r \in rows : r.ws.repo = repo /\ Stale(r)}]
  <2>1. l = "rows" /\ Advance(AfterSweep(q), q) /\ rows' = rows
    BY <1>5 DEF ReadRows, storeVars
  <2>2. pass.tree = marks /\ Swept /\ pass.drop = {}
    BY <1>2, <2>1 DEF ReadOK, Reading
  <2>3. q.seen = pass.seen /\ q.tree = pass.tree /\ q.todo = pass.todo \ {repo}
        /\ q.drop = {r \in rows : r.ws.repo = repo /\ Stale(r)}
    BY DEF IInv, TypeOK, PassTypeOK, Passes
  <2>4. \A r \in rows : Stale(r) \/ LiveRow(r)
    BY <1>2, <2>2 DEF Stale, LiveRow
  <2>5. \A r \in rows' : r.ws.repo \in q.todo \/ LiveRow(r) \/ r \in q.drop
    BY <2>1, <2>2, <2>3, <2>4 DEF Swept
  <2>6. AfterSweep(q) # "next"
    BY DEF AfterSweep
  <2> HIDE DEF q
  <2>7. l' = AfterSweep(q)
    BY <1>0, <2>1 DEF Advance, Goto, StepTypeOK, Procs
  <2> QED
    BY <1>0, <1>1, <1>2, <2>1, <2>2, <2>3, <2>5, <2>6, <2>7, AfterSweepOK
<1>6. ASSUME NEW r \in pass.drop, SweepRow(r) PROVE ReadOK(l)' /\ l' # "next"
  <2> DEFINE q == [pass EXCEPT !.drop = @ \ {r}]
  <2>1. l = "sweep" /\ Advance(AfterSweep(q), q) /\ rows' = rows \ RowsAt(r.ws)
    BY <1>6 DEF SweepRow, DeleteRow
  <2>2. pass.tree = marks /\ Swept
    BY <1>2, <2>1 DEF ReadOK
  <2>3. q.seen = pass.seen /\ q.tree = pass.tree /\ q.todo = pass.todo
        /\ q.drop = pass.drop \ {r}
    BY DEF IInv, TypeOK, PassTypeOK, Passes
  <2>4. \A x \in rows' : x \in rows /\ x # r
    BY <2>1 DEF RowsAt
  <2>5. \A x \in rows' : x.ws.repo \in q.todo \/ LiveRow(x) \/ x \in q.drop
    BY <2>2, <2>3, <2>4 DEF Swept
  <2>6. AfterSweep(q) # "next"
    BY DEF AfterSweep
  <2> HIDE DEF q
  <2>7. l' = AfterSweep(q)
    BY <1>0, <2>1 DEF Advance, Goto, StepTypeOK, Procs
  <2> QED
    BY <1>0, <1>1, <1>2, <2>1, <2>2, <2>3, <2>5, <2>6, <2>7, AfterSweepOK
<1>7. ASSUME (\E r \in Repos : ReadRows(r)) \/ (\E r \in pass.drop : SweepRow(r))
      PROVE  Tame'
  <2>1. ReadOK(l)' /\ l' # "next" /\ l' \in PassLabels
    BY <1>1, <1>5, <1>6, <1>7
  <2>2. HealOK(l, call["reconcile"].ws)'
    BY <2>1 DEF HealOK, Between, CallLabels, PassLabels
  <2> QED
    BY <1>2, <2>1, <2>2 DEF Tame
<1>8. CASE ReadMapped
  <2>1. l = "mapped" /\ l' = "next" /\ rows' = rows
        /\ pass'.heal = {w \in Workspaces : NamingSession(w) \in pass.seen
                                             /\ ~ HasRowOf(NamingSession(w))}
    BY <1>0, <1>8 DEF ReadMapped, Advance, Goto, NoPass, StepTypeOK, Procs, storeVars
  <2>2. AllLive' /\ CoveredBut(pass.heal)'
        /\ (\A v \in pass.heal : NamingSession(v) \in sessions)'
    BY <1>1, <1>2, <2>1 DEF ReadOK, AllLive, LiveRow, CoveredBut, HasRowOf
  <2>3. ReadOK(l)' /\ HealOK(l, call["reconcile"].ws)'
    BY <2>1, <2>2 DEF ReadOK, HealOK, Reading, Between, CallLabels
  <2> QED
    BY <1>2, <2>3 DEF Tame
<1> QED
  BY <1>3, <1>4, <1>7, <1>8 DEF ReadStep

\* When nothing was left to do, the reads find nothing to do again.
LEMMA ReadStepKeepsDone ==
    ASSUME IInv, Tame, DoneOK, ReadStep
    PROVE  DoneOK' /\ UNCHANGED storeVars
<1> DEFINE l == at["reconcile"]
<1>0. StepTypeOK(Labels) /\ pass \in Passes
  BY DEF IInv, TypeOK, PassTypeOK
<1>1. UNCHANGED <<marks, sessions>> /\ l \in Reading /\ l' \in PassLabels
  BY <1>0, ReadStepsMove DEF jjVars, agentVars
<1>2. Mirror /\ pass.drop = {} /\ pass.heal = {} /\ pass.seen = sessions
  BY <1>1 DEF DoneOK, Tame, ReadOK
<1>3. UNCHANGED storeVars /\ pass'.drop = {} /\ pass'.heal = {}
  <2>1. CASE ReadManaged \/ ReadTree({})
    BY <1>0, <1>2, <2>1 DEF ReadManaged, ReadTree, Advance, Passes
  <2>2. ASSUME NEW repo \in Repos, ReadRows(repo)
        PROVE  UNCHANGED storeVars /\ pass'.drop = {} /\ pass'.heal = {}
    <3>1. pass.tree = marks
      BY <2>2 DEF Tame, ReadOK, ReadRows
    <3>2. \A r \in rows : ~ Stale(r)
      BY <1>2, <3>1 DEF Mirror, Stale
    <3>3. pass'.drop = {r \in rows : r.ws.repo = repo /\ Stale(r)} /\ pass'.heal = pass.heal
          /\ UNCHANGED storeVars
      BY <1>0, <2>2 DEF ReadRows, Advance, Passes
    <3> QED
      BY <1>2, <3>2, <3>3
  <2>3. CASE ReadMapped
    <3>1. \A w \in Workspaces : NamingSession(w) \in pass.seen => HasRowOf(NamingSession(w))
      BY <1>2, NamesAreABijection DEF Mirror
    <3>2. pass' = [NoPass EXCEPT !.heal =
                      {w \in Workspaces : NamingSession(w) \in pass.seen
                                          /\ ~ HasRowOf(NamingSession(w))}]
          /\ UNCHANGED storeVars
      BY <2>3 DEF ReadMapped, Advance
    <3> QED
      BY <3>1, <3>2 DEF NoPass
  <2> QED
    BY <1>2, <2>1, <2>2, <2>3 DEF ReadStep
<1>4. Mirror'
  BY <1>1, <1>2, <1>3 DEF Mirror, HasRowOf, storeVars
<1> QED
  BY <1>1, <1>3, <1>4 DEF DoneOK

\* A backfill begins.
LEMMA BackfillKeepsTame ==
    ASSUME IInv, Tame, NEW w \in pass.heal, Backfill(w)
    PROVE  Tame'
<1> DEFINE l == at["reconcile"]
           c == Call("create", w, None, None)
<1>1. StepTypeOK(Labels) /\ pass \in Passes
  BY DEF IInv, TypeOK, PassTypeOK
<1>2. /\ l \in Between /\ l' = "findRow" /\ at'["events"] = at["events"]
      /\ call'["reconcile"] = c
      /\ pass'.heal = pass.heal \ {w}
      /\ UNCHANGED <<rows, marks, sessions, stream>>
  BY <1>1 DEF Backfill, Enter, StepTypeOK, Procs, Passes, jjVars, storeVars, agentVars
<1>3. c.ws = w
  BY DEF Call
<1> HIDE DEF c
<1>4. AllLive /\ (\A v \in pass.heal : NamingSession(v) \in sessions) /\ CoveredBut(pass.heal)
      /\ Quiet
  BY <1>2 DEF Tame, HealOK
<1>5. AllLive' /\ (\A v \in pass.heal : NamingSession(v) \in sessions)'
      /\ NamingSession(w) \in sessions' /\ Quiet'
  BY <1>2, <1>4 DEF AllLive, LiveRow, Quiet
<1>6. CoveredBut(pass.heal \union {w})'
  BY <1>2, <1>4 DEF CoveredBut, HasRowOf
<1>7. ReadOK(l)' /\ HealOK(l, call["reconcile"].ws)'
  BY <1>2, <1>3, <1>5, <1>6 DEF ReadOK, HealOK, Reading, Between, CallLabels
<1> QED
  BY <1>5, <1>7 DEF Tame

\* One call of a backfill: the session's repository, bookmark and row come to
\* be, and nothing that is there is taken away.
LEMMA BackfillStepKeepsTame ==
    ASSUME IInv, Tame, Progress("reconcile"), UNCHANGED <<agentVars, pass>>,
           NEW w, w = call["reconcile"].ws, NEW H, H = pass.heal
    PROVE  Tame'
<1> DEFINE p == "reconcile"
           l == at[p]
           c == call[p]
           s == NamingSession(w)
<1>1. p \in Procs /\ StepTypeOK(Labels) /\ ResolvesOwnBookmark /\ CallOK /\ Quiet
      /\ UNCHANGED <<sessions, stream, pass>>
  BY DEF IInv, TypeOK, Tame, Procs, agentVars
<1>2. l \in CallLabels /\ at'["events"] = at["events"]
  BY <1>1
     DEF Progress, AlreadyMirrored, NotMirrored, ForkNotMirrored, FindParent, FindFrom,
         FindDeleted, MakeRepo, ChooseAnchor, LookForMark, MakeMark, MarkRefused, BindRow,
         AlreadyBound, ManageRepo, MoveRow, RowNotMoved, LookForDoomed, DropMark,
         DropRefused, Unbind, CallLabels, Goto, Enter, Return, StepTypeOK, Procs
<1>3. c \in Calls /\ c.op = "create" /\ Fits(p, c, l)
  <2>1. Fits(p, c, l)
    BY <1>1 DEF CallOK
  <2> QED
    BY <1>2, <2>1 DEF Fits, Calls, Ops
<1>4. HealOK(l, w) /\ AllLive /\ CoveredBut(H \union {w}) /\ s \in sessions
      /\ \A v \in H : NamingSession(v) \in sessions
  BY <1>2 DEF Tame, HealOK
<1>5. ASSUME NEW k \in CallLabels \union Outcomes, at'[p] = k, call'[p].ws = w,
             HealOK(k, w)'
      PROVE  Tame'
  <2>1. Quiet'
    BY <1>1, <1>2 DEF Quiet
  <2>2. k \notin Reading
    BY DEF CallLabels, Outcomes, Reading
  <2>3. ReadOK(l)'
    BY <1>5, <2>2 DEF ReadOK, Reading
  <2>4. HealOK(l, c.ws)'
    BY <1>5 DEF HealOK, CoveredBut, HasRowOf
  <2> QED
    BY <2>1, <2>3, <2>4 DEF Tame
<1>6. ASSUME UNCHANGED rows, marks \subseteq marks'
      PROVE  AllLive' /\ CoveredBut(H \union {w})' /\ s \in sessions'
             /\ (\A v \in H : NamingSession(v) \in sessions)'
  BY <1>1, <1>4, <1>6 DEF AllLive, LiveRow, CoveredBut, HasRowOf
<1>7. ASSUME Goto(p, "retry"), UNCHANGED <<marks, rows>> PROVE Tame'
  <2>1. at'[p] = "retry" /\ call'[p].ws = w
    BY <1>1, <1>7 DEF Goto, StepTypeOK
  <2>2. HealOK("retry", w)'
    BY DEF HealOK, Between, CallLabels
  <2> QED
    BY <1>5, <2>1, <2>2 DEF Outcomes
<1>8. ASSUME Return(p), HasRowOf(s), UNCHANGED <<marks, rows>> PROVE Tame'
  <2>1. at'[p] = "ok" /\ call'[p].ws = w
    BY <1>1, <1>3, <1>8 DEF Return, Goto, StepTypeOK
  <2>2. CoveredBut(H)'
    BY <1>6, <1>8 DEF CoveredBut, HasRowOf
  <2>3. HealOK("ok", w)'
    BY <1>1, <1>6, <1>8, <2>2 DEF HealOK, Between, CallLabels
  <2> QED
    BY <1>5, <2>1, <2>3 DEF Outcomes
<1>9. ASSUME NEW k \in CallLabels, at'[p] = k, call'[p].ws = w, UNCHANGED rows,
             marks \subseteq marks',
             k \in {"anchor", "look", "create", "bind", "manage"} => w.repo \in repos',
             k = "bind" => w \in marks',
             k # "manage"
      PROVE  Tame'
  <2>1. HealOK(k, w)'
    BY <1>1, <1>6, <1>9 DEF HealOK, Between, CallLabels
  <2> QED
    BY <1>5, <1>9, <2>1
<1>10. CASE AlreadyMirrored(p)
  BY <1>8, <1>10 DEF AlreadyMirrored, jjVars, storeVars
<1>11. CASE NotMirrored(p)
  <2>1. at'[p] = "repo" /\ call'[p].ws = w
    BY <1>1, <1>11 DEF NotMirrored, Goto, StepTypeOK
  <2> QED
    BY <1>9, <1>11, <2>1 DEF NotMirrored, CallLabels, jjVars, storeVars
<1>12. CASE MakeRepo(p)
  <2>1. at'[p] = "anchor" /\ call'[p].ws = w
    BY <1>1, <1>3, <1>12 DEF MakeRepo, AfterRepo, Goto, StepTypeOK
  <2>2. UNCHANGED rows /\ w.repo \in repos' /\ marks \subseteq marks'
    BY <1>12 DEF MakeRepo, EnsureRepo, storeVars
  <2> QED
    BY <1>9, <2>1, <2>2 DEF CallLabels
<1>13. CASE ChooseAnchor(p)
  <2>1. at'[p] = "look" /\ call'[p].ws = w
    BY <1>1, <1>3, <1>13 DEF ChooseAnchor, Enter, StepTypeOK, Calls
  <2>2. UNCHANGED <<rows, marks, repos>> /\ l = "anchor"
    BY <1>13 DEF ChooseAnchor, jjVars, storeVars
  <2>3. w.repo \in repos'
    BY <1>4, <2>2 DEF HealOK
  <2> QED
    BY <1>9, <2>1, <2>2, <2>3 DEF CallLabels
<1>14. CASE LookForMark(p, TRUE)
  <2>1. UNCHANGED <<rows, marks, repos>> /\ l = "look"
    BY <1>14 DEF LookForMark, jjVars, storeVars
  <2>2. w.repo \in repos
    BY <1>4, <2>1 DEF HealOK
  <2>3. call'[p].ws = w /\ (at'[p] = "create" \/ (at'[p] = "bind" /\ w \in marks))
    BY <1>1, <1>3, <1>14, <2>2 DEF LookForMark, AfterMark, Goto, StepTypeOK
  <2> QED
    BY <1>9, <2>1, <2>2, <2>3 DEF CallLabels
<1>15. CASE MakeMark(p)
  <2>1. at'[p] = "bind" /\ call'[p].ws = w /\ l = "create"
    BY <1>1, <1>3, <1>15 DEF MakeMark, AfterMark, Goto, StepTypeOK
  <2>2. UNCHANGED <<rows, repos>> /\ marks' = marks \union {w}
    BY <1>15 DEF MakeMark, CreateBookmark, storeVars
  <2>3. w.repo \in repos'
    BY <1>4, <2>1, <2>2 DEF HealOK
  <2> QED
    BY <1>9, <2>1, <2>2, <2>3 DEF CallLabels
<1>16. CASE MarkRefused(p)
  BY <1>7, <1>16 DEF MarkRefused, jjVars, storeVars
<1>17. CASE BindRow(p)
  <2>1. at'[p] = "manage" /\ call'[p].ws = w /\ l = "bind"
    BY <1>1, <1>17 DEF BindRow, Goto, StepTypeOK
  <2>2. rows' = rows \union {[ws |-> w, sid |-> s]} /\ UNCHANGED <<marks, repos>>
    BY <1>17 DEF BindRow, InsertRow, jjVars
  <2>3. w.repo \in repos /\ w \in marks
    BY <1>4, <2>1 DEF HealOK
  <2> DEFINE new == [ws |-> w, sid |-> s]
  <2>4. new \in rows' /\ new.ws = w /\ new.sid = s
    BY <2>2
  <2> HIDE DEF new
  <2>5. AllLive'
    BY <1>1, <1>4, <2>2, <2>3, <2>4 DEF AllLive, LiveRow, new
  <2>6. HasRowOf(s)' /\ CoveredBut(H \union {w})'
    BY <1>1, <1>4, <2>2, <2>4 DEF HasRowOf, CoveredBut
  <2>7. HealOK("manage", w)'
    BY <1>1, <1>4, <2>2, <2>3, <2>5, <2>6 DEF HealOK, Between
  <2> QED
    BY <1>5, <2>1, <2>7 DEF CallLabels
<1>18. CASE AlreadyBound(p)
  <2>1. PICK r \in rows : r.ws = w \/ r.sid = s
    BY <1>18 DEF AlreadyBound, Conflicts
  <2>2. r.sid = NamingSession(r.ws)
    BY <1>1 DEF ResolvesOwnBookmark
  <2> QED
    BY <1>8, <1>18, <2>1, <2>2 DEF AlreadyBound, HasRowOf, jjVars, storeVars
<1>19. CASE ManageRepo(p)
  <2>1. HasRowOf(s)
    BY <1>4, <1>19 DEF ManageRepo, HealOK
  <2> QED
    BY <1>8, <1>19, <2>1 DEF ManageRepo, InsertManaged, jjVars
<1>20. ~ (\/ ForkNotMirrored(p) \/ FindParent(p) \/ FindFrom(p) \/ FindDeleted(p)
         \/ MoveRow(p) \/ RowNotMoved(p) \/ LookForDoomed(p, TRUE) \/ DropMark(p)
         \/ DropRefused(p) \/ Unbind(p))
  BY <1>3 DEF Fits, ForkNotMirrored, FindParent, FindFrom, FindDeleted, MoveRow, RowNotMoved,
              LookForDoomed, DropMark, DropRefused, Unbind
<1>21. \/ AlreadyMirrored(p) \/ NotMirrored(p) \/ MakeRepo(p) \/ ChooseAnchor(p)
       \/ LookForMark(p, TRUE) \/ MakeMark(p) \/ MarkRefused(p) \/ BindRow(p)
       \/ AlreadyBound(p) \/ ManageRepo(p)
  BY <1>20, Zenon DEF Progress
<1> QED
  BY <1>10, <1>11, <1>12, <1>13, <1>14, <1>15, <1>16, <1>17, <1>18, <1>19, <1>21, Zenon

LEMMA PassStepKeeps ==
    ASSUME IInv, managed = Repos, CalmOK, calm = 2 => DoneOK, PassStep
    PROVE  /\ CalmOK' /\ (calm = 2 => DoneOK)'
           /\ calm = 2 => UNCHANGED <<repos, marks, rows, managed>>
<1>1. calm' = calm
  BY DEF PassStep, KeepCalm
<1>2. CASE calm < 1 \/ ~ (calm \in 0..2)
  BY <1>1, <1>2 DEF IInv, TypeOK, CalmOK
<1>3. CASE calm >= 1
  <2>1. Tame
    BY <1>3 DEF CalmOK
  <2>2. CASE ReadStep
    <3>1. Tame' /\ (calm = 2 => DoneOK' /\ UNCHANGED storeVars)
      BY <2>1, <2>2, ReadStepKeepsTame, ReadStepKeepsDone
    <3>2. StepTypeOK(Labels)
      BY DEF IInv, TypeOK
    <3>3. UNCHANGED jjVars
      BY <2>2, <3>2, ReadStepsMove
    <3> QED
      BY <1>1, <3>1, <3>3 DEF CalmOK, jjVars, storeVars
  <2>3. ASSUME NEW w \in pass.heal, Backfill(w) PROVE Tame' /\ calm # 2
    BY <2>1, <2>3, BackfillKeepsTame DEF DoneOK
  <2>4. CASE Progress("reconcile") /\ UNCHANGED <<projected, toolVars, agentVars, pass>>
    <3>1. Tame'
      BY <2>1, <2>4, BackfillStepKeepsTame
    <3>2. at["reconcile"] \in CallLabels
      BY <2>4
         DEF Progress, AlreadyMirrored, NotMirrored, ForkNotMirrored, FindParent, FindFrom,
             FindDeleted, MakeRepo, ChooseAnchor, LookForMark, MakeMark, MarkRefused,
             BindRow, AlreadyBound, ManageRepo, MoveRow, RowNotMoved, LookForDoomed,
             DropMark, DropRefused, Unbind, CallLabels
    <3>3. calm # 2
      BY <3>2 DEF DoneOK, CallLabels, PassLabels
    <3> QED
      BY <1>1, <3>1, <3>3 DEF CalmOK
  <2> QED
    BY <1>1, <2>2, <2>3, <2>4 DEF PassStep, ReadStep, CalmOK
<1> QED
  BY <1>2, <1>3 DEF IInv, TypeOK

----------------------------------------------------------------------------
(* The theorems.                                                           *)

LEMMA InitPassInv == Init /\ InitManaged = Repos => PassInv
BY DEF Init, PassInv, CalmOK

\* One step of the system keeps what a pass has achieved, and after a
\* completed pass writes nothing as long as it is undisturbed.
LEMMA NextKeepsPassInv ==
    IInv /\ IInv' /\ PassInv /\ [Next]_vars
        => /\ PassInv'
           /\ calm = 2 /\ calm' = 2 => UNCHANGED <<repos, marks, rows, managed>>
<1> SUFFICES ASSUME IInv, IInv', PassInv, [Next]_vars
             PROVE  /\ PassInv'
                    /\ calm = 2 /\ calm' = 2 => UNCHANGED <<repos, marks, rows, managed>>
  OBVIOUS
<1>1. managed = Repos /\ CalmOK /\ (calm = 2 => DoneOK) /\ StepTypeOK(Labels)
      /\ calm \in 0..2
  BY DEF PassInv, IInv, TypeOK
<1>2. CASE Next
  <2>1. managed' = Repos
    BY <1>1, <1>2, ManagedGrows DEF IInv, TypeOK, StoreTypeOK
  <2>2. CASE calm' = 0
    BY <2>1, <2>2 DEF PassInv, CalmOK
  <2>3. CASE StartTick
    <3>1. CalmOK' /\ (calm = 2 => DoneOK)'
      BY <1>1, <2>3, StartTickKeeps
    <3>2. UNCHANGED <<repos, marks, rows, managed>>
      BY <2>3 DEF StartTick, StartPass, jjVars, storeVars
    <3> QED
      BY <2>1, <3>1, <3>2 DEF PassInv
  <2>4. CASE CompletePass
    <3>1. CalmOK' /\ (calm = 2 => DoneOK)'
      BY <1>1, <2>4, CompletePassKeeps
    <3>2. UNCHANGED <<repos, marks, rows, managed>>
      BY <2>4 DEF CompletePass, PassDone, jjVars, storeVars
    <3> QED
      BY <2>1, <3>1, <3>2 DEF PassInv
  <2>5. CASE PassStep
    BY <1>1, <2>1, <2>5, PassStepKeeps DEF PassInv
  <2>6. CASE Bystander
    <3>1. CalmOK' /\ (calm = 2 => DoneOK)'
      BY <1>1, <2>6, BystanderKeeps
    <3> QED
      BY <1>1, <2>1, <2>6, <3>1 DEF PassInv, Bystander
  <2> QED
    BY <1>2, <2>2, <2>3, <2>4, <2>5, <2>6, CalmSteps
<1>3. CASE UNCHANGED vars
  <2>1. Bystander /\ UNCHANGED <<repos, marks, rows, managed>>
    BY <1>3 DEF vars, Bystander, jjVars, storeVars, agentVars
  <2>2. CalmOK' /\ (calm = 2 => DoneOK)'
    BY <1>1, <2>1, BystanderKeeps
  <2> QED
    BY <1>1, <2>1, <2>2 DEF PassInv
<1> QED
  BY <1>2, <1>3

LEMMA PassInvariance ==
    ASSUME InitManaged = Repos
    PROVE  Spec => []PassInv
<1>1. Init => PassInv
  BY InitPassInv
<1>2. IInv /\ IInv' /\ PassInv /\ [Next]_vars => PassInv'
  BY NextKeepsPassInv
<1> QED
  BY <1>1, <1>2, Invariance, PTL DEF Spec

\* The reconciler is a correctness backstop (reconcile.go:9-11): with every
\* repository under management, a pass that nothing disturbs leaves sessions,
\* rows and bookmarks in agreement, however far apart events lost, handlers
\* that failed half-way, adoptions, worksheets, users of jj and crashes had
\* brought them.
THEOREM BackstopConverges ==
    ASSUME InitManaged = Repos
    PROVE  Spec => []PassConverges
<1>1. PassInv => PassConverges
  BY DEF PassInv, PassConverges, DoneOK
<1> QED
  BY <1>1, PassInvariance, PTL

\* Every rule of a pass is idempotent: the undisturbed pass after it writes
\* nothing.
THEOREM SecondPass ==
    ASSUME InitManaged = Repos
    PROVE  Spec => SecondPassIdle
<1> DEFINE Idle == calm = 2 /\ calm' = 2 => UNCHANGED <<repos, marks, rows, managed>>
<1>1. IInv /\ IInv' /\ PassInv /\ [Next]_vars => Idle
  BY NextKeepsPassInv
<1>2. []IInv /\ []PassInv /\ [][Next]_vars => [][Idle]_vars
  BY <1>1, PTL
<1> QED
  BY <1>2, Invariance, PassInvariance, PTL DEF Spec, SecondPassIdle
================================================================================
