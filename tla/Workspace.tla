------------------------------ MODULE Workspace ------------------------------
(***************************************************************************)
(* The whole 1:1 machinery: the agent and its event stream, jjlab, the     *)
(* mapping tables, the lifecycle consumer, the reconciler, adoptions and   *)
(* worksheets, with crashes of the extension, failing calls, lost events,  *)
(* unlistable repositories, bookmarks removed by users of jj, and commits  *)
(* made by the tools.                                                      *)
(***************************************************************************)
EXTENDS Lifecycle, Reconciler, Adoption, Worksheets

CONSTANTS
    Limit,          \* bound on every environment action, per kind
    InitManaged,    \* repositories that exist and are managed at the start
    Removable,      \* bookmarks a user of jj may remove
    Adoptable,      \* bookmarks somebody may ask to adopt
    Ticking         \* FALSE: the run ends before the reconciler's first tick

VARIABLES
    used,           \* how much of each Limit is used up
    calm            \* how undisturbed the reconciler is; see Quiet below

vars == <<jjVars, storeVars, varsVars, agentVars, stepVars, job, pass, sheetVars,
          used, calm>>

Troubles == {"faults", "unanswered", "blind", "lost", "removals"}
BudgetKinds == Troubles \union {"acts", "adoptions", "commits", "lookups", "sheets",
                                "troubles"}

ASSUME WorkspaceAssumption ==
    /\ Limit \in [BudgetKinds -> Nat]
    /\ InitManaged \subseteq Repos
    /\ Removable \subseteq Workspaces
    /\ Adoptable \subseteq Workspaces
    /\ Ticking \in BOOLEAN
    /\ Head \notin Marks

Spend(kind) ==
    /\ used[kind] < Limit[kind]
    /\ used' = [used EXCEPT ![kind] = @ + 1]

\* The kinds of trouble also share one bound.
Trouble(kind) ==
    /\ used[kind] < Limit[kind]
    /\ used["troubles"] < Limit["troubles"]
    /\ used' = [used EXCEPT ![kind] = @ + 1, !["troubles"] = @ + 1]

\* calm is history only.  0: something other than the reconciler acted since
\* its pass began; 1: nothing did; 2: nothing did since it completed a pass.
Disturb == calm' = 0
KeepCalm == UNCHANGED calm

Quiet == stream = {} /\ at["events"] = "idle"

Labels == {"idle"} \union VarsLabels \union PassLabels \union SheetLabels

Init ==
    /\ repos = InitManaged
    /\ marks = {MainOf(r) : r \in InitManaged}
    /\ work = [w \in Workspaces |-> {}]
    /\ rows = {}
    /\ managed = InitManaged
    /\ cached = {} /\ projected = {} /\ lookup = None /\ tool = None /\ adoption = None
    /\ sessions = {}
    /\ stream = {}
    /\ at = [p \in Procs |-> "idle"]
    /\ call = [p \in Procs |-> NoCall]
    /\ job = None
    /\ pass = NoPass
    /\ sheets = {} /\ executed = {} /\ sheet = None /\ carried = {} /\ clear = {}
    /\ used = [k \in BudgetKinds |-> 0]
    /\ calm = 0

----------------------------------------------------------------------------
(* The environment.                                                        *)

others == <<jjVars, storeVars, varsVars, stepVars, job, pass, sheetVars>>

AgentCreates(s) ==
    Spend("acts") /\ CreateSession(used["acts"], s) /\ Disturb /\ UNCHANGED others

AgentForks(p, s) ==
    Spend("acts") /\ ForkSession(used["acts"], p, s) /\ Disturb /\ UNCHANGED others

AgentRenames(f, t) ==
    Spend("acts") /\ RenameSession(used["acts"], f, t) /\ Disturb /\ UNCHANGED others

AgentDeletes(s) ==
    Spend("acts") /\ DeleteSession(used["acts"], s) /\ Disturb /\ UNCHANGED others

AgentActs ==
    \/ \E s \in Named : AgentCreates(s)
    \/ \E p, s \in Named : AgentForks(p, s)
    \/ \E f, t \in Named : AgentRenames(f, t)
    \/ \E s \in Named : AgentDeletes(s)

LoseEvent(e) ==
    /\ e # job
    /\ Trouble("lost") /\ Lose(e) /\ Disturb /\ UNCHANGED others

\* A user of jj removes a bookmark.
JJRemoves(w) ==
    /\ Trouble("removals") /\ DropBookmark(w) /\ Disturb
    /\ UNCHANGED <<storeVars, varsVars, agentVars, stepVars, job, pass, sheetVars>>

\* A tool of a live session: resolveSession, and later a commit to what it
\* resolved to, wherever the session is by then.
ToolStarts(s) ==
    /\ s \in sessions
    /\ Spend("commits")
    /\ \E r \in Resolved(s) : StartTool(r)
    /\ KeepCalm
    /\ UNCHANGED <<jjVars, storeVars, agentVars, stepVars, job, pass, sheetVars>>

ToolCommits(c) ==
    /\ EndTool
    /\ IF tool \in marks
       THEN Commit(tool, c) /\ \A w \in Workspaces : c \notin work[w]
       ELSE UNCHANGED jjVars
    /\ KeepCalm
    /\ UNCHANGED <<storeVars, agentVars, stepVars, job, pass, sheetVars, used>>

\* The tools' share of the cache, and its TTL.
ToolLooksUp(r) ==
    /\ r.sid \in sessions
    /\ Spend("lookups") /\ Lookup(r) /\ KeepCalm
    /\ UNCHANGED <<jjVars, storeVars, agentVars, stepVars, job, pass, sheetVars>>

CacheChanges ==
    /\ FillCache \/ \E r \in cached : Expire(r)
    /\ KeepCalm
    /\ UNCHANGED <<jjVars, storeVars, agentVars, stepVars, job, pass, sheetVars, used>>

\* The process dies and restarts: every goroutine starts over, the event that
\* was being served is redelivered.
Crash ==
    /\ Trouble("faults")
    /\ at' = [p \in Procs |-> "idle"]
    /\ call' = [p \in Procs |-> NoCall]
    /\ IF job = None THEN UNCHANGED agentVars ELSE Redeliver(job)
    /\ job' = None
    /\ pass' = NoPass
    /\ sheet' = None
    /\ cached' = {} /\ lookup' = None /\ tool' = None /\ adoption' = None
    /\ Disturb
    /\ UNCHANGED <<jjVars, storeVars, projected, sheets, executed, carried, clear>>

\* A call of any goroutine fails, or an acknowledgement is lost.
CallFails(p) ==
    /\ Trouble("faults") /\ FailCall(p) /\ Disturb
    /\ UNCHANGED <<projected, toolVars, agentVars, job, pass, sheetVars>>

\* A call of any goroutine is carried out and its answer is lost.
CallUnanswered(p) ==
    /\ Trouble("unanswered") /\ Unanswered(p) /\ Disturb
    /\ UNCHANGED <<projected, toolVars, agentVars, job, pass, sheetVars>>

AckLost ==
    Trouble("faults") /\ Nack("done") /\ Disturb /\ UNCHANGED <<pass, sheetVars>>

VarsWriteFails ==
    Trouble("faults") /\ VarsFail /\ Disturb /\ UNCHANGED <<pass, sheetVars>>

PassFails == Trouble("faults") /\ FailPass /\ Disturb /\ UNCHANGED <<job, sheetVars>>

PassUnanswered ==
    /\ Trouble("unanswered") /\ (\E r \in pass.drop : SweepUnanswered(r)) /\ Disturb
    /\ UNCHANGED <<job, sheetVars>>

AdoptFails ==
    /\ Trouble("faults") /\ FailAdoption /\ Disturb
    /\ UNCHANGED <<stepVars, job, pass, sheetVars>>

\* The bookmarks of a repository cannot be listed in the middle of a handler
\* or of a pass.
HandlerBlind(p) ==
    /\ call[p].ws \in marks \/ call[p].peer \in marks
    /\ Trouble("blind") /\ (LookForMark(p, FALSE) \/ LookForDoomed(p, FALSE)) /\ Disturb
    /\ UNCHANGED <<projected, toolVars, agentVars, job, pass, sheetVars>>

PassBlind(repo) ==
    Trouble("blind") /\ ReadTree({repo}) /\ Disturb /\ UNCHANGED <<job, sheetVars>>

\* The hook's own calls fail, or its answer is lost.
SheetFails == Trouble("faults") /\ HookFails /\ Disturb /\ UNCHANGED <<job, pass>>

AnswerLost == Trouble("faults") /\ CarriedOut({}) /\ Disturb /\ UNCHANGED <<job, pass>>

Environment ==
    \/ AgentActs
    \/ \E e \in stream : LoseEvent(e)
    \/ \E w \in Removable : JJRemoves(w)
    \/ \E s \in Sids : ToolStarts(s)
    \/ \E c \in Commits : ToolCommits(c)
    \/ \E r \in rows : ToolLooksUp(r)
    \/ CacheChanges
    \/ Crash
    \/ \E p \in Procs : CallFails(p) \/ CallUnanswered(p) \/ HandlerBlind(p)
    \/ AckLost
    \/ VarsWriteFails
    \/ PassFails
    \/ PassUnanswered
    \/ AdoptFails
    \/ \E r \in Repos : PassBlind(r)
    \/ SheetFails
    \/ AnswerLost

----------------------------------------------------------------------------
(* The extension.                                                          *)

EventsStep ==
    /\ \/ \E e \in stream : Deliver(e)
       \/ Ack
       \/ Nack("retry")
       \/ ResolveVars
       \/ PublishSessionVars
       \/ ClearSessionVars
       \/ Progress("events") /\ UNCHANGED <<projected, toolVars, agentVars, job>>
    /\ Disturb
    /\ UNCHANGED <<pass, sheetVars, used>>

StartTick ==
    /\ Ticking
    /\ StartPass
    /\ calm' = IF ~ Quiet THEN 0 ELSE IF calm = 2 THEN 2 ELSE 1
    /\ UNCHANGED <<job, sheetVars, used>>

CompletePass ==
    /\ PassDone
    /\ calm' = IF calm = 0 THEN 0 ELSE 2
    /\ UNCHANGED <<job, sheetVars, used>>

AbortPass == PassAborted /\ Disturb /\ UNCHANGED <<job, sheetVars, used>>

PassStep ==
    /\ \/ ReadManaged
       \/ ReadTree({})
       \/ \E r \in Repos : ReadRows(r)
       \/ \E r \in pass.drop : SweepRow(r)
       \/ ReadMapped
       \/ \E w \in pass.heal : Backfill(w)
       \/ Progress("reconcile") /\ UNCHANGED <<projected, toolVars, agentVars, pass>>
    /\ KeepCalm
    /\ UNCHANGED <<job, sheetVars, used>>

ReconcileStep == StartTick \/ PassStep \/ CompletePass \/ AbortPass

AdoptStarts(w) ==
    /\ Spend("adoptions") /\ FindOrphan(w) /\ KeepCalm
    /\ UNCHANGED <<stepVars, job, pass, sheetVars>>

\* Creating the session is one of the agent's actions.
AdoptCreates ==
    /\ EnsureSession(used["acts"]) /\ Disturb
    /\ IF AdoptedSession \in sessions THEN UNCHANGED used ELSE Spend("acts")
    /\ UNCHANGED <<stepVars, job, pass, sheetVars>>

AdoptEnds ==
    /\ AdoptRow \/ AdoptRefused
    /\ Disturb
    /\ UNCHANGED <<stepVars, job, pass, sheetVars, used>>

AdoptStep == (\E w \in Adoptable : AdoptStarts(w)) \/ AdoptCreates \/ AdoptEnds

\* A tool of session s proposes, having resolved s.
ForkProposed(s, w) ==
    /\ Spend("sheets")
    /\ \E r \in Resolved(s) : ProposeFork(used["sheets"], r.ws, w)

DeleteProposed(s, w) ==
    /\ Spend("sheets")
    /\ \E r \in Resolved(s) : ProposeDelete(used["sheets"], r.ws, w)

SheetProposed ==
    /\ \E s \in sessions, w \in Workspaces : ForkProposed(s, w) \/ DeleteProposed(s, w)
    /\ UNCHANGED <<jjVars, storeVars, varsVars, agentVars, stepVars>>

SheetDecided(s) ==
    \/ Dispatch(s) /\ UNCHANGED used
    \/ /\ Reject(s)
       /\ UNCHANGED <<jjVars, storeVars, varsVars, agentVars, stepVars, used>>

\* A session the hook forks or deletes is one of the agent's actions.
SheetActs ==
    /\ SheetForks(used["acts"]) \/ DropSession(used["acts"])
    /\ IF sessions' = sessions THEN UNCHANGED used ELSE Spend("acts")

SheetRuns ==
    /\ ~ InHook("idle")
    /\ \/ Record \/ AlreadyExecuted \/ AnsweredMeanwhile
       \/ Forking \/ NothingToFork \/ FindDoomed
       \/ HookProgress \/ HookRefuses \/ CarriedOut({sheet})
    /\ UNCHANGED used

SheetStep ==
    /\ \/ SheetProposed
       \/ \E s \in sheets : SheetDecided(s)
       \/ SheetActs
       \/ SheetRuns
    /\ Disturb
    /\ UNCHANGED <<job, pass>>

Next == Environment \/ EventsStep \/ ReconcileStep \/ AdoptStep \/ SheetStep

Spec == Init /\ [][Next]_vars

\* Both loops of a running process keep running: the consumer takes the
\* next event, the ticker fires, a call returns.
Fairness == WF_vars(EventsStep) /\ WF_vars(ReconcileStep)

FairSpec == Spec /\ Fairness
==============================================================================
