------------------------------ MODULE ForkProofs ------------------------------
(***************************************************************************)
(* Machine-checked proof that a fork by worksheet gets the work its parent *)
(* had when it was asked for, for every set of repositories, bookmarks,    *)
(* stray names and commits, and every bound but one: one worksheet is      *)
(* proposed in a run, no user of jj removes bookmarks and nobody adopts.   *)
(* Everybody else is free: the agent, the consumer, the reconciler, the    *)
(* tools, lost events and answers, failing calls, crashes and repeated     *)
(* approvals.                                                              *)
(*                                                                         *)
(* The argument has two halves.  Until the agent makes the session, nobody *)
(* else can make the bookmark or the row, because the name is on no list a *)
(* goroutine works from (Roster).  Afterwards they may, but the bookmark   *)
(* is there, nothing that deletes it is under way (PeersOK), and what      *)
(* other bookmarks start from is never this one (Steady), so it stays      *)
(* apart from them (ForkOK).                                               *)
(***************************************************************************)
EXTENDS WorksheetsProofs

----------------------------------------------------------------------------
(* What the steps leave alone.                                             *)

\* Goroutine p stays where it is.
Still(p) == at'[p] = at[p] /\ call'[p] = call[p]

\* A step of one goroutine moves no other: its labels, ...
LEMMA MovesAlone ==
    ASSUME StepTypeOK(Labels), NEW p \in Procs, NEW q \in Procs, p # q, NEW l, NEW c,
           Goto(q, l) \/ Enter(q, c, l)
    PROVE  Still(p)
BY DEF StepTypeOK, Goto, Enter, Still

\* ... its handlers, ...
LEMMA HandlerMovesAlone ==
    ASSUME StepTypeOK(Labels), NEW p \in Procs, NEW q \in Procs, p # q,
           \/ Progress(q) \/ FailCall(q) \/ Unanswered(q)
           \/ \E listed \in BOOLEAN : LookForMark(q, listed) \/ LookForDoomed(q, listed)
    PROVE  Still(p)
<1>1. CASE \/ AlreadyMirrored(q) \/ NotMirrored(q) \/ ForkNotMirrored(q)
           \/ FindParent(q) \/ FindFrom(q) \/ FindDeleted(q)
  <2>1. CASE AlreadyMirrored(q)
    BY <2>1, MovesAlone DEF AlreadyMirrored, Return
  <2>2. CASE NotMirrored(q) \/ FindDeleted(q)
    BY <2>2, MovesAlone DEF NotMirrored, FindDeleted
  <2>3. CASE ForkNotMirrored(q)
    BY <2>3, MovesAlone DEF ForkNotMirrored
  <2>4. CASE FindParent(q) \/ FindFrom(q)
    BY <2>4, MovesAlone DEF FindParent, FindFrom
  <2> QED
    BY <1>1, <2>1, <2>2, <2>3, <2>4
<1>2. CASE \/ MakeRepo(q) \/ ChooseAnchor(q) \/ MakeMark(q) \/ MarkRefused(q) \/ FailCall(q)
           \/ Unanswered(q)
           \/ \E listed \in BOOLEAN : LookForMark(q, listed) \/ LookForDoomed(q, listed)
  BY <1>2, MovesAlone
     DEF MakeRepo, ChooseAnchor, LookForMark, LookForDoomed, MakeMark, MarkRefused, FailCall,
         Unanswered
<1>3. CASE BindRow(q) \/ AlreadyBound(q) \/ ManageRepo(q)
  BY <1>3, MovesAlone DEF BindRow, AlreadyBound, ManageRepo, Return
<1>4. CASE MoveRow(q) \/ RowNotMoved(q) \/ DropMark(q) \/ DropRefused(q) \/ Unbind(q)
  BY <1>4, MovesAlone DEF MoveRow, RowNotMoved, DropMark, DropRefused, Unbind
<1> QED
  BY <1>1, <1>2, <1>3, <1>4 DEF Progress

\* ... the lifecycle consumer, ...
LEMMA EventsMoveAlone ==
    ASSUME StepTypeOK(Labels), NEW p \in Procs, p # "events", EventsStep PROVE Still(p)
<1>1. "events" \in Procs
  BY DEF Procs
<1>2. ASSUME NEW e \in stream, Deliver(e) PROVE Still(p)
  BY <1>1, <1>2, MovesAlone DEF Deliver
<1>3. CASE Ack \/ Nack("retry")
  BY <1>1, <1>3, MovesAlone DEF Ack, Nack
<1>4. CASE ResolveVars
  BY <1>1, <1>4, MovesAlone DEF ResolveVars
<1>5. CASE PublishSessionVars \/ ClearSessionVars
  BY <1>1, <1>5, MovesAlone DEF PublishSessionVars, ClearSessionVars
<1>6. CASE Progress("events")
  BY <1>1, <1>6, HandlerMovesAlone
<1> QED
  BY <1>2, <1>3, <1>4, <1>5, <1>6 DEF EventsStep

\* ... the reconciler, ...
LEMMA PassMovesAlone ==
    ASSUME StepTypeOK(Labels), NEW p \in Procs, p # "reconcile",
           ReconcileStep \/ PassFails \/ PassUnanswered \/ \E r \in Repos : PassBlind(r)
    PROVE  Still(p)
<1>1. "reconcile" \in Procs
  BY DEF Procs
<1>2. CASE StartTick \/ CompletePass \/ AbortPass \/ PassFails \/ PassUnanswered
  BY <1>1, <1>2, MovesAlone
     DEF StartTick, StartPass, CompletePass, PassDone, AbortPass, PassAborted, PassFails,
         FailPass, PassUnanswered, SweepUnanswered, Advance, EndPass
<1>3. CASE ReadManaged \/ ReadMapped \/ \E gone : ReadTree(gone)
  BY <1>1, <1>3, MovesAlone DEF ReadManaged, ReadTree, ReadMapped, Advance
<1>4. ASSUME NEW r, ReadRows(r) PROVE Still(p)
  BY <1>1, <1>4, MovesAlone DEF ReadRows, Advance
<1>5. ASSUME NEW r, SweepRow(r) PROVE Still(p)
  BY <1>1, <1>5, MovesAlone DEF SweepRow, Advance
<1>6. ASSUME NEW w, Backfill(w) PROVE Still(p)
  BY <1>1, <1>6, MovesAlone DEF Backfill
<1>7. CASE Progress("reconcile")
  BY <1>1, <1>7, HandlerMovesAlone
<1> QED
  BY <1>2, <1>3, <1>4, <1>5, <1>6, <1>7 DEF ReconcileStep, PassStep, PassBlind

\* ... and the hook.
LEMMA SheetsMoveAlone ==
    ASSUME StepTypeOK(Labels), NEW p \in Procs, p # "hook",
           SheetStep \/ SheetFails \/ AnswerLost
    PROVE  Still(p)
<1>1. "hook" \in Procs
  BY DEF Procs
<1>2. CASE SheetProposed \/ \E s \in sheets : SheetDecided(s)
  <2>1. ASSUME NEW s, Dispatch(s) PROVE Still(p)
    BY <1>1, <2>1, MovesAlone DEF Dispatch
  <2>2. CASE UNCHANGED stepVars
    BY <2>2 DEF stepVars, Still
  <2> QED
    BY <1>2, <2>1, <2>2 DEF SheetProposed, SheetDecided
<1>3. CASE SheetActs
  BY <1>1, <1>3, MovesAlone DEF SheetActs, SheetForks, DropSession
<1>4. CASE SheetFails \/ AnswerLost \/ AlreadyExecuted \/ HookRefuses \/ CarriedOut({sheet})
  BY <1>1, <1>4, MovesAlone
     DEF SheetFails, HookFails, AnswerLost, CarriedOut, AlreadyExecuted, HookRefuses, EndHook
<1>5. CASE Record
  BY <1>1, <1>5, MovesAlone DEF Record, Begin
<1>6. CASE AnsweredMeanwhile \/ Forking \/ NothingToFork
  BY <1>1, <1>6, MovesAlone DEF AnsweredMeanwhile, Forking, NothingToFork, stepVars, Still
<1>7. CASE FindDoomed
  BY <1>1, <1>7, MovesAlone DEF FindDoomed
<1>8. CASE HookProgress
  BY <1>1, <1>8, HandlerMovesAlone DEF HookProgress
<1> QED
  BY <1>2, <1>3, <1>4, <1>5, <1>6, <1>7, <1>8 DEF SheetStep, SheetRuns

\* What else the environment does, no goroutine being concerned.
Elsewhere ==
    \/ AgentActs
    \/ \E e \in stream : LoseEvent(e)
    \/ \E w \in Removable : JJRemoves(w)
    \/ \E s \in Sids : ToolStarts(s)
    \/ \E c \in Commits : ToolCommits(c)
    \/ \E r \in rows : ToolLooksUp(r)
    \/ CacheChanges
    \/ AdoptStep \/ AdoptFails

\* What each goroutine does, failures included.
EventsSteps ==
    \/ EventsStep \/ AckLost \/ VarsWriteFails
    \/ CallFails("events") \/ CallUnanswered("events") \/ HandlerBlind("events")

PassSteps ==
    \/ ReconcileStep \/ PassFails \/ PassUnanswered \/ (\E r \in Repos : PassBlind(r))
    \/ CallFails("reconcile") \/ CallUnanswered("reconcile") \/ HandlerBlind("reconcile")

HookSteps ==
    \/ SheetStep \/ SheetFails \/ AnswerLost
    \/ CallFails("hook") \/ CallUnanswered("hook") \/ HandlerBlind("hook")

LEMMA WhoMoves == Next => Elsewhere \/ EventsSteps \/ PassSteps \/ HookSteps \/ Crash
BY DEF Next, Environment, Elsewhere, EventsSteps, PassSteps, HookSteps, Procs

\* The parts of a pass.
ReadsOnly ==
    \/ StartTick \/ CompletePass \/ AbortPass \/ PassFails \/ (\E r \in Repos : PassBlind(r))
    \/ KeepCalm /\ (ReadManaged \/ ReadTree({}) \/ ReadMapped)
    \/ \E r \in Repos : ReadRows(r)
    \/ \E w \in pass.heal : Backfill(w)

\* A backfill goes on.
HealStep == Progress("reconcile") /\ UNCHANGED <<projected, toolVars, agentVars, pass>>

\* It unmaps a row and is told so, or not.
Sweeps == \E r \in pass.drop : SweepRow(r) \/ SweepUnanswered(r)

\* A step of a pass reads, unmaps one row or goes on with a backfill.
LEMMA PassParts ==
    ASSUME ReconcileStep \/ PassFails \/ PassUnanswered \/ \E r \in Repos : PassBlind(r)
    PROVE  /\ ReadsOnly \/ Sweeps \/ HealStep
           /\ UNCHANGED <<job, sheetVars>>
<1>1. UNCHANGED <<job, sheetVars>>
  BY DEF ReconcileStep, StartTick, PassStep, CompletePass, AbortPass, PassFails, PassUnanswered,
         PassBlind
<1> DEFINE Part == ReadsOnly \/ Sweeps \/ HealStep
<1>2. ASSUME PassStep PROVE Part
  <2>1. KeepCalm
    BY <1>2 DEF PassStep
  <2>2. CASE ReadManaged \/ ReadTree({}) \/ ReadMapped
    BY <2>1, <2>2 DEF ReadsOnly
  <2>3. CASE \E r \in Repos : ReadRows(r)
    BY <2>3 DEF ReadsOnly
  <2>4. CASE \E w \in pass.heal : Backfill(w)
    BY <2>4 DEF ReadsOnly
  <2>5. CASE Progress("reconcile") /\ UNCHANGED <<projected, toolVars, agentVars, pass>>
    BY <2>5 DEF HealStep
  <2> QED
    BY <1>2, <2>2, <2>3, <2>4, <2>5 DEF PassStep, Sweeps
<1>3. ReconcileStep /\ ~ PassStep => Part
  BY DEF ReconcileStep, ReadsOnly
<1>4. PassFails \/ PassUnanswered \/ (\E r \in Repos : PassBlind(r)) => Part
  BY DEF ReadsOnly, PassUnanswered, Sweeps
<1> QED
  BY <1>1, <1>2, <1>3, <1>4

\* Reading changes nothing.
LEMMA ReadsChangeNothing ==
    ASSUME ReadsOnly PROVE UNCHANGED <<jjVars, storeVars, varsVars, agentVars>>
<1>1. CASE StartTick \/ CompletePass \/ AbortPass \/ PassFails
  BY <1>1 DEF StartTick, StartPass, CompletePass, PassDone, AbortPass, PassAborted, PassFails,
              FailPass
<1>2. CASE (\E r \in Repos : PassBlind(r)) \/ ReadManaged \/ ReadTree({}) \/ ReadMapped
  BY <1>2 DEF PassBlind, ReadManaged, ReadTree, ReadMapped
<1>3. CASE \E r \in Repos : ReadRows(r)
  BY <1>3 DEF ReadRows
<1>4. CASE \E w \in pass.heal : Backfill(w)
  BY <1>4 DEF Backfill
<1> QED
  BY <1>1, <1>2, <1>3, <1>4 DEF ReadsOnly

\* Everyone keeps to their own locals.
LEMMA OwnLocals ==
    ASSUME StepTypeOK(Labels), PassTypeOK
    PROVE  /\ Elsewhere => UNCHANGED <<stepVars, job, pass, sheetVars>>
           /\ EventsSteps => Still("reconcile") /\ Still("hook") /\ UNCHANGED <<pass, sheetVars>>
           /\ PassSteps => /\ Still("events") /\ Still("hook")
                           /\ UNCHANGED <<job, sheetVars, agentVars>>
           /\ HookSteps => Still("events") /\ Still("reconcile") /\ UNCHANGED <<job, pass>>
<1>1. {"events", "reconcile", "hook"} \subseteq Procs
  BY DEF Procs
<1>2. ASSUME NEW p \in Procs, NEW q \in Procs, p # q,
             CallFails(q) \/ CallUnanswered(q) \/ HandlerBlind(q)
      PROVE  Still(p) /\ UNCHANGED <<job, pass, sheetVars, agentVars>>
  BY <1>2, HandlerMovesAlone DEF CallFails, CallUnanswered, HandlerBlind
<1>3. Elsewhere => UNCHANGED <<stepVars, job, pass, sheetVars>>
  BY DEF Elsewhere, AgentActs, AgentCreates, AgentForks, AgentRenames, AgentDeletes, LoseEvent,
         JJRemoves, ToolStarts, ToolCommits, ToolLooksUp, CacheChanges, AdoptStep, AdoptStarts,
         AdoptCreates, AdoptEnds, AdoptFails, others
<1>4. ASSUME EventsSteps PROVE Still("reconcile") /\ Still("hook") /\ UNCHANGED <<pass, sheetVars>>
  <2>1. CASE EventsStep
    BY <1>1, <2>1, EventsMoveAlone DEF EventsStep
  <2>2. CASE AckLost \/ VarsWriteFails
    BY <1>1, <2>2, MovesAlone DEF AckLost, Nack, VarsWriteFails, VarsFail
  <2> QED
    BY <1>1, <1>2, <1>4, <2>1, <2>2 DEF EventsSteps
<1>5. ASSUME PassSteps
      PROVE  Still("events") /\ Still("hook") /\ UNCHANGED <<job, sheetVars, agentVars>>
  <2>1. CASE ReconcileStep \/ PassFails \/ PassUnanswered \/ \E r \in Repos : PassBlind(r)
    <3>1. Still("events") /\ Still("hook")
      BY <1>1, <2>1, PassMovesAlone
    <3>2. UNCHANGED <<job, sheetVars, agentVars>>
      BY <2>1, PassParts, ReadsChangeNothing DEF Sweeps, SweepRow, SweepUnanswered, HealStep
    <3> QED
      BY <3>1, <3>2
  <2> QED
    BY <1>1, <1>2, <1>5, <2>1 DEF PassSteps
<1>6. ASSUME HookSteps PROVE Still("events") /\ Still("reconcile") /\ UNCHANGED <<job, pass>>
  <2>1. CASE SheetStep \/ SheetFails \/ AnswerLost
    BY <1>1, <2>1, SheetsMoveAlone DEF SheetStep, SheetFails, AnswerLost
  <2> QED
    BY <1>1, <1>2, <1>6, <2>1 DEF HookSteps
<1> QED
  BY <1>3, <1>4, <1>5, <1>6

\* What the calls that write do, and the goroutine goes on, answered or not.
RepoMade(p) == at[p] = "repo" /\ EnsureRepo(call[p].ws.repo)

MarkMade(p) ==
    at[p] = "create" /\ at'[p] # "create" /\ CreateBookmark(call[p].ws, call[p].src)

MarkDropped(p) == at[p] = "dropMark" /\ DropBookmark(Doomed(call[p]))

RowBound(p) ==
    at[p] = "bind" /\ at'[p] # "bind" /\ InsertRow(call[p].ws, NamingSession(call[p].ws))

RowMoved(p) ==
    /\ at[p] = "moveRow" /\ at'[p] # "moveRow"
    /\ RenameRow(call[p].peer, call[p].ws, NamingSession(call[p].ws))

\* Where a goroutine is after a step.
LEMMA Arrives ==
    ASSUME StepTypeOK(Labels), NEW p \in Procs, NEW l, NEW c
    PROVE  /\ Goto(p, l) => at'[p] = l /\ call' = call
           /\ Enter(p, c, l) => at'[p] = l /\ call'[p] = c
BY DEF StepTypeOK, Goto, Enter

\* What a handler may change of jjlab and of the rows.
LEMMA ProgressData ==
    ASSUME StepTypeOK(Labels), NEW p \in Procs, Progress(p) \/ Unanswered(p)
    PROVE  /\ UNCHANGED jjVars \/ RepoMade(p) \/ MarkMade(p) \/ MarkDropped(p)
           /\ rows' \subseteq rows \/ RowBound(p) \/ RowMoved(p)
<1>1. CASE \/ AlreadyMirrored(p) \/ NotMirrored(p) \/ ForkNotMirrored(p)
           \/ FindParent(p) \/ FindFrom(p) \/ FindDeleted(p)
           \/ ChooseAnchor(p) \/ LookForMark(p, TRUE) \/ MarkRefused(p) \/ AlreadyBound(p)
           \/ RowNotMoved(p) \/ LookForDoomed(p, TRUE) \/ DropRefused(p)
  BY <1>1 DEF AlreadyMirrored, NotMirrored, ForkNotMirrored, FindParent, FindFrom, FindDeleted,
              ChooseAnchor, LookForMark, MarkRefused, AlreadyBound, RowNotMoved, LookForDoomed,
              DropRefused, storeVars
<1>2. CASE MakeRepo(p) \/ DropMark(p)
  BY <1>2 DEF MakeRepo, DropMark, RepoMade, MarkDropped, storeVars
<1>3. CASE MakeMark(p)
  BY <1>3, Arrives DEF MakeMark, AfterMark, MarkMade, storeVars
<1>4. CASE BindRow(p)
  BY <1>4, Arrives DEF BindRow, RowBound
<1>5. CASE ManageRepo(p) \/ Unbind(p)
  BY <1>5 DEF ManageRepo, InsertManaged, Unbind, DeleteRow
<1>6. CASE MoveRow(p)
  BY <1>6, Arrives DEF MoveRow, RowMoved
<1>7. CASE Unanswered(p)
  <2>1. at'[p] = "retry"
    BY <1>7, Arrives DEF Unanswered
  <2>2. CASE WritesMark(p) /\ UNCHANGED storeVars
    BY <2>1, <2>2 DEF WritesMark, RepoMade, MarkMade, MarkDropped, storeVars
  <2>3. CASE WritesRow(p) /\ UNCHANGED jjVars
    BY <2>1, <2>3 DEF WritesRow, RowBound, RowMoved, InsertManaged, DeleteRow
  <2> QED
    BY <1>7, <2>2, <2>3 DEF Unanswered
<1> QED
  BY <1>1, <1>2, <1>3, <1>4, <1>5, <1>6, <1>7 DEF Progress

\* Who changes what jjlab has, and who writes rows.
LEMMA DataMoves ==
    ASSUME StepTypeOK(Labels), PassTypeOK, Next
    PROVE  /\ \/ UNCHANGED jjVars
              \/ \E p \in Procs : RepoMade(p) \/ MarkMade(p) \/ MarkDropped(p)
              \/ \E c \in Commits : ToolCommits(c)
              \/ \E w \in Removable : JJRemoves(w)
           /\ \/ rows' \subseteq rows
              \/ \E p \in Procs : RowBound(p) \/ RowMoved(p)
              \/ AdoptRow
<1> DEFINE Data == UNCHANGED jjVars /\ rows' \subseteq rows
<1>1. {"events", "reconcile", "hook"} \subseteq Procs
  BY DEF Procs
<1>2. CASE Environment
  <2>1. ASSUME NEW c \in Commits, ToolCommits(c) PROVE rows' = rows
    BY <2>1 DEF ToolCommits, storeVars
  <2>2. ASSUME NEW w \in Removable, JJRemoves(w) PROVE rows' = rows
    BY <2>2 DEF JJRemoves, storeVars
  <2>3. CASE AgentActs \/ (\E e \in stream : LoseEvent(e)) \/ (\E s \in Sids : ToolStarts(s))
             \/ (\E r \in rows : ToolLooksUp(r)) \/ CacheChanges \/ Crash
    BY <2>3 DEF AgentActs, AgentCreates, AgentForks, AgentRenames, AgentDeletes, LoseEvent,
                ToolStarts, ToolLooksUp, CacheChanges, Crash, others, storeVars
  <2>4. ASSUME NEW p \in Procs, CallFails(p) \/ HandlerBlind(p) PROVE Data
    BY <2>4 DEF CallFails, FailCall, HandlerBlind, LookForMark, LookForDoomed, storeVars
  <2>5. CASE \/ AckLost \/ VarsWriteFails \/ PassFails \/ PassUnanswered \/ AdoptFails
             \/ (\E r \in Repos : PassBlind(r)) \/ SheetFails \/ AnswerLost
    BY <2>5 DEF AckLost, Nack, VarsWriteFails, VarsFail, PassFails, FailPass, PassUnanswered,
                SweepUnanswered, DeleteRow, AdoptFails, FailAdoption, PassBlind, ReadTree,
                SheetFails, HookFails, AnswerLost, CarriedOut,
                storeVars
  <2>6. ASSUME NEW p \in Procs, CallUnanswered(p)
        PROVE  /\ UNCHANGED jjVars \/ RepoMade(p) \/ MarkMade(p) \/ MarkDropped(p)
               /\ rows' \subseteq rows \/ RowBound(p) \/ RowMoved(p)
    BY <2>6, ProgressData DEF CallUnanswered
  <2> QED
    BY <1>2, <2>1, <2>2, <2>3, <2>4, <2>5, <2>6 DEF Environment
<1>3. CASE EventsStep
  BY <1>1, <1>3, ProgressData
     DEF EventsStep, Deliver, Ack, Nack, ResolveVars, PublishSessionVars, ClearSessionVars,
         storeVars
<1>4. CASE ReconcileStep
  BY <1>1, <1>4, PassParts, ReadsChangeNothing, ProgressData
     DEF Sweeps, SweepRow, SweepUnanswered, HealStep, DeleteRow, storeVars
<1>5. CASE AdoptStep
  BY <1>5 DEF AdoptStep, AdoptStarts, FindOrphan, AdoptCreates, EnsureSession, AdoptEnds,
              AdoptRow, AdoptRefused, storeVars
<1>6. CASE SheetStep
  BY <1>1, <1>6, ProgressData
     DEF SheetStep, SheetProposed, SheetDecided, Reject, Dispatch, SheetActs, SheetForks,
         DropSession, SheetRuns, Record, AlreadyExecuted, AnsweredMeanwhile, Forking,
         NothingToFork, FindDoomed, HookProgress, HookRefuses, CarriedOut, storeVars
<1> QED
  BY <1>2, <1>3, <1>4, <1>5, <1>6 DEF Next

\* Who changes the sessions and the stream.
LEMMA SessionMoves ==
    ASSUME PassTypeOK, Next
    PROVE  \/ UNCHANGED agentVars
           \/ \E e \in stream : LoseEvent(e)
           \/ Ack
           \/ Redeliver(job) /\ (job # None \/ at["events"] # "idle")
           \/ AgentActs
           \/ AdoptCreates
           \/ SheetForks(used["acts"]) \/ DropSession(used["acts"])
<1>1. CASE Elsewhere
  <2>1. CASE AgentActs \/ (\E e \in stream : LoseEvent(e)) \/ AdoptCreates
    BY <2>1
  <2>2. CASE \E w \in Removable : JJRemoves(w)
    BY <2>2 DEF JJRemoves
  <2>3. CASE (\E s \in Sids : ToolStarts(s)) \/ (\E r \in rows : ToolLooksUp(r))
    BY <2>3 DEF ToolStarts, ToolLooksUp
  <2>4. CASE (\E c \in Commits : ToolCommits(c)) \/ CacheChanges
    BY <2>4 DEF ToolCommits, CacheChanges
  <2>5. CASE \E w \in Adoptable : AdoptStarts(w)
    BY <2>5 DEF AdoptStarts, FindOrphan
  <2>6. CASE AdoptEnds \/ AdoptFails
    BY <2>6 DEF AdoptEnds, AdoptRow, AdoptRefused, AdoptFails, FailAdoption
  <2> QED
    BY <1>1, <2>1, <2>2, <2>3, <2>4, <2>5, <2>6 DEF Elsewhere, AdoptStep
<1>2. ASSUME NEW p, CallFails(p) \/ CallUnanswered(p) \/ HandlerBlind(p)
      PROVE  UNCHANGED agentVars
  BY <1>2 DEF CallFails, CallUnanswered, HandlerBlind
<1>3. CASE EventsStep
  BY <1>3 DEF EventsStep, Deliver, Nack, ResolveVars, PublishSessionVars, ClearSessionVars
<1>4. CASE AckLost \/ VarsWriteFails
  BY <1>4 DEF AckLost, Nack, VarsWriteFails, VarsFail
<1>5. CASE ReconcileStep \/ PassFails \/ PassUnanswered \/ \E r \in Repos : PassBlind(r)
  BY <1>5, PassParts, ReadsChangeNothing DEF Sweeps, SweepRow, SweepUnanswered, HealStep
<1>6. CASE SheetProposed \/ \E s \in sheets : SheetDecided(s)
  BY <1>6 DEF SheetProposed, SheetDecided, Dispatch
<1>7. CASE SheetRuns \/ SheetFails \/ AnswerLost
  BY <1>7 DEF SheetRuns, Record, AlreadyExecuted, AnsweredMeanwhile, Forking, NothingToFork,
              FindDoomed, HookProgress, HookRefuses, CarriedOut, SheetFails, HookFails, AnswerLost
<1>8. CASE Crash
  BY <1>8 DEF Crash
<1> QED
  BY <1>1, <1>2, <1>3, <1>4, <1>5, <1>6, <1>7, <1>8, WhoMoves
     DEF EventsSteps, PassSteps, HookSteps, SheetStep, SheetActs

\* Nothing but a proposal counts as a worksheet.
LEMMA SheetsSpent ==
    ASSUME used \in [BudgetKinds -> Nat], [Next]_vars, ~ SheetProposed
    PROVE  used'["sheets"] = used["sheets"]
<1> DEFINE Same == used'["sheets"] = used["sheets"]
<1>1. ASSUME NEW kind \in BudgetKinds \ {"sheets"}, Spend(kind) PROVE Same
  <2>1. "sheets" \in BudgetKinds /\ kind # "sheets"
    BY DEF BudgetKinds
  <2> QED
    BY <1>1, <2>1 DEF Spend
<1>2. ASSUME NEW kind \in Troubles, Trouble(kind) PROVE Same
  <2>1. "sheets" \in BudgetKinds /\ kind # "sheets"
    BY DEF Troubles, BudgetKinds
  <2> QED
    BY <1>2, <2>1 DEF Trouble
<1>3. {"acts", "adoptions", "commits", "lookups"} \subseteq BudgetKinds \ {"sheets"}
      /\ {"faults", "unanswered", "blind", "lost", "removals"} \subseteq Troubles
  BY DEF BudgetKinds, Troubles
<1>4. ASSUME Elsewhere PROVE Same
  <2>1. CASE AgentActs
    BY <1>1, <1>3, <2>1 DEF AgentActs, AgentCreates, AgentForks, AgentRenames, AgentDeletes
  <2>2. CASE (\E e \in stream : LoseEvent(e)) \/ (\E w \in Removable : JJRemoves(w)) \/ AdoptFails
    BY <1>2, <1>3, <2>2 DEF LoseEvent, JJRemoves, AdoptFails
  <2>3. CASE (\E s \in Sids : ToolStarts(s)) \/ (\E r \in rows : ToolLooksUp(r))
    BY <1>1, <1>3, <2>3 DEF ToolStarts, ToolLooksUp
  <2>4. CASE (\E c \in Commits : ToolCommits(c)) \/ CacheChanges
    BY <2>4 DEF ToolCommits, CacheChanges
  <2>5. CASE AdoptStep
    BY <1>1, <1>3, <2>5 DEF AdoptStep, AdoptStarts, AdoptCreates, AdoptEnds
  <2> QED
    BY <1>4, <2>1, <2>2, <2>3, <2>4, <2>5 DEF Elsewhere
<1>5. ASSUME NEW p PROVE CallFails(p) \/ CallUnanswered(p) \/ HandlerBlind(p) => Same
  BY <1>2, <1>3 DEF CallFails, CallUnanswered, HandlerBlind
<1>6. EventsSteps \/ PassSteps => Same
  BY <1>2, <1>3, <1>5
     DEF EventsSteps, EventsStep, AckLost, VarsWriteFails, PassSteps, ReconcileStep, StartTick,
         PassStep, CompletePass, AbortPass, PassFails, PassUnanswered, PassBlind
<1>7. HookSteps => Same
  BY <1>1, <1>2, <1>3, <1>5
     DEF HookSteps, SheetStep, SheetDecided, SheetActs, SheetRuns, SheetFails, AnswerLost
<1>8. Crash \/ UNCHANGED vars => Same
  BY <1>2, <1>3 DEF Crash, vars
<1> QED
  BY <1>4, <1>6, <1>7, <1>8, WhoMoves

----------------------------------------------------------------------------
(* What a goroutine in a handler knows.                                    *)

\* The session of w has a name the agent gives sessions.
Known(w) == NamingSession(w) \in Named

\* The call c at label l of the lifecycle consumer or the reconciler: renames
\* and forks start from sessions the agent names, in the same repository, and
\* so does a bookmark about to be made, unless at main or at the head.
Steady(c, l) ==
    /\ c.op # "forkAt"
    /\ c.op \in {"fork", "rename"} /\ c.peer # None => Known(c.peer)
    /\ c.op \in {"rename", "parent"} \/ l = "parent" => c.peer.repo = c.ws.repo
    /\ c.op = "parent" => Known(c.ws)
    /\ l \in {"look", "create"} =>
         \/ c.src \in {Main, Head}
         \/ /\ c.peer # None /\ Known(c.peer)
            /\ c.src = c.peer.bm /\ c.peer.repo = c.ws.repo

\* It works for such sessions alone.
AllKnown(c) == Known(c.ws) /\ (c.peer # None => Known(c.peer))

\* A step of a handler, a failing, an unanswered or a blind one included.
Handles(p) ==
    \/ Progress(p) \/ FailCall(p) \/ Unanswered(p)
    \/ \E listed \in BOOLEAN : LookForMark(p, listed) \/ LookForDoomed(p, listed)

\* It makes a call.
LEMMA HandlersCall == ASSUME NEW p \in Procs, Handles(p) PROVE at[p] \in CallLabels
<1>1. Unanswered(p) => at[p] \in CallLabels
  BY DEF Unanswered, WritesMark, WritesRow, CallLabels
<1> QED
  BY <1>1, CallsAreMade DEF Handles, FailCall

\* A handler keeps to the names it began with.
LEMMA HandlesKeepsSteady ==
    ASSUME StepTypeOK(Labels), CallOK, NEW p \in {"events", "reconcile"}, Handles(p),
           Steady(call[p], at[p])
    PROVE  Steady(call'[p], at'[p]) /\ (AllKnown(call[p]) => AllKnown(call'[p]))
<1> DEFINE c == call[p]
           Kept == Steady(call'[p], at'[p]) /\ (AllKnown(call[p]) => AllKnown(call'[p]))
<1>0. p \in Procs
  BY DEF Procs
<1>1. at[p] \in CallLabels
  BY <1>0, HandlersCall
<1>2. c \in Calls /\ Fits(p, c, at[p])
  BY <1>0, <1>1 DEF CallOK, Fits
<1>3. c.op \in Ops /\ c.ws \in Workspaces /\ c.peer \in Workspaces \union {None}
  BY <1>2 DEF Calls
<1>4. ASSUME NEW l, Goto(p, l), l # "parent", l \in {"look", "create"} => at[p] = "look"
      PROVE  Kept
  BY <1>0, <1>4, Arrives DEF Steady, AllKnown
<1>5. CASE AlreadyMirrored(p) \/ AlreadyBound(p) \/ ManageRepo(p)
  <2>1. Return(p)
    BY <1>5 DEF AlreadyMirrored, AlreadyBound, ManageRepo
  <2>2. CASE c.op = "parent"
    <3>1. c.peer \in Workspaces /\ Known(c.ws) /\ c.peer.repo = c.ws.repo
      BY <1>2, <2>2 DEF Fits, Steady
    <3>2. at'[p] = "look" /\ call'[p] = ForkAt(c.peer, c.ws)
      BY <1>0, <2>1, <2>2, Arrives DEF Return
    <3>3. c.ws # None
      BY <1>3, NamesAssumption
    <3> QED
      BY <3>1, <3>2, <3>3, NamesAssumption DEF Steady, AllKnown, ForkAt, Call
  <2>3. CASE c.op # "parent"
    BY <1>4, <2>1, <2>3 DEF Return
  <2> QED
    BY <2>2, <2>3
<1>6. CASE ForkNotMirrored(p)
  <2>1. CASE c.peer = None
    <3> DEFINE d == [c EXCEPT !.src = Main]
    <3>1. at'[p] = "look" /\ call'[p] = d
      BY <1>0, <1>6, <2>1, Arrives DEF ForkNotMirrored
    <3>2. d.op = c.op /\ d.ws = c.ws /\ d.peer = c.peer /\ d.src = Main
      BY <1>2 DEF Calls
    <3>3. c.op = "fork"
      BY <1>6 DEF ForkNotMirrored
    <3> QED
      BY <3>1, <3>2, <3>3 DEF Steady, AllKnown
  <2>2. CASE c.peer # None /\ c.peer.repo # c.ws.repo
    BY <1>4, <1>6, <2>2 DEF ForkNotMirrored
  <2>3. CASE c.peer # None /\ c.peer.repo = c.ws.repo
    <3>1. at'[p] = "parent" /\ call' = call
      BY <1>0, <1>6, <2>3, Arrives DEF ForkNotMirrored
    <3> QED
      BY <2>3, <3>1 DEF Steady
  <2> QED
    BY <2>1, <2>2, <2>3
<1>7. CASE FindParent(p)
  <2>1. at[p] = "parent" /\ c.op = "fork" /\ c.peer \in Workspaces
    BY <1>2, <1>7 DEF FindParent, Fits
  <2>2. c.peer # None /\ c.ws # None /\ Known(c.peer) /\ c.peer.repo = c.ws.repo
    BY <1>3, <2>1, NamesAssumption DEF Steady
  <2>3. \/ at'[p] = "look" /\ call'[p] = ForkAt(c.ws, c.peer)
        \/ at'[p] = "findRow" /\ call'[p] = Call("parent", c.peer, c.ws, None)
    BY <1>0, <1>7, Arrives DEF FindParent
  <2> QED
    BY <2>1, <2>2, <2>3 DEF Steady, AllKnown, ForkAt, Call
<1>8. CASE FindFrom(p)
  <2> DEFINE d == [c EXCEPT !.src = c.peer.bm]
  <2>1. c.op = "rename" /\ c.peer \in Workspaces
    BY <1>2, <1>8 DEF FindFrom, Fits
  <2>2. c.peer # None /\ Known(c.peer) /\ c.peer.repo = c.ws.repo
    BY <2>1, NamesAssumption DEF Steady
  <2>3. d.op = c.op /\ d.ws = c.ws /\ d.peer = c.peer /\ d.src = c.peer.bm
    BY <1>2 DEF Calls
  <2>4. \/ at'[p] = "look" /\ call'[p] = d
        \/ at'[p] = "findRow" /\ call'[p] = Call("create", c.ws, None, None)
    BY <1>0, <1>8, Arrives DEF FindFrom
  <2> HIDE DEF d
  <2> QED
    BY <2>1, <2>2, <2>3, <2>4 DEF Steady, AllKnown, Call
<1>9. CASE ChooseAnchor(p)
  <2> DEFINE d == [c EXCEPT !.src = AnchorChoice(c.ws.repo)]
  <2>1. at'[p] = "look" /\ call'[p] = d
    BY <1>0, <1>9, Arrives DEF ChooseAnchor
  <2>2. d.op = c.op /\ d.ws = c.ws /\ d.peer = c.peer /\ d.src \in {Main, Head}
    BY <1>2 DEF Calls, AnchorChoice
  <2> HIDE DEF d
  <2> QED
    BY <2>1, <2>2 DEF Steady, AllKnown
<1>10. CASE NotMirrored(p) \/ FindDeleted(p) \/ MarkRefused(p) \/ FailCall(p) \/ Unanswered(p)
  BY <1>4, <1>10 DEF NotMirrored, FindDeleted, MarkRefused, FailCall, Unanswered
<1>11. CASE MakeRepo(p)
  <2>1. c.op # "forkAt"
    BY DEF Steady
  <2> QED
    BY <1>4, <1>11, <2>1 DEF MakeRepo, AfterRepo
<1>12. CASE \/ MakeMark(p) \/ BindRow(p) \/ MoveRow(p) \/ RowNotMoved(p)
            \/ DropMark(p) \/ DropRefused(p) \/ Unbind(p)
  BY <1>4, <1>12 DEF MakeMark, AfterMark, BindRow, MoveRow, RowNotMoved, DropMark, AfterDrop,
                     DropRefused, Unbind
<1>13. ASSUME NEW listed, LookForMark(p, listed) \/ LookForDoomed(p, listed) PROVE Kept
  BY <1>4, <1>13 DEF LookForMark, LookForDoomed, AfterMark, AfterDrop
<1> QED
  BY <1>5, <1>6, <1>7, <1>8, <1>9, <1>10, <1>11, <1>12, <1>13 DEF Handles, Progress

----------------------------------------------------------------------------
(* The one worksheet and the hook.                                         *)

\* One worksheet in a run; no user of jj removes bookmarks and nobody adopts.
OneWorksheet == Limit["sheets"] <= 1 /\ Removable = {} /\ Adoptable = {}

\* The hook is on its way to the agent's fork.
PreFork == {"findRow", "repo", "look", "create", "bind", "manage", "ok", "fork"}

\* The worksheet proposed, waiting, served or recorded as clear.
Worksheet(s) == s \in sheets \union clear \/ (s = sheet /\ s # None)

\* All that is about one worksheet is about the same one.  It was proposed by
\* a session the agent named, and nothing but it is on record.
OneSheet ==
    /\ used["sheets"] <= 1
    /\ used["sheets"] = 0 => executed = {} /\ \A s : ~ Worksheet(s)
    /\ \A s, t : Worksheet(s) /\ Worksheet(t) => s = t
    /\ \A s : Worksheet(s) =>
         /\ executed \subseteq {s.id}
         /\ Known(s.from) /\ s.ws # s.from
         /\ s.from.repo = s.ws.repo /\ s.ws.repo \in repos
         /\ s.action = "delete" => s.ws.bm # Main
    /\ \A s \in clear : s.action = "fork"
    /\ executed = {} => clear = {}
    /\ adoption = None

\* The hook looks for no anchor.
HookOK ==
    /\ at["hook"] # "anchor"
    /\ at["hook"] = "repo" => call["hook"].op = "forkAt"

\* The session a worksheet makes is not made yet.
Early == executed = {} \/ (sheet \in clear /\ at["hook"] \in PreFork)

\* What the hook has in hand.
Hook == <<executed, clear, sheet, at["hook"], call["hook"]>>

\* The hook goes on with its worksheet.
HookWorks ==
    /\ UNCHANGED <<executed, clear, sheet, sheets>>
    /\ \/ Handles("hook")
       \/ Forking \/ SheetForks(used["acts"]) \/ NothingToFork
       \/ DropSession(used["acts"]) \/ FindDoomed

\* The hook is done, or is called.
HookRests == at'["hook"] \in {"idle", "record"}

\* What a step does to the worksheet and to the hook.
LEMMA HookMoves ==
    ASSUME IInv, [Next]_vars
    PROVE  /\ Record \/ UNCHANGED <<executed, clear>>
           /\ UNCHANGED Hook \/ HookRests \/ Record \/ HookWorks
           /\ SheetProposed \/ \A s : Worksheet(s)' => Worksheet(s)
<1> DEFINE Moved == /\ Record \/ UNCHANGED <<executed, clear>>
                    /\ UNCHANGED Hook \/ HookRests \/ Record \/ HookWorks
                    /\ SheetProposed \/ \A s : Worksheet(s)' => Worksheet(s)
<1>1. StepTypeOK(Labels) /\ PassTypeOK /\ JobOK /\ "hook" \in Procs
  BY DEF IInv, TypeOK, Procs
<1>2. ASSUME UNCHANGED <<executed, clear, sheet, sheets>> PROVE \A s : Worksheet(s)' => Worksheet(s)
  BY <1>2 DEF Worksheet
<1>3. CASE UNCHANGED sheetVars /\ Still("hook")
  BY <1>2, <1>3 DEF sheetVars, Still, Hook
<1>4. CASE Elsewhere \/ EventsSteps \/ PassSteps
  BY <1>1, <1>3, <1>4, OwnLocals DEF stepVars, Still
<1>5. CASE UNCHANGED vars
  BY <1>3, <1>5 DEF vars, stepVars, Still
<1>6. CASE Crash
  BY <1>1, <1>6 DEF Crash, HookRests, Worksheet
<1>7. CASE HookSteps
  <2>1. CASE SheetProposed
    BY <2>1 DEF SheetProposed, ForkProposed, DeleteProposed, ProposeFork, ProposeDelete, Propose,
                stepVars, Hook
  <2>2. ASSUME NEW s \in sheets, Dispatch(s) PROVE Moved
    <3>1. at'["hook"] = "record"
      BY <1>1, <2>2, Arrives DEF Dispatch
    <3> QED
      BY <2>2, <3>1 DEF Dispatch, HookRests, Worksheet
  <2>3. ASSUME NEW s \in sheets, Reject(s), UNCHANGED stepVars PROVE Moved
    BY <2>3 DEF Reject, stepVars, Hook, Worksheet
  <2>4. CASE \/ AlreadyExecuted \/ HookRefuses \/ CarriedOut({sheet}) \/ CarriedOut({})
             \/ HookFails
    <3>1. UNCHANGED <<executed, clear>> /\ sheet' = None /\ sheets' \subseteq sheets
          /\ at'["hook"] = "idle"
      BY <1>1, <2>4, Arrives DEF AlreadyExecuted, HookRefuses, CarriedOut, HookFails, EndHook
    <3> QED
      BY <3>1 DEF HookRests, Worksheet
  <2>5. CASE Record
    <3>1. sheet # None
      BY <1>1, <2>5, SheetsAssumption DEF JobOK, Executes, Record, InHook
    <3> QED
      BY <2>5, <3>1 DEF Record, Worksheet
  <2>6. CASE AnsweredMeanwhile
    BY <2>6 DEF AnsweredMeanwhile, stepVars, Hook, Worksheet
  <2>7. CASE HookWorks
    BY <1>2, <2>7 DEF HookWorks
  <2>8. HookSteps => \/ SheetProposed \/ (\E s \in sheets : SheetDecided(s)) \/ Record
                     \/ AnsweredMeanwhile \/ HookWorks
                     \/ AlreadyExecuted \/ HookRefuses \/ CarriedOut({sheet}) \/ CarriedOut({})
                     \/ HookFails
    BY DEF HookSteps, SheetStep, SheetActs, SheetRuns, SheetFails, AnswerLost, CallFails,
           CallUnanswered, HandlerBlind, HookProgress, HookWorks, Handles, Forking,
           SheetForks, NothingToFork,
           DropSession, FindDoomed, sheetVars
  <2> QED
    BY <1>7, <2>1, <2>2, <2>3, <2>4, <2>5, <2>6, <2>7, <2>8 DEF SheetDecided
<1> QED
  BY <1>4, <1>5, <1>6, <1>7, WhoMoves

\* The hook of a fork makes the calls of ensureForkedAt.
LEMMA ForkHook ==
    ASSUME IInv, HookOK, sheet.action = "fork", at["hook"] \in CallLabels
    PROVE  /\ call["hook"].op = "forkAt" /\ call["hook"] \in Calls
           /\ at["hook"] \in {"findRow", "repo", "look", "create", "bind", "manage"}
<1>1. "hook" \in Procs /\ StepTypeOK(Labels) /\ CallOK /\ JobOK
  BY DEF IInv, TypeOK, Procs
<1>2. /\ call["hook"] \in Calls /\ Fits("hook", call["hook"], at["hook"])
      /\ Executes(call["hook"], at["hook"])
  BY <1>1, BusyCall DEF Owns
<1>3. call["hook"].op = "forkAt"
  BY <1>2 DEF Fits, Executes, Serving, Calls, Ops
<1> QED
  BY <1>2, <1>3 DEF Fits, HookOK, CallLabels

\* ensureForkedAt is given its anchor and looks for none.
LEMMA HandlesKeepsHook ==
    ASSUME IInv, HookOK, Handles("hook") PROVE HookOK' /\ at'["hook"] # "fork"
<1>1. "hook" \in Procs /\ StepTypeOK(Labels) /\ CallOK /\ JobOK
  BY DEF IInv, TypeOK, Procs
<1>2. at["hook"] \in CallLabels
  BY <1>1, HandlersCall
<1>3. Fits("hook", call["hook"], at["hook"]) /\ call["hook"] \in Calls
  BY <1>1, <1>2, BusyCall
<1>4. ASSUME NEW l, Goto("hook", l), l \notin {"fork", "anchor"},
             l = "repo" => call["hook"].op = "forkAt"
      PROVE  HookOK' /\ at'["hook"] # "fork"
  BY <1>1, <1>4, Arrives DEF HookOK
<1>5. CASE AlreadyMirrored("hook") \/ AlreadyBound("hook") \/ ManageRepo("hook")
  BY <1>3, <1>4, <1>5 DEF AlreadyMirrored, AlreadyBound, ManageRepo, Return, Fits
<1>6. CASE NotMirrored("hook")
  BY <1>3, <1>4, <1>6 DEF NotMirrored, Fits
<1>7. CASE MakeRepo("hook")
  BY <1>4, <1>7 DEF MakeRepo, AfterRepo, HookOK
<1>8. ~ ForkNotMirrored("hook") /\ ~ FindParent("hook") /\ ~ FindFrom("hook")
      /\ ~ ChooseAnchor("hook")
  BY <1>3 DEF ForkNotMirrored, FindParent, FindFrom, ChooseAnchor, Fits, HookOK
<1>9. CASE \/ FindDeleted("hook") \/ MakeMark("hook") \/ MarkRefused("hook") \/ BindRow("hook")
           \/ MoveRow("hook") \/ RowNotMoved("hook")
           \/ DropMark("hook") \/ DropRefused("hook") \/ Unbind("hook") \/ FailCall("hook")
           \/ Unanswered("hook")
  BY <1>4, <1>9 DEF FindDeleted, MakeMark, AfterMark, MarkRefused, BindRow, MoveRow, RowNotMoved,
                    DropMark, AfterDrop, DropRefused, Unbind, FailCall, Unanswered
<1>10. ASSUME NEW listed, LookForMark("hook", listed) \/ LookForDoomed("hook", listed)
       PROVE  HookOK' /\ at'["hook"] # "fork"
  BY <1>4, <1>10 DEF LookForMark, LookForDoomed, AfterMark, AfterDrop
<1> QED
  BY <1>5, <1>6, <1>7, <1>8, <1>9, <1>10 DEF Handles, Progress

LEMMA NextKeepsHook == IInv /\ HookOK /\ [Next]_vars => HookOK'
<1> SUFFICES ASSUME IInv, HookOK, [Next]_vars PROVE HookOK'
  OBVIOUS
<1>1. StepTypeOK(Labels) /\ "hook" \in Procs
  BY DEF IInv, TypeOK, Procs
<1>2. CASE UNCHANGED Hook \/ HookRests
  BY <1>2 DEF Hook, HookRests, HookOK
<1>3. CASE Record
  BY <1>1, <1>3, Arrives DEF Record, Begin, HookOK
<1>4. CASE HookWorks
  <2>1. CASE Forking \/ SheetForks(used["acts"]) \/ NothingToFork \/ DropSession(used["acts"])
    BY <1>1, <2>1, Arrives DEF Forking, SheetForks, NothingToFork, DropSession, HookOK
  <2>2. CASE FindDoomed
    BY <1>1, <2>2, Arrives DEF FindDoomed, HookOK
  <2> QED
    BY <1>4, <2>1, <2>2, HandlesKeepsHook DEF HookWorks
<1> QED
  BY <1>2, <1>3, <1>4, HookMoves

\* Once the session has been made, it stays so.
LEMMA EarlyShrinks ==
    ASSUME IInv, OnceInv, OneSheet, HookOK, [Next]_vars PROVE Early' => Early
<1>1. StepTypeOK(Labels) /\ "hook" \in Procs /\ JobOK
  BY DEF IInv, TypeOK, Procs
<1>2. CASE UNCHANGED Hook
  BY <1>2 DEF Hook, Early
<1>3. CASE HookRests /\ UNCHANGED <<executed, clear>>
  BY <1>3 DEF HookRests, Early, PreFork
<1>4. CASE Record
  <2>1. Worksheet(sheet) /\ sheet.id \notin executed
    BY <1>1, <1>4, SheetsAssumption DEF Record, JobOK, Executes, InHook, Worksheet
  <2> QED
    BY <2>1 DEF OneSheet, Early
<1>5. CASE HookWorks /\ sheet \in clear
  <2>1. sheet.action = "fork"
    BY <1>5 DEF OneSheet
  <2>2. CASE Handles("hook")
    <3>1. at["hook"] \in CallLabels
      BY <1>1, <2>2, HandlersCall
    <3> QED
      BY <1>5, <2>1, <3>1, ForkHook DEF Early, PreFork
  <2>3. CASE Forking \/ SheetForks(used["acts"]) \/ NothingToFork
    BY <1>5, <2>3 DEF Forking, SheetForks, NothingToFork, InHook, Early, PreFork
  <2>4. CASE DropSession(used["acts"]) \/ FindDoomed
    BY <1>1, <2>1, <2>4 DEF DropSession, FindDoomed, InHook, JobOK, Executes, Serving
  <2> QED
    BY <1>5, <2>2, <2>3, <2>4 DEF HookWorks
<1>6. CASE HookWorks /\ sheet \notin clear
  BY <1>6 DEF HookWorks, Early
<1> QED
  BY <1>2, <1>3, <1>4, <1>5, <1>6, HookMoves

\* Nobody adopts.
LEMMA NoAdoption ==
    ASSUME OneWorksheet, PassTypeOK, adoption = None, [Next]_vars PROVE adoption' = None
<1>1. UNCHANGED varsVars \/ UNCHANGED toolVars => adoption' = None
  BY DEF varsVars, toolVars
<1>2. ASSUME NEW p, CallFails(p) \/ CallUnanswered(p) \/ HandlerBlind(p)
      PROVE  adoption' = None
  BY <1>1, <1>2 DEF CallFails, CallUnanswered, HandlerBlind
<1>3. CASE Elsewhere
  <2>1. CASE AgentActs \/ (\E e \in stream : LoseEvent(e)) \/ (\E w \in Removable : JJRemoves(w))
    BY <1>1, <2>1 DEF AgentActs, AgentCreates, AgentForks, AgentRenames, AgentDeletes, LoseEvent,
                      JJRemoves, others
  <2>2. CASE \/ (\E s \in Sids : ToolStarts(s)) \/ (\E c \in Commits : ToolCommits(c))
             \/ (\E r \in rows : ToolLooksUp(r)) \/ CacheChanges
    BY <2>2 DEF ToolStarts, StartTool, ToolCommits, EndTool, ToolLooksUp, Lookup, CacheChanges,
                FillCache, Expire, toolVars
  <2>3. ~ AdoptStep /\ ~ AdoptFails
    BY DEF OneWorksheet, AdoptStep, AdoptCreates, EnsureSession, AdoptEnds, AdoptRow,
           AdoptRefused, Adopting, AdoptFails, FailAdoption
  <2> QED
    BY <1>3, <2>1, <2>2, <2>3 DEF Elsewhere
<1>4. CASE EventsSteps
  BY <1>1, <1>2, <1>4
     DEF EventsSteps, EventsStep, Deliver, Ack, Nack, ResolveVars, PublishSessionVars,
         ClearSessionVars, AckLost, VarsWriteFails, VarsFail, cacheVars
<1>5. CASE PassSteps
  BY <1>1, <1>2, <1>5, PassParts, ReadsChangeNothing
     DEF PassSteps, Sweeps, SweepRow, SweepUnanswered, HealStep, Evict, cacheVars
<1>6. CASE HookSteps
  BY <1>1, <1>2, <1>6
     DEF HookSteps, SheetStep, SheetProposed, SheetDecided, Dispatch, SheetActs, SheetForks,
         DropSession, SheetRuns, Record, AlreadyExecuted, AnsweredMeanwhile, Forking,
         NothingToFork, FindDoomed, HookProgress, HookRefuses, CarriedOut, SheetFails, HookFails,
         AnswerLost
<1> QED
  BY <1>1, <1>3, <1>4, <1>5, <1>6, WhoMoves DEF Crash, vars

----------------------------------------------------------------------------
(* Repositories and names.                                                 *)

\* An event that is not acknowledged yet or being served.
Pending(e) == e \in stream \/ (e = job /\ e # None)

\* Until the fork, the agent's own names are all there is: nothing else has a
\* session, an event, or a goroutine that works for it.
Roster == Early =>
    /\ sessions \subseteq Named
    /\ \A e : Pending(e) => e.sid \in Named
    /\ pass.seen \subseteq Named
    /\ \A w \in pass.heal : Known(w)
    /\ \A p \in {"events", "reconcile"} : at[p] \in CallLabels => AllKnown(call[p])

\* Forks and renames start from the agent's own names, and only a worksheet
\* deletes another one.
PeersOK == \A e : Pending(e) =>
    /\ e.peer \in Named \union {None}
    /\ e.kind = "deleted" /\ e.sid \notin Named =>
         clear = {} /\ executed # {} /\ \A r \in Repos : e.sid # NamingSession(MainOf(r))

\* Consumer and reconciler keep to such calls.
AllSteady == \A p \in {"events", "reconcile"} : Steady(call[p], at[p])

\* Bookmarks are those of repositories, and a main the agent cannot delete
\* stays.
RepositoriesOK ==
    /\ \A w \in marks : w.repo \in repos
    /\ \A r \in repos : Known(MainOf(r)) \/ MainOf(r) \in marks

\* The hook at work has its worksheet.
LEMMA ServedSheet ==
    ASSUME JobOK, at["hook"] # "idle" PROVE sheet \in Sheets /\ Worksheet(sheet)
BY SheetsAssumption DEF JobOK, Executes, Worksheet

\* A repository stays.
LEMMA ReposGrow == ASSUME StepTypeOK(Labels), PassTypeOK, [Next]_vars PROVE repos \subseteq repos'
<1>1. CASE UNCHANGED jjVars
  BY <1>1 DEF jjVars
<1>2. ASSUME NEW p, RepoMade(p) \/ MarkMade(p) \/ MarkDropped(p)
      PROVE  repos \subseteq repos'
  BY <1>2 DEF RepoMade, EnsureRepo, MarkMade, CreateBookmark, MarkDropped, DropBookmark
<1>3. ASSUME NEW c, ToolCommits(c) PROVE repos \subseteq repos'
  BY <1>3 DEF ToolCommits, Commit, jjVars
<1>4. ASSUME NEW w, JJRemoves(w) PROVE repos \subseteq repos'
  BY <1>4 DEF JJRemoves, DropBookmark
<1> QED
  BY <1>1, <1>2, <1>3, <1>4, DataMoves DEF vars

\* What is doomed is a bookmark of the agent's own names, or a worksheet
\* deletes it.
LEMMA Doom ==
    ASSUME IInv, OneSheet, PeersOK, AllSteady, NEW p \in Procs, MarkDropped(p)
    PROVE  LET w == Doomed(call[p])
           IN  Known(w) \/ (clear = {} /\ \A r \in Repos : w # MainOf(r))
<1> DEFINE c == call[p]
<1>1. StepTypeOK(Labels) /\ CallOK /\ JobOK /\ at[p] = "dropMark" /\ at[p] \in CallLabels
  BY DEF IInv, TypeOK, MarkDropped, CallLabels
<1>2. c \in Calls /\ Fits(p, c, "dropMark") /\ Owns(p, c, "dropMark")
  BY <1>1, BusyCall
<1>3. c.ws \in Workspaces
  BY <1>2 DEF Calls
<1>4. CASE p = "events" /\ c.op = "rename"
  <2>1. c.peer \in Workspaces /\ c.peer # None /\ Steady(c, "dropMark")
    BY <1>1, <1>2, <1>4, NamesAssumption DEF Fits, AllSteady
  <2> QED
    BY <1>4, <2>1 DEF Steady, Doomed
<1>5. CASE p = "events" /\ c.op = "delete"
  <2>1. job \in stream /\ job.kind = "deleted" /\ job.sid = NamingSession(c.ws)
    BY <1>2, <1>5 DEF Owns, Serves
  <2> QED
    BY <1>5, <2>1 DEF PeersOK, Pending, Known, Doomed
<1>6. CASE p = "hook"
  <2>1. c.op \in {"delete", "cleanup"}
    BY <1>2, <1>6 DEF Fits
  <2>2. sheet.action = "delete" /\ sheet.ws = c.ws /\ Worksheet(sheet)
    BY <1>1, <1>2, <1>6, <2>1, ServedSheet DEF Owns, Executes, Serving
  <2>3. clear = {}
    BY <2>2 DEF OneSheet, Worksheet
  <2>4. c.ws.bm # Main
    BY <2>2 DEF OneSheet
  <2> QED
    BY <2>1, <2>3, <2>4 DEF Doomed, MainOf
<1> QED
  BY <1>2, <1>4, <1>5, <1>6 DEF Fits, Procs

LEMMA NextKeepsRepositories ==
    ASSUME OneWorksheet, IInv, OneSheet, PeersOK, AllSteady, RepositoriesOK, [Next]_vars
    PROVE  RepositoriesOK'
<1>1. JJTypeOK /\ StepTypeOK(Labels) /\ PassTypeOK /\ CallOK
  BY DEF IInv, TypeOK
<1>2. CASE UNCHANGED jjVars
  BY <1>2 DEF jjVars, RepositoriesOK
<1>3. ASSUME NEW p \in Procs, RepoMade(p) PROVE RepositoriesOK'
  BY <1>3 DEF RepoMade, EnsureRepo, RepositoriesOK, MainOf
<1>4. ASSUME NEW p \in Procs, MarkMade(p) PROVE RepositoriesOK'
  BY <1>4 DEF MarkMade, CreateBookmark, CanCreate, RepositoriesOK
<1>5. ASSUME NEW p \in Procs, MarkDropped(p) PROVE RepositoriesOK'
  BY <1>1, <1>5, Doom DEF MarkDropped, DropBookmark, RepositoriesOK, JJTypeOK
<1>6. ASSUME NEW c, ToolCommits(c) PROVE RepositoriesOK'
  BY <1>6 DEF ToolCommits, Commit, jjVars, RepositoriesOK
<1>7. ~ \E w \in Removable : JJRemoves(w)
  BY DEF OneWorksheet
<1> QED
  BY <1>1, <1>2, <1>3, <1>4, <1>5, <1>6, <1>7, DataMoves DEF vars

LEMMA NextKeepsOneSheet ==
    ASSUME OneWorksheet, IInv, OneSheet, Roster, RepositoriesOK, [Next]_vars PROVE OneSheet'
<1>1. /\ StepTypeOK(Labels) /\ PassTypeOK /\ JobOK /\ used \in [BudgetKinds -> Nat]
      /\ clear \subseteq Sheets
      /\ "sheets" \in BudgetKinds /\ Limit["sheets"] \in Nat
  BY WorkspaceAssumption DEF IInv, TypeOK, SheetTypeOK, BudgetKinds
<1>2. repos \subseteq repos' /\ adoption' = None
  BY <1>1, ReposGrow, NoAdoption DEF OneSheet
<1>3. CASE SheetProposed
  <2>1. PICK s \in sessions, w \in Workspaces : ForkProposed(s, w) \/ DeleteProposed(s, w)
    BY <1>3 DEF SheetProposed
  <2>2. used["sheets"] = 0 /\ used'["sheets"] = 1
    BY <1>1, <2>1 DEF ForkProposed, DeleteProposed, Spend, OneWorksheet
  <2>3. executed = {} /\ clear = {} /\ sheets = {} /\ sheet = None
    BY <2>2 DEF OneSheet, Worksheet
  <2>4. PICK r \in Resolved(s) :
          \/ ProposeFork(used["sheets"], r.ws, w) \/ ProposeDelete(used["sheets"], r.ws, w)
    BY <2>1 DEF ForkProposed, DeleteProposed
  <2>5. Known(r.ws)
    <3>1. r \in rows \union cached /\ r.sid = s
      BY <2>4 DEF Resolved, Of
    <3>2. s \in Named
      BY <2>3 DEF Roster, Early
    <3> QED
      BY <3>1, <3>2 DEF IInv, ResolvesOwnBookmark, Known
  <2>6. PICK t : /\ sheets' = {t} /\ t.from = r.ws /\ t.ws = w
                 /\ w.repo = r.ws.repo /\ w # r.ws /\ (r.ws \in marks \/ w \in marks)
                 /\ t.action = "delete" => w.bm # Main
                 /\ UNCHANGED <<executed, sheet, clear>>
    BY <2>3, <2>4 DEF ProposeFork, ProposeDelete, Propose
  <2>7. w.repo \in repos
    BY <2>6 DEF RepositoriesOK
  <2>8. \A u : Worksheet(u)' => u = t
    BY <2>3, <2>6 DEF Worksheet
  <2> QED
    BY <1>2, <2>2, <2>3, <2>5, <2>6, <2>7, <2>8 DEF OneSheet
<1>4. CASE ~ SheetProposed
  <2>1. used'["sheets"] = used["sheets"] /\ \A s : Worksheet(s)' => Worksheet(s)
    BY <1>1, <1>4, SheetsSpent, HookMoves
  <2>2. CASE UNCHANGED <<executed, clear>>
    BY <1>2, <2>1, <2>2 DEF OneSheet
  <2>3. CASE Record
    <3>1. sheet \in Sheets /\ Worksheet(sheet)
      BY <1>1, <2>3, ServedSheet DEF Record, InHook
    <3>2. executed' = executed \union {sheet.id} /\ clear' \subseteq clear \union {sheet}
          /\ (sheet \in clear' => sheet \in clear \/ sheet.action = "fork")
      BY <2>3 DEF Record
    <3>3. used["sheets"] # 0
      BY <3>1 DEF OneSheet
    <3>4. executed' = {sheet.id} /\ \A s : Worksheet(s)' => s = sheet
      BY <2>1, <3>1, <3>2 DEF OneSheet
    <3>5. \A s \in clear' : s.action = "fork"
      BY <3>2 DEF OneSheet
    <3> QED
      BY <1>2, <2>1, <3>1, <3>3, <3>4, <3>5 DEF OneSheet
  <2> QED
    BY <2>2, <2>3, HookMoves
<1> QED
  BY <1>3, <1>4

----------------------------------------------------------------------------
(* Where sessions, events and calls come from.                             *)

\* A redelivered event asks for the same.
SameEvent(e, f) == e.kind = f.kind /\ e.sid = f.sid /\ e.peer = f.peer

\* Sessions and events come from the agent, under its own names, or from the
\* hook.
LEMMA Arrivals ==
    ASSUME IInv, adoption = None, [Next]_vars
    PROVE  /\ \A s \in sessions' : s \in sessions \union Named \/ SheetForks(used["acts"])
           /\ \A e : Pending(e)' =>
                \/ \E f : Pending(f) /\ SameEvent(e, f)
                \/ e.sid \in Named /\ e.peer \in Named \union {None}
                \/ /\ SheetForks(used["acts"])
                   /\ e.kind = "forked" /\ e.peer = NamingSession(sheet.from)
                \/ /\ DropSession(used["acts"])
                   /\ e.kind = "deleted" /\ e.peer = None /\ e.sid = NamingSession(sheet.ws)
<1> DEFINE Old(e) == \E f : Pending(f) /\ SameEvent(e, f)
           New(e) == \/ e.sid \in Named /\ e.peer \in Named \union {None}
                     \/ /\ SheetForks(used["acts"])
                        /\ e.kind = "forked" /\ e.peer = NamingSession(sheet.from)
                     \/ /\ DropSession(used["acts"])
                        /\ e.kind = "deleted" /\ e.peer = None /\ e.sid = NamingSession(sheet.ws)
           Come == /\ \A s \in sessions' :
                        s \in sessions \union Named \/ SheetForks(used["acts"])
                   /\ \A e \in stream' : Old(e) \/ New(e)
<1>1. PassTypeOK /\ StepTypeOK(Labels) /\ JobOK
  BY DEF IInv, TypeOK
<1>2. \A e : Pending(e) => Old(e)
  BY DEF SameEvent
<1>3. job' \in {job, None} \/ job' \in stream
  <2>1. CASE EventsSteps
    BY <2>1 DEF EventsSteps, EventsStep, Deliver, Deliverable, Ack, Nack, ResolveVars,
                PublishSessionVars, ClearSessionVars, AckLost, VarsWriteFails, VarsFail,
                CallFails, CallUnanswered, HandlerBlind
  <2>2. CASE Elsewhere \/ PassSteps \/ HookSteps
    BY <1>1, <2>2, OwnLocals
  <2> QED
    BY <2>1, <2>2, WhoMoves DEF Crash, vars
<1>4. ASSUME NEW s, NEW k, NEW q, NEW n, Publish(n, k, s, q),
             \A e : e.kind = k /\ e.sid = s /\ e.peer = q => New(e)
      PROVE  \A e \in stream' : Old(e) \/ New(e)
  BY <1>2, <1>4 DEF Publish, Pending
<1>5. ASSUME UNCHANGED agentVars PROVE Come
  BY <1>2, <1>5 DEF agentVars, Pending
<1>6. ASSUME Ack \/ \E e \in stream : LoseEvent(e) PROVE Come
  BY <1>2, <1>6 DEF Ack, Acknowledge, LoseEvent, Lose, Pending
<1>7. ASSUME Redeliver(job) /\ Pending(job) PROVE Come
  <2>1. SameEvent([job EXCEPT !.tried = Overtaking], job)
    <3>1. job \in Events
      BY <1>7 DEF IInv, TypeOK, AgentTypeOK, JobTypeOK, Pending
    <3> QED
      BY <3>1 DEF SameEvent, Events
  <2> QED
    BY <1>2, <1>7, <2>1 DEF Redeliver, Pending
<1>8. ASSUME AgentActs PROVE Come
  <2>1. ASSUME NEW s \in Named, CreateSession(used["acts"], s) PROVE Come
    BY <1>4, <2>1 DEF CreateSession
  <2>2. ASSUME NEW p \in Named, NEW s \in Named, ForkSession(used["acts"], p, s) PROVE Come
    BY <1>4, <2>2 DEF ForkSession
  <2>3. ASSUME NEW f \in Named, NEW t \in Named, RenameSession(used["acts"], f, t) PROVE Come
    BY <1>4, <2>3 DEF RenameSession
  <2>4. ASSUME NEW s \in Named, DeleteSession(used["acts"], s) PROVE Come
    BY <1>4, <2>4 DEF DeleteSession
  <2> QED
    BY <1>8, <2>1, <2>2, <2>3, <2>4
       DEF AgentActs, AgentCreates, AgentForks, AgentRenames, AgentDeletes
<1>9. ASSUME SheetForks(used["acts"]) PROVE Come
  BY <1>4, <1>5, <1>9 DEF SheetForks, ForkSession
<1>10. ASSUME DropSession(used["acts"]) PROVE Come
  BY <1>4, <1>5, <1>10 DEF DropSession, DeleteSession
<1>11. Redeliver(job) /\ (job # None \/ at["events"] # "idle") => Pending(job)
  BY <1>1 DEF JobOK, Serves, Pending
<1>12. ~ AdoptCreates
  BY DEF AdoptCreates, EnsureSession, Adopting
<1>13. ASSUME UNCHANGED vars PROVE Come
  BY <1>5, <1>13 DEF vars
<1>14. Come
  BY <1>1, <1>5, <1>6, <1>7, <1>8, <1>9, <1>10, <1>11, <1>12, <1>13, SessionMoves
<1> QED
  BY <1>2, <1>3, <1>14 DEF Pending

\* The lifecycle consumer and the reconciler go on with a handler, begin one,
\* or are outside any.
Leaves(p) ==
    /\ at'[p] \notin CallLabels
    /\ call'[p] = call[p] \/ call'[p].op \in {"none", "publish"}

\* Where the calls of consumer and reconciler come from.
LEMMA CallMoves ==
    ASSUME IInv, [Next]_vars
    PROVE  /\ \/ Still("events") \/ Handles("events") \/ Leaves("events")
              \/ \E e \in stream : Deliver(e)
           /\ \/ Still("reconcile") \/ Handles("reconcile") \/ Leaves("reconcile")
              \/ \E w \in pass.heal : Backfill(w)
<1>1. /\ PassTypeOK /\ StepTypeOK(Labels) /\ "events" \in Procs /\ "reconcile" \in Procs
      /\ NoCall.op = "none"
  BY DEF IInv, TypeOK, Procs, NoCall
<1>2. ASSUME NEW p \in Procs, NEW l \in Outcomes \union Labels, Goto(p, l) PROVE Leaves(p)
  BY <1>1, <1>2, Arrives DEF Leaves, Labels, VarsLabels, PassLabels, SheetLabels, Outcomes,
       CallLabels
<1>3. ASSUME NEW p \in Procs, Enter(p, NoCall, "idle") PROVE Leaves(p)
  BY <1>1, <1>3, Arrives DEF Leaves, CallLabels
<1>4. ASSUME NEW p, CallFails(p) \/ CallUnanswered(p) \/ HandlerBlind(p) PROVE Handles(p)
  BY <1>4 DEF CallFails, CallUnanswered, HandlerBlind, Handles
<1>5. ASSUME EventsSteps
      PROVE  Handles("events") \/ Leaves("events") \/ \E e \in stream : Deliver(e)
  <2>1. CASE Ack \/ Nack("retry") \/ AckLost
    BY <1>1, <1>3, <2>1 DEF Ack, Nack, AckLost
  <2>2. CASE PublishSessionVars \/ ClearSessionVars \/ VarsWriteFails
    BY <1>1, <1>2, <2>2 DEF PublishSessionVars, ClearSessionVars, VarsWriteFails, VarsFail,
                            Labels, VarsLabels
  <2>3. CASE ResolveVars
    <3>1. CASE Goto("events", "done")
      BY <1>1, <1>2, <3>1 DEF Labels, VarsLabels
    <3>2. ASSUME NEW r, Enter("events", Call("publish", r.ws, None, None), "project")
          PROVE  Leaves("events")
      BY <1>1, <3>2, Arrives DEF Leaves, Call, CallLabels
    <3> QED
      BY <2>3, <3>1, <3>2 DEF ResolveVars
  <2> QED
    BY <1>4, <1>5, <2>1, <2>2, <2>3 DEF EventsSteps, EventsStep, Handles
<1>6. ASSUME PassSteps
      PROVE  Handles("reconcile") \/ Leaves("reconcile") \/ \E w \in pass.heal : Backfill(w)
  <2>1. CASE CompletePass \/ AbortPass \/ PassFails
    BY <1>1, <1>3, <2>1 DEF CompletePass, PassDone, AbortPass, PassAborted, PassFails, FailPass,
                            EndPass
  <2>2. ASSUME NEW l \in PassLabels, NEW q, Advance(l, q) PROVE Leaves("reconcile")
    BY <1>1, <1>2, <2>2 DEF Advance, Labels
  <2>3. \A q : AfterSweep(q) \in PassLabels
    BY DEF AfterSweep, PassLabels
  <2>4. CASE StartTick \/ ReadManaged \/ ReadMapped
    BY <2>2, <2>4 DEF StartTick, StartPass, ReadManaged, ReadMapped, PassLabels
  <2>5. ASSUME NEW gone, ReadTree(gone) PROVE Leaves("reconcile")
    BY <2>2, <2>5 DEF ReadTree, PassLabels
  <2>6. ASSUME NEW r, ReadRows(r) \/ SweepRow(r) PROVE Leaves("reconcile")
    BY <2>2, <2>3, <2>6 DEF ReadRows, SweepRow
  <2>7. ASSUME NEW r, SweepUnanswered(r) PROVE Leaves("reconcile")
    BY <1>1, <1>3, <2>7 DEF SweepUnanswered, EndPass
  <2> QED
    BY <1>4, <1>6, <2>1, <2>4, <2>5, <2>6, <2>7, PassParts
       DEF PassSteps, ReadsOnly, Sweeps, PassBlind, HealStep, Handles
<1>7. CASE Crash
  BY <1>1, <1>7 DEF Crash, Leaves, CallLabels
<1>8. CASE Elsewhere \/ HookSteps \/ UNCHANGED vars
  BY <1>1, <1>8, OwnLocals DEF vars, stepVars, Still
<1> QED
  BY <1>1, <1>5, <1>6, <1>7, <1>8, WhoMoves, OwnLocals

\* What a delivered event asks for.
LEMMA DeliveredCall ==
    ASSUME StepTypeOK(Labels), PeersOK, NEW e \in stream, Deliver(e)
    PROVE  /\ Steady(call'["events"], at'["events"])
           /\ e.sid \in Named /\ at'["events"] \in CallLabels => AllKnown(call'["events"])
<1> DEFINE w == ParseSession(e.sid)
           v == IF Derived(e.peer) THEN ParseSession(e.peer) ELSE None
<1>1. /\ at'["events"] = HandlerOf(e)[1] /\ call'["events"] = HandlerOf(e)[2]
      /\ e.peer \in Named \union {None}
  BY Arrives DEF Deliver, Procs, PeersOK, Pending
<1>2. Derived(e.sid) => NamingSession(w) = e.sid
  BY NamesAreABijection DEF Derived
<1>3. v # None => Known(v)
  BY <1>1, NamesAreABijection, NamesAssumption, MainOfType DEF Derived, Known, Sids
<1>4. CASE HandlerOf(e) = <<"reject", NoCall>>
  BY <1>1, <1>4 DEF Steady, NoCall, CallLabels
<1>5. CASE HandlerOf(e) = <<"findRow", Call("create", w, None, None)>> /\ Derived(e.sid)
  BY <1>1, <1>2, <1>5 DEF Steady, AllKnown, Known, Call
<1>6. CASE HandlerOf(e) = <<"findRow", Call("fork", w, v, None)>> /\ Derived(e.sid)
  BY <1>1, <1>2, <1>3, <1>6 DEF Steady, AllKnown, Known, Call
<1>7. CASE HandlerOf(e) = <<"fromRow", Call("rename", w, v, None)>> /\ Derived(e.sid)
           /\ w.repo = v.repo
  BY <1>1, <1>2, <1>3, <1>7 DEF Steady, AllKnown, Known, Call
<1>8. CASE HandlerOf(e) = <<"findRow", Call("delete", w, None, None)>> /\ Derived(e.sid)
  BY <1>1, <1>2, <1>8 DEF Steady, AllKnown, Known, Call
<1>9. \/ HandlerOf(e) = <<"reject", NoCall>>
      \/ HandlerOf(e) = <<"findRow", Call("create", w, None, None)>> /\ Derived(e.sid)
      \/ HandlerOf(e) = <<"findRow", Call("fork", w, v, None)>> /\ Derived(e.sid)
      \/ HandlerOf(e) = <<"fromRow", Call("rename", w, v, None)>> /\ Derived(e.sid)
           /\ w.repo = v.repo
      \/ HandlerOf(e) = <<"findRow", Call("delete", w, None, None)>> /\ Derived(e.sid)
  BY DEF HandlerOf
<1> QED
  BY <1>4, <1>5, <1>6, <1>7, <1>8, <1>9

LEMMA NextKeepsSteady == IInv /\ PeersOK /\ AllSteady /\ [Next]_vars => AllSteady'
<1> SUFFICES ASSUME IInv, PeersOK, AllSteady, [Next]_vars,
                    NEW p \in {"events", "reconcile"}
             PROVE  Steady(call'[p], at'[p])
  BY DEF AllSteady
<1>1. StepTypeOK(Labels) /\ CallOK /\ Steady(call[p], at[p])
  BY DEF IInv, TypeOK, AllSteady
<1>2. CASE Still(p)
  BY <1>1, <1>2 DEF Still
<1>3. CASE Handles(p)
  BY <1>1, <1>3, HandlesKeepsSteady
<1>4. CASE Leaves(p)
  BY <1>1, <1>4 DEF Leaves, Steady, CallLabels
<1>5. ASSUME NEW e \in stream, Deliver(e), p = "events" PROVE Steady(call'[p], at'[p])
  BY <1>1, <1>5, DeliveredCall
<1>6. ASSUME NEW w, Backfill(w), p = "reconcile" PROVE Steady(call'[p], at'[p])
  BY <1>1, <1>6, Arrives DEF Backfill, Procs, Steady, Call
<1> QED
  BY <1>2, <1>3, <1>4, <1>5, <1>6, CallMoves

LEMMA NextKeepsPeers ==
    ASSUME IInv, OnceInv, OneSheet, PeersOK, [Next]_vars PROVE PeersOK'
<1> DEFINE Fine(e) ==
             /\ e.peer \in Named \union {None}
             /\ e.kind = "deleted" /\ e.sid \notin Named =>
                  /\ clear = {} /\ executed # {}
                  /\ \A r \in Repos : e.sid # NamingSession(MainOf(r))
<1>1. JobOK /\ adoption = None
  BY DEF IInv, OneSheet
<1>2. clear = {} /\ executed # {} => clear' = {} /\ executed' # {}
  <2>1. CASE Record
    <3>1. Worksheet(sheet) /\ sheet.id \notin executed
      BY <1>1, <2>1, ServedSheet DEF Record, InHook
    <3> QED
      BY <3>1 DEF OneSheet
  <2> QED
    BY <2>1, HookMoves
<1>3. ASSUME NEW e, NEW f, Pending(f), SameEvent(e, f) PROVE Fine(e)'
  BY <1>2, <1>3 DEF PeersOK, SameEvent
<1>4. ASSUME NEW e, e.sid \in Named, e.peer \in Named \union {None} PROVE Fine(e)'
  BY <1>4
<1>5. ASSUME NEW e, SheetForks(used["acts"]), e.kind = "forked", e.peer = NamingSession(sheet.from)
      PROVE  Fine(e)'
  <2>1. Worksheet(sheet)
    BY <1>1, <1>5, ServedSheet DEF SheetForks, InHook
  <2> QED
    BY <1>5, <2>1 DEF OneSheet, Known
<1>6. ASSUME NEW e, DropSession(used["acts"]), e.kind = "deleted", e.peer = None,
             e.sid = NamingSession(sheet.ws)
      PROVE  Fine(e)'
  <2>1. at["hook"] = "dropSession" /\ UNCHANGED <<executed, clear>>
    BY <1>6 DEF DropSession, InHook, sheetVars
  <2>2. Worksheet(sheet) /\ sheet.action = "delete" /\ sheet.id \in executed
    BY <1>1, <2>1, ServedSheet DEF JobOK, Executes, Serving, OnceInv, Past
  <2>3. clear = {}
    BY <2>2 DEF OneSheet, Worksheet
  <2>4. sheet.ws.bm # Main
    BY <2>2 DEF OneSheet
  <2> QED
    BY <1>6, <2>1, <2>2, <2>3, <2>4 DEF NamingSession, MainOf
<1>7. \A e : Pending(e)' => Fine(e)'
  BY <1>1, <1>3, <1>4, <1>5, <1>6, Arrivals
<1> QED
  BY <1>7 DEF PeersOK

LEMMA NextKeepsRoster ==
    ASSUME IInv, OnceInv, OneSheet, HookOK, PeersOK, AllSteady, Roster, [Next]_vars PROVE Roster'
<1> SUFFICES ASSUME Early' PROVE
      /\ sessions' \subseteq Named
      /\ \A e : Pending(e)' => e.sid \in Named
      /\ pass'.seen \subseteq Named
      /\ \A w \in pass'.heal : Known(w)
      /\ \A p \in {"events", "reconcile"} : at'[p] \in CallLabels => AllKnown(call'[p])
  BY DEF Roster, Known, AllKnown
<1>1. /\ JobOK /\ StepTypeOK(Labels) /\ PassTypeOK /\ CallOK /\ adoption = None
      /\ "hook" \in Procs /\ "reconcile" \in Procs /\ "events" \in Procs
  BY DEF IInv, TypeOK, OneSheet, Procs
<1>2. Early
  BY EarlyShrinks
<1>3. ~ SheetForks(used["acts"]) /\ ~ DropSession(used["acts"])
  <2>1. SheetForks(used["acts"]) \/ DropSession(used["acts"]) =>
          /\ at["hook"] \in {"fork", "dropSession"} /\ UNCHANGED <<executed, clear, sheet>>
          /\ at'["hook"] \in {"done", "lookup"}
    BY <1>1, Arrives DEF SheetForks, DropSession, InHook, sheetVars
  <2> QED
    BY <2>1 DEF Early, OnceInv, Past, PreFork
<1>4. sessions' \subseteq Named /\ \A e : Pending(e)' => e.sid \in Named
  BY <1>1, <1>2, <1>3, Arrivals DEF Roster, SameEvent
<1>5. pass'.seen \subseteq Named /\ \A w \in pass'.heal : Known(w)
  <2> DEFINE Listed == pass'.seen \subseteq Named /\ \A w \in pass'.heal : Known(w)
  <2>1. CASE UNCHANGED pass
    BY <1>2, <2>1 DEF Roster
  <2>2. NoPass.seen = {} /\ NoPass.heal = {} /\ pass \in Passes
    BY <1>1 DEF NoPass, PassTypeOK
  <2>3. CASE StartTick
    <3>1. pass' = [NoPass EXCEPT !.seen = sessions]
      BY <2>3 DEF StartTick, StartPass, Advance, ListSessions
    <3> QED
      BY <1>2, <3>1 DEF Roster, NoPass
  <2>4. CASE \/ CompletePass \/ AbortPass \/ PassFails \/ Crash
             \/ \E r : SweepUnanswered(r)
    BY <2>2, <2>4 DEF CompletePass, PassDone, AbortPass, PassAborted, PassFails, FailPass, EndPass,
                      Crash, SweepUnanswered
  <2>5. ASSUME pass'.seen = pass.seen, pass'.heal \subseteq pass.heal PROVE Listed
    BY <1>2, <2>5 DEF Roster
  <2>6. CASE ReadManaged \/ \E gone : ReadTree(gone)
    BY <2>2, <2>5, <2>6 DEF ReadManaged, ReadTree, Advance, Passes
  <2>7. ASSUME NEW r, ReadRows(r) \/ SweepRow(r) PROVE Listed
    BY <2>2, <2>5, <2>7 DEF ReadRows, SweepRow, Advance, Passes
  <2>8. CASE ReadMapped
    <3>1. pass'.seen = {} /\ \A w \in pass'.heal : NamingSession(w) \in pass.seen
      BY <2>8 DEF ReadMapped, Advance, NoPass
    <3> QED
      BY <1>2, <3>1 DEF Roster, Known
  <2>9. ASSUME NEW w, Backfill(w) PROVE Listed
    BY <2>2, <2>5, <2>9 DEF Backfill, Passes
  <2>10. CASE PassSteps
    BY <2>1, <2>3, <2>4, <2>6, <2>7, <2>8, <2>9, <2>10, PassParts
       DEF PassSteps, ReadsOnly, Sweeps, PassBlind, HealStep, CallFails, CallUnanswered,
       HandlerBlind
  <2> QED
    BY <1>1, <2>1, <2>4, <2>10, WhoMoves, OwnLocals DEF vars
<1>6. ASSUME NEW p \in {"events", "reconcile"}, at'[p] \in CallLabels PROVE AllKnown(call'[p])
  <2>1. CASE Still(p)
    BY <1>2, <1>6, <2>1 DEF Still, Roster
  <2>2. CASE Handles(p)
    <3>1. at[p] \in CallLabels
      BY <1>1, <1>6, <2>2, HandlersCall
    <3> QED
      BY <1>1, <1>2, <2>2, <3>1, HandlesKeepsSteady DEF Roster, AllSteady
  <2>3. ~ Leaves(p)
    BY <1>6 DEF Leaves
  <2>4. ASSUME NEW e \in stream, Deliver(e), p = "events" PROVE AllKnown(call'[p])
    <3>1. e.sid \in Named
      BY <1>2 DEF Roster, Pending
    <3> QED
      BY <1>1, <1>6, <2>4, <3>1, DeliveredCall
  <2>5. ASSUME NEW w \in pass.heal, Backfill(w), p = "reconcile" PROVE AllKnown(call'[p])
    BY <1>1, <1>2, <2>5, Arrives DEF Backfill, AllKnown, Call, Roster
  <2> QED
    BY <1>6, <2>1, <2>2, <2>3, <2>4, <2>5, CallMoves
<1> QED
  BY <1>4, <1>5, <1>6

----------------------------------------------------------------------------
(* The bookmark.                                                           *)

\* The bookmark of w is there with the commits in b, and shares no others with
\* any other bookmark.
Apart(w, b) ==
    /\ w \in marks /\ b \subseteq work[w]
    /\ \A v \in Workspaces \ {w} : work[v] \intersect work[w] \subseteq b

\* The hook that forks what nothing had the name of finds nothing there until
\* it makes the bookmark, which then is apart until the hook is done.
ForkOK ==
    /\ \A s \in clear : OnlyBySheet(s.ws) => s.ws.bm # Main
    /\ sheet \in clear /\ OnlyBySheet(sheet.ws) =>
         /\ at["hook"] \in {"findRow", "repo", "look", "create"} =>
              /\ sheet.ws \notin marks /\ ~ HasRow(sheet.ws)
              /\ call["hook"] = Call("forkAt", sheet.ws, sheet.from, sheet.base)
         /\ at["hook"] \in {"bind", "manage", "ok", "fork", "done"} =>
              Apart(sheet.ws, sheet.base)

\* Nobody but the hook makes the bookmark or the row.
LEMMA NobodyForks ==
    ASSUME IInv, OneSheet, Early, Roster, [Next]_vars,
           NEW w \in Workspaces, OnlyBySheet(w), w.bm # Main
    PROVE  /\ w \notin marks => w \notin marks' \/ MarkMade("hook")
           /\ ~ HasRow(w) => ~ HasRow(w)' \/ RowBound("hook") \/ RowMoved("hook")
<1>1. StepTypeOK(Labels) /\ PassTypeOK /\ adoption = None
  BY DEF IInv, TypeOK, OneSheet
<1>2. ASSUME NEW p \in Procs, p # "hook", at[p] \in CallLabels PROVE call[p].ws # w
  BY <1>2 DEF Procs, Roster, AllKnown, Known, OnlyBySheet
<1>3. CASE UNCHANGED vars
  BY <1>3 DEF vars, jjVars, storeVars, HasRow
<1>4. CASE Next
  <2>1. w \notin marks => w \notin marks' \/ MarkMade("hook")
    <3>1. ASSUME NEW p \in Procs, RepoMade(p) PROVE w \in marks' => w \in marks
      BY <3>1 DEF RepoMade, EnsureRepo, MainOf
    <3>2. ASSUME NEW p \in Procs, p # "hook", MarkMade(p) PROVE w \in marks' => w \in marks
      BY <1>2, <3>2 DEF MarkMade, CreateBookmark, CallLabels
    <3>3. ASSUME NEW p \in Procs, MarkDropped(p) PROVE marks' \subseteq marks
      BY <3>3 DEF MarkDropped, DropBookmark
    <3>4. ASSUME NEW c, ToolCommits(c) PROVE marks' = marks
      BY <3>4 DEF ToolCommits, Commit, jjVars
    <3>5. ASSUME NEW v, JJRemoves(v) PROVE marks' \subseteq marks
      BY <3>5 DEF JJRemoves, DropBookmark
    <3> QED
      BY <1>1, <1>4, <3>1, <3>2, <3>3, <3>4, <3>5, DataMoves DEF jjVars
  <2>2. ~ HasRow(w) => ~ HasRow(w)' \/ RowBound("hook") \/ RowMoved("hook")
    <3>1. CASE rows' \subseteq rows
      BY <3>1 DEF HasRow
    <3>2. ASSUME NEW p \in Procs, p # "hook", RowBound(p) PROVE ~ HasRow(w) => ~ HasRow(w)'
      BY <1>2, <3>2 DEF RowBound, InsertRow, HasRow, CallLabels
    <3>3. ASSUME NEW p \in Procs, p # "hook", RowMoved(p) PROVE ~ HasRow(w) => ~ HasRow(w)'
      BY <1>2, <3>3 DEF RowMoved, RenameRow, RowsAt, HasRow, CallLabels
    <3>4. ~ AdoptRow
      BY <1>1 DEF AdoptRow, Adopting
    <3> QED
      BY <1>1, <1>4, <3>1, <3>2, <3>3, <3>4, DataMoves
  <2> QED
    BY <2>1, <2>2
<1> QED
  BY <1>3, <1>4

\* Once there, the bookmark stays apart.
LEMMA StaysApart ==
    ASSUME OneWorksheet, IInv, OneSheet, PeersOK, AllSteady, [Next]_vars, clear # {},
           NEW w \in Workspaces, OnlyBySheet(w), w.bm # Main, at["hook"] # "create",
           NEW b, Apart(w, b)
    PROVE  Apart(w, b)'
<1>1. JJTypeOK /\ PassTypeOK /\ StepTypeOK(Labels) /\ CallOK /\ VarsTypeOK
  BY DEF IInv, TypeOK
<1>2. CASE UNCHANGED jjVars
  BY <1>2 DEF jjVars, Apart
<1>3. ASSUME NEW p \in Procs, RepoMade(p) PROVE Apart(w, b)'
  BY <1>3 DEF RepoMade, EnsureRepo, Apart
<1>4. ASSUME NEW p \in Procs, MarkMade(p) PROVE Apart(w, b)'
  <2> DEFINE c == call[p]
  <2>1. /\ p \in {"events", "reconcile"} /\ at[p] = "create"
        /\ c \in Calls /\ Steady(c, "create")
    BY <1>1, <1>4 DEF MarkMade, Procs, CallOK, Fits, CallLabels, AllSteady
  <2>2. c.ws \in Workspaces /\ c.ws # w /\ marks' = marks \union {c.ws}
        /\ work' = [work EXCEPT ![c.ws] = Anchor(c.ws.repo, c.src)]
    BY <1>4, <2>1 DEF MarkMade, CreateBookmark, CanCreate, Apart, Calls
  <2>3. \E v \in Workspaces \ {w} : Anchor(c.ws.repo, c.src) = work[v]
    <3>1. CASE c.src \in {Main, Head}
      <4>1. MainOf(c.ws.repo) \in Workspaces \ {w} /\ c.ws.repo \in Repos
        BY <2>2, MainOfType DEF MainOf, Workspaces
      <4>2. Anchor(c.ws.repo, c.src) = work[MainOf(c.ws.repo)]
        BY <3>1, NamesAssumption, WorkspaceAssumption DEF Anchor, MainOf
      <4> QED
        BY <4>1, <4>2
    <3>2. CASE c.peer # None /\ Known(c.peer) /\ c.src = c.peer.bm /\ c.peer.repo = c.ws.repo
      <4>1. c.peer \in Workspaces \ {w}
        BY <2>1, <3>2 DEF Calls, Known, OnlyBySheet
      <4>2. c.peer = [repo |-> c.ws.repo, bm |-> c.src] /\ c.src \in Marks
        BY <3>2, <4>1 DEF Workspaces
      <4>3. Anchor(c.ws.repo, c.src) = work[c.peer]
        BY <4>2, WorkspaceAssumption DEF Anchor
      <4> QED
        BY <4>1, <4>3
    <3> QED
      BY <2>1, <3>1, <3>2 DEF Steady
  <2> QED
    BY <1>1, <2>2, <2>3 DEF Apart, JJTypeOK
<1>5. ASSUME NEW p \in Procs, MarkDropped(p) PROVE Apart(w, b)'
  <2> DEFINE d == Doomed(call[p])
  <2>1. Known(d) \/ clear = {}
    BY <1>5, Doom
  <2>2. marks' = marks \ {d} /\ work' = [work EXCEPT ![d] = {}] /\ d # w
    BY <1>5, <2>1 DEF MarkDropped, DropBookmark, Known, OnlyBySheet
  <2> QED
    BY <1>1, <2>2 DEF Apart, JJTypeOK
<1>6. ASSUME NEW c, ToolCommits(c), ~ UNCHANGED jjVars PROVE Apart(w, b)'
  <2>1. /\ tool \in Workspaces /\ marks' = marks
        /\ work' = [work EXCEPT ![tool] = @ \union {c}]
        /\ \A v \in Workspaces : c \notin work[v]
    BY <1>1, <1>6, NamesAssumption DEF ToolCommits, EndTool, Commit, VarsTypeOK
  <2> QED
    BY <1>1, <2>1 DEF Apart, JJTypeOK
<1>7. ~ \E v \in Removable : JJRemoves(v)
  BY DEF OneWorksheet
<1> QED
  BY <1>1, <1>2, <1>3, <1>4, <1>5, <1>6, <1>7, DataMoves DEF vars

\* The calls of ensureForkedAt, one by one.
LEMMA ForkSteps ==
    ASSUME IInv, HookOK, sheet.action = "fork", Handles("hook")
    PROVE  /\ call' = call /\ ~ RowMoved("hook")
           /\ MarkMade("hook") => at["hook"] = "create"
           /\ RowBound("hook") => at["hook"] = "bind"
           /\ \/ at'["hook"] \in {"retry", "reject"}
              \/ at["hook"] = "findRow" /\ at'["hook"] = "repo"
              \/ /\ at["hook"] = "findRow" /\ at'["hook"] = "ok"
                 /\ HasRowOf(NamingSession(call["hook"].ws))
              \/ at["hook"] = "repo" /\ at'["hook"] = "look"
              \/ at["hook"] = "look" /\ at'["hook"] = "create"
              \/ at["hook"] = "look" /\ at'["hook"] = "bind" /\ call["hook"].ws \in marks
              \/ MakeMark("hook") /\ at'["hook"] = "bind"
              \/ at["hook"] = "bind" /\ at'["hook"] \in {"manage", "ok"}
              \/ at["hook"] = "manage" /\ at'["hook"] = "ok"
<1> DEFINE c == call["hook"]
<1>1. "hook" \in Procs /\ StepTypeOK(Labels)
  BY DEF IInv, TypeOK, Procs
<1>2. at["hook"] \in CallLabels
  BY <1>1, HandlersCall
<1>3. /\ c.op = "forkAt"
      /\ at["hook"] \in {"findRow", "repo", "look", "create", "bind", "manage"}
  BY <1>2, ForkHook
<1>4. \A l : Goto("hook", l) => at'["hook"] = l /\ call' = call
  BY <1>1, Arrives
<1>5. MarkMade("hook") => at["hook"] = "create"
  BY DEF MarkMade
<1>6. RowBound("hook") => at["hook"] = "bind"
  BY DEF RowBound
<1>7. ~ RowMoved("hook") /\ ~ MoveRow("hook") /\ ~ RowNotMoved("hook")
      /\ ~ DropMark("hook") /\ ~ DropRefused("hook")
      /\ ~ Unbind("hook") /\ ~ ForkNotMirrored("hook") /\ ~ FindParent("hook")
      /\ ~ FindFrom("hook") /\ ~ FindDeleted("hook") /\ ~ ChooseAnchor("hook")
      /\ \A listed : ~ LookForDoomed("hook", listed)
  BY <1>3 DEF RowMoved, MoveRow, RowNotMoved, DropMark, DropRefused, Unbind, ForkNotMirrored,
       FindParent,
              FindFrom, FindDeleted, ChooseAnchor, LookForDoomed
<1>8. CASE AlreadyMirrored("hook") \/ NotMirrored("hook")
  BY <1>3, <1>4, <1>5, <1>6, <1>7, <1>8 DEF AlreadyMirrored, NotMirrored, Return
<1>9. CASE MakeRepo("hook")
  BY <1>3, <1>4, <1>5, <1>6, <1>7, <1>9 DEF MakeRepo, AfterRepo
<1>10. ASSUME NEW listed, LookForMark("hook", listed)
       PROVE  /\ at["hook"] = "look" /\ call' = call
              /\ \/ at'["hook"] \in {"reject", "create"}
                 \/ at'["hook"] = "bind" /\ c.ws \in marks
  BY <1>3, <1>4, <1>10 DEF LookForMark, AfterMark
<1>11. CASE MakeMark("hook") \/ MarkRefused("hook") \/ FailCall("hook") \/ Unanswered("hook")
  BY <1>3, <1>4, <1>5, <1>6, <1>7, <1>11
     DEF MakeMark, AfterMark, MarkRefused, FailCall, Unanswered
<1>12. CASE BindRow("hook") \/ AlreadyBound("hook") \/ ManageRepo("hook")
  BY <1>3, <1>4, <1>5, <1>6, <1>7, <1>12 DEF BindRow, AlreadyBound, ManageRepo, Return
<1> QED
  BY <1>5, <1>6, <1>7, <1>8, <1>9, <1>10, <1>11, <1>12 DEF Handles, Progress

LEMMA HooksKeepForks ==
    ASSUME OneWorksheet, IInv, OneSheet, HookOK, PeersOK, AllSteady, Roster, ForkOK, [Next]_vars,
           HookWorks, sheet \in clear, OnlyBySheet(sheet.ws)
    PROVE  ForkOK'
<1>0. PICK w, base, from : w = sheet.ws /\ base = sheet.base /\ from = sheet.from
  OBVIOUS
<1> DEFINE c == call["hook"]
           Empty == w \notin marks /\ ~ HasRow(w) /\ c = Call("forkAt", w, from, base)
<1>1. /\ JJTypeOK /\ JobOK /\ StepTypeOK(Labels) /\ "hook" \in Procs /\ sheet \in Sheets
      /\ ResolvesOwnBookmark /\ StoreTypeOK
  BY DEF IInv, TypeOK, SheetTypeOK, Procs
<1>2. /\ sheet.action = "fork" /\ w.bm # Main /\ w \in Workspaces /\ base \in Shas
      /\ clear # {}
  BY <1>0, <1>1 DEF OneSheet, ForkOK, Sheets
<1>3. UNCHANGED <<sheet, clear>>
  BY DEF HookWorks
<1>4. at["hook"] # "create" /\ Apart(w, base) => Apart(w, base)'
  BY <1>0, <1>2, StaysApart
<1>5. ASSUME /\ at'["hook"] \in {"findRow", "repo", "look", "create"} =>
                  /\ w \notin marks' /\ ~ HasRow(w)'
                  /\ call'["hook"] = Call("forkAt", w, from, base)
             /\ at'["hook"] \in {"bind", "manage", "ok", "fork", "done"} => Apart(w, base)'
      PROVE  ForkOK'
  BY <1>0, <1>3, <1>5 DEF ForkOK, OnlyBySheet
<1>6. CASE Handles("hook")
  <2>1. /\ call' = call /\ ~ RowMoved("hook")
        /\ MarkMade("hook") => at["hook"] = "create"
        /\ RowBound("hook") => at["hook"] = "bind"
    BY <1>2, <1>6, ForkSteps
  <2>2. CASE at'["hook"] \in {"retry", "reject"}
    BY <1>5, <2>2
  <2>3. CASE \/ at["hook"] = "findRow" /\ at'["hook"] = "repo"
             \/ at["hook"] = "repo" /\ at'["hook"] = "look"
             \/ at["hook"] = "look" /\ at'["hook"] = "create"
    <3>1. Empty /\ Early
      BY <1>0, <2>3 DEF ForkOK, Early, PreFork
    <3>2. w \notin marks' /\ ~ HasRow(w)'
      BY <1>0, <1>2, <2>1, <2>3, <3>1, NobodyForks
    <3> QED
      BY <1>5, <2>1, <2>3, <3>1, <3>2
  <2>4. CASE MakeMark("hook") /\ at'["hook"] = "bind"
    <3>1. Empty
      BY <1>0, <2>4 DEF ForkOK, MakeMark
    <3>2. c.ws = w /\ c.src = base
      BY <3>1 DEF Call
    <3>3. marks' = marks \union {w} /\ work' = [work EXCEPT ![w] = Anchor(w.repo, base)]
      BY <2>4, <3>2 DEF MakeMark, CreateBookmark
    <3>4. Anchor(w.repo, base) = base
      BY <1>2, ShasAssumption DEF Anchor
    <3>5. Apart(w, base)'
      BY <1>1, <1>2, <1>3, <3>3, <3>4 DEF Apart, JJTypeOK
    <3> QED
      BY <1>5, <2>4, <3>5
  <2>5. CASE \/ at["hook"] = "bind" /\ at'["hook"] \in {"manage", "ok"}
             \/ at["hook"] = "manage" /\ at'["hook"] = "ok"
    BY <1>0, <1>4, <1>5, <2>5 DEF ForkOK
  <2>6. ~ (at["hook"] = "findRow" /\ HasRowOf(NamingSession(c.ws)))
    <3>1. at["hook"] = "findRow" => Empty /\ c.ws = w
      BY <1>0 DEF ForkOK, Call
    <3>2. HasRowOf(NamingSession(w)) => HasRow(w)
      BY <1>1, <1>2, NamesAreABijection
         DEF HasRowOf, HasRow, ResolvesOwnBookmark, StoreTypeOK, Rows
    <3> QED
      BY <3>1, <3>2
  <2>7. ~ (at["hook"] = "look" /\ c.ws \in marks)
    BY <1>0 DEF ForkOK, Call
  <2> QED
    BY <1>2, <1>6, <2>2, <2>3, <2>4, <2>5, <2>6, <2>7, ForkSteps
<1>7. CASE Forking \/ SheetForks(used["acts"])
  <2>1. at["hook"] \in {"ok", "fork"} /\ at'["hook"] \in {"fork", "done"}
    BY <1>1, <1>7, Arrives DEF Forking, SheetForks, InHook
  <2> QED
    BY <1>0, <1>4, <1>5, <2>1 DEF ForkOK
<1>8. CASE NothingToFork
  <2>1. at'["hook"] = "retry"
    BY <1>1, <1>8, Arrives DEF NothingToFork
  <2> QED
    BY <1>5, <2>1
<1>9. ~ DropSession(used["acts"]) /\ ~ FindDoomed
  BY <1>1, <1>2 DEF DropSession, FindDoomed, InHook, JobOK, Executes, Serving
<1> QED
  BY <1>6, <1>7, <1>8, <1>9 DEF HookWorks

LEMMA NextKeepsForks ==
    ASSUME OneWorksheet, IInv, OneSheet, HookOK, PeersOK, AllSteady, Roster, RepositoriesOK,
           ForkOK, [Next]_vars
    PROVE  ForkOK'
<1>1. /\ StepTypeOK(Labels) /\ JobOK /\ "hook" \in Procs /\ clear \subseteq Sheets
  BY DEF IInv, TypeOK, SheetTypeOK, Procs
<1>2. CASE Record
  <2>1. sheet \in Sheets /\ Worksheet(sheet) /\ sheet.id \notin executed
    BY <1>1, <1>2, ServedSheet DEF Record, InHook
  <2>2. executed = {} /\ clear = {}
    BY <2>1 DEF OneSheet
  <2>3. /\ UNCHANGED <<sheet, marks, rows>>
        /\ clear' = IF sheet.action = "fork" /\ Unused(sheet.ws) THEN {sheet} ELSE {}
        /\ Begin(sheet)
    BY <1>2, <2>2 DEF Record, jjVars, storeVars
  <2>4. ASSUME Unused(sheet.ws), OnlyBySheet(sheet.ws) PROVE sheet.ws.bm # Main
    <3>1. sheet.ws.repo \in repos /\ sheet.ws \in Workspaces
      BY <2>1 DEF OneSheet, Sheets
    <3>2. Known(MainOf(sheet.ws.repo)) \/ MainOf(sheet.ws.repo) \in marks
      BY <3>1 DEF RepositoriesOK
    <3>3. sheet.ws.bm = Main => sheet.ws = MainOf(sheet.ws.repo)
      BY <3>1 DEF Workspaces, MainOf
    <3> QED
      BY <2>4, <3>2, <3>3 DEF Unused, OnlyBySheet, Known
  <2>5. sheet.action = "fork" => /\ at'["hook"] = "findRow"
                                 /\ call'["hook"] = Call("forkAt", sheet.ws, sheet.from, sheet.base)
    BY <1>1, <2>3, Arrives DEF Begin, BaseOf
  <2> QED
    BY <2>3, <2>4, <2>5 DEF ForkOK, OnlyBySheet, Unused, HasRow
<1>3. CASE UNCHANGED <<executed, clear>> /\ HookRests
  BY <1>3 DEF ForkOK, HookRests, OnlyBySheet
<1>4. CASE HookWorks
  <2>1. CASE sheet \in clear /\ OnlyBySheet(sheet.ws)
    BY <1>4, <2>1, HooksKeepForks
  <2>2. CASE ~ (sheet \in clear /\ OnlyBySheet(sheet.ws))
    BY <1>4, <2>2 DEF HookWorks, ForkOK, OnlyBySheet
  <2> QED
    BY <2>1, <2>2
<1>5. CASE UNCHANGED Hook
  <2>1. UNCHANGED <<clear, sheet, at["hook"], call["hook"]>>
    BY <1>5 DEF Hook
  <2>2. CASE ~ (sheet \in clear /\ OnlyBySheet(sheet.ws))
    BY <2>1, <2>2 DEF ForkOK, OnlyBySheet
  <2>3. CASE sheet \in clear /\ OnlyBySheet(sheet.ws)
    <3>0. PICK w, base : w = sheet.ws /\ base = sheet.base
      OBVIOUS
    <3>1. w \in Workspaces /\ w.bm # Main /\ clear # {} /\ OnlyBySheet(w)
      BY <1>1, <2>3, <3>0 DEF ForkOK, Sheets
    <3>2. ~ MarkMade("hook") /\ ~ RowBound("hook") /\ ~ RowMoved("hook")
      BY <2>1 DEF MarkMade, RowBound, RowMoved
    <3>3. at["hook"] \in {"findRow", "repo", "look", "create"} => w \notin marks' /\ ~ HasRow(w)'
      <4>1. at["hook"] \in {"findRow", "repo", "look", "create"}
              => Early /\ w \notin marks /\ ~ HasRow(w)
        BY <2>3, <3>0 DEF ForkOK, Early, PreFork
      <4> QED
        BY <3>1, <3>2, <4>1, NobodyForks
    <3>4. at["hook"] \in {"bind", "manage", "ok", "fork", "done"} => Apart(w, base)'
      <4>1. at["hook"] \in {"bind", "manage", "ok", "fork", "done"}
              => Apart(w, base) /\ at["hook"] # "create"
        BY <2>3, <3>0 DEF ForkOK
      <4> QED
        BY <3>1, <4>1, StaysApart
    <3> QED
      BY <2>1, <2>3, <3>0, <3>3, <3>4 DEF ForkOK, OnlyBySheet
  <2> QED
    BY <2>2, <2>3
<1> QED
  BY <1>2, <1>3, <1>4, <1>5, HookMoves

----------------------------------------------------------------------------
\* The inductive invariant.
ForkInv == OneSheet /\ HookOK /\ Roster /\ PeersOK /\ AllSteady /\ RepositoriesOK /\ ForkOK

LEMMA InitForkInv == Init => ForkInv
<1> SUFFICES ASSUME Init PROVE ForkInv
  OBVIOUS
<1>1. OneSheet /\ HookOK
  BY DEF Init, OneSheet, Worksheet, HookOK, Procs, BudgetKinds
<1>2. Roster /\ PeersOK
  BY DEF Init, Roster, PeersOK, Pending, NoPass, CallLabels, Procs
<1>3. AllSteady
  BY DEF Init, AllSteady, Steady, NoCall, Procs
<1>4. RepositoriesOK
  BY DEF Init, RepositoriesOK, MainOf
<1>5. ForkOK
  BY DEF Init, ForkOK
<1> QED
  BY <1>1, <1>2, <1>3, <1>4, <1>5 DEF ForkInv

LEMMA ForkInvariance == ASSUME OneWorksheet PROVE Spec => [](IInv /\ ForkInv)
<1>1. IInv /\ OnceInv /\ ForkInv /\ [Next]_vars => ForkInv'
  BY NextKeepsOneSheet, NextKeepsHook, NextKeepsRoster, NextKeepsPeers, NextKeepsSteady,
     NextKeepsRepositories, NextKeepsForks DEF ForkInv
<1> QED
  BY <1>1, InitForkInv, Invariance, OnceInvariance, PTL DEF Spec

\* "Approval latency cannot shift the fork" (tools.go:847), whatever the agent,
\* the reconciler, the tools, lost events and answers, failing calls and crashes do, with
\* one worksheet in a run, no user of jj who removes bookmarks and no adoption:
\* the bookmark of an approved fork has what its parent had at the request and
\* nothing the parent got later.
THEOREM ForksAtBase == ASSUME OneWorksheet PROVE Spec => ForkAtBase
<1> DEFINE AtBase == \A s \in (carried' \ carried) \intersect clear :
                       OnlyBySheet(s.ws)
                         => /\ s.ws \in marks
                            /\ s.base \subseteq work[s.ws]
                            /\ work[s.ws] \intersect work[s.from] \subseteq s.base
<1>1. ASSUME IInv, ForkInv, [Next]_vars PROVE AtBase
  <2> SUFFICES ASSUME NEW s \in (carried' \ carried) \intersect clear, OnlyBySheet(s.ws)
               PROVE  /\ s.ws \in marks
                      /\ s.base \subseteq work[s.ws]
                      /\ work[s.ws] \intersect work[s.from] \subseteq s.base
    OBVIOUS
  <2>1. PassTypeOK /\ StepTypeOK(Labels) /\ s \in Sheets
    BY <1>1 DEF IInv, TypeOK, SheetTypeOK
  <2>2. CarriedOut({sheet}) \/ CarriedOut({})
    <3>1. ~ UNCHANGED carried
      OBVIOUS
    <3>2. HookSteps
      BY <1>1, <2>1, <3>1, OwnLocals, WhoMoves DEF vars, sheetVars, Crash
    <3> QED
      BY <3>1, <3>2 DEF HookSteps, SheetStep, SheetProposed, ForkProposed, DeleteProposed,
                        ProposeFork, ProposeDelete, Propose, SheetDecided, Dispatch, Reject,
                        SheetActs, SheetForks, DropSession, SheetRuns, Record, AlreadyExecuted,
                        AnsweredMeanwhile, Forking, NothingToFork, FindDoomed, HookProgress,
                        HookRefuses, SheetFails, HookFails, AnswerLost, CallFails,
                        CallUnanswered, HandlerBlind, sheetVars
  <2>3. s = sheet /\ s.action = "fork" /\ at["hook"] = "done"
    BY <1>1, <2>2 DEF CarriedOut, ForkInv, OneSheet, InHook, Serving
  <2>4. Apart(s.ws, s.base)
    BY <1>1, <2>3 DEF ForkInv, ForkOK
  <2>5. s.from \in Workspaces \ {s.ws}
    BY <1>1, <2>1, <2>3 DEF ForkInv, OneSheet, Worksheet, Sheets
  <2> QED
    BY <2>4, <2>5 DEF Apart
<1>2. [](IInv /\ ForkInv) /\ [][Next]_vars => [][AtBase]_vars
  BY <1>1, PTL
<1> QED
  BY <1>2, ForkInvariance, PTL DEF Spec, ForkAtBase
================================================================================
