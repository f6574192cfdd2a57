--------------------------- MODULE WorksheetsProofs ---------------------------
(***************************************************************************)
(* Machine-checked proof that a worksheet acts once, for every set of      *)
(* repositories, bookmarks, stray names and commits, and every bound.      *)
(*                                                                         *)
(* The invariant says what the record is good for: what has been carried   *)
(* out is on record, and so is the worksheet the hook is busy with, which  *)
(* has not been carried out before.                                        *)
(***************************************************************************)
EXTENDS WorkspaceProofs

\* The hook is past ExecutedWorksheet.
Past(l) == l \notin {"idle", "record"}

OnceInv ==
    /\ \A s \in carried : s.id \in executed
    /\ Past(at["hook"]) => sheet.id \in executed /\ sheet \notin carried
----------------------------------------------------------------------------
\* The tables of worksheets are left alone, and so is the label of the hook.
Aside == UNCHANGED <<executed, sheet, carried>> /\ at'["hook"] = at["hook"]

\* The hook makes the next call of a worksheet, or that call fails.
GoesOn == UNCHANGED <<executed, sheet, carried>> /\ Past(at["hook"])

\* The hook is done with its worksheet, or the process dies, without anything
\* having been carried out now.
LeavesOff == UNCHANGED <<executed, carried, repos, marks, work, rows, sessions>>
             /\ at'["hook"] = "idle"

\* The hook is called.
Begins == UNCHANGED <<executed, carried, repos, marks, work, rows, sessions>>
          /\ at["hook"] = "idle" /\ at'["hook"] = "record"

\* The worksheet is carried out.
Finishes == UNCHANGED executed /\ carried' = carried \union {sheet}
            /\ Past(at["hook"]) /\ at'["hook"] = "idle"

\* A step of goroutine p reaches the label of no other.
LEMMA OtherLabels ==
    ASSUME StepTypeOK(Labels), NEW p \in Procs \ {"hook"}, NEW l, NEW c,
           Goto(p, l) \/ Enter(p, c, l)
    PROVE  at'["hook"] = at["hook"]
BY DEF StepTypeOK, Goto, Enter, Procs

LEMMA CallsAreMade ==
    /\ \A p \in Procs : Progress(p) => at[p] \in CallLabels
    /\ \A p \in Procs, listed \in BOOLEAN :
           LookForMark(p, listed) \/ LookForDoomed(p, listed) => at[p] \in CallLabels
BY DEF CallLabels, Progress, AlreadyMirrored, NotMirrored, ForkNotMirrored, FindParent,
       FindFrom, FindDeleted, MakeRepo, ChooseAnchor, LookForMark, MakeMark, MarkRefused,
       BindRow, AlreadyBound, ManageRepo, MoveRow, RowNotMoved, LookForDoomed, DropMark,
       DropRefused, Unbind

LEMMA ProgressAside ==
    ASSUME StepTypeOK(Labels), NEW p \in Procs \ {"hook"}, Progress(p)
    PROVE  at'["hook"] = at["hook"]
<1>1. CASE \/ AlreadyMirrored(p) \/ NotMirrored(p) \/ ForkNotMirrored(p)
           \/ FindParent(p) \/ FindFrom(p) \/ FindDeleted(p)
  <2>1. CASE AlreadyMirrored(p)
    BY <2>1, OtherLabels DEF AlreadyMirrored, Return
  <2>2. CASE NotMirrored(p) \/ FindDeleted(p)
    BY <2>2, OtherLabels DEF NotMirrored, FindDeleted
  <2>3. CASE ForkNotMirrored(p)
    BY <2>3, OtherLabels DEF ForkNotMirrored
  <2>4. CASE FindParent(p) \/ FindFrom(p)
    BY <2>4, OtherLabels DEF FindParent, FindFrom
  <2> QED
    BY <1>1, <2>1, <2>2, <2>3, <2>4
<1>2. CASE \/ MakeRepo(p) \/ ChooseAnchor(p) \/ LookForMark(p, TRUE)
           \/ MakeMark(p) \/ MarkRefused(p)
  BY <1>2, OtherLabels DEF MakeRepo, ChooseAnchor, LookForMark, MakeMark, MarkRefused
<1>3. CASE BindRow(p) \/ AlreadyBound(p) \/ ManageRepo(p)
  BY <1>3, OtherLabels DEF BindRow, AlreadyBound, ManageRepo, Return
<1>4. CASE \/ MoveRow(p) \/ RowNotMoved(p) \/ LookForDoomed(p, TRUE)
           \/ DropMark(p) \/ DropRefused(p) \/ Unbind(p)
  BY <1>4, OtherLabels
     DEF MoveRow, RowNotMoved, LookForDoomed, DropMark, DropRefused, Unbind
<1> QED
  BY <1>1, <1>2, <1>3, <1>4 DEF Progress

LEMMA EventsAside == StepTypeOK(Labels) /\ EventsStep => Aside
<1> SUFFICES ASSUME StepTypeOK(Labels), EventsStep PROVE Aside
  OBVIOUS
<1>1. "events" \in Procs \ {"hook"}
  BY DEF Procs
<1>2. UNCHANGED <<executed, sheet, carried>>
  BY DEF EventsStep, sheetVars
<1>3. ASSUME NEW e \in stream, Deliver(e) PROVE Aside
  BY <1>2, <1>3 DEF Aside, Deliver, Goto, Enter, StepTypeOK, Procs
<1>4. CASE Ack \/ Nack("retry")
  BY <1>2, <1>4 DEF Aside, Ack, Nack, Goto, Enter, StepTypeOK, Procs
<1>5. CASE ResolveVars
  BY <1>2, <1>5 DEF Aside, ResolveVars, Goto, Enter, StepTypeOK, Procs
<1>6. CASE PublishSessionVars \/ ClearSessionVars
  BY <1>2, <1>6
     DEF Aside, PublishSessionVars, ClearSessionVars, Goto, Enter, StepTypeOK, Procs
<1>7. CASE Progress("events")
  BY <1>1, <1>2, <1>7, ProgressAside DEF Aside
<1> QED
  BY <1>3, <1>4, <1>5, <1>6, <1>7 DEF EventsStep

LEMMA ReconcileAside == StepTypeOK(Labels) /\ ReconcileStep => Aside
<1> SUFFICES ASSUME StepTypeOK(Labels), ReconcileStep PROVE Aside
  OBVIOUS
<1>1. "reconcile" \in Procs \ {"hook"}
  BY DEF Procs
<1>2. UNCHANGED <<executed, sheet, carried>>
  BY DEF ReconcileStep, StartTick, PassStep, CompletePass, AbortPass, sheetVars
<1>3. CASE StartTick \/ CompletePass \/ AbortPass
  BY <1>2, <1>3
     DEF Aside, StartTick, StartPass, CompletePass, PassDone, AbortPass, PassAborted,
         Advance, EndPass, Goto, Enter, StepTypeOK, Procs
<1>4. CASE PassStep
  <2>1. CASE ReadManaged \/ ReadTree({}) \/ ReadMapped
    BY <1>2, <2>1
       DEF Aside, ReadManaged, ReadTree, ReadMapped, Advance, Goto, Enter, StepTypeOK, Procs
  <2>2. ASSUME NEW r \in Repos, ReadRows(r) PROVE Aside
    BY <1>2, <2>2 DEF Aside, ReadRows, Advance, Goto, Enter, StepTypeOK, Procs
  <2>3. ASSUME NEW r \in pass.drop, SweepRow(r) PROVE Aside
    BY <1>2, <2>3 DEF Aside, SweepRow, Advance, Goto, Enter, StepTypeOK, Procs
  <2>4. ASSUME NEW w \in pass.heal, Backfill(w) PROVE Aside
    BY <1>2, <2>4 DEF Aside, Backfill, Goto, Enter, StepTypeOK, Procs
  <2>5. CASE Progress("reconcile")
    BY <1>1, <1>2, <2>5, ProgressAside DEF Aside
  <2> QED
    BY <1>4, <2>1, <2>2, <2>3, <2>4, <2>5 DEF PassStep
<1> QED
  BY <1>3, <1>4 DEF ReconcileStep

LEMMA AdoptAside == AdoptStep => Aside
BY DEF AdoptStep, AdoptStarts, AdoptCreates, AdoptEnds, stepVars, sheetVars, Aside

LEMMA EnvironmentSteps ==
    StepTypeOK(Labels) /\ Environment => Aside \/ GoesOn \/ LeavesOff \/ AnswerLost
<1> SUFFICES ASSUME StepTypeOK(Labels), Environment
             PROVE  Aside \/ GoesOn \/ LeavesOff \/ AnswerLost
  OBVIOUS
<1>1. CASE AgentActs \/ \E e \in stream : LoseEvent(e)
  BY <1>1 DEF AgentActs, AgentCreates, AgentForks, AgentRenames, AgentDeletes, LoseEvent,
              others, stepVars, sheetVars, Aside
<1>2. CASE \/ \E w \in Removable : JJRemoves(w)
           \/ \E s \in Sids : ToolStarts(s)
           \/ \E c \in Commits : ToolCommits(c)
           \/ \E r \in rows : ToolLooksUp(r)
           \/ CacheChanges
           \/ AdoptFails
  BY <1>2 DEF JJRemoves, ToolStarts, ToolCommits, ToolLooksUp, CacheChanges, AdoptFails,
              stepVars, sheetVars, Aside
<1>3. CASE Crash
  BY <1>3 DEF Crash, Redeliver, agentVars, jjVars, storeVars, Procs, LeavesOff
<1>4. ASSUME NEW p \in Procs, CallFails(p) \/ CallUnanswered(p) \/ HandlerBlind(p)
      PROVE  Aside \/ GoesOn
  <2>1. UNCHANGED <<executed, sheet, carried>> /\ at[p] \in CallLabels
    BY <1>4, CallsAreMade
       DEF CallFails, FailCall, CallUnanswered, Unanswered, WritesMark, WritesRow, CallLabels,
           HandlerBlind, sheetVars
  <2>2. CASE p = "hook"
    BY <2>1, <2>2 DEF CallLabels, Past, GoesOn
  <2>3. CASE p # "hook"
    BY <1>4, <2>1, <2>3, OtherLabels
       DEF CallFails, FailCall, CallUnanswered, Unanswered, HandlerBlind, LookForMark,
           LookForDoomed, Aside
  <2> QED
    BY <2>2, <2>3
<1>5. CASE AckLost \/ VarsWriteFails
  BY <1>5, OtherLabels
     DEF AckLost, Nack, VarsWriteFails, VarsFail, sheetVars, Procs, Aside
<1>6. CASE PassFails \/ PassUnanswered \/ \E r \in Repos : PassBlind(r)
  BY <1>6, OtherLabels
     DEF PassFails, FailPass, EndPass, PassUnanswered, SweepUnanswered, PassBlind, ReadTree,
         Advance, sheetVars, Procs, Aside
<1>7. CASE SheetFails
  BY <1>7 DEF SheetFails, HookFails, EndHook, Enter, StepTypeOK, Procs, LeavesOff, jjVars,
              storeVars, agentVars
<1> QED
  BY <1>1, <1>2, <1>3, <1>4, <1>5, <1>6, <1>7 DEF Environment

LEMMA SheetSteps ==
    StepTypeOK(Labels) /\ SheetStep
        => Aside \/ GoesOn \/ LeavesOff \/ Begins \/ Record \/ Finishes
<1> SUFFICES ASSUME StepTypeOK(Labels), SheetStep
             PROVE  Aside \/ GoesOn \/ LeavesOff \/ Begins \/ Record \/ Finishes
  OBVIOUS
<1>1. CASE SheetProposed
  BY <1>1 DEF SheetProposed, ForkProposed, DeleteProposed, ProposeFork, ProposeDelete,
              Propose, stepVars, Aside
<1>2. ASSUME NEW s \in sheets, SheetDecided(s) PROVE Aside \/ Begins
  <2>1. CASE Dispatch(s)
    BY <2>1 DEF Dispatch, InHook, Goto, StepTypeOK, Procs, Begins, jjVars, storeVars,
                agentVars
  <2>2. CASE Reject(s) /\ UNCHANGED stepVars
    BY <2>2 DEF Reject, stepVars, Aside
  <2> QED
    BY <1>2, <2>1, <2>2 DEF SheetDecided, stepVars
<1>3. CASE SheetActs
  BY <1>3 DEF SheetActs, SheetForks, DropSession, InHook, sheetVars, Past, GoesOn
<1>4. CASE SheetRuns
  <2>1. CASE AlreadyExecuted \/ HookRefuses
    BY <2>1 DEF AlreadyExecuted, HookRefuses, EndHook, Enter, StepTypeOK, Procs, LeavesOff,
                jjVars, storeVars, agentVars
  <2>2. CASE AnsweredMeanwhile \/ Forking \/ NothingToFork \/ FindDoomed
    BY <2>2 DEF AnsweredMeanwhile, Forking, NothingToFork, FindDoomed, InHook, sheetVars,
                Past, GoesOn
  <2>3. CASE HookProgress
    <3>1. at["hook"] \in CallLabels
      BY <2>3, CallsAreMade DEF HookProgress, Procs
    <3> QED
      BY <2>3, <3>1 DEF HookProgress, CallLabels, sheetVars, Past, GoesOn
  <2>4. CASE CarriedOut({sheet})
    BY <2>4 DEF CarriedOut, InHook, EndHook, Enter, StepTypeOK, Procs, Past, Finishes
  <2> QED
    BY <1>4, <2>1, <2>2, <2>3, <2>4 DEF SheetRuns
<1> QED
  BY <1>1, <1>2, <1>3, <1>4 DEF SheetStep

LEMMA StepKinds ==
    IInv /\ Next => Aside \/ GoesOn \/ LeavesOff \/ Begins \/ Record \/ Finishes
<1> SUFFICES ASSUME IInv, Next
             PROVE  Aside \/ GoesOn \/ LeavesOff \/ Begins \/ Record \/ Finishes
  OBVIOUS
<1>1. StepTypeOK(Labels)
  BY DEF IInv, TypeOK
<1>2. CASE AnswerLost
  BY <1>1, <1>2 DEF AnswerLost, CarriedOut, InHook, EndHook, Enter, StepTypeOK, Procs, Past,
                    Finishes
<1> QED
  BY <1>1, <1>2, EnvironmentSteps, EventsAside, ReconcileAside, AdoptAside, SheetSteps
     DEF Next

----------------------------------------------------------------------------
LEMMA NextKeepsOnce == IInv /\ OnceInv /\ [Next]_vars => OnceInv'
<1> SUFFICES ASSUME IInv, OnceInv, [Next]_vars PROVE OnceInv'
  OBVIOUS
<1>1. CASE Aside \/ GoesOn \/ LeavesOff \/ Begins
  BY <1>1 DEF Aside, GoesOn, LeavesOff, Begins, Past, OnceInv
<1>2. CASE Record
  <2>1. /\ sheet.id \notin executed /\ executed' = executed \union {sheet.id}
        /\ UNCHANGED <<sheet, carried>>
    BY <1>2 DEF Record
  <2> QED
    BY <2>1 DEF OnceInv
<1>3. CASE Finishes
  BY <1>3 DEF Finishes, Past, OnceInv
<1>4. CASE UNCHANGED vars
  BY <1>4 DEF vars, stepVars, sheetVars, OnceInv, Past
<1> QED
  BY <1>1, <1>2, <1>3, <1>4, StepKinds

LEMMA OnceInvariance == Spec => []OnceInv
<1>1. Init => OnceInv
  BY DEF Init, OnceInv, Past, Procs
<1> QED
  BY <1>1, NextKeepsOnce, Invariance, PTL DEF Spec

\* "Execution dedupes by worksheet_id" (worksheets.go:72): once a worksheet has
\* been carried out, no delivery of its decision changes bookmarks, rows or
\* sessions any more, whatever crashed, failed or was answered twice.
THEOREM CarriedOutOnce == Spec => ActsOnce
<1> DEFINE Still == at'["hook"] # at["hook"] /\ sheet \in carried
                      => UNCHANGED <<repos, marks, work, rows, sessions>>
<1>1. ASSUME IInv, OnceInv, [Next]_vars PROVE [Still]_vars
  <2>1. CASE Aside
    BY <2>1 DEF Aside
  <2>2. CASE GoesOn \/ Finishes
    BY <1>1, <2>2 DEF GoesOn, Finishes, OnceInv
  <2>3. CASE LeavesOff \/ Begins
    BY <2>3 DEF LeavesOff, Begins
  <2>4. CASE Record
    BY <1>1, <2>4 DEF Record, OnceInv
  <2> QED
    BY <1>1, <2>1, <2>2, <2>3, <2>4, StepKinds
<1>2. [](IInv /\ OnceInv) /\ [][Next]_vars => [][Still]_vars
  BY <1>1, PTL
<1> QED
  BY <1>2, Invariance, OnceInvariance, PTL DEF Spec, ActsOnce
==============================================================================
