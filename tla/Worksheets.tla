------------------------------ MODULE Worksheets ------------------------------
(***************************************************************************)
(* Worksheets (worksheets.go): a tool proposes to fork or to delete a      *)
(* bookmark, a human decides, and the agent calls the extension's hook     *)
(* with the decision, at least once.  An approved worksheet is recorded in *)
(* executed_worksheets and then carried out by the steps of EnsureSteps,   *)
(* in a goroutine of its own ("hook") beside the lifecycle consumer and    *)
(* the reconciler.                                                         *)
(***************************************************************************)
EXTENDS EnsureSteps, AgentStream

VARIABLES
    sheets,     \* proposed worksheets whose decision is not acknowledged
    executed,   \* executed_worksheets: the ids recorded
    sheet,      \* the worksheet the hook was called for, or None
    carried,    \* history: worksheets carried out to the end
    clear       \* history: forks that met nothing of the workspace they make

sheetVars == <<sheets, executed, sheet, carried, clear>>

\* from is the workspace of the session that proposed, ws the one to make or
\* to delete, base the sha a fork starts at.
Sheets == [id : Nat, action : {"fork", "delete"}, from : Workspaces, ws : Workspaces,
           base : Shas]

ASSUME SheetsAssumption == None \notin Sheets

SheetTypeOK ==
    /\ sheets \subseteq Sheets
    /\ executed \subseteq Nat
    /\ sheet \in Sheets \union {None}
    /\ carried \subseteq Sheets
    /\ clear \subseteq Sheets

\* Besides the labels of a handler: the record, the two calls to the agent and
\* the look for the row of the deleted session.
SheetLabels == {"record", "fork", "dropSession", "lookup"}

InHook(label) == at["hook"] = label
Serving(action) == sheet # None /\ sheet.action = action

----------------------------------------------------------------------------
(* Proposing: the tools fork-bookmark and delete-bookmark of a session that *)
(* works on from; n is the worksheet's id.                                  *)

Propose(n, action, from, w, base) ==
    /\ w.repo = from.repo /\ w # from
    /\ sheets' = sheets \union {[id |-> n, action |-> action, from |-> from, ws |-> w,
                                 base |-> base]}
    /\ UNCHANGED <<executed, sheet, carried, clear>>

\* The base is taken at the call and rides along.
ProposeFork(n, from, w) ==
    /\ from \in marks
    /\ Propose(n, "fork", from, w, BookmarkHead(from))

ProposeDelete(n, from, w) ==
    /\ w.bm # Main
    /\ w \in marks
    /\ Propose(n, "delete", from, w, {})

\* A rejected worksheet is acknowledged and nothing else.
Reject(s) ==
    /\ s # sheet /\ s.id \notin executed
    /\ sheets' = sheets \ {s}
    /\ UNCHANGED <<executed, sheet, carried, clear>>

----------------------------------------------------------------------------
(* The hook, called for an approved worksheet.                             *)

Dispatch(s) ==
    /\ InHook("idle")
    /\ sheet' = s
    /\ Goto("hook", "record")
    /\ UNCHANGED <<jjVars, storeVars, varsVars, agentVars, sheets, executed, carried, clear>>

\* The call ends; acknowledged worksheets are not dispatched again.
EndHook(acknowledged) ==
    /\ sheet' = None
    /\ sheets' = sheets \ acknowledged
    /\ Enter("hook", NoCall, "idle")

\* Nothing has the name of the workspace a fork is about to make.
Unused(w) ==
    /\ w \notin marks /\ ~ HasRow(w)
    /\ NamingSession(w) \notin sessions
    /\ \A e \in stream : NamingSession(w) \notin {e.sid, e.peer}

\* Mutant: a fork is anchored at wherever its parent is at the approval.
BaseAtApproval(s) == s.from.bm

\* The first call of execForkRequest and of execDeleteBookmark.  A fork is
\* anchored at its base.
BaseOf(s) == s.base
Begin(s) ==
    IF s.action = "fork"
    THEN Enter("hook", Call("forkAt", s.ws, s.from, BaseOf(s)), "findRow")
    ELSE Goto("hook", "dropSession")

\* Mutant: the record is not looked at.
RecordAlways ==
    /\ InHook("record")
    /\ executed' = executed \union {sheet.id}
    /\ clear' = IF sheet.action = "fork" /\ Unused(sheet.ws)
                THEN clear \union {sheet} ELSE clear
    /\ Begin(sheet)
    /\ UNCHANGED <<jjVars, storeVars, varsVars, agentVars, sheets, sheet, carried>>

\* ExecutedWorksheet: the first dispatch goes on ...
Record ==
    /\ InHook("record")
    /\ sheet.id \notin executed
    /\ executed' = executed \union {sheet.id}
    /\ clear' = IF sheet.action = "fork" /\ Unused(sheet.ws)
                THEN clear \union {sheet} ELSE clear
    /\ Begin(sheet)
    /\ UNCHANGED <<jjVars, storeVars, varsVars, agentVars, sheets, sheet, carried>>

\* ... and a later one is answered OK at once, also while the first still runs.
AlreadyExecuted ==
    /\ InHook("record")
    /\ sheet.id \in executed
    /\ EndHook({sheet})
    /\ UNCHANGED <<jjVars, storeVars, varsVars, agentVars, executed, carried, clear>>

AnsweredMeanwhile ==
    /\ ~ InHook("idle") /\ ~ InHook("record")
    /\ sheet \in sheets
    /\ sheets' = sheets \ {sheet}
    /\ UNCHANGED <<jjVars, storeVars, varsVars, agentVars, stepVars, executed, sheet, carried,
                   clear>>

\* The bookmark and the row are there.
Forking ==
    /\ InHook("ok") /\ Serving("fork")
    /\ Goto("hook", "fork")
    /\ UNCHANGED <<jjVars, storeVars, varsVars, agentVars, sheetVars>>

\* The agent forks the session of the bookmark that proposed; 409 is success.
\* n numbers the event.
SheetForks(n) ==
    /\ InHook("fork")
    /\ LET parent == NamingSession(sheet.from)
           s == NamingSession(sheet.ws)
       IN  IF s \in sessions THEN UNCHANGED agentVars ELSE ForkSession(n, parent, s)
    /\ Goto("hook", "done")
    /\ UNCHANGED <<jjVars, storeVars, varsVars, sheetVars>>

\* The session that proposed is gone or has another name.
NothingToFork ==
    /\ InHook("fork")
    /\ NamingSession(sheet.from) \notin sessions
    /\ NamingSession(sheet.ws) \notin sessions
    /\ Goto("hook", "retry")
    /\ UNCHANGED <<jjVars, storeVars, varsVars, agentVars, sheetVars>>

\* DELETE of the session; 404 is success.
DropSession(n) ==
    /\ InHook("dropSession")
    /\ LET s == NamingSession(sheet.ws) IN
         IF s \in sessions THEN DeleteSession(n, s) ELSE UNCHANGED agentVars
    /\ Goto("hook", "lookup")
    /\ UNCHANGED <<jjVars, storeVars, varsVars, sheetVars>>

\* Mutant: without a row, the bookmark of the session that proposed is removed.
CleansUpOwn ==
    /\ InHook("lookup")
    /\ IF HasRowOf(NamingSession(sheet.ws))
       THEN Enter("hook", Call("delete", sheet.ws, None, None), "findRow")
       ELSE Enter("hook", Call("cleanup", sheet.from, None, None), "seeMark")
    /\ UNCHANGED <<jjVars, storeVars, varsVars, agentVars, sheetVars>>

\* With a row ensureDeleted, without one the bookmark alone.
FindDoomed ==
    /\ InHook("lookup")
    /\ IF HasRowOf(NamingSession(sheet.ws))
       THEN Enter("hook", Call("delete", sheet.ws, None, None), "findRow")
       ELSE Enter("hook", Call("cleanup", sheet.ws, None, None), "seeMark")
    /\ UNCHANGED <<jjVars, storeVars, varsVars, agentVars, sheetVars>>

\* The worksheet is carried out and the hook answers OK; acknowledged is empty
\* when the answer is lost.
CarriedOut(acknowledged) ==
    /\ InHook("done") \/ (InHook("ok") /\ Serving("delete"))
    /\ carried' = carried \union {sheet}
    /\ EndHook(acknowledged)
    /\ UNCHANGED <<jjVars, storeVars, varsVars, agentVars, executed, clear>>

\* Any error is answered as internal: the agent dispatches again.
HookRefuses ==
    /\ InHook("retry") \/ InHook("reject")
    /\ EndHook({})
    /\ UNCHANGED <<jjVars, storeVars, varsVars, agentVars, executed, carried, clear>>

\* The record, a call to the agent or the look for the row fails, or the agent
\* forks the session and its answer is lost.
HookFails ==
    /\ at["hook"] \in SheetLabels \union {"done"}
    /\ EndHook({})
    /\ UNCHANGED <<jjVars, storeVars, varsVars, agentVars, executed, carried, clear>>

HookProgress ==
    /\ Progress("hook")
    /\ UNCHANGED <<projected, toolVars, agentVars, sheetVars>>
===============================================================================
