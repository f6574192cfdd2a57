---------------------------- MODULE WorkspaceProofs ----------------------------
(***************************************************************************)
(* Machine-checked proofs about Workspace, for every set of repositories,  *)
(* bookmarks, stray names and commits, and every bound.                    *)
(*                                                                         *)
(* One inductive invariant carries all results.  TypeOK alone is not       *)
(* inductive: what a step writes comes from the locals of a handler, so    *)
(* the invariant says which locals are there at which label (CallOK), how  *)
(* they relate to the event or the worksheet being served (JobOK), and    *)
(* that every table entry is under the name its workspace derives          *)
(* (ResolvesOwnBookmark).                                                  *)
(***************************************************************************)
EXTENDS WorkspaceProps, TLAPS

AllLabels == CallLabels \union Outcomes \union Labels

\* The call c that goroutine p has when it is at label l.
Fits(p, c, l) ==
    /\ l \in CallLabels \union {"project"} => c \in Calls
    /\ c.op \in {"parent", "rename"} => c.peer \in Workspaces
    /\ l = "parent" => c.op = "fork" /\ c.peer \in Workspaces
    /\ l \in {"fromRow", "moveRow"} => c.op = "rename"
    /\ l \in {"seeMark", "dropMark"} => c.op \in {"rename", "delete", "cleanup"}
    /\ l = "unbind" => c.op = "delete"
    /\ l \in {"look", "create"} \/ c.op = "forkAt" => c.src \in Sources
    /\ p = "reconcile" => c.op \in {"create", "none"} /\ l # "project"
    /\ p = "hook" => c.op \in {"forkAt", "delete", "cleanup", "none"} /\ l # "project"
    /\ p = "events" => c.op # "cleanup"

CallOK == \A p \in Procs : Fits(p, call[p], at[p])

\* The call c of the lifecycle consumer at label l serves the event job.
Serves(c, l) ==
    /\ l = "idle" => c = NoCall
    /\ l # "idle" => job \in stream
    /\ c.op = "rename" => job.kind = "renamed" /\ job.peer = NamingSession(c.peer)
    /\ c.op = "delete" => job.kind = "deleted" /\ job.sid = NamingSession(c.ws)
    /\ c.op = "publish" => job.sid = NamingSession(c.ws)
    /\ l = "project" => c.op = "publish"

\* The call c of the hook at label l carries out the worksheet it was called
\* for.
Executes(c, l) ==
    /\ l = "idle" => c = NoCall
    /\ l # "idle" => sheet \in Sheets
    /\ l \in {"dropSession", "lookup"} => Serving("delete")
    /\ c.op \in {"delete", "cleanup"} => Serving("delete") /\ sheet.ws = c.ws

Owns(p, c, l) == (p = "events" => Serves(c, l)) /\ (p = "hook" => Executes(c, l))

JobOK == Serves(call["events"], at["events"]) /\ Executes(call["hook"], at["hook"])

IInv == TypeOK /\ CallOK /\ JobOK /\ ResolvesOwnBookmark

----------------------------------------------------------------------------
(* Names.                                                                  *)

\* namingSession and parseSession are inverse to each other.
LEMMA NamesAreABijection ==
    /\ \A w \in Workspaces : /\ NamingSession(w) \in DerivedNames
                             /\ NamingSession(w) \in Sids
                             /\ ParseSession(NamingSession(w)) = w
    /\ \A s \in DerivedNames : /\ ParseSession(s) \in Workspaces
                               /\ NamingSession(ParseSession(s)) = s
    /\ \A v, w \in Workspaces : NamingSession(v) = NamingSession(w) => v = w
<1>1. ASSUME NEW w \in Workspaces
      PROVE  /\ NamingSession(w) \in DerivedNames
             /\ NamingSession(w) \in Sids
             /\ ParseSession(NamingSession(w)) = w
  BY DEF NamingSession, DerivedNames, Sids, ParseSession, Workspaces
<1>2. ASSUME NEW s \in DerivedNames
      PROVE  /\ ParseSession(s) \in Workspaces
             /\ NamingSession(ParseSession(s)) = s
  <2>1. PICK w \in Workspaces : s = NamingSession(w)
    BY DEF DerivedNames
  <2> QED
    BY <1>1, <2>1
<1>3. ASSUME NEW v \in Workspaces, NEW w \in Workspaces,
             NamingSession(v) = NamingSession(w)
      PROVE  v = w
  BY <1>1, <1>3
<1> QED
  BY <1>1, <1>2, <1>3

\* main is a bookmark of every repository.
LEMMA MainOfType == \A r \in Repos : MainOf(r) \in Workspaces
BY NamesAssumption DEF MainOf, Workspaces

----------------------------------------------------------------------------
(* The initial state.                                                      *)

\* Idle goroutines have no locals, empty tables no wrong names.
LEMMA InitIInv == Init => IInv
<1> SUFFICES ASSUME Init PROVE IInv
  OBVIOUS
<1>1. JJTypeOK /\ StoreTypeOK /\ VarsTypeOK /\ AgentTypeOK
  BY MainOfType, WorkspaceAssumption
     DEF Init, JJTypeOK, StoreTypeOK, VarsTypeOK, toolVars, AgentTypeOK
<1>2. StepTypeOK(Labels) /\ JobTypeOK /\ PassTypeOK /\ SheetTypeOK
  BY DEF Init, StepTypeOK, Labels, JobTypeOK, PassTypeOK, NoPass, Passes, SheetTypeOK
<1>3. used \in [BudgetKinds -> Nat] /\ calm \in 0..2
  BY DEF Init
<1>4. CallOK
  BY DEF Init, CallOK, Fits, NoCall, CallLabels, Procs
<1>5. JobOK
  BY DEF Init, JobOK, Serves, Executes, NoCall, Procs
<1>6. ResolvesOwnBookmark
  BY DEF Init, ResolvesOwnBookmark
<1> QED
  BY <1>1, <1>2, <1>3, <1>4, <1>5, <1>6 DEF IInv, TypeOK

----------------------------------------------------------------------------
(* One goroutine moves to another label.                                   *)

\* A goroutine that goes to a label with the locals this label needs keeps
\* the invariants about locals.
LEMMA EnterKeepsLocals ==
    ASSUME StepTypeOK(Labels), CallOK, JobOK,
           NEW p \in Procs, NEW c \in Calls \union {NoCall}, NEW l \in AllLabels,
           Enter(p, c, l), Fits(p, c, l), Owns(p, c, l),
           UNCHANGED <<job, sheet>>, stream \subseteq stream'
    PROVE  StepTypeOK(Labels)' /\ CallOK' /\ JobOK'
<1>1. StepTypeOK(Labels)'
  BY DEF StepTypeOK, Enter, AllLabels
<1>2. CallOK'
  BY DEF CallOK, StepTypeOK, Enter, Fits
<1>3. JobOK'
  <2>1. CASE p = "events"
    BY <2>1 DEF JobOK, Owns, Serves, Executes, Enter, StepTypeOK, Serving, Procs
  <2>2. CASE p = "hook"
    BY <2>2 DEF JobOK, Owns, Serves, Executes, Enter, StepTypeOK, Serving, Procs
  <2>3. CASE p = "reconcile"
    BY <2>3 DEF JobOK, Owns, Serves, Executes, Enter, StepTypeOK, Serving, Procs
  <2> QED
    BY <2>1, <2>2, <2>3 DEF Procs
<1> QED
  BY <1>1, <1>2, <1>3

\* The same when only the label changes.
LEMMA GotoKeepsLocals ==
    ASSUME StepTypeOK(Labels), CallOK, JobOK,
           NEW p \in Procs, NEW l \in AllLabels,
           Goto(p, l), Fits(p, call[p], l), Owns(p, call[p], l),
           UNCHANGED <<job, stream, sheet>>
    PROVE  StepTypeOK(Labels)' /\ CallOK' /\ JobOK'
<1>1. Enter(p, call[p], l) /\ call[p] \in Calls \union {NoCall}
  BY DEF Goto, Enter, StepTypeOK
<1> QED
  BY <1>1, EnterKeepsLocals

\* What a goroutine in a handler knows about its call.
LEMMA BusyCall ==
    ASSUME StepTypeOK(Labels), CallOK, JobOK, NEW p \in Procs, at[p] \in CallLabels
    PROVE  /\ call[p] \in Calls
           /\ Fits(p, call[p], at[p])
           /\ Owns(p, call[p], at[p])
           /\ p = "events" => job \in stream
           /\ p = "hook" => sheet \in Sheets
<1>1. Fits(p, call[p], at[p])
  BY DEF CallOK
<1>2. at[p] # "idle"
  BY DEF CallLabels
<1> QED
  BY <1>1, <1>2 DEF Fits, JobOK, Owns, Serves, Executes, Procs

\* ensureCreated returns, to ensureForked or to the consumer or the pass.
LEMMA ReturnKeepsLocals ==
    ASSUME StepTypeOK(Labels), CallOK, JobOK, NEW p \in Procs, at[p] \in CallLabels,
           Return(p), UNCHANGED <<job, stream, sheet>>
    PROVE  StepTypeOK(Labels)' /\ CallOK' /\ JobOK'
<1>1. call[p] \in Calls /\ Fits(p, call[p], at[p])
      /\ Owns(p, call[p], at[p])
      /\ (p = "events" => job \in stream) /\ (p = "hook" => sheet \in Sheets)
  BY BusyCall
<1>2. CASE call[p].op = "parent"
  <2> DEFINE c == ForkAt(call[p].peer, call[p].ws)
  <2>1. call[p].peer \in Workspaces /\ call[p].ws \in Workspaces
    BY <1>1, <1>2 DEF Fits, Calls
  <2>2. c \in Calls /\ c.op = "fork" /\ c.peer = call[p].ws /\ c.src \in Sources
    BY <2>1 DEF ForkAt, Call, Calls, Ops, Workspaces, Sources
  <2>3. Fits(p, c, "look") /\ Owns(p, c, "look")
    BY <1>1, <1>2, <2>2 DEF Fits, Owns, Serves, Executes
  <2>4. Enter(p, c, "look") /\ "look" \in AllLabels
    BY <1>2 DEF Return, AllLabels, CallLabels
  <2> HIDE DEF c
  <2> QED
    BY <2>2, <2>3, <2>4, EnterKeepsLocals
<1>3. CASE call[p].op # "parent"
  <2>1. Goto(p, "ok") /\ "ok" \in AllLabels
    BY <1>3 DEF Return, AllLabels, Outcomes
  <2>2. Fits(p, call[p], "ok") /\ Owns(p, call[p], "ok")
    BY <1>1 DEF Fits, Owns, Serves, Executes, CallLabels
  <2> QED
    BY <2>1, <2>2, GotoKeepsLocals
<1> QED
  BY <1>2, <1>3

----------------------------------------------------------------------------
(* The steps of a handler.                                                 *)

\* Every step of a handler leaves a goroutine with the locals its next label
\* needs, still serving its event.
LEMMA ProgressKeepsLocals ==
    ASSUME StepTypeOK(Labels), CallOK, JobOK, NEW p \in Procs,
           Progress(p), UNCHANGED <<job, stream, sheet>>
    PROVE  StepTypeOK(Labels)' /\ CallOK' /\ JobOK'
<1> DEFINE c == call[p]
<1>1. at[p] \in CallLabels
  BY DEF Progress, AlreadyMirrored, NotMirrored, ForkNotMirrored, FindParent, FindFrom,
         FindDeleted, MakeRepo, ChooseAnchor, LookForMark, MakeMark, MarkRefused, BindRow,
         AlreadyBound, ManageRepo, MoveRow, RowNotMoved, LookForDoomed, DropMark,
         DropRefused, Unbind, CallLabels
<1>2. /\ c \in Calls
      /\ Fits(p, c, at[p])
      /\ Owns(p, c, at[p])
      /\ p = "events" => job \in stream
      /\ p = "hook" => sheet \in Sheets
  BY <1>1, BusyCall
<1>3. /\ c.op \in Ops /\ c.ws \in Workspaces /\ c.peer \in Workspaces \union {None}
      /\ c = [op |-> c.op, ws |-> c.ws, peer |-> c.peer, src |-> c.src]
  BY <1>2 DEF Calls
<1>4. CASE AlreadyMirrored(p) \/ AlreadyBound(p) \/ ManageRepo(p)
  BY <1>1, <1>4, ReturnKeepsLocals DEF AlreadyMirrored, AlreadyBound, ManageRepo
<1>5. CASE ForkNotMirrored(p)
  <2> DEFINE atMain == [c EXCEPT !.src = Main]
  <2>1. atMain \in Calls /\ atMain.op = "fork" /\ c.op = "fork" /\ atMain.src \in Sources
    BY <1>3, <1>5, NamesAssumption DEF ForkNotMirrored, Calls, Sources
  <2>2. \/ c.peer = None /\ Enter(p, atMain, "look")
        \/ Goto(p, "reject")
        \/ c.peer # None /\ Goto(p, "parent")
    BY <1>5 DEF ForkNotMirrored
  <2>3. CASE Enter(p, atMain, "look")
    <3>1. Fits(p, atMain, "look") /\ Owns(p, atMain, "look")
      BY <1>2, <2>1 DEF Fits, Owns, Serves, Executes
    <3>2. "look" \in AllLabels
      BY DEF AllLabels, CallLabels
    <3> QED
      BY <2>1, <2>3, <3>1, <3>2, EnterKeepsLocals
  <2>4. CASE Goto(p, "reject")
    <3>1. Fits(p, c, "reject") /\ Owns(p, c, "reject")
      BY <1>2 DEF Fits, Owns, Serves, Executes, CallLabels
    <3>2. "reject" \in AllLabels
      BY DEF AllLabels, Outcomes
    <3> QED
      BY <2>4, <3>1, <3>2, GotoKeepsLocals
  <2>5. CASE c.peer # None /\ Goto(p, "parent")
    <3>1. Fits(p, c, "parent") /\ Owns(p, c, "parent")
      BY <1>2, <1>3, <2>1, <2>5 DEF Fits, Owns, Serves, Executes
    <3>2. "parent" \in AllLabels
      BY DEF AllLabels, CallLabels
    <3> QED
      BY <2>5, <3>1, <3>2, GotoKeepsLocals
  <2> QED
    BY <2>2, <2>3, <2>4, <2>5
<1>6. CASE FindParent(p)
  <2> DEFINE fork == ForkAt(c.ws, c.peer)
             nested == Call("parent", c.peer, c.ws, None)
  <2>1. c.op = "fork" /\ c.peer \in Workspaces
    BY <1>2, <1>6 DEF FindParent, Fits
  <2>2. fork \in Calls /\ fork.op = "fork" /\ fork.src \in Sources /\ nested \in Calls
        /\ nested.op = "parent" /\ nested.peer = c.ws
    BY <1>3, <2>1 DEF ForkAt, Call, Calls, Ops, Workspaces, Sources
  <2>3. Fits(p, fork, "look") /\ Owns(p, fork, "look")
    BY <1>2, <2>1, <2>2 DEF Fits, Owns, Serves, Executes
  <2>4. Fits(p, nested, "findRow") /\ Owns(p, nested, "findRow")
    BY <1>2, <1>3, <2>1, <2>2 DEF Fits, Owns, Serves, Executes
  <2>5. Enter(p, fork, "look") \/ Enter(p, nested, "findRow")
    BY <1>6 DEF FindParent
  <2>6. {"look", "findRow"} \subseteq AllLabels
    BY DEF AllLabels, CallLabels
  <2> HIDE DEF fork, nested
  <2> QED
    BY <2>2, <2>3, <2>4, <2>5, <2>6, EnterKeepsLocals
<1>7. CASE FindFrom(p)
  <2> DEFINE moved == [c EXCEPT !.src = c.peer.bm]
             plain == Call("create", c.ws, None, None)
  <2>1. c.op = "rename" /\ c.peer \in Workspaces
    BY <1>2, <1>7 DEF FindFrom, Fits
  <2>2. moved \in Calls /\ moved.op = "rename" /\ moved.peer = c.peer
        /\ moved.src \in Sources /\ plain \in Calls /\ plain.op = "create"
    BY <1>3, <2>1 DEF Call, Calls, Ops, Workspaces, Sources
  <2>3. Fits(p, moved, "look") /\ Owns(p, moved, "look")
    BY <1>2, <2>1, <2>2 DEF Fits, Owns, Serves, Executes
  <2>4. Fits(p, plain, "findRow") /\ Owns(p, plain, "findRow")
    BY <1>2, <2>2 DEF Fits, Owns, Serves, Executes
  <2>5. Enter(p, moved, "look") \/ Enter(p, plain, "findRow")
    BY <1>7 DEF FindFrom
  <2>6. {"look", "findRow"} \subseteq AllLabels
    BY DEF AllLabels, CallLabels
  <2> HIDE DEF moved, plain
  <2> QED
    BY <2>2, <2>3, <2>4, <2>5, <2>6, EnterKeepsLocals
<1>8. CASE ChooseAnchor(p)
  <2> DEFINE anchored == [c EXCEPT !.src = AnchorChoice(c.ws.repo)]
  <2>1. anchored \in Calls /\ anchored.op = c.op /\ anchored.peer = c.peer
        /\ anchored.ws = c.ws /\ anchored.src \in Sources
    BY <1>3, NamesAssumption DEF AnchorChoice, Calls, Sources
  <2>2. Fits(p, anchored, "look") /\ Owns(p, anchored, "look")
    BY <1>2, <1>8, <2>1 DEF Fits, Owns, Serves, Executes
  <2>3. Enter(p, anchored, "look") /\ "look" \in AllLabels
    BY <1>8 DEF ChooseAnchor, AllLabels, CallLabels
  <2> HIDE DEF anchored
  <2> QED
    BY <2>1, <2>2, <2>3, EnterKeepsLocals
<1>9. ASSUME NEW l \in {"repo", "seeMark", "ok", "anchor", "reject", "moveRow", "bind",
                        "create", "retry", "manage", "dropMark", "unbind", "look"},
             Goto(p, l),
             l = "moveRow" => c.op = "rename",
             l \in {"seeMark", "dropMark"} => c.op \in {"rename", "delete", "cleanup"},
             l = "unbind" => c.op = "delete",
             l \in {"look", "create"} => c.src \in Sources
      PROVE  StepTypeOK(Labels)' /\ CallOK' /\ JobOK'
  <2>1. l \in AllLabels
    BY <1>9 DEF AllLabels, CallLabels, Outcomes
  <2>2. Fits(p, c, l) /\ Owns(p, c, l)
    BY <1>2, <1>9 DEF Fits, Owns, Serves, Executes
  <2> QED
    BY <1>9, <2>1, <2>2, GotoKeepsLocals
<1>10. CASE NotMirrored(p)
  BY <1>9, <1>10 DEF NotMirrored
<1>11. CASE FindDeleted(p)
  BY <1>9, <1>11 DEF FindDeleted
<1>12. CASE MakeRepo(p)
  BY <1>2, <1>9, <1>12 DEF MakeRepo, AfterRepo, Fits
<1>13. CASE LookForMark(p, TRUE)
  BY <1>2, <1>9, <1>13 DEF LookForMark, AfterMark, Fits
<1>14. CASE MakeMark(p)
  BY <1>9, <1>14 DEF MakeMark, AfterMark
<1>15. CASE MarkRefused(p)
  BY <1>9, <1>15 DEF MarkRefused
<1>16. CASE BindRow(p)
  BY <1>9, <1>16 DEF BindRow
<1>17. CASE MoveRow(p)
  BY <1>2, <1>9, <1>17 DEF MoveRow, Fits
<1>18. CASE RowNotMoved(p)
  BY <1>9, <1>18 DEF RowNotMoved
<1>19. CASE LookForDoomed(p, TRUE)
  BY <1>2, <1>9, <1>19 DEF LookForDoomed, AfterDrop, Fits
<1>20. CASE DropMark(p)
  BY <1>2, <1>9, <1>20 DEF DropMark, AfterDrop, Fits
<1>21. CASE DropRefused(p)
  BY <1>9, <1>21 DEF DropRefused
<1>22. CASE Unbind(p)
  BY <1>9, <1>22 DEF Unbind
<1> QED
  BY <1>4, <1>5, <1>6, <1>7, <1>8, <1>10, <1>11, <1>12, <1>13, <1>14, <1>15, <1>16, <1>17,
     <1>18, <1>19, <1>20, <1>21, <1>22 DEF Progress

\* The tables and the jj state.
DataOK == JJTypeOK /\ StoreTypeOK /\ VarsTypeOK /\ ResolvesOwnBookmark

\* Nothing but the program counters of a handler changed.
LEMMA DataUntouched ==
    ASSUME DataOK, UNCHANGED <<jjVars, storeVars, varsVars>>
    PROVE  DataOK'
BY DEF DataOK, JJTypeOK, StoreTypeOK, VarsTypeOK, toolVars, ResolvesOwnBookmark,
       jjVars, storeVars, varsVars

\* Deleting rows and evicting sessions leaves a well-named rest.
LEMMA DeletingKeepsData ==
    ASSUME DataOK, rows' \subseteq rows, cached' \subseteq cached,
           UNCHANGED <<jjVars, managed, projected, toolVars>>
    PROVE  DataOK'
BY DEF DataOK, JJTypeOK, StoreTypeOK, VarsTypeOK, toolVars, ResolvesOwnBookmark, jjVars

\* A row written under the name its workspace derives.
LEMMA BindingKeepsData ==
    ASSUME DataOK, NEW w \in Workspaces,
           rows' \subseteq rows \union {[ws |-> w, sid |-> NamingSession(w)]},
           cached' \subseteq cached, UNCHANGED <<jjVars, managed, projected, toolVars>>
    PROVE  DataOK'
<1>1. [ws |-> w, sid |-> NamingSession(w)] \in Rows
  BY NamesAreABijection DEF Rows
<1> QED
  BY <1>1 DEF DataOK, JJTypeOK, StoreTypeOK, VarsTypeOK, toolVars, ResolvesOwnBookmark,
              jjVars

\* Every step of a handler keeps types and names.
LEMMA ProgressKeepsData ==
    ASSUME StepTypeOK(Labels), CallOK, JobOK, DataOK, NEW p \in Procs,
           Progress(p), UNCHANGED <<projected, toolVars>>
    PROVE  DataOK'
<1> DEFINE c == call[p]
<1>1. ASSUME at[p] \in CallLabels
      PROVE  c.ws \in Workspaces /\ Fits(p, c, at[p])
  BY <1>1, BusyCall DEF Calls
<1>2. CASE AlreadyMirrored(p) \/ NotMirrored(p) \/ ForkNotMirrored(p) \/ FindParent(p)
           \/ FindFrom(p) \/ FindDeleted(p) \/ ChooseAnchor(p) \/ LookForMark(p, TRUE)
           \/ MarkRefused(p) \/ AlreadyBound(p) \/ RowNotMoved(p)
           \/ LookForDoomed(p, TRUE) \/ DropRefused(p)
  <2>1. UNCHANGED <<jjVars, storeVars, varsVars>>
    BY <1>2 DEF AlreadyMirrored, NotMirrored, ForkNotMirrored, FindParent, FindFrom,
                FindDeleted, ChooseAnchor, LookForMark, MarkRefused, AlreadyBound,
                RowNotMoved, LookForDoomed, DropRefused, varsVars
  <2> QED
    BY <2>1, DataUntouched
<1>3. CASE MakeRepo(p)
  <2>1. c.ws \in Workspaces
    BY <1>1, <1>3 DEF MakeRepo, CallLabels
  <2>2. c.ws.repo \in Repos
    BY <2>1 DEF Workspaces
  <2> QED
    BY <1>3, <2>2, MainOfType
       DEF MakeRepo, EnsureRepo, DataOK, JJTypeOK, StoreTypeOK, VarsTypeOK, toolVars,
           ResolvesOwnBookmark, storeVars
<1>4. CASE MakeMark(p)
  <2>1. c.ws \in Workspaces
    BY <1>1, <1>4 DEF MakeMark, CallLabels
  <2>2. Anchor(c.ws.repo, c.src) \subseteq Commits
    <3>1. c.src \in Sources /\ c.ws.repo \in Repos /\ MainOf(c.ws.repo) \in Workspaces
          /\ (c.src \in Marks => [repo |-> c.ws.repo, bm |-> c.src] \in Workspaces)
      BY <1>1, <1>4, <2>1, MainOfType DEF MakeMark, Fits, CallLabels, Workspaces
    <3>2. \A w \in Workspaces : work[w] \subseteq Commits
      BY DEF DataOK, JJTypeOK
    <3> QED
      BY <3>1, <3>2 DEF Anchor, Sources, Shas
  <2> QED
    BY <1>4, <2>1, <2>2
       DEF MakeMark, CreateBookmark, DataOK, JJTypeOK, StoreTypeOK, VarsTypeOK, toolVars,
           ResolvesOwnBookmark, storeVars
<1>5. CASE BindRow(p)
  <2>1. c.ws \in Workspaces
    BY <1>1, <1>5 DEF BindRow, CallLabels
  <2> QED
    BY <1>5, <2>1, BindingKeepsData DEF BindRow, InsertRow
<1>6. CASE ManageRepo(p)
  <2>1. c.ws.repo \in Repos
    BY <1>1, <1>6 DEF ManageRepo, CallLabels, Workspaces
  <2> QED
    BY <1>6, <2>1 DEF ManageRepo, InsertManaged, DataOK, JJTypeOK, StoreTypeOK,
                      VarsTypeOK, toolVars,
                      ResolvesOwnBookmark, jjVars
<1>7. CASE MoveRow(p)
  <2>1. c.ws \in Workspaces
    BY <1>1, <1>7 DEF MoveRow, CallLabels
  <2>2. cached' \subseteq cached
        /\ rows' \subseteq rows \union {[ws |-> c.ws, sid |-> NamingSession(c.ws)]}
    BY <1>7 DEF MoveRow, RenameRow, RowsAt, Evict
  <2> QED
    BY <1>7, <2>1, <2>2, BindingKeepsData DEF MoveRow, RenameRow
<1>8. CASE DropMark(p)
  BY <1>8 DEF DropMark, DropBookmark, DataOK, JJTypeOK, StoreTypeOK, VarsTypeOK, toolVars,
              ResolvesOwnBookmark, storeVars
<1>9. CASE Unbind(p)
  BY <1>9, DeletingKeepsData DEF Unbind, DeleteRow, RowsAt, Evict
<1> QED
  BY <1>2, <1>3, <1>4, <1>5, <1>6, <1>7, <1>8, <1>9 DEF Progress

\* A write whose answer is lost is one of the writes of a handler.
LEMMA UnansweredKeepsData ==
    ASSUME StepTypeOK(Labels), CallOK, JobOK, DataOK, NEW p \in Procs,
           Unanswered(p), UNCHANGED <<projected, toolVars>>
    PROVE  DataOK'
<1> DEFINE c == call[p]
<1>1. c.ws \in Workspaces /\ Fits(p, c, at[p])
  BY BusyCall DEF Unanswered, WritesMark, WritesRow, CallLabels, Calls
<1>2. c.ws.repo \in Repos /\ MainOf(c.ws.repo) \in Workspaces
  BY <1>1, MainOfType DEF Workspaces
<1>3. CASE WritesMark(p) /\ UNCHANGED storeVars
  <2>1. CASE EnsureRepo(c.ws.repo)
    BY <1>2, <1>3, <2>1
       DEF Unanswered, EnsureRepo, DataOK, JJTypeOK, StoreTypeOK, VarsTypeOK, toolVars,
           ResolvesOwnBookmark, storeVars
  <2>2. CASE at[p] = "create" /\ CreateBookmark(c.ws, c.src)
    <3>1. c.src \in Sources
          /\ (c.src \in Marks => [repo |-> c.ws.repo, bm |-> c.src] \in Workspaces)
      BY <1>1, <1>2, <2>2 DEF Fits, Workspaces
    <3>2. \A w \in Workspaces : work[w] \subseteq Commits
      BY DEF DataOK, JJTypeOK
    <3>3. Anchor(c.ws.repo, c.src) \subseteq Commits
      BY <1>2, <3>1, <3>2 DEF Anchor, Sources, Shas
    <3> QED
      BY <1>1, <1>3, <2>2, <3>3
         DEF Unanswered, CreateBookmark, DataOK, JJTypeOK, StoreTypeOK, VarsTypeOK, toolVars,
             ResolvesOwnBookmark, storeVars
  <2>3. CASE DropBookmark(Doomed(c))
    BY <1>3, <2>3 DEF Unanswered, DropBookmark, DataOK, JJTypeOK, StoreTypeOK, VarsTypeOK,
                      toolVars, ResolvesOwnBookmark, storeVars
  <2> QED
    BY <1>3, <2>1, <2>2, <2>3 DEF WritesMark
<1>4. CASE WritesRow(p) /\ UNCHANGED jjVars
  <2>1. CASE InsertManaged(c.ws.repo)
    BY <1>2, <1>4, <2>1 DEF Unanswered, InsertManaged, DataOK, JJTypeOK, StoreTypeOK,
                            VarsTypeOK, toolVars, ResolvesOwnBookmark, jjVars
  <2>2. CASE \/ InsertRow(c.ws, NamingSession(c.ws))
             \/ RenameRow(c.peer, c.ws, NamingSession(c.ws))
             \/ DeleteRow(c.ws)
    BY <1>1, <1>4, <2>2, BindingKeepsData
       DEF Unanswered, InsertRow, RenameRow, DeleteRow, RowsAt
  <2> QED
    BY <1>4, <2>1, <2>2 DEF WritesRow
<1> QED
  BY <1>3, <1>4 DEF Unanswered

----------------------------------------------------------------------------
(* The actions of Next.                                                    *)

\* The parts of IInv the lemmas speak of.
Parts == /\ DataOK /\ AgentTypeOK /\ StepTypeOK(Labels) /\ CallOK /\ JobOK
         /\ JobTypeOK /\ PassTypeOK /\ SheetTypeOK
         /\ used \in [BudgetKinds -> Nat] /\ calm \in 0..2

LEMMA IInvParts == (IInv => Parts) /\ (Parts' => IInv')
BY DEF IInv, TypeOK, DataOK, Parts

\* Most steps have nothing to do with worksheets.
LEMMA SheetsUntouched ==
    ASSUME SheetTypeOK, UNCHANGED sheetVars
    PROVE  SheetTypeOK' /\ sheet' = sheet
BY DEF SheetTypeOK, sheetVars

\* The bounds only count.
LEMMA CountersStayTyped ==
    ASSUME used \in [BudgetKinds -> Nat], NEW k \in BudgetKinds, Spend(k) \/ Trouble(k)
    PROVE  used' \in [BudgetKinds -> Nat]
BY DEF Spend, Trouble, BudgetKinds, Troubles

\* Every event is published under a session's name, and no unacknowledged one
\* is dropped by a session action.
LEMMA AgentActsKeepIInv == IInv /\ AgentActs => IInv'
<1> SUFFICES ASSUME IInv, AgentActs PROVE IInv'
  OBVIOUS
<1> USE IInvParts DEF Parts
<1>1. AgentTypeOK' /\ stream \subseteq stream'
  <2>1. used["acts"] \in Nat
    BY IInvParts DEF BudgetKinds
  <2>2. ASSUME NEW kind \in EventKinds, NEW s \in Sids, NEW peer \in Sids \union {None},
               Publish(used["acts"], kind, s, peer), sessions' \subseteq Sids
        PROVE  AgentTypeOK' /\ stream \subseteq stream'
    <3>1. [seq |-> used["acts"], kind |-> kind, sid |-> s, peer |-> peer, tried |-> FALSE]
              \in Events
      BY <2>1 DEF Events
    <3> QED
      BY <2>2, <3>1 DEF Publish, AgentTypeOK
  <2>3. ASSUME NEW s \in Named, AgentCreates(s)
        PROVE  AgentTypeOK' /\ stream \subseteq stream'
    BY <2>2, <2>3, StreamAssumption DEF AgentCreates, CreateSession, AgentTypeOK, EventKinds
  <2>4. ASSUME NEW q \in Named, NEW s \in Named, AgentForks(q, s)
        PROVE  AgentTypeOK' /\ stream \subseteq stream'
    BY <2>2, <2>4, StreamAssumption DEF AgentForks, ForkSession, AgentTypeOK, EventKinds
  <2>5. ASSUME NEW f \in Named, NEW t \in Named, AgentRenames(f, t)
        PROVE  AgentTypeOK' /\ stream \subseteq stream'
    BY <2>2, <2>5, StreamAssumption DEF AgentRenames, RenameSession, AgentTypeOK, EventKinds
  <2>6. ASSUME NEW s \in Named, AgentDeletes(s)
        PROVE  AgentTypeOK' /\ stream \subseteq stream'
    BY <2>2, <2>6, StreamAssumption DEF AgentDeletes, DeleteSession, AgentTypeOK, EventKinds
  <2> QED
    BY <2>3, <2>4, <2>5, <2>6 DEF AgentActs
<1>2. UNCHANGED others /\ Spend("acts") /\ calm' = 0
  BY DEF AgentActs, AgentCreates, AgentForks, AgentRenames, AgentDeletes, Disturb
<1>3. used' \in [BudgetKinds -> Nat]
  BY <1>2, CountersStayTyped DEF BudgetKinds
<1>4. DataOK'
  BY <1>2, DataUntouched DEF others
<1>5. SheetTypeOK' /\ sheet' = sheet
  BY <1>2, SheetsUntouched DEF others
<1>6. StepTypeOK(Labels)' /\ CallOK' /\ JobOK' /\ JobTypeOK' /\ PassTypeOK'
  BY <1>1, <1>2, <1>5
     DEF others, stepVars, StepTypeOK, CallOK, Fits, JobOK, Serves, Executes, Serving,
         JobTypeOK, PassTypeOK
<1> QED
  BY <1>1, <1>2, <1>3, <1>4, <1>5, <1>6

\* Starting over forgets every local, so nothing is left to be wrong.
LEMMA IdleKeepsLocals ==
    ASSUME StepTypeOK(Labels), CallOK, JobOK,
           Enter("events", NoCall, "idle"), job' = None, sheet' = sheet
    PROVE  StepTypeOK(Labels)' /\ CallOK' /\ JobOK' /\ JobTypeOK'
BY DEF StepTypeOK, Labels, CallOK, JobOK, Fits, Serves, Executes, Serving, Enter, NoCall,
       Procs, CallLabels, JobTypeOK

\* The steps of the lifecycle consumer.
LEMMA EventsStepKeepsIInv == IInv /\ EventsStep => IInv'
<1> SUFFICES ASSUME IInv, EventsStep PROVE IInv'
  OBVIOUS
<1> USE IInvParts DEF Parts
<1>1. PassTypeOK' /\ SheetTypeOK' /\ sheet' = sheet
      /\ used' \in [BudgetKinds -> Nat] /\ calm' \in 0..2
  BY SheetsUntouched DEF EventsStep, Disturb, PassTypeOK
<1>2. ASSUME NEW e \in stream, Deliver(e) PROVE IInv'
  <2> DEFINE w == ParseSession(e.sid)
             peer == IF Derived(e.peer) THEN ParseSession(e.peer) ELSE None
             c == HandlerOf(e)[2]
             l == HandlerOf(e)[1]
  <2>1. /\ Derived(e.sid) => w \in Workspaces /\ NamingSession(w) = e.sid
        /\ Derived(e.peer) => peer \in Workspaces /\ NamingSession(peer) = e.peer
        /\ peer \in Workspaces \union {None}
    BY NamesAreABijection DEF Derived
  <2>2. \/ e.kind = "created" /\ Derived(e.sid) /\ l = "findRow"
            /\ c = Call("create", w, None, None)
        \/ e.kind = "forked" /\ Derived(e.sid) /\ l = "findRow"
            /\ c = Call("fork", w, peer, None)
        \/ e.kind = "renamed" /\ Derived(e.sid) /\ Derived(e.peer) /\ l = "fromRow"
            /\ c = Call("rename", w, peer, None)
        \/ e.kind = "deleted" /\ Derived(e.sid) /\ l = "findRow"
            /\ c = Call("delete", w, None, None)
        \/ l = "reject" /\ c = NoCall
    BY DEF HandlerOf
  <2>3. c \in Calls \union {NoCall} /\ (l # "reject" => c \in Calls)
    BY <2>1, <2>2 DEF Call, Calls, Ops, NoCall
  <2>4. l \in AllLabels /\ Fits("events", c, l)
    BY <2>1, <2>2, <2>3 DEF Call, NoCall, Fits, AllLabels, CallLabels, Outcomes
  <2>5. job' = e /\ Enter("events", c, l) /\ stream' = stream /\ at["events"] = "idle"
    BY <1>2 DEF Deliver, agentVars
  <2>6. StepTypeOK(Labels)' /\ call'["events"] = c /\ at'["events"] = l
    BY <2>3, <2>4, <2>5 DEF StepTypeOK, Enter, AllLabels, Procs
  <2>7. CallOK'
    BY <2>4, <2>5 DEF StepTypeOK, CallOK, Enter, Fits, Procs
  <2>8. JobOK'
    <3>1. Serves(c, l)'
      BY <2>1, <2>2, <2>5 DEF Serves, Call, NoCall
    <3>2. Executes(call["hook"], at["hook"])'
      BY <1>1, <2>5 DEF JobOK, Executes, Serving, Enter, StepTypeOK, Procs
    <3> QED
      BY <2>6, <3>1, <3>2 DEF JobOK
  <2>9. JobTypeOK' /\ AgentTypeOK'
    BY <1>2 DEF Deliver, JobTypeOK, AgentTypeOK, agentVars
  <2>10. DataOK'
    BY <1>2, DataUntouched DEF Deliver
  <2> QED
    BY <1>1, <2>6, <2>7, <2>8, <2>9, <2>10
<1>3. CASE Ack
  <2>1. AgentTypeOK'
    BY <1>3 DEF Ack, Acknowledge, AgentTypeOK
  <2>2. DataOK'
    BY <1>3, DataUntouched DEF Ack
  <2> QED
    BY <1>1, <1>3, <2>1, <2>2, IdleKeepsLocals DEF Ack
<1>4. CASE Nack("retry")
  <2>1. job \in stream
    BY <1>4 DEF Nack, JobOK, Owns, Serves, Executes
  <2>2. AgentTypeOK'
    BY <1>4, <2>1, StreamAssumption DEF Nack, Redeliver, AgentTypeOK, Events
  <2>3. DataOK'
    BY <1>4, DataUntouched DEF Nack
  <2> QED
    BY <1>1, <1>4, <2>2, <2>3, IdleKeepsLocals DEF Nack
<1>5. CASE ResolveVars
  <2>1. job \in stream /\ stream' = stream /\ job' = job /\ "events" \in Procs
        /\ Fits("events", call["events"], at["events"])
        /\ Serves(call["events"], at["events"]) /\ at["events"] = "ok"
    BY <1>5 DEF ResolveVars, JobOK, Owns, Serves, Executes, CallOK, agentVars, Procs
  <2>2. DataOK' /\ AgentTypeOK' /\ JobTypeOK'
    BY <1>5, DataUntouched DEF ResolveVars, AgentTypeOK, JobTypeOK, agentVars
  <2>3. CASE Goto("events", "done")
    <3>1. Fits("events", call["events"], "done") /\ Owns("events", call["events"], "done")
          /\ "done" \in AllLabels
      BY <2>1 DEF Fits, Owns, Serves, Executes, CallLabels, AllLabels, Labels, VarsLabels
    <3> QED
      BY <1>1, <2>1, <2>2, <2>3, <3>1, GotoKeepsLocals
  <2>4. ASSUME NEW r \in Resolved(job.sid),
               Enter("events", Call("publish", r.ws, None, None), "project")
        PROVE  IInv'
    <3> DEFINE c == Call("publish", r.ws, None, None)
    <3>1. r \in rows \union cached /\ r.sid = job.sid
      BY <2>4 DEF Resolved, Of
    <3>2. r.ws \in Workspaces /\ job.sid = NamingSession(r.ws)
      BY <3>1 DEF DataOK, StoreTypeOK, VarsTypeOK, toolVars, Rows, ResolvesOwnBookmark
    <3>3. c \in Calls /\ c.op = "publish" /\ c.ws = r.ws
      BY <3>2 DEF Call, Calls, Ops
    <3>4. Fits("events", c, "project") /\ Owns("events", c, "project") /\ "project" \in AllLabels
      BY <2>1, <3>2, <3>3 DEF Fits, Owns, Serves, Executes, CallLabels, AllLabels, Labels,
           VarsLabels
    <3>5. Enter("events", c, "project")
      BY <2>4
    <3> HIDE DEF c
    <3> QED
      BY <1>1, <2>1, <2>2, <3>3, <3>4, <3>5, EnterKeepsLocals
  <2> QED
    BY <1>5, <2>3, <2>4 DEF ResolveVars
<1>6. ASSUME NEW l \in {"ok", "project"}, at["events"] = l, Goto("events", "done"),
             UNCHANGED <<agentVars, job>>
      PROVE  StepTypeOK(Labels)' /\ CallOK' /\ JobOK' /\ AgentTypeOK' /\ JobTypeOK'
  <2>1. job \in stream /\ stream' = stream /\ job' = job /\ "events" \in Procs
        /\ Fits("events", call["events"], at["events"])
        /\ Serves(call["events"], at["events"])
    BY <1>6 DEF JobOK, Owns, Serves, Executes, CallOK, agentVars, Procs
  <2>2. Fits("events", call["events"], "done") /\ Owns("events", call["events"], "done")
        /\ "done" \in AllLabels
    BY <2>1 DEF Fits, Owns, Serves, Executes, CallLabels, AllLabels, Labels, VarsLabels
  <2>3. AgentTypeOK' /\ JobTypeOK'
    BY <1>6 DEF AgentTypeOK, JobTypeOK, agentVars
  <2> QED
    BY <1>1, <1>6, <2>1, <2>2, <2>3, GotoKeepsLocals
<1>7. CASE PublishSessionVars
  <2> DEFINE r == [ws |-> call["events"].ws, sid |-> job.sid]
  <2>1. call["events"] \in Calls /\ job.sid = NamingSession(call["events"].ws)
    BY <1>7 DEF PublishSessionVars, CallOK, Fits, JobOK, Owns, Serves, Executes, Procs
  <2>2. r \in Rows /\ r.sid = NamingSession(r.ws)
    BY <2>1, NamesAreABijection DEF Rows, Calls
  <2>3. cached' \subseteq cached \union {r} /\ projected' \subseteq projected \union {r}
    BY <1>7 DEF PublishSessionVars, Put, SetVars, Of
  <2>4. DataOK'
    BY <1>7, <2>2, <2>3 DEF PublishSessionVars, DataOK, JJTypeOK, StoreTypeOK,
                            VarsTypeOK, toolVars,
                            ResolvesOwnBookmark, jjVars, storeVars
  <2> QED
    BY <1>1, <1>6, <1>7, <2>4 DEF PublishSessionVars
<1>8. CASE ClearSessionVars
  <2>1. DataOK'
    BY <1>8 DEF ClearSessionVars, ClearVars, Of, DataOK, JJTypeOK, StoreTypeOK,
                VarsTypeOK, toolVars,
                ResolvesOwnBookmark, jjVars, storeVars, cacheVars
  <2> QED
    BY <1>1, <1>6, <1>8, <2>1 DEF ClearSessionVars
<1>9. CASE Progress("events") /\ UNCHANGED <<projected, toolVars, agentVars, job>>
  <2>1. "events" \in Procs
    BY DEF Procs
  <2>2. StepTypeOK(Labels)' /\ CallOK' /\ JobOK'
    BY <1>1, <1>9, <2>1, ProgressKeepsLocals DEF agentVars
  <2>3. DataOK'
    BY <1>9, <2>1, ProgressKeepsData
  <2>4. AgentTypeOK' /\ JobTypeOK'
    BY <1>9 DEF AgentTypeOK, JobTypeOK, agentVars
  <2> QED
    BY <1>1, <2>2, <2>3, <2>4
<1> QED
  BY <1>2, <1>3, <1>4, <1>5, <1>7, <1>8, <1>9 DEF EventsStep

\* A step of a handler fails, or the reconciler's locals alone move.
LEMMA PassLocals ==
    ASSUME Parts, NEW l \in {"idle"} \union PassLabels, Goto("reconcile", l),
           UNCHANGED <<job, stream, sheet>>
    PROVE  StepTypeOK(Labels)' /\ CallOK' /\ JobOK'
<1>1. "reconcile" \in Procs /\ l \in AllLabels
  BY DEF Procs, AllLabels, Labels
<1>2. Fits("reconcile", call["reconcile"], l)
  BY <1>1 DEF Parts, CallOK, Fits, PassLabels, CallLabels
<1> QED
  BY <1>1, <1>2, GotoKeepsLocals DEF Parts, Owns

\* The pass ends: its call is forgotten.
LEMMA EndOfPass ==
    ASSUME Parts, EndPass, UNCHANGED <<job, stream, sheet>>
    PROVE  StepTypeOK(Labels)' /\ CallOK' /\ JobOK' /\ PassTypeOK'
<1>1. "reconcile" \in Procs /\ "idle" \in AllLabels /\ NoCall \in Calls \union {NoCall}
  BY DEF Procs, AllLabels, Labels
<1>2. Fits("reconcile", NoCall, "idle")
  BY DEF Fits, NoCall, CallLabels
<1>3. PassTypeOK'
  BY DEF EndPass, PassTypeOK, NoPass, Passes
<1> QED
  BY <1>1, <1>2, <1>3, EnterKeepsLocals DEF Parts, EndPass, Owns

\* What a pass reads is of the right type, and it only deletes rows.
LEMMA PassStepKeepsIInv == IInv /\ ReconcileStep => IInv'
<1> SUFFICES ASSUME IInv, ReconcileStep PROVE IInv'
  OBVIOUS
<1>0. Parts
  BY IInvParts
<1> USE IInvParts, <1>0
<1>1. UNCHANGED <<job, used, sheet>> /\ calm' \in 0..2 /\ JobTypeOK' /\ SheetTypeOK'
  BY SheetsUntouched
     DEF Parts, ReconcileStep, StartTick, CompletePass, AbortPass, PassStep, KeepCalm,
         Disturb, JobTypeOK
<1>2. ASSUME NEW l \in {"idle"} \union PassLabels, NEW q \in Passes, Advance(l, q),
             UNCHANGED <<jjVars, storeVars, varsVars, agentVars>>
      PROVE  IInv'
  <2>1. StepTypeOK(Labels)' /\ CallOK' /\ JobOK'
    BY <1>1, <1>2, PassLocals DEF Advance, agentVars
  <2>2. PassTypeOK'
    BY <1>2 DEF Advance, PassTypeOK
  <2>3. DataOK' /\ AgentTypeOK'
    BY <1>2, DataUntouched DEF Parts, AgentTypeOK, agentVars
  <2> QED
    BY <1>1, <2>1, <2>2, <2>3 DEF Parts
<1>3. ASSUME EndPass, UNCHANGED <<jjVars, storeVars, varsVars, agentVars>>
      PROVE  IInv'
  <2>1. StepTypeOK(Labels)' /\ CallOK' /\ JobOK' /\ PassTypeOK'
    BY <1>1, <1>3, EndOfPass DEF agentVars
  <2>2. DataOK' /\ AgentTypeOK'
    BY <1>3, DataUntouched DEF Parts, AgentTypeOK, agentVars
  <2> QED
    BY <1>1, <2>1, <2>2 DEF Parts
<1>4. pass \in Passes
  BY DEF Parts, PassTypeOK
<1>5. CASE StartPass
  <2>1. [NoPass EXCEPT !.seen = ListSessions] \in Passes
    BY DEF Parts, AgentTypeOK, ListSessions, NoPass, Passes
  <2> QED
    BY <1>2, <1>5, <2>1 DEF StartPass, PassLabels
<1>6. CASE ReadManaged
  <2>1. [pass EXCEPT !.todo = managed] \in Passes
    BY <1>4 DEF Parts, DataOK, StoreTypeOK, Passes
  <2> QED
    BY <1>2, <1>6, <2>1 DEF ReadManaged, PassLabels
<1>7. CASE ReadTree({})
  <2> DEFINE listed == {w \in marks : w.repo \notin {}}
  <2>1. [pass EXCEPT !.tree = listed] \in Passes
    BY <1>4 DEF Parts, DataOK, JJTypeOK, Passes
  <2> QED
    BY <1>2, <1>7, <2>1 DEF ReadTree, PassLabels
<1>8. ASSUME NEW repo \in Repos, ReadRows(repo) PROVE IInv'
  <2> DEFINE stale == {r \in rows : r.ws.repo = repo /\ Stale(r)}
             q == [pass EXCEPT !.todo = @ \ {repo}, !.drop = stale]
  <2>1. q \in Passes
    <3>1. stale \subseteq Rows
      BY DEF Parts, DataOK, StoreTypeOK
    <3> HIDE DEF stale
    <3> QED
      BY <1>4, <3>1 DEF Passes
  <2>2. AfterSweep(q) \in PassLabels
    BY DEF AfterSweep, PassLabels
  <2>3. Advance(AfterSweep(q), q) /\ UNCHANGED <<jjVars, storeVars, varsVars, agentVars>>
    BY <1>8 DEF ReadRows
  <2> QED
    BY <1>2, <2>1, <2>2, <2>3
<1>9. ASSUME NEW r \in pass.drop, SweepRow(r) PROVE IInv'
  <2>0. r \in Rows
    BY <1>4 DEF Passes
  <2> DEFINE q == [pass EXCEPT !.drop = @ \ {r}]
  <2>1. q \in Passes
    BY <1>4 DEF Passes
  <2>2. AfterSweep(q) \in PassLabels
    BY DEF AfterSweep, PassLabels
  <2>3. Advance(AfterSweep(q), q)
    BY <1>9 DEF SweepRow
  <2>4. StepTypeOK(Labels)' /\ CallOK' /\ JobOK'
    BY <1>1, <1>9, <2>2, <2>3, PassLocals DEF Advance, SweepRow, agentVars
  <2>5. PassTypeOK'
    BY <2>1, <2>3 DEF Advance, PassTypeOK
  <2>6. DataOK'
    BY <1>9, <2>0, DeletingKeepsData DEF Parts, SweepRow, DeleteRow, RowsAt, Evict
  <2>7. AgentTypeOK'
    BY <1>9 DEF Parts, SweepRow, AgentTypeOK, agentVars
  <2> QED
    BY <1>1, <2>4, <2>5, <2>6, <2>7 DEF Parts
<1>10. CASE ReadMapped
  <2> DEFINE unmapped == {w \in Workspaces : NamingSession(w) \in pass.seen
                                             /\ ~ HasRowOf(NamingSession(w))}
  <2>1. [NoPass EXCEPT !.heal = unmapped] \in Passes
    BY DEF NoPass, Passes
  <2> QED
    BY <1>2, <1>10, <2>1 DEF ReadMapped, PassLabels
<1>11. ASSUME NEW w \in pass.heal, Backfill(w) PROVE IInv'
  <2>0. w \in Workspaces
    BY <1>4 DEF Passes
  <2> DEFINE c == Call("create", w, None, None)
  <2>1. c \in Calls /\ c.op = "create" /\ "reconcile" \in Procs /\ "findRow" \in AllLabels
    BY <2>0 DEF Call, Calls, Ops, Procs, AllLabels, CallLabels
  <2>2. Fits("reconcile", c, "findRow")
    BY <2>1 DEF Fits
  <2>3. Enter("reconcile", c, "findRow") /\ stream' = stream
    BY <1>11 DEF Backfill, agentVars
  <2>4. StepTypeOK(Labels)' /\ CallOK' /\ JobOK'
    <3> HIDE DEF c
    <3> QED
      BY <1>1, <2>1, <2>2, <2>3, EnterKeepsLocals DEF Parts, Owns
  <2>5. PassTypeOK'
    BY <1>4, <1>11 DEF Backfill, PassTypeOK, Passes
  <2>6. DataOK' /\ AgentTypeOK'
    BY <1>11, DataUntouched DEF Backfill, Parts, AgentTypeOK, agentVars
  <2> QED
    BY <1>1, <2>4, <2>5, <2>6 DEF Parts
<1>12. CASE PassDone
  BY <1>3, <1>12 DEF PassDone
<1>13. CASE PassAborted
  BY <1>3, <1>13 DEF PassAborted
<1>14. CASE Progress("reconcile") /\ UNCHANGED <<projected, toolVars, agentVars, pass>>
  <2>1. "reconcile" \in Procs
    BY DEF Procs
  <2>2. StepTypeOK(Labels)' /\ CallOK' /\ JobOK'
    BY <1>1, <1>14, <2>1, ProgressKeepsLocals DEF Parts, agentVars
  <2>3. DataOK'
    BY <1>14, <2>1, ProgressKeepsData DEF Parts
  <2>4. AgentTypeOK' /\ PassTypeOK'
    BY <1>14 DEF Parts, AgentTypeOK, PassTypeOK, agentVars
  <2> QED
    BY <1>1, <2>2, <2>3, <2>4 DEF Parts
<1> QED
  BY <1>5, <1>6, <1>7, <1>8, <1>9, <1>10, <1>11, <1>12, <1>13, <1>14
     DEF ReconcileStep, StartTick, CompletePass, AbortPass, PassStep

----------------------------------------------------------------------------
(* Faults, users of jj, tools.                                             *)

LEMMA EnvironmentKeepsIInv == IInv /\ Environment => IInv'
<1> SUFFICES ASSUME IInv, Environment PROVE IInv'
  OBVIOUS
<1>0. Parts
  BY IInvParts
<1> USE IInvParts, <1>0
<1>1. used' \in [BudgetKinds -> Nat] /\ calm' \in 0..2 /\ SheetTypeOK'
  <2>1. (\E k \in BudgetKinds : Spend(k) \/ Trouble(k)) \/ UNCHANGED used
    <3>1. {"acts", "commits", "lookups", "faults", "unanswered", "blind", "lost", "removals"}
            \subseteq BudgetKinds
      BY DEF BudgetKinds, Troubles
    <3> QED
      BY <3>1
         DEF Environment, AgentActs, AgentCreates, AgentForks, AgentRenames, AgentDeletes,
             LoseEvent, JJRemoves, ToolStarts, ToolCommits, ToolLooksUp, CacheChanges,
             Crash, CallFails, CallUnanswered,
             HandlerBlind, AckLost, VarsWriteFails, PassFails, PassUnanswered, AdoptFails,
             PassBlind, SheetFails, AnswerLost
  <2>2. calm' \in {0, calm}
    BY DEF Environment, AgentActs, AgentCreates, AgentForks, AgentRenames, AgentDeletes,
           LoseEvent, JJRemoves, ToolStarts, ToolCommits, ToolLooksUp, CacheChanges,
           Crash, CallFails, CallUnanswered, HandlerBlind, AckLost, VarsWriteFails, PassFails,
           PassUnanswered, AdoptFails, PassBlind, SheetFails, AnswerLost, Disturb, KeepCalm
  <2>3. used \in [BudgetKinds -> Nat] /\ calm \in 0..2
    BY DEF Parts
  <2>4. ASSUME UNCHANGED sheetVars PROVE SheetTypeOK'
    BY <2>4, SheetsUntouched DEF Parts
  <2>5. ASSUME sheet' = None, sheets' \subseteq sheets,
               carried' \subseteq carried \union ({sheet} \intersect Sheets),
               UNCHANGED <<executed, clear>>
        PROVE  SheetTypeOK'
    BY <2>5 DEF Parts, SheetTypeOK
  <2>6. UNCHANGED sheetVars \/ Crash \/ SheetFails \/ AnswerLost
    BY DEF Environment, AgentActs, AgentCreates, AgentForks, AgentRenames, AgentDeletes,
           LoseEvent, JJRemoves, ToolStarts, ToolCommits, ToolLooksUp, CacheChanges,
           CallFails, CallUnanswered, HandlerBlind, AckLost, VarsWriteFails, PassFails,
           PassUnanswered, AdoptFails, PassBlind, others
  <2>7. ASSUME SheetFails \/ AnswerLost PROVE sheet \in Sheets
    BY <2>7 DEF Parts, SheetFails, AnswerLost, HookFails, CarriedOut, InHook, SheetLabels,
                JobOK, Executes
  <2>8. ASSUME Crash \/ SheetFails \/ AnswerLost PROVE SheetTypeOK'
    BY <2>5, <2>7, <2>8 DEF Crash, SheetFails, AnswerLost, HookFails, CarriedOut, EndHook
  <2> QED
    BY <2>1, <2>2, <2>3, <2>4, <2>6, <2>8, CountersStayTyped
<1>3. ASSUME UNCHANGED <<agentVars, stepVars, job, pass, sheet>>, DataOK' PROVE IInv'
  <2>1. StepTypeOK(Labels)' /\ CallOK' /\ JobTypeOK' /\ PassTypeOK' /\ JobOK' /\ AgentTypeOK'
    BY <1>3 DEF Parts, stepVars, agentVars, StepTypeOK, CallOK, Fits, JobTypeOK, PassTypeOK,
                JobOK, Serves, Executes, Serving, AgentTypeOK
  <2> QED
    BY <1>1, <1>3, <2>1 DEF Parts
<1>4. CASE AgentActs
  BY <1>4, AgentActsKeepIInv
<1>5. ASSUME NEW e \in stream, LoseEvent(e) PROVE IInv'
  <2>1. UNCHANGED <<jjVars, storeVars, varsVars, stepVars, job, pass, sheet>> /\ e # job
        /\ stream' = stream \ {e} /\ sessions' = sessions
    BY <1>5 DEF LoseEvent, Lose, others, sheetVars
  <2>2. DataOK' /\ AgentTypeOK'
    BY <2>1, DataUntouched DEF Parts, AgentTypeOK
  <2>3. StepTypeOK(Labels)' /\ CallOK' /\ JobTypeOK' /\ PassTypeOK' /\ JobOK'
    BY <2>1 DEF Parts, stepVars, StepTypeOK, CallOK, Fits, JobTypeOK, PassTypeOK, JobOK,
                Serves, Executes, Serving
  <2> QED
    BY <1>1, <2>2, <2>3 DEF Parts
<1>6. ASSUME NEW w \in Removable, JJRemoves(w) PROVE IInv'
  <2>1. DataOK'
    BY <1>6 DEF Parts, JJRemoves, DropBookmark, DataOK, JJTypeOK, StoreTypeOK,
                VarsTypeOK, toolVars,
                ResolvesOwnBookmark, storeVars, varsVars
  <2> QED
    BY <1>3, <1>6, <2>1 DEF JJRemoves, sheetVars
<1>7. ASSUME NEW k \in Commits, ToolCommits(k) PROVE IInv'
  <2>1. DataOK'
    BY <1>7 DEF Parts, ToolCommits, EndTool, Commit, DataOK, JJTypeOK, StoreTypeOK,
                VarsTypeOK, toolVars,
                ResolvesOwnBookmark, jjVars, storeVars
  <2> QED
    BY <1>3, <1>7, <2>1 DEF ToolCommits, sheetVars
<1>18. ASSUME NEW s \in Sids, ToolStarts(s) PROVE IInv'
  <2>1. PICK r \in Resolved(s) : StartTool(r)
    BY <1>18 DEF ToolStarts
  <2>2. r.ws \in Workspaces
    BY <2>1 DEF Parts, DataOK, StoreTypeOK, VarsTypeOK, toolVars, Resolved, Of, Rows
  <2>3. DataOK'
    BY <1>18, <2>1, <2>2
       DEF Parts, ToolStarts, StartTool, DataOK, JJTypeOK, StoreTypeOK, VarsTypeOK,
           toolVars, ResolvesOwnBookmark, jjVars, storeVars
  <2> QED
    BY <1>3, <1>18, <2>3 DEF ToolStarts, sheetVars
<1>8. ASSUME NEW r \in rows, ToolLooksUp(r) PROVE IInv'
  <2>1. DataOK'
    BY <1>8 DEF Parts, ToolLooksUp, Lookup, DataOK, JJTypeOK, StoreTypeOK, VarsTypeOK,
                toolVars, ResolvesOwnBookmark, storeVars, jjVars
  <2> QED
    BY <1>3, <1>8, <2>1 DEF ToolLooksUp, sheetVars
<1>9. CASE CacheChanges
  <2>1. cached' \subseteq cached \union ({lookup} \ {None}) /\ lookup' \in {lookup, None}
        /\ UNCHANGED <<jjVars, storeVars, projected, tool, adoption>>
    BY <1>9 DEF CacheChanges, FillCache, Expire, Put, Of, toolVars
  <2>2. DataOK'
    BY <2>1 DEF Parts, DataOK, JJTypeOK, StoreTypeOK, VarsTypeOK, toolVars,
                ResolvesOwnBookmark, storeVars, jjVars
  <2> QED
    BY <1>3, <1>9, <2>2 DEF CacheChanges, sheetVars
<1>10. CASE Crash
  <2>1. at' = [p \in Procs |-> "idle"] /\ call' = [p \in Procs |-> NoCall] /\ job' = None
        /\ pass' = NoPass /\ sheet' = None
    BY <1>10 DEF Crash
  <2>2. StepTypeOK(Labels)' /\ CallOK' /\ JobOK' /\ JobTypeOK' /\ PassTypeOK'
    BY <2>1 DEF StepTypeOK, Labels, CallOK, Fits, JobOK, Serves, Executes, NoCall,
                CallLabels, Procs, JobTypeOK, PassTypeOK, NoPass, Passes
  <2>3. AgentTypeOK'
    BY <1>10, StreamAssumption
       DEF Parts, Crash, Redeliver, AgentTypeOK, JobTypeOK, Events, agentVars
  <2>4. DataOK'
    BY <1>10 DEF Parts, Crash, DataOK, JJTypeOK, StoreTypeOK, VarsTypeOK, toolVars,
                 ResolvesOwnBookmark, storeVars, jjVars
  <2> QED
    BY <1>1, <2>2, <2>3, <2>4 DEF Parts
<1>11. ASSUME NEW p \in Procs, NEW l \in {"retry", "bind", "moveRow", "create", "reject",
                                         "dropMark", "ok", "unbind"},
              at[p] \in CallLabels, Goto(p, l),
              l = "moveRow" => call[p].op = "rename",
              l = "dropMark" => call[p].op \in {"rename", "delete", "cleanup"},
              l = "unbind" => call[p].op = "delete",
              l = "create" => call[p].src \in Sources,
              DataOK', UNCHANGED <<agentVars, job, pass, sheet>>
       PROVE  IInv'
  <2>1. Fits(p, call[p], at[p]) /\ call[p] \in Calls
        /\ Owns(p, call[p], at[p])
      /\ (p = "events" => job \in stream) /\ (p = "hook" => sheet \in Sheets)
    BY <1>11, BusyCall DEF Parts
  <2>2. Fits(p, call[p], l) /\ Owns(p, call[p], l) /\ l \in AllLabels
    BY <1>11, <2>1 DEF Fits, Owns, Serves, Executes, AllLabels, CallLabels, Outcomes
  <2>3. StepTypeOK(Labels)' /\ CallOK' /\ JobOK'
    BY <1>11, <2>2, GotoKeepsLocals DEF Parts, agentVars
  <2>4. AgentTypeOK' /\ JobTypeOK' /\ PassTypeOK'
    BY <1>11 DEF Parts, AgentTypeOK, JobTypeOK, PassTypeOK, agentVars
  <2> QED
    BY <1>1, <1>11, <2>3, <2>4 DEF Parts
<1>12. ASSUME NEW p \in Procs, CallFails(p) PROVE IInv'
  <2>1. DataOK'
    BY <1>12, DataUntouched DEF Parts, CallFails, FailCall, varsVars
  <2> QED
    BY <1>11, <1>12, <2>1 DEF CallFails, FailCall, sheetVars
<1>21. ASSUME NEW p \in Procs, CallUnanswered(p) PROVE IInv'
  <2>1. DataOK'
    BY <1>21, UnansweredKeepsData DEF Parts, CallUnanswered
  <2>2. at[p] \in CallLabels
    BY <1>21 DEF CallUnanswered, Unanswered, WritesMark, WritesRow, CallLabels
  <2> QED
    BY <1>11, <1>21, <2>1, <2>2 DEF CallUnanswered, Unanswered, sheetVars
<1>13. ASSUME NEW p \in Procs, HandlerBlind(p) PROVE IInv'
  <2>0. DataOK'
    BY <1>13, DataUntouched DEF Parts, HandlerBlind, LookForMark, LookForDoomed, varsVars
  <2>1. CASE LookForMark(p, FALSE)
    <3>1. at[p] = "look" /\ call[p].src \in Sources
      BY <2>1 DEF Parts, LookForMark, CallOK, Fits
    <3> QED
      BY <1>11, <1>13, <2>0, <2>1, <3>1
         DEF HandlerBlind, LookForMark, CallLabels, sheetVars
  <2>2. CASE LookForDoomed(p, FALSE)
    <3>1. at[p] = "seeMark" /\ call[p].op \in {"rename", "delete", "cleanup"}
      BY <2>2 DEF Parts, LookForDoomed, CallOK, Fits
    <3> QED
      BY <1>11, <1>13, <2>0, <2>2, <3>1
         DEF HandlerBlind, LookForDoomed, AfterDrop, CallLabels, sheetVars
  <2> QED
    BY <1>13, <2>1, <2>2 DEF HandlerBlind
<1>14. CASE AckLost
  <2>1. job \in stream
    BY <1>14 DEF Parts, AckLost, Nack, JobOK, Owns, Serves, Executes
  <2>2. AgentTypeOK'
    BY <1>14, <2>1, StreamAssumption
       DEF Parts, AckLost, Nack, Redeliver, AgentTypeOK, Events
  <2>3. DataOK' /\ PassTypeOK'
    BY <1>14, DataUntouched DEF Parts, AckLost, Nack, PassTypeOK
  <2> QED
    BY <1>1, <1>14, <2>2, <2>3, IdleKeepsLocals DEF Parts, AckLost, Nack, sheetVars
<1>15. CASE VarsWriteFails
  <2>1. at["events"] \in {"ok", "project"} /\ Goto("events", "done") /\ "events" \in Procs
        /\ UNCHANGED <<jjVars, storeVars, varsVars, agentVars, job, pass, sheet>>
    BY <1>15 DEF VarsWriteFails, VarsFail, Procs, sheetVars
  <2>2. Fits("events", call["events"], "done") /\ Owns("events", call["events"], "done")
        /\ "done" \in AllLabels
    BY <2>1 DEF Parts, CallOK, JobOK, Fits, Owns, Serves, Executes, CallLabels, AllLabels, Labels,
                VarsLabels
  <2>3. StepTypeOK(Labels)' /\ CallOK' /\ JobOK'
    BY <2>1, <2>2, GotoKeepsLocals DEF Parts, agentVars
  <2>4. DataOK' /\ AgentTypeOK' /\ JobTypeOK' /\ PassTypeOK'
    BY <2>1, DataUntouched DEF Parts, AgentTypeOK, JobTypeOK, PassTypeOK, agentVars
  <2> QED
    BY <1>1, <2>3, <2>4 DEF Parts
<1>16. CASE PassFails
  <2>1. EndPass /\ UNCHANGED <<jjVars, storeVars, varsVars, agentVars, job, sheet>>
    BY <1>16 DEF PassFails, FailPass, sheetVars
  <2>2. StepTypeOK(Labels)' /\ CallOK' /\ JobOK' /\ PassTypeOK'
    BY <2>1, EndOfPass DEF agentVars
  <2>3. DataOK' /\ AgentTypeOK' /\ JobTypeOK'
    BY <2>1, DataUntouched DEF Parts, AgentTypeOK, JobTypeOK, agentVars
  <2> QED
    BY <1>1, <2>2, <2>3 DEF Parts
<1>22. CASE PassUnanswered
  <2>1. EndPass /\ UNCHANGED <<agentVars, job, sheet>>
    BY <1>22 DEF PassUnanswered, SweepUnanswered, sheetVars
  <2>2. StepTypeOK(Labels)' /\ CallOK' /\ JobOK' /\ PassTypeOK'
    BY <2>1, EndOfPass DEF agentVars
  <2>3. DataOK'
    BY <1>22, DeletingKeepsData
       DEF Parts, PassUnanswered, SweepUnanswered, DeleteRow, RowsAt, varsVars
  <2>4. AgentTypeOK' /\ JobTypeOK'
    BY <2>1 DEF Parts, AgentTypeOK, JobTypeOK, agentVars
  <2> QED
    BY <1>1, <2>2, <2>3, <2>4 DEF Parts
<1>17. ASSUME NEW repo \in Repos, PassBlind(repo) PROVE IInv'
  <2> DEFINE q == [pass EXCEPT !.tree = {w \in marks : w.repo \notin {repo}}]
  <2>1. Goto("reconcile", "rows") /\ pass' = q
        /\ UNCHANGED <<jjVars, storeVars, varsVars, agentVars, job, sheet>>
    BY <1>17 DEF PassBlind, ReadTree, Advance, sheetVars
  <2>2. PassTypeOK'
    BY <2>1 DEF Parts, PassTypeOK, Passes, DataOK, JJTypeOK
  <2>3. StepTypeOK(Labels)' /\ CallOK' /\ JobOK'
    BY <2>1, PassLocals DEF PassLabels, agentVars
  <2>4. DataOK' /\ AgentTypeOK' /\ JobTypeOK'
    BY <2>1, DataUntouched DEF Parts, AgentTypeOK, JobTypeOK, agentVars
  <2> QED
    BY <1>1, <2>2, <2>3, <2>4 DEF Parts
<1>19. CASE AdoptFails
  <2>1. DataOK'
    BY <1>19 DEF Parts, AdoptFails, FailAdoption, AdoptEnd, DataOK, JJTypeOK, StoreTypeOK,
                 VarsTypeOK, toolVars, ResolvesOwnBookmark, jjVars, storeVars
  <2> QED
    BY <1>3, <1>19, <2>1 DEF AdoptFails, FailAdoption, sheetVars
<1>20. ASSUME SheetFails \/ AnswerLost PROVE IInv'
  <2>1. Enter("hook", NoCall, "idle") /\ sheet' = None /\ "hook" \in Procs
        /\ UNCHANGED <<jjVars, storeVars, varsVars, agentVars, job, pass>>
    BY <1>20 DEF SheetFails, AnswerLost, HookFails, CarriedOut, EndHook, Procs
  <2>2. StepTypeOK(Labels)' /\ CallOK' /\ JobOK'
    BY <2>1 DEF Parts, StepTypeOK, Enter, Labels, CallOK, Fits, JobOK, Serves, Executes,
                NoCall, CallLabels, Procs, agentVars
  <2>3. DataOK' /\ AgentTypeOK' /\ JobTypeOK' /\ PassTypeOK'
    BY <2>1, DataUntouched DEF Parts, AgentTypeOK, JobTypeOK, PassTypeOK, agentVars
  <2> QED
    BY <1>1, <2>2, <2>3 DEF Parts
<1> QED
  BY <1>4, <1>5, <1>6, <1>7, <1>8, <1>9, <1>10, <1>12, <1>13, <1>14, <1>15, <1>16, <1>17,
     <1>18, <1>19, <1>20, <1>21, <1>22 DEF Environment

\* An adoption binds a bookmark to the session its own name derives, and what
\* the agent publishes for it has that name.
LEMMA AdoptStepKeepsIInv == IInv /\ AdoptStep => IInv'
<1> SUFFICES ASSUME IInv, AdoptStep PROVE IInv'
  OBVIOUS
<1>0. Parts
  BY IInvParts
<1> USE IInvParts, <1>0
<1>1. UNCHANGED <<stepVars, job, pass, sheet>> /\ calm' \in 0..2 /\ SheetTypeOK'
  BY SheetsUntouched
     DEF Parts, AdoptStep, AdoptStarts, AdoptCreates, AdoptEnds, Disturb, KeepCalm
<1>2. used' \in [BudgetKinds -> Nat]
  <2>1. {"acts", "adoptions"} \subseteq BudgetKinds
    BY DEF BudgetKinds
  <2>2. (\E k \in BudgetKinds : Spend(k)) \/ UNCHANGED used
    BY <2>1 DEF AdoptStep, AdoptStarts, AdoptCreates, AdoptEnds
  <2> QED
    BY <2>2, CountersStayTyped DEF Parts
<1>3. adoption # None => adoption.ws \in Workspaces
                         /\ AdoptedSession \in Sids
                         /\ [adoption EXCEPT !.step = "row"] \in Adoptions
  BY NamesAreABijection DEF Parts, DataOK, VarsTypeOK, toolVars, Adoptions, AdoptedSession
<1>4. ASSUME DataOK', AgentTypeOK', stream \subseteq stream' PROVE IInv'
  <2>1. StepTypeOK(Labels)' /\ CallOK' /\ JobTypeOK' /\ PassTypeOK' /\ JobOK'
    BY <1>1, <1>4 DEF Parts, stepVars, StepTypeOK, CallOK, Fits, JobTypeOK, PassTypeOK, JobOK,
                      Serves, Executes, Serving
  <2> QED
    BY <1>1, <1>2, <1>4, <2>1 DEF Parts
<1>5. ASSUME NEW w \in Adoptable, AdoptStarts(w) PROVE IInv'
  <2>1. [step |-> "session", ws |-> w] \in Adoptions
    BY <1>5, WorkspaceAssumption DEF Adoptions
  <2>2. DataOK'
    BY <1>5, <2>1 DEF Parts, AdoptStarts, FindOrphan, DataOK, JJTypeOK, StoreTypeOK,
                      VarsTypeOK, toolVars, ResolvesOwnBookmark, jjVars, storeVars
  <2> QED
    BY <1>4, <1>5, <2>2 DEF Parts, AdoptStarts, FindOrphan, AgentTypeOK, agentVars
<1>6. CASE AdoptCreates
  <2>1. EnsureSession(used["acts"]) /\ adoption # None
    BY <1>6 DEF AdoptCreates, EnsureSession, Adopting
  <2>2. DataOK'
    BY <1>3, <2>1 DEF Parts, EnsureSession, DataOK, JJTypeOK, StoreTypeOK, VarsTypeOK,
                      toolVars, ResolvesOwnBookmark, jjVars, storeVars
  <2>3. AgentTypeOK' /\ stream \subseteq stream'
    <3>1. CASE UNCHANGED agentVars
      BY <3>1 DEF Parts, AgentTypeOK, agentVars
    <3>2. CASE CreateSession(used["acts"], AdoptedSession)
      <4>1. used["acts"] \in Nat
        BY DEF Parts, BudgetKinds
      <4>2. [seq |-> used["acts"], kind |-> "created", sid |-> AdoptedSession, peer |-> None,
             tried |-> FALSE] \in Events
        BY <1>3, <2>1, <4>1 DEF Events, EventKinds
      <4> QED
        BY <1>3, <2>1, <3>2, <4>2 DEF Parts, CreateSession, Publish, AgentTypeOK
    <3> QED
      BY <2>1, <3>1, <3>2 DEF EnsureSession
  <2> QED
    BY <1>4, <2>2, <2>3
<1>7. CASE AdoptEnds
  <2>1. AgentTypeOK' /\ stream \subseteq stream'
    BY <1>7 DEF Parts, AdoptEnds, AdoptRow, AdoptRefused, AgentTypeOK, agentVars
  <2>2. adoption # None /\ adoption' = None
        /\ UNCHANGED <<jjVars, managed, cached, projected, lookup, tool>>
        /\ rows' \subseteq rows \union {[ws |-> adoption.ws, sid |-> AdoptedSession]}
    BY <1>7 DEF AdoptEnds, AdoptRow, AdoptRefused, Adopting, AdoptEnd, InsertRow, storeVars
  <2>3. [ws |-> adoption.ws, sid |-> AdoptedSession] \in Rows
        /\ AdoptedSession = NamingSession(adoption.ws)
    BY <1>3, <2>2 DEF Rows, AdoptedSession
  <2>4. DataOK'
    BY <2>2, <2>3 DEF Parts, DataOK, JJTypeOK, StoreTypeOK, VarsTypeOK, toolVars,
                      ResolvesOwnBookmark, jjVars
  <2> QED
    BY <1>4, <2>1, <2>4
<1> QED
  BY <1>5, <1>6, <1>7 DEF AdoptStep

----------------------------------------------------------------------------
(* Worksheets.                                                             *)

\* What is proposed names workspaces, and what the hook does it does for the
\* worksheet it was called for.
LEMMA SheetStepKeepsIInv == IInv /\ SheetStep => IInv'
<1> SUFFICES ASSUME IInv, SheetStep PROVE IInv'
  OBVIOUS
<1>0. Parts
  BY IInvParts
<1> USE IInvParts, <1>0
<1>1. UNCHANGED <<job, pass>> /\ calm' \in 0..2 /\ JobTypeOK' /\ PassTypeOK'
  BY DEF Parts, SheetStep, Disturb, JobTypeOK, PassTypeOK
<1>2. used' \in [BudgetKinds -> Nat]
  <2>1. {"acts", "sheets"} \subseteq BudgetKinds
    BY DEF BudgetKinds
  <2>2. (\E k \in BudgetKinds : Spend(k)) \/ UNCHANGED used
    BY <2>1 DEF SheetStep, SheetProposed, ForkProposed, DeleteProposed, SheetDecided,
                SheetActs, SheetRuns
  <2> QED
    BY <2>2, CountersStayTyped DEF Parts
\* The worksheets change, the goroutines do not.
<1>3. ASSUME UNCHANGED <<jjVars, storeVars, varsVars, agentVars, stepVars, sheet>>,
             SheetTypeOK'
      PROVE  IInv'
  <2>1. DataOK' /\ AgentTypeOK'
    BY <1>3, DataUntouched DEF Parts, AgentTypeOK, agentVars
  <2>2. StepTypeOK(Labels)' /\ CallOK' /\ JobOK'
    BY <1>1, <1>3 DEF Parts, stepVars, agentVars, StepTypeOK, CallOK, Fits, JobOK, Serves,
                      Executes, Serving
  <2> QED
    BY <1>1, <1>2, <1>3, <2>1, <2>2 DEF Parts
\* The hook goes on with the worksheet it has.
<1>4. ASSUME NEW c \in Calls \union {NoCall}, NEW l \in AllLabels, Enter("hook", c, l),
             Fits("hook", c, l), Executes(c, l), stream \subseteq stream',
             sheet' = sheet, AgentTypeOK', SheetTypeOK', DataOK'
      PROVE  IInv'
  <2>1. StepTypeOK(Labels)' /\ CallOK' /\ JobOK'
    BY <1>1, <1>4, EnterKeepsLocals DEF Parts, Owns, Procs
  <2> QED
    BY <1>1, <1>2, <1>4, <2>1 DEF Parts
\* The call of the hook ends.
<1>5. ASSUME NEW acknowledged, EndHook(acknowledged), executed' = executed,
             carried' \subseteq carried \union ({sheet} \intersect Sheets), clear' = clear,
             UNCHANGED <<jjVars, storeVars, varsVars, agentVars>>
      PROVE  IInv'
  <2>1. Enter("hook", NoCall, "idle") /\ sheet' = None /\ sheets' \subseteq sheets
    BY <1>5 DEF EndHook
  <2>2. StepTypeOK(Labels)' /\ CallOK' /\ JobOK'
    BY <1>1, <1>5, <2>1
       DEF Parts, StepTypeOK, Enter, Labels, CallOK, Fits, JobOK, Serves, Executes, NoCall,
           CallLabels, Procs, agentVars
  <2>3. SheetTypeOK'
    BY <1>5, <2>1 DEF Parts, SheetTypeOK
  <2>4. DataOK' /\ AgentTypeOK'
    BY <1>5, DataUntouched DEF Parts, AgentTypeOK, agentVars
  <2> QED
    BY <1>1, <1>2, <2>2, <2>3, <2>4 DEF Parts
\* What is known of the hook while it runs.
<1>6. ~ InHook("idle") => /\ sheet \in Sheets
                          /\ Fits("hook", call["hook"], at["hook"])
                          /\ Executes(call["hook"], at["hook"])
  BY DEF Parts, InHook, CallOK, JobOK, Executes, Procs
<1>7. ASSUME NEW l \in AllLabels \ CallLabels, l \notin {"project", "idle"},
             ~ InHook("idle"), Goto("hook", l), stream \subseteq stream',
             l \in {"dropSession", "lookup"} => Serving("delete"),
             AgentTypeOK', SheetTypeOK', DataOK', sheet' = sheet
      PROVE  IInv'
  <2>1. /\ Fits("hook", call["hook"], l) /\ Executes(call["hook"], l)
        /\ call["hook"] \in Calls \union {NoCall} /\ Enter("hook", call["hook"], l)
    BY <1>6, <1>7 DEF Fits, Executes, CallLabels, Goto, Enter, Parts, StepTypeOK, Procs
  <2> QED
    BY <1>4, <1>7, <2>1
<1>8. CASE SheetProposed
  <2>1. PICK s \in sessions, w \in Workspaces : ForkProposed(s, w) \/ DeleteProposed(s, w)
    BY <1>8 DEF SheetProposed
  <2>2. PICK r \in Resolved(s) : \/ ProposeFork(used["sheets"], r.ws, w)
                                 \/ ProposeDelete(used["sheets"], r.ws, w)
    BY <2>1 DEF ForkProposed, DeleteProposed
  <2>3. r.ws \in Workspaces /\ used["sheets"] \in Nat
    BY <2>2 DEF Parts, DataOK, StoreTypeOK, VarsTypeOK, toolVars, Resolved, Of, Rows,
                BudgetKinds
  <2>4. BookmarkHead(r.ws) \in Shas /\ {} \in Shas
    BY <2>3 DEF Parts, DataOK, JJTypeOK, BookmarkHead, Shas
  <2>5. PICK a \in {"fork", "delete"}, b \in Shas : Propose(used["sheets"], a, r.ws, w, b)
    BY <2>2, <2>4 DEF ProposeFork, ProposeDelete
  <2>6. [id |-> used["sheets"], action |-> a, from |-> r.ws, ws |-> w, base |-> b] \in Sheets
    BY <2>3 DEF Sheets
  <2>7. SheetTypeOK' /\ sheet' = sheet
    BY <2>5, <2>6 DEF Parts, Propose, SheetTypeOK
  <2> QED
    BY <1>3, <1>8, <2>7 DEF SheetProposed
<1>9. ASSUME NEW s \in sheets, SheetDecided(s) PROVE IInv'
  <2>1. s \in Sheets
    BY DEF Parts, SheetTypeOK
  <2>2. CASE Reject(s) /\ UNCHANGED <<jjVars, storeVars, varsVars, agentVars, stepVars>>
    <3>1. SheetTypeOK' /\ sheet' = sheet
      BY <2>2 DEF Parts, Reject, SheetTypeOK
    <3> QED
      BY <1>3, <2>2, <3>1
  <2>3. CASE Dispatch(s)
    <3>1. SheetTypeOK'
      BY <2>1, <2>3 DEF Parts, Dispatch, SheetTypeOK
    <3>2. DataOK' /\ AgentTypeOK'
      BY <2>3, DataUntouched DEF Parts, Dispatch, AgentTypeOK, agentVars
    <3>3. at["hook"] = "idle" /\ call["hook"] = NoCall /\ sheet' = s
          /\ stream' = stream /\ Goto("hook", "record") /\ "hook" \in Procs
      BY <2>3 DEF Parts, Dispatch, InHook, JobOK, Executes, agentVars, Procs
    <3>4. StepTypeOK(Labels)' /\ CallOK'
      BY <3>3 DEF Parts, StepTypeOK, CallOK, Fits, NoCall, Goto, Labels, SheetLabels,
                  CallLabels, Procs
    <3>5. JobOK'
      BY <1>1, <2>1, <3>3 DEF Parts, JobOK, Serves, Executes, NoCall, Goto, StepTypeOK, Procs
    <3> QED
      BY <1>1, <1>2, <3>1, <3>2, <3>4, <3>5 DEF Parts
  <2> QED
    BY <1>9, <2>2, <2>3 DEF SheetDecided
\* The session is forked or deleted.
<1>10. ASSUME NEW l \in {"done", "lookup"}, ~ InHook("idle"), Goto("hook", l),
              l = "lookup" => Serving("delete"),
              UNCHANGED <<jjVars, storeVars, varsVars, sheetVars>>,
              \/ UNCHANGED agentVars
              \/ \E kind \in EventKinds, s \in Sids, peer \in Sids \union {None} :
                     Publish(used["acts"], kind, s, peer) /\ sessions' \subseteq sessions \union {s}
       PROVE  IInv'
  <2>1. AgentTypeOK' /\ stream \subseteq stream'
    <3>1. CASE UNCHANGED agentVars
      BY <3>1 DEF Parts, AgentTypeOK, agentVars
    <3>2. ASSUME NEW kind \in EventKinds, NEW s \in Sids, NEW peer \in Sids \union {None},
                 Publish(used["acts"], kind, s, peer), sessions' \subseteq sessions \union {s}
          PROVE  AgentTypeOK' /\ stream \subseteq stream'
      <4>1. [seq |-> used["acts"], kind |-> kind, sid |-> s, peer |-> peer, tried |-> FALSE]
                \in Events
        BY DEF Parts, BudgetKinds, Events
      <4> QED
        BY <3>2, <4>1 DEF Parts, Publish, AgentTypeOK
    <3> QED
      BY <1>10, <3>1, <3>2
  <2>2. SheetTypeOK' /\ sheet' = sheet /\ DataOK'
    BY <1>10, SheetsUntouched, DataUntouched DEF Parts
  <2>3. l \in AllLabels \ CallLabels /\ l \notin {"project", "idle"}
    BY DEF AllLabels, Labels, VarsLabels, SheetLabels, CallLabels
  <2> QED
    BY <1>7, <1>10, <2>1, <2>2, <2>3
<1>11. CASE SheetActs
  <2>1. ~ InHook("idle") /\ sheet \in Sheets
        /\ UNCHANGED <<jjVars, storeVars, varsVars, sheetVars>>
        /\ (Goto("hook", "done") \/ (Goto("hook", "lookup") /\ Serving("delete")))
    BY <1>6, <1>11 DEF SheetActs, SheetForks, DropSession, InHook, Executes
  <2>2. NamingSession(sheet.from) \in Sids /\ NamingSession(sheet.ws) \in Sids
    BY <2>1, NamesAreABijection DEF Sheets
  <2>3. \/ UNCHANGED agentVars
        \/ /\ Publish(used["acts"], "forked", NamingSession(sheet.ws),
                      NamingSession(sheet.from))
           /\ sessions' \subseteq sessions \union {NamingSession(sheet.ws)}
        \/ /\ Publish(used["acts"], "deleted", NamingSession(sheet.ws), None)
           /\ sessions' \subseteq sessions \union {NamingSession(sheet.ws)}
    BY <1>11 DEF SheetActs, SheetForks, DropSession, ForkSession, DeleteSession
  <2>4. "forked" \in EventKinds /\ "deleted" \in EventKinds
    BY DEF EventKinds
  <2> QED
    BY <1>10, <2>1, <2>2, <2>3, <2>4
<1>12. CASE SheetRuns
  <2>1. ~ InHook("idle") /\ sheet \in Sheets
    BY <1>6, <1>12 DEF SheetRuns
  <2>2. CASE AlreadyExecuted \/ HookRefuses \/ CarriedOut({sheet})
    BY <1>5, <2>1, <2>2 DEF AlreadyExecuted, HookRefuses, CarriedOut
  <2>3. CASE AnsweredMeanwhile
    <3>1. SheetTypeOK' /\ sheet' = sheet
      BY <2>3 DEF Parts, AnsweredMeanwhile, SheetTypeOK
    <3> QED
      BY <1>3, <2>3, <3>1 DEF AnsweredMeanwhile
  <2>4. CASE Forking \/ NothingToFork
    <3>1. PICK l \in {"fork", "retry"} : Goto("hook", l)
      BY <2>4 DEF Forking, NothingToFork
    <3>2. UNCHANGED <<jjVars, storeVars, varsVars, agentVars, sheetVars>>
      BY <2>4 DEF Forking, NothingToFork
    <3>3. SheetTypeOK' /\ sheet' = sheet /\ DataOK' /\ AgentTypeOK' /\ stream \subseteq stream'
      BY <3>2, SheetsUntouched, DataUntouched DEF Parts, AgentTypeOK, agentVars
    <3>4. l \in AllLabels \ CallLabels /\ l \notin {"project", "idle"}
      BY DEF AllLabels, Labels, SheetLabels, CallLabels, Outcomes
    <3> QED
      BY <1>7, <2>1, <3>1, <3>3, <3>4
  <2>5. CASE Record
    <3>1. UNCHANGED <<jjVars, storeVars, varsVars, agentVars>> /\ sheet' = sheet
          /\ executed' = executed \union {sheet.id} /\ clear' \subseteq clear \union {sheet}
          /\ sheets' = sheets /\ carried' = carried /\ Begin(sheet) /\ InHook("record")
      BY <2>5 DEF Record
    <3>2. SheetTypeOK'
      BY <2>1, <3>1 DEF Parts, SheetTypeOK, Sheets
    <3>3. DataOK' /\ AgentTypeOK' /\ stream \subseteq stream'
      BY <3>1, DataUntouched DEF Parts, AgentTypeOK, agentVars
    <3>4. CASE sheet.action = "fork"
      <4> DEFINE c == Call("forkAt", sheet.ws, sheet.from, sheet.base)
      <4>1. Enter("hook", c, "findRow")
        BY <3>1, <3>4 DEF Begin, BaseOf
      <4>2. c \in Calls /\ c.op = "forkAt" /\ c.src \in Sources
        BY <2>1 DEF Call, Calls, Ops, Sheets, Sources
      <4>3. Fits("hook", c, "findRow") /\ Executes(c, "findRow") /\ "findRow" \in AllLabels
        BY <2>1, <4>2 DEF Fits, Executes, AllLabels, CallLabels
      <4> HIDE DEF c
      <4> QED
        BY <1>4, <3>1, <3>2, <3>3, <4>1, <4>2, <4>3
    <3>5. CASE sheet.action # "fork"
      <4>1. Goto("hook", "dropSession")
        BY <3>1, <3>5 DEF Begin
      <4>2. "dropSession" \in AllLabels \ CallLabels /\ Serving("delete")
        BY <2>1, <3>5, SheetsAssumption DEF AllLabels, Labels, SheetLabels, CallLabels,
             Sheets, Serving
      <4> QED
        BY <1>7, <2>1, <3>1, <3>2, <3>3, <4>1, <4>2
    <3> QED
      BY <3>4, <3>5
  <2>6. CASE FindDoomed
    <3> DEFINE full == Call("delete", sheet.ws, None, None)
               bare == Call("cleanup", sheet.ws, None, None)
    <3>1. UNCHANGED <<jjVars, storeVars, varsVars, agentVars, sheetVars>>
          /\ InHook("lookup")
          /\ (Enter("hook", full, "findRow") \/ Enter("hook", bare, "seeMark"))
      BY <2>6 DEF FindDoomed
    <3>2. SheetTypeOK' /\ sheet' = sheet /\ DataOK' /\ AgentTypeOK' /\ stream \subseteq stream'
      BY <3>1, SheetsUntouched, DataUntouched DEF Parts, AgentTypeOK, agentVars
    <3>3. full \in Calls /\ full.op = "delete" /\ full.ws = sheet.ws
          /\ bare \in Calls /\ bare.op = "cleanup" /\ bare.ws = sheet.ws
      BY <2>1 DEF Call, Calls, Ops, Sheets
    <3> HIDE DEF full, bare
    <3>4. Fits("hook", full, "findRow") /\ Fits("hook", bare, "seeMark")
          /\ {"findRow", "seeMark"} \subseteq AllLabels
      BY <3>3 DEF Fits, AllLabels, CallLabels
    <3>5. Executes(full, "findRow") /\ Executes(bare, "seeMark")
      BY <1>6, <2>1, <3>1, <3>3 DEF InHook, Executes
    <3> QED
      BY <1>4, <3>1, <3>2, <3>3, <3>4, <3>5
  <2>7. CASE HookProgress
    <3>1. Progress("hook") /\ "hook" \in Procs
          /\ UNCHANGED <<projected, toolVars, agentVars, sheetVars>>
      BY <2>7 DEF HookProgress, Procs
    <3>2. SheetTypeOK' /\ sheet' = sheet
      BY <3>1, SheetsUntouched DEF Parts
    <3>3. StepTypeOK(Labels)' /\ CallOK' /\ JobOK'
      BY <1>1, <3>1, <3>2, ProgressKeepsLocals DEF Parts, agentVars
    <3>4. DataOK' /\ AgentTypeOK'
      BY <3>1, ProgressKeepsData DEF Parts, AgentTypeOK, agentVars
    <3> QED
      BY <1>1, <1>2, <3>2, <3>3, <3>4 DEF Parts
  <2> QED
    BY <1>12, <2>2, <2>3, <2>4, <2>5, <2>6, <2>7 DEF SheetRuns
<1> QED
  BY <1>8, <1>9, <1>11, <1>12 DEF SheetStep, SheetDecided

----------------------------------------------------------------------------
(* Every step, and the theorems.                                           *)

\* The invariant reads the variables only.
LEMMA StutterKeepsIInv == IInv /\ UNCHANGED vars => IInv'
<1> SUFFICES ASSUME IInv, UNCHANGED vars PROVE IInv'
  OBVIOUS
<1>1. Parts
  BY IInvParts
<1>2. UNCHANGED <<jjVars, storeVars, varsVars, agentVars, stepVars, job, pass, sheetVars,
                  used, calm>>
  BY DEF vars
<1>3. DataOK'
  BY <1>1, <1>2, DataUntouched DEF Parts
<1>4. Parts'
  BY <1>1, <1>2, <1>3
     DEF Parts, stepVars, agentVars, sheetVars, StepTypeOK, CallOK, Fits, JobOK, Serves,
         Executes, Serving, AgentTypeOK, JobTypeOK, PassTypeOK, SheetTypeOK
<1> QED
  BY <1>4, IInvParts

\* No step of the agent, the faults, the consumer, the reconciler, an adoption
\* or a worksheet breaks it.
LEMMA NextKeepsIInv == IInv /\ [Next]_vars => IInv'
BY StutterKeepsIInv, EnvironmentKeepsIInv, EventsStepKeepsIInv, PassStepKeepsIInv,
   AdoptStepKeepsIInv, SheetStepKeepsIInv DEF Next

\* The locals of both goroutines always match the label they are at and the
\* event they serve, and every table is typed and well named.
THEOREM Invariance == Spec => []IInv
<1>1. Init => IInv
  BY InitIInv
<1>2. IInv /\ [Next]_vars => IInv'
  BY NextKeepsIInv
<1> QED
  BY <1>1, <1>2, PTL DEF Spec

\* Every variable keeps its type, whatever the sets and bounds.
THEOREM TypeCorrect == Spec => []TypeOK
<1>1. IInv => TypeOK
  BY DEF IInv
<1> QED
  BY <1>1, Invariance, PTL

\* Whatever the table, the cache, a lookup in flight or the variable KV says
\* about a session is its own bookmark: bindRow, RenameRow, cache.put and
\* publishSessionVars never hand out the bookmark of another session.
THEOREM OwnBookmark == Spec => []ResolvesOwnBookmark
<1>1. IInv => ResolvesOwnBookmark
  BY DEF IInv
<1> QED
  BY <1>1, Invariance, PTL

\* The mapping table is a strict one-to-one relation between sessions and
\* bookmarks, with two goroutines and adoptions writing to it.
THEOREM Bijective == Spec => []OneToOne
<1>1. IInv => OneToOne
  <2> SUFFICES ASSUME IInv PROVE OneToOne
    OBVIOUS
  <2>1. \A r \in rows : r.sid = NamingSession(r.ws)
    BY DEF IInv, ResolvesOwnBookmark
  <2>2. rows \subseteq Rows
    BY DEF IInv, TypeOK, StoreTypeOK
  <2>3. ASSUME NEW r \in rows, NEW q \in rows, r.ws = q.ws \/ r.sid = q.sid PROVE r = q
    <3>1. r.ws \in Workspaces /\ q.ws \in Workspaces
          /\ r = [ws |-> r.ws, sid |-> r.sid] /\ q = [ws |-> q.ws, sid |-> q.sid]
      BY <2>2 DEF Rows
    <3>2. r.ws = q.ws
      BY <2>1, <2>3, <3>1, NamesAreABijection
    <3> QED
      BY <2>1, <3>1, <3>2
  <2> QED
    BY <2>1, <2>3 DEF OneToOne
<1> QED
  BY <1>1, Invariance, PTL

\* The DELETE of a handler, whether its answer arrives or not.
Drops(p) == at[p] = "dropMark" /\ DropBookmark(Doomed(call[p]))

\* One step: bookmarks disappear only by a user of jj and by DeleteBookmark.
LEMMA MarksLeave ==
    Next => \/ marks \subseteq marks'
            \/ \E w \in Removable : JJRemoves(w)
            \/ \E p \in Procs : Drops(p)
<1> SUFFICES ASSUME Next PROVE \/ marks \subseteq marks'
                               \/ \E w \in Removable : JJRemoves(w)
                               \/ \E p \in Procs : Drops(p)
  OBVIOUS
<1>1. ASSUME NEW p \in Procs, Progress(p), ~ Drops(p) PROVE marks \subseteq marks'
  BY <1>1
     DEF Progress, AlreadyMirrored, NotMirrored, ForkNotMirrored, FindParent, FindFrom,
         FindDeleted, MakeRepo, EnsureRepo, ChooseAnchor, LookForMark, MakeMark,
         CreateBookmark, MarkRefused, BindRow, AlreadyBound, ManageRepo, MoveRow,
         RowNotMoved, LookForDoomed, DropMark, Drops, DropRefused, Unbind, jjVars
<1>7. ASSUME NEW p \in Procs, CallUnanswered(p), ~ Drops(p) PROVE marks \subseteq marks'
  BY <1>7 DEF CallUnanswered, Unanswered, WritesMark, EnsureRepo, CreateBookmark, Drops, jjVars
<1>2. CASE Environment
  BY <1>2, <1>7
     DEF Environment, AgentActs, AgentCreates, AgentForks, AgentRenames, AgentDeletes,
         LoseEvent, ToolStarts, ToolCommits, Commit, ToolLooksUp, CacheChanges, Crash,
         CallFails, FailCall,
         HandlerBlind, LookForMark, LookForDoomed, AckLost, Nack, VarsWriteFails, VarsFail,
         PassFails, FailPass, PassUnanswered, SweepUnanswered, AdoptFails, FailAdoption,
         PassBlind, ReadTree, SheetFails, HookFails, AnswerLost, CarriedOut, others, jjVars
<1>3. CASE EventsStep
  <2>1. "events" \in Procs
    BY DEF Procs
  <2> QED
    BY <1>1, <1>3, <2>1
       DEF EventsStep, Deliver, Ack, Nack, ResolveVars, PublishSessionVars,
           ClearSessionVars,
           jjVars
<1>4. CASE ReconcileStep
  <2>1. "reconcile" \in Procs
    BY DEF Procs
  <2> QED
    BY <1>1, <1>4, <2>1
       DEF ReconcileStep, StartTick, StartPass, CompletePass, PassDone, AbortPass,
           PassAborted, PassStep, ReadManaged, ReadTree, ReadRows, SweepRow, ReadMapped,
           Backfill, jjVars
<1>5. CASE AdoptStep
  BY <1>5 DEF AdoptStep, AdoptStarts, FindOrphan, AdoptCreates, EnsureSession, AdoptEnds,
              AdoptRow, AdoptRefused, jjVars
<1>6. CASE SheetStep
  <2>1. "hook" \in Procs
    BY DEF Procs
  <2> QED
    BY <1>1, <1>6, <2>1
       DEF SheetStep, SheetProposed, SheetDecided, Reject, Dispatch, SheetActs, SheetForks,
           DropSession, SheetRuns, Record, AlreadyExecuted, AnsweredMeanwhile, Forking,
           NothingToFork, FindDoomed, HookProgress, HookRefuses, CarriedOut, jjVars
<1> QED
  BY <1>2, <1>3, <1>4, <1>5, <1>6 DEF Next

\* The extension removes a bookmark only while it serves the deletion of its
\* session, its renaming or an approved worksheet for its deletion: the
\* reconciler never does, and neither does a handler that works for another
\* session.
THEOREM Losses == Spec => LossOnlyOnRequest
<1> DEFINE Fair == \A w \in marks \ marks' :
                      Requested(w) \/ used'["removals"] # used["removals"]
<1>1. ASSUME IInv, Next PROVE Fair
  <2>0. Parts
    BY <1>1, IInvParts
  <2>1. CASE marks \subseteq marks'
    BY <2>1
  <2>2. ASSUME NEW v \in Removable, JJRemoves(v) PROVE Fair
    <3>1. used["removals"] \in Nat /\ "removals" \in BudgetKinds /\ "removals" # "troubles"
      BY <2>0 DEF Parts, BudgetKinds, Troubles
    <3>2. used'["removals"] = used["removals"] + 1
      BY <2>0, <2>2, <3>1 DEF Parts, JJRemoves, Trouble
    <3> QED
      BY <3>1, <3>2
  <2>3. ASSUME NEW p \in Procs, Drops(p) PROVE Fair
    <3> DEFINE c == call[p]
    <3>1. at[p] = "dropMark" /\ marks' = marks \ {Doomed(c)}
      BY <2>3 DEF Drops, DropBookmark
    <3>2. Fits(p, c, "dropMark") /\ Owns(p, c, "dropMark")
      BY <2>0, <3>1 DEF Parts, CallOK, JobOK, Owns
    <3>3. \/ c.op \in {"rename", "delete"} /\ p = "events" /\ job \in stream
          \/ c.op \in {"delete", "cleanup"} /\ p = "hook"
      BY <3>2 DEF Fits, Owns, Serves, Executes, Procs
    <3>4. Requested(Doomed(c))
      BY <3>2, <3>3 DEF Owns, Serves, Executes, Requested, Doomed
    <3> QED
      BY <3>1, <3>4
  <2> QED
    BY <1>1, <2>1, <2>2, <2>3, MarksLeave
<1>2. IInv /\ [Next]_vars => [Fair]_vars
  BY <1>1
<1>3. []IInv /\ [][Next]_vars => [][Fair]_vars
  BY <1>2, PTL
<1> QED
  BY <1>3, Invariance, PTL DEF Spec, LossOnlyOnRequest
================================================================================
