----------------------------- MODULE ConsumerProofs -----------------------------
(***************************************************************************)
(* Machine-checked proofs about the lifecycle consumer working alone: no   *)
(* reconciler pass ticks in between and no worksheet is proposed.  The     *)
(* agent, adoptions, the tools, users of jj, lost events and answers,      *)
(* failing calls and crashes are all there, for every set of repositories, *)
(* bookmarks, stray names and commits, and every bound.                    *)
(*                                                                         *)
(* Alone, the consumer is the only one to remove rows and to make          *)
(* bookmarks, so what a handler has looked up stays true until it uses it. *)
(* The invariants say what that is, label by label: which row a rename     *)
(* still has, which bookmark is in hand without a row, which row an entry  *)
(* for the cache comes from, and which event a call serves.                *)
(***************************************************************************)
EXTENDS WorkspaceProofs, FiniteSetTheorems

Alone == ~ Ticking /\ Limit["sheets"] = 0

\* A step at which neither a pass begins nor a worksheet is proposed.
Solo == ~ Ticking /\ ~ Spend("sheets")

\* The label and the call of the consumer.
Label == at["events"]
Held == call["events"]

OthersIdle ==
    /\ at["reconcile"] = "idle" /\ at["hook"] = "idle"
    /\ sheets = {} /\ used["sheets"] = 0
----------------------------------------------------------------------------
(* The steps there are.                                                    *)

ConsumerFails ==
    \/ CallFails("events") \/ CallUnanswered("events") \/ HandlerBlind("events")
    \/ AckLost \/ VarsWriteFails

Outside == AgentActs \/ (\E e \in stream : LoseEvent(e)) \/ (\E w \in Removable : JJRemoves(w))

ToolSteps ==
    \/ \E s \in Sids : ToolStarts(s)
    \/ \E c \in Commits : ToolCommits(c)
    \/ \E r \in rows : ToolLooksUp(r)
    \/ CacheChanges

AdoptActs == AdoptStep \/ AdoptFails

\* A handler's calls are made at the labels of calls.
LEMMA CallsAreMade ==
    /\ \A p \in Procs : Progress(p) => at[p] \in CallLabels
    /\ \A p \in Procs, listed \in BOOLEAN :
           LookForMark(p, listed) \/ LookForDoomed(p, listed) => at[p] \in CallLabels
    /\ \A p \in Procs : Unanswered(p) => at[p] \in CallLabels
BY DEF CallLabels, Progress, AlreadyMirrored, NotMirrored, ForkNotMirrored, FindParent,
       FindFrom, FindDeleted, MakeRepo, ChooseAnchor, LookForMark, MakeMark, MarkRefused,
       BindRow, AlreadyBound, ManageRepo, MoveRow, RowNotMoved, LookForDoomed, DropMark,
       DropRefused, Unbind, Unanswered, WritesMark, WritesRow

\* While the pass and the hook are idle they stay so.
LEMMA SoloSteps ==
    ASSUME Solo, TypeOK, OthersIdle, Next
    PROVE  EventsStep \/ ConsumerFails \/ Crash \/ Outside \/ ToolSteps \/ AdoptActs
<1>1. ~ ReconcileStep
  <2>1. ~ StartTick
    BY DEF Solo, StartTick
  <2>2. ~ CompletePass /\ ~ AbortPass
    BY DEF OthersIdle, CompletePass, PassDone, Between, AbortPass, PassAborted
  <2>3. ~ PassStep
    <3>1. ~ Progress("reconcile")
      BY CallsAreMade DEF OthersIdle, CallLabels, Procs
    <3> QED
      BY <3>1 DEF OthersIdle, PassStep, ReadManaged, ReadTree, ReadRows, SweepRow, ReadMapped,
                  Backfill, Between
  <2> QED
    BY <2>1, <2>2, <2>3 DEF ReconcileStep
<1>2. ~ SheetStep
  <2>1. ~ SheetProposed
    BY DEF Solo, SheetProposed, ForkProposed, DeleteProposed
  <2>2. ~ SheetActs /\ ~ SheetRuns
    BY DEF OthersIdle, SheetActs, SheetForks, DropSession, SheetRuns, InHook
  <2> QED
    BY <2>1, <2>2 DEF SheetStep, OthersIdle
<1>3. ASSUME NEW p \in Procs, p # "events"
      PROVE  ~ CallFails(p) /\ ~ CallUnanswered(p) /\ ~ HandlerBlind(p)
  <2>1. at[p] \notin CallLabels
    BY <1>3 DEF OthersIdle, Procs, CallLabels
  <2> QED
    BY <2>1, CallsAreMade DEF CallFails, FailCall, CallUnanswered, HandlerBlind
<1>4. ~ PassFails /\ ~ PassUnanswered /\ (\A r \in Repos : ~ PassBlind(r))
  BY DEF OthersIdle, PassFails, FailPass, PassLabels, PassUnanswered, SweepUnanswered, PassBlind,
         ReadTree
<1>5. ~ SheetFails /\ ~ AnswerLost
  BY DEF OthersIdle, SheetFails, HookFails, SheetLabels, AnswerLost, CarriedOut, InHook
<1>6. CASE Environment
  BY <1>3, <1>4, <1>5, <1>6 DEF Environment, ConsumerFails, Outside, ToolSteps, AdoptActs
<1> QED
  BY <1>1, <1>2, <1>6 DEF Next, AdoptActs

LEMMA AloneIsSolo == ASSUME Alone, OthersIdle PROVE Solo
BY DEF Alone, OthersIdle, Solo, Spend

LEMMA AloneSteps ==
    ASSUME Alone, TypeOK, OthersIdle, Next
    PROVE  EventsStep \/ ConsumerFails \/ Crash \/ Outside \/ ToolSteps \/ AdoptActs
BY SoloSteps, AloneIsSolo

\* A step of the consumer moves no other goroutine.
LEMMA ConsumerMoves ==
    ASSUME StepTypeOK(Labels), NEW l, NEW c
    PROVE  /\ Goto("events", l) => Label' = l /\ Held' = Held
           /\ Enter("events", c, l) => Label' = l /\ Held' = c
           /\ Goto("events", l) \/ Enter("events", c, l)
                => at'["reconcile"] = at["reconcile"] /\ at'["hook"] = at["hook"]
BY DEF StepTypeOK, Goto, Enter, Procs, Label, Held

OnlyConsumerMoves == at'["reconcile"] = at["reconcile"] /\ at'["hook"] = at["hook"]

\* Inside a handler: the consumer's next label is a call or an outcome.
InHandler == OnlyConsumerMoves /\ Label' \in CallLabels \union Outcomes

LEMMA ProgressStaysInHandler ==
    ASSUME StepTypeOK(Labels), Progress("events") PROVE InHandler
<1> DEFINE Inside == {"findRow", "parent", "fromRow", "repo", "anchor", "look", "create",
                      "bind", "manage", "moveRow", "seeMark", "dropMark", "unbind",
                      "ok", "retry", "reject"}
<1>1. \A l \in Inside : \A c : Goto("events", l) \/ Enter("events", c, l) => InHandler
  BY ConsumerMoves DEF OnlyConsumerMoves, InHandler, CallLabels, Outcomes
<1>2. CASE \/ AlreadyMirrored("events") \/ NotMirrored("events")
           \/ ForkNotMirrored("events") \/ FindDeleted("events")
  BY <1>1, <1>2 DEF AlreadyMirrored, Return, NotMirrored, ForkNotMirrored, FindDeleted
<1>3. CASE \/ FindParent("events") \/ FindFrom("events")
           \/ MakeRepo("events") \/ ChooseAnchor("events")
  BY <1>1, <1>3 DEF FindParent, FindFrom, MakeRepo, AfterRepo, ChooseAnchor
<1>4. CASE \/ LookForMark("events", TRUE) \/ MakeMark("events") \/ MarkRefused("events")
  BY <1>1, <1>4 DEF LookForMark, MakeMark, MarkRefused, AfterMark
<1>5. CASE BindRow("events") \/ AlreadyBound("events") \/ ManageRepo("events")
  BY <1>1, <1>5 DEF BindRow, AlreadyBound, ManageRepo, Return
<1>6. CASE \/ MoveRow("events") \/ RowNotMoved("events") \/ LookForDoomed("events", TRUE)
           \/ DropMark("events") \/ DropRefused("events") \/ Unbind("events")
  BY <1>1, <1>6 DEF MoveRow, RowNotMoved, LookForDoomed, AfterDrop, DropMark, DropRefused,
                    Unbind
<1> QED
  BY <1>2, <1>3, <1>4, <1>5, <1>6, ZenonT(30) DEF Progress

\* Where EnsureBookmark goes after its look at the tree.
LEMMA LookMoves ==
    ASSUME StepTypeOK(Labels), NEW listed \in BOOLEAN, LookForMark("events", listed)
    PROVE  /\ Label = "look" /\ Held' = Held
           /\ \/ Held.ws.repo \notin repos /\ Label' = "reject"
              \/ Held.ws \in marks /\ listed /\ Label' = AfterMark(Held)
              \/ Held.ws.repo \in repos /\ ~ (Held.ws \in marks /\ listed)
                  /\ Label' = "create"
<1> DEFINE seen == Held.ws \in marks /\ listed
           next == CASE Held.ws.repo \notin repos -> "reject"
                     [] seen -> AfterMark(Held)
                     [] OTHER -> "create"
<1>1. Label = "look" /\ Goto("events", next)
  BY DEF LookForMark, Label, Held
<1>2. \/ Held.ws.repo \notin repos /\ next = "reject"
      \/ seen /\ next = AfterMark(Held)
      \/ Held.ws.repo \in repos /\ ~ seen /\ next = "create"
  BY DEF AfterMark
<1> HIDE DEF next
<1>3. Label' = next /\ Held' = Held
  BY <1>1, ConsumerMoves
<1> QED
  BY <1>1, <1>2, <1>3

\* Where DeleteBookmark goes.
LEMMA DoomedMoves ==
    ASSUME StepTypeOK(Labels), NEW listed \in BOOLEAN, LookForDoomed("events", listed)
    PROVE  /\ Label = "seeMark" /\ Held' = Held
           /\ \/ Doomed(Held) \in marks /\ listed /\ Label' = "dropMark"
              \/ ~ (Doomed(Held) \in marks /\ listed) /\ Label' = AfterDrop(Held)
<1> DEFINE next == IF Doomed(Held) \in marks /\ listed THEN "dropMark" ELSE AfterDrop(Held)
<1>1. Label = "seeMark" /\ Goto("events", next)
  BY DEF LookForDoomed, Label, Held
<1>2. Label' = next /\ Held' = Held
  BY <1>1, ConsumerMoves
<1> QED
  BY <1>1, <1>2

LEMMA EventsMoveConsumer ==
    ASSUME StepTypeOK(Labels), EventsStep PROVE OnlyConsumerMoves
<1>1. \A l, c : Goto("events", l) \/ Enter("events", c, l) => OnlyConsumerMoves
  BY ConsumerMoves DEF OnlyConsumerMoves
<1>2. CASE \E e \in stream : Deliver(e)
  BY <1>1, <1>2 DEF Deliver
<1>3. CASE Ack \/ Nack("retry")
  BY <1>1, <1>3 DEF Ack, Nack
<1>4. CASE ResolveVars
  BY <1>1, <1>4 DEF ResolveVars
<1>5. CASE PublishSessionVars \/ ClearSessionVars
  BY <1>1, <1>5 DEF PublishSessionVars, ClearSessionVars
<1> QED
  BY <1>2, <1>3, <1>4, <1>5, ProgressStaysInHandler DEF EventsStep, InHandler

\* What is spent on one kind of action is not taken from another.
LEMMA Spent ==
    ASSUME used \in [BudgetKinds -> Nat], NEW k \in BudgetKinds
    PROVE  /\ \A kind \in BudgetKinds \ {k} : Spend(kind) => used'[k] = used[k]
           /\ \A kind \in BudgetKinds \ {k, "troubles"} : k # "troubles" /\ Trouble(kind)
                                                            => used'[k] = used[k]
           /\ \A kind \in BudgetKinds : Spend(kind) \/ Trouble(kind)
                => used' \in [BudgetKinds -> Nat] /\ used'[k] >= used[k]
           /\ Spend(k) \/ Trouble(k) => used'[k] # 0
BY DEF Spend, Trouble, BudgetKinds, Troubles

LEMMA OthersStayIdle ==
    ASSUME Solo, TypeOK, OthersIdle, Next PROVE OthersIdle'
<1>1. StepTypeOK(Labels) /\ used \in [BudgetKinds -> Nat]
  BY DEF TypeOK
<1>2. /\ \A kind \in BudgetKinds \ {"sheets"} : Spend(kind) => used'["sheets"] = used["sheets"]
      /\ \A kind \in {"faults", "unanswered", "blind", "lost", "removals"} :
             Trouble(kind) => used'["sheets"] = used["sheets"]
      /\ {"acts", "adoptions", "commits", "lookups"} \subseteq BudgetKinds \ {"sheets"}
  BY <1>1, Spent DEF BudgetKinds, Troubles
<1>3. CASE EventsStep
  BY <1>1, <1>3, EventsMoveConsumer DEF EventsStep, OnlyConsumerMoves, sheetVars, OthersIdle
<1>4. CASE ConsumerFails
  BY <1>1, <1>2, <1>4, ConsumerMoves
     DEF ConsumerFails, CallFails, FailCall, CallUnanswered, Unanswered, HandlerBlind, LookForMark,
         LookForDoomed, AckLost, Nack, VarsWriteFails, VarsFail, sheetVars, OthersIdle
<1>5. CASE Crash
  BY <1>2, <1>5 DEF Crash, OthersIdle, Procs
<1>6. CASE Outside
  BY <1>2, <1>6 DEF Outside, AgentActs, AgentCreates, AgentForks, AgentRenames, AgentDeletes,
                    LoseEvent, JJRemoves, others, stepVars, sheetVars, OthersIdle
<1>7. CASE ToolSteps
  BY <1>2, <1>7 DEF ToolSteps, ToolStarts, ToolCommits, ToolLooksUp, CacheChanges, stepVars,
                    sheetVars, OthersIdle
<1>8. CASE AdoptActs
  BY <1>2, <1>8 DEF AdoptActs, AdoptStep, AdoptStarts, AdoptCreates, AdoptEnds, AdoptFails,
                    stepVars, sheetVars, OthersIdle
<1> QED
  BY <1>3, <1>4, <1>5, <1>6, <1>7, <1>8, SoloSteps

----------------------------------------------------------------------------
(* The cache.                                                              *)

\* What is cached and what the consumer is about to cache.
InUse ==
    cached \union (IF Label = "project" THEN {[ws |-> Held.ws, sid |-> job.sid]} ELSE {})

Unmapped == InUse \ rows

\* A lookup that has not reached the cache yet.
InFlight == IF lookup = None THEN 0 ELSE 1

\* What a stale entry can be due to: a statement whose answer was lost, a lookup.
Occasions == used["unanswered"] + used["lookups"]

\* Each of these that is no row had an occasion of its own.
CacheOK ==
    /\ IsFiniteSet(Unmapped)
    /\ Cardinality(Unmapped) + InFlight <= Occasions

LEMMA OccasionsCount == ASSUME used \in [BudgetKinds -> Nat] PROVE Occasions \in Nat
BY DEF Occasions, BudgetKinds, Troubles

\* Entries, lookups in flight and occasions, before and after.
LEMMA Balance ==
    ASSUME NEW n \in Nat, NEW m \in Nat, NEW i \in Nat, NEW j \in Nat,
           NEW o \in Nat, NEW q \in Nat, NEW k \in Nat,
           n + i <= o, m <= n + k
    PROVE  /\ j + k + o <= i + q => m + j <= q
           /\ k = 0 /\ j + o <= i + q => m + j <= q
OBVIOUS

\* A step that unmaps nothing in use takes nothing from the account.
LEMMA KeepsCache ==
    ASSUME CacheOK, used \in [BudgetKinds -> Nat], used' \in [BudgetKinds -> Nat],
           InFlight' + Occasions <= InFlight + Occasions', Unmapped' \subseteq Unmapped
    PROVE  CacheOK'
<1>1. IsFiniteSet(Unmapped) /\ Cardinality(Unmapped) + InFlight <= Occasions
  BY DEF CacheOK
<1>2. /\ IsFiniteSet(Unmapped') /\ Cardinality(Unmapped') <= Cardinality(Unmapped)
      /\ Cardinality(Unmapped) \in Nat /\ Cardinality(Unmapped') \in Nat
  BY <1>1, FS_Subset, FS_CardinalityType
<1>3. Occasions \in Nat /\ Occasions' \in Nat /\ InFlight \in Nat /\ InFlight' \in Nat
  <2>1. Occasions \in Nat
    BY OccasionsCount
  <2>2. Occasions' \in Nat
    BY DEF Occasions, BudgetKinds, Troubles
  <2> QED
    BY <2>1, <2>2 DEF InFlight
<1>4. Cardinality(Unmapped') + InFlight' <= Occasions'
  <2>1. Cardinality(Unmapped') <= Cardinality(Unmapped) + 0
    BY <1>2
  <2> QED
    BY <1>1, <1>2, <1>3, <2>1, Balance
<1> QED
  BY <1>2, <1>4 DEF CacheOK

\* A step that unmaps one entry has an occasion for it.
LEMMA OneMoreUnmapped ==
    ASSUME CacheOK, used \in [BudgetKinds -> Nat], used' \in [BudgetKinds -> Nat],
           NEW x, Unmapped' \subseteq Unmapped \union {x},
           InFlight' + 1 + Occasions <= InFlight + Occasions'
    PROVE  CacheOK'
<1>1. IsFiniteSet(Unmapped) /\ Cardinality(Unmapped) + InFlight <= Occasions
  BY DEF CacheOK
<1>2. /\ IsFiniteSet(Unmapped \union {x})
      /\ Cardinality(Unmapped) \in Nat /\ Cardinality(Unmapped \union {x}) \in Nat
      /\ Cardinality(Unmapped \union {x}) <= Cardinality(Unmapped) + 1
  <2>1. Cardinality(Unmapped) \in Nat
    BY <1>1, FS_CardinalityType
  <2> QED
    BY <1>1, <2>1, FS_AddElement, FS_CardinalityType
<1>3. /\ IsFiniteSet(Unmapped') /\ Cardinality(Unmapped') \in Nat
      /\ Cardinality(Unmapped') <= Cardinality(Unmapped) + 1
  <2>1. /\ IsFiniteSet(Unmapped') /\ Cardinality(Unmapped') \in Nat
        /\ Cardinality(Unmapped') <= Cardinality(Unmapped \union {x})
    BY <1>2, FS_Subset, FS_CardinalityType
  <2> QED
    BY <1>2, <2>1
<1>4. Occasions \in Nat /\ Occasions' \in Nat /\ InFlight \in Nat /\ InFlight' \in Nat
  <2>1. Occasions \in Nat
    BY OccasionsCount
  <2>2. Occasions' \in Nat
    BY DEF Occasions, BudgetKinds, Troubles
  <2> QED
    BY <2>1, <2>2 DEF InFlight
<1>5. Cardinality(Unmapped') + InFlight' <= Occasions'
  BY <1>1, <1>2, <1>3, <1>4, Balance
<1> QED
  BY <1>3, <1>5 DEF CacheOK

\* A statement carried out unseen unmaps one entry at most.
LEMMA UnansweredKeepsCache ==
    ASSUME IInv, CacheOK, CallUnanswered("events")
    PROVE  CacheOK'
<1>1. StepTypeOK(Labels) /\ ResolvesOwnBookmark /\ used \in [BudgetKinds -> Nat]
  BY DEF IInv, TypeOK
<1>2. /\ used' \in [BudgetKinds -> Nat] /\ used'["lookups"] = used["lookups"]
      /\ used'["unanswered"] = used["unanswered"] + 1
  BY <1>1 DEF CallUnanswered, Trouble, BudgetKinds, Troubles
<1>3. Label' = "retry" /\ UNCHANGED <<cached, lookup>> /\ Label # "project"
  BY <1>1, ConsumerMoves, CallsAreMade
     DEF CallUnanswered, Unanswered, toolVars, Label, Procs, CallLabels
<1>4. InUse = cached /\ InUse' = cached
  BY <1>3 DEF InUse
<1>5. PICK w : rows \ RowsAt(w) \subseteq rows'
  <2>1. CASE WritesMark("events") /\ UNCHANGED storeVars
    BY <2>1 DEF storeVars
  <2>2. CASE WritesRow("events")
    BY <2>2 DEF WritesRow, InsertRow, InsertManaged, RenameRow, DeleteRow
  <2> QED
    BY <2>1, <2>2 DEF CallUnanswered, Unanswered
<1> DEFINE x == [ws |-> w, sid |-> NamingSession(w)]
<1>6. \A r \in RowsAt(w) \intersect cached : r = x
  <2> SUFFICES ASSUME NEW r \in RowsAt(w) \intersect cached PROVE r = x
    OBVIOUS
  <2>1. r.ws = w /\ r.sid = NamingSession(w)
    BY <1>1 DEF RowsAt, ResolvesOwnBookmark
  <2>2. r = [ws |-> r.ws, sid |-> r.sid]
    BY DEF IInv, TypeOK, VarsTypeOK, Rows
  <2> QED
    BY <2>1, <2>2
<1>7. Unmapped' \subseteq Unmapped \union {x}
  BY <1>4, <1>5, <1>6 DEF Unmapped
<1>8. InFlight' + 1 + Occasions <= InFlight + Occasions'
  BY <1>1, <1>2, <1>3 DEF InFlight, Occasions, BudgetKinds, Troubles
<1> QED
  BY <1>1, <1>2, <1>7, <1>8, OneMoreUnmapped

\* Wherever an answered statement removes a row, its session is evicted.
LEMMA RemovalEvicts ==
    ASSUME ResolvesOwnBookmark, NEW w,
           rows \ RowsAt(w) \subseteq rows', cached' = cached \ Of(cached, NamingSession(w))
    PROVE  cached' \ rows' \subseteq cached \ rows
BY DEF ResolvesOwnBookmark, RowsAt, Of

LEMMA ProgressKeepsCache ==
    ASSUME IInv, CacheOK, Progress("events"), UNCHANGED <<projected, toolVars, job, used>>
    PROVE  CacheOK'
<1>1. StepTypeOK(Labels) /\ ResolvesOwnBookmark /\ used \in [BudgetKinds -> Nat]
  BY DEF IInv, TypeOK
<1>2. Label' # "project"
  BY <1>1, ProgressStaysInHandler DEF InHandler, CallLabels, Outcomes
<1>3. SUFFICES cached' \ rows' \subseteq cached \ rows
  <2>1. Unmapped' \subseteq cached' \ rows' /\ cached \ rows \subseteq Unmapped
    BY <1>2 DEF Unmapped, InUse
  <2>2. ASSUME cached' \ rows' \subseteq cached \ rows PROVE Unmapped' \subseteq Unmapped
    BY <2>1, <2>2
  <2>3. InFlight' + Occasions <= InFlight + Occasions'
    BY <1>1 DEF InFlight, Occasions, BudgetKinds, Troubles, toolVars
  <2> QED
    BY <1>1, <2>2, <2>3, KeepsCache
<1>4. CASE \/ AlreadyMirrored("events") \/ NotMirrored("events")
           \/ ForkNotMirrored("events") \/ FindParent("events") \/ FindFrom("events")
           \/ FindDeleted("events") \/ MakeRepo("events") \/ ChooseAnchor("events")
           \/ LookForMark("events", TRUE) \/ MakeMark("events") \/ MarkRefused("events")
           \/ AlreadyBound("events") \/ ManageRepo("events") \/ RowNotMoved("events")
           \/ LookForDoomed("events", TRUE) \/ DropMark("events") \/ DropRefused("events")
  <2>1. UNCHANGED <<rows, cached>>
    BY <1>4 DEF AlreadyMirrored, NotMirrored, ForkNotMirrored, FindParent, FindFrom,
                FindDeleted, MakeRepo, ChooseAnchor, LookForMark, MakeMark, MarkRefused,
                AlreadyBound, ManageRepo, InsertManaged, RowNotMoved, LookForDoomed, DropMark,
                DropRefused, storeVars
  <2> QED
    BY <2>1
<1>5. CASE BindRow("events")
  BY <1>5 DEF BindRow, InsertRow
<1>6. CASE MoveRow("events")
  BY <1>1, <1>6, RemovalEvicts DEF MoveRow, RenameRow, Evict
<1>7. CASE Unbind("events")
  BY <1>1, <1>7, RemovalEvicts DEF Unbind, DeleteRow, Evict
<1> QED
  BY <1>4, <1>5, <1>6, <1>7, ZenonT(30) DEF Progress

LEMMA EventsKeepCache == ASSUME IInv, CacheOK, EventsStep PROVE CacheOK'
<1>1. StepTypeOK(Labels) /\ UNCHANGED used /\ used \in [BudgetKinds -> Nat]
  BY DEF IInv, TypeOK, EventsStep
<1>2. ASSUME UNCHANGED lookup, Unmapped' \subseteq Unmapped PROVE CacheOK'
  <2>1. InFlight' + Occasions <= InFlight + Occasions'
    BY <1>1, <1>2 DEF InFlight, Occasions, BudgetKinds, Troubles
  <2> QED
    BY <1>1, <1>2, <2>1, KeepsCache
<1>3. ASSUME UNCHANGED <<rows, cached, lookup>>, Label' # "project" PROVE CacheOK'
  BY <1>2, <1>3 DEF Unmapped, InUse
<1>4. CASE \E e \in stream : Deliver(e)
  <2>1. PICK e \in stream : Deliver(e)
    BY <1>4
  <2>2. Label' # "project"
    BY <1>1, <2>1, ConsumerMoves DEF Deliver, HandlerOf
  <2> QED
    BY <1>3, <2>1, <2>2 DEF Deliver, storeVars, varsVars, toolVars
<1>5. CASE Ack \/ Nack("retry")
  <2>1. Label' # "project"
    BY <1>1, <1>5, ConsumerMoves DEF Ack, Nack
  <2> QED
    BY <1>3, <1>5, <2>1 DEF Ack, Nack, storeVars, varsVars, toolVars
<1>6. CASE ResolveVars
  <2>1. UNCHANGED <<rows, cached, lookup, job>>
    BY <1>6 DEF ResolveVars, storeVars, varsVars, toolVars
  <2>2. CASE Goto("events", "done")
    <3>1. Label' = "done"
      BY <1>1, <2>2, ConsumerMoves
    <3> QED
      BY <1>3, <2>1, <3>1
  <2>3. ASSUME NEW r \in Resolved(job.sid),
               Enter("events", Call("publish", r.ws, None, None), "project")
        PROVE  CacheOK'
    <3>1. Held'.ws = r.ws
      BY <1>1, <2>3, ConsumerMoves DEF Call
    <3>2. r.sid = job.sid /\ r \in cached \union rows
      BY DEF Resolved, Of
    <3>3. r = [ws |-> r.ws, sid |-> r.sid]
      BY <3>2 DEF IInv, TypeOK, StoreTypeOK, VarsTypeOK, Rows
    <3>4. InUse' \subseteq cached \union {r}
      BY <2>1, <3>1, <3>2, <3>3 DEF InUse
    <3> QED
      BY <1>2, <2>1, <3>2, <3>4 DEF Unmapped, InUse
  <2> QED
    BY <1>6, <2>2, <2>3 DEF ResolveVars
<1>7. CASE PublishSessionVars
  <2>1. Label' = "done"
    BY <1>1, <1>7, ConsumerMoves DEF PublishSessionVars
  <2>2. UNCHANGED <<rows, lookup>> /\ Label = "project"
    BY <1>7 DEF PublishSessionVars, storeVars, toolVars, Label
  <2>3. cached' \subseteq cached \union {[ws |-> Held.ws, sid |-> job.sid]}
    BY <1>7 DEF PublishSessionVars, Put, Held
  <2>4. InUse' \subseteq InUse
    BY <2>1, <2>2, <2>3 DEF InUse
  <2> QED
    BY <1>2, <2>2, <2>4 DEF Unmapped
<1>8. CASE ClearSessionVars
  <2>1. Label' = "done"
    BY <1>1, <1>8, ConsumerMoves DEF ClearSessionVars
  <2> QED
    BY <1>3, <1>8, <2>1 DEF ClearSessionVars, cacheVars, toolVars, storeVars
<1>9. CASE Progress("events") /\ UNCHANGED <<projected, toolVars, agentVars, job>>
  BY <1>1, <1>9, ProgressKeepsCache
<1> QED
  BY <1>4, <1>5, <1>6, <1>7, <1>8, <1>9 DEF EventsStep

\* The consumer sees no row removed without evicting its session; what it puts
\* into the cache is a row nobody else can have removed meanwhile.
LEMMA NextKeepsCache ==
    ASSUME Solo, IInv, OthersIdle, CacheOK, [Next]_vars PROVE CacheOK'
<1>1. TypeOK /\ StepTypeOK(Labels) /\ used \in [BudgetKinds -> Nat]
  BY DEF IInv, TypeOK
<1>2. /\ \A kind \in BudgetKinds : Spend(kind) \/ Trouble(kind)
             => /\ used' \in [BudgetKinds -> Nat]
                /\ used'["lookups"] >= used["lookups"]
                /\ used'["unanswered"] >= used["unanswered"]
      /\ Spend("lookups") => used'["lookups"] = used["lookups"] + 1
      /\ used["lookups"] \in Nat /\ used["unanswered"] \in Nat
      /\ {"acts", "adoptions", "commits", "lookups", "faults", "blind", "lost", "removals"}
           \subseteq BudgetKinds
  <2>1. Spend("lookups") => used'["lookups"] = used["lookups"] + 1
    BY <1>1 DEF Spend, BudgetKinds
  <2> QED
    BY <1>1, <2>1, Spent DEF BudgetKinds, Troubles
<1> DEFINE Grows == /\ used' \in [BudgetKinds -> Nat]
                    /\ used'["lookups"] >= used["lookups"]
                    /\ used'["unanswered"] >= used["unanswered"]
<1>3. UNCHANGED used => Grows
  BY <1>1, <1>2
<1>4. ASSUME Grows, UNCHANGED lookup, Unmapped' \subseteq Unmapped PROVE CacheOK'
  <2>1. InFlight' + Occasions <= InFlight + Occasions'
    BY <1>2, <1>4 DEF InFlight, Occasions, BudgetKinds, Troubles
  <2> QED
    BY <1>1, <1>4, <2>1, KeepsCache
<1>5. ASSUME Grows, UNCHANGED lookup, rows \subseteq rows', cached' \subseteq cached,
             Label' # "project" \/ UNCHANGED <<at, call, job>>
      PROVE  CacheOK'
  BY <1>4, <1>5 DEF Unmapped, InUse, Label, Held
<1>6. CASE ConsumerFails
  <2>1. CASE CallFails("events")
    <3>1. Label' = "retry"
      BY <1>1, <2>1, ConsumerMoves DEF CallFails, FailCall
    <3> QED
      BY <1>2, <1>5, <2>1, <3>1 DEF CallFails, FailCall, toolVars, storeVars
  <2>2. CASE HandlerBlind("events")
    <3>1. Label' # "project"
      BY <1>1, <2>2, LookMoves, DoomedMoves DEF HandlerBlind, AfterMark, AfterDrop
    <3> QED
      BY <1>2, <1>5, <2>2, <3>1
         DEF HandlerBlind, LookForMark, LookForDoomed, toolVars, storeVars
  <2>3. CASE AckLost
    <3>1. Label' = "idle"
      BY <1>1, <2>3, ConsumerMoves DEF AckLost, Nack
    <3> QED
      BY <1>2, <1>5, <2>3, <3>1 DEF AckLost, Nack, storeVars, varsVars, toolVars
  <2>4. CASE VarsWriteFails
    <3>1. Label' = "done"
      BY <1>1, <2>4, ConsumerMoves DEF VarsWriteFails, VarsFail
    <3> QED
      BY <1>2, <1>5, <2>4, <3>1 DEF VarsWriteFails, VarsFail, storeVars, varsVars, toolVars
  <2>5. CASE CallUnanswered("events")
    BY <2>5, UnansweredKeepsCache
  <2> QED
    BY <1>6, <2>1, <2>2, <2>3, <2>4, <2>5 DEF ConsumerFails
<1>7. CASE Crash
  <2>1. Label' = "idle" /\ cached' = {} /\ lookup' = None /\ Grows
    BY <1>2, <1>7 DEF Crash, Label, Procs
  <2>2. Unmapped' = {}
    BY <2>1 DEF Unmapped, InUse
  <2>3. IsFiniteSet(Unmapped') /\ Cardinality(Unmapped') = 0
    BY <2>2, FS_EmptySet
  <2>4. InFlight' = 0 /\ Occasions' \in Nat
    BY <2>1 DEF InFlight, Occasions, BudgetKinds, Troubles
  <2> QED
    BY <2>3, <2>4 DEF CacheOK
<1>8. CASE Outside
  <2>1. UNCHANGED <<rows, cached, lookup, at, call, job>> /\ Grows
    BY <1>2, <1>8 DEF Outside, AgentActs, AgentCreates, AgentForks, AgentRenames,
                      AgentDeletes, LoseEvent, JJRemoves, others, stepVars, storeVars,
                      varsVars, toolVars
  <2> QED
    BY <1>5, <2>1
<1>9. CASE ToolSteps
  <2>1. ASSUME NEW r \in rows, ToolLooksUp(r) PROVE CacheOK'
    <3>1. /\ UNCHANGED <<rows, cached, at, call, job>> /\ lookup = None
          /\ used' \in [BudgetKinds -> Nat] /\ used'["lookups"] = used["lookups"] + 1
          /\ used'["unanswered"] = used["unanswered"]
      BY <1>1, <1>2, <2>1
         DEF ToolLooksUp, Lookup, Spend, BudgetKinds, Troubles, stepVars, storeVars
    <3>2. Unmapped' \subseteq Unmapped
      BY <3>1 DEF Unmapped, InUse, Label, Held
    <3>3. InFlight' + Occasions <= InFlight + Occasions'
      BY <1>2, <3>1 DEF InFlight, Occasions
    <3> QED
      BY <1>1, <3>1, <3>2, <3>3, KeepsCache
  <2>2. CASE (\E s \in Sids : ToolStarts(s)) \/ (\E c \in Commits : ToolCommits(c))
    <3>1. UNCHANGED <<rows, cached, lookup, at, call, job>> /\ Grows
      BY <1>2, <1>3, <2>2 DEF ToolStarts, StartTool, ToolCommits, EndTool, stepVars, storeVars
    <3> QED
      BY <1>5, <3>1
  <2>3. CASE CacheChanges
    <3>1. UNCHANGED <<rows, at, call, job, used>>
      BY <2>3 DEF CacheChanges, stepVars, storeVars
    <3>2. CASE FillCache
      <4>1. /\ lookup # None /\ lookup' = None
            /\ cached' \subseteq cached \union {lookup}
        BY <3>2 DEF FillCache, Put
      <4>2. Unmapped' \subseteq Unmapped \union {lookup}
        BY <3>1, <4>1 DEF Unmapped, InUse, Label, Held
      <4>3. InFlight' + 1 + Occasions <= InFlight + Occasions'
        BY <1>2, <3>1, <4>1 DEF InFlight, Occasions
      <4> QED
        BY <1>1, <3>1, <4>2, <4>3, OneMoreUnmapped
    <3>3. CASE \E r \in cached : Expire(r)
      BY <1>3, <1>5, <3>1, <3>3 DEF Expire, toolVars
    <3> QED
      BY <2>3, <3>2, <3>3 DEF CacheChanges
  <2> QED
    BY <1>9, <2>1, <2>2, <2>3 DEF ToolSteps
<1>10. CASE AdoptActs
  <2>1. UNCHANGED <<cached, lookup, at, call, job>> /\ rows \subseteq rows' /\ Grows
    BY <1>2, <1>3, <1>10 DEF AdoptActs, AdoptStep, AdoptStarts, FindOrphan, AdoptCreates,
                      EnsureSession, AdoptEnds, AdoptRow, InsertRow, AdoptRefused,
                      AdoptFails, FailAdoption, AdoptEnd, stepVars, storeVars
  <2> QED
    BY <1>5, <2>1
<1>11. CASE UNCHANGED vars
  BY <1>3, <1>5, <1>11 DEF vars, stepVars, storeVars, varsVars, toolVars
<1> QED
  BY <1>1, <1>6, <1>7, <1>8, <1>9, <1>10, <1>11, SoloSteps, EventsKeepCache

LEMMA InitAlone == Init => OthersIdle /\ CacheOK
<1> SUFFICES ASSUME Init PROVE OthersIdle /\ CacheOK
  OBVIOUS
<1>1. OthersIdle /\ cached = {} /\ lookup = None /\ Label = "idle"
  BY DEF Init, OthersIdle, Label, Procs, BudgetKinds
<1>2. Unmapped = {} /\ InFlight = 0 /\ Occasions = 0
  BY <1>1 DEF Unmapped, InUse, InFlight, Occasions, Init, BudgetKinds, Troubles
<1> QED
  BY <1>1, <1>2, FS_EmptySet DEF CacheOK

LEMMA AloneInvariance == ASSUME Alone PROVE Spec => [](IInv /\ OthersIdle)
<1>1. IInv /\ OthersIdle /\ [Next]_vars => OthersIdle'
  <2>1. ASSUME OthersIdle, UNCHANGED vars PROVE OthersIdle'
    BY <2>1 DEF vars, stepVars, sheetVars, OthersIdle
  <2> QED
    BY <2>1, OthersStayIdle, AloneIsSolo DEF IInv
<1> QED
  BY <1>1, InitAlone, Invariance, PTL DEF Spec

LEMMA SheetsCount ==
    ASSUME TypeOK, [Next]_vars
    PROVE  /\ used["sheets"] \in Nat /\ used'["sheets"] >= used["sheets"]
           /\ Spend("sheets") => used'["sheets"] > used["sheets"]
<1> DEFINE Counts == used'["sheets"] >= used["sheets"]
<1>1. used \in [BudgetKinds -> Nat]
  BY DEF TypeOK
<1>2. used["sheets"] \in Nat
  BY <1>1 DEF BudgetKinds
<1>3. \A kind \in BudgetKinds : Spend(kind) => Counts
  BY <1>1, <1>2 DEF Spend, BudgetKinds
<1>4. \A kind \in BudgetKinds : Trouble(kind) => Counts
  BY <1>1, <1>2 DEF Trouble, BudgetKinds
<1>5. UNCHANGED used => Counts
  BY <1>2
<1>6. Environment => Counts
  <2>1. AgentActs => Counts
    BY <1>3 DEF AgentActs, AgentCreates, AgentForks, AgentRenames, AgentDeletes, BudgetKinds
  <2>2. (\E e \in stream : LoseEvent(e)) \/ (\E w \in Removable : JJRemoves(w)) => Counts
    BY <1>4 DEF LoseEvent, JJRemoves, BudgetKinds, Troubles
  <2>3. ToolSteps => Counts
    BY <1>3, <1>5 DEF ToolSteps, ToolStarts, ToolCommits, ToolLooksUp, CacheChanges, BudgetKinds
  <2>4. Crash \/ AckLost \/ VarsWriteFails \/ PassFails \/ PassUnanswered \/ AdoptFails => Counts
    BY <1>4 DEF Crash, AckLost, VarsWriteFails, PassFails, PassUnanswered, AdoptFails, BudgetKinds,
                Troubles
  <2>5. ASSUME NEW p \in Procs
        PROVE  CallFails(p) \/ CallUnanswered(p) \/ HandlerBlind(p) => Counts
    BY <1>4 DEF CallFails, CallUnanswered, HandlerBlind, BudgetKinds, Troubles
  <2>6. (\E r \in Repos : PassBlind(r)) \/ SheetFails \/ AnswerLost => Counts
    BY <1>4 DEF PassBlind, SheetFails, AnswerLost, BudgetKinds, Troubles
  <2> QED
    BY <2>1, <2>2, <2>3, <2>4, <2>5, <2>6 DEF Environment, ToolSteps
<1>7. EventsStep \/ ReconcileStep => Counts
  BY <1>5 DEF EventsStep, ReconcileStep, StartTick, PassStep, CompletePass, AbortPass
<1>8. AdoptStep => Counts
  BY <1>3, <1>5 DEF AdoptStep, AdoptStarts, AdoptCreates, AdoptEnds, BudgetKinds
<1>9. SheetStep => Counts
  BY <1>3, <1>5 DEF SheetStep, SheetProposed, ForkProposed, DeleteProposed, SheetDecided,
                    SheetActs, SheetRuns, BudgetKinds
<1>10. UNCHANGED vars => Counts
  BY <1>5 DEF vars
<1>11. Counts
  BY <1>6, <1>7, <1>8, <1>9, <1>10 DEF Next
<1> QED
  BY <1>1, <1>2, <1>11 DEF Spend, BudgetKinds

\* The evictions keep the tool path strict (README.md:40-41, events_sub.go:136,
\* 160) but for lost answers and late lookups: without the reconciler and while no
\* worksheet came in between, each cached entry of a session the tables no longer
\* know has, once the stream is drained, an occasion of its own, an UPDATE or
\* DELETE that was carried out while its answer was lost or a tool's lookup.  Calls
\* that fail, crashes, redeliveries and whatever else writes rows leave none.
THEOREM EvictionsSuffice == ASSUME ~ Ticking PROVE Spec => []DrainedCache
<1> DEFINE Strict == used["sheets"] = 0 => OthersIdle /\ CacheOK
<1>1. IInv /\ Strict => DrainedCache
  <2> SUFFICES ASSUME IInv, Strict, Quiet, used["sheets"] = 0
               PROVE  Cardinality(cached \ rows) <= Occasions
    BY DEF DrainedCache, Occasions
  <2>1. Label # "project"
    BY DEF Quiet, Label
  <2>2. Unmapped = cached \ rows
    BY <2>1 DEF Unmapped, InUse
  <2>3. IsFiniteSet(Unmapped) /\ Cardinality(Unmapped) + InFlight <= Occasions
    BY DEF CacheOK
  <2>4. Occasions \in Nat
    BY OccasionsCount DEF IInv, TypeOK
  <2> QED
    BY <2>2, <2>3, <2>4, FS_CardinalityType DEF InFlight
<1>2. IInv /\ Strict /\ [Next]_vars => Strict'
  <2> SUFFICES ASSUME IInv, Strict, [Next]_vars, used'["sheets"] = 0
               PROVE  OthersIdle' /\ CacheOK'
    OBVIOUS
  <2>1. TypeOK
    BY DEF IInv
  <2>2. used["sheets"] = 0 /\ Solo
    BY <2>1, SheetsCount DEF Solo
  <2>3. OthersIdle /\ CacheOK
    BY <2>2
  <2>4. CASE UNCHANGED vars
    BY <2>2, <2>3, <2>4, NextKeepsCache DEF vars, stepVars, sheetVars, OthersIdle
  <2> QED
    BY <2>1, <2>2, <2>3, <2>4, OthersStayIdle, NextKeepsCache
<1>3. Init => Strict
  BY InitAlone
<1> QED
  BY <1>1, <1>2, <1>3, Invariance, PTL DEF Spec

----------------------------------------------------------------------------
(* Bookmarks nobody asked for.                                             *)

PeerOf(e) == IF Derived(e.peer) THEN ParseSession(e.peer) ELSE None

\* How an event is served.
LEMMA HandlerCases ==
    ASSUME NEW e \in Events
    PROVE  LET w == ParseSession(e.sid) IN
           \/ /\ e.kind = "created" /\ Derived(e.sid)
              /\ HandlerOf(e) = <<"findRow", Call("create", w, None, None)>>
           \/ /\ e.kind = "forked" /\ Derived(e.sid)
              /\ HandlerOf(e) = <<"findRow", Call("fork", w, PeerOf(e), None)>>
           \/ /\ e.kind = "renamed" /\ Derived(e.sid) /\ Derived(e.peer)
              /\ w.repo = PeerOf(e).repo
              /\ HandlerOf(e) = <<"fromRow", Call("rename", w, PeerOf(e), None)>>
           \/ /\ e.kind = "deleted" /\ Derived(e.sid)
              /\ HandlerOf(e) = <<"findRow", Call("delete", w, None, None)>>
           \/ /\ \/ ~ Derived(e.sid)
                 \/ e.kind = "renamed" /\ (Derived(e.peer) => w.repo # PeerOf(e).repo)
              /\ HandlerOf(e) = <<"reject", NoCall>>
BY DEF HandlerOf, PeerOf, Events, EventKinds

\* The bookmark the consumer has found or made and not bound yet, and the one
\* a rename has left behind and not removed yet.
InHand(w) ==
    \/ Label \in {"bind", "moveRow"} /\ w = Held.ws
    \/ Label \in {"seeMark", "dropMark"} /\ Held.op = "rename" /\ w = Held.peer

Clean == used["faults"] = 0 /\ used["unanswered"] = 0 /\ used["blind"] = 0

Accounted == \A w \in marks : w = MainOf(w.repo) \/ HasRow(w) \/ InHand(w)

\* A row is deleted after its bookmark.
DropsFirst == Label = "unbind" => Held.ws \notin marks

\* A rename that goes on has the row it will move.
RenameOK ==
    /\ Label \in {"look", "create", "moveRow"} /\ Held.op = "rename" => HasRow(Held.peer)
    /\ Label \in {"findRow", "repo", "anchor", "bind", "manage"} => Held.op # "rename"

MarksInRepos == \A w \in marks : w.repo \in repos

TidyOK == (Clean => Accounted /\ DropsFirst) /\ RenameOK /\ MarksInRepos

\* Nothing new comes up and nothing gets out of sight.
LEMMA StaysTidy ==
    ASSUME TidyOK, Clean' => Clean, RenameOK', Clean' => DropsFirst',
           marks' \subseteq marks, repos \subseteq repos',
           Clean' => \A w \in marks' : HasRow(w) \/ InHand(w) => HasRow(w)' \/ InHand(w)'
    PROVE  TidyOK'
BY DEF TidyOK, Accounted, MarksInRepos

LEMMA ProgressKeepsTidy ==
    ASSUME IInv, TidyOK, Progress("events"), UNCHANGED used
    PROVE  TidyOK'
<1>1. StepTypeOK(Labels) /\ ResolvesOwnBookmark /\ (Clean' <=> Clean) /\ RenameOK
  BY DEF IInv, TypeOK, Clean, TidyOK
<1>2. Label \in CallLabels
  BY CallsAreMade DEF Label, Procs
<1>3. Held \in Calls /\ Fits("events", Held, Label)
  BY <1>2, BusyCall DEF IInv, TypeOK, Label, Held, Procs
<1>4. \A l, c : /\ Goto("events", l) => Label' = l /\ Held' = Held
                /\ Enter("events", c, l) => Label' = l /\ Held' = c
  BY <1>1, ConsumerMoves
<1>5. ASSUME Return("events") PROVE Label' = "ok" \/ (Label' = "look" /\ Held'.op = "fork")
  BY <1>4, <1>5 DEF Return, ForkAt, Call
<1>6. ASSUME UNCHANGED <<repos, marks, rows>>,
             Label \notin {"bind", "moveRow", "seeMark", "dropMark"},
             Label' # "unbind", RenameOK'
      PROVE  TidyOK'
  BY <1>1, <1>6, StaysTidy DEF DropsFirst, InHand, HasRow
<1>7. CASE AlreadyMirrored("events")
  <2>1. Label = "findRow" /\ UNCHANGED <<repos, marks, rows>> /\ Return("events")
    BY <1>7 DEF AlreadyMirrored, Label, jjVars, storeVars
  <2> QED
    BY <1>5, <1>6, <2>1 DEF RenameOK
<1>8. CASE NotMirrored("events")
  <2>1. Label = "findRow" /\ UNCHANGED <<repos, marks, rows>>
        /\ Label' = "repo" /\ Held' = Held
    BY <1>4, <1>8 DEF NotMirrored, Label, jjVars, storeVars
  <2> QED
    BY <1>1, <1>6, <2>1 DEF RenameOK
<1>9. CASE ForkNotMirrored("events")
  <2>1. Label = "findRow" /\ Held.op = "fork" /\ UNCHANGED <<repos, marks, rows>>
    BY <1>9 DEF ForkNotMirrored, Label, Held, jjVars, storeVars
  <2>2. \/ Enter("events", [Held EXCEPT !.src = Main], "look")
        \/ Goto("events", "reject") \/ Goto("events", "parent")
    BY <1>9 DEF ForkNotMirrored, Held
  <2>3. Label' \in {"reject", "parent"} \/ (Label' = "look" /\ Held'.op = "fork")
    BY <1>3, <1>4, <2>1, <2>2 DEF Calls
  <2> QED
    BY <1>6, <2>1, <2>3 DEF RenameOK
<1>10. CASE FindParent("events")
  <2>1. Label = "parent" /\ UNCHANGED <<repos, marks, rows>>
    BY <1>10 DEF FindParent, Label, jjVars, storeVars
  <2>2. \/ Label' = "look" /\ Held'.op = "fork"
        \/ Label' = "findRow" /\ Held'.op = "parent"
    BY <1>4, <1>10 DEF FindParent, ForkAt, Call
  <2> QED
    BY <1>6, <2>1, <2>2 DEF RenameOK
<1>11. CASE FindFrom("events")
  <2>1. Label = "fromRow" /\ UNCHANGED <<repos, marks, rows>>
    BY <1>11 DEF FindFrom, Label, jjVars, storeVars
  <2>2. \/ HasRow(Held.peer) /\ Enter("events", [Held EXCEPT !.src = Held.peer.bm], "look")
        \/ Enter("events", Call("create", Held.ws, None, None), "findRow")
    BY <1>11 DEF FindFrom, Held
  <2>3. \/ HasRow(Held.peer) /\ Label' = "look" /\ Held'.peer = Held.peer
        \/ Label' = "findRow" /\ Held'.op = "create"
    BY <1>3, <1>4, <2>2 DEF Call, Calls
  <2> QED
    BY <1>6, <2>1, <2>3 DEF RenameOK, HasRow
<1>12. CASE FindDeleted("events")
  <2>1. Label = "findRow" /\ UNCHANGED <<repos, marks, rows>> /\ Label' \in {"seeMark", "ok"}
    BY <1>4, <1>12 DEF FindDeleted, Label, jjVars, storeVars
  <2> QED
    BY <1>6, <2>1 DEF RenameOK
<1>13. CASE MakeRepo("events")
  <2> DEFINE repo == Held.ws.repo
  <2>1. Label = "repo" /\ EnsureRepo(repo) /\ UNCHANGED rows
    BY <1>13 DEF MakeRepo, Label, Held, storeVars
  <2>2. Label' \in {"look", "anchor"} /\ Held' = Held
    BY <1>4, <1>13 DEF MakeRepo, AfterRepo
  <2>3. RenameOK'
    BY <1>1, <2>1, <2>2 DEF RenameOK
  <2>4. MarksInRepos'
    BY <2>1 DEF TidyOK, MarksInRepos, EnsureRepo, MainOf
  <2>5. ASSUME Clean' PROVE Accounted' /\ DropsFirst'
    BY <1>1, <2>1, <2>2, <2>5
       DEF TidyOK, Accounted, DropsFirst, InHand, HasRow, EnsureRepo, MainOf
  <2> QED
    BY <2>3, <2>4, <2>5 DEF TidyOK
<1>14. CASE ChooseAnchor("events")
  <2>1. Label = "anchor" /\ UNCHANGED <<repos, marks, rows>>
    BY <1>14 DEF ChooseAnchor, Label, jjVars, storeVars
  <2>2. Enter("events", [Held EXCEPT !.src = AnchorChoice(Held.ws.repo)], "look")
    BY <1>14 DEF ChooseAnchor, Held
  <2>3. Label' = "look" /\ Held'.op = Held.op
    BY <1>3, <1>4, <2>2 DEF Calls
  <2> QED
    BY <1>1, <1>6, <2>1, <2>3 DEF RenameOK
<1>15. CASE LookForMark("events", TRUE)
  <2>1. /\ Label = "look" /\ Held' = Held
        /\ Label' \in {"reject", "create", AfterMark(Held)}
    BY <1>1, <1>15, LookMoves
  <2>2. UNCHANGED <<repos, marks, rows>>
    BY <1>15 DEF LookForMark, jjVars, storeVars
  <2>3. RenameOK'
    BY <1>1, <2>1, <2>2 DEF RenameOK, AfterMark, HasRow
  <2> QED
    BY <1>6, <2>1, <2>2, <2>3 DEF AfterMark
<1>16. CASE MakeMark("events")
  <2>1. Label = "create" /\ CreateBookmark(Held.ws, Held.src) /\ UNCHANGED rows
    BY <1>16 DEF MakeMark, Label, Held, storeVars
  <2>2. Label' = AfterMark(Held) /\ Held' = Held
    BY <1>4, <1>16 DEF MakeMark, Held
  <2>3. RenameOK'
    BY <1>1, <2>1, <2>2 DEF RenameOK, AfterMark, HasRow
  <2>4. MarksInRepos'
    BY <2>1 DEF TidyOK, MarksInRepos, CreateBookmark, CanCreate
  <2>5. ASSUME Clean' PROVE Accounted' /\ DropsFirst'
    BY <1>1, <2>1, <2>2, <2>5
       DEF TidyOK, Accounted, DropsFirst, InHand, HasRow, AfterMark, CreateBookmark
  <2> QED
    BY <2>3, <2>4, <2>5 DEF TidyOK
<1>17. CASE MarkRefused("events")
  <2>1. Label = "create" /\ UNCHANGED <<repos, marks, rows>> /\ Label' = "retry"
    BY <1>4, <1>17 DEF MarkRefused, Label, jjVars, storeVars
  <2> QED
    BY <1>6, <2>1 DEF RenameOK
<1>18. CASE BindRow("events")
  <2>1. Label = "bind" /\ Label' = "manage" /\ Held' = Held /\ UNCHANGED <<repos, marks>>
    BY <1>4, <1>18 DEF BindRow, Label, jjVars
  <2>2. rows' = rows \union {[ws |-> Held.ws, sid |-> NamingSession(Held.ws)]}
    BY <1>18 DEF BindRow, InsertRow, Held
  <2>3. RenameOK' /\ DropsFirst'
    BY <1>1, <2>1 DEF RenameOK, DropsFirst
  <2>4. \A w : w = Held.ws \/ HasRow(w) => HasRow(w)'
    <3> DEFINE row == [ws |-> Held.ws, sid |-> NamingSession(Held.ws)]
    <3>1. row.ws = Held.ws /\ row \in rows' /\ rows \subseteq rows'
      BY <2>2
    <3> HIDE DEF row
    <3> QED
      BY <3>1 DEF HasRow
  <2>5. \A w \in marks' : HasRow(w) \/ InHand(w) => HasRow(w)'
    BY <2>1, <2>4 DEF InHand
  <2> QED
    BY <1>1, <2>1, <2>3, <2>5, StaysTidy
<1>19. CASE AlreadyBound("events")
  <2>1. Label = "bind" /\ Return("events") /\ UNCHANGED <<repos, marks, rows>>
    BY <1>19 DEF AlreadyBound, Label, jjVars, storeVars
  <2>2. HasRow(Held.ws)
    <3>1. PICK r \in rows : r.ws = Held.ws \/ r.sid = NamingSession(Held.ws)
      BY <1>19 DEF AlreadyBound, Conflicts, Held
    <3>2. r.ws \in Workspaces /\ r.sid = NamingSession(r.ws) /\ Held.ws \in Workspaces
      BY <1>1, <1>3 DEF IInv, TypeOK, StoreTypeOK, Rows, ResolvesOwnBookmark, Calls
    <3> QED
      BY <3>1, <3>2, NamesAreABijection DEF HasRow
  <2>3. RenameOK' /\ DropsFirst'
    BY <1>5, <2>1 DEF RenameOK, DropsFirst
  <2>4. \A w \in marks' : HasRow(w) \/ InHand(w) => HasRow(w)'
    BY <2>1, <2>2 DEF InHand, HasRow
  <2> QED
    BY <1>1, <2>1, <2>3, <2>4, StaysTidy
<1>20. CASE ManageRepo("events")
  <2>1. Label = "manage" /\ Return("events") /\ UNCHANGED <<repos, marks, rows>>
    BY <1>20 DEF ManageRepo, InsertManaged, Label, jjVars
  <2> QED
    BY <1>5, <1>6, <2>1 DEF RenameOK
<1>21. CASE MoveRow("events")
  <2>1. Label = "moveRow" /\ Label' = "seeMark" /\ Held' = Held /\ UNCHANGED <<repos, marks>>
    BY <1>4, <1>21 DEF MoveRow, Label, jjVars
  <2>2. rows' = (rows \ RowsAt(Held.peer))
                  \union {[ws |-> Held.ws, sid |-> NamingSession(Held.ws)]}
    BY <1>21 DEF MoveRow, RenameRow, Held
  <2>3. Held.op = "rename"
    BY <1>3, <2>1 DEF Fits
  <2>4. RenameOK' /\ DropsFirst'
    BY <2>1 DEF RenameOK, DropsFirst
  <2>5. \A w \in marks' : HasRow(w) \/ InHand(w) => HasRow(w)' \/ InHand(w)'
    BY <2>1, <2>2, <2>3 DEF InHand, HasRow, RowsAt
  <2> QED
    BY <1>1, <2>1, <2>4, <2>5, StaysTidy
<1>22. CASE RowNotMoved("events")
  <2>1. Label = "moveRow" /\ UNCHANGED <<repos, marks, rows>> /\ Held.op = "rename"
    BY <1>3, <1>22 DEF RowNotMoved, Label, jjVars, storeVars, Fits
  <2>2. HasRow(Held.peer)
    BY <1>1, <2>1 DEF RenameOK
  <2>3. HasRow(Held.ws)
    <3>1. PICK r \in rows : r.ws = Held.ws \/ r.sid = NamingSession(Held.ws)
      BY <1>22, <2>2 DEF RowNotMoved, CanRename, Conflicts, Held
    <3>2. r.ws \in Workspaces /\ r.sid = NamingSession(r.ws) /\ Held.ws \in Workspaces
      BY <1>1, <1>3 DEF IInv, TypeOK, StoreTypeOK, Rows, ResolvesOwnBookmark, Calls
    <3> QED
      BY <3>1, <3>2, NamesAreABijection DEF HasRow
  <2>4. Label' = "ok"
    BY <1>4, <1>22, <2>2 DEF RowNotMoved, Held
  <2>5. RenameOK' /\ DropsFirst'
    BY <2>4 DEF RenameOK, DropsFirst
  <2>6. \A w \in marks' : HasRow(w) \/ InHand(w) => HasRow(w)'
    BY <2>1, <2>3 DEF InHand, HasRow
  <2> QED
    BY <1>1, <2>1, <2>5, <2>6, StaysTidy
<1>23. CASE LookForDoomed("events", TRUE)
  <2>1. /\ Label = "seeMark" /\ Held' = Held
        /\ \/ Label' = "dropMark"
           \/ Doomed(Held) \notin marks /\ Label' = AfterDrop(Held)
    BY <1>1, <1>23, DoomedMoves
  <2>2. UNCHANGED <<repos, marks, rows>>
    BY <1>23 DEF LookForDoomed, jjVars, storeVars
  <2>3. RenameOK' /\ DropsFirst'
    BY <2>1, <2>2 DEF RenameOK, DropsFirst, AfterDrop, Doomed
  <2>4. \A w \in marks' : HasRow(w) \/ InHand(w) => HasRow(w)' \/ InHand(w)'
    BY <2>1, <2>2 DEF InHand, HasRow, AfterDrop, Doomed
  <2> QED
    BY <1>1, <2>2, <2>3, <2>4, StaysTidy
<1>24. CASE DropMark("events")
  <2>1. Label = "dropMark" /\ Label' = AfterDrop(Held) /\ Held' = Held /\ UNCHANGED rows
    BY <1>4, <1>24 DEF DropMark, Label, Held, storeVars
  <2>2. marks' = marks \ {Doomed(Held)} /\ UNCHANGED repos
    BY <1>24 DEF DropMark, DropBookmark, Held
  <2>3. RenameOK' /\ DropsFirst'
    BY <2>1, <2>2 DEF RenameOK, DropsFirst, AfterDrop, Doomed
  <2>4. \A w \in marks' : HasRow(w) \/ InHand(w) => HasRow(w)'
    BY <2>1, <2>2 DEF InHand, HasRow, Doomed
  <2> QED
    BY <1>1, <2>2, <2>3, <2>4, StaysTidy
<1>25. CASE DropRefused("events")
  <2>1. Label = "dropMark" /\ Label' = "retry" /\ UNCHANGED <<repos, marks, rows>>
        /\ Doomed(Held) \notin marks
    BY <1>4, <1>25 DEF DropRefused, Label, Held, jjVars, storeVars
  <2>2. RenameOK' /\ DropsFirst'
    BY <2>1 DEF RenameOK, DropsFirst
  <2>3. \A w \in marks' : HasRow(w) \/ InHand(w) => HasRow(w)'
    BY <2>1 DEF InHand, HasRow, Doomed
  <2> QED
    BY <1>1, <2>1, <2>2, <2>3, StaysTidy
<1>26. CASE Unbind("events")
  <2>1. Label = "unbind" /\ Label' = "ok" /\ UNCHANGED <<repos, marks>>
    BY <1>4, <1>26 DEF Unbind, Label, jjVars
  <2>2. rows' = rows \ RowsAt(Held.ws)
    BY <1>26 DEF Unbind, DeleteRow, Held
  <2>3. RenameOK' /\ DropsFirst'
    BY <2>1 DEF RenameOK, DropsFirst
  <2>4. ASSUME Clean'
        PROVE  \A w \in marks' : HasRow(w) \/ InHand(w) => HasRow(w)'
    BY <1>1, <2>1, <2>2, <2>4 DEF TidyOK, DropsFirst, InHand, HasRow, RowsAt
  <2> QED
    BY <1>1, <2>1, <2>3, <2>4, StaysTidy
<1> QED
  BY <1>7, <1>8, <1>9, <1>10, <1>11, <1>12, <1>13, <1>14, <1>15, <1>16, <1>17, <1>18, <1>19,
     <1>20, <1>21, <1>22, <1>23, <1>24, <1>25, <1>26, ZenonT(30) DEF Progress

\* A step that leaves the consumer alone and takes no row and makes no bookmark.
LEMMA BystandersKeepTidy ==
    ASSUME TidyOK, Clean' => Clean, UNCHANGED <<at, call, repos>>,
           marks' \subseteq marks, rows \subseteq rows'
    PROVE  TidyOK'
<1>1. RenameOK' /\ (Clean' => DropsFirst')
  BY DEF TidyOK, RenameOK, DropsFirst, HasRow, Label, Held
<1>2. \A w \in marks' : HasRow(w) \/ InHand(w) => HasRow(w)' \/ InHand(w)'
  BY DEF HasRow, InHand, Label, Held
<1> QED
  BY <1>1, <1>2, StaysTidy

LEMMA EventsKeepTidy == ASSUME IInv, TidyOK, EventsStep PROVE TidyOK'
<1>1. StepTypeOK(Labels) /\ UNCHANGED used /\ stream \subseteq Events
  BY DEF IInv, TypeOK, AgentTypeOK, EventsStep
<1>2. \A l, c : /\ Goto("events", l) => Label' = l /\ Held' = Held
                /\ Enter("events", c, l) => Label' = l /\ Held' = c
  BY <1>1, ConsumerMoves
<1>3. ASSUME UNCHANGED <<repos, marks, rows>>,
             Label \notin {"bind", "moveRow", "seeMark", "dropMark"},
             Label' # "unbind", RenameOK'
      PROVE  TidyOK'
  BY <1>1, <1>3, StaysTidy DEF DropsFirst, InHand, HasRow, Clean
<1>4. CASE \E e \in stream : Deliver(e)
  <2>1. PICK e \in stream : Deliver(e)
    BY <1>4
  <2>2. Label = "idle" /\ UNCHANGED <<repos, marks, rows>>
        /\ Label' = HandlerOf(e)[1] /\ Held' = HandlerOf(e)[2]
    BY <1>2, <2>1 DEF Deliver, Label, jjVars, storeVars
  <2>3. \/ Label' = "findRow" /\ Held'.op \in {"create", "fork", "delete"}
        \/ Label' \in {"fromRow", "reject"}
    BY <1>1, <2>2, HandlerCases DEF Call
  <2> QED
    BY <1>3, <2>2, <2>3 DEF RenameOK
<1>5. CASE Ack \/ Nack("retry")
  <2>1. Label \in {"done", "reject", "retry"} /\ UNCHANGED <<repos, marks, rows>>
        /\ Label' = "idle"
    BY <1>2, <1>5 DEF Ack, Nack, Label, jjVars, storeVars
  <2> QED
    BY <1>3, <2>1 DEF RenameOK
<1>6. CASE ResolveVars
  <2>1. Label = "ok" /\ UNCHANGED <<repos, marks, rows>> /\ Label' \in {"done", "project"}
    BY <1>2, <1>6 DEF ResolveVars, Label, jjVars, storeVars
  <2> QED
    BY <1>3, <2>1 DEF RenameOK
<1>7. CASE PublishSessionVars \/ ClearSessionVars
  <2>1. Label \in {"ok", "project"} /\ UNCHANGED <<repos, marks, rows>> /\ Label' = "done"
    BY <1>2, <1>7 DEF PublishSessionVars, ClearSessionVars, Label, jjVars, storeVars
  <2> QED
    BY <1>3, <2>1 DEF RenameOK
<1> QED
  BY <1>1, <1>4, <1>5, <1>6, <1>7, ProgressKeepsTidy DEF EventsStep

LEMMA FailuresKeepTidy == ASSUME IInv, TidyOK, ConsumerFails \/ Crash PROVE TidyOK'
<1>1. StepTypeOK(Labels) /\ used \in [BudgetKinds -> Nat]
  BY DEF IInv, TypeOK
<1>2. /\ Trouble("faults") => used'["faults"] # 0
      /\ Trouble("unanswered") => used'["unanswered"] # 0
      /\ Trouble("blind") => used'["blind"] # 0
  BY <1>1, Spent DEF BudgetKinds, Troubles
<1>3. ASSUME ~ Clean', RenameOK', UNCHANGED <<repos, marks>> PROVE TidyOK'
  BY <1>3 DEF TidyOK, MarksInRepos
<1>4. CASE CallFails("events")
  <2>1. Label' = "retry"
    BY <1>1, <1>4, ConsumerMoves DEF CallFails, FailCall
  <2> QED
    BY <1>2, <1>3, <1>4, <2>1 DEF CallFails, FailCall, jjVars, Clean, RenameOK
<1>5. CASE HandlerBlind("events")
  <2>1. UNCHANGED <<repos, marks, rows>> /\ ~ Clean'
    BY <1>2, <1>5 DEF HandlerBlind, LookForMark, LookForDoomed, jjVars, storeVars, Clean
  <2>2. CASE LookForMark("events", FALSE)
    <3>1. Label = "look" /\ Held' = Held /\ Label' \in {"reject", "create"}
      BY <1>1, <2>2, LookMoves
    <3> QED
      BY <1>3, <2>1, <3>1 DEF TidyOK, RenameOK, HasRow
  <2>3. CASE LookForDoomed("events", FALSE)
    <3>1. Label' \in {"unbind", "ok"}
      BY <1>1, <2>3, DoomedMoves DEF AfterDrop
    <3> QED
      BY <1>3, <2>1, <3>1 DEF RenameOK
  <2> QED
    BY <1>5, <2>2, <2>3 DEF HandlerBlind
<1>6. CASE AckLost
  <2>1. Label' = "idle"
    BY <1>1, <1>6, ConsumerMoves DEF AckLost, Nack
  <2> QED
    BY <1>2, <1>3, <1>6, <2>1 DEF AckLost, Nack, jjVars, Clean, RenameOK
<1>7. CASE VarsWriteFails
  <2>1. Label' = "done"
    BY <1>1, <1>7, ConsumerMoves DEF VarsWriteFails, VarsFail
  <2> QED
    BY <1>2, <1>3, <1>7, <2>1 DEF VarsWriteFails, VarsFail, jjVars, Clean, RenameOK
<1>8. CASE Crash
  <2>1. Label' = "idle"
    BY <1>8 DEF Crash, Label, Procs
  <2> QED
    BY <1>2, <1>3, <1>8, <2>1 DEF Crash, jjVars, Clean, RenameOK
<1>9. CASE CallUnanswered("events")
  <2>1. Label' = "retry" /\ ~ Clean'
    BY <1>1, <1>2, <1>9, ConsumerMoves DEF CallUnanswered, Unanswered, Clean
  <2>2. MarksInRepos'
    BY <1>9 DEF CallUnanswered, Unanswered, WritesMark, EnsureRepo, CreateBookmark, CanCreate,
                DropBookmark, jjVars, MainOf, TidyOK, MarksInRepos
  <2> QED
    BY <2>1, <2>2 DEF TidyOK, RenameOK
<1> QED
  BY <1>4, <1>5, <1>6, <1>7, <1>8, <1>9 DEF ConsumerFails

\* A handler that runs to its end takes into its hands, and lets go of, every
\* bookmark it makes or strips of its row.
LEMMA NextKeepsTidy ==
    ASSUME Alone, IInv, OthersIdle, TidyOK, [Next]_vars PROVE TidyOK'
<1>1. TypeOK /\ used \in [BudgetKinds -> Nat]
  BY DEF IInv, TypeOK
<1> DEFINE AsClean == UNCHANGED <<used["faults"], used["unanswered"], used["blind"]>>
<1>2. /\ \A kind \in {"acts", "adoptions", "commits", "lookups"} : Spend(kind) => AsClean
      /\ \A kind \in {"lost", "removals"} : Trouble(kind) => AsClean
      /\ Trouble("faults") => used'["faults"] # 0
  BY <1>1, Spent DEF BudgetKinds, Troubles
<1>3. CASE Outside
  <2>1. UNCHANGED <<at, call, repos, rows>> /\ marks' \subseteq marks /\ (Clean' => Clean)
    BY <1>2, <1>3 DEF Outside, AgentActs, AgentCreates, AgentForks, AgentRenames,
                      AgentDeletes, LoseEvent, JJRemoves, DropBookmark, others, stepVars,
                      jjVars, storeVars, Clean
  <2> QED
    BY <2>1, BystandersKeepTidy
<1>4. CASE ToolSteps
  <2>1. UNCHANGED <<at, call, repos, rows, marks>> /\ (Clean' => Clean)
    BY <1>2, <1>4 DEF ToolSteps, ToolStarts, ToolCommits, Commit, ToolLooksUp, CacheChanges,
                      stepVars, jjVars, storeVars, Clean
  <2> QED
    BY <2>1, BystandersKeepTidy
<1>5. CASE AdoptActs
  <2>1. UNCHANGED <<at, call, repos, marks>> /\ rows \subseteq rows' /\ (Clean' => Clean)
    BY <1>2, <1>5 DEF AdoptActs, AdoptStep, AdoptStarts, FindOrphan, AdoptCreates,
                      EnsureSession, AdoptEnds, AdoptRow, InsertRow, AdoptRefused,
                      AdoptFails, FailAdoption, stepVars, jjVars, storeVars, Clean
  <2> QED
    BY <2>1, BystandersKeepTidy
<1>6. CASE UNCHANGED vars
  BY <1>6, BystandersKeepTidy DEF vars, stepVars, jjVars, storeVars, Clean
<1> QED
  BY <1>1, <1>3, <1>4, <1>5, <1>6, AloneSteps, EventsKeepTidy, FailuresKeepTidy

LEMMA TidyInvariance == ASSUME Alone PROVE Spec => []TidyOK
<1>1. Init => TidyOK
  BY WorkspaceAssumption
     DEF Init, TidyOK, Accounted, DropsFirst, RenameOK, MarksInRepos, MainOf, Label, Procs
<1>2. IInv /\ OthersIdle /\ TidyOK /\ [Next]_vars => TidyOK'
  BY NextKeepsTidy
<1> QED
  BY <1>1, <1>2, AloneInvariance, PTL DEF Spec

\* "Bookmark + row removed", "old bookmark removed" (README.md:28-30): under the
\* consumer alone, as long as no call failed, every write was answered and every
\* repository could be listed, a drained stream leaves no bookmark that belongs
\* to no session but the default ones, also when events were lost or overtook
\* each other, users of jj removed bookmarks and adoptions wrote rows in between.
THEOREM NothingLeftOver == ASSUME Alone PROVE Spec => []NoLeftovers
<1>1. TidyOK => NoLeftovers
  BY DEF TidyOK, Accounted, InHand, NoLeftovers, Quiet, Clean, Label
<1> QED
  BY <1>1, TidyInvariance, PTL

----------------------------------------------------------------------------
(* Which event a call serves.                                              *)

\* The call held is the handler's for the event being served, or the one for
\* the parent of the fork being served.
CallServes ==
    /\ Label \in CallLabels => Held.op \in {"create", "fork", "parent", "rename", "delete"}
    /\ Held.op \in {"create", "rename", "fork"} => job.sid = NamingSession(Held.ws)
    /\ Held.op = "create" => job.kind \in {"created", "renamed"}
    /\ Held.op = "fork" => job.kind = "forked" /\ Held.peer = PeerOf(job)
    /\ Held.op = "parent" => /\ job.kind = "forked"
                             /\ job.sid = NamingSession(Held.peer)
                             /\ job.peer = NamingSession(Held.ws)
                             /\ Held.peer.repo = Held.ws.repo
    /\ Label \in {"look", "create"} /\ Held.op = "fork" /\ Held.peer # None
         => Held.src = Held.peer.bm /\ Held.peer.repo = Held.ws.repo
    /\ Label = "parent" => Held.peer.repo = Held.ws.repo
    /\ Label \in {"repo", "anchor"} => Held.op \in {"create", "parent"}

LEMMA ReturnKeepsServes ==
    ASSUME IInv, CallServes, Label \in CallLabels, Return("events"), UNCHANGED job
    PROVE  CallServes'
<1>1. StepTypeOK(Labels) /\ Held \in Calls /\ Fits("events", Held, Label)
  BY BusyCall DEF IInv, TypeOK, Label, Held, Procs
<1>2. CASE Held.op = "parent"
  <2>1. Label' = "look" /\ Held' = ForkAt(Held.peer, Held.ws)
    BY <1>1, <1>2, ConsumerMoves DEF Return, Held
  <2>2. Held.ws \in Workspaces /\ PeerOf(job) = Held.ws
    BY <1>1, <1>2, NamesAreABijection DEF CallServes, PeerOf, Derived, Calls
  <2> QED
    BY <1>2, <2>1, <2>2 DEF CallServes, ForkAt, Call, PeerOf
<1>3. CASE Held.op # "parent"
  <2>1. Label' = "ok" /\ Held' = Held
    BY <1>1, <1>3, ConsumerMoves DEF Return, Held
  <2> QED
    BY <2>1 DEF CallServes, CallLabels, PeerOf
<1> QED
  BY <1>2, <1>3

LEMMA ProgressKeepsServes ==
    ASSUME IInv, CallServes, Progress("events"), UNCHANGED job
    PROVE  CallServes'
<1>1. StepTypeOK(Labels) /\ Label \in CallLabels
  BY CallsAreMade DEF IInv, TypeOK, Label, Procs
<1>2. /\ Held \in Calls /\ Fits("events", Held, Label)
      /\ Serves(Held, Label) /\ job \in stream
  BY <1>1, BusyCall DEF IInv, TypeOK, Label, Held, Procs, Owns
<1>3. \A l, c : /\ Goto("events", l) => Label' = l /\ Held' = Held
                /\ Enter("events", c, l) => Label' = l /\ Held' = c
  BY <1>1, ConsumerMoves
<1>4. ASSUME NEW l \in {"repo", "anchor", "create", "bind", "moveRow", "manage", "seeMark",
                        "dropMark", "unbind", "ok", "retry", "reject"},
             Label' = l, Held' = Held,
             l \in {"repo", "anchor"} => Held.op \in {"create", "parent"},
             l = "create" => Label = "look"
      PROVE  CallServes'
  BY <1>1, <1>4 DEF CallServes, CallLabels, PeerOf
<1>5. CASE AlreadyMirrored("events") \/ AlreadyBound("events") \/ ManageRepo("events")
  BY <1>1, <1>5, ReturnKeepsServes DEF AlreadyMirrored, AlreadyBound, ManageRepo
<1>6. CASE NotMirrored("events")
  <2>1. Held.op \in {"create", "parent"} /\ Label' = "repo" /\ Held' = Held
    BY <1>1, <1>3, <1>6 DEF NotMirrored, Held, CallServes
  <2> QED
    BY <1>4, <2>1
<1>7. CASE ForkNotMirrored("events")
  <2>1. Held.op = "fork"
    BY <1>7 DEF ForkNotMirrored, Held
  <2>2. \/ Held.peer = None /\ Enter("events", [Held EXCEPT !.src = Main], "look")
        \/ Goto("events", "reject")
        \/ Held.peer.repo = Held.ws.repo /\ Goto("events", "parent")
    BY <1>7 DEF ForkNotMirrored, Held
  <2>3. CASE Held.peer = None /\ Enter("events", [Held EXCEPT !.src = Main], "look")
    <3>1. Label' = "look" /\ Held'.op = "fork" /\ Held'.ws = Held.ws /\ Held'.peer = None
      BY <1>2, <1>3, <2>1, <2>3 DEF Calls
    <3> QED
      BY <1>1, <2>1, <2>3, <3>1 DEF CallServes, PeerOf
  <2>4. CASE Goto("events", "reject")
    BY <1>3, <1>4, <2>4
  <2>5. CASE Held.peer.repo = Held.ws.repo /\ Goto("events", "parent")
    <3>1. Label' = "parent" /\ Held' = Held
      BY <1>3, <2>5
    <3> QED
      BY <2>1, <2>5, <3>1 DEF CallServes, PeerOf
  <2> QED
    BY <2>2, <2>3, <2>4, <2>5
<1>8. CASE FindParent("events")
  <2>1. Label = "parent" /\ Held.op = "fork" /\ Held.peer \in Workspaces
    BY <1>2, <1>8 DEF FindParent, Label, Fits
  <2>2. \/ Label' = "look" /\ Held' = ForkAt(Held.ws, Held.peer)
        \/ Label' = "findRow" /\ Held' = Call("parent", Held.peer, Held.ws, None)
    BY <1>3, <1>8 DEF FindParent, Held
  <2>3. job.kind = "forked" /\ job.sid = NamingSession(Held.ws) /\ Held.peer = PeerOf(job)
        /\ Held.peer.repo = Held.ws.repo
    BY <2>1 DEF CallServes
  <2>4. job.peer = NamingSession(Held.peer)
    BY <2>1, <2>3, NamesAreABijection, NamesAssumption DEF PeerOf, Derived
  <2> QED
    BY <2>2, <2>3, <2>4 DEF CallServes, ForkAt, Call, PeerOf
<1>9. CASE FindFrom("events")
  <2>1. Label = "fromRow" /\ Held.op = "rename"
    BY <1>2, <1>9 DEF FindFrom, Label, Fits
  <2>2. \/ Enter("events", [Held EXCEPT !.src = Held.peer.bm], "look")
        \/ Enter("events", Call("create", Held.ws, None, None), "findRow")
    BY <1>9 DEF FindFrom, Held
  <2>3. \/ Label' = "look" /\ Held'.op = "rename" /\ Held'.ws = Held.ws
        \/ Label' = "findRow" /\ Held'.op = "create" /\ Held'.ws = Held.ws
    BY <1>2, <1>3, <2>1, <2>2 DEF Calls, Call
  <2>4. job.sid = NamingSession(Held.ws) /\ job.kind = "renamed"
    BY <1>2, <2>1 DEF CallServes, Serves
  <2> QED
    BY <2>3, <2>4 DEF CallServes
<1>10. CASE FindDeleted("events")
  BY <1>3, <1>4, <1>10 DEF FindDeleted
<1>11. CASE MakeRepo("events")
  <2>1. Label = "repo" /\ Held.op \in {"create", "parent"}
    BY <1>11 DEF MakeRepo, Label, CallServes
  <2>2. Label' = "anchor" /\ Held' = Held
    BY <1>3, <1>11, <2>1 DEF MakeRepo, AfterRepo, Held
  <2> QED
    BY <1>4, <2>1, <2>2
<1>12. CASE ChooseAnchor("events")
  <2>1. Label = "anchor" /\ Held.op \in {"create", "parent"}
    BY <1>12 DEF ChooseAnchor, Label, CallServes
  <2>2. Enter("events", [Held EXCEPT !.src = AnchorChoice(Held.ws.repo)], "look")
    BY <1>12 DEF ChooseAnchor, Held
  <2>3. Label' = "look" /\ Held'.op = Held.op /\ Held'.ws = Held.ws /\ Held'.peer = Held.peer
    BY <1>2, <1>3, <2>2 DEF Calls
  <2> QED
    BY <2>1, <2>3 DEF CallServes
<1>13. CASE LookForMark("events", TRUE)
  <2>1. Label = "look" /\ Held' = Held /\ Label' \in {"reject", "create", "moveRow", "bind"}
    BY <1>1, <1>13, LookMoves DEF AfterMark
  <2> QED
    BY <1>4, <2>1
<1>14. CASE MakeMark("events") \/ MarkRefused("events")
  BY <1>3, <1>4, <1>14 DEF MakeMark, MarkRefused, AfterMark
<1>15. CASE BindRow("events") \/ MoveRow("events") \/ RowNotMoved("events")
  BY <1>3, <1>4, <1>15 DEF BindRow, MoveRow, RowNotMoved
<1>16. CASE LookForDoomed("events", TRUE)
  <2>1. Held' = Held /\ Label' \in {"dropMark", "unbind", "ok"}
    BY <1>1, <1>16, DoomedMoves DEF AfterDrop
  <2> QED
    BY <1>4, <2>1
<1>17. CASE DropMark("events") \/ DropRefused("events") \/ Unbind("events")
  BY <1>3, <1>4, <1>17 DEF DropMark, DropRefused, Unbind, AfterDrop
<1> QED
  BY <1>5, <1>6, <1>7, <1>8, <1>9, <1>10, <1>11, <1>12, <1>13, <1>14, <1>15, <1>16, <1>17,
     ZenonT(30) DEF Progress

LEMMA EventsKeepServes == ASSUME IInv, CallServes, EventsStep PROVE CallServes'
<1>1. StepTypeOK(Labels) /\ stream \subseteq Events
  BY DEF IInv, TypeOK, AgentTypeOK
<1>2. \A l, c : /\ Goto("events", l) => Label' = l /\ Held' = Held
                /\ Enter("events", c, l) => Label' = l /\ Held' = c
  BY <1>1, ConsumerMoves
<1>3. ASSUME Label' \notin CallLabels, Held'.op \in {"none", "publish"} PROVE CallServes'
  BY <1>3 DEF CallServes, CallLabels
<1>4. ASSUME Label' \notin CallLabels, Held' = Held, job' = job PROVE CallServes'
  BY <1>4 DEF CallServes, CallLabels, PeerOf
<1>5. CASE \E e \in stream : Deliver(e)
  <2>1. PICK e \in stream : Deliver(e)
    BY <1>5
  <2>2. job' = e /\ Label' = HandlerOf(e)[1] /\ Held' = HandlerOf(e)[2]
    BY <1>2, <2>1 DEF Deliver
  <2>3. e \in Events /\ (Derived(e.sid) => NamingSession(ParseSession(e.sid)) = e.sid)
    BY <1>1, NamesAreABijection DEF Derived
  <2> DEFINE w == ParseSession(e.sid)
  <2>4. CASE e.kind = "created" /\ Derived(e.sid)
             /\ HandlerOf(e) = <<"findRow", Call("create", w, None, None)>>
    BY <2>2, <2>3, <2>4 DEF CallServes, Call
  <2>5. CASE e.kind = "forked" /\ Derived(e.sid)
             /\ HandlerOf(e) = <<"findRow", Call("fork", w, PeerOf(e), None)>>
    BY <2>2, <2>3, <2>5 DEF CallServes, Call, PeerOf
  <2>6. CASE e.kind = "renamed" /\ Derived(e.sid)
             /\ HandlerOf(e) = <<"fromRow", Call("rename", w, PeerOf(e), None)>>
    BY <2>2, <2>3, <2>6 DEF CallServes, Call
  <2>7. CASE e.kind = "deleted"
             /\ HandlerOf(e) = <<"findRow", Call("delete", w, None, None)>>
    BY <2>2, <2>7 DEF CallServes, Call
  <2>8. CASE HandlerOf(e) = <<"reject", NoCall>>
    BY <1>3, <2>2, <2>8 DEF CallLabels, NoCall
  <2> QED
    BY <2>3, <2>4, <2>5, <2>6, <2>7, <2>8, HandlerCases
<1>6. CASE Ack \/ Nack("retry")
  BY <1>2, <1>3, <1>6 DEF Ack, Nack, CallLabels, NoCall
<1>7. CASE ResolveVars
  <2>1. job' = job
    BY <1>7 DEF ResolveVars
  <2>2. CASE Goto("events", "done")
    BY <1>2, <1>4, <2>1, <2>2 DEF CallLabels
  <2>3. ASSUME NEW r, Enter("events", Call("publish", r.ws, None, None), "project")
        PROVE  CallServes'
    BY <1>2, <1>3, <2>3 DEF Call, CallLabels
  <2> QED
    BY <1>7, <2>2, <2>3 DEF ResolveVars
<1>8. CASE PublishSessionVars \/ ClearSessionVars
  BY <1>2, <1>4, <1>8 DEF PublishSessionVars, ClearSessionVars, CallLabels
<1>9. CASE Progress("events") /\ UNCHANGED job
  BY <1>9, ProgressKeepsServes
<1> QED
  BY <1>5, <1>6, <1>7, <1>8, <1>9 DEF EventsStep

LEMMA NextKeepsServes ==
    ASSUME Alone, IInv, OthersIdle, CallServes, [Next]_vars PROVE CallServes'
<1>1. TypeOK /\ StepTypeOK(Labels)
  BY DEF IInv, TypeOK
<1>2. ASSUME Label' \notin CallLabels, Held' = Held, job' = job PROVE CallServes'
  BY <1>2 DEF CallServes, CallLabels, PeerOf
<1>3. ASSUME Label' \notin CallLabels, Held' = NoCall PROVE CallServes'
  BY <1>3 DEF CallServes, CallLabels, NoCall
<1>4. ASSUME UNCHANGED <<at, call, job>> PROVE CallServes'
  BY <1>4 DEF CallServes, PeerOf, Label, Held
<1>5. CASE ConsumerFails
  <2>1. CASE CallFails("events")
    <3>1. Label' = "retry" /\ Held' = Held
      BY <1>1, <2>1, ConsumerMoves DEF CallFails, FailCall
    <3> QED
      BY <1>2, <2>1, <3>1 DEF CallFails, CallLabels
  <2>5. CASE CallUnanswered("events")
    <3>1. Label' = "retry" /\ Held' = Held
      BY <1>1, <2>5, ConsumerMoves DEF CallUnanswered, Unanswered
    <3> QED
      BY <1>2, <2>5, <3>1 DEF CallUnanswered, CallLabels
  <2>2. CASE HandlerBlind("events")
    <3>1. CASE LookForMark("events", FALSE)
      <4>1. Label = "look" /\ Held' = Held /\ Label' \in {"reject", "create"}
        BY <1>1, <3>1, LookMoves
      <4> QED
        BY <2>2, <4>1 DEF HandlerBlind, CallServes, CallLabels, PeerOf
    <3>2. CASE LookForDoomed("events", FALSE)
      <4>1. Label = "seeMark" /\ Held' = Held /\ Label' \in {"unbind", "ok"}
        BY <1>1, <3>2, DoomedMoves DEF AfterDrop
      <4> QED
        BY <2>2, <4>1 DEF HandlerBlind, CallServes, CallLabels, PeerOf
    <3> QED
      BY <2>2, <3>1, <3>2 DEF HandlerBlind
  <2>3. CASE AckLost
    <3>1. Label' = "idle" /\ Held' = NoCall
      BY <1>1, <2>3, ConsumerMoves DEF AckLost, Nack
    <3> QED
      BY <1>3, <3>1 DEF CallLabels
  <2>4. CASE VarsWriteFails
    <3>1. Label' = "done" /\ Held' = Held
      BY <1>1, <2>4, ConsumerMoves DEF VarsWriteFails, VarsFail
    <3> QED
      BY <1>2, <2>4, <3>1 DEF VarsWriteFails, VarsFail, CallLabels
  <2> QED
    BY <1>5, <2>1, <2>2, <2>3, <2>4, <2>5 DEF ConsumerFails
<1>6. CASE Crash
  BY <1>3, <1>6 DEF Crash, Label, Held, Procs, CallLabels
<1>7. CASE Outside
  BY <1>4, <1>7 DEF Outside, AgentActs, AgentCreates, AgentForks, AgentRenames,
                    AgentDeletes, LoseEvent, JJRemoves, others, stepVars
<1>8. CASE ToolSteps
  BY <1>4, <1>8 DEF ToolSteps, ToolStarts, ToolCommits, ToolLooksUp, CacheChanges, stepVars
<1>9. CASE AdoptActs
  BY <1>4, <1>9 DEF AdoptActs, AdoptStep, AdoptStarts, AdoptCreates, AdoptEnds, AdoptFails,
                    stepVars
<1>10. CASE UNCHANGED vars
  BY <1>4, <1>10 DEF vars, stepVars
<1> QED
  BY <1>1, <1>5, <1>6, <1>7, <1>8, <1>9, <1>10, AloneSteps, EventsKeepServes

----------------------------------------------------------------------------
(* The stream, delivered in order.                                         *)

First(e) == \A f \in stream : e.seq <= f.seq

\* Events are numbered as they were published, none has been overtaken, and
\* the one being served is the first.
StreamOK ==
    /\ \A e \in stream : e.seq < used["acts"] /\ e.tried = FALSE /\ e.sid # e.peer
    /\ \A e, f \in stream : e.seq = f.seq => e = f
    /\ Label # "idle" => First(job)
    /\ Label = "idle" => job = None

\* What the sessions are after the action that e tells of.
SessionsFollow(e) ==
    \/ /\ e.kind = "created" /\ e.peer = None
       /\ e.sid \notin sessions /\ sessions' = sessions \union {e.sid}
    \/ /\ e.kind = "forked" /\ e.peer \in sessions
       /\ e.sid \notin sessions /\ sessions' = sessions \union {e.sid}
    \/ /\ e.kind = "renamed" /\ e.peer \in sessions
       /\ e.sid \notin sessions /\ sessions' = (sessions \ {e.peer}) \union {e.sid}
    \/ /\ e.kind = "deleted" /\ e.peer = None
       /\ e.sid \in sessions /\ sessions' = sessions \ {e.sid}

\* A session action, of the agent or of an adoption, publishes e.
Published(e) ==
    /\ e \in Events /\ e.seq = used["acts"] /\ e.tried = FALSE /\ e.sid # e.peer
    /\ used'["acts"] = used["acts"] + 1 /\ used'["faults"] = used["faults"]
    /\ stream' = stream \union {e}
    /\ SessionsFollow(e)
    /\ adoption = None => e.sid \in Named /\ e.peer \in Named \union {None}
    /\ UNCHANGED <<jjVars, storeVars, cached, projected, stepVars, job>>

LEMMA ActsPublish ==
    ASSUME TypeOK, AgentActs \/ (AdoptCreates /\ AdoptedSession \notin sessions)
    PROVE  \E e : Published(e)
<1> DEFINE Ev(kind, s, peer) == [seq |-> used["acts"], kind |-> kind, sid |-> s,
                                 peer |-> peer, tried |-> FALSE]
<1>1. used["acts"] \in Nat /\ sessions \subseteq Sids /\ Named \subseteq Sids /\ None \notin Sids
  BY StreamAssumption, NamesAssumption DEF TypeOK, AgentTypeOK, BudgetKinds
<1>2. Spend("acts")
        => used'["acts"] = used["acts"] + 1 /\ used'["faults"] = used["faults"]
  BY DEF TypeOK, Spend, BudgetKinds, Troubles
<1>3. {"created", "forked", "renamed", "deleted"} \subseteq EventKinds
  BY DEF EventKinds
<1>4. ASSUME NEW kind \in EventKinds, NEW s \in Sids, NEW peer \in Sids \union {None}
      PROVE  LET e == Ev(kind, s, peer) IN
             /\ e \in Events /\ e.seq = used["acts"] /\ e.kind = kind
             /\ e.sid = s /\ e.peer = peer /\ e.tried = FALSE
  BY <1>1 DEF Events
<1>5. ASSUME NEW s \in Named, AgentCreates(s) PROVE \E e : Published(e)
  <2> DEFINE e == Ev("created", s, None)
  <2>1. stream' = stream \union {e}
    BY <1>5 DEF AgentCreates, CreateSession, Publish
  <2>2. /\ e \in Events /\ e.seq = used["acts"] /\ e.kind = "created"
        /\ e.sid = s /\ e.peer = None /\ e.tried = FALSE
    BY <1>1, <1>3, <1>4
  <2> HIDE DEF e
  <2>3. SessionsFollow(e) /\ e.sid # e.peer
    BY <1>1, <1>5, <2>2 DEF AgentCreates, CreateSession, SessionsFollow
  <2>4. UNCHANGED <<jjVars, storeVars, cached, projected, stepVars, job>>
    BY <1>5 DEF AgentCreates, others, varsVars
  <2>5. Published(e)
    BY <1>2, <1>5, <2>1, <2>2, <2>3, <2>4 DEF AgentCreates, Published
  <2> QED
    BY <2>5
<1>6. ASSUME NEW p \in Named, NEW s \in Named, AgentForks(p, s) PROVE \E e : Published(e)
  <2> DEFINE e == Ev("forked", s, p)
  <2>1. stream' = stream \union {e}
    BY <1>6 DEF AgentForks, ForkSession, Publish
  <2>2. /\ e \in Events /\ e.seq = used["acts"] /\ e.kind = "forked"
        /\ e.sid = s /\ e.peer = p /\ e.tried = FALSE
    BY <1>1, <1>3, <1>4
  <2> HIDE DEF e
  <2>3. SessionsFollow(e) /\ e.sid # e.peer
    BY <1>1, <1>6, <2>2 DEF AgentForks, ForkSession, SessionsFollow
  <2>4. UNCHANGED <<jjVars, storeVars, cached, projected, stepVars, job>>
    BY <1>6 DEF AgentForks, others, varsVars
  <2>5. Published(e)
    BY <1>2, <1>6, <2>1, <2>2, <2>3, <2>4 DEF AgentForks, Published
  <2> QED
    BY <2>5
<1>7. ASSUME NEW f \in Named, NEW t \in Named, AgentRenames(f, t) PROVE \E e : Published(e)
  <2> DEFINE e == Ev("renamed", t, f)
  <2>1. stream' = stream \union {e}
    BY <1>7 DEF AgentRenames, RenameSession, Publish
  <2>2. /\ e \in Events /\ e.seq = used["acts"] /\ e.kind = "renamed"
        /\ e.sid = t /\ e.peer = f /\ e.tried = FALSE
    BY <1>1, <1>3, <1>4
  <2> HIDE DEF e
  <2>3. SessionsFollow(e) /\ e.sid # e.peer
    BY <1>1, <1>7, <2>2 DEF AgentRenames, RenameSession, SessionsFollow
  <2>4. UNCHANGED <<jjVars, storeVars, cached, projected, stepVars, job>>
    BY <1>7 DEF AgentRenames, others, varsVars
  <2>5. Published(e)
    BY <1>2, <1>7, <2>1, <2>2, <2>3, <2>4 DEF AgentRenames, Published
  <2> QED
    BY <2>5
<1>8. ASSUME NEW s \in Named, AgentDeletes(s) PROVE \E e : Published(e)
  <2> DEFINE e == Ev("deleted", s, None)
  <2>1. stream' = stream \union {e}
    BY <1>8 DEF AgentDeletes, DeleteSession, Publish
  <2>2. /\ e \in Events /\ e.seq = used["acts"] /\ e.kind = "deleted"
        /\ e.sid = s /\ e.peer = None /\ e.tried = FALSE
    BY <1>1, <1>3, <1>4
  <2> HIDE DEF e
  <2>3. SessionsFollow(e) /\ e.sid # e.peer
    BY <1>1, <1>8, <2>2 DEF AgentDeletes, DeleteSession, SessionsFollow
  <2>4. UNCHANGED <<jjVars, storeVars, cached, projected, stepVars, job>>
    BY <1>8 DEF AgentDeletes, others, varsVars
  <2>5. Published(e)
    BY <1>2, <1>8, <2>1, <2>2, <2>3, <2>4 DEF AgentDeletes, Published
  <2> QED
    BY <2>5
<1>9. ASSUME AdoptCreates, AdoptedSession \notin sessions PROVE \E e : Published(e)
  <2> DEFINE e == Ev("created", AdoptedSession, None)
  <2>1. AdoptedSession \in Sids /\ adoption # None
    BY <1>9, NamesAreABijection, WorkspaceAssumption
       DEF AdoptCreates, EnsureSession, Adopting, AdoptedSession, TypeOK, VarsTypeOK, Adoptions
  <2>2. stream' = stream \union {e}
    BY <1>9 DEF AdoptCreates, EnsureSession, CreateSession, Publish
  <2>3. /\ e \in Events /\ e.seq = used["acts"] /\ e.kind = "created"
        /\ e.sid = AdoptedSession /\ e.peer = None /\ e.tried = FALSE
    BY <1>1, <1>3, <1>4, <2>1
  <2> HIDE DEF e
  <2>4. SessionsFollow(e) /\ e.sid # e.peer /\ Spend("acts")
    BY <1>1, <1>9, <2>1, <2>3
       DEF AdoptCreates, EnsureSession, CreateSession, SessionsFollow
  <2>5. Published(e)
    BY <1>2, <1>9, <2>1, <2>2, <2>3, <2>4 DEF AdoptCreates, EnsureSession, Published
  <2> QED
    BY <2>5
<1> QED
  BY <1>5, <1>6, <1>7, <1>8, <1>9 DEF AgentActs

\* A refused event keeps its place: redelivery does not change the stream.
LEMMA RedeliveryKeepsStream ==
    ASSUME ~ Overtaking, TypeOK, StreamOK, job \in stream, Redeliver(job)
    PROVE  UNCHANGED agentVars
<1>1. job \in Events /\ job.tried = FALSE
  BY DEF TypeOK, AgentTypeOK, StreamOK
<1>2. [job EXCEPT !.tried = Overtaking] = job
  BY <1>1, StreamAssumption DEF Events
<1> QED
  BY <1>2 DEF Redeliver, agentVars

\* The consumer goes on with its event, takes the first one, or is idle again.
JobMoves ==
    \/ Label' = "idle" /\ job' = None
    \/ job' = job /\ (Label' = "idle" <=> Label = "idle")
    \/ Label' # "idle" /\ First(job')

\* What a step can do to the stream.
LEMMA StreamMoves ==
    ASSUME Alone, ~ Overtaking, IInv, OthersIdle, StreamOK, [Next]_vars
    PROVE  \/ \E e : Published(e)
           \/ \E e \in stream : LoseEvent(e)
           \/ Ack /\ EventsStep
           \/ UNCHANGED <<agentVars, used>> /\ EventsStep /\ JobMoves
           \/ UNCHANGED agentVars /\ used'["acts"] = used["acts"] /\ JobMoves
<1>1. /\ TypeOK /\ StepTypeOK(Labels) /\ stream \subseteq Events
      /\ Label # "idle" => job \in stream
  BY DEF IInv, TypeOK, AgentTypeOK, JobOK, Serves, Label
<1>2. \A l, c : /\ Goto("events", l) => Label' = l /\ Held' = Held
                /\ Enter("events", c, l) => Label' = l /\ Held' = c
  BY <1>1, ConsumerMoves
<1>3. /\ \A kind \in {"adoptions", "commits", "lookups"} :
             Spend(kind) => used'["acts"] = used["acts"]
      /\ \A kind \in {"faults", "unanswered", "blind", "removals"} :
             Trouble(kind) => used'["acts"] = used["acts"]
  BY <1>1, Spent DEF TypeOK, BudgetKinds, Troubles
<1>4. CASE EventsStep /\ ~ Ack
  <2>1. UNCHANGED used
    BY <1>4 DEF EventsStep
  <2>2. CASE \E e \in stream : Deliver(e)
    <3>1. PICK e \in stream : Deliver(e)
      BY <2>2
    <3>2. First(e) /\ job' = e /\ UNCHANGED agentVars
      BY <1>1, <3>1 DEF Deliver, Deliverable, First, Events
    <3>3. Label' # "idle"
      BY <1>1, <1>2, <3>1, HandlerCases DEF Deliver
    <3> QED
      BY <1>4, <2>1, <3>2, <3>3 DEF JobMoves, First, agentVars
  <2>3. CASE Nack("retry")
    <3>1. Label = "retry" /\ Label' = "idle" /\ Redeliver(job) /\ job' = None
      BY <1>2, <2>3 DEF Nack, Label
    <3>2. UNCHANGED agentVars
      BY <1>1, <3>1, RedeliveryKeepsStream
    <3> QED
      BY <1>4, <2>1, <3>1, <3>2 DEF JobMoves
  <2>4. CASE ResolveVars \/ PublishSessionVars \/ ClearSessionVars
    <3>1. Label # "idle" /\ UNCHANGED <<job, agentVars>>
      BY <2>4 DEF ResolveVars, PublishSessionVars, ClearSessionVars, Label
    <3>2. Label' \in {"done", "project"}
      BY <1>2, <2>4 DEF ResolveVars, PublishSessionVars, ClearSessionVars
    <3> QED
      BY <1>4, <2>1, <3>1, <3>2 DEF JobMoves
  <2>5. CASE Progress("events") /\ UNCHANGED <<agentVars, job>>
    <3>1. Label # "idle" /\ Label' # "idle"
      BY <1>1, <2>5, CallsAreMade, ProgressStaysInHandler
         DEF InHandler, Outcomes, Label, Procs, CallLabels
    <3> QED
      BY <1>4, <2>1, <2>5, <3>1 DEF JobMoves
  <2> QED
    BY <1>4, <2>2, <2>3, <2>4, <2>5 DEF EventsStep
<1>5. CASE ConsumerFails
  <2>1. CASE CallFails("events") \/ CallUnanswered("events") \/ HandlerBlind("events")
    <3>1. Label # "idle"
      BY <2>1, CallsAreMade
         DEF CallFails, FailCall, CallUnanswered, HandlerBlind, Procs, Label, CallLabels
    <3>2. Label' # "idle"
      <4>1. CASE CallFails("events") \/ CallUnanswered("events")
        BY <1>2, <4>1 DEF CallFails, FailCall, CallUnanswered, Unanswered
      <4>2. CASE LookForMark("events", FALSE)
        BY <1>1, <4>2, LookMoves DEF AfterMark
      <4>3. CASE LookForDoomed("events", FALSE)
        BY <1>1, <4>3, DoomedMoves DEF AfterDrop
      <4> QED
        BY <2>1, <4>1, <4>2, <4>3 DEF HandlerBlind
    <3>3. UNCHANGED <<agentVars, job>> /\ used'["acts"] = used["acts"]
      BY <1>3, <2>1 DEF CallFails, CallUnanswered, HandlerBlind
    <3> QED
      BY <3>1, <3>2, <3>3 DEF JobMoves
  <2>2. CASE AckLost
    <3>1. Label = "done" /\ Label' = "idle" /\ Redeliver(job) /\ job' = None
      BY <1>2, <2>2 DEF AckLost, Nack, Label
    <3>2. UNCHANGED agentVars
      BY <1>1, <3>1, RedeliveryKeepsStream
    <3> QED
      BY <1>3, <2>2, <3>1, <3>2 DEF JobMoves, AckLost
  <2>3. CASE VarsWriteFails
    <3>1. Label # "idle" /\ Label' # "idle" /\ UNCHANGED <<agentVars, job>>
      BY <1>2, <2>3 DEF VarsWriteFails, VarsFail, Label
    <3> QED
      BY <1>3, <2>3, <3>1 DEF VarsWriteFails, JobMoves
  <2> QED
    BY <1>5, <2>1, <2>2, <2>3 DEF ConsumerFails
<1>6. CASE Crash
  <2>1. Label' = "idle"
    BY <1>6 DEF Crash, Label, Procs
  <2>2. UNCHANGED agentVars
    <3>1. CASE job = None
      BY <1>6, <3>1 DEF Crash
    <3>2. CASE job # None
      <4>1. job \in stream
        BY <1>1, <3>2 DEF StreamOK
      <4> QED
        BY <1>1, <1>6, <3>2, <4>1, RedeliveryKeepsStream DEF Crash
    <3> QED
      BY <3>1, <3>2
  <2> QED
    BY <1>3, <1>6, <2>1, <2>2 DEF Crash, JobMoves
<1>7. CASE Outside
  <2>1. CASE AgentActs
    BY <1>1, <2>1, ActsPublish
  <2>2. CASE \E w \in Removable : JJRemoves(w)
    BY <1>3, <2>2 DEF JJRemoves, stepVars, JobMoves, Label
  <2> QED
    BY <1>7, <2>1, <2>2 DEF Outside
<1>8. CASE ToolSteps
  BY <1>3, <1>8 DEF ToolSteps, ToolStarts, ToolCommits, ToolLooksUp, CacheChanges, stepVars,
                    JobMoves, Label
<1>9. CASE AdoptActs
  <2>1. CASE AdoptCreates /\ AdoptedSession \notin sessions
    BY <1>1, <2>1, ActsPublish
  <2>2. CASE AdoptCreates /\ AdoptedSession \in sessions
    BY <2>2 DEF AdoptCreates, EnsureSession, stepVars, JobMoves, Label
  <2>3. CASE (\E w \in Adoptable : AdoptStarts(w)) \/ AdoptEnds \/ AdoptFails
    BY <1>3, <2>3 DEF AdoptStarts, FindOrphan, AdoptEnds, AdoptRow, AdoptRefused, AdoptFails,
                      FailAdoption, stepVars, JobMoves, Label
  <2> QED
    BY <1>9, <2>1, <2>2, <2>3 DEF AdoptActs, AdoptStep
<1>10. CASE UNCHANGED vars
  BY <1>10 DEF vars, stepVars, JobMoves, Label
<1> QED
  BY <1>1, <1>4, <1>5, <1>6, <1>7, <1>8, <1>9, <1>10, AloneSteps

LEMMA NextKeepsStream ==
    ASSUME Alone, ~ Overtaking, IInv, OthersIdle, StreamOK, [Next]_vars PROVE StreamOK'
<1>1. /\ used["acts"] \in Nat /\ (\A e \in stream : e.seq \in Nat)
      /\ Label # "idle" => job \in stream
  BY DEF IInv, TypeOK, AgentTypeOK, Events, JobOK, Serves, Label, BudgetKinds
<1>2. CASE \E e : Published(e)
  <2>1. PICK e : Published(e)
    BY <1>2
  <2>2. /\ stream' = stream \union {e} /\ e.seq = used["acts"] /\ Label' = Label /\ job' = job
        /\ used'["acts"] = used["acts"] + 1 /\ e.tried = FALSE /\ e.sid # e.peer
    BY <2>1 DEF Published, stepVars, Label
  <2> QED
    BY <1>1, <2>2 DEF StreamOK, First
<1>3. CASE \E e \in stream : LoseEvent(e)
  <2>1. stream' \subseteq stream /\ Label' = Label /\ job' = job
    BY <1>3 DEF LoseEvent, Lose, others, stepVars, Label
  <2>2. used'["acts"] = used["acts"]
    BY <1>3, Spent DEF LoseEvent, IInv, TypeOK, BudgetKinds, Troubles
  <2> QED
    BY <2>1, <2>2 DEF StreamOK, First
<1>4. CASE Ack /\ EventsStep
  <2>1. Label' = "idle" /\ job' = None
    BY <1>4, ConsumerMoves DEF Ack, IInv, TypeOK
  <2>2. stream' \subseteq stream /\ used' = used
    BY <1>4 DEF Ack, Acknowledge, EventsStep
  <2> QED
    BY <2>1, <2>2 DEF StreamOK, First
<1>5. CASE UNCHANGED agentVars /\ used'["acts"] = used["acts"] /\ JobMoves
  BY <1>5 DEF StreamOK, First, JobMoves, agentVars
<1> QED
  BY <1>2, <1>3, <1>4, <1>5, StreamMoves

LEMMA StreamInvariance ==
    ASSUME Alone, ~ Overtaking PROVE Spec => [](StreamOK /\ CallServes)
<1>1. Init => StreamOK /\ CallServes
  BY DEF Init, StreamOK, CallServes, Label, Held, Procs, NoCall, CallLabels
<1>2. IInv /\ OthersIdle /\ StreamOK /\ CallServes /\ [Next]_vars => (StreamOK /\ CallServes)'
  BY NextKeepsStream, NextKeepsServes
<1> QED
  BY <1>1, <1>2, AloneInvariance, PTL DEF Spec

\* Only the consumer makes bookmarks, whether it is told so or not.
MakesMark ==
    \/ Label = "repo" /\ EnsureRepo(Held.ws.repo)
    \/ Label = "create" /\ CreateBookmark(Held.ws, Held.src)

LEMMA WhoMakesMarks ==
    ASSUME Alone, TypeOK, OthersIdle, [Next]_vars, ~ (marks' \subseteq marks)
    PROVE  MakesMark
<1>1. ~ (UNCHANGED marks)
  OBVIOUS
<1>2. CASE EventsStep
  <2>1. ~ (\/ \E e \in stream : Deliver(e)
           \/ Ack \/ Nack("retry") \/ ResolveVars \/ PublishSessionVars \/ ClearSessionVars)
    BY <1>1 DEF Deliver, Ack, Nack, ResolveVars, PublishSessionVars, ClearSessionVars, jjVars
  <2>2. Progress("events")
    BY <1>2, <2>1 DEF EventsStep
  <2>3. ~ (\/ AlreadyMirrored("events") \/ NotMirrored("events")
           \/ ForkNotMirrored("events") \/ FindParent("events") \/ FindFrom("events")
           \/ FindDeleted("events") \/ ChooseAnchor("events")
           \/ LookForMark("events", TRUE) \/ MarkRefused("events") \/ BindRow("events"))
    BY <1>1 DEF AlreadyMirrored, NotMirrored, ForkNotMirrored, FindParent, FindFrom,
                FindDeleted, ChooseAnchor, LookForMark, MarkRefused, BindRow, jjVars
  <2>4. ~ (\/ AlreadyBound("events") \/ ManageRepo("events") \/ MoveRow("events")
           \/ RowNotMoved("events") \/ LookForDoomed("events", TRUE) \/ DropMark("events")
           \/ DropRefused("events") \/ Unbind("events"))
    BY <1>1 DEF AlreadyBound, ManageRepo, MoveRow, RowNotMoved, LookForDoomed, DropMark,
                DropBookmark, DropRefused, Unbind, jjVars
  <2> QED
    <3>1. MakeRepo("events") \/ MakeMark("events")
      BY <2>2, <2>3, <2>4, ZenonT(30) DEF Progress
    <3> QED
      BY <3>1 DEF MakeRepo, MakeMark, MakesMark, Label, Held
<1>3. CASE ConsumerFails
  <2>1. CallUnanswered("events")
    BY <1>1, <1>3 DEF ConsumerFails, CallFails, FailCall, HandlerBlind, LookForMark,
                      LookForDoomed, AckLost, Nack, VarsWriteFails, VarsFail, jjVars
  <2> QED
    BY <1>1, <2>1 DEF CallUnanswered, Unanswered, WritesMark, DropBookmark, jjVars, MakesMark,
                      Label, Held
<1>4. ~ Crash
  BY <1>1 DEF Crash, jjVars
<1>5. ~ Outside
  BY <1>1 DEF Outside, AgentActs, AgentCreates, AgentForks, AgentRenames, AgentDeletes,
              LoseEvent, JJRemoves, DropBookmark, others, jjVars
<1>6. ~ ToolSteps
  BY <1>1 DEF ToolSteps, ToolStarts, ToolCommits, Commit, ToolLooksUp, CacheChanges, jjVars
<1>7. ~ AdoptActs
  BY <1>1 DEF AdoptActs, AdoptStep, AdoptStarts, FindOrphan, AdoptCreates, EnsureSession,
              AdoptEnds, AdoptRow, AdoptRefused, AdoptFails, FailAdoption, jjVars
<1>8. ~ UNCHANGED vars
  BY <1>1 DEF vars, jjVars
<1> QED
  BY <1>2, <1>3, <1>4, <1>5, <1>6, <1>7, <1>8, AloneSteps

\* The bookmark made for a fork starts at its parent's.
LEMMA ForkMadeAtParent ==
    ASSUME IInv, StreamOK, CallServes, MarksInRepos,
           MakesMark,
           NEW w \in marks' \ marks, NEW e \in stream, ForkOrigin(e, w),
           ParseSession(e.peer) \in marks
    PROVE  work'[w] = work[ParseSession(e.peer)]
<1> DEFINE p == ParseSession(e.peer)
<1>1. /\ TypeOK /\ StepTypeOK(Labels) /\ stream \subseteq Events /\ marks \subseteq Workspaces
      /\ work \in [Workspaces -> SUBSET Commits]
  BY DEF IInv, TypeOK, AgentTypeOK, JJTypeOK
<1>2. /\ e.kind = "forked" /\ e.sid = NamingSession(w) /\ e.sid # e.peer
      /\ Derived(e.peer) /\ p.repo = w.repo
  BY DEF ForkOrigin, StreamOK
<1>3. ~ EnsureRepo(Held.ws.repo)
  <2>1. p.repo \in repos
    BY DEF MarksInRepos
  <2> QED
    BY <1>2, <2>1 DEF EnsureRepo, MainOf
<1>4. Label = "create" /\ w = Held.ws /\ CreateBookmark(w, Held.src)
  BY <1>3 DEF MakesMark, CreateBookmark
<1>5. /\ Held \in Calls /\ Serves(Held, Label) /\ job \in stream
      /\ Held.op \in {"create", "fork", "parent", "rename", "delete"}
  BY <1>1, <1>4, BusyCall DEF IInv, Label, Held, Procs, Owns, CallServes, CallLabels
<1>6. ASSUME NamingSession(w) \in {job.sid, job.peer} PROVE job = e
  <2>1. First(job)
    BY <1>4 DEF StreamOK
  <2>2. job.seq \in Nat /\ e.seq \in Nat
    BY <1>1, <1>5 DEF Events
  <2>3. ~ (job.seq < e.seq)
    BY <1>5, <1>6 DEF ForkOrigin
  <2> QED
    BY <1>5, <2>1, <2>2, <2>3 DEF First, StreamOK
<1>7. Held.op = "fork"
  <2>1. Held.op # "create" /\ Held.op # "rename" /\ Held.op # "delete"
    BY <1>2, <1>4, <1>5, <1>6 DEF CallServes, Serves
  <2>2. Held.op # "parent"
    BY <1>2, <1>4, <1>6 DEF CallServes
  <2> QED
    BY <1>5, <2>1, <2>2
<1>8. job = e /\ Held.peer = p
  BY <1>2, <1>4, <1>6, <1>7 DEF CallServes, PeerOf
<1>9. p \in Workspaces /\ w \in Workspaces /\ p # None
  BY <1>1, <1>4, <1>5, NamesAssumption DEF Calls
<1>10. Held.src = p.bm
  BY <1>4, <1>7, <1>8, <1>9 DEF CallServes
<1>11. p = [repo |-> w.repo, bm |-> p.bm] /\ p.bm \in Marks
  BY <1>2, <1>9 DEF Workspaces
<1>12. p.bm # Head
  BY <1>11, WorkspaceAssumption
<1>13. Anchor(w.repo, p.bm) = work[p]
  BY <1>11, <1>12 DEF Anchor
<1> QED
  BY <1>1, <1>4, <1>9, <1>10, <1>13 DEF CreateBookmark

\* "True workspace inheritance at fork time" (events_sub.go:69-70): while the
\* consumer works alone and nothing overtakes a refused event, a bookmark that
\* comes into being for a forked session starts with its parent's work, through
\* failing calls, redeliveries, crashes, lost events, removed bookmarks and
\* forks whose parent has to be made first.
THEOREM ForksInherit == ASSUME Alone, ~ Overtaking PROVE Spec => ForkInheritsParent
<1>1. ASSUME IInv, OthersIdle, TidyOK, StreamOK, CallServes, [Next]_vars
      PROVE  [\A w \in marks' \ marks : \A e \in stream :
                 ForkOrigin(e, w) /\ ParseSession(e.peer) \in marks =>
                     work'[w] = work[ParseSession(e.peer)]]_vars
  <2>1. SUFFICES ASSUME NEW w \in marks' \ marks, NEW e \in stream,
                        ForkOrigin(e, w), ParseSession(e.peer) \in marks
                 PROVE  work'[w] = work[ParseSession(e.peer)]
    OBVIOUS
  <2>2. MakesMark
    BY <1>1, <2>1, WhoMakesMarks DEF IInv
  <2> QED
    BY <1>1, <2>1, <2>2, ForkMadeAtParent DEF TidyOK
<1> QED
  BY <1>1, AloneInvariance, TidyInvariance, StreamInvariance, PTL DEF Spec, ForkInheritsParent
================================================================================
