--------------------------- MODULE FileToolsProofs ---------------------------
(***************************************************************************)
(* Theorems about FileTools for all texts, calls, processes and bounds.    *)
(***************************************************************************)
EXTENDS FileTools, SequenceTheorems, TLAPS

----------------------------------------------------------------------------
(* What the line tools do to texts.                                        *)

\* Dropping the last piece of a text of two or more leaves a text.
LEMMA DropLastText ==
    ASSUME NEW t \in Texts, Len(t) > 1
    PROVE  DropLast(t) \in Texts
<1>1. DropLast(t) \in Seq(Lines) /\ Len(DropLast(t)) = Len(t) - 1
  BY SubSeqProperties, LenProperties DEF DropLast, Texts
<1>2. DropLast(t) # <<>>
  BY <1>1, EmptySeq
<1> QED BY <1>1, <1>2 DEF Texts

\* The lines edited are a sequence of lines, possibly empty.
LEMMA LinesOfType ==
    ASSUME NEW t \in Texts
    PROVE  LinesOf(t) \in Seq(Lines)
BY DropLastText, EmptySeq DEF LinesOf, EndsNewline, Texts

\* Joining lines gives a text, also when there are none.
LEMMA JoinedText ==
    ASSUME NEW ls \in Seq(Lines), NEW newline \in BOOLEAN
    PROVE  Joined(ls, newline) \in Texts
<1> DEFINE t == IF ls = <<>> THEN EmptyText ELSE ls
<1>1. t \in Texts
  BY LinesAssumption DEF EmptyText, Texts
<1>2. Append(t, Blank) \in Texts
  <2>1. t \in Seq(Lines) BY <1>1 DEF Texts
  <2>2. Append(t, Blank) \in Seq(Lines) /\ Len(Append(t, Blank)) = Len(t) + 1
    BY <2>1, LinesAssumption, AppendProperties
  <2> QED BY <2>1, <2>2, EmptySeq, LenProperties DEF Texts
<1> QED BY <1>1, <1>2 DEF Joined

\* applyLineEdit makes a text of a text.
LEMMA EditedText ==
    ASSUME NEW t \in Texts, NEW start \in Nat, NEW end \in Nat, NEW content \in Texts,
           CanEdit(t, start, end)
    PROVE  ApplyLineEdit(t, start, end, content) \in Texts
<1> DEFINE ls == LinesOf(t)
           before == SubSeq(ls, 1, start - 1)
           after == SubSeq(ls, LastOld(start, end) + 1, Len(ls))
<1>1. ls \in Seq(Lines) /\ Len(ls) \in Nat
  BY LinesOfType, LenProperties
<1>2. 1 <= start /\ start <= Len(ls) + 1 /\ (end >= start => end <= Len(ls))
  BY <1>1 DEF CanEdit, Refused, Panics
<1>3. before \in Seq(Lines)
  BY <1>1, <1>2, SubSeqProperties
<1>4. after \in Seq(Lines)
  BY <1>1, <1>2, SubSeqProperties DEF LastOld
<1>5. NewLines(content) \in Seq(Lines)
  BY EmptySeq DEF NewLines, Texts
<1>6. before \o NewLines(content) \in Seq(Lines)
  BY <1>3, <1>5, ConcatProperties
<1>7. before \o NewLines(content) \o after \in Seq(Lines)
  BY <1>4, <1>6, ConcatProperties
<1>8. EndsNewline(t) \in BOOLEAN
  BY DEF EndsNewline
<1> HIDE DEF ls, before, after
<1>9. Joined(before \o NewLines(content) \o after, EndsNewline(t)) \in Texts
  BY <1>7, <1>8, JoinedText
<1> QED BY <1>9 DEF ApplyLineEdit, ls, before, after

----------------------------------------------------------------------------
(* The inductive invariant: a call in progress is a call, and the text it  *)
(* is about to commit is what the call makes of the text it has a sha of.  *)

Planned(l) ==
    IF l.call.kind = "edit"
    THEN /\ l.base # None
         /\ CanEdit(l.base, l.call.start, l.call.end)
         /\ l.new = ApplyLineEdit(l.base, l.call.start, l.call.end, l.call.content)
    ELSE l.new = Fresh(l.call)

\* While no read failed, the sha is that of the text that was there.
Locked(l) == used["reads"] = 0 => l.base = l.looked

CallOK(p) ==
    /\ at[p] # "idle" => loc[p].call \in Atomic!ToolCalls
    /\ at[p] = "commit" => Planned(loc[p]) /\ Locked(loc[p])

IInv == TypeOK /\ \A p \in Procs : CallOK(p)

Locs == [call : Atomic!ToolCalls \union {None}, base : Texts \union {None},
         new : Texts \union {None}, looked : Texts \union {None}]

USE FilesAssumption, LinesAssumption

\* Initially nobody has a call.
LEMMA InitIInv == Init => IInv
BY DEF Init, IInv, TypeOK, CallOK, Ready

\* A call that is over, or that has not read yet, has nothing planned; what
\* the other processes planned is still right as long as failed reads count.
LEMMA OthersKeep ==
    ASSUME IInv, NEW p \in Procs,
           at' \in [Procs -> {"idle", "read", "commit"}], loc' \in [Procs -> Locs],
           \A q \in Procs \ {p} : at'[q] = at[q] /\ loc'[q] = loc[q],
           used'["reads"] = used["reads"] \/ used'["reads"] # 0,
           file' \in Texts \union {None}, used' \in [{"calls", "faults", "reads", "pages"} -> Nat],
           CallOK(p)'
    PROVE  IInv'
<1>1. TypeOK' BY DEF TypeOK, Locs
<1>2. ASSUME NEW q \in Procs \ {p} PROVE CallOK(q)'
  <2>1. CallOK(q) BY DEF IInv
  <2> QED BY <2>1 DEF CallOK, Planned, Locked
<1> QED BY <1>1, <1>2 DEF IInv

\* Spending a failed read makes the count positive, other budgets leave it alone.
LEMMA Spending ==
    ASSUME TypeOK, NEW kind \in {"calls", "faults", "reads", "pages"}, NEW bound, Spend(kind, bound)
    PROVE  /\ used' \in [{"calls", "faults", "reads", "pages"} -> Nat]
           /\ kind = "reads" => used'["reads"] # 0
           /\ kind # "reads" => used'["reads"] = used["reads"]
BY DEF TypeOK, Spend

\* Begin: a new call has read nothing.
LEMMA BeginKeepsIInv ==
    ASSUME IInv, NEW p \in Procs, NEW c \in Inputs, Begin(p, c)
    PROVE  IInv'
<1>0. TypeOK BY DEF IInv
<1>1. c \in Atomic!ToolCalls OBVIOUS
<1>2. at' \in [Procs -> {"idle", "read", "commit"}] /\ at'[p] = "read"
  BY <1>0 DEF Begin, Goto, TypeOK
<1>3. loc' \in [Procs -> Locs] /\ loc'[p].call = c
  BY <1>0, <1>1 DEF Begin, Ready, TypeOK, Locs
<1>4. used' \in [{"calls", "faults", "reads", "pages"} -> Nat] /\ used'["reads"] = used["reads"]
  BY <1>0, Spending DEF Begin
<1>5. \A q \in Procs \ {p} : at'[q] = at[q] /\ loc'[q] = loc[q]
  BY <1>0 DEF Begin, Goto, TypeOK
<1>6. ASSUME NEW q \in Procs PROVE CallOK(q)'
  <2>1. CASE q = p BY <2>1, <1>1, <1>2, <1>3 DEF CallOK
  <2>2. CASE q # p
    <3>1. CallOK(q) BY DEF IInv
    <3> QED BY <3>1, <2>2, <1>4, <1>5 DEF CallOK, Planned, Locked
  <2> QED BY <2>1, <2>2
<1>7. TypeOK' BY <1>0, <1>2, <1>3, <1>4 DEF Begin, TypeOK, Locs
<1> QED BY <1>6, <1>7 DEF IInv

\* A call that ends, with or without a commit, has nothing planned any more.
LEMMA EndKeepsIInv ==
    ASSUME IInv, NEW p \in Procs, End(p),
           used' = used \/ Spend("faults", MaxFaults) \/ Spend("reads", MaxFaults),
           file' \in Texts \union {None}
    PROVE  IInv'
<1>0. TypeOK BY DEF IInv
<1>1. at' \in [Procs -> {"idle", "read", "commit"}] /\ at'[p] = "idle"
  BY <1>0 DEF End, Goto, TypeOK
<1>2. loc' \in [Procs -> Locs] /\ loc' = loc
  BY <1>0 DEF End, TypeOK, Locs
<1>3. /\ used' \in [{"calls", "faults", "reads", "pages"} -> Nat]
      /\ used'["reads"] = used["reads"] \/ used'["reads"] # 0
  BY <1>0, Spending DEF TypeOK
<1>4. \A q \in Procs \ {p} : at'[q] = at[q]
  BY <1>0 DEF End, Goto, TypeOK
<1>5. CallOK(p)' BY <1>1 DEF CallOK
<1> QED BY <1>1, <1>2, <1>3, <1>4, <1>5, OthersKeep

\* A call that goes on to commit has planned what it should.
LEMMA ToCommitKeepsIInv ==
    ASSUME IInv, NEW p \in Procs, at[p] = "read",
           NEW base \in Texts \union {None}, NEW new \in Texts \union {None},
           ToCommit(p, base, new), UNCHANGED file,
           used' = used \/ Spend("reads", MaxFaults),
           used' = used => base = file,
           IF loc[p].call.kind = "edit"
           THEN /\ base # None
                /\ CanEdit(base, loc[p].call.start, loc[p].call.end)
                /\ new = ApplyLineEdit(base, loc[p].call.start, loc[p].call.end,
                                       loc[p].call.content)
           ELSE new = Fresh(loc[p].call)
    PROVE  IInv'
<1>0. TypeOK BY DEF IInv
<1>a. loc \in [Procs -> Locs] BY <1>0 DEF TypeOK, Locs
<1>b. loc[p] \in Locs BY <1>a
<1> DEFINE l == [loc[p] EXCEPT !.base = base, !.new = new, !.looked = file]
<1>1. l \in Locs /\ l.call = loc[p].call /\ l.base = base /\ l.new = new /\ l.looked = file
  BY <1>b, <1>0 DEF Locs, TypeOK
<1>2. loc' = [loc EXCEPT ![p] = l]
  BY DEF ToCommit
<1> HIDE DEF l
<1>3. loc' \in [Procs -> Locs] /\ loc'[p] = l
  BY <1>a, <1>1, <1>2
<1>4. at' \in [Procs -> {"idle", "read", "commit"}] /\ at'[p] = "commit"
  BY <1>0 DEF ToCommit, Goto, TypeOK
<1>5. /\ used' \in [{"calls", "faults", "reads", "pages"} -> Nat]
      /\ used' = used \/ used'["reads"] # 0
  BY <1>0, Spending DEF TypeOK
<1>6. \A q \in Procs \ {p} : at'[q] = at[q] /\ loc'[q] = loc[q]
  BY <1>0, <1>2, <1>a DEF ToCommit, Goto, TypeOK
<1>7. loc[p].call \in Atomic!ToolCalls
  BY DEF IInv, CallOK
<1>8. Planned(l) BY <1>1 DEF Planned
<1>9. used'["reads"] = 0 => l.base = l.looked BY <1>1, <1>5
<1>10. CallOK(p)'
  <2>1. loc'[p].call \in Atomic!ToolCalls BY <1>1, <1>3, <1>7
  <2>2. Planned(loc'[p]) BY <1>3, <1>8
  <2>3. Locked(loc[p])' BY <1>3, <1>9 DEF Locked
  <2> QED BY <2>1, <2>2, <2>3 DEF CallOK, Planned
<1>11. file' \in Texts \union {None} BY <1>0 DEF TypeOK
<1> QED BY <1>3, <1>4, <1>5, <1>6, <1>10, <1>11, OthersKeep

\* The read that a call makes.
LEMMA ReadKeepsIInv ==
    ASSUME IInv, NEW p \in Procs,
           ReadFile(p) \/ ReadForEdit(p) \/ NotFound(p) \/ ReadFails(p)
    PROVE  IInv'
<1>0. TypeOK BY DEF IInv
<1> DEFINE c == loc[p].call
<1>1. at[p] = "read" /\ c \in Atomic!ToolCalls
  BY DEF IInv, CallOK, ReadFile, ReadForEdit, NotFound, ReadFails, WithoutBase
<1>2. c.content \in Texts /\ c.start \in Nat /\ c.end \in Nat
  BY <1>1 DEF Atomic!ToolCalls, Atomic!Texts, Texts
<1>3. Fresh(c) \in Texts \union {None} BY <1>2 DEF Fresh
<1>4. file \in Texts \union {None} BY <1>0 DEF TypeOK
<1> HIDE DEF c
<1>5. CASE ReadFile(p)
  BY <1>1, <1>3, <1>4, <1>5, ToCommitKeepsIInv DEF ReadFile, LockOf, c
<1>6. CASE ReadForEdit(p)
  <2>1. CASE CanEdit(file, c.start, c.end)
    <3>1. ApplyLineEdit(file, c.start, c.end, c.content) \in Texts
      BY <1>2, <1>4, <1>6, <2>1, EditedText DEF ReadForEdit
    <3> QED BY <1>1, <1>4, <1>6, <2>1, <3>1, ToCommitKeepsIInv DEF ReadForEdit, LockOf, c
  <2>2. CASE ~ CanEdit(file, c.start, c.end)
    BY <1>4, <1>6, <2>2, EndKeepsIInv DEF ReadForEdit, c
  <2> QED BY <2>1, <2>2
<1>7. ASSUME WithoutBase(p), used' = used \/ Spend("reads", MaxFaults),
             used' = used => file = None
      PROVE  IInv'
  <2>1. CASE c.kind = "edit"
    BY <1>4, <1>7, <2>1, EndKeepsIInv DEF WithoutBase, c
  <2>2. CASE c.kind # "edit"
    BY <1>1, <1>3, <1>7, <2>2, ToCommitKeepsIInv DEF WithoutBase, c
  <2> QED BY <2>1, <2>2
<1>8. CASE NotFound(p) BY <1>7, <1>8 DEF NotFound
<1>9. CASE ReadFails(p)
  <2>1. used' # used
    BY <1>0, <1>9 DEF ReadFails, Spend, TypeOK
  <2> QED BY <1>7, <1>9, <2>1 DEF ReadFails
<1> QED BY <1>5, <1>6, <1>8, <1>9

\* The commit, taken, refused or failed.
LEMMA CommitKeepsIInv ==
    ASSUME IInv, NEW p \in Procs, Commit(p) \/ Conflict(p) \/ CommitFails(p)
    PROVE  IInv'
<1>1. file \in Texts \union {None} /\ loc[p].new \in Texts \union {None}
  BY DEF IInv, TypeOK
<1> QED BY <1>1, EndKeepsIInv DEF Commit, Conflict, CommitFails

\* Every step keeps the invariant.
LEMMA NextKeepsIInv == IInv /\ [Next]_vars => IInv'
<1> SUFFICES ASSUME IInv, [Next]_vars PROVE IInv'
  OBVIOUS
<1>0. TypeOK BY DEF IInv
<1>1. CASE \E p \in Procs : \E c \in Inputs : Begin(p, c)
  BY <1>1, BeginKeepsIInv
<1>2. CASE \E p \in Procs : ReadFile(p) \/ ReadForEdit(p) \/ NotFound(p) \/ ReadFails(p)
  BY <1>2, ReadKeepsIInv
<1>3. CASE \E p \in Procs : Commit(p) \/ Conflict(p) \/ CommitFails(p)
  BY <1>3, CommitKeepsIInv
<1>4. CASE Crash
  <2>1. used' \in [{"calls", "faults", "reads", "pages"} -> Nat]
    BY <1>0, <1>4, Spending DEF Crash
  <2>2. TypeOK' BY <1>0, <1>4, <2>1 DEF Crash, TypeOK
  <2>3. ASSUME NEW p \in Procs PROVE CallOK(p)'
    BY <1>4 DEF Crash, CallOK
  <2> QED BY <2>2, <2>3 DEF IInv
<1>5. CASE \E limit \in PageSizes : ReadPage(limit)
  <2>1. UNCHANGED <<file, at, loc>> BY <1>5 DEF ReadPage
  <2>2. used' \in [{"calls", "faults", "reads", "pages"} -> Nat] /\ used'["reads"] = used["reads"]
    BY <1>0, <1>5, Spending DEF ReadPage
  <2>3. TypeOK' BY <1>0, <2>1, <2>2 DEF TypeOK
  <2>4. ASSUME NEW p \in Procs PROVE CallOK(p)'
    <3>1. CallOK(p) BY DEF IInv
    <3> QED BY <2>1, <2>2, <3>1 DEF CallOK, Planned, Locked
  <2> QED BY <2>3, <2>4 DEF IInv
<1>6. CASE UNCHANGED vars
  BY <1>6 DEF vars, IInv, TypeOK, CallOK, Planned, Locked
<1> QED BY <1>1, <1>2, <1>3, <1>4, <1>5, <1>6 DEF Next

\* The invariant holds of every behaviour.
THEOREM FileInvariance == Spec => []IInv
BY InitIInv, NextKeepsIInv, PTL DEF Spec

\* Every variable keeps its type; applyLineEdit in particular only ever
\* commits texts.
THEOREM FileTypeCorrect == Spec => []TypeOK
<1>1. IInv => TypeOK BY DEF IInv
<1> QED BY <1>1, FileInvariance, PTL

----------------------------------------------------------------------------
(* The tools implement AtomicFile.                                         *)

\* The operators on texts that AtomicFile brings along are the ones here.
LEMMA SameTexts ==
    ASSUME NEW t, NEW start, NEW end, NEW content
    PROVE  /\ Atomic!Texts = Texts
           /\ Atomic!CanEdit(t, start, end) = CanEdit(t, start, end)
           /\ Atomic!ApplyLineEdit(t, start, end, content)
                  = ApplyLineEdit(t, start, end, content)
<1>1. Atomic!Texts = Texts
  BY DEF Atomic!Texts, Texts
<1>2. Atomic!LinesOf(t) = LinesOf(t) /\ Atomic!EndsNewline(t) = EndsNewline(t)
  BY DEF Atomic!LinesOf, LinesOf, Atomic!EndsNewline, EndsNewline,
         Atomic!DropLast, DropLast, Atomic!EmptyText, EmptyText
<1>3. Atomic!CanEdit(t, start, end) = CanEdit(t, start, end)
  BY <1>2 DEF Atomic!CanEdit, CanEdit, Atomic!Refused, Refused, Atomic!Panics, Panics
<1>4. Atomic!ApplyLineEdit(t, start, end, content) = ApplyLineEdit(t, start, end, content)
  BY <1>2 DEF Atomic!ApplyLineEdit, ApplyLineEdit, Atomic!NewLines, NewLines,
              Atomic!LastOld, LastOld, Atomic!Joined, Joined, Atomic!EmptyText, EmptyText
<1> QED BY <1>1, <1>3, <1>4

\* Initially no call is pending.
LEMMA InitMaps == Init => Atomic!AtomicInit
<1>1. Init => Pending = [p \in Procs |-> None]
  BY DEF Init, Pending
<1>2. Init => file \in Texts \union {None}
  BY DEF Init
<1> QED BY <1>1, <1>2, SameTexts DEF Atomic!AtomicInit

\* A call that begins is one new pending call.
LEMMA BeginMaps ==
    ASSUME IInv, NEW p \in Procs, NEW c \in Inputs, Begin(p, c)
    PROVE  Atomic!Begin(p)
<1>0. at \in [Procs -> {"idle", "read", "commit"}] /\ loc \in [Procs -> Locs]
  BY DEF IInv, TypeOK, Locs
<1>1. Pending[p] = None BY DEF Pending, Begin
<1>2. Pending'[p] = c
  BY <1>0 DEF Pending, Begin, Goto, Ready
<1>3. Pending' = [Pending EXCEPT ![p] = c]
  BY <1>0 DEF Pending, Begin, Goto, Ready
<1>4. c \in Atomic!ToolCalls OBVIOUS
<1> QED BY <1>1, <1>2, <1>3, <1>4 DEF Atomic!Begin, Begin

\* A call that ends with a file as it was is a call that failed.
LEMMA EndMaps ==
    ASSUME IInv, NEW p \in Procs, End(p), UNCHANGED file
    PROVE  Atomic!Fail({p})
<1>0. at \in [Procs -> {"idle", "read", "commit"}]
  BY DEF IInv, TypeOK
<1>1. Pending' = [q \in Procs |-> IF q \in {p} THEN None ELSE Pending[q]]
  BY <1>0 DEF Pending, End, Goto
<1> QED BY <1>1 DEF Atomic!Fail

\* A call that goes on to commit is still the same pending call.
LEMMA ToCommitMaps ==
    ASSUME IInv, NEW p \in Procs, at[p] = "read", NEW base, NEW new,
           ToCommit(p, base, new)
    PROVE  UNCHANGED Pending
<1>0. at \in [Procs -> {"idle", "read", "commit"}] /\ loc \in [Procs -> Locs]
  BY DEF IInv, TypeOK, Locs
<1>1. loc[p] \in Locs BY <1>0
<1>2. loc'[p].call = loc[p].call
  BY <1>0, <1>1 DEF ToCommit, Locs
<1>3. \A q \in Procs : q # p => loc'[q] = loc[q] /\ at'[q] = at[q]
  BY <1>0 DEF ToCommit, Goto
<1>4. at'[p] = "commit" BY <1>0 DEF ToCommit, Goto
<1> QED BY <1>2, <1>3, <1>4 DEF Pending

\* The commit is the instant at which the call takes effect: the sha it sent
\* says that the text it planned on is still there.
LEMMA CommitMaps ==
    ASSUME IInv, NEW p \in Procs, Commit(p)
    PROVE  Atomic!Perform(p)
<1> DEFINE c == loc[p].call
<1>0. at \in [Procs -> {"idle", "read", "commit"}]
  BY DEF IInv, TypeOK
<1>1. c \in Atomic!ToolCalls /\ Planned(loc[p])
  BY DEF IInv, CallOK, Commit
<1>2. c.kind \in {"write", "edit", "delete"}
  BY <1>1 DEF Atomic!ToolCalls, Atomic!Kinds
<1>3. Pending[p] = c /\ c # None
  BY <1>1 DEF Pending, Commit
<1>4. Pending' = [Pending EXCEPT ![p] = None]
  BY <1>0 DEF Pending, Commit, End, Goto
<1>5. loc[p].base \in {None, file} /\ (c.kind = "delete" => file # None)
      /\ file' = loc[p].new
  BY DEF Commit, Accepted
<1>6. Atomic!Applicable(c, file) /\ file' = Atomic!Effect(c, file)
  <2>1. CASE c.kind = "edit"
    BY <1>1, <1>5, <2>1, SameTexts DEF Planned, Atomic!Applicable, Atomic!Effect
  <2>2. CASE c.kind = "write"
    BY <1>1, <1>5, <2>2 DEF Planned, Fresh, Atomic!Applicable, Atomic!Effect
  <2>3. CASE c.kind = "delete"
    BY <1>1, <1>5, <2>3 DEF Planned, Fresh, Atomic!Applicable, Atomic!Effect
  <2> QED BY <1>2, <2>1, <2>2, <2>3
<1> QED BY <1>3, <1>4, <1>6 DEF Atomic!Perform

\* Every step of the tools is a step of AtomicFile, or changes nothing there.
LEMMA StepMaps ==
    ASSUME IInv, [Next]_vars
    PROVE  [Atomic!AtomicNext]_<<file, Pending>>
<1>1. CASE \E p \in Procs : \E c \in Inputs : Begin(p, c)
  BY <1>1, BeginMaps DEF Atomic!AtomicNext
<1>2. ASSUME NEW p \in Procs, ReadFile(p) PROVE UNCHANGED <<file, Pending>>
  BY <1>2, ToCommitMaps DEF ReadFile
<1>3. ASSUME NEW p \in Procs, End(p), UNCHANGED file
      PROVE  Atomic!AtomicNext
  BY <1>3, EndMaps DEF Atomic!AtomicNext
<1>4. ASSUME NEW p \in Procs, ReadForEdit(p)
      PROVE  Atomic!AtomicNext \/ UNCHANGED <<file, Pending>>
  BY <1>3, <1>4, ToCommitMaps DEF ReadForEdit
<1>5. ASSUME NEW p \in Procs, NotFound(p) \/ ReadFails(p)
      PROVE  Atomic!AtomicNext \/ UNCHANGED <<file, Pending>>
  BY <1>3, <1>5, ToCommitMaps DEF NotFound, ReadFails, WithoutBase
<1>6. ASSUME NEW p \in Procs, Commit(p) PROVE Atomic!AtomicNext
  BY <1>6, CommitMaps DEF Atomic!AtomicNext
<1>7. ASSUME NEW p \in Procs, Conflict(p) \/ CommitFails(p) PROVE Atomic!AtomicNext
  BY <1>3, <1>7 DEF Conflict, CommitFails
<1>8. CASE Crash
  <2>1. Atomic!Fail(Procs)
    BY <1>8 DEF Crash, Pending, Atomic!Fail
  <2> QED BY <2>1 DEF Atomic!AtomicNext
<1>9. CASE \E limit \in PageSizes : ReadPage(limit)
  BY <1>9 DEF ReadPage, Pending
<1>10. CASE UNCHANGED vars
  BY <1>10 DEF vars, Pending
<1> QED
  BY <1>1, <1>2, <1>4, <1>5, <1>6, <1>7, <1>8, <1>9, <1>10 DEF Next

\* The file tools implement AtomicFile: however many calls overlap and
\* whichever fail, each takes effect at its commit, on the file as it is then.
THEOREM Implements == Spec => CallsAreAtomic
<1>1. IInv /\ [Next]_vars => [Atomic!AtomicNext]_<<file, Pending>>
  BY StepMaps
<1> QED
  BY <1>1, InitMaps, FileInvariance, PTL
     DEF Spec, CallsAreAtomic, Atomic!AtomicSpec, Atomic!fileVars

\* While reads succeed, a call that replaces a file finds what it saw there.
THEOREM NobodyClobbered == Spec => NothingClobbered
<1> DEFINE Harmless == \A p \in Procs :
          at[p] = "commit" /\ file' # file /\ at'[p] = "idle" /\ used["reads"] = 0
              /\ loc[p].looked # None
          => file = loc[p].looked
<1>1. ASSUME IInv, Next PROVE Harmless
  <2> SUFFICES ASSUME NEW p \in Procs, at[p] = "commit", file' # file, at'[p] = "idle",
                      used["reads"] = 0, loc[p].looked # None
               PROVE  file = loc[p].looked
    OBVIOUS
  <2>1. PICK q \in Procs : Commit(q)
    BY <1>1 DEF Next, Begin, ReadFile, ReadForEdit, NotFound, ReadFails, WithoutBase,
                ToCommit, End, Conflict, CommitFails, Crash, ReadPage
  <2>2. q = p
    BY <1>1, <2>1 DEF IInv, TypeOK, Commit, End, Goto
  <2>3. Locked(loc[p]) BY <1>1 DEF IInv, CallOK
  <2> QED BY <2>1, <2>2, <2>3 DEF Commit, Accepted, Locked
<1>2. IInv /\ [Next]_vars => [Harmless]_vars
  BY <1>1
<1>3. []IInv /\ [][Next]_vars => [][Harmless]_vars
  BY <1>2, PTL
<1> QED
  BY <1>3, FileInvariance, PTL DEF Spec, NothingClobbered

----------------------------------------------------------------------------
(* The paging reader.                                                      *)

\* What was shown is what precedes the next offset.
PageOK ==
    /\ page.next \in Nat \ {0} /\ page.state \in {"start", "more", "done"}
    /\ page.state = "start" => page = NoPage
    /\ page.of # None =>
          /\ page.of \in Texts
          /\ page.next - 1 <= Len(ReadLines(page.of))
          /\ page.shown = SubSeq(ReadLines(page.of), 1, page.next - 1)
          /\ page.state = "done" => page.next - 1 = Len(ReadLines(page.of))

\* The lines read shows are a sequence of lines.
LEMMA ReadLinesType ==
    ASSUME NEW t \in Texts
    PROVE  ReadLines(t) \in Seq(Lines) /\ Len(ReadLines(t)) \in Nat
<1>1. t \in Seq(Lines) /\ Len(t) \in Nat /\ Len(t) >= 1
  BY EmptySeq, LenProperties DEF Texts
<1>2. DropLast(t) \in Seq(Lines)
  BY <1>1, SubSeqProperties DEF DropLast
<1> QED BY <1>1, <1>2, LenProperties DEF ReadLines

\* A page goes on where the last one ended.
LEMMA PageGoesOn ==
    ASSUME PageOK, file \in Texts \union {None}, NEW limit \in Nat, ReadPage(limit)
    PROVE  PageOK'
<1> DEFINE ls == ReadLines(file)
           n == Len(ls)
           e == PageEnd(file, page.next, limit)
<1>1. file \in Texts /\ ls \in Seq(Lines) /\ n \in Nat
  BY ReadLinesType DEF ReadPage
<1>2. page.next \in Nat \ {0} BY DEF PageOK
<1>3. e \in Nat /\ (page.next - 1 <= n => page.next - 1 <= e) /\ e <= n
  BY <1>1, <1>2 DEF PageEnd
<1>4. /\ page'.next = e + 1
      /\ page'.shown = page.shown \o SubSeq(ls, page.next, e)
      /\ page'.of = IF page.state = "start" \/ page.of = file THEN file ELSE None
      /\ page'.state = IF e < n THEN "more" ELSE "done"
  BY DEF ReadPage, NextOffset, Page, Truncated
<1> HIDE DEF ls, n, e
<1>5. ASSUME page'.of # None
      PROVE  page.next - 1 <= n /\ page.shown = SubSeq(ls, 1, page.next - 1)
  <2>1. CASE page.state = "start"
    <3>1. page.next = 1 /\ page.shown = <<>> BY <2>1 DEF PageOK, NoPage
    <3> QED BY <1>1, <3>1, SubSeqEmpty
  <2>2. CASE page.state # "start"
    <3>1. page.of = file /\ page.of # None BY <1>4, <1>5, <2>2
    <3> QED BY <3>1 DEF PageOK, ls, n
  <2> QED BY <2>1, <2>2
<1>6. ASSUME page'.of # None
      PROVE  page'.shown = SubSeq(ls, 1, e)
  <2>1. page.next - 1 <= n /\ page.next - 1 <= e /\ page.shown = SubSeq(ls, 1, page.next - 1)
    BY <1>3, <1>5, <1>6
  <2>2. SubSeq(ls, 1, page.next - 1) \o SubSeq(ls, page.next, e) = SubSeq(ls, 1, e)
    <3> DEFINE k == page.next - 1
    <3>1. 1 \in 1 .. Len(ls) + 1 /\ k \in 1 - 1 .. Len(ls) /\ e \in k .. Len(ls)
      BY <1>1, <1>2, <1>3, <2>1 DEF n
    <3>2. page.next = k + 1 BY <1>2
    <3> HIDE DEF k
    <3>3. SubSeq(ls, 1, k) \o SubSeq(ls, k + 1, e) = SubSeq(ls, 1, e)
      BY <1>1, <3>1, ConcatAdjacentSubSeq
    <3> QED BY <3>2, <3>3 DEF k
  <2> QED BY <1>4, <2>1, <2>2
<1>7. page'.of # None => page'.of = file BY <1>4
<1>8. e < n \/ e = n BY <1>1, <1>3
<1>9. page'.next \in Nat \ {0} /\ page'.next - 1 = e /\ page'.state \in {"more", "done"}
  <2>1. e \in Nat BY <1>3
  <2>2. page'.next = e + 1 BY <1>4
  <2>3. page'.next \in Nat \ {0} /\ page'.next - 1 = e BY <2>1, <2>2
  <2>4. page'.state = IF e < n THEN "more" ELSE "done" BY <1>4
  <2>5. page'.state \in {"more", "done"} BY <2>4
  <2> QED BY <2>3, <2>5
<1>10. page'.state = "done" => e = n BY <1>4, <1>8
<1>11. ASSUME page'.of # None
       PROVE  /\ page'.of \in Texts
              /\ page'.next - 1 <= Len(ReadLines(page'.of))
              /\ page'.shown = SubSeq(ReadLines(page'.of), 1, page'.next - 1)
              /\ page'.state = "done" => page'.next - 1 = Len(ReadLines(page'.of))
  <2>1. page'.of = file BY <1>7, <1>11
  <2>2. page'.shown = SubSeq(ls, 1, e) BY <1>6, <1>11
  <2> QED BY <1>1, <1>3, <1>9, <1>10, <2>1, <2>2 DEF ls, n
<1> QED BY <1>9, <1>11 DEF PageOK

\* Following the offsets shows the whole file, whatever the sizes of the pages.
THEOREM PagesComplete == Spec => []PagesShowFile
<1>1. Init => PageOK
  BY DEF Init, PageOK, NoPage
<1>2. IInv /\ PageOK /\ [Next]_vars => PageOK'
  <2> SUFFICES ASSUME IInv, PageOK, [Next]_vars PROVE PageOK'
    OBVIOUS
  <2>1. CASE \E limit \in PageSizes : ReadPage(limit)
    BY <2>1, PageGoesOn DEF IInv, TypeOK
  <2>2. CASE UNCHANGED page
    BY <2>2 DEF PageOK
  <2> QED
    BY <2>1, <2>2 DEF Next, vars, Begin, ReadFile, ReadForEdit, NotFound, ReadFails,
           WithoutBase, Commit, Conflict, CommitFails, Crash
<1>3. PageOK => PagesShowFile
  <2> SUFFICES ASSUME PageOK, page.state = "done", page.of # None
               PROVE  page.shown = ReadLines(page.of)
    BY DEF PagesShowFile
  <2>1. page.shown = SubSeq(ReadLines(page.of), 1, Len(ReadLines(page.of)))
    BY DEF PageOK
  <2> QED BY <2>1, ReadLinesType, SubSeqFull DEF PageOK
<1> QED BY <1>1, <1>2, <1>3, FileInvariance, PTL DEF Spec

----------------------------------------------------------------------------
(* Editing by the numbers that read shows.                                 *)

\* Of a text that ends in a newline, and is more than that, read shows the
\* lines that applyLineEdit numbers.
LEMMA SameNumbers ==
    ASSUME NEW t \in Texts, EndsNewline(t), t # <<Blank, Blank>>
    PROVE  LinesOf(t) = ReadLines(t)
<1>1. t \in Seq(Lines) /\ Len(t) \in Nat /\ Len(t) > 1 /\ t[Len(t)] = Blank
  BY LenProperties DEF Texts, EndsNewline
<1>2. DropLast(t) # EmptyText
  <2> SUFFICES ASSUME DropLast(t) = <<Blank>> PROVE FALSE
    BY DEF EmptyText
  <2>1. Len(DropLast(t)) = Len(t) - 1 /\ DropLast(t)[1] = t[1]
    BY <1>1, SubSeqProperties DEF DropLast
  <2>2. Len(t) = 2 /\ t[1] = Blank
    BY <1>1, <2>1
  <2>3. t = <<Blank, Blank>>
    BY <1>1, <2>2, SeqEqual
  <2> QED BY <2>3
<1> QED BY <1>1, <1>2 DEF LinesOf, ReadLines

\* Lines joined with a final newline are the lines read shows.
LEMMA ReadJoined ==
    ASSUME NEW ls \in Seq(Lines), ls # <<>>
    PROVE  ReadLines(Joined(ls, TRUE)) = ls
<1> DEFINE t == Append(ls, Blank)
<1>1. /\ t \in Seq(Lines) /\ Len(t) = Len(ls) + 1 /\ t[Len(t)] = Blank
      /\ \A i \in 1 .. Len(ls) : t[i] = ls[i]
  BY LinesAssumption, AppendProperties, LenProperties
<1>2. Len(ls) \in Nat BY LenProperties
<1> HIDE DEF t
<1>3. SubSeq(t, 1, Len(ls)) \in Seq(Lines) /\ Len(SubSeq(t, 1, Len(ls))) = Len(ls)
      /\ \A i \in 1 .. Len(ls) : SubSeq(t, 1, Len(ls))[i] = t[i]
  BY <1>1, <1>2, SubSeqProperties
<1>4. SubSeq(t, 1, Len(ls)) = ls
  BY <1>1, <1>3, SeqEqual
<1>5. DropLast(t) = ls BY <1>1, <1>2, <1>4 DEF DropLast
<1> QED BY <1>1, <1>5 DEF ReadLines, Joined, t

\* An edit changes what read shows exactly as its arguments say.
LEMMA EditShows ==
    ASSUME NEW t \in Texts, EndsNewline(t), t # <<Blank, Blank>>,
           NEW c \in Atomic!ToolCalls, CanEdit(t, c.start, c.end),
           AfterEdit(ReadLines(t), c) # <<>>
    PROVE  ReadLines(ApplyLineEdit(t, c.start, c.end, c.content))
               = AfterEdit(ReadLines(t), c)
<1>1. LinesOf(t) = ReadLines(t) BY SameNumbers
<1>2. EndsNewline(t) = TRUE BY DEF EndsNewline
<1>3. ApplyLineEdit(t, c.start, c.end, c.content) = Joined(AfterEdit(ReadLines(t), c), TRUE)
  BY <1>1, <1>2 DEF ApplyLineEdit, AfterEdit
<1>4. AfterEdit(ReadLines(t), c) \in Seq(Lines)
  <2> DEFINE ls == ReadLines(t)
             before == SubSeq(ls, 1, c.start - 1)
             after == SubSeq(ls, LastOld(c.start, c.end) + 1, Len(ls))
  <2>1. c.content \in Texts /\ c.start \in Nat /\ c.end \in Nat
    BY DEF Atomic!ToolCalls, Atomic!Texts, Texts
  <2>2. ls \in Seq(Lines) /\ Len(ls) \in Nat BY ReadLinesType
  <2>3. 1 <= c.start /\ c.start <= Len(ls) + 1 /\ (c.end >= c.start => c.end <= Len(ls))
    BY <1>1, <2>1, <2>2 DEF CanEdit, Refused, Panics
  <2>4. before \in Seq(Lines) BY <2>1, <2>2, <2>3, SubSeqProperties
  <2>5. after \in Seq(Lines) BY <2>1, <2>2, <2>3, SubSeqProperties DEF LastOld
  <2>6. NewLines(c.content) \in Seq(Lines) BY <2>1, EmptySeq DEF NewLines, Texts
  <2>7. before \o NewLines(c.content) \in Seq(Lines) BY <2>4, <2>6, ConcatProperties
  <2>8. before \o NewLines(c.content) \o after \in Seq(Lines)
    BY <2>5, <2>7, ConcatProperties
  <2> QED BY <2>8 DEF AfterEdit
<1> QED BY <1>3, <1>4, ReadJoined

\* Every edit, however late it commits, changes the lines that read shows of
\* the file at that moment, and no others.
THEOREM EditsAsShown == Spec => EditAsShown
<1> DEFINE Shown == \A p \in Procs :
          /\ at[p] = "commit" /\ at'[p] = "idle" /\ file' # file
          /\ loc[p].call.kind = "edit"
          /\ EndsNewline(file) /\ file # <<Blank, Blank>>
          /\ AfterEdit(ReadLines(file), loc[p].call) # <<>>
          => ReadLines(file') = AfterEdit(ReadLines(file), loc[p].call)
<1>1. ASSUME IInv, Next PROVE Shown
  <2> SUFFICES ASSUME NEW p \in Procs, at[p] = "commit", at'[p] = "idle", file' # file,
                      loc[p].call.kind = "edit",
                      EndsNewline(file), file # <<Blank, Blank>>,
                      AfterEdit(ReadLines(file), loc[p].call) # <<>>
               PROVE  ReadLines(file') = AfterEdit(ReadLines(file), loc[p].call)
    OBVIOUS
  <2>1. PICK q \in Procs : Commit(q)
    BY <1>1 DEF Next, Begin, ReadFile, ReadForEdit, NotFound, ReadFails, WithoutBase,
                ToCommit, End, Conflict, CommitFails, Crash, ReadPage
  <2>2. q = p
    BY <1>1, <2>1 DEF IInv, TypeOK, Commit, End, Goto
  <2>3. Planned(loc[p]) /\ loc[p].call \in Atomic!ToolCalls
    BY <1>1 DEF IInv, CallOK
  <2>4. loc[p].base = file /\ file # None /\ file' = loc[p].new
    BY <2>1, <2>2, <2>3 DEF Planned, Commit, Accepted
  <2>5. file \in Texts BY <1>1, <2>4 DEF IInv, TypeOK
  <2> QED BY <2>3, <2>4, <2>5, EditShows DEF Planned
<1>2. IInv /\ [Next]_vars => [Shown]_vars
  BY <1>1
<1>3. []IInv /\ [][Next]_vars => [][Shown]_vars
  BY <1>2, PTL
<1> QED
  BY <1>3, FileInvariance, PTL DEF Spec, EditAsShown
==============================================================================
