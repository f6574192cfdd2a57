------------------------------ MODULE FileTools ------------------------------
(***************************************************************************)
(* The tools that change a file (tools.go): write and git-resolve, edit    *)
(* and delete, called concurrently on one file of a bookmark.  Each reads  *)
(* the file first and sends the blob sha it found as the base of its       *)
(* commit, which jjlab refuses when the file has another one by then.      *)
(* Beside them someone reads the file page by page.                        *)
(*                                                                         *)
(* The sha of a text identifies it, so it is the text itself; None stands  *)
(* for no file and for the empty sha, with which jjlab does not check.     *)
(***************************************************************************)
EXTENDS LineEdit

CONSTANTS
    Procs,      \* tool calls in progress
    None,
    Files,      \* texts the file may have at the start
    Inputs,     \* calls made
    PageSizes,  \* limits the reader asks for
    MaxCalls, MaxPages,
    MaxFaults   \* failed reads, and crashes or failed commits

VARIABLES
    file,       \* the text at the bookmark, or None
    at,         \* per process: idle, before its read, before its commit
    loc,        \* per process: its arguments and locals
    page,       \* the pages read so far
    used        \* how much of each bound is used up

vars == <<file, at, loc, page, used>>

\* A process that is idle has no call; this is all the outside sees of it.
Pending == [p \in Procs |-> IF at[p] = "idle" THEN None ELSE loc[p].call]

Atomic == INSTANCE AtomicFile WITH calls <- Pending

ASSUME FilesAssumption ==
    /\ None \notin Texts /\ None \notin Atomic!ToolCalls
    /\ Files \subseteq Texts \union {None}
    /\ Inputs \subseteq Atomic!ToolCalls
    /\ PageSizes \subseteq Nat
    /\ MaxCalls \in Nat /\ MaxFaults \in Nat /\ MaxPages \in Nat

Spend(kind, bound) ==
    /\ used[kind] < bound
    /\ used' = [used EXCEPT ![kind] = @ + 1]

Goto(p, label) == at' = [at EXCEPT ![p] = label]

\* base: the sha read; new: the text to commit; looked: what was there when
\* the call read, whether or not it could (history only).
Ready(c) == [call |-> c, base |-> None, new |-> None, looked |-> None]

Begin(p, c) ==
    /\ at[p] = "idle"
    /\ Spend("calls", MaxCalls)
    /\ Goto(p, "read")
    /\ loc' = [loc EXCEPT ![p] = Ready(c)]
    /\ UNCHANGED <<file, page>>

End(p) == Goto(p, "idle") /\ UNCHANGED loc

\* What a call that needs nothing of the old text commits.
Fresh(c) == IF c.kind = "write" THEN c.content ELSE None

ToCommit(p, base, new) ==
    /\ Goto(p, "commit")
    /\ loc' = [loc EXCEPT ![p] = [@ EXCEPT !.base = base, !.new = new, !.looked = file]]

\* Mutant: a sha that is read but not sent.
NoLock(text) == None

LockOf(text) == text

\* Mutant: a write that looks at the file and forgets its sha.
ReadFileUnlocked(p) ==
    /\ at[p] = "read" /\ file # None
    /\ loc[p].call.kind # "edit"
    /\ ToCommit(p, None, Fresh(loc[p].call))
    /\ UNCHANGED <<file, page, used>>

\* write, git-resolve and delete: what they commit does not depend on the text.
ReadFile(p) ==
    /\ at[p] = "read" /\ file # None
    /\ loc[p].call.kind # "edit"
    /\ ToCommit(p, LockOf(file), Fresh(loc[p].call))
    /\ UNCHANGED <<file, page, used>>

\* edit: arguments out of range, or a slice out of range, end the call here.
ReadForEdit(p) ==
    /\ at[p] = "read" /\ file # None
    /\ loc[p].call.kind = "edit"
    /\ LET c == loc[p].call IN
         IF CanEdit(file, c.start, c.end)
         THEN ToCommit(p, LockOf(file), ApplyLineEdit(file, c.start, c.end, c.content))
         ELSE End(p)
    /\ UNCHANGED <<file, page, used>>

\* A file that is not there, or could not be read, ends an edit; the others go
\* on without a base.
WithoutBase(p) ==
    /\ at[p] = "read"
    /\ IF loc[p].call.kind = "edit" THEN End(p) ELSE ToCommit(p, None, Fresh(loc[p].call))
    /\ UNCHANGED <<file, page>>

NotFound(p) == file = None /\ WithoutBase(p) /\ UNCHANGED used
ReadFails(p) == file # None /\ WithoutBase(p) /\ Spend("reads", MaxFaults)

\* POST .../commits at jjlab: the base, if sent, is the file's sha, and only a
\* file that exists is deleted.
Accepted(p) ==
    /\ loc[p].base \in {None, file}
    /\ loc[p].call.kind = "delete" => file # None

Commit(p) ==
    /\ at[p] = "commit" /\ Accepted(p)
    /\ file' = loc[p].new
    /\ End(p)
    /\ UNCHANGED <<page, used>>

Conflict(p) ==
    /\ at[p] = "commit" /\ ~ Accepted(p)
    /\ End(p)
    /\ UNCHANGED <<file, page, used>>

\* (A commit that is carried out and not answered is Commit to the file.)
CommitFails(p) ==
    /\ at[p] = "commit"
    /\ End(p)
    /\ Spend("faults", MaxFaults)
    /\ UNCHANGED <<file, page>>

\* The process dies with all calls in progress.
Crash ==
    /\ Spend("faults", MaxFaults)
    /\ at' = [p \in Procs |-> "idle"]
    /\ UNCHANGED <<file, loc, page>>

----------------------------------------------------------------------------
(* The reader: page after page, each at the offset the last one named, of  *)
(* possibly different sizes, until one is not truncated.                   *)

NoPage == [next |-> 1, shown |-> <<>>, of |-> None, state |-> "start"]

\* of: the text, as long as every page was taken from the same (history only).
ReadPage(limit) ==
    /\ page.state # "done" /\ file # None
    /\ Spend("pages", MaxPages)
    /\ page' = [next |-> NextOffset(file, page.next, limit),
                shown |-> page.shown \o Page(file, page.next, limit),
                of |-> IF page.state = "start" \/ page.of = file THEN file ELSE None,
                state |-> IF Truncated(file, page.next, limit) THEN "more" ELSE "done"]
    /\ UNCHANGED <<file, at, loc>>

Init ==
    /\ file \in Files
    /\ at = [p \in Procs |-> "idle"]
    /\ loc = [p \in Procs |-> Ready(None)]
    /\ page = NoPage
    /\ used = [calls |-> 0, faults |-> 0, reads |-> 0, pages |-> 0]

Next ==
    \/ \E p \in Procs :
          \/ \E c \in Inputs : Begin(p, c)
          \/ ReadFile(p) \/ ReadForEdit(p) \/ NotFound(p) \/ ReadFails(p)
          \/ Commit(p) \/ Conflict(p) \/ CommitFails(p)
    \/ Crash
    \/ \E limit \in PageSizes : ReadPage(limit)

Spec == Init /\ [][Next]_vars

----------------------------------------------------------------------------
TypeOK ==
    /\ file \in Texts \union {None}
    /\ at \in [Procs -> {"idle", "read", "commit"}]
    /\ loc \in [Procs -> [call : Atomic!ToolCalls \union {None},
                          base : Texts \union {None}, new : Texts \union {None},
                          looked : Texts \union {None}]]
    /\ used \in [{"calls", "faults", "reads", "pages"} -> Nat]

\* Every call takes effect at once, on the file as it is then, or not at all:
\* an edit in particular is never applied to a text that has changed since it
\* was read (manifest.yaml:94 "with sha verification to prevent clobbering
\* concurrent edits").
CallsAreAtomic == Atomic!AtomicSpec

\* A call that replaces or deletes a file that was there when it looked finds
\* the text it saw then (tools.go:133-135 "a concurrent change is rejected
\* rather than silently overwritten"), as long as no read fails.
NothingClobbered ==
    [][\A p \in Procs :
          at[p] = "commit" /\ file' # file /\ at'[p] = "idle" /\ used["reads"] = 0
              /\ loc[p].looked # None
          => file = loc[p].looked]_vars

\* What the arguments of an edit say of the lines that read showed.
AfterEdit(lines, c) ==
    SubSeq(lines, 1, c.start - 1) \o NewLines(c.content)
        \o SubSeq(lines, LastOld(c.start, c.end) + 1, Len(lines))

\* The numbers edit takes are the ones read showed (manifest.yaml:25, 94): an
\* edit of a text that ends in a newline changes exactly the lines read shows
\* under start .. end at the moment of its commit, unless it leaves no line.
EditAsShown ==
    [][\A p \in Procs :
          /\ at[p] = "commit" /\ at'[p] = "idle" /\ file' # file
          /\ loc[p].call.kind = "edit"
          /\ EndsNewline(file) /\ file # <<Blank, Blank>>
          /\ AfterEdit(ReadLines(file), loc[p].call) # <<>>
          => ReadLines(file') = AfterEdit(ReadLines(file), loc[p].call)]_vars

\* Following next_offset until a page is not truncated shows every line once,
\* in order, whatever the sizes of the pages, while the file stays the same.
PagesShowFile ==
    page.state = "done" /\ page.of # None => page.shown = ReadLines(page.of)

\* A range of lines that read shows can be edited (manifest.yaml:25 and 112:
\* both count lines from 1, the end inclusive).
ShownLinesEditable ==
    [][\A p \in Procs :
          LET c == loc[p].call IN
          at[p] = "read" /\ at'[p] = "idle" /\ used' = used /\ file # None /\ c.kind = "edit"
          => ~ (1 <= c.start /\ c.start <= c.end /\ c.end <= Len(ReadLines(file)))]_vars
==============================================================================
