------------------------------ MODULE AtomicFile ------------------------------
(***************************************************************************)
(* What the file tools promise of one file of a bookmark: every call takes *)
(* effect at one instant, on the file as it is then, or not at all.        *)
(***************************************************************************)
EXTENDS LineEdit

CONSTANTS
    Procs,      \* tool calls in progress, by whoever makes them
    None        \* no call; no file

VARIABLES
    file,       \* the text at the bookmark, or None
    calls       \* per process, the call it is making

fileVars == <<file, calls>>

Kinds == {"write", "edit", "delete"}
ToolCalls == [kind : Kinds, start : Nat, end : Nat, content : Texts]

\* Whether call c can work on f, and what it makes of it.
Applicable(c, f) ==
    \/ c.kind = "write"
    \/ c.kind = "delete" /\ f # None
    \/ c.kind = "edit" /\ f # None /\ CanEdit(f, c.start, c.end)

Effect(c, f) ==
    CASE c.kind = "write" -> c.content
      [] c.kind = "edit" -> ApplyLineEdit(f, c.start, c.end, c.content)
      [] OTHER -> None

AtomicInit ==
    /\ file \in Texts \union {None}
    /\ calls = [p \in Procs |-> None]

Begin(p) ==
    /\ calls[p] = None
    /\ calls'[p] \in ToolCalls
    /\ calls' = [calls EXCEPT ![p] = calls'[p]]
    /\ UNCHANGED file

Perform(p) ==
    /\ calls[p] # None
    /\ Applicable(calls[p], file)
    /\ file' = Effect(calls[p], file)
    /\ calls' = [calls EXCEPT ![p] = None]

\* Calls that fail, one or all of them, leave no trace.
Fail(gone) ==
    /\ calls' = [p \in Procs |-> IF p \in gone THEN None ELSE calls[p]]
    /\ UNCHANGED file

AtomicNext ==
    \/ \E p \in Procs : Begin(p) \/ Perform(p)
    \/ \E gone \in SUBSET Procs : Fail(gone)

AtomicSpec == AtomicInit /\ [][AtomicNext]_fileVars
===============================================================================
