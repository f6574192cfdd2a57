------------------------------- MODULE LineEdit -------------------------------
(***************************************************************************)
(* Texts as the line tools see them: how the read tool numbers the lines   *)
(* of a file and pages through them, and what applyLineEdit (tools.go)     *)
(* makes of a text.                                                        *)
(*                                                                         *)
(* A text is what strings.Split(text, "\n") returns, the sequence of its   *)
(* pieces between newlines: "" is <<Blank>>, "x\n" is <<x, Blank>>.  Texts *)
(* and such sequences correspond one to one.                               *)
(***************************************************************************)
EXTENDS Naturals, Sequences

CONSTANTS
    Lines,      \* lines without a newline
    Blank       \* the empty line

ASSUME LinesAssumption == Blank \in Lines

Texts == Seq(Lines) \ {<<>>}
EmptyText == <<Blank>>

EndsNewline(t) == Len(t) > 1 /\ t[Len(t)] = Blank

DropLast(t) == SubSeq(t, 1, Len(t) - 1)

\* Mutant: the last newline starts a line of its own.
LinesWithLast(t) == IF t = EmptyText THEN <<>> ELSE t

\* The lines applyLineEdit works on: a final newline ends the last line.
LinesOf(t) ==
    LET body == IF EndsNewline(t) THEN DropLast(t) ELSE t
    IN  IF body = EmptyText THEN <<>> ELSE body

\* Mutant: joining no lines.
JoinedAlways(ls, newline) == IF newline THEN Append(ls, Blank) ELSE ls

\* strings.Join, and the final newline put back.
Joined(ls, newline) ==
    LET t == IF ls = <<>> THEN EmptyText ELSE ls
    IN  IF newline THEN Append(t, Blank) ELSE t

\* The arguments refused: end < start means an insertion before start.
Refused(t, start, end) ==
    \/ start < 1 \/ start > Len(LinesOf(t)) + 1
    \/ end >= start /\ end > Len(LinesOf(t)) + 1

\* The checks let end be one past the last line; slicing there panics.
Panics(t, start, end) ==
    ~ Refused(t, start, end) /\ end >= start /\ end > Len(LinesOf(t))

CanEdit(t, start, end) == ~ Refused(t, start, end) /\ ~ Panics(t, start, end)

\* Lines start .. end replaced, or nothing in an insertion.
LastOld(start, end) == IF end < start THEN start - 1 ELSE end

NewLines(content) == IF content = EmptyText THEN <<>> ELSE content

ApplyLineEdit(t, start, end, content) ==
    LET ls == LinesOf(t)
    IN  Joined(SubSeq(ls, 1, start - 1) \o NewLines(content)
                   \o SubSeq(ls, LastOld(start, end) + 1, Len(ls)),
               EndsNewline(t))

----------------------------------------------------------------------------
(* The read tool: its lines, and the page it shows of them.                *)

ReadLines(t) == IF t[Len(t)] = Blank THEN DropLast(t) ELSE t

\* The last line shown; limit 0 means all.
PageEnd(t, offset, limit) ==
    IF limit > 0 /\ offset - 1 + limit < Len(ReadLines(t))
    THEN offset - 1 + limit
    ELSE Len(ReadLines(t))

Page(t, offset, limit) == SubSeq(ReadLines(t), offset, PageEnd(t, offset, limit))
Truncated(t, offset, limit) == PageEnd(t, offset, limit) < Len(ReadLines(t))

\* Mutant: the next page starts with the last line shown.
NextOffsetRepeats(t, offset, limit) == PageEnd(t, offset, limit)

NextOffset(t, offset, limit) == PageEnd(t, offset, limit) + 1
===============================================================================
