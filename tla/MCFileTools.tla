----------------------------- MODULE MCFileTools -----------------------------
(***************************************************************************)
(* Finite instances of FileTools for TLC.                                  *)
(***************************************************************************)
EXTENDS FileTools

CONSTANTS x, y

MCLines == {Blank, x, y}

Edit(s, e, c) == [kind |-> "edit", start |-> s, end |-> e, content |-> c]
Write(c) == [kind |-> "write", start |-> 0, end |-> 0, content |-> c]
Delete == [kind |-> "delete", start |-> 0, end |-> 0, content |-> EmptyText]

\* No file, the empty one, with and without a final newline, blank lines only.
MCFiles == {None, EmptyText, <<Blank, Blank>>, <<x>>, <<x, Blank>>,
            <<x, y, Blank>>, <<x, Blank, y>>, <<x, x, y, Blank>>}

\* Insertions, replacements and deletions at every place of those texts and
\* past their ends, and contents of more than one line.
MCInputs ==
    {Edit(s, e, c) : s \in 1..3, e \in {0, 1, 2, 3}, c \in {EmptyText, <<y>>}}
        \union {Edit(0, 1, <<y>>), Edit(1, 1, <<y, Blank>>), Edit(2, 0, <<Blank, x>>)}
        \union {Write(<<x>>), Write(<<x, Blank>>), Delete}

MCPageSizes == {0, 1, 2}
==============================================================================
