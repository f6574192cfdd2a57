------------------------------ MODULE MCWorkspace ------------------------------
(***************************************************************************)
(* Finite instances of Workspace for TLC.                                  *)
(***************************************************************************)
EXTENDS WorkspaceProps, TLC

CONSTANTS r1, r2, main, b1, b2, hi

Within(bounds) == bounds @@ [k \in BudgetKinds |-> 0]

OneRepo == {r1}
TwoRepos == {r1, r2}
MCMarks2 == {main, b1}
MCMarks3 == {main, b1, b2}
W(r, b) == [repo |-> r, bm |-> b]
S(r, b) == <<r, b>>
MCAdoptable == {W(r1, main), W(r1, b1)}

\* Ordered delivery without the reconciler.
EventsLimit == Within("acts" :> 4 @@ "commits" :> 1 @@
                      "faults" :> 2 @@ "unanswered" :> 1 @@ "blind" :> 1 @@
                      "troubles" :> 2)
EventsNames == {S(r1, main), S(r1, b1), S(r1, b2)}
\* The two bookmarks other than main are interchangeable.
Swapped == Permutations({b1, b2})

\* Drift of every kind, two managed repositories; lost answers are in converge.
ReconcileLimit == Within("acts" :> 2 @@ "adoptions" :> 1 @@ "faults" :> 1 @@
                         "blind" :> 1 @@ "lost" :> 1 @@ "removals" :> 1 @@
                         "troubles" :> 1)
ReconcileNames == {S(r1, main), S(r1, b1), S(r2, b1)}
ReconcileRemovable == {W(r1, b1)}

\* Liveness: main stays, so that every backfill can be anchored.
ConvergeLimit == Within("acts" :> 2 @@ "faults" :> 1 @@ "unanswered" :> 1 @@
                        "lost" :> 1 @@ "removals" :> 1 @@ "troubles" :> 2)
ConvergeNames == {S(r1, b1), S(r1, b2), hi}

\* The cache and the session variables, with a tool looking sessions up and a
\* worksheet.
VarsLimit == Within("acts" :> 3 @@ "lookups" :> 1 @@ "sheets" :> 1 @@
                    "faults" :> 1 @@ "unanswered" :> 1 @@ "troubles" :> 1)
VarsNames == {S(r1, main), S(r1, b1)}

\* The smallest bounds of the scenarios where code and documentation differ.
RenameLimit == Within("acts" :> 2 @@ "commits" :> 1)
RenameNames == {S(r1, main), S(r1, b1)}
MainGoneLimit == Within("acts" :> 3)

\* A fork to a bookmark that only worksheets name, beside the reconciler.
SheetsLimit == Within("acts" :> 3 @@ "sheets" :> 1 @@ "commits" :> 1 @@ "faults" :> 1 @@
                      "lost" :> 1 @@ "troubles" :> 1)
SheetsNames == {S(r1, main)}
SheetLostLimit == Within("acts" :> 2 @@ "sheets" :> 1 @@ "faults" :> 1 @@ "troubles" :> 1)
UnmanagedLimit == Within("acts" :> 2 @@ "faults" :> 1 @@ "lost" :> 1 @@ "troubles" :> 2)
================================================================================
