---------------------------- MODULE MergeRequests ----------------------------
(***************************************************************************)
(* Merge requests of one repository (tools.go, client_jj.go): the tools    *)
(* mr-create, mr-review and mr-merge with the two tools a merge leans on,  *)
(* git-rebase and git-resolve.  jjlab keeps the requests; mr-merge reads   *)
(* one, rebases its head sha onto the base, records an approval and marks  *)
(* it merged, by four calls of its own, while sessions go on committing,   *)
(* users close and reopen requests and other merges run.                   *)
(*                                                                         *)
(* What jjlab itself decides (external): the number of a request, whether  *)
(* a push moves its head sha, whether a rebase conflicts, and that a       *)
(* bookmark keeps its conflicts until they are resolved.  Change ids       *)
(* survive a rebase, so a commit is the same on either side of it.         *)
(***************************************************************************)
CONSTANTS
    Bookmarks,  \* the repository's bookmarks; a session works on each
    Commits,    \* changes the tools may commit
    Requests,   \* numbers jjlab gives merge requests
    Merging,    \* calls of mr-merge that may run at the same time
    None

VARIABLES
    work,       \* per bookmark, the changes in its history
    torn,       \* bookmarks with unresolved conflicts
    mrs,        \* per number, the request, or None
    merge,      \* per call of mr-merge, what it has read and does next, or None
    seen,       \* history: per call, the head bookmark's changes when it read
    landed      \* history: requests and the shas whose rebase left no conflict

mrVars == <<work, torn, mrs, merge, seen, landed>>

\* A sha stands for the changes it leads to.
Shas == SUBSET Commits
MRs == [head : Bookmarks, base : Bookmarks, sha : {None} \union Shas,
        state : {"open", "closed", "merged"}, reviews : SUBSET {"approved", "rejected"}]
Merges == [step : {"rebase", "review", "update"}, mr : Requests, base : Bookmarks,
           sha : Shas]

ASSUME MRAssumption == None \notin MRs /\ None \notin Merges

MRTypeOK ==
    /\ work \in [Bookmarks -> Shas]
    /\ torn \subseteq Bookmarks
    /\ mrs \in [Requests -> MRs \union {None}]
    /\ merge \in [Merging -> Merges \union {None}]
    /\ seen \in [Merging -> Shas]
    /\ landed \subseteq [mr : Requests, sha : Shas]

Init ==
    /\ work = [b \in Bookmarks |-> {}]
    /\ torn = {}
    /\ mrs = [n \in Requests |-> None]
    /\ merge = [p \in Merging |-> None]
    /\ seen = [p \in Merging |-> {}]
    /\ landed = {}

Exists(n) == mrs[n] # None
SetMR(n, m) == mrs' = [mrs EXCEPT ![n] = m]

----------------------------------------------------------------------------
(* The bookmarks.                                                          *)

\* A tool of b's session commits c.
Push(b, c) ==
    /\ \A x \in Bookmarks : c \notin work[x]
    /\ work' = [work EXCEPT ![b] = @ \union {c}]

PushTo(b, c) ==
    /\ Push(b, c)
    /\ UNCHANGED <<torn, mrs, merge, seen, landed>>

\* git-resolve: the commit that overwrites what is in conflict.
GitResolve(b, c) ==
    /\ b \in torn
    /\ Push(b, c)
    /\ torn' = torn \ {b}
    /\ UNCHANGED <<mrs, merge, seen, landed>>

\* POST .../rebase of the changes at source onto b; clean tells whether the
\* answer lists no conflicts.
Rebase(source, b, clean) ==
    /\ clean => b \notin torn
    /\ work' = [work EXCEPT ![b] = @ \union source]
    /\ torn' = IF clean THEN torn ELSE torn \union {b}

\* The tool git-rebase: the destination is the caller's own bookmark.
GitRebase(b, source, clean) ==
    /\ Rebase(work[source], b, clean)
    /\ UNCHANGED <<mrs, merge, seen, landed>>

----------------------------------------------------------------------------
(* The requests.                                                           *)

\* mr-create, called on bookmark b; the target is adopted before (Adoption).
MrCreate(b, target, n) ==
    /\ target # b
    /\ ~ Exists(n)
    /\ SetMR(n, [head |-> b, base |-> target, sha |-> work[b],
                 state |-> "open", reviews |-> {}])
    /\ UNCHANGED <<work, torn, merge, seen, landed>>

\* A push loses the head sha of a request, and jjlab finds the new one.
HeadLost(n) ==
    /\ Exists(n)
    /\ SetMR(n, [mrs[n] EXCEPT !.sha = None])
    /\ UNCHANGED <<work, torn, merge, seen, landed>>

HeadMoves(n) ==
    /\ Exists(n)
    /\ SetMR(n, [mrs[n] EXCEPT !.sha = work[mrs[n].head]])
    /\ UNCHANGED <<work, torn, merge, seen, landed>>

\* A user of jjlab closes a request or opens it again.
MrToggled(n) ==
    /\ Exists(n)
    /\ mrs[n].state # "merged"
    /\ SetMR(n, [mrs[n] EXCEPT !.state = IF @ = "open" THEN "closed" ELSE "open"])
    /\ UNCHANGED <<work, torn, merge, seen, landed>>

AddMrReview(n, verdict) == SetMR(n, [mrs[n] EXCEPT !.reviews = @ \union {verdict}])

MrReview(n, verdict) ==
    /\ Exists(n)
    /\ AddMrReview(n, verdict)
    /\ UNCHANGED <<work, torn, merge, seen, landed>>

----------------------------------------------------------------------------
(* mr-merge.                                                               *)

AtStep(p, step) == merge[p] # None /\ merge[p].step = step
GoOn(p, step) == merge' = [merge EXCEPT ![p].step = step]
EndMerge(p) == merge' = [merge EXCEPT ![p] = None] /\ seen' = [seen EXCEPT ![p] = {}]

\* GetMr and the checks of its answer: the request is open and has a head sha,
\* and the caller's bookmark b is its base.
ViewToMerge(p, b, n) ==
    /\ merge[p] = None
    /\ Exists(n)
    /\ mrs[n].state = "open" /\ mrs[n].sha # None
    /\ mrs[n].base = b
    /\ merge' = [merge EXCEPT ![p] = [step |-> "rebase", mr |-> n, base |-> b,
                                      sha |-> mrs[n].sha]]
    /\ seen' = [seen EXCEPT ![p] = work[mrs[n].head]]
    /\ UNCHANGED <<work, torn, mrs, landed>>

\* Mutant: the head bookmark is the content source.
HeadAsSource(m) == work[mrs[m.mr].head]

\* The content source: the sha the call has read.
MergeSource(m) == m.sha

Land(m) == landed' = landed \union {[mr |-> m.mr, sha |-> m.sha]}

MergeLands(p) ==
    /\ AtStep(p, "rebase")
    /\ Rebase(MergeSource(merge[p]), merge[p].base, TRUE)
    /\ Land(merge[p])
    /\ GoOn(p, "review")
    /\ UNCHANGED <<mrs, seen>>

\* Mutant: conflicts are reported and the merge goes on.
ConflictIgnored(p) ==
    /\ AtStep(p, "rebase")
    /\ Rebase(MergeSource(merge[p]), merge[p].base, FALSE)
    /\ GoOn(p, "review")
    /\ UNCHANGED <<mrs, seen, landed>>

\* With conflicts the call returns and the request stays open.
MergeConflicts(p) ==
    /\ AtStep(p, "rebase")
    /\ Rebase(MergeSource(merge[p]), merge[p].base, FALSE)
    /\ EndMerge(p)
    /\ UNCHANGED <<mrs, landed>>

\* The answer to the rebase is lost: the call fails with the work in the base.
MergeAnswerLost(p) ==
    /\ AtStep(p, "rebase")
    /\ \E clean \in BOOLEAN : Rebase(MergeSource(merge[p]), merge[p].base, clean)
    /\ EndMerge(p)
    /\ UNCHANGED <<mrs, landed>>

\* The approval; its failure is ignored.
MergeApproves(p) ==
    /\ AtStep(p, "review")
    /\ AddMrReview(merge[p].mr, "approved") \/ UNCHANGED mrs
    /\ GoOn(p, "update")
    /\ UNCHANGED <<work, torn, seen, landed>>

\* UpdateMrState, whatever the state is by now.
MergeMarks(p) ==
    /\ AtStep(p, "update")
    /\ SetMR(merge[p].mr, [mrs[merge[p].mr] EXCEPT !.state = "merged"])
    /\ EndMerge(p)
    /\ UNCHANGED <<work, torn, landed>>

\* A call fails or the process dies: what is done stays done.
MergeFails(p) ==
    /\ merge[p] # None
    /\ EndMerge(p)
    /\ UNCHANGED <<work, torn, mrs, landed>>

----------------------------------------------------------------------------
Bookmarking ==
    \/ \E b \in Bookmarks, c \in Commits : PushTo(b, c) \/ GitResolve(b, c)
    \/ \E b, source \in Bookmarks, clean \in BOOLEAN : GitRebase(b, source, clean)

Requesting ==
    \/ \E b, target \in Bookmarks, n \in Requests : MrCreate(b, target, n)
    \/ \E n \in Requests : HeadLost(n) \/ HeadMoves(n) \/ MrToggled(n)
    \/ \E n \in Requests, verdict \in {"approved", "rejected"} : MrReview(n, verdict)

MergeStep(p) ==
    \/ \E b \in Bookmarks, n \in Requests : ViewToMerge(p, b, n)
    \/ MergeLands(p) \/ MergeConflicts(p) \/ MergeAnswerLost(p)
    \/ MergeApproves(p) \/ MergeMarks(p) \/ MergeFails(p)

Next == Bookmarking \/ Requesting \/ \E p \in Merging : MergeStep(p)

Spec == Init /\ [][Next]_mrVars

----------------------------------------------------------------------------
\* "Only open MRs can merge", "the source bookmark's later commits do not sneak
\* in" (tools.go:779, 797): whatever is pushed, rebased, moved or retried while
\* a merge runs, the base gets from it nothing that the head bookmark did not
\* have when the call found the request open.
NothingSneaksIn ==
    [][\A p \in Merging :
          AtStep(p, "rebase") /\ merge'[p] # merge[p]
              => work'[merge[p].base] \ work[merge[p].base] \subseteq seen[p]]_mrVars

\* "On conflicts the MR stays open" (manifest.yaml:381): a request that is
\* merged has been rebased onto its base without conflicts, and what was then
\* its head sha is in the base, however often calls failed and were retried.
MergedLanded ==
    \A n \in Requests :
        Exists(n) /\ mrs[n].state = "merged"
            => \E h \in landed : h.mr = n /\ h.sha \subseteq work[mrs[n].base]
==============================================================================
