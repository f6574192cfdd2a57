------------------------- MODULE MergeRequestsProofs -------------------------
(***************************************************************************)
(* Machine-checked proofs about MergeRequests, for every set of bookmarks, *)
(* changes, requests and concurrent merges.                                *)
(*                                                                         *)
(* The invariant relates the locals of a running merge to what it has read *)
(* and done: the sha it read belongs to the head bookmark (ShaOfHead), its *)
(* request does not change head or base, and past the rebase its work is   *)
(* in the base and its conflict-free rebase is on record (MergeOK).        *)
(***************************************************************************)
EXTENDS MergeRequests, TLAPS

ShaOfHead == \A n \in Requests :
    Exists(n) => mrs[n].sha = None \/ mrs[n].sha \subseteq work[mrs[n].head]

\* What call m of p has read and done.
Done(p, m) ==
    /\ Exists(m.mr) /\ mrs[m.mr].base = m.base
    /\ m.step = "rebase" => m.sha \subseteq seen[p]
    /\ m.step # "rebase" => [mr |-> m.mr, sha |-> m.sha] \in landed
                            /\ m.sha \subseteq work[m.base]

MergeOK == \A p \in Merging : merge[p] # None => Done(p, merge[p])

MRInv == MRTypeOK /\ ShaOfHead /\ MergeOK /\ MergedLanded
----------------------------------------------------------------------------
LEMMA InitMRInv == Init => MRInv
BY DEF Init, MRInv, MRTypeOK, Shas, ShaOfHead, MergeOK, MergedLanded, Exists

\* Merges and requests are never taken for None.
LEMMA Typed ==
    ASSUME MRTypeOK
    PROVE  /\ \A n \in Requests : Exists(n) => mrs[n] \in MRs
           /\ \A p \in Merging : merge[p] # None => merge[p] \in Merges
BY DEF MRTypeOK, Exists

LEMMA RequestTyped ==
    ASSUME MRTypeOK, NEW n \in Requests, NEW m \in MRs, SetMR(n, m)
    PROVE  mrs' \in [Requests -> MRs \union {None}]
BY DEF MRTypeOK, SetMR

LEMMA BookmarkingTyped == MRTypeOK /\ Bookmarking => MRTypeOK'
<1> SUFFICES ASSUME MRTypeOK, Bookmarking PROVE MRTypeOK'
  OBVIOUS
<1>1. ASSUME NEW b \in Bookmarks, NEW c \in Commits, PushTo(b, c) \/ GitResolve(b, c)
      PROVE  MRTypeOK'
  BY <1>1 DEF MRTypeOK, PushTo, GitResolve, Push, Shas
<1>2. ASSUME NEW b \in Bookmarks, NEW source \in Bookmarks, NEW clean \in BOOLEAN,
             GitRebase(b, source, clean)
      PROVE  MRTypeOK'
  BY <1>2 DEF MRTypeOK, GitRebase, Rebase, Shas
<1> QED
  BY <1>1, <1>2 DEF Bookmarking

----------------------------------------------------------------------------
(* What changes, and what that leaves true.                                *)

\* More work in bookmarks takes nothing away.
LEMMA MoreWork ==
    ASSUME MRInv, MRTypeOK', \A b \in Bookmarks : work[b] \subseteq work'[b],
           UNCHANGED <<mrs, merge, seen, landed>>
    PROVE  MRInv'
<1>1. MRTypeOK
  BY DEF MRInv
<1>2. ShaOfHead'
  BY <1>1, Typed DEF MRInv, ShaOfHead, Exists, MRs
<1>3. MergeOK'
  BY <1>1, Typed DEF MRInv, MergeOK, Done, Exists, Merges
<1>4. MergedLanded'
  <2> SUFFICES ASSUME NEW n \in Requests, Exists(n), mrs[n].state = "merged"
               PROVE  \E h \in landed : h.mr = n /\ h.sha \subseteq work'[mrs[n].base]
    BY DEF MergedLanded, Exists
  <2>1. PICK h \in landed : h.mr = n /\ h.sha \subseteq work[mrs[n].base]
    BY DEF MRInv, MergedLanded
  <2>2. mrs[n].base \in Bookmarks
    BY <1>1, Typed DEF MRs
  <2> QED
    BY <2>1, <2>2
<1> QED
  BY <1>2, <1>3, <1>4 DEF MRInv

\* A request whose head, base and outcome stay may change.
LEMMA RequestChange ==
    ASSUME MRInv, NEW n \in Requests, NEW m \in MRs, SetMR(n, m),
           UNCHANGED <<work, torn, merge, seen, landed>>,
           Exists(n) => m.head = mrs[n].head /\ m.base = mrs[n].base,
           m.sha = None \/ m.sha \subseteq work[m.head],
           m.state = "merged" => Exists(n) /\ mrs[n].state = "merged"
    PROVE  MRInv'
<1>1. MRTypeOK /\ mrs' \in [Requests -> MRs \union {None}]
  BY RequestTyped DEF MRInv
<1>2. MRTypeOK'
  BY <1>1 DEF MRTypeOK
<1>3. mrs'[n] = m /\ m # None /\ \A k \in Requests \ {n} : mrs'[k] = mrs[k]
  BY <1>1, MRAssumption DEF SetMR, MRTypeOK
<1>4. ShaOfHead'
  BY <1>3 DEF MRInv, ShaOfHead, Exists
<1>5. MergeOK'
  <2> SUFFICES ASSUME NEW p \in Merging, merge[p] # None PROVE Done(p, merge[p])'
    BY DEF MergeOK
  <2>1. Done(p, merge[p]) /\ merge[p].mr \in Requests
    BY <1>1, Typed DEF MRInv, MergeOK, Merges
  <2> QED
    BY <1>3, <2>1 DEF Done, Exists
<1>6. MergedLanded'
  BY <1>3 DEF MRInv, MergedLanded, Exists
<1> QED
  BY <1>2, <1>4, <1>5, <1>6 DEF MRInv

LEMMA RequestingKeepsMRInv == MRInv /\ Requesting => MRInv'
<1> SUFFICES ASSUME MRInv, Requesting PROVE MRInv'
  OBVIOUS
<1>1. MRTypeOK /\ ShaOfHead
  BY DEF MRInv
<1>2. ASSUME NEW b \in Bookmarks, NEW target \in Bookmarks, NEW n \in Requests,
             MrCreate(b, target, n)
      PROVE  MRInv'
  <2> DEFINE m == [head |-> b, base |-> target, sha |-> work[b], state |-> "open",
                   reviews |-> {}]
  <2>1. m \in MRs /\ m.sha \subseteq work[m.head] /\ m.state # "merged"
    BY <1>1 DEF MRTypeOK, MRs
  <2>2. ~ Exists(n) /\ SetMR(n, m) /\ UNCHANGED <<work, torn, merge, seen, landed>>
    BY <1>2 DEF MrCreate
  <2> HIDE DEF m
  <2> QED
    BY <2>1, <2>2, RequestChange
<1>3. ASSUME NEW n \in Requests, HeadLost(n) \/ HeadMoves(n) \/ MrToggled(n) PROVE MRInv'
  <2> DEFINE lost == [mrs[n] EXCEPT !.sha = None]
             moved == [mrs[n] EXCEPT !.sha = work[mrs[n].head]]
             toggled == [mrs[n] EXCEPT !.state = IF @ = "open" THEN "closed" ELSE "open"]
  <2>1. Exists(n) /\ mrs[n] \in MRs /\ UNCHANGED <<work, torn, merge, seen, landed>>
    BY <1>1, <1>3, Typed DEF HeadLost, HeadMoves, MrToggled
  <2>2. mrs[n].sha = None \/ mrs[n].sha \subseteq work[mrs[n].head]
    BY <1>1, <2>1 DEF ShaOfHead
  <2>3. CASE HeadLost(n)
    <3>1. lost \in MRs /\ lost.head = mrs[n].head /\ lost.base = mrs[n].base
          /\ lost.sha = None /\ lost.state = mrs[n].state
      BY <2>1 DEF MRs
    <3>2. SetMR(n, lost)
      BY <2>3 DEF HeadLost
    <3> HIDE DEF lost
    <3> QED
      BY <2>1, <3>1, <3>2, RequestChange
  <2>4. CASE HeadMoves(n)
    <3>1. moved \in MRs /\ moved.head = mrs[n].head /\ moved.base = mrs[n].base
          /\ moved.sha = work[mrs[n].head] /\ moved.state = mrs[n].state
      BY <1>1, <2>1 DEF MRs, MRTypeOK
    <3>2. SetMR(n, moved)
      BY <2>4 DEF HeadMoves
    <3> HIDE DEF moved
    <3> QED
      BY <2>1, <3>1, <3>2, RequestChange
  <2>5. CASE MrToggled(n)
    <3>1. toggled \in MRs /\ toggled.head = mrs[n].head /\ toggled.base = mrs[n].base
          /\ toggled.sha = mrs[n].sha /\ toggled.state # "merged"
      BY <2>1 DEF MRs
    <3>2. SetMR(n, toggled)
      BY <2>5 DEF MrToggled
    <3> HIDE DEF toggled
    <3> QED
      BY <2>1, <2>2, <3>1, <3>2, RequestChange
  <2> QED
    BY <1>3, <2>3, <2>4, <2>5
<1>4. ASSUME NEW n \in Requests, NEW verdict \in {"approved", "rejected"},
             MrReview(n, verdict)
      PROVE  MRInv'
  <2> DEFINE m == [mrs[n] EXCEPT !.reviews = @ \union {verdict}]
  <2>1. Exists(n) /\ mrs[n] \in MRs /\ SetMR(n, m)
        /\ UNCHANGED <<work, torn, merge, seen, landed>>
    BY <1>1, <1>4, Typed DEF MrReview, AddMrReview
  <2>2. m \in MRs /\ m.head = mrs[n].head /\ m.base = mrs[n].base
        /\ m.sha = mrs[n].sha /\ m.state = mrs[n].state
    BY <2>1 DEF MRs
  <2>3. m.sha = None \/ m.sha \subseteq work[m.head]
    BY <1>1, <2>1, <2>2 DEF ShaOfHead
  <2> HIDE DEF m
  <2> QED
    BY <2>1, <2>2, <2>3, RequestChange
<1> QED
  BY <1>2, <1>3, <1>4 DEF Requesting

LEMMA BookmarkingKeepsMRInv == MRInv /\ Bookmarking => MRInv'
<1> SUFFICES ASSUME MRInv, Bookmarking PROVE MRInv'
  OBVIOUS
<1>1. MRTypeOK /\ MRTypeOK'
  BY BookmarkingTyped DEF MRInv
<1>2. UNCHANGED <<mrs, merge, seen, landed>>
  BY DEF Bookmarking, PushTo, GitResolve, GitRebase
<1>3. \A b \in Bookmarks : work[b] \subseteq work'[b]
  BY <1>1 DEF Bookmarking, PushTo, GitResolve, GitRebase, Push, Rebase, MRTypeOK
<1> QED
  BY <1>1, <1>2, <1>3, MoreWork

----------------------------------------------------------------------------
(* A merge.                                                                *)

\* One call of a merge: bookmarks and the record only grow, requests keep head
\* and base, and what p has then done is as its locals say.
LEMMA MergeChange ==
    ASSUME MRInv, NEW p \in Merging, MRTypeOK',
           \A b \in Bookmarks : work[b] \subseteq work'[b],
           landed \subseteq landed',
           \A n \in Requests : Exists(n) => /\ mrs'[n] # None
                                           /\ mrs'[n].head = mrs[n].head
                                           /\ mrs'[n].base = mrs[n].base
                                           /\ mrs'[n].sha = mrs[n].sha,
           \A n \in Requests : ~ Exists(n) => mrs'[n] = None,
           \A q \in Merging \ {p} : merge'[q] = merge[q] /\ seen'[q] = seen[q],
           merge'[p] # None => Done(p, merge[p])',
           \A n \in Requests : Exists(n) /\ mrs'[n].state = "merged"
               => \/ mrs[n].state = "merged"
                  \/ \E h \in landed : h.mr = n /\ h.sha \subseteq work[mrs[n].base]
    PROVE  MRInv'
<1>1. MRTypeOK
  BY DEF MRInv
<1>2. ShaOfHead'
  <2> SUFFICES ASSUME NEW n \in Requests, mrs'[n] # None, mrs'[n].sha # None
               PROVE  mrs'[n].sha \subseteq work'[mrs'[n].head]
    BY DEF ShaOfHead, Exists
  <2>1. Exists(n)
    OBVIOUS
  <2>2. mrs[n] \in MRs /\ mrs[n].sha \subseteq work[mrs[n].head]
    BY <1>1, <2>1, Typed DEF MRInv, ShaOfHead
  <2> QED
    BY <2>1, <2>2 DEF MRs
<1>3. MergeOK'
  <2> SUFFICES ASSUME NEW q \in Merging, merge'[q] # None PROVE Done(q, merge[q])'
    BY DEF MergeOK
  <2>1. CASE q = p
    BY <2>1
  <2>2. CASE q # p
    <3>1. merge'[q] = merge[q] /\ seen'[q] = seen[q]
      BY <2>2
    <3>2. Done(q, merge[q]) /\ merge[q] \in Merges
      BY <1>1, <3>1, Typed DEF MRInv, MergeOK
    <3> QED
      BY <3>1, <3>2 DEF Done, Merges, Exists
  <2> QED
    BY <2>1, <2>2
<1>4. MergedLanded'
  <2> SUFFICES ASSUME NEW n \in Requests, mrs'[n] # None, mrs'[n].state = "merged"
               PROVE  \E h \in landed' : h.mr = n /\ h.sha \subseteq work'[mrs'[n].base]
    BY DEF MergedLanded, Exists
  <2>1. Exists(n)
    OBVIOUS
  <2>2. PICK h \in landed : h.mr = n /\ h.sha \subseteq work[mrs[n].base]
    BY <2>1 DEF MRInv, MergedLanded
  <2>3. mrs[n].base \in Bookmarks /\ mrs'[n].base = mrs[n].base
    BY <1>1, <2>1, Typed DEF MRs
  <2> QED
    BY <2>2, <2>3
<1> QED
  BY <1>2, <1>3, <1>4 DEF MRInv

\* A call that ends without touching its request.
LEMMA EndOfMerge ==
    ASSUME MRInv, NEW p \in Merging, EndMerge(p), UNCHANGED <<mrs, landed>>,
           work' \in [Bookmarks -> Shas], torn' \subseteq Bookmarks,
           \A b \in Bookmarks : work[b] \subseteq work'[b]
    PROVE  MRInv'
<1>1. MRTypeOK
  BY DEF MRInv
<1>2. /\ merge' \in [Merging -> Merges \union {None}] /\ seen' \in [Merging -> Shas]
      /\ merge'[p] = None
      /\ \A q \in Merging \ {p} : merge'[q] = merge[q] /\ seen'[q] = seen[q]
  BY <1>1 DEF MRTypeOK, EndMerge, Shas
<1>3. MRTypeOK'
  BY <1>1, <1>2 DEF MRTypeOK
<1> QED
  BY <1>2, <1>3, MergeChange DEF Exists

\* What a rebase does to the base.
LEMMA RebaseGrows ==
    ASSUME MRTypeOK, NEW source \in Shas, NEW b \in Bookmarks, NEW clean \in BOOLEAN,
           Rebase(source, b, clean)
    PROVE  /\ work' \in [Bookmarks -> Shas] /\ torn' \subseteq Bookmarks
           /\ \A x \in Bookmarks : work[x] \subseteq work'[x]
           /\ work'[b] = work[b] \union source
BY DEF MRTypeOK, Rebase, Shas

LEMMA MergeStepKeepsMRInv ==
    ASSUME MRInv, NEW p \in Merging, MergeStep(p)
    PROVE  MRInv'
<1> DEFINE m == merge[p]
<1>1. MRTypeOK
  BY DEF MRInv
<1>2. m # None => m \in Merges /\ Done(p, m)
  BY <1>1, Typed DEF MRInv, MergeOK
<1>3. ASSUME NEW b \in Bookmarks, NEW n \in Requests, ViewToMerge(p, b, n) PROVE MRInv'
  <2> DEFINE new == [step |-> "rebase", mr |-> n, base |-> b, sha |-> mrs[n].sha]
  <2>1. mrs[n] \in MRs /\ Exists(n) /\ mrs[n].sha \in Shas /\ mrs[n].base = b
        /\ mrs[n].sha \subseteq work[mrs[n].head] /\ UNCHANGED <<work, torn, mrs, landed>>
    BY <1>1, <1>3, Typed DEF ViewToMerge, MRs, MRInv, ShaOfHead
  <2>2. new \in Merges
    BY <2>1 DEF Merges
  <2>3. /\ merge' = [merge EXCEPT ![p] = new]
        /\ seen' = [seen EXCEPT ![p] = work[mrs[n].head]]
    BY <1>3 DEF ViewToMerge
  <2>4. /\ merge'[p] = new /\ seen'[p] = work[mrs[n].head]
        /\ \A q \in Merging \ {p} : merge'[q] = merge[q] /\ seen'[q] = seen[q]
    BY <1>1, <2>3 DEF MRTypeOK
  <2>5. MRTypeOK'
    <3>1. work[mrs[n].head] \in Shas
      BY <1>1, <2>1 DEF MRTypeOK, MRs
    <3> HIDE DEF new
    <3> QED
      BY <1>1, <2>1, <2>2, <2>3, <3>1 DEF MRTypeOK
  <2>6. Done(p, merge[p])'
    BY <2>1, <2>4 DEF Done, Exists
  <2> QED
    BY <2>1, <2>4, <2>5, <2>6, MergeChange DEF Exists
<1>4. CASE MergeLands(p)
  <2>1. m # None /\ m.step = "rebase" /\ Rebase(m.sha, m.base, TRUE)
        /\ landed' = landed \union {[mr |-> m.mr, sha |-> m.sha]}
        /\ merge' = [merge EXCEPT ![p].step = "review"] /\ UNCHANGED <<mrs, seen>>
    BY <1>4 DEF MergeLands, AtStep, MergeSource, Land, GoOn
  <2>2. m \in Merges /\ Exists(m.mr) /\ mrs[m.mr].base = m.base
    BY <1>2, <2>1 DEF Done
  <2>3. m.sha \in Shas /\ m.base \in Bookmarks /\ m.mr \in Requests
    BY <2>2 DEF Merges
  <2>4. /\ work' \in [Bookmarks -> Shas] /\ torn' \subseteq Bookmarks
        /\ \A x \in Bookmarks : work[x] \subseteq work'[x]
        /\ work'[m.base] = work[m.base] \union m.sha
    BY <1>1, <2>1, <2>3, RebaseGrows
  <2>5. /\ merge'[p] \in Merges /\ merge'[p].step = "review" /\ merge'[p].mr = m.mr
        /\ merge'[p].base = m.base /\ merge'[p].sha = m.sha
        /\ \A q \in Merging \ {p} : merge'[q] = merge[q]
        /\ merge' \in [Merging -> Merges \union {None}]
    BY <1>1, <2>1, <2>2 DEF MRTypeOK, Merges
  <2>6. MRTypeOK'
    BY <1>1, <2>1, <2>3, <2>4, <2>5 DEF MRTypeOK
  <2>7. Done(p, merge[p])'
    BY <2>1, <2>2, <2>4, <2>5 DEF Done, Exists
  <2> QED
    BY <2>1, <2>4, <2>5, <2>6, <2>7, MergeChange DEF Exists
<1>5. CASE MergeConflicts(p) \/ MergeAnswerLost(p)
  <2>1. PICK clean \in BOOLEAN : Rebase(m.sha, m.base, clean)
    BY <1>5 DEF MergeConflicts, MergeAnswerLost, MergeSource
  <2>2. m \in Merges
    BY <1>2, <1>5 DEF MergeConflicts, MergeAnswerLost, AtStep
  <2>3. EndMerge(p) /\ UNCHANGED <<mrs, landed>>
    BY <1>5 DEF MergeConflicts, MergeAnswerLost
  <2> QED
    BY <1>1, <2>1, <2>2, <2>3, RebaseGrows, EndOfMerge DEF Merges
<1>6. CASE MergeApproves(p)
  <2>1. m # None /\ m.step = "review" /\ merge' = [merge EXCEPT ![p].step = "update"]
        /\ UNCHANGED <<work, torn, seen, landed>>
    BY <1>6 DEF MergeApproves, AtStep, GoOn
  <2>2. m \in Merges /\ Done(p, m)
    BY <1>2, <2>1
  <2>3. m.mr \in Requests /\ mrs[m.mr] \in MRs /\ Exists(m.mr)
    BY <1>1, <2>2, Typed DEF Merges, Done
  <2>4. /\ merge'[p] \in Merges /\ merge'[p].step = "update" /\ merge'[p].mr = m.mr
        /\ merge'[p].base = m.base /\ merge'[p].sha = m.sha
        /\ \A q \in Merging \ {p} : merge'[q] = merge[q]
        /\ merge' \in [Merging -> Merges \union {None}]
    BY <1>1, <2>1, <2>2 DEF MRTypeOK, Merges
  <2> DEFINE approved == [mrs[m.mr] EXCEPT !.reviews = @ \union {"approved"}]
  <2>5. /\ approved \in MRs /\ approved.head = mrs[m.mr].head
        /\ approved.base = mrs[m.mr].base /\ approved.sha = mrs[m.mr].sha
        /\ approved.state = mrs[m.mr].state /\ approved # None
    BY <2>3, MRAssumption DEF MRs
  <2>6. mrs' = mrs \/ mrs' = [mrs EXCEPT ![m.mr] = approved]
    BY <1>6 DEF MergeApproves, AddMrReview, SetMR
  <2> HIDE DEF approved
  <2>7. /\ mrs' \in [Requests -> MRs \union {None}]
        /\ \A n \in Requests : Exists(n) => /\ mrs'[n] # None
                                           /\ mrs'[n].head = mrs[n].head
                                           /\ mrs'[n].base = mrs[n].base
                                           /\ mrs'[n].sha = mrs[n].sha
                                           /\ mrs'[n].state = mrs[n].state
        /\ \A n \in Requests : ~ Exists(n) => mrs'[n] = None
    BY <1>1, <2>3, <2>5, <2>6 DEF MRTypeOK, Exists
  <2>8. MRTypeOK'
    BY <1>1, <2>1, <2>4, <2>7 DEF MRTypeOK
  <2>9. Done(p, merge[p])'
    BY <2>1, <2>2, <2>3, <2>4, <2>7 DEF Done, Exists
  <2> QED
    BY <2>1, <2>4, <2>7, <2>8, <2>9, MergeChange
<1>7. CASE MergeMarks(p)
  <2>1. m # None /\ m.step = "update" /\ EndMerge(p) /\ UNCHANGED <<work, torn, landed>>
        /\ mrs' = [mrs EXCEPT ![m.mr] = [mrs[m.mr] EXCEPT !.state = "merged"]]
    BY <1>7 DEF MergeMarks, AtStep, SetMR
  <2>2. m \in Merges /\ Done(p, m)
    BY <1>2, <2>1
  <2>3. m.mr \in Requests /\ mrs[m.mr] \in MRs /\ Exists(m.mr)
    BY <1>1, <2>2, Typed DEF Merges, Done
  <2>4. /\ merge' \in [Merging -> Merges \union {None}] /\ seen' \in [Merging -> Shas]
        /\ merge'[p] = None
        /\ \A q \in Merging \ {p} : merge'[q] = merge[q] /\ seen'[q] = seen[q]
    BY <1>1, <2>1 DEF MRTypeOK, EndMerge, Shas
  <2> DEFINE merged == [mrs[m.mr] EXCEPT !.state = "merged"]
  <2>5. /\ merged \in MRs /\ merged.head = mrs[m.mr].head
        /\ merged.base = mrs[m.mr].base /\ merged.sha = mrs[m.mr].sha /\ merged # None
    BY <2>3, MRAssumption DEF MRs
  <2>6. mrs' = [mrs EXCEPT ![m.mr] = merged]
    BY <2>1
  <2> HIDE DEF merged
  <2>7. /\ mrs' \in [Requests -> MRs \union {None}]
        /\ \A n \in Requests : Exists(n) => /\ mrs'[n] # None
                                           /\ mrs'[n].head = mrs[n].head
                                           /\ mrs'[n].base = mrs[n].base
                                           /\ mrs'[n].sha = mrs[n].sha
                                           /\ (n # m.mr => mrs'[n].state = mrs[n].state)
        /\ \A n \in Requests : ~ Exists(n) => mrs'[n] = None
    BY <1>1, <2>3, <2>5, <2>6 DEF MRTypeOK, Exists
  <2>8. MRTypeOK'
    BY <1>1, <2>1, <2>4, <2>7 DEF MRTypeOK
  <2> DEFINE h == [mr |-> m.mr, sha |-> m.sha]
  <2>9. h \in landed /\ h.mr = m.mr /\ h.sha \subseteq work[mrs[m.mr].base]
    BY <2>1, <2>2 DEF Done
  <2>10. \A n \in Requests : Exists(n) /\ mrs'[n].state = "merged"
             => \/ mrs[n].state = "merged"
                \/ \E g \in landed : g.mr = n /\ g.sha \subseteq work[mrs[n].base]
    BY <2>7, <2>9
  <2> QED
    BY <2>1, <2>4, <2>7, <2>8, <2>10, MergeChange
<1>8. CASE MergeFails(p)
  BY <1>1, <1>8, EndOfMerge DEF MergeFails, MRTypeOK
<1> QED
  BY <1>3, <1>4, <1>5, <1>6, <1>7, <1>8 DEF MergeStep

LEMMA NextKeepsMRInv == MRInv /\ [Next]_mrVars => MRInv'
<1> SUFFICES ASSUME MRInv, [Next]_mrVars PROVE MRInv'
  OBVIOUS
<1>1. CASE Bookmarking
  BY <1>1, BookmarkingKeepsMRInv
<1>2. CASE Requesting
  BY <1>2, RequestingKeepsMRInv
<1>3. CASE \E p \in Merging : MergeStep(p)
  BY <1>3, MergeStepKeepsMRInv
<1>4. CASE UNCHANGED mrVars
  BY <1>4 DEF mrVars, MRInv, MRTypeOK, ShaOfHead, MergeOK, Done, MergedLanded, Exists
<1> QED
  BY <1>1, <1>2, <1>3, <1>4 DEF Next

LEMMA MRInvariant == Spec => []MRInv
BY InitMRInv, NextKeepsMRInv, PTL DEF Spec

\* The tools keep the shapes of what they hold and of what jjlab holds.
THEOREM MRTypeCorrect == Spec => []MRTypeOK
<1>1. MRInv => MRTypeOK
  BY DEF MRInv
<1> QED
  BY <1>1, MRInvariant, PTL

\* A merged request is in its base, whatever failed, was retried or ran at the
\* same time (tools.go, mr-merge).
THEOREM MergesLand == Spec => []MergedLanded
<1>1. MRInv => MergedLanded
  BY DEF MRInv
<1> QED
  BY <1>1, MRInvariant, PTL

----------------------------------------------------------------------------
(* A rebase by p brings what p read, and p read no more than the head had. *)

LEMMA OthersStep ==
    ASSUME MRTypeOK, NEW p \in Merging, NEW q \in Merging \ {p}, MergeStep(q)
    PROVE  merge'[p] = merge[p]
<1>1. merge \in [Merging -> Merges \union {None}]
  BY DEF MRTypeOK
<1>2. ASSUME NEW b \in Bookmarks, NEW n \in Requests, ViewToMerge(q, b, n)
      PROVE  merge'[p] = merge[p]
  BY <1>1, <1>2 DEF ViewToMerge
<1>3. CASE MergeLands(q) \/ MergeApproves(q)
  BY <1>1, <1>3 DEF MergeLands, MergeApproves, GoOn
<1>4. CASE MergeConflicts(q) \/ MergeAnswerLost(q) \/ MergeMarks(q) \/ MergeFails(q)
  BY <1>1, <1>4 DEF MergeConflicts, MergeAnswerLost, MergeMarks, MergeFails, EndMerge
<1> QED
  BY <1>2, <1>3, <1>4 DEF MergeStep

LEMMA OwnStep ==
    ASSUME MRInv, NEW p \in Merging, AtStep(p, "rebase"), MergeStep(p)
    PROVE  work'[merge[p].base] \ work[merge[p].base] \subseteq seen[p]
<1> DEFINE m == merge[p]
<1>1. MRTypeOK /\ m \in Merges /\ m.sha \subseteq seen[p]
  BY Typed DEF MRInv, MergeOK, Done, AtStep
<1>2. m.sha \in Shas /\ m.base \in Bookmarks
  BY <1>1 DEF Merges
<1>3. \/ \E clean \in BOOLEAN : Rebase(m.sha, m.base, clean)
      \/ UNCHANGED work
  BY DEF MergeStep, AtStep, ViewToMerge, MergeLands, MergeConflicts, MergeAnswerLost,
         MergeApproves, MergeMarks, MergeFails, MergeSource
<1>4. CASE \E clean \in BOOLEAN : Rebase(m.sha, m.base, clean)
  <2>1. work'[m.base] = work[m.base] \union m.sha
    BY <1>1, <1>2, <1>4, RebaseGrows
  <2> QED
    BY <1>1, <2>1
<1>5. CASE UNCHANGED work
  BY <1>5
<1> QED
  BY <1>3, <1>4, <1>5

\* The base gets from a merge only what the head bookmark had when the call read
\* the request, whatever is pushed or moved meanwhile (tools.go, mr-merge).
THEOREM NothingSneaks == Spec => NothingSneaksIn
<1>1. ASSUME MRInv, [Next]_mrVars, NEW p \in Merging,
             AtStep(p, "rebase"), merge'[p] # merge[p]
      PROVE  work'[merge[p].base] \ work[merge[p].base] \subseteq seen[p]
  <2>1. MRTypeOK
    BY <1>1 DEF MRInv
  <2>2. ~ Bookmarking
    BY <1>1 DEF Bookmarking, PushTo, GitResolve, GitRebase
  <2>3. ~ Requesting
    BY <1>1 DEF Requesting, MrCreate, HeadLost, HeadMoves, MrToggled, MrReview
  <2>4. PICK q \in Merging : MergeStep(q)
    BY <1>1, <2>2, <2>3 DEF Next, mrVars
  <2>5. q = p
    BY <1>1, <2>1, <2>4, OthersStep
  <2> QED
    BY <1>1, <2>4, <2>5, OwnStep
<1>2. MRInv /\ [Next]_mrVars
      => [\A p \in Merging :
             AtStep(p, "rebase") /\ merge'[p] # merge[p]
                => work'[merge[p].base] \ work[merge[p].base] \subseteq seen[p]]_mrVars
  BY <1>1
<1> QED
  BY <1>2, MRInvariant, PTL DEF Spec, NothingSneaksIn
==============================================================================
