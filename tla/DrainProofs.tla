------------------------------- MODULE DrainProofs -------------------------------
(***************************************************************************)
(* Machine-checked proofs that redeliveries converge: what the sessions,   *)
(* the rows and the bookmarks have to do with each other while the stream  *)
(* is being served, and so once it is drained.                             *)
(*                                                                         *)
(* The consumer works alone and in order, no event is lost, no user of jj  *)
(* removes a bookmark and nobody adopts one, and the agent renames and     *)
(* forks within a repository; calls may fail, repositories may not be      *)
(* listed, answers and acknowledgements may be lost and the process may    *)
(* die at every step.  After a lost event, a removed bookmark or an event  *)
(* overtaken by another, and after a session moved to another repository,  *)
(* the layers do drift, and it takes the reconciler to bring them together *)
(* again: that is module ConvergenceProofs.                                *)
(*                                                                         *)
(* The argument: a session name's events in the stream alternate, the last *)
(* one says whether the agent has the session, and the first one says      *)
(* whether the tables have it, unless it is the event being served.        *)
(***************************************************************************)
EXTENDS ConsumerProofs

Draining ==
    /\ Alone /\ ~ Overtaking
    /\ Limit["lost"] = 0 /\ Removable = {} /\ Adoptable = {}

\* Sessions that own a workspace are renamed and forked within its repository,
\* sessions that own none to ones that own none.
InOneRepo(e) ==
    IF Derived(e.sid)
    THEN e.kind \in {"forked", "renamed"}
           => Derived(e.peer) /\ ParseSession(e.peer).repo = ParseSession(e.sid).repo
    ELSE e.kind = "renamed" => ~ Derived(e.peer)

WithinRepos == \A e \in stream : InOneRepo(e)

----------------------------------------------------------------------------
(* What the events say about a session.                                    *)

Makes(e, s) == e.kind \in {"created", "forked", "renamed"} /\ e.sid = s

Ends(e, s) ==
    \/ e.kind = "deleted" /\ e.sid = s
    \/ e.kind = "renamed" /\ e.peer = s

Needs(e, s) == Ends(e, s) \/ (e.kind = "forked" /\ e.peer = s)

Mentions(e, s) == Makes(e, s) \/ Ends(e, s)

\* Between two events that make a session there is one that ends it, and one
\* that makes it before it is needed again.
Alternating ==
    \A e, f \in stream, s \in Sids : e.seq < f.seq =>
        /\ Makes(e, s) /\ Makes(f, s)
             => \E g \in stream : e.seq < g.seq /\ g.seq < f.seq /\ Ends(g, s)
        /\ Ends(e, s) /\ Needs(f, s)
             => \E g \in stream : e.seq < g.seq /\ g.seq < f.seq /\ Makes(g, s)

\* The last event about a session tells whether the agent has it.
LastWord ==
    \A e \in stream, s \in Sids :
        /\ Makes(e, s) => s \in sessions \/ \E g \in stream : e.seq < g.seq /\ Ends(g, s)
        /\ Ends(e, s) => s \notin sessions \/ \E g \in stream : e.seq < g.seq /\ Makes(g, s)

Flow == Alternating /\ LastWord

\* The sessions that have a row.
Mapped == {r.sid : r \in rows}

\* A session no event is about has a row iff the agent has it.
Settled ==
    \A s \in DerivedNames :
        (\A e \in stream : ~ Mentions(e, s)) => (s \in sessions <=> s \in Mapped)

\* An event finds the rows it expects, unless an earlier one is still to change
\* that, or it has been at work itself.
Expected ==
    \A e \in stream, s \in DerivedNames :
        /\ Makes(e, s) /\ s \in Mapped
             => First(e) \/ \E g \in stream : g.seq < e.seq /\ Ends(g, s)
        /\ Needs(e, s) /\ s \notin Mapped
             => \/ First(e) /\ Ends(e, s)
                \/ \E g \in stream : g.seq < e.seq /\ Makes(g, s)

\* A rename has moved its row or has it still to move.
HeadRename ==
    \A e \in stream :
        First(e) /\ e.kind = "renamed" /\ Derived(e.sid)
          => (e.sid \in Mapped <=> e.peer \notin Mapped)

Table == Settled /\ Expected /\ HeadRename

\* A row has its bookmark, unless the session is just being deleted.
Marked ==
    \A r \in rows :
        /\ r.ws.repo \in repos
        /\ r.ws \in marks \/ \E e \in stream : First(e) /\ e.kind = "deleted" /\ e.sid = r.sid

\* The rows are as e wants them.
Served(e) ==
    IF e.kind = "deleted" THEN e.sid \notin Mapped
    ELSE e.sid \in Mapped /\ (e.kind = "renamed" => e.peer \notin Mapped)

\* What a handler has achieved when it gets to a label.
Achieved ==
    /\ Label \in {"ok", "project", "done", "manage"} => Served(job)
    /\ Label \in {"seeMark", "dropMark"} /\ Held.op = "rename" => Served(job)
    /\ Label \in {"bind", "moveRow"} => Held.ws \in marks
    /\ Label \in {"anchor", "look", "create"} => Held.ws.repo \in repos

\* What never happens here: an event of a session with a workspace is not
\* refused, a fork finds its parent mapped, and a rename that has become a
\* create has moved its row before.
Smooth ==
    /\ Label # "idle" => (Label = "reject" <=> ~ Derived(job.sid))
    /\ Held.op # "parent"
    /\ Held.op = "create" /\ job.kind = "renamed" => job.peer \notin Mapped
    /\ Held.op = "delete" /\ Label \in CallLabels
         => Label \in {"findRow", "seeMark", "dropMark", "unbind"}

Drains == Flow /\ Table /\ Marked /\ Achieved /\ Smooth

----------------------------------------------------------------------------
(* The stream goes on.                                                     *)

LEMMA StreamFacts ==
    ASSUME TypeOK
    PROVE  /\ \A e \in stream : /\ e.seq \in Nat /\ e.sid \in Sids
                                /\ e.kind \in {"created", "forked", "renamed", "deleted"}
           /\ used["acts"] \in Nat /\ DerivedNames \subseteq Sids
BY DEF TypeOK, AgentTypeOK, Events, EventKinds, BudgetKinds, Sids

LEMMA PublishKeepsFlow ==
    ASSUME TypeOK, StreamOK, Flow, NEW e, Published(e) PROVE Flow'
<1>1. /\ \A f \in stream : f.seq \in Nat /\ f.seq < e.seq
      /\ stream' = stream \union {e} /\ SessionsFollow(e) /\ e.seq \in Nat
  BY StreamFacts DEF Published, StreamOK
<1>2. \A s \in Sids : /\ Makes(e, s) => s \notin sessions /\ s \in sessions'
                      /\ Ends(e, s) => s \in sessions /\ s \notin sessions'
                      /\ Needs(e, s) => s \in sessions
                      /\ s \in sessions /\ s \notin sessions' => Ends(e, s)
                      /\ s \notin sessions /\ s \in sessions' => Makes(e, s)
  BY <1>1 DEF SessionsFollow, Makes, Ends, Needs
<1>3. ASSUME NEW d \in stream', NEW f \in stream', NEW s \in Sids, d.seq < f.seq
      PROVE  /\ Makes(d, s) /\ Makes(f, s)
                  => \E g \in stream' : d.seq < g.seq /\ g.seq < f.seq /\ Ends(g, s)
             /\ Ends(d, s) /\ Needs(f, s)
                  => \E g \in stream' : d.seq < g.seq /\ g.seq < f.seq /\ Makes(g, s)
  <2>1. CASE d \in stream /\ f \in stream
    BY <1>1, <1>3, <2>1 DEF Flow, Alternating
  <2>2. CASE d \in stream /\ f = e
    BY <1>1, <1>2, <2>2 DEF Flow, LastWord
  <2>3. d # e
    BY <1>1, <1>3
  <2> QED
    BY <1>1, <2>1, <2>2, <2>3
<1>4. ASSUME NEW d \in stream', NEW s \in Sids
      PROVE  /\ Makes(d, s) => s \in sessions' \/ \E g \in stream' : d.seq < g.seq /\ Ends(g, s)
             /\ Ends(d, s) => s \notin sessions' \/ \E g \in stream' : d.seq < g.seq /\ Makes(g, s)
  <2>1. CASE d \in stream
    <3>1. /\ Makes(d, s) => s \in sessions \/ \E g \in stream : d.seq < g.seq /\ Ends(g, s)
          /\ Ends(d, s) => s \notin sessions \/ \E g \in stream : d.seq < g.seq /\ Makes(g, s)
      BY <2>1 DEF Flow, LastWord
    <3>2. stream \subseteq stream' /\ e \in stream' /\ d.seq < e.seq
      BY <1>1, <2>1
    <3>3. /\ s \in sessions /\ s \notin sessions' => Ends(e, s)
          /\ s \notin sessions /\ s \in sessions' => Makes(e, s)
      BY <1>2
    <3>4. CASE \E g \in stream : d.seq < g.seq /\ (Ends(g, s) \/ Makes(g, s))
      BY <3>1, <3>2, <3>3, <3>4
    <3> QED
      BY <3>1, <3>2, <3>3, <3>4
  <2>2. CASE d = e
    BY <1>2, <2>2
  <2> QED
    BY <1>1, <2>1, <2>2
<1> QED
  BY <1>3, <1>4 DEF Flow, Alternating, LastWord

LEMMA PublishKeepsTable ==
    ASSUME TypeOK, StreamOK, Flow, Table, NEW e, Published(e), InOneRepo(e) PROVE Table'
<1>1. /\ \A f \in stream : f.seq \in Nat /\ f.seq < e.seq
      /\ stream' = stream \union {e} /\ SessionsFollow(e) /\ e \in stream'
      /\ DerivedNames \subseteq Sids /\ e.seq \in Nat
  BY StreamFacts DEF Published, StreamOK
<1>2. Mapped' = Mapped
  BY DEF Published, storeVars, Mapped
<1>3. \A s : /\ Makes(e, s) => s \notin sessions
             /\ Needs(e, s) => s \in sessions
             /\ ~ Mentions(e, s) => (s \in sessions <=> s \in sessions')
  BY <1>1 DEF SessionsFollow, Makes, Ends, Needs, Mentions
<1>4. \A f \in stream : First(f) => First(f)'
  BY <1>1 DEF First
<1>5. Settled'
  BY <1>1, <1>2, <1>3 DEF Table, Settled
<1>6. ASSUME NEW s \in DerivedNames
      PROVE  /\ Makes(e, s) /\ s \in Mapped => \E g \in stream : Ends(g, s)
             /\ Needs(e, s) /\ s \notin Mapped => \E g \in stream : Makes(g, s)
  BY <1>1, <1>3, StreamFacts DEF Table, Settled, Flow, LastWord, Mentions
<1>7. Expected'
  <2> SUFFICES ASSUME NEW f \in stream', NEW s \in DerivedNames
               PROVE  /\ Makes(f, s) /\ s \in Mapped'
                           => First(f)' \/ \E g \in stream' : g.seq < f.seq /\ Ends(g, s)
                      /\ Needs(f, s) /\ s \notin Mapped'
                           => \/ First(f)' /\ Ends(f, s)
                              \/ \E g \in stream' : g.seq < f.seq /\ Makes(g, s)
    BY DEF Expected
  <2>1. CASE f \in stream
    BY <1>1, <1>2, <1>4, <2>1 DEF Table, Expected
  <2>2. CASE f = e
    BY <1>1, <1>2, <1>6, <2>2
  <2> QED
    BY <1>1, <2>1, <2>2
<1>8. HeadRename'
  <2> SUFFICES ASSUME NEW f \in stream', First(f)', f.kind = "renamed", Derived(f.sid)
               PROVE  f.sid \in Mapped <=> f.peer \notin Mapped
    BY <1>2 DEF HeadRename
  <2>1. CASE f \in stream
    <3>1. First(f)
      BY <1>1 DEF First
    <3> QED
      BY <2>1, <3>1 DEF Table, HeadRename
  <2>2. CASE f = e
    <3>1. stream = {}
      BY <1>1, <2>2 DEF First
    <3>2. Derived(e.peer)
      BY <2>2 DEF InOneRepo
    <3> QED
      BY <1>3, <2>2, <3>1, <3>2 DEF Table, Settled, Makes, Ends, Needs, Derived
  <2> QED
    BY <1>1, <2>1, <2>2
<1> QED
  BY <1>5, <1>7, <1>8 DEF Table

\* The first event leaves the stream.
LEMMA AckKeepsFlow ==
    ASSUME TypeOK, StreamOK, Flow, job \in stream, First(job),
           stream' = stream \ {job}, UNCHANGED sessions
    PROVE  Flow'
<1>1. \A e \in stream' : job.seq < e.seq
  BY StreamFacts DEF First, StreamOK
<1>2. \A e, g \in stream : e \in stream' /\ e.seq < g.seq => g \in stream'
  BY <1>1, StreamFacts
<1>3. Alternating'
  BY <1>2 DEF Flow, Alternating
<1>4. LastWord'
  BY <1>2 DEF Flow, LastWord
<1> QED
  BY <1>3, <1>4 DEF Flow

LEMMA AckKeepsTable ==
    ASSUME TypeOK, StreamOK, Flow, Table, job \in stream, First(job), WithinRepos,
           Derived(job.sid) => Served(job),
           stream' = stream \ {job}, UNCHANGED <<sessions, rows>>
    PROVE  Table'
<1>1. /\ \A e \in stream' : job.seq < e.seq
      /\ \A e \in stream : e.seq \in Nat
      /\ DerivedNames \subseteq Sids /\ Mapped' = Mapped
  BY StreamFacts DEF First, StreamOK, Mapped
<1>2. ASSUME NEW s \in DerivedNames
      PROVE  /\ Makes(job, s) => s \in Mapped
             /\ Ends(job, s) => s \notin Mapped
  <2>1. Makes(job, s) \/ Ends(job, s) => Derived(job.sid)
    BY DEF WithinRepos, InOneRepo, Makes, Ends, Derived
  <2> QED
    BY <2>1 DEF Served, Makes, Ends
<1>3. Settled'
  BY <1>1, <1>2 DEF Flow, LastWord, Table, Settled, Mentions
<1>4. \A e \in stream' : ~ First(e)
  BY <1>1 DEF First
<1>5. ASSUME NEW e \in stream', NEW s \in DerivedNames
      PROVE  /\ Makes(e, s) /\ s \in Mapped
                  => \E g \in stream' : g.seq < e.seq /\ Ends(g, s)
             /\ Needs(e, s) /\ s \notin Mapped
                  => \E g \in stream' : g.seq < e.seq /\ Makes(g, s)
  BY <1>2, <1>4 DEF Table, Expected
<1>6. Expected'
  BY <1>1, <1>5 DEF Expected
<1>7. HeadRename'
  <2> SUFFICES ASSUME NEW e \in stream', First(e)', e.kind = "renamed", Derived(e.sid)
               PROVE  e.sid \notin Mapped /\ e.peer \in Mapped
    BY <1>1 DEF HeadRename
  <2>1. Derived(e.peer)
    BY DEF WithinRepos, InOneRepo
  <2>2. \A g \in stream' : ~ (g.seq < e.seq)
    BY <1>1 DEF First
  <2> QED
    BY <1>5, <2>1, <2>2 DEF Makes, Ends, Needs, Derived
<1> QED
  BY <1>3, <1>6, <1>7 DEF Table

\* Serving an event changes the rows of the sessions it mentions, as it says.
RowsFollow(e) ==
    \/ Mapped' = Mapped
    \/ e.kind \in {"created", "forked"} /\ Mapped' = Mapped \union {e.sid}
    \/ e.kind = "renamed" /\ Mapped' = (Mapped \ {e.peer}) \union {e.sid}
    \/ e.kind = "deleted" /\ Mapped' = Mapped \ {e.sid}

LEMMA ServiceKeepsTable ==
    ASSUME TypeOK, StreamOK, Flow, Table, job \in stream, First(job), RowsFollow(job),
           UNCHANGED agentVars
    PROVE  Table'
<1>1. /\ \A e \in stream : e # job => job.seq < e.seq
      /\ \A e \in stream : First(e) => e = job
      /\ DerivedNames \subseteq Sids /\ stream' = stream /\ sessions' = sessions
      /\ \A e \in stream : First(e)' <=> First(e)
  BY StreamFacts DEF First, StreamOK, agentVars
<1>2. \A s : /\ s \in Mapped' /\ s \notin Mapped => Makes(job, s)
             /\ s \notin Mapped' /\ s \in Mapped => Ends(job, s)
  BY DEF RowsFollow, Makes, Ends
<1>3. Settled'
  BY <1>1, <1>2 DEF Table, Settled, Mentions
<1>4. Expected'
  <2> SUFFICES ASSUME NEW e \in stream, NEW s \in DerivedNames
               PROVE  /\ Makes(e, s) /\ s \in Mapped'
                           => First(e) \/ \E g \in stream : g.seq < e.seq /\ Ends(g, s)
                      /\ Needs(e, s) /\ s \notin Mapped'
                           => \/ First(e) /\ Ends(e, s)
                              \/ \E g \in stream : g.seq < e.seq /\ Makes(g, s)
    BY <1>1 DEF Expected
  <2>1. CASE Makes(e, s) /\ s \in Mapped' /\ s \notin Mapped
    BY <1>1, <1>2, <2>1 DEF Flow, Alternating
  <2>2. CASE Needs(e, s) /\ s \notin Mapped' /\ s \in Mapped
    <3>1. Ends(job, s)
      BY <1>2, <2>2
    <3> QED
      BY <1>1, <2>2, <3>1 DEF Flow, Alternating
  <2> QED
    BY <2>1, <2>2 DEF Table, Expected
<1>5. HeadRename'
  <2> SUFFICES ASSUME job.kind = "renamed", Derived(job.sid)
               PROVE  job.sid \in Mapped' <=> job.peer \notin Mapped'
    BY <1>1 DEF HeadRename
  <2>1. job.sid # job.peer
    BY DEF StreamOK
  <2> QED
    BY <2>1 DEF RowsFollow, Table, HeadRename
<1> QED
  BY <1>3, <1>4, <1>5 DEF Table

----------------------------------------------------------------------------
(* A handler at work.                                                      *)

\* The rows, seen as the sessions they map.
LEMMA MappedRows ==
    ASSUME TypeOK, ResolvesOwnBookmark
    PROVE  /\ Mapped \subseteq DerivedNames
           /\ \A s : HasRowOf(s) <=> s \in Mapped
           /\ \A w \in Workspaces :
                 /\ HasRow(w) <=> NamingSession(w) \in Mapped
                 /\ Conflicts(rows, w, NamingSession(w)) <=> NamingSession(w) \in Mapped
                 /\ InsertRow(w, NamingSession(w))
                      => Mapped' = Mapped \union {NamingSession(w)}
                 /\ DeleteRow(w) => Mapped' = Mapped \ {NamingSession(w)}
           /\ \A v, w \in Workspaces :
                 /\ RenameRow(v, w, NamingSession(w))
                      => Mapped' = (Mapped \ {NamingSession(v)}) \union {NamingSession(w)}
                 /\ NamingSession(v) \in Mapped /\ NamingSession(w) \notin Mapped
                      => CanRename(v, w, NamingSession(w))
<1>1. \A r \in rows : r.ws \in Workspaces /\ r.sid = NamingSession(r.ws)
  BY DEF TypeOK, StoreTypeOK, Rows, ResolvesOwnBookmark
<1>2. Mapped \subseteq DerivedNames
  BY <1>1 DEF Mapped, DerivedNames
<1>3. \A s : HasRowOf(s) <=> s \in Mapped
  BY DEF HasRowOf, Mapped
<1>4. \A w \in Workspaces : \A r \in rows : r.ws = w <=> r.sid = NamingSession(w)
  BY <1>1, NamesAreABijection
<1>5. \A w \in Workspaces :
          /\ HasRow(w) <=> NamingSession(w) \in Mapped
          /\ Conflicts(rows, w, NamingSession(w)) <=> NamingSession(w) \in Mapped
  BY <1>4 DEF HasRow, Conflicts, Mapped
<1>6. ASSUME NEW w \in Workspaces, InsertRow(w, NamingSession(w))
      PROVE  Mapped' = Mapped \union {NamingSession(w)}
  <2> DEFINE row == [ws |-> w, sid |-> NamingSession(w)]
  <2>1. rows' = rows \union {row} /\ row.sid = NamingSession(w)
    BY <1>6 DEF InsertRow
  <2> HIDE DEF row
  <2> QED
    BY <2>1 DEF Mapped
<1>7. ASSUME NEW w \in Workspaces, DeleteRow(w)
      PROVE  Mapped' = Mapped \ {NamingSession(w)}
  BY <1>4, <1>7 DEF DeleteRow, RowsAt, Mapped
<1>8. ASSUME NEW v \in Workspaces, NEW w \in Workspaces, RenameRow(v, w, NamingSession(w))
      PROVE  Mapped' = (Mapped \ {NamingSession(v)}) \union {NamingSession(w)}
  <2> DEFINE row == [ws |-> w, sid |-> NamingSession(w)]
  <2>1. rows' = (rows \ RowsAt(v)) \union {row} /\ row.sid = NamingSession(w)
    BY <1>8 DEF RenameRow
  <2> HIDE DEF row
  <2> QED
    BY <1>4, <2>1 DEF RowsAt, Mapped
<1>9. ASSUME NEW v \in Workspaces, NEW w \in Workspaces,
             NamingSession(v) \in Mapped, NamingSession(w) \notin Mapped
      PROVE  CanRename(v, w, NamingSession(w))
  BY <1>4, <1>5, <1>9 DEF CanRename, Conflicts, Mapped
<1> QED
  BY <1>2, <1>3, <1>5, <1>6, <1>7, <1>8, <1>9

\* What a handler knows of the event it serves while it makes its calls.
LEMMA InService ==
    ASSUME IInv, StreamOK, CallServes, Smooth, WithinRepos, Label \in CallLabels
    PROVE  /\ job \in stream /\ First(job) /\ job.sid # job.peer /\ Derived(job.sid)
           /\ Held \in Calls /\ Fits("events", Held, Label)
           /\ Held.ws \in Workspaces /\ job.sid = NamingSession(Held.ws)
           /\ \/ Held.op = "create" /\ job.kind \in {"created", "renamed"}
              \/ /\ Held.op = "fork" /\ job.kind = "forked"
                 /\ Held.peer \in Workspaces /\ job.peer = NamingSession(Held.peer)
                 /\ Held.peer.repo = Held.ws.repo
              \/ /\ Held.op = "rename" /\ job.kind = "renamed"
                 /\ Held.peer \in Workspaces /\ job.peer = NamingSession(Held.peer)
                 /\ Held.peer.repo = Held.ws.repo
              \/ Held.op = "delete" /\ job.kind = "deleted"
<1>1. /\ Held \in Calls /\ Fits("events", Held, Label) /\ Serves(Held, Label)
      /\ job \in stream /\ Held.op \in {"create", "fork", "rename", "delete"}
  BY BusyCall DEF IInv, TypeOK, Label, Held, Procs, Owns, CallServes, Smooth
<1>2. First(job) /\ job.sid # job.peer /\ InOneRepo(job)
  BY <1>1 DEF StreamOK, CallLabels, WithinRepos
<1>3. Held.ws \in Workspaces /\ job.sid = NamingSession(Held.ws)
  BY <1>1 DEF Calls, CallServes, Serves
<1>4. Derived(job.sid) /\ ParseSession(job.sid) = Held.ws
  BY <1>3, NamesAreABijection DEF Derived
<1>5. Held.op = "fork" \/ Held.op = "rename"
        => Derived(job.peer) /\ ParseSession(job.peer).repo = Held.ws.repo
  BY <1>1, <1>2, <1>4 DEF InOneRepo, CallServes, Serves
<1>6. Held.op = "fork" => Held.peer = ParseSession(job.peer)
  BY <1>5 DEF CallServes, PeerOf
<1>7. Held.op = "rename" => Held.peer \in Workspaces /\ job.peer = NamingSession(Held.peer)
  BY <1>1 DEF Fits, Serves
<1>8. Held.op = "fork" => Held.peer \in Workspaces /\ job.peer = NamingSession(Held.peer)
  BY <1>5, <1>6, NamesAreABijection DEF Derived
<1> QED
  BY <1>1, <1>2, <1>3, <1>4, <1>5, <1>6, <1>7, <1>8, NamesAreABijection
     DEF CallServes, Serves

\* Repositories and bookmarks may come.
LEMMA GrowthKeepsMarked ==
    ASSUME Marked, marks \subseteq marks', repos \subseteq repos', UNCHANGED <<rows, agentVars>>
    PROVE  Marked'
BY DEF Marked, First, agentVars

\* A call that changes no row keeps everything, if it goes on as it should.
LEMMA CallKeepsDrains ==
    ASSUME IInv, StreamOK, CallServes, Drains, WithinRepos, Label \in CallLabels,
           marks \subseteq marks', repos \subseteq repos', UNCHANGED <<rows, agentVars, job>>,
           Achieved', Label' \notin {"idle", "reject"},
           Held'.op \in {"create", "fork", "rename", "delete"},
           Held'.op = "create" /\ job.kind = "renamed" => job.peer \notin Mapped,
           Held'.op = "delete" /\ Label' \in CallLabels
             => Label' \in {"findRow", "seeMark", "dropMark", "unbind"}
    PROVE  Drains'
<1>1. Flow' /\ Table'
  BY DEF Drains, Flow, Alternating, LastWord, Table, Settled, Expected, HeadRename, First,
         Mapped, agentVars
<1>2. Marked'
  BY GrowthKeepsMarked DEF Drains
<1>3. Derived(job.sid) /\ Mapped' = Mapped
  BY InService DEF Drains, Mapped
<1>4. Smooth'
  BY <1>3 DEF Smooth
<1> QED
  BY <1>1, <1>2, <1>4 DEF Drains

\* The calls that change no row.
LEMMA QuietCallsKeepDrains ==
    ASSUME IInv, TidyOK, StreamOK, CallServes, Drains, WithinRepos,
           UNCHANGED <<agentVars, job>>,
           \/ AlreadyMirrored("events") \/ NotMirrored("events")
           \/ ForkNotMirrored("events") \/ FindParent("events") \/ FindFrom("events")
           \/ FindDeleted("events") \/ MakeRepo("events") \/ ChooseAnchor("events")
           \/ (\E listed \in BOOLEAN : LookForMark("events", listed))
           \/ MakeMark("events") \/ MarkRefused("events")
           \/ AlreadyBound("events") \/ ManageRepo("events") \/ RowNotMoved("events")
           \/ (\E listed \in BOOLEAN : LookForDoomed("events", listed))
           \/ DropRefused("events")
    PROVE  Drains'
<1>1. StepTypeOK(Labels) /\ TypeOK /\ ResolvesOwnBookmark
  BY DEF IInv, TypeOK
<1>2. Label \in CallLabels
  BY CallsAreMade DEF Label, Procs, AlreadyBound, ManageRepo, RowNotMoved, DropRefused,
     AlreadyMirrored, NotMirrored, ForkNotMirrored, FindParent, FindFrom, FindDeleted,
     MakeRepo, ChooseAnchor, MakeMark, MarkRefused, CallLabels
<1>3. /\ job \in stream /\ First(job) /\ job.sid # job.peer /\ Derived(job.sid)
      /\ Held \in Calls /\ Fits("events", Held, Label)
      /\ Held.ws \in Workspaces /\ job.sid = NamingSession(Held.ws)
      /\ \/ Held.op = "create" /\ job.kind \in {"created", "renamed"}
         \/ /\ Held.op = "fork" /\ job.kind = "forked"
            /\ Held.peer \in Workspaces /\ job.peer = NamingSession(Held.peer)
            /\ Held.peer.repo = Held.ws.repo
         \/ /\ Held.op = "rename" /\ job.kind = "renamed"
            /\ Held.peer \in Workspaces /\ job.peer = NamingSession(Held.peer)
            /\ Held.peer.repo = Held.ws.repo
         \/ Held.op = "delete" /\ job.kind = "deleted"
  BY <1>2, InService DEF Drains
<1>4. \A l, c : /\ Goto("events", l) => Label' = l /\ Held' = Held
                /\ Enter("events", c, l) => Label' = l /\ Held' = c
  BY <1>1, ConsumerMoves
<1>5. /\ \A s : HasRowOf(s) <=> s \in Mapped
      /\ \A w \in Workspaces :
            /\ HasRow(w) <=> NamingSession(w) \in Mapped
            /\ Conflicts(rows, w, NamingSession(w)) <=> NamingSession(w) \in Mapped
      /\ \A v, w \in Workspaces :
            NamingSession(v) \in Mapped /\ NamingSession(w) \notin Mapped
              => CanRename(v, w, NamingSession(w))
  BY <1>1, MappedRows
<1>6. \A w \in Workspaces : HasRow(w) => w.repo \in repos
  BY DEF Drains, Marked, HasRow
<1>7. /\ Held.op # "parent"
      /\ Held.op = "create" /\ job.kind = "renamed" => job.peer \notin Mapped
      /\ Held.op = "delete" => Label \in {"findRow", "seeMark", "dropMark", "unbind"}
  BY <1>2 DEF Drains, Smooth
<1>8. Return("events") => Label' = "ok" /\ Held' = Held
  BY <1>4, <1>7 DEF Return, Held
<1>9. ASSUME UNCHANGED rows, Label' = "ok", Held' = Held, Served(job) PROVE Achieved'
  BY <1>9 DEF Achieved, Served, Mapped
<1>10. ASSUME marks \subseteq marks', repos \subseteq repos', UNCHANGED rows,
              Achieved', Label' \notin {"idle", "reject"}, Held' = Held,
              Held.op = "delete" => Label' \in {"findRow", "seeMark", "dropMark", "unbind",
                                                "ok", "retry"}
       PROVE  Drains'
  BY <1>2, <1>3, <1>7, <1>10, CallKeepsDrains DEF CallLabels
<1>11. ASSUME UNCHANGED <<repos, marks, rows>>, Label' = "retry", Held' = Held PROVE Drains'
  <2>1. Achieved'
    BY <1>11 DEF Achieved
  <2> QED
    BY <1>10, <1>11, <2>1
<1>12. ASSUME UNCHANGED <<repos, marks, rows>>, Label' = "ok", Held' = Held, Served(job)
       PROVE  Drains'
  BY <1>9, <1>10, <1>12
<1>13. CASE AlreadyMirrored("events")
  <2>1. UNCHANGED <<repos, marks, rows>> /\ Held.op \in {"create", "fork"}
        /\ job.sid \in Mapped /\ Return("events")
    BY <1>3, <1>5, <1>7, <1>13
       DEF AlreadyMirrored, Held, jjVars, storeVars
  <2> QED
    BY <1>3, <1>7, <1>8, <1>12, <2>1 DEF Served
<1>14. CASE NotMirrored("events")
  <2>1. UNCHANGED <<repos, marks, rows>> /\ Label' = "repo" /\ Held' = Held
        /\ Held.op # "delete"
    BY <1>4, <1>14 DEF NotMirrored, Held, jjVars, storeVars
  <2>2. Achieved'
    BY <2>1 DEF Achieved
  <2> QED
    BY <1>10, <2>1, <2>2
<1>15. CASE ForkNotMirrored("events")
  <2>1. UNCHANGED <<repos, marks, rows>> /\ Held.op = "fork"
    BY <1>15 DEF ForkNotMirrored, Held, jjVars, storeVars
  <2>2. Held.peer # None
    BY <1>3, <2>1, NamesAssumption
  <2>3. Goto("events", "parent")
    BY <1>3, <1>15, <2>1, <2>2 DEF ForkNotMirrored, Held
  <2>4. Label' = "parent" /\ Held' = Held
    BY <1>4, <2>3
  <2>5. Achieved'
    BY <2>4 DEF Achieved
  <2> QED
    BY <1>10, <2>1, <2>4, <2>5
<1>16. CASE FindParent("events")
  <2>1. UNCHANGED <<repos, marks, rows>> /\ Label = "parent" /\ Held.op = "fork"
    BY <1>3, <1>16 DEF FindParent, Label, Held, jjVars, storeVars, Fits
  <2>2. job.peer \in Mapped
    <3>1. Needs(job, job.peer) /\ ~ Ends(job, job.peer) /\ job.peer \in DerivedNames
      BY <1>3, <2>1, NamesAreABijection DEF Needs, Ends
    <3>2. \A g \in stream : ~ (g.seq < job.seq)
      BY <1>1, <1>3, StreamFacts DEF First
    <3> QED
      BY <1>3, <3>1, <3>2 DEF Drains, Table, Expected
  <2>3. HasRow(Held.peer)
    BY <1>3, <1>5, <2>1, <2>2
  <2>4. Label' = "look" /\ Held' = ForkAt(Held.ws, Held.peer)
    BY <1>4, <1>16, <2>3 DEF FindParent, Held
  <2>5. Held'.op = "fork" /\ Held'.ws = Held.ws
    BY <2>4 DEF ForkAt, Call
  <2>6. Achieved'
    BY <1>3, <1>6, <2>1, <2>3, <2>4, <2>5 DEF Achieved
  <2> QED
    BY <1>2, <2>1, <2>4, <2>5, <2>6, CallKeepsDrains
<1>17. CASE FindFrom("events")
  <2>1. UNCHANGED <<repos, marks, rows>> /\ Label = "fromRow" /\ Held.op = "rename"
    BY <1>3, <1>17 DEF FindFrom, Label, Held, jjVars, storeVars, Fits
  <2>2. CASE HasRow(Held.peer)
    <3>1. Label' = "look" /\ Held' = [Held EXCEPT !.src = Held.peer.bm]
      BY <1>4, <1>17, <2>2 DEF FindFrom, Held
    <3>2. Held'.op = "rename" /\ Held'.ws = Held.ws
      BY <1>3, <2>1, <3>1 DEF Calls
    <3>3. Achieved'
      BY <1>3, <1>6, <2>1, <2>2, <3>1, <3>2 DEF Achieved
    <3> QED
      BY <1>2, <2>1, <3>1, <3>2, <3>3, CallKeepsDrains
  <2>3. CASE ~ HasRow(Held.peer)
    <3>1. Label' = "findRow" /\ Held' = Call("create", Held.ws, None, None)
      BY <1>4, <1>17, <2>3 DEF FindFrom, Held
    <3>2. Held'.op = "create"
      BY <3>1 DEF Call
    <3>3. job.peer \notin Mapped
      BY <1>3, <1>5, <2>1, <2>3
    <3>4. Achieved'
      BY <3>1 DEF Achieved
    <3> QED
      BY <1>2, <2>1, <3>1, <3>2, <3>3, <3>4, CallKeepsDrains
  <2> QED
    BY <2>2, <2>3
<1>18. CASE FindDeleted("events")
  <2>1. UNCHANGED <<repos, marks, rows>> /\ Held.op = "delete" /\ Held' = Held
        /\ \/ Label' = "seeMark"
           \/ Label' = "ok" /\ job.sid \notin Mapped
    BY <1>3, <1>4, <1>5, <1>18 DEF FindDeleted, Held, jjVars, storeVars
  <2>2. CASE Label' = "seeMark"
    <3>1. Achieved'
      BY <2>1, <2>2 DEF Achieved
    <3> QED
      BY <1>10, <2>1, <2>2, <3>1
  <2>3. CASE Label' = "ok" /\ job.sid \notin Mapped
    BY <1>3, <1>12, <2>1, <2>3 DEF Served
  <2> QED
    BY <2>1, <2>2, <2>3
<1>19. CASE MakeRepo("events")
  <2>1. Label = "repo" /\ EnsureRepo(Held.ws.repo) /\ UNCHANGED rows
    BY <1>19 DEF MakeRepo, Label, Held, storeVars
  <2>2. Label' \in {"look", "anchor"} /\ Held' = Held
    BY <1>4, <1>19 DEF MakeRepo, AfterRepo
  <2>3. Held.ws.repo \in repos' /\ marks \subseteq marks' /\ repos \subseteq repos'
    BY <2>1 DEF EnsureRepo
  <2>4. Achieved'
    BY <2>2, <2>3 DEF Achieved
  <2> QED
    BY <1>7, <1>10, <2>1, <2>2, <2>3, <2>4
<1>20. CASE ChooseAnchor("events")
  <2>1. UNCHANGED <<repos, marks, rows>> /\ Label = "anchor"
    BY <1>20 DEF ChooseAnchor, Label, jjVars, storeVars
  <2>2. Label' = "look" /\ Held' = [Held EXCEPT !.src = AnchorChoice(Held.ws.repo)]
    BY <1>4, <1>20 DEF ChooseAnchor, Held
  <2>3. Held'.op = Held.op /\ Held'.ws = Held.ws
    BY <1>3, <2>2 DEF Calls
  <2>4. Achieved'
    BY <2>1, <2>2, <2>3 DEF Achieved, Drains
  <2> QED
    BY <1>2, <1>3, <1>7, <2>1, <2>2, <2>3, <2>4, CallKeepsDrains
<1>21. CASE \E listed \in BOOLEAN : LookForMark("events", listed)
  <2>1. PICK listed \in BOOLEAN : LookForMark("events", listed)
    BY <1>21
  <2>2. UNCHANGED <<repos, marks, rows>>
    BY <2>1 DEF LookForMark, jjVars, storeVars
  <2>3. Label = "look" /\ Held' = Held /\ Held.ws.repo \in repos
    BY <1>1, <2>1, LookMoves DEF Drains, Achieved
  <2>4. \/ Label' = "create"
        \/ Label' \in {"moveRow", "bind"} /\ Held.ws \in marks
    BY <1>1, <2>1, <2>3, LookMoves DEF AfterMark
  <2>5. Achieved'
    BY <2>2, <2>3, <2>4 DEF Achieved
  <2> QED
    BY <1>7, <1>10, <2>2, <2>3, <2>4, <2>5
<1>22. CASE MakeMark("events")
  <2>1. Label = "create" /\ CreateBookmark(Held.ws, Held.src) /\ UNCHANGED rows
    BY <1>22 DEF MakeMark, Label, Held, storeVars
  <2>2. Label' \in {"moveRow", "bind"} /\ Held' = Held
    BY <1>4, <1>22 DEF MakeMark, AfterMark
  <2>3. Held.ws \in marks' /\ marks \subseteq marks' /\ repos' = repos
    BY <2>1 DEF CreateBookmark
  <2>4. Achieved'
    BY <2>2, <2>3 DEF Achieved
  <2> QED
    BY <1>7, <1>10, <2>1, <2>2, <2>3, <2>4
<1>23. CASE MarkRefused("events") \/ DropRefused("events")
  BY <1>4, <1>11, <1>23 DEF MarkRefused, DropRefused, jjVars, storeVars
<1>24. CASE AlreadyBound("events")
  <2>1. UNCHANGED <<repos, marks, rows>> /\ job.sid \in Mapped /\ Return("events")
        /\ Label = "bind"
    BY <1>3, <1>5, <1>24 DEF AlreadyBound, Label, Held, jjVars, storeVars
  <2>2. Held.op \in {"create", "fork"}
    BY <1>3, <1>7, <2>1 DEF TidyOK, RenameOK
  <2> QED
    BY <1>3, <1>7, <1>8, <1>12, <2>1, <2>2 DEF Served
<1>25. CASE ManageRepo("events")
  <2>1. UNCHANGED <<repos, marks, rows>> /\ Label = "manage" /\ Return("events")
    BY <1>25 DEF ManageRepo, InsertManaged, Label, jjVars
  <2> QED
    BY <1>8, <1>12, <2>1 DEF Drains, Achieved
<1>26. CASE RowNotMoved("events")
  <2>1. Label = "moveRow" /\ Held.op = "rename"
        /\ ~ CanRename(Held.peer, Held.ws, NamingSession(Held.ws))
    BY <1>3, <1>26 DEF RowNotMoved, Label, Held, Fits
  <2>2. job.peer \in Mapped
    BY <1>3, <1>5, <2>1 DEF TidyOK, RenameOK
  <2>3. job.sid \notin Mapped
    BY <1>3, <2>1, <2>2 DEF Drains, Table, HeadRename
  <2> QED
    BY <1>3, <1>5, <2>1, <2>2, <2>3
<1>27. CASE \E listed \in BOOLEAN : LookForDoomed("events", listed)
  <2>1. PICK listed \in BOOLEAN : LookForDoomed("events", listed)
    BY <1>27
  <2>2. UNCHANGED <<repos, marks, rows>>
    BY <2>1 DEF LookForDoomed, jjVars, storeVars
  <2>3. Label = "seeMark" /\ Held' = Held /\ Label' \in {"dropMark", AfterDrop(Held)}
    BY <1>1, <2>1, DoomedMoves
  <2>4. Held.op \in {"rename", "delete"}
    BY <1>3, <2>3 DEF Fits
  <2>5. CASE Held.op = "rename"
    <3>1. Served(job) /\ Label' \in {"dropMark", "ok"}
      BY <2>3, <2>5 DEF Drains, Achieved, AfterDrop
    <3>2. Achieved'
      BY <2>2, <2>3, <3>1 DEF Achieved, Served, Mapped
    <3> QED
      BY <1>10, <2>2, <2>3, <2>5, <3>1, <3>2
  <2>6. CASE Held.op = "delete"
    <3>1. Label' \in {"dropMark", "unbind"}
      BY <2>3, <2>6 DEF AfterDrop
    <3>2. Achieved'
      BY <2>2, <2>3, <2>6, <3>1 DEF Achieved
    <3> QED
      BY <1>10, <2>2, <2>3, <3>1, <3>2
  <2> QED
    BY <2>4, <2>5, <2>6
<1> QED
  BY <1>13, <1>14, <1>15, <1>16, <1>17, <1>18, <1>19, <1>20, <1>21, <1>22, <1>23, <1>24,
     <1>25, <1>26, <1>27, ZenonT(30)

\* The writes that change a row or remove a bookmark.
Writes ==
    \/ Label = "bind" /\ InsertRow(Held.ws, NamingSession(Held.ws)) /\ UNCHANGED <<repos, marks>>
    \/ /\ Label = "moveRow" /\ RenameRow(Held.peer, Held.ws, NamingSession(Held.ws))
       /\ UNCHANGED <<repos, marks>>
    \/ Label = "dropMark" /\ DropBookmark(Doomed(Held)) /\ UNCHANGED rows
    \/ Label = "unbind" /\ DeleteRow(Held.ws) /\ UNCHANGED <<repos, marks>>

\* What each of them does, whatever the handler hears of it.
LEMMA WritesKeepData ==
    ASSUME IInv, TidyOK, StreamOK, CallServes, Drains, WithinRepos,
           UNCHANGED <<agentVars, job>>, Writes
    PROVE  /\ Flow' /\ Table' /\ Marked'
           /\ Label # "dropMark" => Served(job)'
           /\ Label = "dropMark" => Mapped' = Mapped
           /\ Held.op = "create" => job.kind # "renamed"
<1>1. TypeOK /\ ResolvesOwnBookmark
  BY DEF IInv
<1>2. Label \in CallLabels
  BY DEF Writes, CallLabels
<1>3. /\ job \in stream /\ First(job) /\ job.sid # job.peer /\ Derived(job.sid)
      /\ Held \in Calls /\ Fits("events", Held, Label)
      /\ Held.ws \in Workspaces /\ job.sid = NamingSession(Held.ws)
      /\ \/ Held.op = "create" /\ job.kind \in {"created", "renamed"}
         \/ Held.op = "fork" /\ job.kind = "forked"
         \/ /\ Held.op = "rename" /\ job.kind = "renamed"
            /\ Held.peer \in Workspaces /\ job.peer = NamingSession(Held.peer)
         \/ Held.op = "delete" /\ job.kind = "deleted"
  BY <1>2, InService DEF Drains
<1>4. \A r \in rows : r.ws \in Workspaces /\ r.sid = NamingSession(r.ws) /\ r.sid \in Mapped
  BY <1>1 DEF TypeOK, StoreTypeOK, Rows, ResolvesOwnBookmark, Mapped
<1>5. /\ Held.op = "create" /\ job.kind = "renamed" => job.peer \notin Mapped
      /\ Held.op = "delete" => Label \in {"findRow", "seeMark", "dropMark", "unbind"}
  BY <1>2 DEF Drains, Smooth
<1>6. Flow'
  BY DEF Drains, Flow, Alternating, LastWord, agentVars
<1>7. RowsFollow(job) => Table'
  BY <1>1, <1>3, ServiceKeepsTable DEF Drains
<1>8. First(job)' /\ stream' = stream /\ job' = job
  BY <1>3 DEF First, agentVars
<1>9. CASE Label = "bind"
  <2>1. InsertRow(Held.ws, NamingSession(Held.ws)) /\ UNCHANGED <<repos, marks>>
    BY <1>9 DEF Writes
  <2>2. Held.op \in {"create", "fork"}
    BY <1>3, <1>5, <1>9 DEF TidyOK, RenameOK
  <2>3. job.sid \notin Mapped /\ Mapped' = Mapped \union {job.sid}
    BY <1>1, <1>3, <2>1, MappedRows DEF InsertRow
  <2>4. job.kind \in {"created", "forked"}
    BY <1>3, <1>5, <2>2, <2>3 DEF Drains, Table, HeadRename
  <2>5. Table'
    BY <1>7, <2>3, <2>4 DEF RowsFollow
  <2>6. Marked'
    <3> DEFINE row == [ws |-> Held.ws, sid |-> NamingSession(Held.ws)]
    <3>1. rows' = rows \union {row} /\ row.ws = Held.ws
      BY <2>1 DEF InsertRow
    <3>2. Held.ws \in marks /\ Held.ws.repo \in repos
      BY <1>9 DEF Drains, Achieved, TidyOK, MarksInRepos
    <3> HIDE DEF row
    <3> QED
      BY <1>8, <2>1, <3>1, <3>2 DEF Drains, Marked, First
  <2>7. Served(job)'
    BY <1>8, <2>3, <2>4 DEF Served
  <2> QED
    BY <1>6, <1>9, <2>4, <2>5, <2>6, <2>7
<1>10. CASE Label = "moveRow"
  <2>1. RenameRow(Held.peer, Held.ws, NamingSession(Held.ws)) /\ UNCHANGED <<repos, marks>>
    BY <1>10 DEF Writes
  <2>2. Held.op = "rename" /\ job.kind = "renamed"
    BY <1>3, <1>10 DEF Fits
  <2>3. Mapped' = (Mapped \ {job.peer}) \union {job.sid}
    BY <1>1, <1>3, <2>1, <2>2, MappedRows
  <2>4. Table'
    BY <1>7, <2>2, <2>3 DEF RowsFollow
  <2>5. Marked'
    <3> DEFINE row == [ws |-> Held.ws, sid |-> NamingSession(Held.ws)]
    <3>1. rows' \subseteq rows \union {row} /\ row.ws = Held.ws
      BY <2>1 DEF RenameRow
    <3>2. Held.ws \in marks /\ Held.ws.repo \in repos
      BY <1>10 DEF Drains, Achieved, TidyOK, MarksInRepos
    <3> HIDE DEF row
    <3> QED
      BY <1>8, <2>1, <3>1, <3>2 DEF Drains, Marked, First
  <2>6. Served(job)'
    BY <1>3, <1>8, <2>2, <2>3 DEF Served
  <2> QED
    BY <1>6, <1>10, <2>2, <2>4, <2>5, <2>6
<1>11. CASE Label = "dropMark"
  <2>1. marks' = marks \ {Doomed(Held)} /\ UNCHANGED <<repos, rows>>
    BY <1>11 DEF Writes, DropBookmark
  <2>2. Mapped' = Mapped
    BY <2>1 DEF Mapped
  <2>3. Table'
    BY <1>7, <2>2 DEF RowsFollow
  <2>4. Held.op \in {"rename", "delete"}
    BY <1>3, <1>11 DEF Fits
  <2>5. CASE Held.op = "rename"
    <3>1. Served(job) /\ job.kind = "renamed" /\ Doomed(Held) = Held.peer
      BY <1>3, <1>11, <2>5 DEF Drains, Achieved, Doomed
    <3>2. \A r \in rows : r.ws # Doomed(Held)
      BY <1>3, <1>4, <2>5, <3>1 DEF Served
    <3>3. Marked'
      BY <1>8, <2>1, <3>2 DEF Drains, Marked, First
    <3> QED
      BY <1>6, <1>11, <2>2, <2>3, <2>5, <3>3
  <2>6. CASE Held.op = "delete"
    <3>1. Doomed(Held) = Held.ws /\ job.kind = "deleted"
      BY <1>3, <2>6 DEF Doomed
    <3>2. \A r \in rows : r.ws = Doomed(Held) => r.sid = job.sid
      BY <1>3, <1>4, <3>1
    <3>3. Marked'
      <4>1. \A e \in stream : First(e)' <=> First(e)
        BY <1>8 DEF First
      <4> QED
        BY <1>3, <1>8, <2>1, <3>1, <3>2, <4>1 DEF Drains, Marked
    <3> QED
      BY <1>6, <1>11, <2>2, <2>3, <2>6, <3>3
  <2> QED
    BY <2>4, <2>5, <2>6
<1>12. CASE Label = "unbind"
  <2>1. DeleteRow(Held.ws) /\ UNCHANGED <<repos, marks>>
    BY <1>12 DEF Writes
  <2>2. Held.op = "delete" /\ job.kind = "deleted"
    BY <1>3, <1>12 DEF Fits
  <2>3. Mapped' = Mapped \ {job.sid}
    BY <1>1, <1>3, <2>1, MappedRows
  <2>4. Table'
    BY <1>7, <2>2, <2>3 DEF RowsFollow
  <2>5. Marked'
    BY <1>8, <2>1 DEF DeleteRow, Drains, Marked, First
  <2>6. Served(job)'
    BY <1>8, <2>2, <2>3 DEF Served
  <2> QED
    BY <1>6, <1>12, <2>2, <2>4, <2>5, <2>6
<1> QED
  BY <1>9, <1>10, <1>11, <1>12 DEF Writes

\* The calls that make them and go on.
LEMMA WritesKeepDrains ==
    ASSUME IInv, TidyOK, StreamOK, CallServes, Drains, WithinRepos,
           UNCHANGED <<agentVars, job>>,
           BindRow("events") \/ MoveRow("events") \/ DropMark("events") \/ Unbind("events")
    PROVE  Drains'
<1>1. StepTypeOK(Labels)
  BY DEF IInv, TypeOK
<1>2. Label \in {"bind", "moveRow", "dropMark", "unbind"} /\ Held' = Held /\ Writes
      /\ \/ Label = "bind" /\ Label' = "manage"
         \/ Label = "moveRow" /\ Label' = "seeMark"
         \/ Label = "dropMark" /\ Label' = AfterDrop(Held)
         \/ Label = "unbind" /\ Label' = "ok"
  BY <1>1, ConsumerMoves
     DEF BindRow, MoveRow, DropMark, Unbind, Writes, Label, Held, jjVars, storeVars
<1>3. /\ Flow' /\ Table' /\ Marked'
      /\ Label # "dropMark" => Served(job)'
      /\ Label = "dropMark" => Mapped' = Mapped
      /\ Held.op = "create" => job.kind # "renamed"
  BY <1>2, WritesKeepData
<1>4. Label \in CallLabels
  BY <1>2 DEF CallLabels
<1>5. /\ Derived(job.sid) /\ Fits("events", Held, Label)
      /\ Held.op \in {"create", "fork", "rename", "delete"}
  BY <1>4, InService DEF Drains
<1>6. Label = "dropMark" => Held.op \in {"rename", "delete"}
  BY <1>5 DEF Fits
<1>7. Label = "dropMark" /\ Held.op = "rename" => Served(job)'
  BY <1>3 DEF Drains, Achieved, Served
<1>8. Achieved'
  BY <1>2, <1>3, <1>6, <1>7 DEF Achieved, AfterDrop
<1>9. Label \in {"bind", "moveRow"} => Held.op # "delete"
  BY <1>4 DEF Drains, Smooth
<1>10. Smooth'
  BY <1>2, <1>3, <1>5, <1>6, <1>9 DEF Smooth, AfterDrop, CallLabels
<1> QED
  BY <1>3, <1>8, <1>10 DEF Drains

\* A write the handler does not hear of.
LEMMA UnansweredKeepsDrains ==
    ASSUME IInv, TidyOK, StreamOK, CallServes, Drains, WithinRepos, CallUnanswered("events")
    PROVE  Drains'
<1>1. StepTypeOK(Labels)
  BY DEF IInv, TypeOK
<1>2. /\ Label' = "retry" /\ Held' = Held /\ UNCHANGED <<agentVars, job>>
      /\ Label \in CallLabels
  BY <1>1, ConsumerMoves, CallsAreMade DEF CallUnanswered, Unanswered, Label, Procs
<1>3. Achieved'
  BY <1>2 DEF Achieved
<1>4. /\ Derived(job.sid) /\ Held.op \in {"create", "fork", "rename", "delete"}
  BY <1>2, InService DEF Drains
<1>5. CASE Writes
  <2>1. Flow' /\ Table' /\ Marked' /\ (Held.op = "create" => job.kind # "renamed")
    BY <1>2, <1>5, WritesKeepData
  <2>2. Smooth'
    BY <1>2, <1>4, <2>1 DEF Smooth, CallLabels
  <2> QED
    BY <1>3, <2>1, <2>2 DEF Drains
<1>6. CASE UNCHANGED rows /\ marks \subseteq marks' /\ repos \subseteq repos'
  <2>1. Held.op = "create" /\ job.kind = "renamed" => job.peer \notin Mapped
    BY <1>2 DEF Drains, Smooth
  <2> QED
    BY <1>2, <1>3, <1>4, <1>6, <2>1, CallKeepsDrains DEF CallLabels
<1>7. Writes \/ (UNCHANGED rows /\ marks \subseteq marks' /\ repos \subseteq repos')
  <2>1. CASE WritesMark("events") /\ UNCHANGED storeVars
    BY <2>1 DEF WritesMark, Writes, EnsureRepo, CreateBookmark, storeVars, Label, Held
  <2>2. CASE WritesRow("events") /\ UNCHANGED jjVars
    BY <2>2 DEF WritesRow, Writes, InsertManaged, jjVars, Label, Held
  <2> QED
    BY <2>1, <2>2 DEF CallUnanswered, Unanswered
<1> QED
  BY <1>5, <1>6, <1>7

----------------------------------------------------------------------------
(* Every step.                                                             *)

\* The sessions, the stream, the rows and the bookmarks stay as they are.
LEMMA PauseKeepsDrains ==
    ASSUME Drains, UNCHANGED <<agentVars, rows, marks, repos>>, Achieved', Smooth'
    PROVE  Drains'
BY DEF Drains, Flow, Alternating, LastWord, Table, Settled, Expected, HeadRename, First,
       Mapped, Marked, agentVars

LEMMA IdleKeepsDrains ==
    ASSUME Drains, UNCHANGED <<agentVars, rows, marks, repos>>, Label' = "idle", Held' = NoCall
    PROVE  Drains'
<1>1. Achieved' /\ Smooth'
  BY DEF Achieved, Smooth, NoCall
<1> QED
  BY <1>1, PauseKeepsDrains

\* After the handler: the variables, and every failure on the way.
LEMMA TailKeepsDrains ==
    ASSUME Drains, UNCHANGED <<agentVars, rows, marks, repos, job>>,
           Label \notin {"idle", "reject"},
           \/ Label \in {"ok", "project"} /\ Label' \in {"project", "done"}
           \/ Label' = "retry",
           Held' = Held \/ Held'.op = "publish"
    PROVE  Drains'
<1>1. Achieved'
  BY DEF Drains, Achieved, Served, Mapped
<1>2. Smooth'
  BY DEF Drains, Smooth, Mapped, CallLabels
<1> QED
  BY <1>1, <1>2, PauseKeepsDrains

LEMMA EventsKeepDrains ==
    ASSUME ~ Overtaking, IInv, TidyOK, StreamOK, CallServes, Drains, WithinRepos, EventsStep
    PROVE  Drains'
<1>1. /\ StepTypeOK(Labels) /\ TypeOK /\ ResolvesOwnBookmark
      /\ Serves(Held, Label) /\ stream \subseteq Events
  BY DEF IInv, TypeOK, JobOK, Label, Held, AgentTypeOK
<1>2. \A l, c : /\ Goto("events", l) => Label' = l /\ Held' = Held
                /\ Enter("events", c, l) => Label' = l /\ Held' = c
  BY <1>1, ConsumerMoves
<1>3. CASE \E e \in stream : Deliver(e)
  <2>1. PICK e \in stream : Deliver(e)
    BY <1>3
  <2>2. UNCHANGED <<agentVars, rows, marks, repos>> /\ job' = e
        /\ Label' = HandlerOf(e)[1] /\ Held' = HandlerOf(e)[2]
    BY <1>2, <2>1 DEF Deliver, jjVars, storeVars
  <2>3. /\ Label' \in {"findRow", "fromRow", "reject"}
        /\ Label' = "reject" <=> ~ Derived(e.sid)
        /\ Held'.op # "parent"
        /\ Held'.op = "create" => e.kind # "renamed"
        /\ Held'.op = "delete" => Label' = "findRow"
    <3>1. e \in Events /\ InOneRepo(e)
      BY <1>1 DEF WithinRepos
    <3>2. e.kind = "renamed" /\ Derived(e.sid)
            => Derived(e.peer) /\ PeerOf(e).repo = ParseSession(e.sid).repo
      BY <3>1 DEF InOneRepo, PeerOf
    <3> QED
      BY <2>2, <3>1, <3>2, HandlerCases DEF Call, NoCall
  <2>4. Achieved'
    BY <2>3 DEF Achieved
  <2>5. Smooth'
    BY <2>2, <2>3 DEF Smooth
  <2> QED
    BY <2>2, <2>4, <2>5, PauseKeepsDrains
<1>4. CASE Ack
  <2>1. /\ Label \in {"done", "reject"} /\ Label' = "idle" /\ Held' = NoCall
        /\ stream' = stream \ {job} /\ UNCHANGED <<sessions, rows, marks, repos>>
    BY <1>2, <1>4 DEF Ack, Acknowledge, Label, jjVars, storeVars
  <2>2. job \in stream /\ First(job)
    BY <1>1, <2>1 DEF Serves, StreamOK
  <2>3. Derived(job.sid) => Served(job)
    BY <2>1 DEF Drains, Achieved, Smooth
  <2>4. Flow' /\ Table'
    BY <1>1, <2>1, <2>2, <2>3, AckKeepsFlow, AckKeepsTable DEF Drains
  <2>5. Marked'
    <3> SUFFICES ASSUME NEW r \in rows
                 PROVE  r.ws.repo \in repos /\ r.ws \in marks
      BY <2>1 DEF Marked
    <3>1. r.sid \in Mapped /\ r.sid \in DerivedNames
      BY <1>1, NamesAreABijection
         DEF Mapped, TypeOK, StoreTypeOK, Rows, ResolvesOwnBookmark
    <3>2. ASSUME NEW e \in stream, First(e), e.kind = "deleted", e.sid = r.sid PROVE FALSE
      <4>1. e = job
        BY <1>1, <2>2, <3>2, StreamFacts DEF First, StreamOK
      <4> QED
        BY <2>3, <3>1, <3>2, <4>1 DEF Derived, Served
    <3> QED
      BY <3>2 DEF Drains, Marked
  <2>6. Achieved' /\ Smooth'
    BY <2>1 DEF Achieved, Smooth, NoCall
  <2> QED
    BY <2>4, <2>5, <2>6 DEF Drains
<1>5. CASE Nack("retry")
  <2>1. /\ Label = "retry" /\ Label' = "idle" /\ Held' = NoCall /\ Redeliver(job)
        /\ UNCHANGED <<rows, marks, repos>>
    BY <1>2, <1>5 DEF Nack, Label, jjVars, storeVars
  <2>2. UNCHANGED agentVars
    BY <1>1, <2>1, RedeliveryKeepsStream DEF Serves
  <2> QED
    BY <2>1, <2>2, IdleKeepsDrains
<1>6. CASE ResolveVars
  <2>1. UNCHANGED <<agentVars, rows, marks, repos, job>> /\ Label = "ok"
    BY <1>6 DEF ResolveVars, Label, jjVars, storeVars
  <2>2. CASE Goto("events", "done")
    BY <1>2, <2>1, <2>2, TailKeepsDrains
  <2>3. ASSUME NEW r, Enter("events", Call("publish", r.ws, None, None), "project")
        PROVE  Drains'
    BY <1>2, <2>1, <2>3, TailKeepsDrains DEF Call
  <2> QED
    BY <1>6, <2>2, <2>3 DEF ResolveVars
<1>7. CASE PublishSessionVars \/ ClearSessionVars
  <2>1. UNCHANGED <<agentVars, rows, marks, repos, job>> /\ Label \in {"ok", "project"}
        /\ Label' = "done" /\ Held' = Held
    BY <1>2, <1>7 DEF PublishSessionVars, ClearSessionVars, Label, jjVars, storeVars
  <2> QED
    BY <2>1, TailKeepsDrains
<1>8. CASE Progress("events") /\ UNCHANGED <<projected, toolVars, agentVars, job>>
  <2>1. \/ BindRow("events") \/ MoveRow("events") \/ DropMark("events") \/ Unbind("events")
        \/ AlreadyMirrored("events") \/ NotMirrored("events")
        \/ ForkNotMirrored("events") \/ FindParent("events") \/ FindFrom("events")
        \/ FindDeleted("events") \/ MakeRepo("events") \/ ChooseAnchor("events")
        \/ (\E listed \in BOOLEAN : LookForMark("events", listed))
        \/ MakeMark("events") \/ MarkRefused("events")
        \/ AlreadyBound("events") \/ ManageRepo("events") \/ RowNotMoved("events")
        \/ (\E listed \in BOOLEAN : LookForDoomed("events", listed))
        \/ DropRefused("events")
    BY <1>8, ZenonT(30) DEF Progress
  <2> QED
    BY <1>8, <2>1, QuietCallsKeepDrains, WritesKeepDrains
<1> QED
  BY <1>3, <1>4, <1>5, <1>6, <1>7, <1>8 DEF EventsStep

LEMMA FailuresKeepDrains ==
    ASSUME ~ Overtaking, IInv, TidyOK, StreamOK, CallServes, Drains, WithinRepos,
           ConsumerFails \/ Crash
    PROVE  Drains'
<1>1. StepTypeOK(Labels) /\ TypeOK /\ Serves(Held, Label)
  BY DEF IInv, TypeOK, JobOK, Label, Held
<1>2. \A l, c : /\ Goto("events", l) => Label' = l /\ Held' = Held
                /\ Enter("events", c, l) => Label' = l /\ Held' = c
  BY <1>1, ConsumerMoves
<1>3. CASE CallFails("events")
  <2>1. UNCHANGED <<agentVars, rows, marks, repos, job>> /\ Label \in CallLabels
        /\ Label' = "retry" /\ Held' = Held
    BY <1>2, <1>3 DEF CallFails, FailCall, Label, jjVars, storeVars
  <2> QED
    BY <2>1, TailKeepsDrains DEF CallLabels
<1>4. CASE HandlerBlind("events")
  BY <1>4, QuietCallsKeepDrains DEF HandlerBlind
<1>5. CASE AckLost
  <2>1. /\ Label = "done" /\ Label' = "idle" /\ Held' = NoCall /\ Redeliver(job)
        /\ UNCHANGED <<rows, marks, repos>>
    BY <1>2, <1>5 DEF AckLost, Nack, Label, jjVars, storeVars
  <2>2. UNCHANGED agentVars
    BY <1>1, <2>1, RedeliveryKeepsStream DEF Serves
  <2> QED
    BY <2>1, <2>2, IdleKeepsDrains
<1>6. CASE VarsWriteFails
  <2>1. UNCHANGED <<agentVars, rows, marks, repos, job>> /\ Label \in {"ok", "project"}
        /\ Label' = "done" /\ Held' = Held
    BY <1>2, <1>6 DEF VarsWriteFails, VarsFail, Label, jjVars, storeVars
  <2> QED
    BY <2>1, TailKeepsDrains
<1>7. CASE Crash
  <2>1. Label' = "idle" /\ Held' = NoCall /\ UNCHANGED <<rows, marks, repos>>
    BY <1>7 DEF Crash, Label, Held, Procs, jjVars, storeVars
  <2>2. UNCHANGED agentVars
    <3>1. CASE job = None
      BY <1>7, <3>1 DEF Crash
    <3>2. CASE job # None
      <4>1. job \in stream
        BY <1>1, <3>2 DEF StreamOK, Serves
      <4> QED
        BY <1>1, <1>7, <3>2, <4>1, RedeliveryKeepsStream DEF Crash
    <3> QED
      BY <3>1, <3>2
  <2> QED
    BY <2>1, <2>2, IdleKeepsDrains
<1>8. CASE CallUnanswered("events")
  BY <1>8, UnansweredKeepsDrains
<1> QED
  BY <1>3, <1>4, <1>5, <1>6, <1>7, <1>8 DEF ConsumerFails

LEMMA NobodyAdopts ==
    ASSUME Draining, TypeOK, OthersIdle, adoption = None, [Next]_vars PROVE adoption' = None
<1>1. CASE EventsStep
  BY <1>1 DEF EventsStep, Deliver, Ack, Nack, ResolveVars, PublishSessionVars,
              ClearSessionVars, varsVars, cacheVars, toolVars
<1>2. CASE ConsumerFails \/ Crash
  BY <1>2 DEF ConsumerFails, CallFails, CallUnanswered, HandlerBlind, AckLost, Nack, VarsWriteFails,
              VarsFail, Crash, varsVars, toolVars
<1>3. CASE Outside
  BY <1>3 DEF Outside, AgentActs, AgentCreates, AgentForks, AgentRenames, AgentDeletes,
              LoseEvent, JJRemoves, others, varsVars, toolVars
<1>4. CASE ToolSteps
  BY <1>4 DEF ToolSteps, ToolStarts, StartTool, ToolCommits, EndTool, ToolLooksUp, Lookup,
              CacheChanges, FillCache, Expire, toolVars
<1>5. ~ AdoptActs
  BY DEF Draining, AdoptActs, AdoptStep, AdoptCreates, EnsureSession, AdoptEnds, AdoptRow,
         AdoptRefused, Adopting, AdoptFails, FailAdoption
<1>6. CASE UNCHANGED vars
  BY <1>6 DEF vars, varsVars, toolVars
<1> QED
  BY <1>1, <1>2, <1>3, <1>4, <1>5, <1>6, AloneSteps DEF Draining

\* What is left for the agent and the tools to do.
LEMMA DrainingSteps ==
    ASSUME Draining, TypeOK, OthersIdle, adoption = None, Next
    PROVE  EventsStep \/ ConsumerFails \/ Crash \/ AgentActs \/ ToolSteps
<1>1. ~ AdoptActs
  BY DEF Draining, AdoptActs, AdoptStep, AdoptCreates, EnsureSession, AdoptEnds, AdoptRow,
         AdoptRefused, Adopting, AdoptFails, FailAdoption
<1>2. \A e : ~ LoseEvent(e)
  BY DEF Draining, LoseEvent, Trouble, TypeOK, BudgetKinds, Troubles
<1> QED
  BY <1>1, <1>2, AloneSteps DEF Draining, Outside

LEMMA NextKeepsDrains ==
    ASSUME Draining, IInv, OthersIdle, TidyOK, StreamOK, CallServes, Drains, adoption = None,
           WithinRepos, WithinRepos', [Next]_vars
    PROVE  Drains'
<1>1. TypeOK
  BY DEF IInv
<1>2. CASE AgentActs
  <2>1. PICK e : Published(e)
    BY <1>1, <1>2, ActsPublish
  <2>2. e \in stream' /\ InOneRepo(e) /\ stream' = stream \union {e}
    BY <2>1 DEF Published, WithinRepos
  <2>3. Flow' /\ Table'
    BY <1>1, <2>1, <2>2, PublishKeepsFlow, PublishKeepsTable DEF Drains
  <2>4. UNCHANGED <<rows, marks, repos, job>> /\ Label' = Label /\ Held' = Held
    BY <2>1 DEF Published, jjVars, storeVars, stepVars, Label, Held
  <2>5. \A f \in stream : First(f) => First(f)'
    BY <1>1, <2>1, <2>2, StreamFacts DEF Published, First, StreamOK
  <2>6. Marked'
    BY <2>2, <2>4, <2>5 DEF Drains, Marked
  <2>7. Achieved' /\ Smooth'
    BY <2>4 DEF Drains, Achieved, Smooth, Served, Mapped
  <2> QED
    BY <2>3, <2>6, <2>7 DEF Drains
<1>3. ASSUME UNCHANGED <<agentVars, rows, marks, repos, at, call, job>> PROVE Drains'
  <2>1. Achieved' /\ Smooth'
    BY <1>3 DEF Drains, Achieved, Smooth, Served, Mapped, Label, Held
  <2> QED
    BY <1>3, <2>1, PauseKeepsDrains
<1>4. CASE ToolSteps
  BY <1>3, <1>4 DEF ToolSteps, ToolStarts, ToolCommits, Commit, ToolLooksUp, CacheChanges,
                    stepVars, jjVars, storeVars
<1>5. CASE UNCHANGED vars
  BY <1>3, <1>5 DEF vars, stepVars, jjVars, storeVars
<1> QED
  BY <1>1, <1>2, <1>4, <1>5, DrainingSteps, EventsKeepDrains, FailuresKeepDrains DEF Draining

LEMMA DrainInvariance ==
    ASSUME Draining PROVE Spec /\ []WithinRepos => [](Drains /\ adoption = None)
<1>1. Alone /\ ~ Overtaking
  BY DEF Draining
<1>2. Init => Drains /\ adoption = None
  BY DEF Init, Drains, Flow, Alternating, LastWord, Table, Settled, Expected, HeadRename,
         Mapped, Marked, Achieved, Smooth, Label, Held, Procs, NoCall
<1>3. IInv /\ OthersIdle /\ adoption = None /\ [Next]_vars => (adoption = None)'
  BY NobodyAdopts DEF IInv
<1>4. IInv /\ OthersIdle /\ TidyOK /\ StreamOK /\ CallServes /\ Drains /\ adoption = None
        /\ WithinRepos /\ WithinRepos' /\ [Next]_vars => Drains'
  BY NextKeepsDrains
<1>5. Spec => [](IInv /\ OthersIdle) /\ []TidyOK /\ [](StreamOK /\ CallServes)
  BY <1>1, AloneInvariance, TidyInvariance, StreamInvariance
<1> QED
  BY <1>2, <1>3, <1>4, <1>5, PTL DEF Spec

\* Redeliveries converge (events_sub.go:9-10): with the stream drained, sessions,
\* rows and bookmarks agree, without any help from the reconciler, whatever
\* calls failed, whatever acknowledgements were lost, wherever the process died
\* and however often an event was served again.
THEOREM Converges == ASSUME Draining PROVE Spec /\ []WithinRepos => []DrainedMirror
<1>1. IInv /\ Drains => DrainedMirror
  <2> SUFFICES ASSUME IInv, Drains, Quiet PROVE Mirror
    BY DEF DrainedMirror
  <2>1. /\ \A s \in DerivedNames : s \in sessions <=> s \in Mapped
        /\ \A r \in rows : r.ws \in marks
    BY DEF Drains, Table, Settled, Marked, Quiet
  <2>2. TypeOK /\ ResolvesOwnBookmark
    BY DEF IInv
  <2>3. \A r \in rows : r.sid \in Mapped
    BY DEF Mapped
  <2> QED
    BY <2>1, <2>2, <2>3, MappedRows DEF Mirror
<1>2. Alone
  BY DEF Draining
<1> QED
  BY <1>1, <1>2, AloneInvariance, DrainInvariance, PTL

----------------------------------------------------------------------------
(* The session variables.                                                  *)

\* While no call failed, a row whose variables are not in the KV is a row some
\* event is still about, and the handler of the first is not done with it.
VarsFollow ==
    used["faults"] = 0 =>
        /\ \A r \in rows : r \in projected \/ \E e \in stream : Mentions(e, r.sid)
        /\ Label = "done" => \A r \in rows : r.sid = job.sid => r \in projected

\* A handler writes the row of the session it serves only; its event is still
\* to be acknowledged.
RowsOfJob == rows' \subseteq rows \union {[ws |-> Held.ws, sid |-> NamingSession(Held.ws)]}

LEMMA ServingKeepsVars ==
    ASSUME IInv, StreamOK, CallServes, Drains, WithinRepos, VarsFollow, Label \in CallLabels,
           RowsOfJob, UNCHANGED <<stream, projected, used["faults"]>>, Label' # "done"
    PROVE  VarsFollow'
<1>1. /\ job \in stream /\ job.sid = NamingSession(Held.ws)
      /\ job.kind \in {"created", "forked", "renamed", "deleted"}
  BY InService DEF Drains
<1>2. Mentions(job, job.sid)
  BY <1>1 DEF Mentions, Makes, Ends
<1>3. \A r \in rows' : r \in rows \/ r.sid = job.sid
  <2> DEFINE row == [ws |-> Held.ws, sid |-> NamingSession(Held.ws)]
  <2>1. row.sid = job.sid /\ rows' \subseteq rows \union {row}
    BY <1>1 DEF RowsOfJob
  <2> HIDE DEF row
  <2> QED
    BY <2>1
<1> QED
  BY <1>1, <1>2, <1>3 DEF VarsFollow, Mentions, Makes, Ends

LEMMA EventsKeepVars ==
    ASSUME "vars" \in Observed, ~ Overtaking, IInv, TidyOK, StreamOK, CallServes, Drains,
           WithinRepos, VarsFollow, EventsStep
    PROVE  VarsFollow'
<1>1. /\ StepTypeOK(Labels) /\ TypeOK /\ Serves(Held, Label) /\ UNCHANGED used
      /\ \A r \in rows : /\ r = [ws |-> r.ws, sid |-> r.sid] /\ r.ws \in Workspaces
                         /\ r.sid = NamingSession(r.ws) /\ r.sid \in DerivedNames
                         /\ r.sid \in Mapped
  BY NamesAreABijection DEF IInv, TypeOK, JobOK, Label, Held, StoreTypeOK, Rows,
     ResolvesOwnBookmark, Mapped, EventsStep
<1>2. \A l, c : /\ Goto("events", l) => Label' = l /\ Held' = Held
                /\ Enter("events", c, l) => Label' = l /\ Held' = c
  BY <1>1, ConsumerMoves
<1>3. ASSUME UNCHANGED <<stream, rows, projected>>, Label' # "done" PROVE VarsFollow'
  BY <1>1, <1>3 DEF VarsFollow, Mentions, Makes, Ends
<1>4. CASE \E e \in stream : Deliver(e)
  <2>1. PICK e \in stream : Deliver(e)
    BY <1>4
  <2>2. Label' # "done"
    BY <1>2, <2>1 DEF Deliver, HandlerOf
  <2> QED
    BY <1>3, <2>1, <2>2 DEF Deliver, agentVars, storeVars, varsVars
<1>5. CASE Ack
  <2>1. /\ Label \in {"done", "reject"} /\ Label' = "idle"
        /\ stream' = stream \ {job} /\ UNCHANGED <<rows, projected>>
    BY <1>2, <1>5 DEF Ack, Acknowledge, Label, storeVars, varsVars
  <2>2. job \in stream /\ InOneRepo(job)
    BY <1>1, <2>1 DEF Serves, WithinRepos
  <2>3. ASSUME NEW r \in rows, Mentions(job, r.sid) PROVE Label = "done" /\ r.sid = job.sid
    <3>1. Derived(job.sid)
      BY <1>1, <2>2, <2>3 DEF InOneRepo, Mentions, Makes, Ends, Derived
    <3>2. Label = "done" /\ Served(job)
      BY <2>1, <3>1 DEF Drains, Smooth, Achieved
    <3> QED
      BY <1>1, <2>3, <3>2 DEF Served, Mentions, Makes, Ends
  <2> QED
    BY <1>1, <2>1, <2>3 DEF VarsFollow
<1>6. CASE Nack("retry")
  <2>1. /\ Label = "retry" /\ Label' = "idle" /\ Redeliver(job) /\ UNCHANGED <<rows, projected>>
    BY <1>2, <1>6 DEF Nack, Label, storeVars, varsVars
  <2>2. UNCHANGED agentVars
    BY <1>1, <2>1, RedeliveryKeepsStream DEF Serves
  <2> QED
    BY <1>3, <2>1, <2>2 DEF agentVars
<1>7. CASE ResolveVars
  <2>1. UNCHANGED <<stream, rows, projected, job>>
    BY <1>7 DEF ResolveVars, agentVars, storeVars, varsVars
  <2>2. CASE Resolved(job.sid) = {}
    <3>1. \A r \in rows : r.sid # job.sid
      BY <2>2 DEF Resolved, Of
    <3> QED
      BY <1>1, <2>1, <3>1 DEF VarsFollow
  <2>3. CASE Resolved(job.sid) # {}
    <3>1. Label' = "project"
      BY <1>2, <1>7, <2>3 DEF ResolveVars
    <3> QED
      BY <1>3, <2>1, <3>1
  <2> QED
    BY <2>2, <2>3
<1>8. CASE PublishSessionVars
  <2> DEFINE p == [ws |-> Held.ws, sid |-> job.sid]
  <2>1. /\ Label = "project" /\ UNCHANGED <<stream, rows, job>>
        /\ projected' = (projected \ Of(projected, job.sid)) \union {p}
    BY <1>8 DEF PublishSessionVars, SetVars, Label, Held, agentVars, storeVars
  <2>2. Held \in Calls /\ job.sid = NamingSession(Held.ws)
    BY <1>1, <2>1 DEF IInv, CallOK, Fits, Serves, Label, Held, Procs
  <2>3. \A r \in rows : r.sid = job.sid => r = p
    BY <1>1, <2>2, NamesAreABijection DEF Calls
  <2> HIDE DEF p
  <2>4. \A r \in rows : r.sid = job.sid => r \in projected'
    BY <2>1, <2>3
  <2>5. \A r \in rows : r.sid # job.sid /\ r \in projected => r \in projected'
    BY <2>1 DEF Of
  <2> QED
    BY <1>1, <2>1, <2>4, <2>5 DEF VarsFollow
<1>9. CASE ClearSessionVars
  <2>1. /\ Label = "ok" /\ job.kind = "deleted" /\ UNCHANGED <<stream, rows, job>>
        /\ projected' = projected \ Of(projected, job.sid)
    BY <1>9 DEF ClearSessionVars, ClearVars, Label, agentVars, storeVars
  <2>2. \A r \in rows : r.sid # job.sid
    BY <1>1, <2>1 DEF Drains, Achieved, Served
  <2> QED
    BY <1>1, <2>1, <2>2 DEF VarsFollow, Of
<1>10. CASE Progress("events") /\ UNCHANGED <<projected, toolVars, agentVars, job>>
  <2>1. Label \in CallLabels /\ Label' # "done" /\ UNCHANGED <<stream, projected, job>>
    BY <1>1, <1>10, CallsAreMade, ProgressStaysInHandler
       DEF InHandler, CallLabels, Outcomes, Label, Procs, agentVars
  <2>2. RowsOfJob
    <3>1. CASE BindRow("events") \/ MoveRow("events") \/ Unbind("events")
      BY <3>1 DEF BindRow, InsertRow, MoveRow, RenameRow, Unbind, DeleteRow, Held, RowsOfJob
    <3>2. CASE \/ AlreadyMirrored("events") \/ NotMirrored("events")
               \/ ForkNotMirrored("events") \/ FindParent("events") \/ FindFrom("events")
               \/ FindDeleted("events") \/ MakeRepo("events") \/ ChooseAnchor("events")
               \/ LookForMark("events", TRUE) \/ MakeMark("events") \/ MarkRefused("events")
               \/ AlreadyBound("events") \/ ManageRepo("events") \/ RowNotMoved("events")
               \/ LookForDoomed("events", TRUE) \/ DropMark("events")
               \/ DropRefused("events")
      BY <3>2 DEF AlreadyMirrored, NotMirrored, ForkNotMirrored, FindParent, FindFrom,
                  FindDeleted, MakeRepo, ChooseAnchor, LookForMark, MakeMark, MarkRefused,
                  AlreadyBound, ManageRepo, InsertManaged, RowNotMoved, LookForDoomed,
                  DropMark, DropRefused, storeVars, RowsOfJob
    <3> QED
      BY <1>10, <3>1, <3>2, ZenonT(30) DEF Progress
  <2> QED
    BY <1>1, <2>1, <2>2, ServingKeepsVars
<1> QED
  BY <1>4, <1>5, <1>6, <1>7, <1>8, <1>9, <1>10 DEF EventsStep

LEMMA NextKeepsVars ==
    ASSUME Draining, "vars" \in Observed, IInv, OthersIdle, TidyOK, StreamOK, CallServes,
           Drains, adoption = None, WithinRepos, VarsFollow, [Next]_vars
    PROVE  VarsFollow'
<1>1. TypeOK /\ StepTypeOK(Labels) /\ used \in [BudgetKinds -> Nat]
  BY DEF IInv, TypeOK
<1>2. /\ \A kind \in {"commits", "lookups"} : Spend(kind) => used'["faults"] = used["faults"]
      /\ \A kind \in {"blind", "unanswered"} :
             Trouble(kind) => used'["faults"] = used["faults"]
      /\ Trouble("faults") => used'["faults"] # 0
  BY <1>1, Spent DEF BudgetKinds, Troubles
<1>3. ASSUME UNCHANGED <<rows, projected>>, used'["faults"] = used["faults"],
             stream \subseteq stream', Label' # "done" \/ (Label' = Label /\ job' = job)
      PROVE  VarsFollow'
  BY <1>3 DEF VarsFollow
<1>4. CASE ConsumerFails \/ Crash
  <2>1. CASE HandlerBlind("events")
    <3>1. UNCHANGED <<rows, projected, stream>>
      BY <2>1 DEF HandlerBlind, LookForMark, LookForDoomed, storeVars, agentVars
    <3>2. Label' # "done"
      <4>1. CASE LookForMark("events", FALSE)
        BY <1>1, <4>1, LookMoves
      <4>2. CASE LookForDoomed("events", FALSE)
        BY <1>1, <4>2, DoomedMoves DEF AfterDrop
      <4> QED
        BY <2>1, <4>1, <4>2 DEF HandlerBlind
    <3> QED
      BY <1>2, <1>3, <2>1, <3>1, <3>2 DEF HandlerBlind
  <2>2. CASE CallFails("events") \/ AckLost \/ VarsWriteFails \/ Crash
    BY <1>2, <2>2 DEF CallFails, AckLost, VarsWriteFails, Crash, VarsFollow
  <2>3. CASE CallUnanswered("events")
    <3>1. Label \in CallLabels /\ Label' = "retry"
      BY <1>1, <2>3, ConsumerMoves, CallsAreMade DEF CallUnanswered, Unanswered, Label, Procs
    <3>2. UNCHANGED <<stream, projected>> /\ used'["faults"] = used["faults"]
      BY <1>2, <2>3 DEF CallUnanswered, agentVars
    <3>3. RowsOfJob
      <4>1. CASE WritesMark("events") /\ UNCHANGED storeVars
        BY <4>1 DEF storeVars, RowsOfJob
      <4>2. CASE WritesRow("events")
        BY <4>2 DEF WritesRow, InsertRow, InsertManaged, RenameRow, DeleteRow, Held, RowsOfJob
      <4> QED
        BY <2>3, <4>1, <4>2 DEF CallUnanswered, Unanswered
    <3> QED
      BY <3>1, <3>2, <3>3, ServingKeepsVars
  <2> QED
    BY <1>4, <2>1, <2>2, <2>3 DEF ConsumerFails
<1>5. CASE AgentActs
  <2>1. PICK e : Published(e)
    BY <1>1, <1>5, ActsPublish
  <2> QED
    BY <1>3, <2>1 DEF Published, storeVars, stepVars, Label
<1>6. CASE ToolSteps
  <2>1. UNCHANGED <<rows, projected, stream, at, job>> /\ used'["faults"] = used["faults"]
    BY <1>2, <1>6 DEF ToolSteps, ToolStarts, StartTool, ToolCommits, EndTool, ToolLooksUp,
                      Lookup, CacheChanges, FillCache, Expire, stepVars, storeVars, agentVars
  <2> QED
    BY <1>3, <2>1 DEF Label
<1>7. CASE UNCHANGED vars
  BY <1>3, <1>7 DEF vars, storeVars, varsVars, agentVars, stepVars, Label
<1> QED
  BY <1>1, <1>4, <1>5, <1>6, <1>7, DrainingSteps, EventsKeepVars DEF Draining

\* "Project the workspace mapping into the shared var KV" (events_sub.go:37):
\* once the stream is drained, every mapped session has its variables in the
\* KV, as long as no call failed; what was renamed, deleted and made again
\* meanwhile does not matter.
THEOREM VariablesFollow ==
    ASSUME Draining, "vars" \in Observed PROVE Spec /\ []WithinRepos => []VarsPublished
<1>1. VarsFollow => VarsPublished
  BY DEF VarsFollow, VarsPublished, Quiet
<1>2. Init => VarsFollow
  BY DEF Init, VarsFollow
<1>3. IInv /\ OthersIdle /\ TidyOK /\ StreamOK /\ CallServes /\ Drains /\ adoption = None
        /\ WithinRepos /\ VarsFollow /\ [Next]_vars => VarsFollow'
  BY NextKeepsVars
<1>4. Alone /\ ~ Overtaking
  BY DEF Draining
<1>5. Spec => [](IInv /\ OthersIdle) /\ []TidyOK /\ [](StreamOK /\ CallServes)
  BY <1>4, AloneInvariance, TidyInvariance, StreamInvariance
<1> QED
  BY <1>1, <1>2, <1>3, <1>5, DrainInvariance, PTL DEF Spec

----------------------------------------------------------------------------
(* One repository.                                                         *)

\* The agent only names sessions that own workspaces of one repository.
OneRepository ==
    /\ Named \subseteq DerivedNames
    /\ \A s, t \in Named : ParseSession(s).repo = ParseSession(t).repo

AllNamed ==
    \A e \in stream :
        /\ e.sid \in Named
        /\ e.kind \in {"forked", "renamed"} => e.peer \in Named

\* Then nothing ever leaves the repository.
LEMMA StaysWithin ==
    ASSUME Draining, OneRepository PROVE Spec => []WithinRepos
<1>1. AllNamed => WithinRepos
  BY DEF OneRepository, AllNamed, WithinRepos, InOneRepo, Derived
<1>2. Init => AllNamed /\ adoption = None
  BY DEF Init, AllNamed
<1>3. Alone /\ ~ Overtaking
  BY DEF Draining
<1>4. IInv /\ OthersIdle /\ adoption = None /\ [Next]_vars => (adoption = None)'
  BY NobodyAdopts DEF IInv
<1>5. IInv /\ OthersIdle /\ StreamOK /\ adoption = None /\ AllNamed /\ [Next]_vars => AllNamed'
  <2> SUFFICES ASSUME IInv, OthersIdle, StreamOK, adoption = None, AllNamed, [Next]_vars
               PROVE  AllNamed'
    OBVIOUS
  <2>1. CASE stream' \subseteq stream
    BY <2>1 DEF AllNamed
  <2>2. ASSUME NEW e, Published(e) PROVE AllNamed'
    <3>1. stream' = stream \union {e} /\ e.sid \in Named /\ e.peer \in Named \union {None}
      BY <2>2 DEF Published
    <3>2. sessions \subseteq Sids /\ None \notin Sids
      BY NamesAssumption DEF IInv, TypeOK, AgentTypeOK
    <3>3. e.kind \in {"forked", "renamed"} => e.peer \in sessions
      BY <2>2 DEF Published, SessionsFollow
    <3> QED
      BY <3>1, <3>2, <3>3 DEF AllNamed
  <2>3. \A e \in stream : LoseEvent(e) => stream' \subseteq stream
    BY DEF LoseEvent, Lose
  <2>4. Ack => stream' \subseteq stream
    BY DEF Ack, Acknowledge
  <2> QED
    BY <1>3, <2>1, <2>2, <2>3, <2>4, StreamMoves DEF agentVars
<1>6. Spec => [](IInv /\ OthersIdle) /\ [](StreamOK /\ CallServes)
  BY <1>3, AloneInvariance, StreamInvariance
<1> QED
  BY <1>1, <1>2, <1>4, <1>5, <1>6, PTL DEF Spec

\* Redeliveries converge (events_sub.go:9-10), for every number of sessions of
\* one repository.
THEOREM ConvergesInOneRepo == ASSUME Draining, OneRepository PROVE Spec => []DrainedMirror
BY Converges, StaysWithin, PTL

\* Served events leave their variables published (events_sub.go:37), for every
\* number of sessions of one repository.
THEOREM VariablesFollowInOneRepo ==
    ASSUME Draining, OneRepository, "vars" \in Observed PROVE Spec => []VarsPublished
BY VariablesFollow, StaysWithin, PTL
================================================================================
