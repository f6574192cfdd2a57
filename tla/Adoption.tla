------------------------------- MODULE Adoption -------------------------------
(***************************************************************************)
(* adoptBookmark (sessions_http.go), called by the ops endpoint and by     *)
(* mr-create: a bookmark that exists gets a session and a row.  It writes  *)
(* the table beside the lifecycle consumer and the reconciler, and the     *)
(* session it creates has a lifecycle event of its own.                    *)
(***************************************************************************)
EXTENDS JJLab, SessionVars, AgentStream

Adopting(step) == adoption # None /\ adoption.step = step

AdoptedSession == NamingSession(adoption.ws)

AdoptEnd ==
    /\ adoption' = None
    /\ UNCHANGED <<cached, projected, lookup, tool>>

\* GetRow and GetRepoTree: a bookmark that has its session is answered from the
\* row, and only one that exists is adopted.
FindOrphan(w) ==
    /\ adoption = None
    /\ ~ HasRow(w)
    /\ w.repo \in repos /\ w \in marks
    /\ adoption' = [step |-> "session", ws |-> w]
    /\ UNCHANGED <<jjVars, storeVars, cached, projected, lookup, tool, agentVars>>

\* EnsureSession: a session that exists already (409) is fine.  n numbers the
\* event.
EnsureSession(n) ==
    /\ Adopting("session")
    /\ IF AdoptedSession \in sessions
       THEN UNCHANGED agentVars ELSE CreateSession(n, AdoptedSession)
    /\ adoption' = [adoption EXCEPT !.step = "row"]
    /\ UNCHANGED <<jjVars, storeVars, cached, projected, lookup, tool>>

\* InsertRow, without the InsertManaged that bindRow adds.
AdoptRow ==
    /\ Adopting("row")
    /\ InsertRow(adoption.ws, AdoptedSession)
    /\ AdoptEnd
    /\ UNCHANGED <<jjVars, agentVars>>

\* A unique violation is returned to the caller as a 409.
AdoptRefused ==
    /\ Adopting("row")
    /\ Conflicts(rows, adoption.ws, AdoptedSession)
    /\ AdoptEnd
    /\ UNCHANGED <<jjVars, storeVars, agentVars>>

\* A call fails or the repository cannot be listed: what is done stays done.
FailAdoption ==
    /\ adoption # None
    /\ AdoptEnd
    /\ UNCHANGED <<jjVars, storeVars, agentVars>>
===============================================================================
