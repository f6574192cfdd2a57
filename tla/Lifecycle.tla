------------------------------ MODULE Lifecycle ------------------------------
(***************************************************************************)
(* The lifecycle consumer: handleLifecycleEvent (events_sub.go) under the  *)
(* SDK's durable consumer, which delivers one event at a time, drops an    *)
(* event the handler refuses for good and redelivers one it could not      *)
(* serve.  The handler's calls are the steps of EnsureSteps.               *)
(***************************************************************************)
EXTENDS EnsureSteps, AgentStream

VARIABLE
    job         \* the event being served, or None

JobTypeOK == job \in Events \union {None}

Derived(s) == s \in DerivedNames

\* The switch on the event kind with the name checks each handler makes
\* before its first call; a handler that refuses the event is at "reject".
HandlerOf(e) ==
    LET w == ParseSession(e.sid)
        peer == IF Derived(e.peer) THEN ParseSession(e.peer) ELSE None
    IN  CASE e.kind = "created" /\ Derived(e.sid) ->
                <<"findRow", Call("create", w, None, None)>>
          [] e.kind = "forked" /\ Derived(e.sid) ->
                <<"findRow", Call("fork", w, peer, None)>>
          [] e.kind = "renamed" /\ Derived(e.sid) /\ Derived(e.peer)
                /\ w.repo = peer.repo ->
                <<"fromRow", Call("rename", w, peer, None)>>
          [] e.kind = "deleted" /\ Derived(e.sid) ->
                <<"findRow", Call("delete", w, None, None)>>
          [] OTHER -> <<"reject", NoCall>>

Deliver(e) ==
    /\ at["events"] = "idle"
    /\ Deliverable(e)
    /\ job' = e
    /\ Enter("events", HandlerOf(e)[2], HandlerOf(e)[1])
    /\ UNCHANGED <<jjVars, storeVars, varsVars, agentVars>>

\* Mutant: a rename publishes under the name the session had.
ResolveOldVars ==
    /\ at["events"] = "ok" /\ job.kind # "deleted"
    /\ LET s == IF job.kind = "renamed" THEN job.peer ELSE job.sid IN
         IF Resolved(s) = {}
         THEN Goto("events", "done")
         ELSE \E r \in Resolved(s) :
                  Enter("events", Call("publish", r.ws, None, None), "project")
    /\ UNCHANGED <<jjVars, storeVars, varsVars, agentVars, job>>

\* publishSessionVars resolves the session the event is about ...
ResolveVars ==
    /\ at["events"] = "ok" /\ job.kind # "deleted"
    /\ IF Resolved(job.sid) = {}
       THEN Goto("events", "done")
       ELSE \E r \in Resolved(job.sid) :
                Enter("events", Call("publish", r.ws, None, None), "project")
    /\ UNCHANGED <<jjVars, storeVars, varsVars, agentVars, job>>

\* ... caches what it found and writes it to the KV.
PublishSessionVars ==
    /\ at["events"] = "project"
    /\ LET r == [ws |-> call["events"].ws, sid |-> job.sid] IN Put(r) /\ SetVars(r)
    /\ Goto("events", "done")
    /\ UNCHANGED <<jjVars, storeVars, toolVars, agentVars, job>>

ClearSessionVars ==
    /\ at["events"] = "ok" /\ job.kind = "deleted"
    /\ ClearVars(job.sid)
    /\ Goto("events", "done")
    /\ UNCHANGED <<jjVars, storeVars, cacheVars, agentVars, job>>

\* An error on the way to the KV is swallowed.
VarsFail ==
    /\ at["events"] \in {"ok", "project"}
    /\ Goto("events", "done")
    /\ UNCHANGED <<jjVars, storeVars, varsVars, agentVars, job>>

VarsLabels == {"project", "done"}

\* The handler is done with the event: acknowledged, or discarded for good.
Ack ==
    /\ at["events"] \in {"done", "reject"}
    /\ Acknowledge(job)
    /\ job' = None
    /\ Enter("events", NoCall, "idle")
    /\ UNCHANGED <<jjVars, storeVars, varsVars>>

\* A transient error, or a served event whose acknowledgement is lost.
Nack(label) ==
    /\ at["events"] = label
    /\ Redeliver(job)
    /\ job' = None
    /\ Enter("events", NoCall, "idle")
    /\ UNCHANGED <<jjVars, storeVars, varsVars>>
==============================================================================
