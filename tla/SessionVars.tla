----------------------------- MODULE SessionVars -----------------------------
(***************************************************************************)
(* Where a session's workspace is known besides the mapping table: the     *)
(* in-memory cache of resolveSession (sessions_http.go), which entries     *)
(* leave after a TTL of seconds, and the session variables in the shared   *)
(* NATS KV (variables.go), a projection written by the lifecycle consumer. *)
(* An entry of either has the shape of a row: a session and its workspace. *)
(***************************************************************************)
EXTENDS MappingStore

CONSTANT
    Observed    \* which of the two an instance keeps track of

VARIABLES
    cached,     \* sessCache
    projected,  \* vars.repo.{org,repo,bookmark} per session
    lookup,     \* the row a tool has read and not yet put into the cache
    tool,       \* the workspace a tool in progress has resolved and works on
    adoption    \* the adoption of a bookmark in progress, see module Adoption

toolVars == <<lookup, tool, adoption>>
cacheVars == <<cached, toolVars>>
varsVars == <<cached, projected, toolVars>>

\* step names the call the adoption makes next.
Adoptions == [step : {"session", "row"}, ws : Workspaces]

VarsTypeOK ==
    /\ cached \subseteq Rows
    /\ projected \subseteq Rows
    /\ lookup \in Rows \union {None}
    /\ tool \in Workspaces \union {None}
    /\ adoption \in Adoptions \union {None}

\* Without "cache", entries expire before anyone reads them again; without
\* "vars", writes to the KV, which the extension never reads, leave no trace.
ASSUME ObservedAssumption == Observed \subseteq {"cache", "vars"}

Of(table, s) == {r \in table : r.sid = s}

\* resolveSession: the cache entry if there is one, else the row.
Resolved(s) == IF Of(cached, s) # {} THEN Of(cached, s) ELSE Of(rows, s)

\* cache.put, cache.evict; both replace whatever was there for the session.
Put(r) ==
    cached' = IF "cache" \in Observed
              THEN (cached \ Of(cached, r.sid)) \union {r} ELSE cached
Evict(s) == cached' = cached \ Of(cached, s)

\* SetSessionVariable, DeleteSessionVariables.
SetVars(r) ==
    projected' = IF "vars" \in Observed
                 THEN (projected \ Of(projected, r.sid)) \union {r} ELSE projected
ClearVars(s) == projected' = projected \ Of(projected, s)

\* A tool's resolveSession on a cache miss, which reads the row and then puts
\* it: other goroutines run in between.
Lookup(r) ==
    /\ lookup = None
    /\ r \in rows /\ Of(cached, r.sid) = {}
    /\ lookup' = r
    /\ UNCHANGED <<cached, projected, tool, adoption>>

FillCache ==
    /\ lookup # None
    /\ Put(lookup)
    /\ lookup' = None
    /\ UNCHANGED <<projected, tool, adoption>>

Expire(r) ==
    /\ r \in cached
    /\ cached' = cached \ {r}
    /\ UNCHANGED <<projected, toolVars>>

\* A tool resolves its session first and works on that workspace from then on.
StartTool(r) ==
    /\ tool = None
    /\ tool' = r.ws
    /\ UNCHANGED <<cached, projected, lookup, adoption>>

EndTool ==
    /\ tool # None
    /\ tool' = None
    /\ UNCHANGED <<cached, projected, lookup, adoption>>
===============================================================================
