----------------------------- MODULE AgentStream -----------------------------
(***************************************************************************)
(* The agent's sessions and the durable stream of lifecycle events it      *)
(* publishes after each committed action.  Both are outside this           *)
(* repository; they are modelled from README.md and from what              *)
(* handleLifecycleEvent and agentClient expect of them.                    *)
(***************************************************************************)
EXTENDS SessionNames, Naturals

CONSTANTS
    Named,          \* the names the agent gives sessions
    Overtaking      \* TRUE: later events are delivered while one waits for redelivery

VARIABLES
    sessions,       \* sessions the agent has now
    stream          \* events not yet acknowledged

agentVars == <<sessions, stream>>

EventKinds == {"created", "forked", "renamed", "deleted"}

\* sid is the session the event is about (a rename's new name), peer the
\* parent of a fork or the old name of a rename; seq is the publish order.
Events == [seq : Nat, kind : EventKinds, sid : Sids, peer : Sids \union {None},
           tried : BOOLEAN]

AgentTypeOK ==
    /\ sessions \subseteq Sids
    /\ stream \subseteq Events

ASSUME StreamAssumption == Named \subseteq Sids /\ Overtaking \in BOOLEAN

\* ListSessions: the sessions the agent has at that moment.
ListSessions == sessions

Publish(n, kind, s, peer) ==
    stream' = stream \union {[seq |-> n, kind |-> kind, sid |-> s, peer |-> peer,
                              tried |-> FALSE]}

\* The four committed session actions; n numbers the event.
CreateSession(n, s) ==
    /\ s \notin sessions
    /\ sessions' = sessions \union {s}
    /\ Publish(n, "created", s, None)

ForkSession(n, parent, s) ==
    /\ parent \in sessions /\ s \notin sessions
    /\ sessions' = sessions \union {s}
    /\ Publish(n, "forked", s, parent)

RenameSession(n, from, to) ==
    /\ from \in sessions /\ to \notin sessions
    /\ sessions' = (sessions \ {from}) \union {to}
    /\ Publish(n, "renamed", to, from)

DeleteSession(n, s) ==
    /\ s \in sessions
    /\ sessions' = sessions \ {s}
    /\ Publish(n, "deleted", s, None)

\* An event that never arrives: the publish failed, or it outlived retention.
Lose(e) ==
    /\ stream' = stream \ {e}
    /\ UNCHANGED sessions

\* Delivery follows the publish order; an event waiting for its redelivery is
\* overtaken when Overtaking allows it.
Deliverable(e) ==
    /\ e \in stream
    /\ \A f \in stream : f.seq < e.seq => Overtaking /\ f.tried

\* Acknowledged events leave the stream, refused ones wait for redelivery.
Acknowledge(e) ==
    /\ stream' = stream \ {e}
    /\ UNCHANGED sessions

Redeliver(e) ==
    /\ stream' = (stream \ {e}) \union {[e EXCEPT !.tried = Overtaking]}
    /\ UNCHANGED sessions
==============================================================================
