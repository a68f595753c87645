-------------------------- MODULE InformerLifecycle --------------------------
(* What the doc comments of SharedInformerFactory                            *)
(* (crds/pkg/client/camel/informers/externalversions/factory.go:203-259)     *)
(* promise of each informer, without locks, maps or counters: it is          *)
(* requested, launched at most once, only while the factory is open, stops   *)
(* only when its channel is closed, and a factory on which a Shutdown has    *)
(* returned is one in which nothing runs. SharedInformerFactory implements   *)
(* this (SharedInformerFactory!Lifecycle).                                   *)
CONSTANTS Types, Stops

VARIABLES
    phase,    \* "absent", "requested", "running" or "stopped", per type
    channel,  \* the stop channels an informer was launched with (one or none)
    gate,     \* "open", "closing" or "closed": Shutdown not called / returned
    closed    \* closed stop channels

vars == <<phase, channel, gate, closed>>

Init ==
    /\ phase = [t \in Types |-> "absent"]
    /\ channel = [t \in Types |-> {}]
    /\ gate = "open"
    /\ closed = {}

Move(t, from, to) == phase[t] = from /\ phase' = [phase EXCEPT ![t] = to]

Request(t) == Move(t, "absent", "requested") /\ UNCHANGED <<channel, gate, closed>>

Launch(t, s) ==
    /\ gate = "open"
    /\ Move(t, "requested", "running")
    /\ channel' = [channel EXCEPT ![t] = {s}]
    /\ UNCHANGED <<gate, closed>>

Stop(t) ==
    /\ Move(t, "running", "stopped")
    /\ channel[t] \subseteq closed
    /\ UNCHANGED <<channel, gate, closed>>

Close(s) == closed' = closed \cup {s} /\ UNCHANGED <<phase, channel, gate>>

BeginShutdown ==
    /\ gate = "open"
    /\ gate' = "closing"
    /\ UNCHANGED <<phase, channel, closed>>

EndShutdown ==
    /\ gate = "closing"
    /\ \A t \in Types : phase[t] # "running"
    /\ gate' = "closed"
    /\ UNCHANGED <<phase, channel, closed>>

Next ==
    \/ \E t \in Types : Request(t) \/ Stop(t) \/ \E s \in Stops : Launch(t, s)
    \/ \E s \in Stops : Close(s)
    \/ BeginShutdown
    \/ EndShutdown

Spec == Init /\ [][Next]_vars
===========================================================================
