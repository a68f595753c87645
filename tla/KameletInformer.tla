---------------------------- MODULE KameletInformer ----------------------------
(* The shared informer of Kamelets                                           *)
(* (crds/pkg/client/camel/informers/externalversions/{generic.go,camel}) on  *)
(* a factory that keeps InformerLifecycle: who asks for it with which        *)
(* options, what its ListFunc and WatchFunc ask the server, and what its     *)
(* listers (listers/camel/v1) show. client-go's reflector and indexer and    *)
(* the API server are external; the fake clientset's own watch is not.       *)
EXTENDS Integers, Sequences

CONSTANTS
    Namespaces, Names,  \* of the Kamelets on the server
    FactoryScope,       \* the factory's namespace and tweakListOptions
    Scopes,             \* what accessors are made with
    Stops,              \* stop channels of the factory
    MaxWrites,          \* bound: writes to the server
    MaxRelists          \* bound: watches that end in a new list

\* A tweakListOptions function asks for the Kamelets with a label, or is nil.
Scope == [namespace : Namespaces \cup {"all"}, tweak : {"labelled", "nil"}]

ASSUME InformerAssumption ==
    /\ FactoryScope \in Scopes /\ Scopes \subseteq Scope
    /\ "all" \notin Namespaces
    /\ MaxWrites \in Nat /\ MaxRelists \in Nat

VARIABLES
    backend,    \* "server", or "fake" for the fake clientset
    server,     \* the collections the server has had, the current one last
    phase, channel, gate, closed,   \* of InformerLifecycle
    scope,      \* options of the one informer, {} before it is requested
    askers,     \* whether the "factory" or an "other" accessor handed it out
    stage,      \* the reflector: "off", "list", "watch" or "watching"
    at,         \* version of the collection the reflector has read up to
    relists,    \* lists after the first
    pending,    \* what is still to be stored of each Kamelet
    cache       \* what the indexer holds, and of which version

lifecycle == <<phase, channel, gate, closed>>
reflector == <<stage, at, relists, pending, cache>>
vars == <<backend, server, lifecycle, scope, askers, reflector>>

Kamelets == Namespaces \X Names
Content  == {"absent", "plain", "labelled"}
Type     == "Kamelet"

Lifecycle == INSTANCE InformerLifecycle WITH Types <- {Type}

Init ==
    /\ backend \in {"server", "fake"}
    /\ server = <<[k \in Kamelets |-> "absent"]>>
    /\ Lifecycle!Init
    /\ scope = {}
    /\ askers = {}
    /\ stage = "off" /\ at = 0 /\ relists = 0
    /\ pending = [k \in Kamelets |-> <<>>]
    /\ cache = [k \in Kamelets |-> [version |-> 0, content |-> "absent"]]

-----------------------------------------------------------------------------
\* client.CamelV1().Kamelets(namespace): the Kamelets of a namespace, or all.
InNamespace(s, k) == s.namespace \in {"all", k[1]}

\* Mutant: the options of one of the two functions are not tweaked.
Untweaked(s, k, c) == IF InNamespace(s, k) THEN c ELSE "absent"

\* What a list or a watch with tweaked options says of a Kamelet.
Selected(s, k, c) ==
    IF InNamespace(s, k) /\ (s.tweak = "nil" \/ c = "labelled") THEN c ELSE "absent"

ListFunc(s, k, c) == Selected(s, k, c)

\* The fake clientset's watch reactor takes the namespace and no options.
FakeWatch(s, k, c) == IF InNamespace(s, k) THEN c ELSE "absent"

WatchFunc(s, k, c) == Selected(s, k, c)
Watched(s, k, c)   == IF backend = "fake" THEN FakeWatch(s, k, c) ELSE WatchFunc(s, k, c)

\* Somebody creates, updates or deletes a Kamelet.
Write(k, c) ==
    /\ Len(server) <= MaxWrites
    /\ server[Len(server)][k] # c
    /\ server' = Append(server, [server[Len(server)] EXCEPT ![k] = c])
    /\ UNCHANGED <<backend, lifecycle, scope, askers, reflector>>

-----------------------------------------------------------------------------
\* Mutant: an informer for every accessor.
InformerForEach(s) ==
    /\ Lifecycle!Request(Type) \/ (phase[Type] # "absent" /\ UNCHANGED lifecycle)
    /\ scope' = scope \cup {s}
\* An accessor's Informer() or Lister(): the factory knows informers by type
\* alone, so only the first one's defaultInformer is ever made.
InformerFor(s) ==
    \/ /\ Lifecycle!Request(Type)
       /\ scope' = {s}
    \/ /\ phase[Type] # "absent"
       /\ UNCHANGED <<lifecycle, scope>>

Informer(s, asker) ==
    /\ InformerFor(s)
    /\ askers' = askers \cup {asker}
    /\ UNCHANGED <<backend, server, reflector>>

\* Mutant: the group accessor is made without the factory's namespace.
CamelEverywhere == [FactoryScope EXCEPT !.namespace = "all"]
\* factory.Camel().V1().Kamelets() passes the factory's options on ...
Camel == FactoryScope
V1Kamelets == Informer(Camel, "factory")
\* ... camel.New(factory, namespace, tweak) takes any.
NewKamelets == \E s \in Scopes : Informer(s, "other")

\* ForResource knows one resource; it asks for the informer itself.
ForResource(resource) ==
    /\ resource = "kamelets"
    /\ Informer(Camel, "factory")

\* informer.Run(stopCh), from the factory's Start, and its end.
Run(s) ==
    /\ Lifecycle!Launch(Type, s)
    /\ stage' = "list"
    /\ UNCHANGED <<backend, server, scope, askers, at, relists, pending, cache>>

Stop ==
    /\ Lifecycle!Stop(Type)
    /\ stage' = "off"
    /\ UNCHANGED <<backend, server, scope, askers, at, relists, pending, cache>>

Owner ==
    /\ \/ \E s \in Stops : Lifecycle!Close(s)
       \/ Lifecycle!BeginShutdown
       \/ Lifecycle!EndShutdown
    /\ UNCHANGED <<backend, server, scope, askers, reflector>>

-----------------------------------------------------------------------------
Push(k, v, c) == Append(pending[k], [version |-> v, content |-> c])

\* Mutant: the options the reflector passes are not passed on.
AnyVersion(v) == TRUE
\* They ask for nothing older than what the reflector has seen.
NotOlder(v) == v >= at

\* The reflector lists; a server may answer with an older collection.
List ==
    /\ stage = "list"
    /\ stage' = "watch"
    /\ \E s \in scope, v \in (IF backend = "fake" THEN Len(server) ELSE 1) .. Len(server) :
        /\ NotOlder(v)
        /\ at' = v
        /\ pending' = [k \in Kamelets |-> Push(k, v, ListFunc(s, k, server[v][k]))]
    /\ UNCHANGED <<backend, server, lifecycle, scope, askers, relists, cache>>

\* Mutant: the watch begins at the present of a server that has gone on.
WatchFromNow ==
    /\ stage = "watch"
    /\ stage' = "watching"
    /\ at' = Len(server)
    /\ UNCHANGED <<backend, server, lifecycle, scope, askers, relists, pending, cache>>
\* The watch begins where the list ended; the fake's begins now.
Watch ==
    /\ stage = "watch"
    /\ stage' = "watching"
    /\ at' = IF backend = "fake" THEN Len(server) ELSE at
    /\ UNCHANGED <<backend, server, lifecycle, scope, askers, relists, pending, cache>>

\* The watch tells of the next write, if it was or is about a watched Kamelet.
Event ==
    /\ stage = "watching" /\ at < Len(server)
    /\ at' = at + 1
    /\ \E s \in scope :
        pending' = [k \in Kamelets |->
            IF Watched(s, k, server[at + 1][k]) # Watched(s, k, server[at][k])
            THEN Push(k, at + 1, Watched(s, k, server[at + 1][k]))
            ELSE pending[k]]
    /\ UNCHANGED <<backend, server, lifecycle, scope, askers, stage, relists, cache>>

\* The watch ends and its version is too old to go on from.
Relist ==
    /\ stage = "watching" /\ backend = "server" /\ relists < MaxRelists
    /\ stage' = "list"
    /\ relists' = relists + 1
    /\ UNCHANGED <<backend, server, lifecycle, scope, askers, at, pending, cache>>

\* The indexer stores the next of what there is about a Kamelet.
Store(k) ==
    /\ phase[Type] = "running" /\ pending[k] # <<>>
    /\ cache' = [cache EXCEPT ![k] = Head(pending[k])]
    /\ pending' = [pending EXCEPT ![k] = Tail(@)]
    /\ UNCHANGED <<backend, server, lifecycle, scope, askers, stage, at, relists>>

Next ==
    \/ \E k \in Kamelets, c \in Content : Write(k, c)
    \/ V1Kamelets \/ NewKamelets
    \/ \E resource \in {"kamelets", "others"} : ForResource(resource)
    \/ \E s \in Stops : Run(s)
    \/ Stop \/ Owner
    \/ List \/ Watch \/ Event \/ Relist
    \/ \E k \in Kamelets : Store(k)

\* The goroutines of a running informer go on, and the server answers them.
Fairness ==
    /\ WF_vars(List) /\ WF_vars(Watch) /\ WF_vars(Event)
    /\ \A k \in Kamelets : WF_vars(Store(k))

Spec == Init /\ [][Next]_vars /\ Fairness

-----------------------------------------------------------------------------
Entry == [version : Nat, content : Content]

TypeOK ==
    /\ backend \in {"server", "fake"}
    /\ server \in Seq([Kamelets -> Content]) /\ server # <<>>
    /\ phase \in [{Type} -> {"absent", "requested", "running", "stopped"}]
    /\ \/ scope = {} /\ phase[Type] = "absent"
       \/ \E s \in Scopes : scope = {s} /\ phase[Type] # "absent"
    /\ askers \subseteq {"factory", "other"}
    /\ stage \in {"off", "list", "watch", "watching"}
    /\ (stage # "off") => phase[Type] = "running"
    /\ at \in 0..Len(server) /\ (stage \in {"watch", "watching"} => at > 0)
    /\ relists \in 0..MaxRelists
    /\ pending \in [Kamelets -> Seq(Entry)]
    /\ cache \in [Kamelets -> Entry]

\* What the listers show, or have still to show, of a Kamelet is what the
\* server had at that version, as the informer's options let it through: no
\* Kamelet outside the namespace, and none that is filtered out; the fake's
\* watch does not filter (fake/clientset_generated.go:102-110).
Genuine(k, e) ==
    \/ e.version = 0 /\ e.content = "absent"
    \/ /\ e.version \in 1..Len(server)
       /\ \E s \in scope :
            \/ e.content = Selected(s, k, server[e.version][k])
            \/ backend = "fake" /\ e.content = FakeWatch(s, k, server[e.version][k])

CacheIsGenuine ==
    \A k \in Kamelets :
        /\ Genuine(k, cache[k])
        /\ \A i \in DOMAIN pending[k] : Genuine(k, pending[k][i])

\* As long as only the factory's own accessors were used, its listers show
\* nothing outside the factory's namespace and filter ("Listers obtained via
\* this SharedInformerFactory will be subject to the same filters as specified
\* here", factory.go).
ListersFiltered ==
    "other" \notin askers =>
        \A k \in Kamelets :
            LET c == cache[k].content IN
            /\ c # "absent" => InNamespace(FactoryScope, k)
            /\ backend = "server" => c = Selected(FactoryScope, k, c)

\* A Kamelet is never shown as it was before it was last shown, across watches,
\* relists and the end of the informer.
NeverBackwards ==
    [][\A k \in Kamelets : cache[k].version <= cache'[k].version]_vars

\* An informer that is left running ends up showing what is on the server,
\* whatever was written between its list and its watch.
UpToDate ==
    \A s \in scope, k \in Kamelets :
        cache[k].content = Selected(s, k, server[Len(server)][k])
CatchesUp ==
    backend = "server" /\ <>[](phase[Type] = "running") => <>[]UpToDate
=============================================================================
