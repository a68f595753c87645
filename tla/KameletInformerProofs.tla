------------------------- MODULE KameletInformerProofs -------------------------
(* The shared informer of Kamelets shows what its options select of past     *)
(* states of the server, each Kamelet in their order, for any namespaces,    *)
(* names, accessors, stop channels and bounds.  Catching up is liveness and  *)
(* left to the model checker.                                                *)
EXTENDS KameletInformer, TLAPS

-----------------------------------------------------------------------------
\* What is still to be stored is newer than what is stored, in order, and not
\* ahead of what the reflector has read.
Sorted ==
    \A k \in Kamelets :
        /\ cache[k].version <= at
        /\ \A i \in DOMAIN pending[k] :
            /\ cache[k].version <= pending[k][i].version
            /\ pending[k][i].version <= at
            /\ \A j \in i .. Len(pending[k]) :
                   pending[k][i].version <= pending[k][j].version

\* The options are the factory's while nobody else has asked.
FirstAsker == "other" \notin askers => scope \subseteq {FactoryScope}

IInv == TypeOK /\ CacheIsGenuine /\ Sorted /\ FirstAsker

-----------------------------------------------------------------------------
\* What options let through is the content itself or nothing.
LEMMA SelectedContent ==
    ASSUME NEW s, NEW k, NEW c \in Content
    PROVE  /\ Selected(s, k, c) \in Content
           /\ FakeWatch(s, k, c) \in Content
           /\ Watched(s, k, c) \in Content
BY DEF Selected, FakeWatch, Watched, WatchFunc, Content

\* A queue stays a queue of entries when one is put at its end, and so does
\* the order in it, when the entry is as new as the reflector.
LEMMA PushOne ==
    ASSUME NEW q \in Seq(Entry), NEW v \in Nat, NEW c \in Content,
           NEW r, r = Append(q, [version |-> v, content |-> c])
    PROVE  /\ r \in Seq(Entry)
           /\ Len(r) = Len(q) + 1
           /\ \A i \in 1..Len(q) : r[i] = q[i]
           /\ r[Len(q) + 1] = [version |-> v, content |-> c]
BY DEF Entry

\* The same for taking the first one away.
LEMMA PopOne ==
    ASSUME NEW q \in Seq(Entry), q # <<>>
    PROVE  /\ Head(q) \in Entry /\ Head(q) = q[1]
           /\ Tail(q) \in Seq(Entry)
           /\ Len(Tail(q)) = Len(q) - 1
           /\ \A i \in 1..Len(Tail(q)) : Tail(q)[i] = q[i + 1]
OBVIOUS

\* The collections there have been stay as they were when there is a new one.
LEMMA HistoryGrows ==
    ASSUME TypeOK, NEW k \in Kamelets, NEW c \in Content, Write(k, c)
    PROVE  /\ server' \in Seq([Kamelets -> Content]) /\ server' # <<>>
           /\ Len(server') = Len(server) + 1
           /\ \A v \in 1..Len(server) : server'[v] = server[v]
<1> DEFINE new == [server[Len(server)] EXCEPT ![k] = c]
<1>1. server \in Seq([Kamelets -> Content]) /\ server # <<>>
  BY DEF TypeOK
<1>2. server[Len(server)] \in [Kamelets -> Content]
  BY <1>1
<1>3. new \in [Kamelets -> Content]
  BY <1>2
<1>4. server' = Append(server, new)
  BY DEF Write
<1> HIDE DEF new
<1> QED  BY <1>1, <1>3, <1>4

\* The versions the reflector has read up to are the server's.
LEMMA ServerTyped ==
    ASSUME TypeOK, NEW v \in 1..Len(server), NEW k \in Kamelets
    PROVE  server[v][k] \in Content
BY DEF TypeOK

\* What is to be stored of a Kamelet, and what is stored, has a version.
LEMMA Versions ==
    ASSUME TypeOK, NEW k \in Kamelets
    PROVE  /\ pending[k] \in Seq(Entry) /\ cache[k] \in Entry
           /\ cache[k].version \in Nat
           /\ \A i \in 1..Len(pending[k]) : pending[k][i].version \in Nat
<1>1. pending[k] \in Seq(Entry) /\ cache[k] \in Entry
  BY DEF TypeOK
<1>2. \A i \in 1..Len(pending[k]) : pending[k][i] \in Entry
  BY <1>1
<1>3. \A e \in Entry : e.version \in Nat
  BY DEF Entry
<1> QED  BY <1>1, <1>2, <1>3

-----------------------------------------------------------------------------
\* The invariant survives a step that changes neither the server, the
\* informer's options, the queues nor the cache.
LEMMA QuietStep ==
    ASSUME IInv, TypeOK',
           UNCHANGED <<backend, server, scope, pending, cache>>,
           at' >= at, FirstAsker'
    PROVE  IInv'
<1>1. CacheIsGenuine'
  BY DEF IInv, CacheIsGenuine, Genuine, Selected, FakeWatch
<1>2. Sorted'
  <2>1. at \in Int /\ at' \in Int
    BY DEF IInv, TypeOK
  <2>2. SUFFICES ASSUME NEW k \in Kamelets
                 PROVE  /\ cache[k].version <= at'
                        /\ \A i \in DOMAIN pending[k] : pending[k][i].version <= at'
    BY DEF IInv, Sorted
  <2>3. /\ pending[k] \in Seq(Entry)
        /\ cache[k].version \in Nat
        /\ \A i \in 1..Len(pending[k]) : pending[k][i].version \in Nat
    BY Versions DEF IInv
  <2>4. /\ cache[k].version <= at
        /\ \A i \in DOMAIN pending[k] : pending[k][i].version <= at
    BY DEF IInv, Sorted
  <2> QED  BY <2>1, <2>3, <2>4
<1> QED  BY <1>1, <1>2 DEF IInv

\* The invariant survives a step that puts at the end of some queues what is
\* genuine at the version the reflector has then read up to.
LEMMA PushStep ==
    ASSUME IInv, TypeOK', FirstAsker',
           UNCHANGED <<backend, server, scope, cache>>, at' >= at,
           \A k \in Kamelets :
               \/ pending'[k] = pending[k]
               \/ \E c \in Content :
                    /\ pending'[k] = Push(k, at', c)
                    /\ Genuine(k, [version |-> at', content |-> c])
    PROVE  IInv'
<1>1. at \in Nat /\ at' \in Nat
  BY DEF IInv, TypeOK
<1>2. ASSUME NEW k \in Kamelets, NEW e, Genuine(k, e)
      PROVE  Genuine(k, e)'
  BY <1>2 DEF Genuine, Selected, FakeWatch
<1>3. ASSUME NEW k \in Kamelets
      PROVE  /\ Genuine(k, cache[k])'
             /\ \A i \in DOMAIN pending'[k] : Genuine(k, pending[k][i])'
             /\ cache'[k].version <= at'
             /\ \A i \in DOMAIN pending'[k] :
                   /\ cache'[k].version <= pending'[k][i].version
                   /\ pending'[k][i].version <= at'
                   /\ \A j \in i .. Len(pending'[k]) :
                          pending'[k][i].version <= pending'[k][j].version
  <2>1. /\ pending[k] \in Seq(Entry)
        /\ cache[k].version \in Nat
        /\ \A i \in 1..Len(pending[k]) : pending[k][i].version \in Nat
    BY Versions DEF IInv
  <2>2. /\ Genuine(k, cache[k])
        /\ \A i \in 1..Len(pending[k]) : Genuine(k, pending[k][i])
    BY <2>1 DEF IInv, CacheIsGenuine
  <2>3. /\ cache[k].version <= at
        /\ \A i \in 1..Len(pending[k]) :
              /\ cache[k].version <= pending[k][i].version
              /\ pending[k][i].version <= at
              /\ \A j \in i .. Len(pending[k]) :
                     pending[k][i].version <= pending[k][j].version
    BY <2>1 DEF IInv, Sorted
  <2>4. CASE pending'[k] = pending[k]
    BY <1>1, <1>2, <2>1, <2>2, <2>3, <2>4
  <2>5. CASE \E c \in Content :
               /\ pending'[k] = Push(k, at', c)
               /\ Genuine(k, [version |-> at', content |-> c])
    <3>1. PICK c \in Content :
               /\ pending'[k] = Push(k, at', c)
               /\ Genuine(k, [version |-> at', content |-> c])
      BY <2>5
    <3> DEFINE new == [version |-> at', content |-> c]
    <3>2. /\ Len(pending'[k]) = Len(pending[k]) + 1
          /\ DOMAIN pending'[k] = 1..(Len(pending[k]) + 1)
          /\ \A i \in 1..Len(pending[k]) : pending'[k][i] = pending[k][i]
          /\ pending'[k][Len(pending[k]) + 1] = new
      <4>1. pending'[k] = Append(pending[k], new)
        BY <3>1 DEF Push
      <4> QED  BY <1>1, <2>1, <4>1, PushOne
    <3>3. new.version = at'
      OBVIOUS
    <3>4. Genuine(k, new)
      BY <3>1
    <3> HIDE DEF new
    <3>5. \A i \in DOMAIN pending'[k] : Genuine(k, pending'[k][i])
      BY <2>1, <2>2, <3>2, <3>4
    <3>6. \A i \in DOMAIN pending'[k] : Genuine(k, pending[k][i])'
      BY <1>2, <3>5
    <3>7. cache'[k].version <= at'
      BY <1>1, <2>1, <2>3
    <3>8. \A i \in DOMAIN pending'[k] :
             /\ cache'[k].version <= pending'[k][i].version
             /\ pending'[k][i].version <= at'
             /\ \A j \in i .. Len(pending'[k]) :
                    pending'[k][i].version <= pending'[k][j].version
      <4> DEFINE n == Len(pending[k])
      <4>1. n \in Nat
        BY <2>1
      <4>2. ASSUME NEW i \in 1..n
            PROVE  /\ cache'[k].version <= pending'[k][i].version
                   /\ pending'[k][i].version <= at'
                   /\ \A j \in i .. n :
                          pending'[k][i].version <= pending'[k][j].version
        <5>1. /\ cache'[k].version <= pending'[k][i].version
              /\ pending'[k][i].version <= at'
          <6>1. /\ pending'[k][i] = pending[k][i] /\ pending[k][i].version \in Nat
                /\ cache[k].version <= pending[k][i].version
                /\ pending[k][i].version <= at
            BY <2>1, <2>3, <3>2
          <6> QED  BY <1>1, <6>1
        <5>2. ASSUME NEW j \in i .. n
              PROVE  pending'[k][i].version <= pending'[k][j].version
          <6>1. j \in 1..n /\ pending[k][i].version <= pending[k][j].version
            BY <2>3, <4>1
          <6> QED  BY <3>2, <6>1
        <5> QED  BY <5>1, <5>2
      <4>3. /\ cache'[k].version <= pending'[k][n + 1].version
            /\ \A i \in 1..(n + 1) :
                  pending'[k][i].version <= pending'[k][n + 1].version
        <5>1. pending'[k][n + 1].version = at'
          BY <3>2, <3>3
        <5>2. ASSUME NEW i \in 1..(n + 1)
              PROVE  pending'[k][i].version <= at'
          <6>1. CASE i = n + 1
            BY <1>1, <5>1, <6>1
          <6>2. CASE i # n + 1
            <7>1. i \in 1..n
              BY <4>1, <6>2
            <7> QED  BY <4>2, <7>1
          <6> QED  BY <6>1, <6>2
        <5> QED  BY <3>7, <5>1, <5>2
      <4>4. pending'[k][n + 1].version <= at'
        BY <1>1, <3>2, <3>3
      <4> HIDE DEF n
      <4> QED  BY <3>2, <4>1, <4>2, <4>3, <4>4 DEF n
    <3> QED  BY <1>2, <2>2, <3>6, <3>7, <3>8
  <2> QED  BY <2>4, <2>5
<1>4. CacheIsGenuine'
  BY <1>3 DEF CacheIsGenuine
<1>5. Sorted'
  BY <1>3 DEF Sorted
<1> QED  BY <1>4, <1>5 DEF IInv

-----------------------------------------------------------------------------
\* Nothing has been asked for, read or stored at the beginning.
LEMMA Initially == Init => IInv
<1> SUFFICES ASSUME Init PROVE IInv
  OBVIOUS
<1>1. server \in Seq([Kamelets -> Content]) /\ server # <<>>
  BY DEF Init, Content
<1>2. cache \in [Kamelets -> Entry] /\ pending \in [Kamelets -> Seq(Entry)]
  BY DEF Init, Entry, Content
<1>3. phase = [t \in {Type} |-> "absent"]
  BY DEF Init, Lifecycle!Init
<1>4. at = 0 /\ at \in 0..Len(server) /\ relists \in 0..MaxRelists
  BY <1>1, InformerAssumption DEF Init
<1>5. TypeOK
  BY <1>1, <1>2, <1>3, <1>4 DEF Init, TypeOK
<1>6. CacheIsGenuine
  BY DEF Init, CacheIsGenuine, Genuine
<1>7. Sorted
  BY DEF Init, Sorted
<1>8. FirstAsker
  BY DEF Init, FirstAsker
<1> QED  BY <1>5, <1>6, <1>7, <1>8 DEF IInv

\* A write leaves what was read and stored before it as genuine as it was.
LEMMA WriteStep ==
    ASSUME IInv, NEW k \in Kamelets, NEW c \in Content, Write(k, c)
    PROVE  IInv'
<1>1. /\ server' \in Seq([Kamelets -> Content]) /\ server' # <<>>
      /\ Len(server') = Len(server) + 1
      /\ \A v \in 1..Len(server) : server'[v] = server[v]
  BY HistoryGrows DEF IInv
<1>2. UNCHANGED <<backend, lifecycle, scope, askers, reflector>>
  BY DEF Write
<1>3. Len(server) \in Nat
  BY DEF IInv, TypeOK
<1>4. TypeOK'
  BY <1>1, <1>2, <1>3 DEF IInv, TypeOK, lifecycle, reflector
<1>5. CacheIsGenuine'
  <2>1. ASSUME NEW l \in Kamelets, NEW e, Genuine(l, e)
        PROVE  Genuine(l, e)'
    BY <1>1, <1>2, <1>3, <2>1 DEF Genuine, Selected, FakeWatch
  <2> QED  BY <1>2, <2>1 DEF IInv, CacheIsGenuine, reflector
<1>6. Sorted' /\ FirstAsker'
  BY <1>2 DEF IInv, Sorted, FirstAsker, reflector
<1> QED  BY <1>4, <1>5, <1>6 DEF IInv

\* A request for the informer gives it its options when it is the first one,
\* and asks for none of another's otherwise.
LEMMA InformerStep ==
    ASSUME IInv, NEW s \in Scopes, NEW asker \in {"factory", "other"},
           Informer(s, asker), asker = "factory" => s = FactoryScope
    PROVE  IInv'
<1>1. UNCHANGED <<backend, server, reflector>> /\ askers' = askers \cup {asker}
  BY DEF Informer
<1>2. CASE phase[Type] # "absent" /\ UNCHANGED <<lifecycle, scope>>
  <2>1. TypeOK'
    BY <1>1, <1>2 DEF IInv, TypeOK, lifecycle, reflector
  <2>2. FirstAsker'
    BY <1>1, <1>2 DEF IInv, FirstAsker
  <2> QED  BY <1>1, <1>2, <2>1, <2>2, QuietStep DEF reflector, IInv, TypeOK
<1>3. CASE Lifecycle!Request(Type) /\ scope' = {s}
  <2>1. phase[Type] = "absent" /\ phase' = [phase EXCEPT ![Type] = "requested"]
    BY <1>3 DEF Lifecycle!Request, Lifecycle!Move
  <2>2. scope = {}
    BY <2>1 DEF IInv, TypeOK
  <2>3. phase' \in [{Type} -> {"absent", "requested", "running", "stopped"}]
        /\ phase'[Type] = "requested" /\ stage = "off"
    BY <2>1 DEF IInv, TypeOK
  <2>4. TypeOK'
    BY <1>1, <1>3, <2>3 DEF IInv, TypeOK, reflector
  <2>5. FirstAsker'
    BY <1>1, <1>3 DEF FirstAsker
  <2>6. ASSUME NEW k \in Kamelets, NEW e, Genuine(k, e)
        PROVE  Genuine(k, e)'
    BY <1>1, <2>2, <2>6 DEF Genuine
  <2>7. CacheIsGenuine' /\ Sorted'
    BY <1>1, <2>6 DEF IInv, CacheIsGenuine, Sorted, reflector
  <2> QED  BY <2>4, <2>5, <2>7 DEF IInv
<1> QED  BY <1>2, <1>3 DEF Informer, InformerFor

\* Launching and stopping the informer, and what the factory's owner does,
\* leave what was read and stored alone.
LEMMA LifecycleStep ==
    ASSUME IInv, (\E s \in Stops : Run(s)) \/ Stop \/ Owner
    PROVE  IInv'
<1>1. UNCHANGED <<backend, server, scope, askers, at, relists, pending, cache>>
  BY DEF Run, Stop, Owner, reflector
<1>2. FirstAsker'
  BY <1>1 DEF IInv, FirstAsker
<1>3. TypeOK'
  <2>1. CASE \E s \in Stops : Run(s)
    <3>1. /\ phase[Type] = "requested" /\ phase' = [phase EXCEPT ![Type] = "running"]
          /\ stage' = "list"
      BY <2>1 DEF Run, Lifecycle!Launch, Lifecycle!Move
    <3>2. phase' \in [{Type} -> {"absent", "requested", "running", "stopped"}]
          /\ phase'[Type] = "running"
      BY <3>1 DEF IInv, TypeOK
    <3> QED  BY <1>1, <3>1, <3>2 DEF IInv, TypeOK
  <2>2. CASE Stop
    <3>1. /\ phase[Type] = "running" /\ phase' = [phase EXCEPT ![Type] = "stopped"]
          /\ stage' = "off"
      BY <2>2 DEF Stop, Lifecycle!Stop, Lifecycle!Move
    <3>2. phase' \in [{Type} -> {"absent", "requested", "running", "stopped"}]
          /\ phase'[Type] = "stopped"
      BY <3>1 DEF IInv, TypeOK
    <3> QED  BY <1>1, <3>1, <3>2 DEF IInv, TypeOK
  <2>3. CASE Owner
    <3>1. UNCHANGED <<phase, stage>>
      BY <2>3 DEF Owner, reflector, Lifecycle!Close, Lifecycle!BeginShutdown,
                  Lifecycle!EndShutdown
    <3> QED  BY <1>1, <3>1 DEF IInv, TypeOK
  <2> QED  BY <2>1, <2>2, <2>3
<1>4. at' >= at
  BY <1>1 DEF IInv, TypeOK
<1> QED  BY <1>1, <1>2, <1>3, <1>4, QuietStep

\* A watch begins at a version no older than the list's, and a watch that ends
\* keeps the version it has come to.
LEMMA WatchStep ==
    ASSUME IInv, Watch \/ Relist
    PROVE  IInv'
<1>1. /\ UNCHANGED <<backend, server, lifecycle, scope, askers, pending, cache>>
      /\ stage \in {"watch", "watching"} /\ stage' \in {"watching", "list"}
  BY DEF Watch, Relist
<1>2. server \in Seq([Kamelets -> Content]) /\ server # <<>> /\ at \in 0..Len(server)
      /\ at > 0 /\ phase[Type] = "running" /\ relists \in 0..MaxRelists
  BY <1>1 DEF IInv, TypeOK
<1>3. at' \in 0..Len(server) /\ at' >= at
  BY <1>2 DEF Watch, Relist
<1>4. relists' \in 0..MaxRelists
  BY <1>2, InformerAssumption DEF Watch, Relist
<1>5. TypeOK'
  BY <1>1, <1>2, <1>3, <1>4 DEF IInv, TypeOK, lifecycle
<1>6. FirstAsker'
  BY <1>1 DEF IInv, FirstAsker
<1> QED  BY <1>1, <1>3, <1>5, <1>6, QuietStep

\* What the reflector reads, in a list or an event, is genuine at the version
\* it has then come to.
LEMMA ReadStep ==
    ASSUME IInv, List \/ Event
    PROVE  IInv'
<1>1. UNCHANGED <<backend, server, lifecycle, scope, askers, relists, cache>>
  BY DEF List, Event
<1>2. /\ Len(server) \in Nat /\ at \in 0..Len(server)
      /\ pending \in [Kamelets -> Seq(Entry)]
  BY DEF IInv, TypeOK
<1>3. /\ at' \in 1..Len(server) /\ at' >= at
      /\ stage' \in {"watch", "watching"} /\ stage # "off"
  <2>1. CASE List
    <3>1. PICK v \in (IF backend = "fake" THEN Len(server) ELSE 1) .. Len(server) :
             v >= at /\ at' = v
      BY <2>1 DEF List, NotOlder
    <3>2. v \in 1..Len(server)
      <4>1. Len(server) >= 1
        BY DEF IInv, TypeOK
      <4> QED  BY <1>2, <3>1, <4>1
    <3> QED  BY <2>1, <3>1, <3>2 DEF List
  <2>2. CASE Event
    BY <1>2, <2>2 DEF Event
  <2> QED  BY <2>1, <2>2
<1>4. /\ DOMAIN pending' = Kamelets
      /\ pending' = [k \in Kamelets |-> pending'[k]]
  BY DEF List, Event
<1>5. ASSUME NEW k \in Kamelets
      PROVE  \/ pending'[k] = pending[k]
             \/ \E c \in Content :
                  /\ pending'[k] = Push(k, at', c)
                  /\ Genuine(k, [version |-> at', content |-> c])
  <2> DEFINE now == server[at'][k]
  <2>1. now \in Content
    BY <1>3, ServerTyped DEF IInv
  <2>2. CASE List
    <3>1. PICK s \in scope : pending'[k] = Push(k, at', ListFunc(s, k, now))
      BY <2>2 DEF List
    <3>2. Selected(s, k, now) \in Content
      BY <2>1, SelectedContent
    <3>3. Genuine(k, [version |-> at', content |-> Selected(s, k, now)])
      BY <1>3 DEF Genuine
    <3> QED  BY <3>1, <3>2, <3>3 DEF ListFunc
  <2>3. CASE Event
    <3>1. PICK s \in scope :
             \/ pending'[k] = pending[k]
             \/ pending'[k] = Push(k, at', Watched(s, k, now))
      BY <2>3 DEF Event
    <3>2. Watched(s, k, now) \in Content
      BY <2>1, SelectedContent
    <3>3. Genuine(k, [version |-> at', content |-> Watched(s, k, now)])
      BY <1>3 DEF Genuine, Watched, WatchFunc
    <3> QED  BY <3>1, <3>2, <3>3
  <2> QED  BY <2>2, <2>3
<1>6. ASSUME NEW k \in Kamelets
      PROVE  pending'[k] \in Seq(Entry)
  <2>1. pending[k] \in Seq(Entry)
    BY <1>2
  <2>2. CASE \E c \in Content : pending'[k] = Push(k, at', c)
    BY <1>3, <2>1, <2>2, PushOne DEF Push
  <2> QED  BY <1>5, <2>1, <2>2
<1>7. TypeOK'
  BY <1>1, <1>2, <1>3, <1>4, <1>6 DEF IInv, TypeOK, lifecycle
<1>8. FirstAsker'
  BY <1>1 DEF IInv, FirstAsker
<1> QED  BY <1>1, <1>3, <1>5, <1>7, <1>8, PushStep

\* The indexer stores what is genuine, and nothing older than what it holds.
LEMMA StoreStep ==
    ASSUME IInv, NEW k \in Kamelets, Store(k)
    PROVE  /\ IInv'
           /\ \A l \in Kamelets : cache[l].version <= cache'[l].version
<1>1. /\ UNCHANGED <<backend, server, lifecycle, scope, askers, stage, at, relists>>
      /\ pending[k] # <<>>
      /\ cache' = [cache EXCEPT ![k] = Head(pending[k])]
      /\ pending' = [pending EXCEPT ![k] = Tail(@)]
  BY DEF Store
<1>2. /\ pending \in [Kamelets -> Seq(Entry)] /\ cache \in [Kamelets -> Entry]
      /\ at \in Nat
  BY DEF IInv, TypeOK
<1>3. /\ Head(pending[k]) \in Entry /\ Head(pending[k]) = pending[k][1]
      /\ Tail(pending[k]) \in Seq(Entry)
      /\ Len(Tail(pending[k])) = Len(pending[k]) - 1
      /\ \A i \in 1..Len(Tail(pending[k])) : Tail(pending[k])[i] = pending[k][i + 1]
  BY <1>1, <1>2, PopOne
<1>4. Len(pending[k]) \in Nat /\ Len(pending[k]) > 0
  BY <1>1, <1>2
<1>5. TypeOK'
  BY <1>1, <1>2, <1>3 DEF IInv, TypeOK, lifecycle
<1>6. FirstAsker'
  BY <1>1 DEF IInv, FirstAsker
<1>7. ASSUME NEW l \in Kamelets, NEW e, Genuine(l, e)
      PROVE  Genuine(l, e)'
  BY <1>1, <1>7 DEF Genuine, Selected, FakeWatch
<1>8. CacheIsGenuine'
  <2>1. \A l \in Kamelets : Genuine(l, cache'[l])
    BY <1>1, <1>2, <1>3, <1>4 DEF IInv, CacheIsGenuine
  <2>2. ASSUME NEW l \in Kamelets, NEW i \in DOMAIN pending'[l]
        PROVE  Genuine(l, pending'[l][i])
    <3>1. CASE l = k
      <4>1. pending'[k] = Tail(pending[k])
        BY <1>1, <1>2
      <4>2. i \in 1..Len(Tail(pending[k])) /\ i + 1 \in 1..Len(pending[k])
        BY <1>3, <1>4, <2>2, <3>1, <4>1
      <4>3. pending'[l][i] = pending[k][i + 1] /\ i + 1 \in DOMAIN pending[k]
        BY <1>2, <1>3, <3>1, <4>1, <4>2
      <4> QED  BY <3>1, <4>3 DEF IInv, CacheIsGenuine
    <3>2. CASE l # k
      BY <1>1, <1>2, <2>2, <3>2 DEF IInv, CacheIsGenuine
    <3> QED  BY <3>1, <3>2
  <2> QED  BY <1>7, <2>1, <2>2 DEF CacheIsGenuine
<1>9. ASSUME NEW l \in Kamelets
      PROVE  /\ cache[l].version <= cache'[l].version
             /\ cache'[l].version <= at
             /\ \A i \in DOMAIN pending'[l] :
                   /\ cache'[l].version <= pending'[l][i].version
                   /\ pending'[l][i].version <= at
                   /\ \A j \in i .. Len(pending'[l]) :
                          pending'[l][i].version <= pending'[l][j].version
  <2>1. /\ cache[l].version \in Nat /\ cache[l].version <= at
        /\ \A i \in 1..Len(pending[l]) :
              /\ cache[l].version <= pending[l][i].version
              /\ pending[l][i].version <= at
              /\ \A j \in i .. Len(pending[l]) :
                     pending[l][i].version <= pending[l][j].version
    BY Versions DEF IInv, Sorted
  <2>2. CASE l = k
    <3>1. cache'[l] = pending[l][1] /\ pending'[l] = Tail(pending[l])
      BY <1>1, <1>2, <1>3, <2>2
    <3>2. 1 \in 1..Len(pending[l])
      BY <1>4, <2>2
    <3>3. cache[l].version <= cache'[l].version /\ cache'[l].version <= at
      BY <2>1, <3>1, <3>2
    <3>4. ASSUME NEW i \in DOMAIN pending'[l]
          PROVE  /\ cache'[l].version <= pending'[l][i].version
                 /\ pending'[l][i].version <= at
                 /\ \A j \in i .. Len(pending'[l]) :
                        pending'[l][i].version <= pending'[l][j].version
      <4>1. i \in 1..Len(pending'[l]) /\ Len(pending'[l]) = Len(pending[l]) - 1
        BY <1>3, <2>2, <3>1, <3>4
      <4>2. i + 1 \in 1..Len(pending[l]) /\ pending'[l][i] = pending[l][i + 1]
            /\ i + 1 \in 1 .. Len(pending[l])
        BY <1>3, <1>4, <2>2, <3>1, <4>1
      <4>3. cache'[l].version <= pending'[l][i].version
        BY <2>1, <3>1, <3>2, <4>2
      <4>4. ASSUME NEW j \in i .. Len(pending'[l])
            PROVE  pending'[l][i].version <= pending'[l][j].version
        <5>1. j \in 1..Len(Tail(pending[l])) /\ j + 1 \in (i + 1) .. Len(pending[l])
          BY <1>4, <2>2, <3>1, <4>1
        <5>2. pending'[l][j] = pending[l][j + 1]
          BY <1>3, <2>2, <3>1, <5>1
        <5> QED  BY <2>1, <4>2, <5>1, <5>2
      <4> QED  BY <2>1, <4>2, <4>3, <4>4
    <3> QED  BY <3>3, <3>4
  <2>3. CASE l # k
    <3>1. cache'[l] = cache[l] /\ pending'[l] = pending[l] /\ pending[l] \in Seq(Entry)
      BY <1>1, <1>2, <2>3
    <3> QED  BY <2>1, <3>1
  <2> QED  BY <2>2, <2>3
<1>10. Sorted'
  BY <1>1, <1>9 DEF Sorted
<1> QED  BY <1>5, <1>6, <1>8, <1>9, <1>10 DEF IInv

-----------------------------------------------------------------------------
\* Every step preserves the invariant.
LEMMA Inductive == IInv /\ [Next]_vars => IInv'
<1> SUFFICES ASSUME IInv, [Next]_vars PROVE IInv'
  OBVIOUS
<1>1. CASE \E k \in Kamelets, c \in Content : Write(k, c)
  BY <1>1, WriteStep
<1>2. CASE V1Kamelets \/ \E resource \in {"kamelets", "others"} : ForResource(resource)
  BY <1>2, InformerStep, InformerAssumption DEF V1Kamelets, ForResource, Camel
<1>3. CASE NewKamelets
  BY <1>3, InformerStep DEF NewKamelets
<1>4. CASE (\E s \in Stops : Run(s)) \/ Stop \/ Owner
  BY <1>4, LifecycleStep
<1>5. CASE Watch \/ Relist
  BY <1>5, WatchStep
<1>6. CASE List \/ Event
  BY <1>6, ReadStep
<1>7. CASE \E k \in Kamelets : Store(k)
  BY <1>7, StoreStep
<1>8. CASE UNCHANGED vars
  <2>1. UNCHANGED <<backend, server, phase, scope, askers, stage, at, relists,
                    pending, cache>>
    BY <1>8 DEF vars, lifecycle, reflector
  <2>2. TypeOK' /\ FirstAsker' /\ at' >= at
    BY <2>1 DEF IInv, TypeOK, FirstAsker
  <2> QED  BY <2>1, <2>2, QuietStep
<1> QED  BY <1>1, <1>2, <1>3, <1>4, <1>5, <1>6, <1>7, <1>8 DEF Next

\* The invariant holds in every state: whatever the listers show of a Kamelet,
\* or will show next, is what the options selected of a state the server was in.
THEOREM Invariance == Spec => []IInv
<1> QED  BY Initially, Inductive, PTL DEF Spec

\* The history, the stages of the reflector, its queues and what is stored stay
\* of their types; the informer's options exist once it has been asked for.
THEOREM TypeCorrectness == Spec => []TypeOK
<1>1. IInv => TypeOK
  BY DEF IInv
<1> QED  BY <1>1, Invariance, PTL

\* What the listers show, or have still to show, is genuine
\* (informers/externalversions/camel/v1/kamelet.go: ListFunc and WatchFunc
\* take the same options).
THEOREM Genuineness == Spec => []CacheIsGenuine
<1>1. IInv => CacheIsGenuine
  BY DEF IInv
<1> QED  BY <1>1, Invariance, PTL

\* A factory whose own accessors alone were used shows nothing its namespace
\* and options do not select, whoever else asks later or never
\* (factory.go: "subject to the same filters as specified here").
THEOREM Filtering == Spec => []ListersFiltered
<1>1. IInv => ListersFiltered
  <2> SUFFICES ASSUME IInv, "other" \notin askers, NEW k \in Kamelets
               PROVE  /\ cache[k].content # "absent" => InNamespace(FactoryScope, k)
                      /\ backend = "server" =>
                             cache[k].content = Selected(FactoryScope, k, cache[k].content)
    BY DEF ListersFiltered
  <2>1. scope \subseteq {FactoryScope}
    BY DEF IInv, FirstAsker
  <2>2. Genuine(k, cache[k])
    BY DEF IInv, CacheIsGenuine
  <2> QED  BY <2>1, <2>2 DEF Genuine, Selected, FakeWatch
<1> QED  BY <1>1, Invariance, PTL

\* No step shows a Kamelet as it was before it was last shown: not a relist,
\* which starts from an answer no older than what was read, nor an event.
THEOREM Monotone == Spec => NeverBackwards
<1> DEFINE Forward == \A k \in Kamelets : cache[k].version <= cache'[k].version
<1>1. IInv /\ [Next]_vars => [Forward]_vars
  <2> SUFFICES ASSUME IInv, Next PROVE Forward
    OBVIOUS
  <2>1. CASE \E k \in Kamelets : Store(k)
    BY <2>1, StoreStep
  <2>2. CASE cache' = cache
    BY <2>2, Versions DEF IInv
  <2>3. (\E k \in Kamelets : Store(k)) \/ cache' = cache
    BY DEF Next, Write, V1Kamelets, NewKamelets, ForResource, Informer, Run, Stop,
           Owner, List, Watch, Event, Relist, reflector
  <2> QED  BY <2>1, <2>2, <2>3
<1> QED  BY <1>1, Invariance, PTL DEF Spec, NeverBackwards
=============================================================================
