------------------------ MODULE SharedInformerFactory ------------------------
(* sharedInformerFactory of                                                  *)
(* crds/pkg/client/camel/informers/externalversions/factory.go: the mutex,   *)
(* the two maps, the wait group and the shuttingDown flag, while goroutines  *)
(* of the program ("clients") call InformerFor, Start, Shutdown and          *)
(* WaitForCacheSync concurrently, in any order and as often as they like.    *)
(* client-go's SharedIndexInformer.Run, HasSynced and cache.WaitForCacheSync *)
(* are external: RunSyncs, RunReturns, NextInformer and PollInformer model   *)
(* what the factory relies on.                                               *)
EXTENDS Integers, Sequences, FiniteSets

CONSTANTS
    Clients,    \* goroutines of the program that share the factory
    Types,      \* reflect.Types an informer may be requested for
    Stops,      \* stop channels
    None        \* an unlocked mutex, the argument of an idle client

ASSUME ConstantsAssumption == /\ None \notin Clients \cup Types \cup Stops
                              /\ IsFiniteSet(Types)

VARIABLES
    lock,             \* holder of f.lock, or None
    informers,        \* f.informers: 0 for an absent key, else the instance
    startedInformers, \* keys mapped to true in f.startedInformers
    wg,               \* counter of f.wg
    shuttingDown,     \* f.shuttingDown
    created,          \* how many instances newFunc has made for a type
    goroutines,       \* goroutines spawned by Start, in spawn order
    synced,           \* types whose informer's HasSynced() is true
    closed,           \* stop channels closed by the program
    pc,               \* where each client stands
    arg,              \* argument of its call: a type or a stop channel
    todo,             \* map keys its loop has not visited yet
    cur,              \* key whose cache its WaitForCacheSync is polling
    res,              \* WaitForCacheSync's result so far
    handed,           \* instance each client last got from InformerFor
    owed,             \* types a client requested before a Start it completed
    terminated        \* has some Shutdown call returned?

factoryVars == <<lock, informers, startedInformers, wg, shuttingDown>>
runVars     == <<goroutines, synced, closed>>
callVars    == <<pc, arg, todo, cur, res>>
ghostVars   == <<handed, owed, terminated>>
vars == <<factoryVars, created, runVars, callVars, ghostVars>>

Waiting  == {"inf_lock", "start_lock", "down_lock", "sync_lock"}
\* The steps between f.lock.Lock() and the matching Unlock().
Critical == {"inf_check", "inf_create", "start_check", "start_loop",
             "down_mark", "sync_snap"}
PCs      == Waiting \cup Critical
              \cup {"idle", "down_wait", "sync_loop", "sync_ret"}
Body     == [p \in Waiting |-> CASE p = "inf_lock"   -> "inf_check"
                                 [] p = "start_lock" -> "start_check"
                                 [] p = "down_lock"  -> "down_mark"
                                 [] p = "sync_lock"  -> "sync_snap"]

NoResult  == [t \in {} |-> FALSE]
Results   == UNION {[S -> BOOLEAN] : S \in SUBSET Types}
Goroutine == [type : Types, stop : Stops, at : {"run", "done", "gone"}]

Registered   == {t \in Types : informers[t] # 0}
Requested(c) == {t \in Types : handed[c][t] # 0}
\* Goroutines inside informer.Run, and those whose wg.Done is still to come.
Running      == {g \in DOMAIN goroutines : goroutines[g].at = "run"}
Alive        == {g \in DOMAIN goroutines : goroutines[g].at # "gone"}

Init ==
    /\ lock = None
    /\ informers = [t \in Types |-> 0]
    /\ startedInformers = {}
    /\ wg = 0
    /\ shuttingDown = FALSE
    /\ created = [t \in Types |-> 0]
    /\ goroutines = <<>>
    /\ synced = {}
    /\ closed = {}
    /\ pc = [c \in Clients |-> "idle"]
    /\ arg = [c \in Clients |-> None]
    /\ todo = [c \in Clients |-> {}]
    /\ cur = [c \in Clients |-> None]
    /\ res = [c \in Clients |-> NoResult]
    /\ handed = [c \in Clients |-> [t \in Types |-> 0]]
    /\ owed = [c \in Clients |-> {}]
    /\ terminated = FALSE

-----------------------------------------------------------------------------
Goto(c, p) == pc' = [pc EXCEPT ![c] = p]

\* A client calls one of the factory's methods.
Call(c, p, a) ==
    /\ pc[c] = "idle"
    /\ Goto(c, p)
    /\ arg' = [arg EXCEPT ![c] = a]
    /\ UNCHANGED <<factoryVars, created, runVars, todo, cur, res, ghostVars>>

\* A call is over: the client is idle again.
Return(c) ==
    /\ Goto(c, "idle")
    /\ arg' = [arg EXCEPT ![c] = None]

CallInformerFor(c, t)      == Call(c, "inf_lock", t)
CallStart(c, s)            == Call(c, "start_lock", s)
CallShutdown(c)            == Call(c, "down_lock", None)
CallWaitForCacheSync(c, s) == Call(c, "sync_lock", s)

\* Mutant: the methods do not take the lock.
AcquireUnlocked(c) ==
    /\ pc[c] \in Waiting
    /\ lock' = c
    /\ Goto(c, Body[pc[c]])
    /\ UNCHANGED <<informers, startedInformers, wg, shuttingDown, created,
                   runVars, arg, todo, cur, res, ghostVars>>

\* f.lock.Lock() in each of the methods.
Acquire(c) ==
    /\ pc[c] \in Waiting
    /\ lock = None
    /\ lock' = c
    /\ Goto(c, Body[pc[c]])
    /\ UNCHANGED <<informers, startedInformers, wg, shuttingDown, created,
                   runVars, arg, todo, cur, res, ghostVars>>

Unlock == lock' = None

-----------------------------------------------------------------------------
\* Mutant: the early return of InformerFor leaves the mutex locked.
InformerExistsLocked(c) ==
    /\ pc[c] = "inf_check"
    /\ informers[arg[c]] # 0
    /\ handed' = [handed EXCEPT ![c][arg[c]] = informers[arg[c]]]
    /\ Return(c)
    /\ UNCHANGED <<factoryVars, created, runVars, todo, cur, res, owed, terminated>>

\* InformerFor: an existing informer is returned ...
InformerExists(c) ==
    /\ pc[c] = "inf_check"
    /\ informers[arg[c]] # 0
    /\ handed' = [handed EXCEPT ![c][arg[c]] = informers[arg[c]]]
    /\ Unlock
    /\ Return(c)
    /\ UNCHANGED <<informers, startedInformers, wg, shuttingDown, created,
                   runVars, todo, cur, res, owed, terminated>>

\* ... and a missing one is made by newFunc, with the lock held.
InformerMissing(c) ==
    /\ pc[c] = "inf_check"
    /\ informers[arg[c]] = 0
    /\ Goto(c, "inf_create")
    /\ UNCHANGED <<factoryVars, created, runVars, arg, todo, cur, res, ghostVars>>

CreateInformer(c) ==
    /\ pc[c] = "inf_create"
    /\ created' = [created EXCEPT ![arg[c]] = @ + 1]
    /\ informers' = [informers EXCEPT ![arg[c]] = created'[arg[c]]]
    /\ handed' = [handed EXCEPT ![c][arg[c]] = created'[arg[c]]]
    /\ Unlock
    /\ Return(c)
    /\ UNCHANGED <<startedInformers, wg, shuttingDown, runVars, todo, cur, res,
                   owed, terminated>>

-----------------------------------------------------------------------------
\* Start: nothing happens once the factory is shutting down.
StartRefused(c) ==
    /\ pc[c] = "start_check"
    /\ shuttingDown
    /\ Unlock
    /\ Return(c)
    /\ UNCHANGED <<informers, startedInformers, wg, shuttingDown, created,
                   runVars, todo, cur, res, ghostVars>>

\* Mutant: Start does not look at shuttingDown.
StartProceedsAlways(c) ==
    /\ pc[c] = "start_check"
    /\ todo' = [todo EXCEPT ![c] = Registered]
    /\ Goto(c, "start_loop")
    /\ UNCHANGED <<factoryVars, created, runVars, arg, cur, res, ghostVars>>

StartProceeds(c) ==
    /\ pc[c] = "start_check"
    /\ ~shuttingDown
    /\ todo' = [todo EXCEPT ![c] = Registered]
    /\ Goto(c, "start_loop")
    /\ UNCHANGED <<factoryVars, created, runVars, arg, cur, res, ghostVars>>

\* "go func() { defer f.wg.Done(); informer.Run(stopCh) }()"
Spawn(c, t) == goroutines' = Append(goroutines,
                                    [type |-> t, stop |-> arg[c], at |-> "run"])

\* Mutant: wg.Add(1) in front of the check.
StartEachCounted(c, t) ==
    /\ pc[c] = "start_loop"
    /\ t \in todo[c]
    /\ todo' = [todo EXCEPT ![c] = @ \ {t}]
    /\ wg' = wg + 1
    /\ IF t \in startedInformers
       THEN UNCHANGED <<goroutines, startedInformers>>
       ELSE Spawn(c, t) /\ startedInformers' = startedInformers \cup {t}
    /\ UNCHANGED <<lock, informers, shuttingDown, created, synced, closed, pc,
                   arg, cur, res, ghostVars>>

\* Mutant: an informer that has stopped is started again.
StartEachRestarting(c, t) ==
    /\ pc[c] = "start_loop"
    /\ t \in todo[c]
    /\ todo' = [todo EXCEPT ![c] = @ \ {t}]
    /\ IF \E g \in Running : goroutines[g].type = t
       THEN UNCHANGED <<wg, goroutines, startedInformers>>
       ELSE /\ wg' = wg + 1
            /\ Len(goroutines) < 2 * Cardinality(Types)
            /\ Spawn(c, t)
            /\ startedInformers' = startedInformers \cup {t}
    /\ UNCHANGED <<lock, informers, shuttingDown, created, synced, closed, pc,
                   arg, cur, res, ghostVars>>

\* One iteration of "for informerType, informer := range f.informers", in the
\* order the map yields its keys.
StartEach(c, t) ==
    /\ pc[c] = "start_loop"
    /\ t \in todo[c]
    /\ todo' = [todo EXCEPT ![c] = @ \ {t}]
    /\ IF t \in startedInformers
       THEN UNCHANGED <<wg, goroutines, startedInformers>>
       ELSE /\ wg' = wg + 1
            /\ Spawn(c, t)
            /\ startedInformers' = startedInformers \cup {t}
    /\ UNCHANGED <<lock, informers, shuttingDown, created, synced, closed, pc,
                   arg, cur, res, ghostVars>>

StartReturns(c) ==
    /\ pc[c] = "start_loop"
    /\ todo[c] = {}
    /\ owed' = [owed EXCEPT ![c] = Requested(c)]
    /\ Unlock
    /\ Return(c)
    /\ UNCHANGED <<informers, startedInformers, wg, shuttingDown, created,
                   runVars, todo, cur, res, handed, terminated>>

-----------------------------------------------------------------------------
\* Mutant: the flag is not set.
MarkNothing(c) ==
    /\ pc[c] = "down_mark"
    /\ Unlock
    /\ Goto(c, "down_wait")
    /\ UNCHANGED <<informers, startedInformers, wg, shuttingDown, created,
                   runVars, arg, todo, cur, res, ghostVars>>

\* Mutant: Shutdown waits with the mutex locked.
MarkHoldingLock(c) ==
    /\ pc[c] = "down_mark"
    /\ shuttingDown' = TRUE
    /\ Goto(c, "down_wait")
    /\ UNCHANGED <<lock, informers, startedInformers, wg, created, runVars, arg,
                   todo, cur, res, ghostVars>>

\* Shutdown sets the flag under the lock and waits without it.
MarkShuttingDown(c) ==
    /\ pc[c] = "down_mark"
    /\ shuttingDown' = TRUE
    /\ Unlock
    /\ Goto(c, "down_wait")
    /\ UNCHANGED <<informers, startedInformers, wg, created, runVars, arg,
                   todo, cur, res, ghostVars>>

\* f.wg.Wait() returns when the counter is zero.
ShutdownReturns(c) ==
    /\ pc[c] = "down_wait"
    /\ wg = 0
    /\ terminated' = TRUE
    /\ Return(c)
    /\ UNCHANGED <<factoryVars, created, runVars, todo, cur, res, handed, owed>>

-----------------------------------------------------------------------------
\* Mutant: WaitForCacheSync waits with the mutex locked.
SnapshotHoldingLock(c) ==
    /\ pc[c] = "sync_snap"
    /\ todo' = [todo EXCEPT ![c] = Registered \cap startedInformers]
    /\ Goto(c, "sync_loop")
    /\ UNCHANGED <<factoryVars, created, runVars, arg, cur, res, ghostVars>>

\* WaitForCacheSync copies the started informers under the lock ...
SnapshotStarted(c) ==
    /\ pc[c] = "sync_snap"
    /\ todo' = [todo EXCEPT ![c] = Registered \cap startedInformers]
    /\ Unlock
    /\ Goto(c, "sync_loop")
    /\ UNCHANGED <<informers, startedInformers, wg, shuttingDown, created,
                   runVars, arg, cur, res, ghostVars>>

\* Mutant: the result of cache.WaitForCacheSync is not looked at.
ReportTrue(c, t, ok) ==
    /\ todo' = [todo EXCEPT ![c] = @ \ {t}]
    /\ cur' = [cur EXCEPT ![c] = None]
    /\ res' = [res EXCEPT ![c] = [u \in DOMAIN @ \cup {t} |->
                                     IF u = t THEN TRUE ELSE @[u]]]

\* ... and waits for them one after the other: cache.WaitForCacheSync polls
\* HasSynced once before it looks at the channel, ...
Report(c, t, ok) ==
    /\ todo' = [todo EXCEPT ![c] = @ \ {t}]
    /\ cur' = [cur EXCEPT ![c] = None]
    /\ res' = [res EXCEPT ![c] = [u \in DOMAIN @ \cup {t} |->
                                     IF u = t THEN ok ELSE @[u]]]

NextInformer(c, t) ==
    /\ pc[c] = "sync_loop"
    /\ cur[c] = None
    /\ t \in todo[c]
    /\ IF t \in synced
       THEN Report(c, t, TRUE)
       ELSE cur' = [cur EXCEPT ![c] = t] /\ UNCHANGED <<todo, res>>
    /\ UNCHANGED <<factoryVars, created, runVars, pc, arg, ghostVars>>

\* ... then until the cache has synced or the channel is closed; when both
\* hold, a later poll may notice either first.
PollInformer(c, ok) ==
    /\ pc[c] = "sync_loop"
    /\ cur[c] # None
    /\ IF ok THEN cur[c] \in synced ELSE arg[c] \in closed
    /\ Report(c, cur[c], ok)
    /\ UNCHANGED <<factoryVars, created, runVars, pc, arg, ghostVars>>

\* The result is complete ("sync_ret" is where a caller looks at it).
SyncCompletes(c) ==
    /\ pc[c] = "sync_loop"
    /\ cur[c] = None
    /\ todo[c] = {}
    /\ Goto(c, "sync_ret")
    /\ UNCHANGED <<factoryVars, created, runVars, arg, todo, cur, res, ghostVars>>

SyncReturns(c) ==
    /\ pc[c] = "sync_ret"
    /\ res' = [res EXCEPT ![c] = NoResult]
    /\ Return(c)
    /\ UNCHANGED <<factoryVars, created, runVars, todo, cur, ghostVars>>

-----------------------------------------------------------------------------
\* client-go: the reflector of a running informer completes its first list.
RunSyncs(g) ==
    /\ goroutines[g].at = "run"
    /\ goroutines[g].type \notin synced
    /\ synced' = synced \cup {goroutines[g].type}
    /\ UNCHANGED <<factoryVars, created, goroutines, closed, callVars, ghostVars>>

\* client-go: Run returns once its stop channel is closed.
RunReturns(g) ==
    /\ goroutines[g].at = "run"
    /\ goroutines[g].stop \in closed
    /\ goroutines' = [goroutines EXCEPT ![g].at = "done"]
    /\ UNCHANGED <<factoryVars, created, synced, closed, callVars, ghostVars>>

\* Mutant: the goroutine ends without Done.
EndWithoutDone(g) ==
    /\ goroutines[g].at = "done"
    /\ goroutines' = [goroutines EXCEPT ![g].at = "gone"]
    /\ UNCHANGED <<factoryVars, created, synced, closed, callVars, ghostVars>>

\* The deferred f.wg.Done() of the goroutine.
GoroutineDone(g) ==
    /\ goroutines[g].at = "done"
    /\ wg' = wg - 1
    /\ goroutines' = [goroutines EXCEPT ![g].at = "gone"]
    /\ UNCHANGED <<lock, informers, startedInformers, shuttingDown, created,
                   synced, closed, callVars, ghostVars>>

\* The program closes a stop channel.
CloseStop(s) ==
    /\ s \notin closed
    /\ closed' = closed \cup {s}
    /\ UNCHANGED <<factoryVars, created, goroutines, synced, callVars, ghostVars>>

-----------------------------------------------------------------------------
InformerForStep(c) ==
    InformerExists(c) \/ InformerMissing(c) \/ CreateInformer(c)

StartStep(c) ==
    \/ StartRefused(c)
    \/ StartProceeds(c)
    \/ \E t \in Types : StartEach(c, t)
    \/ StartReturns(c)

ShutdownStep(c) == MarkShuttingDown(c) \/ ShutdownReturns(c)

SyncStep(c) ==
    \/ SnapshotStarted(c)
    \/ \E t \in Types : NextInformer(c, t)
    \/ \E ok \in BOOLEAN : PollInformer(c, ok)
    \/ SyncCompletes(c)
    \/ SyncReturns(c)

\* A step of a call in progress, once it needs no lock or has it.
Proceed(c) ==
    InformerForStep(c) \/ StartStep(c) \/ ShutdownStep(c) \/ SyncStep(c)

Begin(c) ==
    \/ \E t \in Types : CallInformerFor(c, t)
    \/ \E s \in Stops : CallStart(c, s) \/ CallWaitForCacheSync(c, s)
    \/ CallShutdown(c)

Run(g) == RunSyncs(g) \/ RunReturns(g) \/ GoroutineDone(g)

Next ==
    \/ \E c \in Clients : Begin(c) \/ Acquire(c) \/ Proceed(c)
    \/ \E g \in DOMAIN goroutines : Run(g)
    \/ \E s \in Stops : CloseStop(s)

Spec == Init /\ [][Next]_vars

(* Fairness. Go runs every runnable goroutine, so a step of a call that      *)
(* stays enabled is taken, Run notices a closed channel and its deferred     *)
(* Done runs. sync.Mutex hands itself over in FIFO order to a goroutine that *)
(* has waited for 1ms (starvation mode), so a waiter that finds the mutex    *)
(* free again and again gets it: strong fairness. Nothing is assumed of the  *)
(* program (Begin, CloseStop) nor of the API server (RunSyncs).              *)
MaxGoroutines == Cardinality(Types)

Fairness ==
    /\ \A c \in Clients : WF_vars(Proceed(c)) /\ SF_vars(Acquire(c))
    /\ \A g \in 1..MaxGoroutines :
          WF_vars(g \in DOMAIN goroutines /\ (RunReturns(g) \/ GoroutineDone(g)))

FairSpec == Spec /\ Fairness

-----------------------------------------------------------------------------
TypeOK ==
    /\ lock \in Clients \cup {None}
    /\ informers \in [Types -> Nat]
    /\ startedInformers \subseteq Types
    /\ wg \in Nat
    /\ shuttingDown \in BOOLEAN
    /\ created \in [Types -> Nat]
    /\ goroutines \in Seq(Goroutine)
    /\ synced \subseteq Types
    /\ closed \subseteq Stops
    /\ pc \in [Clients -> PCs]
    /\ arg \in [Clients -> Types \cup Stops \cup {None}]
    /\ todo \in [Clients -> SUBSET Types]
    /\ cur \in [Clients -> Types \cup {None}]
    /\ res \in [Clients -> Results]
    /\ handed \in [Clients -> [Types -> Nat]]
    /\ owed \in [Clients -> SUBSET Types]
    /\ terminated \in BOOLEAN

\* InformerFor shares: whatever the interleaving of two first requests for a
\* type, every caller was given the one instance that Start runs (the informer
\* a Lister reads from is never a second, unstarted one).
SharedInstance ==
    \A c \in Clients, t \in Types : handed[c][t] \in {0, informers[t]}

\* An informer is run by at most one goroutine, however many Start calls
\* overlap ("This allows Start() to be called multiple times safely").
RunOnce ==
    \A g, h \in DOMAIN goroutines :
        goroutines[g].type = goroutines[h].type => g = h

\* The wait group counts the goroutines whose Done is still to come, so
\* Shutdown can neither return early nor wait for a goroutine that is gone.
CountsGoroutines == wg = Cardinality(Alive)

\* "At that point no new informers can be started anymore", and "all such
\* calls will block until all goroutines have terminated": once one Shutdown
\* call has returned, no goroutine is inside Run, now or later.
NothingRunsAfterShutdown == terminated => shuttingDown /\ Running = {}

\* While a call is inside wg.Wait no other call adds to the wait group, which
\* sync.WaitGroup forbids when the counter is zero.
NoAddDuringWait ==
    [][(\E c \in Clients : pc[c] = "down_wait") => wg' <= wg]_vars

\* A client that requested an informer and then called Start finds it in the
\* result of its next WaitForCacheSync, and an entry is false only if the
\* channel it passed is closed, true only if the cache has synced. There is
\* none for an informer that no Start has run: one requested too late, after
\* Shutdown or the last Start, is not reported at all.
SyncReport ==
    \A c \in Clients : pc[c] = "sync_ret" =>
        /\ owed[c] \subseteq DOMAIN res[c]
        /\ DOMAIN res[c] \subseteq startedInformers
        /\ \A t \in DOMAIN res[c] :
              IF res[c][t] THEN t \in synced ELSE arg[c] \in closed

-----------------------------------------------------------------------------
(* The inductive invariant the theorems rest on: who is inside the critical  *)
(* section, what each loop knows while it is there, and how the maps, the    *)
(* counter and the flag relate to the goroutines that exist.                 *)

\* The argument of a call is of the kind its method takes.
ArgOK ==
    \A c \in Clients :
        /\ pc[c] \in {"inf_lock", "inf_check", "inf_create"} => arg[c] \in Types
        /\ pc[c] \in {"start_lock", "start_check", "start_loop",
                      "sync_lock", "sync_snap", "sync_loop"} => arg[c] \in Stops

MutualExclusion == \A c \in Clients : pc[c] \in Critical <=> lock = c

CreatedOnce ==
    /\ created = informers
    /\ \A c \in Clients : pc[c] = "inf_create" => informers[arg[c]] = 0

StartedByGoroutine ==
    startedInformers = {goroutines[g].type : g \in DOMAIN goroutines}

LoopsKnow ==
    /\ startedInformers \subseteq Registered
    /\ \A c \in Clients :
          /\ pc[c] = "start_loop" => ~shuttingDown /\ todo[c] \subseteq Registered
          /\ pc[c] = "down_wait" => shuttingDown

ShutdownIsFinal == terminated => shuttingDown /\ Alive = {}

\* What every reachable state satisfies, strong enough to be preserved by
\* every step of every client, informer and stop channel.
IInv ==
    /\ TypeOK
    /\ ArgOK
    /\ MutualExclusion
    /\ CreatedOnce
    /\ SharedInstance
    /\ StartedByGoroutine
    /\ RunOnce
    /\ CountsGoroutines
    /\ LoopsKnow
    /\ ShutdownIsFinal

-----------------------------------------------------------------------------
\* Every Shutdown call returns once all stop channels are closed.
ShutdownTerminates ==
    \A c \in Clients :
        (pc[c] \in {"down_lock", "down_mark", "down_wait"} /\ closed = Stops)
            ~> pc[c] = "idle"

\* A WaitForCacheSync call returns once its channel is closed, even when some
\* informers never sync.
SyncTerminates ==
    \A c \in Clients :
        (pc[c] \in {"sync_lock", "sync_snap", "sync_loop"} /\ arg[c] \in closed)
            ~> pc[c] = "idle"

\* InformerFor and Start never wait for anything but the mutex: they return
\* while other clients are blocked in Shutdown or WaitForCacheSync.
QuickCallsReturn ==
    \A c \in Clients :
        pc[c] \in {"inf_lock", "start_lock"} ~> pc[c] = "idle"

\* The factory implements the promises of its doc comments: an informer moves
\* absent -> requested -> running -> stopped and never back (one whose channel
\* was closed is not run again by a later Start), is launched only before
\* Shutdown, and Shutdown returns only when nothing runs.
Phase(t) ==
    IF informers[t] = 0 THEN "absent"
    ELSE IF t \notin startedInformers THEN "requested"
    ELSE IF \E g \in Running : goroutines[g].type = t THEN "running" ELSE "stopped"
Gate ==
    IF ~shuttingDown THEN "open" ELSE IF ~terminated THEN "closing" ELSE "closed"
Channel(t) == {goroutines[g].stop : g \in {h \in DOMAIN goroutines : goroutines[h].type = t}}

PhaseOf   == [t \in Types |-> Phase(t)]
ChannelOf == [t \in Types |-> Channel(t)]

Lifecycle == INSTANCE InformerLifecycle WITH
    phase <- PhaseOf, channel <- ChannelOf, gate <- Gate

ImplementsLifecycle == Lifecycle!Spec
===========================================================================
