---------------------- MODULE SharedInformerFactoryProofs ----------------------
(* Theorems about SharedInformerFactory, for any number of clients, types    *)
(* and stop channels.                                                        *)
EXTENDS SharedInformerFactory, FiniteSetTheorems, TLAPS

TypeInv == TypeOK /\ ArgOK

-----------------------------------------------------------------------------
(* The wait group counts the goroutines that have not run their deferred     *)
(* Done: the two halves of that fact, on the sequence of goroutines.         *)

LEMMA AliveFinite == goroutines \in Seq(Goroutine) => IsFiniteSet(Alive)
<1> SUFFICES ASSUME goroutines \in Seq(Goroutine)
             PROVE  IsFiniteSet(Alive)
  OBVIOUS
<1>1. IsFiniteSet(1..Len(goroutines))
  BY FS_Interval
<1>2. Alive \subseteq 1..Len(goroutines)
  BY DEF Alive
<1> QED
  BY <1>1, <1>2, FS_Subset

LEMMA SpawnAlive ==
  ASSUME goroutines \in Seq(Goroutine), NEW r \in Goroutine, r.at = "run",
         goroutines' = Append(goroutines, r)
  PROVE  Cardinality(Alive') = Cardinality(Alive) + 1
<1> DEFINE n == Len(goroutines) + 1
<1>1. /\ DOMAIN goroutines' = DOMAIN goroutines \cup {n}
      /\ n \notin DOMAIN goroutines
      /\ \A g \in DOMAIN goroutines : goroutines'[g] = goroutines[g]
      /\ goroutines'[n] = r
  OBVIOUS
<1>2. Alive' = Alive \cup {n} /\ n \notin Alive
  BY <1>1 DEF Alive
<1> QED
  BY <1>2, AliveFinite, FS_AddElement

LEMMA DoneAlive ==
  ASSUME goroutines \in Seq(Goroutine), NEW g \in DOMAIN goroutines, g \in Alive,
         goroutines' = [goroutines EXCEPT ![g].at = "gone"]
  PROVE  Cardinality(Alive') = Cardinality(Alive) - 1
<1>0. goroutines[g] \in Goroutine
  OBVIOUS
<1>1. Alive' = Alive \ {g}
  BY <1>0 DEF Alive, Goroutine
<1> QED
  BY <1>1, AliveFinite, FS_RemoveElement

LEMMA AliveCounted ==
  ASSUME goroutines \in Seq(Goroutine), NEW g \in Alive
  PROVE  Cardinality(Alive) \in Nat \ {0}
  BY AliveFinite, FS_CardinalityType, FS_EmptySet

-----------------------------------------------------------------------------
LEMMA NoResultType == NoResult \in Results
<1>1. NoResult \in [{} -> BOOLEAN]
  BY DEF NoResult
<1> QED
  BY <1>1 DEF Results

LEMMA ReportType ==
  ASSUME TypeInv, NEW c \in Clients, NEW t \in Types, NEW ok \in BOOLEAN,
         Report(c, t, ok)
  PROVE  /\ todo' \in [Clients -> SUBSET Types]
         /\ cur' \in [Clients -> Types \cup {None}]
         /\ res' \in [Clients -> Results]
<1> DEFINE r == [u \in DOMAIN res[c] \cup {t} |-> IF u = t THEN ok ELSE res[c][u]]
<1>1. PICK S \in SUBSET Types : res[c] \in [S -> BOOLEAN]
  BY DEF Results, TypeInv, TypeOK
<1>2. r \in [S \cup {t} -> BOOLEAN]
  BY <1>1
<1>3. S \cup {t} \in SUBSET Types
  OBVIOUS
<1>4. r \in Results
  BY <1>2, <1>3 DEF Results
<1>5. res' = [res EXCEPT ![c] = r]
  BY DEF Report
<1> QED
  BY <1>4, <1>5 DEF Report, TypeInv, TypeOK

LEMMA TypeInvInit == Init => TypeInv
<1> SUFFICES ASSUME Init PROVE TypeInv
  OBVIOUS
<1>1. res \in [Clients -> Results]
  BY NoResultType DEF Init
<1>2. ArgOK
  BY DEF Init, ArgOK
<1>3. /\ pc \in [Clients -> PCs]
      /\ arg \in [Clients -> Types \cup Stops \cup {None}]
      /\ cur \in [Clients -> Types \cup {None}]
      /\ todo \in [Clients -> SUBSET Types]
  BY DEF Init, PCs
<1>4. /\ handed \in [Clients -> [Types -> Nat]]
      /\ goroutines \in Seq(Goroutine)
      /\ owed \in [Clients -> SUBSET Types]
  BY DEF Init
<1> QED
  BY <1>1, <1>2, <1>3, <1>4 DEF Init, TypeInv, TypeOK

LEMMA CallType ==
  ASSUME TypeInv, NEW c \in Clients, NEW p, NEW a, Call(c, p, a),
         \/ p = "inf_lock" /\ a \in Types
         \/ p \in {"start_lock", "sync_lock"} /\ a \in Stops
         \/ p = "down_lock" /\ a = None
  PROVE  TypeInv'
<1>1. p \in PCs /\ a \in Types \cup Stops \cup {None}
  BY DEF PCs, Waiting
<1>2. /\ pc' = [pc EXCEPT ![c] = p] /\ arg' = [arg EXCEPT ![c] = a]
      /\ UNCHANGED <<factoryVars, created, runVars, todo, cur, res, ghostVars>>
  BY DEF Call, Goto
<1>3. TypeOK'
  BY <1>1, <1>2 DEF TypeInv, TypeOK, factoryVars, runVars, ghostVars
<1>4. ArgOK'
  BY <1>1, <1>2 DEF TypeInv, TypeOK, ArgOK
<1> QED
  BY <1>3, <1>4 DEF TypeInv

LEMMA TypeInvNext == TypeInv /\ CountsGoroutines /\ [Next]_vars => TypeInv'
<1> SUFFICES ASSUME TypeInv, CountsGoroutines, [Next]_vars
             PROVE  TypeInv'
  OBVIOUS
<1>1. ASSUME NEW c \in Clients, Begin(c)
      PROVE  TypeInv'
  BY <1>1, CallType DEF Begin, CallInformerFor, CallStart, CallShutdown, CallWaitForCacheSync
<1> USE DEF TypeInv, TypeOK, ArgOK
<1>2. ASSUME NEW c \in Clients, Acquire(c)
      PROVE  TypeInv'
  BY <1>2 DEF Acquire, Goto, Body, runVars, ghostVars, PCs, Waiting, Critical
<1>3. ASSUME NEW c \in Clients, InformerForStep(c)
      PROVE  TypeInv'
  <2>1. CASE InformerExists(c)
    BY <2>1 DEF InformerExists, Return, Unlock, Goto, runVars, PCs
  <2>2. CASE InformerMissing(c)
    BY <2>2 DEF InformerMissing, Goto, factoryVars, runVars, ghostVars, PCs, Critical
  <2>3. CASE CreateInformer(c)
    <3>1. arg[c] \in Types
      BY <2>3 DEF CreateInformer
    <3>2. created' \in [Types -> Nat] /\ created'[arg[c]] \in Nat
      BY <2>3, <3>1 DEF CreateInformer
    <3> QED
      BY <2>3, <3>1, <3>2 DEF CreateInformer, Return, Unlock, Goto, runVars, PCs
  <2> QED
    BY <1>3, <2>1, <2>2, <2>3 DEF InformerForStep
<1>4. ASSUME NEW c \in Clients, StartStep(c)
      PROVE  TypeInv'
  <2>1. ASSUME NEW t \in Types, StartEach(c, t)
        PROVE  TypeInv'
    <3>1. [type |-> t, stop |-> arg[c], at |-> "run"] \in Goroutine
      BY <2>1 DEF StartEach, Goroutine
    <3>2. /\ goroutines' \in Seq(Goroutine)
          /\ wg' \in Nat
          /\ startedInformers' \subseteq Types
      <4>1. CASE t \in startedInformers
        BY <2>1, <4>1 DEF StartEach
      <4>2. CASE t \notin startedInformers
        <5>1. goroutines' = Append(goroutines, [type |-> t, stop |-> arg[c], at |-> "run"])
          BY <2>1, <4>2 DEF StartEach, Spawn
        <5>2. goroutines' \in Seq(Goroutine)
          BY <3>1, <5>1
        <5> QED
          BY <2>1, <4>2, <5>2 DEF StartEach
      <4> QED
        BY <4>1, <4>2
    <3>3. todo' \in [Clients -> SUBSET Types]
      BY <2>1 DEF StartEach
    <3> QED
      BY <2>1, <3>2, <3>3 DEF StartEach, ghostVars
  <2>2. CASE StartRefused(c)
    BY <2>2 DEF StartRefused, Return, Unlock, Goto, runVars, ghostVars, PCs
  <2>3. CASE StartProceeds(c)
    BY <2>3 DEF StartProceeds, Goto, Registered, factoryVars, runVars, ghostVars, PCs, Critical
  <2>4. CASE StartReturns(c)
    BY <2>4 DEF StartReturns, Return, Unlock, Goto, Requested, runVars, PCs
  <2> QED
    BY <1>4, <2>1, <2>2, <2>3, <2>4 DEF StartStep
<1>5. ASSUME NEW c \in Clients, ShutdownStep(c)
      PROVE  TypeInv'
  BY <1>5 DEF ShutdownStep, MarkShuttingDown, ShutdownReturns, Return, Unlock,
     Goto, factoryVars, runVars, ghostVars, PCs, Waiting, Critical
<1>6. ASSUME NEW c \in Clients, SyncStep(c)
      PROVE  TypeInv'
  <2>2. ASSUME NEW t \in Types, NextInformer(c, t)
        PROVE  TypeInv'
    <3>1. /\ todo' \in [Clients -> SUBSET Types]
          /\ cur' \in [Clients -> Types \cup {None}]
          /\ res' \in [Clients -> Results]
      BY <2>2, ReportType DEF NextInformer
    <3> QED
      BY <2>2, <3>1 DEF NextInformer, factoryVars, runVars, ghostVars
  <2>3. ASSUME NEW ok \in BOOLEAN, PollInformer(c, ok)
        PROVE  TypeInv'
    <3>0. cur[c] \in Types
      BY <2>3 DEF PollInformer
    <3>1. /\ todo' \in [Clients -> SUBSET Types]
          /\ cur' \in [Clients -> Types \cup {None}]
          /\ res' \in [Clients -> Results]
      BY <2>3, <3>0, ReportType DEF PollInformer
    <3> QED
      BY <2>3, <3>1 DEF PollInformer, factoryVars, runVars, ghostVars
  <2>4. CASE SnapshotStarted(c)
    BY <2>4 DEF SnapshotStarted, Unlock, Goto, Registered, runVars, ghostVars,
       PCs, Waiting, Critical
  <2>5. CASE SyncCompletes(c)
    BY <2>5 DEF SyncCompletes, Goto, factoryVars, runVars, ghostVars, PCs, Waiting, Critical
  <2>6. CASE SyncReturns(c)
    BY <2>6, NoResultType DEF SyncReturns, Return, Goto, factoryVars, runVars, ghostVars, PCs
  <2> QED
    BY <1>6, <2>2, <2>3, <2>4, <2>5, <2>6 DEF SyncStep
<1>7. ASSUME NEW g \in DOMAIN goroutines, Run(g)
      PROVE  TypeInv'
  <2>1. goroutines[g] \in Goroutine
    OBVIOUS
  <2>2. goroutines' \in Seq(Goroutine)
    <3>1. ASSUME NEW a \in {"done", "gone"}
          PROVE  [goroutines EXCEPT ![g].at = a] \in Seq(Goroutine)
      <4> DEFINE r == [goroutines[g] EXCEPT !.at = a]
      <4>1. r \in Goroutine
        BY <2>1 DEF Goroutine
      <4>2. [goroutines EXCEPT ![g] = r] \in Seq(Goroutine)
        BY <4>1
      <4> QED
        BY <4>2
    <3> QED
      BY <1>7, <3>1 DEF Run, RunSyncs, RunReturns, GoroutineDone
  <2>3. synced' \subseteq Types
    BY <1>7, <2>1 DEF Run, RunSyncs, RunReturns, GoroutineDone, Goroutine
  <2>4. wg' \in Nat
    <3>1. CASE GoroutineDone(g)
      <4>1. g \in Alive
        BY <3>1 DEF GoroutineDone, Alive
      <4>2. wg \in Nat \ {0}
        BY <4>1, AliveCounted DEF CountsGoroutines
      <4> QED
        BY <3>1, <4>2 DEF GoroutineDone
    <3> QED
      BY <1>7, <3>1 DEF Run, RunSyncs, RunReturns, factoryVars
  <2> QED
    BY <1>7, <2>2, <2>3, <2>4 DEF Run, RunSyncs, RunReturns, GoroutineDone,
       factoryVars, callVars, ghostVars
<1>8. ASSUME NEW s \in Stops, CloseStop(s)
      PROVE  TypeInv'
  BY <1>8 DEF CloseStop, factoryVars, callVars, ghostVars
<1>9. CASE UNCHANGED vars
  BY <1>9 DEF vars, factoryVars, runVars, callVars, ghostVars
<1> QED
  BY <1>1, <1>2, <1>3, <1>4, <1>5, <1>6, <1>7, <1>8, <1>9 DEF Next, Proceed

-----------------------------------------------------------------------------
(* Mutual exclusion of the critical sections.                                *)
LEMMA MutexKept ==
  ASSUME IInv, NEW c \in Clients, NEW p,
         pc' = [pc EXCEPT ![c] = p],
         \/ lock' = lock /\ (pc[c] \in Critical <=> p \in Critical)
         \/ lock' = None /\ pc[c] \in Critical /\ p \notin Critical
         \/ lock' = c /\ lock = None /\ p \in Critical
  PROVE  MutualExclusion'
  BY ConstantsAssumption DEF IInv, TypeOK, MutualExclusion

LEMMA MutexNext == IInv /\ [Next]_vars => MutualExclusion'
<1> SUFFICES ASSUME IInv, [Next]_vars
             PROVE  MutualExclusion'
  OBVIOUS
<1>1. ASSUME NEW c \in Clients, Begin(c)
      PROVE  MutualExclusion'
  BY <1>1, MutexKept DEF Begin, CallInformerFor, CallStart, CallShutdown,
     CallWaitForCacheSync, Call, Goto, factoryVars, Critical
<1>2. ASSUME NEW c \in Clients, Acquire(c)
      PROVE  MutualExclusion'
  <2>1. Body[pc[c]] \in Critical
    BY <1>2 DEF Acquire, Body, Waiting, Critical
  <2> QED
    BY <1>2, <2>1, MutexKept DEF Acquire, Goto
<1>3. ASSUME NEW c \in Clients, InformerForStep(c)
      PROVE  MutualExclusion'
  BY <1>3, MutexKept DEF InformerForStep, InformerExists, InformerMissing,
     CreateInformer, Return, Unlock, Goto, factoryVars, Critical
<1>4. ASSUME NEW c \in Clients, StartStep(c)
      PROVE  MutualExclusion'
  <2>1. ASSUME NEW t \in Types, StartEach(c, t)
        PROVE  MutualExclusion'
    BY <2>1 DEF StartEach, IInv, MutualExclusion
  <2> QED
    BY <1>4, <2>1, MutexKept DEF StartStep, StartRefused, StartProceeds,
       StartReturns, Return, Unlock, Goto, factoryVars, Critical
<1>5. ASSUME NEW c \in Clients, ShutdownStep(c)
      PROVE  MutualExclusion'
  BY <1>5, MutexKept DEF ShutdownStep, MarkShuttingDown, ShutdownReturns,
     Return, Unlock, Goto, factoryVars, Critical
<1>6. ASSUME NEW c \in Clients, SyncStep(c)
      PROVE  MutualExclusion'
  <2>1. CASE SnapshotStarted(c) \/ SyncCompletes(c) \/ SyncReturns(c)
    BY <2>1, MutexKept DEF SnapshotStarted, SyncCompletes, SyncReturns, Return,
       Unlock, Goto, factoryVars, Critical
  <2>2. CASE UNCHANGED <<lock, pc>>
    BY <2>2 DEF IInv, MutualExclusion
  <2> QED
    BY <1>6, <2>1, <2>2 DEF SyncStep, NextInformer, PollInformer, factoryVars
<1>7. CASE UNCHANGED <<lock, pc>>
  BY <1>7 DEF IInv, MutualExclusion
<1> QED
  BY <1>1, <1>2, <1>3, <1>4, <1>5, <1>6, <1>7 DEF Next, Proceed, Run, RunSyncs,
     RunReturns, GoroutineDone, CloseStop, vars, factoryVars, callVars

-----------------------------------------------------------------------------
(* One instance per type: only CreateInformer writes f.informers, at a key   *)
(* that is absent as long as the lock is held.                               *)
InstanceInv == CreatedOnce /\ SharedInstance

LEMMA InstanceNext == IInv /\ [Next]_vars => InstanceInv'
<1> SUFFICES ASSUME IInv, [Next]_vars
             PROVE  InstanceInv'
  OBVIOUS
<1> USE DEF IInv, TypeOK, InstanceInv, CreatedOnce, SharedInstance
<1>1. ASSUME NEW c \in Clients, InformerExists(c)
      PROVE  InstanceInv'
  BY <1>1 DEF InformerExists, Return, Goto
<1>2. ASSUME NEW c \in Clients, InformerMissing(c)
      PROVE  InstanceInv'
  BY <1>2 DEF InformerMissing, Goto, factoryVars, ghostVars
<1>3. ASSUME NEW c \in Clients, CreateInformer(c)
      PROVE  InstanceInv'
  <2>1. arg[c] \in Types /\ informers[arg[c]] = 0 /\ created[arg[c]] = 0
    BY <1>3 DEF CreateInformer, ArgOK
  <2>2. /\ created' = [created EXCEPT ![arg[c]] = 1]
        /\ informers' = [informers EXCEPT ![arg[c]] = 1]
        /\ handed' = [handed EXCEPT ![c][arg[c]] = 1]
    BY <1>3, <2>1 DEF CreateInformer
  <2>3. lock = c
    BY <1>3 DEF CreateInformer, MutualExclusion, Critical
  <2>4. \A d \in Clients : pc'[d] # "inf_create"
    BY <1>3, <2>3 DEF CreateInformer, Return, Goto, MutualExclusion, Critical
  <2>5. \A d \in Clients : handed[d][arg[c]] = 0
    BY <2>1
  <2>6. CreatedOnce'
    BY <2>2, <2>4
  <2>7. SharedInstance'
    BY <2>1, <2>2, <2>5
  <2> QED
    BY <2>6, <2>7
<1>4. CASE UNCHANGED <<informers, created, handed>>
           /\ \A d \in Clients : pc'[d] = "inf_create" =>
                 pc[d] = "inf_create" /\ arg'[d] = arg[d]
  BY <1>4
<1>5. ASSUME NEW c \in Clients, Begin(c) \/ Acquire(c) \/ StartStep(c)
                                 \/ ShutdownStep(c) \/ SyncStep(c)
      PROVE  InstanceInv'
  <2>1. UNCHANGED <<informers, created, handed>>
    BY <1>5 DEF Begin, CallInformerFor, CallStart, CallShutdown,
       CallWaitForCacheSync, Call, Acquire, StartStep, StartRefused,
       StartProceeds, StartEach, StartReturns, ShutdownStep, MarkShuttingDown,
       ShutdownReturns, SyncStep, SnapshotStarted, NextInformer, PollInformer,
       SyncCompletes, SyncReturns, factoryVars, ghostVars
  <2>2. \A d \in Clients \ {c} : pc'[d] = pc[d] /\ arg'[d] = arg[d]
    BY <1>5 DEF Begin, CallInformerFor, CallStart, CallShutdown,
       CallWaitForCacheSync, Call, Acquire, StartStep, StartRefused,
       StartProceeds, StartEach, StartReturns, ShutdownStep, MarkShuttingDown,
       ShutdownReturns, SyncStep, SnapshotStarted, NextInformer, PollInformer,
       SyncCompletes, SyncReturns, Return, Goto
  <2>3. pc'[c] # "inf_create"
    BY <1>5 DEF Begin, CallInformerFor, CallStart, CallShutdown,
       CallWaitForCacheSync, Call, Acquire, StartStep, StartRefused,
       StartProceeds, StartEach, StartReturns, ShutdownStep, MarkShuttingDown,
       ShutdownReturns, SyncStep, SnapshotStarted, NextInformer, PollInformer,
       SyncCompletes, SyncReturns, Return, Goto, Body, Waiting
  <2> QED
    BY <1>4, <2>1, <2>2, <2>3
<1>6. CASE (\E g \in DOMAIN goroutines : Run(g)) \/ (\E s \in Stops : CloseStop(s))
           \/ UNCHANGED vars
  BY <1>4, <1>6 DEF Run, RunSyncs, RunReturns, GoroutineDone, CloseStop, vars,
     factoryVars, callVars, ghostVars
<1> QED
  BY <1>1, <1>2, <1>3, <1>5, <1>6 DEF Next, Proceed, InformerForStep

-----------------------------------------------------------------------------
(* Goroutines: only StartEach adds one, for a type that has none, and counts *)
(* it; only GoroutineDone uncounts one.                                      *)
GoroutineInv == StartedByGoroutine /\ RunOnce /\ CountsGoroutines

LEMMA GoroutineNext == IInv /\ [Next]_vars => GoroutineInv'
<1> SUFFICES ASSUME IInv, [Next]_vars
             PROVE  GoroutineInv'
  OBVIOUS
<1> USE DEF IInv, TypeOK, GoroutineInv
<1>1. CASE UNCHANGED <<startedInformers, wg, goroutines>>
  BY <1>1 DEF StartedByGoroutine, RunOnce, CountsGoroutines, Alive
<1>2. ASSUME NEW c \in Clients, NEW t \in Types, StartEach(c, t)
      PROVE  GoroutineInv'
  <2>1. CASE t \in startedInformers
    BY <1>1, <1>2, <2>1 DEF StartEach
  <2>2. CASE t \notin startedInformers
    <3> DEFINE r == [type |-> t, stop |-> arg[c], at |-> "run"]
               n == Len(goroutines) + 1
    <3>1. r \in Goroutine /\ r.at = "run" /\ r.type = t
      BY <1>2 DEF StartEach, ArgOK, Goroutine
    <3>2. /\ goroutines' = Append(goroutines, r)
          /\ wg' = wg + 1
          /\ startedInformers' = startedInformers \cup {t}
      BY <1>2, <2>2 DEF StartEach, Spawn
    <3>3. /\ DOMAIN goroutines' = DOMAIN goroutines \cup {n}
          /\ n \notin DOMAIN goroutines
          /\ \A g \in DOMAIN goroutines : goroutines'[g] = goroutines[g]
          /\ goroutines'[n] = r
      BY <3>1, <3>2
    <3>4. StartedByGoroutine'
      BY <3>1, <3>2, <3>3 DEF StartedByGoroutine
    <3>5. RunOnce'
      BY <2>2, <3>1, <3>3 DEF StartedByGoroutine, RunOnce
    <3>6. CountsGoroutines'
      BY <3>1, <3>2, SpawnAlive DEF CountsGoroutines
    <3> QED
      BY <3>4, <3>5, <3>6
  <2> QED
    BY <2>1, <2>2
<1>3. ASSUME NEW g \in DOMAIN goroutines, RunReturns(g) \/ GoroutineDone(g)
      PROVE  GoroutineInv'
  <2>1. goroutines[g] \in Goroutine
    OBVIOUS
  <2>2. /\ DOMAIN goroutines' = DOMAIN goroutines
        /\ \A h \in DOMAIN goroutines : goroutines'[h].type = goroutines[h].type
        /\ startedInformers' = startedInformers
    <3>1. PICK a \in {"done", "gone"} : goroutines' = [goroutines EXCEPT ![g].at = a]
      BY <1>3 DEF RunReturns, GoroutineDone
    <3>2. startedInformers' = startedInformers
      BY <1>3 DEF RunReturns, GoroutineDone, factoryVars
    <3>3. DOMAIN goroutines' = DOMAIN goroutines
      BY <3>1
    <3>4. \A h \in DOMAIN goroutines : goroutines'[h].type = goroutines[h].type
      BY <2>1, <3>1 DEF Goroutine
    <3> QED
      BY <3>2, <3>3, <3>4
  <2>3. StartedByGoroutine' /\ RunOnce'
    <3>1. {goroutines'[h].type : h \in DOMAIN goroutines'}
            = {goroutines[h].type : h \in DOMAIN goroutines}
      BY <2>2
    <3>2. StartedByGoroutine'
      BY <2>2, <3>1 DEF StartedByGoroutine
    <3>3. RunOnce'
      BY <2>2 DEF RunOnce
    <3> QED
      BY <3>2, <3>3
  <2>4. CountsGoroutines'
    <3>1. CASE RunReturns(g)
      <4>1. Alive' = Alive
        BY <3>1, <2>1 DEF RunReturns, Alive, Goroutine
      <4> QED
        BY <3>1, <4>1 DEF RunReturns, CountsGoroutines, factoryVars
    <3>2. CASE GoroutineDone(g)
      BY <3>2, DoneAlive DEF GoroutineDone, CountsGoroutines, Alive
    <3> QED
      BY <1>3, <3>1, <3>2
  <2> QED
    BY <2>3, <2>4
<1> QED
  BY <1>1, <1>2, <1>3 DEF Next, Begin, CallInformerFor, CallStart, CallShutdown,
     CallWaitForCacheSync, Call, Acquire, Proceed, InformerForStep,
     InformerExists, InformerMissing, CreateInformer, StartStep, StartRefused,
     StartProceeds, StartReturns, ShutdownStep, MarkShuttingDown,
     ShutdownReturns, SyncStep, SnapshotStarted, NextInformer, PollInformer,
     SyncCompletes, SyncReturns, Run, RunSyncs, CloseStop, factoryVars, runVars, vars

-----------------------------------------------------------------------------
(* Flags: a Start loop runs under the lock with shuttingDown still false, so *)
(* nothing is spawned once the flag is set, and a Shutdown that has seen a   *)
(* zero counter has seen the last goroutine.                                 *)
LEMMA LoopsNext == IInv /\ [Next]_vars => LoopsKnow'
<1> SUFFICES ASSUME IInv, [Next]_vars
             PROVE  LoopsKnow'
  OBVIOUS
<1> USE DEF IInv, TypeOK, LoopsKnow
<1>1. ASSUME NEW c \in Clients, Begin(c) \/ Acquire(c) \/ SyncStep(c)
      PROVE  LoopsKnow'
  <2>1. UNCHANGED <<informers, startedInformers, shuttingDown>>
    BY <1>1 DEF Begin, CallInformerFor, CallStart, CallShutdown,
       CallWaitForCacheSync, Call, Acquire, SyncStep, SnapshotStarted,
       NextInformer, PollInformer, SyncCompletes, SyncReturns, factoryVars
  <2>2. \A d \in Clients \ {c} : pc'[d] = pc[d] /\ todo'[d] = todo[d]
    BY <1>1 DEF Begin, CallInformerFor, CallStart, CallShutdown,
       CallWaitForCacheSync, Call, Acquire, SyncStep, SnapshotStarted,
       NextInformer, PollInformer, SyncCompletes, SyncReturns, Return, Goto, Report
  <2>3. pc'[c] \notin {"start_loop", "down_wait"}
    BY <1>1 DEF Begin, CallInformerFor, CallStart, CallShutdown,
       CallWaitForCacheSync, Call, Acquire, SyncStep, SnapshotStarted,
       NextInformer, PollInformer, SyncCompletes, SyncReturns, Return, Goto, Body, Waiting
  <2> QED
    BY <2>1, <2>2, <2>3 DEF Registered
<1>2. ASSUME NEW c \in Clients, InformerForStep(c)
      PROVE  LoopsKnow'
  <2>1. Registered \subseteq Registered'
    BY <1>2 DEF InformerForStep, InformerExists, InformerMissing, CreateInformer,
       Registered, CreatedOnce, ArgOK, factoryVars
  <2>2. /\ UNCHANGED <<startedInformers, shuttingDown, todo>>
        /\ \A d \in Clients \ {c} : pc'[d] = pc[d]
        /\ pc'[c] \notin {"start_loop", "down_wait"}
    BY <1>2 DEF InformerForStep, InformerExists, InformerMissing, CreateInformer,
       Return, Goto, factoryVars
  <2> QED
    BY <2>1, <2>2
<1>3. ASSUME NEW c \in Clients, StartStep(c)
      PROVE  LoopsKnow'
  <2>1. ASSUME NEW t \in Types, StartEach(c, t)
        PROVE  LoopsKnow'
    BY <2>1 DEF StartEach, Registered
  <2>2. CASE StartRefused(c) \/ StartReturns(c)
    BY <2>2 DEF StartRefused, StartReturns, Return, Goto, Registered
  <2>3. CASE StartProceeds(c)
    BY <2>3 DEF StartProceeds, Goto, Registered, factoryVars
  <2> QED
    BY <1>3, <2>1, <2>2, <2>3 DEF StartStep
<1>4. ASSUME NEW c \in Clients, MarkShuttingDown(c)
      PROVE  LoopsKnow'
  <2>1. \A d \in Clients : pc'[d] # "start_loop"
    BY <1>4 DEF MarkShuttingDown, Goto, MutualExclusion, Critical
  <2> QED
    BY <1>4, <2>1 DEF MarkShuttingDown, Registered
<1>5. ASSUME NEW c \in Clients, ShutdownReturns(c)
      PROVE  LoopsKnow'
  BY <1>5 DEF ShutdownReturns, Return, Goto, Registered, factoryVars
<1>6. CASE UNCHANGED <<informers, startedInformers, shuttingDown, pc, todo>>
  BY <1>6 DEF Registered
<1> QED
  BY <1>1, <1>2, <1>3, <1>4, <1>5, <1>6 DEF Next, Proceed, ShutdownStep, Run,
     RunSyncs, RunReturns, GoroutineDone, CloseStop, factoryVars, callVars, vars

LEMMA FinalNext == IInv /\ [Next]_vars => ShutdownIsFinal'
<1> SUFFICES ASSUME IInv, [Next]_vars
             PROVE  ShutdownIsFinal'
  OBVIOUS
<1> USE DEF IInv, TypeOK, ShutdownIsFinal
<1>1. CASE UNCHANGED <<terminated, goroutines>> /\ (shuttingDown => shuttingDown')
  BY <1>1 DEF Alive
<1>2. ASSUME NEW c \in Clients, NEW t \in Types, StartEach(c, t)
      PROVE  ShutdownIsFinal'
  BY <1>2 DEF StartEach, LoopsKnow, ghostVars
<1>3. ASSUME NEW c \in Clients, ShutdownReturns(c)
      PROVE  ShutdownIsFinal'
  <2>1. Cardinality(Alive) = 0
    BY <1>3 DEF ShutdownReturns, CountsGoroutines
  <2>2. Alive = {}
    BY <2>1, AliveFinite, FS_EmptySet
  <2> QED
    BY <1>3, <2>2 DEF ShutdownReturns, LoopsKnow, factoryVars, runVars, Alive
<1>4. ASSUME NEW g \in DOMAIN goroutines, Run(g)
      PROVE  ShutdownIsFinal'
  <2>1. CASE terminated
    <3>1. goroutines[g].at = "gone"
      BY <2>1 DEF Alive
    <3> QED
      BY <1>4, <3>1 DEF Run, RunSyncs, RunReturns, GoroutineDone
  <2>2. CASE ~terminated
    BY <1>4, <2>2 DEF Run, RunSyncs, RunReturns, GoroutineDone, ghostVars
  <2> QED
    BY <2>1, <2>2
<1> QED
  BY <1>1, <1>2, <1>3, <1>4 DEF Next, Begin, CallInformerFor, CallStart,
     CallShutdown, CallWaitForCacheSync, Call, Acquire, Proceed, InformerForStep,
     InformerExists, InformerMissing, CreateInformer, StartStep, StartRefused,
     StartProceeds, StartReturns, ShutdownStep, MarkShuttingDown, SyncStep,
     SnapshotStarted, NextInformer, PollInformer, SyncCompletes, SyncReturns,
     CloseStop, factoryVars, runVars, ghostVars, vars

-----------------------------------------------------------------------------
LEMMA IInvInit == Init => IInv
<1> SUFFICES ASSUME Init PROVE IInv
  OBVIOUS
<1>1. TypeOK /\ ArgOK
  BY TypeInvInit DEF TypeInv
<1>2. MutualExclusion
  BY ConstantsAssumption DEF Init, MutualExclusion, Critical
<1>3. CreatedOnce /\ SharedInstance /\ LoopsKnow /\ ShutdownIsFinal
  BY DEF Init, CreatedOnce, SharedInstance, LoopsKnow, ShutdownIsFinal
<1>4. StartedByGoroutine /\ RunOnce
  BY DEF Init, StartedByGoroutine, RunOnce
<1>5. CountsGoroutines
  <2>1. Alive = {}
    BY DEF Init, Alive
  <2> QED
    BY <2>1, FS_EmptySet DEF Init, CountsGoroutines
<1> QED
  BY <1>1, <1>2, <1>3, <1>4, <1>5 DEF IInv

LEMMA IInvNext == IInv /\ [Next]_vars => IInv'
<1> SUFFICES ASSUME IInv, [Next]_vars
             PROVE  IInv'
  OBVIOUS
<1>1. TypeOK' /\ ArgOK'
  BY TypeInvNext DEF IInv, TypeInv
<1>2. MutualExclusion'
  BY MutexNext
<1>3. CreatedOnce' /\ SharedInstance'
  BY InstanceNext DEF InstanceInv
<1>4. StartedByGoroutine' /\ RunOnce' /\ CountsGoroutines'
  BY GoroutineNext DEF GoroutineInv
<1>5. LoopsKnow' /\ ShutdownIsFinal'
  BY LoopsNext, FinalNext
<1> QED
  BY <1>1, <1>2, <1>3, <1>4, <1>5 DEF IInv

\* Every reachable state of the factory satisfies the inductive invariant.
THEOREM Invariance == Spec => []IInv
  BY IInvInit, IInvNext, PTL DEF Spec

\* Types of all variables hold in every reachable state.
THEOREM TypeCorrectness == Spec => []TypeOK
<1>1. IInv => TypeOK
  BY DEF IInv
<1> QED
  BY <1>1, Invariance, PTL

\* InformerFor hands every caller the same instance of a type's informer.
THEOREM InstanceIsShared == Spec => []SharedInstance
<1>1. IInv => SharedInstance
  BY DEF IInv
<1> QED
  BY <1>1, Invariance, PTL

\* No interleaving of Start calls runs an informer in two goroutines.
THEOREM InformersRunOnce == Spec => []RunOnce
<1>1. IInv => RunOnce
  BY DEF IInv
<1> QED
  BY <1>1, Invariance, PTL

\* The wait group always equals the number of goroutines yet to be done.
THEOREM WaitGroupIsExact == Spec => []CountsGoroutines
<1>1. IInv => CountsGoroutines
  BY DEF IInv
<1> QED
  BY <1>1, Invariance, PTL

\* After one Shutdown call has returned no informer ever runs again.
THEOREM ShutdownIsFinalStop == Spec => []NothingRunsAfterShutdown
<1>1. IInv => NothingRunsAfterShutdown
  BY DEF IInv, ShutdownIsFinal, NothingRunsAfterShutdown, Alive, Running
<1> QED
  BY <1>1, Invariance, PTL

\* No call adds to the wait group while another is inside its Wait.
THEOREM NoAddRacesWait == Spec => NoAddDuringWait
<1>1. IInv /\ [Next]_vars
        => [(\E c \in Clients : pc[c] = "down_wait") => wg' <= wg]_vars
  <2> SUFFICES ASSUME IInv, [Next]_vars, \E c \in Clients : pc[c] = "down_wait"
               PROVE  wg' <= wg
    OBVIOUS
  <2>1. shuttingDown /\ wg \in Nat
    BY DEF IInv, LoopsKnow, TypeOK
  <2>2. CASE UNCHANGED wg
    BY <2>1, <2>2
  <2>3. ASSUME NEW c \in Clients, NEW t \in Types, StartEach(c, t)
        PROVE  FALSE
    BY <2>1, <2>3 DEF StartEach, IInv, LoopsKnow
  <2>4. ASSUME NEW g \in DOMAIN goroutines, GoroutineDone(g)
        PROVE  wg' <= wg
    BY <2>1, <2>4 DEF GoroutineDone
  <2> QED
    BY <2>2, <2>3, <2>4 DEF Next, Begin, CallInformerFor, CallStart,
       CallShutdown, CallWaitForCacheSync, Call, Acquire, Proceed,
       InformerForStep, InformerExists, InformerMissing, CreateInformer,
       StartStep, StartRefused, StartProceeds, StartReturns, ShutdownStep,
       MarkShuttingDown, ShutdownReturns, SyncStep, SnapshotStarted,
       NextInformer, PollInformer, SyncCompletes, SyncReturns, Run, RunSyncs,
       RunReturns, CloseStop, factoryVars, vars
<1> QED
  BY <1>1, Invariance, PTL DEF Spec, NoAddDuringWait

-----------------------------------------------------------------------------
(* What WaitForCacheSync reports. The types a client is owed are started, so *)
(* the snapshot of a later call has them; its loop loses none and adds none. *)

\* What a client in the loops of Start and WaitForCacheSync still has to do,
\* and what the entries it has collected stand for.
Knows(c) ==
    /\ owed[c] \subseteq startedInformers
    /\ pc[c] = "start_loop" => Registered \subseteq todo[c] \cup startedInformers
    /\ pc[c] = "sync_loop" => owed[c] \subseteq todo[c] \cup DOMAIN res[c]
                              /\ cur[c] \in todo[c] \cup {None}
                              /\ todo[c] \subseteq startedInformers
    /\ DOMAIN res[c] \subseteq startedInformers
    /\ pc[c] # "sync_loop" => cur[c] = None
    /\ pc[c] = "sync_ret" => owed[c] \subseteq DOMAIN res[c]
    /\ pc[c] \notin {"sync_loop", "sync_ret"} => res[c] = NoResult
    /\ \A t \in DOMAIN res[c] : IF res[c][t] THEN t \in synced ELSE arg[c] \in closed

SyncKnows == \A c \in Clients : Knows(c)

\* A client that does nothing keeps what it knows: informers, channels and
\* caches only get started, closed and synced, and Start's loop holds the lock.
LEMMA SyncKept ==
  ASSUME IInv, SyncKnows, NEW d \in Clients,
         pc'[d] = pc[d], todo'[d] = todo[d], cur'[d] = cur[d], res'[d] = res[d],
         owed'[d] = owed[d], arg'[d] = arg[d],
         startedInformers \subseteq startedInformers', synced \subseteq synced',
         closed \subseteq closed', informers' = informers \/ pc[d] # "start_loop"
  PROVE  Knows(d)'
  BY DEF SyncKnows, Knows, Registered

\* An entry added for the informer whose turn it is.
LEMMA SyncReported ==
  ASSUME IInv, SyncKnows, NEW c \in Clients, NEW t \in todo[c], NEW ok \in BOOLEAN,
         pc[c] = "sync_loop", Report(c, t, ok),
         IF ok THEN t \in synced ELSE arg[c] \in closed,
         UNCHANGED <<factoryVars, created, runVars, pc, arg, ghostVars>>
  PROVE  SyncKnows'
<1> DEFINE r == [u \in DOMAIN res[c] \cup {t} |-> IF u = t THEN ok ELSE res[c][u]]
<1>1. /\ todo' = [todo EXCEPT ![c] = todo[c] \ {t}]
      /\ cur' = [cur EXCEPT ![c] = None]
      /\ res' = [res EXCEPT ![c] = r]
  BY DEF Report
<1>2. /\ todo'[c] = todo[c] \ {t} /\ cur'[c] = None /\ res'[c] = r
      /\ \A d \in Clients \ {c} :
            todo'[d] = todo[d] /\ cur'[d] = cur[d] /\ res'[d] = res[d]
  BY <1>1 DEF IInv, TypeOK
<1>3. /\ DOMAIN r = DOMAIN res[c] \cup {t} /\ r[t] = ok
      /\ \A u \in DOMAIN res[c] : u # t => r[u] = res[c][u]
  OBVIOUS
<1> HIDE DEF r
<1> SUFFICES ASSUME NEW d \in Clients PROVE Knows(d)'
  BY DEF SyncKnows
<1>4. CASE d = c
  BY <1>2, <1>3, <1>4 DEF SyncKnows, Knows, factoryVars, runVars, ghostVars
<1>5. CASE d # c
  BY <1>2, <1>5, SyncKept DEF factoryVars, runVars, ghostVars
<1> QED
  BY <1>4, <1>5

LEMMA SyncInit == Init => SyncKnows
  BY DEF Init, SyncKnows, Knows, NoResult, Registered

LEMMA SyncNext == IInv /\ SyncKnows /\ [Next]_vars => SyncKnows'
<1> SUFFICES ASSUME IInv, SyncKnows, [Next]_vars
             PROVE  SyncKnows'
  OBVIOUS
<1>0. /\ pc \in [Clients -> PCs] /\ arg \in [Clients -> Types \cup Stops \cup {None}]
      /\ todo \in [Clients -> SUBSET Types] /\ cur \in [Clients -> Types \cup {None}]
      /\ res \in [Clients -> Results] /\ owed \in [Clients -> SUBSET Types]
      /\ DOMAIN NoResult = {}
  BY DEF IInv, TypeOK, NoResult
<1>1. ASSUME NEW c \in Clients, NEW p \in PCs, NEW a,
             pc' = [pc EXCEPT ![c] = p], arg' = [arg EXCEPT ![c] = a],
             pc[c] \notin {"sync_loop", "sync_ret"},
             p \notin {"start_loop", "sync_loop", "sync_ret"},
             UNCHANGED <<startedInformers, synced, closed, todo, cur, res, owed>>,
             informers' = informers \/ pc[c] \in Critical
      PROVE  SyncKnows'
  <2>1. ASSUME NEW d \in Clients, d # c, pc[c] \in Critical
        PROVE  pc[d] # "start_loop"
    BY <2>1 DEF IInv, MutualExclusion, Critical
  <2>2. /\ pc'[c] = p /\ res'[c] = NoResult /\ owed'[c] = owed[c]
        /\ \A d \in Clients \ {c} : pc'[d] = pc[d] /\ arg'[d] = arg[d]
    BY <1>0, <1>1 DEF SyncKnows, Knows
  <2> QED
    BY <1>0, <1>1, <2>1, <2>2 DEF SyncKnows, Knows, Registered
<1>2. ASSUME NEW c \in Clients, Begin(c) \/ Acquire(c)
      PROVE  SyncKnows'
  <2>1. CASE Begin(c)
    BY <1>1, <2>1
    DEF Begin, CallInformerFor, CallStart, CallShutdown, CallWaitForCacheSync, Call, Goto,
        PCs, Waiting, factoryVars, runVars, ghostVars
  <2>2. CASE Acquire(c)
    <3>1. /\ Body[pc[c]] \in Critical \ {"start_loop"} /\ arg' = [arg EXCEPT ![c] = arg[c]]
          /\ pc' = [pc EXCEPT ![c] = Body[pc[c]]]
      BY <1>0, <2>2 DEF Acquire, Goto, Body, Waiting, Critical
    <3> QED
      BY <1>1, <2>2, <3>1 DEF Acquire, PCs, Waiting, Critical, runVars, ghostVars
  <2> QED
    BY <1>2, <2>1, <2>2
<1>3. ASSUME NEW c \in Clients, InformerForStep(c) \/ ShutdownStep(c) \/ StartRefused(c)
      PROVE  SyncKnows'
  <2>1. arg = [arg EXCEPT ![c] = arg[c]]
    BY <1>0
  <2>2. CASE InformerExists(c)
    BY <1>1, <2>2 DEF InformerExists, Return, Goto, PCs, runVars
  <2>3. CASE InformerMissing(c)
    BY <1>1, <2>1, <2>3
    DEF InformerMissing, Goto, PCs, Critical, factoryVars, runVars, ghostVars
  <2>4. CASE CreateInformer(c)
    BY <1>1, <2>4 DEF CreateInformer, Return, Goto, PCs, Critical, runVars
  <2>5. CASE MarkShuttingDown(c)
    BY <1>1, <2>1, <2>5 DEF MarkShuttingDown, Goto, PCs, runVars, ghostVars
  <2>6. CASE ShutdownReturns(c)
    BY <1>1, <2>6 DEF ShutdownReturns, Return, Goto, PCs, factoryVars, runVars
  <2>7. CASE StartRefused(c)
    BY <1>1, <2>7 DEF StartRefused, Return, Goto, PCs, runVars, ghostVars
  <2> QED
    BY <1>3, <2>2, <2>3, <2>4, <2>5, <2>6, <2>7 DEF InformerForStep, ShutdownStep
<1>4. ASSUME NEW c \in Clients, StartProceeds(c)
      PROVE  SyncKnows'
  <2>1. /\ todo'[c] = Registered /\ pc'[c] = "start_loop"
        /\ \A d \in Clients \ {c} : pc'[d] = pc[d] /\ todo'[d] = todo[d]
        /\ pc[c] = "start_check"
    BY <1>0, <1>4 DEF StartProceeds, Goto
  <2> QED
    BY <1>4, <2>1 DEF StartProceeds, SyncKnows, Knows, Registered, factoryVars, runVars, ghostVars
<1>5. ASSUME NEW c \in Clients, NEW t \in Types, StartEach(c, t)
      PROVE  SyncKnows'
  <2>1. /\ todo'[c] = todo[c] \ {t} /\ pc[c] = "start_loop"
        /\ \A d \in Clients \ {c} : todo'[d] = todo[d]
        /\ startedInformers' = startedInformers \cup {t}
        /\ UNCHANGED <<pc, informers, cur, res, owed, arg, synced, closed>>
    BY <1>0, <1>5 DEF StartEach, ghostVars
  <2> QED
    BY <2>1 DEF SyncKnows, Knows, Registered
<1>6. ASSUME NEW c \in Clients, StartReturns(c)
      PROVE  SyncKnows'
  <2>1. Requested(c) \subseteq Registered
    BY DEF IInv, SharedInstance, Requested, Registered
  <2>2. /\ pc[c] = "start_loop" /\ todo[c] = {} /\ pc'[c] = "idle"
        /\ owed'[c] = Requested(c)
        /\ \A d \in Clients \ {c} :
              pc'[d] = pc[d] /\ owed'[d] = owed[d] /\ arg'[d] = arg[d]
        /\ UNCHANGED <<informers, startedInformers, cur, res, todo, synced, closed>>
    BY <1>0, <1>6 DEF StartReturns, Return, Goto, runVars
  <2>3. owed'[c] \subseteq startedInformers /\ res'[c] = NoResult
    BY <2>1, <2>2 DEF SyncKnows, Knows
  <2> QED
    BY <1>0, <2>2, <2>3 DEF SyncKnows, Knows, Registered
<1>7. ASSUME NEW c \in Clients, SnapshotStarted(c)
      PROVE  SyncKnows'
  <2>1. /\ pc[c] = "sync_snap" /\ pc'[c] = "sync_loop"
        /\ todo'[c] = Registered \cap startedInformers
        /\ \A d \in Clients \ {c} : pc'[d] = pc[d] /\ todo'[d] = todo[d]
        /\ UNCHANGED <<informers, startedInformers, cur, res, owed, arg, synced, closed>>
    BY <1>0, <1>7 DEF SnapshotStarted, Goto, runVars, ghostVars
  <2>2. startedInformers \subseteq Registered
    BY DEF IInv, LoopsKnow
  <2>3. cur'[c] = None
    BY <2>1 DEF SyncKnows, Knows
  <2> QED
    BY <2>1, <2>2, <2>3 DEF SyncKnows, Knows, Registered
<1>8. ASSUME NEW c \in Clients, NEW t \in Types, NextInformer(c, t)
      PROVE  SyncKnows'
  <2>1. CASE t \in synced
    BY <1>8, <2>1, SyncReported DEF NextInformer
  <2>2. CASE t \notin synced
    <3>1. /\ pc[c] = "sync_loop" /\ t \in todo[c] /\ cur'[c] = t
          /\ \A d \in Clients \ {c} : cur'[d] = cur[d]
          /\ UNCHANGED <<informers, startedInformers, pc, todo, res, owed, arg, synced, closed>>
      BY <1>0, <1>8, <2>2 DEF NextInformer, factoryVars, runVars, ghostVars
    <3> QED
      BY <3>1 DEF SyncKnows, Knows, Registered
  <2> QED
    BY <2>1, <2>2
<1>9. ASSUME NEW c \in Clients, NEW ok \in BOOLEAN, PollInformer(c, ok)
      PROVE  SyncKnows'
  <2>1. cur[c] \in todo[c]
    BY <1>9 DEF PollInformer, SyncKnows, Knows
  <2> QED
    BY <1>9, <2>1, SyncReported DEF PollInformer
<1>10. ASSUME NEW c \in Clients, SyncCompletes(c)
       PROVE  SyncKnows'
  <2>1. /\ pc[c] = "sync_loop" /\ todo[c] = {} /\ pc'[c] = "sync_ret" /\ cur[c] = None
        /\ \A d \in Clients \ {c} : pc'[d] = pc[d]
        /\ UNCHANGED <<informers, startedInformers, todo, cur, res, owed, arg, synced, closed>>
    BY <1>0, <1>10 DEF SyncCompletes, Goto, factoryVars, runVars, ghostVars
  <2> QED
    BY <2>1 DEF SyncKnows, Knows, Registered
<1>11. ASSUME NEW c \in Clients, SyncReturns(c)
       PROVE  SyncKnows'
  <2>1. /\ pc[c] = "sync_ret" /\ pc'[c] = "idle" /\ res'[c] = NoResult
        /\ \A d \in Clients \ {c} :
              pc'[d] = pc[d] /\ res'[d] = res[d] /\ arg'[d] = arg[d]
        /\ UNCHANGED <<informers, startedInformers, todo, cur, owed, synced, closed>>
    BY <1>0, <1>11 DEF SyncReturns, Return, Goto, factoryVars, runVars, ghostVars
  <2> QED
    BY <1>0, <2>1 DEF SyncKnows, Knows, Registered
<1>12. ASSUME NEW g \in DOMAIN goroutines, Run(g)
       PROVE  SyncKnows'
  BY <1>12 DEF Run, RunSyncs, RunReturns, GoroutineDone, SyncKnows, Knows, Registered,
     factoryVars, callVars, ghostVars
<1>13. ASSUME NEW s \in Stops, CloseStop(s)
       PROVE  SyncKnows'
  BY <1>13 DEF CloseStop, SyncKnows, Knows, Registered, factoryVars, callVars, ghostVars
<1>14. CASE UNCHANGED vars
  BY <1>14 DEF vars, SyncKnows, Knows, Registered, factoryVars, runVars, callVars, ghostVars
<1> QED
  BY <1>2, <1>3, <1>4, <1>5, <1>6, <1>7, <1>8, <1>9, <1>10, <1>11, <1>12, <1>13, <1>14
  DEF Next, Proceed, StartStep, SyncStep

\* A client finds what it requested and started in the result of its next
\* WaitForCacheSync, no entry is made up, and an informer that was not started
\* has none (factory.go:158-177).
THEOREM SyncReportsTruly == Spec => []SyncReport
<1>1. SyncKnows => SyncReport
  BY DEF SyncKnows, Knows, SyncReport
<1> QED
  BY <1>1, Invariance, SyncInit, SyncNext, PTL DEF Spec

-----------------------------------------------------------------------------
(* The refinement of InformerLifecycle: which concrete steps are steps of    *)
(* which promise, all others leaving phases, channels and gate alone.        *)

\* The phase of a type depends only on its map entries and its goroutine.
LEMMA PhaseByGoroutine ==
  ASSUME IInv, NEW g \in DOMAIN goroutines
  PROVE  /\ goroutines[g].type \in Types
         /\ Phase(goroutines[g].type) = IF goroutines[g].at = "run" THEN "running" ELSE "stopped"
         /\ Channel(goroutines[g].type) = {goroutines[g].stop}
<1> DEFINE t == goroutines[g].type
<1>1. goroutines[g] \in Goroutine
  BY DEF IInv, TypeOK
<1>2. t \in Types
  BY <1>1 DEF Goroutine
<1>3. t \in startedInformers /\ informers[t] # 0
  BY DEF IInv, StartedByGoroutine, LoopsKnow, Registered
<1>4. \A h \in DOMAIN goroutines : goroutines[h].type = t => h = g
  BY DEF IInv, RunOnce
<1>5. (\E h \in Running : goroutines[h].type = t) <=> goroutines[g].at = "run"
  BY <1>4 DEF Running
<1>6. Channel(t) = {goroutines[g].stop}
  BY <1>4 DEF Channel
<1> QED
  BY <1>2, <1>3, <1>5, <1>6 DEF Phase

\* A type without a goroutine is absent or only requested.
LEMMA PhaseWithoutGoroutine ==
  ASSUME IInv, NEW t \in Types \ startedInformers
  PROVE  /\ Phase(t) = IF informers[t] = 0 THEN "absent" ELSE "requested"
         /\ Channel(t) = {}
<1>1. \A g \in DOMAIN goroutines : goroutines[g].type # t
  BY DEF IInv, StartedByGoroutine
<1>2. Channel(t) = {}
  BY <1>1 DEF Channel
<1>3. Phase(t) = IF informers[t] = 0 THEN "absent" ELSE "requested"
  BY DEF Phase
<1> QED
  BY <1>2, <1>3

LEMMA RefinesInit == Init => Lifecycle!Init
<1> SUFFICES ASSUME Init PROVE Lifecycle!Init
  OBVIOUS
<1>1. \A t \in Types : Phase(t) = "absent"
  BY DEF Init, Phase
<1>2. \A t \in Types : Channel(t) = {}
  BY DEF Init, Channel
<1>3. Gate = "open"
  BY DEF Init, Gate
<1> QED
  BY <1>1, <1>2, <1>3 DEF Init, Lifecycle!Init, PhaseOf, ChannelOf

LEMMA RefinesSame ==
  ASSUME UNCHANGED <<informers, startedInformers, goroutines>>
  PROVE  PhaseOf' = PhaseOf /\ ChannelOf' = ChannelOf
  BY DEF PhaseOf, ChannelOf, Phase, Channel, Running

LEMMA RefinesCreate ==
  ASSUME IInv, IInv', NEW c \in Clients, CreateInformer(c)
  PROVE  Lifecycle!Next
<1>1. PICK t \in Types : t = arg[c] /\ informers[t] = 0 /\ created[t] = 0
  BY DEF CreateInformer, IInv, ArgOK, CreatedOnce
<1>2. /\ informers' = [informers EXCEPT ![t] = 1]
      /\ UNCHANGED <<startedInformers, goroutines, shuttingDown, terminated, closed>>
  BY <1>1 DEF CreateInformer, IInv, TypeOK, runVars
<1>3. t \notin startedInformers
  BY <1>1 DEF IInv, LoopsKnow, Registered
<1>4. Phase(t) = "absent" /\ Phase(t)' = "requested"
  BY <1>1, <1>2, <1>3 DEF Phase, IInv, TypeOK
<1>5. \A u \in Types \ {t} : Phase(u)' = Phase(u)
  BY <1>2 DEF Phase, Running, IInv, TypeOK
<1>6. PhaseOf' = [PhaseOf EXCEPT ![t] = "requested"] /\ PhaseOf[t] = "absent"
  BY <1>4, <1>5 DEF PhaseOf
<1>7. ChannelOf' = ChannelOf /\ Gate' = Gate /\ closed' = closed
  BY <1>2 DEF ChannelOf, Channel, Gate
<1>8. Lifecycle!Request(t)
  BY <1>6, <1>7 DEF Lifecycle!Request, Lifecycle!Move
<1> QED
  BY <1>8 DEF Lifecycle!Next

LEMMA RefinesSpawn ==
  ASSUME IInv, IInv', NEW c \in Clients, NEW t \in Types, StartEach(c, t),
         t \notin startedInformers
  PROVE  Lifecycle!Next
<1> DEFINE r == [type |-> t, stop |-> arg[c], at |-> "run"]
           n == Len(goroutines) + 1
<1>1. /\ goroutines' = Append(goroutines, r)
      /\ startedInformers' = startedInformers \cup {t}
      /\ UNCHANGED <<informers, shuttingDown, terminated, closed>>
      /\ ~shuttingDown /\ t \in Registered /\ arg[c] \in Stops
  BY DEF StartEach, Spawn, IInv, LoopsKnow, ArgOK, ghostVars
<1>2. /\ DOMAIN goroutines' = DOMAIN goroutines \cup {n}
      /\ n \notin DOMAIN goroutines
      /\ \A g \in DOMAIN goroutines : goroutines'[g] = goroutines[g]
      /\ goroutines'[n] = r
  BY <1>1 DEF IInv, TypeOK
<1>3. Phase(t) = "requested" /\ Channel(t) = {}
  BY <1>1, PhaseWithoutGoroutine DEF Registered
<1>4. \A g \in DOMAIN goroutines : goroutines[g].type # t
  BY DEF IInv, StartedByGoroutine
<1>5. Phase(t)' = "running"
  <2>1. n \in Running' /\ goroutines'[n].type = t
    BY <1>2 DEF Running
  <2> QED
    BY <1>1, <2>1 DEF Phase, Registered
<1>6. Channel(t)' = {arg[c]}
  BY <1>2, <1>4 DEF Channel
<1>7. ASSUME NEW u \in Types, u # t
      PROVE  Phase(u)' = Phase(u) /\ Channel(u)' = Channel(u)
  <2>1. (\E g \in Running' : goroutines'[g].type = u)
          <=> (\E g \in Running : goroutines[g].type = u)
    BY <1>2, <1>7 DEF Running
  <2>2. Channel(u)' = Channel(u)
    BY <1>2, <1>7 DEF Channel
  <2> QED
    BY <1>1, <1>7, <2>1, <2>2 DEF Phase
<1>8. /\ PhaseOf[t] = "requested"
      /\ PhaseOf' = [PhaseOf EXCEPT ![t] = "running"]
      /\ ChannelOf' = [ChannelOf EXCEPT ![t] = {arg[c]}]
  BY <1>3, <1>5, <1>6, <1>7 DEF PhaseOf, ChannelOf
<1>9. Gate = "open" /\ Gate' = Gate
  BY <1>1 DEF Gate
<1>10. Lifecycle!Launch(t, arg[c])
  BY <1>1, <1>8, <1>9 DEF Lifecycle!Launch, Lifecycle!Move
<1> QED
  BY <1>1, <1>10 DEF Lifecycle!Next

\* A step of a goroutine to "done" or "gone" changes the phase of its type only.
LEMMA RefinesMove ==
  ASSUME IInv, IInv', NEW g \in DOMAIN goroutines, NEW a \in {"done", "gone"},
         goroutines' = [goroutines EXCEPT ![g].at = a],
         UNCHANGED <<informers, startedInformers>>
  PROVE  /\ PhaseOf' = [PhaseOf EXCEPT ![goroutines[g].type] = "stopped"]
         /\ ChannelOf' = ChannelOf
<1>0. goroutines[g] \in Goroutine
  BY DEF IInv, TypeOK
<1> PICK t \in Types : t = goroutines[g].type
  BY <1>0 DEF Goroutine
<1>1. /\ DOMAIN goroutines' = DOMAIN goroutines
      /\ \A h \in DOMAIN goroutines : /\ goroutines'[h].type = goroutines[h].type
                                      /\ goroutines'[h].stop = goroutines[h].stop
                                      /\ h # g => goroutines'[h].at = goroutines[h].at
      /\ goroutines'[g].at = a
  BY <1>0 DEF Goroutine
<1>2. Phase(t)' = "stopped"
  <2>1. \A h \in Running' : goroutines'[h].type # t
    BY <1>1 DEF Running, IInv, RunOnce
  <2>2. t \in startedInformers /\ informers[t] # 0
    BY DEF IInv, StartedByGoroutine, LoopsKnow, Registered
  <2> QED
    BY <2>1, <2>2 DEF Phase
<1>3. ASSUME NEW u \in Types, u # t
      PROVE  Phase(u)' = Phase(u)
  <2>1. (\E h \in Running' : goroutines'[h].type = u)
          <=> (\E h \in Running : goroutines[h].type = u)
    BY <1>1, <1>3 DEF Running
  <2> QED
    BY <2>1 DEF Phase
<1>4. ASSUME NEW u \in Types
      PROVE  Channel(u)' = Channel(u)
  BY <1>1 DEF Channel
<1> QED
  BY <1>2, <1>3, <1>4 DEF PhaseOf, ChannelOf

LEMMA RefinesRun ==
  ASSUME IInv, IInv', NEW g \in DOMAIN goroutines, Run(g)
  PROVE  [Lifecycle!Next]_(Lifecycle!vars)
<1> DEFINE t == goroutines[g].type
<1>1. t \in Types /\ Gate' = Gate /\ closed' = closed
  BY PhaseByGoroutine DEF Run, RunSyncs, RunReturns, GoroutineDone, factoryVars,
     ghostVars, Gate
<1>2. CASE RunSyncs(g)
  BY <1>1, <1>2, RefinesSame DEF RunSyncs, factoryVars, Lifecycle!vars
<1>3. CASE RunReturns(g)
  <2>1. PhaseOf' = [PhaseOf EXCEPT ![t] = "stopped"] /\ ChannelOf' = ChannelOf
    BY <1>3, RefinesMove DEF RunReturns, factoryVars
  <2>2. PhaseOf[t] = "running" /\ ChannelOf[t] \subseteq closed
    BY <1>1, <1>3, PhaseByGoroutine DEF RunReturns, PhaseOf, ChannelOf
  <2>3. Lifecycle!Stop(t)
    BY <1>1, <2>1, <2>2 DEF Lifecycle!Stop, Lifecycle!Move
  <2> QED
    BY <1>1, <2>3 DEF Lifecycle!Next
<1>4. CASE GoroutineDone(g)
  <2>1. PhaseOf' = [PhaseOf EXCEPT ![t] = "stopped"] /\ ChannelOf' = ChannelOf
    BY <1>4, RefinesMove DEF GoroutineDone
  <2>2. PhaseOf[t] = "stopped"
    BY <1>1, <1>4, PhaseByGoroutine DEF GoroutineDone, PhaseOf
  <2>3. PhaseOf' = PhaseOf
    BY <2>1, <2>2 DEF PhaseOf
  <2> QED
    BY <1>1, <2>1, <2>3 DEF Lifecycle!vars
<1> QED
  BY <1>2, <1>3, <1>4 DEF Run

LEMMA RefinesShutdown ==
  ASSUME IInv, IInv', NEW c \in Clients, ShutdownStep(c)
  PROVE  [Lifecycle!Next]_(Lifecycle!vars)
<1>1. PhaseOf' = PhaseOf /\ ChannelOf' = ChannelOf /\ closed' = closed
  BY RefinesSame DEF ShutdownStep, MarkShuttingDown, ShutdownReturns, factoryVars, runVars
<1>2. CASE MarkShuttingDown(c)
  <2>1. CASE shuttingDown
    BY <1>1, <1>2, <2>1 DEF MarkShuttingDown, Gate, ghostVars, Lifecycle!vars
  <2>2. CASE ~shuttingDown
    <3>1. Gate = "open" /\ Gate' = "closing"
      BY <1>2, <2>2 DEF MarkShuttingDown, Gate, ghostVars, IInv, ShutdownIsFinal
    <3> QED
      BY <1>1, <3>1 DEF Lifecycle!Next, Lifecycle!BeginShutdown
  <2> QED
    BY <2>1, <2>2
<1>3. CASE ShutdownReturns(c)
  <2>1. shuttingDown /\ shuttingDown' = shuttingDown /\ terminated'
    BY <1>3 DEF ShutdownReturns, IInv, LoopsKnow, factoryVars
  <2>2. CASE terminated
    BY <1>1, <2>1, <2>2 DEF Gate, Lifecycle!vars, IInv, TypeOK
  <2>3. CASE ~terminated
    <3>1. Gate = "closing" /\ Gate' = "closed"
      BY <2>1, <2>3 DEF Gate
    <3>2. Running = {}
      <4>1. Alive' = {} /\ goroutines' = goroutines
        BY <1>3, <2>1 DEF ShutdownReturns, runVars, IInv, ShutdownIsFinal
      <4> QED
        BY <4>1 DEF Alive, Running
    <3>3. \A t \in Types : PhaseOf[t] # "running"
      BY <3>2 DEF PhaseOf, Phase
    <3> QED
      BY <1>1, <3>1, <3>3 DEF Lifecycle!Next, Lifecycle!EndShutdown
  <2> QED
    BY <2>2, <2>3
<1> QED
  BY <1>2, <1>3 DEF ShutdownStep

LEMMA RefinesNext ==
  IInv /\ IInv' /\ [Next]_vars => [Lifecycle!Next]_(Lifecycle!vars)
<1> SUFFICES ASSUME IInv, IInv', [Next]_vars
             PROVE  [Lifecycle!Next]_(Lifecycle!vars)
  OBVIOUS
<1>1. CASE UNCHANGED <<informers, startedInformers, goroutines, shuttingDown,
                       terminated, closed>>
  BY <1>1, RefinesSame DEF Gate, Lifecycle!vars
<1>2. ASSUME NEW s \in Stops, CloseStop(s)
      PROVE  Lifecycle!Next
  <2>1. PhaseOf' = PhaseOf /\ ChannelOf' = ChannelOf /\ Gate' = Gate
    BY <1>2, RefinesSame DEF CloseStop, factoryVars, ghostVars, Gate
  <2> QED
    BY <1>2, <2>1 DEF CloseStop, Lifecycle!Next, Lifecycle!Close
<1>3. ASSUME NEW c \in Clients, NEW t \in Types, StartEach(c, t)
      PROVE  [Lifecycle!Next]_(Lifecycle!vars)
  <2>1. CASE t \in startedInformers
    BY <1>1, <1>3, <2>1 DEF StartEach, ghostVars
  <2> QED
    BY <1>3, <2>1, RefinesSpawn
<1> QED
  BY <1>1, <1>2, <1>3, RefinesCreate, RefinesRun, RefinesShutdown
  DEF Next, Begin, CallInformerFor, CallStart, CallShutdown, CallWaitForCacheSync,
     Call, Acquire, Proceed, InformerForStep, InformerExists, InformerMissing,
     StartStep, StartRefused, StartProceeds, StartReturns, SyncStep,
     SnapshotStarted, NextInformer, PollInformer, SyncCompletes, SyncReturns,
     factoryVars, runVars, ghostVars, vars

\* The factory keeps the promises of its doc comments: it implements
\* InformerLifecycle under the mapping PhaseOf, ChannelOf, Gate.
THEOREM FactoryImplementsLifecycle == Spec => ImplementsLifecycle
  BY Invariance, RefinesInit, RefinesNext, PTL
  DEF Spec, ImplementsLifecycle, Lifecycle!Spec
===========================================================================
