------------------------ MODULE EarthquakeSourceProofs ------------------------
(* What the earthquake route delivers while it runs, for any events, any     *)
(* look-ahead and any length of time: each version once, and no gap between  *)
(* two polls. That updates arrive at all is liveness, left to the model      *)
(* checker.                                                                  *)
EXTENDS EarthquakeSource, TLAPS

-----------------------------------------------------------------------------
\* No event was updated, and no time cached, after now; and what was handed
\* over is no newer than the cached time.
Past ==
    /\ \A e \in Events : updated[e] <= clock
    /\ cache <= clock
    /\ cache = NoTime => sent \cup lost = {}
    /\ \A v \in sent \cup lost : v[2] <= cache

\* What a poll asks for goes on from the cached time, if there is one.
Asked == pc \in {"query", "put"} => cache \in {NoTime, since}

\* An answer holds what was updated after the time asked for and before the
\* answer; later revisions do not change it.
Answered ==
    pc = "put" =>
        /\ generated \in 0..clock /\ cache <= generated
        /\ \A v \in body : since < v[2] /\ v[2] <= generated
        /\ \A e \in Happened :
               since < updated[e] /\ updated[e] <= generated => Version(e) \in body

\* While it is split it is part of what the cached time stands for; before the
\* next answer there is nothing to split.
Splitting ==
    /\ pc \in {"idle", "query"} => body = {}
    /\ pc = "split" =>
           /\ cache # NoTime
           /\ body \cap (sent \cup lost) = {}
           /\ \A v \in body : v[2] <= cache

\* Up to the cached time everything was handed over, or is being split.
HandedOver ==
    cache # NoTime =>
        \A e \in Happened :
            updated[e] > origin /\ updated[e] <= cache
                => Version(e) \in sent \cup lost \cup (IF pc = "split" THEN body ELSE {})

IInv == TypeOK /\ Past /\ Asked /\ Answered /\ Splitting /\ HandedOver

-----------------------------------------------------------------------------
\* At the beginning nothing was asked for and nothing has happened.
LEMMA Initially == Init => IInv
BY EarthquakeAssumption
   DEF Init, IInv, TypeOK, Past, Asked, Answered, Splitting, HandedOver, NoTime, Times,
       Happened

\* The types of what the steps compare.
LEMMA Typed ==
    ASSUME TypeOK
    PROVE  /\ LookAhead \in Nat /\ MaxTime \in Nat
           /\ clock \in 0..MaxTime
           /\ NoTime \in Int /\ NoTime < 0 /\ NoTime < -LookAhead
           /\ since \in NoTime..MaxTime /\ generated \in NoTime..MaxTime
           /\ cache \in NoTime..MaxTime /\ origin \in NoTime..MaxTime
           /\ \A e \in Events : updated[e] \in 0..MaxTime
           /\ \A v \in body \cup sent \cup lost : v[2] \in 1..MaxTime
<1>1. LookAhead \in Nat /\ MaxTime \in Nat
  BY EarthquakeAssumption
<1>2. NoTime \in Int /\ NoTime < 0 /\ NoTime < -LookAhead
  BY <1>1 DEF NoTime
<1>3. /\ clock \in 0..MaxTime
      /\ since \in NoTime..MaxTime /\ generated \in NoTime..MaxTime
      /\ cache \in NoTime..MaxTime /\ origin \in NoTime..MaxTime
      /\ \A e \in Events : updated[e] \in 0..MaxTime
  BY DEF TypeOK, Times
<1>4. \A v \in body \cup sent \cup lost : v[2] \in 1..MaxTime
  BY DEF TypeOK
<1> QED  BY <1>1, <1>2, <1>3, <1>4

-----------------------------------------------------------------------------
\* The timer takes the cached time, or looks ahead before now.
LEMMA FireStep == ASSUME IInv, Fire PROVE IInv'
<1>1. /\ pc = "idle" /\ pc' = "query"
      /\ since' = IF cache # NoTime THEN cache ELSE clock - LookAhead
      /\ UNCHANGED <<clock, updated, generated, body, cache, origin, sent, lost>>
  BY DEF Fire, world, history
<1>2. since' \in Times
  BY <1>1, Typed DEF IInv, Times
<1>3. TypeOK'
  BY <1>1, <1>2 DEF IInv, TypeOK
<1> QED
  BY <1>1, <1>3 DEF IInv, Past, Asked, Answered, Splitting, HandedOver, Happened, Version

\* The answer is what UpdatedAfter says, and its time is now.
LEMMA QueryStep == ASSUME IInv, Query PROVE IInv'
<1>1. /\ pc = "query" /\ pc' = "put"
      /\ body' = UpdatedAfter(since) /\ generated' = clock
      /\ UNCHANGED <<clock, updated, since, cache, origin, sent, lost>>
  BY DEF Query, world, history
<1>2. \A v \in body' :
          \E e \in Events : v = <<e, updated[e]>> /\ updated[e] > 0 /\ updated[e] > since
  BY <1>1 DEF UpdatedAfter, Happened, Version
<1>3. \A v \in body' :
          v \in Events \X (1..MaxTime) /\ since < v[2] /\ v[2] <= clock
  <2>1. \A e \in Events : updated[e] \in 0..MaxTime /\ updated[e] <= clock
    BY Typed DEF IInv, Past
  <2> QED  BY <1>2, <2>1
<1>4. \A e \in Happened : since < updated[e] => Version(e) \in body'
  BY <1>1 DEF UpdatedAfter
<1>5. TypeOK'
  <2>1. generated' \in Times
    BY <1>1, Typed DEF IInv, Times
  <2> QED  BY <1>1, <1>3, <2>1 DEF IInv, TypeOK
<1>6. Answered'
  <2>1. generated' \in 0..clock /\ cache <= generated'
    BY <1>1, Typed DEF IInv, Past
  <2> QED  BY <1>1, <1>3, <1>4, <2>1 DEF Answered, Happened, Version
<1> QED
  BY <1>1, <1>5, <1>6 DEF IInv, Past, Asked, Splitting, HandedOver, Happened, Version

\* A query that fails leaves everything as it was, also the cached time.
LEMMA QueryFailsStep == ASSUME IInv, QueryFails PROVE IInv'
BY DEF QueryFails, world, exchange, history, IInv, TypeOK, Past, Asked, Answered,
       Splitting, HandedOver, Happened, Version

\* With the time of the answer in the cache, what is older than that has been
\* handed over, as it is older than the time asked for, or is in the answer.
LEMMA PutStep == ASSUME IInv, Put PROVE IInv'
<1>1. /\ pc = "put" /\ pc' = "split"
      /\ cache' = generated /\ origin' = IF cache = NoTime THEN since ELSE origin
      /\ UNCHANGED <<clock, updated, since, generated, body, sent, lost>>
  BY DEF Put, world, exchange
<1>2. /\ generated \in 0..clock /\ cache <= generated
      /\ \A v \in body : since < v[2] /\ v[2] <= generated
      /\ \A e \in Happened :
             since < updated[e] /\ updated[e] <= generated => Version(e) \in body
      /\ cache = NoTime \/ cache = since
  BY <1>1 DEF IInv, Answered, Asked
<1>3. generated # NoTime
  BY <1>2, Typed DEF IInv
<1>4. TypeOK'
  BY <1>1 DEF IInv, TypeOK
<1>5. Past'
  <2>1. cache' <= clock
    BY <1>1, <1>2, Typed DEF IInv
  <2>2. \A v \in sent \cup lost : v[2] <= cache'
    BY <1>1, <1>2, Typed DEF IInv, Past
  <2> QED  BY <1>1, <1>3, <2>1, <2>2 DEF IInv, Past
<1>6. Splitting'
  <2>1. ASSUME NEW v \in body, v \in sent \cup lost PROVE FALSE
    <3>1. cache = since /\ v[2] <= cache
      BY <1>2, <2>1 DEF IInv, Past
    <3> QED  BY <1>2, <2>1, <3>1, Typed DEF IInv
  <2> QED  BY <1>1, <1>2, <1>3, <2>1 DEF Splitting
<1>7. HandedOver'
  <2> SUFFICES ASSUME NEW e \in Happened, updated[e] > origin', updated[e] <= generated
               PROVE  Version(e) \in sent \cup lost \cup body
    BY <1>1 DEF HandedOver, Happened, Version
  <2>1. e \in Events /\ updated[e] \in 0..MaxTime
    BY Typed DEF IInv, Happened
  <2>2. CASE since < updated[e]
    BY <1>2, <2>2
  <2>3. CASE ~(since < updated[e])
    <3>1. cache # NoTime /\ cache = since /\ origin' = origin
      BY <1>1, <1>2, <2>3, <2>1, Typed DEF IInv
    <3>2. updated[e] <= cache
      BY <2>1, <2>3, <3>1, Typed DEF IInv
    <3> QED  BY <1>1, <3>1, <3>2 DEF IInv, HandedOver
  <2> QED  BY <2>2, <2>3
<1> QED  BY <1>1, <1>4, <1>5, <1>6, <1>7 DEF IInv, Asked, Answered

\* What is handed over leaves the answer, whether the sink takes it or not.
LEMMA DeliverStep ==
    ASSUME IInv, NEW v \in body, NEW ok \in BOOLEAN, Deliver(v, ok)
    PROVE  IInv'
<1>1. /\ pc = "split" /\ body' = body \ {v}
      /\ sent' \cup lost' = sent \cup lost \cup {v}
      /\ sent' \subseteq sent \cup {v} /\ lost' \subseteq lost \cup {v}
      /\ UNCHANGED <<clock, updated, pc, since, generated, cache, origin>>
  BY DEF Deliver, world
<1>2. /\ cache # NoTime /\ body \cap (sent \cup lost) = {}
      /\ \A w \in body : w[2] <= cache
  BY <1>1 DEF IInv, Splitting
<1>3. TypeOK'
  BY <1>1 DEF IInv, TypeOK
<1>4. Past' /\ Splitting'
  BY <1>1, <1>2 DEF IInv, Past, Splitting
<1>5. HandedOver'
  BY <1>1 DEF IInv, HandedOver, Happened, Version
<1> QED  BY <1>1, <1>3, <1>4, <1>5 DEF IInv, Asked, Answered

\* At the end of the split everything in the answer was handed over.
LEMMA SplitEndsStep == ASSUME IInv, SplitEnds PROVE IInv'
BY DEF SplitEnds, world, exchange, history, IInv, TypeOK, Past, Asked, Answered,
       Splitting, HandedOver, Happened, Version

\* A restart forgets all of it.
LEMMA RestartStep == ASSUME IInv, Restart PROVE IInv'
<1>1. NoTime \in Times /\ NoTime <= clock
  BY Typed DEF IInv, Times
<1> QED
  BY <1>1 DEF Restart, world, IInv, TypeOK, Past, Asked, Answered, Splitting, HandedOver

\* An update is newer than the cached time and than any answer.
LEMMA UpdateStep == ASSUME IInv, NEW e \in Events, Update(e) PROVE IInv'
<1>1. /\ clock < MaxTime /\ clock' = clock + 1
      /\ updated' = [updated EXCEPT ![e] = clock + 1]
      /\ UNCHANGED <<pc, since, generated, body, cache, origin, sent, lost>>
  BY DEF Update, exchange, history
<1>2. clock + 1 \in 1..MaxTime /\ updated \in [Events -> 0..MaxTime]
  BY <1>1, Typed DEF IInv, TypeOK
<1>3. /\ updated'[e] = clock + 1
      /\ \A f \in Events \ {e} : updated'[f] = updated[f]
  BY <1>1, <1>2
<1>4. TypeOK'
  BY <1>1, <1>2 DEF IInv, TypeOK
<1>5. Past'
  BY <1>1, <1>3, Typed DEF IInv, Past
<1>6. ASSUME NEW f \in Happened', updated'[f] <= clock
      PROVE  f \in Happened /\ updated'[f] = updated[f] /\ Version(f)' = Version(f)
  BY <1>2, <1>3, <1>6, Typed DEF IInv, Happened, Version
<1>7. Answered'
  <2> SUFFICES ASSUME pc = "put" PROVE Answered'
    BY <1>1 DEF Answered
  <2>1. generated \in 0..clock
    BY DEF IInv, Answered
  <2>2. generated' \in 0..clock'
    BY <1>1, <2>1, Typed DEF IInv
  <2>3. ASSUME NEW f \in Happened', updated'[f] <= generated
        PROVE  updated'[f] <= clock
    BY <2>1, <2>3, <1>2, <1>3, Typed DEF IInv, Happened
  <2> QED  BY <1>1, <1>6, <2>2, <2>3 DEF IInv, Answered
<1>8. HandedOver'
  <2>1. ASSUME NEW f \in Happened', updated'[f] <= cache
        PROVE  updated'[f] <= clock
    BY <2>1, <1>2, <1>3, Typed DEF IInv, Happened, Past
  <2> QED  BY <1>1, <1>6, <2>1 DEF IInv, HandedOver
<1> QED  BY <1>1, <1>4, <1>5, <1>7, <1>8 DEF IInv, Asked, Splitting

\* Time changes nothing.
LEMMA PassStep == ASSUME IInv, Pass PROVE IInv'
<1>1. /\ clock < MaxTime /\ clock' = clock + 1
      /\ UNCHANGED <<updated, pc, since, generated, body, cache, origin, sent, lost>>
  BY DEF Pass, exchange, history
<1>2. clock' \in 0..MaxTime /\ clock <= clock'
  BY <1>1, Typed DEF IInv
<1>3. TypeOK' /\ Past'
  BY <1>1, <1>2, Typed DEF IInv, TypeOK, Past
<1>4. Answered'
  <2>1. \A t \in 0..clock : t \in 0..clock'
    BY <1>2, Typed DEF IInv
  <2> QED  BY <1>1, <2>1 DEF IInv, Answered, Happened, Version
<1> QED
  BY <1>1, <1>3, <1>4 DEF IInv, Asked, Splitting, HandedOver, Happened, Version

-----------------------------------------------------------------------------
\* Every step preserves the invariant.
LEMMA Inductive == IInv /\ [Next]_vars => IInv'
<1> SUFFICES ASSUME IInv, [Next]_vars PROVE IInv'
  OBVIOUS
<1>1. CASE Route
  BY <1>1, FireStep, QueryStep, QueryFailsStep, PutStep, DeliverStep, SplitEndsStep
     DEF Route
<1>2. CASE Restart \/ Pass \/ \E e \in Events : Update(e)
  BY <1>2, RestartStep, PassStep, UpdateStep
<1>3. CASE UNCHANGED vars
  BY <1>3 DEF vars, world, exchange, history, IInv, TypeOK, Past, Asked, Answered,
              Splitting, HandedOver, Happened, Version
<1> QED  BY <1>1, <1>2, <1>3 DEF Next

\* The invariant holds in every state, whatever polls and deliveries fail and
\* whenever the integration restarts.
THEOREM Invariance == Spec => []IInv
<1> QED  BY Initially, Inductive, PTL DEF Spec

\* The times stay times, and what is handed over are versions of events.
THEOREM TypeCorrectness == Spec => []TypeOK
<1>1. IInv => TypeOK
  BY DEF IInv
<1> QED  BY <1>1, Invariance, PTL

\* While the integration runs no version is handed over twice: an answer holds
\* only what is newer than everything handed over before
\* (earthquake-source.kamelet.yaml: the cached lastUpdate is asked for).
THEOREM Repeats == Spec => []NoRepeat
<1>1. IInv => NoRepeat
  <2> SUFFICES ASSUME IInv, pc = "put", NEW v \in body, v \in sent \cup lost
               PROVE  FALSE
    BY DEF IInv, NoRepeat, Splitting
  <2>1. cache = since /\ v[2] <= cache /\ since < v[2]
    BY DEF IInv, Past, Asked, Answered
  <2> QED  BY <2>1, Typed DEF IInv
<1> QED  BY <1>1, Invariance, PTL

\* There is no gap between two polls: the time that is cached is that of the
\* answer, so that the next poll starts where the answer ended.
THEOREM Gaps == Spec => []NoGap
<1>1. IInv => NoGap
  BY DEF IInv, HandedOver, NoGap
<1> QED  BY <1>1, Invariance, PTL
=============================================================================
