--------------------------- MODULE EarthquakeSource ---------------------------
(* The route of kamelets/earthquake-source.kamelet.yaml. A timer fires it;   *)
(* it asks the USGS API for the events updated since the last answer, keeps  *)
(* the time of the new answer in an in-memory cache and hands the events one *)
(* by one to the sink. The API, the timer and the splitter's error handling  *)
(* are Camel's: a failed query ends the exchange, a failed delivery does not *)
(* keep the splitter from the remaining events.                              *)
EXTENDS Integers

CONSTANTS
    Events,     \* earthquakes, numbered by the time they happened (orderby)
    LookAhead,  \* the lookAhead property, in units of the clock
    MaxTime     \* bound on the clock

ASSUME EarthquakeAssumption ==
    Events \subseteq Nat /\ LookAhead \in Nat /\ MaxTime \in Nat

VARIABLES
    clock,      \* time, of the API and of the integration
    updated,    \* when the API last updated an event, 0 if it has not happened
    pc,         \* the step the exchange is at; "idle" between two firings
    since,      \* exchange property lastUpdate, as the query uses it
    generated,  \* exchange property generated
    body,       \* event versions the splitter has not delivered yet
    cache,      \* key lastUpdate of the cache, NoTime if absent
    origin,     \* since of the first answer of this run of the integration
    sent,       \* event versions delivered in this run ...
    lost        \* ... and those whose delivery failed

exchange == <<since, generated, body>>
history  == <<origin, sent, lost>>
world    == <<clock, updated>>
vars     == <<world, pc, exchange, cache, history>>

NoTime == -LookAhead - 1
Times  == NoTime..MaxTime

\* Event e as the API describes it now: a later update is another version.
Version(e) == <<e, updated[e]>>
Happened   == {e \in Events : updated[e] > 0}
UpdatedAfter(t) == {Version(e) : e \in {f \in Happened : updated[f] > t}}

Init ==
    /\ clock = 0
    /\ updated = [e \in Events |-> 0]
    /\ pc = "idle"
    /\ since = NoTime
    /\ generated = NoTime
    /\ body = {}
    /\ cache = NoTime
    /\ origin = NoTime
    /\ sent = {}
    /\ lost = {}

-----------------------------------------------------------------------------
\* Mutant: LookAhead is taken in another unit.
FireSeconds ==
    /\ pc = "idle"
    /\ since' = IF cache # NoTime THEN cache ELSE clock - 60 * LookAhead
    /\ pc' = "query"
    /\ UNCHANGED <<world, generated, body, cache, history>>

\* Mutant: the header that tells a hit from a miss is not looked at.
FireAfresh ==
    /\ pc = "idle"
    /\ since' = clock - LookAhead
    /\ pc' = "query"
    /\ UNCHANGED <<world, generated, body, cache, history>>

\* The timer fires; the cached time, if there is one, is where to go on from,
\* and LookAhead before now otherwise.
Fire ==
    /\ pc = "idle"
    /\ since' = IF cache # NoTime THEN cache ELSE clock - LookAhead
    /\ pc' = "query"
    /\ UNCHANGED <<world, generated, body, cache, history>>

\* The API answers; the answer says when it was generated.
Query ==
    /\ pc = "query"
    /\ body' = UpdatedAfter(since)
    /\ generated' = clock
    /\ pc' = "put"
    /\ UNCHANGED <<world, since, cache, history>>

\* The API does not answer, or not with JSON: the exchange ends.
QueryFails ==
    /\ pc = "query"
    /\ pc' = "idle"
    /\ UNCHANGED <<world, exchange, cache, history>>

\* Mutant: the time is cached at which the route is done with the answer.
PutNow ==
    /\ pc = "put"
    /\ cache' = clock
    /\ origin' = IF cache = NoTime THEN since ELSE origin
    /\ pc' = "split"
    /\ UNCHANGED <<world, exchange, sent, lost>>

\* The time of the answer is cached before any of its events is delivered.
Put ==
    /\ pc = "put"
    /\ cache' = generated
    /\ origin' = IF cache = NoTime THEN since ELSE origin
    /\ pc' = "split"
    /\ UNCHANGED <<world, exchange, sent, lost>>

\* kamelet:sink takes the next event in the order of the answer, or fails; the
\* split goes on.
Deliver(v, ok) ==
    /\ pc = "split"
    /\ \A w \in body : v[1] <= w[1]
    /\ body' = body \ {v}
    /\ IF ok THEN sent' = sent \cup {v} /\ UNCHANGED lost
             ELSE lost' = lost \cup {v} /\ UNCHANGED sent
    /\ UNCHANGED <<world, pc, since, generated, cache, origin>>

\* Mutant: a failed delivery ends the split.
SplitStops ==
    /\ pc = "split"
    /\ body = {} \/ lost # {}
    /\ body' = {}
    /\ pc' = "idle"
    /\ UNCHANGED <<world, since, generated, cache, history>>

SplitEnds ==
    /\ pc = "split"
    /\ body = {}
    /\ pc' = "idle"
    /\ UNCHANGED <<world, exchange, cache, history>>

\* The integration is stopped or dies and starts again, with an empty cache.
Restart ==
    /\ pc' = "idle"
    /\ since' = NoTime
    /\ generated' = NoTime
    /\ body' = {}
    /\ cache' = NoTime
    /\ origin' = NoTime
    /\ sent' = {}
    /\ lost' = {}
    /\ UNCHANGED world

\* The API learns of an event or revises it. No two updates have one time.
Update(e) ==
    /\ clock < MaxTime
    /\ clock' = clock + 1
    /\ updated' = [updated EXCEPT ![e] = clock']
    /\ UNCHANGED <<pc, exchange, cache, history>>

Pass ==
    /\ clock < MaxTime
    /\ clock' = clock + 1
    /\ UNCHANGED <<updated, pc, exchange, cache, history>>

Route ==
    \/ Fire \/ Query \/ QueryFails \/ Put
    \/ \E v \in body, ok \in BOOLEAN : Deliver(v, ok)
    \/ SplitEnds
Next  == Route \/ Restart \/ (\E e \in Events : Update(e)) \/ Pass

Spec == Init /\ [][Next]_vars

\* The timer fires again and again and an exchange goes through its steps; an
\* API that is asked again and again answers at some time.
FairSpec == Spec /\ WF_vars(Route) /\ SF_vars(Query)

-----------------------------------------------------------------------------
TypeOK ==
    /\ clock \in 0..MaxTime
    /\ updated \in [Events -> 0..MaxTime]
    /\ pc \in {"idle", "query", "put", "split"}
    /\ {since, generated, cache, origin} \subseteq Times
    /\ body \subseteq Events \X (1..MaxTime)
    /\ sent \subseteq Events \X (1..MaxTime)
    /\ lost \subseteq Events \X (1..MaxTime)

\* While the integration runs no version of an event is handed over twice,
\* whichever polls fail and however revisions interleave with them.
NoRepeat == pc \in {"put", "split"} => body \cap (sent \cup lost) = {}

\* There is no gap between two polls: what the API had updated when it gave
\* its last answer was delivered, is about to be, or failed to be. Failed
\* deliveries are not retried, and what is older than LookAhead before the
\* first answer of a run is not asked for.
NoGap ==
    cache # NoTime =>
        \A e \in Happened :
            updated[e] > origin /\ updated[e] <= cache
                => Version(e) \in sent \cup lost \cup body

\* Once the API has answered, every later update is handed to the sink (or
\* fails there), unless another one supersedes it or the integration restarts.
UpdatesArrive ==
    \A e \in Events, t \in 1..MaxTime :
        (cache # NoTime /\ cache < t /\ updated[e] = t)
            ~> (<<e, t>> \in sent \cup lost \/ updated[e] # t \/ cache = NoTime)
===========================================================================
