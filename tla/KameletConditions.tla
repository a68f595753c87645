--------------------------- MODULE KameletConditions ---------------------------
(* The condition list of KameletStatus                                       *)
(* (crds/pkg/apis/camel/v1/kamelet_types_support.go:67-140): SetCondition,   *)
(* SetErrorCondition, the variadic SetConditions loop and RemoveCondition,   *)
(* called one after the other by a controller while the clock goes on. Each  *)
(* metav1.Now() is a read of the clock, which is never set back; time 0 is   *)
(* Go's zero time. Callers of SetConditions may give times of their own,     *)
(* past or future. LastUpdateTime is treated like LastTransitionTime but for *)
(* KeepTransition and nothing reads it; messages follow the reason: both are *)
(* left out.                                                                 *)
EXTENDS Integers, Sequences, FiniteSets

CONSTANTS
    Types,      \* condition types
    Reasons,    \* reasons a condition may carry
    GivenTimes, \* times callers of SetConditions write, 0 to leave them out
    MaxTime,    \* bound: the clock stops here
    MaxBatch    \* bound: conditions passed to one SetConditions call

ASSUME BoundsAssumption ==
    /\ MaxTime \in Nat \ {0} /\ MaxBatch \in Nat \ {0}
    /\ GivenTimes \subseteq 0..MaxTime

VARIABLES
    conditions, \* in.Conditions
    clock,      \* what metav1.Now() reads
    pc,         \* "idle", "building", "setting" or "returned"
    batch,      \* the conditions of the call in progress
    next,       \* index of the loop's next condition
    before      \* in.Conditions when the call began

vars == <<conditions, clock, pc, batch, next, before>>

Statuses  == {"True", "False"}
Times     == 0..MaxTime
\* KameletCondition; origin is a ghost: does the transition time stem from
\* metav1.Now() or from a caller of SetConditions?
Condition == [type : Types, status : Statuses, reason : Reasons,
              lastTransitionTime : Times, origin : {"now", "caller"}]

\* A condition as it is written down, with a transition time or a zero one.
Written(t, s, r, time) ==
    [type |-> t, status |-> s, reason |-> r, lastTransitionTime |-> time,
     origin |-> IF time = 0 THEN "now" ELSE "caller"]
Provided == {Written(t, s, r, time) :
                t \in Types, s \in Statuses, r \in Reasons, time \in GivenTimes}

TypesOf(list)    == {list[i].type : i \in DOMAIN list}
OfType(list, t)  == {i \in DOMAIN list : list[i].type = t}

\* GetCondition's result, the first one of the type, as a set: empty stands for nil.
GetCondition(list, t) ==
    {list[i] : i \in {j \in OfType(list, t) : \A k \in OfType(list, t) : j <= k}}

\* The elements at the indices I, in their order.
Kept(list, I) ==
    LET place(i) == Cardinality({j \in I : j <= i})
    IN  [n \in 1..Cardinality(I) |-> list[CHOOSE i \in I : place(i) = n]]

\* Mutant: everything behind the removed condition goes with it.
TruncateAtCondition(list, t) ==
    Kept(list, {i \in DOMAIN list : \A j \in OfType(list, t) : i < j})

\* All but those of the type stay.
RemoveCondition(list, t) == Kept(list, DOMAIN list \ OfType(list, t))

Init ==
    /\ conditions = <<>>
    /\ clock = 1
    /\ pc = "idle"
    /\ batch = <<>>
    /\ next = 1
    /\ before = <<>>

-----------------------------------------------------------------------------
Tick ==
    /\ clock < MaxTime
    /\ clock' = clock + 1
    /\ UNCHANGED <<conditions, pc, batch, next, before>>

Begin(list, at) ==
    /\ pc = "idle"
    /\ pc' = at
    /\ batch' = list
    /\ next' = 1
    /\ before' = conditions
    /\ UNCHANGED <<conditions, clock>>

\* SetConditions with any conditions, their times given or left zero.
CallSetConditions ==
    \E n \in 1..MaxBatch : \E list \in [1..n -> Provided] : Begin(list, "setting")

\* SetCondition and SetErrorCondition build one condition, and read the clock
\* for it before they call SetConditions.
CallSetCondition(t, s, r) == Begin(<<Written(t, s, r, 0)>>, "building")

\* Mutant: the status is not one of corev1.ConditionStatus.
CallSetErrorStatus(t, r) == CallSetCondition(t, "Error", r)

CallSetErrorCondition(t, r) == CallSetCondition(t, "False", r)

BuildTransitionTime ==
    /\ pc = "building"
    /\ batch' = [batch EXCEPT ![1].lastTransitionTime = clock]
    /\ pc' = "setting"
    /\ UNCHANGED <<conditions, clock, next, before>>

\* A zero time becomes the current time; a caller's is kept.
Stamped(c, now) == [c EXCEPT !.lastTransitionTime = IF @ = 0 THEN now ELSE @]

\* Mutant: the transition time is always updated.
NewTransition(c, current) == c

\* "Do not update lastTransitionTime if the status of the condition doesn't
\* change."
KeepTransition(c, current) ==
    IF \E d \in current : d.status = c.status
    THEN LET d == CHOOSE d \in current : TRUE
         IN  [c EXCEPT !.lastTransitionTime = d.lastTransitionTime, !.origin = d.origin]
    ELSE c

\* Mutant: only the status is compared.
SetSameStatus ==
    /\ pc = "setting"
    /\ next <= Len(batch)
    /\ \E d \in GetCondition(conditions, batch[next].type) :
          d.status = batch[next].status
    /\ pc' = "returned"
    /\ UNCHANGED <<conditions, clock, batch, next, before>>

\* A condition with the same status and reason ends the whole call: the loop
\* body returns.
SetUnchanged ==
    /\ pc = "setting"
    /\ next <= Len(batch)
    /\ \E d \in GetCondition(conditions, batch[next].type) :
          d.status = batch[next].status /\ d.reason = batch[next].reason
    /\ pc' = "returned"
    /\ UNCHANGED <<conditions, clock, batch, next, before>>

\* Mutant: the old condition of the type is not removed.
SetAppended(now) ==
    /\ pc = "setting"
    /\ next <= Len(batch)
    /\ LET c == Stamped(batch[next], now)
           current == GetCondition(conditions, c.type)
       IN  /\ ~\E d \in current : d.status = c.status /\ d.reason = c.reason
           /\ conditions' = Append(conditions, KeepTransition(c, current))
    /\ clock' = now
    /\ next' = next + 1
    /\ UNCHANGED <<pc, batch, before>>

\* Any other one replaces the condition of its type, at the end of the list.
SetChanged(now) ==
    /\ pc = "setting"
    /\ next <= Len(batch)
    /\ LET c == Stamped(batch[next], now)
           current == GetCondition(conditions, c.type)
       IN  /\ ~\E d \in current : d.status = c.status /\ d.reason = c.reason
           /\ conditions' = Append(RemoveCondition(conditions, c.type),
                                   KeepTransition(c, current))
    /\ clock' = now
    /\ next' = next + 1
    /\ UNCHANGED <<pc, batch, before>>

SetCompletes ==
    /\ pc = "setting"
    /\ next > Len(batch)
    /\ pc' = "returned"
    /\ UNCHANGED <<conditions, clock, batch, next, before>>

Return ==
    /\ pc = "returned"
    /\ pc' = "idle"
    /\ batch' = <<>>
    /\ next' = 1
    /\ before' = <<>>
    /\ UNCHANGED <<conditions, clock>>

CallRemoveCondition(t) ==
    /\ pc = "idle"
    /\ conditions' = RemoveCondition(conditions, t)
    /\ UNCHANGED <<clock, pc, batch, next, before>>

Next ==
    \/ Tick
    \/ CallSetConditions
    \/ \E t \in Types, s \in Statuses, r \in Reasons : CallSetCondition(t, s, r)
    \/ \E t \in Types, r \in Reasons : CallSetErrorCondition(t, r)
    \/ BuildTransitionTime
    \/ SetUnchanged
    \/ \E now \in clock..MaxTime : SetChanged(now)
    \/ SetCompletes
    \/ Return
    \/ \E t \in Types : CallRemoveCondition(t)

Spec == Init /\ [][Next]_vars

-----------------------------------------------------------------------------
TypeOK ==
    /\ conditions \in Seq(Condition)
    /\ clock \in 1..MaxTime
    /\ pc \in {"idle", "building", "setting", "returned"}
    /\ batch \in Seq(Condition)
    /\ next \in 1..MaxBatch + 1
    /\ before \in Seq(Condition)

\* At most one condition per type, whatever sequence of calls and of repeated
\* types within one call built the list: the loop removes all of a type before
\* it appends (kamelet_types_support.go:125-126).
OneConditionPerType ==
    \A i, j \in DOMAIN conditions : conditions[i].type = conditions[j].type => i = j

\* "Do not update lastTransitionTime if the status of the condition doesn't
\* change" (kamelet_types_support.go:120): while a type stays in the list its
\* transition time moves only with its status. It goes back only where a caller
\* of SetConditions gave the old time (in the future) or the new one (in the
\* past): the code takes either as it is, and never a stale one of its own.
TransitionTimeFollowsStatus ==
    [][\A i \in DOMAIN conditions, j \in DOMAIN conditions' :
          LET c == conditions[i]
              d == conditions'[j]
          IN  c.type = d.type =>
                IF c.status = d.status
                THEN d.lastTransitionTime = c.lastTransitionTime
                ELSE \/ d.lastTransitionTime >= c.lastTransitionTime
                     \/ "caller" \in {c.origin, d.origin}]_conditions

\* The conditions of the types the call in progress is not about.
Others(list) == Kept(list, {i \in DOMAIN list : list[i].type \notin TypesOf(batch)})

\* A SetConditions call leaves the conditions of all types it was not given
\* alone, and in their order.
OthersUntouched == pc = "returned" => Others(conditions) = Others(before)

\* The condition a call leaves for the n-th provided condition, unless a later
\* one of the same type overrides it.
Applied(n) ==
    (\A m \in n + 1..next - 1 : batch[m].type # batch[n].type)
        => \E d \in GetCondition(conditions, batch[n].type) :
              d.status = batch[n].status /\ d.reason = batch[n].reason

\* A call that returns has applied every condition in front of the one that
\* stopped it, and that one is already in the list: what its callers may count
\* on (compare AllApplied).
PrefixApplied ==
    pc = "returned" =>
        /\ \A n \in 1..next - 1 : Applied(n)
        /\ next <= Len(batch) =>
              \E d \in GetCondition(conditions, batch[next].type) :
                  d.status = batch[next].status /\ d.reason = batch[next].reason

\* "SetConditions updates the resource to include the provided conditions":
\* when the call returns, each provided type has the status and reason that was
\* provided for it last. Not so: the loop returns at the first unchanged one.
AllApplied ==
    pc = "returned" =>
        \A n \in DOMAIN batch :
            (\A m \in n + 1..Len(batch) : batch[m].type # batch[n].type)
                => \E d \in GetCondition(conditions, batch[n].type) :
                      d.status = batch[n].status /\ d.reason = batch[n].reason
===========================================================================
