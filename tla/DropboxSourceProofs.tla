------------------------- MODULE DropboxSourceProofs -------------------------
(* What the runs show of DropboxSource for two paths, for any set of paths   *)
(* and any number of uploads.                                                *)
EXTENDS DropboxSource, TLAPS

LEMMA InitIInv == Init => IInv
<1> SUFFICES ASSUME Init PROVE IInv
  OBVIOUS
<1> USE DropboxAssumption DEF Init
<1>1. TypeOK
  BY DEF TypeOK, Steps
<1>2. VersionsGrow /\ DeletingConsumed /\ DeletedAfterConsumed
  BY DEF VersionsGrow, NewestThere, DeletingConsumed, DeletedAfterConsumed
<1>3. ConsumedInFolder /\ RepeatedOnlyIfKept
  BY DEF ConsumedInFolder, RepeatedOnlyIfKept
<1>4. OwedAhead /\ TodoInSplit /\ EveryPollDelivers
  BY DEF OwedAhead, TodoInSplit, EveryPollDelivers
<1> QED
  BY <1>1, <1>2, <1>3, <1>4 DEF IInv

LEMMA StepIInv == IInv /\ [Next]_vars => IInv'
<1> SUFFICES ASSUME IInv, [Next]_vars PROVE IInv'
  OBVIOUS
<1> USE DropboxAssumption
<1> USE DEF IInv, TypeOK, Steps, VersionsGrow, NewestThere, DeletingConsumed,
            DeletedAfterConsumed, ConsumedInFolder, RepeatedOnlyIfKept,
            OwedAhead, TodoInSplit, EveryPollDelivers,
            split, history
<1>1. CASE Search
  BY <1>1 DEF Search, Present
<1>2. ASSUME NEW f \in Files, NextFile(f) PROVE IInv'
  BY <1>2 DEF NextFile
<1>3. CASE SplitEnds
  BY <1>3 DEF SplitEnds
<1>4. CASE Get
  BY <1>4 DEF Get
<1>5. CASE Deliver
  BY <1>5 DEF Deliver
<1>6. CASE Delete
  \* What is deleted is the consumed version or one that replaced it.
  <2>1. CASE deleteAfterRead /\ folder[file] # 0
    <3>1. /\ deleted' = deleted \cup {Deletion}
          /\ folder' = [folder EXCEPT ![file] = 0]
          /\ pc = "delete" /\ pc' = "split" /\ accepted' = 0
          /\ UNCHANGED <<deleteAfterRead, uploads, todo, file, body, owed, consumed, kept>>
      BY <1>6, <2>1 DEF Delete
    <3>2. /\ <<file, body>> \in consumed /\ accepted = body
          /\ body \in 1..folder[file] /\ folder[file] \in 1..MaxVersion
      BY <1>6, <2>1 DEF Delete
    <3>3. Deletion \in [file : Files, version : 1..MaxVersion, accepted : 0..MaxVersion]
      BY <3>2 DEF Deletion
    <3>4. TypeOK'
      BY <3>3, <3>1, <3>2
    <3>5. DeletedAfterConsumed'
      <4>1. ASSUME NEW d \in deleted \cup {Deletion}
            PROVE  d.accepted # 0 /\ <<d.file, d.accepted>> \in consumed
                   /\ d.accepted <= d.version
        <5>1. CASE d \in deleted
          BY <5>1
        <5>2. CASE d = Deletion
          <6>1. d.file = file /\ d.version = folder[file] /\ d.accepted = body
            BY <3>2, <5>2 DEF Deletion
          <6> QED
            BY <3>2, <6>1
        <5> QED
          BY <4>1, <5>1, <5>2
      <4> QED
        BY <3>1, <4>1
    <3>6. (VersionsGrow /\ DeletingConsumed)'
      BY <3>1
    <3>7. (ConsumedInFolder /\ RepeatedOnlyIfKept)'
      BY <3>1
    <3>8. (OwedAhead /\ TodoInSplit /\ EveryPollDelivers)'
      BY <2>1, <3>1
    <3> QED
      BY <3>4, <3>5, <3>6, <3>7, <3>8
  <2>2. CASE ~(deleteAfterRead /\ folder[file] # 0)
    BY <1>6, <2>2 DEF Delete
  <2> QED
    BY <2>1, <2>2
<1>7. CASE PartFails
  BY <1>7 DEF PartFails
<1>8. CASE Restart
  BY <1>8 DEF Restart
<1>9. ASSUME NEW f \in Files, Upload(f) PROVE IInv'
  BY <1>9 DEF Upload
<1>10. ASSUME NEW f \in Files, Remove(f) PROVE IInv'
  BY <1>10 DEF Remove
<1>11. CASE UNCHANGED vars
  BY <1>11 DEF vars
<1> QED
  BY <1>1, <1>2, <1>3, <1>4, <1>5, <1>6, <1>7, <1>8, <1>9, <1>10, <1>11
  DEF Next, Route

\* Every reachable state satisfies the inductive invariant.
THEOREM Invariance == Spec => []IInv
  BY InitIInv, StepIInv, PTL DEF Spec

\* What is deleted was accepted by the sink in the same part of the split, or
\* replaced such a version since its download, for any folder (the order of
\* "dropbox get", kamelet:sink and "operation: del").
THEOREM FilesAreConsumedFirst == Spec => []DeletedAfterConsumed
<1>1. IInv => DeletedAfterConsumed
  BY DEF IInv
<1> QED
  BY <1>1, Invariance, PTL

\* Only failed deletions and restarts hand a version over twice, for any folder
\* and any number of uploads.
THEOREM RepeatsWereKept == Spec => []RepeatedOnlyIfKept
<1>1. IInv => RepeatedOnlyIfKept
  BY DEF IInv
<1> QED
  BY <1>1, Invariance, PTL

\* A poll that is over owes no file: for any folder, it has handed over all that
\* its search found but what failed, was removed or died with the integration.
THEOREM PollsDeliver == Spec => []EveryPollDelivers
<1>1. IInv => EveryPollDelivers
  BY DEF IInv
<1> QED
  BY <1>1, Invariance, PTL
===========================================================================
