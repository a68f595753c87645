-------------------------- MODULE CatalogScanProofs --------------------------
(* What the runs show of CatalogScan for two scans, for any number of runs   *)
(* and any SBOM.                                                             *)
EXTENDS CatalogScan, SequenceTheorems, TLAPS

LEMMA InitIInv == Init => IInv
<1> SUFFICES ASSUME Init PROVE IInv
  OBVIOUS
<1> USE ScanAssumption DEF Init, None, Killed, Scanning, Raising, Ended
<1>1. TypeOK
  <2>1. overlapped \in BOOLEAN
    BY Zenon
  <2> QED
    BY <2>1 DEF TypeOK, Issue
<1>2. ScriptKnows /\ ExitCodes
  BY DEF ScriptKnows, ExitCodes, Scannable
<1>3. IssuesByGreenRuns /\ IssuesTellFindings /\ GreenIsAnAnswer
  BY DEF IssuesByGreenRuns, IssuesTellFindings, GreenIsAnAnswer
<1> QED
  BY <1>1, <1>2, <1>3 DEF IInv

\* A comment, like closing, leaves a list of issues of the same length.
LEMMA Commented ==
    ASSUME NEW s \in Seq(Issue), NEW i \in DOMAIN s, NEW r \in Runs
    PROVE  /\ [s EXCEPT ![i].by = @ \cup {r}] \in Seq(Issue)
           /\ Len([s EXCEPT ![i].by = @ \cup {r}]) = Len(s)
<1>1. i \in 1..Len(s) /\ s[i] \in Issue
  OBVIOUS
<1>2. [s[i] EXCEPT !.by = @ \cup {r}] \in Issue
  BY <1>1 DEF Issue
<1>3. [s EXCEPT ![i].by = @ \cup {r}] = [s EXCEPT ![i] = [s[i] EXCEPT !.by = @ \cup {r}]]
  OBVIOUS
<1> QED
  BY <1>1, <1>2, <1>3, ExceptSeq

LEMMA Closed ==
    ASSUME NEW s \in Seq(Issue), NEW i \in DOMAIN s
    PROVE  /\ [s EXCEPT ![i].open = FALSE] \in Seq(Issue)
           /\ Len([s EXCEPT ![i].open = FALSE]) = Len(s)
<1>1. i \in 1..Len(s) /\ s[i] \in Issue
  OBVIOUS
<1>2. [s[i] EXCEPT !.open = FALSE] \in Issue
  BY <1>1 DEF Issue
<1>3. [s EXCEPT ![i].open = FALSE] = [s EXCEPT ![i] = [s[i] EXCEPT !.open = FALSE]]
  OBVIOUS
<1> QED
  BY <1>1, <1>2, <1>3, ExceptSeq

\* Every action but Post and those of the world leaves the issues alone and
\* changes the data of one run only.
LEMMA StepIInv == IInv /\ [Next]_vars => IInv'
<1> SUFFICES ASSUME IInv, [Next]_vars PROVE IInv'
  OBVIOUS
<1> USE ScanAssumption
<1> USE DEF IInv, TypeOK, ScriptKnows, ExitCodes, IssuesByGreenRuns,
            IssuesTellFindings, GreenIsAnAnswer, Scannable, Tells,
            None, Killed, Scanning, Raising, Ended, Goto, Exit, scan
<1>1. ASSUME NEW r \in Runs, Begin(r) PROVE IInv'
  BY <1>1 DEF Begin
<1>2. ASSUME NEW r \in Runs, ReadComponents(r) PROVE IInv'
  <2>1. CASE components[r] = {}
    <3>1. /\ pc[r] = "read"
          /\ pc' = [pc EXCEPT ![r] = "verdict"]
          /\ code' = [code EXCEPT ![r] = 2]
          /\ UNCHANGED <<sbom, advised, issues, scan, report, raised, existing, overlapped>>
      BY <1>2, <2>1 DEF ReadComponents
    <3> QED
      BY <3>1
  <2>2. CASE components[r] # {}
    <3>1. /\ pc[r] = "read"
          /\ pc' = [pc EXCEPT ![r] = "resolve"]
          /\ UNCHANGED <<sbom, advised, issues, scan, report, raised, code, existing, overlapped>>
      BY <1>2, <2>2 DEF ReadComponents
    <3> QED
      BY <2>2, <3>1
  <2> QED
    BY <2>1, <2>2
<1>3. ASSUME NEW r \in Runs, ResolveRuntimeVersions(r) PROVE IInv'
  <2>1. TypeOK'
    BY <1>3 DEF ResolveRuntimeVersions
  <2>2. ScriptKnows'
    BY <1>3 DEF ResolveRuntimeVersions
  <2>3. ExitCodes'
    BY <1>3 DEF ResolveRuntimeVersions
  <2>4. IssuesByGreenRuns'
    BY <1>3 DEF ResolveRuntimeVersions
  <2>5. IssuesTellFindings'
    BY <1>3 DEF ResolveRuntimeVersions
  <2>6. GreenIsAnAnswer'
    BY <1>3 DEF ResolveRuntimeVersions
  <2> QED
    BY <2>1, <2>2, <2>3, <2>4, <2>5, <2>6
<1>4. ASSUME NEW r \in Runs, Unreachable(r) PROVE IInv'
  BY <1>4 DEF Unreachable, Networked
<1>5. ASSUME NEW r \in Runs, NEW S \in SUBSET Components, Query(r, S) PROVE IInv'
  BY <1>5 DEF Query
<1>6. ASSUME NEW r \in Runs, NEW c \in Components, NEW ok \in BOOLEAN,
             FetchDetails(r, c, ok)
      PROVE  IInv'
  BY <1>6 DEF FetchDetails
<1>7. ASSUME NEW r \in Runs, OpenReport(r) \/ WriteReport(r) PROVE IInv'
  <2>1. CASE OpenReport(r)
    <3>1. /\ pc[r] = "details" /\ todo[r] = {}
          /\ report' = [report EXCEPT ![r] = "partial"]
          /\ pc' = [pc EXCEPT ![r] = "write"]
          /\ UNCHANGED <<sbom, advised, issues, scan, raised, code, existing, overlapped>>
      BY <2>1 DEF OpenReport
    <3>2. findings[r] = hits[r]
      <4>1. findings[r] \cup todo[r] = hits[r]
        BY <3>1
      <4> HIDE DEF IInv
      <4> QED
        BY <3>1, <4>1
    <3>3. TypeOK' /\ ScriptKnows'
      BY <3>1
    <3>4. ExitCodes'
      BY <3>1, <3>2
    <3>5. IssuesByGreenRuns' /\ IssuesTellFindings' /\ GreenIsAnAnswer'
      BY <3>1
    <3> QED
      BY <3>3, <3>4, <3>5
  <2>2. CASE WriteReport(r)
    <3>1. /\ pc[r] = "write"
          /\ report' = [report EXCEPT ![r] = "whole"]
          /\ pc' = [pc EXCEPT ![r] = "print"]
          /\ UNCHANGED <<sbom, advised, issues, scan, raised, code, existing, overlapped>>
      BY <2>2 DEF WriteReport
    <3>2. TypeOK' /\ ScriptKnows'
      BY <3>1
    <3>3. ExitCodes'
      BY <3>1
    <3>4. IssuesByGreenRuns' /\ IssuesTellFindings' /\ GreenIsAnAnswer'
      BY <3>1
    <3> QED
      BY <3>2, <3>3, <3>4
  <2> QED
    BY <1>7, <2>1, <2>2
<1>8. ASSUME NEW r \in Runs, Finish(r) PROVE IInv'
  <2>1. /\ pc[r] = "print" /\ report[r] = "whole"
        /\ pc' = [pc EXCEPT ![r] = "verdict"]
        /\ code' = [code EXCEPT ![r] = IF findings[r] # {} THEN 1 ELSE 0]
        /\ UNCHANGED <<sbom, advised, issues, scan, report, raised, existing, overlapped>>
    BY <1>8 DEF Finish
  <2>2. findings[r] = hits[r] /\ components[r] # {} /\ Scannable(r)
    BY <2>1
  <2>3. CASE findings[r] # {}
    <3>1. code' = [code EXCEPT ![r] = 1]
      BY <2>1, <2>3
    <3> QED
      BY <2>1, <2>2, <2>3, <3>1
  <2>4. CASE findings[r] = {}
    <3>1. code' = [code EXCEPT ![r] = 0]
      BY <2>1, <2>4
    <3> QED
      BY <2>1, <2>2, <2>4, <3>1
  <2> QED
    BY <2>3, <2>4
<1>9. ASSUME NEW r \in Runs, NEW n \in {1, Killed}, Crash(r, n) PROVE IInv'
  BY <1>9 DEF Crash
<1>10. ASSUME NEW r \in Runs, Judge(r) PROVE IInv'
  BY <1>10 DEF Judge
<1>11. ASSUME NEW r \in Runs, ListIssues(r) PROVE IInv'
  <2>1. TypeOK'
    <3>1. existing' \in [Runs -> 0..Len(issues)]
      <4>1. Open \subseteq 1..Len(issues)
        BY DEF Open
      <4>2. existing \in [Runs -> 0..Len(issues)] /\ UNCHANGED issues /\ Len(issues) \in Nat
        BY <1>11 DEF ListIssues
      <4>3. PICK n \in {0} \cup Open : existing' = [existing EXCEPT ![r] = n]
        BY <1>11 DEF ListIssues
      <4>4. n \in 0..Len(issues)
        BY <4>1, <4>2
      <4> HIDE DEF IInv, Open
      <4> QED
        BY <4>2, <4>3, <4>4
    <3>2. pc' \in [Runs -> {"off", "verdict"} \cup Scanning \cup Raising \cup Ended]
      BY <1>11 DEF ListIssues
    <3>3. UNCHANGED <<sbom, advised, issues, scan, report, raised, code, overlapped>>
      BY <1>11 DEF ListIssues
    <3> QED
      BY <3>1, <3>2, <3>3
  <2>2. ScriptKnows'
    BY <1>11 DEF ListIssues, Open
  <2>3. ExitCodes'
    BY <1>11 DEF ListIssues, Open
  <2>4. IssuesByGreenRuns'
    BY <1>11 DEF ListIssues, Open
  <2>5. IssuesTellFindings'
    BY <1>11 DEF ListIssues, Open
  <2>6. GreenIsAnAnswer'
    BY <1>11 DEF ListIssues, Open
  <2> QED
    BY <2>1, <2>2, <2>3, <2>4, <2>5, <2>6
<1>12. ASSUME NEW r \in Runs, WriteBody(r) PROVE IInv'
  BY <1>12 DEF WriteBody
<1>13. ASSUME NEW r \in Runs, Post(r) PROVE IInv'
  <2>1. TypeOK'
    <3>1. issues' \in Seq(Issue) /\ Len(issues') >= Len(issues)
      <4>1. CASE existing[r] # 0
        <5>1. issues \in Seq(Issue) /\ existing[r] \in DOMAIN issues
          BY <4>1
        <5>2. issues' = [issues EXCEPT ![existing[r]].by = @ \cup {r}]
          BY <1>13, <4>1 DEF Post
        <5>3. /\ [issues EXCEPT ![existing[r]].by = @ \cup {r}] \in Seq(Issue)
              /\ Len([issues EXCEPT ![existing[r]].by = @ \cup {r}]) = Len(issues)
          <6> HIDE DEF IInv
          <6> QED
            BY <5>1, Commented
        <5> QED
          BY <5>1, <5>2, <5>3
      <4>2. CASE existing[r] = 0
        <5>1. [open |-> TRUE, by |-> {r}] \in Issue
          BY DEF Issue
        <5>2. issues' = Append(issues, [open |-> TRUE, by |-> {r}])
          BY <1>13, <4>2 DEF Post
        <5> QED
          BY <5>1, <5>2
      <4> QED
        BY <4>1, <4>2
    <3>2. pc' \in [Runs -> {"off", "verdict"} \cup Scanning \cup Raising \cup Ended]
      BY <1>13 DEF Post
    <3>3. UNCHANGED <<sbom, advised, scan, report, raised, code, existing, overlapped>>
      BY <1>13 DEF Post
    <3> QED
      BY <3>1, <3>2, <3>3
  <2>2. ScriptKnows'
    BY <1>13 DEF Post
  <2>3. ExitCodes'
    BY <1>13 DEF Post
  <2>4. IssuesByGreenRuns'
    BY <1>13 DEF Post
  <2>5. IssuesTellFindings'
    BY <1>13 DEF Post
  <2>6. GreenIsAnAnswer'
    <3>1. \E i \in DOMAIN issues' : r \in issues'[i].by
      <4>1. CASE existing[r] # 0
        <5>1. existing[r] \in DOMAIN issues' /\ r \in issues'[existing[r]].by
          BY <1>13, <4>1 DEF Post
        <5> QED
          BY <5>1
      <4>2. CASE existing[r] = 0
        <5>1. Len(issues') \in DOMAIN issues' /\ r \in issues'[Len(issues')].by
          BY <1>13, <4>2 DEF Post
        <5> QED
          BY <5>1
      <4> QED
        BY <4>1, <4>2
    <3>2. \A i \in DOMAIN issues : i \in DOMAIN issues' /\ issues[i].by \subseteq issues'[i].by
      BY <1>13 DEF Post
    <3>3. \A q \in Runs : q # r => pc'[q] = pc[q]
      BY <1>13 DEF Post
    <3>4. UNCHANGED <<scan, code>>
      BY <1>13 DEF Post
    <3>5. ASSUME NEW q \in Runs, q # r, pc'[q] = "green"
          PROVE  \/ code[q] = 0 /\ components[q] # {} /\ hits[q] = {} /\ Scannable(q)
                 \/ \E i \in DOMAIN issues : q \in issues[i].by
                 \/ code[q] = Killed
      BY <3>3, <3>5
    <3>6. ASSUME NEW q \in Runs, q # r, \E i \in DOMAIN issues : q \in issues[i].by
          PROVE  \E i \in DOMAIN issues' : q \in issues'[i].by
      BY <3>2, <3>6
    <3>7. ASSUME NEW q \in Runs, pc'[q] = "green"
          PROVE  \/ code'[q] = 0 /\ components'[q] # {} /\ hits'[q] = {} /\ Scannable(q)'
                 \/ \E i \in DOMAIN issues' : q \in issues'[i].by
                 \/ code'[q] = Killed
      <4>1. CASE q = r
        BY <3>1, <4>1
      <4>2. CASE q # r
        <5>1. \/ code[q] = 0 /\ components[q] # {} /\ hits[q] = {} /\ Scannable(q)
              \/ \E i \in DOMAIN issues' : q \in issues'[i].by
              \/ code[q] = Killed
          BY <3>5, <3>6, <3>7, <4>2
        <5> QED
          BY <3>4, <5>1
      <4> QED
        BY <4>1, <4>2
    <3> QED
      BY <3>7
  <2> QED
    BY <2>1, <2>2, <2>3, <2>4, <2>5, <2>6
<1>14. ASSUME NEW r \in Runs, Fail(r) PROVE IInv'
  BY <1>14 DEF Fail
<1>15. ASSUME NEW c \in Components, Publish(c) PROVE IInv'
  BY <1>15 DEF Publish
<1>16. ASSUME NEW S \in SUBSET Components, MergeSbom(S) PROVE IInv'
  BY <1>16 DEF MergeSbom
<1>17. ASSUME NEW i \in DOMAIN issues, CloseIssue(i) PROVE IInv'
  <2>1. TypeOK'
    <3>1. issues' \in Seq(Issue) /\ Len(issues') = Len(issues)
      BY <1>17, Closed DEF CloseIssue
    <3>2. UNCHANGED <<sbom, advised, pc, scan, report, raised, code, existing, overlapped>>
      BY <1>17 DEF CloseIssue
    <3> QED
      BY <3>1, <3>2
  <2>2. ScriptKnows'
    BY <1>17 DEF CloseIssue, Open
  <2>3. ExitCodes'
    BY <1>17 DEF CloseIssue, Open
  <2>4. IssuesByGreenRuns'
    BY <1>17 DEF CloseIssue, Open
  <2>5. IssuesTellFindings'
    BY <1>17 DEF CloseIssue, Open
  <2>6. GreenIsAnAnswer'
    <3>1. \A j \in DOMAIN issues : j \in DOMAIN issues' /\ issues'[j].by = issues[j].by
      BY <1>17 DEF CloseIssue, Open
    <3>2. UNCHANGED <<pc, scan, code>>
      BY <1>17 DEF CloseIssue
    <3>3. ASSUME NEW q \in Runs, \E j \in DOMAIN issues : q \in issues[j].by
          PROVE  \E j \in DOMAIN issues' : q \in issues'[j].by
      BY <3>1, <3>3
    <3> QED
      BY <3>2, <3>3
  <2> QED
    BY <2>1, <2>2, <2>3, <2>4, <2>5, <2>6
<1>18. CASE UNCHANGED vars
  BY <1>18 DEF vars
<1> HIDE DEF IInv, Scanning, Raising, Ended
<1> QED
  BY <1>1, <1>2, <1>3, <1>4, <1>5, <1>6, <1>7, <1>9, <1>10, <1>11, <1>12, <1>13,
     <1>14, <1>15, <1>16, <1>17, <1>18, <1>8 DEF Next, Script, Workflow

-----------------------------------------------------------------------------
(* Scans that do not overlap: the invariant that keeps one issue open.       *)

LEMMA InitOneAtATime == Init => OneAtATime
  BY DEF Init, OneAtATime, OneOpenIssue, Open, Active, Ended

\* Only ListIssues, Post and CloseIssue touch what OneAtATime says of issues;
\* every other action moves one run between steps that are not about them.
LEMMA StepOneAtATime == IInv /\ OneAtATime /\ [Next]_vars => OneAtATime'
<1> SUFFICES ASSUME IInv, OneAtATime, [Next]_vars, ~overlapped'
             PROVE  /\ \A q, r \in Runs : Active(q)' /\ Active(r)' => q = r
                    /\ \A r \in Runs :
                          pc'[r] \in {"body", "post"} /\ existing'[r] = 0 => Open' = {}
                    /\ OneOpenIssue'
  BY DEF OneAtATime
<1> DEFINE Alone   == \A q, r \in Runs : Active(q) /\ Active(r) => q = r
           Looked  == \A r \in Runs :
                        pc[r] \in {"body", "post"} /\ existing[r] = 0 => Open = {}
<1>0. ~overlapped
  BY DEF Next, vars, Begin, Script, ReadComponents, ResolveRuntimeVersions,
         Unreachable, Query, FetchDetails, OpenReport, WriteReport, Finish, Crash, Workflow, Judge,
         ListIssues, WriteBody, Post, Fail, Publish, MergeSbom, CloseIssue
<1>1. Alone /\ Looked /\ OneOpenIssue
  BY <1>0 DEF OneAtATime
<1>2. pc \in [Runs -> {"off", "verdict"} \cup Scanning \cup Raising \cup Ended]
      /\ existing \in [Runs -> 0..Len(issues)] /\ issues \in Seq(Issue)
  BY DEF IInv, TypeOK
<1>3. ASSUME NEW r \in Runs, Begin(r) PROVE Alone' /\ Looked' /\ OneOpenIssue'
  BY <1>1, <1>2, <1>3 DEF Begin, Goto, Active, Open, OneOpenIssue, Ended, Scanning, Raising
<1>4. ASSUME NEW r \in Runs, Script(r) PROVE Alone' /\ Looked' /\ OneOpenIssue'
  <2>1. /\ pc[r] \in Scanning
        /\ pc' = pc \/ \E p \in Scanning \cup {"verdict"} : pc' = [pc EXCEPT ![r] = p]
        /\ UNCHANGED <<issues, existing>>
    <3> USE <1>4 DEF Scanning, Goto, Exit
    <3>1. CASE ReadComponents(r)
      BY <3>1 DEF ReadComponents
    <3>2. CASE ResolveRuntimeVersions(r)
      BY <3>2 DEF ResolveRuntimeVersions
    <3>3. CASE Unreachable(r)
      BY <3>3 DEF Unreachable, Networked
    <3>4. CASE \E S \in SUBSET Components : Query(r, S)
      BY <3>4 DEF Query
    <3>5. CASE \E c \in Components, ok \in BOOLEAN : FetchDetails(r, c, ok)
      BY <3>5 DEF FetchDetails
    <3>6. CASE OpenReport(r) \/ WriteReport(r) \/ Finish(r)
      BY <3>6 DEF OpenReport, WriteReport, Finish
    <3>7. CASE \E n \in {1, Killed} : Crash(r, n)
      BY <3>7 DEF Crash
    <3> QED
      BY <3>1, <3>2, <3>3, <3>4, <3>5, <3>6, <3>7 DEF Script
  <2> QED
    BY <1>1, <1>2, <2>1 DEF Active, Open, OneOpenIssue, Ended, Scanning, Raising
<1>5. ASSUME NEW r \in Runs, Judge(r) \/ WriteBody(r) \/ Fail(r)
      PROVE  Alone' /\ Looked' /\ OneOpenIssue'
  <2>1. /\ pc[r] \notin {"off"} \cup Ended
        /\ \E p \in {"list", "post"} \cup Ended :
              /\ pc' = [pc EXCEPT ![r] = p]
              /\ p = "post" => pc[r] = "body"
        /\ UNCHANGED <<issues, existing>>
    BY <1>5 DEF Judge, WriteBody, Fail, Goto, Ended, Scanning, Raising
  <2> QED
    BY <1>1, <1>2, <2>1 DEF Active, Open, OneOpenIssue, Ended, Scanning, Raising
<1>6. ASSUME NEW r \in Runs, ListIssues(r) PROVE Alone' /\ Looked' /\ OneOpenIssue'
  <2>1. /\ pc[r] = "list" /\ pc' = [pc EXCEPT ![r] = "body"]
        /\ UNCHANGED issues
        /\ \A q \in Runs : q # r => existing'[q] = existing[q]
        /\ Open = {} \/ existing'[r] \in Open
    BY <1>2, <1>6 DEF ListIssues, Goto
  <2>2. Open' = Open /\ 0 \notin Open
    BY <1>2, <2>1 DEF Open
  <2> QED
    BY <1>1, <1>2, <2>1, <2>2 DEF Active, OneOpenIssue, Ended, Scanning, Raising
<1>7. ASSUME NEW r \in Runs, Post(r) PROVE Alone' /\ Looked' /\ OneOpenIssue'
  <2>1. /\ pc[r] = "post" /\ pc' = [pc EXCEPT ![r] = "green"]
        /\ UNCHANGED existing
    BY <1>7 DEF Post, Goto
  <2>2. Alone' /\ \A q \in Runs : pc'[q] \notin {"body", "post"}
    BY <1>1, <1>2, <2>1 DEF Active, Ended
  <2>3. OneOpenIssue'
    <3>1. CASE existing[r] # 0
      <4>1. Open' = Open
        BY <1>2, <1>7, <3>1 DEF Post, Open
      <4> QED
        BY <1>1, <4>1 DEF OneOpenIssue
    <3>2. CASE existing[r] = 0
      <4>1. Open = {}
        BY <1>1, <2>1, <3>2
      <4>2. issues' = Append(issues, [open |-> TRUE, by |-> {r}])
        BY <1>7, <3>2 DEF Post
      <4>3. Open' = {Len(issues) + 1}
        BY <1>2, <4>1, <4>2 DEF Open
      <4> QED
        BY <4>3 DEF OneOpenIssue
    <3> QED
      BY <3>1, <3>2
  <2> QED
    BY <2>2, <2>3
<1>8. ASSUME NEW c \in Components, Publish(c) PROVE Alone' /\ Looked' /\ OneOpenIssue'
  BY <1>1, <1>8 DEF Publish, Active, Open, OneOpenIssue
<1>9. ASSUME NEW S \in SUBSET Components, MergeSbom(S)
      PROVE  Alone' /\ Looked' /\ OneOpenIssue'
  BY <1>1, <1>9 DEF MergeSbom, Active, Open, OneOpenIssue
<1>10. ASSUME NEW i \in DOMAIN issues, CloseIssue(i)
       PROVE  Alone' /\ Looked' /\ OneOpenIssue'
  <2>1. Open' \subseteq Open
    BY <1>2, <1>10 DEF CloseIssue, Open
  <2>2. UNCHANGED <<pc, existing>>
    BY <1>10 DEF CloseIssue
  <2> QED
    BY <1>1, <2>1, <2>2 DEF Active, OneOpenIssue
<1>11. CASE UNCHANGED vars
  BY <1>1, <1>11 DEF vars, Active, Open, OneOpenIssue
<1> QED
  BY <1>3, <1>4, <1>5, <1>6, <1>7, <1>8, <1>9, <1>10, <1>11 DEF Next, Workflow

-----------------------------------------------------------------------------
\* The invariant, of every behaviour of the script and the workflow.
THEOREM Invariance == Spec => []IInv
  BY InitIInv, StepIInv, PTL DEF Spec

\* A job is green only for an answer, or when the script was killed.
THEOREM GreenJobs == Spec => []GreenIsAnAnswer
<1>1. IInv => GreenIsAnAnswer
  BY DEF IInv
<1> QED
  BY <1>1, Invariance, PTL

\* A script that raised before it had its findings never writes to an issue,
\* although it exits with the same code; and what is written is the complete
\* list, never empty, of every script that did not raise in its last lines.
THEOREM CompleteIssues == Spec => []IssuesTellFindings
<1>1. IInv => IssuesTellFindings
  BY DEF IInv
<1> QED
  BY <1>1, Invariance, PTL

\* Without overlapping runs at most one issue is open, however many runs there
\* are and whenever a maintainer closes it.
THEOREM ReusedIssue == Spec => []OneAtATime
  BY Invariance, InitOneAtATime, StepOneAtATime, PTL DEF Spec
=============================================================================
