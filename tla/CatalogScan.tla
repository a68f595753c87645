------------------------------ MODULE CatalogScan ------------------------------
(* script/security/scan_catalog_dependencies.py and the workflow that runs   *)
(* it, .github/workflows/catalog-dependency-scan.yml: the script reads the   *)
(* SBOM, asks Maven for the newest Camel release and OSV for advisories, and *)
(* tells its verdict by the exit code, of which the workflow makes a failed  *)
(* job, a comment on the open issue, a new issue, or nothing. An exception   *)
(* that nobody catches also exits with 1, the code for "something is found". *)
EXTENDS Integers, Sequences

CONSTANTS
    Runs,        \* runs of the workflow, scheduled and dispatched
    Components,  \* artifacts an SBOM may list
    Runtime      \* those versioned by the runtime: the Camel components

ASSUME ScanAssumption == Runtime \subseteq Components

VARIABLES
    sbom,       \* components in the SBOM on the main branch
    advised,    \* components OSV has an advisory for
    issues,     \* issues with the workflow's title: is it open, and who wrote it
    pc,         \* step a run is at
    components, \* what it read from the SBOM it checked out
    resolved,   \* the runs that set the version to scan of the Camel components
    hits,       \* components with advisories, of those OSV answered it about
    todo,       \* hits whose details it has not fetched yet
    findings,   \* hits it will report
    report,     \* report.md: none, partial (from open() on) or whole
    raised,     \* the runs whose script ended in an exception or a signal
    code,       \* exit code of the script, None before
    existing,   \* issue it will comment on, 0 to create one
    overlapped  \* did a run ever begin while another one was under way?

scan == <<components, resolved, hits, todo, findings>>
vars == <<sbom, advised, issues, pc, scan, report, raised, code, existing,
          overlapped>>

None   == -1
Killed == 137    \* stands for every code but 0, 1 and 2: a signal, no python3
Scanning == {"read", "resolve", "query", "details", "write", "print"}
Raising  == {"list", "body", "post"}
Ended    == {"green", "red"}

Open == {i \in DOMAIN issues : issues[i].open}

Init ==
    /\ sbom = Components
    /\ advised \in SUBSET Components
    /\ issues = <<>>
    /\ pc = [r \in Runs |-> "off"]
    /\ components = [r \in Runs |-> {}]
    /\ resolved = {}
    /\ hits = [r \in Runs |-> {}]
    /\ todo = [r \in Runs |-> {}]
    /\ findings = [r \in Runs |-> {}]
    /\ report = [r \in Runs |-> "none"]
    /\ raised = {}
    /\ code = [r \in Runs |-> None]
    /\ existing = [r \in Runs |-> 0]
    /\ overlapped = FALSE

\* Is the run under way?
Active(r) == pc[r] \notin {"off"} \cup Ended

Goto(r, p) == pc' = [pc EXCEPT ![r] = p]

\* The script ends with exit code n; "found=$?" keeps it for the next steps.
Exit(r, n) ==
    /\ code' = [code EXCEPT ![r] = n]
    /\ Goto(r, "verdict")

-----------------------------------------------------------------------------
\* The workflow is triggered and checks out the SBOM.
Begin(r) ==
    /\ pc[r] = "off"
    /\ overlapped' = (overlapped \/ \E q \in Runs : Active(q))
    /\ components' = [components EXCEPT ![r] = sbom]
    /\ Goto(r, "read")
    /\ UNCHANGED <<sbom, advised, issues, resolved, hits, todo,
                   findings, report, raised, code, existing>>

\* Mutant: an SBOM without components has an exit code of its own.
ReadComponentsOwnCode(r) ==
    /\ pc[r] = "read"
    /\ IF components[r] = {} THEN Exit(r, 3) ELSE Goto(r, "resolve") /\ UNCHANGED code
    /\ UNCHANGED <<sbom, advised, issues, scan, report, raised, existing, overlapped>>

\* An SBOM without components is no reason for an all-clear.
ReadComponents(r) ==
    /\ pc[r] = "read"
    /\ IF components[r] = {} THEN Exit(r, 2) ELSE Goto(r, "resolve") /\ UNCHANGED code
    /\ UNCHANGED <<sbom, advised, issues, scan, report, raised, existing, overlapped>>

\* Maven names the newest release, if a component needs one.
ResolveRuntimeVersions(r) ==
    /\ pc[r] = "resolve"
    /\ resolved' = IF components[r] \cap Runtime = {} THEN resolved ELSE resolved \cup {r}
    /\ Goto(r, "query")
    /\ UNCHANGED <<sbom, advised, issues, components, hits, todo,
                   findings, report, raised, code, existing, overlapped>>

\* Can the step the script is at find its server out of reach?
Networked(r) ==
    \/ pc[r] = "resolve" /\ components[r] \cap Runtime # {}
    \/ pc[r] = "query"
    \/ pc[r] = "details" /\ todo[r] # {}

\* URLError, OSError, or no release in the metadata: the scan is incomplete.
Unreachable(r) ==
    /\ Networked(r)
    /\ Exit(r, 2)
    /\ UNCHANGED <<sbom, advised, issues, scan, report, raised, existing, overlapped>>

\* The batch call. zip() pairs the queries with the results there are: what an
\* answer leaves out is neither a hit nor an error.
Query(r, S) ==
    /\ pc[r] = "query"
    /\ S \subseteq components[r]
    /\ hits' = [hits EXCEPT ![r] = S \cap advised]
    /\ todo' = [todo EXCEPT ![r] = S \cap advised]
    /\ Goto(r, "details")
    /\ UNCHANGED <<sbom, advised, issues, components, resolved, findings,
                   report, raised, code, existing, overlapped>>

\* Mutant: a hit without details is dropped.
FetchDetailsOrDrop(r, c, ok) ==
    /\ pc[r] = "details"
    /\ c \in todo[r]
    /\ todo' = [todo EXCEPT ![r] = @ \ {c}]
    /\ findings' = [findings EXCEPT ![r] = IF ok THEN @ \cup {c} ELSE @]
    /\ UNCHANGED <<sbom, advised, issues, pc, components, resolved, hits,
                   report, raised, code, existing, overlapped>>

\* The details of a hit; it is a finding without them (URLError), too.
FetchDetails(r, c, ok) ==
    /\ pc[r] = "details"
    /\ c \in todo[r]
    /\ todo' = [todo EXCEPT ![r] = @ \ {c}]
    /\ findings' = [findings EXCEPT ![r] = @ \cup {c}]
    /\ UNCHANGED <<sbom, advised, issues, pc, components, resolved, hits,
                   report, raised, code, existing, overlapped>>

\* open(args.report, "w") leaves an empty file ...
OpenReport(r) ==
    /\ pc[r] = "details"
    /\ todo[r] = {}
    /\ report' = [report EXCEPT ![r] = "partial"]
    /\ Goto(r, "write")
    /\ UNCHANGED <<sbom, advised, issues, scan, raised, code, existing, overlapped>>

\* ... which the rendered report fills ...
WriteReport(r) ==
    /\ pc[r] = "write"
    /\ report' = [report EXCEPT ![r] = "whole"]
    /\ Goto(r, "print")
    /\ UNCHANGED <<sbom, advised, issues, scan, raised, code, existing, overlapped>>

\* ... and which is printed before main returns.
Finish(r) ==
    /\ pc[r] = "print"
    /\ Exit(r, IF findings[r] # {} THEN 1 ELSE 0)
    /\ UNCHANGED <<sbom, advised, issues, scan, report, raised, existing, overlapped>>

\* No SBOM, an answer that is not JSON, a report that cannot be opened, written
\* or printed: an exception outside the two try blocks, or of another class.
\* The script may also be killed. What there is of report.md stays.
Crash(r, n) ==
    /\ pc[r] \in Scanning
    /\ raised' = raised \cup {r}
    /\ Exit(r, n)
    /\ UNCHANGED <<sbom, advised, issues, scan, report, existing, overlapped>>

-----------------------------------------------------------------------------
\* Mutant: the step that fails the job on exit code 2 is missing.
JudgeWithoutFailing(r) ==
    /\ pc[r] = "verdict"
    /\ Goto(r, IF code[r] = 1 THEN "list" ELSE "green")
    /\ UNCHANGED <<sbom, advised, issues, scan, report, raised, code, existing, overlapped>>

\* The two "if: steps.scan.outputs.found == ..." steps.
Judge(r) ==
    /\ pc[r] = "verdict"
    /\ Goto(r, CASE code[r] = 2 -> "red" [] code[r] = 1 -> "list" [] OTHER -> "green")
    /\ UNCHANGED <<sbom, advised, issues, scan, report, raised, code, existing, overlapped>>

\* Mutant: the open issue is not looked for.
ListNothing(r) ==
    /\ pc[r] = "list"
    /\ existing' = [existing EXCEPT ![r] = 0]
    /\ Goto(r, "body")
    /\ UNCHANGED <<sbom, advised, issues, scan, report, raised, code, overlapped>>

\* gh issue list: the newest open issue with the title.
ListIssues(r) ==
    /\ pc[r] = "list"
    /\ \/ Open = {} /\ existing' = [existing EXCEPT ![r] = 0]
       \/ \E i \in Open : /\ \A j \in Open : j <= i
                          /\ existing' = [existing EXCEPT ![r] = i]
    /\ Goto(r, "body")
    /\ UNCHANGED <<sbom, advised, issues, scan, report, raised, code, overlapped>>

\* "cat report.md": bash -e ends the step when there is none.
WriteBody(r) ==
    /\ pc[r] = "body"
    /\ Goto(r, IF report[r] # "none" THEN "post" ELSE "red")
    /\ UNCHANGED <<sbom, advised, issues, scan, report, raised, code, existing, overlapped>>

Post(r) ==
    /\ pc[r] = "post"
    /\ issues' = IF existing[r] # 0
                 THEN [issues EXCEPT ![existing[r]].by = @ \cup {r}]
                 ELSE Append(issues, [open |-> TRUE, by |-> {r}])
    /\ Goto(r, "green")
    /\ UNCHANGED <<sbom, advised, scan, report, raised, code, existing, overlapped>>

\* gh fails, the job is cancelled or exceeds its timeout.
Fail(r) ==
    /\ pc[r] \in Scanning \cup Raising \cup {"verdict"}
    /\ Goto(r, "red")
    /\ UNCHANGED <<sbom, advised, issues, scan, report, raised, code, existing, overlapped>>

-----------------------------------------------------------------------------
\* OSV learns of an advisory; the generated SBOM of other Kamelets is merged,
\* with a bumped artifact too; a maintainer closes the issue.
Publish(c) ==
    /\ c \notin advised
    /\ advised' = advised \cup {c}
    /\ UNCHANGED <<sbom, issues, pc, scan, report, raised, code, existing, overlapped>>

MergeSbom(S) ==
    /\ sbom' = S
    /\ UNCHANGED <<advised, issues, pc, scan, report, raised, code, existing, overlapped>>

CloseIssue(i) ==
    /\ i \in Open
    /\ issues' = [issues EXCEPT ![i].open = FALSE]
    /\ UNCHANGED <<sbom, advised, pc, scan, report, raised, code, existing, overlapped>>

Script(r) ==
    \/ ReadComponents(r)
    \/ ResolveRuntimeVersions(r)
    \/ Unreachable(r)
    \/ \E S \in SUBSET Components : Query(r, S)
    \/ \E c \in Components, ok \in BOOLEAN : FetchDetails(r, c, ok)
    \/ OpenReport(r) \/ WriteReport(r) \/ Finish(r)
    \/ \E n \in {1, Killed} : Crash(r, n)

Workflow(r) == Judge(r) \/ ListIssues(r) \/ WriteBody(r) \/ Post(r) \/ Fail(r)

Next ==
    \/ \E r \in Runs : Begin(r) \/ Script(r) \/ Workflow(r)
    \/ \E c \in Components : Publish(c)
    \/ \E S \in SUBSET Components : MergeSbom(S)
    \/ \E i \in DOMAIN issues : CloseIssue(i)

Spec == Init /\ [][Next]_vars

-----------------------------------------------------------------------------
\* Every Camel component in the SBOM has a version OSV can answer for.
Scannable(r) == r \in resolved \/ components[r] \cap Runtime = {}

\* Does report.md tell of findings, and of all that the script has?
Tells(r) == report[r] = "whole" /\ findings[r] # {}

Issue == [open : BOOLEAN, by : SUBSET Runs]

TypeOK ==
    /\ sbom \subseteq Components
    /\ advised \subseteq Components
    /\ issues \in Seq(Issue)
    /\ pc \in [Runs -> {"off", "verdict"} \cup Scanning \cup Raising \cup Ended]
    /\ components \in [Runs -> SUBSET Components]
    /\ hits \in [Runs -> SUBSET Components]
    /\ todo \in [Runs -> SUBSET Components]
    /\ findings \in [Runs -> SUBSET Components]
    /\ resolved \subseteq Runs
    /\ report \in [Runs -> {"none", "partial", "whole"}]
    /\ raised \subseteq Runs
    /\ code \in [Runs -> {None, 0, 1, 2, Killed}]
    /\ existing \in [Runs -> 0..Len(issues)]
    /\ overlapped \in BOOLEAN

\* A green job is an answer ("Never fall through to a scan that would report
\* these as clean"): either everything OSV answered about was clean when it was
\* asked, at a version it knows; or the run wrote to an issue, of which the next
\* property tells. The code admits one more case, a script that was killed.
GreenIsAnAnswer ==
    \A r \in Runs : pc[r] = "green" =>
        \/ code[r] = 0 /\ components[r] # {} /\ hits[r] = {} /\ Scannable(r)
        \/ \E i \in DOMAIN issues : r \in issues[i].by
        \/ code[r] = Killed

\* Exit code 1 means "found" and "raised". A scan that ended before it had the
\* findings, all of what OSV knew, never writes to an issue; and what is written
\* is their whole list, never empty, unless the script raised after open() had
\* made report.md: "cat report.md" posts what there was of it.
IssuesTellFindings ==
    \A i \in DOMAIN issues : \A r \in issues[i].by :
        /\ findings[r] = hits[r]
        /\ r \in raised \/ Tells(r)

\* "Reuse the open issue if there is one, so a finding that persists across
\* weeks does not open a new issue every Monday."
OneOpenIssue == \A i, j \in Open : i = j

-----------------------------------------------------------------------------
(* The inductive invariant the theorems rest on.                             *)

\* What the script knows at each of its steps.
ScriptKnows ==
    \A r \in Runs :
        /\ pc[r] \in {"off", "read", "resolve", "query"} => findings[r] = {}
        /\ pc[r] \in Scanning \ {"read"} => components[r] # {}
        /\ pc[r] \in {"query", "details", "write", "print"} => Scannable(r)
        /\ pc[r] = "details" => findings[r] \cup todo[r] = hits[r]

\* What there is of report.md at each step, and what it and the exit code tell.
ExitCodes ==
    \A r \in Runs :
        /\ pc[r] \in {"off", "read", "resolve", "query", "details"} => report[r] = "none"
        /\ pc[r] = "write" => report[r] = "partial"
        /\ pc[r] = "print" => report[r] = "whole"
        /\ pc[r] \in {"off"} \cup Scanning => code[r] = None /\ r \notin raised
        /\ pc[r] = "verdict" => code[r] # None
        /\ pc[r] \in Raising => code[r] = 1
        /\ pc[r] = "post" => report[r] # "none"
        /\ report[r] # "none" => findings[r] = hits[r]
        /\ code[r] = 0 => components[r] # {} /\ hits[r] = {} /\ Scannable(r)
        /\ code[r] = 1 => r \in raised \/ Tells(r)

IssuesByGreenRuns ==
    \A i \in DOMAIN issues : \A r \in issues[i].by : pc[r] = "green"

IInv ==
    /\ TypeOK
    /\ ScriptKnows
    /\ ExitCodes
    /\ IssuesByGreenRuns
    /\ IssuesTellFindings
    /\ GreenIsAnAnswer

\* With one run at a time, one that is about to create an issue saw that none
\* is open, and nobody else has created one since.
OneAtATime ==
    ~overlapped =>
        /\ \A q, r \in Runs : Active(q) /\ Active(r) => q = r
        /\ \A r \in Runs :
              pc[r] \in {"body", "post"} /\ existing[r] = 0 => Open = {}
        /\ OneOpenIssue
===========================================================================
