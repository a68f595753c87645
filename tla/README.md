# Camel Kamelets: a verification project in TLA+

This directory holds TLA+ models of the code of Apache Camel Kamelets, the TLC
configurations that check them on small instances, and proofs of their main
theorems that TLAPS checks for every value of the constants. Paths below are
relative to the repository.

## 1. Inventory

The repository is a catalog of Kamelets (YAML route templates run by Camel,
which is not part of the repository), the Go API and client for the Kamelet
custom resource, the Java library and Maven plugin that load and validate the
catalog, and the scripts and workflows that keep its dependencies current.

| component | state | operations | interacts with |
|---|---|---|---|
| **Shared informer factory** `crds/pkg/client/camel/informers/externalversions/factory.go` | mutex, map of informers, set of started ones, wait group, `shuttingDown` | `InformerFor`, `Start`, `Shutdown`, `WaitForCacheSync` | any number of goroutines of the program; client-go informers run in goroutines the factory spawns |
| **Kamelet status conditions** `crds/pkg/apis/camel/v1/kamelet_types_support.go` | `Status.Conditions` with two times per entry | `SetCondition`, `SetErrorCondition`, `SetConditions`, `RemoveCondition`, `GetCondition` | the clock; a controller that writes the status back |
| **Copies of Kamelets** `zz_generated.deepcopy.go`, `CloneWithVersion` | heap cells reachable from an object | `DeepCopy`, `CloneWithVersion` | the informer cache, whose objects listers hand out |
| **Typed informer and lister** `informers/externalversions/camel`, `generic.go`, `listers/camel/v1` | the indexer of the one Kamelet informer | `Informer`, `Lister`, `ForResource`, the list and watch functions | the factory, the API server or the fake clientset, everybody who writes Kamelets |
| **Apply configurations** `applyconfiguration` | builders with pointers to, copies of and maps shared with each other | a `With...` setter per field, `ForKind`, `GetName` | server-side apply |
| **Typed client, fakes, scheme** `clientset` | rate limiter | generated REST calls, the fake's watch | the API server |
| **JSON and YAML of the API** `common_types_support.go` | bytes of a `RawMessage` | conversions, `UnmarshalJSON` | the decoder |
| **Kamelets catalog** `library/camel-kamelets-catalog` | sorted map of Kamelets, list of names, read once from the class path | lookups by name, type, group, provider, data type; supported headers | the resources packaged in the jar |
| **Catalog validator and validation goal** `library/kamelets-maven-plugin` (`CatalogValidator`, `ValidateKameletsMojo`) | list of errors | a chain of checks, each of which may end the validation of a Kamelet | the source directory and the catalog on the plugin's class path |
| **SBOM generation** `GenerateCatalogSbomMojo`, `GenerateNavMojo` | artifacts by package URL, the Kamelets that declare them | collect, merge, write | the catalog; the scan below |
| **Dependency scan** `script/security`, `.github/workflows/catalog-dependency-scan.yml` | report, exit code, the open issue | read SBOM, resolve Camel release, query OSV, raise or comment | OSV, Maven Central, GitHub issues, other runs of the workflow |
| **Kamelet routes with state** `kamelets/*.kamelet.yaml` (earthquake, counter, dropbox, azure blob, kafka batch ...) | in-memory caches, remote files, offsets | poll, filter, deliver, delete or commit | timers, remote services, crashes of the integration |
| Build pipeline `library/camel-kamelets/pom.xml`, workflows, release scripts | files | copy, package, regenerate | the catalog module |

### What is hard here

* *Concurrency*: the factory's critical sections, goroutines that outlive the
  call that spawned them, a `Shutdown` that waits outside the lock, and two
  workflow runs that both look for an open issue before either creates one.
* *Sharing*: `CloneWithVersion` mixes a deep copy with a shallow assignment, in a
  program whose cache must be treated as read-only; generated copies must know every
  reference field; builders copied as structs keep each other's maps.
* *Staleness*: a cache fed by a list and a watch, through options two closures
  apply, of an informer whoever asks first decides about.
* *Partial failure*: a loop that returns at the first unchanged condition; a scan
  that must not take silence for an all-clear; validation that stops early.
* *Ordering and crashes*: sources that record progress before they deliver, or
  deliver before they delete.

`PROJECT.json` lists each hazard at its line with the properties that cover it.

### What makes each component correct

* Factory: one instance and at most one goroutine per type; the wait group is
  exact; nothing runs after `Shutdown`; no call hangs on another.
* Conditions: one per type; the transition time moves with the status only; a
  call changes what it was given and nothing else.
* Copies: a copy shows what it copies; a write to a copy is not seen by anybody
  else, above all not by the cache.
* Informer and lister: what is shown is what the options select of a past state
  of the server, never goes back, and is the present one in the end.
* Apply configurations: a builder holds what its own calls say, whatever others
  do with the builders it was given; no field of the API type is missing.
* Catalog and validator: lookups agree with what is declared; a Kamelet passes
  only if every check that applies passed.
* SBOM and scan: each pinned artifact is scanned at its version and named with
  the Kamelets that declare it; a scan that did not complete is never "clean".
* Stateful routes: no event is delivered twice or lost in the runs the route is
  built for, and what exactly is lost when it crashes.

## 2. The models

| module | models | its state, in the code |
|---|---|---|
| `SharedInformerFactory` | `factory.go`: the factory, its clients and the goroutines it spawns | `lock`, `informers`, `startedInformers`, `wg`, `shuttingDown` are the fields of the struct; `pc`, `arg`, ... are where each calling goroutine is and what its locals hold; `goroutines` are the `go func()` blocks of `Start`; `closed` are the stop channels |
| `InformerLifecycle` | what the doc comments of `SharedInformerFactory` promise of a type: absent, requested, running on one channel, stopped; a gate that closes with `Shutdown` | abstract, one action per promise |
| `KameletConditions` | `SetCondition`, `SetErrorCondition`, `SetConditions`, `RemoveCondition` | `conditions` is `Status.Conditions`; the clock may tick between two reads of it, as `metav1.Now()` is called twice in a change |
| `KameletTypes` | the struct types of `kamelet_types.go`, `jsonschema_types.go`, `common_types.go` | no state: for each type a table of its fields and what they lead to |
| `KameletHeap` | the `DeepCopy` of every type (`zz_generated.deepcopy.go`), `CloneWithVersion`, `UnmarshalJSON`, and writes through their results | `heap` holds the cells behind pointers, maps and slices; an object is the address of its root |
| `ApplyConfigurations` | the builders of `applyconfiguration` | `builders` are the structs, `maps` the maps their setters made, `log` the calls so far |
| `KameletInformer` | the Kamelet informer on a factory that keeps `InformerLifecycle`, the listers' view, the fake clientset's watch | `server` is the history of the collection; `scope` the options the informer was made with; `stage` and `at` where the reflector is; `pending` the queue of changes, `cache` the indexer |
| `EarthquakeSource` | `earthquake-source.kamelet.yaml` | `cache` is the entry of the in-memory cache, `since` and `generated` the exchange properties, `pc` the step of the exchange |
| `DropboxSource` | `dropbox-source.kamelet.yaml` | `todo` is the search result that is being split, `file` the exchange property, `body` the version downloaded |
| `CatalogScan` | `scan_catalog_dependencies.py` and the workflow that runs it | per run: what the script read, asked and found, its exit code, its report, and the issue the workflow will comment on |

An action is one critical section, one step of a route, or one step of a script
between two calls to something else, with all it assigns. `PROJECT.json` maps
each definition to the lines it stands for. Definitions preceded by *Mutant*
are plausible bugs; no specification uses them, they serve to see that each
property notices the bug it is meant for.

The `MC` modules add values and symmetry sets, but for `MCApplyConfigurations`, which follows
values through pointers and maps with recursive operators. The `...Proofs` modules hold the theorems
about the module they extend. The factory refines
`InformerLifecycle` (`ImplementsLifecycle`, with the phase of a type computed
from the maps and the goroutines), and `KameletInformer` is composed with that
abstract factory for the one type Kamelet: it asks for, launches and stops its informer with the
actions of `InformerLifecycle`. `KameletHeap` and `ApplyConfigurations` are both judged against
`KameletTypes`. The conditions, the routes and the scan do not interact in the code either.

### The factory

A client goroutine calls any of the four operations, again and again, in any
order. The mutex is a variable, each critical section is split at the points
where the code reads or writes a map, so that holding the lock is what makes it
atomic, not the grain of the model. `Shutdown` sets the flag under the lock and waits
without it; `WaitForCacheSync` copies the started informers under the lock and
then waits for one after the other with the caller's channel. Informers may run
until their channel closes, may sync or not, and call `wg.Done` when they end.
The iteration order of Go's maps is a choice at each iteration.

### The conditions

`SetConditions` is a loop; `pc` and `next` are its position, so that the
early `return` for a condition that is already set is an early return of the model
as well. Messages and the update time are not modelled. A caller of `SetConditions` may give a
transition time of his own, early or late, which the loop keeps (it stamps zero times only);
the ghost `origin` of a condition remembers where its time comes from.

### Copies

An object is built cell by cell (`Populate`), as a decoder would, from any of the types;
then it is shared and copied. `DeepCopyInto` is a table: per type, the fields whose
elements are copied one by one and those whose elements have a `DeepCopyInto` of their own.
What is in neither is shared, as after `*out = *in`. `CopyDeep` and `CopyStruct` interpret
the table, so that a field missing there shows as shared memory. `CloneWithVersion`
deep-copies the receiver and assigns the struct of the version out of the *receiver's*
map, so that both objects then lead to the same cells. Its comment also says that the
clone gets another name, which no statement does: the clone shows the scalars of its source
(`CopiesEqual`), the name among them (`ClonesRenamed`, which TLC refutes). Every
holder writes through every copy it holds, one value at a time or with `UnmarshalJSON`, which
reuses the bytes when they are long enough; the cached object is written by nobody.

### Apply configurations

Again a table: per type, what the `With` function of each field does to it, namely set a
value, keep a pointer, append to a list or put into a map that is made when it is first
needed. An element of a list or map is a copy of a builder's struct; its pointers and maps
stay what they were, which is how builders share. Nil arguments are modelled: a nil
pointer unsets a field, a nil in a list panics after those before it were appended, and the program goes on.
A Kamelet's metadata is made by the first setter that needs it, and by `GetName`.

### The informer

Two accessors ask for the informer: the factory's own, and one made with other options.
The factory knows informers by type, so the first one's list and watch functions are
everybody's. The reflector lists at some version the server still has, watches from there,
and may have to list again; it asks for nothing older than it has seen (the options it passes
carry the version). The fake clientset's watch starts at the present and takes no
options. What was read waits in a queue per Kamelet until the indexer stores it. Compressing that queue,
and its order across Kamelets, are left out: no property tells them apart.

### The routes

Camel runs a route's steps in order and its error handler ends the exchange, or,
in a splitter, the sub-exchange. The cache and the exchange are lost at a
restart, the remote folder is not. Others write to the folder, and the API
revises events, at any time. An answer of the API is a set of versions of which the
splitter takes the first in the order of time. What a restart of the earthquake route loses or
repeats is bounded by nothing in the code: `NoGap` and `NoRepeat` speak of one life of the
integration, as `Restart` begins a new history.

For the Dropbox route two ghosts tie its end to its beginning: `accepted` is the version the sink
accepted in the present part of the split, which each deletion records, and `owed` what was in the
folder at the search and has not been handed over, nor failed, since.

### The scan

The script's steps that ask a server may find it out of reach (exit code 2),
raise what nobody catches (exit code 1), or be killed. `report.md` is made by `open`, filled by
`write`, and then printed, three steps each of which may raise: before them there is no report and the
workflow's `cat` fails the job; after `open` it posts what there is, which may be nothing, a part, or
"No known advisories". (The docstring says only that the script "exits 1 when something is found"; it does
not say that it then has.) `raised` remembers the scripts that ended so. The workflow acts on the code. Runs may overlap, as the workflow may be dispatched by hand
while a scheduled run is under way; `overlapped` remembers whether they ever did.

## 3. What is checked

| run | question | result |
|---|---|---|
| `factory` | do all interleavings of two clients keep one instance and one goroutine per type, an exact wait group, no `Add` during `Wait`, nothing running after `Shutdown`; does the factory do what its doc comments promise; when the channels differ, does `WaitForCacheSync` report the truth, of started informers only, and return; does `Shutdown` return once the channels are closed; do `InformerFor` and `Start` return while others wait; is the invariant of the proofs one? | yes |
| `conditions` | one condition per type, transition times that stay with the status and go back only where a caller gave them, no other condition touched, a prefix of the batch applied? | yes |
| `conditions_batch` | are all conditions of a call applied, as the comment of `SetConditions` says? | **no**: it returns at the first one that is already set |
| `heap` | for every type: does a copy show what it copies; is memory shared along `CloneWithVersion` edges only; do other objects change through nothing else? | yes |
| `heap_cache` | is the cached object read-only for those who write to copies only? | **no**: the clone of a version leads to its cells |
| `heap_name` | does the clone of a version get another name, as the comment of `CloneWithVersion` says? | **no**: it keeps the name of its source |
| `apply` | for every type: has its builder the fields of the type, and do they hold what their own calls say; do copied structs follow the original only through pointers and maps? | yes |
| `informer` | is what the listers show genuine, filtered as the factory was told to, never older than before, and in the end what the server has? | yes; the fake's watch does not filter, which `CacheIsGenuine` names |
| `earthquake` | is no version delivered twice in a run, is there no gap between two polls, does every later update arrive? | yes |
| `dropbox` | is each deletion behind a sink that accepted, in the same part of the split, the version deleted or the one it replaced since the download; is a file handed over twice only if it was kept or the integration restarted; has each poll that is over handed over every file it found but those whose part failed, and does a poll with `deleteAfterRead` off delete nothing; does each file arrive? | yes |
| `dropbox_race` | are only consumed files deleted? | **no**: a file written again between download and deletion is deleted unread |
| `scan` | is a green job an answer, is what is written to an issue complete, and do runs that do not overlap keep one issue open? | yes, but for a script that was killed, which `GreenIsAnAnswer` names, and for one that raised after it had opened the report, which `IssuesTellFindings` names: even then it had all its findings |

The four "no" are findings in `PROJECT.json`, each with the line that says
otherwise. Runs of the scan that do overlap may open two issues, when both list
before either creates one; the workflow has no concurrency group. `OneAtATime` says that
nothing else opens a second one.

### Bounds

* Factory: two clients are enough for every pair of calls to overlap; two stop channels for a wait
  with another channel than the informer's; one type, which each client may ask for, start, await and shut down
  at every step of the other. A loop that is at one type while another one is created or ends is not in the run but in
  the proofs, which hold for any number of types, clients and channels. The number of calls is not bounded.
* Conditions: two types (one that is set, one that is not), two reasons, batches of up to two
  (a return in the middle drops something), a clock up to 3, and callers that give no
  transition time, 1 or 2 (before, at and after the time the code stamped); `conditions_batch` needs no given times.
* Heap: each of the 19 types with a `DeepCopy` is the type of the shared object once, with three
  cells, filled in any way: every `DeepCopyInto` is seen with every one it calls. Two
  versions and three objects: a deep copy of a clone, two clones of one version or of two.
* Apply: all 17 types, paired with each type their setters take; three calls about two
  fields: make a map, hand the struct over, put more into the map.
* Informer: two namespaces of which the factory's is one, a label that is there or not, an
  accessor with other options; three writes (before the list, between list and watch, during the
  watch) and one relist.
* Earthquake: two events (order and overtaking), look-ahead 1 and a clock up to 4,
  longer than look-ahead and two polls.
* Dropbox: two paths (one fails, the next goes on), two uploads of each (one during
  the consumption of the other).
* Scan: two runs, overlapping or not (`overlapped` remembers it), one pinned artifact and one
  Camel component; the second run finds the first one's issue open, closed, or not yet created.

### Fairness

* Factory: weak fairness of each step a goroutine can take, as Go runs every
  runnable goroutine; strong fairness of acquiring the mutex, as `sync.Mutex`
  hands itself to a waiter that starved for a millisecond; none of what the
  program does (calls, closing a channel) nor of the API server (syncing).
  `ShutdownTerminates` therefore says "if every channel is closed".
* Informer: weak fairness of `List`, `Watch`, `Event` and `Store`: the goroutines of a running
  informer go on, and a server answers and tells its watchers of every write. Relists are
  bounded, as a watch that always ends at once would never catch up. None of what
  its owner does: `CatchesUp` is about an informer that is left running.
* Earthquake: the timer fires and the exchange goes on (weak); an API that is
  asked again and again answers at some time (strong).
* Dropbox: the same for the route; strong fairness of a download and of a delivery per file: one that
  is tried again and again succeeds at some time. `StaysUp` is the premise that
  the integration is not restarted for ever.

## 4. What is proved

TLAPS checks the theorems for every value of the constants that satisfies the
`ASSUME` of the module, and TLC evaluates that assumption in the runs.

* `SharedInformerFactoryProofs`: for any sets of clients, types and channels
  (`ConstantsAssumption`: `None` is not one of them), type correctness,
  `SharedInstance`, `RunOnce`, `CountsGoroutines`, `NothingRunsAfterShutdown`, `SyncReport`,
  the action property `NoAddDuringWait`, and `Spec => ImplementsLifecycle`. None
  of these is inductive. `IInv` adds mutual exclusion, what each loop
  knows while it holds the lock (`LoopsKnow`: a creator that found
  no instance still finds none; a `Start` in its loop saw `shuttingDown` unset), how the
  started set relates to the goroutines (`StartedByGoroutine`), and that after a
  `Shutdown` returned the flag is set and no goroutine is alive
  (`ShutdownIsFinal`). `SyncReport` rests on a second one, `SyncKnows`: the types a
  call has to report on are started, its loop loses none of them, and each entry it has collected stands for a
  synced cache or for its closed channel. Counting needs that the set of live
  goroutines is finite and grows or shrinks by one (lemmas `SpawnAlive`,
  `DoneAlive`). The refinement maps each action to one of `InformerLifecycle` or a
  stutter; two lemmas compute the phase of a type with and without a goroutine.
* `DropboxSourceProofs`: for any set of paths and any number of uploads
  (`DropboxAssumption`), `DeletedAfterConsumed`, `RepeatedOnlyIfKept` and `EveryPollDelivers`. `IInv` adds
  that at a path is the newest upload or nothing, so that what replaced a downloaded version came after the download;
  that a consumed file still in the folder was kept or is the one about to be deleted; and
  that what a poll owes is what it has still before it (`OwedAhead`).
* `CatalogScanProofs`: for any number of runs and any SBOM (`ScanAssumption`),
  `GreenIsAnAnswer`, `IssuesTellFindings`, and `OneAtATime`, that is `OneOpenIssue` unless
  runs overlapped. `IInv` adds what the script knows at each step and what the exit
  code and the report stand for: a report is opened only when every hit of a complete query is a finding, and
  code 1 is a whole report with findings unless the script raised. `OneAtATime` adds that a run about to create an
  issue saw that none is open and that nobody created one since.
* `KameletInformerProofs`: for any namespaces, names, accessors, stop channels, writes and relists
  (`InformerAssumption`), type correctness, `CacheIsGenuine`, `ListersFiltered` and the action property
  `NeverBackwards`. `IInv` adds that each queue is sorted by version, starts no earlier than what is
  stored and ends no later than the reflector has read (`Sorted`), which is why a store never goes back;
  and that the options are the factory's while nobody else has asked (`FirstAsker`). A write
  appends to the history, so what was genuine stays genuine (`HistoryGrows`).
* `EarthquakeSourceProofs`: for any events, look-ahead and length of time
  (`EarthquakeAssumption`), type correctness, `NoRepeat` and `NoGap`. `IInv` adds that a poll asks from the cached
  time if there is one, that an answer holds what was updated in between, and that everything
  handed over is no newer than the cached time: so an answer never meets what was sent before, and
  caching its time leaves no gap.
* `KameletConditionsProofs`: for any types and reasons, any batch length and length of time
  (`BoundsAssumption`), type correctness, `OneConditionPerType`, `OthersUntouched`, `PrefixApplied` and the action property
  `TransitionTimeFollowsStatus`. None is inductive but the second: `IInv` adds where the loop is
  (`Progress`), that no transition time the code stamped is ahead of the clock and that the one `SetCondition` brings
  along is no older than any of those in the list (`TimesPast`, which is why a transition goes back only
  where a caller gave a time), and
  what the loop has applied so far (`AppliedSoFar`, `StoppedAt`). The loop of `RemoveCondition` is the list at the
  indices that stay; in a list with one condition per type at most one of them goes, so what the
  list becomes follows from how many indices are in front of each (lemmas `KeptAll`, `KeptOthers`, `Removed`,
  `Replaced`). For `OthersUntouched` two lists with holes are compared: each keeps its indices in order, and a set
  of indices has one such enumeration, so lists that agree at what they keep are the same. The induction this takes is
  over a set of numbers (`SetInduction`): one that is missing would have a least one missing.
* `KameletHeapProofs`: for any root types, version names, cells and objects (`HeapAssumption`: keys are none of
  the numbers and words the model uses itself), type correctness, `AliasOnlyByVersion` and the action properties
  `CopiesEqual` and `CacheMostlyReadOnly`. The invariant gives each cell an owner: references stay with the
  owner and lead to later cells, or come from an owner's root; each cell has one parent, except for those a clone of a version
  borrowed. What an object reaches is the least closed set of cells, which is what the recursive function `Reach`
  computes because the addresses end; so objects are trees, and two of them meet below a borrowed version only.
  That a copy takes everything along is a fact about the tables (lemma `Tables`): each reference field of a type is
  either copied by a `DeepCopyInto` of its own, or element by element, and then its elements lead nowhere.
  `View`, what is seen at each cell, exists for the same reason as `Reach` (`SeesAll`, `ViewIs`); cells that mirror each other
  look the same (`MirrorsLook`), hence `CopiesEqual`, and what reaches no changed cell looks as before
  (`UnchangedLook`, `OthersLook`), hence `CacheMostlyReadOnly`.
* `ApplyConfigurationsProofs`: for any kinds, keys and number of calls (`BuildersAssumption`), type correctness and
  `SettersAccumulate`. `TablesFit` compares the table of the `With` functions of each type with its declaration, field by
  field. The invariant adds that no two fields of builders hold the same map (`MapsApart`: copies may, but a map is only
  written by the builder that made it), that the calls in the log suit their fields (`CallsFit`), and how each field follows
  from the calls about it (`AllFollow`). What a list should be is a recursion along the log; that there is exactly one
  such function is carried along as an invariant as well (`ListsDefined`), as each call extends it by one.

Model-checked only: liveness (fairness and `ENABLED` are out of the prover's
reach), and `SnapshotsStaySnapshots` (what a configuration comes to is computed by recursion over values
nested in values, which are not numbered as the heap's cells are).

## 5. What is not modelled

* client-go's reflector, `DeltaFIFO` and indexer: external, taken at what the informer's list and watch
  functions and the listers see of them. The REST client, its rate limiter and the scheme are generated
  wiring without state of their own; of the fakes, the watch is modelled, the object tracker is
  client-go's. The parser schema of `applyconfiguration/internal` lists no Kamelet type.
* Conversions between YAML and JSON text: pure data.
* The other Kamelets: most are stateless. Those with state are the change feed, which asks for everything at
  each poll, the Azure source, with the order of steps of `DropboxSource`, the Kafka batch source and the counter.
* The Java catalog, the validator, the SBOM generation and the build: sequential programs that read files
  and write files; a model of their merges and lookups would restate library calls on maps and lists.
* Capacity: `append` may or may not write into an array that two slices share; a copied
  builder's list is taken as a value. In-place filtering in `RemoveCondition` would show in a shallow copy of a
  status, which nothing in the repository makes.
* In the other models: a resync period (it stores nothing new), custom resync and transform options
  (set before any call and read only); text of messages, severities and reports; the delay
  until a new GitHub issue is found by the search; OSV
  answers that are shorter than the batch are modelled, but that OSV knows all advisories is not a
  claim; two updates of USGS within one unit of time, and clocks that differ.

## 6. Plan

Done: the factory with its abstract specification and proofs, the informer composed with it, the
conditions, the API types with their copies and their builders, the two routes with the
hardest order of steps, and the scan. What would come next, most important first:

1. `CatalogSbom`: artifacts merged by package URL from the Kamelets' dependencies, composed with
   `CatalogScan` (its `sbom` and the Kamelets a finding names): every pinned
   artifact is scanned at its version.
2. `CatalogValidator` and the validation goal: the chain of checks, its early ends, `failOnError`,
   against a reference definition of a valid catalog.
3. `KameletsCatalog`: loading (duplicates, unreadable resources) and the
   stale copy of the build pipeline.
4. The change feed without a cursor as a variant of the earthquake route, the Kafka batch
   source with its commit, the counter.
5. A proof of `SnapshotsStaySnapshots`, with the nesting of values bounded by the nesting of the types.
