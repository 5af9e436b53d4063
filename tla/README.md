# A verification development of the kcp init-agent

The init-agent watches `InitTarget` objects in one kcp workspace. Each of them
names a `WorkspaceType` and a list of init sources; for each the agent runs a
multicluster manager that sees the `LogicalClusters` still carrying the type's
initializer, creates the objects of the sources in them and then removes the
initializer. This directory holds TLA+ models of the agent's two controllers
and of both in one process, of the process and its replicas, of the clients and
templates the controllers use, and of the concurrent and state-keeping parts of
the generated SDK; the TLC runs that check them, and proofs checked by TLAPS.
Paths below are relative to the repository.

## Inventory

| component | code | state | operations | hard parts |
|---|---|---|---|---|
| Target controller | `internal/controller/targetcontroller` | `ctrlCancels`: UID → cancel func, `ctrlLock`; workqueue (one worker); for each launched manager a context and two goroutines | `Reconcile`, `ensureInitController`, `cleanupController`, the reaper goroutine, the `mgr.Start` goroutine | unlocked map accesses next to a locked delete; late reapers; failed managers; deletion, recreation, edits and label changes seen late; restart |
| Event filter | `internal/controllerutil/predicate` | none | `Factory`, `ByLabels` | an update passes when the old *or* the new object matches |
| Init controller | `internal/controller/initcontroller` | none of its own; caches of `LogicalClusters` and `InitTargets`, workqueue (four workers) | `Reconcile`, `reconcile`, `removeInitializer` | four passes at once, several initializers on one cluster, stale copies, every call can fail, retries, deletion of the cluster, death in the middle |
| Applier and order | `internal/manifest/applier.go`, `sort.go` | none | `Apply`, `applyObject`, `SortObjectsByHierarchy` | unknown kinds are retried later, every other error ends the pass; already existing objects count as created |
| Sources and templates | `internal/initialize`, `internal/manifest/yaml.go` | none; reads `InitTemplates` without a cache | `NewForInitSource`, `New`, `Manifests`, `ParseYAML` | missing, broken, edited templates; html/template rewrites, escapes by context and refuses |
| Workspace clients | `internal/kcp` | the host every client is derived from | `StripCluster`, `RetargetRestConfig`, `Cluster`, annotation helpers | hosts with and without a workspace, path prefix or trailing slash; workspaces by name and by path |
| Process | `cmd/init-agent` | options, the leader's lease | `run`, `setupManager`, `Validate`, `Complete` | order of validation and completion; replicas that fail, lose the lease, are rolled; a placeholder for the name of the lease |
| Informer factories | `sdk/informers/externalversions` | informers per type, started types, shutdown flag, lock, wait group | `InformerFor`, `Start`, `WaitForCacheSync`, `Shutdown`, options | several goroutines; waiting without the lock; a shutdown in between |
| Informers and listers | `sdk/informers/.../v1alpha1`, `sdk/listers` | caches and indexes | list, watch, `List`, `Get`, `Cluster` | same names in several workspaces, two kinds of caches, broken watches |
| Apply configurations | `sdk/applyconfiguration` | what the builders hold and point to | the `With` functions | maps, specs and templates shared between builders and callers |
| Clientsets | `sdk/clientset` | client caches, rate limiters | `NewForConfig`, `NewForConfigAndClient`, `Cluster`, requests | limiters shared or not, a config its owner changes later, refusal of a config |
| API types, deep copies, registration, fakes | `sdk/apis`, `.../fake`, `.../scheme` | none | copies, tables, test doubles | none of their own |
| Logging, version, request context | `internal/log`, `internal/version`, `internal/initialize/context.go` | none | formatting | none |

How they interact. The target controller reads InitTargets from the cache of
the agent's manager and starts and cancels managers. Each manager runs one init
controller. The init controller gets its InitTarget through a function the
target controller gave it (`newInitTargetProvider`: by *name*, from the same
cache), reads InitTemplates directly from the API server, and writes only to
the clusters: it creates objects and patches `status.initializers`. The two
controllers share no memory beyond that function. kcp is the environment: it
creates and deletes clusters, serves the kinds of new CRDs after a while, and
shows a manager a cluster only as long as the initializer is there. Every client
is derived from the kubeconfig's host by `internal/kcp`. The generated SDK is
offered to other programs: the agent itself uses its types, and the clientsets,
informers and listers stand beside it with actors of their own.

What makes the parts correct, in short: a manager runs for every InitTarget
that wants one, never two, and never one that cannot be stopped; an initializer
is removed only when everything its sources contain is in the cluster, is
removed in the end whenever that is possible, and no cluster is forgotten or
starved on the way.

## Modules

| module | what it is |
|---|---|
| `TargetController` | the target controller, the event filter, the goroutines of the managers, restart |
| `MCTargetController` | symmetry for its safety run |
| `TargetControllerProofs` | the inductive invariants of `TargetController` and `InitAgent` and the theorems about them |
| `Manifest` | weights and order of manifests, decoding of a template's documents |
| `Bootstrap` | the abstract specification: what initializing a cluster promises |
| `InitController` | passes of the init controller with sources and applier, call by call; extends `Manifest`, instantiates `Bootstrap` |
| `MCInitController` | the objects, templates and InitTargets of its runs |
| `InitControllerProofs` | invariants, step simulation of `Bootstrap`, theorems |
| `InitAgent` | both controllers in one process: `TargetController` with passes inside its managers |
| `Startup` | options, the order of `main`, leader election, replicas |
| `StartupProofs` | its safety theorems |
| `WorkspaceClients` | hosts and the clients derived from them |
| `Templates` | rendering of InitTemplates with those clients; extends `WorkspaceClients` |
| `MCTemplates` | hosts, paths and templates for its run |
| `TemplatesProofs` | invariants of `WorkspaceClients` and `Templates`, facts about hosts, theorems |
| `InformerFactory` | the two shared informer factories |
| `InformerFactoryProofs` | its inductive invariant and safety theorems |
| `Listers` | caches of informers and the answers of listers |
| `ListersProofs` | its inductive invariant and safety theorems |
| `Configurations` | the abstract specification: what each `With` call says, without pointers |
| `ApplyConfiguration` | builders of apply configurations with their pointers; instantiates `Configurations` |
| `ApplyConfigurationProofs` | its invariant and the step simulation of `Configurations` |
| `Clientsets` | construction, scoping and rate limits of the clientsets |
| `ClientsetsProofs` | its inductive invariant and safety theorems |

### TargetController

| TLA+ | code |
|---|---|
| `targets`, `types` | the InitTargets and WorkspaceTypes in kcp |
| `cached`, `queue` | informer cache and workqueue of `initagent-target-controller` |
| `worker` | the one goroutine in `Reconcile`: its program point and its copy of the target |
| `ctrlCancels` | the map of the same name; a manager identity stands for its cancel func |
| `managers[m].ctx / run / reaper` | the context, the `mgr.Start` goroutine and the reaper goroutine of a launch |
| `Reconcile`, `LookupController`, `PrepareManager` / `PrepareFails`, `RegisterController` | `Reconcile` and `ensureInitController`, cut where other goroutines and API calls can come in between |
| `CleanupController` | `cleanupController`, atomic under `ctrlLock` |
| `ReaperLocks`, `ReaperDeletes` | lines 162-169; two steps, so that overlapping accesses to the map are visible |
| `ManagerFails`, `ManagerStops` | `mgr.Start` returns with an error of its own / because of the context |
| `WatchEvent`, `Resync` | watch and periodic resync through `predicate.ByLabels` |
| `Restart` | the process dies, or Go ends it for a concurrent map access, and comes back |

Reading the WorkspaceType, creating the manager and the init controller touch
no shared state, so they are one step that succeeds or fails. A data race on the
map is visible as `MapRace`; its observable outcome in a Go binary is that the
runtime ends the process, which is `Restart`.

### Manifest and InitController

| TLA+ | code |
|---|---|
| `initializers`, `objects`, `kinds`, `status` | the clusters in kcp; `kinds` are the CRDs and bindings whose kinds are served |
| `targets`, `templates`, `cached` | `spec.sources` of InitTargets, InitTemplates, and the agent's cache of the former |
| `view`, `queue` | the cache of a manager (through the virtual workspace) and its workqueue |
| `passes[i][c]` | one call of `Reconcile`: program point, copy of the initializers, sources, manifests per source, what is left of the current source, the `requeue` flag |
| `StartPass` | `Reconcile` up to the two early returns |
| `ReadTarget`, `ReadSource`, `ReadSourceFails` | `targetProvider`, `NewForInitSource` with `Manifests` |
| `ApplyObject`, `ApplyNoKindMatch`, `ApplyFails` | one `Create`: done or already there / kind unknown / any other error |
| `RequeueAfter`, `RemoveInitializer`, `RemoveInitializerFails` | the end of `reconcile` and `removeInitializer` |
| `SortObjectsByHierarchy` | which objects may come next; Go's sort is not stable, so equals come in any order |
| `Manifests`, `Renders` | `ParseYAML`, and whether template and YAML are well-formed |

An initializer stands for its manager, InitTarget and WorkspaceType, since the
documentation forbids sharing a type. A template's text is abstracted to the
set of documents it renders to. Any API call may fail for no reason, and a
write may be carried out although its answer is lost. A missing namespace is an
error of the API server; a missing kind is found by the client. Both are about
the state of the cluster at that moment.

Modelled from how the code uses them (external): the virtual workspace shows and
lets through only clusters that carry the initializer, and kcp accepts a patch of
`status.initializers` only if it removes exactly that initializer. A cluster the
manager has not engaged is dropped from the queue like one that is not found.

What the init controller promises is the module `Bootstrap`: a cluster's objects
are created only by who carries a plan for it, and an initializer is taken off
by its own agent alone, once its plan is final and all of it exists, and never
comes back. `Plan` in `InitController` reads the plan off a pass: `Wanted` are the
objects its sources have yielded so far, `Final` that it has gone through all of
them without having to requeue. `PromiseKept` says that under this mapping every step
is one of `Bootstrap` or a stutter.

### InitAgent

`InitAgent` extends `TargetController` and puts a coarse pass of the init
controller into each running manager. `BeginPass` calls the provider that
`newInitTargetProvider` gave the manager, which reads the InitTarget by name at
that moment; `EndPass` removes the initializer; `PassFails` is any error.
`Runs(m)`, of `TargetController`, holds until `mgr.Start` has returned, so a manager
that is told to stop may finish a pass; one that has returned, with an error too,
has ended its controllers. Passes of a process that dies are lost with it.

### Startup

| TLA+ | code |
|---|---|
| `Options`, `Set`, `Format`, `Validate`, `Complete` | `options.go`, `zap.go` |
| `ParseAndValidate`, `CompleteOptions`, `setupManager`, `SetupFails` | `main`, `run`, `setupManager` |
| `Elected`, `LosesLease`, `Expires` | leader election of controller-runtime (external) |
| `ManagerFails`, `Fatal`, `Exec`, `Redeploy` | the end of `mgr.Start`, `Fatalw`, and whoever runs the replicas |

The renew deadline is shorter than the lease, so a lease runs out only after the
process that lost it has exited: `Expires` waits for that.

The lease the program asks for is called "TODO" (main.go:157), and Kubernetes' rule
for names of Leases knows no capitals. A server with that rule refuses it, the
electors try for ever and nobody serves. That rule is not in this repository, so
`leaseAccepted` is a choice of `Init`: FALSE is the program as it stands before such a
server, TRUE the election with a name that is accepted.

### WorkspaceClients and Templates

A host is the sequence of its segments; `StripCluster` and `RetargetRestConfig`
work on it as the regular expression and `TrimRight` do, a trailing slash is a
`Blank` last segment. `Run`, `GetWorkspaceType`, `CreateMulticlusterManager` and
`NewInitTemplate` are the places that make clients; `clients` remembers each
with the workspace it is meant for. `Templates` renders: a worker reads
LogicalCluster and InitTarget (`Pass`), fetches and parses the template that its
client finds (`NewSource`) and executes it (`render`). Without the path annotation a
pass panics, which controller-runtime (external) makes an error of the pass (`Recover`).

A template is a sequence of nodes, text and actions, and `Execute` is what
html/template makes of it, the engine the code imports (source.go:22). `TextWritten`
is what is left of the template's own text: a `<` becomes an entity, a comment
disappears. `Escaped` is what becomes of a value, which depends on where it stands
(`InScript`): between tags quotes become entities, in a script the value becomes a
JavaScript string. A template that ends inside a script is `Refused`, and the
pass fails. One element stands for every place where HTML's rules are
others than in text: attributes, URLs, styles.

### InformerFactory and Listers

`InformerFactory` has one action per stretch of code under the factory's lock;
the waits in `WaitForCacheSync` and `Shutdown` are without it. `built` keeps every
informer that was ever made, also one that a second goroutine would lose. The
cluster-aware and the scoped factory are one module, told apart by `factory.scoped`.

`Listers` has one informer for all workspaces and one for each: `List` and
`Event` fill its `indexer`, `WatchEnds` drops what was not delivered. The answers
of the listers are the operators `ClusterListerList`, `ListerGet` and so on, with
the key functions of the code. The two types have the same code twice; the map
points some definitions to one and some to the other.

### ApplyConfiguration and Clientsets

`ApplyConfiguration` is about pointers: label maps live on a `heap`, the callers'
and one that each builder may make, `labelsAt` is the address a builder has; it
holds addresses of specs, a spec values of sources, a source the address of a
template. A call is passed a caller's map or the labels of any builder, its own
included. Two scalar fields stand for the eleven that are set alike.

`Configurations` is what a reader of the doc comments has in mind: there labels
and sources are values, each call has one builder, and only what is shared on
purpose, the spec of an object and the template of a source, has a name.
`CallsSayWhatTheyPromise` says that with labels and sources read through the
pointers (`Labels`, `Sources`) every step of the builders is the one it promises.

`Clientsets` identifies a client by the way to it (`View`) and its workspace, and
a rate limiter by what it was made for: `Given` by the caller, one for the group,
or one per client. `sent` counts requests for each set of clients that may share
a limit (`Counted`). `Cluster` is every way to scope, `AllClusters` the calls to the
wildcard, `Send` a request that takes a token, `Tick` the refill.

Both constructors are there. `NewForConfigAndClient` refuses a config or builds two
caches: the group's from a copy, the clientset's from the pointer it was called with
(`shared`). `NewForConfig` calls it with a copy of its own. `CacheConfig` is what the
clientset's cache builds its next client from: with `shared` whatever the caller's
config is by then, and a config that is not acceptable any more makes `ClusterOrDie`
panic. A bucket keeps the size it was made with (`sizes`). `EditConfig` sets one
field at a time; that another goroutine may read the config meanwhile is
a data race of the caller's and not modelled.

## Runs

| run | module | question | result |
|---|---|---|---|
| `TargetSafety` | `MCTargetController` | Is the map of managers right under every order of edits, deletions, recreations, failures, late reapers and a restart (`LiveManagerRegistered`), does a second manager ever run for one target, also beside one that is still stopping (`OneRunningManagerPerTarget`), is none stopped without need (`StoppedOnlyWhenDeleted`)? | holds |
| `AgentLiveness` | `InitAgent` | Is a cluster in one pass for a target at a time (`OnePassPerTarget`), does a target that stays always get a live manager back (`TargetEventuallyServed`), is every cluster of its type released (`ClusterEventuallyReleased`), does a target on its way out lose its manager (`DeletedTargetStopsManager`), and do passes for one that is gone end (`GoneTargetEndsPasses`)? | holds |
| `InitPair` | `MCInitController` | Two initializers that may need each other's objects, with a failed call, a restart and a deleted cluster: is an initializer removed only when all is applied (`ReleasedOnlyWhenApplied`, `PromiseKept`), is no cluster forgotten (`NeverForgotten`), does the order of application do its job (`PrerequisitesFirst`), do both finish (`EventuallyInitialized`), is no work left behind (`DoneClusterForgotten`)? | holds |
| `InitEdits` | `MCInitController` | Is what a pass has read applied when the initializer goes, while target and templates are edited (`InitializerRemovedOnlyWhenComplete`), and does a cluster that is stuck leave the only worker to the other one (`EventuallyInitialized`)? | holds |
| `Startup` | `Startup` | Does `Complete` ever fail after `Validate` (`CompleteNeverFails`), do two replicas ever serve at once under leader election (`OneReplicaServes`), does one serve in the end, just when the options are usable and the lease, if one is asked for, is accepted (`SomeReplicaServes`)? | holds |
| `Factory` | `InformerFactory` | Is what `InformerFor` hands out what `Start` runs, once (`HandedOutIsShared`), does nothing run after `Shutdown` (`NothingRunsAfterShutdown`), are caches filled when reported so (`SyncedCachesAreFilled`), does closing a channel release the waiting (`ClosingReleases`)? | holds |
| `Listers` | `Listers` | Do all ways to read agree (`ListersAgree`), does the tweak hold for events too (`OnlyTweakedObjects`), is a cache current when nothing is under way to it (`QuietCachesAreCurrent`), do all catch up (`CachesCatchUp`)? | holds |
| `ApplyConfiguration` | `ApplyConfiguration` | Does every call say what its doc comment promises of its own builder and nothing of another, whatever they share and whatever becomes of what they were given (`CallsSayWhatTheyPromise`)? | holds |
| `Clientsets` | `Clientsets` | Does scoping panic only of a shared config its owner has spoilt (`PanicsOnlyOfSharedConfig`), is a burst kept by all who share a limiter (`WithinBurst`), is every request sent (`RequestsAreSent`)? | holds |
| `Templates` | `MCTemplates` | Does every client reach its workspace (`ClientsAddressTheirWorkspace`), do retries render the same (`RetriesRenderTheSame`), is a workspace rendered in the end after passes that panicked (`EventuallyRendered`)? | holds |
| `TargetOrphan` | `MCTargetController` | Does every manager have an InitTarget once things settle? | violated |
| `TargetMapRace` | `MCTargetController` | Is the map free of overlapping accesses? | violated |

Each property of a passing run is broken by a plausible bug: the operators
`Bug_...` stand before the definitions they would replace.

### The disagreements

Two runs show one:

* `TargetOrphan` (bug). The agent sets no finalizer, so deleting an InitTarget
  gives a NotFound in `Reconcile` (controller.go:107-109) and `cleanupController`
  is never called: the manager runs on and its map entry stays. After the
  deletion each of its passes fails in `targetProvider`.
* `TargetMapRace` (bug). controller.go:129 and 159 access the map without the lock
  a reaper holds for its delete. It takes a manager that dies while an InitTarget
  is being reconciled; the tests run with `-race` but never get there.

Others were met while modelling. The modules have the code's behaviour; the
properties that would state the documents' words are not among the runs:

* The map is keyed by UID, so an edit of `workspaceTypeRef` ends in the early
  return (controller.go:129); docs/content/README.md:39 promises the type
  "referenced in the target".
* The update event that takes the selected label away passes the filter through
  the old object (predicate.go:39); `Reconcile` looks at no labels.
* A pass goes on to the other sources only after an unknown *kind*. The NotFound
  of a missing *namespace* ends the pass, every time, before a later source that
  would create it, although the comment at reconciler.go:120 says the others
  continue. `EventuallyInitialized` therefore asks for `NamespacesInOrder`.
* A manager that outlives its InitTarget initializes clusters of the OLD type with
  the sources of the next InitTarget of that name (controller.go:256).
* A kubeconfig whose host has a slash after `/clusters/<name>` is not stripped
  (rest.go:28), and its clients address no workspace.
  `ClientsAddressTheirWorkspace` and `EventuallyRendered` leave it out by name
  (`SlashAfterCluster`).
* Templates are executed by html/template (source.go:22, 41, 69), while
  docs/content/init-sources/inittemplate.md:29 speaks of standard Go templates and
  links text/template. So a `<` in the text of a manifest arrives as `&lt;`, a comment of
  HTML not at all, values with quotes arrive as entities, or as JavaScript strings
  where the engine takes the place for a script, and a template that
  ends in one fails every pass. `Execute` does that; no property says that the text is
  what the documentation promises, because it is not.
* `--enable-leader-election` "perform[s] leader election" (options.go:42-43, main.go:156),
  with a Lease "TODO" in the namespace "le-ns-todo" (main.go:157-158). A server that
  keeps to Kubernetes' rule for names refuses it, and no replica ever serves.
  `SomeReplicaServes` states both cases.
* The comment of `NewForConfigAndClient` speaks of a limiter "in configShallowCopy"
  (clientset.go:89-90), but the clientset's own cache gets the caller's pointer (line 104).
  Its clients do not share that limiter, and a later change of the config reaches
  clients that are not built yet; with a positive QPS and no Burst, `Cluster` panics.
* The cluster-aware factory never applies the transform it is given, the scoped
  one applies a transform it never gets forwarded (factory.go:184-203, 323-353,
  407); factory.go:87 says "on all informers".

### Bounds

One InitTarget name that is used twice (`MaxUid = 2`) is enough for a successor
to meet the reaper of its predecessor; a second name would only share the worker
and the two manager identities. Two managers are enough for an old and a new
one. One failure makes a manager die, and one restart empties the agent. The
theorems lift these bounds for safety. `AgentLiveness` keeps to one WorkspaceType
and to labels that match, since labels and edits are the matter of `TargetSafety`.

In the init controller's runs two initializers on one cluster are the smallest
case of stale patches and mutual waiting; two clusters and one worker the
smallest case of starvation. The objects cover every relation there is: CRD and
object, namespace and object, both, across one source, two sources, and two
initializers. An edit lets a pass mix an old target with a new template. Every
safety property of these runs is also proved, for any bound.

Two replicas are the smallest case of a contended lease; three failures let one
lose it, the next fail and the command line change. Two types and two goroutines
let a factory be asked again after a `Start`; one stop channel is shared by all
calls. Two workspaces with two names are the smallest case of a key clash, three
writes of an update, a deletion and a recreation, two broken watches of a second
loss after a recovery. Five calls, of up to two values each, on two builders, two
templates and one of everything else reach each sharing: a map passed to both and
edited, a source appended, changed and appended again. Two workspaces and the wildcard have three
clients that may share a limiter, and a burst of one is used up by one request.
A limiter that comes with the config has the size `GivenBurst`, two, so that it
differs from the others; one edited field (`MaxEdits`) makes an accepted config one to be
refused, or one with another limiter.
One worker in `Templates` renders as often as it likes for one workspace, which
is what retries do; templates and annotations change in between. Two InitTargets
(`MaxTargets`) are enough for clients made after others, in another workspace. The
three templates have each kind of node, an action in each context, and one is
refused.

Counters named `Max...` only bound the environment. Time is not modelled: a
back-off, the five seconds of `RequeueAfter` and the resync period are "some time
later".

Deadlock checking is off in the runs of `InitController`, `Startup`, `Listers` and
`ApplyConfiguration`: when clusters are gone, or writes, calls or failures are
spent, nothing is left to do. In the others some step is always possible.

### Fairness

Watches deliver, informers resync, goroutines that can run do run, and kinds of
created CRDs are served in the end: weak fairness. A name in a workqueue is
taken up in the end: strong fairness of `Reconcile(n)` and `StartPass(i, c)`,
because a worker is not free all the time, but the queue is FIFO and a
rate-limited item only comes back behind those already waiting. In `InitAgent`
the workers of a running manager go on (weak fairness of a pass's begin and end,
per manager and cluster). In `Startup` a live process goes on, a dead one is
started again, an abandoned lease runs out. In `InformerFactory` a goroutine
that can take the lock again and again gets it (strong fairness, Go's mutex
does not starve) and an informer whose channel is closed ends. In `Listers` a
reflector lists and its watch delivers, as long as it is not broken for good;
`MaxBreaks` is finite. In `Clientsets` time passes and a limiter serves those who
wait in turn (strong fairness of `Send`). In `Templates` the process starts and
finds an InitTarget, a pass that was begun goes on (weak fairness), and a workspace
whose pass failed or panicked gets another (strong fairness of `Pass` per
workspace, as for `StartPass`): controller-runtime recovers from panics and requeues
with a back-off. Nothing is assumed of administrators,
failures, restarts, lists that succeed, channels that are closed, or other
mechanisms that provide objects.

## Proofs

Every invariant, action property and refinement that a passing run checks is also
proved, for every value of the constants that the named assumptions allow.

`TargetControllerProofs` proves, for every value of the constants that satisfies
`ConstantsAssumption` and `NoneAssumption` (bounds are naturals; the markers for
"none" are no targets or managers), `Spec => []P` for `TypeOK`,
`LiveManagerRegistered`, `OneRunningManagerPerTarget` and `StoppedOnlyWhenDeleted`,
and for the whole agent `AgentSpec => []OnePassPerTarget`, and that the properties of the
target controller hold there too (`AgentKeepsManagers`).

The invariants are not inductive: a reaper deletes whatever is registered under
its key, and nothing in the state above says that this is not a successor. The
argument is about *doomed* keys. A key is doomed when neither kcp, nor the
cache, nor the reconciler's copy shows its target without a deletion mark. UIDs
are not reused and marks are not taken back, so a doomed key stays doomed and is
never registered again. `DoomedKeys` says that a manager that is not reaped yet
is the registered one or its key is doomed and free, so a late reaper finds its
own entry or nothing. `UidsUnique`, `CacheLags` and `WorkerKnows` carry what
that needs about UIDs, the lagging cache and the program point of the
reconciler; `EntriesValid` and `LiveUntouched` what it needs about the map.
`IInv` is their conjunction; `InitIInv` and `IInvStep` show that it holds
at first and that each action keeps it.

That no target has two *running* managers is more than that no two are live, for
one that was cancelled runs until `mgr.Start` returns, and its entry may be gone by
then. `OneRunningStep` looks at the only step that starts a manager: a live one of
that key would be in the map, and of a cancelled one the key is doomed, so that
the reconciler has not got there. With it, `PassesOfManagers` is inductive in
`InitAgent`: a pass belongs to a running manager and has an InitTarget of its name.
`ControllerStep` and `PassStep` are the two kinds of steps of the agent.

`InitControllerProofs` proves, from the assumptions of `Manifest` and
`InitController` on their constants, the six safety properties of the init controller
for any number of clusters, initializers, workers, templates, edits, faults and
crashes: `TypeOK`, `NeverForgotten`, `PrerequisitesFirst`,
`InitializerRemovedOnlyWhenComplete`, `ReleasedOnlyWhenApplied` and `PromiseKept`.
The inductive invariant `IInv` adds to those that are state predicates

* `NewUnknown`: nobody knows a cluster that does not exist yet;
* `ViewLags`: a cache that shows a cluster shows every initializer the cluster still
  carries and lets the manager see;
* `PassShape`: what the fields of a pass hold at each of its program points;
* `AppliedSoFar`: of a pass that has not had to requeue, everything read and not left
  over is in the cluster, as long as the initializer is - objects disappear only
  with the cluster. That is what makes the last patch safe;
* `AsConfigured`: without edits, what a pass has read is what the InitTarget and
  its templates contain, which turns the property about what was read into the
  one about what is configured.

`TypeStep`, `NewUnknownStep`, `NeverForgottenStep`, `AppliedStep` and
`AsConfiguredStep` show one conjunct each, action by action. `ReleaseStep` finds
the step that takes an initializer away, `AllApplied` what was true before it.
`PromiseStep` is the step simulation of `Bootstrap`: each action of the detailed
specification maps to one abstract action or leaves the mapped variables alone.

`StartupProofs` proves `CompleteNeverFails` and `OneReplicaServes` from
`StartupAssumption` (what parses is a selector, the empty one does not need to,
the marker for a free lease is no replica). Neither is inductive: the first
needs that a replica past `Validate` was validated with the options of now
(`ValidatedIsCurrent`; `Redeploy` rolls them all) and is the lemma `CompleteIsSafe`,
since it says little more than that both parse the selector; the second that whoever serves
holds the lease (`ServingHoldsLease`), which is a single replica.

`InformerFactoryProofs` proves `TypeOK`, `HandedOutIsShared`,
`NothingRunsAfterShutdown` and `SyncedCachesAreFilled` from `FactoryAssumption`
(known types are resources, the markers are no caller and no channel, a custom
resync names known types), for any number of callers, types, channels and
options. The parts of its `IInv`:

* `LockHeld`: who builds an informer holds the lock and its type is still missing,
  so a type is stored once. Hence `MineKept` (what a caller was handed is in the
  map) and `Kept` (the map knows the types, and started means started once);
* `Draining`: a `Shutdown` that waits or has returned has set the flag, so no `Start`
  adds to the wait group any more;
* `AskedStarted`, `Awaited`: what a caller asked for before its `Start` is among the
  started types, so its `WaitForCacheSync` waits for it; what was reported as
  synced is, and stays so.

`StoreStep` and `StartPendingStep` are the steps with substance; those that only
begin or end a call share `BeginFrame` and `QuietStep`.

`ListersProofs` proves `ListersAgree`, `OnlyTweakedObjects` and
`QuietCachesAreCurrent` from `ListersAssumption` (the two markers are no workspace and no
object) for any workspaces, names and numbers of writes and broken watches. Its
`IInv`, beside the types (`ServerKeyed`, `CacheKeyed`, `EventsTyped`: every object stands
under its own key, and only selected ones of the informer's scope in a cache):

* `Delivered`: of a key that no undelivered event is about, an open watch's cache
  has what the server has;
* `Announced`: of any other key, the last undelivered event says what the server has.

`WriteSeen` compares what a write changes for an informer with the event it is
sent, `WriteStep` puts that event at the end of the queue, `EventStep` takes one from
its head.

`ClientsetsProofs` proves `PanicsOnlyOfSharedConfig` and `WithinBurst` from
`ClientsetsAssumption` (root is a workspace, the wildcard is none, client-go's default
burst and a given limiter are not empty), for clientsets of both constructors. The
config was acceptable when the clientset was made, and what was copied then stays so
(`KeptAccepted`); a panic therefore takes a shared config that was changed.
The clients whose config nobody can change (`Fixed`: all of `NewForConfig`'s, those of
the group of `NewForConfigAndClient`'s) have the limiter they would be given now
(`AsBuilt`), buckets have the size of the first config (`SizesKept`), and clients that
share a limit share a bucket (`SharedLimiter`). `Spent` is the balance: what they have
sent together and what is left in their bucket is never more than a burst.
Without the buckets `WithinBurst` is not inductive.

`TemplatesProofs` proves `ClientsAddressTheirWorkspace` and `RetriesRenderTheSame`
from `HostsAssumption` (a kubeconfig's host is a server,
perhaps a workspace of it, perhaps slashes; references are no blank segments; a
logical cluster that is written as a path is that path's) and
`TemplatesAssumption` (templates consist of the nodes there are), for hosts and
templates of any length. `Trimming`, `Addressing` and `Stripping` are the facts about
hosts: `TrimRight` takes the least number of segments with only blanks behind it,
which exists because the naturals are well-founded (`Least`). `HostsInv` then says
that the kept host has no workspace (`BaseStripped`), that each client has the kept
host with the reference it was made for (`ClientsDerived`), and that targets and
types were read where they are (`ReadTyped`). `RendersExecuted` says what every
rendering is the execution of, with the path of its workspace also after passes that
found none; `DeterministicRendering` compares two executions.

`ApplyConfigurationProofs` proves `Spec => CallsSayWhatTheyPromise`, the refinement of
`Configurations`, from `ConfigurationsAssumption` (maps are not builders, sources not
templates, nil neither) for any builders and values and any number of calls. Its
`IInv` is what makes pointers harmless: a builder's labels are in no map but
its own, which is empty until it has labels (`LabelsOwned`), and a spec's sources
hold templates, not source builders (`SourcesCopied`). `Mapping` reads labels and
sources off the heap with it; one lemma `...Maps` per action shows the step it is.

Only model-checked are the liveness properties, since fairness and ENABLED are out
of the prover's reach: `ClusterEventuallyReleased`, `GoneTargetEndsPasses`,
`TargetEventuallyServed`, `DeletedTargetStopsManager`, `EventuallyInitialized`,
`DoneClusterForgotten`, `SomeReplicaServes`, `ClosingReleases`, `CachesCatchUp`,
`RequestsAreSent` and `EventuallyRendered`.

## Not modelled

* Deep copies and API types: generated, sequential copies of plain structs.
* The registration of types, the RESTMapper and the schemes: tables filled once.
* Fake clientsets: each method forwards to an object tracker of another
  repository, which has all the state.
* The verbs of a type's typed client: one request each of client-go's generic
  client, which `Clientsets` sends as one.
* The values handed through a request's context, the encoding of log lines, the
  build information, the events recorded on LogicalClusters: nothing reads them back.
* Metrics ports of the managers: whether they clash is decided by
  controller-runtime; in the model any manager may fail when it starts.
* The constructors of the API group's cluster client when a program calls them
  itself (sdk/clientset/versioned/cluster/typed/initialization/v1alpha1/initialization_client.go:61-92).
  They keep the caller's pointer as `NewForConfigAndClient` does and share no limiter;
  in `Clientsets` the group's client is the one a clientset makes, from a copy.
* The places in HTML where values are escaped in yet other ways than in text and in a
  script, and the shape of the objects applied: an object is its kind, namespace and
  provider.
