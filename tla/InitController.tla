--------------------------- MODULE InitController ---------------------------
(***************************************************************************)
(* The init controller (internal/controller/initcontroller) with the       *)
(* sources it reads (internal/initialize/source) and the applier           *)
(* (internal/manifest/applier.go).                                         *)
(*                                                                         *)
(* One instance of it runs in each multicluster manager.  No two           *)
(* InitTargets share a WorkspaceType (docs/content/README.md:35), so an    *)
(* initializer stands for its manager, its InitTarget and its WorkspaceType.*)
(* A manager sees a LogicalCluster only while the cluster carries its      *)
(* initializer.  A pass is one call of Reconcile: it reads the InitTarget, *)
(* then source by source fetches the template, renders it and creates the  *)
(* objects, and at last removes the initializer.  Up to NumWorkers passes  *)
(* of a manager run at once, never two for the same cluster, and API calls *)
(* of all of them interleave.                                              *)
(***************************************************************************)
EXTENDS Manifest, FiniteSets

CONSTANTS
    Cluster,          \* logical clusters
    Initializer,      \* initializers, one for each InitTarget
    Template,         \* names of InitTemplates
    ProvidedBy,       \* for each object, the object that provides its kind
    NamespaceOf,      \* for each object, the namespace it lives in
    BuiltIn,          \* "provided by kcp" and "not in a namespace"
    Foreign,          \* objects that other mechanisms create in clusters
    SourceLists,      \* the values spec.sources of an InitTarget is edited to
    Texts,            \* the texts an InitTemplate is edited to, as sets of documents
    Setups,           \* the InitTargets and InitTemplates there are at first
    NoSource,         \* an init source that configures nothing
    NoTarget,         \* stands for a missing InitTarget
    NoTemplate,       \* stands for a missing InitTemplate
    NoPass,           \* no Reconcile is running
    NumWorkers,       \* MaxConcurrentReconciles
    MaxEdits,         \* bound: edits of InitTargets and InitTemplates
    MaxFaults,        \* bound: API calls that fail for no reason of their own
    MaxCrashes        \* bound: deaths of the agent process

ASSUME InitControllerAssumption ==
    /\ ProvidedBy \in [Object -> Object \cup {BuiltIn}]
    /\ NamespaceOf \in [Object -> Object \cup {BuiltIn}]
    /\ \A obj \in Object :
          /\ ProvidedBy[obj] # BuiltIn =>
                objectWeight(obj) > objectWeight(ProvidedBy[obj])
          /\ NamespaceOf[obj] # BuiltIn =>
                objectWeight(obj) > objectWeight(NamespaceOf[obj])
    /\ BuiltIn \notin Object /\ Foreign \subseteq Object
    /\ SourceLists \subseteq Seq(Template \cup {NoSource})
    /\ Texts \subseteq (SUBSET Document) \cup {BrokenTemplate}
    /\ NoSource \notin Template
    /\ NumWorkers \in Nat \ {0}
    /\ MaxEdits \in Nat /\ MaxFaults \in Nat /\ MaxCrashes \in Nat

VARIABLES
    status,        \* whether a cluster is yet to come, present or gone
    initializers,  \* status.initializers of each LogicalCluster
    objects,       \* the objects that exist in each cluster
    kinds,         \* the objects of each cluster whose kinds are served there
    templates,     \* the InitTemplates in the API server
    targets,       \* spec.sources of the InitTargets in the API server
    cached,        \* the same, in the agent's informer cache
    view,          \* each manager's cached status.initializers; {}: not visible
    queue,         \* the clusters in each manager's workqueue
    passes,        \* what each manager is doing for each cluster
    edits, faults, crashes

clusterVars == <<status, initializers, objects, kinds>>
configVars == <<templates, targets, edits>>
agentVars == <<cached, view, queue, passes>>
vars == <<clusterVars, configVars, agentVars, faults, crashes>>
-----------------------------------------------------------------------------
Source == Template \cup {NoSource}

\* A running Reconcile: its copy of the cluster's initializers, the target's
\* sources, the manifests of the sources read so far, those of the last one
\* that are still to be applied, and whether some source asked for a requeue.
Pass == [pc: {"target", "sources", "apply"},
         snapshot: SUBSET Initializer,
         sources: Seq(Source),
         rendered: Seq(SUBSET Object),
         todo: SUBSET Object,
         requeue: BOOLEAN]

ASSUME NoPassAssumption ==
    NoPass \notin Pass /\ NoPass \notin [wanted: SUBSET Object, final: BOOLEAN]

ASSUME SetupsAssumption ==
    \A setup \in Setups :
        /\ setup.targets \in [Initializer -> Seq(Source) \cup {NoTarget}]
        /\ setup.templates \in
              [Template -> (SUBSET Document) \cup {NoTemplate, BrokenTemplate}]

Running(i, c) == passes[i][c] # NoPass
Busy(i) == {c \in Cluster : Running(i, c)}

\* What the virtual workspace of initializer i shows of a cluster.
Shown(i, c) == IF i \in initializers[c] THEN initializers[c] ELSE {}

TypeOK ==
    /\ status \in [Cluster -> {"new", "present", "gone"}]
    /\ initializers \in [Cluster -> SUBSET Initializer]
    /\ objects \in [Cluster -> SUBSET Object]
    /\ kinds \in [Cluster -> SUBSET Object]
    /\ templates \in [Template -> (SUBSET Document) \cup {NoTemplate, BrokenTemplate}]
    /\ targets \in [Initializer -> Seq(Source) \cup {NoTarget}]
    /\ cached \in [Initializer -> Seq(Source) \cup {NoTarget}]
    /\ view \in [Initializer -> [Cluster -> SUBSET Initializer]]
    /\ queue \in [Initializer -> SUBSET Cluster]
    /\ passes \in [Initializer -> [Cluster -> Pass \cup {NoPass}]]
    /\ edits \in 0..MaxEdits /\ faults \in 0..MaxFaults /\ crashes \in 0..MaxCrashes

\* What a process that has just been started knows.
NothingCached == [i \in Initializer |-> NoTarget]
NothingVisible == [i \in Initializer |-> [c \in Cluster |-> {}]]
NothingQueued == [i \in Initializer |-> {}]
NothingRunning == [i \in Initializer |-> [c \in Cluster |-> NoPass]]

Init ==
    /\ status = [c \in Cluster |-> "new"]
    /\ initializers = [c \in Cluster |-> {}]
    /\ objects = [c \in Cluster |-> {}]
    /\ kinds = [c \in Cluster |-> {}]
    /\ \E setup \in Setups : targets = setup.targets /\ templates = setup.templates
    /\ cached = NothingCached /\ view = NothingVisible
    /\ queue = NothingQueued /\ passes = NothingRunning
    /\ edits = 0 /\ faults = 0 /\ crashes = 0
-----------------------------------------------------------------------------
(* kcp and its users.                                                      *)

\* A new workspace whose types carry the initializers.
CreateCluster(c) ==
    /\ status[c] = "new"
    /\ status' = [status EXCEPT ![c] = "present"]
    /\ initializers' = [initializers EXCEPT ![c] = Initializer]
    /\ UNCHANGED <<objects, kinds, configVars, agentVars, faults, crashes>>

DeleteCluster(c) ==
    /\ status[c] = "present"
    /\ status' = [status EXCEPT ![c] = "gone"]
    /\ initializers' = [initializers EXCEPT ![c] = {}]
    /\ objects' = [objects EXCEPT ![c] = {}]
    /\ kinds' = [kinds EXCEPT ![c] = {}]
    /\ UNCHANGED <<configVars, agentVars, faults, crashes>>

\* Another mechanism, maybe a default APIBinding, provides an object.
Provide(c, obj) ==
    /\ status[c] = "present"
    /\ obj \notin objects[c]
    /\ objects' = [objects EXCEPT ![c] = @ \cup {obj}]
    /\ UNCHANGED <<status, initializers, kinds, configVars, agentVars, faults, crashes>>

\* The kinds of a CRD or a bound APIExport are served some time after the object
\* was created.
Establish(c, obj) ==
    /\ obj \in objects[c] \ kinds[c]
    /\ \E other \in Object : ProvidedBy[other] = obj
    /\ kinds' = [kinds EXCEPT ![c] = @ \cup {obj}]
    /\ UNCHANGED <<status, initializers, objects, configVars, agentVars, faults, crashes>>

EditTarget(i, sources) ==
    /\ edits < MaxEdits
    /\ edits' = edits + 1
    /\ targets' = [targets EXCEPT ![i] = sources]
    /\ UNCHANGED <<clusterVars, templates, agentVars, faults, crashes>>

EditTemplate(t, text) ==
    /\ edits < MaxEdits
    /\ edits' = edits + 1
    /\ templates' = [templates EXCEPT ![t] = text]
    /\ UNCHANGED <<clusterVars, targets, agentVars, faults, crashes>>
-----------------------------------------------------------------------------
(* Informers.                                                              *)

\* The InitTargets come from the cache of the agent's own manager; the init
\* controller is not woken by them.
TargetWatchEvent(i) ==
    /\ cached[i] # targets[i]
    /\ cached' = [cached EXCEPT ![i] = targets[i]]
    /\ UNCHANGED <<clusterVars, configVars, view, queue, passes, faults, crashes>>

WatchEvent(i, c) ==
    /\ view[i][c] # Shown(i, c)
    /\ view' = [view EXCEPT ![i][c] = Shown(i, c)]
    /\ queue' = [queue EXCEPT ![i] = @ \cup {c}]
    /\ UNCHANGED <<clusterVars, configVars, cached, passes, faults, crashes>>

\* The periodic resync replays the clusters in the cache.
Resync(i, c) ==
    /\ view[i][c] # {}
    /\ queue' = [queue EXCEPT ![i] = @ \cup {c}]
    /\ UNCHANGED <<clusterVars, configVars, cached, view, passes, faults, crashes>>
-----------------------------------------------------------------------------
(* Reconcile.                                                              *)

\* Mutant: a cluster that is not found is an error, and retried.
Bug_StartPass(i, c) ==
    /\ c \in queue[i] /\ ~Running(i, c)
    /\ Cardinality(Busy(i)) < NumWorkers
    /\ i \in view[i][c]
    /\ queue' = [queue EXCEPT ![i] = @ \ {c}]
    /\ passes' = [passes EXCEPT ![i][c] =
                     [pc |-> "target", snapshot |-> view[i][c],
                      sources |-> <<>>, rendered |-> <<>>,
                      todo |-> {}, requeue |-> FALSE]]
    /\ UNCHANGED <<clusterVars, configVars, cached, view, faults, crashes>>

\* Get the LogicalCluster from the manager's cache.  A cluster that is not
\* engaged or not found, or does not list the initializer, is nothing to do.
StartPass(i, c) ==
    /\ c \in queue[i] /\ ~Running(i, c)
    /\ Cardinality(Busy(i)) < NumWorkers
    /\ queue' = [queue EXCEPT ![i] = @ \ {c}]
    /\ passes' = IF i \notin view[i][c] THEN passes
                 ELSE [passes EXCEPT ![i][c] =
                          [pc |-> "target", snapshot |-> view[i][c],
                           sources |-> <<>>, rendered |-> <<>>,
                           todo |-> {}, requeue |-> FALSE]]
    /\ UNCHANGED <<clusterVars, configVars, cached, view, faults, crashes>>

Continue(i, c, pass) == passes' = [passes EXCEPT ![i][c] = pass]

EndPass(i, c) == Continue(i, c, NoPass)

\* Reconcile returns an error, or a RequeueAfter: the cluster is queued again.
\* (After a back-off or five seconds; the model has no clock.)
Requeue(i, c) ==
    /\ EndPass(i, c)
    /\ queue' = [queue EXCEPT ![i] = @ \cup {c}]

\* An API call fails although its request is in order.
Fault == faults < MaxFaults /\ faults' = faults + 1

\* targetProvider: the latest version of the InitTarget, or an error.
ReadTarget(i, c) ==
    LET pass == passes[i][c] IN
    /\ Running(i, c) /\ pass.pc = "target"
    /\ IF cached[i] = NoTarget
       THEN Requeue(i, c)
       ELSE /\ Continue(i, c, [pass EXCEPT !.pc = "sources", !.sources = cached[i]])
            /\ UNCHANGED queue
    /\ UNCHANGED <<clusterVars, configVars, cached, view, faults, crashes>>

\* The pass is between two sources, with more to come.
AtSource(i, c) ==
    /\ Running(i, c) /\ passes[i][c].pc = "sources"
    /\ Len(passes[i][c].rendered) < Len(passes[i][c].sources)

NextSource(pass) == pass.sources[Len(pass.rendered) + 1]

\* The source is one the factory knows and yields manifests.
Readable(source) ==
    /\ source # NoSource
    /\ templates[source] # NoTemplate
    /\ Renders(templates[source])

\* Mutant: the requeue flag is assigned by each source instead of kept.
Bug_ReadSource(i, c) ==
    /\ AtSource(i, c)
    /\ LET pass == passes[i][c]
           manifests == Manifests(templates[NextSource(pass)])
       IN /\ Readable(NextSource(pass))
          /\ Continue(i, c,
                [pass EXCEPT !.pc = IF manifests = {} THEN "sources" ELSE "apply",
                             !.rendered = Append(@, manifests),
                             !.todo = manifests,
                             !.requeue = FALSE])
    /\ UNCHANGED <<clusterVars, configVars, cached, view, queue, faults, crashes>>

\* NewForInitSource and Manifests: fetch the template, render and parse it.
ReadSource(i, c) ==
    /\ AtSource(i, c)
    /\ LET pass == passes[i][c]
           manifests == Manifests(templates[NextSource(pass)])
       IN /\ Readable(NextSource(pass))
          /\ Continue(i, c,
                [pass EXCEPT !.pc = IF manifests = {} THEN "sources" ELSE "apply",
                             !.rendered = Append(@, manifests),
                             !.todo = manifests])
    /\ UNCHANGED <<clusterVars, configVars, cached, view, queue, faults, crashes>>

\* Mutant: a source that cannot be read is skipped.
Bug_ReadSourceFails(i, c) ==
    /\ AtSource(i, c)
    /\ ~Readable(NextSource(passes[i][c]))
    /\ Continue(i, c, [passes[i][c] EXCEPT !.rendered = Append(@, {})])
    /\ UNCHANGED <<clusterVars, configVars, cached, view, queue, faults, crashes>>

ReadSourceFails(i, c) ==
    /\ AtSource(i, c)
    /\ \/ ~Readable(NextSource(passes[i][c])) /\ UNCHANGED faults
       \/ Fault
    /\ Requeue(i, c)
    /\ UNCHANGED <<clusterVars, configVars, cached, view, crashes>>
-----------------------------------------------------------------------------
(* Apply: create the objects of one source.                                *)

\* The virtual workspace gives access to the clusters it shows.
Reachable(i, c) == i \in initializers[c]

KindServed(c, obj) == ProvidedBy[obj] = BuiltIn \/ ProvidedBy[obj] \in kinds[c]
NamespaceExists(c, obj) == NamespaceOf[obj] = BuiltIn \/ NamespaceOf[obj] \in objects[c]

\* The pass is about to create obj.
AtObject(i, c, obj) ==
    /\ Running(i, c) /\ passes[i][c].pc = "apply"
    /\ obj \in SortObjectsByHierarchy(passes[i][c].todo)

\* The object is created, or exists already, which is as good.
ApplyObject(i, c, obj) ==
    /\ AtObject(i, c, obj)
    /\ Reachable(i, c) /\ KindServed(c, obj) /\ NamespaceExists(c, obj)
    /\ objects' = [objects EXCEPT ![c] = @ \cup {obj}]
    /\ LET rest == passes[i][c].todo \ {obj} IN
       Continue(i, c, [passes[i][c] EXCEPT
                          !.pc = IF rest = {} THEN "sources" ELSE "apply",
                          !.todo = rest])
    /\ UNCHANGED <<status, initializers, kinds, configVars, cached, view, queue, faults, crashes>>

\* Mutant: the missing kind is an error like any other and ends the pass.
Bug_ApplyNoKindMatchEnds(i, c, obj) ==
    /\ AtObject(i, c, obj)
    /\ Reachable(i, c) /\ ~KindServed(c, obj)
    /\ EndPass(i, c)
    /\ queue' = [queue EXCEPT ![i] = @ \cup {c}]
    /\ UNCHANGED <<clusterVars, configVars, cached, view, faults, crashes>>

\* The kind is not served (yet): Apply leaves the rest of the source and asks for
\* a requeue; the pass goes on with the next source.
ApplyNoKindMatch(i, c, obj) ==
    /\ AtObject(i, c, obj)
    /\ Reachable(i, c) /\ ~KindServed(c, obj)
    /\ Continue(i, c, [passes[i][c] EXCEPT !.pc = "sources", !.todo = {}, !.requeue = TRUE])
    /\ UNCHANGED <<clusterVars, configVars, cached, view, queue, faults, crashes>>

\* Every other error ends the pass.  A fault can hit the answer to a request that
\* was carried out.
ApplyFails(i, c, obj) ==
    /\ AtObject(i, c, obj)
    /\ \/ /\ \/ ~Reachable(i, c)
             \/ KindServed(c, obj) /\ ~NamespaceExists(c, obj)
          /\ UNCHANGED <<objects, faults>>
       \/ Fault /\ UNCHANGED objects
       \/ /\ Fault
          /\ Reachable(i, c) /\ KindServed(c, obj) /\ NamespaceExists(c, obj)
          /\ objects' = [objects EXCEPT ![c] = @ \cup {obj}]
    /\ Requeue(i, c)
    /\ UNCHANGED <<status, initializers, kinds, configVars, cached, view, crashes>>
-----------------------------------------------------------------------------
(* The end of a pass.                                                      *)

\* Every source has been handled.
AtEnd(i, c) ==
    /\ Running(i, c) /\ passes[i][c].pc = "sources"
    /\ Len(passes[i][c].rendered) = Len(passes[i][c].sources)

\* Mutant: the result without RequeueAfter.
Bug_RequeueAfter(i, c) ==
    /\ AtEnd(i, c)
    /\ passes[i][c].requeue
    /\ EndPass(i, c)
    /\ UNCHANGED <<clusterVars, configVars, cached, view, queue, faults, crashes>>

\* Mutant: the worker waits and tries again itself.
Bug_RequeueAfterWaits(i, c) ==
    /\ AtEnd(i, c)
    /\ passes[i][c].requeue
    /\ Continue(i, c, [passes[i][c] EXCEPT !.pc = "target", !.sources = <<>>,
                          !.rendered = <<>>, !.requeue = FALSE])
    /\ UNCHANGED <<clusterVars, configVars, cached, view, queue, faults, crashes>>

RequeueAfter(i, c) ==
    /\ AtEnd(i, c)
    /\ passes[i][c].requeue
    /\ Requeue(i, c)
    /\ UNCHANGED <<clusterVars, configVars, cached, view, faults, crashes>>

\* The merge patch replaces the list by the pass's copy without the initializer.
\* kcp accepts it only if that removes this initializer and nothing else.
Patched(i, c) == passes[i][c].snapshot \ {i}
PatchAccepted(i, c) == Reachable(i, c) /\ Patched(i, c) = initializers[c] \ {i}

\* Mutant: the initializer goes although a source asked for a requeue.
Bug_RemoveInitializer(i, c) ==
    /\ AtEnd(i, c)
    /\ PatchAccepted(i, c)
    /\ initializers' = [initializers EXCEPT ![c] = Patched(i, c)]
    /\ EndPass(i, c)
    /\ UNCHANGED <<status, objects, kinds, configVars, cached, view, queue, faults, crashes>>

RemoveInitializer(i, c) ==
    /\ AtEnd(i, c)
    /\ ~passes[i][c].requeue
    /\ PatchAccepted(i, c)
    /\ initializers' = [initializers EXCEPT ![c] = Patched(i, c)]
    /\ EndPass(i, c)
    /\ UNCHANGED <<status, objects, kinds, configVars, cached, view, queue, faults, crashes>>

RemoveInitializerFails(i, c) ==
    /\ AtEnd(i, c)
    /\ ~passes[i][c].requeue
    /\ \/ ~PatchAccepted(i, c) /\ UNCHANGED <<initializers, faults>>
       \/ Fault /\ UNCHANGED initializers
       \/ /\ Fault /\ PatchAccepted(i, c)
          /\ initializers' = [initializers EXCEPT ![c] = Patched(i, c)]
    /\ Requeue(i, c)
    /\ UNCHANGED <<status, objects, kinds, configVars, cached, view, crashes>>
-----------------------------------------------------------------------------
\* The process dies and is started again; kcp and the clusters stay.
Restart ==
    /\ crashes < MaxCrashes
    /\ crashes' = crashes + 1
    /\ cached' = NothingCached /\ view' = NothingVisible
    /\ queue' = NothingQueued /\ passes' = NothingRunning
    /\ UNCHANGED <<clusterVars, configVars, faults>>

Workspaces(c) ==
    \/ CreateCluster(c)
    \/ DeleteCluster(c)
    \/ \E obj \in Object : Establish(c, obj)
    \/ \E obj \in Foreign : Provide(c, obj)

Administrator ==
    \/ \E i \in Initializer, s \in SourceLists \cup {NoTarget} : EditTarget(i, s)
    \/ \E t \in Template, text \in Texts \cup {NoTemplate} : EditTemplate(t, text)

\* One step of a running pass.
PassStep(i, c) ==
    \/ ReadTarget(i, c)
    \/ ReadSource(i, c)
    \/ ReadSourceFails(i, c)
    \/ \E obj \in Object : \/ ApplyObject(i, c, obj)
                           \/ ApplyNoKindMatch(i, c, obj)
                           \/ ApplyFails(i, c, obj)
    \/ RequeueAfter(i, c)
    \/ RemoveInitializer(i, c)
    \/ RemoveInitializerFails(i, c)

Next ==
    \/ \E c \in Cluster : Workspaces(c)
    \/ Administrator
    \/ \E i \in Initializer : TargetWatchEvent(i)
    \/ \E i \in Initializer, c \in Cluster :
          WatchEvent(i, c) \/ Resync(i, c) \/ StartPass(i, c) \/ PassStep(i, c)
    \/ Restart

Spec == Init /\ [][Next]_vars

(* Watches deliver, kinds are served in the end, a running pass goes on.   *)
(* Nobody has to create or delete a cluster, edit, or provide anything.    *)
(* The workqueue is FIFO and a worker that is done takes the next cluster: *)
(* a queued cluster is started although others are queued again and again  *)
(* - strong fairness, since a worker is not free all the time.             *)
Fairness ==
    /\ \A c \in Cluster, obj \in Object : WF_vars(Establish(c, obj))
    /\ \A i \in Initializer : WF_vars(TargetWatchEvent(i))
    /\ \A i \in Initializer, c \in Cluster :
          /\ WF_vars(WatchEvent(i, c))
          /\ SF_vars(StartPass(i, c))
          /\ WF_vars(PassStep(i, c))

FairSpec == Spec /\ Fairness
-----------------------------------------------------------------------------
(* Safety.                                                                 *)

\* Initializer i is removed from cluster c, which stays.
Released(i, c) ==
    i \in initializers[c] /\ i \notin initializers'[c] /\ status'[c] = "present"

ManifestsOf(i, k) == Manifests(templates[targets[i][k]])

\* All sources of the target can be read.
AllReadable(i) ==
    targets[i] # NoTarget /\ \A k \in DOMAIN targets[i] : Readable(targets[i][k])

\* While nobody edits the configuration, an initializer is removed only when every
\* source of its InitTarget is readable and every object of every source exists
\* in the cluster (docs/content/README.md:52-53).
ReleasedOnlyWhenApplied ==
    [][\A i \in Initializer, c \in Cluster :
          Released(i, c) /\ edits = 0 =>
              AllReadable(i) /\ \A k \in DOMAIN targets[i] : ManifestsOf(i, k) \subseteq objects[c]]_vars

\* However the InitTarget and the templates are edited during a pass, an initializer
\* is removed only by a pass that has read each source it was given by the InitTarget,
\* and only when everything the pass read exists in the cluster.
InitializerRemovedOnlyWhenComplete ==
    [][\A i \in Initializer, c \in Cluster : Released(i, c) =>
          /\ AtEnd(i, c)
          /\ \A k \in DOMAIN passes[i][c].rendered :
                 passes[i][c].rendered[k] \subseteq objects[c]]_vars

\* A cluster that still carries an initializer is never forgotten by its manager:
\* an event about it is on its way, it is queued, or a pass is running.
NeverForgotten ==
    \A i \in Initializer, c \in Cluster :
        i \in initializers[c] =>
            \/ view[i][c] # Shown(i, c)
            \/ c \in queue[i]
            \/ Running(i, c)

\* The order of application makes the order inside a template irrelevant: when
\* it is an object's turn, the namespace it needs and the object that provides
\* its kind exist already if the same template has them (sort.go:27).
PrerequisitesFirst ==
    \A i \in Initializer, c \in Cluster, obj \in Object :
        AtObject(i, c, obj) /\ status[c] = "present" =>
            LET rendered == passes[i][c].rendered IN
            {ProvidedBy[obj], NamespaceOf[obj]} \cap rendered[Len(rendered)] \subseteq objects[c]

(* The abstract specification.  What a pass has read so far is its plan.   *)

Wanted(pass) == UNION {pass.rendered[k] : k \in DOMAIN pass.rendered}

\* Nothing is left to do but to remove the initializer.
Final(pass) ==
    /\ pass.pc = "sources" /\ Len(pass.rendered) = Len(pass.sources)
    /\ ~pass.requeue

PlanOf(pass) ==
    IF pass = NoPass THEN NoPass ELSE [wanted |-> Wanted(pass), final |-> Final(pass)]

Plan == [i \in Initializer |-> [c \in Cluster |-> PlanOf(passes[i][c])]]

Promise == INSTANCE Bootstrap WITH NoPlan <- NoPass, plan <- Plan

\* The agent implements Bootstrap: it creates only objects of its templates, only in
\* clusters that carry its initializer, and lets go of a cluster only when what
\* it has read exists there - through requeues, faults, edits and restarts, and
\* when another manager changes the same list of initializers meanwhile.
PromiseKept == Promise!Spec
-----------------------------------------------------------------------------
(* Liveness.                                                               *)

\* No object is in a namespace that only a later source of the target brings.
NamespacesInOrder(i) ==
    \A k \in DOMAIN targets[i] : \A obj \in ManifestsOf(i, k) :
        \/ NamespaceOf[obj] = BuiltIn
        \/ \E j \in 1..k : NamespaceOf[obj] \in ManifestsOf(i, j)

\* The kind of every object is served, or its provider is wanted by an
\* initializer that is still at work on the cluster.
KindsCome(i, c) ==
    \A k \in DOMAIN targets[i] : \A obj \in ManifestsOf(i, k) :
        \/ KindServed(c, obj)
        \/ \E other \in initializers[c] :
              /\ AllReadable(other) /\ NamespacesInOrder(other)
              /\ \E j \in DOMAIN targets[other] : ProvidedBy[obj] \in ManifestsOf(other, j)

Initializable(i, c) ==
    status[c] = "present" /\ AllReadable(i) /\ NamespacesInOrder(i) /\ KindsCome(i, c)

\* A cluster that stays is initialized in the end, if the sources can be applied
\* at all: whatever the order of CRDs and their users among the sources, though
\* two initializers wait for each other's kinds, after faults and restarts, and
\* though other clusters that are stuck share the workers.
EventuallyInitialized ==
    \A i \in Initializer, c \in Cluster :
        <>[]Initializable(i, c) => <>[](i \notin initializers[c])

\* A cluster without the initializer, or deleted in the middle of a pass, is let
\* go: no pass and no retry goes on for it (docs/content/README.md:52-53).
DoneClusterForgotten ==
    \A i \in Initializer, c \in Cluster :
        <>[](status[c] # "new" /\ i \notin initializers[c])
        => <>[](c \notin queue[i] /\ ~Running(i, c))
=============================================================================
