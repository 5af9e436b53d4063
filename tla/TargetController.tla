-------------------------- MODULE TargetController --------------------------
(***************************************************************************)
(* The target controller (internal/controller/targetcontroller).           *)
(*                                                                         *)
(* It watches InitTargets and keeps one multicluster manager running for   *)
(* each: Reconcile launches a manager for a target it has none for and     *)
(* cancels the manager of a target that is being deleted.  The managers    *)
(* are remembered in the map ctrlCancels, keyed by the target's UID.  Each *)
(* launch starts two goroutines: one runs the manager (mgr.Start), one -   *)
(* called the reaper here - waits for the manager's context to end and     *)
(* then deletes the map entry under ctrlLock.                              *)
(*                                                                         *)
(* The map is read (line 129) and written (line 159) by the reconciler     *)
(* WITHOUT the lock that the reaper holds for its delete.  A step of the   *)
(* reconciler whose pc is "lookup" or "register" is inside such an access, *)
(* a reaper in "deleting" is inside its delete.                            *)
(***************************************************************************)
EXTENDS Naturals, FiniteSets

CONSTANTS
    Name,           \* names of InitTargets
    WorkspaceType,  \* WorkspaceTypes an InitTarget may reference
    Labels,         \* the values "labels match the selector" takes, a subset of BOOLEAN
    Manager,        \* identities of multicluster managers
    NoTarget,       \* stands for a missing InitTarget
    NoManager,      \* stands for an unused manager identity
    MaxUid,         \* bound: InitTargets created in a behaviour
    MaxFailures,    \* bound: failed API calls, constructors and manager starts
    MaxCrashes      \* bound: deaths of the agent process

ASSUME ConstantsAssumption ==
    /\ Labels \subseteq BOOLEAN
    /\ MaxUid \in Nat /\ MaxFailures \in Nat /\ MaxCrashes \in Nat

VARIABLES
    targets,      \* the InitTargets in the API server, by name
    types,        \* the WorkspaceTypes that exist
    cached,       \* the InitTargets in the agent's informer cache
    queue,        \* names in the controller's workqueue
    worker,       \* the one reconciler goroutine
    ctrlCancels,  \* partial map from key to the manager whose cancel func it holds
    managers,     \* what each launched manager and its two goroutines are doing
    created,      \* number of InitTargets created so far
    failures,     \* number of failures so far
    crashes       \* number of process deaths so far

vars == <<targets, types, cached, queue, worker, ctrlCancels, managers,
          created, failures, crashes>>

kcpVars == <<targets, types, created>>
informerVars == <<cached, queue>>
budgets == <<failures, crashes>>
-----------------------------------------------------------------------------
Uid == 1..MaxUid

\* An InitTarget: identity, workspaceTypeRef, whether its labels match the
\* agent's selector, and whether a deletionTimestamp is set.
Target == [name: Name, uid: Uid, type: WorkspaceType,
           labelled: BOOLEAN, deleting: BOOLEAN]

\* A launched manager: the key it is registered under, the name its
\* InitTargetProvider resolves, the type it serves, its context, the goroutine
\* in mgr.Start and the goroutine that reaps the map entry.
ManagerState == [key: Uid, name: Name, type: WorkspaceType,
                 ctx: {"live", "cancelled"},
                 run: {"running", "stopped"},
                 reaper: {"waiting", "deleting", "done"}]

ASSUME NoneAssumption == NoTarget \notin Target /\ NoManager \notin ManagerState

Idle == [pc |-> "idle", target |-> NoTarget]

Exists(m) == managers[m] # NoManager
Live(m) == Exists(m) /\ managers[m].ctx = "live"

\* The manager's controllers run; that they are told to stop may come late.
Runs(m) == Exists(m) /\ managers[m].run = "running"

\* ctrlLock: the only steps that hold it across others are a reaper's.
ctrlLockHeld == \E m \in Manager : Exists(m) /\ managers[m].reaper = "deleting"

\* Mutant: keyed by the name, which a recreated InitTarget has again.
Bug_getInitTargetKey(target) == target.name

getInitTargetKey(target) == target.uid

\* Go's assignment to a map entry and delete().
MapPut(map, key, m) ==
    [k \in DOMAIN map \cup {key} |-> IF k = key THEN m ELSE map[k]]
MapDelete(map, key) == [k \in DOMAIN map \ {key} |-> map[k]]

TypeOK ==
    /\ targets \in [Name -> Target \cup {NoTarget}]
    /\ types \subseteq WorkspaceType
    /\ cached \in [Name -> Target \cup {NoTarget}]
    /\ queue \subseteq Name
    /\ worker \in [pc: {"lookup", "prepare", "register", "cleanup"}, target: Target]
                  \cup {Idle}
    /\ DOMAIN ctrlCancels \subseteq Uid
    /\ \A k \in DOMAIN ctrlCancels : ctrlCancels[k] \in Manager
    /\ managers \in [Manager -> ManagerState \cup {NoManager}]
    /\ created \in 0..MaxUid
    /\ failures \in 0..MaxFailures
    /\ crashes \in 0..MaxCrashes

Init ==
    /\ targets = [n \in Name |-> NoTarget]
    /\ types \in SUBSET WorkspaceType
    /\ cached = [n \in Name |-> NoTarget]
    /\ queue = {}
    /\ worker = Idle
    /\ ctrlCancels = [k \in {} |-> NoManager]
    /\ managers = [m \in Manager |-> NoManager]
    /\ created = 0
    /\ failures = 0
    /\ crashes = 0
-----------------------------------------------------------------------------
(* Administrators and kcp: InitTargets and WorkspaceTypes come and go.     *)

CreateTarget(n, t, l) ==
    /\ targets[n] = NoTarget
    /\ created < MaxUid
    /\ created' = created + 1
    /\ targets' = [targets EXCEPT ![n] =
          [name |-> n, uid |-> created + 1, type |-> t,
           labelled |-> l, deleting |-> FALSE]]
    /\ UNCHANGED <<types, informerVars, worker, ctrlCancels, managers, budgets>>

\* Nothing in the CRD makes spec.workspaceTypeRef immutable.
EditTarget(n, t, l) ==
    /\ targets[n] # NoTarget
    /\ targets' = [targets EXCEPT ![n].type = t, ![n].labelled = l]
    /\ UNCHANGED <<types, created, informerVars, worker, ctrlCancels, managers, budgets>>

\* Deleting an object that carries somebody's finalizer only marks it.
MarkDeleted(n) ==
    /\ targets[n] # NoTarget
    /\ targets' = [targets EXCEPT ![n].deleting = TRUE]
    /\ UNCHANGED <<types, created, informerVars, worker, ctrlCancels, managers, budgets>>

\* Without a finalizer (the agent sets none), or when the last one is dropped,
\* the object is gone at once.
RemoveTarget(n) ==
    /\ targets[n] # NoTarget
    /\ targets' = [targets EXCEPT ![n] = NoTarget]
    /\ UNCHANGED <<types, created, informerVars, worker, ctrlCancels, managers, budgets>>

ToggleType(t) ==
    /\ types' = (types \ {t}) \cup ({t} \ types)
    /\ UNCHANGED <<targets, created, informerVars, worker, ctrlCancels, managers, budgets>>
-----------------------------------------------------------------------------
(* The informer and the event filter of the controller.                    *)

\* predicate.Factory around the label selector: CREATE and DELETE look at the
\* object, UPDATE at the old or the new one.
ByLabels(old, new) ==
    \/ old # NoTarget /\ old.labelled
    \/ new # NoTarget /\ new.labelled

WatchEvent(n) ==
    /\ cached[n] # targets[n]
    /\ cached' = [cached EXCEPT ![n] = targets[n]]
    /\ queue' = IF ByLabels(cached[n], targets[n]) THEN queue \cup {n} ELSE queue
    /\ UNCHANGED <<kcpVars, worker, ctrlCancels, managers, budgets>>

\* The informer's periodic resync replays every cached object as an update.
Resync(n) ==
    /\ cached[n] # NoTarget
    /\ ByLabels(cached[n], cached[n])
    /\ queue' = queue \cup {n}
    /\ UNCHANGED <<kcpVars, cached, worker, ctrlCancels, managers, budgets>>
-----------------------------------------------------------------------------
(* Reconcile: one worker (MaxConcurrentReconciles: 1).                     *)

\* Take a name from the queue and get the target from the cache.  A target
\* that is not found is nothing to do.
Reconcile(n) ==
    /\ worker = Idle
    /\ n \in queue
    /\ queue' = queue \ {n}
    /\ worker' =
          IF cached[n] = NoTarget THEN Idle
          ELSE [pc |-> IF cached[n].deleting THEN "cleanup" ELSE "lookup",
                target |-> cached[n]]
    /\ UNCHANGED <<kcpVars, cached, ctrlCancels, managers, budgets>>

\* Mutant: the early return for an existing controller is missing.
Bug_LookupController ==
    /\ worker.pc = "lookup"
    /\ worker' = [worker EXCEPT !.pc = "prepare"]
    /\ UNCHANGED <<kcpVars, informerVars, ctrlCancels, managers, budgets>>

\* ensureInitController, first half: is there a controller already?
LookupController ==
    /\ worker.pc = "lookup"
    /\ worker' = IF getInitTargetKey(worker.target) \in DOMAIN ctrlCancels
                 THEN Idle
                 ELSE [worker EXCEPT !.pc = "prepare"]
    /\ UNCHANGED <<kcpVars, informerVars, ctrlCancels, managers, budgets>>

\* getWorkspaceType, createMulticlusterManager and newInitController succeed.
PrepareManager ==
    /\ worker.pc = "prepare"
    /\ worker.target.type \in types
    /\ worker' = [worker EXCEPT !.pc = "register"]
    /\ UNCHANGED <<kcpVars, informerVars, ctrlCancels, managers, budgets>>

\* One of the three fails, because the WorkspaceType is missing or otherwise;
\* the returned error puts the name back into the queue.
PrepareFails ==
    /\ worker.pc = "prepare"
    /\ \/ worker.target.type \notin types /\ UNCHANGED failures
       \/ failures < MaxFailures /\ failures' = failures + 1
    /\ worker' = Idle
    /\ queue' = queue \cup {worker.target.name}
    /\ UNCHANGED <<kcpVars, cached, ctrlCancels, managers, crashes>>

\* Mutant: the context comes from the reconcile request, which ends right away.
Bug_RegisterController(m) ==
    /\ worker.pc = "register"
    /\ ~Exists(m)
    /\ ctrlCancels' = MapPut(ctrlCancels, getInitTargetKey(worker.target), m)
    /\ managers' = [managers EXCEPT ![m] =
          [key |-> getInitTargetKey(worker.target),
           name |-> worker.target.name, type |-> worker.target.type,
           ctx |-> "cancelled", run |-> "running", reaper |-> "waiting"]]
    /\ worker' = Idle
    /\ UNCHANGED <<kcpVars, informerVars, budgets>>

\* The new context, the write to the map and the two goroutines.
RegisterController(m) ==
    /\ worker.pc = "register"
    /\ ~Exists(m)
    /\ ctrlCancels' = MapPut(ctrlCancels, getInitTargetKey(worker.target), m)
    /\ managers' = [managers EXCEPT ![m] =
          [key |-> getInitTargetKey(worker.target),
           name |-> worker.target.name, type |-> worker.target.type,
           ctx |-> "live", run |-> "running", reaper |-> "waiting"]]
    /\ worker' = Idle
    /\ UNCHANGED <<kcpVars, informerVars, budgets>>

\* Mutant: the entry is deleted but its cancel func is not called.
Bug_CleanupController ==
    /\ worker.pc = "cleanup"
    /\ ~ctrlLockHeld
    /\ ctrlCancels' = MapDelete(ctrlCancels, getInitTargetKey(worker.target))
    /\ worker' = Idle
    /\ UNCHANGED <<kcpVars, informerVars, managers, budgets>>

\* cleanupController, under ctrlLock: cancel the manager and forget it.
CleanupController ==
    /\ worker.pc = "cleanup"
    /\ ~ctrlLockHeld
    /\ LET key == getInitTargetKey(worker.target) IN
       IF key \in DOMAIN ctrlCancels
       THEN /\ managers' = [managers EXCEPT ![ctrlCancels[key]].ctx = "cancelled"]
            /\ ctrlCancels' = MapDelete(ctrlCancels, key)
       ELSE UNCHANGED <<managers, ctrlCancels>>
    /\ worker' = Idle
    /\ UNCHANGED <<kcpVars, informerVars, budgets>>
-----------------------------------------------------------------------------
(* The goroutines of a manager.                                            *)

\* Mutant: the error is logged but the context stays open.
Bug_ManagerFails(m) ==
    /\ Live(m)
    /\ failures < MaxFailures
    /\ failures' = failures + 1
    /\ managers' = [managers EXCEPT ![m].run = "stopped"]
    /\ UNCHANGED <<kcpVars, informerVars, worker, ctrlCancels, crashes>>

\* mgr.Start returns an error of its own: the goroutine cancels the context.
ManagerFails(m) ==
    /\ Live(m)
    /\ failures < MaxFailures
    /\ failures' = failures + 1
    /\ managers' = [managers EXCEPT ![m].ctx = "cancelled", ![m].run = "stopped"]
    /\ UNCHANGED <<kcpVars, informerVars, worker, ctrlCancels, crashes>>

\* mgr.Start returns because its context was cancelled.
ManagerStops(m) ==
    /\ Exists(m)
    /\ managers[m].ctx = "cancelled" /\ managers[m].run = "running"
    /\ managers' = [managers EXCEPT ![m].run = "stopped"]
    /\ UNCHANGED <<kcpVars, informerVars, worker, ctrlCancels, budgets>>

ReaperLocks(m) ==
    /\ Exists(m)
    /\ managers[m].ctx = "cancelled" /\ managers[m].reaper = "waiting"
    /\ ~ctrlLockHeld
    /\ managers' = [managers EXCEPT ![m].reaper = "deleting"]
    /\ UNCHANGED <<kcpVars, informerVars, worker, ctrlCancels, budgets>>

ReaperDeletes(m) ==
    /\ Exists(m)
    /\ managers[m].reaper = "deleting"
    /\ ctrlCancels' = MapDelete(ctrlCancels, managers[m].key)
    /\ managers' = [managers EXCEPT ![m].reaper = "done"]
    /\ UNCHANGED <<kcpVars, informerVars, worker, budgets>>

\* Both goroutines have returned: the identity can be used again.
Collect(m) ==
    /\ Exists(m)
    /\ managers[m].run = "stopped" /\ managers[m].reaper = "done"
    /\ managers' = [managers EXCEPT ![m] = NoManager]
    /\ UNCHANGED <<kcpVars, informerVars, worker, ctrlCancels, budgets>>
-----------------------------------------------------------------------------
(* Death of the process.                                                   *)

\* The reconciler is inside an unlocked map access while a reaper deletes.
MapRace == ctrlLockHeld /\ worker.pc \in {"lookup", "register"}

\* The process dies - killed, or ended by the Go runtime when it notices a
\* MapRace - and is started again: the map, the queue, the cache and every
\* manager are gone; the informer lists all InitTargets afresh.
Restart ==
    /\ crashes < MaxCrashes
    /\ crashes' = crashes + 1
    /\ cached' = [n \in Name |-> NoTarget]
    /\ queue' = {}
    /\ worker' = Idle
    /\ ctrlCancels' = [k \in {} |-> NoManager]
    /\ managers' = [m \in Manager |-> NoManager]
    /\ UNCHANGED <<kcpVars, failures>>
-----------------------------------------------------------------------------
Administrator ==
    \/ \E n \in Name, t \in WorkspaceType, l \in Labels :
          CreateTarget(n, t, l) \/ EditTarget(n, t, l)
    \/ \E n \in Name : MarkDeleted(n) \/ RemoveTarget(n)
    \/ \E t \in WorkspaceType : ToggleType(t)

Worker ==
    \/ LookupController
    \/ PrepareManager
    \/ PrepareFails
    \/ \E m \in Manager : RegisterController(m)
    \/ CleanupController

Goroutines(m) ==
    ManagerStops(m) \/ ReaperLocks(m) \/ ReaperDeletes(m) \/ Collect(m)

Next ==
    \/ Administrator
    \/ \E n \in Name : WatchEvent(n) \/ Resync(n) \/ Reconcile(n)
    \/ Worker
    \/ \E m \in Manager : Goroutines(m) \/ ManagerFails(m)
    \/ Restart

Spec == Init /\ [][Next]_vars

(* The Go scheduler runs every goroutine that can run, the watch delivers  *)
(* and the informer resyncs periodically.  The workqueue is FIFO, so a     *)
(* queued name is reached although others are retried before it: strong    *)
(* fairness of Reconcile(n).  Nothing is assumed about administrators,     *)
(* failures and deaths.                                                    *)
Fairness ==
    /\ WF_vars(Worker)
    /\ \A n \in Name : /\ WF_vars(WatchEvent(n))
                       /\ WF_vars(Resync(n))
                       /\ SF_vars(Reconcile(n))
    /\ \A m \in Manager : WF_vars(Goroutines(m))

FairSpec == Spec /\ Fairness
-----------------------------------------------------------------------------
(* Safety.                                                                 *)

\* Every manager that is live can still be stopped: the map holds its cancel
\* func.  A reaper that deleted a successor's entry would break this.
LiveManagerRegistered ==
    \A m \in Manager : Live(m) =>
        /\ managers[m].key \in DOMAIN ctrlCancels
        /\ ctrlCancels[managers[m].key] = m

\* No InitTarget has two managers running, the one that has been told to stop
\* and has not returned yet included: whatever the order of failures, deletions,
\* late reapers and recreations of the same name.
OneRunningManagerPerTarget ==
    \A m1, m2 \in Manager :
        (/\ Runs(m1) /\ Runs(m2)
         /\ managers[m1].key = managers[m2].key) => m1 = m2

\* A manager that still runs is told to stop only when its InitTarget is on
\* its way out: label changes, edits, stale cache entries and retries never
\* stop one.
StoppedOnlyWhenDeleted ==
    \A m \in Manager :
        Exists(m) /\ managers[m].ctx = "cancelled" /\ managers[m].run = "running"
        => \A n \in Name : targets[n] # NoTarget /\ targets[n].uid = managers[m].key
                           => targets[n].deleting
-----------------------------------------------------------------------------
(* What the documentation and comments say and the code does not do.       *)

\* Nothing is on its way to the reconciler and every stopped manager is reaped.
Settled ==
    /\ cached = targets /\ queue = {} /\ worker = Idle
    /\ \A m \in Manager : Exists(m) => Live(m)

\* A manager is there for an InitTarget (controller.go:67): once everything has
\* settled, each live manager still has one.
ManagersHaveTargets ==
    Settled => \A m \in Manager : Live(m) =>
        \E n \in Name : targets[n] # NoTarget /\ targets[n].uid = managers[m].key

\* The map of cancel funcs is free of data races (the tests run with -race,
\* hack/run-tests.sh:23).
NoMapRace == ~MapRace
-----------------------------------------------------------------------------
(* Liveness.                                                               *)

Servable(n, t) ==
    /\ targets[n] # NoTarget
    /\ ~targets[n].deleting /\ targets[n].labelled
    /\ targets[n].type = t /\ t \in types

Served(n) ==
    /\ targets[n] # NoTarget
    /\ \E m \in Manager : /\ Live(m) /\ managers[m].run = "running"
                          /\ managers[m].key = targets[n].uid

\* An InitTarget that stays, matches the selector and references an existing
\* type always gets a live manager again: after a failed preparation, after a
\* manager that died, after a restart of the process.
TargetEventuallyServed ==
    \A n \in Name, t \in WorkspaceType :
        <>[]Servable(n, t) => []<>Served(n)

BeingDeleted(n, u) ==
    /\ cached[n] # NoTarget
    /\ cached[n].uid = u /\ cached[n].deleting /\ cached[n].labelled

\* When the deletion mark of an InitTarget reaches the cache and the object is
\* held there by a finalizer, its manager stops for good.
DeletedTargetStopsManager ==
    \A n \in Name, u \in Uid :
        <>[]BeingDeleted(n, u) =>
            <>[](\A m \in Manager : Exists(m) /\ managers[m].key = u
                                    => managers[m].run = "stopped")
=============================================================================
