--------------------------- MODULE InformerFactory ---------------------------
(***************************************************************************)
(* The shared informer factories of the SDK                                *)
(* (sdk/informers/externalversions), used by several goroutines at once.   *)
(*                                                                         *)
(* A factory keeps one informer per type.  InformerFor builds it on the    *)
(* first request, Start runs in a goroutine each one that is not running   *)
(* yet, WaitForCacheSync waits for those that Start has started and        *)
(* Shutdown for their goroutines to end.  The maps are guarded by a lock   *)
(* which WaitForCacheSync and Shutdown give back before they wait.         *)
(*                                                                         *)
(* There are two: the cluster-aware one, whose Cluster(name) scopes        *)
(* delegate to it, and the scoped one for a single workspace, which has no *)
(* Shutdown.  Init picks one and the options it is constructed with.       *)
(***************************************************************************)
EXTENDS Naturals, Sequences, FiniteSets

CONSTANTS
    Resource,    \* resources a caller asks ForResource for
    Type,        \* the known ones: inittargets, inittemplates
    Caller,      \* goroutines that use the factory
    StopCh,      \* stop channels
    Tweak,       \* what WithTweakListOptions is called with, Nil when it is not called
    Transform,   \* the same for WithTransform
    Resync,      \* the sets of types WithCustomResyncConfig is called with
    NoCaller,    \* nobody holds the lock
    Nil          \* no tweak function, no transform, no stop channel

ASSUME FactoryAssumption ==
    /\ Type \subseteq Resource
    /\ NoCaller \notin Caller
    /\ Nil \notin StopCh
    /\ Resync \subseteq SUBSET Type

VARIABLES
    factory,           \* the options the constructor forwarded
    informers,         \* partial map from type to the informer in `built'
    startedInformers,  \* types whose informer was started
    shuttingDown,      \* the flag Shutdown sets
    lock,              \* who holds f.lock
    built,             \* every informer built, in order
    wg,                \* informers whose goroutine runs: what f.wg counts
    closed,            \* stop channels closed so far
    calls,             \* what each caller is doing
    mine,              \* informers each caller was handed
    asked,             \* those of them handed out before its last Start
    drained            \* some Shutdown has returned

vars == <<factory, informers, startedInformers, shuttingDown, lock, built, wg,
          closed, calls, mine, asked, drained>>
-----------------------------------------------------------------------------
(* Construction and options                                                *)

SharedInformerOptions == [tweak |-> Nil, transform |-> Nil, resync |-> {}]

WithCustomResyncConfig(opts, types) == [opts EXCEPT !.resync = @ \cup types]
WithTweakListOptions(opts, tweak) == [opts EXCEPT !.tweak = tweak]
WithTransform(opts, transform) == [opts EXCEPT !.transform = transform]

NewSharedInformerFactoryWithOptions(opts) ==
    [tweak |-> opts.tweak, transform |-> opts.transform, resync |-> opts.resync,
     scoped |-> FALSE]

\* The transform is not forwarded.
NewSharedScopedInformerFactoryWithOptions(opts) ==
    [tweak |-> opts.tweak, transform |-> Nil, resync |-> opts.resync, scoped |-> TRUE]

FactoryOptions ==
    { WithTransform(WithTweakListOptions(
          WithCustomResyncConfig(SharedInformerOptions, types), tweak), transform) :
        types \in Resync, tweak \in Tweak, transform \in Transform }

Idle == [op |-> "idle"]

Init ==
    /\ \E opts \in FactoryOptions :
           factory \in { NewSharedInformerFactoryWithOptions(opts),
                         NewSharedScopedInformerFactoryWithOptions(opts) }
    /\ informers = <<>>
    /\ startedInformers = {}
    /\ shuttingDown = FALSE
    /\ lock = NoCaller
    /\ built = <<>>
    /\ wg = {}
    /\ closed = {}
    /\ calls = [c \in Caller |-> Idle]
    /\ mine = [c \in Caller |-> {}]
    /\ asked = [c \in Caller |-> {}]
    /\ drained = FALSE
-----------------------------------------------------------------------------
(* InformerFor: get or create under the lock                               *)

\* Mutant: the lock is not taken.
Bug_LockFree == TRUE
LockFree == lock = NoCaller

\* A map with one more entry.
Put(map, key, value) ==
    [k \in DOMAIN map \cup {key} |-> IF k = key THEN value ELSE map[k]]

Doing(c, op) == calls[c].op = op
Begin(c, call) == calls' = [calls EXCEPT ![c] = call]
Return(c) == Begin(c, Idle)

\* The informers NewFilteredInitTargetClusterInformer and its twins build:
\* their list and watch functions apply the factory's tweak.
NewFilteredInformer(type, tweak, resync) ==
    [type |-> type, tweak |-> tweak, transform |-> Nil, resync |-> resync,
     synced |-> FALSE, stop |-> Nil, starts |-> 0]

resyncPeriod(type) == IF type \in factory.resync THEN "custom" ELSE "default"

defaultInformer(type) ==
    NewFilteredInformer(type, factory.tweak, resyncPeriod(type))

scopedDefaultInformer(type) ==
    [NewFilteredInformer(type, factory.tweak, resyncPeriod(type))
        EXCEPT !.transform = factory.transform]

HandOut(c, i) == mine' = [mine EXCEPT ![c] = @ \cup {i}]

\* ForResource, Informer and Lister all come here; another resource is refused
\* before the factory is touched.
ForResource(c, resource) ==
    /\ Doing(c, "idle")
    /\ resource \in Type
    /\ Begin(c, [op |-> "informerFor", type |-> resource])
    /\ UNCHANGED <<factory, informers, startedInformers, shuttingDown, lock, built, wg,
                   closed, mine, asked, drained>>

InformerExists(c) ==
    /\ Doing(c, "informerFor")
    /\ LockFree
    /\ calls[c].type \in DOMAIN informers
    /\ HandOut(c, informers[calls[c].type])
    /\ Return(c)
    /\ UNCHANGED <<factory, informers, startedInformers, shuttingDown, lock, built, wg,
                   closed, asked, drained>>

\* The type was not found in the map: the lock is held while newFunc runs.
InformerMissing(c) ==
    /\ Doing(c, "informerFor")
    /\ LockFree
    /\ calls[c].type \notin DOMAIN informers
    /\ lock' = c
    /\ Begin(c, [calls[c] EXCEPT !.op = "building"])
    /\ UNCHANGED <<factory, informers, startedInformers, shuttingDown, built, wg,
                   closed, mine, asked, drained>>

Store(c, informer) ==
    /\ Doing(c, "building")
    /\ built' = Append(built, informer)
    /\ informers' = Put(informers, informer.type, Len(built'))
    /\ HandOut(c, Len(built'))
    /\ lock' = NoCaller
    /\ Return(c)
    /\ UNCHANGED <<factory, startedInformers, shuttingDown, wg, closed, asked, drained>>

InformerFor(c) ==
    /\ ~factory.scoped
    /\ Store(c, defaultInformer(calls[c].type))

ScopedInformerFor(c) ==
    /\ factory.scoped
    /\ Store(c, scopedDefaultInformer(calls[c].type))
-----------------------------------------------------------------------------
(* Start                                                                   *)

\* Mutant: one informer started is taken for all of them.
Bug_Pending == IF startedInformers = {} THEN DOMAIN informers ELSE {}
Pending == DOMAIN informers \ startedInformers

\* Mutant: every type is marked, also those nobody has asked for yet.
Bug_Marked == Type
Marked == startedInformers \cup Pending

\* The goroutine of each pending informer runs with this call's stop channel.
StartPending(c, stop) ==
    /\ Doing(c, "idle")
    /\ LockFree
    /\ built' = [i \in DOMAIN built |->
                    IF i \in {informers[t] : t \in Pending}
                    THEN [built[i] EXCEPT !.stop = stop, !.starts = @ + 1]
                    ELSE built[i]]
    /\ wg' = wg \cup {informers[t] : t \in Pending}
    /\ startedInformers' = Marked
    /\ asked' = [asked EXCEPT ![c] = mine[c]]
    /\ UNCHANGED <<factory, informers, shuttingDown, lock, closed, calls, mine, drained>>

\* Mutant: Start does not look at the flag.
Bug_MayStart == TRUE
MayStart == ~shuttingDown

\* A Cluster(name) scope starts the whole factory as well.
Start(c, stop) ==
    /\ ~factory.scoped
    /\ MayStart
    /\ StartPending(c, stop)

\* The call that comes too late does nothing and says nothing.
StartTooLate(c) ==
    /\ ~factory.scoped
    /\ ~MayStart
    /\ Doing(c, "idle")
    /\ LockFree
    /\ asked' = [asked EXCEPT ![c] = mine[c]]
    /\ UNCHANGED <<factory, informers, startedInformers, shuttingDown, lock, built, wg,
                   closed, calls, mine, drained>>

ScopedStart(c, stop) ==
    /\ factory.scoped
    /\ StartPending(c, stop)
-----------------------------------------------------------------------------
(* WaitForCacheSync and Shutdown: what they wait for, unlocked             *)

Snapshot(c, stop) ==
    /\ Doing(c, "idle")
    /\ LockFree
    /\ Begin(c, [op |-> "syncing", stop |-> stop, res |-> <<>>,
                 todo |-> DOMAIN informers \cap startedInformers])
    /\ UNCHANGED <<factory, informers, startedInformers, shuttingDown, lock, built, wg,
                   closed, mine, asked, drained>>

WaitForCacheSync(c, stop) == ~factory.scoped /\ Snapshot(c, stop)
ScopedWaitForCacheSync(c, stop) == factory.scoped /\ Snapshot(c, stop)

Report(c, type, ok) ==
    /\ Doing(c, "syncing")
    /\ type \in calls[c].todo
    /\ Begin(c, [op |-> "syncing", stop |-> calls[c].stop, todo |-> calls[c].todo \ {type},
                 res |-> Put(calls[c].res, type, ok)])
    /\ UNCHANGED <<factory, informers, startedInformers, shuttingDown, lock, built, wg,
                   closed, mine, asked, drained>>

\* cache.WaitForCacheSync polls HasSynced until it holds ...
HasSynced(c, type) ==
    /\ Report(c, type, TRUE)
    /\ built[informers[type]].synced

\* ... or the stop channel is closed.
GivesUp(c, type) ==
    /\ Doing(c, "syncing") /\ calls[c].stop \in closed
    /\ Report(c, type, FALSE)

Synced(c) == Doing(c, "syncing") /\ calls[c].todo = {}

ReturnSynced(c) ==
    /\ Synced(c)
    /\ Return(c)
    /\ UNCHANGED <<factory, informers, startedInformers, shuttingDown, lock, built, wg,
                   closed, mine, asked, drained>>

Shutdown(c) ==
    /\ ~factory.scoped
    /\ Doing(c, "idle")
    /\ LockFree
    /\ shuttingDown' = TRUE
    /\ Begin(c, [op |-> "draining"])
    /\ UNCHANGED <<factory, informers, startedInformers, lock, built, wg,
                   closed, mine, asked, drained>>

ReturnShutdown(c) ==
    /\ Doing(c, "draining")
    /\ wg = {}
    /\ drained' = TRUE
    /\ Return(c)
    /\ UNCHANGED <<factory, informers, startedInformers, shuttingDown, lock, built, wg,
                   closed, mine, asked>>
-----------------------------------------------------------------------------
(* The informers' goroutines and the channels (client-go and the callers)  *)

InformerSyncs(i) ==
    /\ i \in wg /\ ~built[i].synced
    /\ built' = [built EXCEPT ![i].synced = TRUE]
    /\ UNCHANGED <<factory, informers, startedInformers, shuttingDown, lock, wg,
                   closed, calls, mine, asked, drained>>

\* Mutant: a goroutine that ends before its first sync skips wg.Done.
Bug_InformerEnds(i) ==
    /\ i \in wg /\ built[i].stop \in closed /\ built[i].synced
    /\ wg' = wg \ {i}
    /\ UNCHANGED <<factory, informers, startedInformers, shuttingDown, lock, built,
                   closed, calls, mine, asked, drained>>

InformerEnds(i) ==
    /\ i \in wg /\ built[i].stop \in closed
    /\ wg' = wg \ {i}
    /\ UNCHANGED <<factory, informers, startedInformers, shuttingDown, lock, built,
                   closed, calls, mine, asked, drained>>

CloseStopCh(ch) ==
    /\ ch \notin closed
    /\ closed' = closed \cup {ch}
    /\ UNCHANGED <<factory, informers, startedInformers, shuttingDown, lock, built, wg,
                   calls, mine, asked, drained>>

CallerStep(c) ==
    \/ InformerExists(c) \/ InformerMissing(c)
    \/ InformerFor(c) \/ ScopedInformerFor(c)
    \/ \E t \in Type : HasSynced(c, t) \/ GivesUp(c, t)
    \/ ReturnSynced(c) \/ ReturnShutdown(c)

Next ==
    \/ \E c \in Caller :
        \/ \E r \in Resource : ForResource(c, r)
        \/ \E ch \in StopCh :
            \/ Start(c, ch) \/ ScopedStart(c, ch)
            \/ WaitForCacheSync(c, ch) \/ ScopedWaitForCacheSync(c, ch)
        \/ StartTooLate(c)
        \/ Shutdown(c)
        \/ CallerStep(c)
    \/ \E i \in DOMAIN built : InformerSyncs(i) \/ InformerEnds(i)
    \/ \E ch \in StopCh : CloseStopCh(ch)

Spec == Init /\ [][Next]_vars

\* A goroutine that can go on eventually does, and an informer whose channel
\* is closed ends.  Nobody has to close a channel and no list has to succeed.
FairSpec ==
    /\ Spec
    /\ \A c \in Caller : SF_vars(CallerStep(c))
    /\ \A i \in 1..Cardinality(Type) :
           WF_vars(i \in DOMAIN built /\ InformerEnds(i))
-----------------------------------------------------------------------------
(* Properties                                                              *)

Call == [op: {"idle", "draining"}]
        \cup [op: {"informerFor", "building"}, type: Type]
        \cup { [op |-> "syncing", stop |-> ch, todo |-> todo, res |-> res] :
                 ch \in StopCh, todo \in SUBSET Type,
                 res \in UNION { [done -> BOOLEAN] : done \in SUBSET Type } }

\* Every variable holds a value of its kind: a stored informer is one that was
\* built, and what runs was built.
TypeOK ==
    /\ factory \in [tweak: Tweak \cup {Nil}, transform: Transform \cup {Nil},
                    resync: SUBSET Type, scoped: BOOLEAN]
    /\ DOMAIN informers \subseteq Type
    /\ \A t \in DOMAIN informers : informers[t] \in DOMAIN built
    /\ startedInformers \subseteq DOMAIN informers
    /\ shuttingDown \in BOOLEAN /\ drained \in BOOLEAN
    /\ lock \in Caller \cup {NoCaller}
    /\ wg \subseteq DOMAIN built
    /\ closed \subseteq StopCh
    /\ \A i \in DOMAIN built : built[i].starts \in Nat
    /\ calls \in [Caller -> Call]
    /\ \A c \in Caller : asked[c] \subseteq mine[c] /\ mine[c] \subseteq DOMAIN built

\* However the callers of InformerFor interleave, the informer handed out for a
\* type is the one the factory keeps and runs, and it is run once: nobody holds
\* an informer that Start will never fill (factory.go:127-150, 183-203).
HandedOutIsShared ==
    \A c \in Caller : \A i \in mine[c] :
        /\ informers[built[i].type] = i
        /\ built[i].starts = IF built[i].type \in startedInformers THEN 1 ELSE 0

\* Once a Shutdown has returned no goroutine of the factory runs, whatever
\* calls of Start it raced with ("blocks until all goroutines have
\* terminated", factory.go:152-159, 247-257).
NothingRunsAfterShutdown == drained => wg = {}

\* A caller that asked for its informers, called Start and is told by
\* WaitForCacheSync that nothing failed does read filled caches - unless the
\* factory was shut down, when Start did nothing (factory.go:161-181, 222-237).
SyncedCachesAreFilled ==
    \A c \in Caller :
        (Synced(c) /\ (\A t \in DOMAIN calls[c].res : calls[c].res[t])) =>
            \/ shuttingDown
            \/ \A i \in asked[c] : built[i].synced

\* The call waits, and what could hold it back has been told to stop.
ToBeReleased(c) ==
    \/ Doing(c, "draining") /\ closed = StopCh
    \/ Doing(c, "syncing") /\ calls[c].stop \in closed

\* Closing the channels releases everybody: a Shutdown returns once the stop
\* channels are closed, and a WaitForCacheSync once its own is, even when an
\* informer it waits for never syncs (factory.go:152-181).
ClosingReleases == \A c \in Caller : ToBeReleased(c) ~> ~ToBeReleased(c)
=============================================================================
