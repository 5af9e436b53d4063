----------------------- MODULE InformerFactoryProofs -----------------------
(***************************************************************************)
(* Proofs about InformerFactory, for any number of callers, types, stop    *)
(* channels and options: its types, that informers are shared and run      *)
(* once, that nothing runs after a Shutdown, and that caches reported as   *)
(* synced are filled.                                                      *)
(*                                                                         *)
(* The argument.  The lock makes a type that is being built stay absent    *)
(* from the map until it is stored (LockHeld), so an informer handed out   *)
(* is in the map for good (MineKept), and what the map says of its runs is *)
(* true (Kept).  A flag set by a Shutdown that waits stays set (Draining). *)
(* What a caller asked for before its Start is among the started types     *)
(* (AskedStarted), so a WaitForCacheSync of that caller waits for it       *)
(* (Awaited), and a cache that is filled stays so.                         *)
(***************************************************************************)
EXTENDS InformerFactory, SequenceTheorems, TLAPS

Informer == [type: Type, tweak: Tweak \cup {Nil}, transform: Transform \cup {Nil},
             resync: {"custom", "default"}, synced: BOOLEAN,
             stop: StopCh \cup {Nil}, starts: Nat]

Kept ==
    \A t \in DOMAIN informers :
        /\ built[informers[t]].type = t
        /\ built[informers[t]].starts = IF t \in startedInformers THEN 1 ELSE 0

MineKept ==
    \A c \in Caller : \A i \in mine[c] :
        /\ built[i].type \in DOMAIN informers
        /\ informers[built[i].type] = i

\* Who builds an informer holds the lock, and its type is still missing.
LockHeld ==
    \A c \in Caller : Doing(c, "building") =>
        lock = c /\ calls[c].type \notin DOMAIN informers

\* A Shutdown that waits or has returned has set the flag.
Draining ==
    (drained \/ \E c \in Caller : Doing(c, "draining")) => shuttingDown /\ ~factory.scoped

\* What a caller had asked for when it called Start was started then or before.
AskedStarted ==
    \A c \in Caller : \A i \in asked[c] :
        shuttingDown \/ built[i].type \in startedInformers

\* A caller that waits for caches waits, or has waited, for those it asked for.
Awaited ==
    \A c \in Caller : Doing(c, "syncing") =>
        /\ \A i \in asked[c] :
               shuttingDown \/ built[i].type \in calls[c].todo \cup DOMAIN calls[c].res
        /\ calls[c].todo \subseteq DOMAIN informers
        /\ \A t \in DOMAIN calls[c].res :
               /\ t \in DOMAIN informers
               /\ calls[c].res[t] => built[informers[t]].synced

IInv ==
    /\ TypeOK
    /\ built \in Seq(Informer)
    /\ mine \in [Caller -> SUBSET DOMAIN built] /\ asked \in [Caller -> SUBSET DOMAIN built]
    /\ Kept
    /\ MineKept
    /\ LockHeld
    /\ Draining
    /\ NothingRunsAfterShutdown
    /\ AskedStarted
    /\ Awaited

-----------------------------------------------------------------------------
(* Facts used by several steps                                             *)

\* A call is of one of five kinds, told apart by its op.
LEMMA CallKinds ==
    ASSUME NEW call \in Call
    PROVE  /\ call.op \in {"idle", "draining", "informerFor", "building", "syncing"}
           /\ call.op \in {"informerFor", "building"} => call.type \in Type
           /\ call.op = "syncing" =>
                 /\ call.stop \in StopCh /\ call.todo \subseteq Type
                 /\ DOMAIN call.res \subseteq Type
                 /\ call.res \in [DOMAIN call.res -> BOOLEAN]
                 /\ call = [op |-> "syncing", stop |-> call.stop, todo |-> call.todo,
                            res |-> call.res]
           /\ call.op \in {"informerFor", "building"} =>
                 call = [op |-> call.op, type |-> call.type]
<1>1. CASE call \in [op: {"idle", "draining"}]
  BY <1>1
<1>2. CASE call \in [op: {"informerFor", "building"}, type: Type]
  BY <1>2
<1>3. CASE \E ch \in StopCh, todo \in SUBSET Type,
              res \in UNION { [done -> BOOLEAN] : done \in SUBSET Type } :
              call = [op |-> "syncing", stop |-> ch, todo |-> todo, res |-> res]
  BY <1>3
<1> QED
  BY <1>1, <1>2, <1>3 DEF Call

\* The calls a step may begin.
LEMMA CallsMade ==
    /\ Idle \in Call
    /\ [op |-> "draining"] \in Call
    /\ \A t \in Type : [op |-> "informerFor", type |-> t] \in Call
    /\ \A t \in Type : [op |-> "building", type |-> t] \in Call
    /\ \A ch \in StopCh, todo \in SUBSET Type, done \in SUBSET Type :
         \A res \in [done -> BOOLEAN] :
           [op |-> "syncing", stop |-> ch, todo |-> todo, res |-> res] \in Call
<1>1. Idle \in Call
  BY DEF Call, Idle
<1>2. [op |-> "draining"] \in Call
  BY DEF Call
<1>3. \A t \in Type : [op |-> "informerFor", type |-> t] \in Call
  BY DEF Call
<1>4. \A t \in Type : [op |-> "building", type |-> t] \in Call
  BY DEF Call
<1>5. ASSUME NEW ch \in StopCh, NEW todo \in SUBSET Type, NEW done \in SUBSET Type,
             NEW res \in [done -> BOOLEAN]
      PROVE  [op |-> "syncing", stop |-> ch, todo |-> todo, res |-> res] \in Call
  BY DEF Call
<1> QED
  BY <1>1, <1>2, <1>3, <1>4, <1>5

\* What an informer is built with.
LEMMA InformersBuilt ==
    ASSUME factory \in [tweak: Tweak \cup {Nil}, transform: Transform \cup {Nil},
                        resync: SUBSET Type, scoped: BOOLEAN],
           NEW type \in Type,
           NEW informer \in {defaultInformer(type), scopedDefaultInformer(type)}
    PROVE  /\ informer \in Informer
           /\ informer.type = type
           /\ informer.starts = 0
<1>1. resyncPeriod(type) \in {"custom", "default"}
  BY DEF resyncPeriod
<1>2. defaultInformer(type) =
        [type |-> type, tweak |-> factory.tweak, transform |-> Nil,
         resync |-> resyncPeriod(type), synced |-> FALSE, stop |-> Nil, starts |-> 0]
  BY DEF defaultInformer, NewFilteredInformer
<1>3. factory.tweak \in Tweak \cup {Nil} /\ factory.transform \in Transform \cup {Nil}
  OBVIOUS
<1>4. /\ defaultInformer(type) \in Informer
      /\ defaultInformer(type).type = type
      /\ defaultInformer(type).starts = 0
  BY <1>1, <1>2, <1>3 DEF Informer
<1>5. scopedDefaultInformer(type) =
        [defaultInformer(type) EXCEPT !.transform = factory.transform]
  BY DEF scopedDefaultInformer, defaultInformer
<1>6. /\ scopedDefaultInformer(type) \in Informer
      /\ scopedDefaultInformer(type).type = type
      /\ scopedDefaultInformer(type).starts = 0
  <2> DEFINE built0 == defaultInformer(type)
  <2>1. [built0 EXCEPT !.transform = factory.transform] \in Informer
    BY <1>3, <1>4 DEF Informer
  <2>2. /\ [built0 EXCEPT !.transform = factory.transform].type = built0.type
        /\ [built0 EXCEPT !.transform = factory.transform].starts = built0.starts
    BY <1>4 DEF Informer
  <2> QED
    BY <1>4, <1>5, <2>1, <2>2
<1> QED
  BY <1>4, <1>6

\* The options a factory is constructed with.
LEMMA FactoryTypes ==
    ASSUME NEW opts \in FactoryOptions
    PROVE  /\ NewSharedInformerFactoryWithOptions(opts) \in
                  [tweak: Tweak \cup {Nil}, transform: Transform \cup {Nil},
                   resync: SUBSET Type, scoped: BOOLEAN]
           /\ NewSharedScopedInformerFactoryWithOptions(opts) \in
                  [tweak: Tweak \cup {Nil}, transform: Transform \cup {Nil},
                   resync: SUBSET Type, scoped: BOOLEAN]
<1> DEFINE Opts == [tweak: Tweak \cup {Nil}, transform: Transform \cup {Nil},
                    resync: SUBSET Type]
<1>1. SharedInformerOptions \in Opts
  BY DEF SharedInformerOptions
<1>2. PICK types \in Resync, tweak \in Tweak, transform \in Transform :
          opts = WithTransform(WithTweakListOptions(
                     WithCustomResyncConfig(SharedInformerOptions, types), tweak), transform)
  BY DEF FactoryOptions
<1>3. types \in SUBSET Type
  BY <1>2, FactoryAssumption
<1>4. WithCustomResyncConfig(SharedInformerOptions, types) \in Opts
  BY <1>1, <1>3 DEF WithCustomResyncConfig
<1>5. \A o \in Opts : WithTweakListOptions(o, tweak) \in Opts
  BY DEF WithTweakListOptions
<1>6. \A o \in Opts : WithTransform(o, transform) \in Opts
  BY DEF WithTransform
<1>7. opts \in Opts
  BY <1>2, <1>4, <1>5, <1>6
<1> QED
  BY <1>7 DEF NewSharedInformerFactoryWithOptions, NewSharedScopedInformerFactoryWithOptions

\* One caller goes on, the others' calls stay.
LEMMA BeginFrame ==
    ASSUME calls \in [Caller -> Call], NEW c \in Caller, NEW call \in Call, Begin(c, call)
    PROVE  /\ calls' \in [Caller -> Call]
           /\ calls'[c] = call
           /\ \A d \in Caller : d # c => calls'[d] = calls[d]
BY DEF Begin

\* A step that leaves the informers and what was handed out alone.
LEMMA QuietStep ==
    ASSUME IInv,
           UNCHANGED <<factory, informers, startedInformers, built, wg, mine, asked>>,
           shuttingDown => shuttingDown',
           shuttingDown' \in BOOLEAN, drained' \in BOOLEAN,
           lock' \in Caller \cup {NoCaller}, closed' \subseteq StopCh,
           calls' \in [Caller -> Call]
    PROVE  /\ TypeOK'
           /\ (built \in Seq(Informer))'
           /\ (mine \in [Caller -> SUBSET DOMAIN built])'
           /\ (asked \in [Caller -> SUBSET DOMAIN built])'
           /\ Kept' /\ MineKept' /\ AskedStarted'
<1>1. TypeOK'
  BY DEF IInv, TypeOK
<1>2. (built \in Seq(Informer))' /\ (mine \in [Caller -> SUBSET DOMAIN built])'
      /\ (asked \in [Caller -> SUBSET DOMAIN built])'
  BY DEF IInv
<1>3. Kept' /\ MineKept'
  BY DEF IInv, Kept, MineKept
<1>4. AskedStarted'
  BY DEF IInv, AskedStarted
<1> QED
  BY <1>1, <1>2, <1>3, <1>4
-----------------------------------------------------------------------------
(* Init and the steps that only concern calls                              *)

\* A new factory satisfies the invariant.
LEMMA InitIInv == Init => IInv
<1> SUFFICES ASSUME Init PROVE IInv
  OBVIOUS
<1>1. TypeOK
  <2>1. factory \in [tweak: Tweak \cup {Nil}, transform: Transform \cup {Nil},
                     resync: SUBSET Type, scoped: BOOLEAN]
    BY FactoryTypes DEF Init
  <2>2. calls \in [Caller -> Call]
    BY CallsMade DEF Init
  <2>3. DOMAIN informers = {} /\ DOMAIN built = {}
    BY DEF Init
  <2>4. startedInformers = {} /\ wg = {} /\ closed = {} /\ lock = NoCaller
        /\ shuttingDown \in BOOLEAN /\ drained \in BOOLEAN
    BY DEF Init
  <2>5. \A c \in Caller : mine[c] = {} /\ asked[c] = {}
    BY DEF Init
  <2> QED
    BY <2>1, <2>2, <2>3, <2>4, <2>5 DEF TypeOK
<1>2. built \in Seq(Informer)
  BY DEF Init
<1>3. \A c \in Caller : calls[c].op = "idle"
  BY DEF Init, Idle
<1>4. mine \in [Caller -> SUBSET DOMAIN built] /\ asked \in [Caller -> SUBSET DOMAIN built]
  BY DEF Init
<1>5. Kept /\ MineKept /\ AskedStarted
  BY DEF Init, Kept, MineKept, AskedStarted
<1>6. LockHeld /\ Draining /\ NothingRunsAfterShutdown /\ Awaited
  BY <1>3 DEF Init, LockHeld, Draining, NothingRunsAfterShutdown, Awaited, Doing
<1> QED
  BY <1>1, <1>2, <1>4, <1>5, <1>6 DEF IInv

\* Asking for an informer only begins a call.
LEMMA ForResourceStep ==
    ASSUME IInv, NEW c \in Caller, NEW r \in Resource, ForResource(c, r)
    PROVE  IInv'
<1>1. calls \in [Caller -> Call]
  BY DEF IInv, TypeOK
<1>2. /\ calls' \in [Caller -> Call] /\ calls'[c].op = "informerFor"
      /\ \A d \in Caller : d # c => calls'[d] = calls[d]
  BY <1>1, CallsMade, BeginFrame DEF ForResource
<1>3. UNCHANGED <<factory, informers, startedInformers, shuttingDown, lock, built, wg,
                  closed, mine, asked, drained>>
  BY DEF ForResource
<1>4. /\ shuttingDown' \in BOOLEAN /\ drained' \in BOOLEAN
      /\ lock' \in Caller \cup {NoCaller} /\ closed' \subseteq StopCh
  BY <1>3 DEF IInv, TypeOK
<1>5. LockHeld'
  BY <1>2, <1>3 DEF IInv, LockHeld, Doing
<1>6. Draining' /\ NothingRunsAfterShutdown'
  BY <1>2, <1>3 DEF IInv, Draining, NothingRunsAfterShutdown, Doing
<1>7. Awaited'
  BY <1>2, <1>3 DEF IInv, Awaited, Doing
<1> QED
  BY <1>2, <1>3, <1>4, <1>5, <1>6, <1>7, QuietStep DEF IInv

\* Whoever finds its type missing takes the lock.
LEMMA InformerMissingStep ==
    ASSUME IInv, NEW c \in Caller, InformerMissing(c)
    PROVE  IInv'
<1>1. calls \in [Caller -> Call]
  BY DEF IInv, TypeOK
<1>a. calls[c].type \in Type /\ calls[c] = [op |-> "informerFor", type |-> calls[c].type]
  BY <1>1, CallKinds DEF InformerMissing, Doing
<1>b. [calls[c] EXCEPT !.op = "building"] = [op |-> "building", type |-> calls[c].type]
  BY <1>a
<1>2. /\ calls' \in [Caller -> Call]
      /\ calls'[c].op = "building" /\ calls'[c].type = calls[c].type
      /\ \A d \in Caller : d # c => calls'[d] = calls[d]
  BY <1>1, <1>a, <1>b, CallsMade, BeginFrame DEF InformerMissing
<1>3. UNCHANGED <<factory, informers, startedInformers, shuttingDown, built, wg,
                  closed, mine, asked, drained>>
  BY DEF InformerMissing
<1>4. /\ shuttingDown' \in BOOLEAN /\ drained' \in BOOLEAN
      /\ (shuttingDown => shuttingDown')
      /\ lock' \in Caller \cup {NoCaller} /\ closed' \subseteq StopCh
  BY <1>3 DEF IInv, TypeOK, InformerMissing
<1>5. LockHeld'
  BY <1>2, <1>3, FactoryAssumption DEF IInv, LockHeld, Doing, InformerMissing, LockFree
<1>6. Draining' /\ NothingRunsAfterShutdown'
  BY <1>2, <1>3 DEF IInv, Draining, NothingRunsAfterShutdown, Doing
<1>7. Awaited'
  BY <1>2, <1>3 DEF IInv, Awaited, Doing
<1> QED
  BY <1>2, <1>3, <1>4, <1>5, <1>6, <1>7, QuietStep DEF IInv

\* Who begins to wait after its Start waits for what it asked for.
LEMMA SnapshotStep ==
    ASSUME IInv, NEW c \in Caller, NEW stop \in StopCh, Snapshot(c, stop)
    PROVE  IInv'
<1>1. calls \in [Caller -> Call]
  BY DEF IInv, TypeOK
<1>a. DOMAIN informers \cap startedInformers \in SUBSET Type
  BY DEF IInv, TypeOK
<1>b. DOMAIN <<>> = {} /\ <<>> \in [{} -> BOOLEAN]
  OBVIOUS
<1>2. /\ calls' \in [Caller -> Call]
      /\ calls'[c] = [op |-> "syncing", stop |-> stop, res |-> <<>>,
                      todo |-> DOMAIN informers \cap startedInformers]
      /\ \A d \in Caller : d # c => calls'[d] = calls[d]
  BY <1>1, <1>a, <1>b, CallsMade, BeginFrame DEF Snapshot
<1>3. UNCHANGED <<factory, informers, startedInformers, shuttingDown, lock, built, wg,
                  closed, mine, asked, drained>>
  BY DEF Snapshot
<1>4. /\ shuttingDown' \in BOOLEAN /\ drained' \in BOOLEAN
      /\ (shuttingDown => shuttingDown')
      /\ lock' \in Caller \cup {NoCaller} /\ closed' \subseteq StopCh
  BY <1>3 DEF IInv, TypeOK, Snapshot
<1>5. LockHeld'
  BY <1>2, <1>3 DEF IInv, LockHeld, Doing
<1>6. Draining' /\ NothingRunsAfterShutdown'
  BY <1>2, <1>3 DEF IInv, Draining, NothingRunsAfterShutdown, Doing
<1>7. Awaited'
  <2> SUFFICES ASSUME NEW d \in Caller, Doing(d, "syncing")'
               PROVE  /\ \A i \in asked[d] :
                             \/ shuttingDown
                             \/ built[i].type \in calls'[d].todo \cup DOMAIN calls'[d].res
                      /\ calls'[d].todo \subseteq DOMAIN informers
                      /\ \A t \in DOMAIN calls'[d].res :
                             /\ t \in DOMAIN informers
                             /\ calls'[d].res[t] => built[informers[t]].synced
    BY <1>3 DEF Awaited
  <2>1. CASE d = c
    <3>1. \A i \in asked[c] : shuttingDown \/ built[i].type \in startedInformers
      BY DEF IInv, AskedStarted
    <3>2. \A i \in asked[c] : built[i].type \in DOMAIN informers
      BY DEF IInv, TypeOK, MineKept
    <3> QED
      BY <1>2, <1>b, <2>1, <3>1, <3>2
  <2>2. CASE d # c
    BY <1>2, <2>2 DEF IInv, Awaited, Doing
  <2> QED
    BY <2>1, <2>2
<1> QED
  BY <1>2, <1>3, <1>4, <1>5, <1>6, <1>7, QuietStep DEF IInv

\* A wait that ends only frees its caller.
LEMMA ReturnSyncedStep ==
    ASSUME IInv, NEW c \in Caller, ReturnSynced(c)
    PROVE  IInv'
<1>1. calls \in [Caller -> Call]
  BY DEF IInv, TypeOK
<1>2. /\ calls' \in [Caller -> Call] /\ calls'[c].op = "idle"
      /\ \A d \in Caller : d # c => calls'[d] = calls[d]
  BY <1>1, CallsMade, BeginFrame DEF ReturnSynced, Return, Idle
<1>3. UNCHANGED <<factory, informers, startedInformers, shuttingDown, lock, built, wg,
                  closed, mine, asked, drained>>
  BY DEF ReturnSynced
<1>4. /\ shuttingDown' \in BOOLEAN /\ drained' \in BOOLEAN
      /\ (shuttingDown => shuttingDown')
      /\ lock' \in Caller \cup {NoCaller} /\ closed' \subseteq StopCh
  BY <1>3 DEF IInv, TypeOK, ReturnSynced
<1>5. LockHeld'
  BY <1>2, <1>3 DEF IInv, LockHeld, Doing
<1>6. Draining' /\ NothingRunsAfterShutdown'
  BY <1>2, <1>3 DEF IInv, Draining, NothingRunsAfterShutdown, Doing
<1>7. Awaited'
  BY <1>2, <1>3 DEF IInv, Awaited, Doing
<1> QED
  BY <1>2, <1>3, <1>4, <1>5, <1>6, <1>7, QuietStep DEF IInv

\* Shutdown sets the flag before it waits.
LEMMA ShutdownStep ==
    ASSUME IInv, NEW c \in Caller, Shutdown(c)
    PROVE  IInv'
<1>1. calls \in [Caller -> Call]
  BY DEF IInv, TypeOK
<1>2. /\ calls' \in [Caller -> Call] /\ calls'[c].op = "draining"
      /\ \A d \in Caller : d # c => calls'[d] = calls[d]
  BY <1>1, CallsMade, BeginFrame DEF Shutdown
<1>3. UNCHANGED <<factory, informers, startedInformers, lock, built, wg,
                  closed, mine, asked, drained>>
  BY DEF Shutdown
<1>4. /\ shuttingDown' \in BOOLEAN /\ drained' \in BOOLEAN
      /\ (shuttingDown => shuttingDown')
      /\ lock' \in Caller \cup {NoCaller} /\ closed' \subseteq StopCh
  BY <1>3 DEF IInv, TypeOK, Shutdown
<1>5. LockHeld'
  BY <1>2, <1>3 DEF IInv, LockHeld, Doing
<1>6. Draining' /\ NothingRunsAfterShutdown'
  BY <1>2, <1>3 DEF IInv, Draining, NothingRunsAfterShutdown, Doing, Shutdown
<1>7. Awaited'
  BY <1>2, <1>3, <1>4 DEF IInv, Awaited, Doing
<1> QED
  BY <1>2, <1>3, <1>4, <1>5, <1>6, <1>7, QuietStep DEF IInv

\* Shutdown returns once nothing runs, and no Start can follow.
LEMMA ReturnShutdownStep ==
    ASSUME IInv, NEW c \in Caller, ReturnShutdown(c)
    PROVE  IInv'
<1>1. calls \in [Caller -> Call]
  BY DEF IInv, TypeOK
<1>2. /\ calls' \in [Caller -> Call] /\ calls'[c].op = "idle"
      /\ \A d \in Caller : d # c => calls'[d] = calls[d]
  BY <1>1, CallsMade, BeginFrame DEF ReturnShutdown, Return, Idle
<1>3. UNCHANGED <<factory, informers, startedInformers, shuttingDown, lock, built, wg,
                  closed, mine, asked>>
  BY DEF ReturnShutdown
<1>4. /\ shuttingDown' \in BOOLEAN /\ drained' \in BOOLEAN
      /\ (shuttingDown => shuttingDown')
      /\ lock' \in Caller \cup {NoCaller} /\ closed' \subseteq StopCh
  BY <1>3 DEF IInv, TypeOK, ReturnShutdown
<1>5. LockHeld'
  BY <1>2, <1>3 DEF IInv, LockHeld, Doing
<1>6. Draining' /\ NothingRunsAfterShutdown'
  BY <1>2, <1>3 DEF IInv, Draining, NothingRunsAfterShutdown, Doing, ReturnShutdown
<1>7. Awaited'
  BY <1>2, <1>3 DEF IInv, Awaited, Doing
<1> QED
  BY <1>2, <1>3, <1>4, <1>5, <1>6, <1>7, QuietStep DEF IInv

\* A type leaves the list of a wait with the state of its cache.
LEMMA ReportStep ==
    ASSUME IInv, NEW c \in Caller, NEW type \in Type, NEW ok \in BOOLEAN,
           Report(c, type, ok), ok => built[informers[type]].synced
    PROVE  IInv'
<1>1. calls \in [Caller -> Call] /\ calls[c] \in Call /\ calls[c].op = "syncing"
  BY DEF IInv, TypeOK, Report, Doing
<1> DEFINE call == [op |-> "syncing", stop |-> calls[c].stop,
                    todo |-> calls[c].todo \ {type}, res |-> Put(calls[c].res, type, ok)]
<1>a. /\ calls[c].stop \in StopCh /\ calls[c].todo \subseteq Type
      /\ DOMAIN calls[c].res \subseteq Type
      /\ calls[c].res \in [DOMAIN calls[c].res -> BOOLEAN]
      /\ calls[c] = [op |-> "syncing", stop |-> calls[c].stop, todo |-> calls[c].todo,
                     res |-> calls[c].res]
  BY <1>1, CallKinds
<1>b. /\ Put(calls[c].res, type, ok) \in [DOMAIN calls[c].res \cup {type} -> BOOLEAN]
      /\ DOMAIN calls[c].res \cup {type} \in SUBSET Type
  BY <1>a DEF Put
<1>c. call \in Call
  BY <1>a, <1>b, CallsMade
<1>2. /\ calls' \in [Caller -> Call] /\ calls'[c] = call
      /\ \A d \in Caller : d # c => calls'[d] = calls[d]
  BY <1>1, <1>c, BeginFrame DEF Report
<1>3. UNCHANGED <<factory, informers, startedInformers, shuttingDown, lock, built, wg,
                  closed, mine, asked, drained>>
  BY DEF Report
<1>4. /\ shuttingDown' \in BOOLEAN /\ drained' \in BOOLEAN
      /\ lock' \in Caller \cup {NoCaller} /\ closed' \subseteq StopCh
  BY <1>3 DEF IInv, TypeOK
<1>5. LockHeld'
  BY <1>2, <1>3 DEF IInv, LockHeld, Doing
<1>6. Draining' /\ NothingRunsAfterShutdown'
  BY <1>2, <1>3 DEF IInv, Draining, NothingRunsAfterShutdown, Doing
<1>7. Awaited'
  <2> SUFFICES ASSUME NEW d \in Caller, Doing(d, "syncing")'
               PROVE  /\ \A i \in asked[d] :
                             \/ shuttingDown
                             \/ built[i].type \in calls'[d].todo \cup DOMAIN calls'[d].res
                      /\ calls'[d].todo \subseteq DOMAIN informers
                      /\ \A t \in DOMAIN calls'[d].res :
                             /\ t \in DOMAIN informers
                             /\ calls'[d].res[t] => built[informers[t]].synced
    BY <1>3 DEF Awaited
  <2>1. CASE d = c
    <3>1. /\ \A i \in asked[c] :
                shuttingDown \/ built[i].type \in calls[c].todo \cup DOMAIN calls[c].res
          /\ calls[c].todo \subseteq DOMAIN informers
          /\ \A t \in DOMAIN calls[c].res :
                /\ t \in DOMAIN informers
                /\ calls[c].res[t] => built[informers[t]].synced
      BY <1>1 DEF IInv, Awaited, Doing
    <3>2. type \in calls[c].todo
      BY DEF Report
    <3>3. /\ DOMAIN call.res = DOMAIN calls[c].res \cup {type}
          /\ \A t \in DOMAIN call.res :
                call.res[t] = IF t = type THEN ok ELSE calls[c].res[t]
      BY DEF Put
    <3>4. call.todo = calls[c].todo \ {type}
      OBVIOUS
    <3> HIDE DEF call
    <3> QED
      BY <1>2, <2>1, <3>1, <3>2, <3>3, <3>4
  <2>2. CASE d # c
    BY <1>2, <2>2 DEF IInv, Awaited, Doing
  <2> QED
    BY <2>1, <2>2
<1> QED
  BY <1>2, <1>3, <1>4, <1>5, <1>6, <1>7, QuietStep DEF IInv
-----------------------------------------------------------------------------
(* Steps that hand informers out, build, start and run them                *)

\* The informer handed out is the one in the map.
LEMMA InformerExistsStep ==
    ASSUME IInv, NEW c \in Caller, InformerExists(c)
    PROVE  IInv'
<1>1. calls \in [Caller -> Call]
  BY DEF IInv, TypeOK
<1>2. /\ calls' \in [Caller -> Call] /\ calls'[c].op = "idle"
      /\ \A d \in Caller : d # c => calls'[d] = calls[d]
  BY <1>1, CallsMade, BeginFrame DEF InformerExists, Return, Idle
<1>3. UNCHANGED <<factory, informers, startedInformers, shuttingDown, lock, built, wg,
                  closed, asked, drained>>
  BY DEF InformerExists
<1> DEFINE given == informers[calls[c].type]
<1>4. calls[c].type \in DOMAIN informers /\ given \in DOMAIN built
  BY DEF IInv, TypeOK, InformerExists
<1>5. mine' = [mine EXCEPT ![c] = @ \cup {given}]
  BY DEF InformerExists, HandOut
<1> HIDE DEF given
<1>6. (mine \in [Caller -> SUBSET DOMAIN built])' /\ (asked \in [Caller -> SUBSET DOMAIN built])'
  BY <1>3, <1>4, <1>5 DEF IInv
<1>7. \A d \in Caller : mine'[d] = IF d = c THEN mine[d] \cup {given} ELSE mine[d]
  BY <1>5 DEF IInv
<1>8. TypeOK'
  <2>1. ASSUME NEW d \in Caller
        PROVE  asked'[d] \subseteq mine'[d] /\ mine'[d] \subseteq DOMAIN built'
    <3>1. asked[d] \subseteq mine[d] /\ mine[d] \subseteq DOMAIN built
      BY DEF IInv, TypeOK
    <3>2. asked'[d] = asked[d] /\ DOMAIN built' = DOMAIN built
      BY <1>3
    <3> QED
      BY <1>4, <1>7, <3>1, <3>2
  <2> QED
    BY <1>2, <1>3, <2>1 DEF IInv, TypeOK
<1>9. Kept' /\ AskedStarted'
  BY <1>3 DEF IInv, Kept, AskedStarted
<1>10. MineKept'
  <2>1. built[given].type = calls[c].type
    BY <1>4 DEF IInv, Kept, given
  <2>2. built[given].type \in DOMAIN informers /\ informers[built[given].type] = given
    BY <1>4, <2>1 DEF given
  <2>3. ASSUME NEW d \in Caller, NEW j \in mine'[d]
        PROVE  built[j].type \in DOMAIN informers /\ informers[built[j].type] = j
    <3>1. CASE j = given
      BY <2>2, <3>1
    <3>2. CASE j \in mine[d]
      BY <3>2 DEF IInv, MineKept
    <3> QED
      BY <1>7, <3>1, <3>2
  <2> QED
    BY <1>3, <2>3 DEF MineKept
<1>11. LockHeld' /\ Draining' /\ NothingRunsAfterShutdown' /\ Awaited'
  <2>1. LockHeld'
    BY <1>2, <1>3 DEF IInv, LockHeld, Doing
  <2>2. Draining' /\ NothingRunsAfterShutdown'
    BY <1>2, <1>3 DEF IInv, Draining, NothingRunsAfterShutdown, Doing
  <2>3. Awaited'
    BY <1>2, <1>3 DEF IInv, Awaited, Doing
  <2> QED
    BY <2>1, <2>2, <2>3
<1>12. (built \in Seq(Informer))'
  BY <1>3 DEF IInv
<1> QED
  BY <1>6, <1>8, <1>9, <1>10, <1>11, <1>12 DEF IInv

\* A Start that comes too late relies on the flag.
LEMMA StartTooLateStep ==
    ASSUME IInv, NEW c \in Caller, StartTooLate(c)
    PROVE  IInv'
<1>1. UNCHANGED <<factory, informers, startedInformers, shuttingDown, lock, built, wg,
                  closed, calls, mine, drained>>
  BY DEF StartTooLate
<1>2. \A d \in Caller : asked'[d] = IF d = c THEN mine[d] ELSE asked[d]
  BY DEF IInv, StartTooLate
<1>3. (asked \in [Caller -> SUBSET DOMAIN built])' /\ (mine \in [Caller -> SUBSET DOMAIN built])'
  BY <1>1 DEF IInv, StartTooLate
<1>4. TypeOK' /\ (built \in Seq(Informer))'
  BY <1>1, <1>2 DEF IInv, TypeOK
<1>5. Kept' /\ MineKept' /\ LockHeld' /\ Draining' /\ NothingRunsAfterShutdown'
  BY <1>1 DEF IInv, Kept, MineKept, LockHeld, Draining, NothingRunsAfterShutdown, Doing
<1>6. AskedStarted'
  BY <1>1, <1>2 DEF IInv, AskedStarted, StartTooLate, MayStart
<1>7. Awaited'
  BY <1>1, <1>2 DEF IInv, Awaited, StartTooLate, Doing
<1> QED
  BY <1>3, <1>4, <1>5, <1>6, <1>7 DEF IInv

\* A goroutine that ends only leaves the wait group.
LEMMA InformerEndsStep ==
    ASSUME IInv, NEW i \in DOMAIN built, InformerEnds(i)
    PROVE  IInv'
<1>1. UNCHANGED <<factory, informers, startedInformers, shuttingDown, lock, built,
                  closed, calls, mine, asked, drained>> /\ wg' \subseteq wg
  BY DEF InformerEnds
<1>2. TypeOK' /\ (built \in Seq(Informer))' /\ (mine \in [Caller -> SUBSET DOMAIN built])'
      /\ (asked \in [Caller -> SUBSET DOMAIN built])'
  BY <1>1 DEF IInv, TypeOK
<1>3. Kept' /\ MineKept' /\ LockHeld' /\ Draining' /\ NothingRunsAfterShutdown'
  BY <1>1 DEF IInv, Kept, MineKept, LockHeld, Draining, NothingRunsAfterShutdown, Doing
<1>4. AskedStarted' /\ Awaited'
  BY <1>1 DEF IInv, AskedStarted, Awaited, Doing
<1> QED
  BY <1>2, <1>3, <1>4 DEF IInv

\* Closing a channel touches nothing else.
LEMMA CloseStopChStep ==
    ASSUME IInv, NEW ch \in StopCh, CloseStopCh(ch)
    PROVE  IInv'
<1>1. UNCHANGED <<factory, informers, startedInformers, shuttingDown, lock, built, wg,
                  calls, mine, asked, drained>> /\ closed' = closed \cup {ch}
  BY DEF CloseStopCh
<1>2. TypeOK' /\ (built \in Seq(Informer))' /\ (mine \in [Caller -> SUBSET DOMAIN built])'
      /\ (asked \in [Caller -> SUBSET DOMAIN built])'
  BY <1>1 DEF IInv, TypeOK
<1>3. Kept' /\ MineKept' /\ LockHeld' /\ Draining' /\ NothingRunsAfterShutdown'
  BY <1>1 DEF IInv, Kept, MineKept, LockHeld, Draining, NothingRunsAfterShutdown, Doing
<1>4. AskedStarted' /\ Awaited'
  BY <1>1 DEF IInv, AskedStarted, Awaited, Doing
<1> QED
  BY <1>2, <1>3, <1>4 DEF IInv

\* An informer that was built stays in its place.
LEMMA BuiltInPlace ==
    ASSUME built \in Seq(Informer), built' \in [DOMAIN built -> Informer]
    PROVE  built' \in Seq(Informer) /\ DOMAIN built' = DOMAIN built
<1>1. DOMAIN built = 1..Len(built) /\ Len(built) \in Nat
  OBVIOUS
<1> QED
  BY <1>1

\* A filled cache stays what it was otherwise.
LEMMA InformerSyncsStep ==
    ASSUME IInv, NEW i \in DOMAIN built, InformerSyncs(i)
    PROVE  IInv'
<1>1. UNCHANGED <<factory, informers, startedInformers, shuttingDown, lock, wg,
                  closed, calls, mine, asked, drained>>
  BY DEF InformerSyncs
<1>2. built \in Seq(Informer) /\ \A j \in DOMAIN built : built[j] \in Informer
  BY DEF IInv
<1>3. built' = [built EXCEPT ![i] = [built[i] EXCEPT !.synced = TRUE]]
  BY DEF InformerSyncs
<1> DEFINE filled == [built[i] EXCEPT !.synced = TRUE]
<1>4. /\ filled \in Informer /\ filled.type = built[i].type
      /\ filled.starts = built[i].starts /\ filled.synced
  BY <1>2 DEF Informer
<1> HIDE DEF filled
<1>5. \A j \in DOMAIN built : built'[j] = IF j = i THEN filled ELSE built[j]
  BY <1>2, <1>3 DEF filled
<1>6. built' \in [DOMAIN built -> Informer]
  BY <1>2, <1>3, <1>4 DEF filled
<1>7. built' \in Seq(Informer) /\ DOMAIN built' = DOMAIN built
  BY <1>2, <1>6, BuiltInPlace
<1>8. \A j \in DOMAIN built : /\ built'[j].type = built[j].type
                              /\ built'[j].starts = built[j].starts
                              /\ built[j].synced => built'[j].synced
  BY <1>4, <1>5
<1>9. \A t \in DOMAIN informers : informers[t] \in DOMAIN built
  BY DEF IInv, TypeOK
<1>10. \A d \in Caller : asked[d] \subseteq mine[d] /\ mine[d] \subseteq DOMAIN built
  BY DEF IInv, TypeOK
<1>11. TypeOK'
  BY <1>1, <1>7, <1>8 DEF IInv, TypeOK
<1>12. Kept'
  BY <1>1, <1>8, <1>9 DEF IInv, Kept
<1>13. MineKept'
  BY <1>1, <1>8, <1>10 DEF IInv, MineKept
<1>14. LockHeld' /\ Draining' /\ NothingRunsAfterShutdown'
  BY <1>1 DEF IInv, LockHeld, Draining, NothingRunsAfterShutdown, Doing
<1>15. AskedStarted'
  BY <1>1, <1>8, <1>10 DEF IInv, AskedStarted
<1>16. Awaited'
  BY <1>1, <1>8, <1>9, <1>10 DEF IInv, Awaited, Doing
<1>17. (mine \in [Caller -> SUBSET DOMAIN built])' /\ (asked \in [Caller -> SUBSET DOMAIN built])'
  BY <1>1, <1>7 DEF IInv
<1> QED
  BY <1>7, <1>11, <1>12, <1>13, <1>14, <1>15, <1>16, <1>17 DEF IInv

\* The informer stored is the first and only one of its type.
LEMMA StoreStep ==
    ASSUME IInv, NEW c \in Caller, NEW informer \in Informer,
           informer.type = calls[c].type, informer.starts = 0, Store(c, informer)
    PROVE  IInv'
<1>1. calls \in [Caller -> Call] /\ calls[c].op = "building"
  BY DEF IInv, TypeOK, Store, Doing
<1>2. /\ calls' \in [Caller -> Call] /\ calls'[c].op = "idle"
      /\ \A d \in Caller : d # c => calls'[d] = calls[d]
  BY <1>1, CallsMade, BeginFrame DEF Store, Return, Idle
<1>3. UNCHANGED <<factory, startedInformers, shuttingDown, wg, closed, asked, drained>>
      /\ lock' = NoCaller
  BY DEF Store
<1> DEFINE new == Len(built) + 1
<1>4. built \in Seq(Informer) /\ DOMAIN built = 1..Len(built) /\ Len(built) \in Nat
  BY DEF IInv
<1>5. /\ built' \in Seq(Informer) /\ Len(built') = new /\ DOMAIN built' = 1..new
      /\ built'[new] = informer
      /\ \A j \in DOMAIN built : built'[j] = built[j]
  BY <1>4 DEF Store
<1>6. DOMAIN built \subseteq DOMAIN built' /\ new \in DOMAIN built' /\ new \notin DOMAIN built
  BY <1>4, <1>5
<1> HIDE DEF new
<1>7. /\ informer.type \in Type /\ informer.type \notin DOMAIN informers
      /\ \A d \in Caller : d # c => calls[d].op # "building"
  <2>1. informer.type \in Type
    BY DEF Informer
  <2> QED
    BY <1>1, <2>1 DEF IInv, LockHeld, Doing
<1>8. /\ DOMAIN informers' = DOMAIN informers \cup {informer.type}
      /\ informers'[informer.type] = new
      /\ \A t \in DOMAIN informers : informers'[t] = informers[t]
  BY <1>5, <1>7 DEF Store, Put
<1>9. /\ mine' \in [Caller -> SUBSET DOMAIN built']
      /\ \A d \in Caller : mine'[d] = IF d = c THEN mine[d] \cup {new} ELSE mine[d]
  BY <1>5, <1>6 DEF IInv, Store, HandOut
<1>10. asked' \in [Caller -> SUBSET DOMAIN built']
  BY <1>3, <1>6 DEF IInv
<1>11. /\ \A t \in DOMAIN informers : informers[t] \in DOMAIN built
       /\ DOMAIN informers \subseteq Type /\ startedInformers \subseteq DOMAIN informers
       /\ wg \subseteq DOMAIN built
       /\ \A d \in Caller : asked[d] \subseteq mine[d] /\ mine[d] \subseteq DOMAIN built
  BY DEF IInv, TypeOK
<1>12. TypeOK'
  <2>1. \A t \in DOMAIN informers' : informers'[t] \in DOMAIN built'
    BY <1>6, <1>8, <1>11
  <2>2. \A j \in DOMAIN built' : built'[j].starts \in Nat
    <3>1. \A j \in DOMAIN built' : built'[j] \in Informer
      BY <1>5
    <3> QED
      BY <3>1 DEF Informer
  <2>3. ASSUME NEW d \in Caller
        PROVE  asked'[d] \subseteq mine'[d] /\ mine'[d] \subseteq DOMAIN built'
    BY <1>3, <1>6, <1>9, <1>11
  <2>4. /\ DOMAIN informers' \subseteq Type /\ startedInformers' \subseteq DOMAIN informers'
        /\ wg' \subseteq DOMAIN built'
    BY <1>3, <1>6, <1>7, <1>8, <1>11
  <2>5. /\ (factory \in [tweak: Tweak \cup {Nil}, transform: Transform \cup {Nil},
                         resync: SUBSET Type, scoped: BOOLEAN])'
        /\ shuttingDown' \in BOOLEAN /\ drained' \in BOOLEAN /\ closed' \subseteq StopCh
    BY <1>3 DEF IInv, TypeOK
  <2> QED
    BY <1>2, <1>3, <2>1, <2>2, <2>3, <2>4, <2>5 DEF TypeOK
<1>13. Kept'
  <2> SUFFICES ASSUME NEW t \in DOMAIN informers'
               PROVE  /\ built'[informers'[t]].type = t
                      /\ built'[informers'[t]].starts = IF t \in startedInformers THEN 1 ELSE 0
    BY <1>3 DEF Kept
  <2>1. CASE t = informer.type
    BY <1>5, <1>7, <1>8, <1>11, <2>1
  <2>2. CASE t \in DOMAIN informers
    BY <1>5, <1>8, <1>11, <2>2 DEF IInv, Kept
  <2> QED
    BY <1>8, <2>1, <2>2
<1>14. MineKept'
  <2> SUFFICES ASSUME NEW d \in Caller, NEW j \in mine'[d]
               PROVE  built'[j].type \in DOMAIN informers' /\ informers'[built'[j].type] = j
    BY DEF MineKept
  <2>1. CASE j = new
    BY <1>5, <1>8, <2>1
  <2>2. CASE j \in mine[d]
    <3>1. built[j].type \in DOMAIN informers /\ informers[built[j].type] = j
      BY <2>2 DEF IInv, MineKept
    <3>2. built'[j] = built[j]
      BY <1>5, <1>11, <2>2
    <3> QED
      BY <1>8, <3>1, <3>2
  <2> QED
    BY <1>9, <2>1, <2>2
<1>15. LockHeld'
  BY <1>2, <1>7 DEF LockHeld, Doing
<1>16. Draining' /\ NothingRunsAfterShutdown'
  BY <1>2, <1>3 DEF IInv, Draining, NothingRunsAfterShutdown, Doing
<1>17. AskedStarted'
  BY <1>3, <1>5, <1>11 DEF IInv, AskedStarted
<1>18. Awaited'
  <2> SUFFICES ASSUME NEW d \in Caller, d # c, calls[d].op = "syncing"
               PROVE  /\ \A i \in asked[d] :
                             \/ shuttingDown
                             \/ built'[i].type \in calls[d].todo \cup DOMAIN calls[d].res
                      /\ calls[d].todo \subseteq DOMAIN informers'
                      /\ \A t \in DOMAIN calls[d].res :
                             /\ t \in DOMAIN informers'
                             /\ calls[d].res[t] => built'[informers'[t]].synced
    BY <1>2, <1>3 DEF Awaited, Doing
  <2>1. /\ \A i \in asked[d] :
              shuttingDown \/ built[i].type \in calls[d].todo \cup DOMAIN calls[d].res
        /\ calls[d].todo \subseteq DOMAIN informers
        /\ \A t \in DOMAIN calls[d].res :
              /\ t \in DOMAIN informers
              /\ calls[d].res[t] => built[informers[t]].synced
    BY DEF IInv, Awaited, Doing
  <2> QED
    BY <1>5, <1>8, <1>11, <2>1
<1> QED
  BY <1>5, <1>9, <1>10, <1>12, <1>13, <1>14, <1>15, <1>16, <1>17, <1>18 DEF IInv

\* Start runs each informer that did not run yet, and those only.
LEMMA StartPendingStep ==
    ASSUME IInv, NEW c \in Caller, NEW stop \in StopCh, StartPending(c, stop),
           factory.scoped \/ ~shuttingDown
    PROVE  IInv'
<1>1. UNCHANGED <<factory, informers, shuttingDown, lock, closed, calls, mine, drained>>
  BY DEF StartPending
<1> DEFINE runs == {informers[t] : t \in Pending}
<1>2. /\ \A t \in DOMAIN informers : informers[t] \in DOMAIN built
      /\ startedInformers \subseteq DOMAIN informers /\ wg \subseteq DOMAIN built
      /\ \A d \in Caller : asked[d] \subseteq mine[d] /\ mine[d] \subseteq DOMAIN built
  BY DEF IInv, TypeOK
<1>3. runs \subseteq DOMAIN built
  BY <1>2 DEF Pending
<1>4. built \in Seq(Informer) /\ \A j \in DOMAIN built : built[j] \in Informer
  BY DEF IInv
<1>5. /\ DOMAIN built' = DOMAIN built
      /\ \A j \in DOMAIN built \ runs : built'[j] = built[j]
      /\ \A j \in runs :
            built'[j] = [built[j] EXCEPT !.stop = stop, !.starts = @ + 1]
  BY <1>3 DEF StartPending
<1>6. wg' = wg \cup runs /\ startedInformers' = DOMAIN informers
  BY <1>2 DEF StartPending, Marked, Pending
<1>7. \A j \in runs : built[j].starts = 0 /\ built[j].type \in Pending
  BY DEF IInv, Kept, Pending
<1>8. \A t \in DOMAIN informers : informers[t] \in runs <=> t \in Pending
  BY <1>7 DEF IInv, Kept
<1> HIDE DEF runs
<1>9. \A j \in DOMAIN built :
         /\ built'[j] \in Informer
         /\ built'[j].type = built[j].type /\ built'[j].synced = built[j].synced
         /\ built'[j].starts = built[j].starts + (IF j \in runs THEN 1 ELSE 0)
  <2>1. ASSUME NEW i \in Informer, NEW j \in Informer,
               j = [i EXCEPT !.stop = stop, !.starts = @ + 1]
        PROVE  j.type = i.type /\ j.synced = i.synced /\ j.starts = i.starts + 1
    BY <2>1 DEF Informer
  <2>2. ASSUME NEW i \in Informer
        PROVE  [i EXCEPT !.stop = stop, !.starts = @ + 1] \in Informer
    <3>1. [i EXCEPT !.stop = stop, !.starts = @ + 1]
              = [[i EXCEPT !.stop = stop] EXCEPT !.starts = i.starts + 1]
      BY DEF Informer
    <3>2. [i EXCEPT !.stop = stop] \in Informer /\ [i EXCEPT !.stop = stop].starts = i.starts
      BY DEF Informer
    <3>3. ASSUME NEW j \in Informer
          PROVE  [j EXCEPT !.starts = j.starts + 1] \in Informer
      BY DEF Informer
    <3> QED
      BY <3>1, <3>2, <3>3
  <2>3. ASSUME NEW j \in runs
        PROVE  /\ built'[j] \in Informer
               /\ built'[j].type = built[j].type /\ built'[j].synced = built[j].synced
               /\ built'[j].starts = built[j].starts + 1
    <3>1. built[j] \in Informer /\ built'[j] = [built[j] EXCEPT !.stop = stop, !.starts = @ + 1]
      BY <1>3, <1>4, <1>5
    <3>2. built'[j] \in Informer
      BY <2>2, <3>1
    <3> QED
      BY <2>1, <3>1, <3>2
  <2>4. ASSUME NEW j \in DOMAIN built, j \notin runs
        PROVE  built'[j] = built[j] /\ built[j] \in Informer /\ built[j].starts \in Nat
    BY <1>4, <1>5, <2>4 DEF Informer
  <2> QED
    BY <2>3, <2>4
<1>10. built' \in [DOMAIN built -> Informer]
  BY <1>9 DEF StartPending
<1>11. built' \in Seq(Informer) /\ DOMAIN built' = DOMAIN built
  BY <1>4, <1>10, BuiltInPlace
<1>12. /\ asked' \in [Caller -> SUBSET DOMAIN built']
       /\ \A d \in Caller : asked'[d] = IF d = c THEN mine[d] ELSE asked[d]
  BY <1>11 DEF IInv, StartPending
<1>13. mine' \in [Caller -> SUBSET DOMAIN built']
  BY <1>1, <1>11 DEF IInv
<1>14. TypeOK'
  <2>1. \A d \in Caller : asked'[d] \subseteq mine'[d] /\ mine'[d] \subseteq DOMAIN built'
    BY <1>1, <1>2, <1>11, <1>12
  <2>2. \A j \in DOMAIN built' : built'[j].starts \in Nat
    BY <1>9, <1>11 DEF Informer
  <2> QED
    BY <1>1, <1>3, <1>6, <1>11, <2>1, <2>2 DEF IInv, TypeOK
<1>15. Kept'
  <2> SUFFICES ASSUME NEW t \in DOMAIN informers
               PROVE  built'[informers[t]].type = t /\ built'[informers[t]].starts = 1
    BY <1>1, <1>6 DEF Kept
  <2>1. informers[t] \in DOMAIN built /\ built[informers[t]].type = t
        /\ built[informers[t]].starts = IF t \in startedInformers THEN 1 ELSE 0
    BY <1>2 DEF IInv, Kept
  <2>2. informers[t] \in runs <=> t \notin startedInformers
    BY <1>8 DEF Pending
  <2> QED
    BY <1>9, <2>1, <2>2
<1>16. MineKept'
  BY <1>1, <1>2, <1>9 DEF IInv, MineKept
<1>17. LockHeld' /\ Draining'
  BY <1>1 DEF IInv, LockHeld, Draining, Doing
<1>18. NothingRunsAfterShutdown'
  BY <1>1 DEF IInv, Draining, NothingRunsAfterShutdown
<1>19. AskedStarted'
  <2>1. \A d \in Caller : \A i \in asked'[d] : built[i].type \in DOMAIN informers
    BY <1>2, <1>12 DEF IInv, MineKept
  <2> QED
    BY <1>2, <1>6, <1>9, <1>12, <2>1 DEF AskedStarted
<1>20. Awaited'
  <2> SUFFICES ASSUME NEW d \in Caller, calls[d].op = "syncing"
               PROVE  /\ \A i \in asked'[d] :
                             \/ shuttingDown
                             \/ built'[i].type \in calls[d].todo \cup DOMAIN calls[d].res
                      /\ calls[d].todo \subseteq DOMAIN informers
                      /\ \A t \in DOMAIN calls[d].res :
                             /\ t \in DOMAIN informers
                             /\ calls[d].res[t] => built'[informers[t]].synced
    BY <1>1 DEF Awaited, Doing
  <2>1. d # c
    BY DEF StartPending, Doing
  <2>2. /\ \A i \in asked[d] :
              shuttingDown \/ built[i].type \in calls[d].todo \cup DOMAIN calls[d].res
        /\ calls[d].todo \subseteq DOMAIN informers
        /\ \A t \in DOMAIN calls[d].res :
              /\ t \in DOMAIN informers
              /\ calls[d].res[t] => built[informers[t]].synced
    BY DEF IInv, Awaited, Doing
  <2> QED
    BY <1>2, <1>9, <1>12, <2>1, <2>2
<1> QED
  BY <1>11, <1>12, <1>13, <1>14, <1>15, <1>16, <1>17, <1>18, <1>19, <1>20 DEF IInv
-----------------------------------------------------------------------------
(* Every step, and the theorems                                            *)

\* No step leaves the invariant.
LEMMA IInvStep == IInv /\ [Next]_vars => IInv'
<1> SUFFICES ASSUME IInv, [Next]_vars PROVE IInv'
  OBVIOUS
<1>1. ASSUME NEW c \in Caller, NEW r \in Resource, ForResource(c, r) PROVE IInv'
  BY <1>1, ForResourceStep
<1>2. ASSUME NEW c \in Caller, NEW ch \in StopCh, Start(c, ch) \/ ScopedStart(c, ch)
      PROVE  IInv'
  <2>1. StartPending(c, ch) /\ (factory.scoped \/ ~shuttingDown)
    BY <1>2 DEF Start, ScopedStart, MayStart
  <2> QED
    BY <2>1, StartPendingStep
<1>3. ASSUME NEW c \in Caller, NEW ch \in StopCh,
             WaitForCacheSync(c, ch) \/ ScopedWaitForCacheSync(c, ch)
      PROVE  IInv'
  <2>1. Snapshot(c, ch)
    BY <1>3 DEF WaitForCacheSync, ScopedWaitForCacheSync
  <2> QED
    BY <2>1, SnapshotStep
<1>4. ASSUME NEW c \in Caller, StartTooLate(c) PROVE IInv'
  BY <1>4, StartTooLateStep
<1>5. ASSUME NEW c \in Caller, Shutdown(c) PROVE IInv'
  BY <1>5, ShutdownStep
<1>6. ASSUME NEW c \in Caller, CallerStep(c) PROVE IInv'
  <2>1. CASE InformerExists(c)
    BY <2>1, InformerExistsStep
  <2>2. CASE InformerMissing(c)
    BY <2>2, InformerMissingStep
  <2>3. CASE InformerFor(c) \/ ScopedInformerFor(c)
    <3>1. PICK informer \in {defaultInformer(calls[c].type),
                             scopedDefaultInformer(calls[c].type)} : Store(c, informer)
      BY <2>3 DEF InformerFor, ScopedInformerFor
    <3>2. calls[c].type \in Type
      <4>1. calls[c] \in Call /\ calls[c].op = "building"
        BY <3>1 DEF IInv, TypeOK, Store, Doing
      <4> QED
        BY <4>1, CallKinds
    <3>3. factory \in [tweak: Tweak \cup {Nil}, transform: Transform \cup {Nil},
                       resync: SUBSET Type, scoped: BOOLEAN]
      BY DEF IInv, TypeOK
    <3>4. informer \in Informer /\ informer.type = calls[c].type /\ informer.starts = 0
      BY <3>2, <3>3, InformersBuilt
    <3> QED
      BY <3>1, <3>4, StoreStep
  <2>4. CASE \E t \in Type : HasSynced(c, t) \/ GivesUp(c, t)
    BY <2>4, ReportStep DEF HasSynced, GivesUp
  <2>5. CASE ReturnSynced(c)
    BY <2>5, ReturnSyncedStep
  <2>6. CASE ReturnShutdown(c)
    BY <2>6, ReturnShutdownStep
  <2> QED
    BY <1>6, <2>1, <2>2, <2>3, <2>4, <2>5, <2>6 DEF CallerStep
<1>7. ASSUME NEW i \in DOMAIN built, InformerSyncs(i) \/ InformerEnds(i) PROVE IInv'
  BY <1>7, InformerSyncsStep, InformerEndsStep
<1>8. ASSUME NEW ch \in StopCh, CloseStopCh(ch) PROVE IInv'
  BY <1>8, CloseStopChStep
<1>9. CASE UNCHANGED vars
  <2>1. /\ TypeOK' /\ Kept' /\ MineKept' /\ LockHeld' /\ Draining'
        /\ NothingRunsAfterShutdown' /\ AskedStarted' /\ Awaited'
    BY <1>9 DEF vars, IInv, TypeOK, Kept, MineKept, LockHeld, Draining,
                NothingRunsAfterShutdown, AskedStarted, Awaited, Doing
  <2> QED
    BY <1>9, <2>1 DEF vars, IInv
<1> QED
  BY <1>1, <1>2, <1>3, <1>4, <1>5, <1>6, <1>7, <1>8, <1>9 DEF Next

\* The invariant holds in every reachable state.
LEMMA Invariance == Spec => []IInv
<1>1. Init => IInv
  BY InitIInv
<1>2. IInv /\ [Next]_vars => IInv'
  BY IInvStep
<1> QED
  BY <1>1, <1>2, PTL DEF Spec

\* Every variable of a factory holds a value of its kind.
THEOREM TypeCorrect == Spec => []TypeOK
<1>1. IInv => TypeOK
  BY DEF IInv
<1> QED
  BY <1>1, Invariance, PTL

\* Whoever asks for an informer gets the one the factory keeps and starts
\* once, however many callers race for it (factory.go:127-150, 183-203).
THEOREM InformersShared == Spec => []HandedOutIsShared
<1>1. IInv => HandedOutIsShared
  BY DEF IInv, Kept, MineKept, HandedOutIsShared
<1> QED
  BY <1>1, Invariance, PTL

\* A Shutdown that returned leaves no goroutine behind, whatever it raced with
\* (factory.go:152-159).
THEOREM NothingOutlivesShutdown == Spec => []NothingRunsAfterShutdown
<1>1. IInv => NothingRunsAfterShutdown
  BY DEF IInv
<1> QED
  BY <1>1, Invariance, PTL

\* A caller told by WaitForCacheSync that nothing failed reads filled caches,
\* unless the factory was shut down (factory.go:161-181).
THEOREM SyncedAreFilled == Spec => []SyncedCachesAreFilled
<1>1. ASSUME IInv PROVE SyncedCachesAreFilled
  <2> SUFFICES ASSUME NEW c \in Caller, Synced(c),
                      \A t \in DOMAIN calls[c].res : calls[c].res[t],
                      ~shuttingDown, NEW i \in asked[c]
               PROVE  built[i].synced
    BY DEF SyncedCachesAreFilled
  <2>1. built[i].type \in DOMAIN calls[c].res
    BY <1>1 DEF IInv, Awaited, Synced
  <2>2. built[informers[built[i].type]].synced
    BY <1>1, <2>1 DEF IInv, Awaited, Synced
  <2>3. informers[built[i].type] = i
    BY <1>1 DEF IInv, TypeOK, MineKept
  <2> QED
    BY <2>2, <2>3
<1> QED
  BY <1>1, Invariance, PTL
=============================================================================
