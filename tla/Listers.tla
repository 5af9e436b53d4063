------------------------------- MODULE Listers -------------------------------
(***************************************************************************)
(* The informers' caches and the listers that read them                    *)
(* (sdk/informers/.../v1alpha1, sdk/listers).                              *)
(*                                                                         *)
(* The cluster-aware informer lists and watches the objects of every       *)
(* workspace and keys them by workspace and name; its lister scopes to one *)
(* workspace through the cluster index.  A scoped informer lists and       *)
(* watches one workspace and keys by name.  Both apply the factory's       *)
(* tweakListOptions - here a label selector - to list AND watch.           *)
(***************************************************************************)
EXTENDS Naturals, Sequences

CONSTANTS
    Cluster,    \* workspaces
    Name,       \* names, the same in every workspace
    Everything, \* stands for all workspaces: the cluster-aware informer
    NotFound,   \* answer of a Get
    MaxWrites,  \* bound: writes to the API server
    MaxBreaks   \* bound: watches that end


VARIABLES
    objects,   \* the API server: partial map from <<cluster, name>>
    indexer,   \* per informer, its cache: partial map from keys
    watching,  \* per informer: it has listed and has a watch open
    events,    \* per informer: events its watch has not delivered yet
    writes,    \* number of writes so far
    breaks     \* number of watches that ended so far

vars == <<objects, indexer, watching, events, writes, breaks>>

Informer == Cluster \cup {Everything}
Object == [cluster: Cluster, name: Name, rev: 1..MaxWrites, selected: BOOLEAN]

ASSUME ListersAssumption ==
    /\ Everything \notin Cluster /\ NotFound \notin Object
    /\ MaxWrites \in Nat
-----------------------------------------------------------------------------
(* Keys and the informers' list and watch                                  *)

\* Mutant: the key of a scoped cache in a cluster-aware one.
Bug_ToClusterAwareKey(cluster, name) == <<name>>
ToClusterAwareKey(cluster, name) == <<cluster, name>>

\* The key an informer stores an object under.
KeyFunc(i, object) ==
    IF i = Everything THEN ToClusterAwareKey(object.cluster, object.name)
    ELSE <<object.name>>

InScope(i, object) == i \in {Everything, object.cluster}

\* Mutant: the watch is opened without the tweak.
Bug_WatchTweaked(object) == TRUE
ListTweaked(object) == object.selected
WatchTweaked(object) == object.selected

\* The function from keys to objects that stores every object of S.
IndexBy(i, S) ==
    [k \in {KeyFunc(i, o) : o \in S} |-> CHOOSE o \in S : KeyFunc(i, o) = k]

ListFunc(i) ==
    IndexBy(i, {o \in {objects[k] : k \in DOMAIN objects} :
                    InScope(i, o) /\ ListTweaked(o)})

\* What a watch with the tweak tells of a write from `old' to `new' (a set of
\* at most one object each): an object that stops matching is a deletion.
WatchFunc(i, old, new) ==
    LET sees(S) == {o \in S : InScope(i, o) /\ WatchTweaked(o)}
    IN IF sees(new) # {} THEN {[kind |-> "set", object |-> o] : o \in sees(new)}
       ELSE {[kind |-> "deleted", object |-> o] : o \in sees(old)}
-----------------------------------------------------------------------------
Init ==
    /\ objects = <<>>
    /\ indexer = [i \in Informer |-> <<>>]
    /\ watching = [i \in Informer |-> FALSE]
    /\ events = [i \in Informer |-> <<>>]
    /\ writes = 0
    /\ breaks = 0

\* A map with one more entry, or another value for a key.
Set(map, key, value) ==
    [k \in DOMAIN map \cup {key} |-> IF k = key THEN value ELSE map[k]]

Unset(map, key) == [k \in DOMAIN map \ {key} |-> map[k]]

Stored(k) == IF k \in DOMAIN objects THEN {objects[k]} ELSE {}

Notify(old, new) ==
    events' = [i \in Informer |->
                  LET seen == WatchFunc(i, old, new)
                  IN IF watching[i] /\ seen # {}
                     THEN Append(events[i], CHOOSE e \in seen : TRUE) ELSE events[i]]

\* Create, or update what is there.
Put(cluster, name, selected) ==
    LET object == [cluster |-> cluster, name |-> name,
                   rev |-> writes + 1, selected |-> selected]
    IN /\ writes < MaxWrites /\ writes' = writes + 1
       /\ objects' = Set(objects, <<cluster, name>>, object)
       /\ Notify(Stored(<<cluster, name>>), {object})
       /\ UNCHANGED <<indexer, watching, breaks>>

Delete(cluster, name) ==
    LET key == <<cluster, name>>
    IN /\ writes < MaxWrites /\ writes' = writes + 1
       /\ key \in DOMAIN objects
       /\ objects' = Unset(objects, key)
       /\ Notify(Stored(key), {})
       /\ UNCHANGED <<indexer, watching, breaks>>

\* The list replaces the cache; the watch begins at the list's revision.
List(i) ==
    /\ ~watching[i]
    /\ indexer' = [indexer EXCEPT ![i] = ListFunc(i)]
    /\ watching' = [watching EXCEPT ![i] = TRUE]
    /\ UNCHANGED <<objects, events, writes, breaks>>

Event(i) ==
    /\ events[i] # <<>>
    /\ LET e == Head(events[i])
           k == KeyFunc(i, e.object)
       IN indexer' = [indexer EXCEPT ![i] =
              IF e.kind = "set" THEN Set(@, k, e.object) ELSE Unset(@, k)]
    /\ events' = [events EXCEPT ![i] = Tail(@)]
    /\ UNCHANGED <<objects, watching, writes, breaks>>

\* A watch ends with events undelivered; the informer lists again.
WatchEnds(i) ==
    /\ breaks < MaxBreaks /\ breaks' = breaks + 1
    /\ watching[i]
    /\ watching' = [watching EXCEPT ![i] = FALSE]
    /\ events' = [events EXCEPT ![i] = <<>>]
    /\ UNCHANGED <<objects, indexer, writes>>

Next ==
    \/ \E c \in Cluster, n \in Name :
        \/ \E selected \in BOOLEAN : Put(c, n, selected)
        \/ Delete(c, n)
    \/ \E i \in Informer : List(i) \/ Event(i) \/ WatchEnds(i)

Spec == Init /\ [][Next]_vars

\* An informer keeps listing and its watch keeps delivering.
FairSpec == Spec /\ \A i \in Informer : WF_vars(List(i)) /\ WF_vars(Event(i))
-----------------------------------------------------------------------------
(* The listers                                                             *)

ListAll(i) == {indexer[i][k] : k \in DOMAIN indexer[i]}

GetByKey(i, key) == IF key \in DOMAIN indexer[i] THEN indexer[i][key] ELSE NotFound

\* initTargetClusterLister
ClusterListerList == ListAll(Everything)

\* ... and its Cluster(cluster), an initTargetLister
ListerList(cluster) == {o \in ListAll(Everything) : o.cluster = cluster}
ListerGet(cluster, name) == GetByKey(Everything, ToClusterAwareKey(cluster, name))

\* initTargetScopedLister, over the cache of a scoped informer
ScopedListerList(cluster) == ListAll(cluster)
ScopedListerGet(cluster, name) == GetByKey(cluster, <<name>>)
-----------------------------------------------------------------------------
(* Properties                                                              *)

\* A lister scoped to a workspace gets exactly the objects it lists, each of
\* that workspace and under its own name, however many workspaces use the name
\* (inittarget.go:87-140 of the listers).
ListersAgree ==
    \A c \in Cluster, n \in Name :
        /\ {o \in ListerList(c) : o.name = n} = {ListerGet(c, n)} \ {NotFound}
        /\ {o \in ScopedListerList(c) : o.name = n} = {ScopedListerGet(c, n)} \ {NotFound}
        /\ ScopedListerGet(c, n) # NotFound => ScopedListerGet(c, n).cluster = c

\* No lister ever shows an object that did not match the factory's list
\* options at the revision shown: an object that stops matching leaves the
\* cache, whether a watch or a list tells (factory.go:79-85, inittemplate.go:61-84).
OnlyTweakedObjects == \A i \in Informer : \A o \in ListAll(i) : o.selected

\* An informer whose watch is open and has delivered everything holds exactly
\* what the server holds for it, whatever lists, events and broken watches of
\* other revisions came before: nothing is lost between a list and its watch, nor
\* does an object stay that was deleted or stopped matching (inittarget.go:61-84).
QuietCachesAreCurrent ==
    \A i \in Informer :
        (watching[i] /\ events[i] = <<>>) => indexer[i] = ListFunc(i)

\* When the writes stop every cache comes to hold what the server holds for
\* it, and the scoped and the cluster-aware listers show the same: an event a
\* broken watch lost is made up for by the next list.
CachesCatchUp ==
    <>[] /\ \A i \in Informer : indexer[i] = ListFunc(i)
         /\ \A c \in Cluster : ListerList(c) = ScopedListerList(c)
=============================================================================
