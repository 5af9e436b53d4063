---------------------------- MODULE ListersProofs ----------------------------
(***************************************************************************)
(* Proofs about the informers' caches, for any workspaces, names, writes   *)
(* and broken watches: the listers agree, they show nothing that the list  *)
(* options leave out, and a cache that nothing is under way to is current. *)
(*                                                                         *)
(* The argument for the last.  For a key that no undelivered event is      *)
(* about, the cache shows what the server has for it (Delivered); for      *)
(* another one the LAST such event says what the server has (Announced).   *)
(* A write adds an event that becomes the last of its key, or changes      *)
(* nothing an informer can see; delivering the last event of a key brings  *)
(* its entry up to date, and delivering an earlier one does not matter.    *)
(***************************************************************************)
EXTENDS Listers, SequenceTheorems, TLAPS

\* What the server holds for an informer, and of that what belongs to a key.
Held(i) == {o \in {objects[k] : k \in DOMAIN objects} : InScope(i, o) /\ ListTweaked(o)}
HeldAt(i, k) == {o \in Held(i) : KeyFunc(i, o) = k}

\* What an informer's cache holds for a key.
CachedAt(i, k) == IF k \in DOMAIN indexer[i] THEN {indexer[i][k]} ELSE {}

Told == [kind: {"set", "deleted"}, object: Object]

EventKey(i, j) == KeyFunc(i, events[i][j].object)

ServerKeyed ==
    /\ objects \in [DOMAIN objects -> Object]
    /\ \A k \in DOMAIN objects : k = <<objects[k].cluster, objects[k].name>>

CacheKeyed(i) ==
    /\ indexer[i] \in [DOMAIN indexer[i] -> Object]
    /\ \A k \in DOMAIN indexer[i] :
           /\ KeyFunc(i, indexer[i][k]) = k
           /\ InScope(i, indexer[i][k]) /\ indexer[i][k].selected

EventsTyped(i) ==
    /\ events[i] \in Seq(Told)
    /\ ~watching[i] => events[i] = <<>>
    /\ \A j \in DOMAIN events[i] :
           InScope(i, events[i][j].object) /\ events[i][j].object.selected

\* The cache is right about a key that no undelivered event is about ...
Delivered(i) ==
    watching[i] =>
        \A k : (\A j \in DOMAIN events[i] : EventKey(i, j) # k)
                  => CachedAt(i, k) = HeldAt(i, k)

\* ... and of the others the last event is.
Says(e) == IF e.kind = "set" THEN {e.object} ELSE {}

Announced(i) ==
    watching[i] =>
        \A j \in DOMAIN events[i] :
            (\A m \in DOMAIN events[i] : m > j => EventKey(i, m) # EventKey(i, j))
               => HeldAt(i, EventKey(i, j)) = Says(events[i][j])

IInv ==
    /\ writes \in Nat
    /\ ServerKeyed
    /\ DOMAIN indexer = Informer /\ DOMAIN events = Informer
    /\ watching \in [Informer -> BOOLEAN]
    /\ \A i \in Informer :
           CacheKeyed(i) /\ EventsTyped(i) /\ Delivered(i) /\ Announced(i)
-----------------------------------------------------------------------------
(* Facts about keys, lists and writes                                      *)

\* The key of an object an informer is about determines its cluster and name.
LEMMA KeysDiffer ==
    ASSUME NEW i \in Informer, NEW o \in Object, NEW p \in Object,
           InScope(i, o), InScope(i, p)
    PROVE  KeyFunc(i, o) = KeyFunc(i, p) <=> o.cluster = p.cluster /\ o.name = p.name
BY ListersAssumption DEF KeyFunc, ToClusterAwareKey, InScope, Informer

\* What the server holds for a key is what it stores under the object's own.
LEMMA HeldAtIs ==
    ASSUME ServerKeyed, NEW i \in Informer, NEW k, NEW o
    PROVE  o \in HeldAt(i, k) <=>
              /\ o \in Object /\ o \in Stored(<<o.cluster, o.name>>)
              /\ InScope(i, o) /\ o.selected /\ KeyFunc(i, o) = k
BY DEF ServerKeyed, HeldAt, Held, Stored, ListTweaked

\* A list is a map that has each object under its key, and only those.
LEMMA ListIs ==
    ASSUME ServerKeyed, NEW i \in Informer
    PROVE  /\ ListFunc(i) \in [DOMAIN ListFunc(i) -> Object]
           /\ \A k \in DOMAIN ListFunc(i) : HeldAt(i, k) = {ListFunc(i)[k]}
           /\ \A k : k \notin DOMAIN ListFunc(i) => HeldAt(i, k) = {}
<1>1. ListFunc(i) = [k \in {KeyFunc(i, o) : o \in Held(i)} |->
                        CHOOSE o \in Held(i) : KeyFunc(i, o) = k]
  BY DEF ListFunc, IndexBy, Held
<1>2. \A o, p \in Held(i) : KeyFunc(i, o) = KeyFunc(i, p) => o = p
  <2> SUFFICES ASSUME NEW o \in Held(i), NEW p \in Held(i), KeyFunc(i, o) = KeyFunc(i, p)
               PROVE  o = p
    OBVIOUS
  <2>1. /\ o \in Object /\ o \in Stored(<<o.cluster, o.name>>) /\ InScope(i, o)
        /\ p \in Object /\ p \in Stored(<<p.cluster, p.name>>) /\ InScope(i, p)
    BY HeldAtIs DEF HeldAt
  <2>2. o.cluster = p.cluster /\ o.name = p.name
    BY <2>1, KeysDiffer
  <2> QED
    BY <2>1, <2>2 DEF Stored
<1>3. ASSUME NEW k \in DOMAIN ListFunc(i)
      PROVE  HeldAt(i, k) = {ListFunc(i)[k]} /\ ListFunc(i)[k] \in Object
  <2>1. PICK o \in Held(i) : KeyFunc(i, o) = k
    BY <1>1
  <2>2. ListFunc(i)[k] \in Held(i) /\ KeyFunc(i, ListFunc(i)[k]) = k
    BY <1>1, <2>1
  <2>3. HeldAt(i, k) = {ListFunc(i)[k]}
    BY <1>2, <2>2 DEF HeldAt
  <2> QED
    BY <2>2, <2>3 DEF Held, ServerKeyed
<1>4. ASSUME NEW k, k \notin DOMAIN ListFunc(i)
      PROVE  HeldAt(i, k) = {}
  BY <1>1, <1>4 DEF HeldAt
<1>5. ListFunc(i) \in [DOMAIN ListFunc(i) -> Object]
  BY <1>1, <1>3
<1> QED
  BY <1>3, <1>4, <1>5

\* What the server holds for an informer changes as an event says.
Changes(i, e) ==
    /\ InScope(i, e.object) /\ e.object.selected
    /\ \A k : k # KeyFunc(i, e.object) => HeldAt(i, k)' = HeldAt(i, k)
    /\ HeldAt(i, KeyFunc(i, e.object))' = Says(e)

\* What an informer is told of a write, and what the server then holds for it.
LEMMA WriteSeen ==
    ASSUME ServerKeyed, ServerKeyed', NEW i \in Informer,
           NEW c \in Cluster, NEW n \in Name, NEW new \in SUBSET Object,
           \A o \in new : o.cluster = c /\ o.name = n,
           \A o, p \in new : o = p,
           \A k : Stored(k)' = IF k = <<c, n>> THEN new ELSE Stored(k)
    PROVE  \/ /\ WatchFunc(i, Stored(<<c, n>>), new) = {}
              /\ \A k : HeldAt(i, k)' = HeldAt(i, k)
           \/ \E e \in Told : WatchFunc(i, Stored(<<c, n>>), new) = {e} /\ Changes(i, e)
<1> DEFINE old == Stored(<<c, n>>)
           sees(S) == {o \in S : InScope(i, o) /\ WatchTweaked(o)}
<1>1. /\ \A o \in old : o \in Object /\ o.cluster = c /\ o.name = n
      /\ \A o, p \in old : o = p
  BY DEF ServerKeyed, Stored
<1>2. \A k, o : o \in HeldAt(i, k)' <=>
              /\ o \in Object /\ o \in Stored(<<o.cluster, o.name>>)'
              /\ InScope(i, o) /\ o.selected /\ KeyFunc(i, o) = k
  BY DEF ServerKeyed, HeldAt, Held, Stored, ListTweaked
<1>3. \A k, o : o \in HeldAt(i, k) <=>
              /\ o \in Object /\ o \in Stored(<<o.cluster, o.name>>)
              /\ InScope(i, o) /\ o.selected /\ KeyFunc(i, o) = k
  BY HeldAtIs
<1>4. \A k, o : (o.cluster # c \/ o.name # n) =>
              (o \in HeldAt(i, k)' <=> o \in HeldAt(i, k))
  BY <1>2, <1>3
<1>5. \A k, o : (o.cluster = c /\ o.name = n) =>
              /\ o \in HeldAt(i, k)' <=> o \in sees(new) /\ KeyFunc(i, o) = k
              /\ o \in HeldAt(i, k) <=> o \in sees(old) /\ KeyFunc(i, o) = k
  BY <1>1, <1>2, <1>3 DEF WatchTweaked
<1>6. WatchFunc(i, old, new) =
         IF sees(new) # {} THEN {[kind |-> "set", object |-> o] : o \in sees(new)}
         ELSE {[kind |-> "deleted", object |-> o] : o \in sees(old)}
  BY DEF WatchFunc
<1>7. \A o \in sees(old) \cup sees(new) :
         o \in Object /\ InScope(i, o) /\ o.selected /\ o.cluster = c /\ o.name = n
  BY <1>1 DEF WatchTweaked
<1> HIDE DEF old, sees
<1>8. ASSUME NEW o \in sees(old) \cup sees(new), NEW k, k # KeyFunc(i, o)
      PROVE  HeldAt(i, k)' = HeldAt(i, k)
  <2> SUFFICES ASSUME NEW p PROVE p \in HeldAt(i, k)' <=> p \in HeldAt(i, k)
    OBVIOUS
  <2>1. CASE p.cluster = c /\ p.name = n
    <3>1. p \notin HeldAt(i, k)' /\ p \notin HeldAt(i, k)
      BY <1>5, <1>7, <1>8, <2>1, KeysDiffer
    <3> QED
      BY <3>1
  <2> QED
    BY <1>4, <2>1
<1>9. ASSUME NEW o \in sees(old) \cup sees(new), NEW p, p \in HeldAt(i, KeyFunc(i, o))'
      PROVE  p.cluster = c /\ p.name = n
  <2>1. p \in Object /\ InScope(i, p) /\ KeyFunc(i, p) = KeyFunc(i, o)
    BY <1>2, <1>9
  <2> QED
    BY <1>7, <2>1, KeysDiffer
<1>10. CASE sees(new) # {}
  <2>1. PICK o \in new : sees(new) = {o}
    BY <1>10 DEF sees
  <2>2. WatchFunc(i, old, new) = {[kind |-> "set", object |-> o]}
    BY <1>6, <2>1
  <2>3. HeldAt(i, KeyFunc(i, o))' = {o}
    <3>1. \A p : p \in HeldAt(i, KeyFunc(i, o))' => p.cluster = c /\ p.name = n
      BY <1>9, <2>1
    <3> QED
      BY <1>5, <1>7, <2>1, <3>1
  <2>4. [kind |-> "set", object |-> o] \in Told
    BY <1>7, <2>1 DEF Told
  <2> QED
    BY <1>7, <1>8, <2>1, <2>2, <2>3, <2>4 DEF old, Changes, Says
<1>11. CASE sees(new) = {} /\ sees(old) # {}
  <2>1. PICK o \in old : sees(old) = {o}
    BY <1>1, <1>11 DEF sees
  <2>2. WatchFunc(i, old, new) = {[kind |-> "deleted", object |-> o]}
    BY <1>6, <1>11, <2>1
  <2>3. HeldAt(i, KeyFunc(i, o))' = {}
    <3>1. \A p : p \in HeldAt(i, KeyFunc(i, o))' => p.cluster = c /\ p.name = n
      BY <1>9, <2>1
    <3> QED
      BY <1>5, <1>11, <3>1
  <2>4. [kind |-> "deleted", object |-> o] \in Told
    BY <1>7, <2>1 DEF Told
  <2> QED
    BY <1>7, <1>8, <2>1, <2>2, <2>3, <2>4 DEF old, Changes, Says
<1>12. CASE sees(new) = {} /\ sees(old) = {}
  <2>1. WatchFunc(i, old, new) = {}
    BY <1>6, <1>12
  <2>2. ASSUME NEW k PROVE HeldAt(i, k)' = HeldAt(i, k)
    <3> SUFFICES ASSUME NEW p PROVE p \in HeldAt(i, k)' <=> p \in HeldAt(i, k)
      OBVIOUS
    <3> QED
      BY <1>4, <1>5, <1>12
  <2> QED
    BY <2>1, <2>2 DEF old
<1> QED
  BY <1>10, <1>11, <1>12

\* A write keeps the invariant: the event it adds becomes the last of its key.
LEMMA WriteStep ==
    ASSUME IInv, writes' \in Nat, ServerKeyed',
           NEW c \in Cluster, NEW n \in Name, NEW new \in SUBSET Object,
           \A o \in new : o.cluster = c /\ o.name = n,
           \A o, p \in new : o = p,
           \A k : Stored(k)' = IF k = <<c, n>> THEN new ELSE Stored(k),
           Notify(Stored(<<c, n>>), new),
           UNCHANGED <<indexer, watching>>
    PROVE  IInv'
<1> DEFINE seen(i) == WatchFunc(i, Stored(<<c, n>>), new)
<1>1. \A i \in Informer : events'[i] = IF watching[i] /\ seen(i) # {}
                                      THEN Append(events[i], CHOOSE e \in seen(i) : TRUE)
                                      ELSE events[i]
  BY DEF Notify
<1>2. ASSUME NEW i \in Informer
      PROVE  (EventsTyped(i) /\ Delivered(i) /\ Announced(i))'
  <2>1. /\ events[i] \in Seq(Told) /\ watching'[i] = watching[i]
        /\ ~watching[i] => events[i] = <<>>
        /\ \A j \in DOMAIN events[i] :
               InScope(i, events[i][j].object) /\ events[i][j].object.selected
    BY DEF IInv, EventsTyped
  <2>2. \A k : CachedAt(i, k)' = CachedAt(i, k)
    BY DEF CachedAt
  <2>3. Delivered(i) /\ Announced(i)
    BY DEF IInv
  <2>4. CASE ~watching[i]
    BY <1>1, <2>1, <2>4 DEF EventsTyped, Delivered, Announced
  <2>5. CASE watching[i] /\ events'[i] = events[i] /\ \A k : HeldAt(i, k)' = HeldAt(i, k)
    <3>1. \A j : EventKey(i, j)' = EventKey(i, j)
      BY <2>5 DEF EventKey
    <3>2. Delivered(i)'
      BY <2>2, <2>3, <2>5, <3>1 DEF Delivered
    <3>3. Announced(i)'
      BY <2>3, <2>5, <3>1 DEF Announced
    <3> QED
      BY <2>1, <2>5, <3>2, <3>3 DEF EventsTyped
  <2>6. ASSUME watching[i], NEW e \in Told, events'[i] = Append(events[i], e), Changes(i, e)
        PROVE  (EventsTyped(i) /\ Delivered(i) /\ Announced(i))'
    <3>0. PICK last \in Nat : last = Len(events[i]) + 1
      BY <2>1
    <3>1. /\ events'[i] \in Seq(Told) /\ DOMAIN events'[i] = 1..last
          /\ DOMAIN events[i] = 1..(last - 1) /\ last \in Nat
          /\ events'[i][last] = e
          /\ \A j \in DOMAIN events[i] : events'[i][j] = events[i][j]
      BY <2>1, <2>6, <3>0
    <3>2. EventKey(i, last)' = KeyFunc(i, e.object)
          /\ \A j \in DOMAIN events[i] : EventKey(i, j)' = EventKey(i, j)
      BY <3>1 DEF EventKey
    <3>3. EventsTyped(i)'
      BY <2>1, <2>6, <3>1 DEF EventsTyped, Changes
    <3>4. Delivered(i)'
      BY <2>2, <2>3, <2>6, <3>1, <3>2 DEF Delivered, Changes
    <3>5. Announced(i)'
      BY <2>3, <2>6, <3>1, <3>2 DEF Announced, Changes
    <3> QED
      BY <3>3, <3>4, <3>5
  <2>7. \/ seen(i) = {} /\ \A k : HeldAt(i, k)' = HeldAt(i, k)
        \/ \E e \in Told : seen(i) = {e} /\ Changes(i, e)
    BY WriteSeen DEF IInv
  <2>8. CASE seen(i) = {} /\ \A k : HeldAt(i, k)' = HeldAt(i, k)
    BY <1>1, <2>4, <2>5, <2>8
  <2>9. CASE \E e \in Told : seen(i) = {e} /\ Changes(i, e)
    <3>1. PICK e \in Told : seen(i) = {e} /\ Changes(i, e)
      BY <2>9
    <3>2. CASE watching[i]
      BY <1>1, <2>6, <3>1, <3>2
    <3> QED
      BY <2>4, <3>2
  <2> QED
    BY <2>7, <2>8, <2>9
<1>3. \A i \in Informer : CacheKeyed(i)'
  BY DEF IInv, CacheKeyed
<1>4. DOMAIN events' = Informer
  BY DEF Notify
<1> QED
  BY <1>2, <1>3, <1>4 DEF IInv
-----------------------------------------------------------------------------
(* The steps                                                               *)

\* At the start every cache and every queue of events is empty.
LEMMA InitIInv == Init => IInv
<1> SUFFICES ASSUME Init PROVE IInv
  OBVIOUS
<1>1. DOMAIN objects = {} /\ \A i \in Informer : DOMAIN indexer[i] = {} /\ events[i] = <<>>
  BY DEF Init
<1>2. ServerKeyed
  BY <1>1 DEF Init, ServerKeyed
<1>3. ASSUME NEW i \in Informer
      PROVE  CacheKeyed(i) /\ EventsTyped(i) /\ Delivered(i) /\ Announced(i)
  BY <1>1 DEF Init, CacheKeyed, EventsTyped, Delivered, Announced
<1> QED
  BY <1>2, <1>3 DEF Init, IInv

\* A write puts the new object into the place of the old one.
LEMMA PutStep ==
    ASSUME IInv, NEW c \in Cluster, NEW n \in Name, NEW selected \in BOOLEAN,
           Put(c, n, selected)
    PROVE  IInv'
<1> DEFINE object == [cluster |-> c, name |-> n, rev |-> writes + 1, selected |-> selected]
<1>1. object \in Object /\ object.cluster = c /\ object.name = n /\ writes' \in Nat
  BY ListersAssumption DEF Put, IInv, Object
<1>2. objects' = Set(objects, <<c, n>>, object)
      /\ Notify(Stored(<<c, n>>), {object}) /\ UNCHANGED <<indexer, watching>>
  BY DEF Put
<1> HIDE DEF object
<1>3. /\ DOMAIN objects' = DOMAIN objects \cup {<<c, n>>}
      /\ \A k \in DOMAIN objects' : objects'[k] = IF k = <<c, n>> THEN object ELSE objects[k]
      /\ objects' \in [DOMAIN objects' -> Object]
  BY <1>1, <1>2 DEF Set, IInv, ServerKeyed
<1>4. ServerKeyed'
  BY <1>1, <1>3 DEF IInv, ServerKeyed
<1>5. \A k : Stored(k)' = IF k = <<c, n>> THEN {object} ELSE Stored(k)
  BY <1>3 DEF Stored
<1> QED
  BY <1>1, <1>2, <1>4, <1>5, WriteStep

\* A deletion leaves nothing under its key.
LEMMA DeleteStep ==
    ASSUME IInv, NEW c \in Cluster, NEW n \in Name, Delete(c, n)
    PROVE  IInv'
<1>1. /\ objects' = Unset(objects, <<c, n>>) /\ writes' \in Nat
      /\ Notify(Stored(<<c, n>>), {}) /\ UNCHANGED <<indexer, watching>>
  BY DEF Delete, IInv
<1>2. /\ DOMAIN objects' = DOMAIN objects \ {<<c, n>>}
      /\ \A k \in DOMAIN objects' : objects'[k] = objects[k]
      /\ objects' \in [DOMAIN objects' -> Object]
  BY <1>1 DEF Unset, IInv, ServerKeyed
<1>3. ServerKeyed'
  BY <1>2 DEF IInv, ServerKeyed
<1>4. \A k : Stored(k)' = IF k = <<c, n>> THEN {} ELSE Stored(k)
  BY <1>2 DEF Stored
<1> QED
  BY <1>1, <1>3, <1>4, WriteStep

\* What a step on one informer leaves alone.
LEMMA InformerFrame ==
    ASSUME IInv, NEW i \in Informer, UNCHANGED <<objects, writes>>,
           DOMAIN indexer' = Informer, DOMAIN events' = Informer,
           watching' \in [Informer -> BOOLEAN],
           \A h \in Informer : h # i => /\ indexer'[h] = indexer[h]
                                        /\ watching'[h] = watching[h]
                                        /\ events'[h] = events[h],
           (CacheKeyed(i) /\ EventsTyped(i) /\ Delivered(i) /\ Announced(i))'
    PROVE  IInv'
<1>1. ASSUME NEW h \in Informer, h # i
      PROVE  (CacheKeyed(h) /\ EventsTyped(h) /\ Delivered(h) /\ Announced(h))'
  <2>1. /\ indexer'[h] = indexer[h] /\ watching'[h] = watching[h]
        /\ events'[h] = events[h] /\ UNCHANGED objects
    BY <1>1
  <2>2. (CacheKeyed(h) /\ EventsTyped(h))'
    BY <2>1 DEF IInv, CacheKeyed, EventsTyped
  <2>3. (Delivered(h) /\ Announced(h))'
    BY <2>1 DEF IInv, Delivered, Announced, EventKey, CachedAt, HeldAt, Held
  <2> QED
    BY <2>2, <2>3
<1> QED
  BY <1>1 DEF IInv, ServerKeyed

\* A list makes a cache current, and nothing is announced yet.
LEMMA ListStep ==
    ASSUME IInv, NEW i \in Informer, List(i)
    PROVE  IInv'
<1>1. /\ ~watching[i] /\ indexer' = [indexer EXCEPT ![i] = ListFunc(i)]
      /\ watching' = [watching EXCEPT ![i] = TRUE]
      /\ UNCHANGED <<objects, events, writes>>
  BY DEF List
<1>2. events'[i] = <<>> /\ indexer'[i] = ListFunc(i)
  BY <1>1 DEF IInv, EventsTyped
<1>3. /\ ListFunc(i) \in [DOMAIN ListFunc(i) -> Object]
      /\ \A k \in DOMAIN ListFunc(i) : HeldAt(i, k) = {ListFunc(i)[k]}
      /\ \A k : k \notin DOMAIN ListFunc(i) => HeldAt(i, k) = {}
  BY ListIs DEF IInv
<1>4. \A k : HeldAt(i, k)' = HeldAt(i, k)
  BY <1>1 DEF HeldAt, Held
<1>5. CacheKeyed(i)'
  BY <1>2, <1>3 DEF CacheKeyed, HeldAt, Held, ListTweaked
<1>6. Delivered(i)'
  BY <1>2, <1>3, <1>4 DEF Delivered, CachedAt
<1>7. EventsTyped(i)' /\ Announced(i)'
  BY <1>1, <1>2 DEF EventsTyped, Announced, IInv
<1> QED
  BY <1>1, <1>5, <1>6, <1>7, InformerFrame DEF IInv

\* The event at the head is taken into the cache; those behind it still tell the rest.
LEMMA EventStep ==
    ASSUME IInv, NEW i \in Informer, Event(i)
    PROVE  IInv'
<1>1. PICK e, k : /\ e = Head(events[i]) /\ k = KeyFunc(i, e.object)
                  /\ events[i] # <<>>
                  /\ indexer' = [indexer EXCEPT ![i] =
                         IF e.kind = "set" THEN Set(@, k, e.object) ELSE Unset(@, k)]
                  /\ events' = [events EXCEPT ![i] = Tail(@)]
                  /\ UNCHANGED <<objects, watching, writes>>
  BY DEF Event
<1>2. /\ CacheKeyed(i) /\ EventsTyped(i) /\ Delivered(i) /\ Announced(i)
      /\ DOMAIN indexer = Informer /\ DOMAIN events = Informer
      /\ watching \in [Informer -> BOOLEAN]
  BY DEF IInv
<1>3. watching[i] /\ events[i] \in Seq(Told)
  BY <1>1, <1>2 DEF EventsTyped
<1>4. /\ e \in Told /\ e = events[i][1] /\ 1 \in DOMAIN events[i]
      /\ events'[i] \in Seq(Told)
      /\ \A j : j \in DOMAIN events'[i] <=> j \in Nat \ {0} /\ j + 1 \in DOMAIN events[i]
      /\ \A j \in DOMAIN events'[i] : events'[i][j] = events[i][j + 1]
      /\ DOMAIN events[i] = 1..Len(events[i]) /\ Len(events[i]) \in Nat
  BY <1>1, <1>2, <1>3
<1>5. e.object \in Object /\ e.kind \in {"set", "deleted"}
      /\ InScope(i, e.object) /\ e.object.selected
  BY <1>2, <1>4 DEF Told, EventsTyped
<1>6. indexer'[i] = IF e.kind = "set" THEN Set(indexer[i], k, e.object) ELSE Unset(indexer[i], k)
  BY <1>1, <1>2
<1>7. CacheKeyed(i)'
  BY <1>1, <1>2, <1>5, <1>6 DEF CacheKeyed, Set, Unset
<1>8. /\ CachedAt(i, k)' = Says(e)
      /\ \A q : q # k => CachedAt(i, q)' = CachedAt(i, q)
  BY <1>5, <1>6 DEF CachedAt, Says, Set, Unset
<1>9. \A q : HeldAt(i, q)' = HeldAt(i, q)
  BY <1>1 DEF HeldAt, Held
<1>10. \A j \in DOMAIN events'[i] : EventKey(i, j)' = EventKey(i, j + 1)
  BY <1>4 DEF EventKey
<1>11. EventKey(i, 1) = k
  BY <1>1, <1>4 DEF EventKey
<1>12. \A j \in DOMAIN events[i] : j # 1 => j - 1 \in DOMAIN events'[i] /\ (j - 1) + 1 = j
  BY <1>4
<1>13. EventsTyped(i)'
  BY <1>1, <1>2, <1>3, <1>4 DEF EventsTyped
<1>14. Delivered(i)'
  <2> SUFFICES ASSUME NEW q, \A j \in DOMAIN events'[i] : EventKey(i, j)' # q
               PROVE  CachedAt(i, q)' = HeldAt(i, q)
    BY <1>9 DEF Delivered
  <2>1. \A j \in DOMAIN events[i] : j # 1 => EventKey(i, j) # q
    BY <1>10, <1>12
  <2>2. CASE q = k
    <3>1. HeldAt(i, EventKey(i, 1)) = Says(events[i][1])
      BY <1>2, <1>3, <1>4, <1>11, <2>1, <2>2 DEF Announced
    <3> QED
      BY <1>4, <1>8, <1>11, <2>2, <3>1
  <2>3. CASE q # k
    BY <1>2, <1>3, <1>8, <1>11, <2>1, <2>3 DEF Delivered
  <2> QED
    BY <2>2, <2>3
<1>15. Announced(i)'
  <2> SUFFICES ASSUME NEW j \in DOMAIN events'[i],
                      \A m \in DOMAIN events'[i] : m > j => EventKey(i, m)' # EventKey(i, j)'
               PROVE  HeldAt(i, EventKey(i, j)') = Says(events'[i][j])
    BY <1>9 DEF Announced
  <2>1. j + 1 \in DOMAIN events[i] /\ j \in Nat
    BY <1>4
  <2>2. \A m \in DOMAIN events[i] : m > j + 1 => EventKey(i, m) # EventKey(i, j + 1)
    BY <1>4, <1>10, <1>12
  <2>3. HeldAt(i, EventKey(i, j + 1)) = Says(events[i][j + 1])
    BY <1>2, <1>3, <2>1, <2>2 DEF Announced
  <2> QED
    BY <1>4, <1>10, <2>3
<1>16. /\ DOMAIN indexer' = Informer /\ DOMAIN events' = Informer
       /\ watching' \in [Informer -> BOOLEAN] /\ UNCHANGED <<objects, writes>>
       /\ \A h \in Informer : h # i => /\ indexer'[h] = indexer[h]
                                        /\ watching'[h] = watching[h]
                                        /\ events'[h] = events[h]
  BY <1>1, <1>2
<1> QED
  BY <1>7, <1>13, <1>14, <1>15, <1>16, InformerFrame

\* With the watch its events go, and nothing is asked of the cache.
LEMMA WatchEndsStep ==
    ASSUME IInv, NEW i \in Informer, WatchEnds(i)
    PROVE  IInv'
<1>1. /\ watching' = [watching EXCEPT ![i] = FALSE]
      /\ events' = [events EXCEPT ![i] = <<>>]
      /\ UNCHANGED <<objects, indexer, writes>>
  BY DEF WatchEnds
<1>2. watching'[i] = FALSE /\ events'[i] = <<>>
  BY <1>1 DEF IInv
<1>3. (CacheKeyed(i) /\ EventsTyped(i) /\ Delivered(i) /\ Announced(i))'
  BY <1>1, <1>2 DEF IInv, CacheKeyed, EventsTyped, Delivered, Announced
<1> QED
  BY <1>1, <1>3, InformerFrame DEF IInv

\* Every step keeps the inductive invariant.
LEMMA IInvStep == IInv /\ [Next]_vars => IInv'
<1> SUFFICES ASSUME IInv, [Next]_vars PROVE IInv'
  OBVIOUS
<1>1. ASSUME NEW c \in Cluster, NEW n \in Name,
             (\E selected \in BOOLEAN : Put(c, n, selected)) \/ Delete(c, n)
      PROVE  IInv'
  BY <1>1, PutStep, DeleteStep
<1>2. ASSUME NEW i \in Informer, List(i) \/ Event(i) \/ WatchEnds(i)
      PROVE  IInv'
  BY <1>2, ListStep, EventStep, WatchEndsStep
<1>3. CASE UNCHANGED vars
  <2>1. ASSUME NEW i \in Informer
        PROVE  (CacheKeyed(i) /\ EventsTyped(i) /\ Delivered(i) /\ Announced(i))'
    BY <1>3 DEF vars, IInv, CacheKeyed, EventsTyped, Delivered, Announced, EventKey,
                CachedAt, HeldAt, Held
  <2> QED
    BY <1>3, <2>1 DEF vars, IInv, ServerKeyed
<1> QED
  BY <1>1, <1>2, <1>3 DEF Next

\* The inductive invariant holds always.
LEMMA Invariance == Spec => []IInv
BY InitIInv, IInvStep, PTL DEF Spec
-----------------------------------------------------------------------------
(* Theorems                                                                *)

\* Getting an object by name and finding it in the list are the same, with the
\* cluster-aware informer's lister scoped to a workspace as with the scoped
\* informer's (inittarget.go:87-140 of the listers).
THEOREM GetIsList == Spec => []ListersAgree
<1>1. ASSUME IInv PROVE ListersAgree
  <2> SUFFICES ASSUME NEW c \in Cluster, NEW n \in Name
               PROVE  /\ {o \in ListerList(c) : o.name = n} = {ListerGet(c, n)} \ {NotFound}
                      /\ {o \in ScopedListerList(c) : o.name = n}
                             = {ScopedListerGet(c, n)} \ {NotFound}
                      /\ ScopedListerGet(c, n) # NotFound
                             => ScopedListerGet(c, n).cluster = c
    BY DEF ListersAgree
  <2>1. CacheKeyed(c) /\ CacheKeyed(Everything) /\ c # Everything
    BY <1>1, ListersAssumption DEF IInv, Informer
  <2>2. \A k \in DOMAIN indexer[c] :
           /\ indexer[c][k] \in Object /\ indexer[c][k].cluster = c
           /\ k = <<indexer[c][k].name>>
    BY <2>1 DEF CacheKeyed, KeyFunc, InScope
  <2>3. \A k \in DOMAIN indexer[Everything] :
           /\ indexer[Everything][k] \in Object
           /\ k = <<indexer[Everything][k].cluster, indexer[Everything][k].name>>
    BY <2>1 DEF CacheKeyed, KeyFunc, ToClusterAwareKey
  <2>4. {o \in ListerList(c) : o.name = n} = {ListerGet(c, n)} \ {NotFound}
    BY <2>3, ListersAssumption DEF ListerList, ListAll, ListerGet, GetByKey, ToClusterAwareKey
  <2>5. {o \in ScopedListerList(c) : o.name = n} = {ScopedListerGet(c, n)} \ {NotFound}
    BY <2>2, ListersAssumption DEF ScopedListerList, ListAll, ScopedListerGet, GetByKey
  <2>6. ScopedListerGet(c, n) # NotFound => ScopedListerGet(c, n).cluster = c
    BY <2>2 DEF ScopedListerGet, GetByKey
  <2> QED
    BY <2>4, <2>5, <2>6
<1> QED
  BY <1>1, Invariance, PTL

\* No lister shows an object that the factory's list options leave out at the
\* revision shown (factory.go:79-85).
THEOREM TweakHolds == Spec => []OnlyTweakedObjects
<1>1. IInv => OnlyTweakedObjects
  BY DEF IInv, CacheKeyed, OnlyTweakedObjects, ListAll
<1> QED
  BY <1>1, Invariance, PTL

\* An open watch with nothing under way means a cache that is current, after any
\* number of writes, lists and broken watches (inittarget.go:61-84).
THEOREM QuietIsCurrent == Spec => []QuietCachesAreCurrent
<1>1. ASSUME IInv PROVE QuietCachesAreCurrent
  <2> SUFFICES ASSUME NEW i \in Informer, watching[i], events[i] = <<>>
               PROVE  indexer[i] = ListFunc(i)
    BY DEF QuietCachesAreCurrent
  <2>1. \A k : CachedAt(i, k) = HeldAt(i, k)
    BY <1>1 DEF IInv, Delivered
  <2>2. /\ ListFunc(i) \in [DOMAIN ListFunc(i) -> Object]
        /\ \A k \in DOMAIN ListFunc(i) : HeldAt(i, k) = {ListFunc(i)[k]}
        /\ \A k : k \notin DOMAIN ListFunc(i) => HeldAt(i, k) = {}
    BY <1>1, ListIs DEF IInv
  <2>3. indexer[i] \in [DOMAIN indexer[i] -> Object]
    BY <1>1 DEF IInv, CacheKeyed
  <2>4. \A k : k \in DOMAIN indexer[i] <=> k \in DOMAIN ListFunc(i)
    BY <2>1, <2>2 DEF CachedAt
  <2>5. \A k \in DOMAIN indexer[i] : indexer[i][k] = ListFunc(i)[k]
    BY <2>1, <2>2, <2>4 DEF CachedAt
  <2> QED
    BY <2>2, <2>3, <2>4, <2>5
<1> QED
  BY <1>1, Invariance, PTL
=============================================================================
