--------------------------- MODULE ClientsetsProofs ---------------------------
(***************************************************************************)
(* Proofs about the clientsets, for any workspaces, callers, bursts and    *)
(* edits: scoping panics only of a config that the clientset shares with   *)
(* its maker, and nobody sends more than a burst between two ticks.        *)
(*                                                                         *)
(* The argument.  What the clientset was made from was accepted and never  *)
(* changes (KeptAccepted); only a shared cache builds from anything else.  *)
(* Hence every other client - the Fixed ones - has the limiter it would be *)
(* given now (AsBuilt), in a bucket of the size it would have now          *)
(* (SizesKept); Fixed clients that share a limit share a bucket            *)
(* (SharedLimiter), and what they have sent is missing from it (Spent).    *)
(***************************************************************************)
EXTENDS Clientsets, TLAPS

Call == {Idle} \cup [op: {"waits"}, client: Client] \cup [op: {"panicked"}]

KeptAccepted ==
    /\ config \in Config /\ kept \in Config /\ shared \in BOOLEAN
    /\ ready => Accepts(kept)
    /\ ~ready => /\ config = kept /\ ~shared /\ DOMAIN limiters = {}
                 /\ \A clients \in Counted : sent[clients] = 0

\* The limiter of a fixed client in a cache is the one its config gives it.
AsBuilt ==
    /\ DOMAIN limiters \subseteq Client
    /\ \A k \in DOMAIN limiters \cap Fixed : limiters[k] = LimiterFor(k[1], k[2])

\* Buckets whose size comes from what cannot change any more.
SizeKept(l) == l # Given /\ (shared => l[1] # "clientset")

SizesKept ==
    \A l \in DOMAIN sizes :
        /\ sizes[l] \in Nat
        /\ l = Given => sizes[l] = GivenBurst
        /\ SizeKept(l) => sizes[l] = Burst(kept)

BucketsTyped ==
    /\ DOMAIN tokens = Range(limiters) \ {NoLimiter} /\ DOMAIN sizes = DOMAIN tokens
    /\ \A l \in DOMAIN tokens : tokens[l] \in Nat /\ tokens[l] <= sizes[l]

CallsTyped ==
    /\ calls \in [Caller -> Call]
    /\ \A c \in Caller : calls[c].op = "waits" => calls[c].client \in DOMAIN limiters

\* What clients with a common limit have sent is missing from their bucket.
Spent ==
    \A clients \in Together :
        /\ clients \cap DOMAIN limiters = {} => sent[clients] = 0
        /\ \A k \in clients \cap DOMAIN limiters :
               sent[clients] + (IF limiters[k] = NoLimiter THEN 0 ELSE tokens[limiters[k]])
                   <= Limit

IInv ==
    /\ KeptAccepted
    /\ AsBuilt
    /\ SizesKept
    /\ BucketsTyped
    /\ CallsTyped
    /\ sent \in [Counted -> Nat]
    /\ Spent
-----------------------------------------------------------------------------
(* Facts about limits                                                      *)

\* The sizes of buckets are natural numbers.
LEMMA BurstType ==
    /\ \A cfg \in Config : Burst(cfg) \in Nat
    /\ kept \in Config => Limit \in Nat
BY ClientsetsAssumption DEF Burst, Config, Limit

\* What clients that share a limit have sent is counted, and they are fixed.
LEMMA TogetherFixed ==
    /\ Together \subseteq Counted
    /\ \A clients \in Together : clients \subseteq Fixed
    /\ Fixed \subseteq Client
BY DEF Together, Counted, Fixed, Group, Client, View

\* A fixed client builds from what the clientset was made from.
LEMMA FixedConfig ==
    ASSUME NEW k \in Fixed
    PROVE  LimiterFor(k[1], k[2]) =
               IF k[1] = "group" THEN RESTLimiter(GroupConfig, <<k[1], k[2]>>)
               ELSE RESTLimiter(ShallowCopy(kept, <<k[1], k[2]>>), <<k[1], k[2]>>)
<1>1. k[1] = "group" \/ ~shared
  BY DEF Fixed, Group
<1> QED
  BY <1>1 DEF LimiterFor, CacheConfig

\* Fixed clients that share a limit are given the same limiter.
LEMMA SharedLimiter ==
    ASSUME kept \in Config, NEW clients \in Together, NEW j \in clients, NEW k \in clients
    PROVE  LimiterFor(j[1], j[2]) = LimiterFor(k[1], k[2])
<1>1. CASE \E client \in Fixed : clients = {client}
  BY <1>1
<1>2. CASE clients = Group /\ kept.qps = "positive"
  <2>1. j[1] = "group" /\ k[1] = "group"
    BY <1>2 DEF Group
  <2>2. GroupConfig.limiter # NoLimiter
    BY <1>2 DEF GroupConfig, ShallowCopy, NoLimiter, Config, Given
  <2> QED
    BY <2>1, <2>2 DEF LimiterFor, RESTLimiter
<1>3. CASE clients = Fixed /\ kept.limiter = Given
  <2>1. kept.limiter # NoLimiter
    BY <1>3 DEF Given, NoLimiter
  <2>2. \A l : ShallowCopy(kept, l) = kept
    BY <2>1 DEF ShallowCopy
  <2>3. GroupConfig = kept /\ \A l : RESTLimiter(kept, l) = kept.limiter
    BY <2>1, <2>2 DEF GroupConfig, RESTLimiter
  <2>4. ASSUME NEW i \in Fixed PROVE LimiterFor(i[1], i[2]) = kept.limiter
    <3>1. LimiterFor(i[1], i[2]) =
              IF i[1] = "group" THEN RESTLimiter(GroupConfig, <<i[1], i[2]>>)
              ELSE RESTLimiter(ShallowCopy(kept, <<i[1], i[2]>>), <<i[1], i[2]>>)
      BY FixedConfig
    <3> QED
      BY <2>2, <2>3, <3>1
  <2> QED
    BY <1>3, <2>4
<1> QED
  BY <1>1, <1>2, <1>3 DEF Together

\* A fixed client's limiter came with the config or is of a kept size.
LEMMA LimiterName ==
    ASSUME kept \in Config, NEW k \in Fixed, LimiterFor(k[1], k[2]) # NoLimiter
    PROVE  LET l == LimiterFor(k[1], k[2])
           IN IF kept.limiter = Given THEN l = Given ELSE SizeKept(l)
<1> DEFINE own == <<k[1], k[2]>>
<1>1. k[1] = "group" \/ (k[1] = "clientset" /\ ~shared)
  BY DEF Fixed, Group, Client, View
<1>2. Given # NoLimiter /\ kept.limiter \in {NoLimiter, Given}
  BY DEF Given, NoLimiter, Config
<1>3. CASE kept.limiter = Given
  <2>1. \A l : ShallowCopy(kept, l) = kept /\ RESTLimiter(kept, l) = Given
    BY <1>2, <1>3 DEF ShallowCopy, RESTLimiter
  <2>2. GroupConfig = kept
    BY <2>1 DEF GroupConfig
  <2>3. LimiterFor(k[1], k[2]) = Given
    <3>1. LimiterFor(k[1], k[2]) =
              IF k[1] = "group" THEN RESTLimiter(GroupConfig, own)
              ELSE RESTLimiter(ShallowCopy(kept, own), own)
      BY FixedConfig
    <3> QED
      BY <2>1, <2>2, <3>1
  <2> QED
    BY <1>3, <2>3
<1>4. CASE kept.limiter = NoLimiter
  <2>1. LimiterFor(k[1], k[2]) \in {<<"all">>, own} /\ (k[1] = "clientset" \/ own[1] = "group")
    BY <1>1, <1>4, FixedConfig
       DEF RESTLimiter, GroupConfig, ShallowCopy, Config
  <2>2. <<"all">> # Given /\ <<"all">>[1] # "clientset" /\ own # Given
    BY DEF Given
  <2> QED
    BY <1>1, <1>2, <1>4, <2>1, <2>2 DEF SizeKept
<1> QED
  BY <1>2, <1>3, <1>4

\* The bucket of a fixed client is there and of the size that its limit says.
FixedSizes ==
    \A k \in DOMAIN limiters \cap Fixed :
        limiters[k] # NoLimiter =>
            limiters[k] \in DOMAIN tokens /\ sizes[limiters[k]] = Limit

LEMMA FixedSize ==
    kept \in Config /\ AsBuilt /\ SizesKept /\ BucketsTyped => FixedSizes
<1> SUFFICES ASSUME kept \in Config, AsBuilt, SizesKept, BucketsTyped,
                    NEW k \in DOMAIN limiters \cap Fixed, limiters[k] # NoLimiter
             PROVE  limiters[k] \in DOMAIN tokens /\ sizes[limiters[k]] = Limit
  BY DEF FixedSizes
<1>1. limiters[k] \in DOMAIN tokens /\ limiters[k] \in DOMAIN sizes
  BY DEF BucketsTyped, Range
<1>2. IF kept.limiter = Given THEN limiters[k] = Given ELSE SizeKept(limiters[k])
  BY LimiterName DEF AsBuilt
<1> QED
  BY <1>1, <1>2 DEF SizesKept, Limit

\* At the start there is no client and no bucket.
LEMMA InitIInv == Init => IInv
<1> SUFFICES ASSUME Init PROVE IInv
  OBVIOUS
<1>1. DOMAIN limiters = {} /\ DOMAIN tokens = {} /\ DOMAIN sizes = {} /\ Range(limiters) = {}
  BY DEF Init, Range
<1>2. sent \in [Counted -> Nat] /\ \A clients \in Counted : sent[clients] = 0
  BY DEF Init
<1>3. CallsTyped
  BY DEF Init, CallsTyped, Call, Idle
<1>4. Spent
  BY <1>1, <1>2, TogetherFixed DEF Spent
<1>5. KeptAccepted
  BY <1>1, <1>2 DEF Init, KeptAccepted
<1> QED
  BY <1>1, <1>2, <1>3, <1>4, <1>5 DEF IInv, AsBuilt, BucketsTyped, SizesKept
-----------------------------------------------------------------------------
(* The steps                                                               *)

\* What depends on the copy alone changes only with it.
LEMMA KeptOnly ==
    ASSUME UNCHANGED <<kept, shared>>
    PROVE  /\ Fixed' = Fixed /\ Together' = Together /\ Limit' = Limit
           /\ Burst(kept)' = Burst(kept)
           /\ \A l : SizeKept(l)' <=> SizeKept(l)
           /\ \A k \in Fixed : LimiterFor(k[1], k[2])' = LimiterFor(k[1], k[2])
<1>1. Fixed' = Fixed /\ Burst(kept)' = Burst(kept)
  BY DEF Fixed, Burst
<1>2. Together' = Together /\ Limit' = Limit
  BY <1>1 DEF Together, Limit
<1>3. \A l : SizeKept(l)' <=> SizeKept(l)
  BY DEF SizeKept
<1>4. ASSUME NEW k \in Fixed
      PROVE  LimiterFor(k[1], k[2])' = LimiterFor(k[1], k[2])
  <2>1. k[1] = "group" \/ ~shared
    BY DEF Fixed, Group
  <2> QED
    BY <2>1 DEF LimiterFor, CacheConfig, RESTLimiter, GroupConfig, ShallowCopy
<1> QED
  BY <1>1, <1>2, <1>3, <1>4

\* New clients get the limiters that AsBuilt says, and new buckets are full:
\* nobody who shares one has sent anything.
LEMMA CacheStep ==
    ASSUME IInv, NEW new \in SUBSET Client, new \cap DOMAIN limiters = {}, Cache(new),
           UNCHANGED <<config, kept, sent>>, ready => UNCHANGED shared
    PROVE  /\ AsBuilt' /\ SizesKept' /\ BucketsTyped' /\ Spent'
           /\ DOMAIN limiters' = DOMAIN limiters \cup new
<1> DEFINE fresh == [k \in new |-> LimiterFor(k[1], k[2])]
           named == Range(limiters') \ {NoLimiter}
           full == [l \in named |-> Size(l)]
<1>1. /\ limiters' = Merge(limiters, fresh)
      /\ sizes' = Merge(sizes, full)
      /\ tokens' = Merge(tokens, full)
  BY DEF Cache
<1>2. /\ DOMAIN limiters' = DOMAIN limiters \cup new
      /\ \A k \in DOMAIN limiters : limiters'[k] = limiters[k]
      /\ \A k \in new : limiters'[k] = LimiterFor(k[1], k[2])
  BY <1>1 DEF Merge
<1>3. CacheConfig' = CacheConfig /\ CacheConfig \in Config /\ kept \in Config
  BY DEF IInv, KeptAccepted, CacheConfig
<1>4. \A v, w : LimiterFor(v, w)' = LimiterFor(v, w)
  BY <1>3 DEF LimiterFor, RESTLimiter, GroupConfig, ShallowCopy
<1>5. ready \/ DOMAIN limiters = {}
  BY DEF IInv, KeptAccepted
<1>6. AsBuilt'
  <2>1. CASE ready
    BY <1>2, <1>4, <2>1, KeptOnly DEF IInv, AsBuilt
  <2>2. CASE DOMAIN limiters = {}
    BY <1>2, <1>4, <2>2 DEF AsBuilt
  <2> QED
    BY <1>5, <2>1, <2>2
<1>7. /\ DOMAIN tokens \subseteq named /\ DOMAIN sizes = DOMAIN tokens
      /\ \A k \in DOMAIN limiters' : limiters'[k] # NoLimiter => limiters'[k] \in named
  BY <1>2 DEF IInv, BucketsTyped, Range
<1> HIDE DEF named
<1>8. /\ DOMAIN tokens' = named /\ DOMAIN sizes' = named
      /\ \A l \in named :
             /\ tokens'[l] = IF l \in DOMAIN tokens THEN tokens[l] ELSE Size(l)
             /\ sizes'[l] = IF l \in DOMAIN tokens THEN sizes[l] ELSE Size(l)
  BY <1>1, <1>7 DEF Merge
<1>9. \A l : /\ Size(l) \in Nat
             /\ l = Given => Size(l) = GivenBurst
             /\ SizeKept(l)' => Size(l) = Burst(kept)
  <2>1. \A l : Size(l) \in Nat
    BY <1>3, BurstType, ClientsetsAssumption DEF Size
  <2>2. ASSUME NEW l, SizeKept(l)' PROVE Size(l) = Burst(kept)
    <3>1. CacheConfig = kept \/ l[1] # "clientset"
      BY <2>2 DEF SizeKept, CacheConfig, IInv, KeptAccepted
    <3> QED
      BY <2>2, <3>1 DEF SizeKept, Size
  <2> QED
    BY <2>1, <2>2 DEF Size
<1>10. BucketsTyped'
  <2>1. \A l \in DOMAIN tokens : tokens[l] \in Nat /\ tokens[l] <= sizes[l]
    BY DEF IInv, BucketsTyped
  <2>2. \A l \in named : tokens'[l] \in Nat /\ tokens'[l] <= sizes'[l]
    BY <1>8, <1>9, <2>1
  <2> QED
    BY <1>8, <2>2 DEF BucketsTyped, named
<1>11. Burst(kept)' = Burst(kept) /\ Limit' = Limit /\ Limit \in Nat
  BY <1>3, BurstType DEF Limit, Burst
<1>12. SizesKept'
  <2> SUFFICES ASSUME NEW l \in named
               PROVE  /\ sizes'[l] \in Nat
                      /\ l = Given => sizes'[l] = GivenBurst
                      /\ SizeKept(l)' => sizes'[l] = Burst(kept)
    BY <1>8, <1>11 DEF SizesKept
  <2>1. CASE l \notin DOMAIN tokens
    BY <1>8, <1>9, <2>1
  <2>2. CASE l \in DOMAIN tokens
    <3>1. ready
      BY <1>5, <2>2 DEF IInv, BucketsTyped, Range
    <3>2. SizeKept(l)' => SizeKept(l)
      BY <3>1, KeptOnly
    <3> QED
      BY <1>7, <1>8, <2>2, <3>2 DEF IInv, SizesKept
  <2> QED
    BY <2>1, <2>2
<1>13. Spent'
  <2> SUFFICES ASSUME NEW clients \in Together'
               PROVE  /\ clients \cap DOMAIN limiters' = {} => sent[clients] = 0
                      /\ \A k \in clients \cap DOMAIN limiters' :
                             sent[clients] + (IF limiters'[k] = NoLimiter THEN 0
                                              ELSE tokens'[limiters'[k]]) <= Limit
    BY <1>11 DEF Spent
  <2>1. clients \in Counted /\ clients \subseteq Fixed'
    BY DEF Together, Fixed, Counted, Group, Client, View
  <2>2. FixedSizes'
    <3>1. (kept \in Config)'
      BY <1>3
    <3> QED
      BY <1>6, <1>10, <1>12, <3>1, FixedSize, PTL
  <2>3. \A k \in clients \cap DOMAIN limiters' :
            limiters'[k] # NoLimiter =>
                limiters'[k] \in named /\ tokens'[limiters'[k]] \in Nat
                /\ tokens'[limiters'[k]] <= Limit
    <3> SUFFICES ASSUME NEW k \in clients \cap DOMAIN limiters', limiters'[k] # NoLimiter
                 PROVE  limiters'[k] \in named /\ tokens'[limiters'[k]] \in Nat
                        /\ tokens'[limiters'[k]] <= Limit
      OBVIOUS
    <3>1. limiters'[k] \in named /\ sizes'[limiters'[k]] = Limit
      BY <1>8, <1>11, <2>1, <2>2 DEF FixedSizes
    <3> QED
      BY <1>8, <1>10, <3>1 DEF BucketsTyped
  <2>4. CASE ~ready
    BY <1>11, <2>1, <2>3, <2>4 DEF IInv, KeptAccepted
  <2>5. CASE ready /\ clients \cap DOMAIN limiters = {}
    <3>1. sent[clients] = 0
      BY <2>5, KeptOnly DEF IInv, Spent
    <3> QED
      BY <1>11, <2>3, <3>1
  <2>6. ASSUME ready, NEW j \in clients \cap DOMAIN limiters,
               NEW k \in clients \cap DOMAIN limiters'
        PROVE  sent[clients] + (IF limiters'[k] = NoLimiter THEN 0
                                ELSE tokens'[limiters'[k]]) <= Limit
    <3>1. clients \in Together /\ Fixed' = Fixed
      BY <2>6, KeptOnly
    <3>2. sent[clients] + (IF limiters[j] = NoLimiter THEN 0 ELSE tokens[limiters[j]]) <= Limit
      BY <3>1 DEF IInv, Spent
    <3>3. limiters'[k] = limiters[j]
      <4>1. LimiterFor(j[1], j[2]) = LimiterFor(k[1], k[2])
        BY <1>3, <3>1, SharedLimiter
      <4>2. j \in Fixed /\ k \in Fixed
        BY <2>1, <3>1
      <4> QED
        BY <1>2, <4>1, <4>2 DEF IInv, AsBuilt
    <3>4. limiters[j] # NoLimiter => limiters[j] \in DOMAIN tokens
      BY DEF IInv, BucketsTyped, Range
    <3> QED
      BY <1>7, <1>8, <3>2, <3>3, <3>4
  <2> QED
    BY <1>2, <2>4, <2>5, <2>6
<1> QED
  BY <1>2, <1>6, <1>10, <1>12, <1>13

\* A step that leaves the copy, the caches, the buckets and the counts alone.
LEMMA QuietStep ==
    ASSUME IInv, UNCHANGED <<kept, shared, buckets, sent>>
    PROVE  AsBuilt' /\ SizesKept' /\ BucketsTyped' /\ Spent' /\ (sent \in [Counted -> Nat])'
<1>1. UNCHANGED <<limiters, sizes, tokens>>
  BY DEF buckets
<1>2. AsBuilt'
  BY <1>1, KeptOnly DEF IInv, AsBuilt
<1>3. SizesKept'
  BY <1>1, KeptOnly DEF IInv, SizesKept
<1>4. BucketsTyped'
  BY <1>1 DEF IInv, BucketsTyped
<1>5. Spent'
  BY <1>1, KeptOnly DEF IInv, Spent
<1> QED
  BY <1>2, <1>3, <1>4, <1>5 DEF IInv

\* An edit of the config leaves all that was built before it as it was.
LEMMA EditConfigStep ==
    ASSUME IInv, NEW cfg \in Config, NEW field \in {"limiter", "qps", "burst"},
           EditConfig(field, cfg[field])
    PROVE  IInv'
<1>1. ready /\ config' = [config EXCEPT ![field] = cfg[field]]
      /\ UNCHANGED <<kept, shared, ready, buckets, calls, sent>> /\ UNCHANGED limiters
  BY DEF EditConfig, built, buckets
<1>2. config' \in Config
  BY <1>1 DEF IInv, KeptAccepted, Config
<1>3. KeptAccepted' /\ CallsTyped'
  BY <1>1, <1>2 DEF IInv, KeptAccepted, Accepts, CallsTyped
<1> QED
  BY <1>1, <1>3, QuietStep DEF IInv

\* A config that was accepted is accepted for good: what was made of it is kept.
LEMMA MakeStep ==
    ASSUME IInv, NEW pointer \in BOOLEAN, Make(pointer)
    PROVE  IInv'
<1>1. View \X {Root} \in SUBSET Client
  BY ClientsetsAssumption DEF Client
<1>2. DOMAIN limiters = {} /\ ~ready /\ ready' /\ Accepts(config) /\ config = kept
      /\ shared' = pointer /\ UNCHANGED <<config, kept, calls, sent>>
  BY DEF Make, IInv, KeptAccepted
<1>3. /\ AsBuilt' /\ SizesKept' /\ BucketsTyped' /\ Spent'
      /\ DOMAIN limiters \subseteq DOMAIN limiters'
  BY <1>1, <1>2, CacheStep DEF Make
<1>4. KeptAccepted'
  BY <1>2 DEF IInv, KeptAccepted, Accepts
<1>5. CallsTyped'
  BY <1>2, <1>3 DEF IInv, CallsTyped
<1> QED
  BY <1>2, <1>3, <1>4, <1>5 DEF IInv

\* A client comes from its cache or is made; or the call ends in a panic.
LEMMA ClusterOrDieStep ==
    ASSUME IInv, NEW c \in Caller, NEW client \in Client, ready, ClusterOrDie(c, client)
    PROVE  IInv'
<1> DEFINE waits == [op |-> "waits", client |-> client]
           panicked == [op |-> "panicked"]
<1>1. /\ UNCHANGED <<config, kept, shared, ready, sent>>
      /\ \/ Begin(c, waits) /\ client \in DOMAIN limiters /\ UNCHANGED buckets
         \/ Begin(c, waits) /\ client \notin DOMAIN limiters /\ Cache({client})
         \/ Begin(c, panicked) /\ UNCHANGED buckets
  BY DEF ClusterOrDie, built
<1>2. /\ AsBuilt' /\ SizesKept' /\ BucketsTyped' /\ Spent' /\ (sent \in [Counted -> Nat])'
      /\ DOMAIN limiters \subseteq DOMAIN limiters'
      /\ calls' = [calls EXCEPT ![c] = waits] => client \in DOMAIN limiters'
      /\ calls' \in {[calls EXCEPT ![c] = waits], [calls EXCEPT ![c] = panicked]}
  <2>1. CASE UNCHANGED buckets
    <3>1. UNCHANGED limiters
      BY <2>1 DEF buckets
    <3>2. /\ AsBuilt' /\ SizesKept' /\ BucketsTyped' /\ Spent'
          /\ (sent \in [Counted -> Nat])'
      BY <1>1, <2>1, QuietStep
    <3>3. CASE Begin(c, waits) /\ client \in DOMAIN limiters
      BY <3>1, <3>2, <3>3 DEF Begin
    <3>4. CASE Begin(c, panicked)
      <4>1. waits # panicked
        OBVIOUS
      <4>2. calls' = [calls EXCEPT ![c] = panicked] /\ calls'[c] = panicked
        BY <3>4 DEF Begin, IInv, CallsTyped
      <4>3. calls' # [calls EXCEPT ![c] = waits]
        BY <4>1, <4>2 DEF IInv, CallsTyped
      <4> QED
        BY <3>1, <3>2, <4>2, <4>3
    <3>5. CASE Begin(c, waits) /\ client \notin DOMAIN limiters /\ Cache({client})
      <4>1. client \in DOMAIN limiters'
        BY <3>5 DEF Cache, Merge
      <4> QED
        BY <3>1, <3>2, <3>5, <4>1 DEF Begin
    <3> QED
      BY <1>1, <3>3, <3>4, <3>5
  <2>2. CASE Begin(c, waits) /\ client \notin DOMAIN limiters /\ Cache({client})
    <3>1. {client} \in SUBSET Client /\ {client} \cap DOMAIN limiters = {}
      BY <2>2
    <3>2. /\ AsBuilt' /\ SizesKept' /\ BucketsTyped' /\ Spent'
          /\ DOMAIN limiters' = DOMAIN limiters \cup {client}
      BY <1>1, <2>2, <3>1, CacheStep
    <3> QED
      BY <1>1, <2>2, <3>2 DEF Begin, IInv
  <2> QED
    BY <1>1, <2>1, <2>2
<1>3. KeptAccepted'
  BY <1>1 DEF IInv, KeptAccepted, Accepts
<1>4. CallsTyped'
  <2>1. waits \in Call /\ panicked \in Call /\ panicked.op # "waits"
    BY DEF Call
  <2>2. calls \in [Caller -> Call]
        /\ \A d \in Caller : calls[d].op = "waits" => calls[d].client \in DOMAIN limiters
    BY DEF IInv, CallsTyped
  <2>3. CASE calls' = [calls EXCEPT ![c] = waits]
    BY <1>2, <2>1, <2>2, <2>3 DEF CallsTyped
  <2>4. CASE calls' = [calls EXCEPT ![c] = panicked]
    BY <1>2, <2>1, <2>2, <2>4 DEF CallsTyped
  <2> QED
    BY <1>2, <2>3, <2>4
<1> QED
  BY <1>2, <1>3, <1>4 DEF IInv

\* A token for a request: whoever counts it shares the bucket it is taken from.
LEMMA SendStep ==
    ASSUME IInv, NEW c \in Caller, Send(c)
    PROVE  IInv'
<1>1. PICK client, l :
         /\ client = calls[c].client /\ l = limiters[client]
         /\ l # NoLimiter => tokens[l] > 0
         /\ tokens' = IF l = NoLimiter THEN tokens ELSE [tokens EXCEPT ![l] = @ - 1]
         /\ sent' = [clients \in Counted |->
                         IF l # NoLimiter /\ client \in clients
                         THEN sent[clients] + 1 ELSE sent[clients]]
  BY DEF Send
<1>2. UNCHANGED <<config, kept, shared, ready, limiters, sizes>> /\ Begin(c, Idle)
      /\ calls[c].op = "waits"
  BY DEF Send, built
<1>3. client \in DOMAIN limiters /\ (l # NoLimiter => l \in DOMAIN tokens)
  BY <1>1, <1>2 DEF IInv, CallsTyped, BucketsTyped, Range
<1>4. Together' = Together /\ Limit' = Limit /\ Limit \in Nat /\ kept \in Config
  BY <1>2, KeptOnly, BurstType DEF IInv, KeptAccepted
<1>5. AsBuilt' /\ SizesKept'
  BY <1>2, KeptOnly DEF IInv, AsBuilt, SizesKept
<1>6. KeptAccepted'
  <2>1. ready
    BY <1>3 DEF IInv, KeptAccepted
  <2> QED
    BY <1>2, <2>1 DEF IInv, KeptAccepted, Accepts
<1>7. CallsTyped'
  BY <1>2 DEF IInv, CallsTyped, Begin, Call, Idle
<1>8. /\ DOMAIN tokens' = DOMAIN tokens
      /\ \A m \in DOMAIN tokens : tokens[m] \in Nat /\ tokens[m] <= sizes[m]
      /\ \A m \in DOMAIN tokens :
             tokens'[m] = IF l # NoLimiter /\ m = l THEN tokens[m] - 1 ELSE tokens[m]
  BY <1>1, <1>3 DEF IInv, BucketsTyped
<1>9. \A m \in DOMAIN tokens : tokens'[m] \in Nat /\ tokens'[m] <= tokens[m]
  BY <1>1, <1>8
<1>10. BucketsTyped'
  <2>1. \A m \in DOMAIN tokens : sizes[m] \in Nat
    BY DEF IInv, BucketsTyped, SizesKept
  <2> QED
    BY <1>2, <1>8, <1>9, <2>1 DEF IInv, BucketsTyped
<1>11. \A clients \in Counted :
          /\ sent[clients] \in Nat
          /\ sent'[clients] = IF l # NoLimiter /\ client \in clients
                             THEN sent[clients] + 1 ELSE sent[clients]
  BY <1>1 DEF IInv
<1>12. (sent \in [Counted -> Nat])'
  BY <1>1 DEF IInv
<1>13. Spent'
  <2> SUFFICES ASSUME NEW clients \in Together
               PROVE  /\ clients \cap DOMAIN limiters = {} => sent'[clients] = 0
                      /\ \A k \in clients \cap DOMAIN limiters :
                             sent'[clients] + (IF limiters[k] = NoLimiter THEN 0
                                               ELSE tokens'[limiters[k]]) <= Limit
    BY <1>2, <1>4 DEF Spent
  <2>1. /\ clients \cap DOMAIN limiters = {} => sent[clients] = 0
        /\ \A k \in clients \cap DOMAIN limiters :
               sent[clients] + (IF limiters[k] = NoLimiter THEN 0 ELSE tokens[limiters[k]])
                   <= Limit
    BY DEF IInv, Spent
  <2>2. \A k \in DOMAIN limiters : limiters[k] # NoLimiter => limiters[k] \in DOMAIN tokens
    BY DEF IInv, BucketsTyped, Range
  <2>3. clients \in Counted /\ clients \subseteq Fixed
    BY TogetherFixed
  <2>4. CASE client \in clients /\ l # NoLimiter
    <3> SUFFICES ASSUME NEW k \in clients \cap DOMAIN limiters
                 PROVE  sent'[clients] + (IF limiters[k] = NoLimiter THEN 0
                                          ELSE tokens'[limiters[k]]) <= Limit
      BY <1>3, <2>4
    <3>1. limiters[k] = l
      <4>1. LimiterFor(client[1], client[2]) = LimiterFor(k[1], k[2])
        BY <1>4, <2>4, SharedLimiter
      <4> QED
        BY <1>1, <1>3, <2>3, <2>4, <4>1 DEF IInv, AsBuilt
    <3>2. sent'[clients] = sent[clients] + 1 /\ tokens'[l] = tokens[l] - 1
          /\ sent[clients] \in Nat /\ tokens[l] \in Nat
      BY <1>3, <1>8, <1>11, <2>3, <2>4
    <3> QED
      BY <1>4, <2>1, <2>4, <3>1, <3>2
  <2>5. CASE ~(client \in clients /\ l # NoLimiter)
    <3>1. sent'[clients] = sent[clients] /\ sent[clients] \in Nat
      BY <1>11, <2>3, <2>5
    <3> QED
      BY <1>4, <1>8, <1>9, <2>1, <2>2, <3>1
  <2> QED
    BY <2>4, <2>5
<1> QED
  BY <1>5, <1>6, <1>7, <1>10, <1>12, <1>13 DEF IInv

\* A Tick puts a token into every bucket that is not full, and the count starts anew.
LEMMA TickStep ==
    ASSUME IInv, Tick
    PROVE  IInv'
<1>1. UNCHANGED <<config, kept, shared, ready, limiters, sizes, calls>>
      /\ DOMAIN tokens' = DOMAIN tokens
      /\ \A l \in DOMAIN tokens :
             tokens'[l] = IF tokens[l] < sizes[l] THEN tokens[l] + 1 ELSE tokens[l]
  BY DEF Tick, built
<1>2. Together' = Together /\ Limit' = Limit /\ Limit \in Nat /\ kept \in Config
  BY <1>1, KeptOnly, BurstType DEF IInv, KeptAccepted
<1>3. (sent \in [Counted -> Nat])' /\ \A clients \in Counted : sent'[clients] = 0
  BY DEF Tick
<1>4. KeptAccepted' /\ CallsTyped'
  BY <1>1, <1>3 DEF IInv, KeptAccepted, Accepts, CallsTyped
<1>5. AsBuilt' /\ SizesKept'
  BY <1>1, KeptOnly DEF IInv, AsBuilt, SizesKept
<1>6. \A l \in DOMAIN tokens : tokens'[l] \in Nat /\ tokens'[l] <= sizes[l]
  <2>1. \A l \in DOMAIN tokens : sizes[l] \in Nat /\ tokens[l] \in Nat /\ tokens[l] <= sizes[l]
    BY DEF IInv, BucketsTyped, SizesKept
  <2> QED
    BY <1>1, <2>1
<1>7. BucketsTyped'
  BY <1>1, <1>6 DEF IInv, BucketsTyped
<1>8. FixedSizes
  BY <1>2, FixedSize DEF IInv
<1>9. Spent'
  BY <1>1, <1>2, <1>3, <1>6, <1>8, TogetherFixed DEF Spent, FixedSizes
<1> QED
  BY <1>3, <1>4, <1>5, <1>7, <1>9 DEF IInv

\* Every step keeps the inductive invariant.
LEMMA IInvStep == IInv /\ [Next]_vars => IInv'
<1> SUFFICES ASSUME IInv, [Next]_vars PROVE IInv'
  OBVIOUS
<1>1. ASSUME NEW cfg \in Config, NEW field \in {"limiter", "qps", "burst"},
             EditConfig(field, cfg[field])
      PROVE  IInv'
  BY <1>1, EditConfigStep
<1>2. CASE NewForConfig \/ NewForConfigAndClient
  BY <1>2, MakeStep DEF NewForConfig, NewForConfigAndClient
<1>3. ASSUME NEW c \in Caller, NEW view \in View, NEW ws \in Workspace \cup {Wildcard},
             Cluster(c, view, ws)
      PROVE  IInv'
  <2>1. <<view, ws>> \in Client /\ ready /\ ClusterOrDie(c, <<view, ws>>)
    BY <1>3 DEF Cluster, Client
  <2> QED
    BY <2>1, ClusterOrDieStep
<1>4. ASSUME NEW c \in Caller, AllClusters(c) PROVE IInv'
  <2>1. <<"group", Wildcard>> \in Client /\ ready /\ ClusterOrDie(c, <<"group", Wildcard>>)
    BY <1>4 DEF AllClusters, Client, View
  <2> QED
    BY <2>1, ClusterOrDieStep
<1>5. ASSUME NEW c \in Caller, Send(c) PROVE IInv'
  BY <1>5, SendStep
<1>6. CASE Tick
  BY <1>6, TickStep
<1>7. CASE UNCHANGED vars
  <2>1. UNCHANGED <<config, kept, shared, ready, buckets, calls, sent>> /\ UNCHANGED limiters
    BY <1>7 DEF vars, built, buckets
  <2>2. KeptAccepted' /\ CallsTyped'
    BY <2>1 DEF IInv, KeptAccepted, Accepts, CallsTyped
  <2> QED
    BY <2>1, <2>2, QuietStep DEF IInv
<1> QED
  BY <1>1, <1>2, <1>3, <1>4, <1>5, <1>6, <1>7 DEF Next

\* The inductive invariant holds always.
LEMMA Invariance == Spec => []IInv
BY InitIInv, IInvStep, PTL DEF Spec
-----------------------------------------------------------------------------
(* Theorems                                                                *)

\* What a step that makes a call panic has found.
PanicStep ==
    \A c \in Caller :
        (calls[c].op # "panicked" /\ calls'[c].op = "panicked") => shared /\ ~Accepts(config)

\* The clientset's constructor refuses only what the cache builds from now, and
\* that is what was accepted unless the cache shares the caller's config.
LEMMA ClusterOrDiePanics ==
    ASSUME IInv, ready, NEW c \in Caller, NEW client, ClusterOrDie(c, client)
    PROVE  PanicStep
<1>1. CASE Begin(c, [op |-> "waits", client |-> client])
  BY <1>1 DEF PanicStep, Begin, IInv, CallsTyped
<1>2. CASE Begin(c, [op |-> "panicked"]) /\ ~Accepts(CacheConfig)
  <2>1. shared /\ CacheConfig = config
    BY <1>2 DEF IInv, KeptAccepted, CacheConfig
  <2> QED
    BY <1>2, <2>1 DEF PanicStep
<1> QED
  BY <1>1, <1>2 DEF ClusterOrDie

\* A call panics only over a config the clientset shares with the program and
\* that would be refused as it is now: never in a clientset of NewForConfig, and
\* in one of NewForConfigAndClient only after such an edit, in any workspace, for
\* any number of edits and callers (clientset.go:75-124 of cluster).
THEOREM ScopingIsSafe == Spec => PanicsOnlyOfSharedConfig
<1>1. IInv /\ [Next]_vars => [PanicStep]_vars
  <2> SUFFICES ASSUME IInv, Next PROVE PanicStep
    OBVIOUS
  <2>1. ASSUME UNCHANGED calls PROVE PanicStep
    BY <2>1 DEF PanicStep
  <2>2. ASSUME NEW cfg \in Config, NEW field \in {"limiter", "qps", "burst"},
               EditConfig(field, cfg[field])
        PROVE  PanicStep
    BY <2>1, <2>2 DEF EditConfig
  <2>3. CASE NewForConfig \/ NewForConfigAndClient
    BY <2>1, <2>3 DEF NewForConfig, NewForConfigAndClient, Make
  <2>4. ASSUME NEW c \in Caller, NEW view \in View, NEW ws \in Workspace \cup {Wildcard},
               Cluster(c, view, ws)
        PROVE  PanicStep
    BY <2>4, ClusterOrDiePanics DEF Cluster
  <2>5. ASSUME NEW c \in Caller, AllClusters(c) PROVE PanicStep
    BY <2>5, ClusterOrDiePanics DEF AllClusters
  <2>6. ASSUME NEW c \in Caller, Send(c) PROVE PanicStep
    BY <2>6 DEF Send, Begin, Idle, PanicStep, IInv, CallsTyped
  <2>7. CASE Tick
    BY <2>1, <2>7 DEF Tick
  <2> QED
    BY <2>2, <2>3, <2>4, <2>5, <2>6, <2>7 DEF Next
<1>2. [PanicStep]_vars => [\A c \in Caller :
           (calls[c].op # "panicked" /\ calls'[c].op = "panicked")
               => shared /\ ~Accepts(config)]_vars
  BY DEF PanicStep
<1> QED
  BY <1>1, <1>2, Invariance, PTL DEF Spec, PanicsOnlyOfSharedConfig

\* Clients that share a limit, and whose config nobody can change any more, never
\* send more than one burst between two ticks, in whichever order they were made
\* and however many callers there are.
THEOREM LimitsAreKept == Spec => []WithinBurst
<1>1. ASSUME IInv PROVE WithinBurst
  <2> SUFFICES ASSUME NEW clients \in Together
               PROVE  sent[clients] <= Limit
    BY DEF WithinBurst
  <2>1. Limit \in Nat /\ sent[clients] \in Nat
    BY <1>1, BurstType, TogetherFixed DEF IInv, KeptAccepted
  <2>2. CASE clients \cap DOMAIN limiters = {}
    BY <1>1, <2>1, <2>2 DEF IInv, Spent
  <2>3. ASSUME NEW k \in clients \cap DOMAIN limiters
        PROVE  sent[clients] <= Limit
    <3>1. sent[clients] + (IF limiters[k] = NoLimiter THEN 0 ELSE tokens[limiters[k]])
             <= Limit
      BY <1>1 DEF IInv, Spent
    <3>2. limiters[k] # NoLimiter => tokens[limiters[k]] \in Nat
      BY <1>1 DEF IInv, BucketsTyped, Range
    <3> QED
      BY <2>1, <3>1, <3>2
  <2> QED
    BY <2>2, <2>3
<1> QED
  BY <1>1, Invariance, PTL
=============================================================================
