----------------------------- MODULE Clientsets -----------------------------
(***************************************************************************)
(* The clientsets of the SDK and their rate limits                         *)
(* (sdk/clientset/versioned).                                              *)
(*                                                                         *)
(* A ClusterClientset is made from one rest.Config and serves every        *)
(* workspace.  There are two ways to a workspace's client: Cluster(path)   *)
(* of the clientset, and Cluster(path) of its API group's cluster client.  *)
(* Both build the client of a workspace on the first use and cache it.     *)
(* The first is built from the config NewForConfigAndClient was given, the *)
(* second from a copy of it with a rate limiter in.  What it was given is  *)
(* a copy when NewForConfig called it; a program that calls it itself      *)
(* shares its own rest.Config with the first cache for good.               *)
(*                                                                         *)
(* A limiter is a bucket of tokens, named by what it was made for; a Tick  *)
(* of 1/QPS seconds puts one token back into every bucket.                 *)
(***************************************************************************)
EXTENDS Naturals, Functions

CONSTANTS
    Workspace,     \* workspaces
    Root,          \* the one whose client a constructor builds to try the config
    Wildcard,      \* all workspaces
    Caller,        \* goroutines
    MaxBurst,      \* bound: values of Burst
    DefaultBurst,  \* what client-go takes when Burst is not set
    GivenBurst,    \* size of the limiter a config may bring along
    MaxEdits       \* bound: changes of the caller's config

ASSUME ClientsetsAssumption ==
    /\ Root \in Workspace /\ Wildcard \notin Workspace
    /\ MaxBurst \in Nat /\ DefaultBurst \in Nat \ {0} /\ GivenBurst \in Nat \ {0}

VARIABLES
    config,    \* the caller's rest.Config
    edits,     \* number of changes to it so far
    kept,      \* the value it had when the clientset was made
    shared,    \* the clientset's cache has a pointer to it
    ready,     \* the clientset was made
    limiters,  \* partial map: the limiter of each client in the caches
    sizes,     \* partial map: the size of each bucket
    tokens,    \* partial map: what is left in each bucket
    calls,     \* what each caller is doing
    sent       \* requests since the last Tick, for every set of clients in Counted

built == <<kept, shared, ready>>
buckets == <<limiters, sizes, tokens>>
vars == <<config, edits, built, buckets, calls, sent>>

NoLimiter == <<>>
Given == <<"given">>
View == {"clientset", "group"}
Client == View \X (Workspace \cup {Wildcard})

\* Clients whose requests are counted: each alone, those of the group, all.
Group == {"group"} \X (Workspace \cup {Wildcard})
Counted == {{client} : client \in Client} \cup {Group, Client}

Config == [limiter: {NoLimiter, Given}, qps: {"unset", "positive", "negative"},
           burst: 0..MaxBurst]
-----------------------------------------------------------------------------
(* From configs to limiters                                                *)

\* Mutant: a Burst of zero is not refused.
Bug_Accepts(cfg) == TRUE
Accepts(cfg) ==
    (cfg.limiter = NoLimiter /\ cfg.qps = "positive") => cfg.burst > 0

\* configShallowCopy: the config with a limiter of its own, when it needs one.
ShallowCopy(cfg, limiter) ==
    IF cfg.limiter = NoLimiter /\ cfg.qps = "positive"
    THEN [cfg EXCEPT !.limiter = limiter] ELSE cfg

\* What the clientset's cache builds from: what its pointer shows now.
\* Mutant: NewForConfig passes the caller's pointer on.
Bug_CacheConfig == config
CacheConfig == IF shared THEN config ELSE kept

\* ... and the group's cache: always a copy of its own.
\* Mutant: the limiter is not put in.
Bug_GroupConfig == kept
GroupConfig == ShallowCopy(kept, <<"all">>)

\* A REST client makes a limiter when its config has none.
RESTLimiter(cfg, limiter) ==
    IF cfg.limiter # NoLimiter THEN cfg.limiter
    ELSE IF cfg.qps = "negative" THEN NoLimiter ELSE limiter

LimiterFor(view, ws) ==
    IF view = "group" THEN RESTLimiter(GroupConfig, <<view, ws>>)
    ELSE RESTLimiter(ShallowCopy(CacheConfig, <<view, ws>>), <<view, ws>>)

\* The size of a bucket made for a config, and of the one named l.
Burst(cfg) ==
    IF cfg.burst = 0 /\ ~(cfg.limiter = NoLimiter /\ cfg.qps = "positive")
    THEN DefaultBurst ELSE cfg.burst

Size(l) ==
    IF l = Given THEN GivenBurst
    ELSE Burst(IF l[1] = "clientset" THEN CacheConfig ELSE kept)
-----------------------------------------------------------------------------
Idle == [op |-> "idle"]
Begin(c, call) == calls' = [calls EXCEPT ![c] = call]

Init ==
    /\ config \in Config /\ edits = 0
    /\ kept = config /\ shared = FALSE /\ ready = FALSE
    /\ limiters = <<>> /\ sizes = <<>> /\ tokens = <<>>
    /\ sent = [clients \in Counted |-> 0]
    /\ calls = [c \in Caller |-> Idle]

\* The caller sets a field of the config it has made a clientset from.
EditConfig(field, value) ==
    /\ ready
    /\ edits < MaxEdits /\ edits' = edits + 1
    /\ config' = [config EXCEPT ![field] = value]
    /\ UNCHANGED <<built, buckets, calls, sent>>

\* A map with more entries, for the keys it does not have yet.
Merge(map, more) ==
    [k \in DOMAIN map \cup DOMAIN more |-> IF k \in DOMAIN map THEN map[k] ELSE more[k]]

\* Puts a client into its cache, and a full bucket behind a new limiter.
Cache(new) ==
    /\ limiters' = Merge(limiters, [k \in new |-> LimiterFor(k[1], k[2])])
    /\ LET full == [l \in Range(limiters') \ {NoLimiter} |-> Size(l)]
       IN sizes' = Merge(sizes, full) /\ tokens' = Merge(tokens, full)

\* The config is refused, or tried on root in both caches.
Make(pointer) ==
    /\ ~ready
    /\ Accepts(config)
    /\ ready' = TRUE /\ shared' = pointer
    /\ Cache(View \X {Root})
    /\ UNCHANGED <<config, edits, kept, calls, sent>>

\* The cache gets the pointer it is called with ...
NewForConfigAndClient == Make(TRUE)

\* ... which NewForConfig has made of a copy.
NewForConfig == Make(FALSE)

\* Only the calls that list and watch everything may use the wildcard.
Scopes(ws) == ws # Wildcard

\* ClusterOrDie: the cached client, or a new one; only the constructor of a
\* clientset may refuse the config.  The request of the caller then waits for
\* the client's limiter.
ClusterOrDie(c, client) ==
    /\ IF client \in DOMAIN limiters \/ client[1] = "group" \/ Accepts(CacheConfig)
       THEN /\ Begin(c, [op |-> "waits", client |-> client])
            /\ IF client \in DOMAIN limiters THEN UNCHANGED buckets ELSE Cache({client})
       ELSE /\ Begin(c, [op |-> "panicked"])
            /\ UNCHANGED buckets
    /\ UNCHANGED <<config, edits, built, sent>>

\* Cluster of a clientset, of a group's and of a type's cluster client.
Cluster(c, view, ws) ==
    /\ ready /\ calls[c] = Idle
    /\ Scopes(ws)
    /\ ClusterOrDie(c, <<view, ws>>)

\* List and Watch of a type's cluster client go to the wildcard.
AllClusters(c) ==
    /\ ready /\ calls[c] = Idle
    /\ ClusterOrDie(c, <<"group", Wildcard>>)

\* The limiter lets the request pass, for a token if there is a bucket.
Send(c) ==
    /\ calls[c].op = "waits"
    /\ LET client == calls[c].client
           l == limiters[client]
       IN /\ l # NoLimiter => tokens[l] > 0
          /\ tokens' = IF l = NoLimiter THEN tokens ELSE [tokens EXCEPT ![l] = @ - 1]
          /\ sent' = [clients \in Counted |->
                 IF l # NoLimiter /\ client \in clients
                 THEN sent[clients] + 1 ELSE sent[clients]]
    /\ Begin(c, Idle)
    /\ UNCHANGED <<config, edits, built, limiters, sizes>>

Tick ==
    /\ tokens' = [l \in DOMAIN tokens |->
                     IF tokens[l] < sizes[l] THEN tokens[l] + 1 ELSE tokens[l]]
    /\ sent' = [clients \in Counted |-> 0]
    /\ UNCHANGED <<config, edits, built, limiters, sizes, calls>>

Next ==
    \/ \E cfg \in Config, field \in {"limiter", "qps", "burst"} : EditConfig(field, cfg[field])
    \/ NewForConfig \/ NewForConfigAndClient
    \/ \E c \in Caller :
        \/ \E view \in View, ws \in Workspace \cup {Wildcard} : Cluster(c, view, ws)
        \/ AllClusters(c)
        \/ Send(c)
    \/ Tick

Spec == Init /\ [][Next]_vars

\* Time passes, and a limiter serves those who wait in turn.
FairSpec == Spec /\ WF_vars(Tick) /\ \A c \in Caller : SF_vars(Send(c))
-----------------------------------------------------------------------------
(* Properties                                                              *)

\* NewForConfig has tried what its cache uses for good, so scoping never panics,
\* whatever becomes of the caller's config.  Who calls NewForConfigAndClient
\* answers for that config: only one it would not accept any more makes a call
\* panic, and only for a workspace that has no client yet (clientset.go:89, 105).
PanicsOnlyOfSharedConfig ==
    [][\A c \in Caller :
           (calls[c].op # "panicked" /\ calls'[c].op = "panicked")
               => shared /\ ~Accepts(config)]_vars

\* The clients whose config nobody can change any more.
Fixed == IF shared THEN Group ELSE Client

\* Those that share a limit: each client for itself, all of the API group when
\* QPS is set, and all there are when the config came with a limiter.
Together ==
    {{client} : client \in Fixed}
    \cup (IF kept.qps = "positive" THEN {Group} ELSE {})
    \cup (IF kept.limiter = Given THEN {Fixed} ELSE {})

Limit == IF kept.limiter = Given THEN GivenBurst ELSE Burst(kept)

\* Between two Ticks no more than a burst is sent by all clients together that
\* share a limit, whoever made them first, in which cache they are and whoever
\* else empties the bucket (cluster/clientset.go:95-124,
\* initialization_client.go:74-82).  A negative QPS asks for no limit.
WithinBurst == \A clients \in Together : sent[clients] <= Limit

\* A request is not held back for good, whoever else shares its bucket.
RequestsAreSent == \A c \in Caller : (calls[c].op = "waits") ~> (calls[c].op # "waits")

=============================================================================
